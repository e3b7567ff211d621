---------------------------- MODULE SettingsProofs -----------------------------
(***************************************************************************)
(* What two programs plan is what was asked when the plan was begun, for   *)
(* any writes of the settings, any tokens, consoles and titles.  A plan    *)
(* made is, in the inductive invariant, the compiler's word on the copy of *)
(* the settings it was begun with; the rest is about the compiler.  And    *)
(* every plan compiled is complete: of settings and a context of their     *)
(* types, the compiler makes a plan of its types, whatever the numbers.    *)
(***************************************************************************)
EXTENDS StreamSettings, FiniteSetTheorems, WellFoundedInduction, TLAPS

\* A set of numbers has a least one.
LEMMA LeastExists == ASSUME NEW T, T \subseteq Nat, T # {} PROVE \E x \in T : \A y \in T : x <= y
<1> DEFINE R == OpToRel(<, Nat)
<1>1. IsWellFoundedOn(R, Nat)
  BY NatLessThanWellFounded
<1>2. PICK x \in T : \A y \in T : ~(<<y, x>> \in R)
  BY <1>1, WFMin
<1>3. \A y \in T : y < x => <<y, x>> \in R
  BY DEF OpToRel
<1>4. \A y \in T : ~(y < x)
  <2> HIDE DEF R
  <2> QED BY <1>2, <1>3
<1> QED BY <1>4

\* The least number of a set is in it.
LEMMA MinIsLeast == ASSUME NEW T, T \subseteq Nat, T # {} PROVE Min(T) \in T /\ \A y \in T : Min(T) <= y
  BY LeastExists DEF Min

\* A compiled value is no rejection.
LEMMA CompiledIsNotRejected == \A value : ~IsRejected(Compiled(value)) /\ Compiled(value).ok = value
  BY DEF IsRejected, Compiled

\* A rejection is one.
LEMMA RejectedIsRejected == \A error : IsRejected(Rejected(error)) /\ Rejected(error).error = error
  BY DEF IsRejected, Rejected

-----------------------------------------------------------------------------
(* The compiler: what it makes of any preferences is complete.             *)

\* A title's capabilities.
Capabilities == [mkb : BOOLEAN, touch : BOOLEAN, nativeTouch : BOOLEAN]

\* What a host knows of a session.
IsContext(context) ==
    /\ context.target \in PlanTargets
    /\ context.access.regions \in Seq(Range(context.access.regions))
    /\ \A r \in Range(context.access.regions) : IsRegion(r)
    /\ context.runtime.browserWebrtc \in BOOLEAN /\ context.runtime.rustOwned \in BOOLEAN
    /\ context.runtime.preferBrowser \in BOOLEAN /\ context.runtime.nativeMkb \in BOOLEAN
    /\ context.runtime.touchSurface \in BOOLEAN
    /\ context.fallbackTurn \in AtMostOne(TurnServers)
    /\ context.title \in Capabilities
    /\ context.inputConfig # <<>> => context.inputConfig[1] \in Capabilities
    /\ context.remotePlay.addrs \in SUBSET Strings

\* The region picked is one of the list.
LEMMA PickedIsListed ==
    ASSUME NEW S, NEW regions \in Seq(S), regions # <<>>, NEW session
    PROVE  PickRegion(regions, session) \in Range(regions)
<1> DEFINE forced == {i \in DOMAIN regions : session.forceIp # Blank /\ session.forceIp \in regions[i].contains}
           spelled == {i \in DOMAIN regions : session.regionName # <<>> /\ session.regionName[1] = regions[i].name}
           named == {i \in DOMAIN regions : session.regionName # <<>> /\ session.regionName[2] = regions[i].folded}
           default == {i \in DOMAIN regions : regions[i].default}
           tier == IF forced # {} THEN forced ELSE IF spelled # {} THEN spelled
                   ELSE IF named # {} THEN named ELSE IF default # {} THEN default ELSE DOMAIN regions
<1>0. DOMAIN regions = 1 .. Len(regions) /\ Len(regions) \in Nat \ {0}
  OBVIOUS
<1>1. tier \subseteq DOMAIN regions /\ tier # {} /\ tier \subseteq Nat
  <2>1. 1 \in DOMAIN regions /\ DOMAIN regions \subseteq Nat
    BY <1>0
  <2> QED BY <2>1
<1>2. PickRegion(regions, session) = regions[Min(tier)]
  BY DEF PickRegion
<1> HIDE DEF tier
<1>3. Min(tier) \in DOMAIN regions
  BY <1>1, MinIsLeast
<1> QED BY <1>2, <1>3 DEF Range

\* Access is of a region of the token, or refused for one of the compiler's reasons.
LEMMA AccessTyped ==
    ASSUME NEW config, NEW context, IsContext(context)
    PROVE  LET access == ResolveSessionAccess(config, context)
           IN  IF IsRejected(access) THEN access.error \in CompileErrors ELSE access.ok.host \in Strings
<1> DEFINE region == PickRegion(context.access.regions, config.session)
           access == ResolveSessionAccess(config, context)
<1>1. CASE context.access.gsToken = Blank \/ context.access.regions = <<>>
  BY <1>1, RejectedIsRejected DEF ResolveSessionAccess, CompileErrors
<1>2. CASE context.access.gsToken # Blank /\ context.access.regions # <<>>
  <2>1. region.host \in Strings
    BY <1>2, PickedIsListed DEF IsContext, IsRegion
  <2>2. CASE region.host = Blank
    BY <1>2, <2>2, RejectedIsRejected DEF ResolveSessionAccess, CompileErrors
  <2>3. CASE region.host # Blank
    BY <1>2, <2>1, <2>3, CompiledIsNotRejected DEF ResolveSessionAccess
  <2> QED BY <2>2, <2>3
<1> QED BY <1>1, <1>2

\* The resolution of a target.
LEMMA ResolutionTyped ==
    ASSUME NEW config \in Configs, NEW target
    PROVE  SelectResolution(config, target) \in Resolutions
  BY DEF SelectResolution, Configs

\* The device is a device's.
LEMMA DeviceTyped ==
    ASSUME NEW config \in Configs, NEW target
    PROVE  CompileDeviceProfile(config, target) \in [kind : Strings, os : Strings, width : Nat, height : Nat]
<1> DEFINE resolution == SelectResolution(config, target)
           kind == IF config.session.profile # Blank THEN config.session.profile ELSE ResolutionToDeviceKind(resolution)
           size == CASE kind = "android" -> <<1280, 720>>
                     [] kind = "tizen" /\ resolution = "1440" -> <<2560, 1440>>
                     [] OTHER -> <<1920, 1080>>
<1>1. config.session.profile \in Strings
  BY DEF Configs
<1>2. resolution \in {"auto", "720", "1080", "1080hq", "1440"}
  BY ResolutionTyped DEF Resolutions
<1>3. ResolutionToDeviceKind(resolution) \in {"android", "windows", "tizen"}
  <2> HIDE DEF resolution
  <2> QED BY <1>2 DEF ResolutionToDeviceKind
<1>4. {"android", "windows", "tizen"} \subseteq Strings
  BY TextAssumption DEF OwnText
<1>5. kind \in Strings
  BY <1>1, <1>3, <1>4
<1> HIDE DEF kind
<1>6. size[1] \in Nat /\ size[2] \in Nat
  OBVIOUS
<1> HIDE DEF size
<1>7. CompileDeviceProfile(config, target) = [kind |-> kind, os |-> kind, width |-> size[1], height |-> size[2]]
  BY DEF CompileDeviceProfile, kind, size
<1> QED BY <1>5, <1>6, <1>7

\* What the service is told of the device.
LEMMA HttpProfileTyped ==
    ASSUME NEW device
    PROVE  ResolveDeviceHttpProfile(device) \in
               [make : Strings, model : Strings, osVersion : Strings, browser : Strings, agent : Strings]
<1>1. {"Google", "Pixel 8", "14", "chrome", "android", "Microsoft", "Windows Desktop", "10", "edge",
       "Samsung", "Samsung Smart TV", "7.0", "tizen", "Custom Desktop"} \subseteq Strings
  BY TextAssumption DEF OwnText
<1> QED BY <1>1 DEF ResolveDeviceHttpProfile

\* The session of a plan is one.
LEMMA SessionTyped ==
    ASSUME NEW config \in Configs, NEW context, context.target \in PlanTargets, NEW access, access.host \in Strings
    PROVE  CompileSession(config, context, access) \in SessionPlans
<1> DEFINE device == CompileDeviceProfile(config, context.target)
           profile == ResolveDeviceHttpProfile(device)
           display == BuildMsDeviceInfo(context.target, device)
           locale == IF config.session.locale = Blank THEN "en-US" ELSE config.session.locale
           headers == BuildHeaders(config, context.target, device)
           schedule == CompileSessionSchedule(config, context.target)
<1>1. device \in [kind : Strings, os : Strings, width : Nat, height : Nat]
  BY DeviceTyped
<1>2. profile \in [make : Strings, model : Strings, osVersion : Strings, browser : Strings, agent : Strings]
  BY HttpProfileTyped
<1> HIDE DEF device, profile
<1>3. display \in [width : Nat, height : Nat]
  BY <1>1 DEF BuildMsDeviceInfo
<1>4. locale \in Strings
  <2>1. "en-US" \in Strings
    BY TextAssumption DEF OwnText
  <2> QED BY <2>1 DEF Configs
<1> HIDE DEF display, locale
<1>5. headers \in [deviceInfo : [make : Strings, model : Strings, os : Strings, osVersion : Strings, browser : Strings,
                                 width : Nat, height : Nat],
                   userAgent : Strings, forwardedFor : Strings]
  <2>1. config.session.clientIp \in Strings
    BY DEF Configs
  <2>2. headers = [deviceInfo |-> [make |-> profile.make, model |-> profile.model, os |-> device.os,
                                   osVersion |-> profile.osVersion, browser |-> profile.browser,
                                   width |-> display.width, height |-> display.height],
                   userAgent |-> profile.agent, forwardedFor |-> config.session.clientIp]
    BY DEF BuildHeaders, profile, display
  <2> QED BY <1>1, <1>2, <1>3, <2>1, <2>2
<1>6. schedule \in [monitor : Nat, keepalive : Nat, offerPoll : Nat, icePoll : Nat, exchange : Nat,
                    startup : Nat, ready : Nat, backoff : Seq(Nat), wake : BOOLEAN, requireReady : BOOLEAN]
  <2>1. (context.target = "home" /\ config.session.powerOn) \in BOOLEAN
    OBVIOUS
  <2>2. <<1000, 3000, 5000>> \in Seq(Nat)
    OBVIOUS
  <2> QED BY <2>1, <2>2 DEF CompileSessionSchedule
<1> HIDE DEF headers, schedule
<1>7. [locale |-> locale, os |-> device.os, iceConnection |-> FALSE, sdk |-> "web"]
         \in [locale : Strings, os : Strings, iceConnection : BOOLEAN, sdk : Strings]
  <2>1. "web" \in Strings
    BY TextAssumption DEF OwnText
  <2> QED BY <1>1, <1>4, <2>1
<1>8. CompileSession(config, context, access) =
        [target |-> context.target, locale |-> locale, host |-> access.host, device |-> device, schedule |-> schedule,
         play |-> [locale |-> locale, os |-> device.os, iceConnection |-> FALSE, sdk |-> "web"],
         display |-> display, headers |-> headers]
  BY DEF CompileSession, device, locale, display, headers, schedule
<1>9. device \in [kind : DeviceKinds \cup Strings, os : Strings, width : Nat, height : Nat]
  BY <1>1
<1> QED BY <1>3, <1>4, <1>5, <1>6, <1>7, <1>8, <1>9 DEF SessionPlans

\* The mode of the runtime is one of the two, or neither is able.
LEMMA ModeTyped ==
    ASSUME NEW config, NEW context
    PROVE  LET mode == ResolveRuntimeMode(config, context)
           IN  IF IsRejected(mode) THEN mode.error \in CompileErrors ELSE mode.ok \in RuntimeModes
<1> DEFINE able == {m \in RuntimeModes : IF m = "webrtc-direct" THEN context.runtime.browserWebrtc ELSE context.runtime.rustOwned}
           possible == IF config.runtime.mode = "auto" THEN able ELSE able \cap {config.runtime.mode}
           preferred == IF context.runtime.preferBrowser THEN "webrtc-direct" ELSE "rust-owned"
           any == CHOOSE m \in possible : TRUE
<1>1. possible \subseteq RuntimeModes
  OBVIOUS
<1>2. possible # {} => any \in possible
  OBVIOUS
<1>3. ResolveRuntimeMode(config, context) =
        CASE possible = {} -> Rejected("RuntimeUnavailable")
          [] preferred \in possible -> Compiled(preferred)
          [] possible # {} /\ preferred \notin possible -> Compiled(any)
  BY DEF ResolveRuntimeMode
<1> HIDE DEF possible, any, preferred
<1>4. CASE possible = {}
  BY <1>3, <1>4, RejectedIsRejected DEF CompileErrors
<1>5. CASE preferred \in possible
  BY <1>1, <1>3, <1>5, CompiledIsNotRejected
<1>6. CASE possible # {} /\ preferred \notin possible
  BY <1>1, <1>2, <1>3, <1>6, CompiledIsNotRejected
<1> QED BY <1>4, <1>5, <1>6

\* The relay of a plan.
LEMMA TurnTyped ==
    ASSUME NEW config \in Configs, NEW context, IsContext(context)
    PROVE  CompileTurn(config, context).turn \in AtMostOne(TurnServers) /\ CompileTurn(config, context).source \in TurnSources
<1>1. config.runtime.customTurn \in AtMostOne(TurnServers) /\ context.fallbackTurn \in AtMostOne(TurnServers)
  BY DEF Configs, IsContext
<1>2. <<>> \in AtMostOne(TurnServers)
  BY DEF AtMostOne
<1>3. /\ CompileTurn(config, context).turn \in {config.runtime.customTurn, context.fallbackTurn, <<>>}
      /\ CompileTurn(config, context).source \in TurnSources
  BY DEF CompileTurn, TurnSources
<1> QED BY <1>1, <1>2, <1>3

\* The runtime of a plan is one, or cannot be had.
LEMMA RuntimeTyped ==
    ASSUME NEW config \in Configs, NEW context, IsContext(context)
    PROVE  LET runtime == CompileRuntime(config, context)
           IN  IF IsRejected(runtime) THEN runtime.error \in CompileErrors ELSE runtime.ok \in RuntimePlans
<1> DEFINE resolved == ResolveRuntimeMode(config, context)
           mode == resolved.ok
           turn == CompileTurn(config, context)
           remb == CompileRemb(mode)
           video == CompileVideoPipeline(mode, context.target)
           recovery == CompileRecovery(mode)
           owner == IF mode = "webrtc-direct" THEN "browser" ELSE "sidecar"
           bwe == IF mode = "webrtc-direct" THEN "fixed-remb" ELSE "twcc-gcc"
<1>1. CASE IsRejected(resolved)
  BY <1>1, ModeTyped DEF CompileRuntime
<1>2. CASE ~IsRejected(resolved)
  <2>1. mode \in RuntimeModes
    BY <1>2, ModeTyped
  <2>2. turn.turn \in AtMostOne(TurnServers) /\ turn.source \in TurnSources
    BY TurnTyped
  <2>3. CompileRuntime(config, context) =
          Compiled([mode |-> mode, owner |-> owner, turn |-> turn.turn, source |-> turn.source, bwe |-> bwe,
                    remb |-> remb, video |-> video, recovery |-> recovery])
    BY <1>2 DEF CompileRuntime
  <2>4. context.target \in PlanTargets
    BY DEF IsContext
  <2> HIDE DEF mode, turn
  <2>5. owner \in PlanOwners /\ bwe \in BweModes
    BY DEF PlanOwners, BweModes
  <2>6. remb \in [forced : Nat, floor : Nat, ceiling : Nat, up : Nat, down : Nat]
    BY DEF CompileRemb
  <2>7. video \in [feedback : Nat, nackWindow : Nat, nackBurst : Nat, nackMaxAge : Nat, nackRetry : Nat, nackRetries : Nat,
                   jitterMin : Nat, jitterMax : Nat, jitterPackets : Nat, idle : Nat, lateFrame : Nat, backlog : Nat]
    BY <2>1, <2>4 DEF CompileVideoPipeline, RuntimeModes, PlanTargets
  <2>8. recovery \in [firstFrame : Nat, keyframeStall : Nat, lossBurst : Nat, resetWait : Nat, resetCooldown : Nat,
                      reconnectStall : Nat, cooldown : Nat]
    BY DEF CompileRecovery
  <2> HIDE DEF owner, bwe, remb, video, recovery
  <2> QED BY <2>1, <2>2, <2>3, <2>5, <2>6, <2>7, <2>8, CompiledIsNotRejected DEF RuntimePlans
<1> QED BY <1>1, <1>2

\* The codec of a plan.
LEMMA CodecTyped ==
    ASSUME NEW preference \in CodecPreferences \cup Strings
    PROVE  CompileCodec(preference) \in AtMostOne([mime : Strings, profiles : Seq(Strings)])
<1> DEFINE Codecs == [mime : Strings, profiles : Seq(Strings)]
<1>1. {"video/H264", "420", "42e", "4d", "64"} \subseteq Strings
  BY TextAssumption DEF OwnText
<1>2. \A profile \in Strings : [mime |-> "video/H264", profiles |-> <<profile>>] \in Codecs
  BY <1>1
<1>3. \A name \in Strings : [mime |-> name, profiles |-> <<>>] \in Codecs
  OBVIOUS
<1>4. \A codec \in Codecs : <<codec>> \in AtMostOne(Codecs)
  BY DEF AtMostOne
<1>5. <<>> \in AtMostOne(Codecs)
  BY DEF AtMostOne
<1> HIDE DEF Codecs
<1>6. CASE preference = "auto"
  BY <1>5, <1>6 DEF CompileCodec, Codecs
<1>7. CASE preference = "h264Low"
  BY <1>1, <1>2, <1>4, <1>7 DEF CompileCodec, Codecs
<1>8. CASE preference = "h264Normal"
  BY <1>1, <1>2, <1>4, <1>8 DEF CompileCodec, Codecs
<1>9. CASE preference = "h264Main"
  BY <1>1, <1>2, <1>4, <1>9 DEF CompileCodec, Codecs
<1>10. CASE preference = "h264High"
  BY <1>1, <1>2, <1>4, <1>10 DEF CompileCodec, Codecs
<1>11. CASE preference \notin CodecPreferences
  BY <1>3, <1>4, <1>11 DEF CompileCodec, Codecs, CodecPreferences
<1> QED BY <1>6, <1>7, <1>8, <1>9, <1>10, <1>11 DEF CodecPreferences

\* The bitrate of the video.
LEMMA VideoBitrateTyped ==
    ASSUME NEW config \in Configs, NEW target
    PROVE  CompileVideoBitrate(config, target) \in Nat
<1> DEFINE preference == IF target = "home" THEN config.negotiation.homeKbps ELSE config.negotiation.cloudKbps
           resolution == SelectResolution(config, target)
<1>1. preference \in Nat
  BY DEF Configs
<1>2. resolution \in {"auto", "720", "1080", "1080hq", "1440"}
  BY ResolutionTyped DEF Resolutions
<1> HIDE DEF preference, resolution
<1>3. DefaultVideoBitrateKbps(target, resolution) \in Nat
  BY <1>2 DEF DefaultVideoBitrateKbps, Resolutions
<1>4. CompileVideoBitrate(config, target) = IF preference > 0 THEN preference ELSE DefaultVideoBitrateKbps(target, resolution)
  BY DEF CompileVideoBitrate, preference, resolution
<1> QED BY <1>1, <1>3, <1>4

\* The negotiation of a plan is one.
LEMMA NegotiationTyped ==
    ASSUME NEW config \in Configs, NEW context, IsContext(context), NEW mode
    PROVE  CompileNegotiation(config, context, mode) \in NegotiationPlans
<1> DEFINE negotiation == CompileNegotiation(config, context, mode)
           inject == context.target = "home" /\ context.remotePlay.addrs # {}
           ipv6 == IF context.target = "home" THEN config.negotiation.homeIpv6 ELSE config.negotiation.cloudIpv6
           audioKbps == IF config.negotiation.audioKbps > 0 THEN config.negotiation.audioKbps ELSE 128
           stereo == config.negotiation.channels # "mono"
           offerProfile == IF config.negotiation.offerProfile # Blank THEN config.negotiation.offerProfile
                           ELSE IF mode = "webrtc-direct" THEN "browser" ELSE "rust-owned"
           consoleAddrs == IF inject THEN context.remotePlay.addrs ELSE {}
           codec == CompileCodec(config.negotiation.codec)
           videoKbps == CompileVideoBitrate(config, context.target)
<1>1. /\ config.negotiation.homeIpv6 \in BOOLEAN /\ config.negotiation.cloudIpv6 \in BOOLEAN
      /\ config.negotiation.audioKbps \in Nat /\ config.negotiation.offerProfile \in Strings
      /\ config.negotiation.codec \in CodecPreferences \cup Strings
  BY DEF Configs
<1>2. codec \in AtMostOne([mime : Strings, profiles : Seq(Strings)])
  BY <1>1, CodecTyped
<1>3. videoKbps \in Nat
  BY VideoBitrateTyped
<1>4. offerProfile \in Strings
  <2>1. "browser" \in Strings /\ "rust-owned" \in Strings
    BY TextAssumption DEF OwnText
  <2> QED BY <1>1, <2>1
<1>5. ipv6 \in BOOLEAN /\ audioKbps \in Nat /\ stereo \in BOOLEAN /\ inject \in BOOLEAN
  BY <1>1
<1>6. consoleAddrs \in SUBSET Strings
  BY DEF IsContext
<1>7. negotiation = [ipv6 |-> ipv6, codec |-> codec, videoKbps |-> videoKbps, audioKbps |-> audioKbps, stereo |-> stereo,
                     offerProfile |-> offerProfile, inject |-> inject, consoleAddrs |-> consoleAddrs]
  BY DEF CompileNegotiation
<1> HIDE DEF negotiation, inject, ipv6, audioKbps, stereo, offerProfile, consoleAddrs, codec, videoKbps
<1> QED BY <1>2, <1>3, <1>4, <1>5, <1>6, <1>7 DEF NegotiationPlans, negotiation

\* What a title can do, as far as it is known.
LEMMA EffectiveTyped ==
    ASSUME NEW context, IsContext(context)
    PROVE  LET effective == InterpretInputCapabilities(context)
           IN  /\ effective.source \in CapabilitySources
               /\ effective.mkb \in BOOLEAN /\ effective.touch \in BOOLEAN
  BY DEF InterpretInputCapabilities, IsContext, Capabilities, CapabilitySources

\* The input of a plan is one, or cannot be had.
LEMMA InputTyped ==
    ASSUME NEW config \in Configs, NEW context, IsContext(context), NEW runtime, runtime.owner \in PlanOwners
    PROVE  LET input == CompileInput(config, context, runtime)
           IN  IF IsRejected(input) THEN input.error \in CompileErrors ELSE input.ok \in InputPlans
<1> DEFINE mode == ResolveInputMode(config, context)
           touch == ResolveTouchEnabled(config, context)
           pollingHz == IF config.input.pollingHz > 1 THEN config.input.pollingHz ELSE 1
           touchPoints == IF touch THEN 10 ELSE 0
           mkb == mode.ok = "nativeMkb"
           microphone == config.input.microphone = "startWithSession"
<1>1. /\ config.input.pollingHz \in Nat /\ config.input.vibration \in BOOLEAN /\ config.input.virtualMkb \in BOOLEAN
      /\ config.input.mode \in {"auto", "physicalGamepad", "virtualGamepad", "nativeMkb"}
  BY DEF Configs, InputPreferences
<1>2. IF IsRejected(mode) THEN mode.error \in CompileErrors ELSE mode.ok \in InputModes
  <2>1. mode \in {Compiled(config.input.mode), Compiled("nativeMkb"), Rejected("NativeMkbUnavailable"),
                  Compiled("virtualGamepad"), Compiled("physicalGamepad")}
    BY DEF ResolveInputMode
  <2>2. mode = Compiled(config.input.mode) => config.input.mode \in InputModes
    <3> USE CompiledIsNotRejected, RejectedIsRejected
    <3>1. CASE config.input.mode \in {"physicalGamepad", "virtualGamepad", "nativeMkb"}
      BY <3>1 DEF InputModes
    <3>2. CASE config.input.mode = "auto"
      <4>1. mode \in {Compiled("nativeMkb"), Compiled("virtualGamepad"), Compiled("physicalGamepad")}
        BY <3>2 DEF ResolveInputMode
      <4>2. mode.ok \in InputModes /\ ~IsRejected(mode)
        BY <4>1, CompiledIsNotRejected DEF InputModes
      <4> HIDE DEF mode
      <4> QED BY <4>2, CompiledIsNotRejected
    <3> QED BY <1>1, <3>1, <3>2
  <2> HIDE DEF mode
  <2> QED BY <2>1, <2>2, CompiledIsNotRejected, RejectedIsRejected DEF InputModes, CompileErrors
<1>3. touch \in BOOLEAN
  BY DEF ResolveTouchEnabled
<1> HIDE DEF mode, touch
<1>4. CASE IsRejected(mode)
  BY <1>2, <1>4 DEF CompileInput, mode
<1>5. CASE ~IsRejected(mode)
  <2>1. CompileInput(config, context, runtime) =
          Compiled([owner |-> runtime.owner, mode |-> mode.ok, pollingHz |-> pollingHz, vibration |-> config.input.vibration,
                    mkb |-> mkb, touch |-> touch, touchPoints |-> touchPoints, microphone |-> microphone])
    BY <1>5 DEF CompileInput, mode, touch
  <2>2. pollingHz \in Nat /\ touchPoints \in Nat /\ mkb \in BOOLEAN /\ microphone \in BOOLEAN
    BY <1>1
  <2> HIDE DEF pollingHz, touchPoints, mkb, microphone
  <2>3. [owner |-> runtime.owner, mode |-> mode.ok, pollingHz |-> pollingHz, vibration |-> config.input.vibration,
         mkb |-> mkb, touch |-> touch, touchPoints |-> touchPoints, microphone |-> microphone] \in InputPlans
    BY <1>1, <1>2, <1>3, <1>5, <2>2 DEF InputPlans
  <2> QED BY <2>1, <2>3, CompiledIsNotRejected
<1> QED BY <1>4, <1>5

\* For any preferences and any facts: the compiler makes a complete plan of them, or says
\* which of its reasons keeps it from one.
\* (policy/compiler.rs, compile)
THEOREM PlanIsComplete ==
    ASSUME NEW config \in Configs, NEW context, IsContext(context)
    PROVE  LET result == CompilePlan(config, context)
           IN  IF IsRejected(result) THEN result.error \in CompileErrors ELSE result.ok \in Plans
<1> DEFINE access == ResolveSessionAccess(config, context)
           runtime == CompileRuntime(config, context)
           input == CompileInput(config, context, runtime.ok)
           session == CompileSession(config, context, access.ok)
           negotiation == CompileNegotiation(config, context, runtime.ok.mode)
<1>1. IF IsRejected(access) THEN access.error \in CompileErrors ELSE access.ok.host \in Strings
  BY AccessTyped
<1>2. IF IsRejected(runtime) THEN runtime.error \in CompileErrors ELSE runtime.ok \in RuntimePlans
  BY RuntimeTyped
<1> HIDE DEF access, runtime
<1>3. ~IsRejected(runtime) => runtime.ok.owner \in PlanOwners
  BY <1>2 DEF RuntimePlans
<1>4. ~IsRejected(runtime) => IF IsRejected(input) THEN input.error \in CompileErrors ELSE input.ok \in InputPlans
  BY <1>3, InputTyped
<1>5. ~IsRejected(access) => session \in SessionPlans
  BY <1>1, SessionTyped DEF IsContext
<1>6. negotiation \in NegotiationPlans
  BY NegotiationTyped
<1>7. config.render \in RenderPlans
  BY DEF Configs
<1> HIDE DEF input, session, negotiation
<1>8. CompilePlan(config, context) =
        IF IsRejected(access) THEN access ELSE IF IsRejected(runtime) THEN runtime ELSE IF IsRejected(input) THEN input
        ELSE Compiled([session |-> session, runtime |-> runtime.ok, negotiation |-> negotiation, input |-> input.ok,
                       render |-> config.render])
  BY DEF CompilePlan, CompileRender, access, runtime, input, session, negotiation
<1>9. CASE IsRejected(access) \/ IsRejected(runtime) \/ IsRejected(input)
  BY <1>1, <1>2, <1>4, <1>8, <1>9
<1>10. CASE ~IsRejected(access) /\ ~IsRejected(runtime) /\ ~IsRejected(input)
  <2>1. [session |-> session, runtime |-> runtime.ok, negotiation |-> negotiation, input |-> input.ok, render |-> config.render]
           \in Plans
    BY <1>2, <1>4, <1>5, <1>6, <1>7, <1>10 DEF Plans
  <2> QED BY <1>8, <1>10, <2>1, CompiledIsNotRejected
<1> QED BY <1>9, <1>10

-----------------------------------------------------------------------------
(* The settings, and what the two programs configure of them, are of their *)
(* types.                                                                  *)

TextKeys == {"preferred_game_language", "force_region_ip", "codec", "video_format",
             "server_url", "server_username", "server_credential"}

\* Settings of the types of their keys.
AreSettings(asked) ==
    /\ \A key \in NumberKeys : asked[key] \in Int
    /\ \A key \in SwitchKeys : asked[key] \in BOOLEAN
    /\ \A key \in TextKeys : asked[key] \in Strings

\* The records that a configuration consists of.
SessionConfigs ==
    [locale : Strings, regionName : AtMostOne(Strings \X Strings), clientIp : Strings, forceIp : Strings,
     cloudResolution : Resolutions, homeResolution : Resolutions, profile : Strings, powerOn : BOOLEAN]
NegotiationConfigs ==
    [cloudIpv6 : BOOLEAN, homeIpv6 : BOOLEAN, codec : CodecPreferences \cup Strings, cloudKbps : Nat, homeKbps : Nat,
     audioKbps : Nat, channels : AudioChannels, offerProfile : Strings]
InputConfigs ==
    [mode : InputPreferences, nativeMkb : Switches, virtualMkb : BOOLEAN, touch : TouchPreferences,
     pollingHz : Nat, vibration : BOOLEAN, microphone : MicrophonePreferences]
RuntimeConfigs == [mode : RuntimePreferences, customTurn : AtMostOne(TurnServers), fallbackTurn : BOOLEAN]

\* A configuration is what its parts are.
LEMMA ConfigParts ==
    Configs = [session : SessionConfigs, negotiation : NegotiationConfigs, input : InputConfigs,
               runtime : RuntimeConfigs, render : RenderPlans]
  BY DEF Configs, SessionConfigs, NegotiationConfigs, InputConfigs, RuntimeConfigs

\* The defaults are preferences.
LEMMA DefaultsTyped ==
    /\ SessionDefaults \in SessionConfigs /\ NegotiationDefaults \in NegotiationConfigs /\ InputDefaults \in InputConfigs
    /\ RuntimeDefaults \in RuntimeConfigs /\ RenderDefaults \in RenderPlans
<1>1. Blank \in Strings /\ "en-US" \in Strings
  BY TextAssumption DEF OwnText
<1>2. \A S : <<>> \in AtMostOne(S)
  BY DEF AtMostOne
<1>3. SessionDefaults \in SessionConfigs
  BY <1>1, <1>2 DEF SessionDefaults, SessionConfigs, Resolutions
<1>4. NegotiationDefaults \in NegotiationConfigs
  BY <1>1 DEF NegotiationDefaults, NegotiationConfigs, CodecPreferences, AudioChannels
<1>5. InputDefaults \in InputConfigs
  BY DEF InputDefaults, InputConfigs, InputPreferences, Switches, TouchPreferences, MicrophonePreferences
<1>6. RuntimeDefaults \in RuntimeConfigs
  BY <1>2 DEF RuntimeDefaults, RuntimeConfigs, RuntimePreferences
<1>7. RenderDefaults \in RenderPlans
  BY <1>1 DEF RenderDefaults, RenderPlans, DisplayOptions, PipelinePreferences, SuperResolutions, FallbackProcessings
<1> QED BY <1>3, <1>4, <1>5, <1>6, <1>7

\* A number is read as a resolution.
LEMMA ResolutionParsed == \A number : ParseResolutionPreference(number) \in Resolutions
  BY DEF ParseResolutionPreference, Resolutions

\* Raw values of the right types make a configuration.
LEMMA RawTyped ==
    ASSUME NEW locale \in Strings, NEW forceIp \in Strings, NEW ipv6 \in BOOLEAN, NEW resolution
    PROVE  LET raw == UpdateFromRawValues(DefaultConfig, locale, forceIp, ipv6, resolution)
           IN  /\ raw.session \in SessionConfigs /\ raw.negotiation \in NegotiationConfigs
               /\ raw.input = InputDefaults /\ raw.runtime = RuntimeDefaults /\ raw.render = RenderDefaults
               /\ DOMAIN raw = {"session", "negotiation", "input", "runtime", "render"}
<1> DEFINE raw == UpdateFromRawValues(DefaultConfig, locale, forceIp, ipv6, resolution)
           preference == ParseResolutionPreference(resolution)
<1>1. /\ DefaultConfig.session = SessionDefaults /\ DefaultConfig.negotiation = NegotiationDefaults
      /\ DefaultConfig.input = InputDefaults /\ DefaultConfig.runtime = RuntimeDefaults /\ DefaultConfig.render = RenderDefaults
      /\ DOMAIN DefaultConfig = {"session", "negotiation", "input", "runtime", "render"}
  BY DEF DefaultConfig
<1>2. raw = [DefaultConfig EXCEPT !.session.locale = locale, !.session.forceIp = forceIp,
                                  !.negotiation.cloudIpv6 = ipv6, !.negotiation.homeIpv6 = ipv6,
                                  !.session.cloudResolution = preference, !.session.homeResolution = preference]
  BY DEF UpdateFromRawValues
<1>3. preference \in Resolutions
  BY ResolutionParsed
<1> HIDE DEF raw, preference
<1>4. raw.session = [SessionDefaults EXCEPT !.locale = locale, !.forceIp = forceIp,
                                            !.cloudResolution = preference, !.homeResolution = preference]
  BY <1>1, <1>2
<1>5. raw.negotiation = [NegotiationDefaults EXCEPT !.cloudIpv6 = ipv6, !.homeIpv6 = ipv6]
  BY <1>1, <1>2
<1>6. /\ raw.input = InputDefaults /\ raw.runtime = RuntimeDefaults /\ raw.render = RenderDefaults
      /\ DOMAIN raw = {"session", "negotiation", "input", "runtime", "render"}
  BY <1>1, <1>2
<1>7. raw.session \in SessionConfigs
  BY <1>3, <1>4, DefaultsTyped DEF SessionConfigs
<1>8. raw.negotiation \in NegotiationConfigs
  BY <1>5, DefaultsTyped DEF NegotiationConfigs
<1> QED BY <1>6, <1>7, <1>8 DEF raw

\* What is read of the codec and of bitrates.
LEMMA ParsedPreferences ==
    /\ \A value \in Strings : ParseCodecPreference(value) \in CodecPreferences \cup Strings
    /\ \A mode : \A rate \in Int : ParseBitratePreference(mode, rate) \in Nat /\ ParseAudioBitratePreference(mode, rate) \in Nat
<1>1. \A value \in Strings : ParseCodecPreference(value) \in CodecPreferences \cup Strings
  BY DEF ParseCodecPreference, CodecPreferences
<1>2. \A mode : \A rate \in Int : ParseBitratePreference(mode, rate) \in Nat /\ ParseAudioBitratePreference(mode, rate) \in Nat
  BY DEF ParseBitratePreference, ParseAudioBitratePreference
<1> QED BY <1>1, <1>2

\* The user's own relay.
LEMMA CustomTurnTyped ==
    ASSUME NEW snapshot, AreSettings(snapshot)
    PROVE  ResolveCustomTurn(snapshot) \in AtMostOne(TurnServers)
<1> DEFINE server == [url |-> snapshot.server_url, username |-> snapshot.server_username,
                      credential |-> snapshot.server_credential]
<1>1. server \in TurnServers
  BY DEF AreSettings, TextKeys, TurnServers
<1> HIDE DEF server
<1>2. <<server>> \in AtMostOne(TurnServers) /\ <<>> \in AtMostOne(TurnServers)
  BY <1>1 DEF AtMostOne
<1>3. ResolveCustomTurn(snapshot) \in {<<>>, <<server>>}
  BY DEF ResolveCustomTurn, server
<1> QED BY <1>2, <1>3

\* The input preferred, at the sampling rate of the browser's runtime.
LEMMA SampledInputTyped ==
    ASSUME NEW old \in InputConfigs, NEW vibration \in BOOLEAN
    PROVE  [old EXCEPT !.pollingHz = 250, !.vibration = vibration] \in InputConfigs
<1>1. [old EXCEPT !.pollingHz = 250] \in InputConfigs
  BY DEF InputConfigs
<1>2. \A input \in InputConfigs : [input EXCEPT !.vibration = vibration] \in InputConfigs
  BY DEF InputConfigs
<1>3. [old EXCEPT !.pollingHz = 250, !.vibration = vibration] = [[old EXCEPT !.pollingHz = 250] EXCEPT !.vibration = vibration]
  OBVIOUS
<1> QED BY <1>1, <1>2, <1>3

\* The settings of the desktop, made a configuration.
LEMMA DesktopTyped ==
    ASSUME NEW snapshot, AreSettings(snapshot), snapshot.display_options \in DisplayOptions
    PROVE  DesktopConfig(snapshot) \in Configs
<1> DEFINE raw == UpdateFromRawValues(DefaultConfig, snapshot.preferred_game_language, snapshot.force_region_ip,
                                      snapshot.ipv6, snapshot.resolution)
           aimed == [raw EXCEPT !.session.homeResolution = ParseResolutionPreference(snapshot.xhome_resolution)]
           config == DesktopConfig(snapshot)
           codec == ParseCodecPreference(snapshot.codec)
           homeKbps == ParseBitratePreference(snapshot.xhome_bitrate_mode, snapshot.xhome_bitrate)
           cloudKbps == ParseBitratePreference(snapshot.xcloud_bitrate_mode, snapshot.xcloud_bitrate)
           audioKbps == ParseAudioBitratePreference(snapshot.audio_bitrate_mode, snapshot.audio_bitrate)
           superResolution == IF snapshot.super_resolution_experimental THEN "fsr1Experimental" ELSE "off"
           own == ResolveCustomTurn(snapshot)
<1>1. /\ snapshot.preferred_game_language \in Strings /\ snapshot.force_region_ip \in Strings
      /\ snapshot.codec \in Strings /\ snapshot.video_format \in Strings
  BY DEF AreSettings, TextKeys
<1>2. /\ snapshot.ipv6 \in BOOLEAN /\ snapshot.power_on \in BOOLEAN /\ snapshot.vibration \in BOOLEAN
      /\ snapshot.xhome_turn_fallback \in BOOLEAN /\ snapshot.enable_audio_control \in BOOLEAN
  BY DEF AreSettings, SwitchKeys
<1>3. snapshot.xhome_bitrate \in Int /\ snapshot.xcloud_bitrate \in Int /\ snapshot.audio_bitrate \in Int
  BY DEF AreSettings, NumberKeys
<1>4. codec \in CodecPreferences \cup Strings /\ homeKbps \in Nat /\ cloudKbps \in Nat /\ audioKbps \in Nat
  BY <1>1, <1>3, ParsedPreferences
<1>5. own \in AtMostOne(TurnServers)
  BY CustomTurnTyped
<1>6. superResolution \in SuperResolutions
  BY DEF SuperResolutions
<1>7. /\ raw.session \in SessionConfigs /\ raw.negotiation \in NegotiationConfigs
      /\ raw.input = InputDefaults /\ raw.runtime = RuntimeDefaults /\ raw.render = RenderDefaults
      /\ DOMAIN raw = {"session", "negotiation", "input", "runtime", "render"}
  <2> HIDE DEF raw
  <2> QED BY <1>1, <1>2, RawTyped DEF raw
<1>8. config = ApplyStreamingPreferences(aimed, snapshot)
  BY DEF DesktopConfig
<1> HIDE DEF raw
<1>9. /\ aimed.session \in SessionConfigs /\ aimed.negotiation = raw.negotiation /\ aimed.input = raw.input
      /\ aimed.render = raw.render
  <2>1. aimed.session = [raw.session EXCEPT !.homeResolution = ParseResolutionPreference(snapshot.xhome_resolution)]
    BY <1>7
  <2>2. aimed.session \in SessionConfigs
    <3> HIDE DEF aimed
    <3> QED BY <1>7, <2>1, ResolutionParsed DEF SessionConfigs
  <2> QED BY <1>7, <2>2
<1>10. config = [session |-> [aimed.session EXCEPT !.powerOn = snapshot.power_on],
                 negotiation |-> [aimed.negotiation EXCEPT !.codec = codec, !.homeKbps = homeKbps,
                                     !.cloudKbps = cloudKbps, !.audioKbps = audioKbps, !.channels = "auto"],
                 input |-> [aimed.input EXCEPT !.pollingHz = 250, !.vibration = snapshot.vibration],
                 runtime |-> [mode |-> "webrtc-direct", customTurn |-> own, fallbackTurn |-> snapshot.xhome_turn_fallback],
                 render |-> [aimed.render EXCEPT
                    !.audioControl = snapshot.enable_audio_control, !.videoFormat = snapshot.video_format,
                    !.display = snapshot.display_options, !.superResolution = superResolution]]
  BY <1>8 DEF ApplyStreamingPreferences
<1> HIDE DEF aimed, config, codec, homeKbps, cloudKbps, audioKbps, superResolution, own
<1>11. [aimed.session EXCEPT !.powerOn = snapshot.power_on] \in SessionConfigs
  BY <1>2, <1>9 DEF SessionConfigs
<1>12. [aimed.negotiation EXCEPT !.codec = codec, !.homeKbps = homeKbps, !.cloudKbps = cloudKbps,
                                 !.audioKbps = audioKbps, !.channels = "auto"] \in NegotiationConfigs
  BY <1>4, <1>7, <1>9 DEF NegotiationConfigs, AudioChannels
<1>13. [aimed.input EXCEPT !.pollingHz = 250, !.vibration = snapshot.vibration] \in InputConfigs
  <2>1. aimed.input \in InputConfigs
    BY <1>7, <1>9, DefaultsTyped
  <2> QED BY ZenonT(40), <1>2, <2>1, SampledInputTyped
<1>14. [mode |-> "webrtc-direct", customTurn |-> own, fallbackTurn |-> snapshot.xhome_turn_fallback] \in RuntimeConfigs
  BY <1>2, <1>5 DEF RuntimeConfigs, RuntimePreferences
<1>15. [aimed.render EXCEPT !.audioControl = snapshot.enable_audio_control, !.videoFormat = snapshot.video_format,
                            !.display = snapshot.display_options, !.superResolution = superResolution] \in RenderPlans
  BY <1>1, <1>2, <1>6, <1>7, <1>9, DefaultsTyped DEF RenderPlans
<1>16. config \in Configs
  BY <1>10, <1>11, <1>12, <1>13, <1>14, <1>15, ConfigParts
<1> QED BY <1>16 DEF config

\* What a program's store holds.
StoreOf(program, store) == \A key \in Keys : Stored(program, key, store[key])

\* The defaults of the settings, each of its type.
LEMMA DefaultsAreSettings ==
    /\ \A key \in NumberKeys : DefaultConfigMap[key] \in Nat
    /\ \A key \in SwitchKeys : DefaultConfigMap[key] \in BOOLEAN
    /\ \A key \in TextKeys : DefaultConfigMap[key] \in {Blank, "en-US"}
    /\ DefaultConfigMap.display_options \in DisplayOptions
    /\ NumberKeys \cup SwitchKeys \cup TextKeys \cup {"display_options", "resolution", "codec", "force_region_ip"} \subseteq Keys
<1>1. \A key \in NumberKeys : DefaultConfigMap[key] \in Nat
  BY DEF DefaultConfigMap, NumberKeys
<1>2. \A key \in SwitchKeys : DefaultConfigMap[key] \in BOOLEAN
  <2>1. /\ DefaultConfigMap["xhome_turn_fallback"] \in BOOLEAN /\ DefaultConfigMap["enable_audio_control"] \in BOOLEAN
        /\ DefaultConfigMap["vibration"] \in BOOLEAN /\ DefaultConfigMap["power_on"] \in BOOLEAN
        /\ DefaultConfigMap["ipv6"] \in BOOLEAN /\ DefaultConfigMap["super_resolution_experimental"] \in BOOLEAN
    BY DEF DefaultConfigMap
  <2> HIDE DEF DefaultConfigMap
  <2> QED BY <2>1 DEF SwitchKeys
<1>3. \A key \in TextKeys : DefaultConfigMap[key] \in {Blank, "en-US"}
  BY DEF DefaultConfigMap, TextKeys
<1>4. DefaultConfigMap.display_options \in DisplayOptions
  BY DEF DefaultConfigMap, DisplayOptions
<1>5. NumberKeys \cup SwitchKeys \cup TextKeys \cup {"display_options", "resolution", "codec", "force_region_ip"} \subseteq Keys
  BY DEF DefaultConfigMap, Keys, NumberKeys, SwitchKeys, TextKeys
<1> QED BY <1>1, <1>2, <1>3, <1>4, <1>5

\* A blank string is no preference of the policy.
LEMMA BlankIsNoPreference == Blank \notin CodecPreferences
<1>1. Blank # "auto" /\ Blank # "h264Low" /\ Blank # "h264Normal" /\ Blank # "h264Main" /\ Blank # "h264High"
  BY Zenon DEF Blank
<1> QED BY <1>1 DEF CodecPreferences

\* What the type of a stored value is.
LEMMA StoredValues ==
    ASSUME NEW program, NEW value
    PROVE  /\ \A key \in NumberKeys : Stored(program, key, value) => value \in Int \/ (program = "desktop" /\ value = Invalid)
           /\ \A key \in SwitchKeys : Stored(program, key, value) => value \in BOOLEAN \/ (program = "desktop" /\ value = Invalid)
           /\ \A key \in TextKeys : Stored(program, key, value) => value \in Strings \/ (program = "desktop" /\ value = Invalid)
           /\ Stored(program, "codec", value) => value \notin CodecPreferences \/ (program = "desktop" /\ value = Invalid)
           /\ Stored(program, "display_options", value) =>
                 \/ program = "desktop" /\ value = Invalid
                 \/ \A option \in {"sharpness", "saturation", "contrast", "brightness"} : value[option] \in Int \/ value[option] = Invalid
<1>1. \A key \in NumberKeys : Stored(program, key, value) => value \in Int \/ (program = "desktop" /\ value = Invalid)
  <2> SUFFICES ASSUME NEW key \in NumberKeys, IsOfType(key, value) PROVE value \in Int
    BY DEF Stored
  <2>1. key \notin SwitchKeys /\ key # "display_options" /\ key # "gamepad_game_controls"
    BY DEF NumberKeys, SwitchKeys
  <2> QED BY <2>1 DEF IsOfType
<1>2. \A key \in SwitchKeys : key \notin NumberKeys
  BY DEF NumberKeys, SwitchKeys
<1>3. \A key \in SwitchKeys : Stored(program, key, value) => value \in BOOLEAN \/ (program = "desktop" /\ value = Invalid)
  <2> SUFFICES ASSUME NEW key \in SwitchKeys, IsOfType(key, value) PROVE value \in BOOLEAN
    BY DEF Stored
  <2>1. key \notin NumberKeys /\ key # "display_options" /\ key # "gamepad_game_controls"
    BY <1>2 DEF SwitchKeys
  <2> QED BY <2>1 DEF IsOfType
<1>4. \A key \in TextKeys : key \notin NumberKeys /\ key \notin SwitchKeys /\ key # "display_options" /\ key # "gamepad_game_controls"
  BY DEF NumberKeys, SwitchKeys, TextKeys
<1>5. \A key \in TextKeys : Stored(program, key, value) => value \in Strings \/ (program = "desktop" /\ value = Invalid)
  BY <1>4 DEF Stored, IsOfType
<1>6. "codec" \in TextKeys
  BY DEF TextKeys
<1>7. Stored(program, "codec", value) => value \notin CodecPreferences \/ (program = "desktop" /\ value = Invalid)
  BY <1>4, <1>6 DEF Stored, IsOfType
<1>8. "display_options" \notin NumberKeys /\ "display_options" \notin SwitchKeys
  BY DEF NumberKeys, SwitchKeys
<1>9. Stored(program, "display_options", value) =>
         \/ program = "desktop" /\ value = Invalid
         \/ \A option \in {"sharpness", "saturation", "contrast", "brightness"} : value[option] \in Int \/ value[option] = Invalid
  BY <1>8 DEF Stored, IsOfType
<1> QED BY <1>1, <1>3, <1>5, <1>7, <1>9

\* The defaults are of the types of their settings.
LEMMA DefaultsOfType == \A key \in Keys : IsOfType(key, DefaultConfigMap[key])
<1> SUFFICES ASSUME NEW key \in Keys PROVE IsOfType(key, DefaultConfigMap[key])
  OBVIOUS
<1> DEFINE words == TextKeys \cup {"xhome_bitrate_mode", "xcloud_bitrate_mode", "audio_bitrate_mode", "vibration_strength"}
<1>1. key \in NumberKeys \cup SwitchKeys \cup words \cup {"display_options", "gamepad_game_controls"}
  BY DEF Keys, DefaultConfigMap, NumberKeys, SwitchKeys, TextKeys
<1>2. CASE key \in NumberKeys
  <2>1. DefaultConfigMap[key] \in Int
    BY <1>2, DefaultsAreSettings
  <2> QED BY <1>2, <2>1 DEF IsOfType, NumberKeys, SwitchKeys
<1>3. CASE key \in SwitchKeys
  <2>1. DefaultConfigMap[key] \in BOOLEAN
    BY <1>3, DefaultsAreSettings
  <2>2. key \notin NumberKeys /\ key # "display_options" /\ key # "gamepad_game_controls"
    BY <1>3 DEF NumberKeys, SwitchKeys
  <2> QED BY <1>3, <2>1, <2>2 DEF IsOfType
<1>4. CASE key \in words
  <2>1. key \notin NumberKeys /\ key \notin SwitchKeys /\ key # "display_options" /\ key # "gamepad_game_controls"
    BY <1>4 DEF NumberKeys, SwitchKeys, TextKeys
  <2>2. DefaultConfigMap[key] \in {Blank, "en-US", "Auto", "realistic"}
    BY <1>4 DEF DefaultConfigMap, TextKeys
  <2>3. DefaultConfigMap[key] \in Strings
    BY <2>2, TextAssumption, SettingsAssumption DEF OwnText
  <2>4. key = "codec" => DefaultConfigMap[key] \notin CodecPreferences
    BY BlankIsNoPreference DEF DefaultConfigMap
  <2> QED BY <2>1, <2>3, <2>4 DEF IsOfType
<1>5. CASE key = "display_options"
  <2>1. DefaultConfigMap.display_options = [sharpness |-> 0, saturation |-> 100, contrast |-> 100, brightness |-> 100]
    BY DEF DefaultConfigMap
  <2>2. key \notin NumberKeys /\ key \notin SwitchKeys
    BY <1>5 DEF NumberKeys, SwitchKeys
  <2> QED BY <1>5, <2>1, <2>2 DEF IsOfType
<1>6. CASE key = "gamepad_game_controls"
  BY <1>6 DEF IsOfType, NumberKeys, SwitchKeys
<1> QED BY <1>1, <1>2, <1>3, <1>4, <1>5, <1>6

\* The app's settings are all of their types.
LEMMA AppStoreTyped ==
    ASSUME NEW store, StoreOf("ios", store)
    PROVE  AreSettings(store) /\ store.codec \notin CodecPreferences
<1>1. \A key \in NumberKeys \cup SwitchKeys \cup TextKeys \cup {"codec"} : Stored("ios", key, store[key])
  BY DefaultsAreSettings DEF StoreOf
<1>2. \A key \in NumberKeys : store[key] \in Int
  <2> SUFFICES ASSUME NEW key \in NumberKeys PROVE store[key] \in Int
    OBVIOUS
  <2>1. Stored("ios", key, store[key]) /\ "ios" # "desktop"
    BY <1>1
  <2> QED BY <2>1, StoredValues
<1>3. \A key \in SwitchKeys : store[key] \in BOOLEAN
  <2> SUFFICES ASSUME NEW key \in SwitchKeys PROVE store[key] \in BOOLEAN
    OBVIOUS
  <2>1. Stored("ios", key, store[key]) /\ "ios" # "desktop"
    BY <1>1
  <2> QED BY <2>1, StoredValues
<1>4. \A key \in TextKeys : store[key] \in Strings
  <2> SUFFICES ASSUME NEW key \in TextKeys PROVE store[key] \in Strings
    OBVIOUS
  <2>1. Stored("ios", key, store[key]) /\ "ios" # "desktop"
    BY <1>1
  <2> QED BY <2>1, StoredValues
<1>5. store.codec \notin CodecPreferences
  BY <1>1, StoredValues
<1> QED BY <1>2, <1>3, <1>4, <1>5 DEF AreSettings

\* A clamped number is a natural one.
LEMMA ClampedNumber ==
    ASSUME NEW value, value \in Int \/ value = Invalid, NEW fallback \in Nat, NEW least \in Nat, NEW most \in Nat
    PROVE  NormalizeNumber(value, fallback, least, most) \in Nat
  BY DEF NormalizeNumber

\* Whatever the desktop has stored, the adapter is given settings of their types.
LEMMA NormalizedTyped ==
    ASSUME NEW store, NEW readable, StoreOf("desktop", store)
    PROVE  LET snapshot == GetStreamingConfig(store, readable)
           IN  /\ AreSettings(snapshot) /\ snapshot.display_options \in DisplayOptions
               /\ snapshot.codec \notin CodecPreferences
<1> DEFINE snapshot == GetStreamingConfig(store, readable)
           Options == {"sharpness", "saturation", "contrast", "brightness"}
<1>0. Blank \notin CodecPreferences /\ Blank \in Strings /\ "en-US" \in Strings
  BY TextAssumption, BlankIsNoPreference DEF OwnText
<1>1. CASE readable
  <2>1. \A key \in Keys : snapshot[key] = NormalizeValue(key, store[key])
    BY <1>1 DEF GetStreamingConfig, NormalizeConfig
  <2> HIDE DEF snapshot
  <2>2. \A key \in Keys : Stored("desktop", key, store[key])
    BY DEF StoreOf
  <2>3. \A key \in NumberKeys : snapshot[key] \in Int
    <3> SUFFICES ASSUME NEW key \in NumberKeys PROVE snapshot[key] \in Int
      OBVIOUS
    <3>1. key \in Keys /\ (store[key] \in Int \/ store[key] = Invalid) /\ DefaultConfigMap[key] \in Nat
      BY <2>2, StoredValues, DefaultsAreSettings
    <3>2. \/ NormalizeValue(key, store[key]) = NormalizeNumber(store[key], DefaultConfigMap[key], 720, 1440)
          \/ NormalizeValue(key, store[key]) = NormalizeNumber(store[key], DefaultConfigMap[key], 0, 200)
      BY DEF NormalizeValue, NumberKeys
    <3>3. NormalizeValue(key, store[key]) \in Nat
      <4> DEFINE value == store[key]
                 fallback == DefaultConfigMap[key]
      <4>1. (value \in Int \/ value = Invalid) /\ fallback \in Nat
        BY <3>1
      <4> HIDE DEF value, fallback
      <4>2. \A least, most \in Nat : NormalizeNumber(value, fallback, least, most) \in Nat
        BY <4>1, ClampedNumber
      <4> QED BY <3>2, <4>2 DEF value, fallback
    <3> QED BY <2>1, <3>1, <3>3
  <2>4. \A key \in SwitchKeys \cup TextKeys :
           snapshot[key] = IF store[key] = Invalid THEN DefaultConfigMap[key] ELSE store[key]
    <3> SUFFICES ASSUME NEW key \in SwitchKeys \cup TextKeys
                 PROVE  snapshot[key] = IF store[key] = Invalid THEN DefaultConfigMap[key] ELSE store[key]
      OBVIOUS
    <3>1. NormalizeValue(key, store[key]) = IF store[key] = Invalid THEN DefaultConfigMap[key] ELSE store[key]
      BY DEF NormalizeValue, SwitchKeys, TextKeys
    <3> QED BY <2>1, <3>1, DefaultsAreSettings
  <2>5. \A key \in SwitchKeys : snapshot[key] \in BOOLEAN
    BY <2>2, <2>4, StoredValues, DefaultsAreSettings
  <2>6. \A key \in TextKeys : snapshot[key] \in Strings
    <3> SUFFICES ASSUME NEW key \in TextKeys PROVE snapshot[key] \in Strings
      OBVIOUS
    <3>1. store[key] \in Strings \/ store[key] = Invalid
      BY <2>2, StoredValues, DefaultsAreSettings
    <3>2. DefaultConfigMap[key] \in Strings
      BY <1>0, DefaultsAreSettings
    <3> QED BY <2>4, <3>1, <3>2
  <2>7. snapshot.codec \notin CodecPreferences
    <3>1. "codec" \in TextKeys /\ "codec" \in Keys
      BY DefaultsAreSettings DEF TextKeys
    <3>2. DefaultConfigMap.codec = Blank
      BY DEF DefaultConfigMap
    <3> QED BY <1>0, <2>2, <2>4, <3>1, <3>2, StoredValues
  <2>8. snapshot.display_options \in DisplayOptions
    <3> DEFINE value == store.display_options
               fallback == DefaultConfigMap.display_options
    <3>1. snapshot.display_options = NormalizeDisplayOptions(value, fallback)
      <4>1. NormalizeValue("display_options", value) = NormalizeDisplayOptions(value, fallback)
        BY DEF NormalizeValue
      <4> QED BY <2>1, <4>1, DefaultsAreSettings
    <3>2. value = Invalid \/ \A option \in Options : value[option] \in Int \/ value[option] = Invalid
      BY <2>2, StoredValues, DefaultsAreSettings
    <3>3. fallback \in DisplayOptions
      BY DefaultsAreSettings
    <3> HIDE DEF value, fallback
    <3>4. CASE value = Invalid
      BY <3>1, <3>3, <3>4 DEF NormalizeDisplayOptions
    <3>5. CASE value # Invalid
      <4>1. DOMAIN fallback = Options /\ \A option \in Options : fallback[option] \in Nat
        BY <3>3 DEF DisplayOptions
      <4>2. snapshot.display_options =
              [option \in Options |-> NormalizeNumber(value[option], fallback[option], 0, IF option = "sharpness" THEN 10 ELSE 200)]
        BY <3>1, <3>5, <4>1 DEF NormalizeDisplayOptions
      <4>3. \A option \in Options : NormalizeNumber(value[option], fallback[option], 0, IF option = "sharpness" THEN 10 ELSE 200) \in Nat
        <5> SUFFICES ASSUME NEW option \in Options
                     PROVE  NormalizeNumber(value[option], fallback[option], 0, IF option = "sharpness" THEN 10 ELSE 200) \in Nat
          OBVIOUS
        <5> DEFINE most == IF option = "sharpness" THEN 10 ELSE 200
        <5>1. (value[option] \in Int \/ value[option] = Invalid) /\ fallback[option] \in Nat /\ most \in Nat
          BY <3>2, <3>5, <4>1
        <5> HIDE DEF most
        <5>2. NormalizeNumber(value[option], fallback[option], 0, most) \in Nat
          BY <5>1, ClampedNumber
        <5> QED BY <5>2 DEF most
      <4>4. snapshot.display_options \in [Options -> Nat]
        BY <4>2, <4>3
      <4>5. DisplayOptions = [Options -> Nat]
        BY DEF DisplayOptions
      <4> QED BY <4>4, <4>5
    <3> QED BY <3>4, <3>5
  <2> QED BY <2>3, <2>5, <2>6, <2>7, <2>8 DEF AreSettings, snapshot
<1>2. CASE ~readable
  <2>1. snapshot = [DefaultConfigMap EXCEPT !.resolution = 1080, !.display_options.sharpness = 2]
    BY <1>2 DEF GetStreamingConfig
  <2> HIDE DEF snapshot
  <2>2. \A key \in Keys \ {"resolution", "display_options"} : snapshot[key] = DefaultConfigMap[key]
    <3> DEFINE first == [DefaultConfigMap EXCEPT !.resolution = 1080]
               edited == [first.display_options EXCEPT !.sharpness = 2]
    <3>1. snapshot = [first EXCEPT !.display_options = edited]
      BY <2>1
    <3>2. DOMAIN first = Keys /\ \A key \in Keys \ {"resolution"} : first[key] = DefaultConfigMap[key]
      BY DEF Keys
    <3> HIDE DEF first, edited
    <3>3. \A key \in Keys \ {"display_options"} : snapshot[key] = first[key]
      BY <3>1, <3>2
    <3> QED BY <3>2, <3>3
  <2>3. snapshot.resolution = 1080
    <3>1. "resolution" \in DOMAIN DefaultConfigMap
      BY DefaultsAreSettings DEF Keys
    <3> QED BY <2>1, <3>1
  <2>4. \A key \in NumberKeys : snapshot[key] \in Int
    <3>1. "display_options" \notin NumberKeys
      BY DEF NumberKeys
    <3> QED BY <2>2, <2>3, <3>1, DefaultsAreSettings
  <2>5. \A key \in SwitchKeys : snapshot[key] \in BOOLEAN
    <3>1. "resolution" \notin SwitchKeys /\ "display_options" \notin SwitchKeys
      BY DEF SwitchKeys
    <3> QED BY <2>2, <3>1, DefaultsAreSettings
  <2>6. \A key \in TextKeys : snapshot[key] \in Strings
    <3>1. "resolution" \notin TextKeys /\ "display_options" \notin TextKeys
      BY DEF TextKeys
    <3> QED BY <1>0, <2>2, <3>1, DefaultsAreSettings
  <2>7. snapshot.codec \notin CodecPreferences
    <3>1. DefaultConfigMap.codec = Blank
      BY DEF DefaultConfigMap
    <3> QED BY <1>0, <2>2, <3>1, DefaultsAreSettings
  <2>8. snapshot.display_options \in DisplayOptions
    <3>1. "display_options" \in DOMAIN DefaultConfigMap
      BY DefaultsAreSettings DEF Keys
    <3>2. snapshot.display_options = [DefaultConfigMap.display_options EXCEPT !.sharpness = 2]
      BY <2>1, <3>1
    <3> QED BY <3>2, DefaultsAreSettings DEF DisplayOptions
  <2> QED BY <2>4, <2>5, <2>6, <2>7, <2>8 DEF AreSettings, snapshot
<1> QED BY <1>1, <1>2

\* The settings of the app, made a configuration.
LEMMA IosTyped ==
    ASSUME NEW access, access.forceIp \in Strings, NEW facts, NEW app, AreSettings(app)
    PROVE  IosConfig(access, facts, app) \in Configs
<1> DEFINE home == access.target = "home"
           base == IF home THEN NewHomeConfig(app.preferred_game_language, access.forceIp, app.xhome_resolution)
                   ELSE DefaultConfig
           config == IosConfig(access, facts, app)
           locale == app.preferred_game_language
           forceIp == IF access.forceIp # Blank THEN access.forceIp ELSE base.session.forceIp
           powerOn == home /\ facts[1].power # "On" /\ facts[1].management = "yes"
           fallbackTurn == home /\ app.xhome_turn_fallback /\ access.fallback # <<>>
           ipv6 == app.ipv6
           codec == ParseCodecPreference(app.codec)
           homeKbps == ParseBitratePreference(app.xhome_bitrate_mode, app.xhome_bitrate)
           cloudKbps == ParseBitratePreference(app.xcloud_bitrate_mode, app.xcloud_bitrate)
           audioKbps == ParseAudioBitratePreference(app.audio_bitrate_mode, app.audio_bitrate)
           cloudResolution == ParseResolutionPreference(app.resolution)
           homeResolution == ParseResolutionPreference(app.xhome_resolution)
<1>1. locale \in Strings /\ app.codec \in Strings
  BY DEF AreSettings, TextKeys
<1>2. ipv6 \in BOOLEAN
  BY DEF AreSettings, SwitchKeys
<1>3. app.xhome_bitrate \in Int /\ app.xcloud_bitrate \in Int /\ app.audio_bitrate \in Int
  BY DEF AreSettings, NumberKeys
<1>4. codec \in CodecPreferences \cup Strings /\ homeKbps \in Nat /\ cloudKbps \in Nat /\ audioKbps \in Nat
  BY <1>1, <1>3, ParsedPreferences
<1>5. cloudResolution \in Resolutions /\ homeResolution \in Resolutions
  BY ResolutionParsed
<1>6. /\ base.session \in SessionConfigs /\ base.input = InputDefaults /\ base.runtime = RuntimeDefaults
      /\ base.render = RenderDefaults
  <2>1. CASE home
    <3> DEFINE noIpv6 == FALSE
    <3>1. base = UpdateFromRawValues(DefaultConfig, locale, access.forceIp, noIpv6, app.xhome_resolution)
      BY <2>1 DEF NewHomeConfig
    <3>2. noIpv6 \in BOOLEAN
      OBVIOUS
    <3> HIDE DEF noIpv6, base, locale
    <3> QED BY <1>1, <3>1, <3>2, RawTyped
  <2>2. CASE ~home
    BY <2>2, DefaultsTyped DEF DefaultConfig
  <2> QED BY <2>1, <2>2
<1>7. forceIp \in Strings
  <2>1. base.session.forceIp \in Strings
    BY <1>6 DEF SessionConfigs
  <2> QED BY <2>1
<1>8. powerOn \in BOOLEAN /\ fallbackTurn \in BOOLEAN
  <2>1. powerOn \in BOOLEAN
    OBVIOUS
  <2>2. fallbackTurn \in BOOLEAN
    OBVIOUS
  <2> QED BY <2>1, <2>2
<1>9. config = [session |-> [base.session EXCEPT !.locale = locale, !.cloudResolution = cloudResolution,
                    !.homeResolution = homeResolution, !.forceIp = forceIp, !.powerOn = powerOn],
                negotiation |-> [NegotiationDefaults EXCEPT !.cloudIpv6 = ipv6, !.homeIpv6 = ipv6, !.codec = codec,
                    !.homeKbps = homeKbps, !.cloudKbps = cloudKbps, !.audioKbps = audioKbps],
                input |-> base.input,
                runtime |-> [base.runtime EXCEPT !.fallbackTurn = fallbackTurn],
                render |-> base.render]
  BY DEF IosConfig
<1> HIDE DEF config, home, base, locale, forceIp, powerOn, fallbackTurn, ipv6, codec, homeKbps, cloudKbps, audioKbps,
             cloudResolution, homeResolution
<1>10. [base.session EXCEPT !.locale = locale, !.cloudResolution = cloudResolution, !.homeResolution = homeResolution,
                            !.forceIp = forceIp, !.powerOn = powerOn] \in SessionConfigs
  BY <1>1, <1>5, <1>6, <1>7, <1>8 DEF SessionConfigs
<1>11. [NegotiationDefaults EXCEPT !.cloudIpv6 = ipv6, !.homeIpv6 = ipv6, !.codec = codec, !.homeKbps = homeKbps,
                                   !.cloudKbps = cloudKbps, !.audioKbps = audioKbps] \in NegotiationConfigs
  <2>1. NegotiationDefaults \in NegotiationConfigs
    BY DefaultsTyped
  <2> HIDE DEF NegotiationDefaults
  <2> QED BY <1>2, <1>4, <2>1 DEF NegotiationConfigs
<1>12. [base.runtime EXCEPT !.fallbackTurn = fallbackTurn] \in RuntimeConfigs
  BY <1>6, <1>8, DefaultsTyped DEF RuntimeConfigs
<1> QED BY <1>6, <1>9, <1>10, <1>11, <1>12, DefaultsTyped, ConfigParts DEF config

\* A token lists regions, in an order.
LEMMA TokenTyped ==
    ASSUME NEW token \in Tokens
    PROVE  token.regions \in Seq(Range(token.regions)) /\ \A r \in Range(token.regions) : IsRegion(r)
  BY SettingsAssumption DEF Tokens

\* What the fallback server is answered with.
LEMMA AnswerTyped == \A answer \in Optional({FallbackServer}) : answer \in AtMostOne(TurnServers)
<1>1. <<FallbackServer>> \in AtMostOne(TurnServers) /\ <<>> \in AtMostOne(TurnServers)
  BY SettingsAssumption DEF AtMostOne
<1> QED BY <1>1 DEF Optional

\* What a browser can do, what is said of a title and what of a console.
LEMMA FactsTyped ==
    /\ \A touchSurface \in BOOLEAN : BrowserRuntime(touchSurface) \in
          [browserWebrtc : BOOLEAN, rustOwned : BOOLEAN, preferBrowser : BOOLEAN, nativeMkb : BOOLEAN, touchSurface : BOOLEAN]
    /\ NoTitle \in Capabilities
    /\ \A numbered \in BOOLEAN : MinTitleCapabilities(numbered) \in Capabilities
    /\ \A words : ParseTitleCapabilities(words) \in Capabilities
    /\ NoConsoleFacts.addrs \subseteq Strings
    /\ \A facts \in Optional(ConsoleFacts) : facts # <<>> => RemotePlay(facts[1]).addrs \subseteq Strings
<1>1. \A touchSurface \in BOOLEAN : BrowserRuntime(touchSurface) \in
          [browserWebrtc : BOOLEAN, rustOwned : BOOLEAN, preferBrowser : BOOLEAN, nativeMkb : BOOLEAN, touchSurface : BOOLEAN]
  BY DEF BrowserRuntime
<1>2. NoTitle \in Capabilities
  BY DEF NoTitle, Capabilities
<1>3. \A numbered \in BOOLEAN : MinTitleCapabilities(numbered) \in Capabilities
  BY DEF MinTitleCapabilities, Capabilities
<1>4. \A words : ParseTitleCapabilities(words) \in Capabilities
  <2> TAKE words
  <2> DEFINE mkb == words \cap {"mkb", "mousekeyboard", "keyboard", "mouse"} # {}
             touch == words \cap {"touch", "nativetouch"} # {}
             nativeTouch == "nativetouch" \in words
  <2>1. mkb \in BOOLEAN /\ touch \in BOOLEAN /\ nativeTouch \in BOOLEAN
    OBVIOUS
  <2>2. ParseTitleCapabilities(words) = [mkb |-> mkb, touch |-> touch, nativeTouch |-> nativeTouch]
    BY DEF ParseTitleCapabilities
  <2> HIDE DEF mkb, touch, nativeTouch
  <2> QED BY <2>1, <2>2 DEF Capabilities
<1>5. NoConsoleFacts.addrs \subseteq Strings
  BY DEF NoConsoleFacts
<1>6. \A facts \in Optional(ConsoleFacts) : facts # <<>> => RemotePlay(facts[1]).addrs \subseteq Strings
  BY SettingsAssumption DEF Optional, RemotePlay
<1> QED BY <1>1, <1>2, <1>3, <1>4, <1>5, <1>6

\* What the hosts know of a session is a context of the compiler's.
LEMMA HomeContextTyped ==
    ASSUME NEW token \in Tokens, NEW facts \in Optional(ConsoleFacts), NEW fallback \in Optional({FallbackServer})
    PROVE  IsContext(HomeContext(token, facts, fallback))
<1> DEFINE context == HomeContext(token, facts, fallback)
<1>1. /\ context.target = "home" /\ context.access = token /\ context.fallbackTurn = fallback
      /\ context.title = NoTitle /\ context.inputConfig = <<>>
      /\ context.remotePlay = IF facts = <<>> THEN NoConsoleFacts ELSE RemotePlay(facts[1])
  BY DEF HomeContext
<1>2. context.runtime = BrowserRuntime(FALSE)
  BY DEF HomeContext
<1> HIDE DEF context
<1>3. context.runtime \in [browserWebrtc : BOOLEAN, rustOwned : BOOLEAN, preferBrowser : BOOLEAN, nativeMkb : BOOLEAN, touchSurface : BOOLEAN]
  BY <1>2, FactsTyped
<1>4. context.remotePlay.addrs \in SUBSET Strings
  BY <1>1, FactsTyped
<1> QED BY <1>1, <1>3, <1>4, TokenTyped, AnswerTyped, FactsTyped DEF IsContext, PlanTargets, context

\* What the gateway, the session and a parsed title bring is a context to plan in.
LEMMA CloudContextTyped ==
    ASSUME NEW token \in Tokens, NEW words \in Optional(TitleConfigs), NEW numbered \in BOOLEAN,
           NEW fallback \in Optional({FallbackServer})
    PROVE  IsContext(CloudContext(token, words, numbered, fallback))
<1> DEFINE context == CloudContext(token, words, numbered, fallback)
           declared == [i \in DOMAIN words |-> ParseTitleCapabilities(words[i])]
<1>1. /\ context.target = "cloud" /\ context.access = token /\ context.fallbackTurn = fallback
      /\ context.title = IF words = <<>> THEN MinTitleCapabilities(numbered) ELSE declared[1]
      /\ context.inputConfig = declared /\ context.remotePlay = NoConsoleFacts
  BY DEF CloudContext
<1>2. context.runtime = BrowserRuntime(FALSE)
  BY DEF CloudContext
<1>3. words # <<>> => declared[1] \in Capabilities
  <2>1. words # <<>> => 1 \in DOMAIN words
    BY DEF Optional
  <2> QED BY <2>1, FactsTyped
<1>4. words = <<>> => declared = <<>>
  OBVIOUS
<1> HIDE DEF context, declared
<1>5. context.runtime \in [browserWebrtc : BOOLEAN, rustOwned : BOOLEAN, preferBrowser : BOOLEAN, nativeMkb : BOOLEAN, touchSurface : BOOLEAN]
  BY <1>2, FactsTyped
<1>6. context.title \in Capabilities /\ (context.inputConfig # <<>> => context.inputConfig[1] \in Capabilities)
  BY <1>1, <1>3, <1>4, FactsTyped
<1>7. context.remotePlay.addrs \in SUBSET Strings
  BY <1>1, FactsTyped
<1> QED BY <1>1, <1>5, <1>6, <1>7, TokenTyped, AnswerTyped DEF IsContext, PlanTargets, context

\* So is what the app has, at home with a console.
LEMMA IosContextTyped ==
    ASSUME NEW access, access.target \in PlanTargets, access.token \in Tokens, access.fallback \in Optional({FallbackServer}),
           NEW facts \in Optional(ConsoleFacts), access.target = "home" => facts # <<>>
    PROVE  IsContext(IosContext(access, facts))
<1> DEFINE context == IosContext(access, facts)
<1>1. /\ context.target = access.target /\ context.access = access.token /\ context.fallbackTurn = access.fallback
      /\ context.title = NoTitle /\ context.inputConfig = <<>>
      /\ context.remotePlay = IF access.target = "home" THEN RemotePlay(facts[1]) ELSE NoConsoleFacts
  BY DEF IosContext
<1>2. context.runtime = BrowserRuntime(TRUE)
  BY DEF IosContext
<1> HIDE DEF context
<1>3. context.runtime \in [browserWebrtc : BOOLEAN, rustOwned : BOOLEAN, preferBrowser : BOOLEAN, nativeMkb : BOOLEAN, touchSurface : BOOLEAN]
  BY <1>2, FactsTyped
<1>4. context.remotePlay.addrs \in SUBSET Strings
  BY <1>1, FactsTyped
<1> QED BY <1>1, <1>3, <1>4, TokenTyped, AnswerTyped, FactsTyped DEF IsContext, context

-----------------------------------------------------------------------------
(* The region picked is the one asked for.                                 *)

\* The region picked is one none is better than, where no region is preferred by its name.
LEMMA Picked ==
    ASSUME NEW S, NEW regions \in Seq(S), regions # <<>>, NEW session, session.regionName = <<>>
    PROVE  \E best \in DOMAIN regions :
              BestRegion(regions, session.forceIp, best) /\ PickRegion(regions, session) = regions[best]
<1> DEFINE forced == {i \in DOMAIN regions : session.forceIp # Blank /\ session.forceIp \in regions[i].contains}
           default == {i \in DOMAIN regions : regions[i].default}
           tier == IF forced # {} THEN forced ELSE IF default # {} THEN default ELSE DOMAIN regions
           best == Min(tier)
<1>0. DOMAIN regions = 1 .. Len(regions) /\ Len(regions) \in Nat \ {0}
  OBVIOUS
<1>1. tier # {} /\ tier \subseteq DOMAIN regions /\ DOMAIN regions \subseteq Nat
  <2>1. DOMAIN regions # {} /\ DOMAIN regions \subseteq Nat
    <3>1. 1 \in 1 .. Len(regions)
      BY <1>0
    <3> QED BY <1>0, <3>1
  <2> HIDE DEF forced, default
  <2>2. forced \subseteq DOMAIN regions /\ default \subseteq DOMAIN regions
    BY DEF forced, default
  <2> QED BY <2>1, <2>2
<1>2. best \in tier /\ \A y \in tier : best <= y
  <2> HIDE DEF tier
  <2> QED BY <1>1, MinIsLeast
<1>3. PickRegion(regions, session) = regions[best]
  BY DEF PickRegion
<1>4. BestRegion(regions, session.forceIp, best)
  <2> DEFINE rank == [i \in DOMAIN regions |-> IF session.forceIp # Blank /\ session.forceIp \in regions[i].contains THEN 0
                                               ELSE IF regions[i].default THEN 1 ELSE 2]
  <2> SUFFICES ASSUME NEW i \in DOMAIN regions
               PROVE  rank[best] < rank[i] \/ (rank[best] = rank[i] /\ best <= i)
    BY DEF BestRegion
  <2>1. \A j \in DOMAIN regions : rank[j] = IF j \in forced THEN 0 ELSE IF j \in default THEN 1 ELSE 2
    OBVIOUS
  <2>2. best \in DOMAIN regions
    BY <1>1, <1>2
  <2> HIDE DEF rank, forced, default, best
  <2> QED BY <1>2, <2>1, <2>2 DEF tier
<1> QED BY <1>1, <1>2, <1>3, <1>4

-----------------------------------------------------------------------------
(* The compiler, configured as the two programs do.                        *)

\* What either program configures of the compiler.
HostConfig(config) ==
    /\ config.runtime.mode \in {"auto", "webrtc-direct"} /\ config.input.mode = "auto"
    /\ config.session.regionName = <<>> /\ config.session.profile = Blank

\* What either program runs in: a browser of its own.
HostContext(context) ==
    context.runtime.browserWebrtc /\ ~context.runtime.rustOwned /\ context.runtime.preferBrowser

\* Of the programs' runtimes the browser's is the only one.
LEMMA RuntimeIsBrowser ==
    ASSUME NEW config, NEW context, HostConfig(config), HostContext(context)
    PROVE  ResolveRuntimeMode(config, context) = Compiled("webrtc-direct")
<1> DEFINE able == {m \in RuntimeModes : IF m = "webrtc-direct" THEN context.runtime.browserWebrtc ELSE context.runtime.rustOwned}
           possible == IF config.runtime.mode = "auto" THEN able ELSE able \cap {config.runtime.mode}
<1>1. able = {"webrtc-direct"}
  BY DEF HostContext, RuntimeModes
<1>2. possible = {"webrtc-direct"}
  <2> HIDE DEF able
  <2> QED BY <1>1 DEF HostConfig
<1> HIDE DEF possible
<1> QED BY <1>2 DEF ResolveRuntimeMode, HostContext, possible

\* The programs' runtime always compiles, with the relay chosen for it.
LEMMA RuntimeCompiles ==
    ASSUME NEW config, NEW context, HostConfig(config), HostContext(context)
    PROVE  /\ ~IsRejected(CompileRuntime(config, context))
           /\ CompileRuntime(config, context).ok.mode = "webrtc-direct"
           /\ CompileRuntime(config, context).ok.turn = CompileTurn(config, context).turn
           /\ CompileRuntime(config, context).ok.source = CompileTurn(config, context).source
<1>1. ~IsRejected(ResolveRuntimeMode(config, context)) /\ ResolveRuntimeMode(config, context).ok = "webrtc-direct"
  BY RuntimeIsBrowser, CompiledIsNotRejected
<1> QED BY <1>1, CompiledIsNotRejected DEF CompileRuntime

\* The input always compiles, with the vibration preferred.
LEMMA InputCompiles ==
    ASSUME NEW config, NEW context, NEW runtime, HostConfig(config)
    PROVE  /\ ~IsRejected(CompileInput(config, context, runtime))
           /\ CompileInput(config, context, runtime).ok.vibration = config.input.vibration
<1>1. ~IsRejected(ResolveInputMode(config, context))
  BY CompiledIsNotRejected DEF ResolveInputMode, HostConfig
<1> QED BY <1>1, CompiledIsNotRejected DEF CompileInput

\* A plan of the programs is rejected for its access only, and is what the compilers of its parts made.
LEMMA PlanCompiles ==
    ASSUME NEW config, NEW context, HostConfig(config), HostContext(context)
    PROVE  LET access == ResolveSessionAccess(config, context)
               result == CompilePlan(config, context)
           IN  /\ IsRejected(result) <=> IsRejected(access)
               /\ ~IsRejected(result) =>
                     /\ result.ok.session = CompileSession(config, context, access.ok)
                     /\ result.ok.negotiation = CompileNegotiation(config, context, "webrtc-direct")
                     /\ result.ok.runtime.turn = CompileTurn(config, context).turn
                     /\ result.ok.runtime.source = CompileTurn(config, context).source
                     /\ result.ok.input.vibration = config.input.vibration
<1>1. ~IsRejected(CompileRuntime(config, context)) /\ CompileRuntime(config, context).ok.mode = "webrtc-direct"
  BY RuntimeCompiles
<1>2. ~IsRejected(CompileInput(config, context, CompileRuntime(config, context).ok))
  BY InputCompiles
<1>3. CASE IsRejected(ResolveSessionAccess(config, context))
  BY <1>3 DEF CompilePlan
<1>4. CASE ~IsRejected(ResolveSessionAccess(config, context))
  BY <1>1, <1>2, <1>4, RuntimeCompiles, InputCompiles, CompiledIsNotRejected DEF CompilePlan
<1> QED BY <1>3, <1>4

\* What a configuration keeps of what was asked.
ConfigAsked(config, asked, target) ==
    /\ SelectResolution(config, target) = ParseResolutionPreference(IF target = "home" THEN asked.xhome_resolution ELSE asked.resolution)
    /\ config.session.locale = asked.preferred_game_language
    /\ config.session.forceIp = asked.force_region_ip
    /\ config.negotiation.homeIpv6 = asked.ipv6 /\ config.negotiation.cloudIpv6 = asked.ipv6
    /\ config.negotiation.codec = ParseCodecPreference(asked.codec)
    /\ config.negotiation.homeKbps = ParseBitratePreference(asked.xhome_bitrate_mode, asked.xhome_bitrate)
    /\ config.negotiation.cloudKbps = ParseBitratePreference(asked.xcloud_bitrate_mode, asked.xcloud_bitrate)
    /\ config.negotiation.audioKbps = ParseAudioBitratePreference(asked.audio_bitrate_mode, asked.audio_bitrate)

\* The settings that are bitrates.
BitrateKeys == {"xhome_bitrate", "xcloud_bitrate", "audio_bitrate"}

\* What can be asked for a plan.
Askable(asked) ==
    /\ \A key \in BitrateKeys : asked[key] \in Int
    /\ asked.codec \notin CodecPreferences

\* What a resolution is read as.
LEMMA ParsedResolution ==
    \A number : ParseResolutionPreference(number) =
        IF number = 1440 THEN "1440" ELSE IF number = 1081 THEN "1080hq"
        ELSE IF number = 1080 THEN "1080" ELSE IF number = 720 THEN "720" ELSE "auto"
  BY DEF ParseResolutionPreference
\* What size a resolution asks for.
LEMMA AskedSizes ==
    \A number : AskedSize(number) =
        IF number = 1440 THEN <<2560, 1440>> ELSE IF number \in {1080, 1081} THEN <<1920, 1080>> ELSE <<1280, 720>>
  BY DEF AskedSize
\* The device a resolution stands for.
LEMMA KindOf == ResolutionToDeviceKind("1440") = "tizen" /\ ResolutionToDeviceKind("1080hq") = "tizen" /\
 ResolutionToDeviceKind("1080") = "windows" /\ ResolutionToDeviceKind("720") = "android" /\
 ResolutionToDeviceKind("auto") = "android"
  BY DEF ResolutionToDeviceKind
\* The size of a device.
LEMMA DeviceOf ==
  ASSUME NEW config, NEW target, config.session.profile = Blank
  PROVE LET resolution == SelectResolution(config, target)
        kind == ResolutionToDeviceKind(resolution)
        device == CompileDeviceProfile(config, target)
        IN (kind = "android" => device.width = 1280 /\ device.height = 720)
           /\ (kind = "tizen" /\ resolution = "1440" => device.width = 2560 /\ device.height = 1440)
           /\ (kind # "android" /\ ~(kind = "tizen" /\ resolution = "1440") => device.width = 1920 /\ device.height = 1080)
  BY DEF CompileDeviceProfile
\* The device is of the size asked for, however the number was read.
LEMMA DeviceAsAsked ==
    ASSUME NEW config, NEW target, NEW number, config.session.profile = Blank,
           SelectResolution(config, target) = ParseResolutionPreference(number)
    PROVE  LET device == CompileDeviceProfile(config, target)
           IN  /\ <<device.width, device.height>> = AskedSize(number)
               /\ device.width <= 4096 /\ device.height <= 2160
<1> DEFINE device == CompileDeviceProfile(config, target)
<1>1. CASE number = 1440
  BY <1>1, ParsedResolution, AskedSizes, KindOf, DeviceOf
<1>2. CASE number = 1081
  BY <1>2, ParsedResolution, AskedSizes, KindOf, DeviceOf
<1>3. CASE number = 1080
  BY <1>3, ParsedResolution, AskedSizes, KindOf, DeviceOf
<1>4. CASE number = 720
  BY <1>4, ParsedResolution, AskedSizes, KindOf, DeviceOf
<1>5. CASE number \notin {720, 1080, 1081, 1440}
  BY <1>5, ParsedResolution, AskedSizes, KindOf, DeviceOf
<1> QED BY <1>1, <1>2, <1>3, <1>4, <1>5
\* What a session is compiled to.
LEMMA SessionFields ==
    ASSUME NEW config, NEW context, NEW access
    PROVE  LET session == CompileSession(config, context, access)
               device == CompileDeviceProfile(config, context.target)
           IN  /\ session.device = device
               /\ session.locale = IF config.session.locale = Blank THEN "en-US" ELSE config.session.locale
               /\ session.host = access.host
               /\ session.display = BuildMsDeviceInfo(context.target, device)
               /\ session.headers = BuildHeaders(config, context.target, device)
               /\ session.schedule = CompileSessionSchedule(config, context.target)
  BY DEF CompileSession

\* The session is as it was asked.
LEMMA SessionIsAsAsked ==
    ASSUME NEW config, NEW context, NEW made, NEW asked, NEW S,
           HostConfig(config), HostContext(context), ConfigAsked(config, asked, made.target),
           made.target = context.target, made.target \in PlanTargets, made.token = context.access,
           made.token.regions \in Seq(S), made.result = CompilePlan(config, context), ~IsRejected(made.result)
    PROVE  SessionAsAsked(made, asked)
<1> DEFINE access == ResolveSessionAccess(config, context)
           session == CompileSession(config, context, access.ok)
           number == IF made.target = "home" THEN asked.xhome_resolution ELSE asked.resolution
           device == CompileDeviceProfile(config, made.target)
<1>1. ~IsRejected(access) /\ made.result.ok.session = session
  BY PlanCompiles
<1>2. /\ <<device.width, device.height>> = AskedSize(number)
      /\ device.width <= 4096 /\ device.height <= 2160
  <2>1. config.session.profile = Blank /\ SelectResolution(config, made.target) = ParseResolutionPreference(number)
    BY DEF ConfigAsked, HostConfig
  <2> HIDE DEF number
  <2> QED BY <2>1, DeviceAsAsked
<1>3. /\ session.device = device /\ session.locale = IF config.session.locale = Blank THEN "en-US" ELSE config.session.locale
      /\ session.host = access.ok.host
      /\ session.display = BuildMsDeviceInfo(made.target, device)
      /\ session.headers.deviceInfo.width = session.display.width
      /\ session.schedule.wake => made.target = "home"
  <2> HIDE DEF access
  <2>1. BuildHeaders(config, made.target, device).deviceInfo.width = BuildMsDeviceInfo(made.target, device).width
    BY DEF BuildHeaders
  <2>2. CompileSessionSchedule(config, made.target).wake => made.target = "home"
    <3>1. CompileSessionSchedule(config, made.target).wake = (made.target = "home" /\ config.session.powerOn)
      BY DEF CompileSessionSchedule
    <3> QED BY <3>1
  <2> HIDE DEF device
  <2> QED BY <2>1, <2>2, SessionFields DEF device
<1>4. \E best \in DOMAIN made.token.regions :
         /\ BestRegion(made.token.regions, asked.force_region_ip, best)
         /\ access.ok.host = made.token.regions[best].host
  <2>1. made.token.gsToken # Blank /\ made.token.regions # <<>>
    BY <1>1, RejectedIsRejected DEF ResolveSessionAccess
  <2>2. PICK best \in DOMAIN made.token.regions :
           /\ BestRegion(made.token.regions, asked.force_region_ip, best)
           /\ PickRegion(made.token.regions, config.session) = made.token.regions[best]
    BY <2>1, Picked DEF ConfigAsked, HostConfig
  <2>3. access.ok.host = PickRegion(made.token.regions, config.session).host
    BY <1>1, <2>1, RejectedIsRejected, CompiledIsNotRejected DEF ResolveSessionAccess
  <2> QED BY <2>2, <2>3
<1>5. \A size : <<device.width, device.height>> = size => device.width = size[1] /\ device.height = size[2]
  OBVIOUS
<1>6. session.display = IF made.target = "home" THEN [width |-> device.width, height |-> device.height] ELSE [width |-> 4096, height |-> 2160]
  BY <1>3 DEF BuildMsDeviceInfo
<1> DEFINE plan == made.result.ok.session
           size == AskedSize(number)
           home == made.target = "home"
<1>7. plan = session
  BY <1>1
<1>8. size[1] = device.width /\ size[2] = device.height /\ <<device.width, device.height>> = size
  BY <1>2, <1>5
<1>9. device.width \in Int /\ device.height \in Int
  BY DEF CompileDeviceProfile
<1> HIDE DEF plan, session, device, access, number
<1>10. <<plan.device.width, plan.device.height>> = size
  BY <1>3, <1>7, <1>8
<1>11. home => plan.display = [width |-> size[1], height |-> size[2]]
  BY <1>6, <1>7, <1>8
<1>12. plan.display.width >= size[1] /\ plan.display.height >= size[2]
  BY <1>2, <1>6, <1>7, <1>8, <1>9
<1>13. /\ plan.headers.deviceInfo.width = plan.display.width
       /\ plan.locale = IF asked.preferred_game_language = Blank THEN "en-US" ELSE asked.preferred_game_language
       /\ plan.schedule.wake => home
  BY <1>3, <1>7 DEF ConfigAsked
<1>14. \E best \in DOMAIN made.token.regions :
          /\ BestRegion(made.token.regions, asked.force_region_ip, best)
          /\ plan.host = made.token.regions[best].host
  BY <1>3, <1>4, <1>7
<1>15. number = IF home THEN asked.xhome_resolution ELSE asked.resolution
  BY DEF number
<1> HIDE DEF size
<1> QED BY <1>10, <1>11, <1>12, <1>13, <1>14, <1>15 DEF SessionAsAsked, plan, size

\* A bitrate is taken when it is a custom one, else left to the compiler.
LEMMA BitratesAsAsked ==
    ASSUME NEW mode, NEW rate \in Int
    PROVE  /\ IF mode = "Custom" /\ rate > 0
              THEN ParseBitratePreference(mode, rate) = rate * 1000 /\ ParseBitratePreference(mode, rate) > 0
              ELSE ParseBitratePreference(mode, rate) = 0
           /\ IF mode = "Custom" /\ rate > 0
              THEN ParseAudioBitratePreference(mode, rate) = rate ELSE ParseAudioBitratePreference(mode, rate) = 0
  BY DEF ParseBitratePreference, ParseAudioBitratePreference

\* A blank string names no codec.
LEMMA BlankIsNoCodec ==
    /\ Blank # "video/H264-420" /\ Blank # "video/H264-42e" /\ Blank # "video/H264-4d" /\ Blank # "video/H264-64"
  BY Zenon DEF Blank

\* A codec is preferred just when one is set.
LEMMA CodecAsAsked ==
    ASSUME NEW value, value \notin CodecPreferences
    PROVE  (value = Blank) <=> (CompileCodec(ParseCodecPreference(value)) = <<>>)
<1> DEFINE preference == ParseCodecPreference(value)
<1>1. (value = Blank) <=> (preference = "auto")
  BY BlankIsNoCodec DEF ParseCodecPreference, CodecPreferences
<1>2. \A p : (p = "auto") <=> (CompileCodec(p) = <<>>)
  BY DEF CompileCodec
<1> QED BY <1>1, <1>2

\* The bitrates the compiler chooses.
LEMMA DefaultVideoBitrates ==
    ASSUME NEW target, NEW number
    PROVE  DefaultVideoBitrateKbps(target, ParseResolutionPreference(number)) \in {10000, 20000, 35000, 50000, 65000}
  BY ParsedResolution DEF DefaultVideoBitrateKbps, Resolutions

\* The bitrate of a video is the one asked for, or one of the compiler.
LEMMA VideoBitrateAsAsked ==
    ASSUME NEW config, NEW target \in PlanTargets, NEW asked, ConfigAsked(config, asked, target), Askable(asked)
    PROVE  LET mode == IF target = "home" THEN asked.xhome_bitrate_mode ELSE asked.xcloud_bitrate_mode
               mbps == IF target = "home" THEN asked.xhome_bitrate ELSE asked.xcloud_bitrate
           IN  /\ CompileVideoBitrate(config, target) \in Nat
               /\ IF mode = "Custom" /\ mbps > 0 THEN CompileVideoBitrate(config, target) = mbps * 1000
                  ELSE CompileVideoBitrate(config, target) >= 10000
<1> DEFINE mode == IF target = "home" THEN asked.xhome_bitrate_mode ELSE asked.xcloud_bitrate_mode
           mbps == IF target = "home" THEN asked.xhome_bitrate ELSE asked.xcloud_bitrate
           preference == IF target = "home" THEN config.negotiation.homeKbps ELSE config.negotiation.cloudKbps
<1>1. mbps \in Int
  BY DEF Askable, BitrateKeys
<1>2. preference = ParseBitratePreference(mode, mbps)
  BY DEF ConfigAsked
<1>3. DefaultVideoBitrateKbps(target, SelectResolution(config, target)) \in {10000, 20000, 35000, 50000, 65000}
  BY DefaultVideoBitrates DEF ConfigAsked
<1>4. CompileVideoBitrate(config, target) =
        IF preference > 0 THEN preference ELSE DefaultVideoBitrateKbps(target, SelectResolution(config, target))
  BY DEF CompileVideoBitrate
<1> HIDE DEF mode, mbps, preference
<1>5. /\ CompileVideoBitrate(config, target) \in Nat
      /\ IF mode = "Custom" /\ mbps > 0 THEN CompileVideoBitrate(config, target) = mbps * 1000
         ELSE CompileVideoBitrate(config, target) >= 10000
  BY <1>1, <1>2, <1>3, <1>4, BitratesAsAsked
<1> QED BY <1>5 DEF mode, mbps

\* What a negotiation is compiled to.
LEMMA NegotiationFields ==
    ASSUME NEW config, NEW context, NEW mode
    PROVE  LET negotiation == CompileNegotiation(config, context, mode)
           IN  /\ negotiation.ipv6 = IF context.target = "home" THEN config.negotiation.homeIpv6 ELSE config.negotiation.cloudIpv6
               /\ negotiation.codec = CompileCodec(config.negotiation.codec)
               /\ negotiation.videoKbps = CompileVideoBitrate(config, context.target)
               /\ negotiation.audioKbps = IF config.negotiation.audioKbps > 0 THEN config.negotiation.audioKbps ELSE 128
               /\ negotiation.inject => context.target = "home" /\ negotiation.consoleAddrs # {}
  BY DEF CompileNegotiation

\* The negotiation is as it was asked.
LEMMA NegotiationIsAsAsked ==
    ASSUME NEW config, NEW context, NEW made, NEW asked,
           HostConfig(config), HostContext(context), ConfigAsked(config, asked, made.target), Askable(asked),
           made.target = context.target, made.target \in PlanTargets,
           made.result = CompilePlan(config, context), ~IsRejected(made.result)
    PROVE  NegotiationAsAsked(made, asked) /\ made.result.ok.negotiation.videoKbps \in Nat
<1> DEFINE negotiation == CompileNegotiation(config, context, "webrtc-direct")
<1>1. made.result.ok.negotiation = negotiation
  BY PlanCompiles
<1>2. /\ negotiation.ipv6 = asked.ipv6
      /\ negotiation.codec = CompileCodec(ParseCodecPreference(asked.codec))
      /\ negotiation.videoKbps = CompileVideoBitrate(config, made.target)
      /\ negotiation.inject => made.target = "home" /\ negotiation.consoleAddrs # {}
  <2> HIDE DEF negotiation
  <2> QED BY NegotiationFields DEF ConfigAsked, negotiation
<1>3. negotiation.audioKbps = IF asked.audio_bitrate_mode = "Custom" /\ asked.audio_bitrate > 0 THEN asked.audio_bitrate ELSE 128
  <2>1. config.negotiation.audioKbps = ParseAudioBitratePreference(asked.audio_bitrate_mode, asked.audio_bitrate)
    BY DEF ConfigAsked
  <2>2. asked.audio_bitrate \in Int
    BY DEF Askable, BitrateKeys
  <2>3. negotiation.audioKbps = IF config.negotiation.audioKbps > 0 THEN config.negotiation.audioKbps ELSE 128
    BY NegotiationFields
  <2> HIDE DEF negotiation
  <2> QED BY <2>1, <2>2, <2>3, BitratesAsAsked
<1>4. (asked.codec = Blank) <=> (negotiation.codec = <<>>)
  BY <1>2, CodecAsAsked DEF Askable
<1> HIDE DEF negotiation
<1> QED BY <1>1, <1>2, <1>3, <1>4, VideoBitrateAsAsked DEF NegotiationAsAsked

\* The relay of a plan, and that its source says whether there is one.
LEMMA TurnCompiles ==
    ASSUME NEW config, NEW context
    PROVE  LET turn == CompileTurn(config, context)
               fallback == IF config.runtime.fallbackTurn THEN context.fallbackTurn ELSE <<>>
           IN  /\ turn.turn = IF config.runtime.customTurn # <<>> THEN config.runtime.customTurn ELSE fallback
               /\ (turn.turn # <<>>) <=> (turn.source # "none")
  BY DEF CompileTurn

\* A plan the compiler rejects lacks a token, a region or an address.
LEMMA RefusedForAccess ==
    ASSUME NEW S, NEW config, NEW context, NEW made, HostConfig(config), HostContext(context),
           made.token = context.access, made.token.regions \in Seq(S),
           made.result = CompilePlan(config, context), IsRejected(made.result)
    PROVE  RefusedFor(made)
<1>1. IsRejected(ResolveSessionAccess(config, context))
  BY PlanCompiles
<1> SUFFICES ASSUME made.token.gsToken # Blank, made.token.regions # <<>>
             PROVE  \E r \in Range(made.token.regions) : r.host = Blank
  BY DEF RefusedFor
<1>2. PICK best \in DOMAIN made.token.regions : PickRegion(made.token.regions, config.session) = made.token.regions[best]
  BY Picked DEF HostConfig
<1>3. made.token.regions[best].host = Blank
  BY <1>1, <1>2, CompiledIsNotRejected DEF ResolveSessionAccess
<1> QED BY <1>2, <1>3 DEF Range

-----------------------------------------------------------------------------
(* The configurations of the desktop and of the app.                       *)

\* The preferences from before a host fills any in, as far as the hosts leave them alone.
SessionKeys == DOMAIN SessionDefaults
NegotiationKeys == DOMAIN NegotiationDefaults

\* The preferences there are, and those no host fills in.
LEMMA KeysOfDefaults ==
    /\ {"locale", "forceIp", "cloudResolution", "homeResolution", "powerOn"} \subseteq SessionKeys
    /\ {"cloudIpv6", "homeIpv6", "codec", "cloudKbps", "homeKbps", "audioKbps", "channels"} \subseteq NegotiationKeys
    /\ SessionDefaults.regionName = <<>> /\ SessionDefaults.profile = Blank
    /\ InputDefaults.mode = "auto" /\ {"pollingHz", "vibration"} \subseteq DOMAIN InputDefaults
  BY DEF SessionDefaults, NegotiationDefaults, InputDefaults, SessionKeys, NegotiationKeys

\* The preferences read from raw values.
LEMMA RawFields ==
    ASSUME NEW locale, NEW forceIp, NEW ipv6, NEW resolution
    PROVE  LET raw == UpdateFromRawValues(DefaultConfig, locale, forceIp, ipv6, resolution)
           IN  /\ raw.session.locale = locale /\ raw.session.forceIp = forceIp
               /\ raw.session.cloudResolution = ParseResolutionPreference(resolution)
               /\ raw.session.homeResolution = ParseResolutionPreference(resolution)
               /\ raw.session.regionName = <<>> /\ raw.session.profile = Blank
               /\ DOMAIN raw.session = SessionKeys
               /\ raw.negotiation.cloudIpv6 = ipv6 /\ raw.negotiation.homeIpv6 = ipv6
               /\ DOMAIN raw.negotiation = NegotiationKeys
               /\ raw.input = InputDefaults /\ raw.runtime = RuntimeDefaults /\ raw.render = RenderDefaults
               /\ DOMAIN raw = {"session", "negotiation", "input", "runtime", "render"}
<1>1. DefaultConfig.session = SessionDefaults /\ DefaultConfig.negotiation = NegotiationDefaults
      /\ DefaultConfig.input = InputDefaults /\ DefaultConfig.runtime = RuntimeDefaults /\ DefaultConfig.render = RenderDefaults
      /\ DOMAIN DefaultConfig = {"session", "negotiation", "input", "runtime", "render"}
  BY DEF DefaultConfig
<1> DEFINE raw == UpdateFromRawValues(DefaultConfig, locale, forceIp, ipv6, resolution)
           preference == ParseResolutionPreference(resolution)
<1>2. DOMAIN DefaultConfig.session = SessionKeys /\ DOMAIN DefaultConfig.negotiation = NegotiationKeys
  BY <1>1 DEF SessionKeys, NegotiationKeys
<1>3. raw = [DefaultConfig EXCEPT !.session.locale = locale, !.session.forceIp = forceIp,
                                  !.negotiation.cloudIpv6 = ipv6, !.negotiation.homeIpv6 = ipv6,
                                  !.session.cloudResolution = preference, !.session.homeResolution = preference]
  BY DEF UpdateFromRawValues
<1> HIDE DEF raw, preference
<1>4. raw.session = [DefaultConfig.session EXCEPT !.locale = locale, !.forceIp = forceIp,
                                                  !.cloudResolution = preference, !.homeResolution = preference]
  BY <1>1, <1>3
<1>5. raw.negotiation = [DefaultConfig.negotiation EXCEPT !.cloudIpv6 = ipv6, !.homeIpv6 = ipv6]
  BY <1>1, <1>3
<1>6. /\ raw.input = InputDefaults /\ raw.runtime = RuntimeDefaults /\ raw.render = RenderDefaults
      /\ DOMAIN raw = {"session", "negotiation", "input", "runtime", "render"}
  BY <1>1, <1>3
<1>7. /\ raw.session.locale = locale /\ raw.session.forceIp = forceIp
      /\ raw.session.cloudResolution = preference /\ raw.session.homeResolution = preference
      /\ raw.session.regionName = <<>> /\ raw.session.profile = Blank
      /\ DOMAIN raw.session = SessionKeys
  BY <1>1, <1>2, <1>4, KeysOfDefaults
<1>8. /\ raw.negotiation.cloudIpv6 = ipv6 /\ raw.negotiation.homeIpv6 = ipv6
      /\ DOMAIN raw.negotiation = NegotiationKeys
  BY <1>2, <1>5, KeysOfDefaults
<1> QED BY <1>6, <1>7, <1>8 DEF raw, preference

\* The preferences of the desktop's snapshot.
LEMMA AppliedFields ==
    ASSUME NEW base, NEW snapshot, DOMAIN base.session = SessionKeys, DOMAIN base.negotiation = NegotiationKeys,
           base.input = InputDefaults
    PROVE  LET config == ApplyStreamingPreferences(base, snapshot)
           IN  /\ \A key \in SessionKeys \ {"powerOn"} : config.session[key] = base.session[key]
               /\ config.negotiation.homeIpv6 = base.negotiation.homeIpv6
               /\ config.negotiation.cloudIpv6 = base.negotiation.cloudIpv6
               /\ config.negotiation.codec = ParseCodecPreference(snapshot.codec)
               /\ config.negotiation.homeKbps = ParseBitratePreference(snapshot.xhome_bitrate_mode, snapshot.xhome_bitrate)
               /\ config.negotiation.cloudKbps = ParseBitratePreference(snapshot.xcloud_bitrate_mode, snapshot.xcloud_bitrate)
               /\ config.negotiation.audioKbps = ParseAudioBitratePreference(snapshot.audio_bitrate_mode, snapshot.audio_bitrate)
               /\ config.input.mode = "auto" /\ config.input.vibration = snapshot.vibration
               /\ config.runtime = [mode |-> "webrtc-direct", customTurn |-> ResolveCustomTurn(snapshot),
                                    fallbackTurn |-> snapshot.xhome_turn_fallback]
<1> DEFINE config == ApplyStreamingPreferences(base, snapshot)
<1>1. config.session = [base.session EXCEPT !.powerOn = snapshot.power_on]
  BY DEF ApplyStreamingPreferences
<1>2. config.negotiation = [base.negotiation EXCEPT
        !.codec = ParseCodecPreference(snapshot.codec),
        !.homeKbps = ParseBitratePreference(snapshot.xhome_bitrate_mode, snapshot.xhome_bitrate),
        !.cloudKbps = ParseBitratePreference(snapshot.xcloud_bitrate_mode, snapshot.xcloud_bitrate),
        !.audioKbps = ParseAudioBitratePreference(snapshot.audio_bitrate_mode, snapshot.audio_bitrate),
        !.channels = "auto"]
  BY DEF ApplyStreamingPreferences
<1>3. config.input = [base.input EXCEPT !.pollingHz = 250, !.vibration = snapshot.vibration]
  BY DEF ApplyStreamingPreferences
<1>4. config.runtime = [mode |-> "webrtc-direct", customTurn |-> ResolveCustomTurn(snapshot),
                        fallbackTurn |-> snapshot.xhome_turn_fallback]
  BY DEF ApplyStreamingPreferences
<1> HIDE DEF config
<1>5. \A key \in SessionKeys \ {"powerOn"} : config.session[key] = base.session[key]
  BY <1>1
<1>6. /\ config.negotiation.homeIpv6 = base.negotiation.homeIpv6
      /\ config.negotiation.cloudIpv6 = base.negotiation.cloudIpv6
      /\ config.negotiation.codec = ParseCodecPreference(snapshot.codec)
      /\ config.negotiation.homeKbps = ParseBitratePreference(snapshot.xhome_bitrate_mode, snapshot.xhome_bitrate)
      /\ config.negotiation.cloudKbps = ParseBitratePreference(snapshot.xcloud_bitrate_mode, snapshot.xcloud_bitrate)
      /\ config.negotiation.audioKbps = ParseAudioBitratePreference(snapshot.audio_bitrate_mode, snapshot.audio_bitrate)
  BY <1>2, KeysOfDefaults
<1>7. config.input.mode = "auto" /\ config.input.vibration = snapshot.vibration
  BY <1>3, KeysOfDefaults
<1> QED BY <1>4, <1>5, <1>6, <1>7 DEF config

\* The desktop configures the compiler as the settings ask.
LEMMA DesktopAsAsked ==
    ASSUME NEW snapshot, NEW target \in PlanTargets
    PROVE  LET config == DesktopConfig(snapshot)
           IN  /\ HostConfig(config) /\ ConfigAsked(config, snapshot, target)
               /\ config.runtime.customTurn = ResolveCustomTurn(snapshot)
               /\ config.runtime.fallbackTurn = snapshot.xhome_turn_fallback
               /\ config.input.vibration = snapshot.vibration
<1> DEFINE raw == UpdateFromRawValues(DefaultConfig, snapshot.preferred_game_language, snapshot.force_region_ip,
                                      snapshot.ipv6, snapshot.resolution)
           aimed == [raw EXCEPT !.session.homeResolution = ParseResolutionPreference(snapshot.xhome_resolution)]
           config == DesktopConfig(snapshot)
<1>1. /\ raw.session.locale = snapshot.preferred_game_language /\ raw.session.forceIp = snapshot.force_region_ip
      /\ raw.session.cloudResolution = ParseResolutionPreference(snapshot.resolution)
      /\ raw.session.regionName = <<>> /\ raw.session.profile = Blank
      /\ DOMAIN raw.session = SessionKeys
      /\ raw.negotiation.cloudIpv6 = snapshot.ipv6 /\ raw.negotiation.homeIpv6 = snapshot.ipv6
      /\ DOMAIN raw.negotiation = NegotiationKeys
      /\ raw.input = InputDefaults
      /\ DOMAIN raw = {"session", "negotiation", "input", "runtime", "render"}
  <2> HIDE DEF raw
  <2> QED BY RawFields DEF raw
<1>2. config = ApplyStreamingPreferences(aimed, snapshot)
  BY DEF DesktopConfig
<1> HIDE DEF raw, config
<1>3. /\ aimed.session = [raw.session EXCEPT !.homeResolution = ParseResolutionPreference(snapshot.xhome_resolution)]
      /\ aimed.negotiation = raw.negotiation /\ aimed.input = raw.input
  BY <1>1
<1> HIDE DEF aimed
<1>4. /\ aimed.session.locale = snapshot.preferred_game_language /\ aimed.session.forceIp = snapshot.force_region_ip
      /\ aimed.session.cloudResolution = ParseResolutionPreference(snapshot.resolution)
      /\ aimed.session.homeResolution = ParseResolutionPreference(snapshot.xhome_resolution)
      /\ aimed.session.regionName = <<>> /\ aimed.session.profile = Blank
      /\ DOMAIN aimed.session = SessionKeys
  BY <1>1, <1>3, KeysOfDefaults
<1>5. /\ aimed.negotiation.homeIpv6 = snapshot.ipv6 /\ aimed.negotiation.cloudIpv6 = snapshot.ipv6
      /\ DOMAIN aimed.negotiation = NegotiationKeys /\ aimed.input = InputDefaults
  BY <1>1, <1>3
<1>6. /\ \A key \in SessionKeys \ {"powerOn"} : config.session[key] = aimed.session[key]
      /\ config.negotiation.homeIpv6 = snapshot.ipv6
      /\ config.negotiation.cloudIpv6 = snapshot.ipv6
      /\ config.negotiation.codec = ParseCodecPreference(snapshot.codec)
      /\ config.negotiation.homeKbps = ParseBitratePreference(snapshot.xhome_bitrate_mode, snapshot.xhome_bitrate)
      /\ config.negotiation.cloudKbps = ParseBitratePreference(snapshot.xcloud_bitrate_mode, snapshot.xcloud_bitrate)
      /\ config.negotiation.audioKbps = ParseAudioBitratePreference(snapshot.audio_bitrate_mode, snapshot.audio_bitrate)
      /\ config.input.mode = "auto" /\ config.input.vibration = snapshot.vibration
      /\ config.runtime = [mode |-> "webrtc-direct", customTurn |-> ResolveCustomTurn(snapshot),
                           fallbackTurn |-> snapshot.xhome_turn_fallback]
  BY <1>2, <1>4, <1>5, AppliedFields
<1>7. /\ config.session.locale = snapshot.preferred_game_language /\ config.session.forceIp = snapshot.force_region_ip
      /\ config.session.cloudResolution = ParseResolutionPreference(snapshot.resolution)
      /\ config.session.homeResolution = ParseResolutionPreference(snapshot.xhome_resolution)
      /\ config.session.regionName = <<>> /\ config.session.profile = Blank
  <2>1. {"locale", "forceIp", "cloudResolution", "homeResolution", "regionName", "profile"} \subseteq SessionKeys \ {"powerOn"}
    BY DEF SessionKeys, SessionDefaults
  <2> QED BY <1>4, <1>6, <2>1
<1>8. ConfigAsked(config, snapshot, target)
  BY <1>6, <1>7 DEF ConfigAsked, SelectResolution
<1>9. HostConfig(config)
  BY <1>6, <1>7 DEF HostConfig
<1>10. config.runtime.customTurn = ResolveCustomTurn(snapshot) /\ config.runtime.fallbackTurn = snapshot.xhome_turn_fallback
  BY <1>6
<1> QED BY <1>6, <1>8, <1>9, <1>10 DEF config

\* Settings of their types can be asked for.
LEMMA SettingsAskable ==
    ASSUME NEW asked, AreSettings(asked), asked.codec \notin CodecPreferences
    PROVE  Askable(asked)
  BY DEF AreSettings, NumberKeys, BitrateKeys, Askable

\* The preferences of the app.
LEMMA IosFields ==
    ASSUME NEW access, NEW facts, NEW app, access.target \in PlanTargets
    PROVE  LET config == IosConfig(access, facts, app)
           IN  /\ config.session.locale = app.preferred_game_language
               /\ config.session.cloudResolution = ParseResolutionPreference(app.resolution)
               /\ config.session.homeResolution = ParseResolutionPreference(app.xhome_resolution)
               /\ config.session.regionName = <<>> /\ config.session.profile = Blank
               /\ config.session.powerOn = (access.target = "home" /\ facts[1].power # "On" /\ facts[1].management = "yes")
               /\ config.negotiation.homeIpv6 = app.ipv6 /\ config.negotiation.cloudIpv6 = app.ipv6
               /\ config.negotiation.codec = ParseCodecPreference(app.codec)
               /\ config.negotiation.homeKbps = ParseBitratePreference(app.xhome_bitrate_mode, app.xhome_bitrate)
               /\ config.negotiation.cloudKbps = ParseBitratePreference(app.xcloud_bitrate_mode, app.xcloud_bitrate)
               /\ config.negotiation.audioKbps = ParseAudioBitratePreference(app.audio_bitrate_mode, app.audio_bitrate)
               /\ config.input.mode = "auto"
               /\ config.runtime.mode = "auto" /\ config.runtime.customTurn = <<>>
               /\ config.runtime.fallbackTurn =
                     (access.target = "home" /\ app.xhome_turn_fallback /\ access.fallback # <<>>)
               /\ config.session.forceIp = access.forceIp
<1> DEFINE config == IosConfig(access, facts, app)
           home == access.target = "home"
           base == IF home THEN NewHomeConfig(app.preferred_game_language, access.forceIp, app.xhome_resolution)
                   ELSE DefaultConfig
           forceIp == IF access.forceIp # Blank THEN access.forceIp ELSE base.session.forceIp
           powerOn == home /\ facts[1].power # "On" /\ facts[1].management = "yes"
           fallbackTurn == home /\ app.xhome_turn_fallback /\ access.fallback # <<>>
<1>1. /\ base.session.regionName = <<>> /\ base.session.profile = Blank
      /\ base.session.forceIp \in {access.forceIp, Blank}
      /\ DOMAIN base.session = SessionKeys
      /\ base.input = InputDefaults /\ base.runtime = RuntimeDefaults
  <2>1. CASE home
    <3> DEFINE noIpv6 == FALSE
    <3>1. base = UpdateFromRawValues(DefaultConfig, app.preferred_game_language, access.forceIp, noIpv6, app.xhome_resolution)
      BY <2>1 DEF NewHomeConfig
    <3> HIDE DEF noIpv6, base
    <3> QED BY <3>1, RawFields
  <2>2. CASE ~home
    BY <2>2 DEF DefaultConfig, SessionDefaults, SessionKeys
  <2> QED BY <2>1, <2>2
<1> HIDE DEF base, home
<1>2. config.session = [base.session EXCEPT
            !.locale = app.preferred_game_language,
            !.cloudResolution = ParseResolutionPreference(app.resolution),
            !.homeResolution = ParseResolutionPreference(app.xhome_resolution),
            !.forceIp = forceIp, !.powerOn = powerOn]
  BY DEF IosConfig, base, home
<1>3. config.negotiation = [NegotiationDefaults EXCEPT
            !.cloudIpv6 = app.ipv6, !.homeIpv6 = app.ipv6, !.codec = ParseCodecPreference(app.codec),
            !.homeKbps = ParseBitratePreference(app.xhome_bitrate_mode, app.xhome_bitrate),
            !.cloudKbps = ParseBitratePreference(app.xcloud_bitrate_mode, app.xcloud_bitrate),
            !.audioKbps = ParseAudioBitratePreference(app.audio_bitrate_mode, app.audio_bitrate)]
  BY DEF IosConfig, base, home
<1>4. config.input = base.input /\ config.runtime = [base.runtime EXCEPT !.fallbackTurn = fallbackTurn]
  BY DEF IosConfig, base, home
<1>5. forceIp = access.forceIp
  BY <1>1
<1> HIDE DEF config, forceIp, powerOn, fallbackTurn
<1>6. /\ config.session.locale = app.preferred_game_language
      /\ config.session.cloudResolution = ParseResolutionPreference(app.resolution)
      /\ config.session.homeResolution = ParseResolutionPreference(app.xhome_resolution)
      /\ config.session.regionName = <<>> /\ config.session.profile = Blank
      /\ config.session.powerOn = powerOn /\ config.session.forceIp = forceIp
  BY <1>1, <1>2, KeysOfDefaults
<1>7. /\ config.negotiation.homeIpv6 = app.ipv6 /\ config.negotiation.cloudIpv6 = app.ipv6
      /\ config.negotiation.codec = ParseCodecPreference(app.codec)
      /\ config.negotiation.homeKbps = ParseBitratePreference(app.xhome_bitrate_mode, app.xhome_bitrate)
      /\ config.negotiation.cloudKbps = ParseBitratePreference(app.xcloud_bitrate_mode, app.xcloud_bitrate)
      /\ config.negotiation.audioKbps = ParseAudioBitratePreference(app.audio_bitrate_mode, app.audio_bitrate)
  BY <1>3, KeysOfDefaults DEF NegotiationKeys
<1>8. /\ config.input.mode = "auto" /\ config.runtime.mode = "auto" /\ config.runtime.customTurn = <<>>
      /\ config.runtime.fallbackTurn = fallbackTurn
  BY <1>1, <1>4, KeysOfDefaults DEF RuntimeDefaults
<1> QED BY <1>5, <1>6, <1>7, <1>8 DEF config, powerOn, fallbackTurn, home

\* The app configures the compiler as the settings ask.
LEMMA IosAsAsked ==
    ASSUME NEW access, NEW facts, NEW app, access.target \in PlanTargets, app.force_region_ip = access.forceIp
    PROVE  HostConfig(IosConfig(access, facts, app)) /\ ConfigAsked(IosConfig(access, facts, app), app, access.target)
<1> DEFINE config == IosConfig(access, facts, app)
<1> HIDE DEF config
<1>1. HostConfig(config)
  BY IosFields DEF HostConfig, config
<1>2. ConfigAsked(config, app, access.target)
  BY IosFields DEF ConfigAsked, SelectResolution, config
<1> QED BY <1>1, <1>2 DEF config

-----------------------------------------------------------------------------
(* The inductive invariant: what a plan was made of.                       *)

\* A plan the desktop made is compiled of the settings it was begun with, and shown as it is.
MadeByDesktop(made) ==
    /\ made = [target |-> made.target, store |-> made.store, readable |-> made.readable, token |-> made.token,
               context |-> made.context, result |-> made.result, shown |-> made.shown]
    /\ StoreOf("desktop", made.store)
    /\ \/ IsRejected(ParseSessionAccess(made.token)) /\ made.result = ParseSessionAccess(made.token)
       \/ /\ made.context.target = made.target /\ made.context.access = made.token /\ HostContext(made.context)
          /\ made.context.remotePlay.streaming = "no" => made.context.remotePlay.resolved
          /\ made.target = "cloud" => made.context.remotePlay.addrs = {}
          /\ made.result = CompilePlan(DesktopConfig(GetStreamingConfig(made.store, made.readable)), made.context)
    /\ made.shown # <<>> =>
          /\ ~IsRejected(made.result)
          /\ made.shown = <<ExecutionSnapshot(made, made.shown[1].vibrationStrength)>>

\* The access a plan of the app was made with.
AccessOf(made) ==
    [target |-> made.target, token |-> made.token, forceIp |-> made.store.force_region_ip,
     fallback |-> made.context.fallbackTurn]

\* A plan of the app is refused for want of facts, or compiled of the settings it was asked with.
MadeByApp(made) ==
    /\ StoreOf("ios", made.store)
    /\ \/ made.target = "home" /\ made.facts = <<>> /\ IsRejected(made.result) /\ made.shown = <<>>
       \/ /\ made.target = "home" => made.facts # <<>>
          /\ made.target = "cloud" => made.context.fallbackTurn = <<>>
          /\ made.context = IosContext(AccessOf(made), made.facts)
          /\ made.result = ControlPlan(AccessOf(made), made.facts, made.store)
          /\ made.shown = IF IsRejected(made.result) THEN <<>>
                          ELSE <<[webRtc |-> ProjectWebRtcPlan(made.result.ok), ice |-> ResolveIceServers(made.result.ok)]>>

\* A plan made, by either program.
Made(program, made) ==
    /\ made.target \in PlanTargets /\ made.token \in Tokens
    /\ IF program = "desktop" THEN MadeByDesktop(made) ELSE MadeByApp(made)

\* The store, the plan being made and the one made are of one program, and a plan made is what the
\* compiler says of the settings it was begun with.
SettingsInv ==
    /\ host \in {"desktop", "ios"}
    /\ DOMAIN settings = Keys /\ StoreOf(host, settings)
    /\ draft # <<>> =>
          /\ draft[1].target \in PlanTargets /\ draft[1].token \in Tokens
          /\ host = "desktop" => StoreOf("desktop", draft[1].store)
          /\ host = "ios" =>
                /\ draft[1] = [target |-> draft[1].target, token |-> draft[1].token, forceIp |-> draft[1].forceIp,
                               fallback |-> draft[1].fallback]
                /\ draft[1].target = "cloud" => draft[1].fallback = <<>>
                /\ draft[1].forceIp \in Strings
    /\ outcome # <<>> => Made(host, outcome[1])

\* A token that is refused lacks what the plan is refused for.
LEMMA AccessRefused ==
    ASSUME NEW made, IsRejected(ParseSessionAccess(made.token))
    PROVE  RefusedFor(made)
  BY CompiledIsNotRejected DEF ParseSessionAccess, RefusedFor

\* The desktop shows the plan as it is.
LEMMA DesktopShows ==
    ASSUME NEW made, NEW asked, NEW config, host = "desktop", made.target \in PlanTargets,
           made.context.target = made.target, HostConfig(config), HostContext(made.context),
           made.context.remotePlay.streaming = "no" => made.context.remotePlay.resolved,
           made.target = "cloud" => made.context.remotePlay.addrs = {},
           made.result = CompilePlan(config, made.context), ~IsRejected(made.result),
           config.input.vibration = asked.vibration,
           made.shown = <<ExecutionSnapshot(made, made.shown[1].vibrationStrength)>>
    PROVE  ShownAsPlanned(made, asked)
<1> DEFINE plan == made.result.ok
           shown == made.shown[1]
           capabilities == ProjectSessionCapabilities(made.context, plan)
<1>1. /\ plan.input.vibration = asked.vibration
      /\ plan.runtime.turn # <<>> <=> plan.runtime.source # "none"
  BY PlanCompiles, TurnCompiles
<1>2. /\ shown.runtime = ProjectRuntimePlan(plan) /\ shown.metadata = ProjectSessionMetadata(plan)
      /\ shown.capabilities = capabilities
  <2> DEFINE strength == made.shown[1].vibrationStrength
  <2> HIDE DEF strength
  <2>1. made.shown[1] = ExecutionSnapshot(made, strength)
    BY DEF strength
  <2> QED BY <2>1 DEF ExecutionSnapshot
<1> HIDE DEF plan, shown
<1>3. /\ shown.runtime.width = plan.session.device.width /\ shown.runtime.height = plan.session.device.height
      /\ shown.runtime.turn = plan.runtime.turn /\ shown.runtime.vibration = plan.input.vibration
  BY <1>2 DEF ProjectRuntimePlan
<1>4. shown.metadata.turnSource = plan.runtime.source
  BY <1>2 DEF ProjectSessionMetadata
<1>5. made.context.remotePlay.streaming = "no" => ~shown.capabilities.allowsStreaming
  <2>1. capabilities.allowsStreaming = ResolveRemotePlayStreamingAllowed(made.context)
    BY DEF ProjectSessionCapabilities
  <2> HIDE DEF capabilities
  <2> QED BY <1>2, <2>1 DEF ResolveRemotePlayStreamingAllowed
<1>6. made.target = "cloud" => shown.capabilities.addrsCount = 0
  <2>1. capabilities.addrsCount = Cardinality(made.context.remotePlay.addrs)
    BY DEF ProjectSessionCapabilities
  <2> HIDE DEF capabilities
  <2> QED BY <1>2, <2>1, FS_EmptySet
<1> QED BY <1>1, <1>3, <1>4, <1>5, <1>6 DEF ShownAsPlanned, plan, shown

\* What the desktop made is as it was asked.
LEMMA DesktopPlansAgree ==
    ASSUME SettingsAssumption, NEW made, host = "desktop", made.target \in PlanTargets, made.token \in Tokens, MadeByDesktop(made)
    PROVE  LET asked == Asked(made)
           IN  IF IsRejected(made.result) THEN RefusedFor(made)
               ELSE /\ SessionAsAsked(made, asked) /\ NegotiationAsAsked(made, asked) /\ RelayAsAsked(made, asked)
                    /\ made.shown # <<>> => ShownAsPlanned(made, asked)
<1> DEFINE asked == GetStreamingConfig(made.store, made.readable)
           config == DesktopConfig(asked)
<1>1. Asked(made) = asked
  BY DEF Asked
<1>2. CASE IsRejected(ParseSessionAccess(made.token)) /\ made.result = ParseSessionAccess(made.token)
  BY <1>2, AccessRefused
<1>3. CASE made.result = CompilePlan(config, made.context) /\ made.context.target = made.target
           /\ made.context.access = made.token /\ HostContext(made.context)
           /\ (made.context.remotePlay.streaming = "no" => made.context.remotePlay.resolved)
           /\ (made.target = "cloud" => made.context.remotePlay.addrs = {})
  <2>1. /\ HostConfig(config) /\ ConfigAsked(config, asked, made.target)
        /\ config.runtime.customTurn = ResolveCustomTurn(asked)
        /\ config.runtime.fallbackTurn = asked.xhome_turn_fallback
        /\ config.input.vibration = asked.vibration
    <3> HIDE DEF asked
    <3> QED BY DesktopAsAsked
  <2>2. Askable(asked)
    BY NormalizedTyped, SettingsAskable DEF MadeByDesktop
  <2>3. made.token.regions \in Seq(Range(made.token.regions))
    BY TokenTyped
  <2> HIDE DEF config, asked
  <2>4. CASE IsRejected(made.result)
    BY <1>3, <2>1, <2>3, <2>4, RefusedForAccess
  <2>5. CASE ~IsRejected(made.result)
    <3>1. SessionAsAsked(made, asked)
      BY <1>3, <2>1, <2>3, <2>5, SessionIsAsAsked
    <3>2. NegotiationAsAsked(made, asked)
      BY <1>3, <2>1, <2>2, <2>5, NegotiationIsAsAsked
    <3>3. RelayAsAsked(made, asked)
      <4>1. made.result.ok.runtime.turn = IF ResolveCustomTurn(asked) # <<>> THEN ResolveCustomTurn(asked)
                                          ELSE IF asked.xhome_turn_fallback THEN made.context.fallbackTurn ELSE <<>>
        BY <1>3, <2>1, <2>5, PlanCompiles, TurnCompiles
      <4> QED BY <4>1 DEF RelayAsAsked
    <3>4. made.shown # <<>> => ShownAsPlanned(made, asked)
      BY <1>3, <2>1, <2>5, DesktopShows DEF MadeByDesktop
    <3> QED BY <1>1, <2>5, <3>1, <3>2, <3>3, <3>4
  <2> QED BY <2>4, <2>5
<1> QED BY <1>2, <1>3 DEF MadeByDesktop

\* The macroblocks of a frame cover the picture.
LEMMA FrameCoversPicture ==
    ASSUME NEW number, NEW width, NEW height, <<width, height>> = AskedSize(number)
    PROVE  ((width + 15) \div 16) * ((height + 15) \div 16) * 256 >= width * height
<1>1. \/ width = 2560 /\ height = 1440
      \/ width = 1920 /\ height = 1080
      \/ width = 1280 /\ height = 720
  BY AskedSizes
<1> QED BY <1>1

\* The app's peer connection is configured within the bitrates of the plan.
LEMMA AppShows ==
    ASSUME NEW plan, plan.negotiation.videoKbps \in Nat
    PROVE  LET webRtc == ProjectWebRtcPlan(plan)
           IN  /\ webRtc.minKbps <= webRtc.startKbps /\ webRtc.startKbps <= webRtc.maxKbps
               /\ webRtc.width = plan.session.device.width /\ webRtc.height = plan.session.device.height
               /\ webRtc.maxFrameSize = ((plan.session.device.width + 15) \div 16) * ((plan.session.device.height + 15) \div 16)
<1> DEFINE device == plan.session.device
           tier == IF device.height <= 720 THEN [min |-> 3000, start |-> 10000]
                   ELSE IF device.height > 1080 \/ device.width > 1920 THEN [min |-> 8000, start |-> 35000]
                   ELSE [min |-> 5000, start |-> 20000]
           webRtc == ProjectWebRtcPlan(plan)
<1>1. tier.min \in Int /\ tier.start \in Int /\ tier.min <= tier.start
  OBVIOUS
<1>2. /\ webRtc.minKbps = LesserOf(plan.negotiation.videoKbps, tier.min)
      /\ webRtc.startKbps = LesserOf(plan.negotiation.videoKbps, tier.start)
      /\ webRtc.maxKbps = plan.negotiation.videoKbps
  BY DEF ProjectWebRtcPlan
<1>3. /\ webRtc.width = device.width /\ webRtc.height = device.height
      /\ webRtc.maxFrameSize = ((device.width + 15) \div 16) * ((device.height + 15) \div 16)
  BY DEF ProjectWebRtcPlan
<1> HIDE DEF webRtc, tier
<1>4. webRtc.minKbps <= webRtc.startKbps /\ webRtc.startKbps <= webRtc.maxKbps
  BY <1>1, <1>2 DEF LesserOf
<1> QED BY <1>3, <1>4 DEF webRtc

\* What the app made is as it was asked.
LEMMA AppPlansAgree ==
    ASSUME SettingsAssumption, NEW made, host = "ios", made.target \in PlanTargets, made.token \in Tokens, MadeByApp(made)
    PROVE  LET asked == Asked(made)
           IN  IF IsRejected(made.result) THEN RefusedFor(made)
               ELSE /\ SessionAsAsked(made, asked) /\ NegotiationAsAsked(made, asked) /\ RelayAsAsked(made, asked)
                    /\ made.shown # <<>> => ShownAsPlanned(made, asked)
<1> DEFINE asked == made.store
           access == AccessOf(made)
           facts == made.facts
           config == IosConfig(access, facts, asked)
<1>1. Asked(made) = asked /\ host # "desktop"
  BY DEF Asked
<1>2. CASE made.target = "home" /\ facts = <<>> /\ IsRejected(made.result)
  BY <1>1, <1>2 DEF RefusedFor
<1>3. CASE /\ made.target = "home" => facts # <<>>
           /\ made.target = "cloud" => made.context.fallbackTurn = <<>>
           /\ made.context = IosContext(access, facts)
           /\ made.result = ControlPlan(access, facts, asked)
           /\ made.shown = IF IsRejected(made.result) THEN <<>>
                           ELSE <<[webRtc |-> ProjectWebRtcPlan(made.result.ok), ice |-> ResolveIceServers(made.result.ok)]>>
  <2>1. access.target = made.target /\ access.token = made.token /\ access.forceIp = asked.force_region_ip
        /\ access.fallback = made.context.fallbackTurn
    BY DEF AccessOf
  <2> HIDE DEF access
  <2>2. CASE made.target = "home" /\ ~ValidateHomeHostCapability(facts[1])
    <3>1. IsRejected(made.result)
      BY <1>3, <2>1, <2>2, RejectedIsRejected DEF ControlPlan
    <3> QED BY <1>1, <2>2, <3>1 DEF RefusedFor
  <2>3. CASE made.target = "home" => ValidateHomeHostCapability(facts[1])
    <3>1. made.result = CompilePlan(config, made.context)
      BY <1>3, <2>1, <2>3 DEF ControlPlan
    <3>2. HostConfig(config) /\ ConfigAsked(config, asked, made.target)
      BY <2>1, IosAsAsked
    <3>3. /\ made.context.target = made.target /\ made.context.access = made.token
          /\ HostContext(made.context)
      BY <1>3, <2>1 DEF IosContext, BrowserRuntime, HostContext
    <3>4. made.token.regions \in Seq(Range(made.token.regions))
      BY TokenTyped
    <3>5. Askable(asked)
      BY AppStoreTyped, SettingsAskable DEF MadeByApp
    <3>6. /\ config.session.powerOn = (made.target = "home" /\ facts[1].power # "On" /\ facts[1].management = "yes")
          /\ config.runtime.customTurn = <<>>
          /\ config.runtime.fallbackTurn =
                (made.target = "home" /\ asked.xhome_turn_fallback /\ made.context.fallbackTurn # <<>>)
      BY <2>1, IosFields
    <3> HIDE DEF config, asked
    <3>7. CASE IsRejected(made.result)
      BY <1>1, <3>1, <3>2, <3>3, <3>4, <3>7, RefusedForAccess
    <3>8. CASE ~IsRejected(made.result)
      <4>1. SessionAsAsked(made, asked)
        BY <3>1, <3>2, <3>3, <3>4, <3>8, SessionIsAsAsked
      <4>2. NegotiationAsAsked(made, asked) /\ made.result.ok.negotiation.videoKbps \in Nat
        BY <3>1, <3>2, <3>3, <3>5, <3>8, NegotiationIsAsAsked
      <4>3. RelayAsAsked(made, asked)
        <5>1. made.result.ok.runtime.turn = IF config.runtime.fallbackTurn THEN made.context.fallbackTurn ELSE <<>>
          BY <3>1, <3>2, <3>3, <3>6, <3>8, PlanCompiles, TurnCompiles
        <5>2. made.result.ok.runtime.turn = IF asked.xhome_turn_fallback THEN made.context.fallbackTurn ELSE <<>>
          BY <1>3, <3>6, <5>1 DEF PlanTargets
        <5> QED BY <1>1, <5>2 DEF RelayAsAsked
      <4>4. ShownAsPlanned(made, asked)
        <5> DEFINE plan == made.result.ok
                   webRtc == ProjectWebRtcPlan(plan)
        <5>1. made.shown[1].webRtc = webRtc
          BY <1>3, <3>8
        <5>2. /\ webRtc.minKbps <= webRtc.startKbps /\ webRtc.startKbps <= webRtc.maxKbps
              /\ webRtc.width = plan.session.device.width /\ webRtc.height = plan.session.device.height
              /\ webRtc.maxFrameSize = ((plan.session.device.width + 15) \div 16) * ((plan.session.device.height + 15) \div 16)
          <6> HIDE DEF plan
          <6> QED BY <4>2, AppShows DEF plan
        <5>3. webRtc.maxFrameSize * 256 >= webRtc.width * webRtc.height
          <6> HIDE DEF webRtc, plan
          <6>1. <<plan.session.device.width, plan.session.device.height>>
                   = AskedSize(IF made.target = "home" THEN asked.xhome_resolution ELSE asked.resolution)
            BY <4>1 DEF SessionAsAsked, plan
          <6> QED BY <5>2, <6>1, FrameCoversPicture
        <5>4. plan.session.schedule.wake = (made.target = "home" /\ config.session.powerOn)
          <6>1. plan.session.schedule = CompileSessionSchedule(config, made.target)
            BY <3>1, <3>2, <3>3, <3>8, PlanCompiles, SessionFields
          <6> QED BY <6>1 DEF CompileSessionSchedule
        <5>5. made.target = "home" => made.facts # <<>> /\ (plan.session.schedule.wake <=> made.facts[1].power # "On")
          BY <1>3, <2>3, <3>6, <5>4 DEF ValidateHomeHostCapability
        <5> HIDE DEF webRtc, plan
        <5> QED BY <1>1, <5>1, <5>2, <5>3, <5>5 DEF ShownAsPlanned, plan
      <4> QED BY <1>1, <3>8, <4>1, <4>2, <4>3, <4>4
    <3> QED BY <3>7, <3>8
  <2> QED BY <2>2, <2>3
<1> QED BY <1>2, <1>3 DEF MadeByApp

\* The invariant says what the plans agree on.
LEMMA PlansAgreeHere == SettingsAssumption /\ SettingsInv => PlansAgree
<1> SUFFICES ASSUME SettingsAssumption, SettingsInv, outcome # <<>>
             PROVE  LET made == outcome[1]
                        asked == Asked(made)
                    IN  IF IsRejected(made.result) THEN RefusedFor(made)
                        ELSE /\ SessionAsAsked(made, asked) /\ NegotiationAsAsked(made, asked) /\ RelayAsAsked(made, asked)
                             /\ made.shown # <<>> => ShownAsPlanned(made, asked)
  BY DEF PlansAgree
<1>1. CASE host = "desktop"
  BY <1>1, DesktopPlansAgree DEF SettingsInv, Made
<1>2. CASE host = "ios"
  BY <1>2, AppPlansAgree DEF SettingsInv, Made
<1> QED BY <1>1, <1>2 DEF SettingsInv

-----------------------------------------------------------------------------
(* The invariant is kept.                                                  *)

\* The invariant holds at the start.
LEMMA SettingsInitInv == SettingsAssumption /\ SettingsInit => SettingsInv
<1> SUFFICES ASSUME SettingsInit PROVE SettingsInv
  OBVIOUS
<1>1. StoreOf("desktop", [key \in Keys |-> Invalid])
  BY DEF StoreOf, Stored
<1>2. CASE host = "desktop"
  BY <1>1, <1>2 DEF SettingsInit, SettingsInv
<1>3. CASE host = "ios"
  <2>1. settings = [DefaultConfigMap EXCEPT !.xhome_turn_fallback = TRUE]
    BY <1>3 DEF SettingsInit
  <2>2. DOMAIN settings = Keys
    BY <2>1 DEF Keys
  <2>3. settings["xhome_turn_fallback"] = TRUE
    <3>1. "xhome_turn_fallback" \in DOMAIN DefaultConfigMap
      BY DefaultsAreSettings DEF SwitchKeys, Keys
    <3> QED BY <2>1, <3>1
  <2>4. \A key \in Keys \ {"xhome_turn_fallback"} : settings[key] = DefaultConfigMap[key]
    BY <2>1 DEF Keys
  <2>5. IsOfType("xhome_turn_fallback", TRUE)
    <3>1. "xhome_turn_fallback" \in SwitchKeys /\ "xhome_turn_fallback" \notin NumberKeys
      BY DEF SwitchKeys, NumberKeys
    <3> QED BY <3>1 DEF IsOfType
  <2>6. \A key \in Keys : IsOfType(key, settings[key])
    BY <2>3, <2>4, <2>5, DefaultsOfType
  <2>7. StoreOf("ios", settings)
    BY <2>6 DEF StoreOf, Stored
  <2> QED BY <1>3, <2>2, <2>7 DEF SettingsInit, SettingsInv
<1> QED BY <1>2, <1>3 DEF SettingsInit

\* What the settings page writes is what the store may hold.
LEMMA PatchIsStored ==
    ASSUME SettingsAssumption, SettingsInv, NEW patch \in Patches[host], SetByPatch(patch)
    PROVE  StoreOf(host, settings') /\ DOMAIN settings' = Keys
<1>1. \A key \in DOMAIN patch \cap Keys : Stored(host, key, patch[key])
  BY DEF SettingsAssumption, SettingsInv
<1>2. \A key \in Keys : settings'[key] = IF key \in DOMAIN patch THEN patch[key] ELSE settings[key]
  BY DEF SetByPatch
<1>3. \A key \in Keys : Stored(host, key, settings[key])
  BY DEF SettingsInv, StoreOf
<1>4. \A key \in Keys : Stored(host, key, settings'[key])
  BY <1>1, <1>2, <1>3
<1> QED BY <1>4 DEF StoreOf, SetByPatch

\* A write of the settings keeps the invariant: a plan being made has a copy of its own.
LEMMA SetByPatchInv ==
    ASSUME SettingsAssumption, SettingsInv, NEW patch \in Patches[host], SetByPatch(patch) PROVE SettingsInv'
<1>1. host' = host /\ draft' = draft /\ outcome' = outcome
  BY DEF SetByPatch
<1> QED BY <1>1, PatchIsStored DEF SettingsInv

\* A plan begun keeps the invariant.
LEMMA StartPlanInv ==
    ASSUME SettingsInv, NEW target \in PlanTargets, NEW token \in Tokens, NEW readable \in BOOLEAN,
           StartPlan(target, token, readable)
    PROVE  SettingsInv'
<1> DEFINE of == [target |-> target, store |-> settings, readable |-> readable, token |-> token]
           access == ParseSessionAccess(token)
<1>1. host = "desktop" /\ host' = host /\ settings' = settings /\ draft = <<>> /\ outcome = <<>>
  BY DEF StartPlan
<1>2. CASE IsRejected(access)
  <2>1. outcome'[1] = [target |-> target, store |-> settings, readable |-> readable, token |-> token,
                       context |-> <<>>, result |-> access, shown |-> <<>>]
        /\ draft' = draft
    BY <1>2 DEF StartPlan, Finish
  <2> DEFINE made == outcome'[1]
  <2>2. MadeByDesktop(made) /\ made.target = target /\ made.token = token
    BY <1>1, <1>2, <2>1 DEF SettingsInv, MadeByDesktop
  <2> HIDE DEF made
  <2>3. Made(host', made)
    BY <1>1, <2>2 DEF Made
  <2> QED BY <1>1, <2>1, <2>3 DEF SettingsInv, made
<1>3. CASE ~IsRejected(access)
  <2>1. draft' = <<of>> /\ outcome' = outcome
    BY <1>3 DEF StartPlan
  <2> QED BY <1>1, <2>1 DEF SettingsInv
<1> QED BY <1>2, <1>3

\* An access prepared keeps the invariant.
LEMMA PrepareAccessInv ==
    ASSUME SettingsInv, NEW target \in PlanTargets, NEW token \in Tokens, NEW answer, PrepareAccess(target, token, answer)
    PROVE  SettingsInv'
<1>1. /\ host = "ios" /\ host' = host /\ settings' = settings /\ outcome = <<>> /\ outcome' = outcome
      /\ draft' = <<[target |-> target, token |-> token, forceIp |-> settings.force_region_ip,
                     fallback |-> IF target = "home" THEN answer ELSE <<>>]>>
  BY DEF PrepareAccess
<1>2. settings.force_region_ip \in Strings
  BY <1>1, AppStoreTyped DEF SettingsInv, AreSettings, TextKeys
<1> QED BY <1>1, <1>2 DEF SettingsInv

\* A plan finished keeps the invariant, whatever became of the settings.
LEMMA FinishPlanInv ==
    ASSUME SettingsInv, host = "desktop", draft # <<>>, NEW context, NEW answer, FinishPlan(context, answer),
           context.target = draft[1].target, context.access = draft[1].token, HostContext(context),
           context.remotePlay.streaming = "no" => context.remotePlay.resolved,
           draft[1].target = "cloud" => context.remotePlay.addrs = {}
    PROVE  SettingsInv'
<1> DEFINE of == draft[1]
           config == DesktopConfig(GetStreamingConfig(of.store, of.readable))
           made == outcome'[1]
<1>1. /\ outcome' = <<[target |-> of.target, store |-> of.store, readable |-> of.readable, token |-> of.token,
                       context |-> context, result |-> CompilePlan(config, context), shown |-> <<>>]>>
      /\ draft' = <<>> /\ host' = host /\ settings' = settings
  BY DEF FinishPlan, Finish
<1>2. made = [target |-> of.target, store |-> of.store, readable |-> of.readable, token |-> of.token,
              context |-> context, result |-> CompilePlan(config, context), shown |-> <<>>]
  BY <1>1
<1> HIDE DEF made
<1>3. StoreOf("desktop", of.store) /\ of.target \in PlanTargets /\ of.token \in Tokens
  BY DEF SettingsInv
<1>4. MadeByDesktop(made)
  BY <1>2, <1>3 DEF MadeByDesktop
<1>5. Made(host', made)
  BY <1>1, <1>2, <1>3, <1>4 DEF Made
<1> QED BY <1>1, <1>5 DEF SettingsInv, made

\* A plan for a console keeps the invariant.
LEMMA FinishHomePlanInv ==
    ASSUME SettingsInv, NEW facts, NEW answer, FinishHomePlan(facts, answer) PROVE SettingsInv'
<1> DEFINE context == HomeContext(draft[1].token, facts, FallbackTurn(answer))
<1>1. host = "desktop" /\ draft # <<>> /\ draft[1].target = "home" /\ FinishPlan(context, answer)
  BY DEF FinishHomePlan
<1>2. context.target = "home" /\ context.access = draft[1].token /\ HostContext(context)
  BY DEF HomeContext, BrowserRuntime, HostContext
<1>3. context.remotePlay.streaming = "no" => context.remotePlay.resolved
  BY DEF HomeContext, NoConsoleFacts, RemotePlay
<1> HIDE DEF context
<1> QED BY <1>1, <1>2, <1>3, FinishPlanInv

\* A plan for a title keeps the invariant.
LEMMA FinishCloudPlanInv ==
    ASSUME SettingsInv, NEW words, NEW numbered, NEW answer, FinishCloudPlan(words, numbered, answer) PROVE SettingsInv'
<1> DEFINE context == CloudContext(draft[1].token, words, numbered, FallbackTurn(answer))
<1>1. host = "desktop" /\ draft # <<>> /\ draft[1].target = "cloud" /\ FinishPlan(context, answer)
  BY DEF FinishCloudPlan
<1>2. context.target = "cloud" /\ context.access = draft[1].token /\ HostContext(context)
  BY DEF CloudContext, BrowserRuntime, HostContext
<1>3. context.remotePlay = NoConsoleFacts
  BY DEF CloudContext
<1> HIDE DEF context
<1> QED BY <1>1, <1>2, <1>3, FinishPlanInv DEF NoConsoleFacts

\* What the page is shown keeps the invariant.
LEMMA ExecuteInv ==
    ASSUME SettingsInv, Execute PROVE SettingsInv'
<1> DEFINE old == outcome[1]
           made == outcome'[1]
<1>1. PICK readable \in BOOLEAN :
         outcome' = <<[outcome[1] EXCEPT !.shown = <<ExecutionSnapshot(outcome[1],
                         GetStreamingConfig(settings, readable).vibration_strength)>>]>>
  BY DEF Execute
<1> DEFINE strength == GetStreamingConfig(settings, readable).vibration_strength
<1>2. /\ host = "desktop" /\ outcome # <<>> /\ ~IsRejected(old.result)
      /\ host' = host /\ settings' = settings /\ draft' = draft
  BY DEF Execute
<1>3. MadeByDesktop(old) /\ old.target \in PlanTargets /\ old.token \in Tokens
  BY <1>2 DEF SettingsInv, Made
<1>4. made = [old EXCEPT !.shown = <<ExecutionSnapshot(old, strength)>>] /\ outcome' # <<>>
  BY <1>1
<1> HIDE DEF strength, made, old
<1>5. old = [target |-> old.target, store |-> old.store, readable |-> old.readable, token |-> old.token,
             context |-> old.context, result |-> old.result, shown |-> old.shown]
  BY <1>3 DEF MadeByDesktop
<1>6. made = [target |-> old.target, store |-> old.store, readable |-> old.readable, token |-> old.token,
              context |-> old.context, result |-> old.result, shown |-> <<ExecutionSnapshot(old, strength)>>]
  BY <1>4, <1>5
<1>7. ExecutionSnapshot(made, strength) = ExecutionSnapshot(old, strength)
  BY <1>6 DEF ExecutionSnapshot
<1>8. ExecutionSnapshot(old, strength).vibrationStrength = strength
  BY DEF ExecutionSnapshot
<1>9. made.shown = <<ExecutionSnapshot(made, made.shown[1].vibrationStrength)>>
  BY <1>6, <1>7, <1>8
<1>10. MadeByDesktop(made)
  BY <1>2, <1>3, <1>6, <1>9 DEF MadeByDesktop
<1>11. Made(host', made)
  BY <1>2, <1>3, <1>6, <1>10 DEF Made
<1> QED BY <1>2, <1>4, <1>11 DEF SettingsInv, made

\* The app's configuration takes the forced region from the access, never from the settings.
LEMMA AppConfigIgnoresForcedRegion ==
    ASSUME NEW access, NEW facts, NEW app, NEW other,
           \A key \in Keys \ {"force_region_ip"} : other[key] = app[key]
    PROVE  IosConfig(access, facts, other) = IosConfig(access, facts, app)
<1> DEFINE used == {"preferred_game_language", "resolution", "xhome_resolution", "ipv6", "codec", "xhome_bitrate_mode",
                    "xhome_bitrate", "xcloud_bitrate_mode", "xcloud_bitrate", "audio_bitrate_mode", "audio_bitrate",
                    "xhome_turn_fallback"}
<1>1. used \subseteq Keys \ {"force_region_ip"}
  BY DEF Keys, DefaultConfigMap
<1>2. \A key \in used : other[key] = app[key]
  <2> HIDE DEF used
  <2> QED BY <1>1
<1>3. /\ other.preferred_game_language = app.preferred_game_language
      /\ other.resolution = app.resolution /\ other.xhome_resolution = app.xhome_resolution
      /\ other.ipv6 = app.ipv6 /\ other.codec = app.codec
      /\ other.xhome_bitrate_mode = app.xhome_bitrate_mode /\ other.xhome_bitrate = app.xhome_bitrate
      /\ other.xcloud_bitrate_mode = app.xcloud_bitrate_mode /\ other.xcloud_bitrate = app.xcloud_bitrate
      /\ other.audio_bitrate_mode = app.audio_bitrate_mode /\ other.audio_bitrate = app.audio_bitrate
      /\ other.xhome_turn_fallback = app.xhome_turn_fallback
  BY <1>2
<1> QED BY <1>3 DEF IosConfig

\* A stream of the app keeps the invariant.
LEMMA CreateStreamInv ==
    ASSUME SettingsInv, NEW facts, CreateStream(facts) PROVE SettingsInv'
<1> DEFINE access == draft[1]
           result == ControlPlan(access, facts, settings)
           store == [settings EXCEPT !.force_region_ip = access.forceIp]
           context == IF access.target = "home" /\ facts = <<>> THEN <<>> ELSE IosContext(access, facts)
           shown == IF IsRejected(result) THEN <<>>
                    ELSE <<[webRtc |-> ProjectWebRtcPlan(result.ok), ice |-> ResolveIceServers(result.ok)]>>
           made == outcome'[1]
<1>1. host = "ios" /\ draft # <<>> /\ host' = host /\ settings' = settings /\ draft' = <<>>
  BY DEF CreateStream
<1>2. outcome' = <<[target |-> access.target, store |-> store, readable |-> TRUE, token |-> access.token, facts |-> facts,
                    result |-> result, context |-> context, shown |-> shown]>>
  BY DEF CreateStream
<1>3. /\ access.target \in PlanTargets /\ access.token \in Tokens
      /\ access = [target |-> access.target, token |-> access.token, forceIp |-> access.forceIp, fallback |-> access.fallback]
      /\ access.target = "cloud" => access.fallback = <<>>
      /\ DOMAIN settings = Keys /\ StoreOf("ios", settings) /\ access.forceIp \in Strings
  BY <1>1 DEF SettingsInv
<1>4. /\ store.force_region_ip = access.forceIp
      /\ StoreOf("ios", store)
  <2>1. "force_region_ip" \in Keys
    BY DefaultsAreSettings
  <2>2. store.force_region_ip = access.forceIp /\ \A key \in Keys \ {"force_region_ip"} : store[key] = settings[key]
    BY <1>3, <2>1
  <2>3. IsOfType("force_region_ip", access.forceIp)
    <3>1. "force_region_ip" \notin NumberKeys /\ "force_region_ip" \notin SwitchKeys
      BY DEF NumberKeys, SwitchKeys
    <3> QED BY <1>3, <3>1 DEF IsOfType
  <2>4. \A key \in Keys : Stored("ios", key, store[key])
    <3> HIDE DEF store
    <3> QED BY <1>3, <2>2, <2>3 DEF StoreOf, Stored
  <2> QED BY <2>2, <2>4 DEF StoreOf
<1>5. result = ControlPlan(access, facts, store)
  <2>1. IosConfig(access, facts, store) = IosConfig(access, facts, settings)
    <3>1. \A key \in Keys \ {"force_region_ip"} : store[key] = settings[key]
      BY <1>3
    <3> HIDE DEF access, store
    <3> QED BY <3>1, AppConfigIgnoresForcedRegion
  <2> HIDE DEF store, access
  <2> QED BY <2>1 DEF ControlPlan, result
<1> HIDE DEF made, store, result, context, shown
<1>6. /\ made.target = access.target /\ made.store = store /\ made.token = access.token /\ made.facts = facts
      /\ made.result = result /\ made.context = context /\ made.shown = shown
  BY <1>2 DEF made
<1>7. MadeByApp(made)
  <2>1. CASE access.target = "home" /\ facts = <<>>
    <3>1. IsRejected(result)
      BY <2>1, RejectedIsRejected DEF result, ControlPlan
    <3> QED BY <1>4, <1>6, <2>1, <3>1 DEF MadeByApp, shown
  <2>2. CASE ~(access.target = "home" /\ facts = <<>>)
    <3>1. context = IosContext(access, facts) /\ context.fallbackTurn = access.fallback
      BY <2>2 DEF context, IosContext
    <3> HIDE DEF access
    <3>2. AccessOf(made) = access
      BY <1>3, <1>4, <1>6, <3>1 DEF AccessOf
    <3> QED BY <1>3, <1>4, <1>5, <1>6, <2>2, <3>1, <3>2 DEF MadeByApp, shown
  <2> QED BY <2>1, <2>2
<1>8. Made(host', made)
  BY <1>1, <1>3, <1>6, <1>7 DEF Made
<1> QED BY <1>1, <1>2, <1>8 DEF SettingsInv, made

\* Every step keeps the invariant.
LEMMA SettingsNextInv == SettingsAssumption /\ SettingsInv /\ [SettingsNext]_settingsVars => SettingsInv'
<1> SUFFICES ASSUME SettingsAssumption, SettingsInv, [SettingsNext]_settingsVars PROVE SettingsInv'
  OBVIOUS
<1>1. CASE \E patch \in Patches[host] : SetByPatch(patch)
  BY <1>1, SetByPatchInv
<1>2. ASSUME NEW target \in PlanTargets, NEW token \in Tokens, NEW readable \in BOOLEAN, StartPlan(target, token, readable)
      PROVE  SettingsInv'
  BY <1>2, StartPlanInv
<1>3. ASSUME NEW target \in PlanTargets, NEW token \in Tokens, NEW answer, PrepareAccess(target, token, answer)
      PROVE  SettingsInv'
  BY <1>3, PrepareAccessInv
<1>4. ASSUME NEW facts, NEW answer, FinishHomePlan(facts, answer) PROVE SettingsInv'
  BY <1>4, FinishHomePlanInv
<1>5. ASSUME NEW words, NEW numbered, NEW answer, FinishCloudPlan(words, numbered, answer) PROVE SettingsInv'
  BY <1>5, FinishCloudPlanInv
<1>6. ASSUME NEW facts, CreateStream(facts) PROVE SettingsInv'
  BY <1>6, CreateStreamInv
<1>7. CASE Execute
  BY <1>7, ExecuteInv
<1>8. CASE NextStart
  BY <1>8 DEF NextStart, SettingsInv
<1>9. CASE UNCHANGED settingsVars
  BY <1>9 DEF settingsVars, SettingsInv
<1> QED BY <1>1, <1>2, <1>3, <1>4, <1>5, <1>6, <1>7, <1>8, <1>9 DEF SettingsNext

\* PlansAgree: whatever the two programs plan is what was asked when the plan was begun, for any
\* patches of the settings page, any tokens, consoles and titles, and any number of edits.
\* (tauri streaming/context.rs and config_policy.rs, ios-bridge streaming.rs, policy/)
THEOREM PlansAsAsked == SettingsSpec => []PlansAgree
<1>1. SettingsInit => SettingsInv
  BY SettingsInitInv, SettingsAssumption
<1>2. SettingsInv /\ [SettingsNext]_settingsVars => SettingsInv'
  BY SettingsNextInv, SettingsAssumption
<1>3. SettingsInv => PlansAgree
  BY PlansAgreeHere, SettingsAssumption
<1> QED BY <1>1, <1>2, <1>3, PTL DEF SettingsSpec

-----------------------------------------------------------------------------
(* The types of the settings' variables.                                   *)

\* What a plan made is, of either program.
OutcomeTyped(program, made) ==
    /\ \/ IsRejected(made.result)
          /\ made.result.error \in CompileErrors \cup {"homeTargetContextMissing", "homeRemotePlayUnavailable"}
          /\ made.shown = <<>>
       \/ ~IsRejected(made.result) /\ made.result.ok \in Plans
    /\ \A r \in Range(made.token.regions) : IsRegion(r)
    /\ program = "desktop" =>
          /\ DesktopConfig(GetStreamingConfig(made.store, made.readable)) \in Configs
          /\ \A shown \in Range(made.shown) : shown.capabilities.source \in CapabilitySources

\* Not more than one plan is being made or made.
OnePlan ==
    /\ draft = <<>> \/ (draft = <<draft[1]>> /\ outcome = <<>>)
    /\ outcome = <<>> \/ outcome = <<outcome[1]>>

\* The types, with what keeps them: an access was prepared with an answer of the fallback server.
SettingsTypedInv ==
    /\ host \in {"desktop", "ios"} /\ edits \in 0 .. MaxEdits
    /\ DOMAIN settings = Keys
    /\ turnCache \in Optional(Optional({FallbackServer}))
    /\ OnePlan
    /\ host = "ios" /\ draft # <<>> => draft[1].fallback \in Optional({FallbackServer})
    /\ outcome # <<>> => OutcomeTyped(host, outcome[1])

\* They are the types that are checked.
LEMMA TypedIsTypeOK == SettingsTypedInv => SettingsTypeOK
<1> SUFFICES ASSUME SettingsTypedInv PROVE SettingsTypeOK
  OBVIOUS
<1>1. Len(draft) + Len(outcome) <= 1
  <2>1. \A x : Len(<<x>>) = 1
    OBVIOUS
  <2>2. CASE draft = <<>> /\ outcome = <<>>
    BY <2>2
  <2>3. CASE draft = <<>> /\ outcome = <<outcome[1]>>
    <3>1. Len(outcome) = 1
      BY <2>1, <2>3
    <3> QED BY <2>3, <3>1
  <2>4. CASE draft = <<draft[1]>> /\ outcome = <<>>
    <3>1. Len(draft) = 1
      BY <2>1, <2>4
    <3> QED BY <2>4, <3>1
  <2> QED BY <2>2, <2>3, <2>4 DEF SettingsTypedInv, OnePlan
<1> QED BY <1>1 DEF SettingsTypedInv, OutcomeTyped, SettingsTypeOK

\* A configuration made of what the desktop stores is one.
LEMMA DesktopStoreTyped ==
    ASSUME NEW store, NEW readable, StoreOf("desktop", store)
    PROVE  DesktopConfig(GetStreamingConfig(store, readable)) \in Configs
  BY NormalizedTyped, DesktopTyped

\* The fallback server's answer is kept.
LEMMA FallbackTyped ==
    ASSUME turnCache \in Optional(Optional({FallbackServer})), NEW answer \in Optional({FallbackServer})
    PROVE  FallbackTurn(answer) \in Optional({FallbackServer}) /\ <<FallbackTurn(answer)>> \in Optional(Optional({FallbackServer}))
<1> DEFINE Answers == Optional({FallbackServer})
<1>1. \A S : \A x \in Optional(S) : x # <<>> => x[1] \in S
  BY DEF Optional
<1>2. turnCache # <<>> => turnCache[1] \in Answers
  BY <1>1
<1> HIDE DEF Answers
<1>3. FallbackTurn(answer) \in Answers
  BY <1>2 DEF FallbackTurn, Answers
<1>4. \A x \in Answers : <<x>> \in Optional(Answers)
  BY DEF Optional
<1> QED BY <1>3, <1>4 DEF Answers

\* A write of the settings keeps the types.
LEMMA SetByPatchTyped ==
    ASSUME SettingsTypedInv, NEW patch, SetByPatch(patch) PROVE SettingsTypedInv'
<1>1. /\ edits < MaxEdits /\ edits' = edits + 1 /\ DOMAIN settings' = Keys
      /\ host' = host /\ turnCache' = turnCache /\ draft' = draft /\ outcome' = outcome
  BY DEF SetByPatch
<1>2. edits' \in 0 .. MaxEdits
  BY <1>1, SettingsAssumption DEF SettingsTypedInv
<1>3. OnePlan'
  BY <1>1 DEF OnePlan, SettingsTypedInv
<1> QED BY <1>1, <1>2, <1>3 DEF SettingsTypedInv, OutcomeTyped

\* A plan begun keeps the types.
LEMMA StartPlanTyped ==
    ASSUME SettingsInv, SettingsTypedInv, NEW target \in PlanTargets, NEW token \in Tokens, NEW readable \in BOOLEAN,
           StartPlan(target, token, readable)
    PROVE  SettingsTypedInv'
<1> DEFINE of == [target |-> target, store |-> settings, readable |-> readable, token |-> token]
           access == ParseSessionAccess(token)
           made == [target |-> target, store |-> settings, readable |-> readable, token |-> token,
                    context |-> <<>>, result |-> access, shown |-> <<>>]
<1>1. /\ host = "desktop" /\ draft = <<>> /\ outcome = <<>>
      /\ host' = host /\ settings' = settings /\ edits' = edits /\ turnCache' = turnCache
  BY DEF StartPlan
<1>2. CASE IsRejected(access)
  <2>1. outcome' = <<made>> /\ draft' = <<>>
    BY <1>1, <1>2 DEF StartPlan, Finish
  <2>2. access.error \in CompileErrors
    BY <1>2, CompiledIsNotRejected, RejectedIsRejected DEF ParseSessionAccess, CompileErrors
  <2>3. \A r \in Range(token.regions) : IsRegion(r)
    BY TokenTyped
  <2>4. DesktopConfig(GetStreamingConfig(settings, readable)) \in Configs
    BY <1>1, DesktopStoreTyped DEF SettingsInv
  <2>5. /\ made.result = access /\ made.shown = <<>> /\ made.token = token /\ made.store = settings
        /\ made.readable = readable /\ Range(made.shown) = {}
    BY DEF Range
  <2> HIDE DEF made, access
  <2>6. OutcomeTyped("desktop", made)
    BY <1>2, <2>2, <2>3, <2>4, <2>5 DEF OutcomeTyped
  <2>7. OnePlan'
    BY <2>1 DEF OnePlan
  <2> QED BY <1>1, <2>1, <2>6, <2>7 DEF SettingsTypedInv
<1>3. CASE ~IsRejected(access)
  <2>1. draft' = <<of>> /\ outcome' = <<>>
    BY <1>1, <1>3 DEF StartPlan
  <2>2. OnePlan'
    BY <2>1 DEF OnePlan
  <2> QED BY <1>1, <2>1, <2>2 DEF SettingsTypedInv
<1> QED BY <1>2, <1>3

\* An access prepared keeps the types.
LEMMA PrepareAccessTyped ==
    ASSUME SettingsTypedInv, NEW target \in PlanTargets, NEW token \in Tokens, NEW answer \in Optional({FallbackServer}),
           PrepareAccess(target, token, answer)
    PROVE  SettingsTypedInv'
<1> DEFINE access == [target |-> target, token |-> token, forceIp |-> settings.force_region_ip,
                      fallback |-> IF target = "home" THEN answer ELSE <<>>]
<1>1. /\ host = "ios" /\ outcome = <<>> /\ draft' = <<access>>
      /\ host' = host /\ settings' = settings /\ edits' = edits /\ turnCache' = turnCache /\ outcome' = outcome
  BY DEF PrepareAccess
<1>2. access.fallback \in Optional({FallbackServer})
  BY DEF Optional
<1> HIDE DEF access
<1>3. OnePlan' /\ draft'[1] = access
  BY <1>1 DEF OnePlan
<1> QED BY <1>1, <1>2, <1>3 DEF SettingsTypedInv

\* A plan finished keeps the types: what the host knows of the session is a context of the compiler's.
LEMMA FinishPlanTyped ==
    ASSUME SettingsInv, SettingsTypedInv, host = "desktop", draft # <<>>, NEW answer \in Optional({FallbackServer}),
           NEW context, IsContext(context), FinishPlan(context, answer)
    PROVE  SettingsTypedInv'
<1> DEFINE of == draft[1]
           config == DesktopConfig(GetStreamingConfig(of.store, of.readable))
           result == CompilePlan(config, context)
           made == [target |-> of.target, store |-> of.store, readable |-> of.readable, token |-> of.token,
                    context |-> context, result |-> result, shown |-> <<>>]
<1>1. /\ outcome' = <<made>> /\ turnCache' = <<FallbackTurn(answer)>> /\ draft' = <<>>
      /\ host' = host /\ settings' = settings /\ edits' = edits
  BY DEF FinishPlan, Finish
<1>2. StoreOf("desktop", of.store) /\ of.token \in Tokens
  BY DEF SettingsInv
<1>3. config \in Configs
  BY <1>2, DesktopStoreTyped
<1>4. \A r \in Range(of.token.regions) : IsRegion(r)
  BY <1>2, TokenTyped
<1>5. /\ made.result = result /\ made.shown = <<>> /\ made.token = of.token /\ made.store = of.store
      /\ made.readable = of.readable /\ Range(made.shown) = {}
  BY DEF Range
<1> HIDE DEF made, of
<1>6. IF IsRejected(result) THEN result.error \in CompileErrors ELSE result.ok \in Plans
  <2> HIDE DEF config
  <2> QED BY <1>3, PlanIsComplete
<1> HIDE DEF result
<1>7. OutcomeTyped("desktop", made)
  BY <1>3, <1>4, <1>5, <1>6 DEF OutcomeTyped
<1>8. OnePlan' /\ outcome'[1] = made
  BY <1>1 DEF OnePlan
<1>9. turnCache' \in Optional(Optional({FallbackServer}))
  BY <1>1, FallbackTyped DEF SettingsTypedInv
<1> QED BY <1>1, <1>7, <1>8, <1>9 DEF SettingsTypedInv

\* A plan for a console keeps the types.
LEMMA FinishHomePlanTyped ==
    ASSUME SettingsInv, SettingsTypedInv, NEW facts \in Optional(ConsoleFacts), NEW answer \in Optional({FallbackServer}),
           FinishHomePlan(facts, answer)
    PROVE  SettingsTypedInv'
<1> DEFINE context == HomeContext(draft[1].token, facts, FallbackTurn(answer))
<1>1. host = "desktop" /\ draft # <<>> /\ FinishPlan(context, answer)
  BY DEF FinishHomePlan
<1>2. draft[1].token \in Tokens /\ FallbackTurn(answer) \in Optional({FallbackServer})
  BY <1>1, FallbackTyped DEF SettingsInv, SettingsTypedInv
<1>3. IsContext(context)
  BY <1>2, HomeContextTyped
<1> HIDE DEF context
<1> QED BY <1>1, <1>3, FinishPlanTyped

\* A plan for a title keeps the types.
LEMMA FinishCloudPlanTyped ==
    ASSUME SettingsInv, SettingsTypedInv, NEW words \in Optional(TitleConfigs), NEW numbered \in BOOLEAN,
           NEW answer \in Optional({FallbackServer}), FinishCloudPlan(words, numbered, answer)
    PROVE  SettingsTypedInv'
<1> DEFINE context == CloudContext(draft[1].token, words, numbered, FallbackTurn(answer))
<1>1. host = "desktop" /\ draft # <<>> /\ FinishPlan(context, answer)
  BY DEF FinishCloudPlan
<1>2. draft[1].token \in Tokens /\ FallbackTurn(answer) \in Optional({FallbackServer})
  BY <1>1, FallbackTyped DEF SettingsInv, SettingsTypedInv
<1>3. IsContext(context)
  BY <1>2, CloudContextTyped
<1> HIDE DEF context
<1> QED BY <1>1, <1>3, FinishPlanTyped

\* What the page is shown keeps the types.
LEMMA ExecuteTyped ==
    ASSUME SettingsInv, SettingsTypedInv, Execute PROVE SettingsTypedInv'
<1> DEFINE old == outcome[1]
<1>1. PICK readable \in BOOLEAN :
         outcome' = <<[outcome[1] EXCEPT !.shown = <<ExecutionSnapshot(outcome[1],
                         GetStreamingConfig(settings, readable).vibration_strength)>>]>>
  BY DEF Execute
<1> DEFINE shown == ExecutionSnapshot(old, GetStreamingConfig(settings, readable).vibration_strength)
           made == [old EXCEPT !.shown = <<shown>>]
<1>2. /\ host = "desktop" /\ outcome # <<>> /\ ~IsRejected(old.result) /\ outcome' = <<made>>
      /\ host' = host /\ settings' = settings /\ edits' = edits /\ turnCache' = turnCache /\ draft' = draft
  BY <1>1 DEF Execute
<1>3. shown.capabilities.source \in CapabilitySources
  <2>1. shown.capabilities = ProjectSessionCapabilities(old.context, old.result.ok)
    BY DEF ExecutionSnapshot
  <2>2. \A context, plan : ProjectSessionCapabilities(context, plan).source = InterpretInputCapabilities(context).source
    BY DEF ProjectSessionCapabilities
  <2>3. \A context : InterpretInputCapabilities(context).source \in CapabilitySources
    BY DEF InterpretInputCapabilities, CapabilitySources
  <2> HIDE DEF shown, old
  <2> QED BY <2>1, <2>2, <2>3
<1>4. OutcomeTyped("desktop", old) /\ MadeByDesktop(old) /\ draft = <<>>
  BY <1>2 DEF SettingsTypedInv, SettingsInv, Made, OnePlan
<1> HIDE DEF shown, old
<1>5. old = [target |-> old.target, store |-> old.store, readable |-> old.readable, token |-> old.token,
             context |-> old.context, result |-> old.result, shown |-> old.shown]
  BY <1>4 DEF MadeByDesktop
<1>6. /\ made.result = old.result /\ made.token = old.token /\ made.store = old.store /\ made.readable = old.readable
      /\ made.shown = <<shown>>
  BY <1>5
<1> HIDE DEF made
<1>7. Range(made.shown) = {shown}
  BY <1>6 DEF Range
<1>8. OutcomeTyped("desktop", made)
  BY <1>2, <1>3, <1>4, <1>6, <1>7 DEF OutcomeTyped
<1>9. OnePlan' /\ outcome'[1] = made
  BY <1>2, <1>4 DEF OnePlan
<1> QED BY <1>2, <1>8, <1>9 DEF SettingsTypedInv

\* A stream of the app keeps the types.
LEMMA CreateStreamTyped ==
    ASSUME SettingsInv, SettingsTypedInv, NEW facts \in Optional(ConsoleFacts), CreateStream(facts) PROVE SettingsTypedInv'
<1> DEFINE access == draft[1]
           result == ControlPlan(access, facts, settings)
           shown == IF IsRejected(result) THEN <<>>
                    ELSE <<[webRtc |-> ProjectWebRtcPlan(result.ok), ice |-> ResolveIceServers(result.ok)]>>
           made == [target |-> access.target, store |-> [settings EXCEPT !.force_region_ip = access.forceIp],
                    readable |-> TRUE, token |-> access.token, facts |-> facts, result |-> result,
                    context |-> IF access.target = "home" /\ facts = <<>> THEN <<>> ELSE IosContext(access, facts),
                    shown |-> shown]
<1>1. /\ host = "ios" /\ draft # <<>> /\ outcome' = <<made>> /\ draft' = <<>>
      /\ host' = host /\ settings' = settings /\ edits' = edits /\ turnCache' = turnCache
  BY DEF CreateStream
<1>2. /\ access.target \in PlanTargets /\ access.token \in Tokens /\ access.forceIp \in Strings
      /\ access.fallback \in Optional({FallbackServer})
      /\ AreSettings(settings)
  BY <1>1, AppStoreTyped DEF SettingsInv, SettingsTypedInv
<1>3. made.result = result /\ made.shown = shown /\ made.token = access.token
  OBVIOUS
<1> HIDE DEF made, access
<1>4. \/ IsRejected(result) /\ result.error \in CompileErrors \cup {"homeTargetContextMissing", "homeRemotePlayUnavailable"}
      \/ ~IsRejected(result) /\ result.ok \in Plans
  <2> DEFINE home == access.target = "home"
             able == ValidateHomeHostCapability(facts[1])
             config == IosConfig(access, facts, settings)
             context == IosContext(access, facts)
  <2>1. result = CASE home /\ facts = <<>> -> Rejected("homeTargetContextMissing")
                   [] home /\ facts # <<>> /\ ~able -> Rejected("homeRemotePlayUnavailable")
                   [] OTHER -> CompilePlan(config, context)
    BY DEF ControlPlan
  <2>2. config \in Configs
    BY <1>2, IosTyped
  <2>3. (home => facts # <<>>) => IsContext(context)
    BY <1>2, IosContextTyped
  <2> HIDE DEF result, config, context, able
  <2>4. CASE home /\ (facts = <<>> \/ ~able)
    BY <2>1, <2>4, RejectedIsRejected
  <2>5. CASE ~(home /\ (facts = <<>> \/ ~able))
    <3>1. result = CompilePlan(config, context) /\ IsContext(context)
      BY <2>1, <2>3, <2>5
    <3> HIDE DEF home
    <3>2. IF IsRejected(CompilePlan(config, context)) THEN CompilePlan(config, context).error \in CompileErrors
          ELSE CompilePlan(config, context).ok \in Plans
      BY <2>2, <3>1, PlanIsComplete
    <3> QED BY <3>1, <3>2
  <2> QED BY <2>4, <2>5
<1> HIDE DEF result
<1>5. IsRejected(result) => shown = <<>>
  OBVIOUS
<1> HIDE DEF shown
<1>6. \A r \in Range(access.token.regions) : IsRegion(r)
  BY <1>2, TokenTyped
<1>7. OutcomeTyped("ios", made)
  BY <1>3, <1>4, <1>5, <1>6 DEF OutcomeTyped
<1>8. OnePlan' /\ outcome'[1] = made
  BY <1>1 DEF OnePlan
<1> QED BY <1>1, <1>7, <1>8 DEF SettingsTypedInv

\* Every step keeps the types.
LEMMA SettingsNextTyped == SettingsInv /\ SettingsTypedInv /\ [SettingsNext]_settingsVars => SettingsTypedInv'
<1> SUFFICES ASSUME SettingsInv, SettingsTypedInv, [SettingsNext]_settingsVars PROVE SettingsTypedInv'
  OBVIOUS
<1>0. \A answer \in {<<>>, <<FallbackServer>>} : answer \in Optional({FallbackServer})
  BY DEF Optional
<1>1. CASE \E patch \in Patches[host] : SetByPatch(patch)
  BY <1>1, SetByPatchTyped
<1>2. ASSUME NEW target \in PlanTargets, NEW token \in Tokens, NEW readable \in BOOLEAN, StartPlan(target, token, readable)
      PROVE  SettingsTypedInv'
  BY <1>2, StartPlanTyped
<1>3. ASSUME NEW target \in PlanTargets, NEW token \in Tokens, NEW answer \in {<<>>, <<FallbackServer>>},
             PrepareAccess(target, token, answer)
      PROVE  SettingsTypedInv'
  BY <1>0, <1>3, PrepareAccessTyped
<1>4. ASSUME NEW answer \in {<<>>, <<FallbackServer>>}, NEW facts \in Optional(ConsoleFacts), FinishHomePlan(facts, answer)
      PROVE  SettingsTypedInv'
  BY <1>0, <1>4, FinishHomePlanTyped
<1>5. ASSUME NEW answer \in {<<>>, <<FallbackServer>>}, NEW words \in Optional(TitleConfigs), NEW numbered \in BOOLEAN,
             FinishCloudPlan(words, numbered, answer)
      PROVE  SettingsTypedInv'
  BY <1>0, <1>5, FinishCloudPlanTyped
<1>6. ASSUME NEW facts \in Optional(ConsoleFacts), CreateStream(facts) PROVE SettingsTypedInv'
  BY <1>6, CreateStreamTyped
<1>7. CASE Execute
  BY <1>7, ExecuteTyped
<1>8. CASE NextStart
  <2>1. /\ outcome' = <<>> /\ host' = host /\ settings' = settings /\ edits' = edits /\ turnCache' = turnCache
        /\ draft' = draft /\ outcome # <<>>
    BY <1>8 DEF NextStart
  <2>2. OnePlan'
    BY <2>1 DEF OnePlan, SettingsTypedInv
  <2> QED BY <2>1, <2>2 DEF SettingsTypedInv
<1>9. CASE UNCHANGED settingsVars
  BY <1>9 DEF settingsVars, SettingsTypedInv, OnePlan
<1> QED BY <1>1, <1>2, <1>3, <1>4, <1>5, <1>6, <1>7, <1>8, <1>9 DEF SettingsNext

\* The types of the settings' component: the store keeps the keys it knows whatever is written, a
\* plan the compiler made of them is complete or refused for a reason that is listed, and what the
\* page is shown is shown of a plan.
\* (tauri streaming/context.rs and config_policy.rs, ios-bridge streaming.rs, policy/)
THEOREM SettingsTyped == SettingsSpec => []SettingsTypeOK
<1>1. SettingsInit => SettingsInv /\ SettingsTypedInv
  <2> SUFFICES ASSUME SettingsInit PROVE SettingsInv /\ SettingsTypedInv
    OBVIOUS
  <2>1. SettingsInv
    BY SettingsInitInv, SettingsAssumption
  <2>2. /\ draft = <<>> /\ outcome = <<>> /\ turnCache = <<>> /\ edits = 0 /\ host \in {"desktop", "ios"}
        /\ DOMAIN settings = Keys
    BY <2>1 DEF SettingsInit, SettingsInv
  <2>3. turnCache \in Optional(Optional({FallbackServer})) /\ edits \in 0 .. MaxEdits
    BY <2>2, SettingsAssumption DEF Optional
  <2> QED BY <2>1, <2>2, <2>3 DEF SettingsTypedInv, OnePlan
<1>2. SettingsInv /\ SettingsTypedInv /\ [SettingsNext]_settingsVars => SettingsInv' /\ SettingsTypedInv'
  BY SettingsNextInv, SettingsNextTyped, SettingsAssumption
<1>3. SettingsTypedInv => SettingsTypeOK
  BY TypedIsTypeOK
<1> QED BY <1>1, <1>2, <1>3, PTL DEF SettingsSpec
=============================================================================
