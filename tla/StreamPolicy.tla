---------------------------- MODULE StreamPolicy ----------------------------
(***************************************************************************)
(* The policy compiler of the streaming crate (policy/): what the user     *)
(* prefers (Config) and what is known of the session (Context) are         *)
(* compiled to a Plan in which nothing is left open, and the plan is       *)
(* projected to what the runtime, the renderer and the page are shown.     *)
(* Pure operators.  An absent string is Blank, an absent number or one     *)
(* left to the compiler 0, an absent record is the empty sequence.         *)
(* Times are in milliseconds where the code's are not whole seconds.       *)
(***************************************************************************)
EXTENDS Integers, Sequences, FiniteSets, SequencesExt

CONSTANT Strings    \* what a string may be

Blank == ""

\* What the compilers write themselves.
OwnText ==
    {Blank, "en-US", "web", "browser", "rust-owned", "android", "windows", "tizen", "Google", "Pixel 8", "14", "chrome",
     "Microsoft", "Windows Desktop", "10", "edge", "Samsung", "Samsung Smart TV", "7.0", "Custom Desktop",
     "video/H264", "420", "42e", "4d", "64"}

ASSUME TextAssumption == OwnText \subseteq Strings

\* What a compiler returns: the value, or the error that stopped it.
Compiled(value) == [ok |-> value]
Rejected(error) == [error |-> error]
IsRejected(result) == "error" \in DOMAIN result

----------------------------------------------------------------------------
(* Names and shapes *)

CompileErrors ==
    {"MissingGsToken", "MissingRegions", "NoUsableRegion", "InvalidBaseUrl", "RuntimeUnavailable", "NativeMkbUnavailable"}
PlanTargets == {"home", "cloud"}
PlanOwners == {"browser", "sidecar"}
Resolutions == {"auto", "720", "1080", "1080hq", "1440"}
DeviceKinds == {"android", "windows", "tizen"}
TurnSources == {"none", "custom", "fallback"}
Switches == {"auto", "on", "off"}
RuntimePreferences == {"auto", "webrtc-direct", "rust-owned"}
RuntimeModes == {"webrtc-direct", "rust-owned"}
BweModes == {"fixed-remb", "observed-remb", "hybrid", "twcc-gcc"}
InputPreferences == {"auto", "physicalGamepad", "virtualGamepad", "nativeMkb"}
InputModes == {"physicalGamepad", "virtualGamepad", "nativeMkb"}
TouchPreferences == {"followTitle", "on", "off"}
MicrophonePreferences == {"off", "onDemand", "startWithSession"}
CodecPreferences == {"auto", "h264Low", "h264Normal", "h264Main", "h264High"}    \* or a MIME type
AudioChannels == {"auto", "mono", "stereo"}
CapabilitySources == {"fallback", "inputConfig"}
PipelinePreferences == {"auto", "video", "webgl2"}
SuperResolutions == {"off", "fsr1Experimental"}
FallbackProcessings == {"usm", "cas"}

Optional(S) == {<<>>} \cup {<<x>> : x \in S}
AtMostOne(S) == {s \in Seq(S) : Len(s) <= 1}    \* the same, of a set too large to list

TurnServers == [url : Strings, username : Strings, credential : Strings]
DisplayOptions == [sharpness : Nat, saturation : Nat, contrast : Nat, brightness : Nat]

\* A region as the token lists it; the names in its address that a forced
\* address is looked for in; host is Blank when the address is.
IsRegion(r) ==
    /\ DOMAIN r = {"name", "folded", "host", "contains", "default"}
    /\ r.name \in Strings /\ r.folded \in Strings /\ r.host \in Strings
    /\ r.default \in BOOLEAN

SessionPlans ==
    [target : PlanTargets, locale : Strings, host : Strings,
     device : [kind : DeviceKinds \cup Strings, os : Strings, width : Nat, height : Nat],
     schedule : [monitor : Nat, keepalive : Nat, offerPoll : Nat, icePoll : Nat, exchange : Nat,
                 startup : Nat, ready : Nat, backoff : Seq(Nat), wake : BOOLEAN, requireReady : BOOLEAN],
     play : [locale : Strings, os : Strings, iceConnection : BOOLEAN, sdk : Strings],
     display : [width : Nat, height : Nat],
     headers : [deviceInfo : [make : Strings, model : Strings, os : Strings, osVersion : Strings, browser : Strings,
                              width : Nat, height : Nat],
                userAgent : Strings, forwardedFor : Strings]]

NegotiationPlans ==
    [ipv6 : BOOLEAN, codec : AtMostOne([mime : Strings, profiles : Seq(Strings)]), videoKbps : Nat, audioKbps : Nat,
     stereo : BOOLEAN, offerProfile : Strings, inject : BOOLEAN, consoleAddrs : SUBSET Strings]

InputPlans ==
    [owner : PlanOwners, mode : InputModes, pollingHz : Nat, vibration : BOOLEAN, mkb : BOOLEAN,
     touch : BOOLEAN, touchPoints : Nat, microphone : BOOLEAN]

RuntimePlans ==
    [mode : RuntimeModes, owner : PlanOwners, turn : AtMostOne(TurnServers), source : TurnSources,
     bwe : BweModes, remb : [forced : Nat, floor : Nat, ceiling : Nat, up : Nat, down : Nat],
     video : [feedback : Nat, nackWindow : Nat, nackBurst : Nat, nackMaxAge : Nat, nackRetry : Nat, nackRetries : Nat,
              jitterMin : Nat, jitterMax : Nat, jitterPackets : Nat, idle : Nat, lateFrame : Nat, backlog : Nat],
     recovery : [firstFrame : Nat, keyframeStall : Nat, lossBurst : Nat, resetWait : Nat, resetCooldown : Nat,
                 reconnectStall : Nat, cooldown : Nat]]

RenderPlans ==
    [audioControl : BOOLEAN, videoFormat : Strings, display : DisplayOptions, pipeline : PipelinePreferences,
     superResolution : SuperResolutions, fallbackProcessing : FallbackProcessings, fps : Nat]

Plans == [session : SessionPlans, negotiation : NegotiationPlans, input : InputPlans,
          runtime : RuntimePlans, render : RenderPlans]

\* What may be preferred.
Configs ==
    [session : [locale : Strings, regionName : AtMostOne(Strings \X Strings), clientIp : Strings, forceIp : Strings,
                cloudResolution : Resolutions, homeResolution : Resolutions, profile : Strings, powerOn : BOOLEAN],
     negotiation : [cloudIpv6 : BOOLEAN, homeIpv6 : BOOLEAN, codec : CodecPreferences \cup Strings, cloudKbps : Nat, homeKbps : Nat,
                    audioKbps : Nat, channels : AudioChannels, offerProfile : Strings],
     input : [mode : InputPreferences, nativeMkb : Switches, virtualMkb : BOOLEAN, touch : TouchPreferences,
              pollingHz : Nat, vibration : BOOLEAN, microphone : MicrophonePreferences],
     runtime : [mode : RuntimePreferences, customTurn : AtMostOne(TurnServers), fallbackTurn : BOOLEAN],
     render : RenderPlans]

----------------------------------------------------------------------------
(* Preferences before a host has filled any in *)

SessionDefaults ==
    [locale |-> "en-US", regionName |-> <<>>, clientIp |-> Blank, forceIp |-> Blank,
     cloudResolution |-> "auto", homeResolution |-> "auto", profile |-> Blank, powerOn |-> FALSE]

NegotiationDefaults ==
    [cloudIpv6 |-> FALSE, homeIpv6 |-> FALSE, codec |-> "auto", cloudKbps |-> 0, homeKbps |-> 0,
     audioKbps |-> 0, channels |-> "auto", offerProfile |-> Blank]

InputDefaults ==
    [mode |-> "auto", nativeMkb |-> "auto", virtualMkb |-> FALSE, touch |-> "followTitle",
     pollingHz |-> 250, vibration |-> TRUE, microphone |-> "off"]

RuntimeDefaults == [mode |-> "auto", customTurn |-> <<>>, fallbackTurn |-> FALSE]

RenderDefaults ==
    [audioControl |-> FALSE, videoFormat |-> Blank, pipeline |-> "auto", superResolution |-> "off",
     display |-> [sharpness |-> 2, saturation |-> 100, contrast |-> 100, brightness |-> 100],
     fallbackProcessing |-> "usm", fps |-> 60]

DefaultConfig ==
    [session |-> SessionDefaults, negotiation |-> NegotiationDefaults, input |-> InputDefaults,
     runtime |-> RuntimeDefaults, render |-> RenderDefaults]

ParseResolutionPreference(number) ==
    CASE number = 1440 -> "1440"
      [] number = 1081 -> "1080hq"
      [] number = 1080 -> "1080"
      [] number = 720 -> "720"
      [] OTHER -> "auto"

UpdateFromRawValues(config, locale, forceIp, ipv6, resolution) ==
    LET preference == ParseResolutionPreference(resolution)
    IN  [config EXCEPT !.session.locale = locale, !.session.forceIp = forceIp,
                       !.negotiation.cloudIpv6 = ipv6, !.negotiation.homeIpv6 = ipv6,
                       !.session.cloudResolution = preference, !.session.homeResolution = preference]

NewHomeConfig(locale, forceIp, homeResolution) ==
    UpdateFromRawValues(DefaultConfig, locale, forceIp, FALSE, homeResolution)

----------------------------------------------------------------------------
(* Access: which region the session is asked of *)

\* The first of the regions a forced address is part of, else of those named
\* like the preferred one, in its spelling before any other, else of the
\* default ones, else of all.
PickRegion(regions, session) ==
    LET forced == {i \in DOMAIN regions : session.forceIp # Blank /\ session.forceIp \in regions[i].contains}
        spelled == {i \in DOMAIN regions : session.regionName # <<>> /\ session.regionName[1] = regions[i].name}
        named == {i \in DOMAIN regions : session.regionName # <<>> /\ session.regionName[2] = regions[i].folded}
        default == {i \in DOMAIN regions : regions[i].default}
        tier == IF forced # {} THEN forced
                ELSE IF spelled # {} THEN spelled
                ELSE IF named # {} THEN named
                ELSE IF default # {} THEN default ELSE DOMAIN regions
    IN  regions[Min(tier)]

ResolveSessionAccess(config, context) ==
    IF context.access.gsToken = Blank THEN Rejected("MissingGsToken")
    ELSE IF context.access.regions = <<>> THEN Rejected("MissingRegions")
    ELSE LET region == PickRegion(context.access.regions, config.session)
         IN  IF region.host = Blank THEN Rejected("InvalidBaseUrl")
             ELSE Compiled([gsToken |-> context.access.gsToken, host |-> region.host, region |-> region])

----------------------------------------------------------------------------
(* Session *)

SelectResolution(config, target) ==
    IF target = "home" THEN config.session.homeResolution ELSE config.session.cloudResolution

ResolutionToDeviceKind(resolution) ==
    CASE resolution \in {"1080hq", "1440"} -> "tizen"
      [] resolution = "1080" -> "windows"
      [] resolution \in {"auto", "720"} -> "android"

CompileDeviceProfile(config, target) ==
    LET resolution == SelectResolution(config, target)
        kind == IF config.session.profile # Blank THEN config.session.profile ELSE ResolutionToDeviceKind(resolution)
        size == CASE kind = "android" -> <<1280, 720>>
                  [] kind = "tizen" /\ resolution = "1440" -> <<2560, 1440>>
                  [] OTHER -> <<1920, 1080>>
    IN  [kind |-> kind, os |-> kind, width |-> size[1], height |-> size[2]]

\* The device the service is made to see.
ResolveDeviceHttpProfile(device) ==
    CASE device.kind = "android" -> [make |-> "Google", model |-> "Pixel 8", osVersion |-> "14", browser |-> "chrome", agent |-> "android"]
      [] device.kind = "windows" -> [make |-> "Microsoft", model |-> "Windows Desktop", osVersion |-> "10", browser |-> "edge", agent |-> "edge"]
      [] device.kind = "tizen" -> [make |-> "Samsung", model |-> "Samsung Smart TV", osVersion |-> "7.0", browser |-> "chrome", agent |-> "tizen"]
      [] OTHER -> [make |-> "Microsoft", model |-> "Custom Desktop", osVersion |-> "10", browser |-> "edge", agent |-> "edge"]

BuildMsDeviceInfo(target, device) ==
    IF target = "home" THEN [width |-> device.width, height |-> device.height] ELSE [width |-> 4096, height |-> 2160]

BuildHeaders(config, target, device) ==
    LET profile == ResolveDeviceHttpProfile(device)
        display == BuildMsDeviceInfo(target, device)
    IN  [deviceInfo |-> [make |-> profile.make, model |-> profile.model, os |-> device.os, osVersion |-> profile.osVersion,
                         browser |-> profile.browser, width |-> display.width, height |-> display.height],
         userAgent |-> profile.agent, forwardedFor |-> config.session.clientIp]

\* The same for either target and either runtime but for the console.
CompileSessionSchedule(config, target) ==
    LET wake == target = "home" /\ config.session.powerOn
    IN  [monitor |-> 1000, keepalive |-> 30000, offerPoll |-> 1000, icePoll |-> 1000, exchange |-> 45000,
         startup |-> 90000, ready |-> 90000, backoff |-> <<1000, 3000, 5000>>, wake |-> wake, requireReady |-> wake]

CompileSession(config, context, access) ==
    LET device == CompileDeviceProfile(config, context.target)
        locale == IF config.session.locale = Blank THEN "en-US" ELSE config.session.locale
    IN  [target |-> context.target, locale |-> locale, host |-> access.host, device |-> device,
         schedule |-> CompileSessionSchedule(config, context.target),
         play |-> [locale |-> locale, os |-> device.os, iceConnection |-> FALSE, sdk |-> "web"],
         display |-> BuildMsDeviceInfo(context.target, device),
         headers |-> BuildHeaders(config, context.target, device)]

----------------------------------------------------------------------------
(* Runtime *)

ResolveRuntimeMode(config, context) ==
    LET able == {m \in RuntimeModes : IF m = "webrtc-direct" THEN context.runtime.browserWebrtc ELSE context.runtime.rustOwned}
        possible == IF config.runtime.mode = "auto" THEN able ELSE able \cap {config.runtime.mode}
        preferred == IF context.runtime.preferBrowser THEN "webrtc-direct" ELSE "rust-owned"
    IN  CASE possible = {} -> Rejected("RuntimeUnavailable")
          [] preferred \in possible -> Compiled(preferred)
          [] possible # {} /\ preferred \notin possible -> Compiled(CHOOSE m \in possible : TRUE)

CompileTurn(config, context) ==
    LET fallback == IF config.runtime.fallbackTurn THEN context.fallbackTurn ELSE <<>>
    IN  CASE config.runtime.customTurn # <<>> -> [turn |-> config.runtime.customTurn, source |-> "custom"]
          [] config.runtime.customTurn = <<>> /\ fallback # <<>> -> [turn |-> fallback, source |-> "fallback"]
          [] OTHER -> [turn |-> <<>>, source |-> "none"]

CompileRemb(mode) ==
    IF mode = "webrtc-direct" THEN [forced |-> 50000, floor |-> 8000, ceiling |-> 50000, up |-> 2000, down |-> 850]
    ELSE [forced |-> 150000, floor |-> 25000, ceiling |-> 150000, up |-> 12000, down |-> 900]

CompileVideoPipeline(mode, target) ==
    CASE mode = "webrtc-direct" ->
             [feedback |-> 1000, nackWindow |-> 400, nackBurst |-> 12, nackMaxAge |-> 200, nackRetry |-> 60, nackRetries |-> 5,
              jitterMin |-> 20, jitterMax |-> 30, jitterPackets |-> 1024, idle |-> 150, lateFrame |-> 500, backlog |-> 10]
      [] mode = "rust-owned" /\ target = "cloud" ->
             [feedback |-> 100, nackWindow |-> 700, nackBurst |-> 16, nackMaxAge |-> 420, nackRetry |-> 80, nackRetries |-> 6,
              jitterMin |-> 15, jitterMax |-> 36, jitterPackets |-> 1536, idle |-> 260, lateFrame |-> 900, backlog |-> 14]
      [] mode = "rust-owned" /\ target = "home" ->
             [feedback |-> 100, nackWindow |-> 220, nackBurst |-> 6, nackMaxAge |-> 64, nackRetry |-> 12, nackRetries |-> 3,
              jitterMin |-> 5, jitterMax |-> 12, jitterPackets |-> 384, idle |-> 140, lateFrame |-> 240, backlog |-> 6]

CompileRecovery(mode) ==
    IF mode = "webrtc-direct"
    THEN [firstFrame |-> 8000, keyframeStall |-> 1500, lossBurst |-> 3, resetWait |-> 500, resetCooldown |-> 1500,
          reconnectStall |-> 4000, cooldown |-> 6000]
    ELSE [firstFrame |-> 1800, keyframeStall |-> 300, lossBurst |-> 2, resetWait |-> 240, resetCooldown |-> 450,
          reconnectStall |-> 2400, cooldown |-> 1600]

CompileRuntime(config, context) ==
    LET resolved == ResolveRuntimeMode(config, context)
    IN  IF IsRejected(resolved) THEN resolved
        ELSE LET mode == resolved.ok
                 turn == CompileTurn(config, context)
             IN  Compiled([mode |-> mode, owner |-> IF mode = "webrtc-direct" THEN "browser" ELSE "sidecar",
                           turn |-> turn.turn, source |-> turn.source,
                           bwe |-> IF mode = "webrtc-direct" THEN "fixed-remb" ELSE "twcc-gcc",
                           remb |-> CompileRemb(mode), video |-> CompileVideoPipeline(mode, context.target),
                           recovery |-> CompileRecovery(mode)])

----------------------------------------------------------------------------
(* Negotiation *)

CompileCodec(preference) ==
    LET H264(profile) == <<[mime |-> "video/H264", profiles |-> <<profile>>]>>
    IN  CASE preference = "auto" -> <<>>
          [] preference = "h264Low" -> H264("420")
          [] preference = "h264Normal" -> H264("42e")
          [] preference = "h264Main" -> H264("4d")
          [] preference = "h264High" -> H264("64")
          [] OTHER -> <<[mime |-> preference, profiles |-> <<>>]>>

DefaultVideoBitrateKbps(target, resolution) ==
    LET cloud == [r \in Resolutions |-> CASE r = "720" -> 10000 [] r \in {"1080", "auto"} -> 20000 [] r = "1080hq" -> 35000 [] r = "1440" -> 50000]
        home == [r \in Resolutions |-> CASE r = "720" -> 20000 [] r \in {"1080", "auto"} -> 35000 [] r = "1080hq" -> 50000 [] r = "1440" -> 65000]
    IN  IF target = "cloud" THEN cloud[resolution] ELSE home[resolution]

CompileVideoBitrate(config, target) ==
    LET preference == IF target = "home" THEN config.negotiation.homeKbps ELSE config.negotiation.cloudKbps
    IN  IF preference > 0 THEN preference ELSE DefaultVideoBitrateKbps(target, SelectResolution(config, target))

CompileNegotiation(config, context, mode) ==
    LET inject == context.target = "home" /\ context.remotePlay.addrs # {}
    IN  [ipv6 |-> IF context.target = "home" THEN config.negotiation.homeIpv6 ELSE config.negotiation.cloudIpv6,
         codec |-> CompileCodec(config.negotiation.codec),
         videoKbps |-> CompileVideoBitrate(config, context.target),
         audioKbps |-> IF config.negotiation.audioKbps > 0 THEN config.negotiation.audioKbps ELSE 128,
         stereo |-> config.negotiation.channels # "mono",
         offerProfile |-> IF config.negotiation.offerProfile # Blank THEN config.negotiation.offerProfile
                          ELSE IF mode = "webrtc-direct" THEN "browser" ELSE "rust-owned",
         inject |-> inject,
         consoleAddrs |-> IF inject THEN context.remotePlay.addrs ELSE {}]

----------------------------------------------------------------------------
(* Input and render *)

\* What the title can do: its input configuration when the service gave one,
\* else what is assumed of it.
InterpretInputCapabilities(context) ==
    IF context.inputConfig # <<>>
    THEN [source |-> "inputConfig", mkb |-> context.inputConfig[1].mkb, touch |-> context.inputConfig[1].touch,
          nativeTouch |-> context.inputConfig[1].nativeTouch]
    ELSE [source |-> "fallback", mkb |-> context.title.mkb, touch |-> context.title.touch,
          nativeTouch |-> context.title.nativeTouch]

CanUseNativeMkb(config, context) ==
    /\ InterpretInputCapabilities(context).mkb
    /\ context.runtime.nativeMkb
    /\ \/ config.input.nativeMkb = "on"
       \/ config.input.mode = "nativeMkb"
       \/ config.input.mode = "auto" /\ config.input.nativeMkb = "auto"

ResolveInputMode(config, context) ==
    CASE config.input.mode \in {"physicalGamepad", "virtualGamepad"} -> Compiled(config.input.mode)
      [] config.input.mode \in {"nativeMkb", "auto"} /\ CanUseNativeMkb(config, context) -> Compiled("nativeMkb")
      [] config.input.mode = "nativeMkb" /\ ~CanUseNativeMkb(config, context) -> Rejected("NativeMkbUnavailable")
      [] OTHER -> Compiled(IF config.input.virtualMkb THEN "virtualGamepad" ELSE "physicalGamepad")

ResolveTouchEnabled(config, context) ==
    /\ context.runtime.touchSurface
    /\ \/ config.input.touch = "on"
       \/ config.input.touch = "followTitle" /\ InterpretInputCapabilities(context).touch

CompileInput(config, context, runtime) ==
    LET mode == ResolveInputMode(config, context)
        touch == ResolveTouchEnabled(config, context)
    IN  IF IsRejected(mode) THEN mode
        ELSE Compiled([owner |-> runtime.owner, mode |-> mode.ok,
                       pollingHz |-> IF config.input.pollingHz > 1 THEN config.input.pollingHz ELSE 1,
                       vibration |-> config.input.vibration, mkb |-> mode.ok = "nativeMkb",
                       touch |-> touch, touchPoints |-> IF touch THEN 10 ELSE 0,
                       microphone |-> config.input.microphone = "startWithSession"])

\* The preferences as they are; a blank video format is none.
CompileRender(config) == config.render

----------------------------------------------------------------------------
(* The whole plan; the first compiler that rejects decides *)

CompilePlan(config, context) ==
    LET access == ResolveSessionAccess(config, context)
        runtime == CompileRuntime(config, context)
        input == CompileInput(config, context, runtime.ok)
    IN  IF IsRejected(access) THEN access
        ELSE IF IsRejected(runtime) THEN runtime
        ELSE IF IsRejected(input) THEN input
        ELSE Compiled([session |-> CompileSession(config, context, access.ok), runtime |-> runtime.ok,
                       negotiation |-> CompileNegotiation(config, context, runtime.ok.mode),
                       input |-> input.ok, render |-> CompileRender(config)])

----------------------------------------------------------------------------
(* Projections *)

ProjectRuntimePlan(plan) ==
    [mode |-> plan.runtime.mode, owner |-> plan.runtime.owner,
     width |-> plan.session.device.width, height |-> plan.session.device.height,
     microphone |-> plan.input.microphone, turn |-> plan.runtime.turn, codec |-> plan.negotiation.codec,
     videoKbps |-> plan.negotiation.videoKbps, audioKbps |-> plan.negotiation.audioKbps,
     mono |-> ~plan.negotiation.stereo, ipv6 |-> plan.negotiation.ipv6, bwe |-> plan.runtime.bwe,
     remb |-> plan.runtime.remb, video |-> plan.runtime.video, recovery |-> plan.runtime.recovery,
     pollingHz |-> plan.input.pollingHz, vibration |-> plan.input.vibration]

ProjectSessionMetadata(plan) == [host |-> plan.session.host, turnSource |-> plan.runtime.source]

ResolveRemotePlayStreamingAllowed(context) ==
    IF context.remotePlay.resolved THEN context.remotePlay.streaming = "yes" ELSE context.remotePlay.addrs # {}

ProjectSessionCapabilities(context, plan) ==
    LET effective == InterpretInputCapabilities(context)
    IN  [title |-> context.title, inputConfigResolved |-> context.inputConfig # <<>>,
         source |-> effective.source, mkb |-> effective.mkb, touch |-> effective.touch,
         nativeTouch |-> effective.nativeTouch,
         runtimeMkb |-> context.runtime.nativeMkb, touchSurface |-> context.runtime.touchSurface,
         remotePlayResolved |-> context.remotePlay.resolved,
         remoteManagement |-> context.remotePlay.management = "yes",
         consoleStreaming |-> context.remotePlay.streaming = "yes",
         remotePlaySource |-> IF context.remotePlay.resolved THEN "configuration" ELSE "fallback",
         allowsStreaming |-> ResolveRemotePlayStreamingAllowed(context),
         addrsCount |-> Cardinality(context.remotePlay.addrs),
         inputMode |-> plan.input.mode, touchEnabled |-> plan.input.touch, microphone |-> plan.input.microphone]
=============================================================================
