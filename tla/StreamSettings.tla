---------------------------- MODULE StreamSettings ----------------------------
(***************************************************************************)
(* From what the user has set to the plan of a stream, on the two hosts    *)
(* that keep settings of their own and make the same plan of them: the     *)
(* desktop (config service, streaming adapter) and the iOS bridge.  The    *)
(* settings may change while a plan is made: the desktop reads them first  *)
(* and awaits the rest, the app passes them last.  The iOS settings go by  *)
(* the names of the desktop's keys.  Blank stands for any blank string,    *)
(* Invalid for a stored value that is missing or of another type.          *)
(***************************************************************************)
EXTENDS StreamPolicy, TLC

CONSTANTS Invalid,
          Patches,         \* of each host: what its settings page may write at once
          RegionLists,     \* regions a token may list
          TitleConfigs,    \* input configurations of titles, none among them
          ConsoleFacts,    \* what a service says of a console
          FallbackServer,  \* the TURN server published for home streams
          MaxEdits         \* writes of the settings (bound)

VARIABLES host,       \* which of the two programs
          settings,   \* its store: of each key the value
          edits,      \* writes so far
          turnCache,  \* FallbackTurnProvider: <<>>, or what the one request returned
          draft,      \* a plan being made, <<>> when there is none
          outcome     \* the plan made last

settingsVars == <<host, settings, edits, turnCache, draft, outcome>>

----------------------------------------------------------------------------
(* The desktop's settings *)

Buttons == {"south", "east", "west", "north", "l1", "r1", "l2", "r2", "view", "menu", "l3", "r3",
            "dpadUp", "dpadDown", "dpadLeft", "dpadRight", "home"}

DefaultConfigMap ==
    [resolution |-> 720, xhome_resolution |-> 1080, xhome_bitrate_mode |-> "Auto", xhome_bitrate |-> 20,
     xhome_turn_fallback |-> FALSE, xcloud_bitrate_mode |-> "Auto", xcloud_bitrate |-> 20,
     audio_bitrate_mode |-> "Auto", audio_bitrate |-> 20, enable_audio_control |-> FALSE,
     preferred_game_language |-> "en-US", force_region_ip |-> Blank, codec |-> Blank, vibration |-> TRUE,
     vibration_strength |-> "realistic", power_on |-> FALSE, video_format |-> Blank, ipv6 |-> FALSE,
     server_url |-> Blank, server_username |-> Blank, server_credential |-> Blank,
     display_options |-> [sharpness |-> 0, saturation |-> 100, contrast |-> 100, brightness |-> 100],
     super_resolution_experimental |-> FALSE,
     gamepad_game_controls |-> [buttons |-> [b \in Buttons |-> b], deadzone |-> 10]]

Keys == DOMAIN DefaultConfigMap

\* What the type of a setting is.  The game controls are in no plan, and the names that the policy has for
\* codecs are no codecs' own.
NumberKeys == {"resolution", "xhome_resolution", "xhome_bitrate", "xcloud_bitrate", "audio_bitrate"}
SwitchKeys == {"xhome_turn_fallback", "enable_audio_control", "vibration", "power_on", "ipv6", "super_resolution_experimental"}
IsOfType(key, value) ==
    CASE key \in NumberKeys -> value \in Int
      [] key \in SwitchKeys -> value \in BOOLEAN
      [] key = "display_options" ->
             /\ DOMAIN value = {"sharpness", "saturation", "contrast", "brightness"}
             /\ \A option \in DOMAIN value : value[option] \in Int \/ value[option] = Invalid
      [] key = "gamepad_game_controls" -> TRUE
      [] OTHER -> value \in Strings /\ (key = "codec" => value \notin CodecPreferences)

\* A store holds of each setting a value of its type; the desktop's may hold another, or none.
Stored(program, key, value) == IsOfType(key, value) \/ (program = "desktop" /\ value = Invalid)

ASSUME SettingsAssumption ==
    /\ MaxEdits \in Nat
    /\ \A program \in {"desktop", "ios"} : \A patch \in Patches[program] :
          \A key \in DOMAIN patch \cap Keys : Stored(program, key, patch[key])
    /\ \A regions \in RegionLists : regions \in Seq(Range(regions)) /\ \A r \in Range(regions) : IsRegion(r)
    /\ \A console \in ConsoleFacts : console.addrs \subseteq Strings
    /\ FallbackServer \in TurnServers
    /\ {"Auto", "realistic"} \subseteq Strings    \* of the defaults

NormalizeNumber(value, fallback, least, most) ==
    CASE value = Invalid -> fallback
      [] value # Invalid /\ value < least -> least
      [] value # Invalid /\ value > most -> most
      [] OTHER -> value

NormalizeStringEnum(value, fallback, allowed) == IF value \in allowed THEN value ELSE fallback

NormalizeDisplayOptions(value, fallback) ==
    IF value = Invalid THEN fallback
    ELSE [option \in DOMAIN fallback |->
             NormalizeNumber(value[option], fallback[option], 0, IF option = "sharpness" THEN 10 ELSE 200)]

\* A remapping counts as a whole or not at all: one source per button, the home button its own,
\* the triggers between themselves.  Dead zones are in hundredths.
NormalizeGameControls(value) ==
    LET raw == IF value = Invalid THEN [buttons |-> <<>>, deadzone |-> Invalid] ELSE value
        source == raw.buttons @@ [b \in Buttons |-> b]
        valid == /\ source \in Bijection(Buttons, Buttons)
                 /\ source["home"] = "home"
                 /\ {source["l2"], source["r2"]} = {"l2", "r2"}
    IN  [buttons |-> IF valid THEN source ELSE [b \in Buttons |-> b],
         deadzone |-> NormalizeNumber(raw.deadzone, 10, 0, 30)]

NormalizeValue(key, value) ==
    LET fallback == DefaultConfigMap[key]
    IN  CASE key \in {"resolution", "xhome_resolution"} -> NormalizeNumber(value, fallback, 720, 1440)
          [] key \in {"xhome_bitrate", "xcloud_bitrate", "audio_bitrate"} -> NormalizeNumber(value, fallback, 0, 200)
          [] key \in {"xhome_bitrate_mode", "xcloud_bitrate_mode", "audio_bitrate_mode"} ->
                 NormalizeStringEnum(value, fallback, {"Auto", "Custom"})
          [] key = "vibration_strength" -> NormalizeStringEnum(value, fallback, {"realistic", "enhanced", "full"})
          [] key = "display_options" -> NormalizeDisplayOptions(value, fallback)
          [] key = "gamepad_game_controls" -> NormalizeGameControls(value)
          [] OTHER -> IF value = Invalid THEN fallback ELSE value

NormalizeConfig(store) == [key \in Keys |-> NormalizeValue(key, store[key])]

\* Of a store that cannot be read the adapter is given defaults of its own.
GetStreamingConfig(store, readable) ==
    IF readable THEN NormalizeConfig(store)
    ELSE [DefaultConfigMap EXCEPT !.resolution = 1080, !.display_options.sharpness = 2]

FilterPatch(patch) == [key \in DOMAIN patch \cap Keys |-> patch[key]]

\* A write of the settings page, on either host.
SetByPatch(patch) ==
    /\ edits < MaxEdits
    /\ DOMAIN FilterPatch(patch) # {}
    /\ settings' = [key \in Keys |-> IF key \in DOMAIN patch THEN patch[key] ELSE settings[key]]
    /\ settings' # settings
    /\ edits' = edits + 1
    /\ UNCHANGED <<host, turnCache, draft, outcome>>

----------------------------------------------------------------------------
(* Preferences of the policy, in either adapter *)

ParseCodecPreference(value) ==
    CASE value = Blank -> "auto"
      [] value = "video/H264-420" -> "h264Low"
      [] value = "video/H264-42e" -> "h264Normal"
      [] value = "video/H264-4d" -> "h264Main"
      [] value = "video/H264-64" -> "h264High"
      [] OTHER -> value

ParseBitratePreference(mode, mbps) == IF mode = "Custom" /\ mbps > 0 THEN mbps * 1000 ELSE 0
ParseAudioBitratePreference(mode, kbps) == IF mode = "Custom" /\ kbps > 0 THEN kbps ELSE 0

ResolveCustomTurn(snapshot) ==
    LET server == [url |-> snapshot.server_url, username |-> snapshot.server_username,
                   credential |-> snapshot.server_credential]
    IN  IF Blank \in {server.url, server.username, server.credential} THEN <<>> ELSE <<server>>

\* The streaming snapshot always asks for the browser's runtime and its sampling rate.
ApplyStreamingPreferences(config, snapshot) ==
    [session |-> [config.session EXCEPT !.powerOn = snapshot.power_on],
     negotiation |-> [config.negotiation EXCEPT
        !.codec = ParseCodecPreference(snapshot.codec),
        !.homeKbps = ParseBitratePreference(snapshot.xhome_bitrate_mode, snapshot.xhome_bitrate),
        !.cloudKbps = ParseBitratePreference(snapshot.xcloud_bitrate_mode, snapshot.xcloud_bitrate),
        !.audioKbps = ParseAudioBitratePreference(snapshot.audio_bitrate_mode, snapshot.audio_bitrate),
        !.channels = "auto"],
     input |-> [config.input EXCEPT !.pollingHz = 250, !.vibration = snapshot.vibration],
     runtime |-> [mode |-> "webrtc-direct", customTurn |-> ResolveCustomTurn(snapshot),
                  fallbackTurn |-> snapshot.xhome_turn_fallback],
     render |-> [config.render EXCEPT
        !.audioControl = snapshot.enable_audio_control, !.videoFormat = snapshot.video_format,
        !.display = snapshot.display_options,
        !.superResolution = IF snapshot.super_resolution_experimental THEN "fsr1Experimental" ELSE "off"]]

----------------------------------------------------------------------------
(* Facts about the session *)

BrowserRuntime(touchSurface) ==
    [browserWebrtc |-> TRUE, rustOwned |-> FALSE, preferBrowser |-> TRUE, nativeMkb |-> FALSE, touchSurface |-> touchSurface]

NoTitle == [mkb |-> FALSE, touch |-> FALSE, nativeTouch |-> FALSE]
MinTitleCapabilities(numbered) == [mkb |-> FALSE, touch |-> TRUE, nativeTouch |-> numbered]

\* What an input configuration says of a title, by the words in it.
ParseTitleCapabilities(words) ==
    [mkb |-> words \cap {"mkb", "mousekeyboard", "keyboard", "mouse"} # {},
     touch |-> words \cap {"touch", "nativetouch"} # {},
     nativeTouch |-> "nativetouch" \in words]

NoConsoleFacts == [resolved |-> FALSE, management |-> "unknown", streaming |-> "unknown", addrs |-> {}]
RemotePlay(facts) == [resolved |-> TRUE, management |-> facts.management, streaming |-> facts.streaming, addrs |-> facts.addrs]

\* A token parsed: an empty or missing one, or one without regions, ends the plan.
Tokens == [gsToken : {Blank, "gs"}, regions : RegionLists]
ParseSessionAccess(token) ==
    CASE token.gsToken = Blank -> Rejected("MissingGsToken")
      [] token.gsToken # Blank /\ token.regions = <<>> -> Rejected("MissingRegions")
      [] OTHER -> Compiled(token)

\* The fallback server: asked for once, and whatever came of it is kept.
FallbackTurn(answer) == IF turnCache = <<>> THEN answer ELSE turnCache[1]

----------------------------------------------------------------------------
(* The desktop: resolve_streaming_plan, then the session it starts *)

Finish(of, context, result) ==
    outcome' = <<[target |-> of.target, store |-> of.store, readable |-> of.readable, token |-> of.token,
                  context |-> context, result |-> result, shown |-> <<>>]>>

\* Mutant: the console is streamed at the resolution set for the cloud.
DesktopConfigOneResolution(snapshot) ==
    ApplyStreamingPreferences(
        UpdateFromRawValues(DefaultConfig, snapshot.preferred_game_language, snapshot.force_region_ip,
                            snapshot.ipv6, snapshot.resolution), snapshot)

DesktopConfig(snapshot) ==
    LET raw == UpdateFromRawValues(DefaultConfig, snapshot.preferred_game_language, snapshot.force_region_ip,
                                   snapshot.ipv6, snapshot.resolution)
    IN  ApplyStreamingPreferences(
            [raw EXCEPT !.session.homeResolution = ParseResolutionPreference(snapshot.xhome_resolution)], snapshot)

\* The settings and the token are read before anything is awaited.
StartPlan(target, token, readable) ==
    /\ host = "desktop" /\ draft = <<>> /\ outcome = <<>>
    /\ LET of == [target |-> target, store |-> settings, readable |-> readable, token |-> token]
           access == ParseSessionAccess(token)
       IN  IF IsRejected(access)
           THEN Finish(of, <<>>, access) /\ UNCHANGED draft
           ELSE draft' = <<of>> /\ UNCHANGED outcome
    /\ UNCHANGED <<host, settings, edits, turnCache>>

HomeContext(token, facts, fallback) ==
    [target |-> "home", access |-> token, runtime |-> BrowserRuntime(FALSE), fallbackTurn |-> fallback,
     title |-> NoTitle, inputConfig |-> <<>>,
     remotePlay |-> IF facts = <<>> THEN NoConsoleFacts ELSE RemotePlay(facts[1])]

CloudContext(token, words, numbered, fallback) ==
    LET declared == [i \in DOMAIN words |-> ParseTitleCapabilities(words[i])]
    IN  [target |-> "cloud", access |-> token, runtime |-> BrowserRuntime(FALSE), fallbackTurn |-> fallback,
         title |-> IF words = <<>> THEN MinTitleCapabilities(numbered) ELSE declared[1],
         inputConfig |-> declared, remotePlay |-> NoConsoleFacts]

\* The title or the console, then the fallback server, whichever the target.
FinishPlan(context, answer) ==
    /\ LET of == draft[1]
           config == DesktopConfig(GetStreamingConfig(of.store, of.readable))
       IN  Finish(of, context, CompilePlan(config, context))
    /\ turnCache' = <<FallbackTurn(answer)>>
    /\ draft' = <<>>
    /\ UNCHANGED <<host, settings, edits>>

FinishHomePlan(facts, answer) ==
    /\ host = "desktop" /\ draft # <<>> /\ draft[1].target = "home"
    /\ FinishPlan(HomeContext(draft[1].token, facts, FallbackTurn(answer)), answer)

FinishCloudPlan(words, numbered, answer) ==
    /\ host = "desktop" /\ draft # <<>> /\ draft[1].target = "cloud"
    /\ FinishPlan(CloudContext(draft[1].token, words, numbered, FallbackTurn(answer)), answer)

\* The startup succeeded.  What the page is shown is the plan, and the strength of the vibration
\* as it is set by now.
ExecutionSnapshot(made, strength) ==
    LET plan == made.result.ok
    IN  [runtime |-> ProjectRuntimePlan(plan), vibrationStrength |-> strength, render |-> plan.render,
         metadata |-> ProjectSessionMetadata(plan), capabilities |-> ProjectSessionCapabilities(made.context, plan)]

Execute ==
    /\ host = "desktop" /\ outcome # <<>>
    /\ ~IsRejected(outcome[1].result) /\ outcome[1].shown = <<>>
    /\ \E readable \in BOOLEAN :
          LET strength == GetStreamingConfig(settings, readable).vibration_strength
          IN  outcome' = <<[outcome[1] EXCEPT !.shown = <<ExecutionSnapshot(outcome[1], strength)>>]>>
    /\ UNCHANGED <<host, settings, edits, turnCache, draft>>

----------------------------------------------------------------------------
(* iOS: the access prepared with its lease, then control_plan *)

\* The region is forced as it is set now; only home access asks for the fallback server.
PrepareAccess(target, token, answer) ==
    /\ host = "ios" /\ draft = <<>> /\ outcome = <<>>
    /\ ~IsRejected(ParseSessionAccess(token))
    /\ draft' = <<[target |-> target, token |-> token, forceIp |-> settings.force_region_ip,
                   fallback |-> IF target = "home" THEN answer ELSE <<>>]>>
    /\ UNCHANGED <<host, settings, edits, turnCache, outcome>>

ValidateHomeHostCapability(facts) ==
    IF facts.power = "On" THEN facts.streaming # "no" ELSE facts.management = "yes"

IosConfig(access, facts, app) ==
    LET base == IF access.target = "home"
                THEN NewHomeConfig(app.preferred_game_language, access.forceIp, app.xhome_resolution)
                ELSE DefaultConfig
    IN  [session |-> [base.session EXCEPT
            !.locale = app.preferred_game_language,
            !.cloudResolution = ParseResolutionPreference(app.resolution),
            !.homeResolution = ParseResolutionPreference(app.xhome_resolution),
            !.forceIp = IF access.forceIp # Blank THEN access.forceIp ELSE base.session.forceIp,
            !.powerOn = access.target = "home" /\ facts[1].power # "On" /\ facts[1].management = "yes"],
         negotiation |-> [NegotiationDefaults EXCEPT
            !.cloudIpv6 = app.ipv6, !.homeIpv6 = app.ipv6, !.codec = ParseCodecPreference(app.codec),
            !.homeKbps = ParseBitratePreference(app.xhome_bitrate_mode, app.xhome_bitrate),
            !.cloudKbps = ParseBitratePreference(app.xcloud_bitrate_mode, app.xcloud_bitrate),
            !.audioKbps = ParseAudioBitratePreference(app.audio_bitrate_mode, app.audio_bitrate)],
         input |-> base.input,
         runtime |-> [base.runtime EXCEPT
            !.fallbackTurn = access.target = "home" /\ app.xhome_turn_fallback /\ access.fallback # <<>>],
         render |-> base.render]

IosContext(access, facts) ==
    [target |-> access.target, access |-> access.token, runtime |-> BrowserRuntime(TRUE),
     fallbackTurn |-> access.fallback, title |-> NoTitle, inputConfig |-> <<>>,
     remotePlay |-> IF access.target = "home" THEN RemotePlay(facts[1]) ELSE NoConsoleFacts]

ControlPlan(access, facts, app) ==
    CASE access.target = "home" /\ facts = <<>> -> Rejected("homeTargetContextMissing")
      [] access.target = "home" /\ facts # <<>> /\ ~ValidateHomeHostCapability(facts[1]) -> Rejected("homeRemotePlayUnavailable")
      [] OTHER -> CompilePlan(IosConfig(access, facts, app), IosContext(access, facts))

LesserOf(a, b) == IF a < b THEN a ELSE b

\* What the app configures its peer connection with: macroblocks and kilobits.
ProjectWebRtcPlan(plan) ==
    LET device == plan.session.device
        tier == IF device.height <= 720 THEN [min |-> 3000, start |-> 10000]
                ELSE IF device.height > 1080 \/ device.width > 1920 THEN [min |-> 8000, start |-> 35000]
                ELSE [min |-> 5000, start |-> 20000]
    IN  [width |-> device.width, height |-> device.height,
         codec |-> IF plan.negotiation.codec # <<>> THEN plan.negotiation.codec[1]
                   ELSE [mime |-> "video/H264", profiles |-> <<"4d", "42e", "420">>],
         maxFrameSize |-> ((device.width + 15) \div 16) * ((device.height + 15) \div 16),
         maxFrameRate |-> plan.render.fps, audioKbps |-> plan.negotiation.audioKbps,
         minKbps |-> LesserOf(plan.negotiation.videoKbps, tier.min),
         startKbps |-> LesserOf(plan.negotiation.videoKbps, tier.start),
         maxKbps |-> plan.negotiation.videoKbps, stereo |-> plan.negotiation.stereo,
         ipv6 |-> plan.negotiation.ipv6, consoleAddrs |-> plan.negotiation.consoleAddrs]

\* The official STUN server, then the relay of the plan.
ResolveIceServers(plan) == <<[url |-> "stun"]>> \o plan.runtime.turn

CreateStream(facts) ==
    /\ host = "ios" /\ draft # <<>>
    /\ LET access == draft[1]
           result == ControlPlan(access, facts, settings)
       IN  outcome' = <<[target |-> access.target, store |-> [settings EXCEPT !.force_region_ip = access.forceIp],
                         readable |-> TRUE, token |-> access.token, facts |-> facts, result |-> result,
                         context |-> IF access.target = "home" /\ facts = <<>> THEN <<>> ELSE IosContext(access, facts),
                         shown |-> IF IsRejected(result) THEN <<>>
                                   ELSE <<[webRtc |-> ProjectWebRtcPlan(result.ok), ice |-> ResolveIceServers(result.ok)]>>]>>
    /\ draft' = <<>>
    /\ UNCHANGED <<host, settings, edits, turnCache>>

----------------------------------------------------------------------------
SettingsInit ==
    /\ host \in {"desktop", "ios"}
    /\ settings = IF host = "desktop" THEN [key \in Keys |-> Invalid]
                  ELSE [DefaultConfigMap EXCEPT !.xhome_turn_fallback = TRUE]
    /\ edits = 0 /\ turnCache = <<>> /\ draft = <<>> /\ outcome = <<>>

\* The session ended and another may be planned.
NextStart ==
    /\ outcome # <<>>
    /\ outcome' = <<>>
    /\ UNCHANGED <<host, settings, edits, turnCache, draft>>

SettingsNext ==
    \/ \E patch \in Patches[host] : SetByPatch(patch)
    \/ \E target \in PlanTargets, token \in Tokens :
          \/ \E readable \in BOOLEAN : StartPlan(target, token, readable)
          \/ \E answer \in {<<>>, <<FallbackServer>>} : PrepareAccess(target, token, answer)
    \/ \E answer \in {<<>>, <<FallbackServer>>} :
          \/ \E facts \in Optional(ConsoleFacts) : FinishHomePlan(facts, answer)
          \/ \E words \in Optional(TitleConfigs), numbered \in BOOLEAN : FinishCloudPlan(words, numbered, answer)
    \/ \E facts \in Optional(ConsoleFacts) : CreateStream(facts)
    \/ Execute
    \/ NextStart

SettingsSpec == SettingsInit /\ [][SettingsNext]_settingsVars
----------------------------------------------------------------------------
\* The store keeps the keys it knows, a plan is complete, and what is shown is shown of a plan.
SettingsTypeOK ==
    /\ host \in {"desktop", "ios"} /\ edits \in 0 .. MaxEdits
    /\ DOMAIN settings = Keys
    /\ turnCache \in Optional(Optional({FallbackServer}))
    /\ Len(draft) + Len(outcome) <= 1
    /\ outcome # <<>> =>
          /\ \/ IsRejected(outcome[1].result)
                /\ outcome[1].result.error \in CompileErrors \cup {"homeTargetContextMissing", "homeRemotePlayUnavailable"}
                /\ outcome[1].shown = <<>>
             \/ ~IsRejected(outcome[1].result) /\ outcome[1].result.ok \in Plans
          /\ \A r \in Range(outcome[1].token.regions) : IsRegion(r)
          /\ host = "desktop" =>
                /\ DesktopConfig(GetStreamingConfig(outcome[1].store, outcome[1].readable)) \in Configs
                /\ \A shown \in Range(outcome[1].shown) : shown.capabilities.source \in CapabilitySources

\* What the user asked for, read from the settings the plan was begun with.
Asked(made) == IF host = "desktop" THEN GetStreamingConfig(made.store, made.readable) ELSE made.store

AskedSize(number) ==
    CASE number = 1440 -> <<2560, 1440>>
      [] number \in {1080, 1081} -> <<1920, 1080>>
      [] OTHER -> <<1280, 720>>

\* A region that none is better than: named by the forced address, the default one, any; the first of them.
BestRegion(regions, forced, best) ==
    LET rank == [i \in DOMAIN regions |-> IF forced # Blank /\ forced \in regions[i].contains THEN 0
                                          ELSE IF regions[i].default THEN 1 ELSE 2]
    IN  \A i \in DOMAIN regions : rank[best] < rank[i] \/ (rank[best] = rank[i] /\ best <= i)

SessionAsAsked(made, asked) ==
    LET session == made.result.ok.session
        home == made.target = "home"
        size == AskedSize(IF home THEN asked.xhome_resolution ELSE asked.resolution)
    IN  /\ <<session.device.width, session.device.height>> = size
        /\ home => session.display = [width |-> size[1], height |-> size[2]]
        /\ session.display.width >= size[1] /\ session.display.height >= size[2]
        /\ session.headers.deviceInfo.width = session.display.width
        /\ session.locale = IF asked.preferred_game_language = Blank THEN "en-US" ELSE asked.preferred_game_language
        /\ \E best \in DOMAIN made.token.regions :
              /\ BestRegion(made.token.regions, asked.force_region_ip, best)
              /\ session.host = made.token.regions[best].host
        /\ session.schedule.wake => home

NegotiationAsAsked(made, asked) ==
    LET negotiation == made.result.ok.negotiation
        mode == IF made.target = "home" THEN asked.xhome_bitrate_mode ELSE asked.xcloud_bitrate_mode
        mbps == IF made.target = "home" THEN asked.xhome_bitrate ELSE asked.xcloud_bitrate
    IN  /\ negotiation.ipv6 = asked.ipv6
        /\ IF mode = "Custom" /\ mbps > 0 THEN negotiation.videoKbps = mbps * 1000 ELSE negotiation.videoKbps >= 10000
        /\ negotiation.audioKbps = IF asked.audio_bitrate_mode = "Custom" /\ asked.audio_bitrate > 0 THEN asked.audio_bitrate ELSE 128
        /\ (asked.codec = Blank) <=> (negotiation.codec = <<>>)
        /\ negotiation.inject => made.target = "home" /\ negotiation.consoleAddrs # {}

\* A relay is the user's own, or the published one where the user allows it.
RelayAsAsked(made, asked) ==
    LET relay == made.result.ok.runtime.turn
        own == ResolveCustomTurn(asked)
    IN  IF host = "desktop" /\ own # <<>> THEN relay = own
        ELSE IF asked.xhome_turn_fallback THEN relay = made.context.fallbackTurn
        ELSE relay = <<>>

\* What the host makes of the plan does not contradict it.
ShownAsPlanned(made, asked) ==
    LET plan == made.result.ok
        shown == made.shown[1]
    IN  /\ host = "desktop" =>
              /\ <<shown.runtime.width, shown.runtime.height>> = <<plan.session.device.width, plan.session.device.height>>
              /\ shown.runtime.turn # <<>> <=> shown.metadata.turnSource # "none"
              /\ shown.runtime.vibration = asked.vibration
              /\ made.target = "home" /\ made.context.remotePlay.streaming = "no" => ~shown.capabilities.allowsStreaming
              /\ made.target = "cloud" => shown.capabilities.addrsCount = 0
        /\ host = "ios" =>
              /\ shown.webRtc.minKbps <= shown.webRtc.startKbps /\ shown.webRtc.startKbps <= shown.webRtc.maxKbps
              /\ shown.webRtc.maxFrameSize * 256 >= shown.webRtc.width * shown.webRtc.height
              /\ made.target = "home" => made.facts # <<>> /\ (plan.session.schedule.wake <=> made.facts[1].power # "On")

\* A plan is refused for what is missing, never for what the user set.
RefusedFor(made) ==
    \/ made.token.gsToken = Blank \/ made.token.regions = <<>>
    \/ \E r \in Range(made.token.regions) : r.host = Blank
    \/ host = "ios" /\ made.target = "home" /\ (made.facts = <<>> \/ ~ValidateHomeHostCapability(made.facts[1]))

\* Two programs read the user's settings in their own ways, through defaults, clamps, two copies
\* of the parsers and one compiler, while the settings change.  Whatever they plan is what was
\* asked when the plan was begun, and what they make of the plan agrees with it.
\* (tauri streaming/context.rs and config_policy.rs, ios-bridge streaming.rs, policy/)
PlansAgree ==
    outcome # <<>> =>
        LET made == outcome[1]
            asked == Asked(made)
        IN  IF IsRejected(made.result) THEN RefusedFor(made)
            ELSE /\ SessionAsAsked(made, asked)
                 /\ NegotiationAsAsked(made, asked)
                 /\ RelayAsAsked(made, asked)
                 /\ made.shown # <<>> => ShownAsPlanned(made, asked)
=============================================================================
