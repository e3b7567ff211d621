------------------------------ MODULE MCServices ------------------------------
(***************************************************************************)
(* Small instances for TLC of the components that share no state.  A       *)
(* behaviour exercises one of them, chosen at the start; the others rest   *)
(* in one of their initial states.  So one run checks them all, at the     *)
(* cost of the sum of their state spaces.                                  *)
(***************************************************************************)
EXTENDS AuthSession, Signaling, BridgeSession, RuntimeTrace, AccessLeases, DataCatalog, StartupWait, StreamSettings, StartupErrors

CONSTANTS Components,   \* the components a run exercises
          p1, p2, p3    \* tasks, calls, handles, polls: the components share the values

VARIABLE component      \* the one this behaviour exercises

\* p1 and p2 are interchangeable wherever they are used, p3 stands apart.
Symmetry == Permutations({p1, p2})

AllStrings == STRING

\* What a settings page writes: one control, or the fields of one form.  Among them values an
\* older version stored, out of range or of no known name.
Server(url) == [url |-> url, username |-> "user", credential |-> "secret"]
CommonPatches ==
    {[resolution |-> 1440], [resolution |-> 1081, xhome_resolution |-> 720],
     [xcloud_bitrate_mode |-> "Custom", xcloud_bitrate |-> 5], [xhome_bitrate_mode |-> "Custom", xhome_bitrate |-> 90],
     [audio_bitrate_mode |-> "Custom", audio_bitrate |-> 96], [ipv6 |-> TRUE, preferred_game_language |-> "ja-JP"],
     [codec |-> "video/H264-42e"], [force_region_ip |-> "10.0.0.1"]}
DesktopPatches ==
    {[xhome_turn_fallback |-> TRUE], [power_on |-> TRUE, vibration |-> FALSE],
     [server_url |-> "turn:own", server_username |-> "user", server_credential |-> "secret"], [server_username |-> Blank],
     [resolution |-> 4000, xhome_resolution |-> 1000, xhome_bitrate |-> 0, unknown |-> 1],
     [vibration_strength |-> "full", display_options |-> [sharpness |-> 99, saturation |-> Invalid, contrast |-> -1, brightness |-> 100],
      gamepad_game_controls |-> [buttons |-> [south |-> "east", east |-> "south", l2 |-> "r2", r2 |-> "l2"], deadzone |-> 70]],
     [audio_bitrate_mode |-> "Ultra", gamepad_game_controls |-> [buttons |-> [south |-> "home", home |-> "south"], deadzone |-> Invalid]]}
SettingsPatches ==
    [desktop |-> CommonPatches \cup DesktopPatches,
     ios |-> CommonPatches \cup {[xhome_turn_fallback |-> FALSE], [codec |-> "video/VP9"]}]

\* One of no use, one with the region to force first, and one whose default region has no address.
Region(name, where, default) == [name |-> name, folded |-> name, host |-> where, contains |-> {where}, default |-> default]
TokenRegions ==
    {<<>>, <<Region("east", "10.0.0.1", FALSE), Region("west", "10.0.0.2", TRUE), Region("south", "10.0.0.3", TRUE)>>,
     <<Region("none", Blank, TRUE), Region("east", "10.0.0.1", FALSE)>>}

Titles == {{"gamepad"}, {"mousekeyboard", "nativetouch"}}
Consoles ==
    {[power |-> "On", management |-> "yes", streaming |-> "yes", addrs |-> {"a"}],
     [power |-> "Standby", management |-> "yes", streaming |-> "no", addrs |-> {"a"}],
     [power |-> "Standby", management |-> "unknown", streaming |-> "unknown", addrs |-> {}]}
PublishedServer == Server("turn:published")

\* The theorems of StartupProofs on small messages: the guesses at a session's error agree, each word
\* that keeps them apart does so, the flow and the adapter tell the same but of a hidden end, and the
\* offer of another try does not depend on a retry that goes on.
ASSUME GuessesCompared ==
    /\ \A phase \in SessionPhases, a \in Words, b \in Words :
          Divergent({a, b}) \/ ClassifySessionProgressErrorKind(phase, {a, b}) = ClassifyProgressErrorKindFallback(phase, {a, b})
    /\ \A w \in Words : Divergent({w}) => ClassifySessionProgressErrorKind("failed", {w}) # ClassifyProgressErrorKindFallback("failed", {w})
    /\ \A player \in {"pending", "queued", "started", "failed", "closed"},
          stream \in {"none", "Provisioned", "ReadyToConnect", "Closing", "Closed", "Recovering"}, w \in Words :
          LET same == MapDomainProgressSnapshot(player, stream, <<>>, <<Says({w})>>).error
                          = BuildFallbackProgressSnapshot(player, <<>>, <<Says({w})>>).error
          IN  ~Divergent({w}) =>
                  (same <=> ~HiddenEnd(player, stream) \/ ClassifyProgressErrorKindFallback("creating", {w}) # "unknown")
    /\ \A status \in {"none", "retrying", "exhausted"}, error \in KnownEnds([count |-> 1, limit |-> 1], StartupTimedOut) :
          LET recorder == IF status = "none" THEN NewRecorder
                          ELSE OnBoundedRetry(NewRecorder, "waitingSessionReady",
                                   [reason |-> "waitingForServerRegistration", status |-> status, count |-> 1, limit |-> 1])
          IN  OffersRetry(BuildStartupError(recorder, error)) <=> error = StartupTimedOut /\ status # "exhausted"

\* A component that rests has one initial state.
Resting(name, state) == component # name => state

ServicesInit ==
    /\ component \in Components
    /\ AuthInit /\ Resting("auth", store = NoTokens)
    /\ SigInit /\ remote.address[1] = "near"    \* one of two that are interchangeable
    /\ Resting("signaling", remote.marks)
    /\ BridgeInit
    /\ TraceInit /\ Resting("trace", publisher.profile = "off")
    /\ LeasesInit /\ Resting("leases", now = 0)
    /\ WaitInit /\ Resting("wait", ~plan.home)
    /\ SettingsInit /\ Resting("settings", host = "ios")
    /\ CatalogInit /\ Resting("catalog", account = "x" /\ \A a \in Accounts : disk[a] = NoPair)

ServicesNext ==
    /\ UNCHANGED component
    /\ \/ component = "auth" /\ AuthNext
          /\ UNCHANGED <<sigVars, bridgeVars, traceVars, leaseVars, catalogVars, waitVars, settingsVars>>
       \/ component = "signaling" /\ SigNext
          /\ UNCHANGED <<authVars, bridgeVars, traceVars, leaseVars, catalogVars, waitVars, settingsVars>>
       \/ component = "bridge" /\ BridgeNext
          /\ UNCHANGED <<authVars, sigVars, traceVars, leaseVars, catalogVars, waitVars, settingsVars>>
       \/ component = "trace" /\ TraceNext
          /\ UNCHANGED <<authVars, sigVars, bridgeVars, leaseVars, catalogVars, waitVars, settingsVars>>
       \/ component = "leases" /\ LeasesNext
          /\ UNCHANGED <<authVars, sigVars, bridgeVars, traceVars, catalogVars, waitVars, settingsVars>>
       \/ component = "catalog" /\ CatalogNext
          /\ UNCHANGED <<authVars, sigVars, bridgeVars, traceVars, leaseVars, waitVars, settingsVars>>
       \/ component = "wait" /\ WaitNext
          /\ UNCHANGED <<authVars, sigVars, bridgeVars, traceVars, leaseVars, catalogVars, settingsVars>>
       \/ component = "settings" /\ SettingsNext
          /\ UNCHANGED <<authVars, sigVars, bridgeVars, traceVars, leaseVars, catalogVars, waitVars>>

ServicesSpec ==
    ServicesInit /\ [][ServicesNext]_<<component, authVars, sigVars, bridgeVars, traceVars, leaseVars, catalogVars, waitVars, settingsVars>>

----------------------------------------------------------------------------
\* Types of the variables of the component at work.
TypesOK ==
    /\ component = "auth" => AuthTypeOK
    /\ component = "signaling" => SigTypeOK
    /\ component = "bridge" => BridgeTypeOK
    /\ component = "trace" => TraceTypeOK
    /\ component = "leases" => LeasesTypeOK
    /\ component = "catalog" => CatalogTypeOK
    /\ component = "wait" => WaitTypeOK
    /\ component = "settings" => SettingsTypeOK
=============================================================================
