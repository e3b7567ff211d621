----------------------------- MODULE StartupErrors -----------------------------
(***************************************************************************)
(* What the page is told of a startup or a session that failed.  The flow  *)
(* of the streaming crate knows why it failed some of the time and says so *)
(* in a hint; where it does not, the desktop's adapter guesses from the    *)
(* words of the message, and so does the flow for what the service wrote.  *)
(* Pure operators.  A message is the set of the words looked for that it   *)
(* contains (an underscore for a space), with the counts of retries that a *)
(* message of the flow's carries; an absent value, or a blank message, is  *)
(* the empty sequence.                                                     *)
(***************************************************************************)
EXTENDS Naturals, Sequences

Kinds == {"sessionCreate", "sessionReady", "runtime", "network", "auth", "target",
          "hostRemotePlayUnavailable", "hostRegistrationRetryExhausted", "unknown"}
SessionPhases == {"creating", "waitingSessionReady", "runtimeStarting", "sessionReady", "recovering",
                  "closing", "closed", "failed"}
StartupPhases == {"resolvingContext", "creatingSession", "waitingSessionReady", "startingRuntime", "ready", "failed"}
LaunchStates == {"blocked", "ready", "closed", "failed"}

Words == {"serverneverregistered", "waitingforservertoregister", "errorcallingwns", "xccs", "send_command_failed",
          "homesessionboundedretryexhausted", "homeremoteplaynotready", "remoteconsolenotready",
          "remoteconsolewakecircuitopen", "streamingstarttimeout", "sessionstatetimeout", "session_stayed_in",
          "targetmissing", "target_missing", "unauthorized", "forbidden", "authentication", "auth", "token_missing",
          "network", "network_error", "reconnect", "recover", "401"}

BoundedRetries == [reason : {"waitingForServerRegistration"}, status : {"retrying", "exhausted"}, count : 0 .. 255, limit : 0 .. 255]
Hints == [kind : Kinds, retryable : BOOLEAN]
Messages == [words : SUBSET Words, counts : {<<>>} \cup {<<c>> : c \in [count : 0 .. 255, limit : 0 .. 255]}]
FlowErrors == [message : Messages, status : Nat, hint : {<<>>} \cup {<<h>> : h \in Hints}]
Recorders == [phase : StartupPhases, boundedRetry : {<<>>} \cup {<<r>> : r \in BoundedRetries}]
ToldErrors == [phase : StartupPhases, kind : Kinds, retryable : BOOLEAN, boundedRetry : {<<>>} \cup {<<r>> : r \in BoundedRetries}]
Says(words) == [words |-> words, counts |-> <<>>]

----------------------------------------------------------------------------
(* The flow: what the service or the monitor wrote of a session *)

IsServerRegistrationRetrySignal(words) ==
    \/ words \cap {"serverneverregistered", "waitingforservertoregister", "errorcallingwns"} # {}
    \/ {"xccs", "send_command_failed"} \subseteq words

\* A message speaks for itself, else the code does.
PrimarySignal(code, message) == IF message # <<>> THEN message ELSE code

ClassifySessionProgressErrorKind(phase, words) ==
    IF IsServerRegistrationRetrySignal(words) THEN "hostRegistrationRetryExhausted"
    ELSE IF "remoteconsolenotready" \in words THEN "hostRemotePlayUnavailable"
    ELSE IF "streamingstarttimeout" \in words THEN "sessionReady"
    ELSE IF "targetmissing" \in words THEN "target"
    ELSE IF words \cap {"unauthorized", "forbidden", "authentication", "auth"} # {} THEN "auth"
    ELSE IF words \cap {"network", "reconnect", "recover"} # {} THEN "network"
    ELSE IF phase \in {"failed", "closed", "recovering"} THEN "runtime" ELSE "unknown"

IsSessionProgressErrorRetryable(kind) == kind \in {"sessionCreate", "sessionReady", "runtime", "network"}

BuildSessionProgressErrorHint(phase, code, message) ==
    LET signal == PrimarySignal(code, message)    \* of a code "401" nothing else is told
        kind == IF code # <<>> /\ "401" \in code[1].words THEN "auth"
                ELSE ClassifySessionProgressErrorKind(phase, signal[1].words)
    IN  IF signal = <<>> THEN <<>> ELSE <<[kind |-> kind, retryable |-> IsSessionProgressErrorRetryable(kind)]>>

\* The phase of a session, from what its monitor last wrote of the player and of the stream.
ResolveSessionPhase(player, stream) ==
    CASE player = "started" -> "sessionReady"
      [] player \in {"failed", "closed"} -> player
      [] player = "queued" -> "waitingSessionReady"
      [] player = "pending" -> (CASE stream = "ReadyToConnect" -> "runtimeStarting"
                                  [] stream = "Closing" -> "closing"
                                  [] stream = "Closed" -> "closed"
                                  [] stream = "Recovering" -> "recovering"
                                  [] OTHER -> "waitingSessionReady")
      [] OTHER -> "creating"

ResolveRuntimeLaunchState(phase) ==
    CASE phase = "sessionReady" -> "ready"
      [] phase \in {"closing", "closed"} -> "closed"
      [] phase = "failed" -> "failed"
      [] OTHER -> "blocked"

----------------------------------------------------------------------------
(* The flow: the errors a startup ends with *)

FlowError(words, hint) == [message |-> Says(words), status |-> 0, hint |-> hint]

RemoteConsoleNotReady == FlowError({"remoteconsolenotready"}, <<[kind |-> "hostRemotePlayUnavailable", retryable |-> TRUE]>>)
RemoteConsoleWakeCircuitOpen ==
    FlowError({"remoteconsolewakecircuitopen"}, <<[kind |-> "hostRemotePlayUnavailable", retryable |-> FALSE]>>)
StartupTimedOut == FlowError({"streamingstarttimeout"}, <<[kind |-> "sessionReady", retryable |-> TRUE]>>)
RegistrationTimedOut == FlowError({}, <<[kind |-> "hostRegistrationRetryExhausted", retryable |-> FALSE]>>)
CreateOutcomeUnresolved == FlowError({}, <<[kind |-> "sessionCreate", retryable |-> FALSE]>>)

\* It carries the counts of retries, and the status of the error it stands for.
RetryExhausted(counts, source) ==
    [message |-> [words |-> {"homesessionboundedretryexhausted"}, counts |-> <<counts>>], status |-> source.status,
     hint |-> <<[kind |-> "hostRegistrationRetryExhausted", retryable |-> FALSE]>>]

----------------------------------------------------------------------------
(* The desktop: what it guesses where there is no hint *)

IsHomeServerRegistrationRetryExhausted(words) == "homesessionboundedretryexhausted" \in words
IsServerRegistrationRetrySignalMessage(words) == words \cap {"serverneverregistered", "waitingforservertoregister"} # {}

ClassifyProgressErrorKindFallback(phase, words) ==
    IF IsHomeServerRegistrationRetryExhausted(words) \/ IsServerRegistrationRetrySignalMessage(words)
    THEN "hostRegistrationRetryExhausted"
    ELSE IF "remoteconsolenotready" \in words THEN "hostRemotePlayUnavailable"
    ELSE IF words \cap {"streamingstarttimeout", "sessionstatetimeout", "session_stayed_in"} # {} THEN "sessionReady"
    ELSE IF "targetmissing" \in words THEN "target"
    ELSE IF words \cap {"unauthorized", "forbidden", "authentication", "auth"} # {} THEN "auth"
    ELSE IF words \cap {"network", "reconnect", "recover"} # {} THEN "network"
    ELSE IF phase \in {"failed", "closed", "recovering"} THEN "runtime" ELSE "unknown"

IsProgressErrorRetryableFallback(kind) == kind \in {"sessionCreate", "sessionReady", "runtime", "network"}

ClassifyStartupErrorKindFallback(phase, words) ==
    IF "homeremoteplaynotready" \in words THEN "hostRemotePlayUnavailable"
    ELSE IF IsHomeServerRegistrationRetryExhausted(words) THEN "hostRegistrationRetryExhausted"
    ELSE IF "target_missing" \in words THEN "target"
    ELSE IF words \cap {"auth", "token_missing"} # {} THEN "auth"
    ELSE IF "network_error" \in words THEN "network"
    ELSE CASE phase = "creatingSession" -> "sessionCreate"
           [] phase = "waitingSessionReady" -> "sessionReady"
           [] phase \in {"startingRuntime", "ready"} -> "runtime"
           [] phase \in {"resolvingContext", "failed"} -> "unknown"

IsStartupErrorRetryableFallback(kind, error) ==
    /\ error.message.words \cap {"homeremoteplaynotready", "remoteconsolewakecircuitopen"} = {}
    /\ kind \in {"sessionCreate", "sessionReady", "network"} \/ error.status >= 500

BuildProgressBoundedRetry(message) ==
    IF IsHomeServerRegistrationRetryExhausted(message.words) /\ message.counts # <<>>
    THEN <<[reason |-> "waitingForServerRegistration", status |-> "exhausted",
            count |-> message.counts[1].count, limit |-> message.counts[1].limit]>>
    ELSE <<>>

----------------------------------------------------------------------------
(* The desktop: what it tells the page *)

BuildProgressError(phase, code, message, hint) ==
    LET raw == PrimarySignal(code, message)
        guess == ClassifyProgressErrorKindFallback(phase, raw[1].words)
        told == IF hint # <<>> THEN hint[1] ELSE [kind |-> guess, retryable |-> IsProgressErrorRetryableFallback(guess)]
    IN  IF raw = <<>> THEN <<>>
        ELSE <<[kind |-> told.kind, retryable |-> told.retryable, boundedRetry |-> BuildProgressBoundedRetry(raw[1])]>>

\* The progress of a session, as the flow has it.
MapDomainProgressSnapshot(player, stream, code, message) ==
    LET phase == ResolveSessionPhase(player, stream)
    IN  [phase |-> phase, launch |-> ResolveRuntimeLaunchState(phase),
         error |-> BuildProgressError(phase, code, message, BuildSessionProgressErrorHint(phase, code, message))]

\* The progress of a session the flow no longer has, from the snapshot its startup returned.
FromSessionSnapshot(player) ==
    CASE player = "started" -> "sessionReady"
      [] player = "failed" -> "failed"
      [] player \in {"queued", "pending"} -> "waitingSessionReady"
      [] OTHER -> "creating"

BuildFallbackProgressSnapshot(player, code, message) ==
    LET phase == FromSessionSnapshot(player)
    IN  [phase |-> phase, launch |-> ResolveRuntimeLaunchState(phase), error |-> BuildProgressError(phase, code, message, <<>>)]

\* The recorder of a startup: the phase it was in before it failed, and the last of its retries.
NewRecorder == [phase |-> "resolvingContext", boundedRetry |-> <<>>]
Emit(recorder, phase) == IF phase = "failed" THEN recorder ELSE [recorder EXCEPT !.phase = phase]
OnBoundedRetry(recorder, phase, retry) == Emit([recorder EXCEPT !.boundedRetry = <<retry>>], phase)

BuildStartupError(recorder, error) ==
    LET guess == ClassifyStartupErrorKindFallback(recorder.phase, error.message.words)
        told == IF error.hint # <<>> THEN error.hint[1]
                ELSE [kind |-> guess, retryable |-> IsStartupErrorRetryableFallback(guess, error)]
    IN  [phase |-> recorder.phase, kind |-> told.kind, retryable |-> told.retryable, boundedRetry |-> recorder.boundedRetry]

----------------------------------------------------------------------------
(* The page: whether the user may try again *)

OffersRetry(error) ==
    /\ error.retryable
    /\ error.kind \notin {"auth", "target", "hostRemotePlayUnavailable", "hostRegistrationRetryExhausted"}
    /\ ~(error.boundedRetry # <<>> /\ error.boundedRetry[1].status = "exhausted")

----------------------------------------------------------------------------
(* Where the two guesses at a session's error differ *)

\* The flow knows more signs of a console that is not registered, the adapter the retries that were
\* given up for it, and a session that stayed in one state.
Divergent(words) ==
    \/ words \cap {"errorcallingwns", "homesessionboundedretryexhausted", "sessionstatetimeout", "session_stayed_in"} # {}
    \/ {"xccs", "send_command_failed"} \subseteq words

\* A session at its end, or recovering, that the adapter takes for one not ready yet: it never looks
\* at the stream, and knows no closed player.
HiddenEnd(player, stream) ==
    \/ player = "closed"
    \/ player = "pending" /\ stream \in {"Closed", "Recovering"}

\* The ends of a startup the flow says the kind of.
KnownEnds(counts, source) ==
    {RemoteConsoleNotReady, RemoteConsoleWakeCircuitOpen, StartupTimedOut, RegistrationTimedOut,
     CreateOutcomeUnresolved, RetryExhausted(counts, source)}
=============================================================================
