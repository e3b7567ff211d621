---------------------------- MODULE StartupProofs ------------------------------
(***************************************************************************)
(* What a startup keeps, for any timeouts, and what the page is told of    *)
(* its failure, for any message.                                           *)
(***************************************************************************)
EXTENDS StartupErrors, StartupWait, TLAPS

\* Whatever a startup failed of, the page is told one of the kinds it has a text for.
THEOREM ToldIsWellFormed ==
    ASSUME NEW recorder \in Recorders, NEW error \in FlowErrors
    PROVE  BuildStartupError(recorder, error) \in ToldErrors
<1> DEFINE guess == ClassifyStartupErrorKindFallback(recorder.phase, error.message.words)
<1>1. recorder.phase \in StartupPhases /\ recorder.boundedRetry \in {<<>>} \cup {<<r>> : r \in BoundedRetries}
  BY DEF Recorders
<1>2. guess \in Kinds
  <2>1. CASE recorder.phase \in {"resolvingContext", "failed"}
    BY <2>1 DEF ClassifyStartupErrorKindFallback, Kinds
  <2>2. CASE recorder.phase \in {"startingRuntime", "ready"}
    BY <2>2 DEF ClassifyStartupErrorKindFallback, Kinds
  <2>3. CASE recorder.phase = "creatingSession"
    BY <2>3 DEF ClassifyStartupErrorKindFallback, Kinds
  <2>4. CASE recorder.phase = "waitingSessionReady"
    BY <2>4 DEF ClassifyStartupErrorKindFallback, Kinds
  <2> QED
    BY <1>1, <2>1, <2>2, <2>3, <2>4 DEF StartupPhases
<1>3. IsStartupErrorRetryableFallback(guess, error) \in BOOLEAN
  BY DEF IsStartupErrorRetryableFallback
<1>4. error.hint # <<>> => error.hint[1].kind \in Kinds /\ error.hint[1].retryable \in BOOLEAN
  BY DEF FlowErrors, Hints
<1> HIDE DEF guess
<1>5. CASE error.hint = <<>>
  BY <1>1, <1>2, <1>3, <1>5 DEF BuildStartupError, ToldErrors, guess
<1>6. CASE error.hint # <<>>
  BY <1>1, <1>4, <1>6 DEF BuildStartupError, ToldErrors
<1> QED
  BY <1>5, <1>6

\* The flow and the adapter guess the same kind of a session's error, whatever words its message
\* has, unless it has one of those that only one of them looks for (flow.rs, projection.rs).
THEOREM GuessesAgree ==
    ASSUME NEW phase, NEW words, ~Divergent(words)
    PROVE  ClassifySessionProgressErrorKind(phase, words) = ClassifyProgressErrorKindFallback(phase, words)
<1>1. IsServerRegistrationRetrySignal(words) <=> IsServerRegistrationRetrySignalMessage(words)
  BY DEF Divergent, IsServerRegistrationRetrySignal, IsServerRegistrationRetrySignalMessage
<1>2. ~IsHomeServerRegistrationRetryExhausted(words)
  BY DEF Divergent, IsHomeServerRegistrationRetryExhausted
<1>3. words \cap {"streamingstarttimeout", "sessionstatetimeout", "session_stayed_in"} # {} <=> "streamingstarttimeout" \in words
  BY DEF Divergent
<1> QED
  BY <1>1, <1>2, <1>3 DEF ClassifySessionProgressErrorKind, ClassifyProgressErrorKindFallback

\* So for such a message it is all one whether the flow still has the session or the adapter is left
\* with the snapshot its startup returned, though each makes out the phase for itself: the page is
\* told the same error.  But of a session that ended, or recovers, the flow says that the player
\* failed where it can make nothing of the message, and may be tried again; the adapter, which takes
\* it for a session not ready yet, says neither (flow.rs, types.rs).
THEOREM ProgressToldAlike ==
    ASSUME NEW player, NEW stream, NEW code, NEW message,
           code = <<>> \/ "401" \notin code[1].words,
           PrimarySignal(code, message) # <<>> => ~Divergent(PrimarySignal(code, message)[1].words)
    PROVE  LET flow == MapDomainProgressSnapshot(player, stream, code, message).error
               adapter == BuildFallbackProgressSnapshot(player, code, message).error
           IN  \/ flow = adapter
               \/ /\ HiddenEnd(player, stream)
                  /\ flow[1].kind = "runtime" /\ flow[1].retryable
                  /\ adapter[1].kind = "unknown" /\ ~adapter[1].retryable
<1> DEFINE raw == PrimarySignal(code, message)
           here == ResolveSessionPhase(player, stream)
           there == FromSessionSnapshot(player)
           kind == ClassifySessionProgressErrorKind(here, raw[1].words)
           guess == ClassifyProgressErrorKindFallback(there, raw[1].words)
           flow == MapDomainProgressSnapshot(player, stream, code, message).error
           adapter == BuildFallbackProgressSnapshot(player, code, message).error
           Ended(phase) == phase \in {"failed", "closed", "recovering"}
<1>1. (Ended(there) => Ended(here)) /\ (Ended(here) => Ended(there) \/ HiddenEnd(player, stream))
  <2>1. CASE player = "pending"
    BY <2>1 DEF ResolveSessionPhase, FromSessionSnapshot, HiddenEnd
  <2>2. CASE player \in {"failed", "closed", "queued", "started"}
    BY <2>2 DEF ResolveSessionPhase, FromSessionSnapshot, HiddenEnd
  <2>3. CASE player \notin {"pending", "failed", "closed", "queued", "started"}
    BY <2>3 DEF ResolveSessionPhase, FromSessionSnapshot
  <2> QED BY <2>1, <2>2, <2>3
<1>2. flow = BuildProgressError(here, code, message, BuildSessionProgressErrorHint(here, code, message))
      /\ adapter = BuildProgressError(there, code, message, <<>>)
  BY DEF MapDomainProgressSnapshot, BuildFallbackProgressSnapshot
<1>3. CASE raw = <<>>
  BY <1>2, <1>3 DEF BuildProgressError
<1>4. CASE raw # <<>>
  <2>1. kind = ClassifyProgressErrorKindFallback(here, raw[1].words)
    BY <1>4, GuessesAgree
  <2>2. \/ kind = guess
        \/ Ended(here) /\ ~Ended(there) /\ kind = "runtime" /\ guess = "unknown"
        \/ ~Ended(here) /\ Ended(there)
    BY <2>1 DEF ClassifyProgressErrorKindFallback
  <2>3. BuildSessionProgressErrorHint(here, code, message) = <<[kind |-> kind, retryable |-> IsSessionProgressErrorRetryable(kind)]>>
    BY <1>4 DEF BuildSessionProgressErrorHint
  <2>4. IsSessionProgressErrorRetryable(kind) = IsProgressErrorRetryableFallback(kind)
    BY DEF IsSessionProgressErrorRetryable, IsProgressErrorRetryableFallback
  <2> DEFINE Told(k) == <<[kind |-> k, retryable |-> IsProgressErrorRetryableFallback(k),
                           boundedRetry |-> BuildProgressBoundedRetry(raw[1])]>>
  <2> HIDE DEF here, there, kind, guess, flow, adapter
  <2>5. flow = Told(kind)
    BY <1>2, <1>4, <2>3, <2>4 DEF BuildProgressError
  <2>6. adapter = Told(guess)
    <3>1. guess = ClassifyProgressErrorKindFallback(there, raw[1].words)
      BY DEF guess
    <3> HIDE DEF raw
    <3> QED BY <1>2, <1>4, <3>1 DEF BuildProgressError, raw
  <2>7. CASE kind = guess
    BY <2>5, <2>6, <2>7 DEF flow, adapter
  <2>8. CASE kind = "runtime" /\ guess = "unknown" /\ HiddenEnd(player, stream)
    <3>1. IsProgressErrorRetryableFallback("runtime") /\ ~IsProgressErrorRetryableFallback("unknown")
      BY DEF IsProgressErrorRetryableFallback
    <3>2. flow[1].kind = "runtime" /\ (flow[1].retryable = IsProgressErrorRetryableFallback("runtime"))
      BY <2>5, <2>8
    <3>3. adapter[1].kind = "unknown" /\ (adapter[1].retryable = IsProgressErrorRetryableFallback("unknown"))
      BY <2>6, <2>8
    <3> QED BY <2>8, <3>1, <3>2, <3>3 DEF flow, adapter
  <2>9. kind = guess \/ (kind = "runtime" /\ guess = "unknown" /\ HiddenEnd(player, stream))
    BY <1>1, <2>2
  <2> QED
    BY <2>7, <2>8, <2>9
<1> QED
  BY <1>3, <1>4

\* A session that failed for staying in one state too long is told as a failure of the player as
\* long as the flow has it, and as one of the session only when the adapter is left to guess, which
\* is what its comment and its test ask for (projection.rs:269-276, service.test.rs:274-299).
THEOREM StuckSessionIsToldAsRuntime ==
    ASSUME NEW stream, NEW code, "401" \notin code[1].words
    PROVE  LET stuck == <<Says({"session_stayed_in"})>>
           IN  /\ MapDomainProgressSnapshot("failed", stream, code, stuck).error[1].kind = "runtime"
               /\ BuildFallbackProgressSnapshot("failed", code, stuck).error[1].kind = "sessionReady"
<1> DEFINE stuck == <<Says({"session_stayed_in"})>>
<1>1. PrimarySignal(code, stuck) = stuck /\ stuck # <<>> /\ stuck[1].words = {"session_stayed_in"}
  BY DEF PrimarySignal, Says
<1>2. ClassifySessionProgressErrorKind("failed", {"session_stayed_in"}) = "runtime"
  BY DEF ClassifySessionProgressErrorKind, IsServerRegistrationRetrySignal
<1>3. ClassifyProgressErrorKindFallback("failed", {"session_stayed_in"}) = "sessionReady"
  BY DEF ClassifyProgressErrorKindFallback, IsHomeServerRegistrationRetryExhausted, IsServerRegistrationRetrySignalMessage
<1> HIDE DEF stuck
<1>4. BuildSessionProgressErrorHint("failed", code, stuck)[1].kind = "runtime"
      /\ BuildSessionProgressErrorHint("failed", code, stuck) # <<>>
  BY <1>1, <1>2 DEF BuildSessionProgressErrorHint
<1>5. MapDomainProgressSnapshot("failed", stream, code, stuck).error[1].kind = "runtime"
  BY <1>1, <1>4 DEF MapDomainProgressSnapshot, ResolveSessionPhase, BuildProgressError
<1>6. BuildFallbackProgressSnapshot("failed", code, stuck).error[1].kind = "sessionReady"
  BY <1>1, <1>3 DEF BuildFallbackProgressSnapshot, BuildProgressError, FromSessionSnapshot
<1> QED
  BY <1>5, <1>6 DEF stuck

\* Of the ends the flow itself says the kind of, the page offers another try after a session that
\* did not get ready in time and after no other, whatever the recorder has seen: a first session, one
\* that replaced another, or the report that no more will be tried, which withdraws the offer too
\* (service.rs, startup.rs, stream-errors.ts).
THEOREM OnlyTimeoutsAreTriedAgain ==
    ASSUME NEW recorder \in Recorders, NEW counts, NEW source, NEW error \in KnownEnds(counts, source)
    PROVE  OffersRetry(BuildStartupError(recorder, error)) <=>
               /\ error = StartupTimedOut
               /\ ~(recorder.boundedRetry # <<>> /\ recorder.boundedRetry[1].status = "exhausted")
<1>0. error.hint # <<>>
  BY DEF KnownEnds, RemoteConsoleNotReady, RemoteConsoleWakeCircuitOpen, StartupTimedOut,
         RegistrationTimedOut, CreateOutcomeUnresolved, RetryExhausted, FlowError
<1>1. /\ BuildStartupError(recorder, error).kind = error.hint[1].kind
      /\ BuildStartupError(recorder, error).retryable = error.hint[1].retryable
      /\ BuildStartupError(recorder, error).boundedRetry = recorder.boundedRetry
  BY <1>0 DEF BuildStartupError
<1>2. (error.hint[1].retryable /\ error.hint[1].kind # "hostRemotePlayUnavailable"
          /\ error.hint[1].kind # "hostRegistrationRetryExhausted") <=> error = StartupTimedOut
  BY DEF KnownEnds, RemoteConsoleNotReady, RemoteConsoleWakeCircuitOpen, StartupTimedOut,
         RegistrationTimedOut, CreateOutcomeUnresolved, RetryExhausted, FlowError
<1>3. error = StartupTimedOut => error.hint[1].kind = "sessionReady"
  BY DEF StartupTimedOut, FlowError
<1> QED
  BY <1>1, <1>2, <1>3 DEF OffersRetry

-----------------------------------------------------------------------------
(* The waits for the console and the session, and the retries.            *)
\* What the locals of a startup, its record and the accounts may be.
WaitStages == {"console", "posting", "posted", "precheck", "backoff", "waiting", "deciding", "ended"}
Results == {"none", "ready", "notReady", "circuitOpen", "failed", "timeout", "cancelled",
      "createFailed", "reused",
            "queueLost", "registration", "exhausted"}
Recs == [player : {"pending", "queued", "started", "failed", "closed"}, stream : Streams,
         reached : BOOLEAN, error : {"none", "timeout", "remote"}]
Waits == [due : BOOLEAN, passed : {0, 1}, signal : Nat, budget : 0 .. Limit, queued : BOOLEAN,
          registering : Nat, counting : BOOLEAN]
Seens == [age : Nat, held : Nat, details : Details \cup {"none"}]
Drivers == [at : WaitStages, result : Results]
ConsoleWaits == [age : 0 .. ReadyTimeout, wake : 0 .. WakeSpacing, failures : 0 .. 3]
Retries == [age : 0 .. RetryTimeout, recreates : 0 .. 1]
Monitors == [at : {"running", "revoking", "ended"}, token : {"live", "monitor", "page"}]
Truths == [out : 0 .. Limit, entries : 0 .. Limit]
StartPlans == [home : BOOLEAN, wake : BOOLEAN, ready : BOOLEAN]

\* All variables are of their types.
WTyped ==
    /\ plan \in StartPlans /\ cancelled \in BOOLEAN /\ driver \in Drivers /\ console \in ConsoleWaits
    /\ retry \in Retries /\ rec \in Recs /\ seen \in Seens /\ monitor \in Monitors
    /\ wait \in Waits /\ truth \in Truths

\* An error the service reported ends the session, and with it the monitor's writing; only such
\* an error has details.
EndIsLast ==
    /\ seen.details = "none" <=> rec.error # "remote"
    /\ rec.error = "remote" => rec.player \in {"failed", "closed"}
    /\ monitor.at = "running" => rec.error # "remote"

\* The budget, and a unit that has passed but is not charged yet, are covered by time out of the
\* queue and entries into it.  A unit is charged when the last look did not find the session in
\* the queue: if it is in it now, it entered it since, and that entry is not used up.
Covered(n) == n <= truth.out + truth.entries \/ truth.out = Limit \/ truth.entries = Limit
Accounted ==
    ~plan.home =>
        /\ Covered(wait.budget)
        /\ ~wait.queued /\ (IF wait.due THEN wait.passed = 1 ELSE Queued)
             => Covered(wait.budget + 1)

\* The inductive invariant.
WaitInv == WTyped /\ EndIsLast /\ Accounted

-----------------------------------------------------------------------------
\* The timeouts, and what is derived from them, are numbers.
LEMMA Timeouts ==
    /\ ReadyTimeout \in Nat /\ RetryTimeout \in Nat \ {0} /\ Limit \in Nat \ {0}
       /\ WakeSpacing \in Nat
    /\ Grace \in Nat /\ RegistrationTimeout \in Nat /\ QueueTimeout \in Nat
       /\ StartupTimeout \in Nat /\ Backoff \in Nat
BY WaitAssumption DEF RetryTimeout, Limit

\* An age counts up to its cap.
LEMMA OlderTyped ==
    ASSUME NEW cap \in Nat, NEW age \in Nat
    PROVE  /\ Older(age, cap) \in Nat /\ Older(age, cap) <= cap
           /\ age <= cap => Older(age, cap) >= age
           /\ Older(age, cap) = age + 1 \/ Older(age, cap) = cap
BY DEF Older

\* What the types say of the fields.
LEMMA Fields ==
    ASSUME WTyped
    PROVE  /\ driver.at \in WaitStages /\ driver.result \in Results
           /\ console.age \in 0 .. ReadyTimeout /\ console.wake \in 0 .. WakeSpacing
              /\ console.failures \in 0 .. 3
           /\ retry.age \in 0 .. RetryTimeout /\ retry.recreates \in 0 .. 1
           /\ rec.player \in {"pending", "queued", "started", "failed", "closed"}
              /\ rec.stream \in Streams
           /\ rec.reached \in BOOLEAN /\ rec.error \in {"none", "timeout", "remote"}
           /\ seen.age \in Nat /\ seen.held \in Nat /\ seen.details \in Details \cup {"none"}
           /\ monitor.at \in {"running", "revoking", "ended"}
              /\ monitor.token \in {"live", "monitor", "page"}
           /\ wait.due \in BOOLEAN /\ wait.passed \in {0, 1} /\ wait.signal \in Nat
              /\ wait.budget \in 0 .. Limit
           /\ wait.queued \in BOOLEAN /\ wait.registering \in Nat /\ wait.counting \in BOOLEAN
           /\ truth.out \in 0 .. Limit /\ truth.entries \in 0 .. Limit
           /\ plan.home \in BOOLEAN
<1>1. driver \in Drivers => driver.at \in WaitStages /\ driver.result \in Results
  BY DEF Drivers
<1>2. console \in ConsoleWaits => console.age \in 0 .. ReadyTimeout
      /\ console.wake \in 0 .. WakeSpacing /\ console.failures \in 0 .. 3
  BY DEF ConsoleWaits
<1>3. retry \in Retries => retry.age \in 0 .. RetryTimeout /\ retry.recreates \in 0 .. 1
  BY DEF Retries
<1>4. rec \in Recs => /\ rec.player \in {"pending", "queued", "started", "failed", "closed"}
      /\ rec.stream \in Streams
                      /\ rec.reached \in BOOLEAN /\ rec.error \in {"none", "timeout", "remote"}
  BY DEF Recs
<1>5. seen \in Seens => seen.age \in Nat /\ seen.held \in Nat /\ seen.details \in Details
        \cup {"none"}
  BY DEF Seens
<1>6. monitor \in Monitors => monitor.at \in {"running", "revoking", "ended"}
      /\ monitor.token \in {"live", "monitor", "page"}
  BY DEF Monitors
<1>7. wait \in Waits => /\ wait.due \in BOOLEAN /\ wait.passed \in {0, 1}
      /\ wait.signal \in Nat /\ wait.budget \in 0 .. Limit
                        /\ wait.queued \in BOOLEAN /\ wait.registering \in Nat
                           /\ wait.counting \in BOOLEAN
  BY DEF Waits
<1>8. truth \in Truths => truth.out \in 0 .. Limit /\ truth.entries \in 0 .. Limit
  BY DEF Truths
<1>9. plan \in StartPlans => plan.home \in BOOLEAN
  BY DEF StartPlans
<1> QED
  BY <1>1, <1>2, <1>3, <1>4, <1>5, <1>6, <1>7, <1>8, <1>9 DEF WTyped

\* A startup moves to another step, or ends.
LEMMA DriverTyped ==
    ASSUME driver \in Drivers
    PROVE  /\ \A step \in WaitStages : DriverAt(step) => driver' \in Drivers /\ driver'.at = step
           /\ \A result \in Results : StartupEnds(result) => driver' \in Drivers
              /\ driver'.at = "ended"
<1>1. ASSUME NEW step \in WaitStages, DriverAt(step) PROVE driver' \in Drivers /\ driver'.at = step
  BY <1>1 DEF Drivers, DriverAt
<1>2. "ended" \in WaitStages
  BY DEF WaitStages
<1>3. ASSUME NEW result \in Results, StartupEnds(result) PROVE driver' \in Drivers
             /\ driver'.at = "ended"
  BY <1>2, <1>3 DEF Drivers, StartupEnds
<1> QED
  BY <1>1, <1>3

\* The waiter's locals and the session's record are left alone: nothing to show but the types.
LEMMA ElsewhereKeeps ==
    ASSUME WaitInv, KeepWait, plan' = plan, cancelled' \in BOOLEAN, driver' \in Drivers,
             console' \in ConsoleWaits, retry' \in Retries
    PROVE  WaitInv'
<1>1. WTyped'
  BY DEF WaitInv, WTyped, KeepWait
<1>2. EndIsLast'
  BY DEF WaitInv, EndIsLast, KeepWait
<1>3. Accounted'
  BY DEF WaitInv, Accounted, Covered, Queued, InQueue, KeepWait
<1> QED
  BY <1>1, <1>2, <1>3 DEF WaitInv

-----------------------------------------------------------------------------
\* The wait for the console ends.
LEMMA ConsoleDoneTyped ==
    ASSUME WTyped, NEW result \in Results, ConsoleDone(result)
    PROVE  driver' \in Drivers /\ console' \in ConsoleWaits
<1>1. console' \in ConsoleWaits
  BY Timeouts DEF ConsoleDone, NoConsole, ConsoleWaits
<1>2. driver \in Drivers /\ {"backoff", "posting"} \subseteq WaitStages
  BY DEF WTyped, WaitStages
<1> QED
  BY <1>1, <1>2, DriverTyped DEF ConsoleDone

\* The wait for the console goes on, unless its time is over.
LEMMA GoesOnTyped ==
    ASSUME WTyped, NEW wake \in 0 .. WakeSpacing, NEW failures \in 0 .. 3, NEW locals,
           locals.wake = wake, locals = [console EXCEPT !.wake = wake, !.failures = failures],
             ConsoleGoesOn(locals)
    PROVE  driver' \in Drivers /\ console' \in ConsoleWaits /\ retry' \in Retries
<1>1. CASE console.age >= ReadyTimeout \/ (driver.at = "precheck" /\ RetryLeft = 0)
  <2>1. ConsoleDone("notReady") /\ retry' = retry /\ "notReady" \in Results
    BY <1>1 DEF ConsoleGoesOn, Results
  <2> QED BY <2>1, ConsoleDoneTyped DEF WTyped
<1>2. CASE ~(console.age >= ReadyTimeout \/ (driver.at = "precheck" /\ RetryLeft = 0))
  <2>1. /\ console' = [locals EXCEPT !.age = console.age + 1, !.wake = Older(wake, WakeSpacing)]
        /\ retry' = [retry EXCEPT !.age = IF driver.at = "precheck" THEN retry.age + 1 ELSE retry.age]
        /\ driver' = driver
    BY <1>2 DEF ConsoleGoesOn
  <2>2. console.age + 1 \in 0 .. ReadyTimeout /\ Older(wake, WakeSpacing) \in 0 .. WakeSpacing
    BY <1>2, Timeouts, Fields, OlderTyped
  <2>3. locals \in ConsoleWaits
    BY DEF WTyped, ConsoleWaits
  <2>4. console' \in ConsoleWaits
    BY <2>1, <2>2, <2>3 DEF ConsoleWaits
  <2>5. (IF driver.at = "precheck" THEN retry.age + 1 ELSE retry.age) \in 0 .. RetryTimeout
    BY <1>2, Timeouts, Fields DEF RetryLeft
  <2>6. retry' \in Retries
    BY <2>1, <2>5 DEF WTyped, Retries
  <2> QED BY <2>1, <2>4, <2>6 DEF WTyped
<1> QED
  BY <1>1, <1>2

\* A look at the console, whatever it shows.
LEMMA LookTyped ==
    ASSUME WTyped, LookAtConsole
    PROVE  driver' \in Drivers /\ console' \in ConsoleWaits /\ retry' \in Retries
<1>0. {"ready", "failed", "circuitOpen"} \subseteq Results /\ retry \in Retries
  BY DEF Results, WTyped
<1>1. CASE ConsoleDone("ready") /\ UNCHANGED retry
  BY <1>0, <1>1, ConsoleDoneTyped
<1>2. CASE ConsoleDone("failed") /\ UNCHANGED retry
  BY <1>0, <1>2, ConsoleDoneTyped
<1>3. CASE Wake
  <2>1. Older(console.failures, 3) \in 0 .. 3 /\ 0 \in 0 .. 3 /\ 0 \in 0 .. WakeSpacing
    <3>1. console.failures \in Nat /\ 3 \in Nat
      BY Fields
    <3>2. Older(console.failures, 3) \in Nat /\ Older(console.failures, 3) <= 3
      BY <3>1, OlderTyped
    <3> QED BY <3>2, Timeouts
  <2>2. CASE ConsoleGoesOn([console EXCEPT !.wake = 0, !.failures = 0])
    <3>1. [console EXCEPT !.wake = 0, !.failures = 0].wake = 0
      BY DEF WTyped, ConsoleWaits
    <3> QED BY <2>1, <2>2, <3>1, GoesOnTyped
  <2>3. CASE ConsoleGoesOn([console EXCEPT !.wake = 0])
    <3>1. /\ [console EXCEPT !.wake = 0].wake = 0 /\ console.failures \in 0 .. 3
          /\ [console EXCEPT !.wake = 0] = [console EXCEPT !.wake = 0,
               !.failures = console.failures]
      BY DEF WTyped, ConsoleWaits
    <3> QED BY <2>1, <2>3, <3>1, GoesOnTyped
  <2>4. CASE ConsoleDone("circuitOpen") /\ UNCHANGED retry
    BY <1>0, <2>4, ConsoleDoneTyped
  <2>5. CASE ConsoleGoesOn([console EXCEPT !.wake = 0, !.failures = Older(console.failures, 3)])
    <3>1. [console EXCEPT !.wake = 0, !.failures = Older(console.failures, 3)].wake = 0
      BY DEF WTyped, ConsoleWaits
    <3> QED BY <2>1, <2>5, <3>1, GoesOnTyped
  <2> QED BY <1>3, <2>2, <2>3, <2>4, <2>5 DEF Wake
<1>4. CASE ConsoleGoesOn(console)
  <2>1. /\ console.wake \in 0 .. WakeSpacing /\ console.failures \in 0 .. 3
        /\ console = [console EXCEPT !.wake = console.wake, !.failures = console.failures]
    BY DEF WTyped, ConsoleWaits
  <2> QED BY <1>4, <2>1, GoesOnTyped
<1> QED
  BY <1>1, <1>2, <1>3, <1>4 DEF LookAtConsole

\* wait_for_console_ready: one turn of its loop.
LEMMA WaitForConsoleKeeps == ASSUME WaitInv, WaitForConsole PROVE WaitInv'
BY LookTyped, ElsewhereKeeps DEF WaitInv, WTyped, WaitForConsole, KeepPlan

\* A cancelled startup drops the wait for the console.
LEMMA ConsoleDroppedKeeps == ASSUME WaitInv, ConsoleDropped PROVE WaitInv'
<1>0. WTyped /\ {"timeout", "cancelled"} \subseteq Results
  BY DEF WaitInv, Results
<1>1. driver' \in Drivers /\ console' \in ConsoleWaits
  BY <1>0, ConsoleDoneTyped DEF ConsoleDropped
<1>2. retry' \in Retries
  <2>1. RetryTimeout \in 0 .. RetryTimeout /\ retry.age \in 0 .. RetryTimeout
    BY <1>0, Timeouts, Fields
  <2> QED BY <1>0, <2>1 DEF ConsoleDropped, Retries, WTyped
<1> QED
  BY <1>0, <1>1, <1>2, ElsewhereKeeps DEF ConsoleDropped, KeepPlan, WTyped

\* A console that is woken without waiting.
LEMMA WakeOnlyKeeps == ASSUME WaitInv, WakeOnly PROVE WaitInv'
<1>0. WTyped /\ {"ready", "failed"} \subseteq Results
  BY DEF WaitInv, Results
<1>1. driver' \in Drivers /\ console' \in ConsoleWaits
  BY <1>0, ConsoleDoneTyped DEF WakeOnly
<1> QED
  BY <1>0, <1>1, ElsewhereKeeps DEF WakeOnly, KeepPlan, WTyped

\* The create is posted, or found to be late or cancelled.
LEMMA PostKeeps == ASSUME WaitInv, Post PROVE WaitInv'
<1>0. WTyped /\ "cancelled" \in Results /\ "posted" \in WaitStages
  BY DEF WaitInv, Results, WaitStages
<1>1. driver' \in Drivers
  BY <1>0, DriverTyped DEF Post, WTyped
<1> QED
  BY <1>0, <1>1, ElsewhereKeeps DEF Post, KeepPlan, WTyped

\* The create is answered.
LEMMA PostAnsweredKeeps == ASSUME WaitInv, PostAnswered PROVE WaitInv'
<1>0. WTyped /\ {"createFailed", "reused", "cancelled"} \subseteq Results
      /\ {"waiting", "precheck"} \subseteq WaitStages
  BY DEF WaitInv, Results, WaitStages
<1>1. driver' \in Drivers
  BY <1>0, DriverTyped DEF PostAnswered, WTyped
<1>2. retry' \in Retries
  <2>1. CASE retry' = [retry EXCEPT !.age = 0]
    <3>1. 0 \in 0 .. RetryTimeout
      BY Timeouts
    <3> QED BY <1>0, <2>1, <3>1 DEF Retries, WTyped
  <2>2. CASE \E took \in 0 .. RetryLeft : took < RetryLeft
             /\ retry' = [retry EXCEPT !.age = @ + took]
    <3>1. PICK took \in 0 .. RetryLeft : retry' = [retry EXCEPT !.age = retry.age + took]
      BY <2>2
    <3>2. retry.age + took \in 0 .. RetryTimeout
      BY <1>0, Timeouts, Fields DEF RetryLeft
    <3> QED BY <1>0, <3>1, <3>2 DEF Retries, WTyped
  <2>3. CASE UNCHANGED retry
    BY <1>0, <2>3 DEF WTyped
  <2> QED BY <2>1, <2>2, <2>3 DEF PostAnswered
<1> QED
  BY <1>0, <1>1, <1>2, ElsewhereKeeps DEF PostAnswered, KeepPlan, WTyped

\* The pause before another create.
LEMMA BackOffKeeps == ASSUME WaitInv, BackOff PROVE WaitInv'
<1>0. WTyped /\ {"timeout", "cancelled"} \subseteq Results /\ "posting" \in WaitStages
  BY DEF WaitInv, Results, WaitStages
<1>1. driver' \in Drivers
  BY <1>0, DriverTyped DEF BackOff, WTyped
<1>2. retry' \in Retries
  <2>1. CASE UNCHANGED retry
    BY <1>0, <2>1 DEF WTyped
  <2>2. CASE ~UNCHANGED retry
    <3>1. retry' = [retry EXCEPT !.age = retry.age + Backoff] /\ ~(RetryLeft < Backoff)
      BY <2>2 DEF BackOff
    <3>2. retry.age + Backoff \in 0 .. RetryTimeout
      BY <1>0, <3>1, Timeouts, Fields DEF RetryLeft
    <3> QED BY <1>0, <3>1, <3>2 DEF Retries, WTyped
  <2> QED BY <2>1, <2>2
<1> QED
  BY <1>0, <1>1, <1>2, ElsewhereKeeps DEF BackOff, KeepPlan, WTyped

\* The user cancels.
LEMMA CancelKeeps == ASSUME WaitInv, Cancel PROVE WaitInv'
BY ElsewhereKeeps DEF WaitInv, WTyped, Cancel, KeepWait

-----------------------------------------------------------------------------
\* A tick yields a record, and an error of the service only from a failed session.
LEMMA TickTyped ==
    ASSUME NEW r \in Recs, NEW s \in Streams, NEW late \in BOOLEAN
    PROVE  /\ Monitor!Tick(r, s, late) \in Recs
           /\ r.error # "remote" /\ Monitor!Tick(r, s, late).error = "remote" =>
                 s = "Failed" /\ Monitor!Tick(r, s, late).player = "failed"
<1>1. CASE Monitor!Overdue(r, s, late)
  BY <1>1 DEF Monitor!Tick, Monitor!Overdue, Monitor!Preparing, Recs
<1>2. CASE s = "Provisioned" /\ ~Monitor!Overdue(r, s, late)
  BY <1>2 DEF Monitor!Tick, Recs
<1>3. CASE s # "Provisioned" /\ ~Monitor!Overdue(r, s, late)
  <2>1. CASE s \in Monitor!Preparing \cup {"WaitingForResources"} /\ r.reached
    BY <1>3, <2>1 DEF Monitor!Tick, Monitor!Preparing, Recs
  <2>2. CASE s \in Monitor!Preparing \cup {"WaitingForResources"} /\ ~r.reached
    BY <1>3, <2>2 DEF Monitor!Tick, Monitor!Preparing, Recs
  <2>3. CASE s = "Failed"
    BY <1>3, <2>3 DEF Monitor!Tick, Monitor!Preparing, Recs
  <2>4. CASE s \notin Monitor!Preparing \cup {"WaitingForResources", "Failed"}
    BY <1>3, <2>4 DEF Monitor!Tick, Monitor!Preparing, Recs
  <2> QED BY <2>1, <2>2, <2>3, <2>4
<1> QED
  BY <1>1, <1>2, <1>3

\* An end told by the service yields a record.
LEMMA WaitEndedTyped ==
    ASSUME NEW r \in Recs, NEW how \in {"failed", "closed"}
    PROVE  /\ Monitor!EndedBy(r, how) \in Recs
           /\ Monitor!EndedBy(r, how).player = how /\ Monitor!EndedBy(r, how).error = "remote"
BY DEF Monitor!EndedBy, Recs, Streams

\* What a new session starts with.
LEMMA FreshTyped ==
    /\ Monitor!Fresh \in Recs /\ Monitor!Fresh.error = "none" /\ Monitor!Fresh.stream = "none"
    /\ NewSeen \in Seens /\ NewSeen.details = "none"
    /\ NewWait \in Waits /\ NewWait.budget = 0 /\ NewWait.due /\ NewWait.passed = 0
       /\ ~NewWait.queued
<1>1. Monitor!Fresh \in Recs /\ Monitor!Fresh.error = "none" /\ Monitor!Fresh.stream = "none"
  BY DEF Monitor!Fresh, Recs, Streams
<1>2. NewSeen \in Seens /\ NewSeen.details = "none"
  BY DEF NewSeen, Seens, Details
<1>3. NewWait \in Waits /\ NewWait.budget = 0 /\ NewWait.due /\ NewWait.passed = 0
      /\ ~NewWait.queued
  BY Timeouts DEF NewWait, Waits
<1> QED
  BY <1>1, <1>2, <1>3

\* A player that failed or was closed is over.
LEMMA EndIsTerminal ==
    ASSUME NEW r \in Recs, r.player \in {"failed", "closed"}
    PROVE  Monitor!Terminal(r)
BY DEF Monitor!Terminal, Monitor!Phase

\* The monitor writes a record down.
LEMMA WriteDownKeeps ==
    ASSUME WaitInv, NEW next \in Recs, NEW details \in Details \cup {"none"}, WriteDown(next,
             details),
           UNCHANGED <<plan, cancelled, driver, console, retry, wait>>,
           next.error = "remote" => details # "none" /\ next.player \in {"failed", "closed"}
    PROVE  WaitInv'
<1>0. WTyped
  BY DEF WaitInv
<1>1. WTyped'
  <2>1. seen' \in Seens
    BY <1>0, Fields DEF WriteDown, Seens
  <2>2. monitor' \in Monitors
    BY <1>0 DEF WriteDown, Monitors, WTyped
  <2>3. Older(truth.entries, Limit) \in 0 .. Limit
    BY <1>0, Fields, Timeouts DEF Older
  <2>4. truth' \in Truths
    BY <1>0, <2>3 DEF WriteDown, Truths, WTyped
  <2> QED BY <1>0, <2>1, <2>2, <2>4 DEF WriteDown, WTyped
<1>2. EndIsLast'
  <2>1. next.error = "remote" => monitor'.at = "revoking"
    BY <1>0, EndIsTerminal DEF WriteDown, WTyped, Monitors
  <2>2. seen'.details = IF next.error # "remote" THEN "none" ELSE details
    BY DEF WriteDown
  <2> QED BY <2>1, <2>2 DEF WriteDown, EndIsLast
<1>3. Accounted'
  <2> SUFFICES ASSUME ~plan.home PROVE Covered(wait.budget)' /\
                 (~wait.queued /\ (IF wait.due THEN wait.passed = 1 ELSE Queued')
                   => Covered(wait.budget + 1)')
    BY DEF Accounted
  <2>1. truth.out \in 0 .. Limit /\ truth.entries \in 0 .. Limit /\ wait.budget \in 0 .. Limit
        /\ Limit \in Nat
    BY <1>0, Fields, Timeouts
  <2>2. truth'.out = truth.out /\ truth'.entries >= truth.entries
        /\ (InQueue(next) /\ ~InQueue(rec) => truth'.entries = truth.entries + 1
           \/ truth'.entries = Limit)
    BY <1>0, <2>1, OlderTyped DEF WriteDown, WTyped, Truths
  <2>3. truth'.entries \in 0 .. Limit
    BY <1>1 DEF WTyped, Truths
  <2>4. wait' = wait /\ rec' = next
    BY DEF WriteDown
  <2>5. ASSUME NEW n \in Nat, Covered(n) PROVE Covered(n)'
    BY <2>1, <2>2, <2>3, <2>5 DEF Covered
  <2>6. Covered(wait.budget)'
    BY <2>1, <2>4, <2>5 DEF WaitInv, Accounted
  <2>7. ASSUME ~wait.queued, IF wait.due THEN wait.passed = 1 ELSE Queued' PROVE Covered(wait.budget + 1)'
    <3>1. CASE wait.due \/ Queued
      <4>1. Covered(wait.budget + 1)
        BY <2>7, <3>1 DEF WaitInv, Accounted
      <4> QED BY <2>1, <2>4, <2>5, <4>1
    <3>2. CASE ~wait.due /\ ~Queued
      <4>1. InQueue(next) /\ ~InQueue(rec)
        BY <2>4, <2>7, <3>2 DEF Queued, InQueue
      <4>2. Covered(wait.budget)
        BY DEF WaitInv, Accounted
      <4> QED BY <2>1, <2>2, <2>3, <2>4, <4>1, <4>2 DEF Covered
    <3> QED BY <3>1, <3>2
  <2> QED BY <2>6, <2>7
<1> QED
  BY <1>1, <1>2, <1>3 DEF WaitInv

\* A tick of the monitor.
LEMMA MonitorTickKeeps == ASSUME WaitInv, MonitorTick PROVE WaitInv'
<1>0. WTyped /\ rec \in Recs /\ seen.details \in Details \cup {"none"} /\ rec.error # "remote"
      /\ seen.details = "none"
  BY Fields DEF WaitInv, WTyped, EndIsLast, MonitorTick
<1>1. CASE Observed
  <2>1. PICK s \in Streams, details \in Details :
            WriteDown(Monitor!Tick(rec, s, rec.stream = s /\ seen.held >= StartupTimeout),
                      IF s = "Failed" THEN details ELSE seen.details)
    BY <1>1 DEF Observed
  <2> DEFINE next == Monitor!Tick(rec, s, rec.stream = s /\ seen.held >= StartupTimeout)
             speaks == IF s = "Failed" THEN details ELSE seen.details
  <2>2. next \in Recs /\ (next.error = "remote" => s = "Failed" /\ next.player = "failed")
    BY <1>0, TickTyped
  <2>3. speaks \in Details \cup {"none"} /\ (s = "Failed" => speaks # "none")
    BY <1>0 DEF Details
  <2>4. WriteDown(next, speaks)
    BY <2>1
  <2> HIDE DEF next, speaks
  <2> QED BY <2>2, <2>3, <2>4, WriteDownKeeps DEF MonitorTick, KeepPlan
<1>2. CASE Refused
  <2>1. PICK how \in {"failed", "closed"},
               details \in Details \ {"code"} : WriteDown(Monitor!EndedBy(rec, how), details)
    BY <1>2 DEF Refused
  <2>2. details # "none"
    BY DEF Details
  <2>3. Monitor!EndedBy(rec, how) \in Recs /\ Monitor!EndedBy(rec, how).player = how
    BY <1>0, WaitEndedTyped
  <2> QED BY <2>1, <2>2, <2>3, WriteDownKeeps DEF MonitorTick, KeepPlan
<1> QED
  BY <1>1, <1>2 DEF MonitorTick

\* The record and the accounts are left alone.
LEMMA RecordStands ==
    ASSUME WaitInv, UNCHANGED <<plan, cancelled, console, retry, rec, seen, wait, truth>>,
           driver' \in Drivers, monitor' \in Monitors, monitor'.at = "running"
             => monitor.at = "running"
    PROVE  WaitInv'
<1>1. WTyped'
  BY DEF WaitInv, WTyped
<1>2. EndIsLast'
  BY DEF WaitInv, EndIsLast
<1>3. Accounted'
  BY DEF WaitInv, Accounted, Covered, Queued, InQueue
<1> QED
  BY <1>1, <1>2, <1>3 DEF WaitInv

\* The monitor revokes its token after the end it saw.
LEMMA MonitorRevokesKeeps == ASSUME WaitInv, MonitorRevokes PROVE WaitInv'
<1>1. monitor' \in Monitors /\ monitor'.at = "ended"
  BY Fields DEF WaitInv, WTyped, MonitorRevokes, Monitors
<1> QED
  BY <1>1, RecordStands DEF WaitInv, WTyped, MonitorRevokes, KeepPlan

\* The page closes the session.
LEMMA PageClosesKeeps == ASSUME WaitInv, PageCloses PROVE WaitInv'
<1>1. monitor' \in Monitors /\ monitor'.at = monitor.at
  BY DEF WaitInv, WTyped, PageCloses, Monitors
<1> QED
  BY <1>1, RecordStands DEF WaitInv, WTyped, PageCloses, KeepPlan

\* A cancelled startup drops the wait for the session.
LEMMA WaitDroppedKeeps == ASSUME WaitInv, WaitDropped PROVE WaitInv'
<1>1. driver' \in Drivers
  BY DEF WaitDropped, Drivers, WaitStages, Results
<1> QED
  BY <1>1, RecordStands DEF WaitInv, WTyped, WaitDropped, KeepPlan

\* A look of the waiter at the session, which charges the unit that passed or spares it.
LEMMA LookAtSessionKeeps == ASSUME WaitInv, LookAtSession PROVE WaitInv'
<1>0. WTyped
  BY DEF WaitInv
<1>1. Spent \in 0 .. Limit /\ (wait.queued \/ wait.passed = 0 => Spent = wait.budget)
      /\ (Spent = wait.budget \/ Spent = wait.budget + 1)
  BY <1>0, Fields, Timeouts DEF Spent, Older
<1>2. wait' \in Waits
  <2>1. (IF RecoverySignal THEN 0 ELSE wait.signal) \in Nat
    BY <1>0, Fields
  <2>2. (IF Registering /\ wait.counting THEN wait.registering ELSE 0) \in Nat
    BY <1>0, Fields
  <2>3. Queued \in BOOLEAN /\ Registering \in BOOLEAN
    BY <1>0, Fields DEF Queued, InQueue, Registering
  <2> QED BY <1>1, <2>1, <2>2, <2>3 DEF LookAtSession, Waits
<1>3. driver' \in Drivers
  <2>1. Verdict \in Results
    BY DEF Verdict, Results
  <2>2. {"ended", "deciding"} \subseteq WaitStages
    BY DEF WaitStages
  <2> QED BY <1>0, <2>1, <2>2 DEF LookAtSession, Drivers, WTyped
<1>4. UNCHANGED <<plan, cancelled, console, retry, rec, seen, monitor, truth>>
  BY DEF LookAtSession, KeepPlan
<1>5. Accounted'
  <2> SUFFICES ASSUME ~plan.home
               PROVE  Covered(Spent) /\ ~wait'.due /\ wait'.budget = Spent /\ wait'.queued = Queued
    BY <1>4 DEF Accounted, Covered, Queued, InQueue
  <2>1. ~wait'.due /\ wait'.budget = Spent /\ wait'.queued = Queued
    BY DEF LookAtSession
  <2>2. CASE wait.queued \/ wait.passed = 0
    BY <1>1, <2>1, <2>2 DEF WaitInv, Accounted
  <2>3. CASE ~(wait.queued \/ wait.passed = 0)
    <3>1. Covered(wait.budget + 1) /\ Covered(wait.budget)
      BY <1>0, <2>3, Fields DEF WaitInv, Accounted, LookAtSession
    <3>2. truth.out \in 0 .. Limit /\ truth.entries \in 0 .. Limit
          /\ wait.budget \in 0 .. Limit /\ Limit \in Nat
      BY <1>0, Fields, Timeouts
    <3> QED BY <1>1, <2>1, <3>1, <3>2 DEF Covered
  <2> QED BY <2>1, <2>2, <2>3
<1>6. WTyped'
  BY <1>0, <1>2, <1>3, <1>4 DEF WTyped
<1>7. EndIsLast'
  BY <1>4 DEF WaitInv, EndIsLast
<1> QED
  BY <1>5, <1>6, <1>7 DEF WaitInv

\* What the flow makes of a session that is not ready: another create, or the end.
LEMMA DecideKeeps == ASSUME WaitInv, Decide PROVE WaitInv'
<1>0. WTyped
  BY DEF WaitInv
<1>1. driver' \in Drivers /\ retry' \in Retries
  <2>1. CASE Decision = "retry" /\ ~cancelled
    <3>1. retry.recreates + 1 \in 0 .. 1
      BY <1>0, <2>1, Fields DEF Decision
    <3> QED BY <2>1, <3>1, Timeouts DEF Decide, Drivers, WaitStages, Results, Retries
  <2>2. CASE ~(Decision = "retry" /\ ~cancelled)
    <3>1. Decision \in {"none", "retry", "exhausted"} /\ driver.result \in Results
      BY <1>0, Fields DEF Decision
    <3>2. (CASE Decision = "none" -> driver.result [] Decision = "retry" -> "cancelled" [] OTHER -> Decision) \in Results
      BY <3>1 DEF Results
    <3> QED BY <1>0, <2>2, <3>2, DriverTyped DEF Decide, WTyped
  <2> QED BY <2>1, <2>2
<1>2. WTyped'
  <2>1. monitor' \in Monitors /\ truth' \in Truths
    BY Timeouts DEF Decide, Monitors, Truths
  <2> QED BY <1>0, <1>1, <2>1, FreshTyped DEF Decide, KeepPlan, WTyped
<1>3. EndIsLast'
  BY FreshTyped DEF Decide, EndIsLast
<1>4. Accounted'
  <2>1. wait'.budget = 0 /\ wait'.due /\ wait'.passed = 0 /\ truth'.out = 0 /\ truth'.entries = 0
    BY FreshTyped DEF Decide
  <2> QED BY <2>1 DEF Accounted, Covered
<1> QED
  BY <1>2, <1>3, <1>4 DEF WaitInv

\* A unit of time passes; the accounts kept beside the code tell where it was spent.
LEMMA UnitPassesKeeps == ASSUME WaitInv, UnitPasses PROVE WaitInv'
<1>0. WTyped
  BY DEF WaitInv
<1>1. wait' \in Waits /\ wait'.due /\ wait'.passed = 1 /\ wait'.budget = wait.budget
      /\ wait'.queued = wait.queued
  <2>1. /\ Older(wait.signal, Grace + 1) \in Nat
        /\ (IF wait.counting THEN Older(wait.registering,
             RegistrationTimeout) ELSE wait.registering) \in Nat
    BY <1>0, Fields, Timeouts DEF Older
  <2> DEFINE signal == Older(wait.signal, Grace + 1)
             registering == IF wait.counting THEN Older(wait.registering,
                   RegistrationTimeout) ELSE wait.registering
  <2>2. wait' = [wait EXCEPT !.due = TRUE, !.passed = 1, !.signal = signal,
          !.registering = registering]
    BY DEF UnitPasses
  <2> HIDE DEF signal, registering
  <2> QED BY <1>0, <2>1, <2>2 DEF Waits, WTyped, signal, registering
<1>2. seen' \in Seens /\ seen'.details = seen.details
  <2> DEFINE age == IF Queued THEN Older(seen.age, QueueTimeout) ELSE seen.age
             held == IF rec.stream \in Monitor!Preparing /\ ~rec.reached THEN Older(seen.held,
                   StartupTimeout) ELSE seen.held
  <2>1. age \in Nat /\ held \in Nat
    BY <1>0, Fields, Timeouts, OlderTyped
  <2>2. seen' = [seen EXCEPT !.age = age, !.held = held]
    BY DEF UnitPasses
  <2> HIDE DEF age, held
  <2> QED BY <1>0, <2>1, <2>2 DEF Seens, WTyped
<1>3. /\ truth' \in Truths /\ truth'.entries = truth.entries
      /\ ~plan.home /\ ~Queued => truth'.out = truth.out + 1 \/ truth'.out = Limit
      /\ plan.home \/ Queued => truth'.out = truth.out
  <2> DEFINE out == IF plan.home \/ Queued THEN truth.out ELSE Older(truth.out, Limit)
  <2>1. out \in 0 .. Limit /\ (~plan.home /\ ~Queued => out = truth.out + 1 \/ out = Limit)
        /\ (plan.home \/ Queued => out = truth.out)
    BY <1>0, Fields, Timeouts DEF Older
  <2>2. truth' = [truth EXCEPT !.out = out]
    BY DEF UnitPasses
  <2> HIDE DEF out
  <2> QED BY <1>0, <2>1, <2>2 DEF Truths, WTyped
<1>4. UNCHANGED <<plan, cancelled, driver, console, retry, rec, monitor>>
  BY DEF UnitPasses, KeepPlan
<1>5. WTyped'
  BY <1>0, <1>1, <1>2, <1>3, <1>4 DEF WTyped
<1>6. EndIsLast'
  BY <1>2, <1>4 DEF WaitInv, EndIsLast
<1>7. Accounted'
  <2> SUFFICES ASSUME ~plan.home PROVE Covered(wait.budget)' /\ (~wait.queued
                        => Covered(wait.budget + 1)')
    BY <1>1, <1>4 DEF Accounted
  <2>1. /\ truth.out \in 0 .. Limit /\ truth.entries \in 0 .. Limit
           /\ wait.budget \in 0 .. Limit /\ Limit \in Nat
        /\ truth'.out \in 0 .. Limit /\ truth'.entries \in 0 .. Limit
    BY <1>0, <1>5, Fields, Timeouts DEF WTyped, Truths
  <2>2. Covered(wait.budget) /\ (~wait.queued /\ Queued => Covered(wait.budget + 1))
    BY DEF WaitInv, Accounted, UnitPasses
  <2>3. CASE Queued
    BY <1>1, <1>3, <2>1, <2>2, <2>3 DEF Covered
  <2>4. CASE ~Queued
    BY <1>1, <1>3, <2>1, <2>2, <2>4 DEF Covered
  <2> QED BY <2>3, <2>4
<1> QED
  BY <1>5, <1>6, <1>7 DEF WaitInv

-----------------------------------------------------------------------------
\* The invariant holds at the start.
LEMMA WaitInitHolds == WaitInit => WaitInv
<1> SUFFICES ASSUME WaitInit PROVE WaitInv
  OBVIOUS
<1>1. WTyped
  <2>1. plan \in StartPlans
    <3>1. CASE plan \in [home : {TRUE}, wake : BOOLEAN, ready : BOOLEAN]
      BY <3>1 DEF StartPlans
    <3>2. CASE plan = [home |-> FALSE, wake |-> FALSE, ready |-> FALSE]
      BY <3>2 DEF StartPlans
    <3> QED BY <3>1, <3>2 DEF WaitInit
  <2>3. driver \in Drivers
    BY DEF WaitInit, Drivers, WaitStages, Results
  <2>2. console \in ConsoleWaits /\ retry \in Retries /\ monitor \in Monitors /\ truth \in Truths
    BY Timeouts DEF WaitInit, NoConsole, ConsoleWaits, Retries, Monitors, Truths
  <2> QED BY <2>1, <2>2, <2>3, FreshTyped DEF WaitInit, WTyped
<1>2. EndIsLast
  BY FreshTyped DEF WaitInit, EndIsLast
<1>3. Accounted
  <2>1. wait.budget = 0 /\ wait.due /\ wait.passed = 0 /\ truth.out = 0 /\ truth.entries = 0
    BY FreshTyped DEF WaitInit
  <2> QED BY <2>1 DEF Accounted, Covered
<1> QED
  BY <1>1, <1>2, <1>3 DEF WaitInv

\* One step per action of WaitNext.
LEMMA WaitStepKeeps == WaitInv /\ [WaitNext]_waitVars => WaitInv'
<1>1. ASSUME WaitInv, UNCHANGED waitVars PROVE WaitInv'
  BY <1>1 DEF waitVars, WaitInv, WTyped, EndIsLast, Accounted, Covered, Queued, InQueue
<1> QED
  BY <1>1, WaitForConsoleKeeps, ConsoleDroppedKeeps, WakeOnlyKeeps, PostKeeps, PostAnsweredKeeps,
     BackOffKeeps,
     MonitorTickKeeps, MonitorRevokesKeeps, PageClosesKeeps, LookAtSessionKeeps, WaitDroppedKeeps,
       DecideKeeps,
     UnitPassesKeeps, CancelKeeps DEF WaitNext

\* The invariant of the waits of a startup, for any timeouts: each turn of the loops of startup.rs and
\* flow.rs keeps it, whatever the service and the monitor do between two of them.
THEOREM WaitIsSound == WaitSpec => []WaitInv
<1> QED
  BY WaitInitHolds, WaitStepKeeps, PTL DEF WaitSpec

\* Types of the locals and the record.
THEOREM WaitTyped == WaitSpec => []WaitTypeOK
<1>1. WaitInv => WaitTypeOK
  <2> SUFFICES ASSUME WaitInv PROVE WaitTypeOK
    OBVIOUS
  <2>1. WTyped /\ (rec.error = "remote" => seen.details # "none")
    BY DEF WaitInv, EndIsLast
  <2>2. rec \in [player : {"pending", "queued", "started", "failed", "closed"}, stream : Streams,
                 reached : BOOLEAN, error : {"none", "timeout", "remote"}]
    BY <2>1 DEF WTyped, Recs
  <2> QED BY <2>1, <2>2, Fields DEF WaitTypeOK, WaitStages
<1> QED
  BY <1>1, WaitIsSound, PTL

\* QueueTimeSpared for any timeouts: a session that waits in the queue of the service does not use up
\* its time to start, but for the unit in which it entered it.
THEOREM QueueIsNotCharged == WaitSpec => []QueueTimeSpared
<1>1. WaitInv => QueueTimeSpared
  <2> SUFFICES ASSUME WaitInv, ~plan.home PROVE wait.budget <= truth.out + truth.entries
    BY DEF QueueTimeSpared
  <2>1. wait.budget \in 0 .. Limit /\ truth.out \in 0 .. Limit /\ truth.entries \in 0 .. Limit
        /\ Limit \in Nat
    BY Fields, Timeouts DEF WaitInv
  <2>2. Covered(wait.budget)
    BY DEF WaitInv, Accounted
  <2> QED BY <2>1, <2>2 DEF Covered
<1> QED
  BY <1>1, WaitIsSound, PTL

\* A retry is only decided of a session that has failed.
LEMMA RetryAfterFailure ==
    ASSUME WaitInv, Decision = "retry"
    PROVE  Phase = "failed"
<1>1. Phase \in {"waiting", "failed"} /\ Unregistered
  BY DEF Decision
<1>2. rec.error = "remote" /\ rec.player \in {"failed", "closed"}
  BY <1>1 DEF Unregistered, WaitInv, EndIsLast
<1> QED
  BY <1>1, <1>2 DEF Phase, Monitor!Phase

\* What a step must have been for a create to be posted again.
LEMMA CreateJustified ==
    ASSUME WaitInv, [WaitNext]_waitVars
    PROVE  /\ driver.at = "posting" /\ driver'.at = "posted" => ~cancelled
              /\ retry.age <= RetryTimeout
           /\ retry'.recreates # retry.recreates => Phase = "failed" /\ ~cancelled
<1>1. retry.age <= RetryTimeout /\ retry \in Retries
  BY Fields, Timeouts DEF WaitInv, WTyped
<1>2. ASSUME driver.at = "posting", driver'.at = "posted" PROVE ~cancelled
  <2>1. Post
    BY <1>2 DEF WaitNext, WaitForConsole, WakeOnly, ConsoleDropped, PostAnswered, BackOff,
       MonitorTick, MonitorRevokes,
       PageCloses, LookAtSession, WaitDropped, Decide, UnitPasses, Cancel, waitVars
  <2> QED BY <1>2, <2>1 DEF Post, StartupEnds
<1>3. ASSUME retry'.recreates # retry.recreates PROVE Phase = "failed" /\ ~cancelled
  <2>1. ASSUME ConsoleDropped \/ PostAnswered \/ BackOff PROVE retry'.recreates = retry.recreates
    BY <1>1, <2>1 DEF ConsoleDropped, PostAnswered, BackOff, Retries
  <2>2. ASSUME WaitForConsole PROVE retry'.recreates = retry.recreates
    <3>1. ASSUME NEW locals, ConsoleGoesOn(locals) PROVE retry'.recreates = retry.recreates
      BY <1>1, <3>1 DEF ConsoleGoesOn, Retries
    <3> QED BY <2>2, <3>1 DEF WaitForConsole, LookAtConsole, Wake
  <2>3. Decide
    BY <1>3, <2>1, <2>2 DEF WaitNext, WakeOnly, Post, MonitorTick, MonitorRevokes,
       PageCloses, LookAtSession, WaitDropped, UnitPasses, Cancel, waitVars
  <2>4. Decision = "retry" /\ ~cancelled
    BY <1>3, <2>3 DEF Decide
  <2> QED BY <2>4, RetryAfterFailure
<1> QED
  BY <1>1, <1>2, <1>3

\* CreatesJustified for any timeouts: a create is posted in time and not after a cancel, and a second one
\* only after the first session failed.
THEOREM CreatesAreJustified == WaitSpec => CreatesJustified
<1>1. ASSUME WaitInv, [WaitNext]_waitVars
      PROVE  [/\ driver.at = "posting" /\ driver'.at = "posted"
                    => ~cancelled /\ retry.age <= RetryTimeout
              /\ retry'.recreates # retry.recreates => Phase = "failed" /\ ~cancelled]_waitVars
  BY <1>1, CreateJustified
<1> QED
  BY <1>1, WaitIsSound, PTL DEF WaitSpec, CreatesJustified
===============================================================================
