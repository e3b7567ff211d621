----------------------------- MODULE StartupWait -----------------------------
(***************************************************************************)
(* What a startup waits for, and how long: the console that wakes up, the  *)
(* service that has it registered, and the session that gets ready while   *)
(* the monitor writes down what the service says of it.  The waiter reads  *)
(* the record between its sleeps, under the token the monitor cancels.     *)
(* One unit of time is one interval of polling, and a due task runs before *)
(* the next unit passes.  An age stops counting where nothing tells it     *)
(* from a greater one.                                                     *)
(***************************************************************************)
EXTENDS Naturals

CONSTANTS ReadyTimeout,          \* schedule.ready_timeout_ms
          StartupTimeout,        \* schedule.startup_timeout_ms
          Backoff,               \* schedule.retry_backoff_ms
          WakeSpacing, WakeCircuit,    \* 5 s and 15 s of wait_until_console_ready
          Grace,                 \* startup_closed_recovery_grace_ms
          RegistrationTimeout,   \* HOME_SERVER_REGISTRATION_WAIT_TIMEOUT_MS
          QueueTimeout           \* 45 s without an observation of the queue

ASSUME WaitAssumption ==
    {ReadyTimeout, StartupTimeout, Backoff, WakeSpacing, WakeCircuit, Grace, RegistrationTimeout, QueueTimeout}
        \subseteq Nat

VARIABLES plan,        \* the startup's target: home or cloud, and whether it waits for the console
          cancelled,   \* the scope of the startup
          driver,      \* where the startup is, and how it ended
          console,     \* the locals of wait_until_console_ready
          retry,       \* the age of start_stream_with_retry, and how often the session was re-created
          rec,         \* the snapshot the monitor keeps
          seen,        \* what else the record says of it: ages, what its error speaks of
          monitor,     \* the monitor loop, and whether the session's token is cancelled
          wait,        \* the locals of wait_until_session_started_or_failed
          truth        \* units the session was not in the queue, and how often it entered it

waitVars == <<plan, cancelled, driver, console, retry, rec, seen, monitor, wait, truth>>

Monitor == INSTANCE SessionMonitor WITH
    Gens <- {0}, NoGen <- 1, Streams <- {}, slot <- 0, dead <- {}, closing <- {}, mon <- 0, mview <- 0,
    msend <- 0, keep <- 0, kview <- 0, sent <- {}, gone <- {}, provisioned <- {},
    played <- {}, ousted <- {}

Phase == Monitor!Phase(rec)
Streams == {"none", "Provisioning", "ReadyToConnect", "Provisioned", "WaitingForResources",
            "Recovering", "Closing", "Failed", "Closed"}
Older(age, cap) == IF age < cap THEN age + 1 ELSE cap
Limit == StartupTimeout + 1

NoConsole == [age |-> 0, wake |-> WakeSpacing, failures |-> 0]
NewWait == [due |-> TRUE, passed |-> 0, signal |-> 0, budget |-> 0, queued |-> FALSE, registering |-> 0, counting |-> FALSE]
NewSeen == [age |-> 0, held |-> 0, details |-> "none"]

WaitInit ==
    /\ plan \in [home : {TRUE}, wake : BOOLEAN, ready : BOOLEAN] \cup {[home |-> FALSE, wake |-> FALSE, ready |-> FALSE]}
    /\ cancelled = FALSE
    /\ driver = [at |-> IF plan.home THEN "console" ELSE "posting", result |-> "none"]
    /\ console = NoConsole
    /\ retry = [age |-> 0, recreates |-> 0]
    /\ rec = Monitor!Fresh /\ seen = NewSeen
    /\ monitor = [at |-> "running", token |-> "live"]
    /\ wait = NewWait /\ truth = [out |-> 0, entries |-> 0]

DriverAt(step) == driver' = [driver EXCEPT !.at = step]
StartupEnds(result) == driver' = [at |-> "ended", result |-> result]
KeepWait == UNCHANGED <<rec, seen, monitor, wait, truth>>
KeepPlan == UNCHANGED <<plan, cancelled>>

----------------------------------------------------------------------------
(* The console.  A startup that must find it ready polls it, and wakes it  *)
(* again while it sleeps; the same wait comes before a create is repeated, *)
(* where it may fail.                                                      *)

ConsoleDone(result) ==
    /\ console' = NoConsole
    /\ IF driver.at = "precheck" THEN DriverAt("backoff")
       ELSE IF result = "ready" THEN DriverAt("posting") ELSE StartupEnds(result)

RetryTimeout == IF ReadyTimeout > 1 THEN ReadyTimeout ELSE 1
RetryLeft == IF retry.age < RetryTimeout THEN RetryTimeout - retry.age ELSE 0

\* The wait sleeps after a look unless its time is over; a precheck only has what is left for retries.
ConsoleGoesOn(locals) ==
    IF console.age >= ReadyTimeout \/ (driver.at = "precheck" /\ RetryLeft = 0)
    THEN ConsoleDone("notReady") /\ UNCHANGED retry
    ELSE /\ console' = [locals EXCEPT !.age = console.age + 1, !.wake = Older(locals.wake, WakeSpacing)]
         /\ retry' = [retry EXCEPT !.age = IF driver.at = "precheck" THEN @ + 1 ELSE @]
         /\ UNCHANGED driver

Asleep == {"ConnectedStandby", "Off"}

WakeDue(power) == plan.wake /\ power \in Asleep /\ console.wake >= WakeSpacing

CircuitOpen(failures) == failures >= 3 /\ console.age >= WakeCircuit

\* A due wake command: accepted, refused, or answered that the console is not registered yet.
Wake ==
    \/ ConsoleGoesOn([console EXCEPT !.wake = 0, !.failures = 0])
    \/ ConsoleGoesOn([console EXCEPT !.wake = 0])
    \/ LET failures == Older(console.failures, 3)
       IN IF CircuitOpen(failures) THEN ConsoleDone("circuitOpen") /\ UNCHANGED retry
          ELSE ConsoleGoesOn([console EXCEPT !.wake = 0, !.failures = failures])

\* One look; "On" is a console that is up but cannot be managed from afar.
LookAtConsole ==
    \/ ConsoleDone("ready") /\ UNCHANGED retry
    \/ ConsoleDone("failed") /\ UNCHANGED retry    \* of the list, or of a wake command
    \/ \E power \in Asleep \cup {"On", "missing"} : IF WakeDue(power) THEN Wake ELSE ConsoleGoesOn(console)

WaitForConsole ==
    /\ driver.at = "precheck" \/ (driver.at = "console" /\ plan.ready)
    /\ LookAtConsole
    /\ KeepWait /\ KeepPlan

\* A request is not answered before the time is over, or the scope is cancelled.
ConsoleDropped ==
    /\ driver.at \in {"console", "precheck"}
    /\ \/ ConsoleDone("timeout") /\ retry' = [retry EXCEPT !.age = IF driver.at = "precheck" THEN RetryTimeout ELSE @]
       \/ cancelled /\ ConsoleDone("cancelled") /\ UNCHANGED retry
    /\ KeepWait /\ KeepPlan

\* A startup that need not find the console ready wakes it at most.
WakeOnly ==
    /\ driver.at = "console" /\ ~plan.ready
    /\ \/ ConsoleDone("ready")
       \/ plan.wake /\ ConsoleDone("failed")
    /\ KeepWait /\ KeepPlan /\ UNCHANGED retry

----------------------------------------------------------------------------
(* The create, and its repetition while the console is not registered.     *)

Post ==
    /\ driver.at = "posting"
    /\ IF cancelled THEN StartupEnds("cancelled") ELSE DriverAt("posted")
    /\ KeepWait /\ KeepPlan /\ UNCHANGED <<console, retry>>

\* A re-create that is given the session it had to clear, and could not see it end, fails.
PostAnswered ==
    /\ driver.at = "posted"
    /\ \/ DriverAt("waiting") /\ retry' = [retry EXCEPT !.age = 0]
       \/ StartupEnds("createFailed") /\ UNCHANGED retry
       \/ retry.recreates > 0 /\ StartupEnds("reused") /\ UNCHANGED retry
       \/ \E took \in 0 .. RetryLeft :    \* home, and the console is not registered
             /\ plan.home /\ took < RetryLeft
             /\ DriverAt("precheck") /\ retry' = [retry EXCEPT !.age = @ + took]
       \/ cancelled /\ StartupEnds("cancelled") /\ UNCHANGED retry
    /\ KeepWait /\ KeepPlan /\ UNCHANGED console

\* Mutant: the sleep is not cut short by the time for retries.
BackOffInFull ==
    /\ driver.at = "backoff"
    /\ IF cancelled THEN StartupEnds("cancelled") /\ UNCHANGED retry
       ELSE DriverAt("posting") /\ retry' = [retry EXCEPT !.age = @ + Backoff]
    /\ KeepWait /\ KeepPlan /\ UNCHANGED console

\* The sleep before the next create, or the end of the time for it, whichever comes first.
BackOff ==
    /\ driver.at = "backoff"
    /\ IF cancelled THEN StartupEnds("cancelled") /\ UNCHANGED retry
       ELSE IF RetryLeft < Backoff THEN StartupEnds("timeout") /\ UNCHANGED retry
       ELSE DriverAt("posting") /\ retry' = [retry EXCEPT !.age = @ + Backoff]
    /\ KeepWait /\ KeepPlan /\ UNCHANGED console

----------------------------------------------------------------------------
(* The monitor of the session (SessionMonitor has its loops in full): it   *)
(* writes what it was told, and of a session that is over it cancels the   *)
(* token after that.                                                       *)

InQueue(r) == r.stream = "WaitingForResources"

WriteDown(next, details) ==
    /\ rec' = next
    /\ seen' = [age |-> 0, held |-> IF next.stream = rec.stream THEN seen.held ELSE 0,
                details |-> IF next.error # "remote" THEN "none" ELSE details]
    /\ truth' = [truth EXCEPT !.entries = IF ~plan.home /\ InQueue(next) /\ ~InQueue(rec) THEN Older(@, Limit) ELSE @]
    /\ monitor' = [monitor EXCEPT !.at = IF Monitor!Terminal(next) THEN "revoking" ELSE "running"]

Details == {"code", "message", "recovery", "other"}    \* what an error speaks of

Observed ==
    \E s \in Streams, details \in Details :
        WriteDown(Monitor!Tick(rec, s, rec.stream = s /\ seen.held >= StartupTimeout),
                  IF s = "Failed" THEN details ELSE seen.details)

Refused == \E how \in {"failed", "closed"}, details \in Details \ {"code"} :
               WriteDown(Monitor!EndedBy(rec, how), details)

MonitorTick ==
    /\ driver.at \in {"waiting", "deciding"} /\ monitor = [at |-> "running", token |-> "live"]
    /\ Observed \/ Refused
    /\ KeepPlan /\ UNCHANGED <<driver, console, retry, wait>>

MonitorRevokes ==
    /\ driver.at \in {"waiting", "deciding"} /\ monitor.at = "revoking"
    /\ monitor' = [at |-> "ended", token |-> IF monitor.token = "live" THEN "monitor" ELSE monitor.token]
    /\ KeepPlan /\ UNCHANGED <<driver, console, retry, rec, seen, wait, truth>>

\* The page closes the session: its token is cancelled and its record goes.
PageCloses ==
    /\ driver.at = "waiting" /\ monitor.token = "live"
    /\ monitor' = [monitor EXCEPT !.token = "page"]
    /\ KeepPlan /\ UNCHANGED <<driver, console, retry, rec, seen, wait, truth>>

----------------------------------------------------------------------------
(* The wait for the session.                                               *)

Queued == ~plan.home /\ InQueue(rec)

\* Mutant: time in the queue counts, too.
SpentQueueing == IF wait.passed = 0 THEN wait.budget ELSE Older(wait.budget, Limit)

\* Time counts against the budget unless the last look found the session in the queue.
Spent == IF wait.queued \/ wait.passed = 0 THEN wait.budget ELSE Older(wait.budget, Limit)

Registering == plan.home /\ rec.player = "pending" /\ rec.stream = "Provisioning"
RegistrationOver == Registering /\ wait.counting /\ wait.registering >= RegistrationTimeout

RecoverySignal == Phase \in {"waiting", "starting", "recovering"} \/ seen.details = "recovery"

\* The first that applies.
Verdict ==
    IF Queued /\ seen.age >= QueueTimeout THEN "queueLost"
    ELSE IF RegistrationOver THEN "registration"
    ELSE IF Phase \in {"ready", "failed"} THEN Phase
    ELSE IF Phase = "closed" /\ ~RecoverySignal /\ wait.signal > Grace THEN "failed"
    ELSE IF Spent >= Limit THEN "timeout" ELSE "none"

LookAtSession ==
    /\ driver.at = "waiting" /\ wait.due
    /\ ~cancelled /\ monitor.token = "live"
    /\ wait' = [due |-> FALSE, passed |-> 0, signal |-> IF RecoverySignal THEN 0 ELSE wait.signal, budget |-> Spent,
                queued |-> Queued, counting |-> Registering,
                registering |-> IF Registering /\ wait.counting THEN wait.registering ELSE 0]
    /\ driver' = IF Verdict = "none" THEN driver
                 ELSE [at |-> IF Verdict = "ready" THEN "ended" ELSE "deciding", result |-> Verdict]
    /\ KeepPlan /\ UNCHANGED <<console, retry, rec, seen, monitor, truth>>

WaitDropped ==
    /\ driver.at = "waiting" /\ (cancelled \/ monitor.token # "live")
    /\ driver' = [at |-> "deciding", result |-> "cancelled"]
    /\ KeepPlan /\ UNCHANGED <<console, retry, rec, seen, monitor, wait, truth>>

\* decide_home_session_ready_recreate_retry, on what the record says once the wait has failed.
Unregistered == seen.details \in {"code", "message"}
Decision ==
    IF /\ plan.home /\ monitor.token # "page"
       /\ rec.stream \in {"Provisioning", "Failed"} /\ Phase \in {"waiting", "failed"} /\ Unregistered
    THEN IF Phase = "failed" /\ seen.details = "code" THEN "exhausted"
         ELSE IF retry.recreates < 1 THEN "retry" ELSE "exhausted"
    ELSE "none"

\* The session is closed.  A re-create starts over with the console; the scope is asked on the way.
Decide ==
    /\ driver.at = "deciding"
    /\ IF Decision = "retry" /\ ~cancelled
       THEN /\ driver' = [at |-> "console", result |-> "none"]
            /\ retry' = [age |-> 0, recreates |-> retry.recreates + 1]
       ELSE /\ StartupEnds(CASE Decision = "none" -> driver.result [] Decision = "retry" -> "cancelled"
                      [] OTHER -> Decision)
            /\ UNCHANGED retry
    /\ rec' = Monitor!Fresh /\ seen' = NewSeen /\ wait' = NewWait
    /\ monitor' = [at |-> "running", token |-> "live"] /\ truth' = [out |-> 0, entries |-> 0]
    /\ KeepPlan /\ UNCHANGED console

UnitPasses ==
    /\ driver.at = "waiting" /\ ~wait.due
    /\ wait' = [wait EXCEPT !.due = TRUE, !.passed = 1, !.signal = Older(@, Grace + 1),
                            !.registering = IF wait.counting THEN Older(@, RegistrationTimeout) ELSE @]
    /\ seen' = [seen EXCEPT !.age = IF Queued THEN Older(@, QueueTimeout) ELSE @,
                            !.held = IF rec.stream \in Monitor!Preparing /\ ~rec.reached THEN Older(@, StartupTimeout) ELSE @]
    /\ truth' = [truth EXCEPT !.out = IF plan.home \/ Queued THEN @ ELSE Older(@, Limit)]
    /\ KeepPlan /\ UNCHANGED <<driver, console, retry, rec, monitor>>

\* The scope is cancelled; what runs under it is dropped.
Cancel ==
    /\ driver.at # "ended" /\ ~cancelled
    /\ cancelled' = TRUE
    /\ UNCHANGED <<plan, driver, console, retry, rec, seen, monitor, wait, truth>>

WaitNext ==
    \/ WaitForConsole \/ WakeOnly \/ ConsoleDropped \/ Post \/ PostAnswered \/ BackOff
    \/ MonitorTick \/ MonitorRevokes \/ PageCloses \/ LookAtSession \/ WaitDropped \/ Decide
    \/ UnitPasses \/ Cancel

WaitSpec == WaitInit /\ [][WaitNext]_waitVars

----------------------------------------------------------------------------
WaitTypeOK ==
    /\ driver.at \in {"console", "posting", "posted", "precheck", "backoff", "waiting", "deciding", "ended"}
    /\ console.age \in 0 .. ReadyTimeout /\ console.wake \in 0 .. WakeSpacing /\ console.failures \in 0 .. 3
    /\ retry.age \in 0 .. RetryTimeout /\ retry.recreates \in 0 .. 1
    /\ rec \in [player : {"pending", "queued", "started", "failed", "closed"}, stream : Streams,
                reached : BOOLEAN, error : {"none", "timeout", "remote"}]
    /\ seen.details \in Details \cup {"none"} /\ (rec.error = "remote" => seen.details # "none")
    /\ monitor.token \in {"live", "monitor", "page"} /\ wait.budget \in 0 .. Limit

\* Each create is posted by a startup nobody cancelled, within the time its retries have; a second
\* session is only asked for once, and only after the first had failed, never while it could still
\* get ready (decide_home_session_ready_recreate_retry, start_stream_with_retry).
CreatesJustified ==
    [][/\ driver.at = "posting" /\ driver'.at = "posted" => ~cancelled /\ retry.age <= RetryTimeout
       /\ retry'.recreates # retry.recreates => Phase = "failed" /\ ~cancelled]_waitVars

\* The budget of preparation is spent by time out of the queue: of its time in the queue a session
\* is charged one interval for each time it entered it, however it goes in and out.
QueueTimeSpared == ~plan.home => wait.budget <= truth.out + truth.entries

\* flow.test.rs:524 has Closed as transient to a startup whose session was preparing or recovering a
\* moment ago: such a wait does not end before the grace is over, unless its own time or its owner ends it.
ClosedIsTransient ==
    [][driver.at = "waiting" /\ driver'.at = "deciding" /\ ~cancelled /\ monitor.token # "page"
          /\ driver'.result # "timeout" /\ Phase = "closed" => wait.signal > Grace]_waitVars
=============================================================================
