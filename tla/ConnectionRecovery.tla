-------------------------- MODULE ConnectionRecovery --------------------------
(***************************************************************************)
(* The connection recovery coordinator of the page                         *)
(* (src/streaming/runtime/connection-recovery.ts) with the part of the     *)
(* runtime host that feeds it (runtime-host.ts): starting and closing the  *)
(* runtime, the transport and TURN proposals, and the media proposal of    *)
(* browser-runtime.ts.                                                     *)
(*                                                                         *)
(* The page has one thread, so a step is what runs between two awaits.     *)
(* A transaction is a chain of such steps (authorise, commit, wait) and    *)
(* beside it the action it started, which ends when it likes; timers,      *)
(* frames, resets and further proposals come between any two of them.      *)
(***************************************************************************)
EXTENDS Naturals

CONSTANTS
    MaxRuns,        \* bound: transactions admitted
    MaxGenerations  \* bound: explicit starts and closes of the runtime

ASSUME RecoveryAssumption == MaxRuns \in Nat /\ MaxGenerations \in Nat

Ids == 1 .. MaxRuns
NoFlight == 0

Kinds == {"transport", "media", "turn"}
Reasons == {"network-lost", "ice-failed", "media-stalled"}

Outcomes == {"none", "observed", "failed", "cancelled", "timedOut"}

NoGate == [fact |-> "none", reason |-> "none"]

VARIABLES
    generation,   \* the coordinator's epoch, and the host's launchGeneration
    sequence,     \* transactions admitted so far
    gate,         \* fact and reason of the last commit, while its window lasts
    flight,       \* the transaction in charge, or NoFlight
    actionCount,  \* actions spent in this episode
    stable,       \* a run of frames without a gap has begun (stableSince)
    kind, epoch, token,  \* what each transaction captured when proposed
    stage,        \* its chain of steps
    answer,       \* what its decide() answered
    action,       \* its action (the execute promise)
    outcome,      \* how it finished
    host,         \* the runtime: closed, launching, or up and bound to events
    runtimeToken, \* the host's runtimeToken
    turnUsed,     \* fallbackRetryConsumed
    reports,      \* history: calls of each onFailure
    newFrames     \* history: frames seen since the action completed, up to 2

ownVars == <<kind, epoch, token>>
hostVars == <<host, runtimeToken, turnUsed>>
coordVars == <<generation, sequence, gate, flight, actionCount, stable>>
vars == <<coordVars, ownVars, stage, answer, action, outcome, hostVars, reports, newFrames>>

\* Every variable keeps its type.
TypeOK ==
    /\ generation \in Nat /\ sequence \in 0 .. MaxRuns
    /\ gate \in [fact : Kinds, reason : Reasons] \cup {NoGate}
    /\ flight \in Ids \cup {NoFlight}
    /\ actionCount \in 0 .. 2
    /\ stable \in BOOLEAN
    /\ kind \in [Ids -> Kinds] /\ epoch \in [Ids -> Nat] /\ token \in [Ids -> Nat]
    /\ stage \in [Ids -> {"absent", "queued", "deciding", "decided", "acting",
                          "observing", "over"}]
    /\ answer \in [Ids -> Reasons \cup {"deny"}]
    /\ action \in [Ids -> {"none", "queued", "running", "returned", "threw"}]
    /\ outcome \in [Ids -> Outcomes]
    /\ host \in {"closed", "launching", "up"} /\ runtimeToken \in Nat /\ turnUsed \in BOOLEAN
    /\ reports \in [Ids -> Nat] /\ newFrames \in [Ids -> 0 .. 2]

Init ==
    /\ generation = 0 /\ sequence = 0 /\ gate = NoGate /\ flight = NoFlight
    /\ actionCount = 0 /\ stable = FALSE
    /\ kind = [i \in Ids |-> "transport"]
    /\ epoch = [i \in Ids |-> 0] /\ token = [i \in Ids |-> 0]
    /\ stage = [i \in Ids |-> "absent"]
    /\ answer = [i \in Ids |-> "deny"]
    /\ action = [i \in Ids |-> "none"]
    /\ outcome = [i \in Ids |-> "none"]
    /\ host = "closed" /\ runtimeToken = 0 /\ turnUsed = FALSE
    /\ reports = [i \in Ids |-> 0]
    /\ newFrames = [i \in Ids |-> 0]

-----------------------------------------------------------------------------
(* Who is current. *)

Open(i) == stage[i] # "absent" /\ outcome[i] = "none"

\* proposal.isCurrent: the TURN retry belongs to a launch, the others to the
\* runtime they were raised by.
ProposalCurrent(i) ==
    IF kind[i] = "turn" THEN epoch[i] = generation ELSE token[i] = runtimeToken

\* operation.isCurrent
IsCurrent(i) == epoch[i] = generation /\ outcome[i] = "none" /\ ProposalCurrent(i)

\* actionRunning: from the commit until the execute promise settles.
ActionRunning(i) == action[i] \in {"queued", "running"}

\* decideRecoveryArbiter without and with a reason
FactWindow(k) == gate.fact = k
ReasonWindow(r) == gate.reason = r

-----------------------------------------------------------------------------
(* The end of a transaction. *)

\* Mutant: reset forgets to cancel the flight.
ResetLeavesFlight ==
    /\ generation' = generation + 1
    /\ gate' = NoGate /\ actionCount' = 0 /\ stable' = FALSE
    /\ UNCHANGED <<sequence, reports, outcome, flight>>

\* reset(), as closeRuntime and startRuntime call it: the flight is cancelled
\* under the new generation, so it reports nothing, and an action that still
\* runs keeps the flight.
Reset ==
    /\ generation' = generation + 1
    /\ outcome' = [i \in Ids |-> IF i = flight /\ outcome[i] = "none"
                                 THEN "cancelled" ELSE outcome[i]]
    /\ flight' = IF flight # NoFlight /\ ActionRunning(flight) THEN flight ELSE NoFlight
    /\ gate' = NoGate /\ actionCount' = 0 /\ stable' = FALSE
    /\ UNCHANGED <<sequence, reports>>

\* onFailure is called for a failure or a timeout of a current proposal.
Reports(i, how) ==
    how \in {"failed", "timedOut"} /\ epoch[i] = generation /\ ProposalCurrent(i)

\* A reported failure closes the runtime (failCurrentRuntime), except that of
\* the media proposal, which emits an error event.
Closes(i, how) == Reports(i, how) /\ kind[i] # "media"

\* Mutant: finishing lets go of the flight although its action runs.
FinishDropsBarrier(i, how, running) ==
    IF outcome[i] # "none"
    THEN UNCHANGED <<generation, sequence, gate, flight, actionCount, stable, outcome,
                     reports, hostVars>>
    ELSE
        /\ outcome' = [outcome EXCEPT ![i] = how]
        /\ flight' = IF flight = i THEN NoFlight ELSE flight
        /\ reports' = [reports EXCEPT ![i] = @ + (IF Reports(i, how) THEN 1 ELSE 0)]
        /\ UNCHANGED <<generation, sequence, gate, actionCount, stable, hostVars>>

\* Mutant: a transaction that has finished can finish again.
FinishTwice(i, how, running) ==
    /\ outcome' = [outcome EXCEPT ![i] = how]
    /\ flight' = IF flight = i /\ ~running THEN NoFlight ELSE flight
    /\ reports' = [reports EXCEPT ![i] = @ + (IF Reports(i, how) THEN 1 ELSE 0)]
    /\ UNCHANGED <<generation, sequence, gate, actionCount, stable, hostVars>>

\* transaction.finish; running tells whether the action runs after this step.
Finish(i, how, running) ==
    IF outcome[i] # "none"
    THEN UNCHANGED <<generation, sequence, gate, flight, actionCount, stable, outcome,
                     reports, hostVars>>
    ELSE
        /\ outcome' = [outcome EXCEPT ![i] = how]
        /\ flight' = IF flight = i /\ ~running THEN NoFlight ELSE flight
        /\ reports' = [reports EXCEPT ![i] = @ + (IF Reports(i, how) THEN 1 ELSE 0)]
        /\ sequence' = sequence
        /\ IF Closes(i, how)
           THEN /\ generation' = generation + 1
                /\ gate' = NoGate /\ actionCount' = 0 /\ stable' = FALSE
                /\ host' = "closed" /\ runtimeToken' = runtimeToken + 1
                /\ turnUsed' = FALSE
           ELSE UNCHANGED <<generation, gate, actionCount, stable, hostVars>>

-----------------------------------------------------------------------------
(* The host. *)

StartRuntime ==
    /\ generation < MaxGenerations
    /\ Reset
    /\ host' = "launching" /\ runtimeToken' = runtimeToken + 1 /\ turnUsed' = FALSE
    /\ UNCHANGED <<ownVars, stage, answer, action, newFrames>>

\* (Closing a closed runtime moves counters only and is left out.)
CloseRuntime ==
    /\ generation < MaxGenerations /\ host # "closed"
    /\ Reset
    /\ host' = "closed" /\ runtimeToken' = runtimeToken + 1 /\ turnUsed' = FALSE
    /\ UNCHANGED <<ownVars, stage, answer, action, newFrames>>

\* The first launch attempt binds a runtime under a new token.
LaunchFirst ==
    /\ host = "launching" /\ ~turnUsed
    /\ host' = "up" /\ runtimeToken' = runtimeToken + 1
    /\ UNCHANGED <<coordVars, ownVars, stage, answer, action, outcome, turnUsed,
                   reports, newFrames>>

\* The TURN retry binds its runtime if its operation is still current.
LaunchTurn(i) ==
    /\ action[i] = "running" /\ kind[i] = "turn" /\ IsCurrent(i)
    /\ host = "launching"
    /\ host' = "up" /\ runtimeToken' = runtimeToken + 1
    /\ UNCHANGED <<coordVars, ownVars, stage, answer, action, outcome, turnUsed,
                   reports, newFrames>>

-----------------------------------------------------------------------------
(* A transaction, from its admission to its result. *)

\* Mutant: the budget is not looked at when a transaction is admitted.
RunOverBudget(k) ==
    /\ host = "up" /\ (k = "turn" => ~turnUsed)
    /\ flight = NoFlight /\ ~FactWindow(k)
    /\ sequence < MaxRuns
    /\ sequence' = sequence + 1
    /\ flight' = sequence + 1
    /\ stable' = FALSE
    /\ kind' = [kind EXCEPT ![sequence + 1] = k]
    /\ epoch' = [epoch EXCEPT ![sequence + 1] = generation]
    /\ token' = [token EXCEPT ![sequence + 1] = runtimeToken]
    /\ stage' = [stage EXCEPT ![sequence + 1] = "queued"]
    /\ UNCHANGED <<generation, gate, actionCount, answer, action, outcome, hostVars,
                   reports, newFrames>>

\* run() with no transaction in charge, no suppression and budget left.
\* Otherwise it changes nothing: it answers false, or shares the flight's result.
Run(k) ==
    /\ host = "up" /\ (k = "turn" => ~turnUsed)
    /\ flight = NoFlight /\ ~FactWindow(k) /\ actionCount < 2
    /\ sequence < MaxRuns
    /\ sequence' = sequence + 1
    /\ flight' = sequence + 1
    /\ stable' = FALSE
    /\ kind' = [kind EXCEPT ![sequence + 1] = k]
    /\ epoch' = [epoch EXCEPT ![sequence + 1] = generation]
    /\ token' = [token EXCEPT ![sequence + 1] = runtimeToken]
    /\ stage' = [stage EXCEPT ![sequence + 1] = "queued"]
    /\ UNCHANGED <<generation, gate, actionCount, answer, action, outcome, hostVars,
                   reports, newFrames>>

Decide(i) ==
    /\ stage[i] = "queued" /\ IsCurrent(i)
    /\ stage' = [stage EXCEPT ![i] = "deciding"]
    /\ UNCHANGED <<coordVars, ownVars, answer, action, outcome, hostVars, reports, newFrames>>

\* decide() answers in time; the TURN retry decides for itself.
DecideAnswers(i) ==
    /\ stage[i] = "deciding" /\ outcome[i] = "none"
    /\ \E a \in IF kind[i] = "turn" THEN {"ice-failed"} ELSE Reasons \cup {"deny"} :
          answer' = [answer EXCEPT ![i] = a]
    /\ stage' = [stage EXCEPT ![i] = "decided"]
    /\ UNCHANGED <<coordVars, ownVars, action, outcome, hostVars, reports, newFrames>>

\* decide() rejects, or recoveryAdmissionTimeout comes first.
DecideFails(i) ==
    /\ stage[i] = "deciding" /\ outcome[i] = "none" /\ kind[i] # "turn"
    /\ stage' = [stage EXCEPT ![i] = "over"]
    /\ \E how \in {"failed", "timedOut"} : Finish(i, how, FALSE)
    /\ UNCHANGED <<ownVars, answer, action, newFrames>>

\* Mutant: waiting for decide() does not notice the abort.
AbandonActionOnly(i) ==
    /\ stage[i] \in {"queued", "acting"} /\ outcome[i] # "none"
    /\ stage' = [stage EXCEPT ![i] = "over"]
    /\ UNCHANGED <<coordVars, ownVars, answer, action, outcome, hostVars, reports, newFrames>>

\* The chain stops at its next await once the transaction has finished.  (The
\* same checks would stop an open one that is not current; RevokedIsFinished
\* says there is none.)
Abandon(i) ==
    /\ stage[i] \in {"queued", "deciding", "acting"} /\ outcome[i] # "none"
    /\ stage' = [stage EXCEPT ![i] = "over"]
    /\ UNCHANGED <<coordVars, ownVars, answer, action, outcome, hostVars, reports, newFrames>>

Granted(i) == IsCurrent(i) /\ answer[i] # "deny"

\* A grant that is stale, denied or a repeat of the last reason.
Refuse(i) ==
    /\ stage[i] = "decided"
    /\ ~Granted(i) \/ FactWindow(kind[i]) \/ ReasonWindow(answer[i])
    /\ stage' = [stage EXCEPT ![i] = "over"]
    /\ Finish(i, "cancelled", FALSE)
    /\ UNCHANGED <<ownVars, answer, action, newFrames>>

Commit(i) ==
    /\ stage[i] = "decided" /\ Granted(i)
    /\ ~FactWindow(kind[i]) /\ ~ReasonWindow(answer[i])
    /\ gate' = [fact |-> kind[i], reason |-> answer[i]]
    /\ actionCount' = actionCount + 1
    /\ stage' = [stage EXCEPT ![i] = "acting"]
    /\ action' = [action EXCEPT ![i] = "queued"]
    /\ UNCHANGED <<generation, sequence, flight, stable, ownVars, answer, outcome,
                   hostVars, reports, newFrames>>

\* The microtask that calls execute.  The TURN retry stops the runtime first,
\* which makes what the old runtime proposes stale.
Execute(i) ==
    /\ action[i] = "queued" /\ IsCurrent(i)
    /\ action' = [action EXCEPT ![i] = "running"]
    /\ IF kind[i] = "turn"
       THEN host' = "launching" /\ runtimeToken' = runtimeToken + 1 /\ turnUsed' = TRUE
       ELSE UNCHANGED hostVars
    /\ UNCHANGED <<coordVars, ownVars, stage, answer, outcome, reports, newFrames>>

\* Restarting ICE failed: the action goes on to rebuild the runtime, out of
\* the same budget.
ReserveFollowup(i) ==
    /\ action[i] = "running" /\ kind[i] # "turn"
    /\ flight = i /\ IsCurrent(i) /\ actionCount < 2
    /\ actionCount' = actionCount + 1
    /\ stable' = FALSE
    /\ UNCHANGED <<generation, sequence, gate, flight, ownVars, stage, answer, action,
                   outcome, hostVars, reports, newFrames>>

\* Mutant: the finally does not let go of the flight.
SettleKeepsFlight(i, how) ==
    /\ action' = [action EXCEPT ![i] = how]
    /\ UNCHANGED <<coordVars, ownVars, stage, answer, outcome, hostVars, reports, newFrames>>

\* The execute promise settles and its finally lets go of a flight that was
\* kept for it.
Settle(i, how) ==
    /\ action' = [action EXCEPT ![i] = how]
    /\ flight' = IF outcome[i] # "none" /\ flight = i THEN NoFlight ELSE flight
    /\ UNCHANGED <<generation, sequence, gate, actionCount, stable, ownVars, stage,
                   answer, outcome, hostVars, reports, newFrames>>

ActionReturns(i) ==
    /\ action[i] = "running"
    /\ kind[i] = "turn" /\ IsCurrent(i) => host = "up"
    /\ Settle(i, "returned")

ActionThrows(i) ==
    \/ action[i] = "running" /\ Settle(i, "threw")
    \/ action[i] = "queued" /\ ~IsCurrent(i) /\ Settle(i, "threw")

\* Mutant: frames seen during the action count as frames after it.
ObserveKeepsFrames(i) ==
    /\ stage[i] = "acting" /\ action[i] = "returned" /\ IsCurrent(i)
    /\ stage' = [stage EXCEPT ![i] = "observing"]
    /\ UNCHANGED <<coordVars, ownVars, answer, action, outcome, hostVars, reports, newFrames>>

\* The chain resumes after its action: it waits for media.
Observe(i) ==
    /\ stage[i] = "acting" /\ action[i] = "returned" /\ IsCurrent(i)
    /\ stage' = [stage EXCEPT ![i] = "observing"]
    /\ stable' = FALSE
    /\ UNCHANGED <<generation, sequence, gate, flight, actionCount, ownVars, answer, action,
                   outcome, hostVars, reports, newFrames>>

ActionFailed(i) ==
    /\ stage[i] = "acting" /\ action[i] = "threw"
    /\ stage' = [stage EXCEPT ![i] = "over"]
    /\ \E how \in {"failed", "timedOut"} : Finish(i, how, FALSE)
    /\ UNCHANGED <<ownVars, answer, action, newFrames>>

\* connectionRecoveryTimeout aborts the scope.
Deadline(i) ==
    /\ Open(i)
    /\ Finish(i, "timedOut", ActionRunning(i))
    /\ UNCHANGED <<ownVars, stage, answer, action, newFrames>>

-----------------------------------------------------------------------------
(* Frames and time. *)

Counted == [i \in Ids |-> IF stage[i] = "observing" /\ outcome[i] = "none" /\ newFrames[i] < 2
                          THEN newFrames[i] + 1 ELSE newFrames[i]]

\* A frame that begins a new run of frames, or comes too soon in one.
FrameSeen ==
    /\ host = "up"
    /\ stable' = TRUE
    /\ newFrames' = Counted
    /\ UNCHANGED <<generation, sequence, gate, flight, actionCount, ownVars, stage, answer,
                   action, outcome, hostVars, reports>>

Observed(i) == i = flight /\ stage[i] = "observing" /\ IsCurrent(i)

\* Mutant: a new episode keeps the old gate.
FrameStableKeepsGate ==
    /\ host = "up" /\ stable
    /\ newFrames' = Counted
    /\ outcome' = [i \in Ids |-> IF Observed(i) THEN "observed" ELSE outcome[i]]
    /\ flight' = IF \E i \in Ids : Observed(i) THEN NoFlight ELSE flight
    /\ actionCount' = IF flight' = NoFlight THEN 0 ELSE actionCount
    /\ UNCHANGED <<generation, sequence, gate, stable, ownVars, stage, answer, action,
                   hostVars, reports>>

\* A frame that makes the run of frames 5 seconds long: it ends the recovery
\* that waits for it and, with none in charge, the episode.
FrameStable ==
    /\ host = "up" /\ stable
    /\ newFrames' = Counted
    /\ outcome' = [i \in Ids |-> IF Observed(i) THEN "observed" ELSE outcome[i]]
    /\ flight' = IF \E i \in Ids : Observed(i) THEN NoFlight ELSE flight
    /\ actionCount' = IF flight' = NoFlight THEN 0 ELSE actionCount
    /\ gate' = IF flight' = NoFlight /\ actionCount > 0 THEN NoGate ELSE gate
    /\ UNCHANGED <<generation, sequence, stable, ownVars, stage, answer, action, hostVars,
                   reports>>

\* The arbiter's window ends.
WindowEnds ==
    /\ gate # NoGate
    /\ gate' = NoGate
    /\ UNCHANGED <<generation, sequence, flight, actionCount, stable, ownVars, stage, answer,
                   action, outcome, hostVars, reports, newFrames>>

-----------------------------------------------------------------------------
ChainStep(i) ==
    Decide(i) \/ Abandon(i) \/ Refuse(i) \/ Commit(i) \/ Observe(i) \/ ActionFailed(i)
ActionStep(i) == Execute(i) \/ ActionReturns(i) \/ ActionThrows(i)
RecoveryStep(i) ==
    \/ ChainStep(i) \/ DecideAnswers(i) \/ DecideFails(i)
    \/ ActionStep(i) \/ ReserveFollowup(i) \/ LaunchTurn(i) \/ Deadline(i)

Next ==
    \/ StartRuntime \/ CloseRuntime \/ LaunchFirst
    \/ \E k \in Kinds : Run(k)
    \/ \E i \in Ids : RecoveryStep(i)
    \/ FrameSeen \/ FrameStable \/ WindowEnds

Spec == Init /\ [][Next]_vars

\* Microtasks run, timers fire and actions settle (each awaits bounded work);
\* nothing is asked of frames, answers or callers.
FairSpec ==
    /\ Spec
    /\ \A i \in Ids : WF_vars(ChainStep(i)) /\ WF_vars(ActionStep(i)) /\ WF_vars(Deadline(i))

-----------------------------------------------------------------------------
(* Properties. *)

\* At most one recovery action runs at a time, also after a reset or a
\* timeout has given up on the one before (the barrier of connection-recovery.ts:163).
OneAction ==
    \A i, j \in Ids : ActionRunning(i) /\ ActionRunning(j) => i = j

\* A transaction of an earlier launch has been cancelled: its signal is aborted
\* and none of its awaits can commit, execute or observe any more.
RevokedIsFinished ==
    \A i \in Ids : Open(i) => epoch[i] = generation /\ ProposalCurrent(i)

\* onFailure is called at most once, and never for a recovery that was
\* observed or cancelled.
ReportedOnce ==
    \A i \in Ids : reports[i] <= (IF outcome[i] \in {"failed", "timedOut"} THEN 1 ELSE 0)

\* A recovery counts as observed only by a run of frames that began after its
\* action completed: at least two of them.
ObservedByNewFrames ==
    \A i \in Ids : outcome[i] = "observed" => newFrames[i] = 2

\* A transport or TURN proposal that is told "handled" without a transaction
\* of its own or a shared one finds the connection recovered: the host drops
\* the failed state it stands for, and nothing else would report it.
HandledIsReal ==
    host = "up" /\ flight = NoFlight => ~FactWindow("transport") /\ ~FactWindow("turn")

\* No transaction stays in charge for ever: the coordinator recovers its
\* ability to run a recovery.
FlightEnds == \A i \in Ids : flight = i ~> flight # i

\* Every proposal that was admitted gets its answer.
RunSettles == \A i \in Ids : stage[i] = "queued" ~> stage[i] \in {"observing", "over"}
=============================================================================
