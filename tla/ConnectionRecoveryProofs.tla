----------------------- MODULE ConnectionRecoveryProofs -----------------------
(***************************************************************************)
(* Theorems about ConnectionRecovery.  One inductive invariant, Inv, is    *)
(* kept by every action: a lemma for what several actions share, a lemma   *)
(* per action, and under it a step per part of Inv.                        *)
(***************************************************************************)
EXTENDS ConnectionRecovery, TLAPS

\* What a transaction's chain, its action and its outcome say of one another.
StagesAgree ==
    \A i \in Ids :
        /\ stage[i] = "absent" <=> i > sequence
        /\ stage[i] = "absent" => outcome[i] = "none"
        /\ stage[i] \in {"absent", "queued", "deciding", "decided"} => action[i] = "none"
        /\ stage[i] = "acting" => action[i] # "none"
        /\ stage[i] = "observing" => action[i] = "returned"
        /\ stage[i] = "over" => outcome[i] # "none"

\* The flight is the one transaction that is open or whose action runs.
FlightInCharge == \A i \in Ids : flight = i <=> Open(i) \/ ActionRunning(i)

\* Without a bound runtime there is no open transaction, but for the TURN
\* retry that is binding one.
NoRuntimeNoFlight ==
    host = "closed" \/ (host = "launching" /\ ~turnUsed) => \A i \in Ids : ~Open(i)

\* The budget that admitted a transaction is still there when it commits.
BudgetHeld ==
    \A i \in Ids : Open(i) /\ stage[i] \in {"queued", "deciding", "decided"} => actionCount < 2

\* A gate stems from an action of this episode; that of a transport or TURN
\* action lasts no longer than its transaction.
GateOwned ==
    /\ gate # NoGate => actionCount > 0
    /\ gate.fact \in {"transport", "turn"} =>
          \E i \in Ids : /\ flight = i /\ Open(i) /\ kind[i] = gate.fact
                         /\ stage[i] \in {"acting", "observing"}

\* A run of frames while a transaction observes has frames of its own.
FramesCounted ==
    \A i \in Ids : stage[i] = "observing" /\ outcome[i] = "none" /\ stable => newFrames[i] > 0

Inv ==
    /\ TypeOK /\ StagesAgree /\ FlightInCharge /\ RevokedIsFinished /\ NoRuntimeNoFlight
    /\ BudgetHeld /\ GateOwned /\ FramesCounted /\ ReportedOnce /\ ObservedByNewFrames

-----------------------------------------------------------------------------
(* Lemmas on what several actions share. *)

\* Counting a frame keeps the counts in range and counts it for whoever observes.
LEMMA CountedFrames ==
    ASSUME TypeOK, NEW i \in Ids
    PROVE  /\ Counted[i] \in 0 .. 2
           /\ stage[i] = "observing" /\ outcome[i] = "none" => Counted[i] > 0
           /\ stage[i] = "observing" /\ outcome[i] = "none" /\ newFrames[i] > 0 =>
                 Counted[i] = 2
           /\ outcome[i] # "none" => Counted[i] = newFrames[i]
  BY DEF TypeOK, Counted

\* An open transaction that fails or times out reports, and closes the runtime
\* unless the media proposal reports.
LEMMA FinishOpen ==
    ASSUME Inv, NEW i \in Ids, Open(i), NEW how \in {"failed", "timedOut"},
           NEW running \in BOOLEAN, Finish(i, how, running)
    PROVE  /\ outcome' = [outcome EXCEPT ![i] = how]
           /\ flight = i /\ flight' = IF running THEN flight ELSE NoFlight
           /\ reports' = [reports EXCEPT ![i] = @ + 1]
           /\ sequence' = sequence
           /\ kind[i] # "media" =>
                 /\ generation' = generation + 1
                 /\ gate' = NoGate /\ actionCount' = 0 /\ stable' = FALSE
                 /\ host' = "closed" /\ runtimeToken' = runtimeToken + 1 /\ turnUsed' = FALSE
           /\ kind[i] = "media" =>
                 UNCHANGED <<generation, gate, actionCount, stable, host, runtimeToken, turnUsed>>
<1>1. epoch[i] = generation /\ ProposalCurrent(i) /\ flight = i /\ outcome[i] = "none"
  BY DEF Inv, RevokedIsFinished, FlightInCharge, Open
<1>2. Reports(i, how) /\ (Closes(i, how) <=> kind[i] # "media")
  BY <1>1 DEF Reports, Closes
<1> QED BY <1>1, <1>2 DEF Finish, hostVars

\* An open transaction fails or times out, whether its chain ends with it or not.
LEMMA FailKeeps ==
    ASSUME Inv, NEW i \in Ids, Open(i), NEW how \in {"failed", "timedOut"},
           NEW s, NEW running \in BOOLEAN, running <=> ActionRunning(i),
           s = stage[i] \/ (s = "over" /\ ~running /\ stage[i] # "absent"),
           Finish(i, how, running), stage' = [stage EXCEPT ![i] = s],
           UNCHANGED <<ownVars, answer, action, newFrames>>
    PROVE  Inv'
<1>0. /\ outcome' = [outcome EXCEPT ![i] = how]
      /\ flight = i /\ flight' = IF running THEN flight ELSE NoFlight
      /\ reports' = [reports EXCEPT ![i] = @ + 1]
      /\ sequence' = sequence
  BY FinishOpen
<1>a. CASE kind[i] # "media"
  <2>0. /\ generation' = generation + 1
        /\ gate' = NoGate /\ actionCount' = 0 /\ stable' = FALSE
        /\ host' = "closed" /\ runtimeToken' = runtimeToken + 1 /\ turnUsed' = FALSE
    BY <1>a, FinishOpen
  <2>1. TypeOK'
    <3>1. generation' \in Nat /\ sequence' \in 0 .. MaxRuns /\ runtimeToken' \in Nat
      BY <1>0, <2>0 DEF Inv, TypeOK
    <3>2. gate' \in [fact : Kinds, reason : Reasons] \cup {NoGate}
      BY <1>0, <2>0 DEF Inv, TypeOK
    <3>3. flight' \in Ids \cup {NoFlight}
      BY <1>0, <2>0 DEF Inv, TypeOK
    <3>4. actionCount' \in 0 .. 2
      BY <1>0, <2>0 DEF Inv, TypeOK
    <3>5. stable' \in BOOLEAN
      BY <1>0, <2>0 DEF Inv, TypeOK
    <3>6. turnUsed' \in BOOLEAN
      BY <1>0, <2>0 DEF Inv, TypeOK
    <3>7. outcome' \in [Ids -> Outcomes]
      BY <1>0, <2>0 DEF Inv, TypeOK, Outcomes
    <3>8. host' \in {"closed", "launching", "up"}
      BY <1>0, <2>0 DEF Inv, TypeOK
    <3>9. reports' \in [Ids -> Nat]
      BY <1>0, <2>0 DEF Inv, TypeOK
    <3>10. stage' \in [Ids -> {"absent", "queued", "deciding", "decided", "acting",
                               "observing", "over"}]
      BY <1>0, <2>0 DEF Inv, TypeOK
    <3> QED BY <3>1, <3>2, <3>3, <3>4, <3>5, <3>6, <3>7, <3>8, <3>9, <3>10
          DEF Inv, TypeOK, ownVars
  <2> USE RecoveryAssumption DEF Inv, TypeOK, Open, ActionRunning, Ids, NoFlight, coordVars,
        ownVars, hostVars
  <2>2. StagesAgree'
    BY SMTT(20), <1>0 DEF FlightInCharge, StagesAgree
  <2>3. FlightInCharge'
    BY <1>0 DEF StagesAgree, FlightInCharge
  <2>4. RevokedIsFinished'
    BY <1>0, <2>0 DEF StagesAgree, FlightInCharge, NoRuntimeNoFlight, RevokedIsFinished,
          ProposalCurrent
  <2>5. NoRuntimeNoFlight'
    BY <1>0, <2>0 DEF StagesAgree, FlightInCharge, NoRuntimeNoFlight
  <2>6. BudgetHeld'
    BY <1>0, <2>0 DEF StagesAgree, FlightInCharge, BudgetHeld
  <2>7. GateOwned'
    BY <1>0, <2>0, <1>a DEF StagesAgree, FlightInCharge, RevokedIsFinished, GateOwned,
          ProposalCurrent, NoGate, Kinds
  <2>8. FramesCounted'
    BY <1>0, <2>0 DEF StagesAgree, FlightInCharge, FramesCounted
  <2>9. ReportedOnce'
    BY SMTT(20), <1>0 DEF ReportedOnce
  <2>10. ObservedByNewFrames'
    BY <1>0 DEF FramesCounted, ObservedByNewFrames
  <2> QED BY <2>1, <2>2, <2>3, <2>4, <2>5, <2>6, <2>7, <2>8, <2>9, <2>10 DEF Inv
<1>b. CASE kind[i] = "media"
  <2>0. UNCHANGED <<generation, gate, actionCount, stable, host, runtimeToken, turnUsed>>
    BY <1>b, FinishOpen
  <2>1. TypeOK'
    <3>1. generation' \in Nat /\ sequence' \in 0 .. MaxRuns /\ runtimeToken' \in Nat
      BY <1>0, <2>0 DEF Inv, TypeOK
    <3>2. gate' \in [fact : Kinds, reason : Reasons] \cup {NoGate}
      BY <1>0, <2>0 DEF Inv, TypeOK
    <3>3. flight' \in Ids \cup {NoFlight}
      BY <1>0, <2>0 DEF Inv, TypeOK
    <3>4. actionCount' \in 0 .. 2
      BY <1>0, <2>0 DEF Inv, TypeOK
    <3>5. stable' \in BOOLEAN
      BY <1>0, <2>0 DEF Inv, TypeOK
    <3>6. turnUsed' \in BOOLEAN
      BY <1>0, <2>0 DEF Inv, TypeOK
    <3>7. outcome' \in [Ids -> Outcomes]
      BY <1>0, <2>0 DEF Inv, TypeOK, Outcomes
    <3>8. host' \in {"closed", "launching", "up"}
      BY <1>0, <2>0 DEF Inv, TypeOK
    <3>9. reports' \in [Ids -> Nat]
      BY <1>0, <2>0 DEF Inv, TypeOK
    <3>10. stage' \in [Ids -> {"absent", "queued", "deciding", "decided", "acting",
                               "observing", "over"}]
      BY <1>0, <2>0 DEF Inv, TypeOK
    <3> QED BY <3>1, <3>2, <3>3, <3>4, <3>5, <3>6, <3>7, <3>8, <3>9, <3>10
          DEF Inv, TypeOK, ownVars
  <2> USE RecoveryAssumption DEF Inv, TypeOK, Open, ActionRunning, Ids, NoFlight, coordVars,
        ownVars, hostVars
  <2>2. StagesAgree'
    BY <1>0 DEF FlightInCharge, StagesAgree
  <2>3. FlightInCharge'
    BY <1>0 DEF StagesAgree, FlightInCharge
  <2>4. RevokedIsFinished'
    BY SMTT(20), <1>0, <2>0 DEF StagesAgree, FlightInCharge, NoRuntimeNoFlight, RevokedIsFinished,
          ProposalCurrent
  <2>5. NoRuntimeNoFlight'
    BY <1>0, <2>0 DEF StagesAgree, FlightInCharge, NoRuntimeNoFlight
  <2>6. BudgetHeld'
    BY <1>0, <2>0 DEF StagesAgree, FlightInCharge, BudgetHeld
  <2>7. GateOwned'
    BY <1>0, <2>0, <1>b DEF StagesAgree, FlightInCharge, RevokedIsFinished, GateOwned,
          ProposalCurrent, NoGate, Kinds
  <2>8. FramesCounted'
    BY <1>0, <2>0 DEF StagesAgree, FlightInCharge, FramesCounted
  <2>9. ReportedOnce'
    BY SMTT(20), <1>0 DEF ReportedOnce
  <2>10. ObservedByNewFrames'
    BY <1>0 DEF FramesCounted, ObservedByNewFrames
  <2> QED BY <2>1, <2>2, <2>3, <2>4, <2>5, <2>6, <2>7, <2>8, <2>9, <2>10 DEF Inv
<1> QED BY <1>a, <1>b

\* The chain of a finished transaction stops.
LEMMA StopKeeps ==
    ASSUME Inv, NEW i \in Ids, stage[i] # "absent", outcome[i] # "none",
           stage' = [stage EXCEPT ![i] = "over"],
           UNCHANGED <<coordVars, ownVars, answer, action, outcome, hostVars, reports, newFrames>>
    PROVE  Inv'
<1> USE RecoveryAssumption DEF Inv, TypeOK, Open, ActionRunning, Ids, NoFlight, coordVars,
        ownVars, hostVars
<1>1. TypeOK'
  BY DEF NoGate, Kinds, Reasons, Outcomes
<1>2. StagesAgree'
  BY DEF FlightInCharge, StagesAgree
<1>3. FlightInCharge'
  BY DEF StagesAgree, FlightInCharge
<1>4. RevokedIsFinished'
  BY SMTT(20) DEF StagesAgree, FlightInCharge, NoRuntimeNoFlight, RevokedIsFinished,
        ProposalCurrent
<1>5. NoRuntimeNoFlight'
  BY DEF StagesAgree, FlightInCharge, NoRuntimeNoFlight
<1>6. BudgetHeld'
  BY DEF StagesAgree, FlightInCharge, BudgetHeld
<1>7. GateOwned'
  BY DEF StagesAgree, FlightInCharge, RevokedIsFinished, GateOwned, ProposalCurrent,
        NoGate, Kinds
<1>8. FramesCounted'
  BY DEF StagesAgree, FlightInCharge, FramesCounted
<1>9. ReportedOnce'
  BY DEF ReportedOnce
<1>10. ObservedByNewFrames'
  BY DEF FramesCounted, ObservedByNewFrames
<1> QED BY <1>1, <1>2, <1>3, <1>4, <1>5, <1>6, <1>7, <1>8, <1>9, <1>10 DEF Inv

\* A grant is refused: the open transaction is cancelled.
LEMMA CancelKeeps ==
    ASSUME Inv, NEW i \in Ids, Open(i), stage[i] = "decided",
           stage' = [stage EXCEPT ![i] = "over"], Finish(i, "cancelled", FALSE),
           UNCHANGED <<ownVars, answer, action, newFrames>>
    PROVE  Inv'
<1>0. /\ outcome' = [outcome EXCEPT ![i] = "cancelled"]
      /\ flight = i /\ flight' = NoFlight
      /\ reports' = reports
      /\ UNCHANGED <<generation, sequence, gate, actionCount, stable, hostVars>>
  <2>1. outcome[i] = "none" /\ flight = i
    BY DEF Inv, FlightInCharge, Open
  <2>2. ~Reports(i, "cancelled") /\ ~Closes(i, "cancelled")
    BY DEF Reports, Closes
  <2>3. [reports EXCEPT ![i] = @ + 0] = reports
    BY DEF Inv, TypeOK
  <2> QED BY <2>1, <2>2, <2>3 DEF Finish
<1> USE RecoveryAssumption DEF Inv, TypeOK, Open, ActionRunning, Ids, NoFlight, coordVars,
        ownVars, hostVars
<1>1. TypeOK'
  <2>1. stable' \in BOOLEAN
    BY <1>0
  <2>2. turnUsed' \in BOOLEAN
    BY <1>0
  <2>3. actionCount' \in 0 .. 2
    BY <1>0
  <2>4. reports' \in [Ids -> Nat]
    BY <1>0
  <2>5. newFrames' \in [Ids -> 0 .. 2]
    BY <1>0
  <2> QED
    BY <1>0, <2>1, <2>2, <2>3, <2>4, <2>5 DEF NoGate, Kinds, Reasons, Outcomes
<1>2. StagesAgree'
  BY <1>0 DEF FlightInCharge, StagesAgree
<1>3. FlightInCharge'
  BY <1>0 DEF StagesAgree, FlightInCharge
<1>4. RevokedIsFinished'
  BY <1>0 DEF StagesAgree, FlightInCharge, NoRuntimeNoFlight, RevokedIsFinished,
        ProposalCurrent
<1>5. NoRuntimeNoFlight'
  BY <1>0 DEF StagesAgree, FlightInCharge, NoRuntimeNoFlight
<1>6. BudgetHeld'
  BY <1>0 DEF StagesAgree, FlightInCharge, BudgetHeld
<1>7. GateOwned'
  BY <1>0 DEF StagesAgree, FlightInCharge, RevokedIsFinished, GateOwned, ProposalCurrent,
        NoGate, Kinds
<1>8. FramesCounted'
  BY <1>0 DEF StagesAgree, FlightInCharge, FramesCounted
<1>9. ReportedOnce'
  BY <1>0 DEF ReportedOnce
<1>10. ObservedByNewFrames'
  BY <1>0 DEF FramesCounted, ObservedByNewFrames
<1> QED BY <1>1, <1>2, <1>3, <1>4, <1>5, <1>6, <1>7, <1>8, <1>9, <1>10 DEF Inv

\* An action settles.
LEMMA SettleKeeps ==
    ASSUME Inv, NEW i \in Ids, ActionRunning(i), NEW how \in {"returned", "threw"},
           Settle(i, how)
    PROVE  Inv'
<1> USE RecoveryAssumption DEF Inv, TypeOK, Open, ActionRunning, Settle, Ids, NoFlight,
        coordVars, ownVars, hostVars
<1>1. TypeOK'
  BY DEF NoGate, Kinds, Reasons, Outcomes
<1>2. StagesAgree'
  BY DEF FlightInCharge, StagesAgree
<1>3. FlightInCharge'
  BY DEF StagesAgree, FlightInCharge
<1>4. RevokedIsFinished'
  BY DEF StagesAgree, FlightInCharge, NoRuntimeNoFlight, RevokedIsFinished,
        ProposalCurrent
<1>5. NoRuntimeNoFlight'
  BY DEF StagesAgree, FlightInCharge, NoRuntimeNoFlight
<1>6. BudgetHeld'
  BY DEF StagesAgree, FlightInCharge, BudgetHeld
<1>7. GateOwned'
  BY SMTT(20) DEF StagesAgree, FlightInCharge, RevokedIsFinished, GateOwned, ProposalCurrent,
        NoGate, Kinds
<1>8. FramesCounted'
  BY DEF StagesAgree, FlightInCharge, FramesCounted
<1>9. ReportedOnce'
  BY DEF ReportedOnce
<1>10. ObservedByNewFrames'
  BY DEF FramesCounted, ObservedByNewFrames
<1> QED BY <1>1, <1>2, <1>3, <1>4, <1>5, <1>6, <1>7, <1>8, <1>9, <1>10 DEF Inv

-----------------------------------------------------------------------------
(* Every action keeps the invariant. *)

\* Starting the runtime resets the coordinator.
LEMMA StartRuntimeKeeps ==
    ASSUME Inv, StartRuntime
    PROVE  Inv'
<1> USE RecoveryAssumption DEF Inv, TypeOK, Open, ActionRunning, StartRuntime, Reset, Ids,
        NoFlight, coordVars, ownVars, hostVars
<1>1. TypeOK'
  <2>1. stable' \in BOOLEAN
    OBVIOUS
  <2>2. turnUsed' \in BOOLEAN
    OBVIOUS
  <2>3. actionCount' \in 0 .. 2
    OBVIOUS
  <2>4. reports' \in [Ids -> Nat]
    OBVIOUS
  <2>5. newFrames' \in [Ids -> 0 .. 2]
    OBVIOUS
  <2> QED
    BY SMTT(20), <2>1, <2>2, <2>3, <2>4, <2>5 DEF NoGate, Kinds, Reasons, Outcomes
<1>2. StagesAgree'
  BY DEF FlightInCharge, StagesAgree
<1>3. FlightInCharge'
  BY DEF StagesAgree, FlightInCharge
<1>4. RevokedIsFinished'
  BY DEF StagesAgree, FlightInCharge, NoRuntimeNoFlight, RevokedIsFinished,
        ProposalCurrent
<1>5. NoRuntimeNoFlight'
  BY DEF StagesAgree, FlightInCharge, NoRuntimeNoFlight
<1>6. BudgetHeld'
  BY DEF StagesAgree, FlightInCharge, BudgetHeld
<1>7. GateOwned'
  BY DEF StagesAgree, FlightInCharge, RevokedIsFinished, GateOwned, ProposalCurrent,
        NoGate, Kinds
<1>8. FramesCounted'
  BY DEF StagesAgree, FlightInCharge, FramesCounted
<1>9. ReportedOnce'
  BY DEF ReportedOnce
<1>10. ObservedByNewFrames'
  BY DEF FramesCounted, ObservedByNewFrames
<1> QED BY <1>1, <1>2, <1>3, <1>4, <1>5, <1>6, <1>7, <1>8, <1>9, <1>10 DEF Inv

\* So does closing it.
LEMMA CloseRuntimeKeeps ==
    ASSUME Inv, CloseRuntime
    PROVE  Inv'
<1> USE RecoveryAssumption DEF Inv, TypeOK, Open, ActionRunning, CloseRuntime, Reset, Ids,
        NoFlight, coordVars, ownVars, hostVars
<1>1. TypeOK'
  <2>1. stable' \in BOOLEAN
    OBVIOUS
  <2>2. turnUsed' \in BOOLEAN
    OBVIOUS
  <2>3. actionCount' \in 0 .. 2
    OBVIOUS
  <2>4. reports' \in [Ids -> Nat]
    OBVIOUS
  <2>5. newFrames' \in [Ids -> 0 .. 2]
    OBVIOUS
  <2> QED
    BY SMTT(20), <2>1, <2>2, <2>3, <2>4, <2>5 DEF NoGate, Kinds, Reasons, Outcomes
<1>2. StagesAgree'
  BY DEF FlightInCharge, StagesAgree
<1>3. FlightInCharge'
  BY DEF StagesAgree, FlightInCharge
<1>4. RevokedIsFinished'
  BY DEF StagesAgree, FlightInCharge, NoRuntimeNoFlight, RevokedIsFinished,
        ProposalCurrent
<1>5. NoRuntimeNoFlight'
  BY DEF StagesAgree, FlightInCharge, NoRuntimeNoFlight
<1>6. BudgetHeld'
  BY DEF StagesAgree, FlightInCharge, BudgetHeld
<1>7. GateOwned'
  BY DEF StagesAgree, FlightInCharge, RevokedIsFinished, GateOwned, ProposalCurrent,
        NoGate, Kinds
<1>8. FramesCounted'
  BY DEF StagesAgree, FlightInCharge, FramesCounted
<1>9. ReportedOnce'
  BY DEF ReportedOnce
<1>10. ObservedByNewFrames'
  BY DEF FramesCounted, ObservedByNewFrames
<1> QED BY <1>1, <1>2, <1>3, <1>4, <1>5, <1>6, <1>7, <1>8, <1>9, <1>10 DEF Inv

\* The first launch finds no open transaction.
LEMMA LaunchFirstKeeps ==
    ASSUME Inv, LaunchFirst
    PROVE  Inv'
<1> USE RecoveryAssumption DEF Inv, TypeOK, Open, ActionRunning, LaunchFirst, Ids,
        NoFlight, coordVars, ownVars, hostVars
<1>1. TypeOK'
  BY SMTT(20) DEF NoGate, Kinds, Reasons, Outcomes
<1>2. StagesAgree'
  BY DEF FlightInCharge, StagesAgree
<1>3. FlightInCharge'
  BY DEF StagesAgree, FlightInCharge
<1>4. RevokedIsFinished'
  BY DEF StagesAgree, FlightInCharge, NoRuntimeNoFlight, RevokedIsFinished,
        ProposalCurrent
<1>5. NoRuntimeNoFlight'
  BY DEF StagesAgree, FlightInCharge, NoRuntimeNoFlight
<1>6. BudgetHeld'
  BY DEF StagesAgree, FlightInCharge, BudgetHeld
<1>7. GateOwned'
  BY DEF StagesAgree, FlightInCharge, RevokedIsFinished, GateOwned, ProposalCurrent,
        NoGate, Kinds
<1>8. FramesCounted'
  BY DEF StagesAgree, FlightInCharge, FramesCounted
<1>9. ReportedOnce'
  BY DEF ReportedOnce
<1>10. ObservedByNewFrames'
  BY DEF FramesCounted, ObservedByNewFrames
<1> QED BY <1>1, <1>2, <1>3, <1>4, <1>5, <1>6, <1>7, <1>8, <1>9, <1>10 DEF Inv

\* Binding the TURN runtime makes other proposals stale; none is open.
LEMMA LaunchTurnKeeps ==
    ASSUME Inv, NEW i \in Ids, LaunchTurn(i)
    PROVE  Inv'
<1> USE RecoveryAssumption DEF Inv, TypeOK, Open, ActionRunning, LaunchTurn, IsCurrent,
        ProposalCurrent, Ids, NoFlight, coordVars, ownVars, hostVars
<1>1. TypeOK'
  <2>1. stable' \in BOOLEAN
    OBVIOUS
  <2>2. turnUsed' \in BOOLEAN
    OBVIOUS
  <2>3. actionCount' \in 0 .. 2
    OBVIOUS
  <2>4. reports' \in [Ids -> Nat]
    OBVIOUS
  <2>5. newFrames' \in [Ids -> 0 .. 2]
    OBVIOUS
  <2>6. runtimeToken' \in Nat
    OBVIOUS
  <2>7. host' \in {"closed", "launching", "up"}
    OBVIOUS
  <2>8. action' \in [Ids -> {"none", "queued", "running", "returned", "threw"}]
    OBVIOUS
  <2> QED
    BY <2>1, <2>2, <2>3, <2>4, <2>5, <2>6, <2>7, <2>8 DEF NoGate, Kinds, Reasons, Outcomes
<1>2. StagesAgree'
  BY DEF FlightInCharge, StagesAgree
<1>3. FlightInCharge'
  BY DEF StagesAgree, FlightInCharge
<1>4. RevokedIsFinished'
  BY DEF StagesAgree, FlightInCharge, NoRuntimeNoFlight, RevokedIsFinished,
        ProposalCurrent
<1>5. NoRuntimeNoFlight'
  BY DEF StagesAgree, FlightInCharge, NoRuntimeNoFlight
<1>6. BudgetHeld'
  BY DEF StagesAgree, FlightInCharge, BudgetHeld
<1>7. GateOwned'
  BY DEF StagesAgree, FlightInCharge, RevokedIsFinished, GateOwned, ProposalCurrent,
        NoGate, Kinds
<1>8. FramesCounted'
  BY DEF StagesAgree, FlightInCharge, FramesCounted
<1>9. ReportedOnce'
  BY DEF ReportedOnce
<1>10. ObservedByNewFrames'
  BY DEF FramesCounted, ObservedByNewFrames
<1> QED BY <1>1, <1>2, <1>3, <1>4, <1>5, <1>6, <1>7, <1>8, <1>9, <1>10 DEF Inv

\* Admission takes the free flight.
LEMMA RunKeeps ==
    ASSUME Inv, NEW k \in Kinds, Run(k)
    PROVE  Inv'
<1> USE RecoveryAssumption DEF Inv, TypeOK, Open, ActionRunning, Run, Ids, NoFlight,
        coordVars, ownVars, hostVars
<1>1. TypeOK'
  <2>1. stable' \in BOOLEAN
    BY DEF FlightInCharge
  <2>2. turnUsed' \in BOOLEAN
    BY DEF FlightInCharge
  <2>3. actionCount' \in 0 .. 2
    BY DEF FlightInCharge
  <2>4. reports' \in [Ids -> Nat]
    BY DEF FlightInCharge
  <2>5. newFrames' \in [Ids -> 0 .. 2]
    BY DEF FlightInCharge
  <2> QED
    BY SMTT(20), <2>1, <2>2, <2>3, <2>4, <2>5 DEF FlightInCharge, NoGate, Kinds, Reasons, Outcomes
<1>2. StagesAgree'
  BY DEF FlightInCharge, StagesAgree
<1>3. FlightInCharge'
  BY SMTT(20) DEF StagesAgree, FlightInCharge
<1>4. RevokedIsFinished'
  BY DEF StagesAgree, FlightInCharge, NoRuntimeNoFlight, RevokedIsFinished,
        ProposalCurrent
<1>5. NoRuntimeNoFlight'
  BY DEF StagesAgree, FlightInCharge, NoRuntimeNoFlight
<1>6. BudgetHeld'
  BY DEF StagesAgree, FlightInCharge, BudgetHeld
<1>7. GateOwned'
  BY DEF StagesAgree, FlightInCharge, RevokedIsFinished, GateOwned, ProposalCurrent,
        NoGate, Kinds
<1>8. FramesCounted'
  BY DEF StagesAgree, FlightInCharge, FramesCounted
<1>9. ReportedOnce'
  BY DEF ReportedOnce
<1>10. ObservedByNewFrames'
  BY DEF FramesCounted, ObservedByNewFrames
<1> QED BY <1>1, <1>2, <1>3, <1>4, <1>5, <1>6, <1>7, <1>8, <1>9, <1>10 DEF Inv

\* Authorisation begins.
LEMMA DecideKeeps ==
    ASSUME Inv, NEW i \in Ids, Decide(i)
    PROVE  Inv'
<1> USE RecoveryAssumption DEF Inv, TypeOK, Open, ActionRunning, Decide, IsCurrent, Ids,
        NoFlight, coordVars, ownVars, hostVars
<1>1. TypeOK'
  BY DEF NoGate, Kinds, Reasons, Outcomes
<1>2. StagesAgree'
  BY DEF FlightInCharge, StagesAgree
<1>3. FlightInCharge'
  BY DEF StagesAgree, FlightInCharge
<1>4. RevokedIsFinished'
  BY SMTT(20) DEF StagesAgree, FlightInCharge, NoRuntimeNoFlight, RevokedIsFinished,
        ProposalCurrent
<1>5. NoRuntimeNoFlight'
  BY DEF StagesAgree, FlightInCharge, NoRuntimeNoFlight
<1>6. BudgetHeld'
  BY DEF StagesAgree, FlightInCharge, BudgetHeld
<1>7. GateOwned'
  BY DEF StagesAgree, FlightInCharge, RevokedIsFinished, GateOwned, ProposalCurrent,
        NoGate, Kinds
<1>8. FramesCounted'
  BY DEF StagesAgree, FlightInCharge, FramesCounted
<1>9. ReportedOnce'
  BY DEF ReportedOnce
<1>10. ObservedByNewFrames'
  BY DEF FramesCounted, ObservedByNewFrames
<1> QED BY <1>1, <1>2, <1>3, <1>4, <1>5, <1>6, <1>7, <1>8, <1>9, <1>10 DEF Inv

\* Authorisation is answered.
LEMMA DecideAnswersKeeps ==
    ASSUME Inv, NEW i \in Ids, DecideAnswers(i)
    PROVE  Inv'
<1> USE RecoveryAssumption DEF Inv, TypeOK, Open, ActionRunning, DecideAnswers, Ids,
        NoFlight, coordVars, ownVars, hostVars
<1>1. TypeOK'
  BY SMTT(20) DEF NoGate, Kinds, Reasons, Outcomes
<1>2. StagesAgree'
  BY DEF FlightInCharge, StagesAgree
<1>3. FlightInCharge'
  BY DEF StagesAgree, FlightInCharge
<1>4. RevokedIsFinished'
  BY SMTT(20) DEF StagesAgree, FlightInCharge, NoRuntimeNoFlight, RevokedIsFinished,
        ProposalCurrent
<1>5. NoRuntimeNoFlight'
  BY DEF StagesAgree, FlightInCharge, NoRuntimeNoFlight
<1>6. BudgetHeld'
  BY DEF StagesAgree, FlightInCharge, BudgetHeld
<1>7. GateOwned'
  BY DEF StagesAgree, FlightInCharge, RevokedIsFinished, GateOwned, ProposalCurrent,
        NoGate, Kinds
<1>8. FramesCounted'
  BY DEF StagesAgree, FlightInCharge, FramesCounted
<1>9. ReportedOnce'
  BY DEF ReportedOnce
<1>10. ObservedByNewFrames'
  BY DEF FramesCounted, ObservedByNewFrames
<1> QED BY <1>1, <1>2, <1>3, <1>4, <1>5, <1>6, <1>7, <1>8, <1>9, <1>10 DEF Inv

\* A grant is committed.
LEMMA CommitKeeps ==
    ASSUME Inv, NEW i \in Ids, Commit(i)
    PROVE  Inv'
<1> USE RecoveryAssumption DEF Inv, TypeOK, Open, ActionRunning, Commit, Granted,
        IsCurrent, FactWindow, ReasonWindow, Ids, NoFlight, coordVars, ownVars, hostVars
<1>1. TypeOK'
  BY DEF BudgetHeld, NoGate, Kinds, Reasons, Outcomes
<1>2. StagesAgree'
  BY DEF FlightInCharge, StagesAgree
<1>3. FlightInCharge'
  BY DEF StagesAgree, FlightInCharge
<1>4. RevokedIsFinished'
  BY DEF StagesAgree, FlightInCharge, NoRuntimeNoFlight, RevokedIsFinished,
        ProposalCurrent
<1>5. NoRuntimeNoFlight'
  BY DEF StagesAgree, FlightInCharge, NoRuntimeNoFlight
<1>6. BudgetHeld'
  BY DEF StagesAgree, FlightInCharge, BudgetHeld
<1>7. GateOwned'
  BY SMTT(20) DEF StagesAgree, FlightInCharge, RevokedIsFinished, GateOwned, ProposalCurrent,
        NoGate, Kinds
<1>8. FramesCounted'
  BY DEF StagesAgree, FlightInCharge, FramesCounted
<1>9. ReportedOnce'
  BY DEF ReportedOnce
<1>10. ObservedByNewFrames'
  BY DEF FramesCounted, ObservedByNewFrames
<1> QED BY <1>1, <1>2, <1>3, <1>4, <1>5, <1>6, <1>7, <1>8, <1>9, <1>10 DEF Inv

\* The action starts.
LEMMA ExecuteKeeps ==
    ASSUME Inv, NEW i \in Ids, Execute(i)
    PROVE  Inv'
<1> USE RecoveryAssumption DEF Inv, TypeOK, Open, ActionRunning, Execute, IsCurrent,
        ProposalCurrent, Ids, NoFlight, coordVars, ownVars, hostVars
<1>1. TypeOK'
  <2>1. stable' \in BOOLEAN
    OBVIOUS
  <2>2. turnUsed' \in BOOLEAN
    OBVIOUS
  <2>3. actionCount' \in 0 .. 2
    OBVIOUS
  <2>4. reports' \in [Ids -> Nat]
    OBVIOUS
  <2>5. newFrames' \in [Ids -> 0 .. 2]
    OBVIOUS
  <2>6. runtimeToken' \in Nat
    OBVIOUS
  <2>7. host' \in {"closed", "launching", "up"}
    OBVIOUS
  <2>8. action' \in [Ids -> {"none", "queued", "running", "returned", "threw"}]
    OBVIOUS
  <2> QED
    BY <2>1, <2>2, <2>3, <2>4, <2>5, <2>6, <2>7, <2>8 DEF NoGate, Kinds, Reasons, Outcomes
<1>2. StagesAgree'
  BY DEF FlightInCharge, StagesAgree
<1>3. FlightInCharge'
  BY DEF StagesAgree, FlightInCharge
<1>4. RevokedIsFinished'
  BY DEF StagesAgree, FlightInCharge, NoRuntimeNoFlight, RevokedIsFinished,
        ProposalCurrent
<1>5. NoRuntimeNoFlight'
  BY DEF StagesAgree, FlightInCharge, NoRuntimeNoFlight
<1>6. BudgetHeld'
  BY DEF StagesAgree, FlightInCharge, BudgetHeld
<1>7. GateOwned'
  BY DEF StagesAgree, FlightInCharge, RevokedIsFinished, GateOwned, ProposalCurrent,
        NoGate, Kinds
<1>8. FramesCounted'
  BY DEF StagesAgree, FlightInCharge, FramesCounted
<1>9. ReportedOnce'
  BY DEF ReportedOnce
<1>10. ObservedByNewFrames'
  BY DEF FramesCounted, ObservedByNewFrames
<1> QED BY <1>1, <1>2, <1>3, <1>4, <1>5, <1>6, <1>7, <1>8, <1>9, <1>10 DEF Inv

\* The action takes its second step.
LEMMA ReserveFollowupKeeps ==
    ASSUME Inv, NEW i \in Ids, ReserveFollowup(i)
    PROVE  Inv'
<1> USE RecoveryAssumption DEF Inv, TypeOK, Open, ActionRunning, ReserveFollowup,
        IsCurrent, Ids, NoFlight, coordVars, ownVars, hostVars
<1>1. TypeOK'
  <2>1. stable' \in BOOLEAN
    OBVIOUS
  <2>2. turnUsed' \in BOOLEAN
    OBVIOUS
  <2>3. actionCount' \in 0 .. 2
    OBVIOUS
  <2>4. reports' \in [Ids -> Nat]
    OBVIOUS
  <2>5. newFrames' \in [Ids -> 0 .. 2]
    OBVIOUS
  <2> QED
    BY <2>1, <2>2, <2>3, <2>4, <2>5 DEF NoGate, Kinds, Reasons, Outcomes
<1>2. StagesAgree'
  BY DEF FlightInCharge, StagesAgree
<1>3. FlightInCharge'
  BY DEF StagesAgree, FlightInCharge
<1>4. RevokedIsFinished'
  BY DEF StagesAgree, FlightInCharge, NoRuntimeNoFlight, RevokedIsFinished,
        ProposalCurrent
<1>5. NoRuntimeNoFlight'
  BY DEF StagesAgree, FlightInCharge, NoRuntimeNoFlight
<1>6. BudgetHeld'
  BY DEF StagesAgree, FlightInCharge, BudgetHeld
<1>7. GateOwned'
  BY DEF StagesAgree, FlightInCharge, RevokedIsFinished, GateOwned, ProposalCurrent,
        NoGate, Kinds
<1>8. FramesCounted'
  BY DEF StagesAgree, FlightInCharge, FramesCounted
<1>9. ReportedOnce'
  BY DEF ReportedOnce
<1>10. ObservedByNewFrames'
  BY DEF FramesCounted, ObservedByNewFrames
<1> QED BY <1>1, <1>2, <1>3, <1>4, <1>5, <1>6, <1>7, <1>8, <1>9, <1>10 DEF Inv

\* The chain waits for media.
LEMMA ObserveKeeps ==
    ASSUME Inv, NEW i \in Ids, Observe(i)
    PROVE  Inv'
<1> USE RecoveryAssumption DEF Inv, TypeOK, Open, ActionRunning, Observe, IsCurrent, Ids,
        NoFlight, coordVars, ownVars, hostVars
<1>1. TypeOK'
  BY DEF NoGate, Kinds, Reasons, Outcomes
<1>2. StagesAgree'
  BY DEF FlightInCharge, StagesAgree
<1>3. FlightInCharge'
  BY DEF StagesAgree, FlightInCharge
<1>4. RevokedIsFinished'
  BY SMTT(20) DEF StagesAgree, FlightInCharge, NoRuntimeNoFlight, RevokedIsFinished,
        ProposalCurrent
<1>5. NoRuntimeNoFlight'
  BY DEF StagesAgree, FlightInCharge, NoRuntimeNoFlight
<1>6. BudgetHeld'
  BY DEF StagesAgree, FlightInCharge, BudgetHeld
<1>7. GateOwned'
  BY DEF StagesAgree, FlightInCharge, RevokedIsFinished, GateOwned, ProposalCurrent,
        NoGate, Kinds
<1>8. FramesCounted'
  BY DEF StagesAgree, FlightInCharge, FramesCounted
<1>9. ReportedOnce'
  BY DEF ReportedOnce
<1>10. ObservedByNewFrames'
  BY DEF FramesCounted, ObservedByNewFrames
<1> QED BY <1>1, <1>2, <1>3, <1>4, <1>5, <1>6, <1>7, <1>8, <1>9, <1>10 DEF Inv

\* A frame.
LEMMA FrameSeenKeeps ==
    ASSUME Inv, FrameSeen
    PROVE  Inv'
<1>0. /\ newFrames' \in [Ids -> 0 .. 2]
      /\ \A j \in Ids : newFrames'[j] = Counted[j]
  <2>1. newFrames' = Counted
    BY DEF FrameSeen
  <2>2. Counted = [j \in Ids |-> Counted[j]]
    BY DEF Counted
  <2> QED BY <2>1, <2>2, CountedFrames DEF Inv
<1> USE RecoveryAssumption DEF Inv, TypeOK, Open, ActionRunning, FrameSeen, Ids, NoFlight,
        coordVars, ownVars, hostVars
<1>1. TypeOK'
  <2>1. stable' \in BOOLEAN
    OBVIOUS 
  <2>2. turnUsed' \in BOOLEAN
    OBVIOUS 
  <2>3. actionCount' \in 0 .. 2
    OBVIOUS 
  <2>4. reports' \in [Ids -> Nat]
    OBVIOUS 
  <2>5. newFrames' \in [Ids -> 0 .. 2]
    BY <1>0, CountedFrames
  <2> QED
    BY <1>0, CountedFrames, <2>1, <2>2, <2>3, <2>4, <2>5 DEF NoGate, Kinds, Reasons, Outcomes
<1>2. StagesAgree'
  BY DEF FlightInCharge, StagesAgree
<1>3. FlightInCharge'
  BY DEF StagesAgree, FlightInCharge
<1>4. RevokedIsFinished'
  BY DEF StagesAgree, FlightInCharge, NoRuntimeNoFlight, RevokedIsFinished,
        ProposalCurrent
<1>5. NoRuntimeNoFlight'
  BY DEF StagesAgree, FlightInCharge, NoRuntimeNoFlight
<1>6. BudgetHeld'
  BY DEF StagesAgree, FlightInCharge, BudgetHeld
<1>7. GateOwned'
  BY DEF StagesAgree, FlightInCharge, RevokedIsFinished, GateOwned,
        ProposalCurrent, NoGate, Kinds
<1>8. FramesCounted'
  BY <1>0, CountedFrames DEF StagesAgree, FlightInCharge, FramesCounted
<1>9. ReportedOnce'
  BY DEF ReportedOnce
<1>10. ObservedByNewFrames'
  BY <1>0, CountedFrames DEF FramesCounted, ObservedByNewFrames
<1> QED BY <1>1, <1>2, <1>3, <1>4, <1>5, <1>6, <1>7, <1>8, <1>9, <1>10 DEF Inv

\* A frame that completes a run.
LEMMA FrameStableKeeps ==
    ASSUME Inv, FrameStable
    PROVE  Inv'
<1>0. /\ newFrames' \in [Ids -> 0 .. 2]
      /\ \A j \in Ids : newFrames'[j] = Counted[j]
  <2>1. newFrames' = Counted
    BY DEF FrameStable
  <2>2. Counted = [j \in Ids |-> Counted[j]]
    BY DEF Counted
  <2> QED BY <2>1, <2>2, CountedFrames DEF Inv
<1> USE RecoveryAssumption DEF Inv, TypeOK, Open, ActionRunning, FrameStable, Observed,
        IsCurrent, Ids, NoFlight, coordVars, ownVars, hostVars
<1>1. TypeOK'
  <2>1. stable' \in BOOLEAN
    OBVIOUS 
  <2>2. turnUsed' \in BOOLEAN
    OBVIOUS 
  <2>3. actionCount' \in 0 .. 2
    OBVIOUS 
  <2>4. reports' \in [Ids -> Nat]
    OBVIOUS 
  <2>5. newFrames' \in [Ids -> 0 .. 2]
    BY <1>0, CountedFrames
  <2> QED
    BY <1>0, CountedFrames, <2>1, <2>2, <2>3, <2>4, <2>5 DEF NoGate, Kinds, Reasons, Outcomes
<1>2. StagesAgree'
  BY DEF FlightInCharge, StagesAgree
<1>3. FlightInCharge'
  BY DEF StagesAgree, FlightInCharge
<1>4. RevokedIsFinished'
  BY DEF StagesAgree, FlightInCharge, NoRuntimeNoFlight, RevokedIsFinished,
        ProposalCurrent
<1>5. NoRuntimeNoFlight'
  BY DEF StagesAgree, FlightInCharge, NoRuntimeNoFlight
<1>6. BudgetHeld'
  BY DEF StagesAgree, FlightInCharge, BudgetHeld
<1>7. GateOwned'
  BY DEF StagesAgree, FlightInCharge, RevokedIsFinished, GateOwned,
        ProposalCurrent, NoGate, Kinds
<1>8. FramesCounted'
  BY <1>0, CountedFrames DEF StagesAgree, FlightInCharge, FramesCounted
<1>9. ReportedOnce'
  BY DEF ReportedOnce
<1>10. ObservedByNewFrames'
  BY <1>0, CountedFrames DEF FramesCounted, ObservedByNewFrames
<1> QED BY <1>1, <1>2, <1>3, <1>4, <1>5, <1>6, <1>7, <1>8, <1>9, <1>10 DEF Inv

\* The gate opens.
LEMMA WindowEndsKeeps ==
    ASSUME Inv, WindowEnds
    PROVE  Inv'
<1> USE RecoveryAssumption DEF Inv, TypeOK, Open, ActionRunning, WindowEnds, Ids,
        NoFlight, coordVars, ownVars, hostVars
<1>1. TypeOK'
  BY DEF NoGate, Kinds, Reasons, Outcomes
<1>2. StagesAgree'
  BY DEF FlightInCharge, StagesAgree
<1>3. FlightInCharge'
  BY DEF StagesAgree, FlightInCharge
<1>4. RevokedIsFinished'
  BY DEF StagesAgree, FlightInCharge, NoRuntimeNoFlight, RevokedIsFinished,
        ProposalCurrent
<1>5. NoRuntimeNoFlight'
  BY DEF StagesAgree, FlightInCharge, NoRuntimeNoFlight
<1>6. BudgetHeld'
  BY DEF StagesAgree, FlightInCharge, BudgetHeld
<1>7. GateOwned'
  BY DEF StagesAgree, FlightInCharge, RevokedIsFinished, GateOwned, ProposalCurrent,
        NoGate, Kinds
<1>8. FramesCounted'
  BY DEF StagesAgree, FlightInCharge, FramesCounted
<1>9. ReportedOnce'
  BY DEF ReportedOnce
<1>10. ObservedByNewFrames'
  BY DEF FramesCounted, ObservedByNewFrames
<1> QED BY <1>1, <1>2, <1>3, <1>4, <1>5, <1>6, <1>7, <1>8, <1>9, <1>10 DEF Inv

\* What the chain of a finished transaction does, and how an open one ends.
LEMMA EndsKeep ==
    ASSUME Inv, NEW i \in Ids,
           DecideFails(i) \/ Abandon(i) \/ Refuse(i) \/ ActionFailed(i) \/ Deadline(i)
    PROVE  Inv'
<1>1. CASE Abandon(i)
  BY <1>1, StopKeeps DEF Abandon
<1>2. CASE DecideFails(i)
  <2>1. Open(i) /\ stage[i] # "absent" /\ ~ActionRunning(i)
    BY <1>2 DEF DecideFails, Open, ActionRunning, Inv, StagesAgree
  <2>2. PICK how \in {"failed", "timedOut"} : Finish(i, how, FALSE)
    BY <1>2 DEF DecideFails
  <2> QED BY <1>2, <2>1, <2>2, FailKeeps DEF DecideFails
<1>3. CASE Refuse(i)
  <2>1. CASE outcome[i] = "none"
    BY <1>3, <2>1, CancelKeeps DEF Refuse, Open
  <2>2. CASE outcome[i] # "none"
    <3>1. UNCHANGED <<coordVars, outcome, reports, hostVars>>
      BY <1>3, <2>2 DEF Refuse, Finish, coordVars
    <3> QED BY <1>3, <2>2, <3>1, StopKeeps DEF Refuse
  <2> QED BY <2>1, <2>2
<1>4. CASE ActionFailed(i)
  <2>0. PICK how \in {"failed", "timedOut"} : Finish(i, how, FALSE)
    BY <1>4 DEF ActionFailed
  <2>1. CASE outcome[i] = "none"
    <3>1. Open(i) /\ stage[i] # "absent" /\ ~ActionRunning(i)
      BY <1>4, <2>1 DEF ActionFailed, Open, ActionRunning
    <3> QED BY <1>4, <2>0, <3>1, FailKeeps DEF ActionFailed
  <2>2. CASE outcome[i] # "none"
    <3>1. UNCHANGED <<coordVars, outcome, reports, hostVars>>
      BY <2>0, <2>2 DEF Finish, coordVars
    <3> QED BY <1>4, <2>2, <3>1, StopKeeps DEF ActionFailed
  <2> QED BY <2>1, <2>2
<1>5. CASE Deadline(i)
  <2>1. ActionRunning(i) \in BOOLEAN
    BY DEF ActionRunning
  <2>2. stage' = [stage EXCEPT ![i] = stage[i]]
    BY <1>5 DEF Deadline, Inv, TypeOK
  <2> QED BY <1>5, <2>1, <2>2, FailKeeps DEF Deadline
<1> QED BY <1>1, <1>2, <1>3, <1>4, <1>5

\* Both ways for an action to settle.
LEMMA ActionEndsKeep ==
    ASSUME Inv, NEW i \in Ids, ActionReturns(i) \/ ActionThrows(i)
    PROVE  Inv'
<1>1. ActionRunning(i) /\ \E how \in {"returned", "threw"} : Settle(i, how)
  BY DEF ActionReturns, ActionThrows, ActionRunning
<1> QED BY <1>1, SettleKeeps

-----------------------------------------------------------------------------
(* The theorems. *)

\* The invariant holds initially: nothing is admitted and no runtime is bound.
LEMMA InitInv == Init => Inv
<1> SUFFICES ASSUME Init PROVE Inv
  OBVIOUS
<1>1. TypeOK
  <2>1. /\ generation \in Nat /\ sequence \in 0 .. MaxRuns /\ flight \in Ids \cup {NoFlight}
        /\ actionCount \in 0 .. 2 /\ host \in {"closed", "launching", "up"}
        /\ runtimeToken \in Nat
    BY RecoveryAssumption DEF Init, NoFlight
  <2>2. gate \in [fact : Kinds, reason : Reasons] \cup {NoGate}
    BY DEF Init
  <2>3. stable \in BOOLEAN /\ turnUsed \in BOOLEAN
    BY DEF Init
  <2>4. /\ kind \in [Ids -> Kinds] /\ epoch \in [Ids -> Nat] /\ token \in [Ids -> Nat]
        /\ outcome \in [Ids -> Outcomes] /\ reports \in [Ids -> Nat]
        /\ newFrames \in [Ids -> 0 .. 2]
    BY DEF Init, Kinds, Outcomes
  <2>5. /\ stage \in [Ids -> {"absent", "queued", "deciding", "decided", "acting",
                              "observing", "over"}]
        /\ answer \in [Ids -> Reasons \cup {"deny"}]
        /\ action \in [Ids -> {"none", "queued", "running", "returned", "threw"}]
    BY DEF Init
  <2> QED BY <2>1, <2>2, <2>3, <2>4, <2>5 DEF TypeOK
<1>2. StagesAgree /\ FlightInCharge /\ RevokedIsFinished /\ NoRuntimeNoFlight /\ BudgetHeld
  BY RecoveryAssumption DEF Init, StagesAgree, FlightInCharge, RevokedIsFinished,
        NoRuntimeNoFlight, BudgetHeld, Open, ActionRunning, Ids, NoFlight
<1>3. GateOwned /\ FramesCounted /\ ReportedOnce /\ ObservedByNewFrames
  BY DEF Init, GateOwned, FramesCounted, ReportedOnce, ObservedByNewFrames, NoGate, Ids
<1> QED BY <1>1, <1>2, <1>3 DEF Inv

\* Every step, and every stutter, keeps it.
LEMMA NextInv == Inv /\ [Next]_vars => Inv'
<1> SUFFICES ASSUME Inv, [Next]_vars PROVE Inv'
  OBVIOUS
<1>1. CASE StartRuntime BY <1>1, StartRuntimeKeeps
<1>2. CASE CloseRuntime BY <1>2, CloseRuntimeKeeps
<1>3. CASE LaunchFirst BY <1>3, LaunchFirstKeeps
<1>4. ASSUME NEW k \in Kinds, Run(k) PROVE Inv'
  BY <1>4, RunKeeps
<1>5. ASSUME NEW i \in Ids, RecoveryStep(i) PROVE Inv'
  <2>1. CASE ChainStep(i)
    BY <2>1, DecideKeeps, CommitKeeps, ObserveKeeps, EndsKeep DEF ChainStep
  <2>2. CASE DecideAnswers(i) BY <2>2, DecideAnswersKeeps
  <2>3. CASE DecideFails(i) \/ Deadline(i) BY <2>3, EndsKeep
  <2>4. CASE ActionStep(i) BY <2>4, ExecuteKeeps, ActionEndsKeep DEF ActionStep
  <2>5. CASE ReserveFollowup(i) BY <2>5, ReserveFollowupKeeps
  <2>6. CASE LaunchTurn(i) BY <2>6, LaunchTurnKeeps
  <2> QED BY <1>5, <2>1, <2>2, <2>3, <2>4, <2>5, <2>6 DEF RecoveryStep
<1>6. CASE FrameSeen BY <1>6, FrameSeenKeeps
<1>7. CASE FrameStable BY <1>7, FrameStableKeeps
<1>8. CASE WindowEnds BY <1>8, WindowEndsKeeps
<1>9. CASE UNCHANGED vars
  BY <1>9 DEF Inv, TypeOK, StagesAgree, FlightInCharge, RevokedIsFinished, NoRuntimeNoFlight,
        BudgetHeld, GateOwned, FramesCounted, ReportedOnce, ObservedByNewFrames, Open,
        ActionRunning, ProposalCurrent, vars, coordVars, ownVars, hostVars
<1> QED BY <1>1, <1>2, <1>3, <1>4, <1>5, <1>6, <1>7, <1>8, <1>9 DEF Next

\* So it holds always.
LEMMA Invariance == Spec => []Inv
  BY InitInv, NextInv, PTL DEF Spec

\* Every variable of the coordinator keeps its type; in particular no episode
\* spends more than two actions, whatever happens between the check of the
\* budget and the commit.
THEOREM RecoveryTypeCorrect == Spec => []TypeOK
<1>1. Inv => TypeOK BY DEF Inv
<1> QED BY Invariance, <1>1, PTL

\* Actions never overlap: not after a timeout, a reset or a new launch.
THEOREM ActionsNeverOverlap == Spec => []OneAction
<1>1. Inv => OneAction BY DEF Inv, FlightInCharge, OneAction
<1> QED BY Invariance, <1>1, PTL

\* What a reset or a new runtime has superseded is finished at once.
THEOREM SupersededIsFinished == Spec => []RevokedIsFinished
<1>1. Inv => RevokedIsFinished BY DEF Inv
<1> QED BY Invariance, <1>1, PTL

\* A failure is reported once, and only for a recovery that failed.
THEOREM FailureReportedOnce == Spec => []ReportedOnce
<1>1. Inv => ReportedOnce BY DEF Inv
<1> QED BY Invariance, <1>1, PTL

\* Frames from before the action completed never make a recovery observed.
THEOREM ObservedMeansNewMedia == Spec => []ObservedByNewFrames
<1>1. Inv => ObservedByNewFrames BY DEF Inv
<1> QED BY Invariance, <1>1, PTL

\* A host that is told "handled" by the window has a connection that recovered.
THEOREM HandledMeansRecovered == Spec => []HandledIsReal
<1>1. Inv => HandledIsReal
  BY DEF Inv, TypeOK, GateOwned, HandledIsReal, FactWindow, Ids, NoFlight
<1> QED BY Invariance, <1>1, PTL
=============================================================================
