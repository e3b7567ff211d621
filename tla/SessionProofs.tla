---------------------------- MODULE SessionProofs ----------------------------
(* Theorems about SessionLifecycle, for every value of its constants: its    *)
(* variables keep their types, no two attempts ever hold one target, no      *)
(* session that lives on the service is lost or doubled, the caps bound what *)
(* they are for, an orderly exit is clean, and the tasks implement           *)
(* TargetOwnership.                                                          *)
EXTENDS SessionRefinement, FiniteSetTheorems, TLAPS

-----------------------------------------------------------------------------
(* Types.  TypeOK is inductive only together with StageInv, which says when  *)
(* an id by which a task looks a record up is one.                           *)

LEMMA ClosingType ==
  ASSUME TypeOK, NEW i \in Ids
  PROVE  Closing(i) \in Gen
  BY DEF Closing, TypeOK, LifecycleTypeOK

LEMMA CloseTypes ==
  ASSUME TypeOK, NEW i \in Ids, NEW c \in BOOLEAN, CloseLocally(i, c)
  PROVE  /\ session' \in [Ids -> Gen] /\ dead' \subseteq Gens
         /\ idOf' \in [Gens -> Id]
         /\ maker' \in [Gens -> Attempts \cup {NoAttempt}]
         /\ cleanup' \in [Ids -> Gen] /\ notify' \subseteq Gens
         /\ stop' \in [Gens -> {"none", "pending", "acked", "released", "removed"}]
<1>1. /\ UNCHANGED <<idOf, maker>>
      /\ notify' = IF c /\ Closing(i) # NoGen THEN notify \cup {Closing(i)} ELSE notify
  BY DEF CloseLocally
<1>2. CASE cleanup[i] = NoGen /\ session[i] # NoGen
  <2>1. Closing(i) = session[i] /\ session[i] \in Gens
    BY <1>2 DEF Closing, Gen, TypeOK, LifecycleTypeOK
  <2>2. /\ dead' = Revoked(Closing(i))
        /\ session' = [session EXCEPT ![i] = NoGen]
        /\ cleanup' = [cleanup EXCEPT ![i] = Closing(i)]
        /\ stop' = [stop EXCEPT ![Closing(i)] = "pending"]
    BY <1>2 DEF CloseLocally
  <2> QED
    BY <1>1, <2>1, <2>2, ClosingType DEF Revoked, Gen, TypeOK, LifecycleTypeOK
<1>3. CASE ~(cleanup[i] = NoGen /\ session[i] # NoGen)
  <2>1. UNCHANGED <<dead, session, cleanup, stop>>
    BY <1>3 DEF CloseLocally
  <2> QED
    BY <1>1, <2>1, ClosingType DEF Gen, TypeOK, LifecycleTypeOK
<1> QED
  BY <1>2, <1>3

LEMMA ReturnTypes ==
  ASSUME TypeOK, NEW a \in Attempts, NEW stage \in DriverStages,
         DriverReturns(a, stage)
  PROVE  /\ driver' \in [Attempts -> DriverStages]
         /\ entry' \in [Attempts -> {"absent", "tombstone", "open", "finished"}]
         /\ sid' \in [Attempts -> Id] /\ seen' \in [Attempts -> Gen]
         /\ pend' \in [Attempts -> SUBSET Ids]
         /\ recreate' \in [Attempts -> {"none", "settled", "unsettled", "used"}]
  BY DEF DriverReturns, DriverAt, Finished, Id, Gen, TypeOK, RegistryTypeOK,
         LifecycleTypeOK

LEMMA JoinTypes ==
  ASSUME TypeOK, NEW a \in Attempts, NEW who \in Tasks, NEW i \in Ids,
         NEW c \in BOOLEAN, Join(a, who, i, c)
  PROVE  joined' \in [Attempts \X Tasks -> Gen]
  BY ClosingType DEF Join, TypeOK, LifecycleTypeOK

LEMMA TypeStep ==
  ASSUME TypeOK, StageInv, [Next]_vars PROVE TypeOK'
<1> USE RegistryAssumption, LifecycleAssumption
    DEF TypeOK, RegistryTypeOK, LifecycleTypeOK, Id, Gen, DriverStages, TaskStages,
          CancellerStages, Tasks, StageInv,
          driverVars, taskVars, cancelVars,
          storeVars, cleanupVars, exitVars, registryVars
<1>0. "failed" \in DriverStages
  OBVIOUS
<1>1. ASSUME NEW a \in Attempts, DriverStep(a) PROVE TypeOK'
  <2>1. ASSUME NEW gone \in SUBSET Expired, StartSession(a, gone) PROVE TypeOK'
    BY <2>1 DEF StartSession, DriverAt, CancellerAt, Begin, Kept
  <2>2. ASSUME NEW gone \in SUBSET Expired, StartRefused(a, gone) PROVE TypeOK'
    BY <2>2 DEF StartRefused, BeginRefused, Kept
  <2>3. CASE RunFails(a)
    BY <2>3 DEF RunFails, DriverFails, DriverReturns, Finished, DriverAt,
                CancelScope
  <2>4. CASE Resolved(a)
    BY <2>4 DEF Resolved, DriverGoes, DriverAt
  <2>5. CASE Track(a)
    <3>1. active' \subseteq Attempts /\ cancelled' \subseteq Attempts
      BY <2>5 DEF Track, CancelScope
    <3>2. DriverFails(a) \/ DriverGoes(a, "ensuring")
      BY <2>5 DEF Track
    <3>3. CASE DriverFails(a)
      BY <2>5, <3>1, <3>3, ReturnTypes DEF Track, DriverFails
    <3>4. CASE DriverGoes(a, "ensuring")
      BY <2>5, <3>1, <3>4 DEF Track, DriverGoes, DriverAt
    <3> QED
      BY <3>2, <3>3, <3>4
  <2>6. CASE EnsureTarget(a)
    <3>1. CASE OutcomeUnresolved(TargetOf[a])
      BY <2>6, <3>1, ReturnTypes DEF EnsureTarget, DriverFails
    <3>2. CASE ~OutcomeUnresolved(TargetOf[a])
      <4>1. pend' \in [Attempts -> SUBSET Ids]
        BY <2>6, <3>2 DEF EnsureTarget
      <4>2. driver' \in [Attempts -> DriverStages]
        BY <2>6, <3>2 DEF EnsureTarget, DriverAt
      <4> QED
        BY <2>6, <3>2, <4>1, <4>2 DEF EnsureTarget
    <3> QED
      BY <3>1, <3>2
  <2>7. ASSUME NEW i \in Ids, ClearPending(a, i) PROVE TypeOK'
    BY <2>7, CloseTypes, JoinTypes DEF ClearPending, Join
  <2>8. CASE PendingCleared(a)
    BY <2>8 DEF PendingCleared, Leave
  <2>9. CASE PendingFailed(a)
    BY <2>9 DEF PendingFailed, Leave, DriverFails, DriverReturns, Finished,
                DriverAt, CloseFailed
  <2>10. CASE TargetCleared(a)
    <3>1. \/ DriverFails(a) /\ active' = active \ {a}
          \/ DriverGoes(a, "access") /\ UNCHANGED active
      BY <2>10 DEF TargetCleared
    <3>2. CASE DriverFails(a) /\ active' = active \ {a}
      BY <2>10, <3>2, ReturnTypes DEF TargetCleared, DriverFails
    <3>3. CASE DriverGoes(a, "access") /\ UNCHANGED active
      BY <2>10, <3>3 DEF TargetCleared, DriverGoes, DriverAt
    <3> QED
      BY <3>1, <3>2, <3>3
  <2>11. CASE SpawnCreate(a)
    BY <2>11 DEF SpawnCreate, TaskAt, DriverAt
  <2>12. CASE CreateAbandoned(a)
    <3>0. \/ UNCHANGED <<task, reply>>
          \/ task' = [task EXCEPT ![a] = "none"] /\ reply' = [reply EXCEPT ![a] = NoId]
      BY <2>12 DEF CreateAbandoned, DropResult, TaskAt
    <3>1. task' \in [Attempts -> TaskStages] /\ reply' \in [Attempts -> Id]
      <4>1. "none" \in TaskStages /\ NoId \in Id
        OBVIOUS
      <4>2. task \in [Attempts -> TaskStages] /\ reply \in [Attempts -> Id]
        OBVIOUS
      <4> HIDE DEF TaskStages, Id, TypeOK, StageInv
      <4> QED
        BY <3>0, <4>1, <4>2
    <3>2. cancelled' \subseteq Attempts
      BY <2>12 DEF CreateAbandoned, CancelScope
    <3>3. DriverReturns(a, "failed")
      BY <2>12 DEF CreateAbandoned, DriverFails
    <3>4. /\ driver' \in [Attempts -> DriverStages]
          /\ entry' \in [Attempts -> {"absent", "tombstone", "open", "finished"}]
          /\ sid' \in [Attempts -> Id] /\ seen' \in [Attempts -> Gen]
          /\ pend' \in [Attempts -> SUBSET Ids]
          /\ recreate' \in [Attempts -> {"none", "settled", "unsettled", "used"}]
      BY <3>3, ReturnTypes
    <3> QED
      BY <2>12, <3>1, <3>2, <3>4 DEF CreateAbandoned
  <2>13. CASE CreateErred(a)
    BY <2>13 DEF CreateErred, DropResult, TaskAt, DriverFails, DriverReturns,
                 Finished, DriverAt
  <2>14. CASE Created(a)
    BY <2>14 DEF Created, DropResult, TaskAt, DriverAt
  <2>15. CASE Ready(a)
    BY <2>15 DEF Ready, DriverAt
  <2>16. CASE FetchReady(a)
    BY <2>16 DEF FetchReady, DriverReturns, Finished, DriverAt
  <2>17. CASE ReadyFailed(a)
    BY <2>17 DEF ReadyFailed, DriverAt
  <2>18. CASE RetryReady(a)
    BY <2>18 DEF RetryReady, DriverAt
  <2>19. CASE RecreateClose(a)
    BY <2>19, CloseTypes, JoinTypes DEF RecreateClose, Join, DriverAt
  <2>20. CASE RecreateClosed(a)
    <3>1. session' \in [Ids -> Gen] /\ dead' \subseteq Gens
      BY <2>20 DEF RecreateClosed, Revoked
    <3>2. recreate' \in [Attempts -> {"none", "settled", "unsettled", "used"}]
      BY <2>20 DEF RecreateClosed
    <3>3. driver' \in [Attempts -> DriverStages]
      BY <2>20 DEF RecreateClosed, DriverAt
    <3>4. joined' \in [Attempts \X Tasks -> Gen]
      BY <2>20 DEF RecreateClosed, Leave
    <3> QED
      BY <2>20, <3>1, <3>2, <3>3, <3>4 DEF RecreateClosed
  <2>21. CASE DriverCloses(a)
    BY <2>21, CloseTypes, JoinTypes DEF DriverCloses, Join, DriverAt
  <2>22. CASE DriverClosed(a)
    BY <2>22 DEF DriverClosed, Leave, DriverFails, DriverReturns, Finished,
                 DriverAt, CloseFailed
  <2> QED
    BY <1>1, <2>1, <2>2, <2>3, <2>4, <2>5, <2>6, <2>7, <2>8, <2>9, <2>10,
       <2>11, <2>12, <2>13, <2>14, <2>15, <2>16, <2>17, <2>18, <2>19, <2>20,
       <2>21, <2>22 DEF DriverStep
<1>2. ASSUME NEW a \in Attempts, TaskStep(a) PROVE TypeOK'
  <2>1. CASE SendCreate(a)
    BY <2>1 DEF SendCreate, TaskAt
  <2>2. CASE SendSkipped(a)
    BY <2>2 DEF SendSkipped, EndTask, TaskAt
  <2>3. ASSUME NEW g \in Gens, CreateRecorded(a, g) PROVE TypeOK'
    BY <2>3 DEF CreateRecorded, TaskAt, Revoked
  <2>4. CASE CreateUnknown(a)
    <3>1. unknown' \subseteq Targets
      BY <2>4 DEF CreateUnknown
    <3>2. /\ task' \in [Attempts -> TaskStages] /\ reply' \in [Attempts -> Id]
          /\ creating' \subseteq Attempts /\ active' \subseteq Attempts
      BY <2>4 DEF CreateUnknown, TaskAt
    <3> QED
      BY <2>4, <3>1, <3>2 DEF CreateUnknown
  <2>5. CASE CreateDenied(a)
    BY <2>5 DEF CreateDenied, EndTask, TaskAt
  <2>6. CASE CreateRetried(a)
    BY <2>6 DEF CreateRetried, TaskAt, CancelScope
  <2>7. CASE CreateKept(a)
    BY <2>7 DEF CreateKept, TaskAt
  <2>8. CASE CreateReturns(a)
    BY <2>8 DEF CreateReturns, EndTask, TaskAt
  <2>9. CASE CreateCancelled(a)
    BY <2>9 DEF CreateCancelled, TaskAt
  <2>10. CASE TaskCloses(a)
    BY <2>10, CloseTypes, JoinTypes DEF TaskCloses, TaskAt, Join
  <2>11. CASE TaskClosed(a)
    BY <2>11 DEF TaskClosed, Leave, EndTask, TaskAt, CloseFailed
  <2>12. CASE LostCreateEnds(a)
    BY <2>12 DEF LostCreateEnds, EndTask, TaskAt
  <2> QED
    BY <1>2, <2>1, <2>2, <2>3, <2>4, <2>5, <2>6, <2>7, <2>8, <2>9, <2>10, <2>11, <2>12 DEF TaskStep
<1>3. ASSUME NEW a \in Attempts, CancellerStep(a) PROVE TypeOK'
  <2>1. ASSUME NEW gone \in SUBSET Expired, CancelStartup(a, gone) PROVE TypeOK'
    BY <2>1 DEF CancelStartup, CancellerAt, Cancel, Kept
  <2>2. CASE CreationSettled(a)
    BY <2>2 DEF CreationSettled, Finished, CancellerAt
  <2>3. CASE SettleTimedOut(a)
    BY <2>3 DEF SettleTimedOut, CancellerAt
  <2>4. CASE CancelInspect(a)
    <3>1. \/ canceller' = [canceller EXCEPT ![a] = "returned"]
          \/ canceller' = [canceller EXCEPT ![a] = "checkCleanup"]
      BY <2>4 DEF CancelInspect, CancellerAt
    <3>2. owned' = owned \/ owned' = [owned EXCEPT ![a] = NoGen]
      BY <2>4 DEF CancelInspect
    <3>3. held' = held \/ held' = [held EXCEPT ![a] = owned[a]]
      BY <2>4 DEF CancelInspect
    <3>4. canceller' \in [Attempts -> CancellerStages]
      BY <3>1
    <3>5. owned' \in [Attempts -> Gen]
      BY <3>2
    <3>6. held' \in [Attempts -> Gen]
      BY <3>3
    <3> QED
      BY <2>4, <3>4, <3>5, <3>6 DEF CancelInspect
  <2>5. CASE CancelInspectCleanup(a)
    <3>1. \/ canceller' = [canceller EXCEPT ![a] = "returned"]
          \/ canceller' = [canceller EXCEPT ![a] = "closing"]
      BY <2>5 DEF CancelInspectCleanup, CancellerAt
    <3>2. owned' = owned \/ owned' = [owned EXCEPT ![a] = NoGen]
      BY <2>5 DEF CancelInspectCleanup
    <3>3. held' = held \/ held' = [held EXCEPT ![a] = NoGen]
      BY <2>5 DEF CancelInspectCleanup
    <3>4. canceller' \in [Attempts -> CancellerStages]
      BY <3>1
    <3>5. owned' \in [Attempts -> Gen]
      BY <3>2
    <3>6. held' \in [Attempts -> Gen]
      BY <3>3
    <3> QED
      BY <2>5, <3>4, <3>5, <3>6 DEF CancelInspectCleanup
  <2>6. CASE CancellerCloses(a)
    BY <2>6, CloseTypes, JoinTypes DEF CancellerCloses, Join, CancellerAt
  <2>7. CASE CancellerClosed(a)
    BY <2>7 DEF CancellerClosed, Leave, CloseFailed, CancellerAt
  <2>8. CASE CancelRelease(a)
    BY <2>8 DEF CancelRelease, CancellerAt
  <2> QED
    BY <1>3, <2>1, <2>2, <2>3, <2>4, <2>5, <2>6, <2>7, <2>8 DEF CancellerStep
<1>4. ASSUME NEW g \in Gens, CleanupStep(g) PROVE TypeOK'
  <2>1. CASE CancelOwner(g)
    BY <2>1 DEF CancelOwner, CancelOwners, OwnersOf
  <2>2. CASE StopAcked(g)
    BY <2>2 DEF StopAcked
  <2>3. CASE ReleaseOwner(g)
    BY <2>3 DEF ReleaseOwner, ReleaseOwners
  <2>4. CASE RemoveEntry(g)
    BY <2>4 DEF RemoveEntry
  <2> QED
    BY <1>4, <2>1, <2>2, <2>3, <2>4 DEF CleanupStep
<1>5. CASE Environment
  <2>1. ASSUME NEW i \in Ids, UserClose(i) PROVE TypeOK'
    BY <2>1, CloseTypes DEF UserClose
  <2>2. ASSUME NEW i \in Ids, MonitorFinds(i) PROVE TypeOK'
    BY <2>2 DEF MonitorFinds
  <2>3. ASSUME NEW i \in Ids, ServiceEnds(i) PROVE TypeOK'
    BY <2>3 DEF ServiceEnds
  <2>4. ASSUME NEW a \in Attempts, NEW i \in Ids, ServiceCreates(a, i) PROVE TypeOK'
    BY <2>4 DEF ServiceCreates
  <2> QED
    BY <1>5, <2>1, <2>2, <2>3, <2>4 DEF Environment
<1>6. CASE ShutdownStep
  <2>1. CASE BeginShutdown
    BY <2>1 DEF BeginShutdown, Shutdown
  <2>2. ASSUME NEW i \in Ids, ShutdownCloses(i) PROVE TypeOK'
    BY ZenonT(40), <2>2, CloseTypes, ClosingType DEF ShutdownCloses
  <2>3. ASSUME NEW g \in Gens, ShutdownCloseReturns(g) PROVE TypeOK'
    BY <2>3 DEF ShutdownCloseReturns
  <2>4. CASE ShutdownSwept
    BY <2>4 DEF ShutdownSwept, Closing
  <2>5. CASE ShutdownEnds
    BY <2>5 DEF ShutdownEnds
  <2>6. CASE ShutdownExpires
    BY <2>6 DEF ShutdownExpires
  <2> QED
    BY <1>6, <2>1, <2>2, <2>3, <2>4, <2>5, <2>6 DEF ShutdownStep
<1>7. CASE UNCHANGED vars
  BY <1>7 DEF vars
<1> QED
  BY <1>1, <1>2, <1>3, <1>4, <1>5, <1>6, <1>7 DEF Next

LEMMA StageStep ==
  ASSUME TypeOK, TypeOK', StageInv, [Next]_vars PROVE StageInv'
<1> USE LifecycleAssumption
    DEF TypeOK, RegistryTypeOK, LifecycleTypeOK, Id, Gen, DriverStages, TaskStages,
          CancellerStages, Tasks, StageInv,
          driverVars, taskVars, cancelVars,
          storeVars, cleanupVars, exitVars, registryVars
<1>1. ASSUME NEW a \in Attempts, DriverStep(a) PROVE StageInv'
  <2>1. ASSUME NEW gone \in SUBSET Expired, StartSession(a, gone) PROVE StageInv'
    BY <2>1 DEF StartSession, DriverAt, CancellerAt, Begin, Kept
  <2>2. ASSUME NEW gone \in SUBSET Expired, StartRefused(a, gone) PROVE StageInv'
    BY <2>2 DEF StartRefused, BeginRefused, Kept
  <2>3. CASE RunFails(a)
    BY <2>3 DEF RunFails, DriverFails, DriverReturns, Finished, DriverAt,
                CancelScope
  <2>4. CASE Resolved(a)
    BY <2>4 DEF Resolved, DriverGoes, DriverAt
  <2>5. CASE Track(a)
    BY <2>5 DEF Track, DriverGoes, DriverAt, DriverFails, DriverReturns,
                Finished, CancelScope
  <2>6. CASE EnsureTarget(a)
    BY <2>6 DEF EnsureTarget, DriverFails, DriverReturns, Finished, DriverAt
  <2>7. ASSUME NEW i \in Ids, ClearPending(a, i) PROVE StageInv'
    BY <2>7 DEF ClearPending, Join, Closing, CloseLocally, Revoked
  <2>8. CASE PendingCleared(a)
    BY <2>8 DEF PendingCleared, Leave
  <2>9. CASE PendingFailed(a)
    BY <2>9 DEF PendingFailed, Leave, DriverFails, DriverReturns, Finished,
                DriverAt, CloseFailed
  <2>10. CASE TargetCleared(a)
    BY <2>10 DEF TargetCleared, DriverGoes, DriverAt, DriverFails,
                 DriverReturns, Finished
  <2>11. CASE SpawnCreate(a)
    BY <2>11 DEF SpawnCreate, TaskAt, DriverAt
  <2>12. CASE CreateAbandoned(a)
    BY <2>12 DEF CreateAbandoned, DropResult, TaskAt, DriverFails,
                 DriverReturns, Finished, DriverAt, CancelScope
  <2>13. CASE CreateErred(a)
    BY <2>13 DEF CreateErred, DropResult, TaskAt, DriverFails, DriverReturns,
                 Finished, DriverAt
  <2>14. CASE Created(a)
    BY <2>14 DEF Created, DropResult, TaskAt, DriverAt
  <2>15. CASE Ready(a)
    BY <2>15 DEF Ready, DriverAt
  <2>16. CASE FetchReady(a)
    BY <2>16 DEF FetchReady, DriverReturns, Finished, DriverAt
  <2>17. CASE ReadyFailed(a)
    BY <2>17 DEF ReadyFailed, DriverAt
  <2>18. CASE RetryReady(a)
    BY <2>18 DEF RetryReady, DriverAt
  <2>19. CASE RecreateClose(a)
    BY <2>19 DEF RecreateClose, Join, Closing, CloseLocally, Revoked, DriverAt
  <2>20. CASE RecreateClosed(a)
    BY <2>20 DEF RecreateClosed, Revoked, Leave, DriverAt, CloseFailed
  <2>21. CASE DriverCloses(a)
    BY <2>21 DEF DriverCloses, Join, Closing, CloseLocally, Revoked, DriverAt
  <2>22. CASE DriverClosed(a)
    BY <2>22 DEF DriverClosed, Leave, DriverFails, DriverReturns, Finished,
                 DriverAt, CloseFailed
  <2> QED
    BY <1>1, <2>1, <2>2, <2>3, <2>4, <2>5, <2>6, <2>7, <2>8, <2>9, <2>10,
       <2>11, <2>12, <2>13, <2>14, <2>15, <2>16, <2>17, <2>18, <2>19, <2>20,
       <2>21, <2>22 DEF DriverStep
<1>2. ASSUME NEW a \in Attempts, TaskStep(a) PROVE StageInv'
  <2>1. CASE SendCreate(a)
    BY <2>1 DEF SendCreate, TaskAt
  <2>2. CASE SendSkipped(a)
    BY <2>2 DEF SendSkipped, EndTask, TaskAt
  <2>3. ASSUME NEW g \in Gens, CreateRecorded(a, g) PROVE StageInv'
    BY <2>3 DEF CreateRecorded, TaskAt, Revoked
  <2>4. CASE CreateUnknown(a)
    BY <2>4 DEF CreateUnknown, TaskAt
  <2>5. CASE CreateDenied(a)
    BY <2>5 DEF CreateDenied, EndTask, TaskAt
  <2>6. CASE CreateRetried(a)
    BY <2>6 DEF CreateRetried, TaskAt, CancelScope
  <2>7. CASE CreateKept(a)
    BY <2>7 DEF CreateKept, TaskAt
  <2>8. CASE CreateReturns(a)
    BY <2>8 DEF CreateReturns, EndTask, TaskAt
  <2>9. CASE CreateCancelled(a)
    BY <2>9 DEF CreateCancelled, TaskAt
  <2>10. CASE TaskCloses(a)
    BY <2>10 DEF TaskCloses, TaskAt, Join, Closing, CloseLocally, Revoked
  <2>11. CASE TaskClosed(a)
    BY <2>11 DEF TaskClosed, Leave, EndTask, TaskAt, CloseFailed
  <2>12. CASE LostCreateEnds(a)
    BY <2>12 DEF LostCreateEnds, EndTask, TaskAt
  <2> QED
    BY <1>2, <2>1, <2>2, <2>3, <2>4, <2>5, <2>6, <2>7, <2>8, <2>9, <2>10, <2>11, <2>12 DEF TaskStep
<1>3. ASSUME NEW a \in Attempts, CancellerStep(a) PROVE StageInv'
  <2>1. ASSUME NEW gone \in SUBSET Expired, CancelStartup(a, gone) PROVE StageInv'
    BY <2>1 DEF CancelStartup, CancellerAt, Cancel, Kept
  <2>2. CASE CreationSettled(a)
    BY <2>2 DEF CreationSettled, Finished, CancellerAt
  <2>3. CASE SettleTimedOut(a)
    BY <2>3 DEF SettleTimedOut, CancellerAt
  <2>4. CASE CancelInspect(a)
    <3>1. UNCHANGED <<task, reply, driver, sid, idOf>>
      BY <2>4
         DEF CancelInspect, taskVars, driverVars, storeVars
    <3>2. \/ canceller' = [canceller EXCEPT ![a] = "returned"] /\ held' = held
             /\ owned' \in {owned, [owned EXCEPT ![a] = NoGen]}
          \/ /\ owned[a] # NoGen /\ canceller' = [canceller EXCEPT ![a] = "checkCleanup"]
             /\ held' = [held EXCEPT ![a] = owned[a]] /\ owned' = owned
      BY <2>4 DEF CancelInspect, CancellerAt
    <3> QED
      BY <3>1, <3>2
  <2>5. CASE CancelInspectCleanup(a)
    <3>1. UNCHANGED <<task, reply, driver, sid, idOf>>
      BY <2>5
         DEF CancelInspectCleanup, taskVars, driverVars, storeVars
    <3>2. \/ canceller' = [canceller EXCEPT ![a] = "returned"] /\ held' = [held EXCEPT ![a] = NoGen]
             /\ owned' = [owned EXCEPT ![a] = NoGen]
          \/ canceller[a] = "checkCleanup" /\ canceller' = [canceller EXCEPT ![a] = "closing"]
             /\ UNCHANGED <<held, owned>>
      BY <2>5 DEF CancelInspectCleanup, CancellerAt
    <3> QED
      BY <3>1, <3>2
  <2>6. CASE CancellerCloses(a)
    BY <2>6 DEF CancellerCloses, Join, Closing, CloseLocally, Revoked,
                CancellerAt
  <2>7. CASE CancellerClosed(a)
    BY <2>7 DEF CancellerClosed, Leave, CloseFailed, CancellerAt
  <2>8. CASE CancelRelease(a)
    BY <2>8 DEF CancelRelease, CancellerAt
  <2> QED
    BY <1>3, <2>1, <2>2, <2>3, <2>4, <2>5, <2>6, <2>7, <2>8 DEF CancellerStep
<1>4. ASSUME NEW g \in Gens, CleanupStep(g) PROVE StageInv'
  <2>1. CASE CancelOwner(g)
    BY <2>1 DEF CancelOwner, CancelOwners, OwnersOf
  <2>2. CASE StopAcked(g)
    BY <2>2 DEF StopAcked
  <2>3. CASE ReleaseOwner(g)
    BY <2>3 DEF ReleaseOwner, ReleaseOwners
  <2>4. CASE RemoveEntry(g)
    BY <2>4 DEF RemoveEntry
  <2> QED
    BY <1>4, <2>1, <2>2, <2>3, <2>4 DEF CleanupStep
<1>5. CASE Environment
  <2>1. ASSUME NEW i \in Ids, UserClose(i) PROVE StageInv'
    BY <2>1 DEF UserClose, Closing, CloseLocally, Revoked
  <2>2. ASSUME NEW i \in Ids, MonitorFinds(i) PROVE StageInv'
    BY <2>2 DEF MonitorFinds
  <2>3. ASSUME NEW i \in Ids, ServiceEnds(i) PROVE StageInv'
    BY <2>3 DEF ServiceEnds
  <2>4. ASSUME NEW a \in Attempts, NEW i \in Ids, ServiceCreates(a, i) PROVE StageInv'
    BY <2>4 DEF ServiceCreates
  <2> QED
    BY <1>5, <2>1, <2>2, <2>3, <2>4 DEF Environment
<1>6. CASE ShutdownStep
  <2>1. CASE BeginShutdown
    BY <2>1 DEF BeginShutdown, Shutdown
  <2>2. ASSUME NEW i \in Ids, ShutdownCloses(i) PROVE StageInv'
    BY <2>2 DEF ShutdownCloses, Closing, CloseLocally, Revoked
  <2>3. ASSUME NEW g \in Gens, ShutdownCloseReturns(g) PROVE StageInv'
    BY <2>3 DEF ShutdownCloseReturns
  <2>4. CASE ShutdownSwept
    BY <2>4 DEF ShutdownSwept, Closing
  <2>5. CASE ShutdownEnds
    BY <2>5 DEF ShutdownEnds
  <2>6. CASE ShutdownExpires
    BY <2>6 DEF ShutdownExpires
  <2> QED
    BY <1>6, <2>1, <2>2, <2>3, <2>4, <2>5, <2>6 DEF ShutdownStep
<1>7. CASE UNCHANGED vars
  BY <1>7 DEF vars
<1> QED
  BY <1>1, <1>2, <1>3, <1>4, <1>5, <1>6, <1>7 DEF Next

\* Every variable stays in its set, and the ids a task looks a record up by
\* are ids: what the other proofs rest on.
THEOREM TypeCorrect == Spec => [](TypeOK /\ StageInv)
<1>1. Init => TypeOK /\ StageInv
  <2> SUFFICES ASSUME Init PROVE TypeOK /\ StageInv
    OBVIOUS
  <2>1. RegistryTypeOK
    <3>1. /\ entry \in [Attempts -> {"absent", "tombstone", "open", "finished"}]
          /\ owned \in [Attempts -> Gens \cup {NoGen}]
      BY DEF Init, RegistryInit
    <3> QED
      BY <3>1 DEF Init, RegistryInit, RegistryTypeOK
  <2>2. LifecycleTypeOK
    BY DEF Init, LifecycleTypeOK, Id, Gen, DriverStages, TaskStages,
           CancellerStages, Tasks
  <2>3. StageInv
    BY DEF Init, RegistryInit, StageInv
  <2> QED
    BY <2>1, <2>2, <2>3 DEF TypeOK
<1>2. TypeOK /\ StageInv /\ [Next]_vars => (TypeOK /\ StageInv)'
  BY TypeStep, StageStep
<1> QED
  BY <1>1, <1>2, PTL DEF Spec

-----------------------------------------------------------------------------
(* Exclusive targets.  ClaimInv says which attempts are spent; the attempts  *)
(* pruned, and the rivals of one that `begin' lets in, are.                  *)

LEMMA PrunedIsSpent ==
  ASSUME TypeOK, ClaimInv, NEW b \in Prunable
  PROVE  b \in Attempts /\ Spent(b)
  BY DEF Prunable, Settling, ClaimInv, Spent, CreateRuns, Running, TypeOK,
         RegistryTypeOK, LifecycleTypeOK, TaskStages

LEMMA KeptEntries ==
  ASSUME TypeOK, NEW gone \in SUBSET Prunable, NEW b \in Attempts
  PROVE  /\ b \notin gone => Kept(gone)[b] = entry[b]
         /\ b \in gone => Kept(gone)[b] = "absent"
  BY DEF Kept

LEMMA RivalsAreSpent ==
  ASSUME TypeOK, ClaimInv, NEW a \in Attempts, NEW gone \in SUBSET Prunable,
         ~TargetBusy(a, Kept(gone)),
         NEW b \in Attempts, TargetOf[b] = TargetOf[a]
  PROVE  Spent(b)
<1>1. CASE b \in gone
  BY <1>1, PrunedIsSpent
<1>2. CASE b \notin gone
  <2>1. Kept(gone)[b] = entry[b]
    BY <1>2, KeptEntries
  <2> QED
    BY <1>2, <2>1
    DEF TargetBusy, Settling, ClaimInv, Spent, CreateRuns, Running, TypeOK,
        RegistryTypeOK, LifecycleTypeOK, TaskStages
<1> QED
  BY <1>1, <1>2

LEMMA ClaimStep ==
  ASSUME TypeOK, TypeOK', ClaimInv, [Next]_vars PROVE ClaimInv'
<1> USE DEF TypeOK, RegistryTypeOK, LifecycleTypeOK, Gen, DriverStages, TaskStages,
          ClaimInv, Spent, Running, CreateRuns,
          driverVars, taskVars, cancelVars,
          storeVars, cleanupVars, exitVars, registryVars
<1>1. ASSUME NEW a \in Attempts, DriverStep(a) PROVE ClaimInv'
  <2>1. ASSUME NEW gone \in SUBSET Expired, StartSession(a, gone) PROVE ClaimInv'
    <3>1. \A b \in gone : b \in Attempts /\ Spent(b) /\ canceller[b] # "settling"
      BY PrunedIsSpent DEF Expired, CancellerRests
    <3>2. ~TargetBusy(a, Kept(gone))
      BY <2>1 DEF StartSession, Begin, BeginRejected
    <3>3. \A b \in Attempts : TargetOf[b] = TargetOf[a] => Spent(b)
      BY <3>2, RivalsAreSpent DEF Expired
    <3>4. entry[a] # "absent" => a \in gone
      <4>1. gone \in SUBSET Prunable /\ Kept(gone)[a] = "absent"
        BY <2>1 DEF StartSession, Begin, BeginRejected
      <4>2. a \notin gone => Kept(gone)[a] = entry[a]
        BY <4>1 DEF Kept
      <4> QED
        BY <4>1, <4>2
    <3> QED
      BY <2>1, <3>1, <3>3, <3>4 DEF StartSession, Begin, Kept, CancellerAt, DriverAt
  <2>2. ASSUME NEW gone \in SUBSET Expired, StartRefused(a, gone) PROVE ClaimInv'
    <3>1. \A b \in gone : b \in Attempts /\ Spent(b) /\ canceller[b] # "settling"
      BY PrunedIsSpent DEF Expired, CancellerRests
    <3> QED
      BY <2>2, <3>1 DEF StartRefused, BeginRefused, Kept
  <2>3. CASE RunFails(a)
    BY <2>3 DEF RunFails, DriverFails, DriverReturns, Finished, DriverAt,
                CancelScope
  <2>4. CASE Resolved(a)
    BY <2>4 DEF Resolved, DriverGoes, DriverAt
  <2>5. CASE Track(a)
    <3>1. CASE DriverFails(a)
      BY <2>5, <3>1 DEF Track, DriverFails, DriverReturns, DriverAt, Finished, CancelScope
    <3>2. CASE DriverGoes(a, "ensuring") /\ UNCHANGED cancelled
      <4>1. /\ driver[a] = "tracking"
            /\ driver' = [driver EXCEPT ![a] = "ensuring"]
            /\ UNCHANGED <<entry, cancelled, creating, owned, task, canceller>>
        BY <2>5, <3>2 DEF Track, DriverGoes, DriverAt
      <4> QED
        BY <4>1
    <3> QED
      BY <2>5, <3>1, <3>2 DEF Track
  <2>6. CASE EnsureTarget(a)
    <3>1. CASE OutcomeUnresolved(TargetOf[a])
      <4>1. /\ driver[a] = "ensuring"
            /\ driver' = [driver EXCEPT ![a] = "failed"]
            /\ entry' = [entry EXCEPT ![a] = IF @ = "open" THEN "finished" ELSE @]
            /\ UNCHANGED <<cancelled, creating, owned, task, canceller>>
        BY <2>6, <3>1 DEF EnsureTarget, DriverFails, DriverReturns, DriverAt, Finished
      <4> QED
        BY <4>1
    <3>2. CASE ~OutcomeUnresolved(TargetOf[a])
      <4>1. /\ driver[a] = "ensuring"
            /\ driver' = [driver EXCEPT ![a] = "clearing"]
            /\ UNCHANGED <<entry, cancelled, creating, owned, task, canceller>>
        BY <2>6, <3>2 DEF EnsureTarget, DriverAt
      <4> QED
        BY <4>1
    <3> QED
      BY <3>1, <3>2
  <2>7. ASSUME NEW i \in Ids, ClearPending(a, i) PROVE ClaimInv'
    BY <2>7 DEF ClearPending, Join, Closing, CloseLocally, Revoked
  <2>8. CASE PendingCleared(a)
    BY <2>8 DEF PendingCleared, Leave
  <2>9. CASE PendingFailed(a)
    BY <2>9 DEF PendingFailed, Leave, DriverFails, DriverReturns, Finished,
                DriverAt, CloseFailed
  <2>10. CASE TargetCleared(a)
    <3>1. CASE DriverFails(a)
      BY <2>10, <3>1 DEF TargetCleared, DriverFails, DriverReturns, DriverAt, Finished
    <3>2. CASE DriverGoes(a, "access")
      <4>1. /\ driver[a] = "clearing"
            /\ driver' = [driver EXCEPT ![a] = "access"]
            /\ UNCHANGED <<entry, cancelled, creating, owned, task, canceller>>
        BY <2>10, <3>2 DEF TargetCleared, DriverGoes, DriverAt
      <4> QED
        BY <4>1
    <3> QED
      BY <2>10, <3>1, <3>2 DEF TargetCleared
  <2>11. CASE SpawnCreate(a)
    BY <2>11 DEF SpawnCreate, TaskAt, DriverAt
  <2>12. CASE CreateAbandoned(a)
    BY <2>12 DEF CreateAbandoned, DropResult, TaskAt, DriverFails,
                 DriverReturns, Finished, DriverAt, CancelScope
  <2>13. CASE CreateErred(a)
    BY <2>13 DEF CreateErred, DropResult, TaskAt, DriverFails, DriverReturns,
                 Finished, DriverAt
  <2>14. CASE Created(a)
    BY <2>14 DEF Created, DropResult, TaskAt, DriverAt
  <2>15. CASE Ready(a)
    BY <2>15 DEF Ready, DriverAt
  <2>16. CASE FetchReady(a)
    BY <2>16 DEF FetchReady, DriverReturns, Finished, DriverAt
  <2>17. CASE ReadyFailed(a)
    BY <2>17 DEF ReadyFailed, DriverAt
  <2>18. CASE RetryReady(a)
    BY <2>18 DEF RetryReady, DriverAt
  <2>19. CASE RecreateClose(a)
    BY <2>19 DEF RecreateClose, Join, Closing, CloseLocally, Revoked, DriverAt
  <2>20. CASE RecreateClosed(a)
    BY <2>20 DEF RecreateClosed, Revoked, Leave, DriverAt, CloseFailed
  <2>21. CASE DriverCloses(a)
    BY <2>21 DEF DriverCloses, Join, Closing, CloseLocally, Revoked, DriverAt
  <2>22. CASE DriverClosed(a)
    BY <2>22 DEF DriverClosed, Leave, DriverFails, DriverReturns, Finished,
                 DriverAt, CloseFailed
  <2> QED
    BY <1>1, <2>1, <2>2, <2>3, <2>4, <2>5, <2>6, <2>7, <2>8, <2>9, <2>10,
       <2>11, <2>12, <2>13, <2>14, <2>15, <2>16, <2>17, <2>18, <2>19, <2>20,
       <2>21, <2>22 DEF DriverStep
<1>2. ASSUME NEW a \in Attempts, TaskStep(a) PROVE ClaimInv'
  <2>1. CASE SendCreate(a)
    BY <2>1 DEF SendCreate, TaskAt
  <2>2. CASE SendSkipped(a)
    BY <2>2 DEF SendSkipped, EndTask, TaskAt
  <2>3. ASSUME NEW g \in Gens, CreateRecorded(a, g) PROVE ClaimInv'
    BY <2>3 DEF CreateRecorded, TaskAt, Revoked
  <2>4. CASE CreateUnknown(a)
    BY <2>4 DEF CreateUnknown, TaskAt
  <2>5. CASE CreateDenied(a)
    BY <2>5 DEF CreateDenied, EndTask, TaskAt
  <2>6. CASE CreateRetried(a)
    BY <2>6 DEF CreateRetried, TaskAt, CancelScope
  <2>7. CASE CreateKept(a)
    BY <2>7 DEF CreateKept, TaskAt
  <2>8. CASE CreateReturns(a)
    BY <2>8 DEF CreateReturns, EndTask, TaskAt
  <2>9. CASE CreateCancelled(a)
    BY <2>9 DEF CreateCancelled, TaskAt
  <2>10. CASE TaskCloses(a)
    BY <2>10 DEF TaskCloses, TaskAt, Join, Closing, CloseLocally, Revoked
  <2>11. CASE TaskClosed(a)
    BY <2>11 DEF TaskClosed, Leave, EndTask, TaskAt, CloseFailed
  <2>12. CASE LostCreateEnds(a)
    BY <2>12 DEF LostCreateEnds, EndTask, TaskAt
  <2> QED
    BY <1>2, <2>1, <2>2, <2>3, <2>4, <2>5, <2>6, <2>7, <2>8, <2>9, <2>10, <2>11, <2>12 DEF TaskStep
<1>3. ASSUME NEW a \in Attempts, CancellerStep(a) PROVE ClaimInv'
  <2>1. ASSUME NEW gone \in SUBSET Expired, CancelStartup(a, gone) PROVE ClaimInv'
    <3>1. \A b \in gone : b \in Attempts /\ Spent(b) /\ canceller[b] # "settling"
      BY PrunedIsSpent DEF Expired, CancellerRests
    <3> QED
      BY <2>1, <3>1 DEF CancelStartup, Cancel, Kept, CancellerAt
  <2>2. CASE CreationSettled(a)
    BY <2>2 DEF CreationSettled, Finished, CancellerAt
  <2>3. CASE SettleTimedOut(a)
    BY <2>3 DEF SettleTimedOut, CancellerAt
  <2>4. CASE CancelInspect(a)
    BY <2>4 DEF CancelInspect, CancellerAt
  <2>5. CASE CancelInspectCleanup(a)
    BY <2>5 DEF CancelInspectCleanup, CancellerAt
  <2>6. CASE CancellerCloses(a)
    BY <2>6 DEF CancellerCloses, Join, Closing, CloseLocally, Revoked,
                CancellerAt
  <2>7. CASE CancellerClosed(a)
    BY <2>7 DEF CancellerClosed, Leave, CloseFailed, CancellerAt
  <2>8. CASE CancelRelease(a)
    BY <2>8 DEF CancelRelease, CancellerAt
  <2> QED
    BY <1>3, <2>1, <2>2, <2>3, <2>4, <2>5, <2>6, <2>7, <2>8 DEF CancellerStep
<1>4. ASSUME NEW g \in Gens, CleanupStep(g) PROVE ClaimInv'
  <2>1. CASE CancelOwner(g)
    BY <2>1 DEF CancelOwner, CancelOwners, OwnersOf
  <2>2. CASE StopAcked(g)
    BY <2>2 DEF StopAcked
  <2>3. CASE ReleaseOwner(g)
    BY <2>3 DEF ReleaseOwner, ReleaseOwners
  <2>4. CASE RemoveEntry(g)
    BY <2>4 DEF RemoveEntry
  <2> QED
    BY <1>4, <2>1, <2>2, <2>3, <2>4 DEF CleanupStep
<1>5. CASE Environment
  <2>1. ASSUME NEW i \in Ids, UserClose(i) PROVE ClaimInv'
    BY <2>1 DEF UserClose, Closing, CloseLocally, Revoked
  <2>2. ASSUME NEW i \in Ids, MonitorFinds(i) PROVE ClaimInv'
    BY <2>2 DEF MonitorFinds
  <2>3. ASSUME NEW i \in Ids, ServiceEnds(i) PROVE ClaimInv'
    BY <2>3 DEF ServiceEnds
  <2>4. ASSUME NEW a \in Attempts, NEW i \in Ids, ServiceCreates(a, i) PROVE ClaimInv'
    BY <2>4 DEF ServiceCreates
  <2> QED
    BY <1>5, <2>1, <2>2, <2>3, <2>4 DEF Environment
<1>6. CASE ShutdownStep
  <2>1. CASE BeginShutdown
    BY <2>1 DEF BeginShutdown, Shutdown
  <2>2. ASSUME NEW i \in Ids, ShutdownCloses(i) PROVE ClaimInv'
    BY <2>2 DEF ShutdownCloses, Closing, CloseLocally, Revoked
  <2>3. ASSUME NEW g \in Gens, ShutdownCloseReturns(g) PROVE ClaimInv'
    BY <2>3 DEF ShutdownCloseReturns
  <2>4. CASE ShutdownSwept
    BY <2>4 DEF ShutdownSwept, Closing
  <2>5. CASE ShutdownEnds
    BY <2>5 DEF ShutdownEnds
  <2>6. CASE ShutdownExpires
    BY <2>6 DEF ShutdownExpires
  <2> QED
    BY <1>6, <2>1, <2>2, <2>3, <2>4, <2>5, <2>6 DEF ShutdownStep
<1>7. CASE UNCHANGED vars
  BY <1>7 DEF vars
<1> QED
  BY <1>1, <1>2, <1>3, <1>4, <1>5, <1>6, <1>7 DEF Next

\* Of two attempts on one target, one is spent.
THEOREM ClaimCorrect == Spec => []ClaimInv
<1>1. Init => ClaimInv
  BY DEF Init, RegistryInit, ClaimInv, Spent, Running, CreateRuns
<1>2. TypeOK /\ TypeOK' /\ ClaimInv /\ [Next]_vars => ClaimInv'
  BY ClaimStep
<1> QED
  BY <1>1, <1>2, TypeCorrect, PTL DEF Spec

\* However starts, cancels, timeouts, late answers, closes and shutdown
\* interleave, two attempts never both have a create under way or a session
\* to clean up for the same target.
THEOREM TargetsAreExclusive == Spec => []ExclusiveTarget
<1>1. ClaimInv => ExclusiveTarget
  BY DEF ClaimInv, Spent, ExclusiveTarget, Holds
<1> QED
  BY <1>1, ClaimCorrect, PTL

-----------------------------------------------------------------------------
(* Nothing is lost: every session that lives on the service is accounted    *)
(* for, and every record by the attempt that made it.                       *)

\* Records and cleanups are under their own id, one of them at most, and a stop leads to its entry.
StoreInv ==
    /\ \A i \in Ids : session[i] # NoGen =>
          idOf[session[i]] = i /\ stop[session[i]] = "none" /\ cleanup[i] = NoGen
    /\ \A i \in Ids : cleanup[i] # NoGen =>
          idOf[cleanup[i]] = i /\ stop[cleanup[i]] \in {"pending", "acked", "released"}
    /\ \A g \in Gens : stop[g] # "none" => idOf[g] \in Ids /\ (stop[g] # "removed" => cleanup[idOf[g]] = g)
    /\ \A g \in Gens : idOf[g] \in Ids => maker[g] \in Attempts
    /\ LiveTokenIsStored

\* Its maker owns a resource until its stop is acknowledged.
OwnedInv == \A g \in Gens : Unstopped(g) => owned[maker[g]] = g

\* Nobody owns what another made.
MakerInv == \A a \in Attempts : owned[a] # NoGen => maker[owned[a]] = a

MadeBy(a) == {i \in Ids : session[i] # NoGen /\ maker[session[i]] = a}

\* An attempt creates when it has nothing left in the store, and no cleanup that may fail.
StepAt(a) ==
    /\ driver[a] \notin {"awaitCreate", "failed", "started"} => task[a] = "none"
    /\ \/ driver[a] \in {"idle", "resolving", "tracking", "ensuring", "clearing", "access", "recreatingJoined"}
       \/ task[a] \in {"sending", "inflight"}
       => MadeBy(a) = {}
    /\ task[a] \in {"recorded", "kept", "closing", "closingJoined", "ok"} => MadeBy(a) \subseteq {reply[a]}
    /\ driver[a] \in {"awaitReady", "recreating"} => MadeBy(a) \subseteq {sid[a]}
    /\ driver[a] \in {"recreating", "recreatingJoined"} => seen[a] # NoGen /\ idOf[seen[a]] = sid[a]
    /\ driver[a] = "recreatingJoined" => session[sid[a]] # seen[a]

StepInv == \A a \in Attempts : StepAt(a)

\* The pending cleanups of an attempt that is about to create are those it still has to clear.
ClearInv ==
    \A g \in Gens : stop[g] = "pending" =>
        /\ driver[maker[g]] # "access" /\ task[maker[g]] \notin {"sending", "inflight"}
        /\ driver[maker[g]] = "clearing" => idOf[g] \in pend[maker[g]] \/ joined[<<maker[g], "driver">>] = g

\* A canceller gives up only what has been stopped, and what it waited for stays the last create.
CancelAt(a) ==
    /\ canceller[a] # "idle" => a \in cancelled
    /\ canceller[a] \in {"checking", "checkCleanup", "closing", "closingJoined", "releasing", "returned"} =>
          task[a] \notin {"inflight", "recorded", "kept", "closing", "closingJoined"}
    /\ canceller[a] \in {"checkCleanup", "closing", "closingJoined"} => owned[a] \in {NoGen, held[a]}
    /\ canceller[a] = "closingJoined" /\ owned[a] # NoGen =>
          joined[<<a, "canceller">>] = owned[a] \/ ~Unstopped(owned[a])
    /\ canceller[a] = "releasing" /\ owned[a] # NoGen => ~Unstopped(owned[a])
    /\ canceller[a] = "returned" => MadeBy(a) = {}

CancelInv == \A a \in Attempts : CancelAt(a)

\* The id of an answer still to be read is nobody else's.
FlightInv ==
    \A a \in Attempts : task[a] = "inflight" /\ reply[a] # NoId =>
        /\ session[reply[a]] = NoGen /\ cleanup[reply[a]] = NoGen
        /\ remote[reply[a]] \in {NoTarget, TargetOf[a]}
        /\ \A b \in Attempts : task[b] = "inflight" /\ reply[b] = reply[a] => b = a

\* A target whose create was lost admits none.
LostAt(a) == TargetOf[a] \in unknown =>
    /\ task[a] # "inflight"
    /\ driver[a] \in {"clearing", "access"} \/ task[a] = "sending" => a \in cancelled

\* What lives on the service is of the target its record, or its cleanup, names.
NamedInv == \A i \in Ids : remote[i] # NoTarget =>
    /\ session[i] # NoGen => remote[i] = TargetOf[maker[session[i]]]
    /\ cleanup[i] # NoGen =>
          remote[i] = TargetOf[maker[cleanup[i]]] /\ stop[cleanup[i]] \notin {"acked", "released"}

LostInv == \A a \in Attempts : LostAt(a)

RemoteInv == NoOrphan /\ OneRemotePerTarget /\ NamedInv /\ LostInv

KeptInv ==
    StoreInv /\ OwnedInv /\ MakerInv /\ StepInv /\ ClearInv /\ CancelInv /\ FlightInv /\ RemoteInv

\* What a step does to the store, the cleanups and their owners: nothing, a close, or one of a few.
StoreStays == UNCHANGED <<storeVars, cleanup, stop, owned>>
Closes == \E i \in Ids, c \in BOOLEAN : CloseLocally(i, c) /\ UNCHANGED owned
Moves ==
    \/ \E a \in Attempts : \/ RecreateClosed(a) \/ CancelInspect(a) \/ CancelInspectCleanup(a) \/ CancelRelease(a)
                           \/ \E g \in Gens : CreateRecorded(a, g)
    \/ \E i \in Ids : MonitorFinds(i)
    \/ \E g \in Gens : StopAcked(g) \/ ReleaseOwner(g) \/ RemoveEntry(g)

LEMMA StoreMoves ==
  ASSUME TypeOK, StageInv, [Next]_vars PROVE StoreStays \/ Closes \/ Moves
<1>1. ASSUME NEW a \in Attempts, DriverStep(a) PROVE StoreStays \/ Closes \/ Moves
  <2>1. ASSUME NEW gone \in SUBSET Expired, StartSession(a, gone) PROVE StoreStays \/ Closes \/ Moves
    BY <2>1 DEF StoreStays, StartSession, DriverAt, CancellerAt, Begin, Kept, registryVars,
       storeVars, cleanupVars
  <2>2. ASSUME NEW gone \in SUBSET Expired, StartRefused(a, gone) PROVE StoreStays \/ Closes \/ Moves
    BY <2>2 DEF StoreStays, StartRefused, BeginRefused, Kept, registryVars, storeVars, cleanupVars
  <2>3. CASE RunFails(a)
    BY <2>3 DEF StoreStays, RunFails, DriverFails, DriverReturns, DriverAt, Finished, CancelScope,
       registryVars, storeVars, cleanupVars
  <2>4. CASE Resolved(a)
    BY <2>4 DEF StoreStays, Resolved, DriverGoes, DriverAt, registryVars, storeVars, cleanupVars
  <2>5. CASE Track(a)
    BY <2>5 DEF StoreStays, Track, DriverGoes, DriverAt, DriverFails, DriverReturns, Finished,
       CancelScope, registryVars, storeVars, cleanupVars
  <2>6. CASE EnsureTarget(a)
    BY <2>6 DEF StoreStays, EnsureTarget, DriverFails, DriverReturns, Finished, DriverAt,
       registryVars, storeVars, cleanupVars
  <2>7. ASSUME NEW i \in Ids, ClearPending(a, i) PROVE StoreStays \/ Closes \/ Moves
    <3>1. i \in Ids /\ CloseLocally(i, TRUE) /\ UNCHANGED owned
      BY <2>7 DEF ClearPending, Join, StageInv, registryVars
    <3> QED
      BY <3>1 DEF Closes
  <2>8. CASE PendingCleared(a)
    BY <2>8 DEF StoreStays, PendingCleared, Leave, Succeeded, registryVars, storeVars, cleanupVars
  <2>9. CASE PendingFailed(a)
    BY <2>9 DEF StoreStays, PendingFailed, Leave, DriverFails, DriverReturns, Finished, DriverAt,
       CloseFailed, registryVars, storeVars, cleanupVars
  <2>10. CASE TargetCleared(a)
    BY <2>10 DEF StoreStays, TargetCleared, DriverGoes, DriverAt, DriverFails, DriverReturns,
       Finished, registryVars, storeVars, cleanupVars
  <2>11. CASE SpawnCreate(a)
    BY <2>11 DEF StoreStays, SpawnCreate, TaskAt, DriverAt, registryVars, storeVars, cleanupVars
  <2>12. CASE CreateAbandoned(a)
    BY <2>12 DEF StoreStays, CreateAbandoned, DropResult, TaskAt, DriverFails, DriverReturns,
       Finished, DriverAt, CancelScope, registryVars, storeVars, cleanupVars
  <2>13. CASE CreateErred(a)
    BY <2>13 DEF StoreStays, CreateErred, DropResult, TaskAt, DriverFails, DriverReturns,
       Finished, DriverAt, registryVars, storeVars, cleanupVars
  <2>14. CASE Created(a)
    BY <2>14 DEF StoreStays, Created, DropResult, TaskAt, DriverAt, registryVars, storeVars,
       cleanupVars
  <2>15. CASE Ready(a)
    BY <2>15 DEF StoreStays, Ready, DriverAt, registryVars, storeVars, cleanupVars
  <2>16. CASE FetchReady(a)
    BY <2>16 DEF StoreStays, FetchReady, DriverReturns, Finished, DriverAt, registryVars,
       storeVars, cleanupVars
  <2>17. CASE ReadyFailed(a)
    BY <2>17 DEF StoreStays, ReadyFailed, DriverAt, registryVars, storeVars, cleanupVars
  <2>18. CASE RetryReady(a)
    BY <2>18 DEF StoreStays, RetryReady, DriverAt, registryVars, storeVars, cleanupVars
  <2>19. CASE RecreateClose(a)
    <3>1. sid[a] \in Ids /\ CloseLocally(sid[a], FALSE) /\ UNCHANGED owned
      BY <2>19 DEF RecreateClose, Join, StageInv, registryVars
    <3> QED
      BY <3>1 DEF Closes
  <2>20. CASE RecreateClosed(a)
    BY <2>20 DEF Moves
  <2>21. CASE DriverCloses(a)
    <3>1. sid[a] \in Ids /\ CloseLocally(sid[a], TRUE) /\ UNCHANGED owned
      BY <2>21 DEF DriverCloses, Join, StageInv, registryVars
    <3> QED
      BY <3>1 DEF Closes
  <2>22. CASE DriverClosed(a)
    BY <2>22 DEF StoreStays, DriverClosed, Leave, DriverFails, DriverReturns, Finished, DriverAt,
       registryVars, storeVars, cleanupVars
  <2> QED
    BY <1>1, <2>1, <2>2, <2>3, <2>4, <2>5, <2>6, <2>7, <2>8, <2>9, <2>10, <2>11, <2>12, <2>13,
       <2>14, <2>15, <2>16, <2>17, <2>18, <2>19, <2>20, <2>21, <2>22 DEF DriverStep
<1>2. ASSUME NEW a \in Attempts, TaskStep(a) PROVE StoreStays \/ Closes \/ Moves
  <2>1. CASE SendCreate(a)
    BY <2>1 DEF StoreStays, SendCreate, TaskAt, registryVars, storeVars, cleanupVars
  <2>2. CASE SendSkipped(a)
    BY <2>2 DEF StoreStays, SendSkipped, EndTask, TaskAt, registryVars, storeVars, cleanupVars
  <2>3. ASSUME NEW g \in Gens, CreateRecorded(a, g) PROVE StoreStays \/ Closes \/ Moves
    BY <2>3 DEF Moves
  <2>4. CASE CreateUnknown(a)
    BY <2>4 DEF StoreStays, CreateUnknown, TaskAt, registryVars, storeVars, cleanupVars
  <2>5. CASE CreateDenied(a)
    BY <2>5 DEF StoreStays, CreateDenied, EndTask, TaskAt, registryVars, storeVars, cleanupVars
  <2>6. CASE CreateRetried(a)
    BY <2>6 DEF StoreStays, CreateRetried, TaskAt, CancelScope, registryVars, storeVars, cleanupVars
  <2>7. CASE CreateKept(a)
    BY <2>7 DEF StoreStays, CreateKept, TaskAt, registryVars, storeVars, cleanupVars
  <2>8. CASE CreateReturns(a)
    BY <2>8 DEF StoreStays, CreateReturns, EndTask, TaskAt, registryVars, storeVars, cleanupVars
  <2>9. CASE CreateCancelled(a)
    BY <2>9 DEF StoreStays, CreateCancelled, TaskAt, registryVars, storeVars, cleanupVars
  <2>10. CASE TaskCloses(a)
    <3>1. reply[a] \in Ids /\ CloseLocally(reply[a], TRUE) /\ UNCHANGED owned
      BY <2>10 DEF TaskCloses, Join, StageInv, registryVars
    <3> QED
      BY <3>1 DEF Closes
  <2>11. CASE TaskClosed(a)
    BY <2>11 DEF StoreStays, TaskClosed, Leave, EndTask, TaskAt, registryVars, storeVars,
       cleanupVars
  <2>12. CASE LostCreateEnds(a)
    BY <2>12 DEF StoreStays, LostCreateEnds, EndTask, TaskAt, registryVars, storeVars, cleanupVars
  <2> QED
    BY <1>2, <2>1, <2>2, <2>3, <2>4, <2>5, <2>6, <2>7, <2>8, <2>9, <2>10, <2>11, <2>12 DEF TaskStep
<1>3. ASSUME NEW a \in Attempts, CancellerStep(a) PROVE StoreStays \/ Closes \/ Moves
  <2>1. ASSUME NEW gone \in SUBSET Expired, CancelStartup(a, gone) PROVE StoreStays \/ Closes \/ Moves
    BY <2>1 DEF StoreStays, CancelStartup, CancellerAt, Cancel, Kept, registryVars, storeVars,
       cleanupVars
  <2>2. CASE CreationSettled(a)
    BY <2>2 DEF StoreStays, CreationSettled, Finished, CancellerAt, registryVars, storeVars,
       cleanupVars
  <2>3. CASE SettleTimedOut(a)
    BY <2>3 DEF StoreStays, SettleTimedOut, CancellerAt, registryVars, storeVars, cleanupVars
  <2>4. CASE CancelInspect(a)
    BY <2>4 DEF Moves
  <2>5. CASE CancelInspectCleanup(a)
    BY <2>5 DEF Moves
  <2>6. CASE CancellerCloses(a)
    <3>1. idOf[held[a]] \in Ids /\ CloseLocally(idOf[held[a]], TRUE) /\ UNCHANGED owned
      BY <2>6 DEF CancellerCloses, Join, StageInv, registryVars
    <3> QED
      BY <3>1 DEF Closes
  <2>7. CASE CancellerClosed(a)
    BY <2>7 DEF StoreStays, CancellerClosed, Leave, CloseFailed, CancellerAt, registryVars,
       storeVars, cleanupVars
  <2>8. CASE CancelRelease(a)
    BY <2>8 DEF Moves
  <2> QED
    BY <1>3, <2>1, <2>2, <2>3, <2>4, <2>5, <2>6, <2>7, <2>8 DEF CancellerStep
<1>4. ASSUME NEW g \in Gens, CleanupStep(g) PROVE StoreStays \/ Closes \/ Moves
  <2>1. CASE CancelOwner(g)
    BY <2>1 DEF StoreStays, CancelOwner, CancelOwners, OwnersOf, registryVars, storeVars,
       cleanupVars
  <2>2. CASE StopAcked(g)
    BY <2>2 DEF Moves
  <2>3. CASE ReleaseOwner(g)
    BY <2>3 DEF Moves
  <2>4. CASE RemoveEntry(g)
    BY <2>4 DEF Moves
  <2> QED
    BY <1>4, <2>1, <2>2, <2>3, <2>4 DEF CleanupStep
<1>5. CASE Environment
  <2>1. ASSUME NEW i \in Ids, UserClose(i) PROVE StoreStays \/ Closes \/ Moves
    <3>1. i \in Ids /\ CloseLocally(i, TRUE) /\ UNCHANGED owned
      BY <2>1 DEF UserClose, Join, StageInv, registryVars
    <3> QED
      BY <3>1 DEF Closes
  <2>2. ASSUME NEW i \in Ids, MonitorFinds(i) PROVE StoreStays \/ Closes \/ Moves
    BY <2>2 DEF Moves
  <2>3. ASSUME NEW i \in Ids, ServiceEnds(i) PROVE StoreStays \/ Closes \/ Moves
    BY <2>3 DEF StoreStays, ServiceEnds, registryVars, storeVars, cleanupVars
  <2>4. ASSUME NEW a \in Attempts, NEW i \in Ids, ServiceCreates(a, i) PROVE StoreStays \/ Closes \/ Moves
    BY <2>4 DEF StoreStays, ServiceCreates, registryVars, storeVars, cleanupVars
  <2> QED
    BY <1>5, <2>1, <2>2, <2>3, <2>4 DEF Environment
<1>6. CASE ShutdownStep
  <2>1. CASE BeginShutdown
    BY <2>1 DEF StoreStays, BeginShutdown, Shutdown, registryVars, storeVars, cleanupVars
  <2>2. ASSUME NEW i \in Ids, ShutdownCloses(i) PROVE StoreStays \/ Closes \/ Moves
    <3>1. i \in Ids /\ CloseLocally(i, TRUE) /\ UNCHANGED owned
      BY <2>2 DEF ShutdownCloses, Join, StageInv, registryVars
    <3> QED
      BY <3>1 DEF Closes
  <2>3. ASSUME NEW g \in Gens, ShutdownCloseReturns(g) PROVE StoreStays \/ Closes \/ Moves
    BY <2>3 DEF StoreStays, ShutdownCloseReturns, registryVars, storeVars, cleanupVars
  <2>4. CASE ShutdownSwept
    BY <2>4 DEF StoreStays, ShutdownSwept, registryVars, storeVars, cleanupVars
  <2>5. CASE ShutdownEnds
    BY <2>5 DEF StoreStays, ShutdownEnds, registryVars, storeVars, cleanupVars
  <2>6. CASE ShutdownExpires
    BY <2>6 DEF StoreStays, ShutdownExpires, registryVars, storeVars, cleanupVars
  <2> QED
    BY <1>6, <2>1, <2>2, <2>3, <2>4, <2>5, <2>6 DEF ShutdownStep
<1>7. CASE UNCHANGED vars
  BY <1>7 DEF StoreStays, vars, registryVars, storeVars, cleanupVars
<1> QED
  BY <1>1, <1>2, <1>3, <1>4, <1>5, <1>6, <1>7 DEF Next

LEMMA CloseMoves ==
  ASSUME TypeOK, NEW i \in Ids, NEW c \in BOOLEAN, CloseLocally(i, c)
  PROVE  /\ UNCHANGED <<idOf, maker>>
         /\ \/ UNCHANGED <<session, dead, cleanup, stop>>
            \/ /\ session[i] \in Gens /\ cleanup[i] = NoGen
               /\ session' = [session EXCEPT ![i] = NoGen]
               /\ cleanup' = [cleanup EXCEPT ![i] = session[i]]
               /\ stop' = [stop EXCEPT ![session[i]] = "pending"]
               /\ dead' = dead \cup {session[i]}
  BY RegistryAssumption DEF CloseLocally, Closing, Revoked, TypeOK, LifecycleTypeOK, Gen

\* Records and cleanups keep to their own id.
LEMMA StoreStep ==
  ASSUME TypeOK, StageInv, StoreInv, FlightInv, [Next]_vars PROVE StoreInv'
<1> USE RegistryAssumption, LifecycleAssumption
    DEF TypeOK, LifecycleTypeOK, Gen, Id, StoreInv, LiveTokenIsStored
<1>1. CASE StoreStays
  BY <1>1 DEF StoreStays, storeVars
<1>2. ASSUME NEW i \in Ids, NEW c \in BOOLEAN, CloseLocally(i, c) PROVE StoreInv'
  <2>1. CASE UNCHANGED <<session, dead, cleanup, stop>>
    BY <1>2, <2>1, CloseMoves
  <2>2. CASE ~UNCHANGED <<session, dead, cleanup, stop>>
    <3>1. /\ UNCHANGED <<idOf, maker>>
          /\ session[i] \in Gens /\ cleanup[i] = NoGen
          /\ session' = [session EXCEPT ![i] = NoGen]
          /\ cleanup' = [cleanup EXCEPT ![i] = session[i]]
          /\ stop' = [stop EXCEPT ![session[i]] = "pending"]
          /\ dead' = dead \cup {session[i]}
      BY <1>2, <2>2, CloseMoves
    <3> QED
      BY <3>1
  <2> QED
    BY <2>1, <2>2
<1>3. ASSUME NEW a \in Attempts, RecreateClosed(a) PROVE StoreInv'
  BY <1>3 DEF RecreateClosed, Revoked, cleanupVars, StageInv
<1>4. ASSUME NEW a \in Attempts, NEW g \in Gens, CreateRecorded(a, g) PROVE StoreInv'
  <2>1. /\ reply[a] \in Ids /\ session[reply[a]] = NoGen /\ cleanup[reply[a]] = NoGen /\ idOf[g] = NoId
        /\ idOf' = [idOf EXCEPT ![g] = reply[a]] /\ maker' = [maker EXCEPT ![g] = a]
        /\ session' = [session EXCEPT ![reply[a]] = g]
        /\ UNCHANGED <<cleanup, stop>>
    BY <1>4 DEF CreateRecorded, cleanupVars, FlightInv
  <2>2. dead' = dead
    BY <1>4, <2>1 DEF CreateRecorded, Revoked
  <2>3. stop[g] = "none"
    BY <2>1
  <2>4. \A i \in Ids : session'[i] # NoGen =>
           idOf'[session'[i]] = i /\ stop'[session'[i]] = "none" /\ cleanup'[i] = NoGen
    BY <2>1, <2>3
  <2>5. \A i \in Ids : cleanup'[i] # NoGen =>
           idOf'[cleanup'[i]] = i /\ stop'[cleanup'[i]] \in {"pending", "acked", "released"}
    BY <2>1
  <2>6. \A h \in Gens : stop'[h] # "none" => idOf'[h] \in Ids /\ (stop'[h] # "removed" => cleanup'[idOf'[h]] = h)
    BY <2>1, <2>3
  <2>7. \A h \in Gens : idOf'[h] \in Ids => maker'[h] \in Attempts
    BY <2>1
  <2>8. \A h \in Gens : idOf'[h] # NoId /\ h \notin dead' => session'[idOf'[h]] = h
    BY <2>1, <2>2
  <2> QED
    BY <2>4, <2>5, <2>6, <2>7, <2>8
<1>5. ASSUME NEW a \in Attempts, CancelInspect(a) \/ CancelInspectCleanup(a) \/ CancelRelease(a) PROVE StoreInv'
  BY <1>5 DEF CancelInspect, CancelInspectCleanup, CancelRelease, storeVars, cleanupVars
<1>6. ASSUME NEW i \in Ids, MonitorFinds(i) PROVE StoreInv'
  BY <1>6 DEF MonitorFinds, cleanupVars
<1>7. ASSUME NEW g \in Gens, StopAcked(g) PROVE StoreInv'
  BY <1>7 DEF StopAcked, storeVars
<1>8. ASSUME NEW g \in Gens, ReleaseOwner(g) PROVE StoreInv'
  BY <1>8 DEF ReleaseOwner, storeVars
<1>9. ASSUME NEW g \in Gens, RemoveEntry(g) PROVE StoreInv'
  BY <1>9 DEF RemoveEntry, storeVars
<1> QED
  BY <1>1, <1>2, <1>3, <1>4, <1>5, <1>6, <1>7, <1>8, <1>9, StoreMoves DEF Closes, Moves

\* What a recorded resource keeps: its id, its maker, and that it was stopped.
LEMMA StoppedStays ==
  ASSUME TypeOK, StageInv, StoreInv, FlightInv, [Next]_vars, NEW h \in Gens, idOf[h] # NoId
  PROVE  /\ idOf'[h] = idOf[h] /\ maker'[h] = maker[h]
         /\ session'[idOf[h]] = h => session[idOf[h]] = h
         /\ Unstopped(h)' => Unstopped(h)
<1> USE RegistryAssumption, LifecycleAssumption
    DEF TypeOK, LifecycleTypeOK, Gen, Id, StoreInv, Unstopped
<1> DEFINE Stays == /\ idOf'[h] = idOf[h] /\ maker'[h] = maker[h]
                    /\ session'[idOf[h]] = h => session[idOf[h]] = h
                    /\ Unstopped(h)' => Unstopped(h)
<1>1. CASE StoreStays
  BY <1>1 DEF StoreStays, storeVars
<1>2. ASSUME NEW i \in Ids, NEW c \in BOOLEAN, CloseLocally(i, c) PROVE Stays
  BY <1>2, CloseMoves
<1>3. ASSUME NEW a \in Attempts, RecreateClosed(a) PROVE Stays
  BY <1>3 DEF RecreateClosed, cleanupVars, StageInv
<1>4. ASSUME NEW a \in Attempts, NEW g \in Gens, CreateRecorded(a, g) PROVE Stays
  BY <1>4 DEF CreateRecorded, cleanupVars, FlightInv
<1>5. ASSUME NEW a \in Attempts, CancelInspect(a) \/ CancelInspectCleanup(a) \/ CancelRelease(a) PROVE Stays
  BY <1>5 DEF CancelInspect, CancelInspectCleanup, CancelRelease, storeVars, cleanupVars
<1>6. ASSUME NEW i \in Ids, MonitorFinds(i) PROVE Stays
  BY <1>6 DEF MonitorFinds, cleanupVars
<1>7. ASSUME NEW g \in Gens, StopAcked(g) \/ ReleaseOwner(g) \/ RemoveEntry(g) PROVE Stays
  BY <1>7 DEF StopAcked, ReleaseOwner, RemoveEntry, storeVars
<1> QED
  BY <1>1, <1>2, <1>3, <1>4, <1>5, <1>6, <1>7, StoreMoves DEF Closes, Moves

\* The records of an attempt grow by nothing but its own create.
LEMMA MadeByShrinks ==
  ASSUME TypeOK, StageInv, StoreInv, FlightInv, [Next]_vars, NEW a \in Attempts
  PROVE  \/ MadeBy(a)' \subseteq MadeBy(a)
         \/ /\ task[a] = "inflight" /\ task'[a] = "recorded" /\ reply' = reply
            /\ MadeBy(a)' \subseteq MadeBy(a) \cup {reply[a]}
<1> USE RegistryAssumption, LifecycleAssumption
    DEF TypeOK, LifecycleTypeOK, Gen, Id, StoreInv, MadeBy
<1> DEFINE Shrinks == \/ MadeBy(a)' \subseteq MadeBy(a)
                      \/ /\ task[a] = "inflight" /\ task'[a] = "recorded" /\ reply' = reply
                         /\ MadeBy(a)' \subseteq MadeBy(a) \cup {reply[a]}
<1>1. CASE StoreStays
  BY <1>1 DEF StoreStays, storeVars
<1>2. ASSUME NEW i \in Ids, NEW c \in BOOLEAN, CloseLocally(i, c) PROVE Shrinks
  BY <1>2, CloseMoves
<1>3. ASSUME NEW b \in Attempts, RecreateClosed(b) PROVE Shrinks
  BY <1>3 DEF RecreateClosed, cleanupVars, StageInv
<1>4. ASSUME NEW b \in Attempts, NEW g \in Gens, CreateRecorded(b, g) PROVE Shrinks
  <2>1. CASE b # a
    BY <1>4, <2>1 DEF CreateRecorded
  <2>2. CASE b = a
    BY <1>4, <2>2 DEF CreateRecorded, TaskAt
  <2> QED
    BY <2>1, <2>2
<1>5. ASSUME NEW b \in Attempts, CancelInspect(b) \/ CancelInspectCleanup(b) \/ CancelRelease(b) PROVE Shrinks
  BY <1>5 DEF CancelInspect, CancelInspectCleanup, CancelRelease, storeVars, cleanupVars
<1>6. ASSUME NEW i \in Ids, MonitorFinds(i) PROVE Shrinks
  BY <1>6 DEF MonitorFinds, cleanupVars
<1>7. ASSUME NEW g \in Gens, StopAcked(g) \/ ReleaseOwner(g) \/ RemoveEntry(g) PROVE Shrinks
  BY <1>7 DEF StopAcked, ReleaseOwner, RemoveEntry, storeVars
<1> QED
  BY <1>1, <1>2, <1>3, <1>4, <1>5, <1>6, <1>7, StoreMoves DEF Closes, Moves

\* A stop that becomes pending is of what was stored.
LEMMA PendingWasStored ==
  ASSUME TypeOK, StageInv, StoreInv, FlightInv, [Next]_vars, NEW g \in Gens, stop'[g] = "pending"
  PROVE  /\ idOf[g] \in Ids /\ maker[g] \in Attempts /\ maker'[g] = maker[g] /\ idOf'[g] = idOf[g]
         /\ stop[g] = "pending" \/ MadeBy(maker[g]) # {}
<1> USE RegistryAssumption, LifecycleAssumption
    DEF TypeOK, LifecycleTypeOK, Gen, Id, StoreInv, MadeBy
<1> DEFINE Was == idOf[g] \in Ids /\ (stop[g] = "pending" \/ MadeBy(maker[g]) # {})
<1>1. CASE StoreStays
  BY <1>1 DEF StoreStays, storeVars
<1>2. ASSUME NEW i \in Ids, NEW c \in BOOLEAN, CloseLocally(i, c) PROVE Was
  BY <1>2, CloseMoves
<1>3. ASSUME NEW a \in Attempts, \/ RecreateClosed(a) \/ CancelInspect(a) \/ CancelInspectCleanup(a) \/ CancelRelease(a)
                                 \/ \E h \in Gens : CreateRecorded(a, h)
      PROVE  Was
  BY <1>3 DEF RecreateClosed, CancelInspect, CancelInspectCleanup, CancelRelease, CreateRecorded,
     cleanupVars
<1>4. ASSUME NEW i \in Ids, MonitorFinds(i) PROVE Was
  BY <1>4 DEF MonitorFinds, cleanupVars
<1>5. ASSUME NEW h \in Gens, StopAcked(h) \/ ReleaseOwner(h) \/ RemoveEntry(h) PROVE Was
  BY <1>5 DEF StopAcked, ReleaseOwner, RemoveEntry
<1>6. Was
  BY <1>1, <1>2, <1>3, <1>4, <1>5, StoreMoves DEF Closes, Moves
<1> QED
  BY <1>6, StoppedStays

\* A resource stays its maker's until it was stopped.
LEMMA OwnedStep ==
  ASSUME TypeOK, StageInv, StoreInv, OwnedInv, StepInv, ClearInv, CancelInv, FlightInv, [Next]_vars
  PROVE  OwnedInv'
<1> SUFFICES ASSUME NEW h \in Gens, Unstopped(h)' PROVE owned'[maker'[h]] = h
  BY DEF OwnedInv
<1> USE RegistryAssumption, LifecycleAssumption DEF TypeOK, RegistryTypeOK, LifecycleTypeOK, Gen, Id
<1>1. ASSUME NEW a \in Attempts, CreateRecorded(a, h) PROVE owned'[maker'[h]] = h
  BY <1>1 DEF CreateRecorded
<1>2. CASE idOf[h] = NoId
  <2>1. idOf'[h] # NoId
    BY DEF Unstopped
  <2>2. PICK a \in Attempts, g \in Gens : CreateRecorded(a, g)
    BY <1>2, <2>1, StoreMoves, CloseMoves
       DEF StoreStays, storeVars, Closes, Moves, RecreateClosed, CancelInspect,
       CancelInspectCleanup, CancelRelease,
           MonitorFinds, StopAcked, ReleaseOwner, RemoveEntry
  <2>3. idOf' = [idOf EXCEPT ![g] = reply[a]]
    BY <2>2 DEF CreateRecorded
  <2>4. g = h
    BY <1>2, <2>1, <2>3
  <2> QED
    BY <2>2, <2>4, <1>1
<1>3. CASE idOf[h] # NoId
  <2>1. Unstopped(h) /\ maker'[h] = maker[h] /\ maker[h] \in Attempts /\ owned[maker[h]] = h
    BY <1>3, StoppedStays DEF OwnedInv, StoreInv
  <2>2. CASE StoreStays \/ Closes
    BY <2>1, <2>2 DEF StoreStays, Closes
  <2>3. ASSUME NEW a \in Attempts, RecreateClosed(a) PROVE owned'[maker[h]] = h
    BY <2>1, <2>3 DEF RecreateClosed, registryVars
  <2>4. ASSUME NEW a \in Attempts, NEW g \in Gens, CreateRecorded(a, g) PROVE owned'[maker[h]] = h
    <3>1. task[a] = "inflight" /\ owned' = [owned EXCEPT ![a] = g]
      BY <2>4 DEF CreateRecorded
    <3>2. maker[h] # a
      <4>1. CASE session[idOf[h]] = h
        <5>1. idOf[h] \in MadeBy(maker[h])
          BY <1>3, <4>1 DEF MadeBy
        <5> QED
          BY <2>1, <3>1, <5>1 DEF StepInv, StepAt
      <4>2. CASE stop[h] = "pending"
        BY <3>1, <4>2 DEF ClearInv
      <4> QED
        BY <2>1, <4>1, <4>2 DEF Unstopped
    <3> QED
      BY <2>1, <3>1, <3>2
  <2>5. ASSUME NEW a \in Attempts, CancelInspect(a) PROVE owned'[maker[h]] = h
    <3>1. \/ owned' = owned
          \/ session[idOf[owned[a]]] \notin {NoGen, owned[a]} /\ owned' = [owned EXCEPT ![a] = NoGen]
      BY <2>5 DEF CancelInspect
    <3>2. session[idOf[h]] \notin {NoGen, h} => FALSE
      BY <2>1 DEF Unstopped, StoreInv
    <3> QED
      BY <2>1, <3>1, <3>2
  <2>6. ASSUME NEW a \in Attempts, CancelInspectCleanup(a) PROVE owned'[maker[h]] = h
    <3>1. \/ owned' = owned
          \/ cleanup[idOf[held[a]]] \notin {NoGen, held[a]} /\ owned' = [owned EXCEPT ![a] = NoGen]
      BY <2>6 DEF CancelInspectCleanup
    <3>2. owned[a] \in {NoGen, held[a]}
      BY <2>6 DEF CancelInspectCleanup, CancelInv, CancelAt
    <3>3. cleanup[idOf[h]] \notin {NoGen, h} => FALSE
      BY <2>1 DEF Unstopped, StoreInv
    <3> QED
      BY <2>1, <3>1, <3>2, <3>3
  <2>7. ASSUME NEW a \in Attempts, CancelRelease(a) PROVE owned'[maker[h]] = h
    BY <2>1, <2>7 DEF CancelRelease, CancelInv, CancelAt
  <2>8. ASSUME NEW i \in Ids, MonitorFinds(i) PROVE owned'[maker[h]] = h
    BY <2>1, <2>8 DEF MonitorFinds, registryVars
  <2>9. ASSUME NEW g \in Gens, StopAcked(g) \/ RemoveEntry(g) PROVE owned'[maker[h]] = h
    BY <2>1, <2>9 DEF StopAcked, RemoveEntry, registryVars
  <2>10. ASSUME NEW g \in Gens, ReleaseOwner(g) PROVE owned'[maker[h]] = h
    <3>1. stop[g] = "acked" /\ stop[h] \in {"none", "pending"}
      BY <2>1, <2>10 DEF ReleaseOwner, Unstopped, StoreInv
    <3> QED
      BY <2>1, <2>10, <3>1 DEF ReleaseOwner, ReleaseOwners
  <2> QED
    BY <2>1, <2>2, <2>3, <2>4, <2>5, <2>6, <2>7, <2>8, <2>9, <2>10, StoreMoves DEF Moves
<1> QED
  BY <1>2, <1>3

\* Nobody owns what another made.
LEMMA MakerStep ==
  ASSUME TypeOK, StageInv, MakerInv, [Next]_vars PROVE MakerInv'
<1> SUFFICES ASSUME NEW b \in Attempts, owned'[b] # NoGen PROVE maker'[owned'[b]] = b
  BY DEF MakerInv
<1> USE RegistryAssumption, LifecycleAssumption
    DEF TypeOK, RegistryTypeOK, LifecycleTypeOK, Gen, Id, MakerInv
<1>1. CASE UNCHANGED maker /\ owned'[b] \in {owned[b], NoGen}
  BY <1>1
<1>2. ASSUME NEW i \in Ids, NEW c \in BOOLEAN, CloseLocally(i, c), UNCHANGED owned PROVE maker'[owned'[b]] = b
  BY <1>1, <1>2, CloseMoves
<1>3. ASSUME NEW a \in Attempts, NEW g \in Gens, CreateRecorded(a, g) PROVE maker'[owned'[b]] = b
  <2>1. /\ idOf[g] = NoId /\ maker' = [maker EXCEPT ![g] = a] /\ owned' = [owned EXCEPT ![a] = g]
    BY <1>3 DEF CreateRecorded
  <2>2. owned[b] # NoGen => owned[b] # g
    BY <2>1 DEF StageInv
  <2> QED
    BY <2>1, <2>2
<1>4. ASSUME NEW a \in Attempts, RecreateClosed(a) \/ CancelInspect(a) \/ CancelInspectCleanup(a) \/ CancelRelease(a)
      PROVE  maker'[owned'[b]] = b
  BY <1>1, <1>4 DEF RecreateClosed, CancelInspect, CancelInspectCleanup, CancelRelease,
     registryVars, storeVars
<1>5. ASSUME NEW i \in Ids, MonitorFinds(i) PROVE maker'[owned'[b]] = b
  BY <1>1, <1>5 DEF MonitorFinds, registryVars
<1>6. ASSUME NEW g \in Gens, StopAcked(g) \/ ReleaseOwner(g) \/ RemoveEntry(g) PROVE maker'[owned'[b]] = b
  BY <1>1, <1>6 DEF StopAcked, ReleaseOwner, ReleaseOwners, RemoveEntry, registryVars, storeVars
<1>7. CASE StoreStays
  BY <1>1, <1>7 DEF StoreStays, storeVars
<1> QED
  BY <1>2, <1>3, <1>4, <1>5, <1>6, <1>7, StoreMoves DEF Closes, Moves

\* An attempt creates only when it has nothing left in the store.
LEMMA StepStep ==
  ASSUME TypeOK, StageInv, StoreInv, StepInv, FlightInv, [Next]_vars PROVE StepInv'
<1> SUFFICES ASSUME NEW b \in Attempts PROVE StepAt(b)'
  BY DEF StepInv
<1> USE RegistryAssumption, LifecycleAssumption
    DEF TypeOK, RegistryTypeOK, LifecycleTypeOK, Gen, Id, DriverStages, TaskStages, StepAt
<1>0. /\ StepAt(b)
      /\ \/ MadeBy(b)' \subseteq MadeBy(b)
         \/ /\ task[b] = "inflight" /\ task'[b] = "recorded" /\ reply' = reply
            /\ MadeBy(b)' \subseteq MadeBy(b) \cup {reply[b]}
  BY MadeByShrinks DEF StepInv
<1>9. driver[b] \in {"recreating", "recreatingJoined"} =>
         idOf'[seen[b]] = sid[b] /\ (session'[sid[b]] = seen[b] => session[sid[b]] = seen[b])
  BY <1>0, StoppedStays DEF StageInv
<1>1. ASSUME NEW a \in Attempts, DriverStep(a) PROVE StepAt(b)'
  <2>1. ASSUME NEW gone \in SUBSET Expired, StartSession(a, gone) PROVE StepAt(b)'
    BY <2>1, <1>0, <1>9 DEF StartSession, DriverAt, CancellerAt, Begin, Kept, registryVars,
       driverVars, taskVars
  <2>2. ASSUME NEW gone \in SUBSET Expired, StartRefused(a, gone) PROVE StepAt(b)'
    BY <2>2, <1>0, <1>9 DEF StartRefused, BeginRefused, Kept, registryVars, driverVars, taskVars
  <2>3. CASE RunFails(a)
    BY <2>3, <1>0, <1>9 DEF RunFails, DriverFails, DriverReturns, DriverAt, Finished, CancelScope,
       registryVars, driverVars, taskVars
  <2>4. CASE Resolved(a)
    BY <2>4, <1>0, <1>9 DEF Resolved, DriverGoes, DriverAt, registryVars, driverVars, taskVars
  <2>5. CASE Track(a)
    BY <2>5, <1>0, <1>9 DEF Track, DriverGoes, DriverAt, DriverFails, DriverReturns, Finished,
       CancelScope, registryVars, driverVars, taskVars
  <2>6. CASE EnsureTarget(a)
    BY <2>6, <1>0, <1>9 DEF EnsureTarget, DriverFails, DriverReturns, Finished, DriverAt,
       registryVars, driverVars, taskVars
  <2>7. ASSUME NEW i \in Ids, ClearPending(a, i) PROVE StepAt(b)'
    BY <2>7, <1>0, <1>9 DEF ClearPending, Join, registryVars, driverVars, taskVars
  <2>8. CASE PendingCleared(a)
    BY <2>8, <1>0, <1>9 DEF PendingCleared, Leave, Succeeded, registryVars, driverVars, taskVars
  <2>9. CASE PendingFailed(a)
    BY <2>9, <1>0, <1>9 DEF PendingFailed, Leave, DriverFails, DriverReturns, Finished, DriverAt,
       CloseFailed, registryVars, driverVars, taskVars
  <2>10. CASE TargetCleared(a)
    BY <2>10, <1>0, <1>9 DEF TargetCleared, DriverGoes, DriverAt, DriverFails, DriverReturns,
       Finished, registryVars, driverVars, taskVars
  <2>11. CASE SpawnCreate(a)
    BY <2>11, <1>0, <1>9 DEF SpawnCreate, TaskAt, DriverAt, registryVars, driverVars, taskVars
  <2>12. CASE CreateAbandoned(a)
    BY <2>12, <1>0, <1>9 DEF CreateAbandoned, DropResult, TaskAt, DriverFails, DriverReturns,
       Finished, DriverAt, CancelScope, registryVars, driverVars, taskVars
  <2>13. CASE CreateErred(a)
    BY <2>13, <1>0, <1>9 DEF CreateErred, DropResult, TaskAt, DriverFails, DriverReturns,
       Finished, DriverAt, registryVars, driverVars, taskVars
  <2>14. CASE Created(a)
    BY <2>14, <1>0, <1>9 DEF Created, DropResult, TaskAt, DriverAt, registryVars, driverVars,
       taskVars
  <2>15. CASE Ready(a)
    BY <2>15, <1>0, <1>9 DEF Ready, DriverAt, registryVars, driverVars, taskVars
  <2>16. CASE FetchReady(a)
    BY <2>16, <1>0, <1>9 DEF FetchReady, DriverReturns, Finished, DriverAt, registryVars,
       driverVars, taskVars
  <2>17. CASE ReadyFailed(a)
    BY <2>17, <1>0, <1>9 DEF ReadyFailed, DriverAt, registryVars, driverVars, taskVars
  <2>18. CASE RetryReady(a)
    <3>1. b = a => session[sid[b]] \in Gens /\ idOf[session[sid[b]]] = sid[b]
      BY <2>18 DEF RetryReady, StageInv, StoreInv
    <3> QED
      BY <2>18, <1>0, <1>9, <3>1 DEF RetryReady, DriverAt, registryVars, driverVars, taskVars,
         storeVars
  <2>19. CASE RecreateClose(a)
    <3>1. driver[a] = "recreating" /\ driver' = [driver EXCEPT ![a] = "recreatingJoined"] /\ sid[a] \in Ids
          /\ UNCHANGED <<sid, seen, task, reply>> /\ CloseLocally(sid[a], FALSE)
      BY <2>19 DEF RecreateClose, Join, DriverAt, taskVars, StageInv
    <3>2. session'[sid[a]] = NoGen
      BY <3>1, CloseMoves DEF CloseLocally, Closing, StoreInv
    <3>3. b = a => MadeBy(b)' = {}
      BY <1>0, <3>1, <3>2 DEF MadeBy
    <3> QED
      BY <1>0, <1>9, <3>1, <3>2, <3>3
  <2>20. CASE RecreateClosed(a)
    BY <2>20, <1>0, <1>9 DEF RecreateClosed, Leave, DriverAt, registryVars, driverVars, taskVars
  <2>21. CASE DriverCloses(a)
    BY <2>21, <1>0, <1>9 DEF DriverCloses, Join, DriverAt, registryVars, driverVars, taskVars
  <2>22. CASE DriverClosed(a)
    BY <2>22, <1>0, <1>9 DEF DriverClosed, Leave, DriverFails, DriverReturns, Finished, DriverAt,
       registryVars, driverVars, taskVars
  <2> QED
    BY <1>1, <2>1, <2>2, <2>3, <2>4, <2>5, <2>6, <2>7, <2>8, <2>9, <2>10, <2>11, <2>12, <2>13,
       <2>14, <2>15, <2>16, <2>17, <2>18, <2>19, <2>20, <2>21, <2>22 DEF DriverStep
<1>2. ASSUME NEW a \in Attempts, TaskStep(a) PROVE StepAt(b)'
  <2>1. CASE SendCreate(a)
    BY <2>1, <1>0, <1>9 DEF SendCreate, TaskAt, registryVars, driverVars, taskVars
  <2>2. CASE SendSkipped(a)
    BY <2>2, <1>0, <1>9 DEF SendSkipped, EndTask, TaskAt, registryVars, driverVars, taskVars
  <2>3. ASSUME NEW g \in Gens, CreateRecorded(a, g) PROVE StepAt(b)'
    BY <2>3, <1>0, <1>9 DEF CreateRecorded, TaskAt, taskVars, driverVars, cleanupVars
  <2>4. CASE CreateUnknown(a)
    BY <2>4, <1>0, <1>9 DEF CreateUnknown, TaskAt, registryVars, driverVars, taskVars
  <2>5. CASE CreateDenied(a)
    BY <2>5, <1>0, <1>9 DEF CreateDenied, EndTask, TaskAt, registryVars, driverVars, taskVars
  <2>6. CASE CreateRetried(a)
    BY <2>6, <1>0, <1>9 DEF CreateRetried, TaskAt, CancelScope, registryVars, driverVars, taskVars
  <2>7. CASE CreateKept(a)
    BY <2>7, <1>0, <1>9 DEF CreateKept, TaskAt, registryVars, driverVars, taskVars
  <2>8. CASE CreateReturns(a)
    BY <2>8, <1>0, <1>9 DEF CreateReturns, EndTask, TaskAt, registryVars, driverVars, taskVars
  <2>9. CASE CreateCancelled(a)
    BY <2>9, <1>0, <1>9 DEF CreateCancelled, TaskAt, registryVars, driverVars, taskVars
  <2>10. CASE TaskCloses(a)
    BY <2>10, <1>0, <1>9 DEF TaskCloses, TaskAt, Join, registryVars, driverVars, taskVars
  <2>11. CASE TaskClosed(a)
    BY <2>11, <1>0, <1>9 DEF TaskClosed, Leave, EndTask, TaskAt, registryVars, driverVars, taskVars
  <2>12. CASE LostCreateEnds(a)
    BY <2>12, <1>0, <1>9 DEF LostCreateEnds, EndTask, TaskAt, registryVars, driverVars, taskVars
  <2> QED
    BY <1>2, <2>1, <2>2, <2>3, <2>4, <2>5, <2>6, <2>7, <2>8, <2>9, <2>10, <2>11, <2>12 DEF TaskStep
<1>3. ASSUME NEW a \in Attempts, CancellerStep(a) PROVE StepAt(b)'
  <2>1. ASSUME NEW gone \in SUBSET Expired, CancelStartup(a, gone) PROVE StepAt(b)'
    BY <2>1, <1>0, <1>9 DEF CancelStartup, CancellerAt, Cancel, Kept, registryVars, driverVars,
       taskVars
  <2>2. CASE CreationSettled(a)
    BY <2>2, <1>0, <1>9 DEF CreationSettled, Finished, CancellerAt, registryVars, driverVars,
       taskVars
  <2>3. CASE SettleTimedOut(a)
    BY <2>3, <1>0, <1>9 DEF SettleTimedOut, CancellerAt, registryVars, driverVars, taskVars
  <2>4. CASE CancelInspect(a)
    BY <2>4, <1>0, <1>9 DEF CancelInspect, CancellerAt, registryVars, driverVars, taskVars
  <2>5. CASE CancelInspectCleanup(a)
    BY <2>5, <1>0, <1>9 DEF CancelInspectCleanup, CancellerAt, registryVars, driverVars, taskVars
  <2>6. CASE CancellerCloses(a)
    BY <2>6, <1>0, <1>9 DEF CancellerCloses, Join, CancellerAt, registryVars, driverVars, taskVars
  <2>7. CASE CancellerClosed(a)
    BY <2>7, <1>0, <1>9 DEF CancellerClosed, Leave, CloseFailed, CancellerAt, registryVars,
       driverVars, taskVars
  <2>8. CASE CancelRelease(a)
    BY <2>8, <1>0, <1>9 DEF CancelRelease, CancellerAt, registryVars, driverVars, taskVars
  <2> QED
    BY <1>3, <2>1, <2>2, <2>3, <2>4, <2>5, <2>6, <2>7, <2>8 DEF CancellerStep
<1>4. ASSUME NEW g \in Gens, CleanupStep(g) PROVE StepAt(b)'
  <2>1. CASE CancelOwner(g)
    BY <2>1, <1>0, <1>9 DEF CancelOwner, CancelOwners, OwnersOf, registryVars, driverVars, taskVars
  <2>2. CASE StopAcked(g)
    BY <2>2, <1>0, <1>9 DEF StopAcked, registryVars, driverVars, taskVars
  <2>3. CASE ReleaseOwner(g)
    BY <2>3, <1>0, <1>9 DEF ReleaseOwner, ReleaseOwners, registryVars, driverVars, taskVars
  <2>4. CASE RemoveEntry(g)
    BY <2>4, <1>0, <1>9 DEF RemoveEntry, registryVars, driverVars, taskVars
  <2> QED
    BY <1>4, <2>1, <2>2, <2>3, <2>4 DEF CleanupStep
<1>5. CASE Environment
  <2>1. ASSUME NEW i \in Ids, UserClose(i) PROVE StepAt(b)'
    BY <2>1, <1>0, <1>9 DEF UserClose, registryVars, driverVars, taskVars
  <2>2. ASSUME NEW i \in Ids, MonitorFinds(i) PROVE StepAt(b)'
    BY <2>2, <1>0, <1>9 DEF MonitorFinds, registryVars, driverVars, taskVars
  <2>3. ASSUME NEW i \in Ids, ServiceEnds(i) PROVE StepAt(b)'
    BY <2>3, <1>0, <1>9 DEF ServiceEnds, registryVars, driverVars, taskVars
  <2>4. ASSUME NEW a \in Attempts, NEW i \in Ids, ServiceCreates(a, i) PROVE StepAt(b)'
    BY <2>4, <1>0, <1>9 DEF ServiceCreates, registryVars, driverVars, taskVars
  <2> QED
    BY <1>5, <2>1, <2>2, <2>3, <2>4 DEF Environment
<1>6. CASE ShutdownStep
  <2>1. CASE BeginShutdown
    BY <2>1, <1>0, <1>9 DEF BeginShutdown, Shutdown, registryVars, driverVars, taskVars
  <2>2. ASSUME NEW i \in Ids, ShutdownCloses(i) PROVE StepAt(b)'
    BY <2>2, <1>0, <1>9 DEF ShutdownCloses, registryVars, driverVars, taskVars
  <2>3. ASSUME NEW g \in Gens, ShutdownCloseReturns(g) PROVE StepAt(b)'
    BY <2>3, <1>0, <1>9 DEF ShutdownCloseReturns, registryVars, driverVars, taskVars
  <2>4. CASE ShutdownSwept
    BY <2>4, <1>0, <1>9 DEF ShutdownSwept, registryVars, driverVars, taskVars
  <2>5. CASE ShutdownEnds
    BY <2>5, <1>0, <1>9 DEF ShutdownEnds, registryVars, driverVars, taskVars
  <2>6. CASE ShutdownExpires
    BY <2>6, <1>0, <1>9 DEF ShutdownExpires, registryVars, driverVars, taskVars
  <2> QED
    BY <1>6, <2>1, <2>2, <2>3, <2>4, <2>5, <2>6 DEF ShutdownStep
<1>7. CASE UNCHANGED vars
  BY <1>7, <1>0, <1>9 DEF vars, registryVars, driverVars, taskVars, cancelVars, storeVars,
     cleanupVars
<1> QED
  BY <1>1, <1>2, <1>3, <1>4, <1>5, <1>6, <1>7 DEF Next

\* A create is sent only once every pending cleanup of its attempt has been closed.
LEMMA ClearStep ==
  ASSUME TypeOK, StageInv, StoreInv, StepInv, ClearInv, FlightInv, [Next]_vars PROVE ClearInv'
<1> DEFINE Cleared(x, y) ==
             /\ driver[y] # "access" /\ task[y] \notin {"sending", "inflight"}
             /\ driver[y] = "clearing" => idOf[x] \in pend[y] \/ joined[<<y, "driver">>] = x
<1> SUFFICES ASSUME NEW h \in Gens, NEW b, b = maker'[h], stop'[h] = "pending" PROVE Cleared(h, b)'
  BY DEF ClearInv
<1> USE RegistryAssumption, LifecycleAssumption
    DEF TypeOK, RegistryTypeOK, LifecycleTypeOK, Gen, Id, DriverStages, TaskStages, Tasks
<1>9. b \in Attempts /\ b = maker[h] /\ idOf[h] \in Ids /\ idOf'[h] = idOf[h]
  BY PendingWasStored
<1>0. \/ stop[h] = "pending" /\ Cleared(h, b)
      \/ /\ driver[b] \notin {"idle", "resolving", "tracking", "ensuring", "clearing", "access", "recreatingJoined"}
         /\ task[b] \notin {"sending", "inflight"}
  BY <1>9, PendingWasStored DEF ClearInv, StepInv, StepAt
<1>1. ASSUME NEW a \in Attempts, DriverStep(a) PROVE Cleared(h, b)'
  <2>1. ASSUME NEW gone \in SUBSET Expired, StartSession(a, gone) PROVE Cleared(h, b)'
    BY <2>1, <1>0, <1>9 DEF StartSession, DriverAt, CancellerAt, Begin, Kept, driverVars, taskVars
  <2>2. ASSUME NEW gone \in SUBSET Expired, StartRefused(a, gone) PROVE Cleared(h, b)'
    BY <2>2, <1>0, <1>9 DEF StartRefused, BeginRefused, Kept, driverVars, taskVars
  <2>3. CASE RunFails(a)
    BY <2>3, <1>0, <1>9 DEF RunFails, DriverFails, DriverReturns, DriverAt, Finished, CancelScope,
       driverVars, taskVars
  <2>4. CASE Resolved(a)
    BY <2>4, <1>0, <1>9 DEF Resolved, DriverGoes, DriverAt, driverVars, taskVars
  <2>5. CASE Track(a)
    BY <2>5, <1>0, <1>9 DEF Track, DriverGoes, DriverAt, DriverFails, DriverReturns, Finished,
       CancelScope, driverVars, taskVars
  <2>6. CASE EnsureTarget(a)
    <3>1. stop' = stop /\ joined' = joined /\ task' = task /\ driver[a] = "ensuring"
      BY <2>6 DEF EnsureTarget, cleanupVars, taskVars
    <3>2. b = a => cleanup[idOf[h]] = h
      BY <1>9, <3>1 DEF StoreInv
    <3> QED
      BY <2>6, <1>0, <1>9, <3>1, <3>2 DEF EnsureTarget, DriverFails, DriverReturns, Finished,
         DriverAt
  <2>7. ASSUME NEW i \in Ids, ClearPending(a, i) PROVE Cleared(h, b)'
    <3>1. driver[a] = "clearing" /\ joined[<<a, "driver">>] = NoGen /\ pend' = [pend EXCEPT ![a] = @ \ {i}]
          /\ joined' = [joined EXCEPT ![<<a, "driver">>] = Closing(i)] /\ UNCHANGED <<driver, task>>
      BY <2>7 DEF ClearPending, Join, taskVars
    <3>2. b = a /\ idOf[h] = i => Closing(i) = h
      BY <1>0, <3>1 DEF Closing, StoreInv
    <3>3. CASE b = a
      <4>1. stop[h] = "pending" /\ idOf[h] \in pend[a]
        BY <1>0, <3>1, <3>3
      <4> QED
        BY <1>0, <1>9, <3>1, <3>2, <3>3, <4>1
    <3>4. CASE b # a
      <4>1. UNCHANGED <<driver[b], task[b], pend[b], joined[<<b, "driver">>], idOf[h]>>
        BY <1>9, <3>1, <3>4
      <4> QED
        BY <1>0, <4>1
    <3> QED
      BY <3>3, <3>4
  <2>8. CASE PendingCleared(a)
    BY <2>8, <1>0, <1>9 DEF PendingCleared, Leave, Succeeded, driverVars, taskVars, cleanupVars
  <2>9. CASE PendingFailed(a)
    BY <2>9, <1>0, <1>9 DEF PendingFailed, Leave, DriverFails, DriverReturns, Finished, DriverAt,
       CloseFailed, driverVars, taskVars
  <2>10. CASE TargetCleared(a)
    <3>1. /\ driver[a] = "clearing" /\ joined[<<a, "driver">>] = NoGen /\ pend[a] = {}
          /\ pend' \in {pend, [pend EXCEPT ![a] = {}]} /\ UNCHANGED <<task, joined, stop>>
          /\ driver' \in {[driver EXCEPT ![a] = "access"], [driver EXCEPT ![a] = "failed"]}
      BY <2>10 DEF TargetCleared, DriverGoes, DriverAt, DriverFails, DriverReturns, taskVars, cleanupVars
    <3>2. CASE b = a
      BY <3>1, <3>2, <1>0, <1>9
    <3>3. CASE b # a
      <4>1. UNCHANGED <<driver[b], task[b], pend[b], joined[<<b, "driver">>], stop[h]>>
        BY <1>9, <3>1, <3>3
      <4> QED
        BY <1>0, <1>9, <4>1
    <3> QED
      BY <3>2, <3>3
  <2>11. CASE SpawnCreate(a)
    BY <2>11, <1>0, <1>9 DEF SpawnCreate, TaskAt, DriverAt, driverVars, taskVars
  <2>12. CASE CreateAbandoned(a)
    BY <2>12, <1>0, <1>9 DEF CreateAbandoned, DropResult, TaskAt, DriverFails, DriverReturns,
       Finished, DriverAt, CancelScope, driverVars, taskVars
  <2>13. CASE CreateErred(a)
    BY <2>13, <1>0, <1>9 DEF CreateErred, DropResult, TaskAt, DriverFails, DriverReturns,
       Finished, DriverAt, driverVars, taskVars
  <2>14. CASE Created(a)
    BY <2>14, <1>0, <1>9 DEF Created, DropResult, TaskAt, DriverAt, driverVars, taskVars
  <2>15. CASE Ready(a)
    BY <2>15, <1>0, <1>9 DEF Ready, DriverAt, driverVars, taskVars
  <2>16. CASE FetchReady(a)
    BY <2>16, <1>0, <1>9 DEF FetchReady, DriverReturns, Finished, DriverAt, driverVars, taskVars
  <2>17. CASE ReadyFailed(a)
    BY <2>17, <1>0, <1>9 DEF ReadyFailed, DriverAt, driverVars, taskVars
  <2>18. CASE RetryReady(a)
    BY <2>18, <1>0, <1>9 DEF RetryReady, DriverAt, driverVars, taskVars
  <2>19. CASE RecreateClose(a)
    BY <2>19, <1>0, <1>9 DEF RecreateClose, Join, DriverAt, driverVars, taskVars
  <2>20. CASE RecreateClosed(a)
    BY <2>20, <1>0, <1>9 DEF RecreateClosed, Leave, DriverAt, driverVars, taskVars
  <2>21. CASE DriverCloses(a)
    BY <2>21, <1>0, <1>9 DEF DriverCloses, Join, DriverAt, driverVars, taskVars
  <2>22. CASE DriverClosed(a)
    BY <2>22, <1>0, <1>9 DEF DriverClosed, Leave, DriverFails, DriverReturns, Finished, DriverAt,
       driverVars, taskVars
  <2> QED
    BY <1>1, <2>1, <2>2, <2>3, <2>4, <2>5, <2>6, <2>7, <2>8, <2>9, <2>10, <2>11, <2>12, <2>13,
       <2>14, <2>15, <2>16, <2>17, <2>18, <2>19, <2>20, <2>21, <2>22 DEF DriverStep
<1>2. ASSUME NEW a \in Attempts, TaskStep(a) PROVE Cleared(h, b)'
  <2>1. CASE SendCreate(a)
    BY <2>1, <1>0, <1>9 DEF SendCreate, TaskAt, driverVars, taskVars
  <2>2. CASE SendSkipped(a)
    BY <2>2, <1>0, <1>9 DEF SendSkipped, EndTask, TaskAt, driverVars, taskVars
  <2>3. ASSUME NEW g \in Gens, CreateRecorded(a, g) PROVE Cleared(h, b)'
    BY <2>3, <1>0, <1>9 DEF CreateRecorded, TaskAt, driverVars, taskVars
  <2>4. CASE CreateUnknown(a)
    BY <2>4, <1>0, <1>9 DEF CreateUnknown, TaskAt, driverVars, taskVars
  <2>5. CASE CreateDenied(a)
    BY <2>5, <1>0, <1>9 DEF CreateDenied, EndTask, TaskAt, driverVars, taskVars
  <2>6. CASE CreateRetried(a)
    BY <2>6, <1>0, <1>9 DEF CreateRetried, TaskAt, CancelScope, driverVars, taskVars
  <2>7. CASE CreateKept(a)
    BY <2>7, <1>0, <1>9 DEF CreateKept, TaskAt, driverVars, taskVars
  <2>8. CASE CreateReturns(a)
    BY <2>8, <1>0, <1>9 DEF CreateReturns, EndTask, TaskAt, driverVars, taskVars
  <2>9. CASE CreateCancelled(a)
    BY <2>9, <1>0, <1>9 DEF CreateCancelled, TaskAt, driverVars, taskVars
  <2>10. CASE TaskCloses(a)
    BY <2>10, <1>0, <1>9 DEF TaskCloses, TaskAt, Join, driverVars, taskVars
  <2>11. CASE TaskClosed(a)
    BY <2>11, <1>0, <1>9 DEF TaskClosed, Leave, EndTask, TaskAt, driverVars, taskVars
  <2>12. CASE LostCreateEnds(a)
    BY <2>12, <1>0, <1>9 DEF LostCreateEnds, EndTask, TaskAt, driverVars, taskVars
  <2> QED
    BY <1>2, <2>1, <2>2, <2>3, <2>4, <2>5, <2>6, <2>7, <2>8, <2>9, <2>10, <2>11, <2>12 DEF TaskStep
<1>3. ASSUME NEW a \in Attempts, CancellerStep(a) PROVE Cleared(h, b)'
  <2>1. ASSUME NEW gone \in SUBSET Expired, CancelStartup(a, gone) PROVE Cleared(h, b)'
    BY <2>1, <1>0, <1>9 DEF CancelStartup, CancellerAt, Cancel, Kept, driverVars, taskVars
  <2>2. CASE CreationSettled(a)
    BY <2>2, <1>0, <1>9 DEF CreationSettled, Finished, CancellerAt, driverVars, taskVars
  <2>3. CASE SettleTimedOut(a)
    BY <2>3, <1>0, <1>9 DEF SettleTimedOut, CancellerAt, driverVars, taskVars
  <2>4. CASE CancelInspect(a)
    BY <2>4, <1>0, <1>9 DEF CancelInspect, CancellerAt, driverVars, taskVars
  <2>5. CASE CancelInspectCleanup(a)
    BY <2>5, <1>0, <1>9 DEF CancelInspectCleanup, CancellerAt, driverVars, taskVars
  <2>6. CASE CancellerCloses(a)
    BY <2>6, <1>0, <1>9 DEF CancellerCloses, Join, CancellerAt, driverVars, taskVars
  <2>7. CASE CancellerClosed(a)
    BY <2>7, <1>0, <1>9 DEF CancellerClosed, Leave, CloseFailed, CancellerAt, driverVars, taskVars
  <2>8. CASE CancelRelease(a)
    BY <2>8, <1>0, <1>9 DEF CancelRelease, CancellerAt, driverVars, taskVars
  <2> QED
    BY <1>3, <2>1, <2>2, <2>3, <2>4, <2>5, <2>6, <2>7, <2>8 DEF CancellerStep
<1>4. ASSUME NEW g \in Gens, CleanupStep(g) PROVE Cleared(h, b)'
  <2>1. CASE CancelOwner(g)
    BY <2>1, <1>0, <1>9 DEF CancelOwner, CancelOwners, OwnersOf, driverVars, taskVars
  <2>2. CASE StopAcked(g)
    BY <2>2, <1>0, <1>9 DEF StopAcked, driverVars, taskVars
  <2>3. CASE ReleaseOwner(g)
    BY <2>3, <1>0, <1>9 DEF ReleaseOwner, ReleaseOwners, driverVars, taskVars
  <2>4. CASE RemoveEntry(g)
    BY <2>4, <1>0, <1>9 DEF RemoveEntry, driverVars, taskVars
  <2> QED
    BY <1>4, <2>1, <2>2, <2>3, <2>4 DEF CleanupStep
<1>5. CASE Environment
  <2>1. ASSUME NEW i \in Ids, UserClose(i) PROVE Cleared(h, b)'
    BY <2>1, <1>0, <1>9 DEF UserClose, driverVars, taskVars
  <2>2. ASSUME NEW i \in Ids, MonitorFinds(i) PROVE Cleared(h, b)'
    BY <2>2, <1>0, <1>9 DEF MonitorFinds, driverVars, taskVars
  <2>3. ASSUME NEW i \in Ids, ServiceEnds(i) PROVE Cleared(h, b)'
    BY <2>3, <1>0, <1>9 DEF ServiceEnds, driverVars, taskVars
  <2>4. ASSUME NEW a \in Attempts, NEW i \in Ids, ServiceCreates(a, i) PROVE Cleared(h, b)'
    BY <2>4, <1>0, <1>9 DEF ServiceCreates, driverVars, taskVars
  <2> QED
    BY <1>5, <2>1, <2>2, <2>3, <2>4 DEF Environment
<1>6. CASE ShutdownStep
  <2>1. CASE BeginShutdown
    BY <2>1, <1>0, <1>9 DEF BeginShutdown, Shutdown, driverVars, taskVars
  <2>2. ASSUME NEW i \in Ids, ShutdownCloses(i) PROVE Cleared(h, b)'
    BY <2>2, <1>0, <1>9 DEF ShutdownCloses, driverVars, taskVars
  <2>3. ASSUME NEW g \in Gens, ShutdownCloseReturns(g) PROVE Cleared(h, b)'
    BY <2>3, <1>0, <1>9 DEF ShutdownCloseReturns, driverVars, taskVars
  <2>4. CASE ShutdownSwept
    BY <2>4, <1>0, <1>9 DEF ShutdownSwept, driverVars, taskVars
  <2>5. CASE ShutdownEnds
    BY <2>5, <1>0, <1>9 DEF ShutdownEnds, driverVars, taskVars
  <2>6. CASE ShutdownExpires
    BY <2>6, <1>0, <1>9 DEF ShutdownExpires, driverVars, taskVars
  <2> QED
    BY <1>6, <2>1, <2>2, <2>3, <2>4, <2>5, <2>6 DEF ShutdownStep
<1>7. CASE UNCHANGED vars
  BY <1>7, <1>0, <1>9 DEF vars, driverVars, taskVars
<1> QED
  BY <1>1, <1>2, <1>3, <1>4, <1>5, <1>6, <1>7 DEF Next

\* What an attempt has in the store is what it owns.
LEMMA OwnsWhatItMade ==
  ASSUME TypeOK, StoreInv, OwnedInv, NEW a \in Attempts, NEW i \in MadeBy(a)
  PROVE  /\ owned[a] = session[i] /\ owned[a] # NoGen /\ idOf[owned[a]] = i
         /\ i \in Ids /\ Unstopped(owned[a])
  BY LifecycleAssumption DEF MadeBy, StoreInv, OwnedInv, Unstopped, TypeOK, LifecycleTypeOK, Gen

\* A canceller gives up only what has been stopped.
LEMMA CancelStep ==
  ASSUME TypeOK, TypeOK', StageInv, ClaimInv, StoreInv, OwnedInv, CancelInv, FlightInv, [Next]_vars
  PROVE  CancelInv'
<1> SUFFICES ASSUME NEW b \in Attempts PROVE CancelAt(b)'
  BY DEF CancelInv
<1> USE RegistryAssumption, LifecycleAssumption
    DEF TypeOK, RegistryTypeOK, LifecycleTypeOK, Gen, Id, TaskStages, CancellerStages, Tasks,
    CancelAt, Unstopped
<1>0. /\ CancelAt(b)
      /\ \/ MadeBy(b)' \subseteq MadeBy(b)
         \/ /\ task[b] = "inflight" /\ task'[b] = "recorded" /\ reply' = reply
            /\ MadeBy(b)' \subseteq MadeBy(b) \cup {reply[b]}
  BY MadeByShrinks DEF CancelInv
<1>9. owned[b] # NoGen =>
         /\ owned[b] \in Gens /\ idOf[owned[b]] \in Ids /\ idOf'[owned[b]] = idOf[owned[b]]
         /\ ~Unstopped(owned[b]) => session'[idOf[owned[b]]] # owned[b] /\ stop'[owned[b]] # "pending"
  BY StoppedStays DEF StageInv
<1>1. ASSUME NEW a \in Attempts, DriverStep(a) PROVE CancelAt(b)'
  <2>1. ASSUME NEW gone \in SUBSET Expired, StartSession(a, gone) PROVE CancelAt(b)'
    BY <2>1, <1>0, <1>9 DEF StartSession, DriverAt, CancellerAt, Begin, Kept, registryVars,
       taskVars, cancelVars
  <2>2. ASSUME NEW gone \in SUBSET Expired, StartRefused(a, gone) PROVE CancelAt(b)'
    BY <2>2, <1>0, <1>9 DEF StartRefused, BeginRefused, Kept, registryVars, taskVars, cancelVars
  <2>3. CASE RunFails(a)
    BY <2>3, <1>0, <1>9 DEF RunFails, DriverFails, DriverReturns, DriverAt, Finished, CancelScope,
       registryVars, taskVars, cancelVars
  <2>4. CASE Resolved(a)
    BY <2>4, <1>0, <1>9 DEF Resolved, DriverGoes, DriverAt, registryVars, taskVars, cancelVars
  <2>5. CASE Track(a)
    BY <2>5, <1>0, <1>9 DEF Track, DriverGoes, DriverAt, DriverFails, DriverReturns, Finished,
       CancelScope, registryVars, taskVars, cancelVars
  <2>6. CASE EnsureTarget(a)
    BY <2>6, <1>0, <1>9 DEF EnsureTarget, DriverFails, DriverReturns, Finished, DriverAt,
       registryVars, taskVars, cancelVars
  <2>7. ASSUME NEW i \in Ids, ClearPending(a, i) PROVE CancelAt(b)'
    BY <2>7, <1>0, <1>9 DEF ClearPending, Join, registryVars, taskVars, cancelVars
  <2>8. CASE PendingCleared(a)
    BY <2>8, <1>0, <1>9 DEF PendingCleared, Leave, Succeeded, registryVars, taskVars, cancelVars
  <2>9. CASE PendingFailed(a)
    BY <2>9, <1>0, <1>9 DEF PendingFailed, Leave, DriverFails, DriverReturns, Finished, DriverAt,
       CloseFailed, registryVars, taskVars, cancelVars
  <2>10. CASE TargetCleared(a)
    BY <2>10, <1>0, <1>9 DEF TargetCleared, DriverGoes, DriverAt, DriverFails, DriverReturns,
       Finished, registryVars, taskVars, cancelVars
  <2>11. CASE SpawnCreate(a)
    BY <2>11, <1>0, <1>9 DEF SpawnCreate, TaskAt, DriverAt, registryVars, taskVars, cancelVars
  <2>12. CASE CreateAbandoned(a)
    BY <2>12, <1>0, <1>9 DEF CreateAbandoned, DropResult, TaskAt, DriverFails, DriverReturns,
       Finished, DriverAt, CancelScope, registryVars, taskVars, cancelVars
  <2>13. CASE CreateErred(a)
    BY <2>13, <1>0, <1>9 DEF CreateErred, DropResult, TaskAt, DriverFails, DriverReturns,
       Finished, DriverAt, registryVars, taskVars, cancelVars
  <2>14. CASE Created(a)
    BY <2>14, <1>0, <1>9 DEF Created, DropResult, TaskAt, DriverAt, registryVars, taskVars,
       cancelVars
  <2>15. CASE Ready(a)
    BY <2>15, <1>0, <1>9 DEF Ready, DriverAt, registryVars, taskVars, cancelVars
  <2>16. CASE FetchReady(a)
    BY <2>16, <1>0, <1>9 DEF FetchReady, DriverReturns, Finished, DriverAt, registryVars,
       taskVars, cancelVars
  <2>17. CASE ReadyFailed(a)
    BY <2>17, <1>0, <1>9 DEF ReadyFailed, DriverAt, registryVars, taskVars, cancelVars
  <2>18. CASE RetryReady(a)
    BY <2>18, <1>0, <1>9 DEF RetryReady, DriverAt, registryVars, taskVars, cancelVars
  <2>19. CASE RecreateClose(a)
    BY <2>19, <1>0, <1>9 DEF RecreateClose, Join, DriverAt, registryVars, taskVars, cancelVars
  <2>20. CASE RecreateClosed(a)
    BY <2>20, <1>0, <1>9 DEF RecreateClosed, Leave, DriverAt, registryVars, taskVars, cancelVars
  <2>21. CASE DriverCloses(a)
    BY <2>21, <1>0, <1>9 DEF DriverCloses, Join, DriverAt, registryVars, taskVars, cancelVars
  <2>22. CASE DriverClosed(a)
    BY <2>22, <1>0, <1>9 DEF DriverClosed, Leave, DriverFails, DriverReturns, Finished, DriverAt,
       registryVars, taskVars, cancelVars
  <2> QED
    BY <1>1, <2>1, <2>2, <2>3, <2>4, <2>5, <2>6, <2>7, <2>8, <2>9, <2>10, <2>11, <2>12, <2>13,
       <2>14, <2>15, <2>16, <2>17, <2>18, <2>19, <2>20, <2>21, <2>22 DEF DriverStep
<1>2. ASSUME NEW a \in Attempts, TaskStep(a) PROVE CancelAt(b)'
  <2>1. CASE SendCreate(a)
    BY <2>1, <1>0, <1>9 DEF SendCreate, TaskAt, registryVars, taskVars, cancelVars
  <2>2. CASE SendSkipped(a)
    BY <2>2, <1>0, <1>9 DEF SendSkipped, EndTask, TaskAt, registryVars, taskVars, cancelVars
  <2>3. ASSUME NEW g \in Gens, CreateRecorded(a, g) PROVE CancelAt(b)'
    BY <2>3, <1>0, <1>9 DEF CreateRecorded, TaskAt, registryVars, taskVars, cancelVars
  <2>4. CASE CreateUnknown(a)
    BY <2>4, <1>0, <1>9 DEF CreateUnknown, TaskAt, registryVars, taskVars, cancelVars
  <2>5. CASE CreateDenied(a)
    BY <2>5, <1>0, <1>9 DEF CreateDenied, EndTask, TaskAt, registryVars, taskVars, cancelVars
  <2>6. CASE CreateRetried(a)
    BY <2>6, <1>0, <1>9 DEF CreateRetried, TaskAt, CancelScope, registryVars, taskVars, cancelVars
  <2>7. CASE CreateKept(a)
    BY <2>7, <1>0, <1>9 DEF CreateKept, TaskAt, registryVars, taskVars, cancelVars
  <2>8. CASE CreateReturns(a)
    BY <2>8, <1>0, <1>9 DEF CreateReturns, EndTask, TaskAt, registryVars, taskVars, cancelVars
  <2>9. CASE CreateCancelled(a)
    BY <2>9, <1>0, <1>9 DEF CreateCancelled, TaskAt, registryVars, taskVars, cancelVars
  <2>10. CASE TaskCloses(a)
    BY <2>10, <1>0, <1>9 DEF TaskCloses, TaskAt, Join, registryVars, taskVars, cancelVars
  <2>11. CASE TaskClosed(a)
    BY <2>11, <1>0, <1>9 DEF TaskClosed, Leave, EndTask, TaskAt, registryVars, taskVars, cancelVars
  <2>12. CASE LostCreateEnds(a)
    BY <2>12, <1>0, <1>9 DEF LostCreateEnds, EndTask, TaskAt, registryVars, taskVars, cancelVars
  <2> QED
    BY <1>2, <2>1, <2>2, <2>3, <2>4, <2>5, <2>6, <2>7, <2>8, <2>9, <2>10, <2>11, <2>12 DEF TaskStep
<1>3. ASSUME NEW a \in Attempts, CancellerStep(a) PROVE CancelAt(b)'
  <2>1. ASSUME NEW gone \in SUBSET Expired, CancelStartup(a, gone) PROVE CancelAt(b)'
    BY <2>1, <1>0, <1>9 DEF CancelStartup, CancellerAt, Cancel, Kept, registryVars, taskVars,
       cancelVars
  <2>2. CASE CreationSettled(a)
    BY <2>2, <1>0, <1>9 DEF CreationSettled, Finished, CancellerAt, taskVars, storeVars,
       cleanupVars, ClaimInv, CreateRuns
  <2>3. CASE SettleTimedOut(a)
    BY <2>3, <1>0, <1>9 DEF SettleTimedOut, CancellerAt, registryVars, taskVars, cancelVars
  <2>4. CASE CancelInspect(a)
    <3>1. /\ canceller[a] = "checking" /\ canceller'[a] = "returned"
                => owned[a] = NoGen \/ session[idOf[owned[a]]] # owned[a]
      BY <2>4 DEF CancelInspect, CancellerAt
    <3>2. canceller'[a] = "returned" => MadeBy(a) = {}
      BY <2>4, <3>1, OwnsWhatItMade DEF CancelInspect, CancellerAt, Unstopped, StoreInv, MadeBy
    <3> QED
      BY <2>4, <1>0, <1>9, <3>2 DEF CancelInspect, CancellerAt, taskVars, storeVars, cleanupVars,
         StageInv
  <2>5. CASE CancelInspectCleanup(a)
    <3>1. canceller[a] = "checkCleanup" /\ owned[a] \in {NoGen, held[a]}
      BY <2>5 DEF CancelInspectCleanup, CancelInv
    <3>2. canceller'[a] = "returned" => owned[a] = NoGen \/ cleanup[idOf[owned[a]]] # NoGen
      BY <2>5, <3>1 DEF CancelInspectCleanup, CancellerAt
    <3>3. canceller'[a] = "returned" => MadeBy(a) = {}
      BY <2>5, <3>2, OwnsWhatItMade DEF CancelInspectCleanup, CancellerAt, StoreInv, MadeBy
    <3> QED
      BY <2>5, <1>0, <1>9, <3>3 DEF CancelInspectCleanup, CancellerAt, taskVars, storeVars,
         cleanupVars, StageInv
  <2>6. CASE CancellerCloses(a)
    <3>1. CASE b # a
      BY <2>6, <1>0, <1>9, <3>1 DEF CancellerCloses, Join, CancellerAt, registryVars, taskVars
    <3>2. CASE b = a
      <4>1. /\ canceller[a] = "closing" /\ canceller' = [canceller EXCEPT ![a] = "closingJoined"]
            /\ joined' = [joined EXCEPT ![<<a, "canceller">>] = Closing(idOf[held[a]])]
            /\ CloseLocally(idOf[held[a]], TRUE) /\ UNCHANGED <<owned, cancelled, held, task>>
        BY <2>6 DEF CancellerCloses, Join, CancellerAt, registryVars, taskVars
      <4>2. owned[a] # NoGen /\ Closing(idOf[owned[a]]) # owned[a] => ~Unstopped(owned[a])
        BY ZenonT(30), <1>9, <3>2 DEF Closing, StoreInv
      <4> QED
        BY <1>0, <1>9, <3>2, <4>1, <4>2
    <3> QED
      BY <3>1, <3>2
  <2>7. CASE CancellerClosed(a)
    <3>0. /\ canceller[a] = "closingJoined" /\ UNCHANGED <<owned, cancelled, task>>
          /\ canceller' = [canceller EXCEPT ![a] = IF CloseFailed(a, "canceller") THEN "failed" ELSE "releasing"]
          /\ joined' = [joined EXCEPT ![<<a, "canceller">>] = NoGen] /\ held' = [held EXCEPT ![a] = NoGen]
          /\ CloseReturned(a, "canceller")
      BY <2>7 DEF CancellerClosed, Leave, CancellerAt, registryVars, taskVars
    <3>1. CASE b # a
      BY <1>0, <1>9, <3>0, <3>1
    <3>2. CASE b = a
      <4>1. joined[<<a, "canceller">>] = owned[a] /\ owned[a] # NoGen /\ ~CloseFailed(a, "canceller")
            => ~Unstopped(owned[a])
        BY <3>0, <1>9, <3>2 DEF CloseReturned, Succeeded, StoreInv
      <4>2. owned[a] # NoGen /\ ~CloseFailed(a, "canceller") => ~Unstopped(owned[a])
        BY <1>0, <3>0, <3>2, <4>1
      <4> QED
        BY <1>0, <1>9, <3>0, <3>2, <4>2
    <3> QED
      BY <3>1, <3>2
  <2>8. CASE CancelRelease(a)
    <3>1. owned[a] = NoGen \/ ~Unstopped(owned[a])
      BY <2>8 DEF CancelRelease, CancelInv, CancelAt
    <3>2. canceller'[a] = "returned" => MadeBy(a) = {}
      BY <2>8, <3>1, OwnsWhatItMade DEF CancelRelease, CancellerAt, Unstopped, StoreInv, MadeBy
    <3> QED
      BY <2>8, <1>0, <1>9, <3>2 DEF CancelRelease, CancellerAt, taskVars, storeVars, cleanupVars,
         StageInv
  <2> QED
    BY <1>3, <2>1, <2>2, <2>3, <2>4, <2>5, <2>6, <2>7, <2>8 DEF CancellerStep
<1>4. ASSUME NEW g \in Gens, CleanupStep(g) PROVE CancelAt(b)'
  <2>1. CASE CancelOwner(g)
    BY <2>1, <1>0, <1>9 DEF CancelOwner, CancelOwners, OwnersOf, registryVars, taskVars, cancelVars
  <2>2. CASE StopAcked(g)
    BY <2>2, <1>0, <1>9 DEF StopAcked, registryVars, taskVars, cancelVars
  <2>3. CASE ReleaseOwner(g)
    BY <2>3, <1>0, <1>9 DEF ReleaseOwner, ReleaseOwners, registryVars, taskVars, cancelVars
  <2>4. CASE RemoveEntry(g)
    BY <2>4, <1>0, <1>9 DEF RemoveEntry, registryVars, taskVars, cancelVars
  <2> QED
    BY <1>4, <2>1, <2>2, <2>3, <2>4 DEF CleanupStep
<1>5. CASE Environment
  <2>1. ASSUME NEW i \in Ids, UserClose(i) PROVE CancelAt(b)'
    BY <2>1, <1>0, <1>9 DEF UserClose, registryVars, taskVars, cancelVars
  <2>2. ASSUME NEW i \in Ids, MonitorFinds(i) PROVE CancelAt(b)'
    BY <2>2, <1>0, <1>9 DEF MonitorFinds, registryVars, taskVars, cancelVars
  <2>3. ASSUME NEW i \in Ids, ServiceEnds(i) PROVE CancelAt(b)'
    BY <2>3, <1>0, <1>9 DEF ServiceEnds, registryVars, taskVars, cancelVars
  <2>4. ASSUME NEW a \in Attempts, NEW i \in Ids, ServiceCreates(a, i) PROVE CancelAt(b)'
    BY <2>4, <1>0, <1>9 DEF ServiceCreates, registryVars, taskVars, cancelVars
  <2> QED
    BY <1>5, <2>1, <2>2, <2>3, <2>4 DEF Environment
<1>6. CASE ShutdownStep
  <2>1. CASE BeginShutdown
    BY <2>1, <1>0, <1>9 DEF BeginShutdown, Shutdown, registryVars, taskVars, cancelVars
  <2>2. ASSUME NEW i \in Ids, ShutdownCloses(i) PROVE CancelAt(b)'
    BY <2>2, <1>0, <1>9 DEF ShutdownCloses, registryVars, taskVars, cancelVars
  <2>3. ASSUME NEW g \in Gens, ShutdownCloseReturns(g) PROVE CancelAt(b)'
    BY <2>3, <1>0, <1>9 DEF ShutdownCloseReturns, registryVars, taskVars, cancelVars
  <2>4. CASE ShutdownSwept
    BY <2>4, <1>0, <1>9 DEF ShutdownSwept, registryVars, taskVars, cancelVars
  <2>5. CASE ShutdownEnds
    BY <2>5, <1>0, <1>9 DEF ShutdownEnds, registryVars, taskVars, cancelVars
  <2>6. CASE ShutdownExpires
    BY <2>6, <1>0, <1>9 DEF ShutdownExpires, registryVars, taskVars, cancelVars
  <2> QED
    BY <1>6, <2>1, <2>2, <2>3, <2>4, <2>5, <2>6 DEF ShutdownStep
<1>7. CASE UNCHANGED vars
  BY <1>7, <1>0, <1>9 DEF vars, registryVars, taskVars, cancelVars
<1> QED
  BY <1>1, <1>2, <1>3, <1>4, <1>5, <1>6, <1>7 DEF Next

\* The answers of the service reach the task that asked, or are lost with it.
Answers ==
    \/ \E a \in Attempts, i \in Ids : ServiceCreates(a, i)
    \/ /\ \A i \in Ids : remote'[i] \in {remote[i], NoTarget}
       /\ unknown \subseteq unknown'
       /\ \A c \in Attempts :
             /\ task'[c] = "inflight" /\ reply'[c] # NoId => task[c] = "inflight" /\ reply'[c] = reply[c]
             /\ task[c] = "inflight" /\ reply[c] # NoId =>
                   \/ task'[c] = "inflight" /\ reply'[c] = reply[c]
                   \/ CreateUnknown(c)
                   \/ \E g \in Gens : CreateRecorded(c, g)
             /\ task[c] = "lost" /\ task'[c] # "lost" => c \notin active'

LEMMA AnswerMoves ==
  ASSUME TypeOK, StepInv, [Next]_vars PROVE Answers
<1> USE RegistryAssumption, LifecycleAssumption
    DEF TypeOK, RegistryTypeOK, LifecycleTypeOK, Id, TaskStages
<1>1. ASSUME NEW a \in Attempts, DriverStep(a) PROVE Answers
  <2>1. ASSUME NEW gone \in SUBSET Expired, StartSession(a, gone) PROVE Answers
    BY <2>1 DEF Answers, StartSession, DriverAt, CancellerAt, Begin, Kept, registryVars, taskVars
  <2>2. ASSUME NEW gone \in SUBSET Expired, StartRefused(a, gone) PROVE Answers
    BY <2>2 DEF Answers, StartRefused, BeginRefused, Kept, registryVars, taskVars
  <2>3. CASE RunFails(a)
    BY <2>3 DEF Answers, RunFails, DriverFails, DriverReturns, DriverAt, Finished, CancelScope,
       registryVars, taskVars
  <2>4. CASE Resolved(a)
    BY <2>4 DEF Answers, Resolved, DriverGoes, DriverAt, registryVars, taskVars
  <2>5. CASE Track(a)
    BY <2>5 DEF Answers, Track, DriverGoes, DriverAt, DriverFails, DriverReturns, Finished,
       CancelScope, registryVars, taskVars
  <2>6. CASE EnsureTarget(a)
    BY <2>6 DEF Answers, EnsureTarget, DriverFails, DriverReturns, Finished, DriverAt,
       registryVars, taskVars
  <2>7. ASSUME NEW i \in Ids, ClearPending(a, i) PROVE Answers
    BY <2>7 DEF Answers, ClearPending, Join, registryVars, taskVars
  <2>8. CASE PendingCleared(a)
    BY <2>8 DEF Answers, PendingCleared, Leave, Succeeded, registryVars, taskVars
  <2>9. CASE PendingFailed(a)
    BY <2>9 DEF Answers, PendingFailed, Leave, DriverFails, DriverReturns, Finished, DriverAt,
       CloseFailed, registryVars, taskVars
  <2>10. CASE TargetCleared(a)
    BY <2>10 DEF Answers, TargetCleared, DriverGoes, DriverAt, DriverFails, DriverReturns,
       Finished, registryVars, taskVars
  <2>11. CASE SpawnCreate(a)
    BY <2>11 DEF Answers, SpawnCreate, TaskAt, DriverAt, registryVars, taskVars, StepInv, StepAt
  <2>12. CASE CreateAbandoned(a)
    BY <2>12 DEF Answers, CreateAbandoned, DropResult, TaskAt, DriverFails, DriverReturns,
       Finished, DriverAt, CancelScope, registryVars, taskVars
  <2>13. CASE CreateErred(a)
    BY <2>13 DEF Answers, CreateErred, DropResult, TaskAt, DriverFails, DriverReturns, Finished,
       DriverAt, registryVars, taskVars
  <2>14. CASE Created(a)
    BY <2>14 DEF Answers, Created, DropResult, TaskAt, DriverAt, registryVars, taskVars
  <2>15. CASE Ready(a)
    BY <2>15 DEF Answers, Ready, DriverAt, registryVars, taskVars
  <2>16. CASE FetchReady(a)
    BY <2>16 DEF Answers, FetchReady, DriverReturns, Finished, DriverAt, registryVars, taskVars
  <2>17. CASE ReadyFailed(a)
    BY <2>17 DEF Answers, ReadyFailed, DriverAt, registryVars, taskVars
  <2>18. CASE RetryReady(a)
    BY <2>18 DEF Answers, RetryReady, DriverAt, registryVars, taskVars
  <2>19. CASE RecreateClose(a)
    BY <2>19 DEF Answers, RecreateClose, Join, DriverAt, registryVars, taskVars
  <2>20. CASE RecreateClosed(a)
    BY <2>20 DEF Answers, RecreateClosed, Leave, DriverAt, registryVars, taskVars
  <2>21. CASE DriverCloses(a)
    BY <2>21 DEF Answers, DriverCloses, Join, DriverAt, registryVars, taskVars
  <2>22. CASE DriverClosed(a)
    BY <2>22 DEF Answers, DriverClosed, Leave, DriverFails, DriverReturns, Finished, DriverAt,
       registryVars, taskVars
  <2> QED
    BY <1>1, <2>1, <2>2, <2>3, <2>4, <2>5, <2>6, <2>7, <2>8, <2>9, <2>10, <2>11, <2>12, <2>13,
       <2>14, <2>15, <2>16, <2>17, <2>18, <2>19, <2>20, <2>21, <2>22 DEF DriverStep
<1>2. ASSUME NEW a \in Attempts, TaskStep(a) PROVE Answers
  <2>1. CASE SendCreate(a)
    BY <2>1 DEF Answers, SendCreate, TaskAt, registryVars, taskVars
  <2>2. CASE SendSkipped(a)
    BY <2>2 DEF Answers, SendSkipped, EndTask, TaskAt, registryVars, taskVars
  <2>3. ASSUME NEW g \in Gens, CreateRecorded(a, g) PROVE Answers
    BY <2>3 DEF Answers, CreateRecorded, TaskAt, registryVars, taskVars
  <2>4. CASE CreateUnknown(a)
    BY <2>4 DEF Answers, CreateUnknown, TaskAt, registryVars, taskVars
  <2>5. CASE CreateDenied(a)
    BY <2>5 DEF Answers, CreateDenied, EndTask, TaskAt, registryVars, taskVars
  <2>6. CASE CreateRetried(a)
    BY <2>6 DEF Answers, CreateRetried, TaskAt, CancelScope, registryVars, taskVars
  <2>7. CASE CreateKept(a)
    BY <2>7 DEF Answers, CreateKept, TaskAt, registryVars, taskVars
  <2>8. CASE CreateReturns(a)
    BY <2>8 DEF Answers, CreateReturns, EndTask, TaskAt, registryVars, taskVars
  <2>9. CASE CreateCancelled(a)
    BY <2>9 DEF Answers, CreateCancelled, TaskAt, registryVars, taskVars
  <2>10. CASE TaskCloses(a)
    BY <2>10 DEF Answers, TaskCloses, TaskAt, Join, registryVars, taskVars
  <2>11. CASE TaskClosed(a)
    BY <2>11 DEF Answers, TaskClosed, Leave, EndTask, TaskAt, registryVars, taskVars
  <2>12. CASE LostCreateEnds(a)
    BY <2>12 DEF Answers, LostCreateEnds, EndTask, TaskAt, registryVars, taskVars
  <2> QED
    BY <1>2, <2>1, <2>2, <2>3, <2>4, <2>5, <2>6, <2>7, <2>8, <2>9, <2>10, <2>11, <2>12 DEF TaskStep
<1>3. ASSUME NEW a \in Attempts, CancellerStep(a) PROVE Answers
  <2>1. ASSUME NEW gone \in SUBSET Expired, CancelStartup(a, gone) PROVE Answers
    BY <2>1 DEF Answers, CancelStartup, CancellerAt, Cancel, Kept, registryVars, taskVars
  <2>2. CASE CreationSettled(a)
    BY <2>2 DEF Answers, CreationSettled, Finished, CancellerAt, registryVars, taskVars
  <2>3. CASE SettleTimedOut(a)
    BY <2>3 DEF Answers, SettleTimedOut, CancellerAt, registryVars, taskVars
  <2>4. CASE CancelInspect(a)
    BY <2>4 DEF Answers, CancelInspect, CancellerAt, registryVars, taskVars
  <2>5. CASE CancelInspectCleanup(a)
    BY <2>5 DEF Answers, CancelInspectCleanup, CancellerAt, registryVars, taskVars
  <2>6. CASE CancellerCloses(a)
    BY <2>6 DEF Answers, CancellerCloses, Join, CancellerAt, registryVars, taskVars
  <2>7. CASE CancellerClosed(a)
    BY <2>7 DEF Answers, CancellerClosed, Leave, CloseFailed, CancellerAt, registryVars, taskVars
  <2>8. CASE CancelRelease(a)
    BY <2>8 DEF Answers, CancelRelease, CancellerAt, registryVars, taskVars
  <2> QED
    BY <1>3, <2>1, <2>2, <2>3, <2>4, <2>5, <2>6, <2>7, <2>8 DEF CancellerStep
<1>4. ASSUME NEW g \in Gens, CleanupStep(g) PROVE Answers
  <2>1. CASE CancelOwner(g)
    BY <2>1 DEF Answers, CancelOwner, CancelOwners, OwnersOf, registryVars, taskVars
  <2>2. CASE StopAcked(g)
    BY <2>2 DEF Answers, StopAcked, registryVars, taskVars
  <2>3. CASE ReleaseOwner(g)
    BY <2>3 DEF Answers, ReleaseOwner, ReleaseOwners, registryVars, taskVars
  <2>4. CASE RemoveEntry(g)
    BY <2>4 DEF Answers, RemoveEntry, registryVars, taskVars
  <2> QED
    BY <1>4, <2>1, <2>2, <2>3, <2>4 DEF CleanupStep
<1>5. CASE Environment
  <2>1. ASSUME NEW i \in Ids, UserClose(i) PROVE Answers
    BY <2>1 DEF Answers, UserClose, registryVars, taskVars
  <2>2. ASSUME NEW i \in Ids, MonitorFinds(i) PROVE Answers
    BY <2>2 DEF Answers, MonitorFinds, registryVars, taskVars
  <2>3. ASSUME NEW i \in Ids, ServiceEnds(i) PROVE Answers
    BY <2>3 DEF Answers, ServiceEnds, registryVars, taskVars
  <2>4. ASSUME NEW a \in Attempts, NEW i \in Ids, ServiceCreates(a, i) PROVE Answers
    BY <2>4 DEF Answers
  <2> QED
    BY <1>5, <2>1, <2>2, <2>3, <2>4 DEF Environment
<1>6. CASE ShutdownStep
  <2>1. CASE BeginShutdown
    BY <2>1 DEF Answers, BeginShutdown, Shutdown, registryVars, taskVars
  <2>2. ASSUME NEW i \in Ids, ShutdownCloses(i) PROVE Answers
    BY <2>2 DEF Answers, ShutdownCloses, registryVars, taskVars
  <2>3. ASSUME NEW g \in Gens, ShutdownCloseReturns(g) PROVE Answers
    BY <2>3 DEF Answers, ShutdownCloseReturns, registryVars, taskVars
  <2>4. CASE ShutdownSwept
    BY <2>4 DEF Answers, ShutdownSwept, registryVars, taskVars
  <2>5. CASE ShutdownEnds
    BY <2>5 DEF Answers, ShutdownEnds, registryVars, taskVars
  <2>6. CASE ShutdownExpires
    BY <2>6 DEF Answers, ShutdownExpires, registryVars, taskVars
  <2> QED
    BY <1>6, <2>1, <2>2, <2>3, <2>4, <2>5, <2>6 DEF ShutdownStep
<1>7. CASE UNCHANGED vars
  BY <1>7 DEF Answers, vars, registryVars, taskVars
<1> QED
  BY <1>1, <1>2, <1>3, <1>4, <1>5, <1>6, <1>7 DEF Next

\* A target whose create was lost admits no other.
LEMMA LostStep ==
  ASSUME TypeOK, StageInv, ClaimInv, StepInv, LostInv, [Next]_vars
  PROVE  LostInv'
<1> SUFFICES ASSUME NEW b \in Attempts PROVE LostAt(b)'
  BY DEF LostInv
<1> USE RegistryAssumption, LifecycleAssumption
    DEF TypeOK, RegistryTypeOK, LifecycleTypeOK, Gen, Id, TaskStages, DriverStages, LostAt
<1>0. LostAt(b)
  BY DEF LostInv
<1>8. driver[b] \notin {"awaitCreate", "failed", "started"} => task[b] = "none"
  BY DEF StepInv, StepAt
<1>1. ASSUME NEW a \in Attempts, DriverStep(a) PROVE LostAt(b)'
  <2>1. ASSUME NEW gone \in SUBSET Expired, StartSession(a, gone) PROVE LostAt(b)'
    BY <2>1, <1>0, <1>8  DEF StartSession, DriverAt, CancellerAt, Begin, Kept, registryVars,
       taskVars, driverVars, StepInv, StepAt
  <2>2. ASSUME NEW gone \in SUBSET Expired, StartRefused(a, gone) PROVE LostAt(b)'
    BY <2>2, <1>0, <1>8 DEF StartRefused, BeginRefused, Kept, registryVars, taskVars, driverVars
  <2>3. CASE RunFails(a)
    BY <2>3, <1>0, <1>8 DEF RunFails, DriverFails, DriverReturns, DriverAt, Finished, CancelScope,
       registryVars, taskVars, driverVars
  <2>4. CASE Resolved(a)
    BY <2>4, <1>0, <1>8 DEF Resolved, DriverGoes, DriverAt, registryVars, taskVars, driverVars
  <2>5. CASE Track(a)
    BY <2>5, <1>0, <1>8 DEF Track, DriverGoes, DriverAt, DriverFails, DriverReturns, Finished,
       CancelScope, registryVars, taskVars, driverVars
  <2>6. CASE EnsureTarget(a)
    BY <2>6, <1>0, <1>8 DEF EnsureTarget, DriverFails, DriverReturns, Finished, DriverAt,
       registryVars, taskVars, driverVars, OutcomeUnresolved
  <2>7. ASSUME NEW i \in Ids, ClearPending(a, i) PROVE LostAt(b)'
    BY <2>7, <1>0, <1>8 DEF ClearPending, Join, registryVars, taskVars, driverVars
  <2>8. CASE PendingCleared(a)
    BY <2>8, <1>0, <1>8 DEF PendingCleared, Leave, Succeeded, registryVars, taskVars, driverVars
  <2>9. CASE PendingFailed(a)
    BY <2>9, <1>0, <1>8 DEF PendingFailed, Leave, DriverFails, DriverReturns, Finished, DriverAt,
       CloseFailed, registryVars, taskVars, driverVars
  <2>10. CASE TargetCleared(a)
    BY <2>10, <1>0, <1>8 DEF TargetCleared, DriverGoes, DriverAt, DriverFails, DriverReturns,
       Finished, registryVars, taskVars, driverVars
  <2>11. CASE SpawnCreate(a)
    BY <2>11, <1>0, <1>8 DEF SpawnCreate, TaskAt, DriverAt, registryVars, taskVars, driverVars
  <2>12. CASE CreateAbandoned(a)
    BY <2>12, <1>0, <1>8 DEF CreateAbandoned, DropResult, TaskAt, DriverFails, DriverReturns,
       Finished, DriverAt, CancelScope, registryVars, taskVars, driverVars
  <2>13. CASE CreateErred(a)
    BY <2>13, <1>0, <1>8 DEF CreateErred, DropResult, TaskAt, DriverFails, DriverReturns,
       Finished, DriverAt, registryVars, taskVars, driverVars
  <2>14. CASE Created(a)
    BY <2>14, <1>0, <1>8 DEF Created, DropResult, TaskAt, DriverAt, registryVars, taskVars,
       driverVars
  <2>15. CASE Ready(a)
    BY <2>15, <1>0, <1>8 DEF Ready, DriverAt, registryVars, taskVars, driverVars
  <2>16. CASE FetchReady(a)
    BY <2>16, <1>0, <1>8 DEF FetchReady, DriverReturns, Finished, DriverAt, registryVars,
       taskVars, driverVars
  <2>17. CASE ReadyFailed(a)
    BY <2>17, <1>0, <1>8 DEF ReadyFailed, DriverAt, registryVars, taskVars, driverVars
  <2>18. CASE RetryReady(a)
    BY <2>18, <1>0, <1>8 DEF RetryReady, DriverAt, registryVars, taskVars, driverVars
  <2>19. CASE RecreateClose(a)
    BY <2>19, <1>0, <1>8 DEF RecreateClose, Join, DriverAt, registryVars, taskVars, driverVars
  <2>20. CASE RecreateClosed(a)
    BY <2>20, <1>0, <1>8 DEF RecreateClosed, Leave, DriverAt, registryVars, taskVars, driverVars
  <2>21. CASE DriverCloses(a)
    BY <2>21, <1>0, <1>8 DEF DriverCloses, Join, DriverAt, registryVars, taskVars, driverVars
  <2>22. CASE DriverClosed(a)
    BY <2>22, <1>0, <1>8 DEF DriverClosed, Leave, DriverFails, DriverReturns, Finished, DriverAt,
       registryVars, taskVars, driverVars
  <2> QED
    BY <1>1, <2>1, <2>2, <2>3, <2>4, <2>5, <2>6, <2>7, <2>8, <2>9, <2>10, <2>11, <2>12, <2>13,
       <2>14, <2>15, <2>16, <2>17, <2>18, <2>19, <2>20, <2>21, <2>22 DEF DriverStep
<1>2. ASSUME NEW a \in Attempts, TaskStep(a) PROVE LostAt(b)'
  <2>1. CASE SendCreate(a)
    BY <2>1, <1>0, <1>8 DEF SendCreate, TaskAt, registryVars, taskVars, driverVars
  <2>2. CASE SendSkipped(a)
    BY <2>2, <1>0, <1>8 DEF SendSkipped, EndTask, TaskAt, registryVars, taskVars, driverVars
  <2>3. ASSUME NEW g \in Gens, CreateRecorded(a, g) PROVE LostAt(b)'
    BY <2>3, <1>0, <1>8 DEF CreateRecorded, TaskAt, registryVars, taskVars, driverVars
  <2>4. CASE CreateUnknown(a)
    <3>1. /\ task[a] = "inflight" /\ task' = [task EXCEPT ![a] = "lost"]
          /\ unknown' = unknown \cup {TargetOf[a]} /\ UNCHANGED <<driver, cancelled>>
      BY <2>4 DEF CreateUnknown, TaskAt, driverVars
    <3>2. CASE b = a
      BY <1>8, <3>1, <3>2
    <3>3. CASE b # a /\ TargetOf[b] = TargetOf[a]
      <4>1. Spent(b)
        BY <3>1, <3>3 DEF ClaimInv, Spent
      <4> QED
        BY <3>1, <3>3, <4>1 DEF Spent, Running
    <3>4. CASE TargetOf[b] # TargetOf[a]
      BY <1>0, <3>1, <3>4
    <3> QED
      BY <3>2, <3>3, <3>4
  <2>5. CASE CreateDenied(a)
    BY <2>5, <1>0, <1>8 DEF CreateDenied, EndTask, TaskAt, registryVars, taskVars, driverVars
  <2>6. CASE CreateRetried(a)
    BY <2>6, <1>0, <1>8 DEF CreateRetried, TaskAt, CancelScope, registryVars, taskVars, driverVars
  <2>7. CASE CreateKept(a)
    BY <2>7, <1>0, <1>8 DEF CreateKept, TaskAt, registryVars, taskVars, driverVars
  <2>8. CASE CreateReturns(a)
    BY <2>8, <1>0, <1>8 DEF CreateReturns, EndTask, TaskAt, registryVars, taskVars, driverVars
  <2>9. CASE CreateCancelled(a)
    BY <2>9, <1>0, <1>8 DEF CreateCancelled, TaskAt, registryVars, taskVars, driverVars
  <2>10. CASE TaskCloses(a)
    BY <2>10, <1>0, <1>8 DEF TaskCloses, TaskAt, Join, registryVars, taskVars, driverVars
  <2>11. CASE TaskClosed(a)
    BY <2>11, <1>0, <1>8 DEF TaskClosed, Leave, EndTask, TaskAt, registryVars, taskVars, driverVars
  <2>12. CASE LostCreateEnds(a)
    BY <2>12, <1>0, <1>8 DEF LostCreateEnds, EndTask, TaskAt, registryVars, taskVars, driverVars
  <2> QED
    BY <1>2, <2>1, <2>2, <2>3, <2>4, <2>5, <2>6, <2>7, <2>8, <2>9, <2>10, <2>11, <2>12 DEF TaskStep
<1>3. ASSUME NEW a \in Attempts, CancellerStep(a) PROVE LostAt(b)'
  <2>1. ASSUME NEW gone \in SUBSET Expired, CancelStartup(a, gone) PROVE LostAt(b)'
    BY <2>1, <1>0, <1>8 DEF CancelStartup, CancellerAt, Cancel, Kept, registryVars, taskVars,
       driverVars
  <2>2. CASE CreationSettled(a)
    BY <2>2, <1>0, <1>8 DEF CreationSettled, Finished, CancellerAt, registryVars, taskVars,
       driverVars
  <2>3. CASE SettleTimedOut(a)
    BY <2>3, <1>0, <1>8 DEF SettleTimedOut, CancellerAt, registryVars, taskVars, driverVars
  <2>4. CASE CancelInspect(a)
    BY <2>4, <1>0, <1>8 DEF CancelInspect, CancellerAt, registryVars, taskVars, driverVars
  <2>5. CASE CancelInspectCleanup(a)
    BY <2>5, <1>0, <1>8 DEF CancelInspectCleanup, CancellerAt, registryVars, taskVars, driverVars
  <2>6. CASE CancellerCloses(a)
    BY <2>6, <1>0, <1>8 DEF CancellerCloses, Join, CancellerAt, registryVars, taskVars, driverVars
  <2>7. CASE CancellerClosed(a)
    BY <2>7, <1>0, <1>8 DEF CancellerClosed, Leave, CloseFailed, CancellerAt, registryVars,
       taskVars, driverVars
  <2>8. CASE CancelRelease(a)
    BY <2>8, <1>0, <1>8 DEF CancelRelease, CancellerAt, registryVars, taskVars, driverVars
  <2> QED
    BY <1>3, <2>1, <2>2, <2>3, <2>4, <2>5, <2>6, <2>7, <2>8 DEF CancellerStep
<1>4. ASSUME NEW g \in Gens, CleanupStep(g) PROVE LostAt(b)'
  <2>1. CASE CancelOwner(g)
    BY <2>1, <1>0, <1>8 DEF CancelOwner, CancelOwners, OwnersOf, registryVars, taskVars, driverVars
  <2>2. CASE StopAcked(g)
    BY <2>2, <1>0, <1>8 DEF StopAcked, registryVars, taskVars, driverVars
  <2>3. CASE ReleaseOwner(g)
    BY <2>3, <1>0, <1>8 DEF ReleaseOwner, ReleaseOwners, registryVars, taskVars, driverVars
  <2>4. CASE RemoveEntry(g)
    BY <2>4, <1>0, <1>8 DEF RemoveEntry, registryVars, taskVars, driverVars
  <2> QED
    BY <1>4, <2>1, <2>2, <2>3, <2>4 DEF CleanupStep
<1>5. CASE Environment
  <2>1. ASSUME NEW i \in Ids, UserClose(i) PROVE LostAt(b)'
    BY <2>1, <1>0, <1>8 DEF UserClose, registryVars, taskVars, driverVars
  <2>2. ASSUME NEW i \in Ids, MonitorFinds(i) PROVE LostAt(b)'
    BY <2>2, <1>0, <1>8 DEF MonitorFinds, registryVars, taskVars, driverVars
  <2>3. ASSUME NEW i \in Ids, ServiceEnds(i) PROVE LostAt(b)'
    BY <2>3, <1>0, <1>8 DEF ServiceEnds, registryVars, taskVars, driverVars
  <2>4. ASSUME NEW a \in Attempts, NEW i \in Ids, ServiceCreates(a, i) PROVE LostAt(b)'
    BY <2>4, <1>0, <1>8 DEF ServiceCreates, registryVars, taskVars, driverVars
  <2> QED
    BY <1>5, <2>1, <2>2, <2>3, <2>4 DEF Environment
<1>6. CASE ShutdownStep
  <2>1. CASE BeginShutdown
    BY <2>1, <1>0, <1>8 DEF BeginShutdown, Shutdown, registryVars, taskVars, driverVars
  <2>2. ASSUME NEW i \in Ids, ShutdownCloses(i) PROVE LostAt(b)'
    BY <2>2, <1>0, <1>8 DEF ShutdownCloses, registryVars, taskVars, driverVars
  <2>3. ASSUME NEW g \in Gens, ShutdownCloseReturns(g) PROVE LostAt(b)'
    BY <2>3, <1>0, <1>8 DEF ShutdownCloseReturns, registryVars, taskVars, driverVars
  <2>4. CASE ShutdownSwept
    BY <2>4, <1>0, <1>8 DEF ShutdownSwept, registryVars, taskVars, driverVars
  <2>5. CASE ShutdownEnds
    BY <2>5, <1>0, <1>8 DEF ShutdownEnds, registryVars, taskVars, driverVars
  <2>6. CASE ShutdownExpires
    BY <2>6, <1>0, <1>8 DEF ShutdownExpires, registryVars, taskVars, driverVars
  <2> QED
    BY <1>6, <2>1, <2>2, <2>3, <2>4, <2>5, <2>6 DEF ShutdownStep
<1>7. CASE UNCHANGED vars
  BY <1>7, <1>0, <1>8 DEF vars, registryVars, taskVars, driverVars
<1> QED
  BY <1>1, <1>2, <1>3, <1>4, <1>5, <1>6, <1>7 DEF Next

\* What is left to stop of the target of an attempt that is not spent is that attempt's.
LEMMA RivalsAreDone ==
  ASSUME TypeOK, ClaimInv, StoreInv, OwnedInv, NEW a \in Attempts, ~Spent(a)
  PROVE  /\ \A g \in Gens : Unstopped(g) /\ TargetOf[maker[g]] = TargetOf[a] => maker[g] = a /\ owned[a] = g
         /\ \A c \in Attempts : task[c] = "inflight" /\ TargetOf[c] = TargetOf[a] => c = a
<1> USE RegistryAssumption, LifecycleAssumption DEF TypeOK, RegistryTypeOK, LifecycleTypeOK, Gen, Id
<1>1. ASSUME NEW g \in Gens, Unstopped(g), TargetOf[maker[g]] = TargetOf[a]
      PROVE  maker[g] = a /\ owned[a] = g
  <2>1. maker[g] \in Attempts /\ owned[maker[g]] = g
    BY <1>1 DEF Unstopped, OwnedInv, StoreInv
  <2>2. ~Spent(maker[g])
    BY <2>1 DEF Spent
  <2> QED
    BY <1>1, <2>1, <2>2 DEF ClaimInv
<1>2. ASSUME NEW c \in Attempts, task[c] = "inflight", TargetOf[c] = TargetOf[a] PROVE c = a
  <2>1. ~Spent(c)
    BY <1>2 DEF Spent
  <2> QED
    BY <1>2, <2>1 DEF ClaimInv
<1> QED
  BY <1>1, <1>2

\* An attempt about to create, or waiting for the answer, has nothing left to stop.
LEMMA CreatorIsClean ==
  ASSUME TypeOK, StoreInv, StepInv, ClearInv, NEW a \in Attempts, task[a] \in {"sending", "inflight"},
         NEW g \in Gens, Unstopped(g)
  PROVE  maker[g] # a
<1> USE RegistryAssumption, LifecycleAssumption DEF TypeOK, LifecycleTypeOK, Gen, Id
<1>1. CASE session[idOf[g]] = g
  <2>1. idOf[g] \in MadeBy(maker[g])
    BY <1>1 DEF MadeBy, Unstopped
  <2> QED
    BY <2>1 DEF StepInv, StepAt
<1>2. CASE stop[g] = "pending"
  BY <1>2 DEF ClearInv
<1> QED
  BY <1>1, <1>2 DEF Unstopped

\* Nothing lives of the target of an attempt that has nothing left to stop and no answer to read, but
\* for a create that was lost.
LEMMA NothingLives ==
  ASSUME TypeOK, ClaimInv, StoreInv, OwnedInv, FlightInv, NoOrphan, NamedInv,
         NEW a \in Attempts, ~Spent(a), \A g \in Gens : Unstopped(g) => maker[g] # a \/ owned[a] # g,
         task[a] = "inflight" => reply[a] = NoId, NEW j \in Ids, remote[j] = TargetOf[a]
  PROVE  TargetOf[a] \in unknown
<1> USE RegistryAssumption, LifecycleAssumption DEF TypeOK, RegistryTypeOK, LifecycleTypeOK, Gen, Id
<1>1. CASE session[j] # NoGen
  <2>1. session[j] \in Gens /\ Unstopped(session[j]) /\ TargetOf[maker[session[j]]] = TargetOf[a]
    BY <1>1 DEF StoreInv, Unstopped, NamedInv
  <2> QED
    BY <2>1, RivalsAreDone
<1>2. CASE cleanup[j] # NoGen
  <2>1. cleanup[j] \in Gens /\ Unstopped(cleanup[j]) /\ TargetOf[maker[cleanup[j]]] = TargetOf[a]
    BY <1>2 DEF StoreInv, Unstopped, NamedInv
  <2> QED
    BY <2>1, RivalsAreDone
<1>3. ASSUME NEW c \in Attempts, task[c] = "inflight", reply[c] = j PROVE FALSE
  <2>1. TargetOf[c] = TargetOf[a]
    BY <1>3 DEF FlightInv
  <2> QED
    BY <1>3, <2>1, RivalsAreDone
<1> QED
  BY <1>1, <1>2, <1>3 DEF NoOrphan

\* What is recorded or being cleaned up under an id the service names again is of another target, so
\* there is nothing of the kind.
LEMMA NameIsFree ==
  ASSUME TypeOK, ClaimInv, StoreInv, OwnedInv, StepInv, ClearInv,
         NEW a \in Attempts, NEW i \in Ids, ServiceCreates(a, i)
  PROVE  /\ session[i] = NoGen /\ cleanup[i] = NoGen
         /\ \A c \in Attempts : task[c] = "inflight" => reply[c] # i
<1> USE RegistryAssumption, LifecycleAssumption DEF TypeOK, RegistryTypeOK, LifecycleTypeOK, Gen, Id
<1>1. task[a] = "inflight" /\ reply[a] = NoId
  BY DEF ServiceCreates
<1>2. ASSUME NEW g \in Gens, idOf[g] = i
      PROVE  stop[g] \notin {"acked", "released"} /\ TargetOf[maker[g]] = TargetOf[a]
  BY <1>2 DEF ServiceCreates, Issued
<1>0. ~Spent(a)
  BY <1>1 DEF Spent
<1>3. ASSUME NEW g \in Gens, idOf[g] = i PROVE ~Unstopped(g)
  BY <1>0, <1>1, <1>2, <1>3, RivalsAreDone, CreatorIsClean
<1>4. session[i] = NoGen
  BY <1>3 DEF StoreInv, Unstopped
<1>5. cleanup[i] = NoGen
  BY <1>2, <1>3 DEF StoreInv, Unstopped
<1>6. ASSUME NEW c \in Attempts, task[c] = "inflight" PROVE reply[c] # i
  <2>1. reply[c] = i => TargetOf[c] = TargetOf[a]
    BY DEF ServiceCreates, Issued
  <2> QED
    BY <1>0, <1>1, <1>6, <2>1, RivalsAreDone
<1> QED
  BY <1>4, <1>5, <1>6

\* The id of an answer stays free until it is recorded.
LEMMA FlightStep ==
  ASSUME TypeOK, TypeOK', StageInv, ClaimInv, StoreInv, OwnedInv, StepInv, ClearInv, FlightInv, [Next]_vars
  PROVE  FlightInv'
<1> USE RegistryAssumption, LifecycleAssumption DEF TypeOK, RegistryTypeOK, LifecycleTypeOK, Gen, Id
<1>1. ASSUME NEW a \in Attempts, NEW i \in Ids, ServiceCreates(a, i) PROVE FlightInv'
  <2>1. /\ task[a] = "inflight" /\ reply[a] = NoId /\ UNCHANGED <<task, session, cleanup>>
        /\ reply' = [reply EXCEPT ![a] = i] /\ remote' = [remote EXCEPT ![i] = TargetOf[a]]
    BY <1>1 DEF ServiceCreates, storeVars, cleanupVars
  <2>2. /\ session[i] = NoGen /\ cleanup[i] = NoGen
        /\ \A c \in Attempts : task[c] = "inflight" => reply[c] # i
    BY <1>1, NameIsFree
  <2> QED
    BY <2>1, <2>2 DEF FlightInv
<1>2. ASSUME ~\E a \in Attempts, i \in Ids : ServiceCreates(a, i) PROVE FlightInv'
  <2> SUFFICES ASSUME NEW b \in Attempts, task'[b] = "inflight", reply'[b] # NoId
               PROVE  /\ session'[reply'[b]] = NoGen /\ cleanup'[reply'[b]] = NoGen
                      /\ remote'[reply'[b]] \in {NoTarget, TargetOf[b]}
                      /\ \A c \in Attempts : task'[c] = "inflight" /\ reply'[c] = reply'[b] => c = b
    BY DEF FlightInv
  <2> DEFINE r == reply[b]
  <2>1. \A c \in Attempts : task'[c] = "inflight" /\ reply'[c] # NoId => task[c] = "inflight" /\ reply'[c] = reply[c]
    BY <1>2, AnswerMoves DEF Answers
  <2>2. task[b] = "inflight" /\ reply'[b] = r /\ r \in Ids
    BY <2>1
  <2>3. /\ session[r] = NoGen /\ cleanup[r] = NoGen /\ remote[r] \in {NoTarget, TargetOf[b]}
        /\ \A c \in Attempts : task[c] = "inflight" /\ reply[c] = r => c = b
    BY <2>2 DEF FlightInv
  <2>4. remote'[r] \in {NoTarget, TargetOf[b]}
    BY <1>2, <2>2, <2>3, AnswerMoves DEF Answers
  <2>5. \A c \in Attempts : task'[c] = "inflight" /\ reply'[c] = r => c = b
    BY <2>1, <2>2, <2>3
  <2>6. session'[r] = NoGen /\ cleanup'[r] = NoGen
    <3>1. CASE StoreStays
      BY <2>3, <3>1 DEF StoreStays, storeVars
    <3>2. ASSUME NEW i \in Ids, NEW c \in BOOLEAN, CloseLocally(i, c) PROVE session'[r] = NoGen /\ cleanup'[r] = NoGen
      <4>1. CASE UNCHANGED <<session, dead, cleanup, stop>>
        BY <2>3, <4>1
      <4>2. ASSUME session[i] \in Gens, session' = [session EXCEPT ![i] = NoGen],
                   cleanup' = [cleanup EXCEPT ![i] = session[i]]
            PROVE  session'[r] = NoGen /\ cleanup'[r] = NoGen
        <5>1. i # r
          BY <2>3, <4>2
        <5> QED
          BY <2>2, <2>3, <4>2, <5>1
      <4> QED
        BY <3>2, <4>1, <4>2, CloseMoves
    <3>3. ASSUME NEW a \in Attempts, RecreateClosed(a) PROVE session'[r] = NoGen /\ cleanup'[r] = NoGen
      BY <2>2, <2>3, <3>3 DEF RecreateClosed, cleanupVars, StageInv
    <3>4. ASSUME NEW a \in Attempts, NEW g \in Gens, CreateRecorded(a, g)
          PROVE  session'[r] = NoGen /\ cleanup'[r] = NoGen
      <4>1. task[a] = "inflight" /\ task'[a] = "recorded" /\ reply[a] # r
        BY <2>2, <2>3, <3>4 DEF CreateRecorded, TaskAt
      <4> QED
        BY <2>2, <2>3, <3>4, <4>1 DEF CreateRecorded, cleanupVars
    <3>5. ASSUME NEW a \in Attempts, CancelInspect(a) \/ CancelInspectCleanup(a) \/ CancelRelease(a)
          PROVE  session'[r] = NoGen /\ cleanup'[r] = NoGen
      BY <2>3, <3>5 DEF CancelInspect, CancelInspectCleanup, CancelRelease, storeVars, cleanupVars
    <3>6. ASSUME NEW i \in Ids, MonitorFinds(i) PROVE session'[r] = NoGen /\ cleanup'[r] = NoGen
      BY <2>3, <3>6 DEF MonitorFinds, cleanupVars
    <3>7. ASSUME NEW g \in Gens, StopAcked(g) \/ ReleaseOwner(g) PROVE session'[r] = NoGen /\ cleanup'[r] = NoGen
      BY <2>3, <3>7 DEF StopAcked, ReleaseOwner, storeVars
    <3>8. ASSUME NEW g \in Gens, RemoveEntry(g) PROVE session'[r] = NoGen /\ cleanup'[r] = NoGen
      BY <2>2, <2>3, <3>8 DEF RemoveEntry, storeVars
    <3> QED
      BY <3>1, <3>2, <3>3, <3>4, <3>5, <3>6, <3>7, <3>8, StoreMoves DEF Closes, Moves
  <2> QED
    BY <2>2, <2>4, <2>5, <2>6
<1> QED
  BY <1>1, <1>2

\* What lives on the service is accounted for, and is the only one of its target.
LEMMA RemoteStep ==
  ASSUME TypeOK, StageInv, ClaimInv, StoreInv, OwnedInv, StepInv, ClearInv, FlightInv, FlightInv',
         NoOrphan, OneRemotePerTarget, NamedInv, LostInv, [Next]_vars
  PROVE  NoOrphan' /\ OneRemotePerTarget' /\ NamedInv'
<1> USE RegistryAssumption, LifecycleAssumption DEF TypeOK, RegistryTypeOK, LifecycleTypeOK, Gen, Id
<1>1. ASSUME NEW a \in Attempts, NEW i \in Ids, ServiceCreates(a, i)
      PROVE  NoOrphan' /\ OneRemotePerTarget' /\ NamedInv'
  <2>1. /\ task[a] = "inflight" /\ reply[a] = NoId /\ UNCHANGED <<task, session, idOf, maker, cleanup, stop, unknown>>
        /\ reply' = [reply EXCEPT ![a] = i] /\ remote' = [remote EXCEPT ![i] = TargetOf[a]]
    BY <1>1 DEF ServiceCreates, storeVars, cleanupVars, registryVars
  <2>2. session[i] = NoGen /\ cleanup[i] = NoGen
    BY <1>1, NameIsFree
  <2>3. NoOrphan'
    BY <2>1 DEF NoOrphan
  <2>4. ASSUME NEW j \in Ids PROVE remote[j] # TargetOf[a]
    <3>1. ~Spent(a) /\ TargetOf[a] \notin unknown
      BY <2>1 DEF Spent, LostInv, LostAt
    <3>2. \A g \in Gens : Unstopped(g) => maker[g] # a
      BY <2>1, CreatorIsClean
    <3> QED
      BY <2>1, <3>1, <3>2, NothingLives
  <2>5. OneRemotePerTarget'
    BY <2>1, <2>4 DEF OneRemotePerTarget
  <2>6. NamedInv'
    BY <2>1, <2>2 DEF NamedInv
  <2> QED
    BY <2>3, <2>5, <2>6
<1>2. ASSUME ~\E a \in Attempts, i \in Ids : ServiceCreates(a, i)
      PROVE  NoOrphan' /\ OneRemotePerTarget' /\ NamedInv'
  <2>1. ASSUME NEW a \in Attempts, task[a] = "inflight", reply[a] # NoId
        PROVE  \/ task'[a] = "inflight" /\ reply'[a] = reply[a]
               \/ CreateUnknown(a)
               \/ \E g \in Gens : CreateRecorded(a, g)
    BY <1>2, <2>1, AnswerMoves DEF Answers
  <2>2. (\A i \in Ids : remote'[i] \in {remote[i], NoTarget}) /\ unknown \subseteq unknown'
    BY <1>2, AnswerMoves DEF Answers
  <2>3. OneRemotePerTarget'
    BY <2>2 DEF OneRemotePerTarget
  <2> DEFINE Named(i) == /\ session'[i] # NoGen => remote'[i] = TargetOf[maker'[session'[i]]]
                         /\ cleanup'[i] # NoGen => /\ remote'[i] = TargetOf[maker'[cleanup'[i]]]
                                                   /\ stop'[cleanup'[i]] \notin {"acked", "released"}
             Stored(i) == session'[i] # NoGen \/ cleanup'[i] # NoGen
             Known(i) == Named(i) /\ ((session[i] = NoGen /\ cleanup[i] = NoGen) \/ Stored(i))
  <2>4. ASSUME NEW i \in Ids, remote'[i] # NoTarget PROVE Known(i)
    <3>0. /\ remote[i] = remote'[i] /\ remote[i] # NoTarget
          /\ session[i] # NoGen => /\ session[i] \in Gens /\ idOf[session[i]] = i /\ cleanup[i] = NoGen
                                   /\ remote[i] = TargetOf[maker[session[i]]]
          /\ cleanup[i] # NoGen => /\ cleanup[i] \in Gens /\ idOf[cleanup[i]] = i
                                   /\ remote[i] = TargetOf[maker[cleanup[i]]]
                                   /\ stop[cleanup[i]] \notin {"acked", "released"}
      BY <2>2, <2>4 DEF NamedInv, StoreInv
    <3>1. CASE UNCHANGED <<session, cleanup, stop, maker>>
      BY <3>0, <3>1
    <3>2. ASSUME NEW j \in Ids, NEW c \in BOOLEAN, CloseLocally(j, c) PROVE Known(i)
      <4>1. ASSUME session[j] \in Gens, cleanup[j] = NoGen, session' = [session EXCEPT ![j] = NoGen],
                   cleanup' = [cleanup EXCEPT ![j] = session[j]], maker' = maker,
                   stop' = [stop EXCEPT ![session[j]] = "pending"]
            PROVE  Known(i)
        <5>1. CASE i = j
          BY <3>0, <4>1, <5>1
        <5>2. CASE i # j
          BY <3>0, <4>1, <5>2
        <5> QED
          BY <5>1, <5>2
      <4> QED
        BY <3>1, <3>2, <4>1, CloseMoves
    <3>3. ASSUME NEW a \in Attempts, RecreateClosed(a) PROVE Known(i)
      BY <3>1, <3>3 DEF RecreateClosed, cleanupVars, StepInv, StepAt
    <3>4. ASSUME NEW a \in Attempts, NEW g \in Gens, CreateRecorded(a, g) PROVE Known(i)
      <4>1. /\ task[a] = "inflight" /\ reply[a] \in Ids /\ idOf[g] = NoId /\ UNCHANGED <<cleanup, stop>>
            /\ session' = [session EXCEPT ![reply[a]] = g] /\ maker' = [maker EXCEPT ![g] = a]
        BY <3>4 DEF CreateRecorded, cleanupVars
      <4>2. CASE i = reply[a]
        BY <3>0, <4>1, <4>2 DEF FlightInv
      <4>3. CASE i # reply[a]
        <5>1. session[i] # g /\ cleanup[i] # g
          BY <3>0, <4>1
        <5> QED
          BY <3>0, <4>1, <4>3, <5>1
      <4> QED
        BY <4>2, <4>3
    <3>5. ASSUME NEW a \in Attempts, CancelInspect(a) \/ CancelInspectCleanup(a) \/ CancelRelease(a) PROVE Known(i)
      BY <3>1, <3>5 DEF CancelInspect, CancelInspectCleanup, CancelRelease, storeVars, cleanupVars
    <3>6. ASSUME NEW j \in Ids, MonitorFinds(j) PROVE Known(i)
      BY <3>1, <3>6 DEF MonitorFinds, cleanupVars
    <3>7. ASSUME NEW g \in Gens, StopAcked(g) PROVE Known(i)
      <4>1. idOf[g] # i
        BY <2>4, <3>7 DEF StopAcked
      <4> QED
        BY <3>0, <3>7, <4>1 DEF StopAcked, storeVars
    <3>8. ASSUME NEW g \in Gens, ReleaseOwner(g) PROVE Known(i)
      <4>1. cleanup[i] # g
        BY <3>0, <3>8 DEF ReleaseOwner
      <4> QED
        BY <3>0, <3>8, <4>1 DEF ReleaseOwner, storeVars
    <3>9. ASSUME NEW g \in Gens, RemoveEntry(g) PROVE Known(i)
      <4>1. cleanup[idOf[g]] = g /\ idOf[g] \in Ids /\ stop[g] = "released"
        BY <3>9 DEF RemoveEntry, StoreInv
      <4>2. idOf[g] # i
        BY <3>0, <4>1
      <4> QED
        BY <3>0, <3>9, <4>1, <4>2 DEF RemoveEntry, storeVars
    <3>10. CASE StoreStays
      BY <3>1, <3>10 DEF StoreStays, storeVars
    <3> QED
      BY <3>2, <3>3, <3>4, <3>5, <3>6, <3>7, <3>8, <3>9, <3>10, StoreMoves DEF Closes, Moves
  <2>5. NamedInv'
    BY <2>4 DEF NamedInv
  <2>6. ASSUME NEW i \in Ids, remote'[i] # NoTarget
        PROVE  Stored(i) \/ (\E a \in Attempts : task'[a] = "inflight" /\ reply'[a] = i) \/ remote'[i] \in unknown'
    <3>1. remote[i] = remote'[i] /\ remote[i] # NoTarget
      BY <2>2, <2>6
    <3>2. CASE session[i] # NoGen \/ cleanup[i] # NoGen
      BY <2>4, <2>6, <3>2
    <3>3. ASSUME NEW a \in Attempts, task[a] = "inflight", reply[a] = i
          PROVE  \/ Stored(i)
                 \/ task'[a] = "inflight" /\ reply'[a] = i
                 \/ remote'[i] \in unknown'
      <4>1. CASE CreateUnknown(a)
        BY <3>1, <3>3, <4>1 DEF CreateUnknown, FlightInv
      <4>2. ASSUME NEW g \in Gens, CreateRecorded(a, g) PROVE Stored(i)
        BY <3>3, <4>2 DEF CreateRecorded
      <4>3. i # NoId
        OBVIOUS
      <4>4. \/ task'[a] = "inflight" /\ reply'[a] = reply[a]
            \/ CreateUnknown(a)
            \/ \E g \in Gens : CreateRecorded(a, g)
        BY <2>1, <3>3, <4>3
      <4> QED
        BY <3>3, <4>1, <4>2, <4>4
    <3>4. remote[i] \in unknown => remote'[i] \in unknown'
      BY <2>2, <3>1
    <3> QED
      BY <3>1, <3>2, <3>3, <3>4 DEF NoOrphan
  <2>7. NoOrphan'
    BY <2>6 DEF NoOrphan
  <2> QED
    BY <2>3, <2>5, <2>7
<1> QED
  BY <1>1, <1>2

LEMMA KeptStep ==
  ASSUME TypeOK, TypeOK', StageInv, ClaimInv, KeptInv, [Next]_vars PROVE KeptInv'
<1> USE DEF KeptInv, RemoteInv
<1>1. StoreInv'
  BY StoreStep
<1>2. OwnedInv' /\ MakerInv'
  BY OwnedStep, MakerStep
<1>3. StepInv' /\ ClearInv'
  BY StepStep, ClearStep
<1>4. CancelInv'
  BY CancelStep
<1>5. FlightInv'
  BY FlightStep
<1>6. RemoteInv'
  BY <1>5, RemoteStep, LostStep
<1> QED
  BY <1>1, <1>2, <1>3, <1>4, <1>5, <1>6

\* The store, the cleanups, the owners, the answers in flight and what lives
\* on the service stay in step, whatever the tasks of all attempts do.
THEOREM KeptCorrect == Spec => []KeptInv
<1>1. Init => KeptInv
  <2> SUFFICES ASSUME Init PROVE KeptInv
    OBVIOUS
  <2> USE RegistryAssumption, LifecycleAssumption DEF Init, RegistryInit
  <2>1. StoreInv /\ OwnedInv /\ MakerInv
    BY DEF StoreInv, OwnedInv, MakerInv, Unstopped, LiveTokenIsStored
  <2>2. \A a \in Attempts : MadeBy(a) = {}
    BY DEF MadeBy
  <2>3. StepInv /\ ClearInv
    BY <2>2 DEF StepInv, StepAt, ClearInv
  <2>4. CancelInv /\ FlightInv
    BY <2>2 DEF CancelInv, CancelAt, FlightInv
  <2>5. RemoteInv
    BY DEF RemoteInv, NoOrphan, OneRemotePerTarget, NamedInv, LostInv, LostAt
  <2> QED
    BY <2>1, <2>3, <2>4, <2>5 DEF KeptInv
<1>2. TypeOK /\ TypeOK' /\ StageInv /\ ClaimInv /\ KeptInv /\ [Next]_vars => KeptInv'
  BY KeptStep
<1> QED
  BY <1>1, <1>2, TypeCorrect, ClaimCorrect, PTL DEF Spec

\* No create is lost: a session that lives on the service is in the store or
\* among the cleanups, or its answer is still to be read, or its target is
\* kept from everyone as unknown (start_stream_with_retry, close_session and
\* try_remote_cleanup between them).
THEOREM NothingIsOrphaned == Spec => []NoOrphan
<1>1. KeptInv => NoOrphan
  BY DEF KeptInv, RemoteInv
<1> QED
  BY <1>1, KeptCorrect, PTL

\* The service never runs two sessions of one target: begin_startup and
\* ensure_target_cleanup let a create out only when every earlier session of
\* its target was stopped.
THEOREM OneSessionPerTarget == Spec => []OneRemotePerTarget
<1>1. KeptInv => OneRemotePerTarget
  BY DEF KeptInv, RemoteInv
<1> QED
  BY <1>1, KeptCorrect, PTL

\* What create_session_record stored is still its scope's, however long ago
\* the startup returned or was cancelled: nobody releases what was not stopped.
THEOREM RecordsAreOwned == Spec => []StoredIsOwned
<1>1. TypeOK /\ KeptInv => StoredIsOwned
  BY RegistryAssumption, LifecycleAssumption
     DEF KeptInv, StoreInv, OwnedInv, Unstopped, StoredIsOwned, TypeOK, LifecycleTypeOK, Gen
<1> QED
  BY <1>1, TypeCorrect, KeptCorrect, PTL

\* A token outlives its place in the store nowhere: close_session,
\* insert_new_with_plan and the re-create all cancel what they take out.
THEOREM LiveTokensAreStored == Spec => []LiveTokenIsStored
<1>1. KeptInv => LiveTokenIsStored
  BY DEF KeptInv, StoreInv
<1> QED
  BY <1>1, KeptCorrect, PTL

\* Once cancel_startup has returned, its attempt has no record left and no
\* create that could still make one.
THEOREM CancelIsComplete == Spec => []CancelReturnedMeansClean
<1>1. KeptInv => CancelReturnedMeansClean
  BY DEF KeptInv, CancelInv, CancelAt, MadeBy, CancelReturnedMeansClean
<1> QED
  BY <1>1, KeptCorrect, PTL

-----------------------------------------------------------------------------
(* The tasks implement TargetOwnership.                                     *)

\* Seen through the targets, nothing happens.
Undisturbed == (\A b \in Attempts : Holds(b)' <=> Holds(b)) /\ UNCHANGED <<remote, unknown>>

LEMMA HoldersAreNotSpent ==
  ASSUME NEW a \in Attempts, Holds(a) PROVE ~Spent(a)
  BY DEF Holds, Spent

\* A holder may let go once nothing of its target lives, but for a lost create.
LEMMA GivesBack ==
  ASSUME TypeOK, NEW a \in Attempts, Holds(a), \A b \in Attempts : b # a => (Holds(b)' <=> Holds(b)),
         UNCHANGED <<remote, unknown>>, \A j \in Ids : remote[j] = TargetOf[a] => TargetOf[a] \in unknown
  PROVE  Undisturbed \/ Ownership!OwnershipNext
<1>1. CASE Holds(a)'
  BY <1>1 DEF Undisturbed
<1>2. CASE ~Holds(a)' /\ TargetOf[a] \notin unknown
  <2>1. Ownership!GiveBack(a)
    BY <1>2 DEF Ownership!GiveBack
  <2> QED
    BY <2>1 DEF Ownership!OwnershipNext
<1>3. CASE ~Holds(a)' /\ TargetOf[a] \in unknown
  <2>1. Ownership!Block(a)
    BY <1>3 DEF Ownership!Block
  <2> QED
    BY <2>1 DEF Ownership!OwnershipNext
<1> QED
  BY <1>1, <1>2, <1>3

\* The only session of a target ends.
LEMMA RemoteEnds ==
  ASSUME TypeOK, OneRemotePerTarget, NEW i \in Ids, remote' = [remote EXCEPT ![i] = NoTarget],
         UNCHANGED <<task, owned, unknown>>
  PROVE  Undisturbed \/ Ownership!OwnershipNext
<1> USE RegistryAssumption, LifecycleAssumption DEF TypeOK, LifecycleTypeOK
<1>1. CASE remote[i] = NoTarget
  BY <1>1 DEF Undisturbed, Holds
<1>2. CASE remote[i] # NoTarget
  <2> DEFINE was == {t \in Targets : \E j \in Ids : remote[j] = t}
             now == {t \in Targets : \E j \in Ids : remote'[j] = t}
  <2>0. PICK t \in Targets : t = remote[i]
    BY <1>2
  <2>1. \A j \in Ids : j # i => remote[j] # t
    BY <1>2, <2>0 DEF OneRemotePerTarget
  <2>2. now = was \ {t}
    BY <2>0, <2>1
  <2>3. {b \in Attempts : Holds(b)}' = {b \in Attempts : Holds(b)}
    BY DEF Holds
  <2>4. Ownership!End(t)
    BY <2>2, <2>3 DEF Ownership!End
  <2> QED
    BY <2>4 DEF Ownership!OwnershipNext
<1> QED
  BY <1>1, <1>2

\* Every step of the tasks is, for the targets, one of TargetOwnership or none.
LEMMA OwnershipStep ==
  ASSUME TypeOK, TypeOK', StageInv, ClaimInv, KeptInv, [Next]_vars
  PROVE  Undisturbed \/ Ownership!OwnershipNext
<1> USE RegistryAssumption, LifecycleAssumption
    DEF TypeOK, RegistryTypeOK, LifecycleTypeOK, Gen, Id, TaskStages, KeptInv, RemoteInv
<1>1. ASSUME NEW a \in Attempts, DriverStep(a) PROVE Undisturbed \/ Ownership!OwnershipNext
  <2>1. ASSUME NEW gone \in SUBSET Expired, StartSession(a, gone) PROVE Undisturbed \/ Ownership!OwnershipNext
    BY <2>1 DEF Undisturbed, Holds, StartSession, DriverAt, CancellerAt, Begin, Kept,
       registryVars, taskVars
  <2>2. ASSUME NEW gone \in SUBSET Expired, StartRefused(a, gone) PROVE Undisturbed \/ Ownership!OwnershipNext
    BY <2>2 DEF Undisturbed, Holds, StartRefused, BeginRefused, Kept, registryVars, taskVars
  <2>3. CASE RunFails(a)
    BY <2>3 DEF Undisturbed, Holds, RunFails, DriverFails, DriverReturns, DriverAt, Finished,
       CancelScope, registryVars, taskVars
  <2>4. CASE Resolved(a)
    BY <2>4 DEF Undisturbed, Holds, Resolved, DriverGoes, DriverAt, registryVars, taskVars
  <2>5. CASE Track(a)
    BY <2>5 DEF Undisturbed, Holds, Track, DriverGoes, DriverAt, DriverFails, DriverReturns,
       Finished, CancelScope, registryVars, taskVars
  <2>6. CASE EnsureTarget(a)
    BY <2>6 DEF Undisturbed, Holds, EnsureTarget, DriverFails, DriverReturns, Finished, DriverAt,
       registryVars, taskVars
  <2>7. ASSUME NEW i \in Ids, ClearPending(a, i) PROVE Undisturbed \/ Ownership!OwnershipNext
    BY <2>7 DEF Undisturbed, Holds, ClearPending, Join, registryVars, taskVars
  <2>8. CASE PendingCleared(a)
    BY <2>8 DEF Undisturbed, Holds, PendingCleared, Leave, Succeeded, registryVars, taskVars
  <2>9. CASE PendingFailed(a)
    BY <2>9 DEF Undisturbed, Holds, PendingFailed, Leave, DriverFails, DriverReturns, Finished,
       DriverAt, CloseFailed, registryVars, taskVars
  <2>10. CASE TargetCleared(a)
    BY <2>10 DEF Undisturbed, Holds, TargetCleared, DriverGoes, DriverAt, DriverFails,
       DriverReturns, Finished, registryVars, taskVars
  <2>11. CASE SpawnCreate(a)
    <3>1. task[a] = "none"
      BY <2>11 DEF SpawnCreate, StepInv, StepAt
    <3> QED
      BY <2>11, <3>1 DEF Undisturbed, Holds, SpawnCreate, TaskAt, DriverAt
  <2>12. CASE CreateAbandoned(a)
    BY <2>12 DEF Undisturbed, Holds, CreateAbandoned, DropResult, TaskAt, DriverFails,
       DriverReturns, Finished, DriverAt, CancelScope, registryVars, taskVars
  <2>13. CASE CreateErred(a)
    BY <2>13 DEF Undisturbed, Holds, CreateErred, DropResult, TaskAt, DriverFails, DriverReturns,
       Finished, DriverAt, registryVars, taskVars
  <2>14. CASE Created(a)
    BY <2>14 DEF Undisturbed, Holds, Created, DropResult, TaskAt, DriverAt, registryVars, taskVars
  <2>15. CASE Ready(a)
    BY <2>15 DEF Undisturbed, Holds, Ready, DriverAt, registryVars, taskVars
  <2>16. CASE FetchReady(a)
    BY <2>16 DEF Undisturbed, Holds, FetchReady, DriverReturns, Finished, DriverAt, registryVars,
       taskVars
  <2>17. CASE ReadyFailed(a)
    BY <2>17 DEF Undisturbed, Holds, ReadyFailed, DriverAt, registryVars, taskVars
  <2>18. CASE RetryReady(a)
    BY <2>18 DEF Undisturbed, Holds, RetryReady, DriverAt, registryVars, taskVars
  <2>19. CASE RecreateClose(a)
    BY <2>19 DEF Undisturbed, Holds, RecreateClose, Join, DriverAt, registryVars, taskVars
  <2>20. CASE RecreateClosed(a)
    BY <2>20 DEF Undisturbed, Holds, RecreateClosed, Leave, DriverAt, registryVars, taskVars
  <2>21. CASE DriverCloses(a)
    BY <2>21 DEF Undisturbed, Holds, DriverCloses, Join, DriverAt, registryVars, taskVars
  <2>22. CASE DriverClosed(a)
    BY <2>22 DEF Undisturbed, Holds, DriverClosed, Leave, DriverFails, DriverReturns, Finished,
       DriverAt, registryVars, taskVars
  <2> QED
    BY <1>1, <2>1, <2>2, <2>3, <2>4, <2>5, <2>6, <2>7, <2>8, <2>9, <2>10, <2>11, <2>12, <2>13,
       <2>14, <2>15, <2>16, <2>17, <2>18, <2>19, <2>20, <2>21, <2>22 DEF DriverStep
<1>2. ASSUME NEW a \in Attempts, TaskStep(a) PROVE Undisturbed \/ Ownership!OwnershipNext
  <2>1. CASE SendCreate(a)
    <3>1. /\ task[a] = "sending" /\ a \notin cancelled /\ task' = [task EXCEPT ![a] = "inflight"]
          /\ UNCHANGED <<owned, remote, unknown>>
      BY <2>1 DEF SendCreate, TaskAt, registryVars
    <3>2. ~Spent(a) /\ TargetOf[a] \notin unknown
      BY <3>1 DEF Spent, LostInv, LostAt
    <3>0. \A g \in Gens : Unstopped(g) => maker[g] # a
      BY <3>1, CreatorIsClean
    <3>3. \A j \in Ids : remote[j] # TargetOf[a]
      BY <3>0, <3>1, <3>2, NothingLives
    <3>4. \A b \in Attempts : Holds(b) /\ TargetOf[b] = TargetOf[a] => b = a
      BY <3>2 DEF ClaimInv, Spent, Holds
    <3>5. Holds(a)' /\ \A b \in Attempts : b # a => (Holds(b)' <=> Holds(b))
      BY <3>1 DEF Holds
    <3>6. CASE Holds(a)
      BY <3>1, <3>5, <3>6 DEF Undisturbed
    <3>7. CASE ~Holds(a)
      <4>1. Ownership!Take(a)
        BY <3>1, <3>2, <3>3, <3>4, <3>5, <3>7 DEF Ownership!Take, Ownership!HoldersOf
      <4> QED
        BY <4>1 DEF Ownership!OwnershipNext
    <3> QED
      BY <3>6, <3>7
  <2>2. CASE SendSkipped(a)
    BY <2>2 DEF Undisturbed, Holds, SendSkipped, EndTask, TaskAt, registryVars, taskVars
  <2>3. ASSUME NEW g \in Gens, CreateRecorded(a, g) PROVE Undisturbed \/ Ownership!OwnershipNext
    <3>1. /\ task[a] = "inflight" /\ task' = [task EXCEPT ![a] = "recorded"]
          /\ owned' = [owned EXCEPT ![a] = g] /\ UNCHANGED <<remote, unknown>>
      BY <2>3 DEF CreateRecorded, TaskAt
    <3> QED
      BY <3>1 DEF Undisturbed, Holds
  <2>4. CASE CreateUnknown(a)
    <3>1. /\ task[a] = "inflight" /\ task' = [task EXCEPT ![a] = task'[a]] /\ UNCHANGED <<owned, remote>>
          /\ unknown' = unknown \cup {TargetOf[a]}
      BY <2>4 DEF CreateUnknown, TaskAt
    <3>2. Holds(a) /\ \A b \in Attempts : b # a => (Holds(b)' <=> Holds(b))
      BY <3>1 DEF Holds
    <3>3. Ownership!Block(a)
      BY <3>1, <3>2 DEF Ownership!Block
    <3> QED
      BY <3>3 DEF Ownership!OwnershipNext
  <2>5. CASE CreateDenied(a)
    <3>1. /\ task[a] = "inflight" /\ reply[a] = NoId /\ task' = [task EXCEPT ![a] = task'[a]]
          /\ UNCHANGED <<owned, remote, unknown>>
      BY <2>5 DEF CreateDenied, EndTask, TaskAt
    <3>2. Holds(a) /\ \A b \in Attempts : b # a => (Holds(b)' <=> Holds(b))
      BY <3>1 DEF Holds
    <3>3. \A g \in Gens : Unstopped(g) => maker[g] # a
      BY <3>1, CreatorIsClean
    <3>4. ASSUME NEW j \in Ids, remote[j] = TargetOf[a] PROVE TargetOf[a] \in unknown
      BY <3>1, <3>2, <3>3, <3>4, HoldersAreNotSpent, NothingLives
    <3> QED
      BY <3>1, <3>2, <3>4, GivesBack
  <2>6. CASE CreateRetried(a)
    <3>1. /\ task[a] = "inflight" /\ reply[a] = NoId /\ task' = [task EXCEPT ![a] = task'[a]]
          /\ UNCHANGED <<owned, remote, unknown>>
      BY <2>6 DEF CreateRetried, TaskAt, CancelScope
    <3>2. Holds(a) /\ \A b \in Attempts : b # a => (Holds(b)' <=> Holds(b))
      BY <3>1 DEF Holds
    <3>3. \A g \in Gens : Unstopped(g) => maker[g] # a
      BY <3>1, CreatorIsClean
    <3>4. ASSUME NEW j \in Ids, remote[j] = TargetOf[a] PROVE TargetOf[a] \in unknown
      BY <3>1, <3>2, <3>3, <3>4, HoldersAreNotSpent, NothingLives
    <3> QED
      BY <3>1, <3>2, <3>4, GivesBack
  <2>7. CASE CreateKept(a)
    BY <2>7 DEF Undisturbed, Holds, CreateKept, TaskAt, registryVars, taskVars
  <2>8. CASE CreateReturns(a)
    <3>1. /\ task[a] = "kept" /\ task' = [task EXCEPT ![a] = task'[a]]
          /\ UNCHANGED <<owned, remote, unknown>>
      BY <2>8 DEF CreateReturns, EndTask, TaskAt
    <3>2. Holds(a) /\ \A b \in Attempts : b # a => (Holds(b)' <=> Holds(b))
      BY <3>1 DEF Holds
    <3>3. CASE owned[a] # NoGen
      BY <3>1, <3>2, <3>3 DEF Undisturbed, Holds
    <3>4. CASE owned[a] = NoGen
      <4>0. ~Spent(a) /\ task[a] # "inflight" /\ \A g \in Gens : owned[a] # g
        BY <3>1, <3>2, <3>4, HoldersAreNotSpent
      <4>1. ASSUME NEW j \in Ids, remote[j] = TargetOf[a] PROVE TargetOf[a] \in unknown
        BY <4>0, <4>1, NothingLives
      <4> QED
        BY <3>1, <3>2, <4>1, GivesBack
    <3> QED
      BY <3>3, <3>4
  <2>9. CASE CreateCancelled(a)
    BY <2>9 DEF Undisturbed, Holds, CreateCancelled, TaskAt, registryVars, taskVars
  <2>10. CASE TaskCloses(a)
    BY <2>10 DEF Undisturbed, Holds, TaskCloses, TaskAt, Join, registryVars, taskVars
  <2>11. CASE TaskClosed(a)
    <3>1. /\ task[a] = "closingJoined" /\ task' = [task EXCEPT ![a] = task'[a]]
          /\ UNCHANGED <<owned, remote, unknown>>
      BY <2>11 DEF TaskClosed, Leave, EndTask, TaskAt
    <3>2. Holds(a) /\ \A b \in Attempts : b # a => (Holds(b)' <=> Holds(b))
      BY <3>1 DEF Holds
    <3>3. CASE owned[a] # NoGen
      BY <3>1, <3>2, <3>3 DEF Undisturbed, Holds
    <3>4. CASE owned[a] = NoGen
      <4>0. ~Spent(a) /\ task[a] # "inflight" /\ \A g \in Gens : owned[a] # g
        BY <3>1, <3>2, <3>4, HoldersAreNotSpent
      <4>1. ASSUME NEW j \in Ids, remote[j] = TargetOf[a] PROVE TargetOf[a] \in unknown
        BY <4>0, <4>1, NothingLives
      <4> QED
        BY <3>1, <3>2, <4>1, GivesBack
    <3> QED
      BY <3>3, <3>4
  <2>12. CASE LostCreateEnds(a)
    BY <2>12 DEF Undisturbed, Holds, LostCreateEnds, EndTask, TaskAt, registryVars, taskVars
  <2> QED
    BY <1>2, <2>1, <2>2, <2>3, <2>4, <2>5, <2>6, <2>7, <2>8, <2>9, <2>10, <2>11, <2>12 DEF TaskStep
<1>3. ASSUME NEW a \in Attempts, CancellerStep(a) PROVE Undisturbed \/ Ownership!OwnershipNext
  <2>1. ASSUME NEW gone \in SUBSET Expired, CancelStartup(a, gone) PROVE Undisturbed \/ Ownership!OwnershipNext
    BY <2>1 DEF Undisturbed, Holds, CancelStartup, CancellerAt, Cancel, Kept, registryVars, taskVars
  <2>2. CASE CreationSettled(a)
    BY <2>2 DEF Undisturbed, Holds, CreationSettled, Finished, CancellerAt, registryVars, taskVars
  <2>3. CASE SettleTimedOut(a)
    BY <2>3 DEF Undisturbed, Holds, SettleTimedOut, CancellerAt, registryVars, taskVars
  <2>4. CASE CancelInspect(a)
    <3>1. /\ owned' \in {owned, [owned EXCEPT ![a] = NoGen]} /\ UNCHANGED <<task, remote, unknown>>
          /\ task[a] # "inflight"
      BY <2>4 DEF CancelInspect, CancellerAt, taskVars, CancelInv, CancelAt
    <3>2. \A b \in Attempts : b # a => (Holds(b)' <=> Holds(b))
      BY <3>1 DEF Holds
    <3>3. CASE owned' = owned \/ owned[a] = NoGen
      <4>1. owned' = owned
        BY <3>1, <3>3
      <4> QED
        BY <3>1, <4>1 DEF Undisturbed, Holds
    <3>4. CASE owned' # owned /\ owned[a] # NoGen
      <4>1. ~Unstopped(owned[a])
        <5>1. owned[a] \in Gens
          BY <3>4
        <5>2. session[idOf[owned[a]]] \notin {NoGen, owned[a]}
          BY <2>4, <3>4 DEF CancelInspect
        <5>3. stop[owned[a]] # "pending"
          <6> SUFFICES ASSUME stop[owned[a]] = "pending" PROVE FALSE
            OBVIOUS
          <6>1. idOf[owned[a]] \in Ids /\ cleanup[idOf[owned[a]]] = owned[a]
            BY <5>1 DEF StoreInv
          <6> QED
            BY <5>1, <5>2, <6>1 DEF StoreInv
        <5> QED
          BY <5>2, <5>3 DEF Unstopped
      <4>2. Holds(a) /\ owned[a] \in Gens
        BY <3>4 DEF Holds
      <4>3. ASSUME NEW j \in Ids, remote[j] = TargetOf[a] PROVE TargetOf[a] \in unknown
        BY <3>1, <4>1, <4>2, <4>3, HoldersAreNotSpent, NothingLives
      <4> QED
        BY <3>1, <3>2, <4>2, <4>3, GivesBack
    <3> QED
      BY <3>3, <3>4
  <2>5. CASE CancelInspectCleanup(a)
    <3>1. /\ owned' \in {owned, [owned EXCEPT ![a] = NoGen]} /\ UNCHANGED <<task, remote, unknown>>
          /\ task[a] # "inflight"
      BY <2>5 DEF CancelInspectCleanup, CancellerAt, taskVars, CancelInv, CancelAt
    <3>2. \A b \in Attempts : b # a => (Holds(b)' <=> Holds(b))
      BY <3>1 DEF Holds
    <3>3. CASE owned' = owned \/ owned[a] = NoGen
      <4>1. owned' = owned
        BY <3>1, <3>3
      <4> QED
        BY <3>1, <4>1 DEF Undisturbed, Holds
    <3>4. CASE owned' # owned /\ owned[a] # NoGen
      <4>1. canceller[a] = "checkCleanup" /\ cleanup[idOf[held[a]]] \notin {NoGen, held[a]}
        BY <2>5, <3>4 DEF CancelInspectCleanup
      <4>2. Holds(a) /\ owned[a] \in Gens /\ idOf[owned[a]] \in Ids
        BY <3>4 DEF Holds, StageInv
      <4>3. CancelAt(a)
        BY DEF CancelInv
      <4>4. owned[a] = held[a]
        BY <3>4, <4>1, <4>3 DEF CancelAt
      <4>5. ~Unstopped(owned[a])
        <5>1. cleanup[idOf[owned[a]]] \notin {NoGen, owned[a]}
          BY <4>1, <4>4
        <5>2. stop[owned[a]] # "pending"
          BY <4>2, <5>1 DEF StoreInv
        <5>3. session[idOf[owned[a]]] # owned[a]
          BY <4>2, <5>1 DEF StoreInv
        <5> QED
          BY <5>2, <5>3 DEF Unstopped
      <4>6. ASSUME NEW j \in Ids, remote[j] = TargetOf[a] PROVE TargetOf[a] \in unknown
        BY <3>1, <4>2, <4>5, <4>6, HoldersAreNotSpent, NothingLives
      <4> QED
        BY <3>1, <3>2, <4>2, <4>6, GivesBack
    <3> QED
      BY <3>3, <3>4
  <2>6. CASE CancellerCloses(a)
    BY <2>6 DEF Undisturbed, Holds, CancellerCloses, Join, CancellerAt, registryVars, taskVars
  <2>7. CASE CancellerClosed(a)
    BY <2>7 DEF Undisturbed, Holds, CancellerClosed, Leave, CloseFailed, CancellerAt,
       registryVars, taskVars
  <2>8. CASE CancelRelease(a)
    <3>1. /\ owned' \in {owned, [owned EXCEPT ![a] = NoGen]} /\ UNCHANGED <<task, remote, unknown>>
          /\ task[a] # "inflight"
      BY <2>8 DEF CancelRelease, CancellerAt, taskVars, CancelInv, CancelAt
    <3>2. \A b \in Attempts : b # a => (Holds(b)' <=> Holds(b))
      BY <3>1 DEF Holds
    <3>3. CASE owned' = owned \/ owned[a] = NoGen
      <4>1. owned' = owned
        BY <3>1, <3>3
      <4> QED
        BY <3>1, <4>1 DEF Undisturbed, Holds
    <3>4. CASE owned' # owned /\ owned[a] # NoGen
      <4>1. ~Unstopped(owned[a])
        BY <2>8, <3>4 DEF CancelRelease, CancellerAt, CancelInv, CancelAt
      <4>2. Holds(a) /\ owned[a] \in Gens
        BY <3>4 DEF Holds
      <4>3. ASSUME NEW j \in Ids, remote[j] = TargetOf[a] PROVE TargetOf[a] \in unknown
        BY <3>1, <4>1, <4>2, <4>3, HoldersAreNotSpent, NothingLives
      <4> QED
        BY <3>1, <3>2, <4>2, <4>3, GivesBack
    <3> QED
      BY <3>3, <3>4
  <2> QED
    BY <1>3, <2>1, <2>2, <2>3, <2>4, <2>5, <2>6, <2>7, <2>8 DEF CancellerStep
<1>4. ASSUME NEW g \in Gens, CleanupStep(g) PROVE Undisturbed \/ Ownership!OwnershipNext
  <2>1. CASE CancelOwner(g)
    BY <2>1 DEF Undisturbed, Holds, CancelOwner, CancelOwners, OwnersOf, registryVars, taskVars
  <2>2. CASE StopAcked(g)
    <3>1. idOf[g] \in Ids /\ remote' = [remote EXCEPT ![idOf[g]] = NoTarget] /\ UNCHANGED <<task, owned, unknown>>
      BY <2>2 DEF StopAcked, StoreInv, registryVars, taskVars
    <3> QED
      BY <3>1, RemoteEnds
  <2>3. CASE ReleaseOwner(g)
    <3>1. /\ stop[g] = "acked" /\ UNCHANGED <<task, remote, unknown>>
          /\ owned' = [a \in Attempts |-> IF owned[a] = g THEN NoGen ELSE owned[a]]
      BY <2>3 DEF ReleaseOwner, ReleaseOwners, taskVars
    <3>0. \A b \in Attempts : owned[b] = g => maker[g] = b
      BY DEF MakerInv
    <3>2. CASE \A a \in Attempts : owned[a] # g
      BY <3>1, <3>2 DEF Undisturbed, Holds
    <3>3. ASSUME NEW a \in Attempts, owned[a] = g PROVE Undisturbed \/ Ownership!OwnershipNext
      <4>1. \A b \in Attempts : b # a => owned[b] # g
        BY <3>0, <3>3
      <4>2. Holds(a) /\ \A b \in Attempts : b # a => (Holds(b)' <=> Holds(b))
        BY <3>1, <3>3, <4>1 DEF Holds
      <4>3. ~Unstopped(g)
        BY <3>1 DEF Unstopped, StoreInv
      <4>4. CASE task[a] = "inflight"
        BY <3>1, <4>2, <4>4 DEF Undisturbed, Holds
      <4>5. CASE task[a] # "inflight"
        <5>1. ASSUME NEW j \in Ids, remote[j] = TargetOf[a] PROVE TargetOf[a] \in unknown
          BY <3>3, <4>2, <4>3, <4>5, <5>1, HoldersAreNotSpent, NothingLives
        <5> QED
          BY <3>1, <4>2, <5>1, GivesBack
      <4> QED
        BY <4>4, <4>5
    <3> QED
      BY <3>2, <3>3
  <2>4. CASE RemoveEntry(g)
    BY <2>4 DEF Undisturbed, Holds, RemoveEntry, registryVars, taskVars
  <2> QED
    BY <1>4, <2>1, <2>2, <2>3, <2>4 DEF CleanupStep
<1>5. CASE Environment
  <2>1. ASSUME NEW i \in Ids, UserClose(i) PROVE Undisturbed \/ Ownership!OwnershipNext
    BY <2>1 DEF Undisturbed, Holds, UserClose, registryVars, taskVars
  <2>2. ASSUME NEW i \in Ids, MonitorFinds(i) PROVE Undisturbed \/ Ownership!OwnershipNext
    BY <2>2 DEF Undisturbed, Holds, MonitorFinds, registryVars, taskVars
  <2>3. ASSUME NEW i \in Ids, ServiceEnds(i) PROVE Undisturbed \/ Ownership!OwnershipNext
    <3>1. remote' = [remote EXCEPT ![i] = NoTarget] /\ UNCHANGED <<task, owned, unknown>>
      BY <2>3 DEF ServiceEnds, registryVars, taskVars
    <3> QED
      BY <3>1, RemoteEnds
  <2>4. ASSUME NEW a \in Attempts, NEW i \in Ids, ServiceCreates(a, i) PROVE Undisturbed \/ Ownership!OwnershipNext
    <3>1. /\ task[a] = "inflight" /\ reply[a] = NoId /\ remote[i] = NoTarget
          /\ remote' = [remote EXCEPT ![i] = TargetOf[a]] /\ UNCHANGED <<task, owned, unknown>>
      BY <2>4 DEF ServiceCreates, registryVars
    <3>2. Holds(a) /\ \A b \in Attempts : Holds(b)' <=> Holds(b)
      BY <3>1 DEF Holds
    <3>3. TargetOf[a] \notin unknown
      BY <3>1 DEF LostInv, LostAt
    <3>4. \A j \in Ids : remote[j] # TargetOf[a]
      <4>1. ~Spent(a)
        BY <3>2, HoldersAreNotSpent
      <4>2. \A g \in Gens : Unstopped(g) => maker[g] # a
        BY <3>1, CreatorIsClean
      <4> QED
        BY <3>1, <3>3, <4>1, <4>2, NothingLives
    <3>5. Ownership!Open(TargetOf[a])
      <4> DEFINE was == {t \in Targets : \E j \in Ids : remote[j] = t}
                 now == {t \in Targets : \E j \in Ids : remote'[j] = t}
      <4>1. now = was \cup {TargetOf[a]}
        BY <3>1
      <4>2. {b \in Attempts : Holds(b)}' = {b \in Attempts : Holds(b)}
        BY <3>2
      <4> QED
        BY <3>1, <3>2, <3>3, <3>4, <4>1, <4>2 DEF Ownership!Open, Ownership!HoldersOf
    <3> QED
      BY <3>5 DEF Ownership!OwnershipNext
  <2> QED
    BY <1>5, <2>1, <2>2, <2>3, <2>4 DEF Environment
<1>6. CASE ShutdownStep
  <2>1. CASE BeginShutdown
    BY <2>1 DEF Undisturbed, Holds, BeginShutdown, Shutdown, registryVars, taskVars
  <2>2. ASSUME NEW i \in Ids, ShutdownCloses(i) PROVE Undisturbed \/ Ownership!OwnershipNext
    BY <2>2 DEF Undisturbed, Holds, ShutdownCloses, registryVars, taskVars
  <2>3. ASSUME NEW g \in Gens, ShutdownCloseReturns(g) PROVE Undisturbed \/ Ownership!OwnershipNext
    BY <2>3 DEF Undisturbed, Holds, ShutdownCloseReturns, registryVars, taskVars
  <2>4. CASE ShutdownSwept
    BY <2>4 DEF Undisturbed, Holds, ShutdownSwept, registryVars, taskVars
  <2>5. CASE ShutdownEnds
    BY <2>5 DEF Undisturbed, Holds, ShutdownEnds, registryVars, taskVars
  <2>6. CASE ShutdownExpires
    BY <2>6 DEF Undisturbed, Holds, ShutdownExpires, registryVars, taskVars
  <2> QED
    BY <1>6, <2>1, <2>2, <2>3, <2>4, <2>5, <2>6 DEF ShutdownStep
<1>7. CASE UNCHANGED vars
  BY <1>7 DEF Undisturbed, Holds, vars, registryVars, taskVars
<1> QED
  BY <1>1, <1>2, <1>3, <1>4, <1>5, <1>6, <1>7 DEF Next

\* Every behaviour of the startup, create, cancel and close tasks is, seen
\* through the targets, one of TargetOwnership: no target is taken while it is
\* held, live or blocked, none runs two sessions, and none is given back
\* while its session runs unblocked.
THEOREM OwnershipIsKept == Spec => OwnershipKept
<1>1. Init => Ownership!OwnershipInit
  BY LifecycleAssumption DEF Init, RegistryInit, Ownership!OwnershipInit, Holds
<1>2. Undisturbed => UNCHANGED Ownership!ownershipVars
  BY DEF Undisturbed, Ownership!ownershipVars
<1>3. TypeOK /\ TypeOK' /\ StageInv /\ ClaimInv /\ KeptInv /\ [Next]_vars
        => [Ownership!OwnershipNext]_(Ownership!ownershipVars)
  BY <1>2, OwnershipStep
<1> QED
  BY <1>1, <1>3, TypeCorrect, ClaimCorrect, KeptCorrect, PTL DEF Spec, OwnershipKept,
     Ownership!OwnershipSpec

-----------------------------------------------------------------------------
(* What an orderly shutdown leaves behind.                                  *)

\* An attempt is active from its tracking to the end of its create.
ActiveAt(a) == driver[a] \in {"ensuring", "clearing", "access"} \/ CreateRuns(a) => a \in active

ActiveInv == \A a \in Attempts : ActiveAt(a)

\* A record that the sweep has not to close, for the task that made it will.
Unswept(i) ==
    session[i] # NoGen =>
        task[maker[session[i]]] \in {"recorded", "closing"} /\ reply[maker[session[i]]] = i

ExitInv ==
    /\ exit = "running" <=> ~shuttingDown
    /\ exit = "running" => scheduled = {}
    /\ shuttingDown => active \subseteq cancelled
    /\ \A i \in Ids : i \in scheduled \/ exit = "swept" => Unswept(i)
    /\ exit = "exited" => active = {} /\ \A i \in Ids : session[i] = NoGen

LEMMA ActiveStep ==
  ASSUME TypeOK, StageInv, StepInv, ActiveInv, [Next]_vars PROVE ActiveInv'
<1> SUFFICES ASSUME NEW b \in Attempts PROVE ActiveAt(b)'
  BY DEF ActiveInv
<1> USE RegistryAssumption, LifecycleAssumption
    DEF TypeOK, RegistryTypeOK, LifecycleTypeOK, TaskStages, DriverStages, ActiveAt, CreateRuns
<1>0. ActiveAt(b)
  BY DEF ActiveInv
<1>8. driver[b] \notin {"awaitCreate", "failed", "started"} => task[b] = "none"
  BY DEF StepInv, StepAt
<1>1. ASSUME NEW a \in Attempts, DriverStep(a) PROVE ActiveAt(b)'
  <2>1. ASSUME NEW gone \in SUBSET Expired, StartSession(a, gone) PROVE ActiveAt(b)'
    BY <2>1, <1>0, <1>8 DEF StartSession, DriverAt, CancellerAt, Begin, Kept, registryVars,
       driverVars, taskVars
  <2>2. ASSUME NEW gone \in SUBSET Expired, StartRefused(a, gone) PROVE ActiveAt(b)'
    BY <2>2, <1>0, <1>8 DEF StartRefused, BeginRefused, Kept, registryVars, driverVars, taskVars
  <2>3. CASE RunFails(a)
    BY <2>3, <1>0, <1>8 DEF RunFails, DriverFails, DriverReturns, DriverAt, Finished, CancelScope,
       registryVars, driverVars, taskVars
  <2>4. CASE Resolved(a)
    BY <2>4, <1>0, <1>8 DEF Resolved, DriverGoes, DriverAt, registryVars, driverVars, taskVars
  <2>5. CASE Track(a)
    BY <2>5, <1>0, <1>8 DEF Track, DriverGoes, DriverAt, DriverFails, DriverReturns, Finished,
       CancelScope, registryVars, driverVars, taskVars
  <2>6. CASE EnsureTarget(a)
    BY <2>6, <1>0, <1>8 DEF EnsureTarget, DriverFails, DriverReturns, Finished, DriverAt,
       registryVars, driverVars, taskVars
  <2>7. ASSUME NEW i \in Ids, ClearPending(a, i) PROVE ActiveAt(b)'
    BY <2>7, <1>0, <1>8 DEF ClearPending, Join, registryVars, driverVars, taskVars
  <2>8. CASE PendingCleared(a)
    BY <2>8, <1>0, <1>8 DEF PendingCleared, Leave, Succeeded, registryVars, driverVars, taskVars
  <2>9. CASE PendingFailed(a)
    BY <2>9, <1>0, <1>8 DEF PendingFailed, Leave, DriverFails, DriverReturns, Finished, DriverAt,
       CloseFailed, registryVars, driverVars, taskVars
  <2>10. CASE TargetCleared(a)
    BY <2>10, <1>0, <1>8 DEF TargetCleared, DriverGoes, DriverAt, DriverFails, DriverReturns,
       Finished, registryVars, driverVars, taskVars
  <2>11. CASE SpawnCreate(a)
    BY <2>11, <1>0, <1>8 DEF SpawnCreate, TaskAt, DriverAt, registryVars, driverVars, taskVars
  <2>12. CASE CreateAbandoned(a)
    BY <2>12, <1>0, <1>8 DEF CreateAbandoned, DropResult, TaskAt, DriverFails, DriverReturns,
       Finished, DriverAt, CancelScope, registryVars, driverVars, taskVars
  <2>13. CASE CreateErred(a)
    BY <2>13, <1>0, <1>8 DEF CreateErred, DropResult, TaskAt, DriverFails, DriverReturns,
       Finished, DriverAt, registryVars, driverVars, taskVars
  <2>14. CASE Created(a)
    BY <2>14, <1>0, <1>8 DEF Created, DropResult, TaskAt, DriverAt, registryVars, driverVars,
       taskVars
  <2>15. CASE Ready(a)
    BY <2>15, <1>0, <1>8 DEF Ready, DriverAt, registryVars, driverVars, taskVars
  <2>16. CASE FetchReady(a)
    BY <2>16, <1>0, <1>8 DEF FetchReady, DriverReturns, Finished, DriverAt, registryVars,
       driverVars, taskVars
  <2>17. CASE ReadyFailed(a)
    BY <2>17, <1>0, <1>8 DEF ReadyFailed, DriverAt, registryVars, driverVars, taskVars
  <2>18. CASE RetryReady(a)
    BY <2>18, <1>0, <1>8 DEF RetryReady, DriverAt, registryVars, driverVars, taskVars
  <2>19. CASE RecreateClose(a)
    BY <2>19, <1>0, <1>8 DEF RecreateClose, Join, DriverAt, registryVars, driverVars, taskVars
  <2>20. CASE RecreateClosed(a)
    BY <2>20, <1>0, <1>8 DEF RecreateClosed, Leave, DriverAt, registryVars, driverVars, taskVars
  <2>21. CASE DriverCloses(a)
    BY <2>21, <1>0, <1>8 DEF DriverCloses, Join, DriverAt, registryVars, driverVars, taskVars
  <2>22. CASE DriverClosed(a)
    BY <2>22, <1>0, <1>8 DEF DriverClosed, Leave, DriverFails, DriverReturns, Finished, DriverAt,
       registryVars, driverVars, taskVars
  <2> QED
    BY <1>1, <2>1, <2>2, <2>3, <2>4, <2>5, <2>6, <2>7, <2>8, <2>9, <2>10, <2>11, <2>12, <2>13,
       <2>14, <2>15, <2>16, <2>17, <2>18, <2>19, <2>20, <2>21, <2>22 DEF DriverStep
<1>2. ASSUME NEW a \in Attempts, TaskStep(a) PROVE ActiveAt(b)'
  <2>1. CASE SendCreate(a)
    BY <2>1, <1>0, <1>8 DEF SendCreate, TaskAt, registryVars, driverVars, taskVars
  <2>2. CASE SendSkipped(a)
    BY <2>2, <1>0, <1>8 DEF SendSkipped, EndTask, TaskAt, registryVars, driverVars, taskVars
  <2>3. ASSUME NEW g \in Gens, CreateRecorded(a, g) PROVE ActiveAt(b)'
    BY <2>3, <1>0, <1>8 DEF CreateRecorded, TaskAt, registryVars, driverVars, taskVars
  <2>4. CASE CreateUnknown(a)
    BY <2>4, <1>0, <1>8 DEF CreateUnknown, TaskAt, registryVars, driverVars, taskVars
  <2>5. CASE CreateDenied(a)
    BY <2>5, <1>0, <1>8 DEF CreateDenied, EndTask, TaskAt, registryVars, driverVars, taskVars
  <2>6. CASE CreateRetried(a)
    BY <2>6, <1>0, <1>8 DEF CreateRetried, TaskAt, CancelScope, registryVars, driverVars, taskVars
  <2>7. CASE CreateKept(a)
    BY <2>7, <1>0, <1>8 DEF CreateKept, TaskAt, registryVars, driverVars, taskVars
  <2>8. CASE CreateReturns(a)
    BY <2>8, <1>0, <1>8 DEF CreateReturns, EndTask, TaskAt, registryVars, driverVars, taskVars
  <2>9. CASE CreateCancelled(a)
    BY <2>9, <1>0, <1>8 DEF CreateCancelled, TaskAt, registryVars, driverVars, taskVars
  <2>10. CASE TaskCloses(a)
    BY <2>10, <1>0, <1>8 DEF TaskCloses, TaskAt, Join, registryVars, driverVars, taskVars
  <2>11. CASE TaskClosed(a)
    BY <2>11, <1>0, <1>8 DEF TaskClosed, Leave, EndTask, TaskAt, registryVars, driverVars, taskVars
  <2>12. CASE LostCreateEnds(a)
    BY <2>12, <1>0, <1>8 DEF LostCreateEnds, EndTask, TaskAt, registryVars, driverVars, taskVars
  <2> QED
    BY <1>2, <2>1, <2>2, <2>3, <2>4, <2>5, <2>6, <2>7, <2>8, <2>9, <2>10, <2>11, <2>12 DEF TaskStep
<1>3. ASSUME NEW a \in Attempts, CancellerStep(a) PROVE ActiveAt(b)'
  <2>1. ASSUME NEW gone \in SUBSET Expired, CancelStartup(a, gone) PROVE ActiveAt(b)'
    BY <2>1, <1>0, <1>8 DEF CancelStartup, CancellerAt, Cancel, Kept, registryVars, driverVars,
       taskVars
  <2>2. CASE CreationSettled(a)
    BY <2>2, <1>0, <1>8 DEF CreationSettled, Finished, CancellerAt, registryVars, driverVars,
       taskVars
  <2>3. CASE SettleTimedOut(a)
    BY <2>3, <1>0, <1>8 DEF SettleTimedOut, CancellerAt, registryVars, driverVars, taskVars
  <2>4. CASE CancelInspect(a)
    BY <2>4, <1>0, <1>8 DEF CancelInspect, CancellerAt, registryVars, driverVars, taskVars
  <2>5. CASE CancelInspectCleanup(a)
    BY <2>5, <1>0, <1>8 DEF CancelInspectCleanup, CancellerAt, registryVars, driverVars, taskVars
  <2>6. CASE CancellerCloses(a)
    BY <2>6, <1>0, <1>8 DEF CancellerCloses, Join, CancellerAt, registryVars, driverVars, taskVars
  <2>7. CASE CancellerClosed(a)
    BY <2>7, <1>0, <1>8 DEF CancellerClosed, Leave, CloseFailed, CancellerAt, registryVars,
       driverVars, taskVars
  <2>8. CASE CancelRelease(a)
    BY <2>8, <1>0, <1>8 DEF CancelRelease, CancellerAt, registryVars, driverVars, taskVars
  <2> QED
    BY <1>3, <2>1, <2>2, <2>3, <2>4, <2>5, <2>6, <2>7, <2>8 DEF CancellerStep
<1>4. ASSUME NEW g \in Gens, CleanupStep(g) PROVE ActiveAt(b)'
  <2>1. CASE CancelOwner(g)
    BY <2>1, <1>0, <1>8 DEF CancelOwner, CancelOwners, OwnersOf, registryVars, driverVars, taskVars
  <2>2. CASE StopAcked(g)
    BY <2>2, <1>0, <1>8 DEF StopAcked, registryVars, driverVars, taskVars
  <2>3. CASE ReleaseOwner(g)
    BY <2>3, <1>0, <1>8 DEF ReleaseOwner, ReleaseOwners, registryVars, driverVars, taskVars
  <2>4. CASE RemoveEntry(g)
    BY <2>4, <1>0, <1>8 DEF RemoveEntry, registryVars, driverVars, taskVars
  <2> QED
    BY <1>4, <2>1, <2>2, <2>3, <2>4 DEF CleanupStep
<1>5. CASE Environment
  <2>1. ASSUME NEW i \in Ids, UserClose(i) PROVE ActiveAt(b)'
    BY <2>1, <1>0, <1>8 DEF UserClose, registryVars, driverVars, taskVars
  <2>2. ASSUME NEW i \in Ids, MonitorFinds(i) PROVE ActiveAt(b)'
    BY <2>2, <1>0, <1>8 DEF MonitorFinds, registryVars, driverVars, taskVars
  <2>3. ASSUME NEW i \in Ids, ServiceEnds(i) PROVE ActiveAt(b)'
    BY <2>3, <1>0, <1>8 DEF ServiceEnds, registryVars, driverVars, taskVars
  <2>4. ASSUME NEW a \in Attempts, NEW i \in Ids, ServiceCreates(a, i) PROVE ActiveAt(b)'
    BY <2>4, <1>0, <1>8 DEF ServiceCreates, registryVars, driverVars, taskVars
  <2> QED
    BY <1>5, <2>1, <2>2, <2>3, <2>4 DEF Environment
<1>6. CASE ShutdownStep
  <2>1. CASE BeginShutdown
    BY <2>1, <1>0, <1>8 DEF BeginShutdown, Shutdown, registryVars, driverVars, taskVars
  <2>2. ASSUME NEW i \in Ids, ShutdownCloses(i) PROVE ActiveAt(b)'
    BY <2>2, <1>0, <1>8 DEF ShutdownCloses, registryVars, driverVars, taskVars
  <2>3. ASSUME NEW g \in Gens, ShutdownCloseReturns(g) PROVE ActiveAt(b)'
    BY <2>3, <1>0, <1>8 DEF ShutdownCloseReturns, registryVars, driverVars, taskVars
  <2>4. CASE ShutdownSwept
    BY <2>4, <1>0, <1>8 DEF ShutdownSwept, registryVars, driverVars, taskVars
  <2>5. CASE ShutdownEnds
    BY <2>5, <1>0, <1>8 DEF ShutdownEnds, registryVars, driverVars, taskVars
  <2>6. CASE ShutdownExpires
    BY <2>6, <1>0, <1>8 DEF ShutdownExpires, registryVars, driverVars, taskVars
  <2> QED
    BY <1>6, <2>1, <2>2, <2>3, <2>4, <2>5, <2>6 DEF ShutdownStep
<1>7. CASE UNCHANGED vars
  BY <1>7, <1>0, <1>8 DEF vars, registryVars, driverVars, taskVars
<1> QED
  BY <1>1, <1>2, <1>3, <1>4, <1>5, <1>6, <1>7 DEF Next

\* Once shutdown has begun, nobody becomes active and no scope is fresh again.
Draining ==
    /\ shuttingDown => shuttingDown' /\ active' \subseteq active /\ cancelled \subseteq cancelled'
    /\ UNCHANGED <<exit, scheduled, shuttingDown>> \/ ShutdownStep

LEMMA DrainingStep ==
  ASSUME TypeOK, [Next]_vars PROVE Draining
<1> USE RegistryAssumption DEF TypeOK, RegistryTypeOK
<1>1. ASSUME NEW a \in Attempts, DriverStep(a) PROVE Draining
  <2>1. ASSUME NEW gone \in SUBSET Expired, StartSession(a, gone) PROVE Draining
    BY <2>1 DEF Draining, StartSession, DriverAt, CancellerAt, Begin, Kept, registryVars, exitVars
  <2>2. ASSUME NEW gone \in SUBSET Expired, StartRefused(a, gone) PROVE Draining
    BY <2>2 DEF Draining, StartRefused, BeginRefused, Kept, registryVars, exitVars
  <2>3. CASE RunFails(a)
    BY <2>3 DEF Draining, RunFails, DriverFails, DriverReturns, DriverAt, Finished, CancelScope,
       registryVars, exitVars
  <2>4. CASE Resolved(a)
    BY <2>4 DEF Draining, Resolved, DriverGoes, DriverAt, registryVars, exitVars
  <2>5. CASE Track(a)
    BY <2>5 DEF Draining, Track, DriverGoes, DriverAt, DriverFails, DriverReturns, Finished,
       CancelScope, registryVars, exitVars
  <2>6. CASE EnsureTarget(a)
    BY <2>6 DEF Draining, EnsureTarget, DriverFails, DriverReturns, Finished, DriverAt,
       registryVars, exitVars
  <2>7. ASSUME NEW i \in Ids, ClearPending(a, i) PROVE Draining
    BY <2>7 DEF Draining, ClearPending, Join, registryVars, exitVars
  <2>8. CASE PendingCleared(a)
    BY <2>8 DEF Draining, PendingCleared, Leave, Succeeded, registryVars, exitVars
  <2>9. CASE PendingFailed(a)
    BY <2>9 DEF Draining, PendingFailed, Leave, DriverFails, DriverReturns, Finished, DriverAt,
       CloseFailed, registryVars, exitVars
  <2>10. CASE TargetCleared(a)
    BY <2>10 DEF Draining, TargetCleared, DriverGoes, DriverAt, DriverFails, DriverReturns,
       Finished, registryVars, exitVars
  <2>11. CASE SpawnCreate(a)
    BY <2>11 DEF Draining, SpawnCreate, TaskAt, DriverAt, registryVars, exitVars
  <2>12. CASE CreateAbandoned(a)
    BY <2>12 DEF Draining, CreateAbandoned, DropResult, TaskAt, DriverFails, DriverReturns,
       Finished, DriverAt, CancelScope, registryVars, exitVars
  <2>13. CASE CreateErred(a)
    BY <2>13 DEF Draining, CreateErred, DropResult, TaskAt, DriverFails, DriverReturns, Finished,
       DriverAt, registryVars, exitVars
  <2>14. CASE Created(a)
    BY <2>14 DEF Draining, Created, DropResult, TaskAt, DriverAt, registryVars, exitVars
  <2>15. CASE Ready(a)
    BY <2>15 DEF Draining, Ready, DriverAt, registryVars, exitVars
  <2>16. CASE FetchReady(a)
    BY <2>16 DEF Draining, FetchReady, DriverReturns, Finished, DriverAt, registryVars, exitVars
  <2>17. CASE ReadyFailed(a)
    BY <2>17 DEF Draining, ReadyFailed, DriverAt, registryVars, exitVars
  <2>18. CASE RetryReady(a)
    BY <2>18 DEF Draining, RetryReady, DriverAt, registryVars, exitVars
  <2>19. CASE RecreateClose(a)
    BY <2>19 DEF Draining, RecreateClose, Join, DriverAt, registryVars, exitVars
  <2>20. CASE RecreateClosed(a)
    BY <2>20 DEF Draining, RecreateClosed, Leave, DriverAt, registryVars, exitVars
  <2>21. CASE DriverCloses(a)
    BY <2>21 DEF Draining, DriverCloses, Join, DriverAt, registryVars, exitVars
  <2>22. CASE DriverClosed(a)
    BY <2>22 DEF Draining, DriverClosed, Leave, DriverFails, DriverReturns, Finished, DriverAt,
       registryVars, exitVars
  <2> QED
    BY <1>1, <2>1, <2>2, <2>3, <2>4, <2>5, <2>6, <2>7, <2>8, <2>9, <2>10, <2>11, <2>12, <2>13,
       <2>14, <2>15, <2>16, <2>17, <2>18, <2>19, <2>20, <2>21, <2>22 DEF DriverStep
<1>2. ASSUME NEW a \in Attempts, TaskStep(a) PROVE Draining
  <2>1. CASE SendCreate(a)
    BY <2>1 DEF Draining, SendCreate, TaskAt, registryVars, exitVars
  <2>2. CASE SendSkipped(a)
    BY <2>2 DEF Draining, SendSkipped, EndTask, TaskAt, registryVars, exitVars
  <2>3. ASSUME NEW g \in Gens, CreateRecorded(a, g) PROVE Draining
    BY <2>3 DEF Draining, CreateRecorded, TaskAt, registryVars, exitVars
  <2>4. CASE CreateUnknown(a)
    BY <2>4 DEF Draining, CreateUnknown, TaskAt, registryVars, exitVars
  <2>5. CASE CreateDenied(a)
    BY <2>5 DEF Draining, CreateDenied, EndTask, TaskAt, registryVars, exitVars
  <2>6. CASE CreateRetried(a)
    BY <2>6 DEF Draining, CreateRetried, TaskAt, CancelScope, registryVars, exitVars
  <2>7. CASE CreateKept(a)
    BY <2>7 DEF Draining, CreateKept, TaskAt, registryVars, exitVars
  <2>8. CASE CreateReturns(a)
    BY <2>8 DEF Draining, CreateReturns, EndTask, TaskAt, registryVars, exitVars
  <2>9. CASE CreateCancelled(a)
    BY <2>9 DEF Draining, CreateCancelled, TaskAt, registryVars, exitVars
  <2>10. CASE TaskCloses(a)
    BY <2>10 DEF Draining, TaskCloses, TaskAt, Join, registryVars, exitVars
  <2>11. CASE TaskClosed(a)
    BY <2>11 DEF Draining, TaskClosed, Leave, EndTask, TaskAt, registryVars, exitVars
  <2>12. CASE LostCreateEnds(a)
    BY <2>12 DEF Draining, LostCreateEnds, EndTask, TaskAt, registryVars, exitVars
  <2> QED
    BY <1>2, <2>1, <2>2, <2>3, <2>4, <2>5, <2>6, <2>7, <2>8, <2>9, <2>10, <2>11, <2>12 DEF TaskStep
<1>3. ASSUME NEW a \in Attempts, CancellerStep(a) PROVE Draining
  <2>1. ASSUME NEW gone \in SUBSET Expired, CancelStartup(a, gone) PROVE Draining
    BY <2>1 DEF Draining, CancelStartup, CancellerAt, Cancel, Kept, registryVars, exitVars
  <2>2. CASE CreationSettled(a)
    BY <2>2 DEF Draining, CreationSettled, Finished, CancellerAt, registryVars, exitVars
  <2>3. CASE SettleTimedOut(a)
    BY <2>3 DEF Draining, SettleTimedOut, CancellerAt, registryVars, exitVars
  <2>4. CASE CancelInspect(a)
    BY <2>4 DEF Draining, CancelInspect, CancellerAt, registryVars, exitVars
  <2>5. CASE CancelInspectCleanup(a)
    BY <2>5 DEF Draining, CancelInspectCleanup, CancellerAt, registryVars, exitVars
  <2>6. CASE CancellerCloses(a)
    BY <2>6 DEF Draining, CancellerCloses, Join, CancellerAt, registryVars, exitVars
  <2>7. CASE CancellerClosed(a)
    BY <2>7 DEF Draining, CancellerClosed, Leave, CloseFailed, CancellerAt, registryVars, exitVars
  <2>8. CASE CancelRelease(a)
    BY <2>8 DEF Draining, CancelRelease, CancellerAt, registryVars, exitVars
  <2> QED
    BY <1>3, <2>1, <2>2, <2>3, <2>4, <2>5, <2>6, <2>7, <2>8 DEF CancellerStep
<1>4. ASSUME NEW g \in Gens, CleanupStep(g) PROVE Draining
  <2>1. CASE CancelOwner(g)
    BY <2>1 DEF Draining, CancelOwner, CancelOwners, OwnersOf, registryVars, exitVars
  <2>2. CASE StopAcked(g)
    BY <2>2 DEF Draining, StopAcked, registryVars, exitVars
  <2>3. CASE ReleaseOwner(g)
    BY <2>3 DEF Draining, ReleaseOwner, ReleaseOwners, registryVars, exitVars
  <2>4. CASE RemoveEntry(g)
    BY <2>4 DEF Draining, RemoveEntry, registryVars, exitVars
  <2> QED
    BY <1>4, <2>1, <2>2, <2>3, <2>4 DEF CleanupStep
<1>5. CASE Environment
  <2>1. ASSUME NEW i \in Ids, UserClose(i) PROVE Draining
    BY <2>1 DEF Draining, UserClose, registryVars, exitVars
  <2>2. ASSUME NEW i \in Ids, MonitorFinds(i) PROVE Draining
    BY <2>2 DEF Draining, MonitorFinds, registryVars, exitVars
  <2>3. ASSUME NEW i \in Ids, ServiceEnds(i) PROVE Draining
    BY <2>3 DEF Draining, ServiceEnds, registryVars, exitVars
  <2>4. ASSUME NEW a \in Attempts, NEW i \in Ids, ServiceCreates(a, i) PROVE Draining
    BY <2>4 DEF Draining, ServiceCreates, registryVars, exitVars
  <2> QED
    BY <1>5, <2>1, <2>2, <2>3, <2>4 DEF Environment
<1>6. CASE ShutdownStep
  <2>1. CASE BeginShutdown
    BY <2>1 DEF Draining, BeginShutdown, Shutdown, registryVars, exitVars, ShutdownStep
  <2>2. ASSUME NEW i \in Ids, ShutdownCloses(i) PROVE Draining
    BY <2>2 DEF Draining, ShutdownCloses, registryVars, exitVars, ShutdownStep
  <2>3. ASSUME NEW g \in Gens, ShutdownCloseReturns(g) PROVE Draining
    BY <2>3 DEF Draining, ShutdownCloseReturns, registryVars, exitVars, ShutdownStep
  <2>4. CASE ShutdownSwept
    BY <2>4 DEF Draining, ShutdownSwept, registryVars, exitVars, ShutdownStep
  <2>5. CASE ShutdownEnds
    BY <2>5 DEF Draining, ShutdownEnds, registryVars, exitVars, ShutdownStep
  <2>6. CASE ShutdownExpires
    BY <2>6 DEF Draining, ShutdownExpires, registryVars, exitVars, ShutdownStep
  <2> QED
    BY <1>6, <2>1, <2>2, <2>3, <2>4, <2>5, <2>6 DEF ShutdownStep
<1>7. CASE UNCHANGED vars
  BY <1>7 DEF Draining, vars, registryVars, exitVars
<1> QED
  BY <1>1, <1>2, <1>3, <1>4, <1>5, <1>6, <1>7 DEF Next

LEMMA CloseKeepsUnswept ==
  ASSUME TypeOK, StoreInv, NEW k \in Ids, Unswept(k), NEW i \in Ids, NEW c \in BOOLEAN, CloseLocally(i, c),
         UNCHANGED <<task, reply>>
  PROVE  Unswept(k)'
<1>1. maker' = maker /\ session'[k] \in {session[k], NoGen}
  BY CloseMoves DEF TypeOK, LifecycleTypeOK
<1> QED
  BY <1>1 DEF Unswept

\* What the sweep need not close once, it need not close later.
LEMMA UnsweptStays ==
  ASSUME TypeOK, StageInv, StoreInv, StepInv, ActiveInv, shuttingDown, active \subseteq cancelled,
         NEW k \in Ids, Unswept(k), [Next]_vars
  PROVE  Unswept(k)'
<1> USE RegistryAssumption, LifecycleAssumption
    DEF TypeOK, RegistryTypeOK, LifecycleTypeOK, Gen, Id, TaskStages, Unswept
<1>0. Unswept(k)
  OBVIOUS
<1>1. ASSUME NEW a \in Attempts, DriverStep(a) PROVE Unswept(k)'
  <2>1. ASSUME NEW gone \in SUBSET Expired, StartSession(a, gone) PROVE Unswept(k)'
    BY <2>1, <1>0 DEF StartSession, DriverAt, CancellerAt, Begin, Kept, StoreInv, storeVars,
       taskVars
  <2>2. ASSUME NEW gone \in SUBSET Expired, StartRefused(a, gone) PROVE Unswept(k)'
    BY <2>2, <1>0 DEF StartRefused, BeginRefused, Kept, StoreInv, storeVars, taskVars
  <2>3. CASE RunFails(a)
    BY <2>3, <1>0 DEF RunFails, DriverFails, DriverReturns, DriverAt, Finished, CancelScope,
       StoreInv, storeVars, taskVars
  <2>4. CASE Resolved(a)
    BY <2>4, <1>0 DEF Resolved, DriverGoes, DriverAt, StoreInv, storeVars, taskVars
  <2>5. CASE Track(a)
    BY <2>5, <1>0 DEF Track, DriverGoes, DriverAt, DriverFails, DriverReturns, Finished,
       CancelScope, StoreInv, storeVars, taskVars
  <2>6. CASE EnsureTarget(a)
    BY <2>6, <1>0 DEF EnsureTarget, DriverFails, DriverReturns, Finished, DriverAt, StoreInv,
       storeVars, taskVars
  <2>7. ASSUME NEW i \in Ids, ClearPending(a, i) PROVE Unswept(k)'
    <3>1. i \in Ids /\ CloseLocally(i, TRUE) /\ UNCHANGED <<task, reply>>
      BY <2>7 DEF ClearPending, Join, StageInv, taskVars
    <3> QED
      BY <3>1, <1>0, CloseKeepsUnswept
  <2>8. CASE PendingCleared(a)
    BY <2>8, <1>0 DEF PendingCleared, Leave, Succeeded, StoreInv, storeVars, taskVars
  <2>9. CASE PendingFailed(a)
    BY <2>9, <1>0 DEF PendingFailed, Leave, DriverFails, DriverReturns, Finished, DriverAt,
       CloseFailed, StoreInv, storeVars, taskVars
  <2>10. CASE TargetCleared(a)
    BY <2>10, <1>0 DEF TargetCleared, DriverGoes, DriverAt, DriverFails, DriverReturns, Finished,
       StoreInv, storeVars, taskVars
  <2>11. CASE SpawnCreate(a)
    <3>1. task[a] = "none"
      BY <2>11 DEF SpawnCreate, StepInv, StepAt
    <3>2. task' = [task EXCEPT ![a] = "sending"] /\ UNCHANGED <<session, maker, reply>>
      BY <2>11 DEF SpawnCreate, TaskAt, storeVars
    <3>3. session[k] # NoGen => maker[session[k]] \in Attempts
      BY DEF StoreInv
    <3> QED
      BY <3>1, <3>2, <3>3, <1>0
  <2>12. CASE CreateAbandoned(a)
    BY <2>12, <1>0 DEF CreateAbandoned, DropResult, TaskAt, DriverFails, DriverReturns, Finished,
       DriverAt, CancelScope, StoreInv, storeVars, taskVars
  <2>13. CASE CreateErred(a)
    BY <2>13, <1>0 DEF CreateErred, DropResult, TaskAt, DriverFails, DriverReturns, Finished,
       DriverAt, StoreInv, storeVars, taskVars
  <2>14. CASE Created(a)
    BY <2>14, <1>0 DEF Created, DropResult, TaskAt, DriverAt, StoreInv, storeVars, taskVars
  <2>15. CASE Ready(a)
    BY <2>15, <1>0 DEF Ready, DriverAt, StoreInv, storeVars, taskVars
  <2>16. CASE FetchReady(a)
    BY <2>16, <1>0 DEF FetchReady, DriverReturns, Finished, DriverAt, StoreInv, storeVars, taskVars
  <2>17. CASE ReadyFailed(a)
    BY <2>17, <1>0 DEF ReadyFailed, DriverAt, StoreInv, storeVars, taskVars
  <2>18. CASE RetryReady(a)
    BY <2>18, <1>0 DEF RetryReady, DriverAt, StoreInv, storeVars, taskVars
  <2>19. CASE RecreateClose(a)
    <3>1. sid[a] \in Ids /\ CloseLocally(sid[a], FALSE) /\ UNCHANGED <<task, reply>>
      BY <2>19 DEF RecreateClose, Join, DriverAt, StageInv, taskVars
    <3> QED
      BY <3>1, <1>0, CloseKeepsUnswept
  <2>20. CASE RecreateClosed(a)
    BY <2>20, <1>0 DEF RecreateClosed, Leave, DriverAt, StoreInv, StageInv, taskVars
  <2>21. CASE DriverCloses(a)
    <3>1. sid[a] \in Ids /\ CloseLocally(sid[a], TRUE) /\ UNCHANGED <<task, reply>>
      BY <2>21 DEF DriverCloses, Join, DriverAt, StageInv, taskVars
    <3> QED
      BY <3>1, <1>0, CloseKeepsUnswept
  <2>22. CASE DriverClosed(a)
    BY <2>22, <1>0 DEF DriverClosed, Leave, DriverFails, DriverReturns, Finished, DriverAt,
       StoreInv, storeVars, taskVars
  <2> QED
    BY <1>1, <2>1, <2>2, <2>3, <2>4, <2>5, <2>6, <2>7, <2>8, <2>9, <2>10, <2>11, <2>12, <2>13,
       <2>14, <2>15, <2>16, <2>17, <2>18, <2>19, <2>20, <2>21, <2>22 DEF DriverStep
<1>2. ASSUME NEW a \in Attempts, TaskStep(a) PROVE Unswept(k)'
  <2>1. CASE SendCreate(a)
    BY <2>1, <1>0 DEF SendCreate, TaskAt, StoreInv, storeVars, taskVars
  <2>2. CASE SendSkipped(a)
    BY <2>2, <1>0 DEF SendSkipped, EndTask, TaskAt, StoreInv, storeVars, taskVars
  <2>3. ASSUME NEW g \in Gens, CreateRecorded(a, g) PROVE Unswept(k)'
    <3>1. /\ task[a] = "inflight" /\ reply[a] \in Ids /\ idOf[g] = NoId /\ task' = [task EXCEPT ![a] = "recorded"]
          /\ session' = [session EXCEPT ![reply[a]] = g] /\ maker' = [maker EXCEPT ![g] = a] /\ UNCHANGED reply
      BY <2>3 DEF CreateRecorded, TaskAt
    <3>2. CASE k = reply[a]
      BY <3>1, <3>2
    <3>3. CASE k # reply[a]
      <4>1. session[k] # g
        BY <3>1 DEF StoreInv
      <4> QED
        BY <1>0, <3>1, <3>3, <4>1 DEF StoreInv
    <3> QED
      BY <3>2, <3>3
  <2>4. CASE CreateUnknown(a)
    BY <2>4, <1>0 DEF CreateUnknown, TaskAt, StoreInv, storeVars, taskVars
  <2>5. CASE CreateDenied(a)
    BY <2>5, <1>0 DEF CreateDenied, EndTask, TaskAt, StoreInv, storeVars, taskVars
  <2>6. CASE CreateRetried(a)
    BY <2>6, <1>0 DEF CreateRetried, TaskAt, CancelScope, StoreInv, storeVars, taskVars
  <2>7. CASE CreateKept(a)
    BY <2>7, <1>0 DEF CreateKept, TaskAt, ActiveInv, ActiveAt, CreateRuns
  <2>8. CASE CreateReturns(a)
    BY <2>8, <1>0 DEF CreateReturns, EndTask, TaskAt, StoreInv, storeVars, taskVars
  <2>9. CASE CreateCancelled(a)
    BY <2>9, <1>0 DEF CreateCancelled, TaskAt, StoreInv, storeVars, taskVars
  <2>10. CASE TaskCloses(a)
    <3>1. /\ task[a] = "closing" /\ reply[a] \in Ids /\ CloseLocally(reply[a], TRUE)
          /\ task' = [task EXCEPT ![a] = "closingJoined"] /\ UNCHANGED reply
      BY <2>10 DEF TaskCloses, TaskAt, Join, StageInv
    <3>2. /\ UNCHANGED maker
          /\ \/ session' = [session EXCEPT ![reply[a]] = NoGen]
             \/ session' = session /\ session[reply[a]] = NoGen
      <4>1. session[reply[a]] # NoGen => cleanup[reply[a]] = NoGen
        BY <3>1 DEF StoreInv
      <4>2. UNCHANGED maker
        BY <3>1 DEF CloseLocally
      <4>3. CASE session[reply[a]] = NoGen
        <5>1. session' = session
          BY <3>1, <4>3 DEF CloseLocally
        <5> QED
          BY <4>2, <4>3, <5>1
      <4>4. CASE session[reply[a]] # NoGen
        <5>1. session' = [session EXCEPT ![reply[a]] = NoGen]
          BY <3>1, <4>1, <4>4 DEF CloseLocally
        <5> QED
          BY <4>2, <5>1
      <4> QED
        BY <4>3, <4>4
    <3> QED
      BY <1>0, <3>1, <3>2 DEF StoreInv
  <2>11. CASE TaskClosed(a)
    BY <2>11, <1>0 DEF TaskClosed, Leave, EndTask, TaskAt, StoreInv, storeVars, taskVars
  <2>12. CASE LostCreateEnds(a)
    BY <2>12, <1>0 DEF LostCreateEnds, EndTask, TaskAt, StoreInv, storeVars, taskVars
  <2> QED
    BY <1>2, <2>1, <2>2, <2>3, <2>4, <2>5, <2>6, <2>7, <2>8, <2>9, <2>10, <2>11, <2>12 DEF TaskStep
<1>3. ASSUME NEW a \in Attempts, CancellerStep(a) PROVE Unswept(k)'
  <2>1. ASSUME NEW gone \in SUBSET Expired, CancelStartup(a, gone) PROVE Unswept(k)'
    BY <2>1, <1>0 DEF CancelStartup, CancellerAt, Cancel, Kept, StoreInv, storeVars, taskVars
  <2>2. CASE CreationSettled(a)
    BY <2>2, <1>0 DEF CreationSettled, Finished, CancellerAt, StoreInv, storeVars, taskVars
  <2>3. CASE SettleTimedOut(a)
    BY <2>3, <1>0 DEF SettleTimedOut, CancellerAt, StoreInv, storeVars, taskVars
  <2>4. CASE CancelInspect(a)
    BY <2>4, <1>0 DEF CancelInspect, CancellerAt, StoreInv, storeVars, taskVars
  <2>5. CASE CancelInspectCleanup(a)
    BY <2>5, <1>0 DEF CancelInspectCleanup, CancellerAt, StoreInv, storeVars, taskVars
  <2>6. CASE CancellerCloses(a)
    <3>1. idOf[held[a]] \in Ids /\ CloseLocally(idOf[held[a]], TRUE) /\ UNCHANGED <<task, reply>>
      BY <2>6 DEF CancellerCloses, Join, CancellerAt, StageInv, taskVars
    <3> QED
      BY <3>1, <1>0, CloseKeepsUnswept
  <2>7. CASE CancellerClosed(a)
    BY <2>7, <1>0 DEF CancellerClosed, Leave, CloseFailed, CancellerAt, StoreInv, storeVars,
       taskVars
  <2>8. CASE CancelRelease(a)
    BY <2>8, <1>0 DEF CancelRelease, CancellerAt, StoreInv, storeVars, taskVars
  <2> QED
    BY <1>3, <2>1, <2>2, <2>3, <2>4, <2>5, <2>6, <2>7, <2>8 DEF CancellerStep
<1>4. ASSUME NEW g \in Gens, CleanupStep(g) PROVE Unswept(k)'
  <2>1. CASE CancelOwner(g)
    BY <2>1, <1>0 DEF CancelOwner, CancelOwners, OwnersOf, StoreInv, storeVars, taskVars
  <2>2. CASE StopAcked(g)
    BY <2>2, <1>0 DEF StopAcked, StoreInv, storeVars, taskVars
  <2>3. CASE ReleaseOwner(g)
    BY <2>3, <1>0 DEF ReleaseOwner, ReleaseOwners, StoreInv, storeVars, taskVars
  <2>4. CASE RemoveEntry(g)
    BY <2>4, <1>0 DEF RemoveEntry, StoreInv, storeVars, taskVars
  <2> QED
    BY <1>4, <2>1, <2>2, <2>3, <2>4 DEF CleanupStep
<1>5. CASE Environment
  <2>1. ASSUME NEW i \in Ids, UserClose(i) PROVE Unswept(k)'
    <3>1. i \in Ids /\ CloseLocally(i, TRUE) /\ UNCHANGED <<task, reply>>
      BY <2>1 DEF UserClose, StageInv, taskVars
    <3> QED
      BY <3>1, <1>0, CloseKeepsUnswept
  <2>2. ASSUME NEW i \in Ids, MonitorFinds(i) PROVE Unswept(k)'
    BY <2>2, <1>0 DEF MonitorFinds, StoreInv, storeVars, taskVars
  <2>3. ASSUME NEW i \in Ids, ServiceEnds(i) PROVE Unswept(k)'
    BY <2>3, <1>0 DEF ServiceEnds, StoreInv, storeVars, taskVars
  <2>4. ASSUME NEW a \in Attempts, NEW i \in Ids, ServiceCreates(a, i) PROVE Unswept(k)'
    BY <2>4, <1>0 DEF ServiceCreates, StoreInv, storeVars, taskVars
  <2> QED
    BY <1>5, <2>1, <2>2, <2>3, <2>4 DEF Environment
<1>6. CASE ShutdownStep
  <2>1. CASE BeginShutdown
    BY <2>1, <1>0 DEF BeginShutdown, Shutdown, StoreInv, storeVars, taskVars
  <2>2. ASSUME NEW i \in Ids, ShutdownCloses(i) PROVE Unswept(k)'
    <3>1. i \in Ids /\ CloseLocally(i, TRUE) /\ UNCHANGED <<task, reply>>
      BY <2>2 DEF ShutdownCloses, StageInv, taskVars
    <3> QED
      BY <3>1, <1>0, CloseKeepsUnswept
  <2>3. ASSUME NEW g \in Gens, ShutdownCloseReturns(g) PROVE Unswept(k)'
    BY <2>3, <1>0 DEF ShutdownCloseReturns, StoreInv, storeVars, taskVars
  <2>4. CASE ShutdownSwept
    BY <2>4, <1>0 DEF ShutdownSwept, StoreInv, storeVars, taskVars
  <2>5. CASE ShutdownEnds
    BY <2>5, <1>0 DEF ShutdownEnds, StoreInv, storeVars, taskVars
  <2>6. CASE ShutdownExpires
    BY <2>6, <1>0 DEF ShutdownExpires, StoreInv, storeVars, taskVars
  <2> QED
    BY <1>6, <2>1, <2>2, <2>3, <2>4, <2>5, <2>6 DEF ShutdownStep
<1>7. CASE UNCHANGED vars
  BY <1>7, <1>0 DEF vars, StoreInv, storeVars, taskVars
<1> QED
  BY <1>1, <1>2, <1>3, <1>4, <1>5, <1>6, <1>7 DEF Next

LEMMA ExitStep ==
  ASSUME TypeOK, TypeOK', StageInv, StoreInv, StoreInv', StepInv, ActiveInv, ExitInv, [Next]_vars
  PROVE  ExitInv'
<1> USE RegistryAssumption, LifecycleAssumption
    DEF TypeOK, RegistryTypeOK, LifecycleTypeOK, Gen
<1>1. Draining
  BY DrainingStep
<1>2. CASE BeginShutdown
  BY <1>2 DEF BeginShutdown, Shutdown, ExitInv
<1>3. CASE ~shuttingDown /\ ~BeginShutdown
  <2>1. UNCHANGED <<exit, scheduled, shuttingDown>>
    BY <1>1, <1>3 DEF Draining, ShutdownStep, ShutdownCloses, ShutdownCloseReturns, ShutdownSwept,
       ShutdownEnds,
                      ShutdownExpires, ExitInv, registryVars
  <2> QED
    BY <1>3, <2>1 DEF ExitInv
<1>4. CASE shuttingDown
  <2>1. shuttingDown' /\ active' \subseteq active /\ active' \subseteq cancelled'
    BY <1>1, <1>4 DEF Draining, ExitInv
  <2>2. \A k \in Ids : Unswept(k) => Unswept(k)'
    BY <1>4, UnsweptStays DEF ExitInv
  <2>3. exit' # "running"
    BY <1>1, <1>4 DEF Draining, ExitInv, ShutdownStep, BeginShutdown, ShutdownCloses,
       ShutdownCloseReturns,
                      ShutdownSwept, ShutdownEnds, ShutdownExpires
  <2>4. ASSUME NEW i \in Ids, i \in scheduled' \/ exit' = "swept" PROVE Unswept(i)'
    <3>1. CASE UNCHANGED <<exit, scheduled>>
      BY <2>2, <2>4, <3>1 DEF ExitInv
    <3>2. ASSUME NEW j \in Ids, ShutdownCloses(j) PROVE Unswept(i)'
      <4>1. CASE i # j
        BY <2>2, <2>4, <3>2, <4>1 DEF ShutdownCloses, ExitInv
      <4>2. CASE i = j
        <5>1. session'[i] = NoGen
          BY <3>2, <4>2, CloseMoves DEF ShutdownCloses, Closing, CloseLocally, StoreInv
        <5> QED
          BY <5>1 DEF Unswept
      <4> QED
        BY <4>1, <4>2
    <3>3. CASE ShutdownSwept
      <4>1. session[i] # NoGen => i \in scheduled
        BY <3>3 DEF ShutdownSwept, Closing, StoreInv
      <4>2. Unswept(i)
        BY <4>1 DEF ExitInv, Unswept
      <4> QED
        BY <2>2, <4>2
    <3>4. CASE ShutdownEnds \/ ShutdownExpires
      BY <2>2, <2>4, <3>4 DEF ShutdownEnds, ShutdownExpires, ExitInv
    <3>5. ASSUME NEW g \in Gens, ShutdownCloseReturns(g) PROVE Unswept(i)'
      BY <3>1, <3>5 DEF ShutdownCloseReturns
    <3>6. ~BeginShutdown
      BY <1>4 DEF BeginShutdown, Shutdown
    <3> QED
      BY <1>1, <3>1, <3>2, <3>3, <3>4, <3>5, <3>6 DEF Draining, ShutdownStep
  <2>5. ASSUME exit' = "exited" PROVE active' = {} /\ \A i \in Ids : session'[i] = NoGen
    <3>1. CASE exit = "exited"
      <4>1. active = {} /\ \A i \in Ids : session[i] = NoGen
        BY <3>1 DEF ExitInv
      <4>2. \A i \in Ids : Unswept(i)'
        BY <2>2, <4>1 DEF Unswept
      <4>3. \A a \in Attempts : task'[a] \notin {"recorded", "closing"}
        BY <2>1, <4>1, ActiveStep DEF ActiveInv, ActiveAt, CreateRuns
      <4> QED
        BY <2>1, <4>1, <4>2, <4>3 DEF Unswept, StoreInv
    <3>2. CASE exit # "exited"
      <4>1. ShutdownEnds
        BY <1>1, <1>4, <2>5, <3>2 DEF Draining, ShutdownStep, BeginShutdown, ShutdownCloses,
           ShutdownCloseReturns,
                                 ShutdownSwept, ShutdownExpires
      <4>2. exit = "swept" /\ active = {} /\ UNCHANGED <<active, session>>
        BY <2>5, <4>1 DEF ShutdownEnds, registryVars, storeVars
      <4>3. ASSUME NEW i \in Ids, session[i] # NoGen PROVE FALSE
        <5>1. maker[session[i]] \in Attempts /\ CreateRuns(maker[session[i]])
          BY <4>2, <4>3 DEF ExitInv, Unswept, StoreInv, CreateRuns
        <5> QED
          BY <4>2, <5>1 DEF ActiveInv, ActiveAt
      <4> QED
        BY <4>2, <4>3
    <3> QED
      BY <3>1, <3>2
  <2> QED
    BY <1>4, <2>1, <2>3, <2>4, <2>5 DEF ExitInv
<1> QED
  BY <1>2, <1>3, <1>4

\* The exit is clean in every behaviour: the three facts together.
THEOREM ExitCorrect == Spec => [](ActiveInv /\ ExitInv)
<1>1. Init => ActiveInv /\ ExitInv
  BY RegistryAssumption, LifecycleAssumption
     DEF Init, RegistryInit, ActiveInv, ActiveAt, CreateRuns, ExitInv, Unswept
<1>2. TypeOK /\ TypeOK' /\ StageInv /\ StoreInv /\ StoreInv' /\ StepInv /\ ActiveInv /\ ExitInv /\ [Next]_vars
        => ActiveInv' /\ ExitInv'
  BY ActiveStep, ExitStep
<1>3. KeptInv => StoreInv /\ StepInv
  BY DEF KeptInv
<1> QED
  BY <1>1, <1>2, <1>3, TypeCorrect, KeptCorrect, PTL DEF Spec

\* An orderly exit leaves no session unclosed and no create under way.
THEOREM OrderlyExit == Spec => []OrderlyExitIsClean
<1>1. TypeOK /\ ActiveInv /\ ExitInv => OrderlyExitIsClean
  BY DEF ActiveInv, ActiveAt, ExitInv, OrderlyExitIsClean, CreateRuns, TypeOK, LifecycleTypeOK,
     TaskStages
<1> QED
  BY <1>1, TypeCorrect, ExitCorrect, PTL

-----------------------------------------------------------------------------
(* The caps of the registry: how many entries, creates and sessions there   *)
(* can be at once.                                                          *)

Entries == {a \in Attempts : entry[a] # "absent"}

CapsInv ==
    /\ IsFiniteSet(Entries) /\ Cardinality(Entries) =< Capacity
    /\ IsFiniteSet(active) /\ IsFiniteSet(unknown)
    /\ UnresolvedCreatesBounded

\* The active scopes whose create is not among the lost ones.
Unlost == {a \in active : task[a] # "lost"}

\* What a step does to what the caps count: nothing is added, or an entry
\* below its cap, or an active scope below its cap, or an active scope's create
\* is lost.
CapsShrink == Entries' \subseteq Entries /\ active' \subseteq active /\ unknown' = unknown

EntryAdded ==
    /\ \E S \in SUBSET Entries, a \in Attempts :
          ~(Cardinality(S) >= Capacity) /\ Entries' = S \cup {a}
    /\ active' = active /\ unknown' = unknown

ActiveAdded ==
    \E a \in Attempts : entry' = entry /\ active' = active \cup {a} /\ unknown' = unknown /\ ~TrackFull

CreateLost ==
    \E a \in Unlost :
        /\ entry' = entry /\ active' = active /\ unknown' = unknown \cup {TargetOf[a]}
        /\ task' = [task EXCEPT ![a] = "lost"]

CapsMove == CapsShrink \/ EntryAdded \/ ActiveAdded \/ CreateLost

LEMMA CapsMoves ==
  ASSUME TypeOK, ActiveInv, [Next]_vars PROVE CapsMove
<1> USE RegistryAssumption DEF TypeOK, RegistryTypeOK, Entries
<1>1. ASSUME NEW a \in Attempts, DriverStep(a) PROVE CapsMove
  <2>1. ASSUME NEW gone \in SUBSET Expired, StartSession(a, gone) PROVE CapsMove
    <3>1. /\ entry' = [Kept(gone) EXCEPT ![a] = "open"] /\ ~Full(Kept(gone))
          /\ active' = active /\ unknown' = unknown
      BY <2>1 DEF StartSession, Begin, BeginRejected
    <3>2. EntryAdded
      <4> DEFINE S == {b \in Attempts : Kept(gone)[b] # "absent"}
      <4>1. S \subseteq Entries /\ ~(Cardinality(S) >= Capacity)
        BY <3>1 DEF Full, Kept
      <4>2. Entries' = S \cup {a}
        BY <3>1 DEF Kept
      <4> QED
        BY <3>1, <4>1, <4>2 DEF EntryAdded
    <3> QED
      BY <3>2 DEF CapsMove
  <2>2. ASSUME NEW gone \in SUBSET Expired, StartRefused(a, gone) PROVE CapsMove
    BY <2>2 DEF CapsMove, CapsShrink, StartRefused, BeginRefused, Kept, registryVars
  <2>3. CASE RunFails(a)
    BY <2>3 DEF CapsMove, CapsShrink, RunFails, DriverFails, DriverReturns, DriverAt, Finished,
       CancelScope, registryVars
  <2>4. CASE Resolved(a)
    BY <2>4 DEF CapsMove, CapsShrink, Resolved, DriverGoes, DriverAt, registryVars
  <2>5. CASE Track(a)
    <3>1. CASE shuttingDown \/ TrackFull
      BY <2>5, <3>1 DEF CapsMove, CapsShrink, Track, DriverGoes, DriverAt, DriverFails,
         DriverReturns, Finished, CancelScope
    <3>2. CASE ~(shuttingDown \/ TrackFull)
      <4>1. entry' = entry /\ active' = active \cup {a} /\ unknown' = unknown /\ ~TrackFull
        BY <2>5, <3>2 DEF Track, DriverGoes
      <4> QED
        BY <4>1 DEF CapsMove, ActiveAdded
    <3> QED
      BY <3>1, <3>2
  <2>6. CASE EnsureTarget(a)
    BY <2>6 DEF CapsMove, CapsShrink, EnsureTarget, DriverFails, DriverReturns, Finished,
       DriverAt, registryVars
  <2>7. ASSUME NEW i \in Ids, ClearPending(a, i) PROVE CapsMove
    BY <2>7 DEF CapsMove, CapsShrink, ClearPending, Join, registryVars
  <2>8. CASE PendingCleared(a)
    BY <2>8 DEF CapsMove, CapsShrink, PendingCleared, Leave, Succeeded, registryVars
  <2>9. CASE PendingFailed(a)
    BY <2>9 DEF CapsMove, CapsShrink, PendingFailed, Leave, DriverFails, DriverReturns, Finished,
       DriverAt, CloseFailed, registryVars
  <2>10. CASE TargetCleared(a)
    BY <2>10 DEF CapsMove, CapsShrink, TargetCleared, DriverGoes, DriverAt, DriverFails,
       DriverReturns, Finished, registryVars
  <2>11. CASE SpawnCreate(a)
    BY <2>11 DEF CapsMove, CapsShrink, SpawnCreate, TaskAt, DriverAt, registryVars
  <2>12. CASE CreateAbandoned(a)
    BY <2>12 DEF CapsMove, CapsShrink, CreateAbandoned, DropResult, TaskAt, DriverFails,
       DriverReturns, Finished, DriverAt, CancelScope, registryVars
  <2>13. CASE CreateErred(a)
    BY <2>13 DEF CapsMove, CapsShrink, CreateErred, DropResult, TaskAt, DriverFails,
       DriverReturns, Finished, DriverAt, registryVars
  <2>14. CASE Created(a)
    BY <2>14 DEF CapsMove, CapsShrink, Created, DropResult, TaskAt, DriverAt, registryVars
  <2>15. CASE Ready(a)
    BY <2>15 DEF CapsMove, CapsShrink, Ready, DriverAt, registryVars
  <2>16. CASE FetchReady(a)
    BY <2>16 DEF CapsMove, CapsShrink, FetchReady, DriverReturns, Finished, DriverAt, registryVars
  <2>17. CASE ReadyFailed(a)
    BY <2>17 DEF CapsMove, CapsShrink, ReadyFailed, DriverAt, registryVars
  <2>18. CASE RetryReady(a)
    BY <2>18 DEF CapsMove, CapsShrink, RetryReady, DriverAt, registryVars
  <2>19. CASE RecreateClose(a)
    BY <2>19 DEF CapsMove, CapsShrink, RecreateClose, Join, DriverAt, registryVars
  <2>20. CASE RecreateClosed(a)
    BY <2>20 DEF CapsMove, CapsShrink, RecreateClosed, Leave, DriverAt, registryVars
  <2>21. CASE DriverCloses(a)
    BY <2>21 DEF CapsMove, CapsShrink, DriverCloses, Join, DriverAt, registryVars
  <2>22. CASE DriverClosed(a)
    BY <2>22 DEF CapsMove, CapsShrink, DriverClosed, Leave, DriverFails, DriverReturns, Finished,
       DriverAt, registryVars
  <2> QED
    BY <1>1, <2>1, <2>2, <2>3, <2>4, <2>5, <2>6, <2>7, <2>8, <2>9, <2>10, <2>11, <2>12, <2>13,
       <2>14, <2>15, <2>16, <2>17, <2>18, <2>19, <2>20, <2>21, <2>22 DEF DriverStep
<1>2. ASSUME NEW a \in Attempts, TaskStep(a) PROVE CapsMove
  <2>1. CASE SendCreate(a)
    BY <2>1 DEF CapsMove, CapsShrink, SendCreate, TaskAt, registryVars
  <2>2. CASE SendSkipped(a)
    BY <2>2 DEF CapsMove, CapsShrink, SendSkipped, EndTask, TaskAt, registryVars
  <2>3. ASSUME NEW g \in Gens, CreateRecorded(a, g) PROVE CapsMove
    BY <2>3 DEF CapsMove, CapsShrink, CreateRecorded, TaskAt, registryVars
  <2>4. CASE CreateUnknown(a)
    <3>1. a \in Unlost
      BY <2>4 DEF CreateUnknown, ActiveInv, ActiveAt, CreateRuns, Unlost
    <3>2. /\ entry' = entry /\ active' = active /\ unknown' = unknown \cup {TargetOf[a]}
          /\ task' = [task EXCEPT ![a] = "lost"]
      BY <2>4 DEF CreateUnknown, TaskAt
    <3> QED
      BY <3>1, <3>2 DEF CapsMove, CreateLost
  <2>5. CASE CreateDenied(a)
    BY <2>5 DEF CapsMove, CapsShrink, CreateDenied, EndTask, TaskAt, registryVars
  <2>6. CASE CreateRetried(a)
    BY <2>6 DEF CapsMove, CapsShrink, CreateRetried, TaskAt, CancelScope, registryVars
  <2>7. CASE CreateKept(a)
    BY <2>7 DEF CapsMove, CapsShrink, CreateKept, TaskAt, registryVars
  <2>8. CASE CreateReturns(a)
    BY <2>8 DEF CapsMove, CapsShrink, CreateReturns, EndTask, TaskAt, registryVars
  <2>9. CASE CreateCancelled(a)
    BY <2>9 DEF CapsMove, CapsShrink, CreateCancelled, TaskAt, registryVars
  <2>10. CASE TaskCloses(a)
    BY <2>10 DEF CapsMove, CapsShrink, TaskCloses, TaskAt, Join, registryVars
  <2>11. CASE TaskClosed(a)
    BY <2>11 DEF CapsMove, CapsShrink, TaskClosed, Leave, EndTask, TaskAt, registryVars
  <2>12. CASE LostCreateEnds(a)
    BY <2>12 DEF CapsMove, CapsShrink, LostCreateEnds, EndTask, TaskAt, registryVars
  <2> QED
    BY <1>2, <2>1, <2>2, <2>3, <2>4, <2>5, <2>6, <2>7, <2>8, <2>9, <2>10, <2>11, <2>12 DEF TaskStep
<1>3. ASSUME NEW a \in Attempts, CancellerStep(a) PROVE CapsMove
  <2>1. ASSUME NEW gone \in SUBSET Expired, CancelStartup(a, gone) PROVE CapsMove
    <3>1. /\ entry' = [Kept(gone) EXCEPT ![a] = IF Kept(gone)[a] = "absent" THEN "tombstone" ELSE Kept(gone)[a]]
          /\ ~(Kept(gone)[a] = "absent" /\ Full(Kept(gone)))
          /\ active' = active /\ unknown' = unknown
      BY <2>1 DEF CancelStartup, Cancel, Kept
    <3>2. CASE Kept(gone)[a] # "absent"
      <4>1. Entries' \subseteq Entries
        BY <3>1, <3>2 DEF Kept
      <4> QED
        BY <3>1, <4>1 DEF CapsMove, CapsShrink
    <3>3. CASE Kept(gone)[a] = "absent"
      <4> DEFINE S == {b \in Attempts : Kept(gone)[b] # "absent"}
      <4>1. S \subseteq Entries /\ ~(Cardinality(S) >= Capacity)
        BY <3>1, <3>3 DEF Full, Kept
      <4>2. Entries' = S \cup {a}
        BY <3>1, <3>3 DEF Kept
      <4> QED
        BY <3>1, <4>1, <4>2 DEF EntryAdded, CapsMove
    <3> QED
      BY <3>2, <3>3
  <2>2. CASE CreationSettled(a)
    BY <2>2 DEF CapsMove, CapsShrink, CreationSettled, Finished, CancellerAt, registryVars
  <2>3. CASE SettleTimedOut(a)
    BY <2>3 DEF CapsMove, CapsShrink, SettleTimedOut, CancellerAt, registryVars
  <2>4. CASE CancelInspect(a)
    BY <2>4 DEF CapsMove, CapsShrink, CancelInspect, CancellerAt, registryVars
  <2>5. CASE CancelInspectCleanup(a)
    BY <2>5 DEF CapsMove, CapsShrink, CancelInspectCleanup, CancellerAt, registryVars
  <2>6. CASE CancellerCloses(a)
    BY <2>6 DEF CapsMove, CapsShrink, CancellerCloses, Join, CancellerAt, registryVars
  <2>7. CASE CancellerClosed(a)
    BY <2>7 DEF CapsMove, CapsShrink, CancellerClosed, Leave, CloseFailed, CancellerAt, registryVars
  <2>8. CASE CancelRelease(a)
    BY <2>8 DEF CapsMove, CapsShrink, CancelRelease, CancellerAt, registryVars
  <2> QED
    BY <1>3, <2>1, <2>2, <2>3, <2>4, <2>5, <2>6, <2>7, <2>8 DEF CancellerStep
<1>4. ASSUME NEW g \in Gens, CleanupStep(g) PROVE CapsMove
  <2>1. CASE CancelOwner(g)
    BY <2>1 DEF CapsMove, CapsShrink, CancelOwner, CancelOwners, OwnersOf, registryVars
  <2>2. CASE StopAcked(g)
    BY <2>2 DEF CapsMove, CapsShrink, StopAcked, registryVars
  <2>3. CASE ReleaseOwner(g)
    BY <2>3 DEF CapsMove, CapsShrink, ReleaseOwner, ReleaseOwners, registryVars
  <2>4. CASE RemoveEntry(g)
    BY <2>4 DEF CapsMove, CapsShrink, RemoveEntry, registryVars
  <2> QED
    BY <1>4, <2>1, <2>2, <2>3, <2>4 DEF CleanupStep
<1>5. CASE Environment
  <2>1. ASSUME NEW i \in Ids, UserClose(i) PROVE CapsMove
    BY <2>1 DEF CapsMove, CapsShrink, UserClose, registryVars
  <2>2. ASSUME NEW i \in Ids, MonitorFinds(i) PROVE CapsMove
    BY <2>2 DEF CapsMove, CapsShrink, MonitorFinds, registryVars
  <2>3. ASSUME NEW i \in Ids, ServiceEnds(i) PROVE CapsMove
    BY <2>3 DEF CapsMove, CapsShrink, ServiceEnds, registryVars
  <2>4. ASSUME NEW a \in Attempts, NEW i \in Ids, ServiceCreates(a, i) PROVE CapsMove
    BY <2>4 DEF CapsMove, CapsShrink, ServiceCreates, registryVars
  <2> QED
    BY <1>5, <2>1, <2>2, <2>3, <2>4 DEF Environment
<1>6. CASE ShutdownStep
  <2>1. CASE BeginShutdown
    BY <2>1 DEF CapsMove, CapsShrink, BeginShutdown, Shutdown, registryVars
  <2>2. ASSUME NEW i \in Ids, ShutdownCloses(i) PROVE CapsMove
    BY <2>2 DEF CapsMove, CapsShrink, ShutdownCloses, registryVars
  <2>3. ASSUME NEW g \in Gens, ShutdownCloseReturns(g) PROVE CapsMove
    BY <2>3 DEF CapsMove, CapsShrink, ShutdownCloseReturns, registryVars
  <2>4. CASE ShutdownSwept
    BY <2>4 DEF CapsMove, CapsShrink, ShutdownSwept, registryVars
  <2>5. CASE ShutdownEnds
    BY <2>5 DEF CapsMove, CapsShrink, ShutdownEnds, registryVars
  <2>6. CASE ShutdownExpires
    BY <2>6 DEF CapsMove, CapsShrink, ShutdownExpires, registryVars
  <2> QED
    BY <1>6, <2>1, <2>2, <2>3, <2>4, <2>5, <2>6 DEF ShutdownStep
<1>7. CASE UNCHANGED vars
  BY <1>7 DEF CapsMove, CapsShrink, vars, registryVars
<1> QED
  BY <1>1, <1>2, <1>3, <1>4, <1>5, <1>6, <1>7 DEF Next

LEMMA AddsOne ==
  ASSUME NEW S, NEW x, IsFiniteSet(S)
  PROVE  /\ IsFiniteSet(S \cup {x})
         /\ Cardinality(S \cup {x}) \in Nat
         /\ Cardinality(S \cup {x}) =< Cardinality(S) + 1
<1>1. IsFiniteSet(S \cup {x}) /\ Cardinality(S \cup {x}) = IF x \in S THEN Cardinality(S) ELSE Cardinality(S) + 1
  BY FS_AddElement
<1>2. Cardinality(S) \in Nat
  BY FS_CardinalityType
<1> DEFINE n == Cardinality(S)  m == Cardinality(S \cup {x})
<1>3. m \in {n, n + 1} /\ n \in Nat
  BY <1>1, <1>2
<1>4. m \in Nat /\ m =< n + 1
  <2> HIDE DEF n, m
  <2> QED
    BY <1>3
<1> QED
  BY <1>1, <1>4

\* Only the end of its task makes a lost create one that is not: nobody is
\* active for it then.
LEMMA LostStays ==
  ASSUME TypeOK, StepInv, [Next]_vars
  PROVE  \A c \in Attempts : task[c] = "lost" /\ task'[c] # "lost" => c \notin active'
<1>1. ASSUME NEW a \in Attempts, NEW i \in Ids, ServiceCreates(a, i) PROVE task' = task
  BY <1>1 DEF ServiceCreates
<1> QED
  BY <1>1, AnswerMoves DEF Answers

LEMMA CapsStep ==
  ASSUME TypeOK, StepInv, ActiveInv, CapsInv, [Next]_vars PROVE CapsInv'
<1> USE RegistryAssumption
<1> DEFINE n == Cardinality(Unlost)  m == Cardinality(Unlost')
           u == Cardinality(unknown)
<1>0. Unlost' \subseteq active' /\ Unlost \subseteq active /\ active \subseteq Attempts
  BY DEF Unlost, TypeOK, RegistryTypeOK
<1>1. /\ Cardinality(Entries) \in Nat /\ Cardinality(active) \in Nat /\ u \in Nat
      /\ IsFiniteSet(Unlost) /\ n \in Nat /\ n =< Cardinality(active)
  BY <1>0, FS_Subset, FS_CardinalityType DEF CapsInv
<1>2. n + u =< Capacity
  BY DEF CapsInv, UnresolvedCreatesBounded, Unlost
<1>3. m + Cardinality(unknown') =< Capacity => UnresolvedCreatesBounded'
  BY DEF UnresolvedCreatesBounded, Unlost
<1>4. ASSUME active' \subseteq active PROVE Unlost' \subseteq Unlost /\ IsFiniteSet(active') /\ m \in Nat /\ m =< n
  <2>1. Unlost' \subseteq Unlost
    BY <1>0, <1>4, LostStays DEF Unlost
  <2> QED
    BY <1>1, <1>4, <2>1, FS_Subset, FS_CardinalityType DEF CapsInv
<1> HIDE DEF n, m, u
<1>5. ASSUME Entries' \subseteq Entries, active' \subseteq active, unknown' = unknown PROVE CapsInv'
  <2>1. IsFiniteSet(Entries') /\ Cardinality(Entries') =< Cardinality(Entries) /\ Cardinality(Entries') \in Nat
    BY <1>5, FS_Subset, FS_CardinalityType DEF CapsInv
  <2>2. Cardinality(Entries') =< Capacity
    BY <1>1, <2>1 DEF CapsInv
  <2>3. m + Cardinality(unknown') =< Capacity
    BY <1>1, <1>2, <1>4, <1>5 DEF u
  <2> QED
    BY <1>3, <1>4, <1>5, <2>1, <2>2, <2>3 DEF CapsInv
<1>6. CASE EntryAdded
  <2>1. PICK S \in SUBSET Entries, a \in Attempts : ~(Cardinality(S) >= Capacity) /\ Entries' = S \cup {a}
    BY <1>6 DEF EntryAdded
  <2>2. IsFiniteSet(S) /\ Cardinality(S) \in Nat
    BY FS_Subset, FS_CardinalityType DEF CapsInv
  <2>3. /\ IsFiniteSet(S \cup {a}) /\ Cardinality(S \cup {a}) \in Nat
        /\ Cardinality(S \cup {a}) =< Cardinality(S) + 1
    BY <2>2, AddsOne
  <2>4. Cardinality(S \cup {a}) =< Capacity
    BY <2>1, <2>2, <2>3
  <2>5. IsFiniteSet(Entries') /\ Cardinality(Entries') =< Capacity
    BY <2>1, <2>3, <2>4
  <2>6. active' = active /\ unknown' = unknown
    BY <1>6 DEF EntryAdded
  <2>7. m + Cardinality(unknown') =< Capacity
    BY <1>1, <1>2, <1>4, <2>6 DEF u
  <2> QED
    BY <1>3, <2>5, <2>6, <2>7 DEF CapsInv
<1>7. CASE ActiveAdded
  <2>1. PICK a \in Attempts : entry' = entry /\ active' = active \cup {a} /\ unknown' = unknown /\ ~TrackFull
    BY <1>7 DEF ActiveAdded
  <2>2. /\ IsFiniteSet(active') /\ Cardinality(active') \in Nat
        /\ Cardinality(active') =< Cardinality(active) + 1
    BY <2>1, AddsOne DEF CapsInv
  <2>3. m \in Nat /\ m =< Cardinality(active')
    BY <1>0, <2>2, FS_Subset, FS_CardinalityType DEF m
  <2>4. ~(Cardinality(active) + u >= Capacity)
    BY <2>1 DEF TrackFull, u
  <2>5. m + Cardinality(unknown') =< Capacity
    BY <1>1, <2>1, <2>2, <2>3, <2>4 DEF u
  <2>6. Entries' = Entries
    BY <2>1 DEF Entries
  <2> QED
    BY <1>3, <2>1, <2>2, <2>5, <2>6 DEF CapsInv
<1>8. CASE CreateLost
  <2>1. PICK a \in Unlost : /\ entry' = entry /\ active' = active /\ unknown' = unknown \cup {TargetOf[a]}
                            /\ task' = [task EXCEPT ![a] = "lost"]
    BY <1>8 DEF CreateLost
  <2>2. Unlost' = Unlost \ {a}
    BY <1>0, <2>1 DEF Unlost, TypeOK, LifecycleTypeOK
  <2>3. m = n - 1
    BY <1>1, <2>2, FS_RemoveElement DEF m, n
  <2>4. /\ IsFiniteSet(unknown') /\ Cardinality(unknown') \in Nat
        /\ Cardinality(unknown') =< u + 1
    BY <2>1, AddsOne DEF CapsInv, u
  <2>5. m + Cardinality(unknown') =< Capacity
    BY <1>1, <1>2, <2>3, <2>4
  <2>6. Entries' = Entries
    BY <2>1 DEF Entries
  <2> QED
    BY <1>3, <2>1, <2>4, <2>5, <2>6 DEF CapsInv
<1> QED
  BY <1>5, <1>6, <1>7, <1>8, CapsMoves DEF CapsMove, CapsShrink

\* Entries, active scopes and lost creates stay finite and within Capacity.
THEOREM CapsCorrect == Spec => []CapsInv
<1>1. Init => CapsInv
  <2> SUFFICES ASSUME Init PROVE CapsInv
    OBVIOUS
  <2>1. Entries = {} /\ active = {} /\ unknown = {} /\ {a \in active : task[a] # "lost"} = {}
    BY DEF Init, RegistryInit, Entries
  <2>2. Cardinality({}) = 0 /\ IsFiniteSet({})
    BY FS_EmptySet
  <2>3. UnresolvedCreatesBounded
    BY <2>1, <2>2, RegistryAssumption DEF UnresolvedCreatesBounded
  <2> QED
    BY <2>1, <2>2, <2>3, RegistryAssumption DEF CapsInv
<1>2. TypeOK /\ StepInv /\ ActiveInv /\ CapsInv /\ [Next]_vars => CapsInv'
  BY CapsStep
<1>3. KeptInv => StepInv
  BY DEF KeptInv
<1> QED
  BY <1>1, <1>2, <1>3, TypeCorrect, KeptCorrect, ExitCorrect, PTL DEF Spec

\* Creates that are not resolved, each counted once, are together at most
\* Capacity, though a create that is lost takes its target's place unchecked:
\* the targets that lost creates block for good are at most Capacity, too.
THEOREM CreatesAreBounded == Spec => [](UnresolvedCreatesBounded /\ UnknownTargetsBounded)
<1>1. CapsInv => UnresolvedCreatesBounded
  BY DEF CapsInv
<1>2. CapsInv => UnknownTargetsBounded
  <2> SUFFICES ASSUME CapsInv PROVE UnknownTargetsBounded
    OBVIOUS
  <2> DEFINE n == Cardinality({a \in active : task[a] # "lost"})
  <2>1. IsFiniteSet({a \in active : task[a] # "lost"})
    BY FS_Subset DEF CapsInv
  <2>2. n \in Nat /\ Cardinality(unknown) \in Nat
    BY <2>1, FS_CardinalityType DEF CapsInv
  <2>3. n + Cardinality(unknown) =< Capacity
    BY DEF CapsInv, UnresolvedCreatesBounded
  <2> HIDE DEF n
  <2> QED
    BY <2>2, <2>3, RegistryAssumption DEF UnknownTargetsBounded
<1> QED
  BY <1>1, <1>2, CapsCorrect, PTL

\* Sessions in the store and stops that are outstanding are together at most
\* Capacity: each is owned, and an owner keeps its entry.
THEOREM SessionsAreBounded == Spec => []ResourcesBounded
<1>1. TypeOK /\ StageInv /\ ClaimInv /\ StoreInv /\ OwnedInv /\ CapsInv => ResourcesBounded
  <2> SUFFICES ASSUME TypeOK, StageInv, ClaimInv, StoreInv, OwnedInv, CapsInv PROVE ResourcesBounded
    OBVIOUS
  <2> DEFINE R == {g \in Gens : Unstopped(g)}
             f == [g \in R |-> maker[g]]
  <2>1. \A g \in R : maker[g] \in Attempts /\ owned[maker[g]] = g
    BY DEF OwnedInv, StoreInv, Unstopped, TypeOK, LifecycleTypeOK, Id
  <2>2. \A g \in R : maker[g] \in Entries
    BY <2>1, RegistryAssumption DEF ClaimInv, Spent, Entries, TypeOK, RegistryTypeOK
  <2>3. f \in Injection(R, Entries)
    BY <2>1, <2>2 DEF Injection, IsInjective
  <2>4. Cardinality(R) =< Cardinality(Entries) /\ IsFiniteSet(R)
    BY <2>3, FS_Injection DEF CapsInv
  <2>5. Cardinality(R) \in Nat /\ Cardinality(Entries) \in Nat
    BY <2>4, FS_CardinalityType DEF CapsInv
  <2> QED
    BY <2>4, <2>5, RegistryAssumption DEF CapsInv, ResourcesBounded
<1>2. KeptInv => StoreInv /\ OwnedInv
  BY DEF KeptInv
<1> QED
  BY <1>1, <1>2, TypeCorrect, ClaimCorrect, KeptCorrect, CapsCorrect, PTL
=============================================================================
