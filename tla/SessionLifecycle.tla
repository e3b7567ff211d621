--------------------------- MODULE SessionLifecycle ---------------------------
(***************************************************************************)
(* The life of a remote session in crates/xbox-streaming (session/startup, *)
(* cleanup, store, scheduler): the tasks that begin, create, watch, cancel *)
(* and close sessions, over the registry of StartupRegistry.               *)
(*                                                                         *)
(* Per attempt there are three tasks: the driver (start_session), the      *)
(* create task it spawns (create_session_record) and a canceller           *)
(* (cancel_startup).  The page may close any session it knows, the         *)
(* monitor may find a session terminal, the service may end one.  One      *)
(* step runs from one await, or one lock, to the next.                     *)
(*                                                                         *)
(* A generation (SessionCancelToken) names one local resource; the service *)
(* gives it an id, and with ReuseIds may give the same id again to a later *)
(* session of the same target.                                             *)
(***************************************************************************)
EXTENDS StartupRegistry

CONSTANTS
    HomeTargets,  \* targets that are consoles: only these are re-created
    Ids,          \* session ids the service hands out
    NoId,         \* no id yet
    NoAttempt,    \* no owner yet
    NoTarget,     \* no live session on the service under an id
    ReuseIds      \* may the service hand out an ended id again?

ASSUME LifecycleAssumption ==
    /\ HomeTargets \subseteq Targets
    /\ NoId \notin Ids
    /\ NoAttempt \notin Attempts
    /\ NoTarget \notin Targets
    /\ ReuseIds \in BOOLEAN

VARIABLES
    driver,    \* stage of start_session of each attempt
    sid,       \* the session id the driver holds
    seen,      \* the generation the driver's wait or re-create captured
    pend,      \* ensure_target_cleanup: pending cleanups still to close
    recreate,  \* home re-create: "none", then how its cleanup settled, "used"
    task,      \* stage of create_session_record of each attempt
    reply,     \* the id the service gave the create
    canceller, \* stage of cancel_startup of each attempt
    held,      \* the owned resource the canceller captured
    session,   \* SessionRuntimeStore.records: id -> generation
    dead,      \* generations whose token is cancelled
    idOf,      \* the id of each generation that was recorded
    maker,     \* the attempt that recorded it (its plan names the target)
    cleanup,   \* cleanups: id -> generation of the entry
    stop,      \* progress of each generation's remote stop
    notify,    \* generations whose closer has yet to run cancel_session
    joined,    \* the cleanup entry a task awaits
    remote,    \* the service: id -> target of its live session
    exit,      \* stage of shutdown
    scheduled, \* ids shutdown has closed once
    jobs       \* generations of close tasks shutdown awaits

driverVars == <<driver, sid, seen, pend, recreate>>
taskVars == <<task, reply>>
cancelVars == <<canceller, held>>
storeVars == <<session, dead, idOf, maker>>
cleanupVars == <<cleanup, stop, notify>>
exitVars == <<exit, scheduled, jobs>>
vars == <<registryVars, driverVars, taskVars, cancelVars, storeVars,
          cleanupVars, joined, remote, exitVars>>

Tasks == {"driver", "task", "canceller"}
Gen == Gens \cup {NoGen}
Id == Ids \cup {NoId}

DriverStages ==
    {"idle", "resolving", "tracking", "ensuring", "clearing", "access",
     "awaitCreate", "awaitReady", "fetching", "closing", "closingJoined",
     "recreating", "recreatingJoined", "failed", "started"}
TaskStages == {"none", "sending", "inflight", "lost", "recorded", "kept",
               "closing", "closingJoined", "ok", "err"}
CancellerStages == {"idle", "settling", "checking", "checkCleanup", "closing",
                    "closingJoined", "releasing", "returned", "failed"}

LifecycleTypeOK ==
    /\ driver \in [Attempts -> DriverStages]
    /\ sid \in [Attempts -> Id]
    /\ seen \in [Attempts -> Gen]
    /\ pend \in [Attempts -> SUBSET Ids]
    /\ recreate \in [Attempts -> {"none", "settled", "unsettled", "used"}]
    /\ task \in [Attempts -> TaskStages]
    /\ reply \in [Attempts -> Id]
    /\ canceller \in [Attempts -> CancellerStages]
    /\ held \in [Attempts -> Gen]
    /\ session \in [Ids -> Gen]
    /\ dead \subseteq Gens
    /\ idOf \in [Gens -> Id]
    /\ maker \in [Gens -> Attempts \cup {NoAttempt}]
    /\ cleanup \in [Ids -> Gen]
    /\ stop \in [Gens -> {"none", "pending", "acked", "released", "removed"}]
    /\ notify \subseteq Gens
    /\ joined \in [Attempts \X Tasks -> Gen]
    /\ remote \in [Ids -> Targets \cup {NoTarget}]
    /\ exit \in {"running", "draining", "swept", "exited", "expired"}
    /\ scheduled \subseteq Ids
    /\ jobs \subseteq Gens

TypeOK == RegistryTypeOK /\ LifecycleTypeOK

Init ==
    /\ RegistryInit
    /\ driver = [a \in Attempts |-> "idle"]
    /\ sid = [a \in Attempts |-> NoId]
    /\ seen = [a \in Attempts |-> NoGen]
    /\ pend = [a \in Attempts |-> {}]
    /\ recreate = [a \in Attempts |-> "none"]
    /\ task = [a \in Attempts |-> "none"]
    /\ reply = [a \in Attempts |-> NoId]
    /\ canceller = [a \in Attempts |-> "idle"]
    /\ held = [a \in Attempts |-> NoGen]
    /\ session = [i \in Ids |-> NoGen]
    /\ dead = {}
    /\ idOf = [g \in Gens |-> NoId]
    /\ maker = [g \in Gens |-> NoAttempt]
    /\ cleanup = [i \in Ids |-> NoGen]
    /\ stop = [g \in Gens |-> "none"]
    /\ notify = {}
    /\ joined = [p \in Attempts \X Tasks |-> NoGen]
    /\ remote = [i \in Ids |-> NoTarget]
    /\ exit = "running"
    /\ scheduled = {}
    /\ jobs = {}

DriverAt(a, stage) == driver' = [driver EXCEPT ![a] = stage]
DriverGoes(a, stage) ==
    DriverAt(a, stage) /\ UNCHANGED <<entry, sid, seen, pend, recreate>>
TaskAt(a, stage) == task' = [task EXCEPT ![a] = stage]
CancellerAt(a, stage) == canceller' = [canceller EXCEPT ![a] = stage]

-----------------------------------------------------------------------------
(* close_session, shared by every task.  Under the cleanups lock an entry  *)
(* is joined if there is one; else the record moves to a new entry and its *)
(* token is cancelled; else there is nothing to close.                     *)

\* Mutant: an id nobody holds is joined under its own name.
ClosingMutant(i) ==
    IF cleanup[i] # NoGen THEN cleanup[i] ELSE IF session[i] # NoGen THEN session[i] ELSE i

Closing(i) == IF cleanup[i] # NoGen THEN cleanup[i] ELSE session[i]

\* Mutant: the token is left live.
RevokedMutant(g) == dead

\* A record that leaves the store loses its token.
Revoked(g) == dead \cup ({g} \ {NoGen})

\* Mutant: the closed record stays in the store.
CloseLocallyMutant(i, cancelStartup) ==
    LET g == Closing(i) IN
    /\ IF cleanup[i] = NoGen /\ session[i] # NoGen
       THEN /\ dead' = Revoked(g)
            /\ cleanup' = [cleanup EXCEPT ![i] = g]
            /\ stop' = [stop EXCEPT ![g] = "pending"]
       ELSE UNCHANGED <<dead, cleanup, stop>>
    /\ notify' = IF cancelStartup /\ g # NoGen THEN notify \cup {g} ELSE notify
    /\ UNCHANGED <<session, idOf, maker>>

CloseLocally(i, cancelStartup) ==
    LET g == Closing(i) IN
    /\ IF cleanup[i] = NoGen /\ session[i] # NoGen
       THEN /\ dead' = Revoked(g)
            /\ session' = [session EXCEPT ![i] = NoGen]
            /\ cleanup' = [cleanup EXCEPT ![i] = g]
            /\ stop' = [stop EXCEPT ![g] = "pending"]
       ELSE UNCHANGED <<dead, session, cleanup, stop>>
    /\ notify' = IF cancelStartup /\ g # NoGen THEN notify \cup {g} ELSE notify
    /\ UNCHANGED <<idOf, maker>>

Join(a, who, i, cancelStartup) ==
    /\ CloseLocally(i, cancelStartup)
    /\ joined' = [joined EXCEPT ![<<a, who>>] = Closing(i)]

\* The await on try_remote_cleanup ends: in a success as soon as one is
\* stored, or in the error of a stop that failed or timed out.
Succeeded(a, who) ==
    /\ joined[<<a, who>>] # NoGen
    /\ joined[<<a, who>>] \notin notify
    /\ stop[joined[<<a, who>>]] \in {"acked", "released", "removed"}

CloseFailed(a, who) ==
    /\ joined[<<a, who>>] # NoGen
    /\ joined[<<a, who>>] \notin notify
    /\ stop[joined[<<a, who>>]] = "pending"

CloseReturned(a, who) ==
    joined[<<a, who>>] = NoGen \/ Succeeded(a, who) \/ CloseFailed(a, who)

Leave(a, who) == joined' = [joined EXCEPT ![<<a, who>>] = NoGen]

\* cancel_session: a close cancels the attempts that own what it closes.
CancelOwner(g) ==
    /\ g \in notify
    /\ notify' = notify \ {g}
    /\ CancelOwners(g)
    /\ UNCHANGED <<entry, creating, owned, active, unknown, shuttingDown,
                   driverVars, taskVars, cancelVars, storeVars, cleanup, stop,
                   joined, remote, exitVars>>

\* stop_stream answered: stopped, or 404 because the session had ended.
StopAcked(g) ==
    /\ stop[g] = "pending"
    /\ stop' = [stop EXCEPT ![g] = "acked"]
    /\ remote' = [remote EXCEPT ![idOf[g]] = NoTarget]
    /\ UNCHANGED <<registryVars, driverVars, taskVars, cancelVars, storeVars,
                   cleanup, notify, joined, exitVars>>

\* release_session, then the entry goes, in two critical sections.
ReleaseOwner(g) ==
    /\ stop[g] = "acked"
    /\ stop' = [stop EXCEPT ![g] = "released"]
    /\ ReleaseOwners(g)
    /\ UNCHANGED <<entry, cancelled, creating, active, unknown, shuttingDown,
                   driverVars, taskVars, cancelVars, storeVars, cleanup,
                   notify, joined, remote, exitVars>>

\* Mutant: the entry goes when the stop failed, too.
RemoveEntryMutant(g) ==
    /\ stop[g] \in {"pending", "released"}
    /\ stop' = [stop EXCEPT ![g] = "removed"]
    /\ cleanup' = [cleanup EXCEPT ![idOf[g]] = IF @ = g THEN NoGen ELSE @]
    /\ UNCHANGED <<registryVars, driverVars, taskVars, cancelVars, storeVars,
                   notify, joined, remote, exitVars>>

RemoveEntry(g) ==
    /\ stop[g] = "released"
    /\ stop' = [stop EXCEPT ![g] = "removed"]
    /\ cleanup' = [cleanup EXCEPT ![idOf[g]] = IF @ = g THEN NoGen ELSE @]
    /\ UNCHANGED <<registryVars, driverVars, taskVars, cancelVars, storeVars,
                   notify, joined, remote, exitVars>>

\* The page closes a session; nothing here waits for the answer.
UserClose(i) ==
    /\ Closing(i) # NoGen
    /\ CloseLocally(i, TRUE)
    /\ UNCHANGED <<registryVars, driverVars, taskVars, cancelVars, joined,
                   remote, exitVars>>

\* The monitor records a terminal state and cancels the token; the record
\* stays until it is closed.
MonitorFinds(i) ==
    /\ session[i] # NoGen
    /\ session[i] \notin dead
    /\ dead' = dead \cup {session[i]}
    /\ UNCHANGED <<registryVars, driverVars, taskVars, cancelVars, session,
                   idOf, maker, cleanupVars, joined, remote, exitVars>>

\* The service ends a session on its own.
ServiceEnds(i) ==
    /\ remote[i] # NoTarget
    /\ remote' = [remote EXCEPT ![i] = NoTarget]
    /\ UNCHANGED <<registryVars, driverVars, taskVars, cancelVars, storeVars,
                   cleanupVars, joined, exitVars>>

-----------------------------------------------------------------------------
(* The driver: start_session, start_session_execution_with_scope and       *)
(* create_session_with_observer.                                           *)

\* start_session returns: finish_startup, and the driver's locals are gone.
DriverReturns(a, stage) ==
    /\ DriverAt(a, stage)
    /\ entry' = Finished(a)
    /\ sid' = [sid EXCEPT ![a] = NoId]
    /\ seen' = [seen EXCEPT ![a] = NoGen]
    /\ pend' = [pend EXCEPT ![a] = {}]
    /\ recreate' = [recreate EXCEPT ![a] = "none"]

DriverFails(a) == DriverReturns(a, "failed")

\* An entry is 300 s old only when no canceller, whose waits are bounded by
\* 15 s each, has it in hand.
CancellerRests(a) == canceller[a] \in {"idle", "returned", "failed"}
Expired == {a \in Prunable : CancellerRests(a)}

\* A cancel that ended before the tombstone expired is none of this scope.
StartSession(a, gone) ==
    /\ driver[a] = "idle"
    /\ gone \subseteq Expired
    /\ Begin(a, gone)
    /\ DriverAt(a, "resolving")
    /\ CancellerAt(a, "idle")
    /\ UNCHANGED <<sid, seen, pend, recreate, taskVars, held, storeVars,
                   cleanupVars, joined, remote, exitVars>>

StartRefused(a, gone) ==
    /\ driver[a] = "idle"
    /\ gone \subseteq Expired
    /\ BeginRefused(a, gone)
    /\ UNCHANGED <<driverVars, taskVars, cancelVars, storeVars, cleanupVars,
                   joined, remote, exitVars>>

\* scope.run gave up: cancelled, failed, or timed out (which cancels).
RunFails(a) ==
    /\ driver[a] \in {"resolving", "access"}
    /\ \/ UNCHANGED cancelled
       \/ CancelScope(a)
    /\ active' = IF driver[a] = "access" THEN active \ {a} ELSE active
    /\ DriverFails(a)
    /\ UNCHANGED <<creating, owned, unknown, shuttingDown, taskVars,
                   cancelVars, storeVars, cleanupVars, joined, remote, exitVars>>

\* Context resolved and console prepared.
Resolved(a) ==
    /\ driver[a] = "resolving"
    /\ a \notin cancelled
    /\ DriverGoes(a, "tracking")
    /\ UNCHANGED <<cancelled, creating, owned, active, unknown, shuttingDown,
                   taskVars, cancelVars, storeVars, cleanupVars, joined,
                   remote, exitVars>>

Track(a) ==
    /\ driver[a] = "tracking"
    /\ IF shuttingDown \/ TrackFull
       THEN /\ DriverFails(a)
            /\ UNCHANGED active
            /\ IF shuttingDown THEN CancelScope(a) ELSE UNCHANGED cancelled
       ELSE /\ DriverGoes(a, "ensuring")
            /\ active' = active \cup {a}
            /\ UNCHANGED cancelled
    /\ UNCHANGED <<creating, owned, unknown, shuttingDown, taskVars,
                   cancelVars, storeVars, cleanupVars, joined, remote, exitVars>>

\* ensure_target_cleanup: the pending cleanups of the target are closed first.
EnsureTarget(a) ==
    /\ driver[a] = "ensuring"
    /\ IF OutcomeUnresolved(TargetOf[a])
       THEN DriverFails(a) /\ active' = active \ {a}
       ELSE /\ DriverAt(a, "clearing")
            /\ pend' = [pend EXCEPT ![a] =
                  {i \in Ids : /\ cleanup[i] # NoGen
                               /\ TargetOf[maker[cleanup[i]]] = TargetOf[a]}]
            /\ UNCHANGED <<active, entry, sid, seen, recreate>>
    /\ UNCHANGED <<cancelled, creating, owned, unknown, shuttingDown, taskVars,
                   cancelVars, storeVars, cleanupVars, joined, remote, exitVars>>

ClearPending(a, i) ==
    /\ driver[a] = "clearing"
    /\ joined[<<a, "driver">>] = NoGen
    /\ i \in pend[a]
    /\ pend' = [pend EXCEPT ![a] = @ \ {i}]
    /\ Join(a, "driver", i, TRUE)
    /\ UNCHANGED <<registryVars, driver, sid, seen, recreate, taskVars,
                   cancelVars, remote, exitVars>>

PendingCleared(a) ==
    /\ driver[a] = "clearing"
    /\ Succeeded(a, "driver")
    /\ Leave(a, "driver")
    /\ UNCHANGED <<registryVars, driverVars, taskVars, cancelVars, storeVars,
                   cleanupVars, remote, exitVars>>

PendingFailed(a) ==
    /\ driver[a] = "clearing"
    /\ CloseFailed(a, "driver")
    /\ Leave(a, "driver")
    /\ DriverFails(a)
    /\ active' = active \ {a}
    /\ UNCHANGED <<cancelled, creating, owned, unknown, shuttingDown, taskVars,
                   cancelVars, storeVars, cleanupVars, remote, exitVars>>

TargetCleared(a) ==
    /\ driver[a] = "clearing"
    /\ joined[<<a, "driver">>] = NoGen
    /\ pend[a] = {}
    /\ IF Cardinality({i \in Ids : cleanup[i] # NoGen}) >= Capacity
       THEN DriverFails(a) /\ active' = active \ {a}
       ELSE DriverGoes(a, "access") /\ UNCHANGED active
    /\ UNCHANGED <<cancelled, creating, owned, unknown, shuttingDown, taskVars,
                   cancelVars, storeVars, cleanupVars, joined, remote, exitVars>>

\* The gateway is ready: the create is spawned under a CreationGuard.  The
\* scope is not looked at again here, so it may be cancelled by now.
SpawnCreate(a) ==
    /\ driver[a] = "access"
    /\ creating' = creating \cup {a}
    /\ TaskAt(a, "sending")
    /\ DriverAt(a, "awaitCreate")
    /\ UNCHANGED <<entry, cancelled, owned, active, unknown, shuttingDown, sid,
                   seen, pend, recreate, reply, cancelVars, storeVars,
                   cleanupVars, joined, remote, exitVars>>

DropResult(a) ==
    /\ TaskAt(a, "none")
    /\ reply' = [reply EXCEPT ![a] = NoId]

\* The driver stops waiting; a create task that has not ended runs on.
CreateAbandoned(a) ==
    /\ driver[a] = "awaitCreate"
    /\ CancelScope(a)
    /\ IF task[a] \in {"ok", "err"}
       THEN a \in cancelled /\ DropResult(a)
       ELSE UNCHANGED taskVars
    /\ DriverFails(a)
    /\ UNCHANGED <<creating, owned, active, unknown, shuttingDown, cancelVars,
                   storeVars, cleanupVars, joined, remote, exitVars>>

\* Mutant: a failed create starts over.
CreateErredMutant(a) ==
    /\ driver[a] = "awaitCreate"
    /\ task[a] = "err"
    /\ DropResult(a)
    /\ DriverGoes(a, "resolving")
    /\ UNCHANGED <<cancelled, creating, owned, active, unknown, shuttingDown,
                   cancelVars, storeVars, cleanupVars, joined, remote, exitVars>>

CreateErred(a) ==
    /\ driver[a] = "awaitCreate"
    /\ task[a] = "err"
    /\ DropResult(a)
    /\ DriverFails(a)
    /\ UNCHANGED <<cancelled, creating, owned, active, unknown, shuttingDown,
                   cancelVars, storeVars, cleanupVars, joined,
                   remote, exitVars>>

\* A re-created session that is the old, unsettled one is given up.
Created(a) ==
    /\ driver[a] = "awaitCreate"
    /\ task[a] = "ok"
    /\ a \notin cancelled
    /\ sid' = [sid EXCEPT ![a] = reply[a]]
    /\ seen' = [seen EXCEPT ![a] = session[reply[a]]]
    /\ recreate' = [recreate EXCEPT ![a] = IF @ = "none" THEN "none" ELSE "used"]
    /\ DriverAt(a, IF recreate[a] = "unsettled" /\ reply[a] = sid[a]
                   THEN "closing" ELSE "awaitReady")
    /\ DropResult(a)
    /\ UNCHANGED <<registryVars, pend, cancelVars, storeVars,
                   cleanupVars, joined, remote, exitVars>>

\* wait_until_session_started_or_failed saw the captured resource ready.
Ready(a) ==
    /\ driver[a] = "awaitReady"
    /\ a \notin cancelled
    /\ seen[a] # NoGen
    /\ seen[a] \notin dead
    /\ session[sid[a]] = seen[a]
    /\ DriverAt(a, "fetching")
    /\ UNCHANGED <<registryVars, sid, seen, pend, recreate, taskVars,
                   cancelVars, storeVars, cleanupVars, joined, remote, exitVars>>

FetchReady(a) ==
    /\ driver[a] = "fetching"
    /\ DriverReturns(a, IF session[sid[a]] = NoGen THEN "failed" ELSE "started")
    /\ UNCHANGED <<cancelled, creating, owned, active, unknown, shuttingDown,
                   taskVars, cancelVars, storeVars, cleanupVars, joined,
                   remote, exitVars>>

\* The wait failed: cancelled, replaced, terminal, or out of time.
ReadyFailed(a) ==
    /\ driver[a] = "awaitReady"
    /\ DriverAt(a, "closing")
    /\ UNCHANGED <<registryVars, sid, seen, pend, recreate, taskVars,
                   cancelVars, storeVars, cleanupVars, joined, remote, exitVars>>

\* A console that has not registered yet earns one re-create.
RetryReady(a) ==
    /\ driver[a] = "awaitReady"
    /\ TargetOf[a] \in HomeTargets
    /\ recreate[a] = "none"
    /\ session[sid[a]] # NoGen
    /\ seen' = [seen EXCEPT ![a] = session[sid[a]]]
    /\ DriverAt(a, "recreating")
    /\ UNCHANGED <<registryVars, sid, pend, recreate, taskVars, cancelVars,
                   storeVars, cleanupVars, joined, remote, exitVars>>

RecreateClose(a) ==
    /\ driver[a] = "recreating"
    /\ Join(a, "driver", sid[a], FALSE)
    /\ DriverAt(a, "recreatingJoined")
    /\ UNCHANGED <<registryVars, sid, seen, pend, recreate, taskVars,
                   cancelVars, remote, exitVars>>

\* Best effort: whatever the close said, the captured record goes, the
\* settle poll reports, and the driver prepares the console again.
RecreateClosed(a) ==
    /\ driver[a] = "recreatingJoined"
    /\ CloseReturned(a, "driver")
    /\ Leave(a, "driver")
    /\ IF session[sid[a]] = seen[a]
       THEN /\ session' = [session EXCEPT ![sid[a]] = NoGen]
            /\ dead' = Revoked(seen[a])
       ELSE UNCHANGED <<session, dead>>
    /\ \E how \in {"settled", "unsettled"} :
          recreate' = [recreate EXCEPT ![a] = how]
    /\ DriverAt(a, "resolving")
    /\ UNCHANGED <<registryVars, sid, seen, pend, taskVars, cancelVars, idOf,
                   maker, cleanupVars, remote, exitVars>>

DriverCloses(a) ==
    /\ driver[a] = "closing"
    /\ Join(a, "driver", sid[a], TRUE)
    /\ DriverAt(a, "closingJoined")
    /\ UNCHANGED <<registryVars, sid, seen, pend, recreate, taskVars,
                   cancelVars, remote, exitVars>>

DriverClosed(a) ==
    /\ driver[a] = "closingJoined"
    /\ CloseReturned(a, "driver")
    /\ Leave(a, "driver")
    /\ DriverFails(a)
    /\ UNCHANGED <<cancelled, creating, owned, active, unknown, shuttingDown,
                   taskVars, cancelVars, storeVars, cleanupVars, remote,
                   exitVars>>

-----------------------------------------------------------------------------
(* The create task: start_stream_with_retry and create_session_record.     *)

\* Mutant: the CreationGuard is never dropped.
EndTaskMutant(a, stage) ==
    /\ TaskAt(a, IF driver[a] = "awaitCreate" THEN stage ELSE "none")
    /\ reply' = [reply EXCEPT ![a] = IF task'[a] = "ok" THEN @ ELSE NoId]
    /\ active' = active \ {a}
    /\ UNCHANGED creating

\* The task ends: its guards clear `creating' and the active record.  Its
\* result is dropped unless the driver still awaits it.
EndTask(a, stage) ==
    /\ TaskAt(a, IF driver[a] = "awaitCreate" THEN stage ELSE "none")
    /\ reply' = [reply EXCEPT ![a] = IF task'[a] = "ok" THEN @ ELSE NoId]
    /\ creating' = creating \ {a}
    /\ active' = active \ {a}

SendCreate(a) ==
    /\ task[a] = "sending"
    /\ a \notin cancelled
    /\ TaskAt(a, "inflight")
    /\ reply' = [reply EXCEPT ![a] = NoId]
    /\ UNCHANGED <<registryVars, driverVars, cancelVars, storeVars,
                   cleanupVars, joined, remote, exitVars>>

SendSkipped(a) ==
    /\ task[a] = "sending"
    /\ a \in cancelled
    /\ EndTask(a, "err")
    /\ UNCHANGED <<entry, cancelled, owned, unknown, shuttingDown, driverVars,
                   cancelVars, storeVars, cleanupVars, joined, remote,
                   exitVars>>

Issued == {idOf[g] : g \in Gens} \cup {reply[a] : a \in Attempts}

\* The service accepts the create and names the session.  It may name an
\* ended session of the target again, in a round trip longer than the two
\* locks its cleanup takes once the stop was acknowledged.
ServiceCreates(a, i) ==
    /\ task[a] = "inflight"
    /\ reply[a] = NoId
    /\ remote[i] = NoTarget
    /\ i \in Issued => /\ ReuseIds
                       /\ \A g \in Gens : idOf[g] = i => stop[g] \notin {"acked", "released"}
                       /\ \A g \in Gens : idOf[g] = i => TargetOf[maker[g]] = TargetOf[a]
                       /\ \A b \in Attempts : reply[b] = i => TargetOf[b] = TargetOf[a]
    /\ remote' = [remote EXCEPT ![i] = TargetOf[a]]
    /\ reply' = [reply EXCEPT ![a] = i]
    /\ UNCHANGED <<registryVars, driverVars, task, cancelVars, storeVars,
                   cleanupVars, joined, exitVars>>

\* insert_new_with_plan and set_owned, under the sessions lock; a record
\* that held the id loses its token.
CreateRecorded(a, g) ==
    /\ task[a] = "inflight"
    /\ reply[a] # NoId
    /\ idOf[g] = NoId
    /\ idOf' = [idOf EXCEPT ![g] = reply[a]]
    /\ maker' = [maker EXCEPT ![g] = a]
    /\ dead' = Revoked(session[reply[a]])
    /\ session' = [session EXCEPT ![reply[a]] = g]
    /\ owned' = [owned EXCEPT ![a] = g]
    /\ TaskAt(a, "recorded")
    /\ UNCHANGED <<entry, cancelled, creating, active, unknown, shuttingDown,
                   driverVars, reply, cancelVars, cleanupVars, joined, remote,
                   exitVars>>

\* The answer was lost or unreadable: the target keeps its unknown owner.
\* Until the task ends, a lock later, the create counts as active, too.
CreateUnknown(a) ==
    /\ task[a] = "inflight"
    /\ unknown' = unknown \cup {TargetOf[a]}
    /\ TaskAt(a, "lost")
    /\ reply' = [reply EXCEPT ![a] = NoId]
    /\ UNCHANGED <<entry, cancelled, creating, owned, active, shuttingDown,
                   driverVars, cancelVars, storeVars, cleanupVars, joined,
                   remote, exitVars>>

LostCreateEnds(a) ==
    /\ task[a] = "lost"
    /\ EndTask(a, "err")
    /\ UNCHANGED <<entry, cancelled, owned, unknown, shuttingDown, driverVars,
                   cancelVars, storeVars, cleanupVars, joined, remote,
                   exitVars>>

CreateDenied(a) ==
    /\ task[a] = "inflight"
    /\ reply[a] = NoId
    /\ EndTask(a, "err")
    /\ UNCHANGED <<entry, cancelled, owned, unknown, shuttingDown, driverVars,
                   cancelVars, storeVars, cleanupVars, joined, remote,
                   exitVars>>

\* The console is not registered yet: wait and send again.
CreateRetried(a) ==
    /\ task[a] = "inflight"
    /\ reply[a] = NoId
    /\ TargetOf[a] \in HomeTargets
    /\ TaskAt(a, "sending")
    /\ \/ UNCHANGED cancelled
       \/ CancelScope(a)
    /\ UNCHANGED <<entry, creating, owned, active, unknown, shuttingDown,
                   driverVars, reply, cancelVars, storeVars, cleanupVars,
                   joined, remote, exitVars>>

\* Not cancelled when looked at: the monitor and keepalive loops start.
CreateKept(a) ==
    /\ task[a] = "recorded"
    /\ a \notin cancelled
    /\ TaskAt(a, "kept")
    /\ UNCHANGED <<registryVars, driverVars, reply, cancelVars, storeVars,
                   cleanupVars, joined, remote, exitVars>>

CreateReturns(a) ==
    /\ task[a] = "kept"
    /\ EndTask(a, "ok")
    /\ UNCHANGED <<entry, cancelled, owned, unknown, shuttingDown, driverVars,
                   cancelVars, storeVars, cleanupVars, joined, remote, exitVars>>

CreateCancelled(a) ==
    /\ task[a] = "recorded"
    /\ a \in cancelled
    /\ TaskAt(a, "closing")
    /\ UNCHANGED <<registryVars, driverVars, reply, cancelVars, storeVars,
                   cleanupVars, joined, remote, exitVars>>

TaskCloses(a) ==
    /\ task[a] = "closing"
    /\ Join(a, "task", reply[a], TRUE)
    /\ TaskAt(a, "closingJoined")
    /\ UNCHANGED <<registryVars, driverVars, reply, cancelVars, remote, exitVars>>

TaskClosed(a) ==
    /\ task[a] = "closingJoined"
    /\ CloseReturned(a, "task")
    /\ Leave(a, "task")
    /\ EndTask(a, "err")
    /\ UNCHANGED <<entry, cancelled, owned, unknown, shuttingDown, driverVars,
                   cancelVars, storeVars, cleanupVars, remote, exitVars>>

-----------------------------------------------------------------------------
(* The canceller: cancel_startup.                                          *)

CancelStartup(a, gone) ==
    /\ CancellerRests(a)
    /\ gone \subseteq Expired
    /\ Cancel(a, gone)
    /\ CancellerAt(a, "settling")
    /\ UNCHANGED <<driverVars, taskVars, held, storeVars, cleanupVars, joined,
                   remote, exitVars>>

\* Mutant: the cancel does not wait for the create.
CreationSettledMutant(a) ==
    /\ canceller[a] = "settling"
    /\ entry' = Finished(a)
    /\ CancellerAt(a, "checking")
    /\ UNCHANGED <<cancelled, creating, owned, active, unknown, shuttingDown,
                   driverVars, taskVars, held, storeVars, cleanupVars, joined,
                   remote, exitVars>>

\* wait_for_creation saw no create in progress; finish_startup.
CreationSettled(a) ==
    /\ canceller[a] = "settling"
    /\ a \notin creating
    /\ entry' = Finished(a)
    /\ CancellerAt(a, "checking")
    /\ UNCHANGED <<cancelled, creating, owned, active, unknown, shuttingDown,
                   driverVars, taskVars, held, storeVars, cleanupVars, joined,
                   remote, exitVars>>

\* 15 s passed, in a wait of the create task on the service: what the task
\* does between two such waits is taken to be shorter than that.
SettleTimedOut(a) ==
    /\ canceller[a] = "settling"
    /\ a \in creating
    /\ task[a] \in {"inflight", "closingJoined"}
    /\ CancellerAt(a, "failed")
    /\ UNCHANGED <<registryVars, driverVars, taskVars, held, storeVars,
                   cleanupVars, joined, remote, exitVars>>

\* A record of another generation under the id means ours was replaced.
CancelInspect(a) ==
    /\ canceller[a] = "checking"
    /\ LET g == owned[a] IN
       IF g = NoGen
       THEN CancellerAt(a, "returned") /\ UNCHANGED <<owned, held>>
       ELSE IF session[idOf[g]] \notin {NoGen, g}
            THEN /\ owned' = [owned EXCEPT ![a] = NoGen]
                 /\ CancellerAt(a, "returned")
                 /\ UNCHANGED held
            ELSE /\ held' = [held EXCEPT ![a] = g]
                 /\ CancellerAt(a, "checkCleanup")
                 /\ UNCHANGED owned
    /\ UNCHANGED <<entry, cancelled, creating, active, unknown, shuttingDown,
                   driverVars, taskVars, storeVars, cleanupVars, joined,
                   remote, exitVars>>

CancelInspectCleanup(a) ==
    /\ canceller[a] = "checkCleanup"
    /\ IF cleanup[idOf[held[a]]] \notin {NoGen, held[a]}
       THEN /\ owned' = [owned EXCEPT ![a] = NoGen]
            /\ CancellerAt(a, "returned")
            /\ held' = [held EXCEPT ![a] = NoGen]
       ELSE CancellerAt(a, "closing") /\ UNCHANGED <<owned, held>>
    /\ UNCHANGED <<entry, cancelled, creating, active, unknown, shuttingDown,
                   driverVars, taskVars, storeVars, cleanupVars, joined,
                   remote, exitVars>>

CancellerCloses(a) ==
    /\ canceller[a] = "closing"
    /\ Join(a, "canceller", idOf[held[a]], TRUE)
    /\ CancellerAt(a, "closingJoined")
    /\ UNCHANGED <<registryVars, driverVars, taskVars, held, remote, exitVars>>

\* Mutant: a close that failed still gives the resource up.
CancellerClosedMutant(a) ==
    /\ canceller[a] = "closingJoined"
    /\ CloseReturned(a, "canceller")
    /\ CancellerAt(a, "releasing")
    /\ Leave(a, "canceller")
    /\ held' = [held EXCEPT ![a] = NoGen]
    /\ UNCHANGED <<registryVars, driverVars, taskVars, storeVars,
                   cleanupVars, remote, exitVars>>

CancellerClosed(a) ==
    /\ canceller[a] = "closingJoined"
    /\ CloseReturned(a, "canceller")
    /\ CancellerAt(a, IF CloseFailed(a, "canceller") THEN "failed" ELSE "releasing")
    /\ Leave(a, "canceller")
    /\ held' = [held EXCEPT ![a] = NoGen]
    /\ UNCHANGED <<registryVars, driverVars, taskVars, storeVars,
                   cleanupVars, remote, exitVars>>

\* release_owned is unconditional.
CancelRelease(a) ==
    /\ canceller[a] = "releasing"
    /\ owned' = [owned EXCEPT ![a] = NoGen]
    /\ CancellerAt(a, "returned")
    /\ UNCHANGED <<entry, cancelled, creating, active, unknown, shuttingDown,
                   driverVars, taskVars, held, storeVars, cleanupVars, joined,
                   remote, exitVars>>

-----------------------------------------------------------------------------
(* shutdown: revoke, then sweep until nothing is active, for 30 s at most. *)

BeginShutdown ==
    /\ exit = "running"
    /\ Shutdown
    /\ exit' = "draining"
    /\ UNCHANGED <<driverVars, taskVars, cancelVars, storeVars, cleanupVars,
                   joined, remote, scheduled, jobs>>

\* Each round closes, once, every id it finds.
ShutdownCloses(i) ==
    /\ exit = "draining"
    /\ Closing(i) # NoGen
    /\ i \notin scheduled
    /\ scheduled' = scheduled \cup {i}
    /\ jobs' = jobs \cup {Closing(i)}
    /\ CloseLocally(i, TRUE)
    /\ UNCHANGED <<registryVars, driverVars, taskVars, cancelVars, joined,
                   remote, exit>>

ShutdownSwept ==
    /\ exit = "draining"
    /\ \A i \in Ids : Closing(i) # NoGen => i \in scheduled
    /\ exit' = "swept"
    /\ UNCHANGED <<registryVars, driverVars, taskVars, cancelVars, storeVars,
                   cleanupVars, joined, remote, scheduled, jobs>>

\* A close that shutdown awaits returned, in success or in error.
ShutdownCloseReturns(g) ==
    /\ g \in jobs
    /\ g \notin notify
    /\ jobs' = jobs \ {g}
    /\ UNCHANGED <<registryVars, driverVars, taskVars, cancelVars, storeVars,
                   cleanupVars, joined, remote, exit, scheduled>>

\* Mutant: creates still under way are not waited for.
ShutdownEndsMutant ==
    /\ exit = "swept"
    /\ exit' = IF jobs = {} THEN "exited" ELSE "draining"
    /\ UNCHANGED <<registryVars, driverVars, taskVars, cancelVars, storeVars,
                   cleanupVars, joined, remote, scheduled, jobs>>

ShutdownEnds ==
    /\ exit = "swept"
    /\ exit' = IF active = {} /\ jobs = {} THEN "exited" ELSE "draining"
    /\ UNCHANGED <<registryVars, driverVars, taskVars, cancelVars, storeVars,
                   cleanupVars, joined, remote, scheduled, jobs>>

ShutdownExpires ==
    /\ exit \in {"draining", "swept"}
    /\ exit' = "expired"
    /\ UNCHANGED <<registryVars, driverVars, taskVars, cancelVars, storeVars,
                   cleanupVars, joined, remote, scheduled, jobs>>

-----------------------------------------------------------------------------
DriverStep(a) ==
    \/ \E gone \in SUBSET Expired : StartSession(a, gone) \/ StartRefused(a, gone)
    \/ RunFails(a) \/ Resolved(a) \/ Track(a) \/ EnsureTarget(a)
    \/ \E i \in Ids : ClearPending(a, i)
    \/ PendingCleared(a) \/ PendingFailed(a) \/ TargetCleared(a)
    \/ SpawnCreate(a) \/ CreateAbandoned(a) \/ CreateErred(a) \/ Created(a)
    \/ Ready(a) \/ FetchReady(a) \/ ReadyFailed(a) \/ RetryReady(a)
    \/ RecreateClose(a) \/ RecreateClosed(a)
    \/ DriverCloses(a) \/ DriverClosed(a)

TaskStep(a) ==
    \/ SendCreate(a) \/ SendSkipped(a)
    \/ \E g \in Gens : CreateRecorded(a, g)
    \/ CreateUnknown(a) \/ LostCreateEnds(a) \/ CreateDenied(a) \/ CreateRetried(a)
    \/ CreateKept(a) \/ CreateReturns(a) \/ CreateCancelled(a)
    \/ TaskCloses(a) \/ TaskClosed(a)

CancellerStep(a) ==
    \/ \E gone \in SUBSET Expired : CancelStartup(a, gone)
    \/ CreationSettled(a) \/ SettleTimedOut(a)
    \/ CancelInspect(a) \/ CancelInspectCleanup(a)
    \/ CancellerCloses(a) \/ CancellerClosed(a) \/ CancelRelease(a)

CleanupStep(g) ==
    CancelOwner(g) \/ StopAcked(g) \/ ReleaseOwner(g) \/ RemoveEntry(g)

Environment ==
    \/ \E i \in Ids : UserClose(i) \/ MonitorFinds(i) \/ ServiceEnds(i)
    \/ \E a \in Attempts, i \in Ids : ServiceCreates(a, i)

ShutdownStep ==
    \/ BeginShutdown
    \/ \E i \in Ids : ShutdownCloses(i)
    \/ \E g \in Gens : ShutdownCloseReturns(g)
    \/ ShutdownSwept \/ ShutdownEnds \/ ShutdownExpires

Next ==
    \/ \E a \in Attempts : DriverStep(a) \/ TaskStep(a) \/ CancellerStep(a)
    \/ \E g \in Gens : CleanupStep(g)
    \/ Environment
    \/ ShutdownStep

Spec == Init /\ [][Next]_vars
=============================================================================
