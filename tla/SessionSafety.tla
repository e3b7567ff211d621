----------------------------- MODULE SessionSafety -----------------------------
(* What SessionLifecycle must never do: the ownership rules of the          *)
(* streaming reliability RFC, stated over its tasks, store and cleanups.    *)
EXTENDS SessionLifecycle

\* An attempt that may have, or is about to get, a session on the service.
Holds(a) ==
    \/ task[a] \in {"inflight", "recorded", "kept", "closing", "closingJoined"}
    \/ owned[a] # NoGen

\* At most one attempt holds a target: a new startup is let in only when
\* nothing of an earlier one can still reach the service, however cancels,
\* timeouts and late answers interleave.
ExclusiveTarget ==
    \A a, b \in Attempts :
        a # b /\ TargetOf[a] = TargetOf[b] => ~(Holds(a) /\ Holds(b))

\* The service never runs two sessions of one target for this client.
OneRemotePerTarget ==
    \A i, j \in Ids :
        i # j /\ remote[i] # NoTarget => remote[i] # remote[j]

\* No orphan: a session that lives on the service is in the store, in the
\* cleanups, in an answer still to be read, or blocks its target as unknown.
NoOrphan ==
    \A i \in Ids :
        remote[i] # NoTarget =>
            \/ session[i] # NoGen
            \/ cleanup[i] # NoGen
            \/ \E a \in Attempts : task[a] = "inflight" /\ reply[a] = i
            \/ remote[i] \in unknown

\* Every record in the store is still owned by the attempt that made it, so
\* its target stays closed to others until it is cleaned up.
StoredIsOwned ==
    \A i \in Ids : session[i] # NoGen => owned[maker[session[i]]] = session[i]

\* A generation whose token is live is the one stored under its id: the
\* monitor and keepalive loops, which look records up by id, see their own.
LiveTokenIsStored ==
    \A g \in Gens : idOf[g] # NoId /\ g \notin dead => session[idOf[g]] = g

\* Once cancel_startup has returned, nothing of the attempt is stored and no
\* create of it is in flight or can be sent.
CancelReturnedMeansClean ==
    \A a \in Attempts :
        canceller[a] = "returned" /\ a \in cancelled =>
            /\ task[a] \notin {"inflight", "recorded", "kept"}
            /\ \A i \in Ids : session[i] # NoGen => maker[session[i]] # a

\* A shutdown that ended in order left no session unclosed and no create
\* under way.
OrderlyExitIsClean ==
    exit = "exited" =>
        /\ \A i \in Ids : session[i] = NoGen
        /\ \A a \in Attempts : task[a] \in {"none", "sending", "ok", "err"}

\* A startup does not cancel itself: the pending cleanups it waits for before
\* it creates are never of a resource its own scope owns.
RecreateSparesItself ==
    \A a \in Attempts :
        driver[a] = "clearing" /\ joined[<<a, "driver">>] # NoGen =>
            joined[<<a, "driver">>] # owned[a]

\* Every create that is not resolved has a place of its own under the cap.  No
\* check sees this sum: a lost create takes its blocked target's place without
\* one, and the sum that `track' looks at counts it twice until its task ends.
UnresolvedCreatesBounded ==
    Cardinality({a \in active : task[a] # "lost"}) + Cardinality(unknown) =< Capacity

\* So the targets that lost creates block, which nothing unblocks, stay few.
UnknownTargetsBounded == Cardinality(unknown) =< Capacity

\* A resource whose stop is still to be asked for, or not acknowledged yet.
Unstopped(g) == idOf[g] # NoId /\ (session[idOf[g]] = g \/ stop[g] = "pending")

\* No check counts what may still live on the service: the sessions in the
\* store and the stops that are outstanding.  The cap on entries bounds them,
\* for an entry outlives the resource its attempt owns.
ResourcesBounded == Cardinality({g \in Gens : Unstopped(g)}) =< Capacity

-----------------------------------------------------------------------------
(* What the stages of a task say about the ids it holds: TypeOK needs it to *)
(* be inductive, for a record is looked up by them.                         *)

StageInv ==
    \A a \in Attempts :
        /\ task[a] \in {"recorded", "kept", "closing", "closingJoined", "ok"}
             => reply[a] \in Ids
        /\ driver[a] \in {"awaitReady", "fetching", "closing", "closingJoined",
                          "recreating", "recreatingJoined"}
             => sid[a] \in Ids
        /\ canceller[a] \in {"checkCleanup", "closing"} => held[a] # NoGen
        /\ held[a] # NoGen => idOf[held[a]] \in Ids
        /\ owned[a] # NoGen => idOf[owned[a]] \in Ids

-----------------------------------------------------------------------------
(* Why ExclusiveTarget holds: an inductive invariant (proved in             *)
(* SessionProofs).  A startup is let in when the others of its target have  *)
(* an entry that no longer settles; such an attempt is spent, whatever its  *)
(* tasks are still about to do, because its scope is cancelled.             *)

Running(a) == driver[a] \notin {"idle", "failed", "started"}
CreateRuns(a) == task[a] \in {"sending", "inflight", "lost", "recorded", "kept",
                             "closing", "closingJoined"}

\* Holds nothing and will never send a create.
Spent(a) ==
    /\ entry[a] # "open"
    /\ owned[a] = NoGen
    /\ task[a] \in {"none", "sending", "ok", "err"}
    /\ Running(a) \/ task[a] = "sending" => a \in cancelled

ClaimInv ==
    /\ \A a \in Attempts :
          /\ a \in creating <=> CreateRuns(a)
          /\ entry[a] \in {"absent", "tombstone"} => Spent(a)
          /\ entry[a] = "finished" /\ Running(a) => a \in cancelled
          /\ canceller[a] = "settling" => entry[a] # "absent" /\ a \in cancelled
    /\ \A a, b \in Attempts :
          a # b /\ TargetOf[a] = TargetOf[b] => Spent(a) \/ Spent(b)
=============================================================================
