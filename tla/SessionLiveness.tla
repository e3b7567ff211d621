---------------------------- MODULE SessionLiveness ----------------------------
(* What SessionLifecycle must eventually do.  Tasks run on: every scope.run  *)
(* and close is bounded by a timeout, every HTTP request by the client's.    *)
(* What the page, the monitor and the service do of their own is not fair.   *)
EXTENDS SessionSafety

\* The driver, once started.
DriverRuns(a) ==
    \/ RunFails(a) \/ Track(a) \/ EnsureTarget(a)
    \/ \E i \in Ids : ClearPending(a, i)
    \/ PendingCleared(a) \/ PendingFailed(a) \/ TargetCleared(a)
    \/ CreateAbandoned(a) \/ CreateErred(a) \/ Created(a)
    \/ FetchReady(a) \/ ReadyFailed(a)
    \/ RecreateClose(a) \/ RecreateClosed(a)
    \/ DriverCloses(a) \/ DriverClosed(a)

\* cancel_startup, once called.
CancellerRuns(a) ==
    \/ CreationSettled(a) \/ SettleTimedOut(a)
    \/ CancelInspect(a) \/ CancelInspectCleanup(a)
    \/ CancellerCloses(a) \/ CancellerClosed(a) \/ CancelRelease(a)

\* Strong fairness for the tasks that await a close: a close of the page can
\* raise `notify', which all closers of a resource share, any number of times.
Fairness ==
    /\ \A a \in Attempts : /\ SF_vars(DriverRuns(a))
                           /\ SF_vars(TaskStep(a))
                           /\ SF_vars(CancellerRuns(a))
    /\ \A g \in Gens : /\ WF_vars(CancelOwner(g))
                       /\ WF_vars(StopAcked(g) \/ ReleaseOwner(g) \/ RemoveEntry(g))

\* A cancelled startup always gives its target back: whenever the cancel
\* comes, whichever task ends up closing the session, nothing of the attempt
\* stays open, in creation or owned.
CancelFreesTarget ==
    \A a \in Attempts : canceller[a] = "settling" ~> ~Settling(a)

\* A startup always comes to an end, started or failed, re-create included.
StartupEnds ==
    \A a \in Attempts : driver[a] = "resolving" ~> driver[a] \in {"failed", "started"}
=============================================================================
