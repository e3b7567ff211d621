--------------------------- MODULE SessionRefinement ---------------------------
(* SessionLifecycle implements TargetOwnership: an attempt holds its target  *)
(* from the create it sends to the release of what it owns.                  *)
EXTENDS SessionLiveness

Ownership ==
    INSTANCE TargetOwnership WITH
        holders <- {a \in Attempts : Holds(a)},
        live <- {t \in Targets : \E i \in Ids : remote[i] = t},
        blocked <- unknown

\* Every behaviour of the tasks is, seen through the targets, one the
\* registry promises: no step takes a held, live or blocked target, opens a
\* second session, or gives a target back while its session runs unblocked.
OwnershipKept == Ownership!OwnershipSpec
=============================================================================
