------------------------------ MODULE MCSession ------------------------------
(* Small instances of SessionLifecycle for TLC. *)
EXTENDS SessionRefinement, TLC

CONSTANTS a1, a2, t1, t2, i1, i2, g1, g2

\* The attempts share t1, except that a2 starts t2 where there is one.
MCTargetOf == [a \in Attempts |-> IF a = a2 /\ t2 \in Targets THEN t2 ELSE t1]

\* Attempts are interchangeable only when they share their target.
Symmetry == Permutations(Attempts) \cup Permutations(Ids) \cup Permutations(Gens)
ResourceSymmetry == Permutations(Ids) \cup Permutations(Gens)

\* A run of the application without shutdown.
RunningSpec == Init /\ [][Next /\ ~shuttingDown']_vars

\* A run of the application without shutdown, too short for an entry to expire.
StartupNext ==
    /\ Next
    /\ ~shuttingDown'
    /\ \A a \in Attempts : entry[a] # "absent" => entry'[a] # "absent"

StartupSpec == Init /\ [][StartupNext]_vars
FairStartupSpec == StartupSpec /\ Fairness
=============================================================================
