---------------------------- MODULE TargetOwnership ----------------------------
(* What the startup registry promises a target: one attempt at a time takes  *)
(* it, may run one session of it on the service, and gives it back only when *)
(* no session is left or, the answer to a create being lost, as blocked.     *)
(* SessionLifecycle implements this (SessionRefinement).                     *)
CONSTANTS Attempts, Targets, TargetOf

VARIABLES
    holders,  \* attempts that hold their target
    live,     \* targets with a session on the service
    blocked   \* targets whose last create has an unknown outcome

ownershipVars == <<holders, live, blocked>>

OwnershipTypeOK ==
    /\ holders \subseteq Attempts
    /\ live \subseteq Targets
    /\ blocked \subseteq Targets

OwnershipInit == holders = {} /\ live = {} /\ blocked = {}

HoldersOf(t) == {a \in holders : TargetOf[a] = t}

Take(a) ==
    /\ HoldersOf(TargetOf[a]) = {}
    /\ TargetOf[a] \notin live \cup blocked
    /\ holders' = holders \cup {a}
    /\ UNCHANGED <<live, blocked>>

Open(t) ==
    /\ HoldersOf(t) # {}
    /\ t \notin live \cup blocked
    /\ live' = live \cup {t}
    /\ UNCHANGED <<holders, blocked>>

End(t) ==
    /\ live' = live \ {t}
    /\ UNCHANGED <<holders, blocked>>

GiveBack(a) ==
    /\ a \in holders
    /\ TargetOf[a] \notin live
    /\ holders' = holders \ {a}
    /\ UNCHANGED <<live, blocked>>

\* The answer is lost: the holder may go, or still hold an earlier session.
Block(a) ==
    /\ a \in holders
    /\ blocked' = blocked \cup {TargetOf[a]}
    /\ holders' \in {holders, holders \ {a}}
    /\ UNCHANGED live

OwnershipNext ==
    \/ \E a \in Attempts : Take(a) \/ GiveBack(a) \/ Block(a)
    \/ \E t \in Targets : Open(t) \/ End(t)

OwnershipSpec == OwnershipInit /\ [][OwnershipNext]_ownershipVars

\* One holder per target, and no session without a holder unless blocked.
SingleHolder ==
    \A a, b \in holders : TargetOf[a] = TargetOf[b] => a = b

NoneUnaccounted ==
    \A t \in live : HoldersOf(t) # {} \/ t \in blocked
=============================================================================
