---------------------------- MODULE AccessLeases ----------------------------
(***************************************************************************)
(* The registry of stream access: a handle the app gets with the tokens of *)
(* a sign-in, and gives back to create a stream.  An owner is an account   *)
(* with a kind of target; each new lease of an owner supersedes the others *)
(* and gets the next generation.  What ended keeps a tombstone without the *)
(* tokens.  The clock is the wall clock, which may be set back.            *)
(***************************************************************************)
EXTENDS Integers

CONSTANTS Handles,      \* handles given out (bound)
          Owners,       \* accounts with a kind of target
          MaxTime,      \* the clock (bound)
          MaxLifetime,  \* ACCESS_LEASE_MAX_LIFETIME_MS
          Skew          \* ACCESS_LEASE_EXPIRY_SKEW_MS

ASSUME LeaseAssumption == MaxLifetime \in Nat /\ Skew \in Nat /\ MaxTime \in Nat

VARIABLES now,          \* the wall clock
          prepare,      \* each handle's prepare_cloud_access or prepare_home_access
          leases,       \* StreamAccessRegistry.leases
          generations,  \* StreamAccessRegistry.owner_generations
          loaded        \* of each owner, the last generation whose tokens were handed out

leaseVars == <<now, prepare, leases, generations, loaded>>

NoLease == [owner |-> "none", gen |-> 0, created |-> 0, expires |-> 0, end |-> "absent", context |-> FALSE]

LeasesInit ==
    /\ now \in 0 .. MaxTime
    /\ prepare = [h \in Handles |-> [at |-> "idle", owner |-> "none", created |-> 0, expires |-> 0]]
    /\ leases = [h \in Handles |-> NoLease]
    /\ generations = [o \in Owners |-> 0]
    /\ loaded = [o \in Owners |-> 0]

Least(a, b) == IF a < b THEN a ELSE b
Elapsed(from, to) == IF to > from THEN to - from ELSE 0

\* The time of the token when it lies ahead, at most the longest lifetime, and never beyond
\* the web token's.  A time of 0 stands for a token that states none.
StreamExpiry(created, token) ==
    IF token > created THEN Least(token, created + MaxLifetime) ELSE created + MaxLifetime

CapExpiry(expiry, created, web) == IF web > created THEN Least(expiry, web) ELSE expiry

----------------------------------------------------------------------------
(* A lease prepared: tokens, then for a home target the fallback TURN      *)
(* server, awaited between the time noted and the insertion.               *)

Authenticated(h, o) ==
    /\ prepare[h].at = "idle"
    /\ \E token, web \in 0 .. MaxTime :
          prepare' = [prepare EXCEPT ![h] = [at |-> "granted", owner |-> o, created |-> now,
                                             expires |-> CapExpiry(StreamExpiry(now, token), now, web)]]
    /\ UNCHANGED <<now, leases, generations, loaded>>

\* Leases that would end within the skew are taken as ended.
Ends(lease, time) ==
    /\ lease.end = "none"
    /\ Elapsed(lease.created, time) + Skew >= Elapsed(lease.created, lease.expires)

Revoked(lease, end) == [lease EXCEPT !.end = end, !.context = FALSE]

ExpireLeases(time) ==
    [h \in Handles |-> IF Ends(leases[h], time) THEN Revoked(leases[h], "expired") ELSE leases[h]]

\* Mutant: only the leases that ended anyway lose their tokens.
SupersedeNone(o, time) == ExpireLeases(time)

\* The other leases of the owner end with the insertion.
Supersede(o, time) ==
    [h \in Handles |-> LET lease == ExpireLeases(time)[h]
                       IN IF lease.owner = o /\ lease.end = "none"
                          THEN Revoked(lease, "superseded") ELSE lease]

Insert(h) ==
    /\ prepare[h].at = "granted"
    /\ LET p == prepare[h]
       IN /\ generations' = [generations EXCEPT ![p.owner] = @ + 1]
          /\ leases' = [Supersede(p.owner, p.created) EXCEPT ![h] =
                           [owner |-> p.owner, gen |-> generations[p.owner] + 1, created |-> p.created,
                            expires |-> p.expires, end |-> "none", context |-> TRUE]]
    /\ prepare' = [prepare EXCEPT ![h].at = "inserted"]
    /\ UNCHANGED <<now, loaded>>

\* A scoped load names an owner and a generation, which are the lease's own or not; the plain
\* one names none.
Loadable(lease, named) ==
    lease.end = "none" /\ lease.context /\ named /\ generations[lease.owner] = lease.gen

Load(h) ==
    /\ leases[h].end # "absent"
    /\ leases' = ExpireLeases(now)
    /\ \E named \in BOOLEAN :
          loaded' = IF Loadable(leases'[h], named) THEN [loaded EXCEPT ![leases[h].owner] = leases[h].gen]
                    ELSE loaded
    /\ UNCHANGED <<now, prepare, generations>>

Release(h) ==
    /\ leases[h].end # "absent"
    /\ leases' = [ExpireLeases(now) EXCEPT ![h] = IF @.end = "none" THEN Revoked(@, "released") ELSE @]
    /\ UNCHANGED <<now, prepare, generations, loaded>>

ClockMoves ==
    /\ now' \in (0 .. MaxTime) \ {now}
    /\ UNCHANGED <<prepare, leases, generations, loaded>>

LeasesNext ==
    \/ \E h \in Handles : Insert(h) \/ Load(h) \/ Release(h) \/ \E o \in Owners : Authenticated(h, o)
    \/ ClockMoves

LeasesSpec == LeasesInit /\ [][LeasesNext]_leaseVars

----------------------------------------------------------------------------
LeasesTypeOK ==
    /\ now \in 0 .. MaxTime
    /\ \A h \in Handles : /\ prepare[h].at \in {"idle", "granted", "inserted"}
                          /\ prepare[h].owner \in Owners \cup {"none"}
                          /\ leases[h].owner \in Owners \cup {"none"}
                          /\ leases[h].end \in {"absent", "none", "expired", "released", "superseded"}
    /\ generations \in [Owners -> Nat] /\ loaded \in [Owners -> Nat]

\* Tokens stay only with the one lease of each owner that has the owner's current generation,
\* and none older than what was handed out before, however prepares overlap and clocks move.
TokensWithCurrentLease ==
    \A h \in Handles :
        /\ leases[h].context <=> leases[h].end = "none"
        /\ leases[h].context => /\ generations[leases[h].owner] = leases[h].gen
                                /\ loaded[leases[h].owner] <= leases[h].gen
        /\ \A other \in Handles \ {h} :
              leases[h].context /\ leases[other].context => leases[other].owner # leases[h].owner
=============================================================================
