--------------------------- MODULE StartupRegistry ---------------------------
(***************************************************************************)
(* The startup registry of crates/xbox-streaming (session/operation.rs):   *)
(* startup attempts, the cancellation scope each attempt runs under, the   *)
(* targets whose create outcome is unknown, and the shutdown latch.  The   *)
(* registry sits behind one mutex, so each operation here is one step.     *)
(* SessionLifecycle composes these steps with the tasks that take them.    *)
(*                                                                         *)
(* An attempt id is generated afresh by the page for every startup, so it  *)
(* stands for its scope as well.  An entry older than 300 s is dropped by  *)
(* `prune': the parameter `gone' is the set of droppable entries that have *)
(* reached that age.                                                       *)
(***************************************************************************)
EXTENDS Naturals, FiniteSets

CONSTANTS
    Attempts,    \* startup attempt ids
    Targets,     \* consoles and cloud titles, as (target_type, target_id)
    TargetOf,    \* the target each attempt starts
    Gens,        \* generations of session resources (SessionCancelToken)
    NoGen,       \* no resource
    Capacity     \* 256 in the code: entries, unknown targets, active scopes

ASSUME RegistryAssumption ==
    /\ TargetOf \in [Attempts -> Targets]
    /\ NoGen \notin Gens
    /\ Capacity \in Nat \ {0}

VARIABLES
    entry,        \* StartupRegistry.entries: state of each attempt's entry
    cancelled,    \* attempts whose scope token is cancelled (sticky)
    creating,     \* attempts whose create task holds the CreationGuard
    owned,        \* scope.owned: the resource an attempt must clean up
    active,       \* StartupRegistry.active: scopes with a tracked operation
    unknown,      \* StartupRegistry.unknown_targets
    shuttingDown  \* StartupRegistry.shutting_down

registryVars ==
    <<entry, cancelled, creating, owned, active, unknown, shuttingDown>>

RegistryTypeOK ==
    /\ entry \in [Attempts -> {"absent", "tombstone", "open", "finished"}]
    /\ cancelled \subseteq Attempts
    /\ creating \subseteq Attempts
    /\ owned \in [Attempts -> Gens \cup {NoGen}]
    /\ active \subseteq Attempts
    /\ unknown \subseteq Targets
    /\ shuttingDown \in BOOLEAN

RegistryInit ==
    /\ entry = [a \in Attempts |-> "absent"]
    /\ cancelled = {}
    /\ creating = {}
    /\ owned = [a \in Attempts |-> NoGen]
    /\ active = {}
    /\ unknown = {}
    /\ shuttingDown = FALSE

-----------------------------------------------------------------------------
\* Mutant: a create in flight no longer counts.
SettlingMutant(a) == entry[a] = "open" \/ owned[a] # NoGen

\* An entry that still claims its target.
Settling(a) == entry[a] = "open" \/ a \in creating \/ owned[a] # NoGen

Prunable ==
    {a \in Attempts : /\ entry[a] \in {"tombstone", "finished"}
                      /\ ~Settling(a)}

\* The entries once `prune' has dropped the expired ones.
Kept(gone) == [a \in Attempts |-> IF a \in gone THEN "absent" ELSE entry[a]]

\* Mutant: off by one.
FullMutant(entries) == Cardinality({a \in Attempts : entries[a] # "absent"}) > Capacity

Full(entries) == Cardinality({a \in Attempts : entries[a] # "absent"}) >= Capacity

\* Mutant: only the cap is checked.
OutcomeUnresolvedMutant(t) == Cardinality(unknown) >= Capacity

OutcomeUnresolved(t) == t \in unknown \/ Cardinality(unknown) >= Capacity

\* Another entry of the same target has not settled.
TargetBusy(a, entries) ==
    \E b \in Attempts : /\ entries[b] \in {"open", "finished"}
                        /\ TargetOf[b] = TargetOf[a]
                        /\ Settling(b)

BeginRejected(a, entries) ==
    \/ entries[a] # "absent"
    \/ OutcomeUnresolved(TargetOf[a])
    \/ TargetBusy(a, entries)
    \/ Full(entries)

\* A fresh, uncancelled scope replaces whatever the id stood for before.
Begin(a, gone) ==
    /\ ~shuttingDown
    /\ gone \subseteq Prunable
    /\ ~BeginRejected(a, Kept(gone))
    /\ entry' = [Kept(gone) EXCEPT ![a] = "open"]
    /\ cancelled' = cancelled \ {a}
    /\ UNCHANGED <<creating, owned, active, unknown, shuttingDown>>

\* A refused begin has pruned nonetheless.
BeginRefused(a, gone) ==
    /\ ~shuttingDown
    /\ gone \subseteq Prunable
    /\ BeginRejected(a, Kept(gone))
    /\ entry' = Kept(gone)
    /\ UNCHANGED <<cancelled, creating, owned, active, unknown, shuttingDown>>

\* A cancel that precedes its begin leaves a tombstone.
Cancel(a, gone) ==
    /\ gone \subseteq Prunable
    /\ ~(Kept(gone)[a] = "absent" /\ Full(Kept(gone)))
    /\ entry' = [Kept(gone) EXCEPT ![a] = IF @ = "absent" THEN "tombstone" ELSE @]
    /\ cancelled' = cancelled \cup {a}
    /\ UNCHANGED <<creating, owned, active, unknown, shuttingDown>>

Finished(a) == [entry EXCEPT ![a] = IF @ = "open" THEN "finished" ELSE @]

CancelScope(a) == cancelled' = cancelled \cup {a}

\* cancel_session / release_session match the resource, never the session id.
OwnersOf(g) == {a \in Attempts : owned[a] = g}

CancelOwners(g) == cancelled' = cancelled \cup OwnersOf(g)

ReleaseOwners(g) ==
    owned' = [a \in Attempts |-> IF owned[a] = g THEN NoGen ELSE owned[a]]

\* Mutant: lost creates are not counted.
TrackFullMutant == Cardinality(active) >= Capacity

TrackFull == Cardinality(active) + Cardinality(unknown) >= Capacity

Shutdown ==
    /\ ~shuttingDown
    /\ shuttingDown' = TRUE
    /\ cancelled' = cancelled \cup active \cup {a \in Attempts : entry[a] # "absent"}
    /\ entry' = [a \in Attempts |-> IF entry[a] = "open" THEN "finished" ELSE entry[a]]
    /\ UNCHANGED <<creating, owned, active, unknown>>
=============================================================================
