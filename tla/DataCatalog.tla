----------------------------- MODULE DataCatalog -----------------------------
(***************************************************************************)
(* The catalog of cloud titles: an overlay of what the account may play    *)
(* and a base of texts and pictures, each kept on disk and in memory under *)
(* a key per account.  Calls of the page load it, join the one refresh of  *)
(* a key, or start it in the background.  One product stands for the       *)
(* catalog: the base has its texts or lacks them.                          *)
(***************************************************************************)
EXTENDS Integers, FiniteSets

CONSTANTS Calls,       \* calls of the page (bound)
          Accounts,
          MaxClock,    \* the clock (bound)
          FreshTtl, RenderTtl, BaseTtl

ASSUME CatalogAssumption ==
    /\ FreshTtl \in Nat /\ RenderTtl \in Nat /\ BaseTtl \in Nat /\ FreshTtl <= RenderTtl
    /\ MaxClock \in Nat

VARIABLES clock, account,   \* the time, and who is signed in
          disk, memory,     \* each key's base and overlay
          flights,          \* xcloud_refresh_flights: none, or those who wait for the result
          request,          \* each call: its kind, its step, and what it loaded
          refresh           \* the refresh a call runs itself or left in the background

catalogVars == <<clock, account, disk, memory, flights, request, refresh>>

NoBase == [at |-> -1, has |-> FALSE]
NoPair == [base |-> NoBase, overlay |-> -1]    \* an overlay is the time it was saved
NoFlight == [live |-> FALSE, waiters |-> {}]
NoRequest == [at |-> "idle", kind |-> "get", key |-> "none", pair |-> NoPair]
NoRefresh == [at |-> "none", key |-> "none", base |-> NoBase, has |-> FALSE]

CatalogInit ==
    /\ clock = 0 /\ account \in Accounts
    /\ disk \in [Accounts -> {NoPair, [base |-> [at |-> 0, has |-> TRUE], overlay |-> 0]}]
    /\ memory = [a \in Accounts |-> NoPair]
    /\ flights = [a \in Accounts |-> NoFlight]
    /\ request = [c \in Calls |-> NoRequest] /\ refresh = [c \in Calls |-> NoRefresh]

----------------------------------------------------------------------------
(* DataCacheRepository.                                                    *)

OverlayUsable(overlay) == overlay # -1 /\ clock - overlay <= RenderTtl
BaseRenderable(base) == base.at # -1 /\ clock - base.at <= BaseTtl

\* An account without a usable overlay is shown the latest one of the same region and language.
CompatiblePairs ==
    {disk[a] : a \in {b \in Accounts : /\ OverlayUsable(disk[b].overlay)
                                       /\ \A o \in Accounts : disk[o].overlay <= disk[b].overlay}}

ReadDisk(key) ==
    IF OverlayUsable(disk[key].overlay) \/ CompatiblePairs = {} THEN {disk[key]} ELSE CompatiblePairs

InMemory(key) == memory[key] # NoPair

\* Only the parts that were found replace what memory has.
Cached(key, pair) ==
    [memory EXCEPT ![key].base = IF pair.base.at = -1 THEN @ ELSE pair.base,
                   ![key].overlay = IF pair.overlay = -1 THEN @ ELSE pair.overlay]

CacheState(pair) ==
    IF ~OverlayUsable(pair.overlay) THEN "miss"
    ELSE IF clock - pair.overlay <= FreshTtl /\ BaseRenderable(pair.base) /\ pair.base.has THEN "fresh"
    ELSE "stale"

CompatibleBases ==
    {disk[a].base : a \in {b \in Accounts : /\ BaseRenderable(disk[b].base)
                                            /\ \A o \in Accounts : disk[o].base.at <= disk[b].base.at}}

\* The base a refresh starts from: in memory, on disk, or of another account.
BaseSnapshots(key) ==
    IF memory[key].base.at # -1 THEN {memory[key].base}
    ELSE IF disk[key].base.at # -1 THEN {disk[key].base}
    ELSE IF CompatibleBases # {} THEN CompatibleBases ELSE {NoBase}

----------------------------------------------------------------------------
(* The calls.  A session without cloud tokens has no key: nothing is done. *)

RequestAt(c, step) == request' = [request EXCEPT ![c].at = step]

Ask(c, kind) ==
    /\ request[c].at = "idle" /\ account # "none"
    /\ request' = [request EXCEPT ![c] =
          [at |-> IF kind = "refresh" THEN "joining" ELSE "loading", kind |-> kind,
           key |-> account, pair |-> NoPair]]
    /\ UNCHANGED <<clock, account, disk, memory, flights, refresh>>

LoadCatalog(c) ==
    /\ request[c].at = "loading"
    /\ \/ /\ InMemory(request[c].key)
          /\ request' = [request EXCEPT ![c].at = "loaded", ![c].pair = memory[request[c].key]]
       \/ /\ ~InMemory(request[c].key)
          /\ \E pair \in ReadDisk(request[c].key) :
                request' = [request EXCEPT ![c].at = "caching", ![c].pair = pair]
    /\ UNCHANGED <<clock, account, disk, memory, flights, refresh>>

CachePair(c) ==
    /\ request[c].at = "caching"
    /\ memory' = Cached(request[c].key, request[c].pair)
    /\ RequestAt(c, "loaded") /\ UNCHANGED <<clock, account, disk, flights, refresh>>

\* What was loaded answers the call, or starts a refresh nobody else runs, or joins one.
Serve(c) ==
    /\ request[c].at = "loaded"
    /\ LET state == CacheState(request[c].pair)
           running == flights[request[c].key].live
       IN RequestAt(c, IF request[c].kind = "get" /\ state = "miss" THEN "joining"
                       ELSE IF state # "fresh" /\ ~running THEN "spawning" ELSE "done")
    /\ UNCHANGED <<clock, account, disk, memory, flights, refresh>>

BeginRefresh(c, waiters) ==
    /\ flights' = [flights EXCEPT ![request[c].key] = [live |-> TRUE, waiters |-> waiters]]
    /\ refresh' = [refresh EXCEPT ![c] = [NoRefresh EXCEPT !.at = "overlay", !.key = request[c].key]]

\* Mutant: the background refresh is begun without another look at the flight.
SpawnUnchecked(c) ==
    /\ request[c].at = "spawning"
    /\ BeginRefresh(c, {})
    /\ RequestAt(c, "done") /\ UNCHANGED <<clock, account, disk, memory>>

Spawn(c) ==
    /\ request[c].at = "spawning"
    /\ IF flights[request[c].key].live THEN UNCHANGED <<flights, refresh>> ELSE BeginRefresh(c, {})
    /\ RequestAt(c, "done") /\ UNCHANGED <<clock, account, disk, memory>>

Join(c) ==
    /\ request[c].at = "joining"
    /\ IF flights[request[c].key].live
       THEN flights' = [flights EXCEPT ![request[c].key].waiters = @ \cup {c}] /\ UNCHANGED refresh
       ELSE BeginRefresh(c, {c})
    /\ RequestAt(c, "waiting") /\ UNCHANGED <<clock, account, disk, memory>>

----------------------------------------------------------------------------
(* One refresh: the overlay, the texts that are missing, then both saved.  *)

RefreshAt(c, step) == refresh' = [refresh EXCEPT ![c].at = step]

OverlayLoaded(c) ==
    /\ refresh[c].at = "overlay"
    /\ \E base \in BaseSnapshots(refresh[c].key) :
          /\ refresh' = [refresh EXCEPT ![c].at = "hydrating", ![c].base = base]
          /\ memory' = [memory EXCEPT ![refresh[c].key].base = IF base = NoBase THEN @ ELSE base]
    /\ UNCHANGED <<clock, account, disk, flights, request>>

\* Texts already there are not asked for; a chunk that fails leaves them missing.
Hydrated(c) ==
    /\ refresh[c].at = "hydrating"
    /\ \E answered \in BOOLEAN :
          refresh' = [refresh EXCEPT ![c].at = "base", ![c].has = refresh[c].base.has \/ answered]
    /\ UNCHANGED <<clock, account, disk, memory, flights, request>>

SaveBase(c) ==
    /\ refresh[c].at = "base" /\ RefreshAt(c, "saving")
    /\ LET base == [at |-> clock, has |-> refresh[c].has]
       IN /\ disk' = [disk EXCEPT ![refresh[c].key].base = base]
          /\ memory' = [memory EXCEPT ![refresh[c].key].base = base]
    /\ UNCHANGED <<clock, account, flights, request>>

SaveOverlay(c) ==
    /\ refresh[c].at = "saving" /\ RefreshAt(c, "finishing")
    /\ \/ /\ disk' = [disk EXCEPT ![refresh[c].key].overlay = clock]
          /\ memory' = [memory EXCEPT ![refresh[c].key].overlay = clock]
       \/ UNCHANGED <<disk, memory>>    \* an overlay without entries is not saved
    /\ UNCHANGED <<clock, account, flights, request>>

CatalogFails(c) ==
    /\ refresh[c].at \in {"overlay", "base", "saving"} /\ RefreshAt(c, "finishing")
    /\ UNCHANGED <<clock, account, disk, memory, flights, request>>

\* The flight is taken away and everyone who waits for it gets the result.
FinishRefresh(c) ==
    /\ refresh[c].at = "finishing"
    /\ LET waiters == flights[refresh[c].key].waiters
       IN request' = [d \in Calls |-> IF d \in waiters THEN [request[d] EXCEPT !.at = "done"] ELSE request[d]]
    /\ flights' = [flights EXCEPT ![refresh[c].key] = NoFlight]
    /\ refresh' = [refresh EXCEPT ![c] = NoRefresh]
    /\ UNCHANGED <<clock, account, disk, memory>>

TimePasses ==
    /\ clock < MaxClock /\ clock' = clock + 1
    /\ UNCHANGED <<account, disk, memory, flights, request, refresh>>

SwitchAccount ==
    /\ account' \in Accounts \cup {"none"}
    /\ UNCHANGED <<clock, disk, memory, flights, request, refresh>>

CallStep(c) == (\E kind \in {"get", "refresh", "prime"} : Ask(c, kind)) \/ LoadCatalog(c) \/ CachePair(c)
               \/ Serve(c) \/ Spawn(c) \/ Join(c)
RefreshStep(c) == OverlayLoaded(c) \/ Hydrated(c) \/ SaveBase(c) \/ SaveOverlay(c) \/ CatalogFails(c)
                  \/ FinishRefresh(c)
CatalogNext == (\E c \in Calls : CallStep(c) \/ RefreshStep(c)) \/ TimePasses \/ SwitchAccount

CatalogSpec == CatalogInit /\ [][CatalogNext]_catalogVars

----------------------------------------------------------------------------
CatalogTypeOK ==
    /\ clock \in 0 .. MaxClock /\ account \in Accounts \cup {"none"}
    /\ \A a \in Accounts : /\ disk[a].overlay \in -1 .. MaxClock /\ memory[a].overlay \in -1 .. MaxClock
                           /\ flights[a].live \in BOOLEAN /\ flights[a].waiters \subseteq Calls
    /\ \A c \in Calls : /\ request[c].at \in {"idle", "loading", "caching", "loaded", "spawning", "joining",
                                              "waiting", "done"}
                        /\ refresh[c].at \in {"none", "overlay", "hydrating", "base", "saving", "finishing"}

\* One refresh per key is under way, and a call that waits is among those it will answer: neither a
\* background refresh begun at the same moment nor a failed one leaves a caller waiting for nobody.
FlightsAnswered ==
    /\ \A c, d \in Calls : refresh[c].at # "none" /\ refresh[d].at # "none" /\ refresh[c].key = refresh[d].key
                              => c = d
    /\ \A c \in Calls : request[c].at = "waiting" =>
          /\ c \in flights[request[c].key].waiters
          /\ \E d \in Calls : refresh[d].at # "none" /\ refresh[d].key = request[c].key
=============================================================================
