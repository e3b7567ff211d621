----------------------------- MODULE ServiceProofs -----------------------------
(***************************************************************************)
(* What five services of the two hosts keep.  On the desktop: the sign-in, *)
(* for any tasks at once and any number of logins, the recorder of traces, *)
(* for any bounds of the queue, of the file, of the rows and of the        *)
(* configurations, and the catalog's refreshes, for any calls, accounts,   *)
(* times and lifetimes.  In the iOS bridge: the registry of stream access, *)
(* for any handles, owners and clock, and the stream object, for any       *)
(* number of offers, of exchanges under way and of owners that end the     *)
(* stream.                                                                 *)
(***************************************************************************)
EXTENDS AuthSession, RuntimeTrace, DataCatalog, AccessLeases, BridgeSession, FiniteSetTheorems, TLAPS

(***************************************************************************)
(* The sign-in.  A task reads the store, waits, and writes what it read or *)
(* was granted: the invariant says where each may stand when another one   *)
(* has cleared the tokens or taken the state from under it.                *)
(***************************************************************************)
\* The steps that write the tokens of a sign-in, and those of each job.
Saves == {"user", "setUser", "sisu", "setSisu", "web", "stream", "mark"}
CheckStages == {"snapshot", "accept", "policy", "silent", "refresh", "fallback", "keep", "wipe",
      "signedOut"} \cup Saves
LoginStages == {"login", "key", "setKey", "pend", "failed"}
CallbackStages == {"take", "seed", "exchange", "giveUp", "unmark", "shut"} \cup Saves

\* The steps of each job, and what it goes on to after a read of the state.
InJob(c) ==
    \/ c.job = "none" /\ c.at = "idle"
    \/ c.job = "check" /\ c.at \in CheckStages
    \/ c.job = "login" /\ c.at \in LoginStages /\ c.login # 0
    \/ c.job = "login" /\ c.at = "window"
    \/ c.job = "callback" /\ c.at \in CallbackStages
    \/ c.job \in {"all", "ephemeral"} /\ c.at \in {"clear", "reset"}
Goes(c) ==
    \/ c.job = "none" /\ c.then = "idle"
    \/ c.job = "check" /\ c.then = "snapshot"
    \/ c.job = "login" /\ c.then = "window"
    \/ c.job = "callback" /\ c.then \in {"take", "unmark", "shut"}
Placed(c) == IF c.at \in {"read", "sync"} THEN Goes(c) ELSE InJob(c) /\ c.then = "idle"

\* A task has no tokens in hand; the key of a login may still be written,
\* with no user token beside it.
NothingHeld(c) ==
    /\ c.at \notin {"sync", "accept", "refresh", "fallback", "keep", "exchange",
                    "user", "setUser", "sisu", "setSisu", "web", "stream", "mark", "seed"}
    /\ c.at = "setKey" => ~c.payload.user
\* What a task holds does no harm: it was noted when the tokens were cleared.
Harmless(c) == c.late \/ NothingHeld(c)
Cleared ==
    cleared => /\ ~store.user /\ store.web = "none" /\ store.stream = 0
               /\ \A p \in Callers : Harmless(call[p])
               /\ auth.signedIn => \E p \in Callers : AuthAt(p, "reset")

\* The state is marked for a callback only while one is at work that has not come to shut its window.
Processing(c) == c.job = "callback" /\ c.at # "shut" /\ c.then # "shut"
CallbackMarked == auth.callback => \E p \in Callers : Processing(call[p])

\* Every task is at a step of its job.
Placement == \A p \in Callers : Placed(call[p])

\* What the fields of the tasks, the state and the window may be.
Jobs == {"none", "check", "login", "callback", "all", "ephemeral"}
Snapshots == [signedIn : BOOLEAN, level : 0 .. 2]
Payloads == [user : BOOLEAN, sisu : BOOLEAN, key : BOOLEAN]
CallRecords == [at : CallStages, then : CallStages, job : Jobs, login : 0 .. MaxLogins,
      level : 0 .. 2,
                web : BOOLEAN, was : Snapshots, payload : Payloads, late : BOOLEAN]
AuthStates == [busy : BOOLEAN, signedIn : BOOLEAN, level : 0 .. 2, pending : 0 .. MaxLogins,
      callback : BOOLEAN]
Windows == [open : BOOLEAN, cancels : BOOLEAN]

\* Everything but the calls is of its type.
StateTyped ==
    /\ store \in StoreFields /\ auth \in AuthStates /\ oauth \in Windows
    /\ started \in 0 .. MaxLogins /\ broken \in BOOLEAN /\ cleared \in BOOLEAN
\* The calls are of their type.
CallsTyped == call \in [Callers -> CallRecords]
\* The inductive invariant: a late step of one task is told from the others by where its job stands,
\* what it has in hand and whether it is the callback the state is marked for.
AuthInv == StateTyped /\ CallsTyped /\ Placement /\ Cleared /\ CallbackMarked

-----------------------------------------------------------------------------
(* What a step does to the calls: only that of its task moves.             *)
Frame(p) ==
    /\ CallsTyped'
    /\ \A q \in Callers \ {p} : call'[q] = call[q]

\* What the types say of the call of a task.
LEMMA CallFields ==
    ASSUME CallsTyped, NEW p \in Callers
    PROVE  /\ call[p].at \in CallStages /\ call[p].then \in CallStages /\ call[p].job \in Jobs
           /\ call[p].login \in 0 .. MaxLogins /\ call[p].level \in 0 .. 2
              /\ call[p].web \in BOOLEAN
           /\ call[p].was.signedIn \in BOOLEAN /\ call[p].was.level \in 0 .. 2
              /\ call[p].payload \in Payloads /\ call[p].late \in BOOLEAN
BY DEF CallsTyped, CallRecords, Snapshots

\* Giving a task a new call moves no other task.
LEMMA Framed ==
    ASSUME CallsTyped, NEW p \in Callers, NEW c \in CallRecords, call' = [call EXCEPT ![p] = c]
    PROVE  Frame(p) /\ call'[p] = c
BY DEF Frame, CallsTyped

\* The calls and payloads a task starts with are of their types.
LEMMA IdleTyped ==
    /\ IdleCall \in CallRecords /\ NoState \in Snapshots /\ NoPayload \in Payloads
    /\ {"idle", "read", "user", "keep", "snapshot", "login", "take"} \subseteq CallStages
    /\ {"check", "login", "callback"} \subseteq Jobs
BY LoginAssumption
   DEF IdleCall, CallRecords, CallStages, Jobs, Snapshots, Payloads, NoState, NoPayload

\* The call of p moves on: its step, and where it stands in its job.  What it holds stays noted.
Moves(p, at, then, job, login) ==
    /\ Frame(p)
    /\ call'[p].at = at /\ call'[p].then = then /\ call'[p].job = job /\ call'[p].login = login
    /\ call'[p].late = call[p].late \/ NothingHeld(call'[p])
\* The call goes to another step of the same job.
MovesOn(p, at) == Moves(p, at, call[p].then, call[p].job, call[p].login)

\* A task that goes to another step keeps its payload.
LEMMA GoingTo ==
    ASSUME CallsTyped, NEW p \in Callers, NEW at \in CallStages, AuthGoTo(p, at)
    PROVE  MovesOn(p, at) /\ call'[p].payload = call[p].payload
<1> DEFINE old == call[p]
           c == [old EXCEPT !.at = at]
<1>1. old \in CallRecords
  BY DEF CallsTyped
<1>2. call' = [call EXCEPT ![p] = c]
  BY DEF AuthGoTo
<1> HIDE DEF old
<1>3. c \in CallRecords /\ c.at = at /\ c.then = old.then /\ c.job = old.job
      /\ c.login = old.login /\ c.payload = old.payload /\ c.late = old.late
  BY <1>1, IdleTyped, LoginAssumption DEF CallRecords, IdleCall
<1> HIDE DEF c
<1> QED
  BY <1>1, <1>2, <1>3, Framed DEF MovesOn, Moves, old

\* A task that goes to another step with tokens to save.
LEMMA WithPayload ==
    ASSUME CallsTyped, NEW p \in Callers, NEW at \in CallStages, NEW payload \in Payloads,
           call' = [call EXCEPT ![p].at = at, ![p].payload = payload]
    PROVE  MovesOn(p, at) /\ call'[p].payload = payload
<1> DEFINE old == call[p]
           c == [old EXCEPT !.at = at, !.payload = payload]
<1>1. old \in CallRecords
  BY DEF CallsTyped
<1>2. call' = [call EXCEPT ![p] = c]
  BY DEF AuthGoTo
<1> HIDE DEF old
<1>3. c \in CallRecords /\ c.at = at /\ c.then = old.then /\ c.job = old.job
      /\ c.login = old.login /\ c.payload = payload /\ c.late = old.late
  BY <1>1, IdleTyped, LoginAssumption DEF CallRecords, IdleCall
<1> HIDE DEF c
<1> QED
  BY <1>1, <1>2, <1>3, Framed DEF MovesOn, Moves, old

\* A task that goes to another step with a level to write.
LEMMA WithLevel ==
    ASSUME CallsTyped, NEW p \in Callers, NEW at \in CallStages, NEW level \in 0 .. 2,
           call' = [call EXCEPT ![p].at = at, ![p].level = level]
    PROVE  MovesOn(p, at)
<1> DEFINE old == call[p]
           c == [old EXCEPT !.at = at, !.level = level]
<1>1. old \in CallRecords
  BY DEF CallsTyped
<1>2. call' = [call EXCEPT ![p] = c]
  BY DEF AuthGoTo
<1> HIDE DEF old
<1>3. c \in CallRecords /\ c.at = at /\ c.then = old.then /\ c.job = old.job /\ c.login = old.login
      /\ c.late = old.late
  BY <1>1, IdleTyped, LoginAssumption DEF CallRecords, IdleCall
<1> HIDE DEF c
<1> QED
  BY <1>1, <1>2, <1>3, Framed DEF MovesOn, Moves, old

\* A task that begins to save the tokens it was granted.
LEMMA WithBundle ==
    ASSUME CallsTyped, NEW p \in Callers, NEW level \in 0 .. 2,
           call' = [call EXCEPT ![p].at = "user", ![p].level = level, ![p].login = 0,
             ![p].was = NoState]
    PROVE  Moves(p, "user", call[p].then, call[p].job, 0)
<1> DEFINE old == call[p]
           c == [old EXCEPT !.at = "user", !.level = level, !.login = 0, !.was = NoState]
<1>1. old \in CallRecords
  BY DEF CallsTyped
<1>2. call' = [call EXCEPT ![p] = c]
  BY DEF CallStages
<1> HIDE DEF old
<1>3. c \in CallRecords /\ c.at = "user" /\ c.then = old.then /\ c.job = old.job /\ c.login = 0
      /\ c.late = old.late
  BY <1>1, IdleTyped, LoginAssumption DEF CallRecords, IdleCall
<1> HIDE DEF c
<1> QED
  BY <1>1, <1>2, <1>3, Framed DEF MovesOn, Moves, old

\* A task that is done is idle again.
LEMMA Leaving ==
    ASSUME CallsTyped, NEW p \in Callers, AuthLeave(p)
    PROVE  Moves(p, "idle", "idle", "none", 0)
<1> DEFINE old == call[p]
           c == IdleCall
<1>1. old \in CallRecords
  BY DEF CallsTyped
<1>2. call' = [call EXCEPT ![p] = c]
  BY DEF AuthLeave
<1> HIDE DEF old
<1>3. c \in CallRecords /\ c.at = "idle" /\ c.then = "idle" /\ c.job = "none" /\ c.login = 0
      /\ NothingHeld(c)
  BY <1>1, IdleTyped, LoginAssumption DEF CallRecords, IdleCall, NothingHeld
<1> HIDE DEF c
<1> QED
  BY <1>1, <1>2, <1>3, Framed DEF MovesOn, Moves, old

\* A task that reads the state, and what it goes on to.
LEMMA Syncing ==
    ASSUME CallsTyped, NEW p \in Callers, NEW step \in CallStages, SyncThen(p, step)
    PROVE  /\ step = "idle" => Moves(p, "read", "idle", "none", 0)
           /\ step # "idle" => Moves(p, "read", step, call[p].job, 0)
<1> DEFINE old == call[p]
           job == IF step = "idle" THEN "none" ELSE call[p].job
           c == [IdleCall EXCEPT !.at = "read", !.then = step, !.job = job]
<1>1. job \in Jobs
  BY DEF CallsTyped, CallRecords, Jobs
<1>2. call' = [call EXCEPT ![p] = c]
  BY DEF SyncThen
<1>4. (step = "idle" => job = "none") /\ (step # "idle" => job = call[p].job)
  OBVIOUS
<1> HIDE DEF job
<1>3. c \in CallRecords /\ c.at = "read" /\ c.then = step /\ c.job = job /\ c.login = 0
      /\ NothingHeld(c)
  BY <1>1, IdleTyped, LoginAssumption DEF CallRecords, IdleCall, NothingHeld
<1> HIDE DEF c
<1> QED
  BY <1>1, <1>2, <1>3, <1>4, Framed DEF Moves

\* A task that begins a job.
LEMMA Beginning ==
    ASSUME CallsTyped, NEW p \in Callers, NEW job \in Jobs, NEW step \in {"read", "clear"},
     BeginCall(p,
             job, step)
    PROVE  Moves(p, step, "idle", job, 0)
<1> DEFINE old == call[p]
           c == [IdleCall EXCEPT !.at = step, !.job = job]
<1>1. old \in CallRecords
  BY DEF CallsTyped
<1>2. call' = [call EXCEPT ![p] = c]
  BY DEF BeginCall
<1> HIDE DEF old
<1>3. c \in CallRecords /\ c.at = step /\ c.then = "idle" /\ c.job = job /\ c.login = 0
      /\ NothingHeld(c)
  BY <1>1, IdleTyped, LoginAssumption DEF CallRecords, IdleCall, NothingHeld, CallStages
<1> HIDE DEF c
<1> QED
  BY <1>1, <1>2, <1>3, Framed DEF MovesOn, Moves, old

-----------------------------------------------------------------------------
(* What a step of p must leave true.                                       *)
\* What a step of p has to show so that nothing of a cleared sign-in comes back.
StaysCleared(p) ==
    cleared' => /\ ~store'.user /\ store'.web = "none" /\ store'.stream = 0 /\ Harmless(call'[p])
                /\ cleared
                /\ auth'.signedIn => \/ call'[p].at = "reset"
                                     \/ cleared /\ auth.signedIn /\ call[p].at # "reset"
\* Either p itself is the callback the state is marked for, or it never was.
StaysMarked(p) ==
    auth'.callback => Processing(call'[p]) \/ (auth.callback /\ ~Processing(call[p]))

\* A step of one task keeps the invariant when it is placed in its job and shows the rest.
LEMMA TaskStep ==
    ASSUME AuthInv, NEW p \in Callers, Frame(p), StateTyped', Placed(call'[p]), StaysCleared(p),
             StaysMarked(p)
    PROVE  AuthInv'
<1>1. Placement'
  BY DEF AuthInv, Placement, Frame
<1>2. Cleared'
  <2> SUFFICES ASSUME cleared'
               PROVE  /\ ~store'.user /\ store'.web = "none" /\ store'.stream = 0
                      /\ \A q \in Callers : Harmless(call'[q])
                      /\ auth'.signedIn => \E q \in Callers : AuthAt(q, "reset")'
    BY DEF Cleared
  <2>1. \A q \in Callers : Harmless(call'[q])
    BY DEF AuthInv, Cleared, StaysCleared, Frame
  <2>2. ASSUME auth'.signedIn PROVE \E q \in Callers : AuthAt(q, "reset")'
    <3>1. CASE call'[p].at = "reset"
      BY <3>1 DEF AuthAt
    <3>2. CASE cleared /\ auth.signedIn /\ call[p].at # "reset"
      <4>1. PICK q \in Callers : AuthAt(q, "reset")
        BY <3>2 DEF AuthInv, Cleared
      <4>2. q # p /\ call'[q] = call[q]
        BY <3>2, <4>1 DEF AuthAt, Frame
      <4> QED BY <4>1, <4>2 DEF AuthAt
    <3> QED BY <2>2, <3>1, <3>2 DEF StaysCleared
  <2> QED BY <2>1, <2>2 DEF StaysCleared
<1>3. CallbackMarked'
  <2> SUFFICES ASSUME auth'.callback PROVE \E q \in Callers : Processing(call'[q])
    BY DEF CallbackMarked
  <2>1. CASE auth.callback /\ ~Processing(call[p])
    <3>1. PICK q \in Callers : Processing(call[q])
      BY <2>1 DEF AuthInv, CallbackMarked
    <3>2. q # p /\ call'[q] = call[q]
      BY <2>1, <3>1 DEF Frame
    <3> QED BY <3>1, <3>2
  <2> QED BY <2>1 DEF StaysMarked
<1> QED
  BY <1>1, <1>2, <1>3 DEF AuthInv, Frame

\* A step that leaves the store and the state of the sign-in alone.
LEMMA QuietStep ==
    ASSUME AuthInv, NEW p \in Callers, Frame(p), Placed(call'[p]),
           UNCHANGED <<store, auth, cleared>>, oauth' \in Windows, started' = started,
             broken' = broken,
           cleared => Harmless(call'[p]), call[p].at # "reset",
           Processing(call[p]) => Processing(call'[p])
    PROVE  AuthInv'
<1>1. StateTyped'
  BY DEF AuthInv, StateTyped
<1>2. StaysCleared(p)
  BY DEF AuthInv, Cleared, StaysCleared
<1>3. StaysMarked(p)
  BY DEF StaysMarked
<1> QED
  BY <1>1, <1>2, <1>3, TaskStep

\* What the invariant says of the task at hand.
LEMMA TaskAtHand ==
    ASSUME AuthInv, NEW p \in Callers
    PROVE  /\ CallsTyped /\ StateTyped /\ Placed(call[p])
           /\ cleared => /\ ~store.user /\ store.web = "none" /\ store.stream = 0
              /\ Harmless(call[p])
                         /\ ValidLevel = 0
BY DEF AuthInv, Placement, Cleared, ValidLevel

\* What was granted has one of the levels.
LEMMA BundleTyped == ASSUME NEW answers PROVE BundleLevel(answers) \in 0 .. 2
BY DEF BundleLevel

\* A task that goes to another step and comes back to a third.
LEMMA WithBoth ==
    ASSUME CallsTyped, NEW p \in Callers, NEW at \in CallStages, NEW then \in CallStages,
           call' = [call EXCEPT ![p].at = at, ![p].then = then, ![p].level = 0]
    PROVE  Moves(p, at, then, call[p].job, call[p].login)
<1> DEFINE old == call[p]
           c == [old EXCEPT !.at = at, !.then = then, !.level = 0]
<1>1. old \in CallRecords
  BY DEF CallsTyped
<1>2. call' = [call EXCEPT ![p] = c]
  BY DEF CallStages
<1> HIDE DEF old
<1>3. c \in CallRecords /\ c.at = at /\ c.then = then /\ c.job = old.job /\ c.login = old.login
      /\ c.late = old.late
  BY <1>1, IdleTyped, LoginAssumption DEF CallRecords, IdleCall
<1> HIDE DEF c
<1> QED
  BY <1>1, <1>2, <1>3, Framed DEF MovesOn, Moves, old

\* Where a task stands after it has written what it read of the store into the state.
LEMMA SyncedOn ==
    ASSUME CallsTyped, NEW p \in Callers, AfterSync(p)
    PROVE  IF call[p].then = "idle" THEN Moves(p, "idle", "idle", "none", 0)
           ELSE Moves(p, call[p].then, "idle", call[p].job, call[p].login)
<1>1. CASE call[p].then = "idle"
  BY <1>1, Leaving DEF AfterSync
<1>2. CASE call[p].then # "idle"
  <2>1. call' = [call EXCEPT ![p].at = call[p].then, ![p].then = "idle", ![p].level = 0]
    BY <1>2 DEF AfterSync
  <2> QED BY <1>2, <2>1, CallFields, IdleTyped, WithBoth
<1> QED
  BY <1>1, <1>2

\* The store after a write of a task, and after one of a task that holds nothing of a sign-in.
LEMMA StoreAfterTyped ==
    ASSUME StateTyped, CallsTyped, NEW p \in Callers
    PROVE  /\ StoreAfter(p) \in StoreFields
           /\ call[p].at = "setKey" => StoreAfter(p).key
           /\ cleared /\ NothingHeld(call[p]) /\ ~store.user /\ store.web = "none"
              /\ store.stream = 0 =>
                 ~StoreAfter(p).user /\ StoreAfter(p).web = "none" /\ StoreAfter(p).stream = 0
           /\ (call[p].at = "clear" /\ call[p].job = "all") \/ call[p].at = "wipe" =>
                 ~StoreAfter(p).user /\ StoreAfter(p).web = "none" /\ StoreAfter(p).stream = 0
<1> DEFINE c == call[p]
<1>0. c.payload \in Payloads /\ c.level \in 0 .. 2 /\ store \in StoreFields
  BY CallFields DEF StateTyped
<1>1. ASSUME NEW field \in {"user", "sisu", "key"}
      PROVE  /\ [c.payload EXCEPT ![field] = TRUE] \in Payloads
             /\ field = "key" => /\ [c.payload EXCEPT ![field] = TRUE].key
                                 /\ [c.payload EXCEPT ![field] = TRUE].user = c.payload.user
  BY <1>0 DEF Payloads
<1>2. ASSUME NEW new \in Payloads
      PROVE  LET s == [store EXCEPT !.user = new.user, !.sisu = new.sisu, !.key = new.key]
             IN s \in StoreFields /\ s.user = new.user /\ s.key = new.key /\ s.web = store.web
                /\ s.stream = store.stream
  BY <1>0 DEF Payloads, StoreFields
<1>3. CASE c.at = "setUser" \/ c.at = "setSisu"
  <2>1. PICK field \in {"user", "sisu"} :
            LET new == [c.payload EXCEPT ![field] = TRUE]
            IN StoreAfter(p) = [store EXCEPT !.user = new.user, !.sisu = new.sisu, !.key = new.key]
    BY <1>3 DEF StoreAfter
  <2> QED BY <1>1, <1>2, <1>3, <2>1 DEF NothingHeld
<1>4. CASE c.at = "setKey"
  <2> DEFINE new == [c.payload EXCEPT !["key"] = TRUE]
  <2>1. StoreAfter(p) = [store EXCEPT !.user = new.user, !.sisu = new.sisu, !.key = new.key]
    BY <1>4 DEF StoreAfter
  <2>2. new \in Payloads /\ new.key /\ new.user = c.payload.user
    BY <1>1
  <2> HIDE DEF new
  <2> QED BY <1>2, <1>4, <2>1, <2>2 DEF NothingHeld
<1>5. CASE c.at \in {"web", "stream"}
  BY <1>0, <1>5 DEF StoreAfter, StoreFields, NothingHeld
<1>6. CASE c.at \notin {"setUser", "setSisu", "setKey", "web", "stream"}
  <2>1. StoreAfter(p) = NoTokens \/ (c.at = "clear" /\ c.job = "ephemeral"
        /\ StoreAfter(p) = [store EXCEPT !.web = "none", !.stream = 0])
    BY <1>6 DEF StoreAfter
  <2>2. CASE StoreAfter(p) = NoTokens
    BY <1>6, <2>2 DEF NoTokens, StoreFields
  <2>3. CASE c.at = "clear" /\ c.job = "ephemeral" /\ StoreAfter(p) = [store EXCEPT !.web = "none",
               !.stream = 0]
    <3>1. store.user = StoreAfter(p).user
      BY <1>0, <2>3 DEF StoreFields
    <3>3. "none" \in {"none", "fresh", "old"} /\ 0 \in 0 .. 2
      OBVIOUS
    <3>4. StoreAfter(p) \in StoreFields
      BY <1>0, <2>3, <3>3 DEF StoreFields
    <3>2. StoreAfter(p).web = "none" /\ StoreAfter(p).stream = 0
      BY <1>0, <2>3 DEF StoreFields
    <3> QED BY <2>3, <3>1, <3>2, <3>4
  <2> QED BY <2>1, <2>2, <2>3
<1> QED
  BY <1>3, <1>4, <1>5, <1>6

\* A refresh that falls back on the tokens it finds.
LEMMA WithFallback ==
    ASSUME CallsTyped, NEW p \in Callers, NEW level \in 0 .. 2, NEW web \in BOOLEAN,
           call' = [call EXCEPT ![p].at = "keep", ![p].level = level, ![p].web = web]
    PROVE  MovesOn(p, "keep")
<1> DEFINE old == call[p]
           c == [old EXCEPT !.at = "keep", !.level = level, !.web = web]
<1>1. old \in CallRecords
  BY DEF CallsTyped
<1>2. call' = [call EXCEPT ![p] = c]
  BY DEF CallStages
<1> HIDE DEF old
<1>3. c \in CallRecords /\ c.at = "keep" /\ c.then = old.then /\ c.job = old.job
      /\ c.login = old.login /\ c.late = old.late
  BY <1>1, IdleTyped, LoginAssumption DEF CallRecords, IdleCall
<1> HIDE DEF c
<1> QED
  BY <1>1, <1>2, <1>3, Framed DEF MovesOn, Moves, old

\* The check of the tokens the page asks for.
LEMMA WithCheck ==
    ASSUME CallsTyped, NEW p \in Callers, NEW was \in Snapshots,
           call' = [call EXCEPT ![p] = [IdleCall EXCEPT !.at = "read", !.then = "snapshot",
             !.job = "check", !.was = was]]
    PROVE  Moves(p, "read", "snapshot", "check", 0)
<1> DEFINE old == call[p]
           c == [IdleCall EXCEPT !.at = "read", !.then = "snapshot", !.job = "check", !.was = was]
<1>1. old \in CallRecords
  BY DEF CallsTyped
<1>2. call' = [call EXCEPT ![p] = c]
  BY DEF CallStages
<1> HIDE DEF old
<1>3. c \in CallRecords /\ c.at = "read" /\ c.then = "snapshot" /\ c.job = "check" /\ c.login = 0
      /\ NothingHeld(c)
  BY <1>1, IdleTyped, LoginAssumption DEF CallRecords, IdleCall, NothingHeld
<1> HIDE DEF c
<1> QED
  BY <1>1, <1>2, <1>3, Framed DEF MovesOn, Moves, old

\* A login of the page.
LEMMA WithLogin ==
    ASSUME CallsTyped, NEW p \in Callers, NEW login \in 0 .. MaxLogins,
           call' = [call EXCEPT ![p] = [IdleCall EXCEPT !.at = "login", !.job = "login",
             !.login = login]]
    PROVE  Moves(p, "login", "idle", "login", login)
<1> DEFINE old == call[p]
           c == [IdleCall EXCEPT !.at = "login", !.job = "login", !.login = login]
<1>1. old \in CallRecords
  BY DEF CallsTyped
<1>2. call' = [call EXCEPT ![p] = c]
  BY DEF CallStages
<1> HIDE DEF old
<1>3. c \in CallRecords /\ c.at = "login" /\ c.then = "idle" /\ c.job = "login" /\ c.login = login
      /\ NothingHeld(c)
  BY <1>1, IdleTyped, LoginAssumption DEF CallRecords, IdleCall, NothingHeld
<1> HIDE DEF c
<1> QED
  BY <1>1, <1>2, <1>3, Framed DEF MovesOn, Moves, old

\* A callback of the sign-in page.
LEMMA WithCallback ==
    ASSUME CallsTyped, NEW p \in Callers, NEW login \in 0 .. MaxLogins,
           call' = [call EXCEPT ![p] = [IdleCall EXCEPT !.at = "read", !.then = "take",
             !.job = "callback", !.login = login]]
    PROVE  Moves(p, "read", "take", "callback", login)
<1> DEFINE old == call[p]
           c == [IdleCall EXCEPT !.at = "read", !.then = "take", !.job = "callback",
                 !.login = login]
<1>1. old \in CallRecords
  BY DEF CallsTyped
<1>2. call' = [call EXCEPT ![p] = c]
  BY DEF CallStages
<1> HIDE DEF old
<1>3. c \in CallRecords /\ c.at = "read" /\ c.then = "take" /\ c.job = "callback" /\ c.login = login
      /\ NothingHeld(c)
  BY <1>1, IdleTyped, LoginAssumption DEF CallRecords, IdleCall, NothingHeld
<1> HIDE DEF c
<1> QED
  BY <1>1, <1>2, <1>3, Framed DEF MovesOn, Moves, old

\* A callback that took a pending login, or found none.
LEMMA WithTaken ==
    ASSUME CallsTyped, NEW p \in Callers, NEW at \in CallStages, NEW login \in 0 .. MaxLogins,
           call' = [call EXCEPT ![p].at = at, ![p].login = login]
    PROVE  Moves(p, at, call[p].then, call[p].job, login)
<1> DEFINE old == call[p]
           c == [old EXCEPT !.at = at, !.login = login]
<1>1. old \in CallRecords
  BY DEF CallsTyped
<1>2. call' = [call EXCEPT ![p] = c]
  BY DEF CallStages
<1> HIDE DEF old
<1>3. c \in CallRecords /\ c.at = at /\ c.then = old.then /\ c.job = old.job /\ c.login = login
      /\ c.late = old.late
  BY <1>1, IdleTyped, LoginAssumption DEF CallRecords, IdleCall
<1> HIDE DEF c
<1> QED
  BY <1>1, <1>2, <1>3, Framed DEF MovesOn, Moves, old

\* A state written anew is one of the states.
LEMMA AuthUpdated ==
    ASSUME auth \in AuthStates, NEW busy \in BOOLEAN, NEW signedIn \in BOOLEAN, NEW level \in 0 .. 2
    PROVE  [auth EXCEPT !.busy = busy, !.signedIn = signedIn, !.level = level] \in AuthStates
BY DEF AuthStates

\* A state whose pending login was dropped is one of the states.
LEMMA NoPending ==
    ASSUME NEW state \in AuthStates, NEW busy \in BOOLEAN
    PROVE  /\ [state EXCEPT !.pending = 0] \in AuthStates
           /\ [state EXCEPT !.pending = 0, !.busy = busy] \in AuthStates
<1>1. 0 \in 0 .. MaxLogins
  BY LoginAssumption
<1>2. [state EXCEPT !.pending = 0] \in AuthStates
  BY <1>1 DEF AuthStates
<1>3. [state EXCEPT !.pending = 0, !.busy = busy] \in AuthStates
  BY <1>1 DEF AuthStates
<1> QED
  BY <1>2, <1>3

\* The signed-out state is one of the states.
LEMMA SignedOutTyped ==
    ASSUME auth \in AuthStates
    PROVE  SignedOut \in AuthStates /\ [SignedOut EXCEPT !.pending = 0] \in AuthStates
<1>0. 0 \in 0 .. 2
  OBVIOUS
<1>1. SignedOut \in AuthStates
  BY <1>0 DEF AuthStates, SignedOut
<1>2. FALSE \in BOOLEAN
  OBVIOUS
<1> QED
  BY <1>1, <1>2, NoPending

\* get_state: the state is read from the store.
LEMMA GetStateKeeps ==
    ASSUME AuthInv, NEW p \in Callers, GetState(p)
    PROVE  AuthInv'
<1>0. CallsTyped /\ StateTyped /\ Placed(call[p])
  BY TaskAtHand
<1>1. Moves(p, "read", "idle", "none", 0)
  BY <1>0, IdleTyped, Beginning DEF GetState, Jobs
<1>2. UNCHANGED <<store, auth, cleared>> /\ oauth' \in Windows /\ started' = started
      /\ broken' = broken
  BY <1>0 DEF GetState, KeepStore, KeepOAuth, StateTyped, Windows, BeginCall
<1>3. Placed(call'[p])
  BY <1>0, <1>1 DEF GetState, AuthAt, Moves, MovesOn, Placed, InJob, Goes, CheckStages,
     LoginStages, CallbackStages, Saves, BeginCall
<1>4. cleared => Harmless(call'[p])
  BY <1>1, TaskAtHand DEF GetState, AuthAt, Moves, MovesOn, NothingHeld, Harmless, BeginCall
<1>5. call[p].at # "reset" /\ (Processing(call[p]) => Processing(call'[p]))
  BY <1>0, <1>1 DEF GetState, AuthAt, Moves, MovesOn, Placed, InJob, Goes, Processing, CheckStages,
     LoginStages, CallbackStages, Saves, BeginCall
<1> QED
  BY <1>1, <1>2, <1>3, <1>4, <1>5, QuietStep DEF Moves, MovesOn

\* The check decides whether to refresh without the user.
LEMMA SilentFlowPolicyKeeps ==
    ASSUME AuthInv, NEW p \in Callers, SilentFlowPolicy(p)
    PROVE  AuthInv'
<1>0. CallsTyped /\ StateTyped /\ Placed(call[p])
  BY TaskAtHand
<1>1. MovesOn(p, IF store.user THEN "silent" ELSE "signedOut")
  BY <1>0, GoingTo DEF SilentFlowPolicy, CallStages
<1>2. UNCHANGED <<store, auth, cleared>> /\ oauth' \in Windows /\ started' = started
      /\ broken' = broken
  BY <1>0 DEF SilentFlowPolicy, KeepStore, KeepOAuth, StateTyped, Windows
<1>3. Placed(call'[p])
  BY <1>0, <1>1 DEF SilentFlowPolicy, AuthAt, Moves, MovesOn, Placed, InJob, Goes, CheckStages,
     LoginStages, CallbackStages, Saves
<1>4. cleared => Harmless(call'[p])
  BY <1>1, TaskAtHand DEF SilentFlowPolicy, AuthAt, Moves, MovesOn, NothingHeld, Harmless
<1>5. call[p].at # "reset" /\ (Processing(call[p]) => Processing(call'[p]))
  BY <1>0, <1>1 DEF SilentFlowPolicy, AuthAt, Moves, MovesOn, Placed, InJob, Goes, Processing,
     CheckStages, LoginStages, CallbackStages, Saves
<1> QED
  BY <1>1, <1>2, <1>3, <1>4, <1>5, QuietStep DEF Moves, MovesOn

\* The check starts the refresh.
LEMMA StartSilentFlowKeeps ==
    ASSUME AuthInv, NEW p \in Callers, StartSilentFlow(p)
    PROVE  AuthInv'
<1>0. CallsTyped /\ StateTyped /\ Placed(call[p])
  BY TaskAtHand
<1>1. MovesOn(p, "wipe") \/ (MovesOn(p, "refresh") /\ store.user)
  BY <1>0, GoingTo DEF StartSilentFlow, CallStages
<1>2. UNCHANGED <<store, auth, cleared>> /\ oauth' \in Windows /\ started' = started
      /\ broken' = broken
  BY <1>0 DEF StartSilentFlow, KeepStore, KeepOAuth, StateTyped, Windows
<1>3. Placed(call'[p])
  BY <1>0, <1>1 DEF StartSilentFlow, AuthAt, Moves, MovesOn, Placed, InJob, Goes, CheckStages,
     LoginStages, CallbackStages, Saves
<1>4. cleared => Harmless(call'[p])
  BY <1>1, TaskAtHand DEF StartSilentFlow, AuthAt, Moves, MovesOn, NothingHeld, Harmless
<1>5. call[p].at # "reset" /\ (Processing(call[p]) => Processing(call'[p]))
  BY <1>0, <1>1 DEF StartSilentFlow, AuthAt, Moves, MovesOn, Placed, InJob, Goes, Processing,
     CheckStages, LoginStages, CallbackStages, Saves
<1> QED
  BY <1>1, <1>2, <1>3, <1>4, <1>5, QuietStep DEF Moves, MovesOn

\* The refresh fails.
LEMMA RefreshFailsKeeps ==
    ASSUME AuthInv, NEW p \in Callers, RefreshFails(p)
    PROVE  AuthInv'
<1>0. CallsTyped /\ StateTyped /\ Placed(call[p])
  BY TaskAtHand
<1>1. MovesOn(p, "fallback") \/ MovesOn(p, "wipe")
  BY <1>0, GoingTo DEF RefreshFails, CallStages
<1>2. UNCHANGED <<store, auth, cleared>> /\ oauth' \in Windows /\ started' = started
      /\ broken' = broken
  BY <1>0 DEF RefreshFails, KeepStore, KeepOAuth, StateTyped, Windows
<1>3. Placed(call'[p])
  BY <1>0, <1>1 DEF RefreshFails, AuthAt, Moves, MovesOn, Placed, InJob, Goes, CheckStages,
     LoginStages, CallbackStages, Saves
<1>4. cleared => Harmless(call'[p])
  BY <1>1, TaskAtHand DEF RefreshFails, AuthAt, Moves, MovesOn, NothingHeld, Harmless
<1>5. call[p].at # "reset" /\ (Processing(call[p]) => Processing(call'[p]))
  BY <1>0, <1>1 DEF RefreshFails, AuthAt, Moves, MovesOn, Placed, InJob, Goes, Processing,
     CheckStages, LoginStages, CallbackStages, Saves
<1> QED
  BY <1>1, <1>2, <1>3, <1>4, <1>5, QuietStep DEF Moves, MovesOn

\* A login asks for its page and makes its key.
LEMMA LoginStartsKeeps ==
    ASSUME AuthInv, NEW p \in Callers, LoginStarts(p)
    PROVE  AuthInv'
<1>0. CallsTyped /\ StateTyped /\ Placed(call[p])
  BY TaskAtHand
<1>1. MovesOn(p, "key") \/ MovesOn(p, "failed")
  BY <1>0, GoingTo DEF LoginStarts, CallStages
<1>2. UNCHANGED <<store, auth, cleared>> /\ oauth' \in Windows /\ started' = started
      /\ broken' = broken
  BY <1>0 DEF LoginStarts, KeepStore, KeepOAuth, StateTyped, Windows
<1>3. Placed(call'[p])
  BY <1>0, <1>1 DEF LoginStarts, AuthAt, Moves, MovesOn, Placed, InJob, Goes, CheckStages,
     LoginStages, CallbackStages, Saves
<1>4. cleared => Harmless(call'[p])
  BY <1>1, TaskAtHand DEF LoginStarts, AuthAt, Moves, MovesOn, NothingHeld, Harmless
<1>5. call[p].at # "reset" /\ (Processing(call[p]) => Processing(call'[p]))
  BY <1>0, <1>1 DEF LoginStarts, AuthAt, Moves, MovesOn, Placed, InJob, Goes, Processing,
     CheckStages,
     LoginStages, CallbackStages, Saves
<1> QED
  BY <1>1, <1>2, <1>3, <1>4, <1>5, QuietStep DEF Moves, MovesOn

\* The exchange of the code fails.
LEMMA ExchangeFailsKeeps ==
    ASSUME AuthInv, NEW p \in Callers, ExchangeFails(p)
    PROVE  AuthInv'
<1>0. CallsTyped /\ StateTyped /\ Placed(call[p])
  BY TaskAtHand
<1>1. MovesOn(p, "giveUp")
  BY <1>0, GoingTo DEF ExchangeFails, CallStages
<1>2. UNCHANGED <<store, auth, cleared>> /\ oauth' \in Windows /\ started' = started
      /\ broken' = broken
  BY <1>0 DEF ExchangeFails, KeepStore, KeepOAuth, StateTyped, Windows
<1>3. Placed(call'[p])
  BY <1>0, <1>1 DEF ExchangeFails, AuthAt, Moves, MovesOn, Placed, InJob, Goes, CheckStages,
     LoginStages, CallbackStages, Saves
<1>4. cleared => Harmless(call'[p])
  BY <1>1, TaskAtHand DEF ExchangeFails, AuthAt, Moves, MovesOn, NothingHeld, Harmless
<1>5. call[p].at # "reset" /\ (Processing(call[p]) => Processing(call'[p]))
  BY <1>0, <1>1 DEF ExchangeFails, AuthAt, Moves, MovesOn, Placed, InJob, Goes, Processing,
     CheckStages, LoginStages, CallbackStages, Saves
<1> QED
  BY <1>1, <1>2, <1>3, <1>4, <1>5, QuietStep DEF Moves, MovesOn

\* A callback reads the key of its login.
LEMMA LoadSeedKeeps ==
    ASSUME AuthInv, NEW p \in Callers, LoadSeed(p)
    PROVE  AuthInv'
<1>0. CallsTyped /\ StateTyped /\ Placed(call[p])
  BY TaskAtHand
<1>1. MovesOn(p, IF store.key THEN "exchange" ELSE "unmark")
  BY <1>0, GoingTo DEF LoadSeed, CallStages
<1>2. UNCHANGED <<store, auth, cleared>> /\ oauth' \in Windows /\ started' = started
      /\ broken' = broken
  BY <1>0 DEF LoadSeed, KeepStore, KeepOAuth, StateTyped, Windows
<1>3. Placed(call'[p])
  BY <1>0, <1>1 DEF LoadSeed, AuthAt, Moves, MovesOn, Placed, InJob, Goes, CheckStages,
     LoginStages, CallbackStages, Saves
<1>4. cleared => Harmless(call'[p])
  BY <1>1, TaskAtHand DEF LoadSeed, AuthAt, Moves, MovesOn, NothingHeld, Harmless
<1>5. call[p].at # "reset" /\ (Processing(call[p]) => Processing(call'[p]))
  BY <1>0, <1>1 DEF LoadSeed, AuthAt, Moves, MovesOn, Placed, InJob, Goes, Processing, CheckStages,
     LoginStages, CallbackStages, Saves
<1> QED
  BY <1>1, <1>2, <1>3, <1>4, <1>5, QuietStep DEF Moves, MovesOn

\* The check looks at the tokens it read.
LEMMA CheckSnapshotKeeps ==
    ASSUME AuthInv, NEW p \in Callers, CheckSnapshot(p)
    PROVE  AuthInv'
<1>0. CallsTyped /\ StateTyped /\ Placed(call[p])
  BY TaskAtHand
<1>1. (MovesOn(p, "accept") /\ ValidLevel > 0) \/ MovesOn(p, "policy")
  <2>1. ValidLevel \in 0 .. 2
    BY <1>0 DEF ValidLevel, StateTyped, StoreFields
  <2> QED BY <1>0, <2>1, WithLevel DEF CheckSnapshot, CallStages
<1>2. UNCHANGED <<store, auth, cleared>> /\ oauth' \in Windows /\ started' = started
      /\ broken' = broken
  BY <1>0 DEF CheckSnapshot, KeepStore, KeepOAuth, StateTyped, Windows
<1>3. Placed(call'[p])
  BY <1>0, <1>1 DEF CheckSnapshot, AuthAt, Moves, MovesOn, Placed, InJob, Goes, CheckStages,
     LoginStages, CallbackStages, Saves
<1>4. cleared => Harmless(call'[p])
  BY <1>1, TaskAtHand DEF CheckSnapshot, AuthAt, Moves, MovesOn, NothingHeld, Harmless
<1>5. call[p].at # "reset" /\ (Processing(call[p]) => Processing(call'[p]))
  BY <1>0, <1>1 DEF CheckSnapshot, AuthAt, Moves, MovesOn, Placed, InJob, Goes, Processing,
     CheckStages, LoginStages, CallbackStages, Saves
<1>6. Frame(p)
  BY <1>1 DEF Moves, MovesOn
<1> QED
  BY <1>2, <1>3, <1>4, <1>5, <1>6, QuietStep

\* The refresh is granted tokens.
LEMMA RefreshedKeeps ==
    ASSUME AuthInv, NEW p \in Callers, NEW answers \in Grants, Refreshed(p, answers)
    PROVE  AuthInv'
<1>0. CallsTyped /\ StateTyped /\ Placed(call[p])
  BY TaskAtHand
<1>1. Moves(p, "user", call[p].then, call[p].job, 0)
  BY <1>0, BundleTyped, WithBundle DEF Refreshed
<1>2. UNCHANGED <<store, auth, cleared>> /\ oauth' \in Windows /\ started' = started
      /\ broken' = broken
  BY <1>0 DEF Refreshed, KeepStore, KeepOAuth, StateTyped, Windows
<1>3. Placed(call'[p])
  BY <1>0, <1>1 DEF Refreshed, AuthAt, Moves, MovesOn, Placed, InJob, Goes, CheckStages,
     LoginStages, CallbackStages, Saves
<1>4. cleared => Harmless(call'[p])
  BY <1>1, TaskAtHand DEF Refreshed, AuthAt, Moves, MovesOn, NothingHeld, Harmless
<1>5. call[p].at # "reset" /\ (Processing(call[p]) => Processing(call'[p]))
  BY <1>0, <1>1 DEF Refreshed, AuthAt, Moves, MovesOn, Placed, InJob, Goes, Processing, CheckStages,
     LoginStages, CallbackStages, Saves
<1> QED
  BY <1>1, <1>2, <1>3, <1>4, <1>5, QuietStep DEF Moves, MovesOn

\* The exchange of the code is granted tokens.
LEMMA ExchangedKeeps ==
    ASSUME AuthInv, NEW p \in Callers, NEW answers \in Grants, Exchanged(p, answers)
    PROVE  AuthInv'
<1>0. CallsTyped /\ StateTyped /\ Placed(call[p])
  BY TaskAtHand
<1>1. Moves(p, "user", call[p].then, call[p].job, 0)
  BY <1>0, BundleTyped, WithBundle DEF Exchanged
<1>2. UNCHANGED <<store, auth, cleared>> /\ oauth' \in Windows /\ started' = started
      /\ broken' = broken
  BY <1>0 DEF Exchanged, KeepStore, KeepOAuth, StateTyped, Windows
<1>3. Placed(call'[p])
  BY <1>0, <1>1 DEF Exchanged, AuthAt, Moves, MovesOn, Placed, InJob, Goes, CheckStages,
     LoginStages, CallbackStages, Saves
<1>4. cleared => Harmless(call'[p])
  BY <1>1, TaskAtHand DEF Exchanged, AuthAt, Moves, MovesOn, NothingHeld, Harmless
<1>5. call[p].at # "reset" /\ (Processing(call[p]) => Processing(call'[p]))
  BY <1>0, <1>1 DEF Exchanged, AuthAt, Moves, MovesOn, Placed, InJob, Goes, Processing, CheckStages,
     LoginStages, CallbackStages, Saves
<1> QED
  BY <1>1, <1>2, <1>3, <1>4, <1>5, QuietStep DEF Moves, MovesOn

\* The login opens its window.
LEMMA OpenWindowKeeps ==
    ASSUME AuthInv, NEW p \in Callers, OpenWindow(p)
    PROVE  AuthInv'
<1>0. CallsTyped /\ StateTyped /\ Placed(call[p])
  BY TaskAtHand
<1>1. Moves(p, "idle", "idle", "none", 0)
  BY <1>0, Leaving DEF OpenWindow
<1>2. UNCHANGED <<store, auth, cleared>> /\ oauth' \in Windows /\ started' = started
      /\ broken' = broken
  BY <1>0 DEF OpenWindow, KeepStore, KeepOAuth, StateTyped, Windows
<1>3. Placed(call'[p])
  BY <1>0, <1>1 DEF OpenWindow, AuthAt, Moves, MovesOn, Placed, InJob, Goes, CheckStages,
     LoginStages, CallbackStages, Saves
<1>4. cleared => Harmless(call'[p])
  BY <1>1, TaskAtHand DEF OpenWindow, AuthAt, Moves, MovesOn, NothingHeld, Harmless
<1>5. call[p].at # "reset" /\ (Processing(call[p]) => Processing(call'[p]))
  BY <1>0, <1>1 DEF OpenWindow, AuthAt, Moves, MovesOn, Placed, InJob, Goes, Processing, CheckStages,
     LoginStages, CallbackStages, Saves
<1> QED
  BY <1>1, <1>2, <1>3, <1>4, <1>5, QuietStep DEF Moves, MovesOn

\* The callback shuts the window.
LEMMA ShutWindowKeeps ==
    ASSUME AuthInv, NEW p \in Callers, ShutWindow(p)
    PROVE  AuthInv'
<1>0. CallsTyped /\ StateTyped /\ Placed(call[p])
  BY TaskAtHand
<1>1. Moves(p, "idle", "idle", "none", 0)
  BY <1>0, Leaving DEF ShutWindow
<1>2. UNCHANGED <<store, auth, cleared>> /\ oauth' \in Windows /\ started' = started
      /\ broken' = broken
  BY <1>0 DEF ShutWindow, KeepStore, KeepOAuth, StateTyped, Windows, OAuthClosed
<1>3. Placed(call'[p])
  BY <1>0, <1>1 DEF ShutWindow, AuthAt, Moves, MovesOn, Placed, InJob, Goes, CheckStages,
     LoginStages, CallbackStages, Saves, OAuthClosed
<1>4. cleared => Harmless(call'[p])
  BY <1>1, TaskAtHand DEF ShutWindow, AuthAt, Moves, MovesOn, NothingHeld, Harmless, OAuthClosed
<1>5. call[p].at # "reset" /\ (Processing(call[p]) => Processing(call'[p]))
  BY <1>0, <1>1 DEF ShutWindow, AuthAt, Moves, MovesOn, Placed, InJob, Goes, Processing, CheckStages,
     LoginStages, CallbackStages, Saves, OAuthClosed
<1> QED
  BY <1>1, <1>2, <1>3, <1>4, <1>5, QuietStep DEF Moves, MovesOn

\* A logout begins.
LEMMA BeginLogoutKeeps ==
    ASSUME AuthInv, NEW p \in Callers, NEW scope \in {"all", "ephemeral"}, BeginLogout(p, scope)
    PROVE  AuthInv'
<1>0. CallsTyped /\ StateTyped /\ Placed(call[p])
  BY TaskAtHand
<1>1. Moves(p, "clear", "idle", scope, 0)
  BY <1>0, Beginning DEF BeginLogout, Jobs, CallStages
<1>2. UNCHANGED <<store, auth, cleared>> /\ oauth' \in Windows /\ started' = started
      /\ broken' = broken
  BY <1>0 DEF BeginLogout, KeepStore, KeepOAuth, StateTyped, Windows, OAuthClosed, BeginCall
<1>3. Placed(call'[p])
  BY <1>0, <1>1 DEF BeginLogout, AuthAt, Moves, MovesOn, Placed, InJob, Goes, CheckStages,
     LoginStages, CallbackStages, Saves, OAuthClosed, BeginCall
<1>4. cleared => Harmless(call'[p])
  BY <1>1, TaskAtHand DEF BeginLogout, AuthAt, Moves, MovesOn, NothingHeld, Harmless, OAuthClosed,
     BeginCall
<1>5. call[p].at # "reset" /\ (Processing(call[p]) => Processing(call'[p]))
  BY <1>0, <1>1 DEF BeginLogout, AuthAt, Moves, MovesOn, Placed, InJob, Goes, Processing,
     CheckStages,
     LoginStages, CallbackStages, Saves, OAuthClosed, BeginCall
<1> QED
  BY <1>1, <1>2, <1>3, <1>4, <1>5, QuietStep DEF Moves, MovesOn

\* A task reads the tokens for the state.
LEMMA ReadSnapshotKeeps ==
    ASSUME AuthInv, NEW p \in Callers, ReadSnapshot(p)
    PROVE  AuthInv'
<1>0. CallsTyped /\ StateTyped /\ Placed(call[p])
  BY TaskAtHand
<1>1. \/ ValidLevel # 0 /\ MovesOn(p, "sync")
      \/ IF call[p].then = "idle" THEN Moves(p, "idle", "idle", "none", 0)
         ELSE Moves(p, call[p].then, "idle", call[p].job, call[p].login)
  <2>1. ValidLevel \in 0 .. 2
    BY <1>0 DEF ValidLevel, StateTyped, StoreFields
  <2> QED BY <1>0, <2>1, SyncedOn, WithLevel DEF ReadSnapshot, CallStages
<1>2. UNCHANGED <<store, auth, cleared>> /\ oauth' \in Windows /\ started' = started
      /\ broken' = broken
  BY <1>0 DEF ReadSnapshot, KeepStore, KeepOAuth, StateTyped, Windows
<1>3. Placed(call'[p])
  BY <1>0, <1>1 DEF ReadSnapshot, AuthAt, Moves, MovesOn, Placed, InJob, Goes, CheckStages,
     LoginStages, CallbackStages, Saves
<1>4. cleared => Harmless(call'[p])
  BY <1>0, <1>1, TaskAtHand DEF ReadSnapshot, AuthAt, Moves, MovesOn, NothingHeld, Harmless,
     Placed, Goes
<1>5. call[p].at # "reset" /\ (Processing(call[p]) => Processing(call'[p]))
  BY <1>0, <1>1 DEF ReadSnapshot, AuthAt, Moves, MovesOn, Placed, InJob, Goes, Processing,
     CheckStages, LoginStages, CallbackStages, Saves
<1>6. Frame(p)
  BY <1>1 DEF Moves, MovesOn
<1> QED
  BY <1>2, <1>3, <1>4, <1>5, <1>6, QuietStep

\* A failed refresh reads the tokens once more.
LEMMA ReadFallbackKeeps ==
    ASSUME AuthInv, NEW p \in Callers, ReadFallback(p)
    PROVE  AuthInv'
<1>0. CallsTyped /\ StateTyped /\ Placed(call[p])
  BY TaskAtHand
<1>1. MovesOn(p, "keep")
  BY <1>0, WithFallback DEF ReadFallback, CallStages, StateTyped, StoreFields
<1>2. UNCHANGED <<store, auth, cleared>> /\ oauth' \in Windows /\ started' = started
      /\ broken' = broken
  BY <1>0 DEF ReadFallback, KeepStore, KeepOAuth, StateTyped, Windows
<1>3. Placed(call'[p])
  BY <1>0, <1>1 DEF ReadFallback, AuthAt, Moves, MovesOn, Placed, InJob, Goes, CheckStages,
     LoginStages, CallbackStages, Saves
<1>4. cleared => Harmless(call'[p])
  BY <1>1, TaskAtHand DEF ReadFallback, AuthAt, Moves, MovesOn, NothingHeld, Harmless
<1>5. call[p].at # "reset" /\ (Processing(call[p]) => Processing(call'[p]))
  BY <1>0, <1>1 DEF ReadFallback, AuthAt, Moves, MovesOn, Placed, InJob, Goes, Processing,
     CheckStages, LoginStages, CallbackStages, Saves
<1> QED
  BY <1>1, <1>2, <1>3, <1>4, <1>5, QuietStep DEF Moves, MovesOn

\* A task reads what it is to write beside.
LEMMA GetPayloadKeeps ==
    ASSUME AuthInv, NEW p \in Callers, GetPayload(p)
    PROVE  AuthInv'
<1>0. CallsTyped /\ StateTyped /\ Placed(call[p])
  BY TaskAtHand
<1>1. \E at \in {"setUser", "setSisu", "setKey"} : /\ MovesOn(p, at)
      /\ call'[p].payload.user = store.user
         /\ at = (CASE AuthAt(p, "user") -> "setUser" [] AuthAt(p,
              "sisu") -> "setSisu" [] OTHER -> "setKey")
  <2> DEFINE payload == [user |-> store.user, sisu |-> store.sisu, key |-> store.key]
             at == CASE AuthAt(p, "user") -> "setUser" [] AuthAt(p,
                   "sisu") -> "setSisu" [] OTHER -> "setKey"
  <2>1. payload \in Payloads /\ payload.user = store.user
    BY <1>0 DEF StateTyped, StoreFields, Payloads
  <2>2. at \in {"setUser", "setSisu", "setKey"} /\ at \in CallStages
    BY DEF CallStages
  <2>3. call' = [call EXCEPT ![p].at = at, ![p].payload = payload]
    BY DEF GetPayload
  <2>4. at = CASE AuthAt(p, "user") -> "setUser" [] AuthAt(p,
          "sisu") -> "setSisu" [] OTHER -> "setKey"
    OBVIOUS
  <2> HIDE DEF at, payload
  <2>5. MovesOn(p, at) /\ call'[p].payload = payload
    BY <1>0, <2>1, <2>2, <2>3, WithPayload
  <2> QED BY <2>1, <2>2, <2>4, <2>5
<1>2. UNCHANGED <<store, auth, cleared>> /\ oauth' \in Windows /\ started' = started
      /\ broken' = broken
  BY <1>0 DEF GetPayload, KeepStore, KeepOAuth, StateTyped, Windows
<1>3. Placed(call'[p])
  BY <1>0, <1>1 DEF GetPayload, AuthAt, Moves, MovesOn, Placed, InJob, Goes, CheckStages,
     LoginStages, CallbackStages, Saves
<1>4. cleared => Harmless(call'[p])
  BY <1>1, TaskAtHand DEF GetPayload, AuthAt, Moves, MovesOn, NothingHeld, Harmless
<1>5. call[p].at # "reset" /\ (Processing(call[p]) => Processing(call'[p]))
  BY <1>0, <1>1 DEF GetPayload, AuthAt, Moves, MovesOn, Placed, InJob, Goes, Processing, CheckStages,
     LoginStages, CallbackStages, Saves
<1> QED
  BY <1>1, <1>2, <1>3, <1>4, <1>5, QuietStep DEF Moves, MovesOn

\* A task writes what it read into the state.
LEMMA SyncStateKeeps ==
    ASSUME AuthInv, NEW p \in Callers, SyncState(p)
    PROVE  AuthInv'
<1>0. CallsTyped /\ StateTyped /\ Placed(call[p])
  BY TaskAtHand
<1>1. IF call[p].then = "idle" THEN Moves(p, "idle", "idle", "none", 0)
      ELSE Moves(p, call[p].then, "idle", call[p].job, call[p].login)
  BY <1>0, SyncedOn DEF SyncState
<1>2. StateTyped'
  BY <1>0, CallFields DEF LateWrite, SyncState, KeepStore, KeepOAuth, StateTyped, AuthStates
<1>3. Placed(call'[p])
  BY <1>0, <1>1 DEF SyncState, AuthAt, Moves, MovesOn, Placed, InJob, Goes, CheckStages,
     LoginStages, CallbackStages, Saves
<1>4. StaysCleared(p)
  BY <1>0, <1>1, TaskAtHand DEF SyncState, KeepStore, AuthAt, Moves, MovesOn, NothingHeld,
     Harmless, LateWrite,
     StaysCleared, StateTyped, AuthStates
<1>5. StaysMarked(p)
  BY <1>0, <1>1 DEF SyncState, KeepStore, AuthAt, Moves, MovesOn, Placed, InJob, Goes, CheckStages,
     LoginStages, CallbackStages, Saves, Processing, StaysMarked, StateTyped, AuthStates, StoreFields
<1> QED
  BY <1>1, <1>2, <1>3, <1>4, <1>5, TaskStep DEF Moves, MovesOn

\* A check begins, and the state is busy.
LEMMA BeginCheckKeeps ==
    ASSUME AuthInv, NEW p \in Callers, BeginCheck(p)
    PROVE  AuthInv'
<1>0. CallsTyped /\ StateTyped /\ Placed(call[p])
  BY TaskAtHand
<1>1. Moves(p, "read", "snapshot", "check", 0)
  <2>1. [signedIn |-> auth.signedIn, level |-> auth.level] \in Snapshots
    BY <1>0 DEF StateTyped, AuthStates, Snapshots
  <2> QED BY <1>0, <2>1, WithCheck DEF BeginCheck
<1>2. StateTyped'
  BY <1>0, CallFields DEF BeginCheck, KeepStore, KeepOAuth, StateTyped, AuthStates
<1>3. Placed(call'[p])
  BY <1>0, <1>1 DEF BeginCheck, AuthAt, Moves, MovesOn, Placed, InJob, Goes, CheckStages,
     LoginStages, CallbackStages, Saves
<1>4. StaysCleared(p)
  BY <1>0, <1>1, TaskAtHand DEF BeginCheck, KeepStore, AuthAt, Moves, MovesOn, NothingHeld,
     Harmless, LateWrite,
     StaysCleared, StateTyped, AuthStates
<1>5. StaysMarked(p)
  BY <1>0, <1>1 DEF BeginCheck, KeepStore, AuthAt, Moves, MovesOn, Placed, InJob, Goes,
     CheckStages, LoginStages, CallbackStages, Saves, Processing, StaysMarked, StateTyped,
     AuthStates,
     StoreFields
<1> QED
  BY <1>1, <1>2, <1>3, <1>4, <1>5, TaskStep DEF Moves, MovesOn

\* The check finds the tokens good.
LEMMA AcceptSnapshotKeeps ==
    ASSUME AuthInv, NEW p \in Callers, AcceptSnapshot(p)
    PROVE  AuthInv'
<1>0. CallsTyped /\ StateTyped /\ Placed(call[p])
  BY TaskAtHand
<1>1. Moves(p, "read", "idle", "none", 0)
  BY <1>0, Syncing DEF AcceptSnapshot, CallStages
<1>2. StateTyped'
  BY <1>0, CallFields DEF LateWrite, AcceptSnapshot, KeepStore, KeepOAuth, StateTyped, AuthStates
<1>3. Placed(call'[p])
  BY <1>0, <1>1 DEF AcceptSnapshot, AuthAt, Moves, MovesOn, Placed, InJob, Goes, CheckStages,
     LoginStages, CallbackStages, Saves
<1>4. StaysCleared(p)
  BY <1>0, <1>1, TaskAtHand DEF AcceptSnapshot, KeepStore, AuthAt, Moves, MovesOn, NothingHeld,
     Harmless, LateWrite,
     StaysCleared, StateTyped, AuthStates
<1>5. StaysMarked(p)
  BY <1>0, <1>1 DEF AcceptSnapshot, KeepStore, AuthAt, Moves, MovesOn, Placed, InJob, Goes,
     CheckStages, LoginStages, CallbackStages, Saves, Processing, StaysMarked, StateTyped,
     AuthStates,
     StoreFields
<1> QED
  BY <1>1, <1>2, <1>3, <1>4, <1>5, TaskStep DEF Moves, MovesOn

\* The check keeps the session it found.
LEMMA KeepSessionKeeps ==
    ASSUME AuthInv, NEW p \in Callers, KeepSession(p)
    PROVE  AuthInv'
<1>0. CallsTyped /\ StateTyped /\ Placed(call[p])
  BY TaskAtHand
<1>1. Moves(p, "read", "idle", "none", 0)
  BY <1>0, Syncing DEF KeepSession, CallStages
<1>2. StateTyped'
  <2>1. auth' \in AuthStates
    <3> DEFINE c == call[p]
               signedIn == c.was.signedIn \/ c.web \/ c.level > 0
               level == IF c.level > 0 THEN c.level ELSE IF c.was.level > 0 THEN c.was.level ELSE IF c.web THEN 1 ELSE 0
    <3>1. signedIn \in BOOLEAN /\ level \in 0 .. 2
      BY <1>0, CallFields
    <3>2. auth' = [auth EXCEPT !.busy = FALSE, !.signedIn = signedIn, !.level = level]
      BY DEF LateWrite, KeepSession
    <3> HIDE DEF signedIn, level
    <3> QED BY <1>0, <3>1, <3>2, AuthUpdated DEF StateTyped
  <2>2. oauth' \in Windows /\ started' \in 0 .. MaxLogins
    BY <1>0, LoginAssumption DEF LateWrite, KeepSession, StateTyped, KeepOAuth
  <2>4. store' = store /\ broken' = broken /\ cleared' \in BOOLEAN
    BY DEF LateWrite, KeepSession
  <2> QED BY <1>0, <2>1, <2>2, <2>4 DEF StateTyped
<1>3. Placed(call'[p])
  BY <1>0, <1>1 DEF KeepSession, AuthAt, Moves, MovesOn, Placed, InJob, Goes, CheckStages,
     LoginStages, CallbackStages, Saves
<1>4. StaysCleared(p)
  BY <1>0, <1>1, TaskAtHand DEF KeepSession, KeepStore, AuthAt, Moves, MovesOn, NothingHeld,
     Harmless, LateWrite,
     StaysCleared, StateTyped, AuthStates
<1>5. StaysMarked(p)
  BY <1>0, <1>1 DEF KeepSession, KeepStore, AuthAt, Moves, MovesOn, Placed, InJob, Goes,
     CheckStages, LoginStages, CallbackStages, Saves, Processing, StaysMarked, StateTyped,
     AuthStates,
     StoreFields
<1> QED
  BY <1>1, <1>2, <1>3, <1>4, <1>5, TaskStep DEF Moves, MovesOn

\* The check ends signed out.
LEMMA FinishSignedOutKeeps ==
    ASSUME AuthInv, NEW p \in Callers, FinishSignedOut(p)
    PROVE  AuthInv'
<1>0. CallsTyped /\ StateTyped /\ Placed(call[p])
  BY TaskAtHand
<1>1. Moves(p, "read", "idle", "none", 0)
  BY <1>0, Syncing DEF FinishSignedOut, CallStages
<1>2. StateTyped'
  <2>1. auth' \in AuthStates
    BY <1>0, SignedOutTyped DEF FinishSignedOut, StateTyped
  <2>2. oauth' \in Windows /\ started' \in 0 .. MaxLogins
    BY <1>0, LoginAssumption DEF FinishSignedOut, StateTyped, KeepOAuth
  <2> QED BY <1>0, <2>1, <2>2 DEF FinishSignedOut, StateTyped, KeepStore
<1>3. Placed(call'[p])
  BY <1>0, <1>1 DEF FinishSignedOut, AuthAt, Moves, MovesOn, Placed, InJob, Goes, CheckStages,
     LoginStages, CallbackStages, Saves, SignedOut
<1>4. StaysCleared(p)
  BY <1>0, <1>1, TaskAtHand DEF FinishSignedOut, KeepStore, AuthAt, Moves, MovesOn, NothingHeld,
     Harmless, LateWrite,
     StaysCleared, StateTyped, AuthStates, SignedOut
<1>5. StaysMarked(p)
  BY <1>0, <1>1 DEF FinishSignedOut, KeepStore, AuthAt, Moves, MovesOn, Placed, InJob, Goes,
     CheckStages, LoginStages, CallbackStages, Saves, Processing, StaysMarked, StateTyped,
     AuthStates,
     StoreFields, SignedOut
<1> QED
  BY <1>1, <1>2, <1>3, <1>4, <1>5, TaskStep DEF Moves, MovesOn

\* The check wipes tokens that are of no use.
LEMMA WipeTokensKeeps ==
    ASSUME AuthInv, NEW p \in Callers, WipeTokens(p)
    PROVE  AuthInv'
<1>0. CallsTyped /\ StateTyped /\ Placed(call[p])
  BY TaskAtHand
<1>1. MovesOn(p, "signedOut")
  BY <1>0, GoingTo DEF WipeTokens, CallStages
<1>2. StateTyped'
  BY <1>0, CallFields, StoreAfterTyped DEF WipeTokens, KeepStore, KeepOAuth, StateTyped
<1>3. Placed(call'[p])
  BY <1>0, <1>1 DEF WipeTokens, AuthAt, Moves, MovesOn, Placed, InJob, Goes, CheckStages,
     LoginStages, CallbackStages, Saves
<1>4. StaysCleared(p)
  BY <1>0, <1>1, TaskAtHand, StoreAfterTyped DEF WipeTokens, KeepStore, AuthAt, Moves, MovesOn,
     NothingHeld, Harmless, LateWrite, StaysCleared, StateTyped, AuthStates
<1>5. StaysMarked(p)
  BY <1>0, <1>1, StoreAfterTyped DEF WipeTokens, KeepStore, AuthAt, Moves, MovesOn, Placed, InJob,
     Goes, CheckStages, LoginStages, CallbackStages, Saves, Processing, StaysMarked, StateTyped,
     AuthStates, StoreFields
<1> QED
  BY <1>1, <1>2, <1>3, <1>4, <1>5, TaskStep DEF Moves, MovesOn

\* A token of a sign-in is saved.
LEMMA SaveTokenKeeps ==
    ASSUME AuthInv, NEW p \in Callers, SaveToken(p)
    PROVE  AuthInv'
<1>0. CallsTyped /\ StateTyped /\ Placed(call[p])
  BY TaskAtHand
<1>1. MovesOn(p, AfterToken[call[p].at])
  <2>1. AfterToken[call[p].at] \in CallStages
    BY DEF SaveToken, AfterToken, CallStages
  <2>2. call' = [call EXCEPT ![p].at = AfterToken[call[p].at], ![p].payload = NoPayload]
    BY DEF SaveToken, WroteToken
  <2> QED BY <1>0, <2>1, <2>2, WithPayload, IdleTyped
<1>2. StateTyped'
  BY <1>0, CallFields, StoreAfterTyped DEF LateWrite, SaveToken, KeepStore, KeepOAuth, StateTyped,
     AfterToken
<1>3. Placed(call'[p])
  BY <1>0, <1>1 DEF SaveToken, AuthAt, Moves, MovesOn, Placed, InJob, Goes, CheckStages,
     LoginStages, CallbackStages, Saves, AfterToken
<1>4. StaysCleared(p)
  <2> SUFFICES ASSUME cleared' PROVE StaysCleared(p)
    BY DEF StaysCleared
  <2>1. cleared /\ NothingHeld(call[p])
    BY TaskAtHand DEF SaveToken, LateWrite, Harmless
  <2>2. call[p].at = "setKey"
    BY <2>1 DEF SaveToken, AfterToken, NothingHeld
  <2>3. NothingHeld(call'[p])
    BY <1>1, <2>2 DEF Moves, MovesOn, NothingHeld, AfterToken
  <2>4. ~store'.user /\ store'.web = "none" /\ store'.stream = 0 /\ auth' = auth
    BY <1>0, <2>1, TaskAtHand, StoreAfterTyped DEF SaveToken
  <2> QED BY <2>1, <2>2, <2>3, <2>4 DEF StaysCleared, Harmless
<1>5. StaysMarked(p)
  BY <1>0, <1>1, StoreAfterTyped DEF SaveToken, KeepStore, AuthAt, Moves, MovesOn, Placed, InJob,
     Goes, CheckStages, LoginStages, CallbackStages, Saves, Processing, StaysMarked, StateTyped,
     AuthStates, StoreFields, AfterToken
<1> QED
  BY <1>1, <1>2, <1>3, <1>4, <1>5, TaskStep DEF Moves, MovesOn

\* The last step of a sign-in: the state is signed in.
LEMMA MarkAuthenticatedKeeps ==
    ASSUME AuthInv, NEW p \in Callers, MarkAuthenticated(p)
    PROVE  AuthInv'
<1>0. CallsTyped /\ StateTyped /\ Placed(call[p])
  BY TaskAtHand
<1>1. IF call[p].job = "callback" THEN Moves(p, "read", "unmark", "callback", 0)
      ELSE Moves(p, "read", "idle", "none", 0)
  BY <1>0, Syncing DEF MarkAuthenticated, CallStages
<1>2. StateTyped'
  <2>1. auth' \in AuthStates
    BY <1>0, CallFields, AuthUpdated DEF MarkAuthenticated, StateTyped
  <2>2. OAuthClosed \in Windows /\ oauth \in Windows
    BY <1>0 DEF StateTyped, Windows, OAuthClosed
  <2>3. oauth' \in Windows /\ started' \in 0 .. MaxLogins
    BY <1>0, <2>2 DEF LateWrite, MarkAuthenticated, StateTyped
  <2>4. store' = store /\ broken' = broken /\ cleared' \in BOOLEAN
    BY DEF LateWrite, MarkAuthenticated
  <2> QED BY <1>0, <2>1, <2>3, <2>4 DEF StateTyped
<1>3. Placed(call'[p])
  BY <1>0, <1>1 DEF MarkAuthenticated, AuthAt, Moves, MovesOn, Placed, InJob, Goes, CheckStages,
     LoginStages, CallbackStages, Saves, OAuthClosed
<1>4. StaysCleared(p)
  BY <1>0, <1>1, TaskAtHand DEF MarkAuthenticated, KeepStore, AuthAt, Moves, MovesOn, NothingHeld,
     Harmless, LateWrite,
     StaysCleared, StateTyped, AuthStates, OAuthClosed
<1>5. StaysMarked(p)
  BY <1>0, <1>1 DEF MarkAuthenticated, KeepStore, AuthAt, Moves, MovesOn, Placed, InJob, Goes,
     CheckStages, LoginStages, CallbackStages, Saves, Processing, StaysMarked, StateTyped,
     AuthStates,
     StoreFields, OAuthClosed
<1> QED
  BY <1>1, <1>2, <1>3, <1>4, <1>5, TaskStep DEF Moves, MovesOn

\* A login begins, and replaces the pending one.
LEMMA BeginLoginKeeps ==
    ASSUME AuthInv, NEW p \in Callers, BeginLogin(p)
    PROVE  AuthInv'
<1>0. CallsTyped /\ StateTyped /\ Placed(call[p])
  BY TaskAtHand
<1>1. Moves(p, "login", "idle", "login", started + 1) /\ started + 1 # 0
  <2>1. started + 1 \in 0 .. MaxLogins /\ started + 1 # 0
    BY <1>0, LoginAssumption DEF BeginLogin, StateTyped
  <2> QED BY <1>0, <2>1, WithLogin DEF BeginLogin
<1>2. StateTyped'
  <2>1. auth' \in AuthStates
    BY <1>0 DEF BeginLogin, StateTyped, AuthStates
  <2>2. oauth' \in Windows /\ started' \in 0 .. MaxLogins
    BY <1>0, LoginAssumption DEF BeginLogin, StateTyped, KeepOAuth
  <2> QED BY <1>0, <2>1, <2>2 DEF BeginLogin, StateTyped, KeepStore
<1>3. Placed(call'[p])
  BY <1>0, <1>1 DEF BeginLogin, AuthAt, Moves, MovesOn, Placed, InJob, Goes, CheckStages,
     LoginStages, CallbackStages, Saves
<1>4. StaysCleared(p)
  BY <1>0, <1>1, TaskAtHand DEF BeginLogin, KeepStore, AuthAt, Moves, MovesOn, NothingHeld,
     Harmless, LateWrite,
     StaysCleared, StateTyped, AuthStates
<1>5. StaysMarked(p)
  BY <1>0, <1>1 DEF BeginLogin, KeepStore, AuthAt, Moves, MovesOn, Placed, InJob, Goes,
     CheckStages, LoginStages, CallbackStages, Saves, Processing, StaysMarked, StateTyped,
     AuthStates,
     StoreFields
<1> QED
  BY <1>1, <1>2, <1>3, <1>4, <1>5, TaskStep DEF Moves, MovesOn

\* The login is stored as the pending one.
LEMMA StorePendingKeeps ==
    ASSUME AuthInv, NEW p \in Callers, StorePending(p)
    PROVE  AuthInv'
<1>0. CallsTyped /\ StateTyped /\ Placed(call[p])
  BY TaskAtHand
<1>1. Moves(p, "read", "window", call[p].job, 0)
  BY <1>0, Syncing DEF StorePending, CallStages
<1>2. StateTyped'
  BY <1>0, CallFields DEF StorePending, KeepStore, KeepOAuth, StateTyped, AuthStates
<1>3. Placed(call'[p])
  BY <1>0, <1>1 DEF StorePending, AuthAt, Moves, MovesOn, Placed, InJob, Goes, CheckStages,
     LoginStages, CallbackStages, Saves
<1>4. StaysCleared(p)
  BY <1>0, <1>1, TaskAtHand DEF StorePending, KeepStore, AuthAt, Moves, MovesOn, NothingHeld,
     Harmless, LateWrite,
     StaysCleared, StateTyped, AuthStates
<1>5. StaysMarked(p)
  BY <1>0, <1>1 DEF StorePending, KeepStore, AuthAt, Moves, MovesOn, Placed, InJob, Goes,
     CheckStages, LoginStages, CallbackStages, Saves, Processing, StaysMarked, StateTyped,
     AuthStates,
     StoreFields
<1> QED
  BY <1>1, <1>2, <1>3, <1>4, <1>5, TaskStep DEF Moves, MovesOn

\* A login fails, and the state rests.
LEMMA FailLoginKeeps ==
    ASSUME AuthInv, NEW p \in Callers, FailLogin(p)
    PROVE  AuthInv'
<1>0. CallsTyped /\ StateTyped /\ Placed(call[p])
  BY TaskAtHand
<1>1. Moves(p, "read", "idle", "none", 0)
  BY <1>0, Syncing DEF FailLogin, CallStages
<1>2. StateTyped'
  <2>1. auth' \in AuthStates
    <3>1. FALSE \in BOOLEAN
      OBVIOUS
    <3> QED BY <1>0, <3>1, NoPending DEF FailLogin, StateTyped
  <2>2. oauth' \in Windows /\ started' \in 0 .. MaxLogins
    BY <1>0, LoginAssumption DEF FailLogin, StateTyped, KeepOAuth
  <2> QED BY <1>0, <2>1, <2>2 DEF FailLogin, StateTyped, KeepStore
<1>3. Placed(call'[p])
  BY <1>0, <1>1 DEF FailLogin, AuthAt, Moves, MovesOn, Placed, InJob, Goes, CheckStages,
     LoginStages, CallbackStages, Saves
<1>4. StaysCleared(p)
  BY <1>0, <1>1, TaskAtHand DEF FailLogin, KeepStore, AuthAt, Moves, MovesOn, NothingHeld,
     Harmless, LateWrite,
     StaysCleared, StateTyped, AuthStates
<1>5. StaysMarked(p)
  BY <1>0, <1>1 DEF FailLogin, KeepStore, AuthAt, Moves, MovesOn, Placed, InJob, Goes, CheckStages,
     LoginStages, CallbackStages, Saves, Processing, StaysMarked, StateTyped, AuthStates, StoreFields
<1> QED
  BY <1>1, <1>2, <1>3, <1>4, <1>5, TaskStep DEF Moves, MovesOn

\* A callback begins.
LEMMA BeginCallbackKeeps ==
    ASSUME AuthInv, NEW p \in Callers, NEW login \in 0 .. started, BeginCallback(p, login)
    PROVE  AuthInv'
<1>0. CallsTyped /\ StateTyped /\ Placed(call[p])
  BY TaskAtHand
<1>1. Moves(p, "read", "take", "callback", login)
  <2>1. login \in 0 .. MaxLogins
    BY <1>0, LoginAssumption DEF StateTyped
  <2> QED BY <1>0, <2>1, WithCallback DEF BeginCallback
<1>2. StateTyped'
  BY <1>0, CallFields DEF BeginCallback, KeepStore, KeepOAuth, StateTyped, AuthStates
<1>3. Placed(call'[p])
  BY <1>0, <1>1 DEF BeginCallback, AuthAt, Moves, MovesOn, Placed, InJob, Goes, CheckStages,
     LoginStages, CallbackStages, Saves
<1>4. StaysCleared(p)
  BY <1>0, <1>1, TaskAtHand DEF BeginCallback, KeepStore, AuthAt, Moves, MovesOn, NothingHeld,
     Harmless, LateWrite,
     StaysCleared, StateTyped, AuthStates
<1>5. StaysMarked(p)
  BY <1>0, <1>1 DEF BeginCallback, KeepStore, AuthAt, Moves, MovesOn, Placed, InJob, Goes,
     CheckStages, LoginStages, CallbackStages, Saves, Processing, StaysMarked, StateTyped,
     AuthStates,
     StoreFields
<1> QED
  BY <1>1, <1>2, <1>3, <1>4, <1>5, TaskStep DEF Moves, MovesOn

\* A callback takes the pending login, whoever it belongs to.
LEMMA TakePendingKeeps ==
    ASSUME AuthInv, NEW p \in Callers, TakePending(p)
    PROVE  AuthInv'
<1>0. CallsTyped /\ StateTyped /\ Placed(call[p])
  BY TaskAtHand
<1>1. \E login \in 0 .. MaxLogins : Moves(p, IF auth.pending = 0 THEN "unmark" ELSE "seed",
        call[p].then, call[p].job, login)
  <2> DEFINE at == IF auth.pending = 0 THEN "unmark" ELSE "seed"
             login == IF auth.pending = call[p].login THEN call[p].login ELSE 0
  <2>1. at \in CallStages /\ login \in 0 .. MaxLogins
    BY <1>0, CallFields, LoginAssumption DEF CallStages
  <2>2. call' = [call EXCEPT ![p].at = at, ![p].login = login]
    BY DEF TakePending
  <2>3. at = IF auth.pending = 0 THEN "unmark" ELSE "seed"
    OBVIOUS
  <2> HIDE DEF at, login
  <2> QED BY <1>0, <2>1, <2>2, <2>3, WithTaken
<1>2. StateTyped'
  <2>1. auth' \in AuthStates
    <3> DEFINE busy == IF auth.pending = 0 THEN FALSE ELSE auth.busy
    <3>1. busy \in BOOLEAN /\ auth' = [auth EXCEPT !.pending = 0, !.busy = busy]
      BY <1>0 DEF TakePending, StateTyped, AuthStates
    <3> HIDE DEF busy
    <3> QED BY <1>0, <3>1, NoPending DEF StateTyped
  <2>2. oauth' \in Windows /\ started' \in 0 .. MaxLogins
    BY <1>0, LoginAssumption DEF TakePending, StateTyped, KeepOAuth
  <2> QED BY <1>0, <2>1, <2>2 DEF TakePending, StateTyped, KeepStore
<1>3. Placed(call'[p])
  BY <1>0, <1>1 DEF TakePending, AuthAt, Moves, MovesOn, Placed, InJob, Goes, CheckStages,
     LoginStages, CallbackStages, Saves
<1>4. StaysCleared(p)
  BY <1>0, <1>1, TaskAtHand DEF TakePending, KeepStore, AuthAt, Moves, MovesOn, NothingHeld,
     Harmless, LateWrite,
     StaysCleared, StateTyped, AuthStates
<1>5. StaysMarked(p)
  BY <1>0, <1>1 DEF TakePending, KeepStore, AuthAt, Moves, MovesOn, Placed, InJob, Goes,
     CheckStages, LoginStages, CallbackStages, Saves, Processing, StaysMarked, StateTyped,
     AuthStates,
     StoreFields
<1> QED
  BY <1>1, <1>2, <1>3, <1>4, <1>5, TaskStep DEF Moves, MovesOn

\* A callback gives up, and the state rests.
LEMMA GiveUpKeeps ==
    ASSUME AuthInv, NEW p \in Callers, GiveUp(p)
    PROVE  AuthInv'
<1>0. CallsTyped /\ StateTyped /\ Placed(call[p])
  BY TaskAtHand
<1>1. Moves(p, "read", "unmark", call[p].job, 0)
  BY <1>0, Syncing DEF GiveUp, CallStages
<1>2. StateTyped'
  BY <1>0, CallFields DEF GiveUp, KeepStore, KeepOAuth, StateTyped, AuthStates
<1>3. Placed(call'[p])
  BY <1>0, <1>1 DEF GiveUp, AuthAt, Moves, MovesOn, Placed, InJob, Goes, CheckStages, LoginStages,
     CallbackStages, Saves
<1>4. StaysCleared(p)
  BY <1>0, <1>1, TaskAtHand DEF GiveUp, KeepStore, AuthAt, Moves, MovesOn, NothingHeld, Harmless,
     LateWrite, StaysCleared,
     StateTyped, AuthStates
<1>5. StaysMarked(p)
  BY <1>0, <1>1 DEF GiveUp, KeepStore, AuthAt, Moves, MovesOn, Placed, InJob, Goes, CheckStages,
     LoginStages, CallbackStages, Saves, Processing, StaysMarked, StateTyped, AuthStates, StoreFields
<1> QED
  BY <1>1, <1>2, <1>3, <1>4, <1>5, TaskStep DEF Moves, MovesOn

\* A callback is no longer under way.
LEMMA UnmarkCallbackKeeps ==
    ASSUME AuthInv, NEW p \in Callers, UnmarkCallback(p)
    PROVE  AuthInv'
<1>0. CallsTyped /\ StateTyped /\ Placed(call[p])
  BY TaskAtHand
<1>1. Moves(p, "read", "shut", call[p].job, 0)
  BY <1>0, Syncing DEF UnmarkCallback, CallStages
<1>2. StateTyped'
  BY <1>0, CallFields DEF UnmarkCallback, KeepStore, KeepOAuth, StateTyped, AuthStates
<1>3. Placed(call'[p])
  BY <1>0, <1>1 DEF UnmarkCallback, AuthAt, Moves, MovesOn, Placed, InJob, Goes, CheckStages,
     LoginStages, CallbackStages, Saves
<1>4. StaysCleared(p)
  BY <1>0, <1>1, TaskAtHand DEF UnmarkCallback, KeepStore, AuthAt, Moves, MovesOn, NothingHeld,
     Harmless, LateWrite,
     StaysCleared, StateTyped, AuthStates
<1>5. StaysMarked(p)
  BY <1>0, <1>1 DEF UnmarkCallback, KeepStore, AuthAt, Moves, MovesOn, Placed, InJob, Goes,
     CheckStages, LoginStages, CallbackStages, Saves, Processing, StaysMarked, StateTyped,
     AuthStates,
     StoreFields
<1> QED
  BY <1>1, <1>2, <1>3, <1>4, <1>5, TaskStep DEF Moves, MovesOn

\* The window was closed: the pending login is cancelled.
LEMMA CancelPendingLoginKeeps ==
    ASSUME AuthInv, NEW p \in Callers, CancelPendingLogin(p)
    PROVE  AuthInv'
<1>0. CallsTyped /\ StateTyped /\ Placed(call[p])
  BY TaskAtHand
<1>1. Moves(p, "read", "idle", "none", 0)
  BY <1>0, Beginning, IdleTyped DEF CancelPendingLogin, Jobs
<1>2. StateTyped'
  <2>1. auth' \in AuthStates
    BY <1>0, SignedOutTyped DEF CancelPendingLogin, StateTyped
  <2>2. oauth' \in Windows /\ started' \in 0 .. MaxLogins
    BY <1>0, LoginAssumption DEF CancelPendingLogin, StateTyped, KeepOAuth, Windows
  <2> QED BY <1>0, <2>1, <2>2 DEF CancelPendingLogin, StateTyped, KeepStore
<1>3. Placed(call'[p])
  BY <1>0, <1>1 DEF CancelPendingLogin, AuthAt, Moves, MovesOn, Placed, InJob, Goes, CheckStages,
     LoginStages, CallbackStages, Saves, SignedOut, BeginCall
<1>4. StaysCleared(p)
  BY <1>0, <1>1, TaskAtHand DEF CancelPendingLogin, KeepStore, AuthAt, Moves, MovesOn, NothingHeld,
     Harmless, LateWrite,
     StaysCleared, StateTyped, AuthStates, SignedOut, BeginCall
<1>5. StaysMarked(p)
  BY <1>0, <1>1 DEF CancelPendingLogin, KeepStore, AuthAt, Moves, MovesOn, Placed, InJob, Goes,
     CheckStages, LoginStages, CallbackStages, Saves, Processing, StaysMarked, StateTyped,
     AuthStates,
     StoreFields, SignedOut, BeginCall
<1> QED
  BY <1>1, <1>2, <1>3, <1>4, <1>5, TaskStep DEF Moves, MovesOn

\* A logout clears the store.
LEMMA ClearTokensKeeps ==
    ASSUME AuthInv, NEW p \in Callers, ClearTokens(p)
    PROVE  AuthInv'
<1>0. CallsTyped /\ StateTyped /\ Placed(call[p])
  BY TaskAtHand
<1>1. CASE call[p].job # "all"
  <2>1. MovesOn(p, "reset") /\ cleared' = cleared
    BY <1>0, <1>1, GoingTo DEF ClearTokens, CallStages
  <2>2. StateTyped'
    BY <1>0, <2>1, CallFields, StoreAfterTyped DEF ClearTokens, KeepOAuth, StateTyped
  <2>3. Placed(call'[p]) /\ call[p].job = "ephemeral" /\ ~Processing(call[p])
    BY <1>0, <1>1, <2>1 DEF ClearTokens, AuthAt, Moves, MovesOn, Placed, InJob, CheckStages,
       LoginStages, CallbackStages, Saves, Processing
  <2>4. StaysCleared(p)
    BY <1>0, <2>1, <2>3, TaskAtHand, StoreAfterTyped DEF ClearTokens, AuthAt, Moves, MovesOn,
       NothingHeld, Harmless, StaysCleared
  <2>5. StaysMarked(p)
    BY <2>3 DEF ClearTokens, StaysMarked
  <2> QED BY <2>1, <2>2, <2>3, <2>4, <2>5, TaskStep DEF Moves, MovesOn
<1>2. CASE call[p].job = "all"
  <2> DEFINE Next(q) == IF q = p THEN [call[p] EXCEPT !.at = "reset"]
                        ELSE [call[q] EXCEPT !.late = HoldsTokens(q)]
  <2>1. cleared' /\ call' = [q \in Callers |-> Next(q)]
    BY <1>2 DEF ClearTokens, NoteLate
  <2>2. ASSUME NEW q \in Callers
        PROVE  /\ Next(q) \in CallRecords /\ Next(q).then = call[q].then
               /\ Next(q).job = call[q].job /\ Next(q).login = call[q].login
               /\ q # p => Next(q).at = call[q].at /\ Next(q).late = HoldsTokens(q)
               /\ q # p => Next(q).payload = call[q].payload
               /\ q = p => Next(q).at = "reset"
    <3>1. call[q] \in CallRecords /\ HoldsTokens(q) \in BOOLEAN /\ "reset" \in CallStages
      BY <1>0 DEF CallsTyped, HoldsTokens, CallStages
    <3> QED BY <3>1 DEF CallRecords
  <2> HIDE DEF Next
  <2>3. StateTyped' /\ CallsTyped'
    BY <1>0, <2>1, <2>2, CallFields, StoreAfterTyped DEF ClearTokens, KeepOAuth, StateTyped, CallsTyped
  <2>4. ~store'.user /\ store'.web = "none" /\ store'.stream = 0 /\ auth' = auth
    BY <1>0, <1>2, StoreAfterTyped DEF ClearTokens, AuthAt
  <2>5. ASSUME NEW q \in Callers
        PROVE  /\ Placed(call'[q]) /\ Harmless(call'[q])
               /\ Processing(call[q]) => Processing(call'[q])
    <3>1. CASE q = p
      <4>1. call'[q].at = "reset" /\ call'[q].job = "all" /\ call'[q].then = "idle"
            /\ call[p].job = "all"
        BY <1>0, <1>2, <2>1, <2>2, <3>1 DEF ClearTokens, AuthAt, Placed
      <4> QED BY <3>1, <4>1 DEF Placed, InJob, Harmless, NothingHeld, Processing
    <3>2. CASE q # p
      <4>1. call'[q].late = HoldsTokens(q) /\ call'[q].at = call[q].at
            /\ call'[q].then = call[q].then /\ call'[q].job = call[q].job
            /\ call'[q].login = call[q].login
        BY <2>1, <2>2, <3>2
      <4>2. Placed(call'[q])
        BY <4>1 DEF AuthInv, Placement, Placed, InJob, Goes
      <4>3. Harmless(call'[q])
        BY <4>1 DEF Harmless, NothingHeld, HoldsTokens
      <4> QED BY <4>1, <4>2, <4>3 DEF Processing
    <3> QED BY <3>1, <3>2
  <2>6. Cleared'
    BY <2>1, <2>2, <2>4, <2>5 DEF Cleared, AuthAt
  <2>7. Placement' /\ CallbackMarked'
    BY <2>4, <2>5 DEF AuthInv, Placement, CallbackMarked
  <2> QED BY <2>3, <2>6, <2>7 DEF AuthInv
<1> QED
  BY <1>1, <1>2

\* A logout clears the state.
LEMMA ClearAuthStateKeeps ==
    ASSUME AuthInv, NEW p \in Callers, ClearAuthState(p)
    PROVE  AuthInv'
<1>0. CallsTyped /\ StateTyped /\ Placed(call[p])
  BY TaskAtHand
<1>1. Moves(p, "read", "idle", "none", 0)
  BY <1>0, Syncing DEF ClearAuthState, CallStages
<1>2. StateTyped'
  <2>1. auth' \in AuthStates
    BY <1>0, SignedOutTyped DEF ClearAuthState, StateTyped
  <2>2. oauth' \in Windows /\ started' \in 0 .. MaxLogins
    BY <1>0, LoginAssumption DEF ClearAuthState, StateTyped, KeepOAuth
  <2> QED BY <1>0, <2>1, <2>2 DEF ClearAuthState, StateTyped, KeepStore
<1>3. Placed(call'[p])
  BY <1>0, <1>1 DEF ClearAuthState, AuthAt, Moves, MovesOn, Placed, InJob, Goes, CheckStages,
     LoginStages, CallbackStages, Saves, SignedOut
<1>4. StaysCleared(p)
  BY <1>0, <1>1, TaskAtHand DEF ClearAuthState, KeepStore, AuthAt, Moves, MovesOn, NothingHeld,
     Harmless, LateWrite,
     StaysCleared, StateTyped, AuthStates, SignedOut
<1>5. StaysMarked(p)
  BY <1>0, <1>1 DEF ClearAuthState, KeepStore, AuthAt, Moves, MovesOn, Placed, InJob, Goes,
     CheckStages, LoginStages, CallbackStages, Saves, Processing, StaysMarked, StateTyped,
     AuthStates,
     StoreFields, SignedOut
<1> QED
  BY <1>1, <1>2, <1>3, <1>4, <1>5, TaskStep DEF Moves, MovesOn

\* The store refuses a read or a write.
LEMMA StoreFailsKeeps ==
    ASSUME AuthInv, NEW p \in Callers, StoreFails(p)
    PROVE  AuthInv'
<1>0. CallsTyped /\ StateTyped /\ Placed(call[p])
  BY TaskAtHand
<1>1. \/ MovesOn(p, "wipe") /\ call[p].job = "check"
      \/ MovesOn(p, "unmark") /\ call[p].job = "callback" /\ Saving(p)
      \/ MovesOn(p, "failed") /\ call[p].at \in {"key", "setKey"}
      \/ Moves(p, "read", "idle", "none", 0)
      \/ Moves(p, "idle", "idle", "none", 0)
  <2>0. {"wipe", "unmark", "failed", "idle"} \subseteq CallStages
    BY DEF CallStages
  <2>1. CASE AuthAt(p, "silent") /\ AuthGoTo(p, "wipe")
    BY <1>0, <2>0, <2>1, GoingTo DEF AuthAt, Placed, InJob, LoginStages, CallbackStages, Saves
  <2>2. CASE Saving(p) /\ call[p].job = "check" /\ WroteToken(p, "wipe")
    BY <1>0, <2>0, <2>2, WithPayload, IdleTyped DEF WroteToken
  <2>3. CASE Saving(p) /\ call[p].job = "callback" /\ WroteToken(p, "unmark")
    BY <1>0, <2>0, <2>3, WithPayload, IdleTyped DEF WroteToken
  <2>4. CASE call[p].at \in {"key", "setKey"} /\ WroteToken(p, "failed")
    BY <1>0, <2>0, <2>4, WithPayload, IdleTyped DEF WroteToken
  <2>5. CASE SyncThen(p, "idle")
    BY <1>0, <2>0, <2>5, Syncing
  <2>6. CASE AuthLeave(p)
    BY <1>0, <2>6, Leaving
  <2> QED BY <2>1, <2>2, <2>3, <2>4, <2>5, <2>6 DEF StoreFails
<1>2. StateTyped'
  BY <1>0, CallFields, StoreAfterTyped
     DEF LateWrite, StoreFails, KeepStore, KeepOAuth, StateTyped, Saving, AfterToken
<1>3. Placed(call'[p])
  BY <1>0, <1>1 DEF StoreFails, AuthAt, Moves, MovesOn, Placed, InJob, Goes, CheckStages,
     LoginStages, CallbackStages, Saves, Saving, AfterToken
<1>4. StaysCleared(p)
  BY <1>0, <1>1, TaskAtHand, StoreAfterTyped DEF StoreFails, KeepStore, AuthAt, Moves, MovesOn,
     NothingHeld, Harmless, LateWrite, StaysCleared, StateTyped, AuthStates, Saving, AfterToken
<1>5. StaysMarked(p)
  <2>1. auth' = auth
    BY DEF StoreFails
  <2>2. CASE call[p].job # "callback"
    BY <2>1, <2>2 DEF StaysMarked, Processing
  <2>3. CASE call[p].job = "callback"
    <3>1. Saving(p) /\ WroteToken(p, "unmark")
      <4>1. call[p].at \notin {"silent", "key", "setKey", "snapshot", "policy", "fallback", "wipe", "clear"}
        BY <1>0, <2>3 DEF Placed, InJob, CallbackStages, Saves
      <4> QED BY <2>3, <4>1 DEF StoreFails, AuthAt
    <3>2. MovesOn(p, "unmark")
      BY <1>0, <3>1, WithPayload, IdleTyped DEF WroteToken, CallStages
    <3>3. call[p].then # "shut"
      BY <1>0, <3>1 DEF Saving, Placed
    <3> QED BY <2>3, <3>2, <3>3 DEF StaysMarked, Processing, Moves, MovesOn
  <2> QED BY <2>2, <2>3
<1> QED
  BY <1>1, <1>2, <1>3, <1>4, <1>5, TaskStep DEF Moves, MovesOn

\* The invariant holds at the start.
LEMMA InitMarked == AuthInit => AuthInv
<1> SUFFICES ASSUME AuthInit PROVE AuthInv
  OBVIOUS
<1>1. StateTyped
  <2>1. store \in StoreFields
    <3>1. CASE store = NoTokens
      BY <3>1 DEF NoTokens, StoreFields
    <3>2. CASE store \in [user : {TRUE}, sisu : {TRUE}, key : {TRUE}, web : {"fresh", "old"},
                 stream : {1}]
      <4>1. 1 \in 0 .. 2 /\ {"fresh", "old"} \subseteq {"none", "fresh", "old"}
        OBVIOUS
      <4> QED BY <3>2, <4>1 DEF StoreFields
    <3> QED BY <3>1, <3>2 DEF AuthInit
  <2>2. auth \in AuthStates
    BY <2>1, LoginAssumption DEF AuthInit, AuthStates, StoreFields
  <2>3. oauth \in Windows
    BY DEF AuthInit, Windows
  <2>4. started \in 0 .. MaxLogins
    BY LoginAssumption DEF AuthInit
  <2> QED BY <2>1, <2>2, <2>3, <2>4 DEF AuthInit, StateTyped
<1>2. CallsTyped /\ \A p \in Callers : call[p] = IdleCall
  BY IdleTyped DEF AuthInit, CallsTyped
<1>3. Placement
  BY <1>2 DEF Placement, Placed, InJob, IdleCall
<1>4. Cleared /\ CallbackMarked
  BY DEF AuthInit, Cleared, CallbackMarked
<1> QED
  BY <1>1, <1>2, <1>3, <1>4 DEF AuthInv

\* Steps of nobody's call.
LEMMA OthersKeep ==
    ASSUME AuthInv, UserClosesWindow \/ TokensExpire \/ UNCHANGED authVars
    PROVE  AuthInv'
<1>1. UNCHANGED <<auth, call, broken, cleared>> /\ store'.user = store.user
      /\ store'.key = store.key
      /\ store'.stream = store.stream /\ (store.web = "none" => store'.web = "none")
  BY DEF AuthInv, StateTyped, StoreFields, UserClosesWindow, TokensExpire, authVars, KeepStore,
     KeepOAuth
<1>2. StateTyped'
  <2>1. store' \in StoreFields
    BY DEF AuthInv, StateTyped, StoreFields, UserClosesWindow, TokensExpire, authVars, KeepStore
  <2>2. oauth' \in Windows /\ started' = started
    <3>1. oauth \in Windows /\ OAuthClosed \in Windows
      BY DEF AuthInv, StateTyped, Windows, OAuthClosed
    <3> QED BY <3>1 DEF UserClosesWindow, TokensExpire, authVars, KeepOAuth
  <2> QED BY <1>1, <2>1, <2>2 DEF AuthInv, StateTyped
<1>3. CallsTyped' /\ Placement'
  BY <1>1 DEF AuthInv, CallsTyped, Placement
<1>4. Cleared'
  BY <1>1 DEF AuthInv, Cleared, AuthAt
<1>5. CallbackMarked'
  BY <1>1 DEF AuthInv, CallbackMarked
<1> QED
  BY <1>2, <1>3, <1>4, <1>5 DEF AuthInv

\* One step per action of AuthNext.
LEMMA AuthStepKeeps == AuthInv /\ [AuthNext]_authVars => AuthInv'
<1> SUFFICES ASSUME AuthInv, [AuthNext]_authVars PROVE AuthInv'
  OBVIOUS
<1>1. ASSUME NEW p \in Callers, CheckStep(p) PROVE AuthInv'
  BY <1>1, CheckSnapshotKeeps, AcceptSnapshotKeeps, SilentFlowPolicyKeeps, StartSilentFlowKeeps,
     RefreshedKeeps,
     RefreshFailsKeeps, ReadFallbackKeeps, KeepSessionKeeps, WipeTokensKeeps,
       FinishSignedOutKeeps DEF CheckStep
<1>2. ASSUME NEW p \in Callers, SaveStep(p) PROVE AuthInv'
  BY <1>2, GetPayloadKeeps, SaveTokenKeeps, MarkAuthenticatedKeeps DEF SaveStep
<1>3. ASSUME NEW p \in Callers, LoginStep(p) PROVE AuthInv'
  BY <1>3, LoginStartsKeeps, StorePendingKeeps, FailLoginKeeps, OpenWindowKeeps, TakePendingKeeps,
     LoadSeedKeeps,
     ExchangedKeeps, ExchangeFailsKeeps, GiveUpKeeps, UnmarkCallbackKeeps,
       ShutWindowKeeps DEF LoginStep
<1>4. ASSUME NEW p \in Callers, ReadSnapshot(p) \/ SyncState(p) \/ GetState(p) PROVE AuthInv'
  BY <1>4, ReadSnapshotKeeps, SyncStateKeeps, GetStateKeeps
<1>5. ASSUME NEW p \in Callers,
             \/ BeginCheck(p) \/ BeginLogin(p) \/ CancelPendingLogin(p)
             \/ \E login \in 0 .. started : BeginCallback(p, login)
             \/ \E scope \in {"all", "ephemeral"} : BeginLogout(p, scope)
      PROVE  AuthInv'
  BY <1>5, BeginCheckKeeps, BeginLoginKeeps, CancelPendingLoginKeeps, BeginCallbackKeeps,
     BeginLogoutKeeps
<1>6. ASSUME NEW p \in Callers, ClearTokens(p) \/ ClearAuthState(p) \/ StoreFails(p) PROVE AuthInv'
  BY <1>6, ClearTokensKeeps, ClearAuthStateKeeps, StoreFailsKeeps
<1> QED
  BY <1>1, <1>2, <1>3, <1>4, <1>5, <1>6, OthersKeep DEF AuthNext

\* The invariant of the sign-in: whatever checks, logins, callbacks and logouts run at once, each
\* step of src-tauri's auth service keeps it.
THEOREM SignIn == AuthSpec => []AuthInv
<1> QED
  BY InitMarked, AuthStepKeeps, PTL DEF AuthSpec

\* Types of the state.
THEOREM SignInTyped == AuthSpec => []AuthTypeOK
<1>1. AuthInv => AuthTypeOK
  BY DEF AuthInv, StateTyped, CallsTyped, AuthTypeOK, AuthStates, Windows, CallRecords, Jobs,
     Snapshots, Payloads
<1> QED
  BY <1>1, SignIn, PTL

\* LogoutSticks for any callers and logins: after a logout no check, late read of the state, login or
\* cancel brings a token or the signed-in state back, whichever tasks the logout met on their way.
\* Only a task that had tokens in hand when they were cleared can, by writing, or a callback.
THEOREM LogoutIsFinal == AuthSpec => []LogoutSticks
<1>1. AuthInv => LogoutSticks
  BY DEF AuthInv, Cleared, LogoutSticks
<1> QED
  BY <1>1, SignIn, PTL

\* The three ways a sign-in is left busy.
LeftBehind(p) ==
    \/ AuthAt(p, "window") /\ ~oauth'.open
    \/ AuthAt(p, "shut") /\ ~oauth.open /\ ~oauth.cancels
    \/ /\ broken' # broken /\ call[p].job \in {"check", "all", "ephemeral"}
       /\ call'[p].job = "none"

\* Task p stays at its job.
StaysAtWork(p) == call'[p].job # "none"
\* The calls of the others keep their jobs, and that of p, the state and the window are as before.
AsBefore(p) ==
    /\ call[p].job = "none" /\ \A q \in Callers \ {p} : call'[q] = call[q]
    /\ auth'.busy = auth.busy /\ oauth' = oauth

\* A read of the state, or a task on the way to it.
LEMMA ReadingSettles ==
    ASSUME AuthInv, NEW p \in Callers, ReadSnapshot(p) \/ SyncState(p) \/ GetState(p)
    PROVE  StaysAtWork(p) \/ AsBefore(p)
<1>0. CallsTyped /\ StateTyped /\ Placed(call[p])
  BY TaskAtHand
<1>1. auth'.busy = auth.busy /\ oauth' = oauth
  BY <1>0 DEF StateTyped, AuthStates, ReadSnapshot, SyncState, GetState, KeepOAuth
<1>2. CASE GetState(p)
  BY <1>0, <1>1, <1>2 DEF GetState, BeginCall, AuthAt, Placed, InJob, CheckStages, LoginStages,
     CallbackStages, Saves, AsBefore
<1>3. CASE AfterSync(p) /\ call[p].at \in {"read", "sync"}
  <2>1. CASE call[p].then = "idle"
    <3>1. call[p].job = "none"
      BY <1>0, <1>3, <2>1 DEF Placed, Goes
    <3>2. Frame(p)
      BY <1>0, <1>3, <2>1, SyncedOn DEF Moves
    <3> QED BY <1>1, <3>1, <3>2 DEF Frame, AsBefore
  <2>2. CASE call[p].then # "idle"
    BY <1>0, <1>3, <2>2, SyncedOn DEF Moves, Placed, Goes, StaysAtWork
  <2> QED BY <2>1, <2>2
<1>4. CASE call' = [call EXCEPT ![p].at = "sync", ![p].level = ValidLevel] /\ AuthAt(p, "read")
  <2>1. call'[p].job = call[p].job /\ \A q \in Callers \ {p} : call'[q] = call[q]
    BY <1>0, <1>4 DEF CallsTyped, CallRecords
  <2> QED BY <1>1, <2>1 DEF StaysAtWork, AsBefore
<1> QED
  BY <1>2, <1>3, <1>4 DEF ReadSnapshot, SyncState, AuthAt

\* A step of a check or of a login: it goes on, or it leaves the state at rest.
LEMMA WorkSettles ==
    ASSUME AuthInv, NEW p \in Callers, CheckStep(p) \/ SaveStep(p) \/ LoginStep(p)
    PROVE  StaysAtWork(p) \/ ~auth'.busy \/ AuthAt(p, "window") \/ ShutWindow(p)
<1>0. CallsTyped /\ StateTyped /\ Placed(call[p])
  BY TaskAtHand
<1>1. ASSUME call'[p].job = call[p].job, call[p].at \notin {"read", "sync", "idle"} PROVE StaysAtWork(p)
  BY <1>0, <1>1 DEF Placed, InJob, StaysAtWork
<1>2. CASE CheckStep(p)
  <2>1. CASE AcceptSnapshot(p) \/ KeepSession(p) \/ FinishSignedOut(p)
    BY <1>0, <2>1 DEF AcceptSnapshot, KeepSession, FinishSignedOut, SignedOut, StateTyped, AuthStates
  <2>2. CASE SilentFlowPolicy(p) \/ StartSilentFlow(p) \/ RefreshFails(p) \/ WipeTokens(p)
    BY <1>0, <1>1, <2>2 DEF SilentFlowPolicy, StartSilentFlow, RefreshFails, WipeTokens, AuthGoTo,
       AuthAt, CallsTyped, CallRecords
  <2>3. CASE CheckSnapshot(p) \/ ReadFallback(p)
    BY <1>0, <1>1, <2>3 DEF CheckSnapshot, ReadFallback, AuthAt, CallsTyped, CallRecords
  <2>4. ASSUME NEW answers \in Grants, Refreshed(p, answers) PROVE StaysAtWork(p)
    BY <1>0, <1>1, <2>4, BundleTyped, WithBundle DEF Refreshed, AuthAt, Moves
  <2> QED BY <1>2, <2>1, <2>2, <2>3, <2>4 DEF CheckStep
<1>3. CASE SaveStep(p)
  <2>1. CASE MarkAuthenticated(p)
    BY <1>0, <2>1 DEF MarkAuthenticated, StateTyped, AuthStates
  <2>2. CASE GetPayload(p)
    BY <1>0, <1>1, <2>2 DEF GetPayload, AuthAt, CallsTyped, CallRecords
  <2>3. CASE SaveToken(p)
    BY <1>0, <1>1, <2>3 DEF SaveToken, WroteToken, AfterToken, CallsTyped, CallRecords
  <2> QED BY <1>3, <2>1, <2>2, <2>3 DEF SaveStep
<1>4. CASE LoginStep(p)
  <2>1. CASE FailLogin(p) \/ GiveUp(p)
    BY <1>0, <2>1 DEF FailLogin, GiveUp, StateTyped, AuthStates
  <2>2. CASE LoginStarts(p) \/ LoadSeed(p) \/ ExchangeFails(p)
    BY <1>0, <1>1, <2>2 DEF LoginStarts, LoadSeed, ExchangeFails, AuthGoTo, AuthAt, CallsTyped,
       CallRecords
  <2>3. CASE TakePending(p)
    <3>1. call'[p].job = call[p].job
      BY <1>0, <2>3 DEF TakePending, CallsTyped, CallRecords
    <3> QED BY <1>1, <2>3, <3>1 DEF TakePending, AuthAt
  <2>6. ASSUME NEW answers \in Grants, Exchanged(p, answers) PROVE StaysAtWork(p)
    BY <1>0, <1>1, <2>6, BundleTyped, WithBundle DEF Exchanged, AuthAt, Moves
  <2>4. CASE StorePending(p) \/ UnmarkCallback(p)
    BY <1>0, <1>1, <2>4, Syncing DEF StorePending, UnmarkCallback, AuthAt, Moves, CallStages
  <2>5. CASE OpenWindow(p)
    BY <2>5 DEF OpenWindow
  <2> QED BY <1>4, <2>1, <2>2, <2>3, <2>4, <2>5, <2>6 DEF LoginStep
<1> QED
  BY <1>2, <1>3, <1>4

\* A call that begins, and the closing of the window a cancel reports.
LEMMA BeginningSettles ==
    ASSUME AuthInv, NEW p \in Callers, auth'.busy,
           \/ BeginCheck(p) \/ BeginLogin(p) \/ CancelPendingLogin(p)
           \/ \E login \in 0 .. started : BeginCallback(p, login)
           \/ \E scope \in {"all", "ephemeral"} : BeginLogout(p, scope)
    PROVE  \E q \in Callers : StaysAtWork(q)
<1>0. CallsTyped /\ StateTyped /\ Placed(call[p])
  BY TaskAtHand
<1>1. CASE CancelPendingLogin(p)
  <2>1. auth.callback
    BY <1>0, <1>1 DEF CancelPendingLogin, SignedOut, StateTyped, AuthStates
  <2>2. PICK q \in Callers : Processing(call[q])
    BY <2>1 DEF AuthInv, CallbackMarked
  <2>3. q # p
    BY <1>0, <1>1, <2>2 DEF CancelPendingLogin, BeginCall, AuthAt, Placed, InJob, Processing,
       CallbackStages, Saves
  <2>4. call'[q] = call[q]
    BY <1>0, <1>1, <2>3 DEF CancelPendingLogin, BeginCall, CallsTyped
  <2> QED BY <2>2, <2>4 DEF Processing, StaysAtWork
<1>2. CASE BeginCheck(p) \/ BeginLogin(p)
  <2>1. StaysAtWork(p)
    <3>1. CASE BeginCheck(p)
      <4>1. [signedIn |-> auth.signedIn, level |-> auth.level] \in Snapshots
        BY <1>0 DEF StateTyped, AuthStates, Snapshots
      <4> QED BY <1>0, <3>1, <4>1, WithCheck DEF BeginCheck, Moves, StaysAtWork
    <3>2. CASE BeginLogin(p)
      <4>1. started + 1 \in 0 .. MaxLogins
        BY <1>0, <3>2, LoginAssumption DEF BeginLogin, StateTyped
      <4> QED BY <1>0, <3>2, <4>1, WithLogin DEF BeginLogin, Moves, StaysAtWork
    <3> QED BY <1>2, <3>1, <3>2
  <2> QED BY <2>1
<1>4. ASSUME NEW login \in 0 .. started, BeginCallback(p, login) PROVE StaysAtWork(p)
  BY <1>0, <1>4 DEF BeginCallback, CallsTyped, IdleCall, StaysAtWork
<1>3. ASSUME NEW scope \in {"all", "ephemeral"}, BeginLogout(p, scope) PROVE StaysAtWork(p)
  BY <1>0, <1>3 DEF BeginLogout, BeginCall, CallsTyped, IdleCall, StaysAtWork
<1> QED
  BY <1>1, <1>2, <1>3, <1>4

\* A logout goes on, and leaves the state at rest at its end.
LEMMA LogoutSettles ==
    ASSUME AuthInv, NEW p \in Callers, ClearTokens(p) \/ ClearAuthState(p)
    PROVE  StaysAtWork(p) \/ ~auth'.busy
<1>0. CallsTyped /\ StateTyped /\ Placed(call[p])
  BY TaskAtHand
<1>1. CASE ClearAuthState(p)
  BY <1>0, <1>1 DEF ClearAuthState, SignedOut, StateTyped, AuthStates
<1>2. CASE ClearTokens(p)
  <2>1. call'[p].job = call[p].job
    BY <1>0, <1>2 DEF ClearTokens, NoteLate, AuthGoTo, CallsTyped, CallRecords
  <2> QED BY <1>0, <1>2, <2>1 DEF ClearTokens, AuthAt, Placed, InJob, StaysAtWork
<1> QED
  BY <1>1, <1>2

\* An error of the store ends a check or a logout, or its task goes on.
LEMMA FailureSettles ==
    ASSUME AuthInv, NEW p \in Callers, StoreFails(p)
    PROVE  StaysAtWork(p) \/ LeftBehind(p)
<1>0. CallsTyped /\ StateTyped /\ Placed(call[p])
  BY TaskAtHand
<1>1. broken' # broken
  BY DEF StoreFails
<1>2. ASSUME call'[p].job = call[p].job, call[p].at \notin {"read", "sync", "idle"} PROVE StaysAtWork(p)
  BY <1>0, <1>2 DEF Placed, InJob, StaysAtWork
<1>3. CASE AuthAt(p, "silent") /\ AuthGoTo(p, "wipe")
  BY <1>0, <1>2, <1>3 DEF AuthAt, AuthGoTo, CallsTyped, CallRecords
<1>4. CASE \/ Saving(p) /\ (WroteToken(p, "wipe") \/ WroteToken(p, "unmark"))
           \/ call[p].at \in {"key", "setKey"} /\ WroteToken(p, "failed")
  BY <1>0, <1>2, <1>4 DEF Saving, WroteToken, CallsTyped, CallRecords
<1>5. CASE \/ call[p].at \in {"snapshot", "policy", "fallback", "wipe"} /\ SyncThen(p, "idle")
           \/ AuthAt(p, "clear") /\ AuthLeave(p)
  <2>1. call[p].job \in {"check", "all", "ephemeral"}
    BY <1>0, <1>5 DEF AuthAt, Placed, InJob, LoginStages, CallbackStages, Saves, CheckStages
  <2>2. call'[p].job = "none"
    <3>1. "idle" \in CallStages
      BY DEF CallStages
    <3> QED BY <1>0, <1>5, <3>1, Syncing, Leaving DEF Moves
  <2> QED BY <1>1, <2>1, <2>2 DEF LeftBehind
<1> QED
  BY <1>3, <1>4, <1>5 DEF StoreFails

\* BusyHasCause for any callers and logins: "authenticating" is left with nobody to end it by a window
\* that could not be built, a callback whose window was closed from under it, or an error of the store
\* that ends a check or a logout, and by no other step of any task.
THEOREM BusyIsCaused == AuthSpec => BusyHasCause
<1>1. ASSUME AuthInv, [AuthNext]_authVars, Stranded', ~Stranded
      PROVE  \E p \in Callers : LeftBehind(p)
  <2>0. auth'.busy /\ ~oauth'.open /\ ~oauth'.cancels /\ \A q \in Callers : ~StaysAtWork(q)
    BY <1>1 DEF Stranded, StaysAtWork
  <2>1. CASE UserClosesWindow \/ TokensExpire \/ UNCHANGED authVars
    <3>1. CASE UserClosesWindow
      BY <2>0, <3>1 DEF UserClosesWindow, OAuthClosed
    <3>2. CASE TokensExpire \/ UNCHANGED authVars
      BY <1>1, <3>2 DEF TokensExpire, authVars, KeepOAuth, Stranded
    <3> QED BY <2>1, <3>1, <3>2
  <2>2. ASSUME NEW p \in Callers PROVE ~AsBefore(p)
    BY <1>1, <2>0 DEF AsBefore, Stranded, StaysAtWork
  <2>3. ASSUME NEW p \in Callers, CheckStep(p) \/ SaveStep(p) \/ LoginStep(p) PROVE LeftBehind(p)
    <3>1. CASE AuthAt(p, "window")
      BY <2>0, <3>1 DEF LeftBehind
    <3>2. CASE ShutWindow(p)
      BY <2>0, <3>2 DEF ShutWindow, OAuthClosed, LeftBehind
    <3> QED BY <1>1, <2>0, <2>3, <3>1, <3>2, WorkSettles
  <2>4. ASSUME NEW p \in Callers,
               \/ ReadSnapshot(p) \/ SyncState(p) \/ GetState(p)
               \/ ClearTokens(p) \/ ClearAuthState(p) \/ StoreFails(p)
        PROVE  LeftBehind(p)
    BY <1>1, <2>0, <2>2, <2>4, ReadingSettles, LogoutSettles, FailureSettles
  <2>5. ASSUME NEW p \in Callers,
               \/ BeginCheck(p) \/ BeginLogin(p) \/ CancelPendingLogin(p)
               \/ \E login \in 0 .. started : BeginCallback(p, login)
               \/ \E scope \in {"all", "ephemeral"} : BeginLogout(p, scope)
        PROVE  FALSE
    BY <1>1, <2>0, <2>5, BeginningSettles
  <2> QED BY <1>1, <2>1, <2>3, <2>4, <2>5 DEF AuthNext
<1>2. AuthInv /\ [AuthNext]_authVars => [Stranded' => \/ Stranded
                    \/ \E p \in Callers :
                          \/ AuthAt(p, "window") /\ ~oauth'.open
                          \/ AuthAt(p, "shut") /\ ~oauth.open /\ ~oauth.cancels
                          \/ /\ broken' # broken /\ call[p].job \in {"check", "all", "ephemeral"}
                             /\ call'[p].job = "none"]_authVars
  BY <1>1 DEF LeftBehind
<1> QED
  BY <1>2, SignIn, PTL DEF AuthSpec, BusyHasCause

-----------------------------------------------------------------------------
(* The recorder of traces.                                                 *)
Profiles == {"off", "production", "dev"}
Configurations == [profile : Profiles, gen : Int, id : Int]
Commands == [kind : {"row", "configure"}, rank : Ranks, config : Configurations]
Counts == [Ranks -> Int]
Writers == [at : {"idle", "notice", "noticeFirst", "configure"}, taken : Counts,
            config : Configurations, open : BOOLEAN, size : Int]

TraceTyped ==
    /\ publisher \in Configurations
    /\ setting \in [at : {"idle", "waiting", "applied", "refused"}, previous : Configurations, id : Int]
    /\ queue \in Seq(Commands)
    /\ usage \in Int /\ offered \in Int /\ buffered \in Int /\ filed \in Int
    /\ drops \in Counts
    /\ writer \in Writers

\* Counts are taken for a notice only, and given back or reported with it.
TakenForNotice == writer.at \in {"idle", "configure"} => writer.taken = NoDrops

\* The writer has a configuration at hand while it sees to one.
ConfigureAtHand ==
    writer.at \in {"noticeFirst", "configure"} => queue # <<>> /\ queue[1].kind = "configure"

\* A row the writer has not come to is of its configuration, or of another generation.
Told(i) == queue[i].kind = "row" /\ (queue[i].config.gen = writer.config.gen => queue[i].config = writer.config)

\* Before the one configuration in the queue rows are told apart by their generation from the
\* writer's; those behind it are of the configuration asked for, whatever becomes of it.
AskedAt(k) ==
    /\ queue[k].kind = "configure" /\ queue[k].config = publisher
    /\ \A i \in 1 .. k - 1 : Told(i)
    /\ \A i \in k + 1 .. Len(queue) : queue[i].kind = "row" /\ queue[i].config = publisher

Behind == setting.previous = writer.config /\ publisher.gen = writer.config.gen + 1

RowsTold ==
    /\ setting.at # "waiting" => \A i \in 1 .. Len(queue) : Told(i)
    /\ setting.at \in {"idle", "applied"} => publisher = writer.config
    /\ setting.at \in {"waiting", "refused"} => Behind
    /\ setting.at = "waiting" => \E k \in 1 .. Len(queue) : AskedAt(k)

AccountInv == TraceTyped /\ TakenForNotice /\ Unaccounted >= 0
TraceInv == AccountInv /\ ConfigureAtHand /\ RowsTold

\* A step that keeps the accounts, and one that turns the recorder off.
Balanced == TraceTyped' /\ TakenForNotice' /\ Unaccounted' = Unaccounted
Closing ==
    /\ TraceTyped' /\ TakenForNotice'
    /\ writer.at = "configure" /\ Head(queue).config.profile = "off"
    /\ Unaccounted' - Unaccounted \in 0 .. buffered

-----------------------------------------------------------------------------
\* The sums of counts.
LEMMA Sums ==
    /\ NoDrops \in Counts /\ Total(NoDrops) = 0
    /\ \A a \in Counts : Total(a) \in Int
    /\ \A a, b \in Counts : Plus(a, b) \in Counts /\ Total(Plus(a, b)) = Total(a) + Total(b)
BY DEF NoDrops, Counts, Ranks, Total, Plus

LEMMA OneMore ==
    ASSUME drops \in Counts, NEW r \in Ranks
    PROVE  Note(r) \in Counts /\ Total(Note(r)) = Total(drops) + 1
<1>1. Note(r) \in Counts /\ \A q \in Ranks : Note(r)[q] = IF q = r THEN drops[q] + 1 ELSE drops[q]
  BY DEF Note, Counts
<1>2. drops[0] \in Int /\ drops[1] \in Int /\ drops[2] \in Int
  BY DEF Counts, Ranks
<1> QED
  BY <1>1, <1>2 DEF Ranks, Total

\* The queue as the writer takes from it and publishers add to it.
LEMMA FirstOut ==
    ASSUME queue \in Seq(Commands), queue # <<>>
    PROVE  /\ Head(queue) = queue[1] /\ queue[1] \in Commands /\ Len(queue) \in Nat \ {0}
           /\ Tail(queue) \in Seq(Commands) /\ Len(Tail(queue)) = Len(queue) - 1
           /\ \A i \in 1 .. Len(queue) - 1 : Tail(queue)[i] = queue[i + 1]
OBVIOUS

LEMMA LastIn ==
    ASSUME queue \in Seq(Commands), NEW c \in Commands
    PROVE  /\ Append(queue, c) \in Seq(Commands) /\ Len(queue) \in Nat /\ Len(Append(queue, c)) = Len(queue) + 1
           /\ \A i \in 1 .. Len(queue) : Append(queue, c)[i] = queue[i]
           /\ Append(queue, c)[Len(queue) + 1] = c
OBVIOUS

\* The file after one more row differs in its size only.
LEMMA WrittenKeeps ==
    ASSUME TraceTyped
    PROVE  /\ Written.at = writer.at /\ Written.taken = writer.taken /\ Written.config = writer.config
           /\ Written.open = writer.open /\ Written.size \in Int
           /\ Written = [writer EXCEPT !.size = Written.size]
BY DEF Written, Full, TraceTyped, Writers

\* The writer with another configuration and a new file, or none.
Opened(w, config, open) == [w EXCEPT !.at = "idle", !.config = config, !.size = 0, !.open = open]

\* It is a writer, with that configuration and the counts it had.
LEMMA Reconfigured ==
    ASSUME NEW w \in Writers, NEW config \in Configurations, NEW open \in BOOLEAN
    PROVE  /\ Opened(w, config, open) \in Writers /\ Opened(w, config, open).taken = w.taken
           /\ Opened(w, config, open).at = "idle" /\ Opened(w, config, open).config = config
<1> DEFINE a == [w EXCEPT !.at = "idle"]
           b == [a EXCEPT !.config = config]
           c == [b EXCEPT !.size = 0]
           d == [c EXCEPT !.open = open]
<1>1. a \in Writers /\ a.taken = w.taken /\ a.at = "idle"
  BY DEF Writers
<1> HIDE DEF a
<1>2. b \in Writers /\ b.taken = w.taken /\ b.at = "idle" /\ b.config = config
  BY <1>1 DEF Writers
<1> HIDE DEF b
<1>3. c \in Writers /\ c.taken = w.taken /\ c.at = "idle" /\ c.config = config
  BY <1>2 DEF Writers
<1> HIDE DEF c
<1>4. d \in Writers /\ d.taken = w.taken /\ d.at = "idle" /\ d.config = config
  BY <1>3 DEF Writers
<1> QED
  BY <1>4 DEF a, b, c, Opened

\* A new file is empty.
LEMMA OpenedIsEmpty ==
    ASSUME NEW w \in Writers, NEW config \in Configurations, NEW open \in BOOLEAN
    PROVE  Opened(w, config, open).size = 0
<1> DEFINE a == [w EXCEPT !.at = "idle"]
           b == [a EXCEPT !.config = config]
           c == [b EXCEPT !.size = 0]
           d == [c EXCEPT !.open = open]
<1>1. a \in Writers
  BY DEF Writers
<1> HIDE DEF a
<1>2. b \in Writers
  BY <1>1 DEF Writers
<1> HIDE DEF b
<1>3. c \in Writers /\ c.size = 0
  BY <1>2 DEF Writers
<1> HIDE DEF c
<1>4. d.size = 0
  BY <1>3 DEF Writers
<1> QED
  BY <1>4 DEF a, b, c, Opened

-----------------------------------------------------------------------------
(* Every row is accounted for. *)

LEMMA AccountInit == TraceInit => AccountInv
<1> SUFFICES ASSUME TraceInit PROVE AccountInv
  OBVIOUS
<1>1. publisher \in Configurations /\ writer.taken = NoDrops /\ drops = NoDrops
  BY DEF TraceInit, Configuration, Configurations, Profiles
<1>2. TraceTyped
  BY <1>1, Sums DEF TraceInit, TraceTyped, Writers
<1> QED
  BY <1>1, <1>2, Sums DEF TraceInit, AccountInv, TakenForNotice, Unaccounted, RowsSeen

\* A write adds its units to what the buffer and the files hold together.
LEMMA Puts ==
    ASSUME TraceTyped, NEW units \in Int, Put(units)
    PROVE  buffered' \in Int /\ filed' \in Int /\ buffered' + filed' = buffered + filed + units
BY DEF Put, TraceTyped

LEMMA Wholes ==
    /\ TraceTyped => Unaccounted \in Int /\ RowsSeen \in Int /\ buffered \in Int /\ offered \in Int
    /\ TraceTyped' => Unaccounted' \in Int /\ RowsSeen' \in Int /\ offered' \in Int
<1>1. ASSUME TraceTyped PROVE Unaccounted \in Int /\ RowsSeen \in Int /\ buffered \in Int /\ offered \in Int
  <2>1. /\ offered \in Int /\ usage \in Int /\ buffered \in Int /\ filed \in Int
        /\ Total(drops) \in Int /\ Total(writer.taken) \in Int
    BY <1>1, Sums DEF TraceTyped, Writers
  <2> QED BY <2>1 DEF Unaccounted, RowsSeen
<1>2. ASSUME TraceTyped' PROVE Unaccounted' \in Int /\ RowsSeen' \in Int /\ offered' \in Int
  <2>1. /\ offered' \in Int /\ usage' \in Int /\ buffered' \in Int /\ filed' \in Int
        /\ Total(drops') \in Int /\ Total(writer'.taken) \in Int
    BY <1>2, Sums DEF TraceTyped, Writers
  <2> QED BY <2>1 DEF Unaccounted, RowsSeen
<1> QED
  BY <1>1, <1>2

\* What a step adds to the rows offered, to those waiting, to those with the file and to the counts.
Moved(rows, waiting, written, losses) ==
    /\ offered' = offered + rows
    /\ usage' = usage + waiting
    /\ buffered' + filed' = buffered + filed + written
    /\ Total(drops') + Total(writer'.taken) = Total(drops) + Total(writer.taken) + losses

LEMMA Balance ==
    ASSUME TraceTyped, TraceTyped', NEW rows \in Int, NEW waiting \in Int, NEW written \in Int, NEW losses \in Int,
           Moved(rows, waiting, written, losses)
    PROVE  Unaccounted' = Unaccounted + (rows - (waiting + written + losses)) /\ Unaccounted \in Int
<1> DEFINE file == buffered + filed
           counts == Total(drops) + Total(writer.taken)
<1>1. usage \in Int /\ file \in Int /\ counts \in Int
  <2>1. usage \in Int /\ buffered \in Int /\ filed \in Int /\ drops \in Counts /\ writer.taken \in Counts
    BY DEF TraceTyped, Writers
  <2>2. Total(drops) \in Int /\ Total(writer.taken) \in Int
    BY <2>1, Sums
  <2> QED BY <2>1, <2>2
<1>2. RowsSeen = usage + file + counts /\ RowsSeen' = usage' + file' + counts'
  BY DEF RowsSeen
<1>3. offered' = offered + rows /\ usage' = usage + waiting /\ file' = file + written /\ counts' = counts + losses
  BY DEF Moved
<1> HIDE DEF file, counts
<1>4. RowsSeen' = RowsSeen + (waiting + written + losses)
  BY <1>1, <1>2, <1>3
<1>5. RowsSeen \in Int /\ Unaccounted \in Int /\ offered \in Int
  BY Wholes
<1> QED
  BY <1>3, <1>4, <1>5 DEF Unaccounted

LEMMA Zero == \A a, b \in Int : a + b = a + b + 0 /\ a = a + 0
OBVIOUS

LEMMA AccountStep == AccountInv /\ ConfigureAtHand /\ [TraceNext]_traceVars => Balanced \/ Closing
<1> SUFFICES ASSUME AccountInv, ConfigureAtHand, [TraceNext]_traceVars PROVE Balanced \/ Closing
  OBVIOUS
<1> USE DEF Balanced
<1>0. /\ TraceTyped /\ Total(drops) \in Int /\ Total(writer.taken) \in Int /\ writer.taken \in Counts /\ drops \in Counts
  BY Sums DEF AccountInv, TraceTyped, Writers
<1>t. TraceTyped /\ TakenForNotice
  BY DEF AccountInv
<1>i. offered \in Int /\ usage \in Int /\ buffered \in Int /\ filed \in Int
  BY <1>0 DEF TraceTyped
<1>1. ASSUME NEW r \in Ranks, Record(r) PROVE Balanced
  <2>1. UNCHANGED <<publisher, setting, writer, buffered, filed>> /\ offered' = offered + 1
    BY <1>1 DEF Record
  <2>2. CASE usage' = usage + 1 /\ drops' = drops
             /\ queue' = Append(queue, [kind |-> "row", rank |-> r, config |-> publisher])
    <3>1. TraceTyped'
      BY <2>1, <2>2, <1>0 DEF TraceTyped, Writers, Commands
    <3>2. Moved(1, 1, 0, 0)
      BY <1>0, <1>i, <2>1, <2>2 DEF Moved
    <3>3. Unaccounted' = Unaccounted
      BY <1>0, <3>1, <3>2, Balance
    <3> QED BY <1>t, <2>1, <3>1, <3>3 DEF TakenForNotice
  <2>3. CASE drops' = Note(r) /\ UNCHANGED <<queue, usage>>
    <3>1. Note(r) \in Counts /\ Total(Note(r)) = Total(drops) + 1
      BY <1>0, OneMore DEF TraceTyped, Writers
    <3>2. TraceTyped'
      BY <1>t, <2>1, <2>3, <3>1 DEF TraceTyped, Writers
    <3>3. Moved(1, 0, 0, 1)
      BY <1>0, <1>i, <2>1, <2>3, <3>1 DEF Moved
    <3>4. Unaccounted' = Unaccounted
      BY <1>0, <3>2, <3>3, Balance
    <3> QED BY <1>t, <2>1, <3>2, <3>4 DEF TakenForNotice
  <2> QED BY <1>1, <2>2, <2>3 DEF Record
<1>2. ASSUME NEW profile \in Profiles, OpenOutput(profile) PROVE Balanced
  <2> DEFINE next == Configuration(profile, publisher.gen + 1, setting.id + 1)
  <2>1. next \in Configurations
    BY <1>t DEF Configuration, Configurations, TraceTyped, Writers
  <2>2. /\ queue' = Append(queue, [kind |-> "configure", rank |-> 0, config |-> next]) /\ publisher' = next
        /\ setting' = [at |-> "waiting", previous |-> publisher, id |-> setting.id + 1]
        /\ UNCHANGED <<usage, drops, writer, offered, buffered, filed>>
    BY <1>2 DEF OpenOutput
  <2> HIDE DEF next
  <2>3. [kind |-> "configure", rank |-> 0, config |-> next] \in Commands
    BY <2>1 DEF Commands, Ranks
  <2>4. TraceTyped'
    BY <1>t, <2>1, <2>2, <2>3 DEF TraceTyped, Writers
  <2> QED BY <1>t, <2>2, <2>4 DEF TakenForNotice, Unaccounted, RowsSeen
<1>3. CASE OutputReturns
  <2>1. TraceTyped'
    BY <1>t, <1>3 DEF OutputReturns, TraceTyped, Writers
  <2> QED BY <1>t, <1>3, <2>1 DEF OutputReturns, TakenForNotice, Unaccounted, RowsSeen
<1>4. CASE HandleRow
  <2>1. /\ queue # <<>> /\ queue' = Tail(queue) /\ usage' = usage - 1 /\ writer.at = "idle"
        /\ UNCHANGED <<publisher, setting, offered>>
    BY <1>4 DEF HandleRow
  <2>2. Head(queue).rank \in Ranks /\ queue' \in Seq(Commands)
    <3>1. Head(queue) \in Commands /\ queue' \in Seq(Commands)
      BY <1>t, <2>1, FirstOut DEF TraceTyped, Writers
    <3> QED BY <3>1 DEF Commands
  <2>3. writer' \in {writer, Written}
    BY <1>4 DEF HandleRow, Unwritten, PartlyWritten
  <2>4. writer'.taken = writer.taken
    BY <1>t, <2>3, WrittenKeeps
  <2>5. writer' \in Writers
    BY <1>t, <2>3, WrittenKeeps DEF TraceTyped, Writers
  <2>6. CASE Put(1) /\ drops' = drops
    <3>0. buffered' \in Int /\ filed' \in Int /\ buffered' + filed' = buffered + filed + 1
      BY <1>0, <2>6, Puts
    <3>1. TraceTyped'
      BY <1>t, <2>1, <2>2, <2>5, <2>6, <3>0 DEF TraceTyped, Writers
    <3>2. Moved(0, -1, 1, 0)
      <4>1. offered' = offered + 0 /\ usage' = usage + -1
        BY <1>i, <2>1
      <4>2. Total(drops') + Total(writer'.taken) = Total(drops) + Total(writer.taken) + 0
        BY <1>0, <2>4, <2>6
      <4> QED BY <3>0, <4>1, <4>2 DEF Moved
    <3>3. Unaccounted' = Unaccounted
      BY <1>0, <3>1, <3>2, Balance
    <3> QED BY <1>t, <2>1, <2>4, <3>1, <3>3 DEF TakenForNotice
  <2>7. CASE drops' = Note(Head(queue).rank) /\ (UNCHANGED <<buffered, filed>> \/ Put(0))
    <3>0. buffered' \in Int /\ filed' \in Int /\ buffered' + filed' = buffered + filed
      BY <1>0, <2>7, Puts DEF TraceTyped
    <3>1. drops' \in Counts /\ Total(drops') = Total(drops) + 1
      BY <1>t, <2>2, <2>7, OneMore DEF TraceTyped, Writers
    <3>2. TraceTyped'
      BY <1>t, <2>1, <2>2, <2>5, <2>7, <3>0, <3>1 DEF TraceTyped, Writers
    <3>3. Moved(0, -1, 0, 1)
      <4>1. offered' = offered + 0 /\ usage' = usage + -1
        BY <1>i, <2>1
      <4>2. Total(drops') + Total(writer'.taken) = Total(drops) + Total(writer.taken) + 1
        BY <1>0, <2>4, <3>1
      <4>3. buffered' + filed' = buffered + filed + 0
        BY <1>i, <3>0, Zero
      <4> QED BY <4>1, <4>2, <4>3 DEF Moved
    <3>4. Unaccounted' = Unaccounted
      BY <1>0, <3>2, <3>3, Balance
    <3> QED BY <1>t, <2>1, <2>4, <3>2, <3>4 DEF TakenForNotice
  <2> QED BY <1>4, <2>6, <2>7 DEF HandleRow, Unwritten, PartlyWritten
<1>w. CASE WriteOut
  <2>1. /\ UNCHANGED <<publisher, setting, queue, usage, drops, writer, offered>>
        /\ buffered' \in Int /\ filed' \in Int /\ buffered' + filed' = buffered + filed
    BY <1>0, <1>w DEF WriteOut, TraceTyped
  <2>2. TraceTyped'
    BY <1>t, <2>1 DEF TraceTyped
  <2>3. Moved(0, 0, 0, 0)
    <3>1. offered' = offered + 0 /\ usage' = usage + 0 /\ buffered' + filed' = buffered + filed + 0
      BY <1>i, <2>1, Zero
    <3>2. Total(drops') + Total(writer'.taken) = Total(drops) + Total(writer.taken) + 0
      BY <1>0, <2>1
    <3> QED BY <3>1, <3>2 DEF Moved
  <2>4. Unaccounted' = Unaccounted
    BY <1>0, <2>2, <2>3, Balance
  <2> QED BY <1>t, <2>1, <2>2, <2>4 DEF TakenForNotice
<1>5. ASSUME NEW stage \in {"notice", "noticeFirst"}, writer.at = "idle", EmitNotice(stage),
             UNCHANGED <<publisher, setting, queue, usage, offered, buffered, filed>>
      PROVE  Balanced
  <2>1. writer.taken = NoDrops /\ Total(writer.taken) = 0
    BY <1>t, <1>5, Sums DEF TakenForNotice
  <2>2. writer'.taken = drops /\ writer'.at = stage /\ drops' = NoDrops
    BY <1>t, <1>5 DEF EmitNotice, TraceTyped, Writers
  <2>3. TraceTyped'
    BY <1>t, <1>5, Sums DEF EmitNotice, TraceTyped, Writers
  <2>4. Unaccounted' = Unaccounted
    <3>1. Total(drops') = 0 /\ Total(writer'.taken) = Total(drops)
      BY <2>2, Sums
    <3>2. Moved(0, 0, 0, 0)
      BY <1>0, <1>i, <1>5, <2>1, <3>1 DEF Moved
    <3> QED BY <1>0, <2>3, <3>2, Balance
  <2> QED BY <1>t, <1>5, <2>2, <2>3, <2>4 DEF TakenForNotice
<1>6. CASE TakeDrops
  BY <1>5, <1>6 DEF TakeDrops
<1>7. CASE BeginConfigure
  <2>1. CASE NoticeDue
    BY <1>5, <1>7, <2>1 DEF BeginConfigure
  <2>2. CASE ~NoticeDue
    <3>1. /\ writer.at = "idle" /\ writer' = [writer EXCEPT !.at = "configure"]
          /\ UNCHANGED <<drops, publisher, setting, queue, usage, offered, buffered, filed>>
      BY <1>7, <2>2 DEF BeginConfigure
    <3>2. TraceTyped' /\ writer'.taken = writer.taken
      BY <1>t, <3>1 DEF TraceTyped, Writers
    <3> QED BY <1>t, <3>1, <3>2 DEF TakenForNotice, Unaccounted, RowsSeen
  <2> QED BY <2>1, <2>2
<1>8. CASE AppendNotice
  <2> DEFINE Resumed(file) == [file EXCEPT !.taken = NoDrops, !.at = IF @ = "notice" THEN "idle" ELSE "configure"]
  <2>1. UNCHANGED <<publisher, setting, queue, usage, offered>> /\ writer.at \in {"notice", "noticeFirst"}
    BY <1>8 DEF AppendNotice
  <2>2. writer' \in {Resumed(writer), Resumed(Written)}
    BY <1>8 DEF AppendNotice
  <2>3. Written \in Writers
    BY <1>t, WrittenKeeps DEF TraceTyped, Writers
  <2>4. /\ writer' \in Writers
        /\ writer'.taken = NoDrops
    BY <1>t, <2>2, <2>3, Sums DEF TraceTyped, Writers
  <2>5. CASE Put(Total(writer.taken)) /\ drops' = drops
    <3>0. buffered' \in Int /\ filed' \in Int /\ buffered' + filed' = buffered + filed + Total(writer.taken)
      BY <1>0, <2>5, Puts
    <3>1. TraceTyped'
      BY <1>0, <2>1, <2>4, <2>5, <3>0 DEF TraceTyped, Writers
    <3>2. Total(writer'.taken) = 0 /\ Total(drops') = Total(drops)
      BY <2>4, <2>5, Sums
    <3>4. Moved(0, 0, Total(writer.taken), -Total(writer.taken))
      BY <1>0, <1>i, <2>1, <3>0, <3>2 DEF Moved
    <3>3. Unaccounted' = Unaccounted
      BY <1>0, <3>1, <3>4, Balance
    <3> QED BY <1>t, <2>4, <3>1, <3>3 DEF TakenForNotice
  <2>6. CASE drops' = Plus(drops, writer.taken) /\ (UNCHANGED <<buffered, filed>> \/ Put(0))
    <3>0. buffered' \in Int /\ filed' \in Int /\ buffered' + filed' = buffered + filed
      BY <1>0, <2>6, Puts DEF TraceTyped
    <3>1. drops' \in Counts /\ Total(drops') = Total(drops) + Total(writer.taken)
      BY <1>0, <2>6, Sums DEF TraceTyped, Writers
    <3>2. TraceTyped'
      BY <1>t, <2>1, <2>4, <2>6, <3>0, <3>1 DEF TraceTyped, Writers
    <3>3. Total(writer'.taken) = 0
      BY <2>4, Sums
    <3>5. Moved(0, 0, 0, 0)
      BY <1>0, <1>i, <2>1, <3>0, <3>1, <3>3 DEF Moved
    <3>4. Unaccounted' = Unaccounted
      BY <1>0, <3>2, <3>5, Balance
    <3> QED BY <1>t, <2>4, <3>2, <3>4 DEF TakenForNotice
  <2> QED BY <1>8, <2>5, <2>6 DEF AppendNotice
<1>9. ASSUME HandleConfigure PROVE Balanced \/ Closing
  <2>1. /\ writer.at = "configure" /\ queue # <<>> /\ queue' = Tail(queue)
        /\ UNCHANGED <<publisher, usage, drops, offered>>
    BY <1>9 DEF HandleConfigure, ConfigureAtHand
  <2>2. Head(queue).config \in Configurations /\ queue' \in Seq(Commands)
    <3>1. Head(queue) \in Commands /\ queue' \in Seq(Commands)
      BY <1>t, <2>1, FirstOut DEF TraceTyped, Writers
    <3> QED BY <3>1 DEF Commands
  <2>3. CASE /\ writer' = [writer EXCEPT !.at = "idle", !.config = Head(queue).config, !.size = 0,
                                         !.open = Head(queue).config.profile # "off"]
             /\ setting' = [setting EXCEPT !.at = "applied"] /\ buffered' = 0
             /\ \E units \in 0 .. buffered :
                   /\ Head(queue).config.profile # "off" => units = buffered
                   /\ filed' = filed + units
    <3>1. PICK config \in Configurations, open \in BOOLEAN :
              writer' = Opened(writer, config, open)
      BY <2>2, <2>3 DEF Opened
    <3>2. /\ writer' \in Writers
          /\ writer'.taken = writer.taken
      <4>1. writer \in Writers
        BY <1>t DEF TraceTyped
      <4> QED BY <3>1, <4>1, Reconfigured, Zenon
    <3>3. setting' \in [at : {"idle", "waiting", "applied", "refused"}, previous : Configurations, id : Int]
      BY <1>t, <2>3 DEF TraceTyped, Writers
    <3>4. PICK units \in 0 .. buffered :
              /\ buffered' = 0 /\ filed' = filed + units
              /\ Head(queue).config.profile # "off" => units = buffered
      BY <2>3
    <3>5. TraceTyped'
      BY <1>t, <2>1, <2>2, <3>2, <3>3, <3>4 DEF TraceTyped, Writers
    <3>6. TakenForNotice'
      BY <1>t, <2>1, <3>2 DEF TakenForNotice
    <3>7. Total(writer'.taken) = Total(writer.taken) /\ Total(drops') = Total(drops)
      BY <2>1, <3>2
    <3>8. Moved(0, 0, units - buffered, 0)
      BY <1>0, <1>i, <2>1, <3>4, <3>7 DEF Moved
    <3>9. Unaccounted' = Unaccounted + (buffered - units) /\ Unaccounted \in Int
      BY <1>0, <1>i, <3>5, <3>8, Balance
    <3>10. CASE Head(queue).config.profile = "off"
      BY <1>i, <2>1, <3>5, <3>6, <3>9, <3>10 DEF Closing
    <3>11. CASE Head(queue).config.profile # "off"
      BY <1>i, <3>4, <3>5, <3>6, <3>9, <3>11
    <3> QED BY <3>10, <3>11
  <2>4. CASE /\ writer' = [writer EXCEPT !.at = "idle"] /\ setting' = [setting EXCEPT !.at = "refused"]
             /\ UNCHANGED <<buffered, filed>>
    <3>1. TraceTyped' /\ writer'.taken = writer.taken
      BY <1>t, <2>1, <2>2, <2>4 DEF TraceTyped, Writers
    <3> QED BY <1>t, <2>1, <2>4, <3>1 DEF TakenForNotice, Unaccounted, RowsSeen
  <2> QED BY <1>9, <2>3, <2>4 DEF HandleConfigure
<1>10. CASE UNCHANGED traceVars
  BY <1>t, <1>10 DEF traceVars, TraceTyped, TakenForNotice, Unaccounted, RowsSeen
<1> QED
  BY <1>1, <1>2, <1>3, <1>4, <1>w, <1>6, <1>7, <1>8, <1>9, <1>10 DEF TraceNext, Profiles

-----------------------------------------------------------------------------
(* Rows land in files of their own configuration. *)

LEMMA OrderInit == TraceInit => ConfigureAtHand /\ RowsTold
<1> SUFFICES ASSUME TraceInit PROVE ConfigureAtHand /\ RowsTold
  OBVIOUS
<1>1. queue = <<>> /\ writer.at = "idle" /\ setting.at = "idle" /\ publisher = writer.config
  BY DEF TraceInit
<1> QED
  BY <1>1 DEF ConfigureAtHand, RowsTold

\* A row at the head is of the writer's configuration, or stale.
LEMMA HeadTold ==
    ASSUME TraceTyped, RowsTold, queue # <<>>, queue[1].kind = "row"
    PROVE  Told(1)
<1>1. Len(queue) \in Nat \ {0}
  BY FirstOut DEF TraceTyped
<1>2. CASE setting.at # "waiting"
  BY <1>1, <1>2 DEF RowsTold
<1>3. CASE setting.at = "waiting"
  <2>1. PICK k \in 1 .. Len(queue) : AskedAt(k)
    BY <1>3 DEF RowsTold
  <2>2. k # 1
    BY <2>1 DEF AskedAt
  <2> QED BY <1>1, <2>1, <2>2 DEF AskedAt
<1> QED
  BY <1>2, <1>3

\* The writer takes what is at the head, and stays as it is.
LEMMA RowTaken ==
    ASSUME TraceTyped, RowsTold, queue # <<>>, queue[1].kind = "row", queue' = Tail(queue),
           writer'.config = writer.config, UNCHANGED <<publisher, setting>>
    PROVE  RowsTold'
<1>1. /\ Len(queue) \in Nat \ {0} /\ Len(queue') = Len(queue) - 1
      /\ \A i \in 1 .. Len(queue) - 1 : queue'[i] = queue[i + 1]
  BY FirstOut DEF TraceTyped
<1>2. ASSUME NEW i \in 1 .. Len(queue'), Told(i + 1) PROVE Told(i)'
  BY <1>1, <1>2 DEF Told
<1>3. CASE setting.at # "waiting"
  <2>1. \A i \in 1 .. Len(queue') : Told(i + 1)
    BY <1>1, <1>3 DEF RowsTold
  <2> QED BY <1>2, <1>3, <2>1 DEF RowsTold, Behind
<1>4. CASE setting.at = "waiting"
  <2>1. PICK k \in 1 .. Len(queue) : AskedAt(k)
    BY <1>4 DEF RowsTold
  <2>2. k # 1 /\ k - 1 \in 1 .. Len(queue')
    BY <1>1, <2>1 DEF AskedAt
  <2>3. queue'[k - 1].kind = "configure" /\ queue'[k - 1].config = publisher'
    BY <1>1, <2>1, <2>2 DEF AskedAt
  <2>4. \A i \in 1 .. k - 2 : Told(i)'
    BY <1>1, <1>2, <2>1, <2>2 DEF AskedAt
  <2>5. \A i \in k .. Len(queue') : queue'[i].kind = "row" /\ queue'[i].config = publisher'
    BY <1>1, <2>1, <2>2 DEF AskedAt
  <2>6. AskedAt(k - 1)'
    BY <1>1, <2>2, <2>3, <2>4, <2>5 DEF AskedAt
  <2> QED BY <1>4, <2>2, <2>6 DEF RowsTold, Behind
<1> QED
  BY <1>3, <1>4

\* The writer comes to a configuration: no other is in the queue.
LEMMA HeadAsked ==
    ASSUME TraceTyped, RowsTold, queue # <<>>, queue[1].kind = "configure"
    PROVE  setting.at = "waiting" /\ AskedAt(1)
<1>1. Len(queue) \in Nat \ {0}
  BY FirstOut DEF TraceTyped
<1>2. setting.at = "waiting"
  BY <1>1 DEF RowsTold, Told
<1>3. PICK k \in 1 .. Len(queue) : AskedAt(k)
  BY <1>2 DEF RowsTold
<1>4. k = 1
  BY <1>1, <1>3 DEF AskedAt, Told
<1> QED
  BY <1>2, <1>3, <1>4

LEMMA OrderStep == TraceInv /\ [TraceNext]_traceVars => ConfigureAtHand' /\ RowsTold'
<1> SUFFICES ASSUME TraceInv, [TraceNext]_traceVars PROVE ConfigureAtHand' /\ RowsTold'
  OBVIOUS
<1>0. TraceTyped /\ ConfigureAtHand /\ RowsTold /\ Len(queue) \in Nat
  BY DEF TraceInv, AccountInv, TraceTyped
<1>n. PICK n \in Nat : n = Len(queue)
  BY <1>0
<1>1. ASSUME NEW r \in Ranks, Record(r) PROVE ConfigureAtHand' /\ RowsTold'
  <2>1. UNCHANGED <<publisher, setting, writer>>
    BY <1>1 DEF Record
  <2>2. CASE queue' = queue
    BY <1>0, <2>1, <2>2 DEF ConfigureAtHand, RowsTold, Told, AskedAt, Behind
  <2>3. CASE queue' = Append(queue, [kind |-> "row", rank |-> r, config |-> publisher])
    <3> DEFINE row == [kind |-> "row", rank |-> r, config |-> publisher]
    <3>1. row \in Commands /\ row.kind = "row" /\ row.config = publisher
      BY <1>0 DEF TraceTyped, Commands
    <3>2. queue' = Append(queue, row)
      BY <2>3
    <3> HIDE DEF row
    <3>3. /\ Len(queue') = Len(queue) + 1 /\ queue'[Len(queue) + 1] = row
          /\ \A i \in 1 .. Len(queue) : queue'[i] = queue[i]
      BY <1>0, <3>1, <3>2, LastIn DEF TraceTyped
    <3>4. ConfigureAtHand'
      BY <1>0, <2>1, <3>2, <3>3, FirstOut DEF ConfigureAtHand, TraceTyped
    <3>5. \A i \in 1 .. Len(queue) : Told(i) => Told(i)'
      BY <2>1, <3>3 DEF Told
    <3>6. CASE setting.at # "waiting"
      <4>1. publisher.gen = writer.config.gen => publisher = writer.config
        BY <1>0, <3>6 DEF RowsTold, Behind, TraceTyped, Writers, Configurations
      <4>2. Told(n + 1)'
        BY <1>n, <2>1, <3>1, <3>3, <4>1 DEF Told
      <4>3. \A i \in 1 .. Len(queue') : Told(i)'
        BY <1>0, <1>n, <3>3, <3>5, <3>6, <4>2 DEF RowsTold
      <4> QED BY <1>0, <2>1, <3>4, <3>6, <4>3 DEF RowsTold, Behind
    <3>7. CASE setting.at = "waiting"
      <4>1. PICK k \in 1 .. Len(queue) : AskedAt(k)
        BY <1>0, <3>7 DEF RowsTold
      <4>2. AskedAt(k)'
        BY <1>0, <2>1, <3>1, <3>3, <3>5, <4>1 DEF AskedAt
      <4>3. k \in 1 .. Len(queue')
        BY <1>0, <3>3
      <4> QED BY <1>0, <2>1, <3>4, <3>7, <4>2, <4>3 DEF RowsTold, Behind
    <3> QED BY <3>6, <3>7
  <2> QED BY <1>1, <2>2, <2>3 DEF Record
<1>2. ASSUME NEW profile \in Profiles, OpenOutput(profile) PROVE ConfigureAtHand' /\ RowsTold'
  <2> DEFINE next == Configuration(profile, publisher.gen + 1, setting.id + 1)
             command == [kind |-> "configure", rank |-> 0, config |-> next]
  <2>1. next \in Configurations /\ next.gen = publisher.gen + 1
    BY <1>0 DEF TraceTyped, Configurations, Configuration
  <2>2. command \in Commands /\ command.kind = "configure" /\ command.config = next
    BY <2>1 DEF Commands, Ranks
  <2>3. /\ queue' = Append(queue, command) /\ publisher' = next /\ writer' = writer
        /\ setting.at = "idle" /\ setting'.at = "waiting" /\ setting'.previous = publisher
    BY <1>2 DEF OpenOutput
  <2> HIDE DEF next, command
  <2>4. /\ Len(queue') = Len(queue) + 1 /\ queue'[Len(queue) + 1] = command
        /\ \A i \in 1 .. Len(queue) : queue'[i] = queue[i]
    BY <1>0, <2>2, <2>3, LastIn DEF TraceTyped
  <2>5. ConfigureAtHand'
    BY <1>0, <2>3, <2>4, FirstOut DEF ConfigureAtHand, TraceTyped
  <2>6. \A i \in 1 .. Len(queue) : Told(i)'
    BY <1>0, <2>3, <2>4 DEF RowsTold, Told
  <2>7. AskedAt(n + 1)'
    BY <1>0, <1>n, <2>2, <2>3, <2>4, <2>6 DEF AskedAt
  <2>8. Behind'
    BY <1>0, <2>1, <2>3 DEF RowsTold, Behind
  <2> QED BY <1>0, <1>n, <2>3, <2>4, <2>5, <2>7, <2>8 DEF RowsTold
<1>3. CASE OutputReturns
  <2>1. /\ UNCHANGED <<queue, writer>> /\ setting.at \in {"applied", "refused"} /\ setting'.at = "idle"
        /\ publisher' = IF setting.at = "refused" THEN setting.previous ELSE publisher
    BY <1>0, <1>3 DEF OutputReturns, TraceTyped
  <2>2. ConfigureAtHand' /\ \A i \in 1 .. Len(queue') : Told(i)'
    BY <1>0, <2>1 DEF ConfigureAtHand, RowsTold, Told
  <2> QED BY <1>0, <2>1, <2>2 DEF RowsTold, Behind
<1>4. CASE HandleRow
  <2>1. /\ queue # <<>> /\ Head(queue).kind = "row" /\ queue' = Tail(queue)
        /\ writer' \in {writer, Written} /\ UNCHANGED <<publisher, setting>> /\ writer.at = "idle"
    BY <1>4 DEF HandleRow, Unwritten, PartlyWritten
  <2>2. queue[1].kind = "row" /\ writer'.config = writer.config /\ writer'.at = "idle"
    BY <1>0, <2>1, FirstOut, WrittenKeeps DEF TraceTyped
  <2>3. RowsTold'
    BY <1>0, <2>1, <2>2, RowTaken
  <2> QED BY <2>2, <2>3 DEF ConfigureAtHand
<1>5. ASSUME writer'.config = writer.config, UNCHANGED <<publisher, setting, queue>>,
             writer'.at \in {"noticeFirst", "configure"} => queue # <<>> /\ queue[1].kind = "configure"
      PROVE  ConfigureAtHand' /\ RowsTold'
  BY <1>0, <1>5 DEF ConfigureAtHand, RowsTold, Told, AskedAt, Behind
<1>6. CASE TakeDrops
  <2>1. writer'.config = writer.config /\ writer'.at = "notice" /\ UNCHANGED <<publisher, setting, queue>>
    BY <1>0, <1>6 DEF TakeDrops, EmitNotice, TraceTyped, Writers
  <2> QED BY <1>5, <2>1
<1>7. CASE BeginConfigure
  <2>1. writer'.config = writer.config /\ UNCHANGED <<publisher, setting, queue>>
    BY <1>0, <1>7 DEF BeginConfigure, EmitNotice, TraceTyped, Writers
  <2>2. queue # <<>> /\ queue[1].kind = "configure"
    BY <1>0, <1>7, FirstOut DEF BeginConfigure, TraceTyped
  <2> QED BY <1>5, <2>1, <2>2
<1>8. CASE AppendNotice
  <2> DEFINE Resumed(file) == [file EXCEPT !.taken = NoDrops, !.at = IF @ = "notice" THEN "idle" ELSE "configure"]
  <2>1. /\ UNCHANGED <<publisher, setting, queue>> /\ writer.at \in {"notice", "noticeFirst"}
        /\ writer' \in {Resumed(writer), Resumed(Written)}
    BY <1>8 DEF AppendNotice
  <2>2. Written \in Writers /\ writer \in Writers /\ Written.at = writer.at /\ Written.config = writer.config
    BY <1>0, WrittenKeeps DEF TraceTyped, Writers
  <2>3. writer'.config = writer.config /\ (writer'.at = "configure" => writer.at = "noticeFirst") /\ writer'.at # "noticeFirst"
    BY <2>1, <2>2 DEF Writers
  <2> QED BY <1>0, <1>5, <2>1, <2>3 DEF ConfigureAtHand
<1>9. CASE HandleConfigure
  <2>1. queue # <<>> /\ queue[1].kind = "configure" /\ writer.at = "configure" /\ Head(queue) = queue[1]
    BY <1>0, <1>9, FirstOut DEF HandleConfigure, ConfigureAtHand, TraceTyped
  <2>2. setting.at = "waiting" /\ AskedAt(1) /\ Behind
    BY <1>0, <2>1, HeadAsked DEF RowsTold
  <2>3. /\ queue' = Tail(queue) /\ publisher' = publisher /\ Len(queue) \in Nat \ {0} /\ Len(queue') = Len(queue) - 1
        /\ \A i \in 1 .. Len(queue) - 1 : queue'[i] = queue[i + 1]
    BY <1>0, <1>9, <2>1, FirstOut DEF HandleConfigure, TraceTyped
  <2>4. \A i \in 1 .. Len(queue') : queue'[i].kind = "row" /\ queue'[i].config = publisher
    BY <2>2, <2>3 DEF AskedAt
  <2>5. CASE /\ writer' = [writer EXCEPT !.at = "idle", !.config = Head(queue).config, !.size = 0,
                                         !.open = Head(queue).config.profile # "off"]
             /\ setting' = [setting EXCEPT !.at = "applied"]
    <3>1. publisher \in Configurations /\ writer \in Writers /\ Head(queue).config = publisher
      BY <1>0, <2>1, <2>2 DEF TraceTyped, AskedAt
    <3>2. PICK open \in BOOLEAN : writer' = Opened(writer, publisher, open)
      BY <2>5, <3>1 DEF Opened
    <3>3. writer'.config = publisher /\ writer'.at = "idle"
      BY <3>1, <3>2, Reconfigured, Zenon
    <3>4. setting'.at = "applied"
      BY <1>0, <2>5 DEF TraceTyped
    <3> QED BY <2>3, <2>4, <3>3, <3>4 DEF ConfigureAtHand, RowsTold, Told
  <2>6. CASE writer' = [writer EXCEPT !.at = "idle"] /\ setting' = [setting EXCEPT !.at = "refused"]
    <3>1. writer'.config = writer.config /\ writer'.at = "idle" /\ setting'.at = "refused" /\ setting'.previous = setting.previous
      BY <1>0, <2>6 DEF TraceTyped, Writers
    <3>2. Behind' /\ publisher.gen # writer.config.gen
      BY <1>0, <2>2, <2>3, <3>1 DEF Behind, TraceTyped, Writers, Configurations
    <3> QED BY <2>3, <2>4, <3>1, <3>2 DEF ConfigureAtHand, RowsTold, Told
  <2> QED BY <1>9, <2>5, <2>6 DEF HandleConfigure
<1>10. CASE WriteOut \/ UNCHANGED traceVars
  <2>1. UNCHANGED <<publisher, setting, queue, writer>>
    BY <1>10 DEF WriteOut, traceVars
  <2> QED BY <1>0, <1>5, <2>1 DEF ConfigureAtHand
<1> QED
  BY <1>1, <1>2, <1>3, <1>4, <1>6, <1>7, <1>8, <1>9, <1>10 DEF TraceNext, Profiles

\* The invariant holds of every behaviour.
THEOREM Recorder == TraceSpec => []TraceInv
<1>1. TraceInit => TraceInv
  BY AccountInit, OrderInit DEF TraceInv
<1>2. ASSUME TraceInv, [TraceNext]_traceVars PROVE TraceInv'
  <2>1. Balanced \/ Closing
    BY <1>2, AccountStep DEF TraceInv
  <2>2. TraceTyped /\ Unaccounted >= 0 /\ TraceTyped'
    BY <1>2, <2>1 DEF TraceInv, AccountInv, Balanced, Closing
  <2>3. Unaccounted' >= 0
    BY <2>1, <2>2, Wholes DEF Balanced, Closing
  <2>4. AccountInv'
    BY <2>1, <2>3 DEF Balanced, Closing, AccountInv
  <2> QED BY <1>2, <2>4, OrderStep DEF TraceInv
<1> QED
  BY <1>1, <1>2, PTL DEF TraceSpec

\* EveryRowAccounted whatever the bounds: no step loses a row without counting it, or counts one
\* twice, but a configuration that turns the recorder off, and that at most what the write buffer
\* held; also when a notice cannot be written and publishers go on counting (writer.rs).
THEOREM RowsAccounted == TraceSpec => EveryRowAccounted
<1>1. ASSUME TraceInv, [TraceNext]_traceVars, Unaccounted' # Unaccounted
      PROVE  /\ writer.at = "configure" /\ Head(queue).config.profile = "off"
             /\ Unaccounted' - Unaccounted \in 1 .. buffered
  <2>1. Closing
    BY <1>1, AccountStep DEF TraceInv, Balanced
  <2>2. TraceTyped /\ TraceTyped'
    BY <1>1, <2>1 DEF TraceInv, AccountInv, Closing
  <2> QED BY <1>1, <2>1, <2>2, Wholes DEF Closing
<1>2. TraceInv /\ [TraceNext]_traceVars =>
          [Unaccounted' # Unaccounted =>
               /\ writer.at = "configure" /\ Head(queue).config.profile = "off"
               /\ Unaccounted' - Unaccounted \in 1 .. buffered]_traceVars
  BY <1>1
<1> QED
  BY <1>2, Recorder, PTL DEF TraceSpec, EveryRowAccounted

\* RowsOfTheirConfiguration whatever the bounds: a row is written to a file of the configuration it
\* was published under, although a refused configuration's generation is given to the next
\* (runtime_state.rs).
THEOREM RowsOfOwnConfiguration == TraceSpec => RowsOfTheirConfiguration
<1>1. ASSUME TraceInv, [TraceNext]_traceVars, writer.at = "idle", buffered' + filed' # buffered + filed
      PROVE  Head(queue).config = writer.config
  <2>0. TraceTyped /\ RowsTold
    BY <1>1 DEF TraceInv, AccountInv
  <2>1. ~WriteOut /\ ~AppendNotice /\ ~HandleConfigure
    BY <1>1, <2>0 DEF WriteOut, AppendNotice, HandleConfigure, TraceTyped
  <2>2. HandleRow
    BY <1>1, <2>1 DEF TraceNext, traceVars, Record, OpenOutput, OutputReturns, TakeDrops, BeginConfigure
  <2>3. CASE Unwritten
    BY <1>1, <2>3 DEF Unwritten
  <2>4. CASE ~Unwritten
    <3>1. queue # <<>> /\ Head(queue).kind = "row" /\ writer.config.gen = Head(queue).config.gen
      BY <2>2, <2>4 DEF HandleRow, Current
    <3>2. Head(queue) = queue[1] /\ Told(1)
      BY <2>0, <3>1, FirstOut, HeadTold DEF TraceTyped
    <3> QED BY <3>1, <3>2 DEF Told
  <2> QED BY <2>3, <2>4
<1>2. TraceInv /\ [TraceNext]_traceVars =>
          [writer.at = "idle" /\ buffered' + filed' # buffered + filed => Head(queue).config = writer.config]_traceVars
  BY <1>1
<1> QED
  BY <1>2, Recorder, PTL DEF TraceSpec, RowsOfTheirConfiguration

-----------------------------------------------------------------------------
(* The types and the bounds of the recorder.                               *)

\* Generations and names are given out one by one.
Given(config) == config.gen \in 1 .. setting.id /\ config.id \in 1 .. setting.id

\* What a configuration asked for adds to the queue.
BeingAsked == IF setting.at = "waiting" THEN 1 ELSE 0

\* The queue holds the rows of the budget and at most one configuration; every count is one of rows.
TraceBounded ==
    /\ setting.id \in 1 .. MaxConfigs /\ Given(publisher) /\ Given(setting.previous)
    /\ Len(queue) = usage + BeingAsked /\ usage <= QueueMax
    /\ drops \in [Ranks -> Nat] /\ writer.taken \in [Ranks -> Nat]
    /\ offered <= MaxRows /\ buffered \in Nat /\ filed \in Nat
    /\ writer.size \in 0 .. FileMax

\* The sum of the counts of a trace bounds each of them.
LEMMA CountsAdd ==
    ASSUME NEW counts \in [Ranks -> Nat]
    PROVE  Total(counts) \in Nat /\ \A r \in Ranks : counts[r] <= Total(counts)
<1>1. counts[0] \in Nat /\ counts[1] \in Nat /\ counts[2] \in Nat
  BY DEF Ranks
<1> QED
  BY <1>1 DEF Total, Ranks

LEMMA CountsStay ==
    /\ NoDrops \in [Ranks -> Nat]
    /\ \A a, b \in [Ranks -> Nat] : Plus(a, b) \in [Ranks -> Nat]
    /\ drops \in [Ranks -> Nat] => \A r \in Ranks : Note(r) \in [Ranks -> Nat]
BY DEF NoDrops, Plus, Note

LEMMA TraceBoundedInit == TraceInit => TraceBounded
BY TraceAssumption, CountsStay DEF TraceInit, TraceBounded, Given, BeingAsked, Configuration

LEMMA TraceBoundedStep == TraceInv /\ TraceBounded /\ [TraceNext]_traceVars => TraceBounded'
<1> SUFFICES ASSUME TraceInv, TraceBounded, [TraceNext]_traceVars PROVE TraceBounded'
  OBVIOUS
<1> USE TraceAssumption
<1>0. /\ TraceTyped /\ ConfigureAtHand /\ RowsTold /\ Len(queue) \in Nat /\ writer \in Writers
      /\ usage \in Int /\ offered \in Int
  BY DEF TraceInv, AccountInv, TraceTyped
<1>w. writer.size \in 0 .. FileMax /\ Written.size \in 0 .. FileMax /\ Written \in Writers /\ Written.taken = writer.taken
  <2>1. writer.size \in 0 .. FileMax
    BY DEF TraceBounded
  <2>2. Written.size = IF writer.size = FileMax THEN 1 ELSE writer.size + 1
    BY <1>0 DEF Written, Full, Writers
  <2>3. Written \in Writers /\ Written.taken = writer.taken
    BY <1>0, <2>1, WrittenKeeps DEF Writers
  <2> QED BY <2>1, <2>2, <2>3
<1>p. \A units \in Nat : Put(units) => buffered' \in Nat /\ filed' \in Nat
  BY DEF Put, TraceBounded
<1>1. ASSUME NEW r \in Ranks, Record(r) PROVE TraceBounded'
  <2>1. /\ UNCHANGED <<publisher, setting, writer, buffered, filed>> /\ offered' = offered + 1 /\ offered < MaxRows
    BY <1>1 DEF Record
  <2>2. UNCHANGED BeingAsked /\ (Given(publisher) <=> Given(publisher)') /\ (Given(setting.previous) <=> Given(setting.previous)')
    BY <2>1 DEF BeingAsked, Given
  <2>3. CASE usage' = usage + 1 /\ drops' = drops /\ CanReserve(r)
             /\ queue' = Append(queue, [kind |-> "row", rank |-> r, config |-> publisher])
    <3>1. [kind |-> "row", rank |-> r, config |-> publisher] \in Commands
      BY <1>0 DEF TraceTyped, Commands
    <3>2. Len(queue') = Len(queue) + 1
      BY <1>0, <2>3, <3>1, LastIn DEF TraceTyped
    <3>3. usage' <= QueueMax
      BY <1>0, <2>3 DEF CanReserve, Ranks
    <3>4. BeingAsked \in {0, 1}
      BY DEF BeingAsked
    <3> QED BY <1>0, <2>1, <2>2, <2>3, <3>2, <3>3, <3>4 DEF TraceBounded
  <2>4. CASE drops' = Note(r) /\ UNCHANGED <<queue, usage>>
    BY <1>0, <2>1, <2>2, <2>4, CountsStay DEF TraceBounded
  <2> QED BY <1>1, <2>3, <2>4 DEF Record
<1>2. ASSUME NEW profile \in Profiles, OpenOutput(profile) PROVE TraceBounded'
  <2> DEFINE next == Configuration(profile, publisher.gen + 1, setting.id + 1)
             command == [kind |-> "configure", rank |-> 0, config |-> next]
  <2>1. next \in Configurations /\ next.gen = publisher.gen + 1 /\ next.id = setting.id + 1
    BY <1>0 DEF TraceTyped, Configurations, Configuration
  <2>2. command \in Commands
    BY <2>1 DEF Commands, Ranks
  <2>3. /\ queue' = Append(queue, command) /\ publisher' = next
        /\ setting.at = "idle" /\ setting' = [at |-> "waiting", previous |-> publisher, id |-> setting.id + 1]
        /\ setting.id < MaxConfigs /\ UNCHANGED <<usage, drops, writer, offered, buffered, filed>>
    BY <1>2 DEF OpenOutput
  <2> HIDE DEF next, command
  <2>4. Len(queue') = Len(queue) + 1
    BY <1>0, <2>2, <2>3, LastIn DEF TraceTyped
  <2>5. BeingAsked = 0 /\ BeingAsked' = 1
    BY <2>3 DEF BeingAsked
  <2>6. setting'.id = setting.id + 1 /\ setting'.previous = publisher /\ setting.id \in Int
    BY <1>0, <2>3 DEF TraceTyped
  <2>7. setting'.id \in 1 .. MaxConfigs /\ Given(publisher)' /\ Given(setting.previous)'
    <3>1. setting.id \in 1 .. MaxConfigs /\ publisher.gen \in 1 .. setting.id /\ publisher.id \in 1 .. setting.id
      BY DEF TraceBounded, Given
    <3>2. setting'.id \in 1 .. MaxConfigs
      BY <2>3, <2>6, <3>1
    <3>3. publisher'.gen \in 1 .. setting'.id /\ publisher'.id \in 1 .. setting'.id
      BY <2>1, <2>3, <2>6, <3>1
    <3>4. setting'.previous.gen \in 1 .. setting'.id /\ setting'.previous.id \in 1 .. setting'.id
      BY <2>6, <3>1
    <3> QED BY <3>2, <3>3, <3>4 DEF Given
  <2> QED BY <1>0, <2>3, <2>4, <2>5, <2>7 DEF TraceBounded
<1>3. CASE OutputReturns
  <2>1. /\ publisher' \in {publisher, setting.previous} /\ BeingAsked = 0 /\ BeingAsked' = 0
        /\ setting'.id = setting.id /\ setting'.previous = setting.previous
        /\ UNCHANGED <<queue, usage, drops, writer, offered, buffered, filed>>
    BY <1>0, <1>3 DEF OutputReturns, BeingAsked, TraceTyped
  <2> QED BY <2>1 DEF TraceBounded, Given
<1>s. ASSUME UNCHANGED <<publisher, setting, offered>>,
             UNCHANGED <<queue, usage>> \/ (queue # <<>> /\ queue' = Tail(queue) /\ usage' = usage - 1),
             drops' \in [Ranks -> Nat], writer'.taken \in [Ranks -> Nat], writer'.size \in 0 .. FileMax, buffered' \in Nat, filed' \in Nat
      PROVE  TraceBounded'
  <2>1. UNCHANGED BeingAsked /\ BeingAsked \in {0, 1} /\ Given(publisher)' /\ Given(setting.previous)'
    BY <1>s DEF BeingAsked, Given, TraceBounded
  <2>2. Len(queue') = usage' + BeingAsked
    BY <1>0, <1>s, <2>1, FirstOut DEF TraceBounded, TraceTyped
  <2> QED BY <1>0, <1>s, <2>1, <2>2 DEF TraceBounded
<1>4. CASE HandleRow
  <2>1. /\ queue # <<>> /\ queue' = Tail(queue) /\ usage' = usage - 1 /\ writer' \in {writer, Written}
        /\ UNCHANGED <<publisher, setting, offered>>
    BY <1>4 DEF HandleRow, Unwritten, PartlyWritten
  <2>2. Head(queue).rank \in Ranks
    BY <1>0, <2>1, FirstOut DEF TraceTyped, Commands
  <2>3. drops' \in [Ranks -> Nat]
    BY SMTT(20), <1>4, <2>2, CountsStay DEF HandleRow, TraceBounded
  <2>4. writer'.taken \in [Ranks -> Nat] /\ writer'.size \in 0 .. FileMax
    BY <1>w, <2>1 DEF TraceBounded
  <2>5. buffered' \in Nat /\ filed' \in Nat
    BY <1>4, <1>p DEF HandleRow, Unwritten, PartlyWritten, TraceBounded
  <2> QED BY <1>s, <2>1, <2>3, <2>4, <2>5
<1>5. ASSUME NEW stage, EmitNotice(stage), UNCHANGED <<publisher, setting, queue, usage, offered, buffered, filed>>
      PROVE  TraceBounded'
  <2>1. writer'.taken = drops /\ writer'.size = writer.size /\ drops' = NoDrops
    BY <1>0, <1>5 DEF EmitNotice, Writers
  <2>2. writer'.taken \in [Ranks -> Nat] /\ writer'.size \in 0 .. FileMax /\ drops' \in [Ranks -> Nat]
    BY <2>1, CountsStay DEF TraceBounded
  <2>3. buffered' \in Nat /\ filed' \in Nat
    BY <1>5 DEF TraceBounded
  <2> QED BY <1>s, <1>5, <2>2, <2>3
<1>6. CASE TakeDrops
  BY <1>5, <1>6 DEF TakeDrops
<1>7. CASE BeginConfigure
  <2>1. CASE NoticeDue
    BY <1>5, <1>7, <2>1 DEF BeginConfigure
  <2>2. CASE ~NoticeDue
    <3>1. /\ writer' = [writer EXCEPT !.at = "configure"]
          /\ UNCHANGED <<drops, publisher, setting, queue, usage, offered, buffered, filed>>
      BY <1>7, <2>2 DEF BeginConfigure
    <3>2. writer'.taken = writer.taken /\ writer'.size = writer.size
      BY <1>0, <3>1 DEF Writers
    <3> QED BY <1>s, <3>1, <3>2 DEF TraceBounded
  <2> QED BY <2>1, <2>2
<1>8. CASE AppendNotice
  <2> DEFINE Resumed(file) == [file EXCEPT !.taken = NoDrops, !.at = IF @ = "notice" THEN "idle" ELSE "configure"]
  <2>1. UNCHANGED <<publisher, setting, queue, usage, offered>> /\ writer' \in {Resumed(writer), Resumed(Written)}
    BY <1>8 DEF AppendNotice
  <2>2. writer'.taken = NoDrops /\ writer'.size \in {writer.size, Written.size}
    BY <1>0, <1>w, <2>1 DEF Writers
  <2>3. writer'.taken \in [Ranks -> Nat] /\ writer'.size \in 0 .. FileMax
    BY <1>w, <2>2, CountsStay
  <2>4. drops' \in [Ranks -> Nat]
    <3>1. drops' \in {drops, Plus(drops, writer.taken)}
      BY <1>8 DEF AppendNotice
    <3>2. drops \in [Ranks -> Nat] /\ writer.taken \in [Ranks -> Nat]
      BY DEF TraceBounded
    <3>3. Plus(drops, writer.taken) \in [Ranks -> Nat]
      BY <3>2, CountsStay
    <3> QED BY <3>1, <3>2, <3>3
  <2>5. Total(writer.taken) \in Nat
    BY CountsAdd DEF TraceBounded
  <2>6. UNCHANGED <<buffered, filed>> \/ Put(Total(writer.taken)) \/ Put(0)
    BY <1>8 DEF AppendNotice
  <2>7. buffered' \in Nat /\ filed' \in Nat
    BY <1>p, <2>5, <2>6 DEF TraceBounded
  <2> QED BY <1>s, <2>1, <2>3, <2>4, <2>7
<1>9. CASE HandleConfigure
  <2>1. /\ writer.at = "configure" /\ queue # <<>> /\ queue' = Tail(queue)
        /\ UNCHANGED <<publisher, usage, drops, offered>>
    BY <1>0, <1>9 DEF HandleConfigure, ConfigureAtHand
  <2>2. setting.at = "waiting" /\ BeingAsked = 1 /\ Head(queue) = queue[1] /\ Head(queue) \in Commands
    BY <1>0, <2>1, FirstOut, HeadAsked DEF ConfigureAtHand, BeingAsked, TraceTyped
  <2>3. setting' = [setting EXCEPT !.at = "applied"] \/ setting' = [setting EXCEPT !.at = "refused"]
    BY <1>9 DEF HandleConfigure
  <2>4. setting'.id = setting.id /\ setting'.previous = setting.previous /\ BeingAsked' = 0
    BY <1>0, <2>3 DEF TraceTyped, BeingAsked
  <2>5. Len(queue') = usage' + BeingAsked'
    BY <1>0, <2>1, <2>2, <2>4, FirstOut DEF TraceBounded, TraceTyped
  <2>6. Given(publisher)' /\ Given(setting.previous)' /\ setting'.id \in 1 .. MaxConfigs
    BY <2>1, <2>4 DEF Given, TraceBounded
  <2>7. writer'.taken = writer.taken /\ writer'.size \in {0, writer.size}
    <3>1. CASE writer' = [writer EXCEPT !.at = "idle"]
      BY <1>0, <3>1 DEF Writers
    <3>2. CASE writer' = Opened(writer, Head(queue).config, Head(queue).config.profile # "off")
      <4>1. Head(queue).config \in Configurations
        BY <2>2 DEF Commands
      <4>2. writer'.taken = writer.taken
        BY <1>0, <3>2, <4>1, Reconfigured, Zenon
      <4>3. Opened(writer, Head(queue).config, Head(queue).config.profile # "off").size = 0
        BY <1>0, OpenedIsEmpty, <4>1
      <4> QED BY <3>2, <4>2, <4>3
    <3> QED BY <1>9, <3>1, <3>2 DEF HandleConfigure, Opened
  <2>8. buffered' \in Nat /\ filed' \in Nat
    <3>1. \/ UNCHANGED <<buffered, filed>>
          \/ buffered' = 0 /\ \E units \in 0 .. buffered : filed' = filed + units
      BY <1>9 DEF HandleConfigure
    <3> QED BY <3>1 DEF TraceBounded
  <2>9. usage' <= QueueMax /\ offered' <= MaxRows /\ drops' \in [Ranks -> Nat]
    BY <2>1 DEF TraceBounded
  <2>10. writer'.taken \in [Ranks -> Nat] /\ writer'.size \in 0 .. FileMax
    BY <2>7 DEF TraceBounded
  <2> QED BY <2>5, <2>6, <2>8, <2>9, <2>10 DEF TraceBounded
<1>10. CASE UNCHANGED traceVars
  BY <1>10 DEF traceVars, TraceBounded, Given, BeingAsked
<1>11. CASE WriteOut
  <2>1. UNCHANGED <<publisher, setting, queue, usage, drops, writer, offered>> /\ buffered' \in Nat /\ filed' \in Nat
    BY <1>11 DEF WriteOut, TraceBounded
  <2>2. UNCHANGED BeingAsked /\ Given(publisher)' /\ Given(setting.previous)'
    BY <2>1 DEF BeingAsked, Given, TraceBounded
  <2> QED BY <2>1, <2>2 DEF TraceBounded
<1> QED
  BY <1>1, <1>2, <1>3, <1>4, <1>6, <1>7, <1>8, <1>9, <1>10, <1>11 DEF TraceNext, Profiles

\* The rows of the queue are those of the budget: all that it holds but a configuration asked for.
LEMMA RowsWaiting ==
    ASSUME TraceInv, TraceBounded
    PROVE  usage = Cardinality({i \in DOMAIN queue : queue[i].kind = "row"}) /\ usage \in Nat
<1> DEFINE rows == {i \in DOMAIN queue : queue[i].kind = "row"}
<1>0. /\ RowsTold /\ Len(queue) \in Nat /\ DOMAIN queue = 1 .. Len(queue) /\ usage \in Int /\ Len(queue) = usage + BeingAsked
  BY DEF TraceInv, AccountInv, TraceTyped, TraceBounded
<1>1. IsFiniteSet(1 .. Len(queue)) /\ Cardinality(1 .. Len(queue)) = Len(queue)
  BY <1>0, FS_Interval
<1>2. CASE setting.at # "waiting"
  <2>1. rows = 1 .. Len(queue)
    BY <1>0, <1>2 DEF RowsTold, Told
  <2>2. Cardinality(rows) = Len(queue)
    BY <1>1, <2>1
  <2>3. usage = Len(queue)
    BY <1>0, <1>2 DEF BeingAsked
  <2> QED BY <1>0, <2>2, <2>3
<1>3. CASE setting.at = "waiting"
  <2>1. PICK k \in 1 .. Len(queue) : AskedAt(k)
    BY <1>0, <1>3 DEF RowsTold
  <2>2. rows = (1 .. Len(queue)) \ {k}
    BY <1>0, <2>1 DEF AskedAt, Told
  <2>3. Cardinality(rows) = Len(queue) - 1
    BY ZenonT(30), <1>0, <1>1, <2>1, <2>2, FS_RemoveElement
  <2> QED BY <1>0, <1>3, <2>1, <2>3 DEF BeingAsked
<1> QED
  BY <1>2, <1>3

\* Whatever the bounds: the budget is the rows in the queue and never more than it admits, no count
\* is below zero or above the rows that were offered, and a file holds what it may (runtime_state.rs,
\* writer.rs).
THEOREM TraceTypesHold == TraceSpec => []TraceTypeOK
<1>1. TraceInv /\ TraceBounded => TraceTypeOK
  <2> SUFFICES ASSUME TraceInv, TraceBounded PROVE TraceTypeOK
    OBVIOUS
  <2>1. TraceTyped /\ Unaccounted >= 0
    BY DEF TraceInv, AccountInv
  <2>2. usage = Cardinality({i \in DOMAIN queue : queue[i].kind = "row"}) /\ usage \in Nat
    BY RowsWaiting
  <2>3. publisher.gen \in 1 .. MaxConfigs /\ publisher.id \in 1 .. MaxConfigs
    BY TraceAssumption DEF TraceBounded, Given
  <2>4. usage \in 0 .. QueueMax /\ Len(queue) <= QueueMax + 1
    BY <2>1, <2>2, TraceAssumption DEF TraceBounded, BeingAsked, TraceTyped
  <2>5. /\ Total(drops) \in Nat /\ Total(writer.taken) \in Nat
        /\ \A r \in Ranks : drops[r] <= Total(drops) /\ writer.taken[r] <= Total(writer.taken)
    BY CountsAdd DEF TraceBounded
  <2>6. Total(drops) <= MaxRows /\ Total(writer.taken) <= MaxRows
    <3>1. offered \in Int /\ offered <= MaxRows /\ buffered \in Nat /\ filed \in Nat /\ MaxRows \in Nat
      BY <2>1, TraceAssumption DEF TraceBounded, TraceTyped
    <3>2. offered >= usage + buffered + filed + Total(drops) + Total(writer.taken)
      BY <2>1, <2>2, <2>5, <3>1 DEF Unaccounted, RowsSeen
    <3> QED BY <2>2, <2>5, <3>1, <3>2
  <2>7. \A r \in Ranks : drops[r] \in 0 .. MaxRows /\ writer.taken[r] \in 0 .. MaxRows
    BY <2>5, <2>6, TraceAssumption DEF TraceBounded
  <2>8. drops \in [Ranks -> 0 .. MaxRows] /\ writer.taken \in [Ranks -> 0 .. MaxRows]
    BY <2>7 DEF TraceBounded
  <2>9. /\ setting.at \in {"idle", "waiting", "applied", "refused"}
        /\ writer.at \in {"idle", "notice", "noticeFirst", "configure"} /\ writer.size \in 0 .. FileMax
    BY <2>1 DEF TraceTyped, Writers, TraceBounded
  <2> QED BY <2>2, <2>3, <2>4, <2>8, <2>9 DEF TraceTypeOK
<1>2. TraceInv /\ TraceInv' /\ TraceBounded /\ [TraceNext]_traceVars => TraceBounded'
  BY TraceBoundedStep
<1> QED
  BY <1>1, <1>2, TraceBoundedInit, Recorder, PTL DEF TraceSpec

-----------------------------------------------------------------------------
(* The catalog.                                                            *)
CatalogBases == [at : Int, has : BOOLEAN]
Pairs == [base : CatalogBases, overlay : Int]
Requests ==
    [at : {"idle", "loading", "caching", "loaded", "spawning", "joining", "waiting", "done"},
     kind : {"get", "refresh", "prime"}, key : Accounts \cup {"none"}, pair : Pairs]
Refreshes ==
    [at : {"none", "overlay", "hydrating", "base", "saving", "finishing"},
     key : Accounts \cup {"none"}, base : CatalogBases, has : BOOLEAN]
Flights == [live : BOOLEAN, waiters : SUBSET Calls]

CatalogTyped ==
    /\ clock \in Int /\ account \in Accounts \cup {"none"}
    /\ disk \in [Accounts -> Pairs] /\ memory \in [Accounts -> Pairs]
    /\ flights \in [Accounts -> Flights]
    /\ request \in [Calls -> Requests]
    /\ refresh \in [Calls -> Refreshes]

\* Whoever is at work has the key of an account.
Keyed ==
    \A c \in Calls : /\ request[c].at # "idle" => request[c].key \in Accounts
                     /\ refresh[c].at # "none" => refresh[c].key \in Accounts

\* A flight is live as long as one refresh of its key is under way, and no other is.
OneFlight ==
    /\ \A c, d \in Calls : refresh[c].at # "none" /\ refresh[d].at # "none" /\ refresh[c].key = refresh[d].key => c = d
    /\ \A a \in Accounts : flights[a].live <=> \E d \in Calls : refresh[d].at # "none" /\ refresh[d].key = a

\* Who waits is among the waiters of a flight that is live.
Awaited == \A c \in Calls : request[c].at = "waiting" => /\ c \in flights[request[c].key].waiters
                                                         /\ flights[request[c].key].live

\* All waiters of a flight wait for it.
OnlyWaiters ==
    \A a \in Accounts, c \in Calls : c \in flights[a].waiters => request[c].at = "waiting" /\ request[c].key = a

\* A call begins at most one refresh, as the last thing it does itself.
BeginsOnce == \A c \in Calls : request[c].at \notin {"waiting", "done"} => refresh[c].at = "none"

CatalogInv == CatalogTyped /\ Keyed /\ OneFlight /\ Awaited /\ OnlyWaiters /\ BeginsOnce

-----------------------------------------------------------------------------
LEMMA EmptyTyped == NoBase \in CatalogBases /\ NoPair \in Pairs /\ NoFlight \in Flights
BY DEF NoBase, NoPair, NoFlight, CatalogBases, Pairs, Flights

\* What is read of the disk and of the bases known is of the types they have.
LEMMA ReadsTyped ==
    ASSUME CatalogTyped, NEW key \in Accounts
    PROVE  ReadDisk(key) \subseteq Pairs /\ BaseSnapshots(key) \subseteq CatalogBases
<1>1. CompatiblePairs \subseteq Pairs
  BY DEF CompatiblePairs, CatalogTyped
<1>2. CompatibleBases \subseteq CatalogBases
  BY DEF CompatibleBases, CatalogTyped, Pairs
<1>3. disk[key] \in Pairs /\ memory[key] \in Pairs
  BY DEF CatalogTyped
<1> QED
  BY <1>1, <1>2, <1>3, EmptyTyped DEF ReadDisk, BaseSnapshots, Pairs

LEMMA CatalogInitHolds == CatalogInit => CatalogInv
<1> SUFFICES ASSUME CatalogInit PROVE CatalogInv
  OBVIOUS
<1>1. CatalogTyped
  <2>1. [base |-> [at |-> 0, has |-> TRUE], overlay |-> 0] \in Pairs
    BY DEF Pairs, CatalogBases
  <2>2. NoRequest \in Requests /\ NoRefresh \in Refreshes
    BY EmptyTyped DEF NoRequest, NoRefresh, Requests, Refreshes
  <2>3. {NoPair, [base |-> [at |-> 0, has |-> TRUE], overlay |-> 0]} \subseteq Pairs
    BY <2>1, EmptyTyped
  <2>4. disk \in [Accounts -> Pairs] /\ memory \in [Accounts -> Pairs]
    BY <2>3, EmptyTyped DEF CatalogInit
  <2>5. request \in [Calls -> Requests] /\ refresh \in [Calls -> Refreshes] /\ flights \in [Accounts -> Flights]
    BY <2>2, EmptyTyped DEF CatalogInit
  <2> QED BY <2>4, <2>5 DEF CatalogInit, CatalogTyped
<1>2. /\ \A c \in Calls : request[c].at = "idle" /\ refresh[c].at = "none"
      /\ \A a \in Accounts : ~flights[a].live /\ flights[a].waiters = {}
  BY DEF CatalogInit, NoRequest, NoRefresh, NoFlight
<1> QED
  BY <1>1, <1>2 DEF CatalogInv, Keyed, OneFlight, Awaited, OnlyWaiters, BeginsOnce

\* A call that goes on without joining a flight, or that asks for something, disturbs nothing.
LEMMA CallGoesOn ==
    ASSUME CatalogInv, NEW c \in Calls, UNCHANGED <<flights, refresh>>,
           \A d \in Calls \ {c} : request'[d] = request[d],
           request[c].at \notin {"waiting", "done"}, request'[c].at # "waiting", request'[c].key \in Accounts
    PROVE  Keyed' /\ OneFlight' /\ Awaited' /\ OnlyWaiters' /\ BeginsOnce'
<1>1. Keyed' /\ OneFlight' /\ BeginsOnce'
  BY DEF CatalogInv, Keyed, OneFlight, BeginsOnce
<1>2. Awaited'
  BY DEF CatalogInv, Awaited
<1>3. OnlyWaiters'
  BY DEF CatalogInv, OnlyWaiters
<1> QED
  BY <1>1, <1>2, <1>3

\* So does a refresh that goes on.
LEMMA RefreshGoesOn ==
    ASSUME CatalogInv, NEW c \in Calls, UNCHANGED <<flights, request>>,
           \A d \in Calls \ {c} : refresh'[d] = refresh[d],
           refresh[c].at # "none", refresh'[c].at # "none", refresh'[c].key = refresh[c].key
    PROVE  Keyed' /\ OneFlight' /\ Awaited' /\ OnlyWaiters' /\ BeginsOnce'
<1>1. \A d \in Calls : (refresh'[d].at # "none") = (refresh[d].at # "none") /\ refresh'[d].key = refresh[d].key
  OBVIOUS
<1> QED
  BY <1>1 DEF CatalogInv, Keyed, OneFlight, Awaited, OnlyWaiters, BeginsOnce

\* A flight begins where none is live.
LEMMA FlightBegins ==
    ASSUME CatalogInv, NEW c \in Calls, NEW waiters \in SUBSET {c}, request[c].at \in {"spawning", "joining"},
           ~flights[request[c].key].live, BeginRefresh(c, waiters),
           \E step \in {"waiting", "done"} : RequestAt(c, step) /\ waiters = (IF step = "waiting" THEN {c} ELSE {})
    PROVE  /\ Keyed' /\ OneFlight' /\ Awaited' /\ OnlyWaiters' /\ BeginsOnce'
           /\ flights' \in [Accounts -> Flights] /\ refresh' \in [Calls -> Refreshes] /\ request' \in [Calls -> Requests]
<1> DEFINE key == request[c].key
<1>1. key \in Accounts /\ CatalogTyped /\ Keyed /\ OneFlight /\ Awaited /\ OnlyWaiters /\ BeginsOnce
  BY DEF CatalogInv, Keyed
<1>2. PICK step \in {"waiting", "done"} : RequestAt(c, step) /\ waiters = (IF step = "waiting" THEN {c} ELSE {})
  OBVIOUS
<1>3. request' \in [Calls -> Requests] /\ request'[c].at = step /\ request'[c].key = key
      /\ \A d \in Calls \ {c} : request'[d] = request[d]
  BY <1>1, <1>2 DEF RequestAt, CatalogTyped, Requests
<1>4. flights' \in [Accounts -> Flights] /\ flights'[key].live /\ flights'[key].waiters = waiters
      /\ \A a \in Accounts \ {key} : flights'[a] = flights[a]
  BY <1>1 DEF BeginRefresh, CatalogTyped, Flights
<1>5. refresh' \in [Calls -> Refreshes] /\ refresh'[c].at = "overlay" /\ refresh'[c].key = key
      /\ \A d \in Calls \ {c} : refresh'[d] = refresh[d]
  BY <1>1, EmptyTyped DEF BeginRefresh, CatalogTyped, Refreshes, NoRefresh
<1>6. \A d \in Calls : refresh[d].at # "none" => refresh[d].key # key
  BY <1>1 DEF OneFlight
<1>7. \A d \in Calls : request[d].at = "waiting" => request[d].key # key
  BY <1>1 DEF Awaited
<1> HIDE DEF key
<1>8. Keyed'
  BY <1>1, <1>3, <1>5 DEF Keyed
<1>9. OneFlight'
  <2>1. ASSUME NEW d \in Calls, NEW e \in Calls, refresh'[d].at # "none", refresh'[e].at # "none", refresh'[d].key = refresh'[e].key
        PROVE  d = e
    <3>1. CASE d # c /\ e # c
      BY <1>1, <1>5, <2>1, <3>1 DEF OneFlight
    <3>2. CASE d = c \/ e = c
      BY <1>5, <1>6, <2>1, <3>2
    <3> QED BY <3>1, <3>2
  <2>2. ASSUME NEW a \in Accounts \ {key}
        PROVE  flights'[a].live <=> \E d \in Calls : refresh'[d].at # "none" /\ refresh'[d].key = a
    <3>1. ~(refresh[c].at # "none" /\ refresh[c].key = a)
      BY <1>1 DEF BeginsOnce
    <3> QED BY <1>1, <1>4, <1>5, <2>2, <3>1 DEF OneFlight
  <2>3. flights'[key].live /\ refresh'[c].at # "none" /\ refresh'[c].key = key
    BY <1>4, <1>5
  <2> QED BY <2>1, <2>2, <2>3 DEF OneFlight
<1>10. Awaited'
  BY SMTT(20), <1>1, <1>2, <1>3, <1>4, <1>7 DEF Awaited, Keyed
<1>11. BeginsOnce'
  BY <1>1, <1>2, <1>3, <1>5 DEF BeginsOnce
<1>12. OnlyWaiters'
  <2>1. ASSUME NEW a \in Accounts, NEW d \in Calls, d \in flights'[a].waiters
        PROVE  request'[d].at = "waiting" /\ request'[d].key = a
    <3>1. CASE a = key
      BY <1>2, <1>3, <1>4, <2>1, <3>1
    <3>2. CASE a # key
      <4>1. d \in flights[a].waiters
        BY <1>4, <2>1, <3>2
      <4>2. request[d].at = "waiting" /\ request[d].key = a
        BY <1>1, <4>1 DEF OnlyWaiters
      <4>3. d # c
        BY <4>2
      <4> QED BY <1>3, <4>2, <4>3
    <3> QED BY <3>1, <3>2
  <2> QED BY <2>1 DEF OnlyWaiters
<1> QED
  BY <1>3, <1>4, <1>5, <1>8, <1>9, <1>10, <1>11, <1>12

-----------------------------------------------------------------------------
\* A step of a call keeps the invariant.
LEMMA CallKeeps == ASSUME CatalogInv, NEW c \in Calls, CallStep(c) PROVE CatalogInv'
<1>0. CatalogTyped /\ Keyed /\ request[c] \in Requests
  BY DEF CatalogInv, CatalogTyped
<1>1. ASSUME NEW kind \in {"get", "refresh", "prime"}, Ask(c, kind) PROVE CatalogInv'
  <2> DEFINE new == [at |-> IF kind = "refresh" THEN "joining" ELSE "loading", kind |-> kind, key |-> account, pair |-> NoPair]
  <2>1. /\ request[c].at = "idle" /\ account \in Accounts /\ request' = [request EXCEPT ![c] = new]
        /\ UNCHANGED <<clock, account, disk, memory, flights, refresh>>
    BY <1>0, <1>1 DEF Ask, CatalogTyped
  <2>2. new \in Requests /\ new.at # "waiting" /\ new.key = account
    BY <2>1, EmptyTyped DEF Requests
  <2> HIDE DEF new
  <2>3. CatalogTyped' /\ request'[c] = new /\ \A d \in Calls \ {c} : request'[d] = request[d]
    BY <1>0, <2>1, <2>2 DEF CatalogTyped
  <2> QED BY <2>1, <2>2, <2>3, CallGoesOn DEF CatalogInv
<1>2. ASSUME NEW step \in {"caching", "loaded", "spawning", "joining", "done"}, NEW pair \in Pairs,
             request[c].at \in {"loading", "caching", "loaded"},
             request' = [request EXCEPT ![c].at = step, ![c].pair = pair],
             memory' \in [Accounts -> Pairs], UNCHANGED <<clock, account, disk, flights, refresh>>
      PROVE  CatalogInv'
  <2>1. request[c].key \in Accounts
    BY <1>0, <1>2 DEF Keyed
  <2> DEFINE new == [request[c] EXCEPT !.at = step, !.pair = pair]
  <2>2. new \in Requests /\ new.at = step /\ new.key = request[c].key
    BY <1>0 DEF Requests
  <2>3. request' = [request EXCEPT ![c] = new]
    BY <1>0, <1>2 DEF CatalogTyped
  <2> HIDE DEF new
  <2>4. CatalogTyped' /\ request'[c] = new /\ \A d \in Calls \ {c} : request'[d] = request[d]
    BY <1>0, <1>2, <2>2, <2>3 DEF CatalogTyped
  <2> QED BY <1>2, <2>1, <2>2, <2>4, CallGoesOn DEF CatalogInv
<1>3. CASE LoadCatalog(c)
  <2>1. request[c].at = "loading" /\ request[c].key \in Accounts /\ UNCHANGED <<clock, account, disk, memory, flights, refresh>>
    BY <1>0, <1>3 DEF LoadCatalog, Keyed
  <2>2. memory[request[c].key] \in Pairs /\ ReadDisk(request[c].key) \subseteq Pairs
    BY <1>0, <2>1, ReadsTyped DEF CatalogTyped
  <2>3. \E step \in {"caching", "loaded"}, pair \in Pairs : request' = [request EXCEPT ![c].at = step, ![c].pair = pair]
    BY <1>3, <2>2 DEF LoadCatalog
  <2>4. memory' \in [Accounts -> Pairs]
    BY <1>0, <2>1 DEF CatalogTyped
  <2> QED BY <1>2, <2>1, <2>3, <2>4
<1>4. ASSUME NEW step \in {"loaded", "spawning", "joining", "done"}, request[c].at \in {"caching", "loaded"}, RequestAt(c, step),
             memory' \in [Accounts -> Pairs], UNCHANGED <<clock, account, disk, flights, refresh>>
      PROVE  CatalogInv'
  <2>1. request[c].pair \in Pairs /\ request' = [request EXCEPT ![c].at = step, ![c].pair = request[c].pair]
    BY <1>0, <1>4 DEF RequestAt, CatalogTyped, Requests
  <2> QED BY <1>2, <1>4, <2>1
<1>5. CASE CachePair(c)
  <2>1. request[c].key \in Accounts /\ request[c].pair \in Pairs
    BY <1>0, <1>5 DEF CachePair, Keyed, Requests
  <2>2. Cached(request[c].key, request[c].pair) \in [Accounts -> Pairs]
    BY <1>0, <2>1 DEF Cached, CatalogTyped, Pairs
  <2> QED BY <1>4, <1>5, <2>2 DEF CachePair
<1>6. CASE Serve(c)
  <2>1. memory' \in [Accounts -> Pairs]
    BY <1>0, <1>6 DEF Serve, CatalogTyped
  <2> QED BY <1>4, <1>6, <2>1 DEF Serve
<1>7. CASE Spawn(c) /\ flights[request[c].key].live
  <2>1. /\ RequestAt(c, "done") /\ request[c].at = "spawning" /\ request[c].key \in Accounts
        /\ UNCHANGED <<clock, account, disk, memory, flights, refresh>>
    BY <1>0, <1>7 DEF Spawn, Keyed
  <2>2. CatalogTyped' /\ request'[c].at = "done" /\ request'[c].key \in Accounts /\ \A d \in Calls \ {c} : request'[d] = request[d]
    BY <1>0, <2>1 DEF RequestAt, CatalogTyped, Requests
  <2> QED BY <2>1, <2>2, CallGoesOn DEF CatalogInv
<1>8. CASE Spawn(c) /\ ~flights[request[c].key].live
  <2>1. /\ BeginRefresh(c, {}) /\ RequestAt(c, "done") /\ request[c].at = "spawning"
        /\ UNCHANGED <<clock, account, disk, memory>>
    BY <1>8 DEF Spawn
  <2> QED BY <1>0, <1>8, <2>1, FlightBegins DEF CatalogInv, CatalogTyped
<1>9. CASE Join(c) /\ ~flights[request[c].key].live
  <2>1. /\ BeginRefresh(c, {c}) /\ RequestAt(c, "waiting") /\ request[c].at = "joining"
        /\ UNCHANGED <<clock, account, disk, memory>>
    BY <1>9 DEF Join
  <2> QED BY <1>0, <1>9, <2>1, FlightBegins DEF CatalogInv, CatalogTyped
<1>10. CASE Join(c) /\ flights[request[c].key].live
  <2> DEFINE key == request[c].key
  <2>1. /\ flights' = [flights EXCEPT ![key].waiters = @ \cup {c}] /\ RequestAt(c, "waiting") /\ request[c].at = "joining"
        /\ UNCHANGED <<clock, account, disk, memory, refresh>> /\ key \in Accounts /\ flights[key].live
    BY <1>0, <1>10 DEF Join, Keyed
  <2> HIDE DEF key
  <2>2. /\ flights' \in [Accounts -> Flights] /\ flights'[key].waiters = flights[key].waiters \cup {c}
        /\ \A a \in Accounts : (flights'[a].live <=> flights[a].live) /\ flights[a].waiters \subseteq flights'[a].waiters
        /\ \A a \in Accounts \ {key} : flights'[a] = flights[a]
    BY <1>0, <2>1 DEF CatalogTyped, Flights
  <2>3. /\ request' \in [Calls -> Requests] /\ request'[c].at = "waiting" /\ request'[c].key = key
        /\ \A d \in Calls \ {c} : request'[d] = request[d]
    BY <1>0, <2>1 DEF RequestAt, CatalogTyped, Requests, key
  <2>4. CatalogTyped'
    BY <1>0, <2>1, <2>2, <2>3 DEF CatalogTyped
  <2>5. Keyed' /\ OneFlight' /\ BeginsOnce'
    BY <1>0, <2>1, <2>2, <2>3 DEF CatalogInv, Keyed, OneFlight, BeginsOnce
  <2>6. Awaited'
    BY <1>0, <2>1, <2>2, <2>3 DEF CatalogInv, Keyed, Awaited
  <2>7. OnlyWaiters'
    <3>1. ASSUME NEW a \in Accounts, NEW d \in Calls, d \in flights'[a].waiters, d # c
          PROVE  request'[d].at = "waiting" /\ request'[d].key = a
      <4>1. d \in flights[a].waiters
        BY <2>2, <3>1
      <4> QED BY <2>3, <3>1, <4>1 DEF CatalogInv, OnlyWaiters
    <3>2. ASSUME NEW a \in Accounts, c \in flights'[a].waiters PROVE a = key
      BY <2>1, <2>2, <3>2 DEF CatalogInv, OnlyWaiters
    <3> QED BY <2>3, <3>1, <3>2 DEF OnlyWaiters
  <2> QED BY <2>4, <2>5, <2>6, <2>7 DEF CatalogInv
<1> QED
  BY <1>1, <1>3, <1>5, <1>6, <1>7, <1>8, <1>9, <1>10 DEF CallStep

\* So does a step of a refresh; its end answers all who wait for it.
LEMMA RefreshKeeps == ASSUME CatalogInv, NEW c \in Calls, RefreshStep(c) PROVE CatalogInv'
<1>0. CatalogTyped /\ Keyed /\ refresh[c] \in Refreshes
  BY DEF CatalogInv, CatalogTyped
<1>1. ASSUME NEW new \in Refreshes, new.at # "none", new.key = refresh[c].key,
             refresh[c].at # "none", refresh' = [refresh EXCEPT ![c] = new],
             memory' \in [Accounts -> Pairs], disk' \in [Accounts -> Pairs],
             UNCHANGED <<clock, account, flights, request>>
      PROVE  CatalogInv'
  <2>1. CatalogTyped' /\ refresh'[c] = new /\ \A d \in Calls \ {c} : refresh'[d] = refresh[d]
    BY <1>0, <1>1 DEF CatalogTyped
  <2> QED BY <1>1, <2>1, RefreshGoesOn DEF CatalogInv
<1>2. ASSUME NEW step \in {"saving", "finishing"}, refresh[c].at # "none", RefreshAt(c, step),
             memory' \in [Accounts -> Pairs], disk' \in [Accounts -> Pairs],
             UNCHANGED <<clock, account, flights, request>>
      PROVE  CatalogInv'
  <2> DEFINE new == [refresh[c] EXCEPT !.at = step]
  <2>1. new \in Refreshes /\ new.at # "none" /\ new.key = refresh[c].key
    BY <1>0 DEF Refreshes
  <2>2. refresh' = [refresh EXCEPT ![c] = new]
    BY <1>0, <1>2 DEF RefreshAt, CatalogTyped
  <2> HIDE DEF new
  <2> QED BY <1>1, <1>2, <2>1, <2>2
<1>3. CASE OverlayLoaded(c)
  <2>1. refresh[c].key \in Accounts /\ refresh[c].at = "overlay"
    BY <1>0, <1>3 DEF OverlayLoaded, Keyed
  <2>2. PICK base \in CatalogBases : /\ refresh' = [refresh EXCEPT ![c].at = "hydrating", ![c].base = base]
                             /\ memory' = [memory EXCEPT ![refresh[c].key].base = IF base = NoBase THEN @ ELSE base]
    BY <1>0, <1>3, <2>1, ReadsTyped DEF OverlayLoaded
  <2> DEFINE new == [refresh[c] EXCEPT !.at = "hydrating", !.base = base]
  <2>3. new \in Refreshes /\ new.at # "none" /\ new.key = refresh[c].key
    BY <1>0 DEF Refreshes
  <2>4. refresh' = [refresh EXCEPT ![c] = new]
    BY <1>0, <2>2 DEF CatalogTyped
  <2>5. memory' \in [Accounts -> Pairs]
    BY <1>0, <2>1, <2>2 DEF CatalogTyped, Pairs
  <2>6. disk' \in [Accounts -> Pairs] /\ UNCHANGED <<clock, account, flights, request>>
    BY <1>0, <1>3 DEF OverlayLoaded, CatalogTyped
  <2> HIDE DEF new
  <2> QED BY <1>1, <2>1, <2>3, <2>4, <2>5, <2>6
<1>4. CASE Hydrated(c)
  <2>1. refresh[c].at = "hydrating" /\ UNCHANGED <<clock, account, disk, memory, flights, request>>
    BY <1>4 DEF Hydrated
  <2>2. PICK answered \in BOOLEAN : refresh' = [refresh EXCEPT ![c].at = "base", ![c].has = refresh[c].base.has \/ answered]
    BY <1>4 DEF Hydrated
  <2>3. PICK has \in BOOLEAN : refresh' = [refresh EXCEPT ![c].at = "base", ![c].has = has]
    BY <2>2
  <2> DEFINE new == [refresh[c] EXCEPT !.at = "base", !.has = has]
  <2>4. new \in Refreshes /\ new.at # "none" /\ new.key = refresh[c].key
    BY <1>0 DEF Refreshes
  <2>5. refresh' = [refresh EXCEPT ![c] = new]
    BY <1>0, <2>3 DEF CatalogTyped
  <2>6. memory' \in [Accounts -> Pairs] /\ disk' \in [Accounts -> Pairs]
    BY <1>0, <2>1 DEF CatalogTyped
  <2> HIDE DEF new
  <2> QED BY <1>1, <2>1, <2>4, <2>5, <2>6
<1>5. CASE SaveBase(c)
  <2> DEFINE base == [at |-> clock, has |-> refresh[c].has]
  <2>1. base \in CatalogBases /\ refresh[c].key \in Accounts /\ refresh[c].at = "base" /\ RefreshAt(c, "saving")
    BY <1>0, <1>5 DEF SaveBase, CatalogBases, CatalogTyped, Refreshes, Keyed
  <2>2. /\ disk' = [disk EXCEPT ![refresh[c].key].base = base] /\ memory' = [memory EXCEPT ![refresh[c].key].base = base]
        /\ UNCHANGED <<clock, account, flights, request>>
    BY <1>5 DEF SaveBase
  <2> HIDE DEF base
  <2>3. disk' \in [Accounts -> Pairs] /\ memory' \in [Accounts -> Pairs]
    BY <1>0, <2>1, <2>2 DEF CatalogTyped, Pairs
  <2> QED BY <1>2, <2>1, <2>2, <2>3
<1>6. CASE SaveOverlay(c)
  <2>1. refresh[c].key \in Accounts /\ refresh[c].at = "saving" /\ RefreshAt(c, "finishing")
    BY <1>0, <1>6 DEF SaveOverlay, Keyed
  <2>2. disk' \in [Accounts -> Pairs] /\ memory' \in [Accounts -> Pairs]
    BY ZenonT(30), <1>0, <1>6, <2>1 DEF SaveOverlay, CatalogTyped, Pairs
  <2> QED BY <1>2, <1>6, <2>1, <2>2 DEF SaveOverlay
<1>7. CASE CatalogFails(c)
  <2>1. disk' \in [Accounts -> Pairs] /\ memory' \in [Accounts -> Pairs] /\ refresh[c].at # "none"
    BY <1>0, <1>7 DEF CatalogFails, CatalogTyped
  <2> QED BY <1>2, <1>7, <2>1 DEF CatalogFails
<1>8. CASE FinishRefresh(c)
  <2> DEFINE key == refresh[c].key
  <2>1. /\ refresh[c].at = "finishing" /\ key \in Accounts
        /\ request' = [d \in Calls |-> IF d \in flights[key].waiters THEN [request[d] EXCEPT !.at = "done"] ELSE request[d]]
        /\ flights' = [flights EXCEPT ![key] = NoFlight] /\ refresh' = [refresh EXCEPT ![c] = NoRefresh]
        /\ UNCHANGED <<clock, account, disk, memory>>
    BY <1>0, <1>8 DEF FinishRefresh, Keyed
  <2> HIDE DEF key
  <2>2. NoRefresh \in Refreshes /\ NoRefresh.at = "none" /\ ~NoFlight.live
    BY EmptyTyped DEF NoRefresh, Refreshes, NoFlight
  <2>3. /\ refresh'[c].at = "none" /\ \A d \in Calls \ {c} : refresh'[d] = refresh[d]
        /\ ~flights'[key].live /\ \A a \in Accounts \ {key} : flights'[a] = flights[a]
    BY <1>0, <2>1, <2>2 DEF CatalogTyped
  <2>4. request' \in [Calls -> Requests]
    <3>1. \A d \in Calls : [request[d] EXCEPT !.at = "done"] \in Requests
      BY <1>0 DEF CatalogTyped, Requests
    <3> QED BY <1>0, <2>1, <3>1 DEF CatalogTyped
  <2>5. /\ \A d \in Calls : request'[d].key = request[d].key
        /\ \A d \in Calls \ flights[key].waiters : request'[d] = request[d]
        /\ \A d \in Calls : d \in flights[key].waiters => request'[d].at = "done" /\ request[d].at = "waiting" /\ request[d].key = key
    BY <1>0, <2>1 DEF CatalogInv, OnlyWaiters, CatalogTyped, Requests
  <2>6. CatalogTyped' /\ Keyed' /\ BeginsOnce'
    <3>1. flights' \in [Accounts -> Flights] /\ refresh' \in [Calls -> Refreshes]
      BY <1>0, <2>1, <2>2, EmptyTyped DEF CatalogTyped
    <3>2. CatalogTyped'
      BY <1>0, <2>1, <2>4, <3>1 DEF CatalogTyped
    <3>3. \A d \in Calls : request'[d].at # "idle" => request[d].at # "idle"
      BY <2>5
    <3>4. \A d \in Calls : request'[d].at \notin {"waiting", "done"} => request[d].at \notin {"waiting", "done"}
      BY <2>5
    <3>5. Keyed'
      BY <1>0, <2>3, <2>5, <3>3 DEF Keyed
    <3> QED BY <2>3, <3>2, <3>4, <3>5 DEF CatalogInv, BeginsOnce
  <2>7. OneFlight'
    BY <1>0, <2>1, <2>3 DEF CatalogInv, OneFlight, key
  <2>8. ASSUME NEW d \in Calls, request'[d].at = "waiting"
        PROVE  d \in flights'[request'[d].key].waiters /\ flights'[request'[d].key].live
    <3>1. d \notin flights[key].waiters /\ request'[d] = request[d] /\ request[d].key \in Accounts
      BY <1>0, <2>5, <2>8 DEF Keyed
    <3>2. d \in flights[request[d].key].waiters /\ flights[request[d].key].live
      BY <2>8, <3>1 DEF CatalogInv, Awaited
    <3> QED BY <2>3, <3>1, <3>2
  <2>9. ASSUME NEW a \in Accounts, NEW d \in Calls, d \in flights'[a].waiters
        PROVE  request'[d].at = "waiting" /\ request'[d].key = a
    <3>1. a # key
      BY <1>0, <2>1, <2>9 DEF NoFlight, CatalogTyped
    <3>2. d \in flights[a].waiters /\ request[d].at = "waiting" /\ request[d].key = a
      BY <2>3, <2>9, <3>1 DEF CatalogInv, OnlyWaiters
    <3>3. d \notin flights[key].waiters
      BY <2>5, <3>1, <3>2
    <3> QED BY <2>5, <3>2, <3>3
  <2> QED BY <2>6, <2>7, <2>8, <2>9 DEF CatalogInv, Awaited, OnlyWaiters
<1> QED
  BY <1>3, <1>4, <1>5, <1>6, <1>7, <1>8 DEF RefreshStep

LEMMA CatalogStepKeeps == CatalogInv /\ [CatalogNext]_catalogVars => CatalogInv'
<1> SUFFICES ASSUME CatalogInv, [CatalogNext]_catalogVars PROVE CatalogInv'
  OBVIOUS
<1>1. CASE \E c \in Calls : CallStep(c) \/ RefreshStep(c)
  BY <1>1, CallKeeps, RefreshKeeps
<1>2. CASE UNCHANGED <<disk, memory, flights, request, refresh>> /\ clock' \in Int /\ account' \in Accounts \cup {"none"}
  BY <1>2 DEF CatalogInv, CatalogTyped, Keyed, OneFlight, Awaited, OnlyWaiters, BeginsOnce
<1>3. CASE TimePasses \/ SwitchAccount \/ UNCHANGED catalogVars
  BY <1>2, <1>3 DEF TimePasses, SwitchAccount, catalogVars, CatalogInv, CatalogTyped
<1> QED
  BY <1>1, <1>3 DEF CatalogNext

\* The invariant holds of every behaviour.
THEOREM Catalog == CatalogSpec => []CatalogInv
<1> QED
  BY CatalogInitHolds, CatalogStepKeeps, PTL DEF CatalogSpec

\* However many calls, accounts and lifetimes: one refresh of a key is under way at a time, and a call
\* that waits is answered by one that still runs (service.rs, begin_xcloud_refresh and its finish).
THEOREM EveryFlightAnswered == CatalogSpec => []FlightsAnswered
<1>1. CatalogInv => FlightsAnswered
  BY DEF CatalogInv, OneFlight, Awaited, Keyed, FlightsAnswered
<1> QED
  BY <1>1, Catalog, PTL

-----------------------------------------------------------------------------
(* The types and the times of the catalog.                                 *)

\* An overlay was saved at a time that has been, if at all.
Past(overlay) == overlay \in -1 .. clock

Dated ==
    /\ clock \in 0 .. MaxClock
    /\ \A a \in Accounts : Past(disk[a].overlay) /\ Past(memory[a].overlay)
    /\ \A c \in Calls : Past(request[c].pair.overlay)

\* What is read of the disk was saved in the past.
LEMMA ReadsDated ==
    ASSUME CatalogTyped, Dated, NEW key \in Accounts, NEW pair \in ReadDisk(key)
    PROVE  Past(pair.overlay)
BY DEF ReadDisk, CompatiblePairs, Dated

LEMMA DatedInit == CatalogInit => Dated
BY CatalogAssumption DEF CatalogInit, Dated, Past, NoPair, NoRequest

LEMMA DatedStep == CatalogInv /\ Dated /\ [CatalogNext]_catalogVars => Dated'
<1> SUFFICES ASSUME CatalogInv, Dated, [CatalogNext]_catalogVars PROVE Dated'
  OBVIOUS
<1> USE CatalogAssumption
<1>0. CatalogTyped /\ Keyed /\ clock \in Nat /\ Past(-1) /\ Past(clock)
  BY DEF CatalogInv, CatalogTyped, Dated, Past
<1>k. ASSUME clock' = clock, \A a \in Accounts : Past(disk'[a].overlay) /\ Past(memory'[a].overlay),
             \A c \in Calls : Past(request'[c].pair.overlay)
      PROVE  Dated'
  BY <1>k DEF Dated, Past
<1>u. ASSUME UNCHANGED <<clock, disk, memory>>, \A c \in Calls : Past(request'[c].pair.overlay)
      PROVE  Dated'
  BY <1>k, <1>u DEF Dated
<1>r. ASSUME UNCHANGED <<clock, request>>, \A a \in Accounts : Past(disk'[a].overlay) /\ Past(memory'[a].overlay)
      PROVE  Dated'
  BY <1>k, <1>r DEF Dated
<1>a. ASSUME NEW c \in Calls, NEW step, RequestAt(c, step) PROVE \A d \in Calls : Past(request'[d].pair.overlay)
  <2>1. \A d \in Calls : request'[d].pair = request[d].pair
    BY <1>0, <1>a DEF RequestAt, CatalogTyped, Requests
  <2> QED BY <2>1 DEF Dated
<1>1. ASSUME NEW c \in Calls, NEW kind \in {"get", "refresh", "prime"}, Ask(c, kind) PROVE Dated'
  <2>1. NoPair.overlay = -1
    BY DEF NoPair
  <2> QED BY <1>0, <1>1, <1>u, <2>1 DEF Ask, Dated, CatalogTyped
<1>2. ASSUME NEW c \in Calls, LoadCatalog(c) PROVE Dated'
  <2>1. request[c].key \in Accounts /\ UNCHANGED <<clock, disk, memory>>
    BY <1>0, <1>2 DEF LoadCatalog, Keyed
  <2>2. PICK pair \in {memory[request[c].key]} \cup ReadDisk(request[c].key), step \in {"loaded", "caching"} :
            request' = [request EXCEPT ![c].at = step, ![c].pair = pair]
    BY <1>2 DEF LoadCatalog
  <2>3. Past(pair.overlay)
    BY <1>0, <2>1, <2>2, ReadsDated DEF Dated
  <2>4. request'[c].pair = pair /\ \A d \in Calls \ {c} : request'[d] = request[d]
    BY <1>0, <2>2 DEF CatalogTyped, Requests
  <2> QED BY <1>u, <2>1, <2>3, <2>4 DEF Dated
<1>3. ASSUME NEW c \in Calls, CachePair(c) PROVE Dated'
  <2>1. /\ memory' = Cached(request[c].key, request[c].pair) /\ RequestAt(c, "loaded") /\ UNCHANGED <<clock, disk>>
    BY <1>3 DEF CachePair
  <2>2. \A a \in Accounts : memory'[a].overlay \in {memory[a].overlay, request[c].pair.overlay}
    BY <1>0, <2>1 DEF Cached, CatalogTyped, Pairs
  <2> QED BY <1>a, <1>k, <2>1, <2>2 DEF Dated
<1>4. ASSUME NEW c \in Calls, Serve(c) \/ Spawn(c) \/ Join(c) PROVE Dated'
  BY <1>4, <1>a, <1>u DEF Serve, Spawn, Join
<1>5. ASSUME NEW c \in Calls, OverlayLoaded(c) PROVE Dated'
  <2>1. \A a \in Accounts : memory'[a].overlay = memory[a].overlay
    BY <1>0, <1>5 DEF OverlayLoaded, CatalogTyped, Pairs
  <2> QED BY <1>5, <1>r, <2>1 DEF OverlayLoaded, Dated
<1>6. ASSUME NEW c \in Calls, SaveBase(c) PROVE Dated'
  <2>1. \A a \in Accounts : memory'[a].overlay = memory[a].overlay /\ disk'[a].overlay = disk[a].overlay
    BY <1>0, <1>6 DEF SaveBase, CatalogTyped, Pairs
  <2> QED BY <1>6, <1>r, <2>1 DEF SaveBase, Dated
<1>7. ASSUME NEW c \in Calls, SaveOverlay(c) PROVE Dated'
  <2>1. \A a \in Accounts : memory'[a].overlay \in {memory[a].overlay, clock} /\ disk'[a].overlay \in {disk[a].overlay, clock}
    BY <1>0, <1>7 DEF SaveOverlay, CatalogTyped, Pairs
  <2> QED BY <1>0, <1>7, <1>r, <2>1 DEF SaveOverlay, Dated
<1>8. ASSUME NEW c \in Calls, Hydrated(c) \/ CatalogFails(c) PROVE Dated'
  BY <1>8, <1>r DEF Hydrated, CatalogFails, Dated
<1>9. ASSUME NEW c \in Calls, FinishRefresh(c) PROVE Dated'
  <2>1. \A d \in Calls : request'[d].pair = request[d].pair
    BY <1>0, <1>9 DEF FinishRefresh, CatalogTyped, Requests
  <2> QED BY <1>9, <1>u, <2>1 DEF FinishRefresh, Dated
<1>10. CASE TimePasses
  BY <1>0, <1>10 DEF TimePasses, Dated, Past
<1>11. CASE SwitchAccount \/ UNCHANGED catalogVars
  BY <1>11, <1>u DEF SwitchAccount, catalogVars, Dated
<1> QED
  BY <1>1, <1>2, <1>3, <1>4, <1>5, <1>6, <1>7, <1>8, <1>9, <1>10, <1>11 DEF CatalogNext, CallStep, RefreshStep

\* However many calls, accounts and lifetimes: no overlay on disk or in memory is dated ahead of the
\* clock its age is reckoned by, and those who wait for a flight are calls (data/service.rs).
THEOREM CatalogTypesHold == CatalogSpec => []CatalogTypeOK
<1>1. CatalogInv /\ Dated => CatalogTypeOK
  <2> SUFFICES ASSUME CatalogInv, Dated PROVE CatalogTypeOK
    OBVIOUS
  <2>1. CatalogTyped /\ \A o : Past(o) => o \in -1 .. MaxClock
    BY CatalogAssumption DEF CatalogInv, Dated, Past
  <2> QED BY <2>1 DEF CatalogTypeOK, CatalogTyped, Dated, Flights, Requests, Refreshes
<1> QED
  BY <1>1, DatedInit, DatedStep, Catalog, PTL DEF CatalogSpec

-----------------------------------------------------------------------------
(* The registry of stream access.                                          *)
Prepares == [at : {"idle", "granted", "inserted"}, owner : Owners \cup {"none"}, created : Int, expires : Int]
Leases == [owner : Owners \cup {"none"}, gen : Nat, created : Int, expires : Int,
           end : {"absent", "none", "expired", "released", "superseded"}, context : BOOLEAN]

RegistryTyped ==
    /\ now \in 0 .. MaxTime
    /\ prepare \in [Handles -> Prepares]
    /\ leases \in [Handles -> Leases]
    /\ generations \in [Owners -> Nat]
    /\ loaded \in [Owners -> Nat]

\* What was granted and every lease there is name their owner.
Owned ==
    \A h \in Handles : /\ prepare[h].at = "granted" => prepare[h].owner \in Owners
                       /\ leases[h].end # "absent" => leases[h].owner \in Owners

\* A lease that has not ended has its tokens and the generation its owner has reached, so no
\* other lease of that owner goes on; and what was handed out is of a generation reached.
LeaseSound(h) ==
    /\ leases[h].context <=> leases[h].end = "none"
    /\ leases[h].end = "none" => leases[h].gen = generations[leases[h].owner]
OneEach ==
    \A h, other \in Handles :
        leases[h].end = "none" /\ leases[other].end = "none" /\ leases[h].owner = leases[other].owner => h = other
HandedOut == \A o \in Owners : loaded[o] <= generations[o]

LeaseInv == RegistryTyped /\ Owned /\ (\A h \in Handles : LeaseSound(h)) /\ OneEach /\ HandedOut

-----------------------------------------------------------------------------
\* A lease is what it was, or it ended and gave up its tokens.
Ended(new, old) == new = old \/ \E end \in {"expired", "released", "superseded"} : old.end = "none" /\ new = Revoked(old, end)

LEMMA RevokedIsLease ==
    ASSUME NEW lease \in Leases, NEW end \in {"expired", "released", "superseded"}
    PROVE  /\ Revoked(lease, end) \in Leases
           /\ Revoked(lease, end).end = end /\ ~Revoked(lease, end).context
           /\ Revoked(lease, end).owner = lease.owner /\ Revoked(lease, end).gen = lease.gen
BY DEF Revoked, Leases

LEMMA ExpireOnlyEnds ==
    ASSUME RegistryTyped, NEW time
    PROVE  /\ ExpireLeases(time) \in [Handles -> Leases]
           /\ \A h \in Handles : Ended(ExpireLeases(time)[h], leases[h])
<1>1. ASSUME NEW h \in Handles
      PROVE  /\ ExpireLeases(time)[h] \in Leases
             /\ Ended(ExpireLeases(time)[h], leases[h])
  <2>1. leases[h] \in Leases
    BY DEF RegistryTyped
  <2>2. CASE Ends(leases[h], time)
    <3>1. ExpireLeases(time)[h] = Revoked(leases[h], "expired") /\ leases[h].end = "none"
      BY <2>2 DEF ExpireLeases, Ends
    <3> QED BY <2>1, <3>1, RevokedIsLease DEF Ended
  <2>3. CASE ~Ends(leases[h], time)
    <3>1. ExpireLeases(time)[h] = leases[h]
      BY <2>3 DEF ExpireLeases
    <3> QED BY <2>1, <3>1 DEF Ended
  <2> QED BY <2>2, <2>3
<1> QED
  BY <1>1 DEF ExpireLeases

\* Superseding leaves no lease of the owner going on.
LEMMA SupersedeOnlyEnds ==
    ASSUME RegistryTyped, NEW o, NEW time
    PROVE  /\ Supersede(o, time) \in [Handles -> Leases]
           /\ \A h \in Handles : /\ Ended(Supersede(o, time)[h], leases[h])
                                 /\ Supersede(o, time)[h].end = "none" => Supersede(o, time)[h].owner # o
<1>1. ASSUME NEW h \in Handles
      PROVE  /\ Supersede(o, time)[h] \in Leases
             /\ Ended(Supersede(o, time)[h], leases[h])
             /\ Supersede(o, time)[h].end = "none" => Supersede(o, time)[h].owner # o
  <2> DEFINE lease == ExpireLeases(time)[h]
  <2>1. lease \in Leases /\ Ended(lease, leases[h]) /\ leases[h] \in Leases
    BY ExpireOnlyEnds DEF RegistryTyped
  <2>2. Supersede(o, time)[h] = IF lease.owner = o /\ lease.end = "none" THEN Revoked(lease, "superseded") ELSE lease
    BY DEF Supersede
  <2> HIDE DEF lease
  <2>3. CASE lease.owner = o /\ lease.end = "none"
    <3>1. lease = leases[h]
      BY <2>1, <2>3, RevokedIsLease DEF Ended
    <3>2. Supersede(o, time)[h] = Revoked(leases[h], "superseded")
      BY <2>2, <2>3, <3>1
    <3> QED BY <2>1, <2>3, <3>1, <3>2, RevokedIsLease DEF Ended
  <2>4. CASE ~(lease.owner = o /\ lease.end = "none")
    BY <2>1, <2>2, <2>4
  <2> QED BY <2>3, <2>4
<1> QED
  BY <1>1 DEF Supersede

\* Leases that only end disturb nothing the invariant says of them.
LEMMA EndingIsSound ==
    ASSUME LeaseInv, leases' \in [Handles -> Leases], \A h \in Handles : Ended(leases'[h], leases[h]),
           UNCHANGED <<prepare, generations>>
    PROVE  /\ Owned' /\ OneEach' /\ \A h \in Handles : LeaseSound(h)'
           /\ \A h \in Handles : leases'[h].end = "none" => leases'[h] = leases[h]
<1>1. ASSUME NEW h \in Handles
      PROVE  /\ leases'[h].owner = leases[h].owner /\ leases'[h].gen = leases[h].gen
             /\ leases'[h].end = "none" => leases'[h] = leases[h]
             /\ leases'[h].end # "absent" => leases[h].end # "absent"
             /\ leases'[h].context <=> leases'[h].end = "none"
  <2>1. leases[h] \in Leases /\ (leases[h].context <=> leases[h].end = "none")
    BY DEF LeaseInv, RegistryTyped, LeaseSound
  <2>2. CASE leases'[h] = leases[h]
    BY <2>1, <2>2
  <2>3. CASE leases'[h] # leases[h]
    <3>1. PICK end \in {"expired", "released", "superseded"} : leases[h].end = "none" /\ leases'[h] = Revoked(leases[h], end)
      BY <2>3 DEF Ended
    <3> QED BY <2>1, <3>1, RevokedIsLease
  <2> QED BY <2>2, <2>3
<1>2. Owned'
  BY <1>1 DEF LeaseInv, Owned
<1>3. OneEach'
  BY <1>1 DEF LeaseInv, OneEach
<1>4. \A h \in Handles : LeaseSound(h)'
  BY <1>1 DEF LeaseInv, LeaseSound
<1> QED
  BY <1>1, <1>2, <1>3, <1>4

-----------------------------------------------------------------------------
LEMMA LeasesInitHold == LeasesInit => LeaseInv
<1> SUFFICES ASSUME LeasesInit PROVE LeaseInv
  OBVIOUS
<1>1. RegistryTyped
  BY LeaseAssumption DEF LeasesInit, NoLease, RegistryTyped, Prepares, Leases
<1>2. \A h \in Handles : prepare[h].at = "idle" /\ leases[h].end = "absent" /\ ~leases[h].context
  BY DEF LeasesInit, NoLease
<1> QED
  BY <1>1, <1>2 DEF LeasesInit, LeaseInv, Owned, LeaseSound, OneEach, HandedOut

\* A new lease: the others of its owner end, and it has the next generation.
LEMMA InsertKeeps ==
    ASSUME LeaseInv, NEW h \in Handles, Insert(h)
    PROVE  LeaseInv'
<1> DEFINE p == prepare[h]
           rest == Supersede(p.owner, p.created)
           new == [owner |-> p.owner, gen |-> generations[p.owner] + 1, created |-> p.created,
                   expires |-> p.expires, end |-> "none", context |-> TRUE]
<1>1. RegistryTyped /\ p \in Prepares /\ p.owner \in Owners /\ generations[p.owner] \in Nat
  BY DEF Insert, LeaseInv, Owned, RegistryTyped
<1>2. /\ rest \in [Handles -> Leases]
      /\ \A k \in Handles : Ended(rest[k], leases[k]) /\ (rest[k].end = "none" => rest[k].owner # p.owner)
  BY <1>1, SupersedeOnlyEnds
<1>3. new \in Leases /\ new.end = "none" /\ new.owner = p.owner /\ new.gen = generations[p.owner] + 1 /\ new.context
  BY <1>1 DEF Prepares, Leases
<1>4. /\ leases' = [rest EXCEPT ![h] = new]
      /\ generations' = [generations EXCEPT ![p.owner] = @ + 1]
      /\ prepare' = [prepare EXCEPT ![h].at = "inserted"]
      /\ now' = now /\ loaded' = loaded
  BY DEF Insert
<1> HIDE DEF p, rest, new
<1>5. RegistryTyped'
  <2>1. leases' \in [Handles -> Leases] /\ generations' \in [Owners -> Nat]
    BY <1>1, <1>2, <1>3, <1>4 DEF RegistryTyped
  <2>2. prepare' \in [Handles -> Prepares]
    BY <1>1, <1>4 DEF RegistryTyped, Prepares
  <2> QED BY <1>1, <1>4, <2>1, <2>2 DEF RegistryTyped
<1>6. leases'[h] = new /\ \A k \in Handles \ {h} : leases'[k] = rest[k]
  BY <1>2, <1>4
<1>7. \A o \in Owners : generations'[o] = IF o = p.owner THEN generations[o] + 1 ELSE generations[o]
  BY <1>1, <1>4 DEF RegistryTyped
<1>8. ASSUME NEW k \in Handles
      PROVE  /\ rest[k].owner = leases[k].owner /\ rest[k].gen = leases[k].gen
             /\ rest[k].end # "absent" => leases[k].owner \in Owners
             /\ rest[k].context <=> rest[k].end = "none"
             /\ rest[k].end = "none" => rest[k] = leases[k] /\ leases[k].owner # p.owner
  <2>1. leases[k] \in Leases /\ Ended(rest[k], leases[k]) /\ (rest[k].end = "none" => rest[k].owner # p.owner)
    BY <1>1, <1>2 DEF RegistryTyped
  <2>2. LeaseSound(k) /\ (leases[k].end # "absent" => leases[k].owner \in Owners)
    BY DEF LeaseInv, Owned
  <2>3. CASE rest[k] = leases[k]
    BY <2>1, <2>2, <2>3 DEF LeaseSound
  <2>4. CASE rest[k] # leases[k]
    <3>1. PICK end \in {"expired", "released", "superseded"} : leases[k].end = "none" /\ rest[k] = Revoked(leases[k], end)
      BY <2>1, <2>4 DEF Ended
    <3> QED BY <2>1, <2>2, <3>1, RevokedIsLease
  <2> QED BY <2>3, <2>4
<1>9. Owned'
  <2>1. ASSUME NEW k \in Handles PROVE prepare'[k].owner = prepare[k].owner /\ (prepare'[k].at = "granted" => prepare[k].at = "granted")
    BY <1>1, <1>4 DEF RegistryTyped, Prepares
  <2>2. ASSUME NEW k \in Handles PROVE leases'[k].end # "absent" => leases'[k].owner \in Owners
    BY <1>1, <1>3, <1>6, <1>8
  <2> QED BY <2>1, <2>2 DEF LeaseInv, Owned
<1>10. ASSUME NEW k \in Handles PROVE LeaseSound(k)'
  <2>1. CASE k = h
    BY <1>1, <1>3, <1>6, <1>7, <2>1 DEF LeaseSound
  <2>2. CASE k # h
    <3>1. leases'[k] = rest[k]
      BY <1>6, <2>2
    <3>2. LeaseSound(k)
      BY DEF LeaseInv
    <3> QED BY <1>1, <1>7, <1>8, <3>1, <3>2 DEF LeaseSound
  <2> QED BY <2>1, <2>2
<1>11. OneEach'
  BY <1>3, <1>6, <1>8 DEF LeaseInv, OneEach
<1>12. HandedOut'
  BY <1>1, <1>4, <1>7 DEF LeaseInv, HandedOut, RegistryTyped
<1> QED
  BY <1>5, <1>9, <1>10, <1>11, <1>12 DEF LeaseInv

\* Tokens handed out are of the lease their owner is at.
LEMMA LoadKeeps ==
    ASSUME LeaseInv, NEW h \in Handles, Load(h)
    PROVE  LeaseInv'
<1>1. /\ leases' \in [Handles -> Leases] /\ \A k \in Handles : Ended(leases'[k], leases[k])
      /\ UNCHANGED <<now, prepare, generations>> /\ RegistryTyped
  BY ExpireOnlyEnds DEF Load, LeaseInv
<1>2. Owned' /\ OneEach' /\ \A k \in Handles : LeaseSound(k)'
  BY <1>1, EndingIsSound
<1>3. leases[h] \in Leases /\ leases[h].owner \in Owners /\ generations[leases[h].owner] \in Nat
  BY <1>1 DEF RegistryTyped, Load, LeaseInv, Owned
<1>4. loaded' = loaded \/ (leases'[h].end = "none" /\ loaded' = [loaded EXCEPT ![leases[h].owner] = leases[h].gen])
  BY DEF Load, Loadable
<1>5. loaded' \in [Owners -> Nat]
  BY <1>1, <1>3, <1>4 DEF RegistryTyped, Leases
<1>6. RegistryTyped'
  BY <1>1, <1>5 DEF RegistryTyped
<1>7. HandedOut'
  <2>1. CASE loaded' = loaded
    BY <1>1, <2>1 DEF LeaseInv, HandedOut
  <2>2. CASE loaded' # loaded
    <3>1. leases'[h].end = "none" /\ loaded' = [loaded EXCEPT ![leases[h].owner] = leases[h].gen]
      BY <1>4, <2>2
    <3>2. leases[h].gen = generations[leases[h].owner]
      BY <1>1, <3>1, EndingIsSound DEF LeaseInv, LeaseSound
    <3> QED BY <1>1, <1>3, <3>1, <3>2 DEF LeaseInv, HandedOut, RegistryTyped
  <2> QED BY <2>1, <2>2
<1> QED
  BY <1>2, <1>6, <1>7 DEF LeaseInv

LEMMA ReleaseKeeps ==
    ASSUME LeaseInv, NEW h \in Handles, Release(h)
    PROVE  LeaseInv'
<1> DEFINE rest == ExpireLeases(now)
<1>1. /\ rest \in [Handles -> Leases] /\ \A k \in Handles : Ended(rest[k], leases[k])
      /\ UNCHANGED <<now, prepare, generations, loaded>> /\ RegistryTyped
  BY ExpireOnlyEnds DEF Release, LeaseInv
<1>2. leases' = [rest EXCEPT ![h] = IF @.end = "none" THEN Revoked(@, "released") ELSE @]
  BY DEF Release
<1> HIDE DEF rest
<1>3. leases[h] \in Leases /\ Revoked(leases[h], "released") \in Leases
  BY <1>1, RevokedIsLease DEF RegistryTyped
<1>4. rest[h].end = "none" => rest[h] = leases[h]
  <2>1. CASE rest[h] = leases[h]
    BY <2>1
  <2>2. CASE rest[h] # leases[h]
    <3>1. PICK end \in {"expired", "released", "superseded"} : leases[h].end = "none" /\ rest[h] = Revoked(leases[h], end)
      BY <1>1, <2>2 DEF Ended
    <3> QED BY <1>3, <3>1, RevokedIsLease
  <2> QED BY <2>1, <2>2
<1>5. leases' \in [Handles -> Leases] /\ \A k \in Handles : Ended(leases'[k], leases[k])
  BY <1>1, <1>2, <1>3, <1>4 DEF Ended
<1>6. Owned' /\ OneEach' /\ \A k \in Handles : LeaseSound(k)'
  BY <1>1, <1>5, EndingIsSound
<1>7. RegistryTyped' /\ HandedOut'
  BY <1>1, <1>5 DEF RegistryTyped, LeaseInv, HandedOut
<1> QED
  BY <1>6, <1>7 DEF LeaseInv

LEMMA AuthenticatedKeeps ==
    ASSUME LeaseInv, NEW h \in Handles, NEW o \in Owners, Authenticated(h, o)
    PROVE  LeaseInv'
<1>1. RegistryTyped /\ UNCHANGED <<now, leases, generations, loaded>>
  BY DEF LeaseInv, Authenticated
<1>0. now \in Int
  BY <1>1 DEF RegistryTyped
<1>2. PICK token \in 0 .. MaxTime, web \in 0 .. MaxTime :
          prepare' = [prepare EXCEPT ![h] = [at |-> "granted", owner |-> o, created |-> now,
                                             expires |-> CapExpiry(StreamExpiry(now, token), now, web)]]
  BY DEF Authenticated
<1>3. CapExpiry(StreamExpiry(now, token), now, web) \in Int
  BY <1>0, LeaseAssumption DEF CapExpiry, StreamExpiry, Least
<1>4. prepare' \in [Handles -> Prepares]
  BY <1>0, <1>1, <1>2, <1>3 DEF RegistryTyped, Prepares
<1>5. Owned'
  BY <1>1, <1>2 DEF RegistryTyped, LeaseInv, Owned
<1> QED
  BY <1>1, <1>4, <1>5 DEF LeaseInv, RegistryTyped, LeaseSound, OneEach, HandedOut

LEMMA LeaseStepKeeps == LeaseInv /\ [LeasesNext]_leaseVars => LeaseInv'
<1> SUFFICES ASSUME LeaseInv, [LeasesNext]_leaseVars PROVE LeaseInv'
  OBVIOUS
<1>1. CASE \E h \in Handles : Insert(h)
  BY <1>1, InsertKeeps
<1>2. CASE \E h \in Handles : Load(h)
  BY <1>2, LoadKeeps
<1>3. CASE \E h \in Handles : Release(h)
  BY <1>3, ReleaseKeeps
<1>4. CASE \E h \in Handles, o \in Owners : Authenticated(h, o)
  BY <1>4, AuthenticatedKeeps
<1>5. CASE ClockMoves
  BY <1>5 DEF ClockMoves, LeaseInv, RegistryTyped, Owned, LeaseSound, OneEach, HandedOut
<1>6. CASE UNCHANGED leaseVars
  BY <1>6 DEF leaseVars, LeaseInv, RegistryTyped, Owned, LeaseSound, OneEach, HandedOut
<1> QED
  BY <1>1, <1>2, <1>3, <1>4, <1>5, <1>6 DEF LeasesNext

\* The invariant holds of every behaviour.
THEOREM Registry == LeasesSpec => []LeaseInv
<1> QED
  BY LeasesInitHold, LeaseStepKeeps, PTL DEF LeasesSpec

\* The types of the registry's state, for any handles, owners, lifetime and clock.
THEOREM LeasesTyped == LeasesSpec => []LeasesTypeOK
<1>1. LeaseInv => LeasesTypeOK
  BY DEF LeaseInv, RegistryTyped, Prepares, Leases, LeasesTypeOK
<1> QED
  BY <1>1, Registry, PTL

\* However many prepares overlap and wherever the clock is set to: tokens stay only with the one
\* lease of each owner that has its current generation, and none older than what was handed out
\* before (access.rs, insert_internal and load_internal).
THEOREM TokensAreCurrent == LeasesSpec => []TokensWithCurrentLease
<1>1. LeaseInv => TokensWithCurrentLease
  <2> SUFFICES ASSUME LeaseInv, NEW h \in Handles
               PROVE  /\ leases[h].context <=> leases[h].end = "none"
                      /\ leases[h].context => /\ generations[leases[h].owner] = leases[h].gen
                                              /\ loaded[leases[h].owner] <= leases[h].gen
                      /\ \A other \in Handles \ {h} :
                            leases[h].context /\ leases[other].context => leases[other].owner # leases[h].owner
    BY DEF TokensWithCurrentLease
  <2>1. \A k \in Handles : LeaseSound(k) /\ (leases[k].end = "none" => leases[k].owner \in Owners)
    BY DEF LeaseInv, Owned
  <2>2. \A other \in Handles \ {h} :
            leases[h].context /\ leases[other].context => leases[other].owner # leases[h].owner
    BY <2>1 DEF LeaseInv, OneEach, LeaseSound
  <2>3. leases[h].context => loaded[leases[h].owner] <= leases[h].gen
    BY <2>1 DEF LeaseInv, HandedOut, LeaseSound
  <2> QED BY <2>1, <2>2, <2>3 DEF LeaseSound
<1> QED
  BY <1>1, Registry, PTL

-----------------------------------------------------------------------------
(* The stream object.                                                      *)
StreamSignals == [completed : {0, 1}, epoch : Nat, ice : SUBSET Nat, ended : Nat]
StreamPhases == Usable \cup {"Idle", "Creating", "Closing", "Closed", "Failed"}
StartStages == {"idle", "creating", "failing", "writing", "cancelled", "locking", "started", "failed"}
CloserStages == {"idle", "cancelling", "cancelled", "closing", "reading", "stopping", "resetting", "locking", "ended"}

BridgeTyped ==
    /\ gen \in Nat
    /\ session \in [gen : Nat, phase : StreamPhases, signal : StreamSignals]
    /\ projection \in [known : BOOLEAN, terminal : BOOLEAN]
    /\ service \in [at : {"none", "requested", "told", "stored", "pending", "stopped"}, early : BOOLEAN, dropped : BOOLEAN]
    /\ start \in [at : StartStages, gen : Nat]
    /\ exchange \in [Exchanges -> [at : {"idle", "asked", "sent"}, gen : Nat]]
    /\ batch \in [at : {"idle", "asked", "polling"}, gen : Nat, epoch : Nat]
    /\ closer \in [Closers -> [at : CloserStages, gen : Nat]]

\* Nobody has begun to end the stream.
Quiet == \A c \in Closers : closer[c].at = "idle"
\* Those who have hold no lock yet.
Unlocked == \A c \in Closers : closer[c].at \in {"idle", "cancelling"}

\* The generation of the start is the current one as long as nobody ends the stream.
Generations ==
    /\ start.gen <= gen
    /\ start.at # "idle" => (gen = start.gen <=> Quiet)

\* A usable phase is of a start that returned before any owner who ends the stream held the lock.
UsableSince ==
    /\ session.phase \in Usable => start.at = "started" /\ projection.known /\ Unlocked
    /\ start.at = "locking" /\ Quiet => projection.known
    /\ start.at = "started" /\ Quiet => session.phase \in Usable
    /\ \A e \in Exchanges : exchange[e].at # "idle" => start.at = "started" /\ exchange[e].gen = start.gen

\* A session recorded before the first close is known to whoever closes it until it is stopped.
KnownUntilStopped ==
    /\ session.phase = "Closed" => ~Quiet
    /\ start.at = "idle" => /\ service.at = "none" /\ ~service.early
                            /\ \A c \in Closers : closer[c].at # "stopping"
    /\ service.at = "told" /\ Quiet => projection.known
    /\ service.early => \/ service.at = "stopped"
                        \/ /\ service.at \in {"stored", "pending"} /\ projection.known
                           /\ session.phase # "Closed"
                           /\ \A c \in Closers : closer[c].at \notin {"resetting", "locking"}

\* Candidates come after an answer, and a poll that is not stale is of an answered offer.
AnsweredFirst ==
    /\ session.signal.completed = 0 => session.signal.ice = {} /\ session.signal.ended = 0
    /\ batch.at # "idle" => /\ batch.gen = start.gen /\ start.at # "idle"
                            /\ Quiet => session.signal.completed = 1

BridgeInv == BridgeTyped /\ Generations /\ UsableSince /\ KnownUntilStopped /\ AnsweredFirst /\ CandidatesOfCurrentOffer

-----------------------------------------------------------------------------
LEMMA BridgeInitHolds == BridgeInit => BridgeInv
BY DEF BridgeInit, BridgeInv, BridgeTyped, Generations, UsableSince, KnownUntilStopped, AnsweredFirst, CandidatesOfCurrentOffer,
       Quiet, Unlocked, Nothing, Fresh, StreamSignals, StreamPhases, StartStages, CloserStages, Usable

\* The start keeps the invariant.
LEMMA StartKeeps == BridgeInv /\ StartStep => BridgeInv'
<1> SUFFICES ASSUME BridgeInv, StartStep PROVE BridgeInv'
  OBVIOUS
<1> USE DEF BridgeInv, Quiet, Unlocked
<1>1. CASE BeginGeneration
  <2>1. Quiet /\ closer' = closer /\ exchange' = exchange /\ batch' = batch
    BY <1>1 DEF BeginGeneration
  <2>2. (\A e \in Exchanges : exchange[e].at = "idle") /\ batch.at = "idle"
    BY <1>1 DEF BeginGeneration, UsableSince, AnsweredFirst, BridgeTyped
  <2>3. BridgeTyped'
    BY <1>1 DEF BeginGeneration, BridgeTyped, Nothing, Fresh, StreamSignals, StreamPhases, StartStages
  <2>4. Generations' /\ UsableSince'
    BY <1>1, <2>1, <2>2 DEF BeginGeneration, BridgeTyped, Generations, UsableSince, Usable
  <2>5. KnownUntilStopped'
    BY <1>1, <2>1 DEF BeginGeneration, BridgeTyped, KnownUntilStopped
  <2>6. AnsweredFirst' /\ CandidatesOfCurrentOffer'
    BY <1>1, <2>1, <2>2 DEF BeginGeneration, AnsweredFirst, CandidatesOfCurrentOffer, Fresh
  <2> QED
    BY <2>3, <2>4, <2>5, <2>6
<1>2. CASE OnSessionCreated
  BY <1>2 DEF OnSessionCreated, BridgeTyped, Generations, UsableSince, KnownUntilStopped, AnsweredFirst, CandidatesOfCurrentOffer
<1>3. CASE RecordSession
  <2>1. BridgeTyped'
    BY ZenonT(30), <1>3 DEF RecordSession, BridgeTyped
  <2>2. Generations'
    BY <1>3 DEF RecordSession, BridgeTyped, Generations
  <2>3. UsableSince'
    BY <1>3 DEF RecordSession, BridgeTyped, Generations, UsableSince, Usable
  <2>4. KnownUntilStopped'
    BY <1>3 DEF RecordSession, BridgeTyped, UsableSince, KnownUntilStopped, Usable
  <2>5. AnsweredFirst' /\ CandidatesOfCurrentOffer'
    BY <1>3 DEF RecordSession, Fresh, StreamSignals, BridgeTyped, Generations, UsableSince, AnsweredFirst, CandidatesOfCurrentOffer
  <2> QED
    BY <2>1, <2>2, <2>3, <2>4, <2>5
<1>4. CASE CreateFails
  BY <1>4 DEF CreateFails, StartAt, BridgeTyped, Generations, UsableSince, KnownUntilStopped, AnsweredFirst, CandidatesOfCurrentOffer, StartStages
<1>5. CASE CreateTimesOut
  BY <1>5 DEF CreateTimesOut, StartAt, BridgeTyped, Generations, UsableSince, KnownUntilStopped, AnsweredFirst, CandidatesOfCurrentOffer, StartStages
<1>6. CASE WaitFails
  BY <1>6 DEF WaitFails, StartAt, BridgeTyped, Generations, UsableSince, KnownUntilStopped, AnsweredFirst, CandidatesOfCurrentOffer, StartStages
<1>7. CASE SessionReady
  BY <1>7 DEF SessionReady, StartAt, BridgeTyped, Generations, UsableSince, KnownUntilStopped, AnsweredFirst, CandidatesOfCurrentOffer, StartStages
<1>8. CASE WriteProjection
  BY ZenonT(30), <1>8 DEF WriteProjection, StartAt, BridgeTyped, Generations, UsableSince, KnownUntilStopped, AnsweredFirst, CandidatesOfCurrentOffer, StartStages
<1>9. CASE StartReturns
  BY <1>9 DEF StartReturns, StartAt, BridgeTyped, Generations, UsableSince, KnownUntilStopped, AnsweredFirst, CandidatesOfCurrentOffer, StartStages,
              StreamPhases, Usable
<1> QED
  BY <1>1, <1>2, <1>3, <1>4, <1>5, <1>6, <1>7, <1>8, <1>9 DEF StartStep

\* The next offer keeps no candidate and no word that they are over.
LEMMA NextOfferForgets ==
    ASSUME NEW signal \in StreamSignals, signal.completed = 0 => signal.ice = {} /\ signal.ended = 0
    PROVE  /\ NextOffer(signal) \in StreamSignals
           /\ NextOffer(signal).ice = {} /\ NextOffer(signal).ended = 0
           /\ NextOffer(signal).completed = signal.completed
<1>1. PICK c \in {0, 1}, epoch \in Nat, ice \in SUBSET Nat, ended \in Nat :
          signal = [completed |-> c, epoch |-> epoch, ice |-> ice, ended |-> ended]
  BY DEF StreamSignals
<1> DEFINE next(i, n) == [completed |-> c, epoch |-> epoch + 1, ice |-> i, ended |-> n]
<1>2. signal.completed = c /\ signal.epoch = epoch /\ signal.ice = ice /\ signal.ended = ended
  BY <1>1
<1>3. NextOffer(signal) = next({}, 0)
  <2>1. CASE c = 1
    <3>1. NextOffer(signal) = [signal EXCEPT !.epoch = @ + 1, !.ice = {}, !.ended = 0]
      BY <1>2, <2>1 DEF NextOffer
    <3> QED
      BY <1>1, <1>2, <3>1
  <2>2. CASE c = 0
    <3>1. ice = {} /\ ended = 0
      BY <1>2, <2>2
    <3>2. NextOffer(signal) = [signal EXCEPT !.epoch = @ + 1, !.ice = @, !.ended = @]
      BY <1>2, <2>2 DEF NextOffer
    <3> QED
      BY <1>1, <1>2, <3>1, <3>2
  <2> QED
    BY <2>1, <2>2
<1> QED
  BY <1>2, <1>3 DEF StreamSignals

\* Offers, polls and the word of the monitor keep it.
LEMMA SignalKeeps == BridgeInv /\ SignalStep => BridgeInv'
<1> SUFFICES ASSUME BridgeInv, SignalStep PROVE BridgeInv'
  OBVIOUS
<1> USE DEF BridgeInv, Quiet, Unlocked
<1>1. ASSUME NEW e \in Exchanges, AskExchange(e) PROVE BridgeInv'
  BY <1>1 DEF AskExchange, SessionIdFor, BridgeTyped, Generations, UsableSince, KnownUntilStopped, AnsweredFirst, CandidatesOfCurrentOffer
<1>2. ASSUME NEW e \in Exchanges, BeginOfferExchange(e) PROVE BridgeInv'
  <2>1. CASE UNCHANGED session
    BY <1>2, <2>1 DEF BeginOfferExchange, ExchangeAt, BridgeTyped, Generations, UsableSince, KnownUntilStopped, AnsweredFirst,
                      CandidatesOfCurrentOffer
  <2>2. CASE session' # session
    <3> DEFINE next == NextOffer(session.signal)
    <3>1. session' = [gen |-> session.gen, phase |-> "Negotiating", signal |-> next]
      <4>1. session' = [session EXCEPT !.phase = "Negotiating", !.signal = next]
        BY <1>2, <2>2 DEF BeginOfferExchange
      <4>2. session \in [gen : Nat, phase : StreamPhases, signal : StreamSignals]
        BY DEF BridgeTyped
      <4> HIDE DEF next, BridgeInv
      <4> QED
        BY ONLY <4>1, <4>2
    <3>2. next \in StreamSignals /\ next.ice = {} /\ next.ended = 0 /\ next.completed = session.signal.completed
      BY NextOfferForgets DEF BridgeTyped, AnsweredFirst
    <3> HIDE DEF next
    <3>3. gen = start.gen /\ start.at = "started" /\ Quiet
      BY <1>2, <2>2 DEF BeginOfferExchange, Generations, UsableSince
    <3>4. BridgeTyped'
      BY SMTT(20), <1>2, <3>1, <3>2 DEF BeginOfferExchange, ExchangeAt, StreamPhases, Usable, BridgeTyped
    <3>5. session.phase \in Usable /\ session'.phase \in Usable /\ session'.phase # "Closed"
      BY <3>1, <3>3 DEF UsableSince, Usable
    <3>6. Generations' /\ UsableSince'
      BY <1>2, <2>2, <3>5 DEF BeginOfferExchange, ExchangeAt, BridgeTyped, Generations, UsableSince
    <3>7. KnownUntilStopped'
      BY <1>2, <3>5 DEF BeginOfferExchange, ExchangeAt, KnownUntilStopped
    <3>8. AnsweredFirst' /\ CandidatesOfCurrentOffer'
      BY <1>2, <3>1, <3>2 DEF BeginOfferExchange, ExchangeAt, AnsweredFirst, CandidatesOfCurrentOffer
    <3> QED
      BY <3>4, <3>6, <3>7, <3>8
  <2> QED
    BY <2>1, <2>2
<1>3. ASSUME NEW e \in Exchanges, OfferAnswered(e) PROVE BridgeInv'
  BY <1>3 DEF OfferAnswered, ExchangeAt, StreamSignals, BridgeTyped, Generations, UsableSince, KnownUntilStopped, AnsweredFirst, CandidatesOfCurrentOffer
<1>4. CASE AskBatch
  BY <1>4 DEF AskBatch, SessionIdFor, StreamSignals, BridgeTyped, Generations, UsableSince, KnownUntilStopped, AnsweredFirst, CandidatesOfCurrentOffer
<1>5. CASE BatchChecks
  BY <1>5 DEF BatchChecks, BatchAt, StreamSignals, BridgeTyped, Generations, UsableSince, KnownUntilStopped, AnsweredFirst, CandidatesOfCurrentOffer
<1>6. CASE BatchMerges
  <2>1. batch.at = "polling"
    BY <1>6, Zenon DEF BatchMerges
  <2>2. PICK step \in {"idle", "asked"} : BatchAt(step)
    BY <1>6, Zenon DEF BatchMerges
  <2>3. CASE UNCHANGED session
    BY <2>1, <2>2, <2>3 DEF BatchAt, BridgeTyped, Generations, UsableSince, KnownUntilStopped, AnsweredFirst, CandidatesOfCurrentOffer
  <2>4. CASE session' # session
    <3>1. gen = batch.gen /\ session.signal.epoch = batch.epoch
      BY <1>6, <2>4 DEF BatchMerges
    <3>2. PICK fresh \in BOOLEAN, end \in BOOLEAN :
              session' = [session EXCEPT !.signal.ice = IF fresh THEN @ \cup {batch.epoch} ELSE @,
                                         !.signal.ended = IF end THEN batch.epoch ELSE @]
      BY <1>6, <2>4 DEF BatchMerges
    <3> DEFINE next == [completed |-> session.signal.completed, epoch |-> session.signal.epoch,
                        ice |-> IF fresh THEN session.signal.ice \cup {batch.epoch} ELSE session.signal.ice,
                        ended |-> IF end THEN batch.epoch ELSE session.signal.ended]
    <3>3. session' = [gen |-> session.gen, phase |-> session.phase, signal |-> next]
      BY <3>2 DEF BridgeTyped, StreamSignals
    <3>4. next \in StreamSignals /\ next.epoch = session.signal.epoch /\ next.completed = session.signal.completed
      BY DEF BridgeTyped, StreamSignals
    <3>5. next.ice \subseteq {next.epoch} /\ next.ended \in {0, next.epoch}
      BY <3>1 DEF CandidatesOfCurrentOffer
    <3> HIDE DEF next
    <3>6. session.signal.completed = 1
      BY <2>1, <3>1 DEF AnsweredFirst, Generations
    <3>7. batch' = [batch EXCEPT !.at = step]
      BY <2>2 DEF BatchAt
    <3>8. UNCHANGED <<gen, projection, service, start, exchange, closer>>
      BY <2>2 DEF BatchAt
    <3>9. BridgeTyped'
      BY <3>3, <3>4, <3>7, <3>8 DEF BridgeTyped
    <3>10. Generations' /\ UsableSince' /\ KnownUntilStopped'
      BY <3>3, <3>8 DEF Generations, UsableSince, KnownUntilStopped
    <3>11. AnsweredFirst' /\ CandidatesOfCurrentOffer'
      BY <2>1, <3>3, <3>4, <3>5, <3>6, <3>7, <3>8 DEF BridgeTyped, AnsweredFirst, CandidatesOfCurrentOffer
    <3> QED
      BY <3>9, <3>10, <3>11
  <2> QED
    BY <2>3, <2>4
<1>7. CASE BatchFails
  BY <1>7 DEF BatchFails, BatchAt, BridgeTyped, Generations, UsableSince, KnownUntilStopped, AnsweredFirst, CandidatesOfCurrentOffer
<1>8. CASE MarkConnected
  BY <1>8 DEF MarkConnected, StreamPhases, Usable, BridgeTyped, Generations, UsableSince, KnownUntilStopped, AnsweredFirst, CandidatesOfCurrentOffer
<1>9. CASE OnMonitorTick
  BY <1>9 DEF OnMonitorTick, BridgeTyped, Generations, UsableSince, KnownUntilStopped, AnsweredFirst, CandidatesOfCurrentOffer
<1> QED
  BY <1>1, <1>2, <1>3, <1>4, <1>5, <1>6, <1>7, <1>8, <1>9 DEF SignalStep

\* The ends of the stream keep it, and what a failed cleanup left to a retry does.
LEMMA CloseKeeps == BridgeInv /\ CloseStep => BridgeInv'
<1> SUFFICES ASSUME BridgeInv, CloseStep PROVE BridgeInv'
  OBVIOUS
<1> USE DEF BridgeInv, Quiet, Unlocked
<1>1. ASSUME NEW c \in Closers, Bump(c) PROVE BridgeInv'
  BY SMTT(20), <1>1 DEF Bump, CloserAt, CloserStages, BridgeTyped, Generations, UsableSince, KnownUntilStopped, AnsweredFirst, CandidatesOfCurrentOffer
<1>2. ASSUME NEW c \in Closers, CancelLocks(c) PROVE BridgeInv'
  <2>1. BridgeTyped'
    BY ZenonT(30), <1>2 DEF CancelLocks, Step, CloserStages, StreamPhases, BridgeTyped
  <2>2. Generations'
    BY <1>2 DEF CancelLocks, Step, BridgeTyped, Generations
  <2>3. UsableSince'
    BY <1>2 DEF CancelLocks, Step, BridgeTyped, Generations, UsableSince, Usable
  <2>4. KnownUntilStopped'
    BY <1>2 DEF CancelLocks, Step, BridgeTyped, UsableSince, KnownUntilStopped, Usable
  <2>5. AnsweredFirst' /\ CandidatesOfCurrentOffer'
    BY <1>2 DEF CancelLocks, Step, Fresh, StreamSignals, BridgeTyped, Generations, UsableSince, AnsweredFirst, CandidatesOfCurrentOffer
  <2> QED
    BY <2>1, <2>2, <2>3, <2>4, <2>5
<1>3. ASSUME NEW c \in Closers, CloseLocks(c) PROVE BridgeInv'
  <2>1. PICK to \in {"ended", "reading"} : Step(c, "closing", to)
    BY <1>3 DEF CloseLocks
  <2>2. PICK phase \in {"Closing", "Closed"} :
            /\ session' = [gen |-> closer[c].gen, phase |-> phase, signal |-> session.signal]
            /\ phase = "Closed" => session.phase = "Closed"
    BY ZenonT(30), <1>3 DEF CloseLocks, BridgeTyped
  <2>3. UNCHANGED <<gen, projection, service, start, exchange, batch>>
    BY <1>3, <2>1 DEF CloseLocks, Step
  <2>4. ~Quiet /\ ~Quiet'
    BY <2>1 DEF Step, BridgeTyped
  <2>5. BridgeTyped'
    BY <2>1, <2>2, <2>3 DEF Step, CloserStages, StreamPhases, BridgeTyped
  <2>6. session'.phase \notin Usable
    BY <2>2 DEF Usable
  <2>7. Generations' /\ UsableSince'
    BY <2>3, <2>4, <2>6 DEF Generations, UsableSince
  <2>8. \A d \in Closers : closer'[d].at \in {"resetting", "locking"} => closer[d].at \in {"resetting", "locking"}
    BY <2>1 DEF Step, BridgeTyped
  <2>9. \A d \in Closers : closer'[d].at = "stopping" => closer[d].at = "stopping"
    BY <2>1 DEF Step, BridgeTyped
  <2>10. KnownUntilStopped'
    BY <2>2, <2>3, <2>4, <2>8, <2>9 DEF KnownUntilStopped
  <2>11. AnsweredFirst' /\ CandidatesOfCurrentOffer'
    BY <2>2, <2>3, <2>4 DEF AnsweredFirst, CandidatesOfCurrentOffer
  <2> QED
    BY <2>5, <2>7, <2>10, <2>11
<1>4. ASSUME NEW c \in Closers, ReadsProjection(c) PROVE BridgeInv'
  BY <1>4 DEF ReadsProjection, Step, CloserStages, BridgeTyped, Generations, UsableSince, KnownUntilStopped, AnsweredFirst, CandidatesOfCurrentOffer
<1>5. ASSUME NEW c \in Closers, Stopped(c) PROVE BridgeInv'
  <2>1. BridgeTyped'
    BY <1>5 DEF Stopped, Step, CloserStages, BridgeTyped
  <2>2. Generations'
    BY <1>5 DEF Stopped, Step, BridgeTyped, Generations
  <2>3. UsableSince'
    BY <1>5 DEF Stopped, Step, BridgeTyped, Generations, UsableSince, Usable
  <2>4. KnownUntilStopped'
    <3>1. service' = [service EXCEPT !.at = "stopped"] /\ UNCHANGED <<session, start>>
      BY <1>5 DEF Stopped, Step
    <3>2. closer[c].at = "stopping" /\ closer'[c].at = "resetting"
      BY <1>5 DEF Stopped, Step, BridgeTyped
    <3>3. ~Quiet' /\ service'.at = "stopped"
      BY <3>1, <3>2 DEF BridgeTyped
    <3>4. start.at # "idle"
      BY <3>2 DEF KnownUntilStopped
    <3> QED
      BY <3>1, <3>3, <3>4 DEF KnownUntilStopped
  <2>5. AnsweredFirst' /\ CandidatesOfCurrentOffer'
    BY <1>5 DEF Stopped, Step, Fresh, StreamSignals, BridgeTyped, Generations, UsableSince, AnsweredFirst, CandidatesOfCurrentOffer
  <2> QED
    BY <2>1, <2>2, <2>3, <2>4, <2>5
<1>6. ASSUME NEW c \in Closers, StopFails(c) PROVE BridgeInv'
  BY <1>6 DEF StopFails, Step, CloserStages, BridgeTyped, Generations, UsableSince, KnownUntilStopped, AnsweredFirst, CandidatesOfCurrentOffer
<1>7. ASSUME NEW c \in Closers, ResetsProjection(c) PROVE BridgeInv'
  BY <1>7 DEF ResetsProjection, Step, CloserStages, Nothing, BridgeTyped, Generations, UsableSince, KnownUntilStopped, AnsweredFirst, CandidatesOfCurrentOffer
<1>8. ASSUME NEW c \in Closers, CloseReturns(c) PROVE BridgeInv'
  <2>1. BridgeTyped'
    <3>1. Fresh \in StreamSignals /\ session' \in {session, [session EXCEPT !.phase = "Closed", !.signal = Fresh]}
      BY <1>8 DEF CloseReturns, Fresh, StreamSignals
    <3>2. session' \in [gen : Nat, phase : StreamPhases, signal : StreamSignals]
      BY <3>1 DEF BridgeTyped, StreamPhases
    <3> QED
      BY <1>8, <3>2 DEF CloseReturns, Step, CloserStages, BridgeTyped
  <2>2. Generations'
    BY <1>8 DEF CloseReturns, Step, BridgeTyped, Generations
  <2>3. UsableSince'
    BY <1>8 DEF CloseReturns, Step, BridgeTyped, Generations, UsableSince, Usable
  <2>4. KnownUntilStopped'
    <3>1. closer[c].at = "locking" /\ closer'[c].at = "ended" /\ ~Quiet'
      BY <1>8 DEF CloseReturns, Step, BridgeTyped
    <3>2. UNCHANGED <<projection, service, start>>
      BY <1>8 DEF CloseReturns, Step
    <3>3. \A d \in Closers : closer'[d].at \in {"stopping", "resetting", "locking"} => closer[d].at = closer'[d].at
      BY <1>8, <3>1 DEF CloseReturns, Step, BridgeTyped
    <3>4. service.early => service.at = "stopped"
      BY <3>1 DEF KnownUntilStopped
    <3> QED
      BY <3>1, <3>2, <3>3, <3>4 DEF KnownUntilStopped
  <2>5. AnsweredFirst' /\ CandidatesOfCurrentOffer'
    BY <1>8 DEF CloseReturns, Step, Fresh, StreamSignals, BridgeTyped, Generations, UsableSince, AnsweredFirst, CandidatesOfCurrentOffer
  <2> QED
    BY <2>1, <2>2, <2>3, <2>4, <2>5
<1>9. CASE RetryStops
  BY <1>9 DEF RetryStops, BridgeTyped, Generations, UsableSince, KnownUntilStopped, AnsweredFirst, CandidatesOfCurrentOffer
<1> QED
  BY <1>1, <1>2, <1>3, <1>4, <1>5, <1>6, <1>7, <1>8, <1>9 DEF CloseStep

LEMMA StutterKeeps == BridgeInv /\ UNCHANGED bridgeVars => BridgeInv'
BY DEF BridgeInv, bridgeVars, Quiet, Unlocked, BridgeTyped, Generations, UsableSince, KnownUntilStopped, AnsweredFirst, CandidatesOfCurrentOffer

LEMMA BridgeIsSound == BridgeSpec => []BridgeInv
<1>1. BridgeInv /\ [BridgeNext]_bridgeVars => BridgeInv'
  BY StartKeeps, SignalKeeps, CloseKeeps, StutterKeeps DEF BridgeNext
<1> QED
  BY BridgeInitHolds, <1>1, PTL DEF BridgeSpec

-----------------------------------------------------------------------------
\* A stream that admits offers, commands and polls knows the remote session they go to: start sets
\* Ready after it told the projection, and a close resets it after it left the usable phases
\* (start and close of xbox-ios-bridge/src/streaming.rs).
THEOREM UsableHasASession == BridgeSpec => []UsableHasSession
<1>1. BridgeInv => UsableHasSession
  BY DEF BridgeInv, UsableSince, UsableHasSession
<1> QED
  BY <1>1, BridgeIsSound, PTL

\* Closed is said of a stopped session only, if the flow had its record before the first close,
\* however many owners cancel and close it at once (cancel and close of the same file).
THEOREM ClosedIsStopped == BridgeSpec => []ClosedMeansStopped
<1>1. BridgeInv => ClosedMeansStopped
  BY DEF BridgeInv, KnownUntilStopped, ClosedMeansStopped
<1> QED
  BY <1>1, BridgeIsSound, PTL

\* The candidates kept, and the word that they are over, belong to the offer in force: a poll that
\* awaited the service merges under the lock what it finds current (next_remote_ice_batch).
THEOREM CandidatesAreCurrent == BridgeSpec => []CandidatesOfCurrentOffer
<1>1. BridgeInv => CandidatesOfCurrentOffer
  BY DEF BridgeInv
<1> QED
  BY <1>1, BridgeIsSound, PTL
-----------------------------------------------------------------------------
(* The types and the epochs of the stream object.                          *)

\* An answer is one to an offer that was sent.
Epochs ==
    /\ session.signal.epoch <= MaxEpoch
    /\ session.signal.completed = 1 => session.signal.epoch # 0
    /\ Quiet => \A e \in Exchanges : exchange[e].at = "sent" => session.signal.epoch # 0

LEMMA EpochsInit == BridgeInit => Epochs
BY BridgeAssumption DEF BridgeInit, Epochs, Fresh

LEMMA EpochsStep == BridgeInv /\ Epochs /\ [BridgeNext]_bridgeVars => Epochs'
<1> SUFFICES ASSUME BridgeInv, Epochs, [BridgeNext]_bridgeVars PROVE Epochs'
  OBVIOUS
<1> USE BridgeAssumption
<1>0. /\ BridgeTyped /\ session.signal \in StreamSignals
      /\ session \in [gen : Nat, phase : StreamPhases, signal : StreamSignals]
  BY DEF BridgeInv, BridgeTyped
<1>a. ASSUME session'.signal = session.signal, Quiet' => Quiet,
             \A e \in Exchanges : exchange'[e].at = "sent" => exchange[e].at = "sent"
      PROVE  Epochs'
  BY <1>a DEF Epochs
<1>b. ASSUME session'.signal.epoch = session.signal.epoch, session'.signal.completed = session.signal.completed,
             UNCHANGED <<exchange, closer>>
      PROVE  Epochs'
  BY <1>b DEF Epochs, Quiet
<1>1. CASE BeginGeneration
  <2>1. session'.signal = Fresh /\ UNCHANGED <<exchange, closer>>
    BY <1>1 DEF BeginGeneration
  <2>2. \A e \in Exchanges : exchange[e].at = "idle"
    BY <1>1 DEF BeginGeneration, BridgeInv, UsableSince, BridgeTyped
  <2> QED BY <2>1, <2>2 DEF Epochs, Fresh
<1>2. CASE StartStep /\ ~BeginGeneration
  <2>1. UNCHANGED <<exchange, closer>> /\ session'.signal = session.signal
    BY <1>0, <1>2 DEF StartStep, OnSessionCreated, RecordSession, CreateFails, CreateTimesOut, WaitFails, SessionReady,
                      WriteProjection, StartReturns, StartAt
  <2> QED BY <1>a, <2>1 DEF Quiet
<1>3. ASSUME NEW e \in Exchanges, AskExchange(e) PROVE Epochs'
  <2>1. session' = session /\ closer' = closer /\ \A d \in Exchanges : exchange'[d].at = "sent" => exchange[d].at = "sent"
    BY <1>0, <1>3 DEF AskExchange, BridgeTyped
  <2> QED BY <1>a, <2>1 DEF Quiet
<1>4. ASSUME NEW e \in Exchanges, BeginOfferExchange(e) PROVE Epochs'
  <2>1. CASE ExchangeAt(e, "idle") /\ UNCHANGED session
    <3>1. closer' = closer /\ \A d \in Exchanges : exchange'[d].at = "sent" => exchange[d].at = "sent"
      BY <1>0, <2>1 DEF ExchangeAt, BridgeTyped
    <3> QED BY <1>a, <2>1, <3>1 DEF Quiet
  <2>2. CASE /\ session.signal.epoch < MaxEpoch /\ ExchangeAt(e, "sent")
             /\ session' = [session EXCEPT !.phase = "Negotiating", !.signal = NextOffer(session.signal)]
    <3>1. session'.signal = NextOffer(session.signal)
      BY <1>0, <2>2
    <3>2. NextOffer(session.signal).epoch = session.signal.epoch + 1
      BY <1>0 DEF NextOffer, StreamSignals
    <3>3. session'.signal.epoch \in Nat \ {0} /\ session'.signal.epoch <= MaxEpoch
      BY <1>0, <2>2, <3>1, <3>2 DEF StreamSignals
    <3> QED BY <3>3 DEF Epochs
  <2> QED BY <1>4, <2>1, <2>2 DEF BeginOfferExchange
<1>5. ASSUME NEW e \in Exchanges, OfferAnswered(e) PROVE Epochs'
  <2>1. exchange[e].at = "sent" /\ closer' = closer /\ \A d \in Exchanges : exchange'[d].at = "sent" => exchange[d].at = "sent"
    BY <1>0, <1>5 DEF OfferAnswered, ExchangeAt, BridgeTyped
  <2>2. CASE session' = session
    BY <1>a, <2>1, <2>2 DEF Quiet
  <2>3. CASE gen = exchange[e].gen /\ session' = [session EXCEPT !.signal.completed = 1]
    <3>1. Quiet
      BY <2>1, <2>3 DEF BridgeInv, Generations, UsableSince
    <3>2. session'.signal.epoch = session.signal.epoch
      BY <1>0, <2>3 DEF StreamSignals
    <3>3. session.signal.epoch # 0 /\ session.signal.epoch <= MaxEpoch
      BY <2>1, <3>1 DEF Epochs
    <3> QED BY <3>2, <3>3 DEF Epochs
  <2> QED BY <1>5, <2>2, <2>3 DEF OfferAnswered
<1>6. CASE AskBatch \/ BatchFails \/ OnMonitorTick
  BY <1>6, <1>b DEF AskBatch, BatchFails, BatchAt, OnMonitorTick
<1>7. CASE BatchChecks
  <2>1. UNCHANGED <<exchange, closer>> /\ (session' = session \/ session' = [session EXCEPT !.signal.ended = batch.epoch])
    BY <1>7 DEF BatchChecks, BatchAt
  <2>2. session'.signal.epoch = session.signal.epoch /\ session'.signal.completed = session.signal.completed
    BY <1>0, <2>1 DEF StreamSignals
  <2> QED BY <1>b, <2>1, <2>2
<1>8. CASE BatchMerges
  <2>1. /\ UNCHANGED <<exchange, closer>>
        /\ \/ session' = session
           \/ \E fresh, end \in BOOLEAN :
                  session' = [session EXCEPT !.signal.ice = IF fresh THEN @ \cup {batch.epoch} ELSE @,
                                             !.signal.ended = IF end THEN batch.epoch ELSE @]
    BY <1>8 DEF BatchMerges, BatchAt
  <2>2. CASE session' = session
    BY <1>b, <2>1, <2>2
  <2>3. ASSUME NEW ice, NEW ended, session' = [session EXCEPT !.signal.ice = ice, !.signal.ended = ended]
        PROVE  session'.signal.epoch = session.signal.epoch /\ session'.signal.completed = session.signal.completed
    BY <1>0, <2>3 DEF StreamSignals
  <2>4. CASE session' # session
    <3>1. PICK fresh \in BOOLEAN, end \in BOOLEAN :
              session' = [session EXCEPT !.signal.ice = IF fresh THEN session.signal.ice \cup {batch.epoch} ELSE session.signal.ice,
                                         !.signal.ended = IF end THEN batch.epoch ELSE session.signal.ended]
      BY <1>0, <2>1, <2>4 DEF StreamSignals
    <3> QED BY <1>b, <2>1, <2>3, <3>1
  <2> QED BY <2>2, <2>4
<1>9. CASE MarkConnected
  <2>1. UNCHANGED <<exchange, closer>> /\ session'.signal = session.signal
    BY <1>0, <1>9 DEF MarkConnected
  <2> QED BY <1>b, <2>1
<1>10. ASSUME NEW c \in Closers, NEW to \in CloserStages \ {"idle"}, closer' = [closer EXCEPT ![c].at = to] \/ closer' = [closer EXCEPT ![c] = [at |-> to, gen |-> gen']]
       PROVE  ~Quiet'
  <2>1. closer'[c].at = to
    BY <1>0, <1>10 DEF BridgeTyped
  <2> QED BY <2>1 DEF Quiet
<1>11. ASSUME NEW c \in Closers, Bump(c) PROVE Epochs'
  <2>1. session' = session /\ exchange' = exchange /\ ~Quiet'
    BY <1>10, <1>11 DEF Bump, CloserAt, CloserStages
  <2> QED BY <1>a, <2>1
<1>12. ASSUME NEW c \in Closers, CancelLocks(c) \/ CloseLocks(c) PROVE Epochs'
  <2>1. session'.signal = session.signal /\ exchange' = exchange
    BY <1>0, <1>12 DEF CancelLocks, CloseLocks, Step
  <2>2. ~Quiet'
    BY <1>10, <1>12 DEF CancelLocks, CloseLocks, Step, CloserStages
  <2> QED BY <1>a, <2>1, <2>2
<1>13. ASSUME NEW c \in Closers, ReadsProjection(c) \/ Stopped(c) \/ StopFails(c) \/ ResetsProjection(c) PROVE Epochs'
  <2>1. session' = session /\ exchange' = exchange
    BY <1>13 DEF ReadsProjection, Stopped, StopFails, ResetsProjection, Step
  <2>2. ~Quiet'
    BY <1>10, <1>13 DEF ReadsProjection, Stopped, StopFails, ResetsProjection, Step, CloserStages
  <2> QED BY <1>a, <2>1, <2>2
<1>14. ASSUME NEW c \in Closers, CloseReturns(c) PROVE Epochs'
  <2>1. session'.signal \in {session.signal, Fresh} /\ exchange' = exchange /\ ~Quiet'
    BY <1>0, <1>10, <1>14 DEF CloseReturns, Step, CloserStages
  <2> QED BY <2>1 DEF Epochs, Fresh
<1>15. CASE RetryStops \/ UNCHANGED bridgeVars
  BY <1>15, <1>b DEF RetryStops, bridgeVars
<1> QED
  BY <1>1, <1>2, <1>3, <1>4, <1>5, <1>6, <1>7, <1>8, <1>9, <1>11, <1>12, <1>13, <1>14, <1>15 DEF BridgeNext, SignalStep, CloseStep

\* However many offers, exchanges and owners: candidates and the word that they are over are of an
\* offer that was sent, and the count of offers stays within its bound (SignalingState of streaming.rs).
THEOREM BridgeTypesHold == BridgeSpec => []BridgeTypeOK
<1>1. BridgeInv /\ Epochs => BridgeTypeOK
  <2> SUFFICES ASSUME BridgeInv, Epochs PROVE BridgeTypeOK
    OBVIOUS
  <2>1. BridgeTyped /\ AnsweredFirst /\ CandidatesOfCurrentOffer
    BY DEF BridgeInv
  <2>2. PICK completed \in {0, 1}, epoch \in Nat, ice \in SUBSET Nat, ended \in Nat :
            session.signal = [completed |-> completed, epoch |-> epoch, ice |-> ice, ended |-> ended]
    BY <2>1 DEF BridgeTyped, StreamSignals
  <2>3. epoch <= MaxEpoch /\ (completed = 1 => epoch # 0) /\ ice \subseteq {epoch} /\ ended \in {0, epoch}
        /\ (completed = 0 => ice = {})
    BY <2>1, <2>2 DEF AnsweredFirst, CandidatesOfCurrentOffer, Epochs
  <2>4. epoch \in 0 .. MaxEpoch /\ ended \in 0 .. MaxEpoch /\ ice \in SUBSET (1 .. MaxEpoch)
    BY <2>3, BridgeAssumption
  <2>5. session.signal \in [completed : {0, 1}, epoch : 0 .. MaxEpoch, ice : SUBSET (1 .. MaxEpoch), ended : 0 .. MaxEpoch]
    BY <2>2, <2>4
  <2> QED BY <2>1, <2>5 DEF BridgeTypeOK, BridgeTyped, StreamPhases
<1> QED
  BY <1>1, EpochsInit, EpochsStep, BridgeIsSound, PTL DEF BridgeSpec

=============================================================================
