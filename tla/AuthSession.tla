------------------------------ MODULE AuthSession ------------------------------
(***************************************************************************)
(* The desktop's sign-in: the token store on disk, the runtime state the   *)
(* page sees, and the calls that work on both, on the threads of an async  *)
(* runtime.  A call is a task; a step is one access to the store, one to   *)
(* the runtime state under its mutex, or one answer of the network.        *)
(***************************************************************************)
EXTENDS Naturals, FiniteSets

CONSTANTS Callers,    \* the tasks that may run at once
          Grants,     \* the sets of offerings the streaming service may grant tokens for
          MaxLogins   \* how many logins are started (bound)

ASSUME LoginAssumption == MaxLogins \in Nat

VARIABLES store,      \* what is on disk: the age of the web token, the level of the stream tokens
          auth,       \* AuthRuntimeState
          oauth,      \* the OAuth window: open or not, and whether its closing has cancels to run
          started,    \* logins started
          call,       \* what each task is doing, with its locals
          broken,     \* an access to the store has failed
          cleared     \* history: all tokens were cleared, and since then neither a callback came
                      \* nor did a task write what it had in hand when they were

authVars == <<store, auth, oauth, started, call, broken, cleared>>

NoTokens == [user |-> FALSE, sisu |-> FALSE, key |-> FALSE, web |-> "none", stream |-> 0]
NoPayload == [user |-> FALSE, sisu |-> FALSE, key |-> FALSE]
NoState == [signedIn |-> FALSE, level |-> 0]
IdleCall == [at |-> "idle", then |-> "idle", job |-> "none", login |-> 0, level |-> 0, web |-> FALSE,
         was |-> NoState, payload |-> NoPayload, late |-> FALSE]

\* The level the answers of the streaming service amount to: without a home
\* token the flow fails, either cloud offering makes it 2.
BundleLevel(answers) ==
    IF "xhome" \notin answers THEN 0
    ELSE IF {"xgpuweb", "xgpuwebf2p"} \cap answers = {} THEN 1 ELSE 2

\* The level of the valid session on disk, 0 if there is none.
ValidLevel == IF store.web = "fresh" THEN store.stream ELSE 0

\* A start finds the tokens of an earlier run, of any age.
AuthInit ==
    /\ store \in {NoTokens} \cup [user : {TRUE}, sisu : {TRUE}, key : {TRUE}, web : {"fresh", "old"}, stream : {1}]
    /\ auth = [busy |-> FALSE, signedIn |-> ValidLevel > 0, level |-> store.stream,
               pending |-> 0, callback |-> FALSE]
    /\ oauth = [open |-> FALSE, cancels |-> FALSE]
    /\ started = 0 /\ broken = FALSE /\ cleared = FALSE
    /\ call = [p \in Callers |-> IdleCall]

----------------------------------------------------------------------------
(* Steps of a task.                                                        *)

AuthAt(p, step) == call[p].at = step
AuthGoTo(p, step) == call' = [call EXCEPT ![p].at = step]
AuthLeave(p) == call' = [call EXCEPT ![p] = IdleCall]

\* sync_auth_state: read the snapshot, then go on; the call's locals are done with.
SyncThen(p, step) ==
    call' = [call EXCEPT ![p] = [IdleCall EXCEPT !.at = "read", !.then = step,
                                                 !.job = IF step = "idle" THEN "none" ELSE call[p].job]]

BeginCall(p, job, step) ==
    /\ AuthAt(p, "idle")
    /\ call' = [call EXCEPT ![p] = [IdleCall EXCEPT !.at = step, !.job = job]]

OAuthClosed == [open |-> FALSE, cancels |-> oauth.open \/ oauth.cancels]
SignedOut == [auth EXCEPT !.busy = FALSE, !.signedIn = FALSE, !.level = 0]
KeepStore == UNCHANGED <<store, cleared>>

\* Task p writes: what it had in hand at the last sign-out is no longer held back.
LateWrite(p) == cleared' = (cleared /\ ~call[p].late)
KeepOAuth == UNCHANGED <<oauth, started>>

AfterSync(p) ==
    IF call[p].then = "idle" THEN AuthLeave(p)
    ELSE call' = [call EXCEPT ![p].at = call[p].then, ![p].then = "idle", ![p].level = 0]

\* Without a session in it the snapshot changes nothing.
ReadSnapshot(p) ==
    /\ AuthAt(p, "read")
    /\ IF ValidLevel = 0 THEN AfterSync(p)
       ELSE call' = [call EXCEPT ![p].at = "sync", ![p].level = ValidLevel]
    /\ KeepStore /\ KeepOAuth /\ UNCHANGED <<auth, broken>>

SyncState(p) ==
    /\ AuthAt(p, "sync")
    /\ auth' = IF auth.busy THEN auth ELSE [auth EXCEPT !.signedIn = TRUE, !.level = call[p].level]
    /\ AfterSync(p)
    /\ LateWrite(p) /\ KeepOAuth /\ UNCHANGED <<store, broken>>

GetState(p) ==
    /\ BeginCall(p, "none", "read")
    /\ KeepStore /\ KeepOAuth /\ UNCHANGED <<auth, broken>>

----------------------------------------------------------------------------
(* Storing the tokens of a refresh or of a login.  The user token, the     *)
(* sisu token and the key are one payload: it is read, changed and written *)
(* back, and nothing keeps other tasks out in between.                     *)

GetPayload(p) ==
    /\ call[p].at \in {"user", "sisu", "key"}
    /\ call' = [call EXCEPT
                  ![p].at = CASE AuthAt(p, "user") -> "setUser" [] AuthAt(p, "sisu") -> "setSisu" [] OTHER -> "setKey",
                  ![p].payload = [user |-> store.user, sisu |-> store.sisu, key |-> store.key]]
    /\ KeepStore /\ KeepOAuth /\ UNCHANGED <<auth, broken>>

\* The store once the write of p is in it.
StoreAfter(p) ==
    LET c == call[p]
        Core(field) == LET new == [c.payload EXCEPT ![field] = TRUE]
                       IN [store EXCEPT !.user = new.user, !.sisu = new.sisu, !.key = new.key]
    IN CASE c.at = "setUser" -> Core("user")
         [] c.at = "setSisu" -> Core("sisu")
         [] c.at = "setKey" -> Core("key")
         [] c.at = "web" -> [store EXCEPT !.web = "fresh"]
         [] c.at = "stream" -> [store EXCEPT !.stream = c.level]
         [] c.at = "clear" /\ c.job = "ephemeral" -> [store EXCEPT !.web = "none", !.stream = 0]
         [] OTHER -> NoTokens

AfterToken == [setUser |-> "sisu", setSisu |-> "web", web |-> "stream", stream |-> "mark",
               setKey |-> "pend"]

WroteToken(p, step) == call' = [call EXCEPT ![p].at = step, ![p].payload = NoPayload]

SaveToken(p) ==
    /\ call[p].at \in DOMAIN AfterToken
    /\ store' = StoreAfter(p)
    /\ WroteToken(p, AfterToken[call[p].at])
    /\ LateWrite(p) /\ KeepOAuth /\ UNCHANGED <<auth, broken>>

\* A login closes the OAuth window before it reports.
MarkAuthenticated(p) ==
    /\ AuthAt(p, "mark")
    /\ auth' = [auth EXCEPT !.busy = FALSE, !.signedIn = TRUE, !.level = call[p].level]
    /\ IF call[p].job = "callback" THEN oauth' = OAuthClosed /\ SyncThen(p, "unmark")
       ELSE oauth' = oauth /\ SyncThen(p, "idle")
    /\ LateWrite(p) /\ UNCHANGED <<store, started, broken>>

----------------------------------------------------------------------------
(* check_authentication.                                                   *)

\* While signed in a check rests for 15 seconds; they may be over at any time.
BeginCheck(p) ==
    /\ ~auth.busy
    /\ AuthAt(p, "idle")
    /\ call' = [call EXCEPT ![p] = [IdleCall EXCEPT !.at = "read", !.then = "snapshot", !.job = "check",
                                    !.was = [signedIn |-> auth.signedIn, level |-> auth.level]]]
    /\ auth' = [auth EXCEPT !.busy = TRUE]
    /\ KeepStore /\ KeepOAuth /\ UNCHANGED broken

CheckSnapshot(p) ==
    /\ AuthAt(p, "snapshot")
    /\ call' = [call EXCEPT ![p].at = IF ValidLevel > 0 THEN "accept" ELSE "policy",
                            ![p].level = ValidLevel]
    /\ KeepStore /\ KeepOAuth /\ UNCHANGED <<auth, broken>>

AcceptSnapshot(p) ==
    /\ AuthAt(p, "accept")
    /\ auth' = [auth EXCEPT !.busy = FALSE, !.signedIn = TRUE, !.level = call[p].level]
    /\ SyncThen(p, "idle")
    /\ LateWrite(p) /\ KeepOAuth /\ UNCHANGED <<store, broken>>

SilentFlowPolicy(p) ==
    /\ AuthAt(p, "policy")
    /\ AuthGoTo(p, IF store.user THEN "silent" ELSE "signedOut")
    /\ KeepStore /\ KeepOAuth /\ UNCHANGED <<auth, broken>>

\* A refresh needs the user token and the key, and the sisu token too when
\* the core tokens are kept: they must be younger than 23 hours.
StartSilentFlow(p) ==
    /\ AuthAt(p, "silent")
    /\ \E young \in BOOLEAN :
          LET skip == young /\ store.stream > 0 /\ store.web # "none"
          IN AuthGoTo(p, IF store.user /\ store.key /\ (skip => store.sisu) THEN "refresh" ELSE "wipe")
    /\ KeepStore /\ KeepOAuth /\ UNCHANGED <<auth, broken>>

Refreshed(p, answers) ==
    /\ AuthAt(p, "refresh") /\ BundleLevel(answers) > 0
    /\ call' = [call EXCEPT ![p].at = "user", ![p].level = BundleLevel(answers),
                            ![p].login = 0, ![p].was = NoState]
    /\ KeepStore /\ KeepOAuth /\ UNCHANGED <<auth, broken>>

\* A transient error keeps the session, any other clears every token.
RefreshFails(p) ==
    /\ AuthAt(p, "refresh")
    /\ \E step \in {"fallback", "wipe"} : AuthGoTo(p, step)
    /\ KeepStore /\ KeepOAuth /\ UNCHANGED <<auth, broken>>

ReadFallback(p) ==
    /\ AuthAt(p, "fallback")
    /\ call' = [call EXCEPT ![p].at = "keep", ![p].level = store.stream, ![p].web = store.web # "none"]
    /\ KeepStore /\ KeepOAuth /\ UNCHANGED <<auth, broken>>

KeepSession(p) ==
    /\ AuthAt(p, "keep")
    /\ LET c == call[p]
       IN auth' = [auth EXCEPT
                    !.busy = FALSE,
                    !.signedIn = c.was.signedIn \/ c.web \/ c.level > 0,
                    !.level = IF c.level > 0 THEN c.level
                              ELSE IF c.was.level > 0 THEN c.was.level
                              ELSE IF c.web THEN 1 ELSE 0]
    /\ SyncThen(p, "idle")
    /\ LateWrite(p) /\ KeepOAuth /\ UNCHANGED <<store, broken>>

WipeTokens(p) ==
    /\ AuthAt(p, "wipe")
    /\ store' = StoreAfter(p)
    /\ AuthGoTo(p, "signedOut")
    /\ KeepOAuth /\ UNCHANGED <<cleared, auth, broken>>

\* Mutant: the sign-out forgets that a check was under way.
FinishStaysBusy(p) ==
    /\ AuthAt(p, "signedOut")
    /\ auth' = [SignedOut EXCEPT !.busy = auth.busy]
    /\ SyncThen(p, "idle")
    /\ KeepStore /\ KeepOAuth /\ UNCHANGED broken

FinishSignedOut(p) ==
    /\ AuthAt(p, "signedOut")
    /\ auth' = SignedOut
    /\ SyncThen(p, "idle")
    /\ KeepStore /\ KeepOAuth /\ UNCHANGED broken

----------------------------------------------------------------------------
(* login, the OAuth window and its callback.                               *)

BeginLogin(p) ==
    /\ started < MaxLogins
    /\ AuthAt(p, "idle")
    /\ call' = [call EXCEPT ![p] = [IdleCall EXCEPT !.at = "login", !.job = "login", !.login = started + 1]]
    /\ started' = started + 1
    /\ auth' = [auth EXCEPT !.busy = TRUE]
    /\ KeepStore /\ UNCHANGED <<oauth, broken>>

LoginStarts(p) ==
    /\ AuthAt(p, "login")
    /\ \E step \in {"key", "failed"} : AuthGoTo(p, step)
    /\ KeepStore /\ KeepOAuth /\ UNCHANGED <<auth, broken>>

StorePending(p) ==
    /\ AuthAt(p, "pend")
    /\ auth' = [auth EXCEPT !.pending = call[p].login]
    /\ SyncThen(p, "window")
    /\ KeepStore /\ KeepOAuth /\ UNCHANGED broken

FailLogin(p) ==
    /\ AuthAt(p, "failed")
    /\ auth' = [auth EXCEPT !.pending = 0, !.busy = FALSE]
    /\ SyncThen(p, "idle")
    /\ KeepStore /\ KeepOAuth /\ UNCHANGED broken

\* The window is built or reused; it may fail to be built.
OpenWindow(p) ==
    /\ AuthAt(p, "window")
    /\ \E built \in {TRUE, oauth.open} : oauth' = [oauth EXCEPT !.open = built]
    /\ AuthLeave(p)
    /\ KeepStore /\ UNCHANGED <<auth, started, broken>>

\* The window is sent to the redirect address of one of the logins, or of none.
BeginCallback(p, login) ==
    /\ oauth.open /\ AuthAt(p, "idle")
    /\ call' = [call EXCEPT ![p] = [IdleCall EXCEPT !.at = "read", !.then = "take", !.job = "callback",
                                    !.login = login]]
    /\ auth' = [auth EXCEPT !.callback = TRUE]
    /\ KeepStore /\ KeepOAuth /\ UNCHANGED broken

\* The pending login is taken whoever it belongs to.
TakePending(p) ==
    /\ AuthAt(p, "take")
    /\ auth' = [auth EXCEPT !.pending = 0, !.busy = IF auth.pending = 0 THEN FALSE ELSE @]
    /\ call' = [call EXCEPT ![p].at = IF auth.pending = 0 THEN "unmark" ELSE "seed",
                            ![p].login = IF auth.pending = @ THEN @ ELSE 0]
    /\ cleared' = FALSE
    /\ KeepOAuth /\ UNCHANGED <<store, broken>>

\* Without the key the call returns at once, and leaves the state as it is.
LoadSeed(p) ==
    /\ AuthAt(p, "seed")
    /\ AuthGoTo(p, IF store.key THEN "exchange" ELSE "unmark")
    /\ KeepStore /\ KeepOAuth /\ UNCHANGED <<auth, broken>>

Exchanged(p, answers) ==
    /\ AuthAt(p, "exchange") /\ call[p].login # 0 /\ BundleLevel(answers) > 0
    /\ call' = [call EXCEPT ![p].at = "user", ![p].level = BundleLevel(answers),
                            ![p].login = 0, ![p].was = NoState]
    /\ KeepStore /\ KeepOAuth /\ UNCHANGED <<auth, broken>>

ExchangeFails(p) ==
    /\ AuthAt(p, "exchange")
    /\ AuthGoTo(p, "giveUp")
    /\ KeepStore /\ KeepOAuth /\ UNCHANGED <<auth, broken>>

GiveUp(p) ==
    /\ AuthAt(p, "giveUp")
    /\ auth' = [auth EXCEPT !.busy = FALSE]
    /\ SyncThen(p, "unmark")
    /\ KeepStore /\ KeepOAuth /\ UNCHANGED broken

UnmarkCallback(p) ==
    /\ AuthAt(p, "unmark")
    /\ auth' = [auth EXCEPT !.callback = FALSE]
    /\ SyncThen(p, "shut")
    /\ KeepStore /\ KeepOAuth /\ UNCHANGED broken

ShutWindow(p) ==
    /\ AuthAt(p, "shut")
    /\ oauth' = OAuthClosed
    /\ AuthLeave(p)
    /\ KeepStore /\ UNCHANGED <<auth, started, broken>>

UserClosesWindow ==
    /\ oauth.open
    /\ oauth' = OAuthClosed
    /\ KeepStore /\ UNCHANGED <<auth, started, call, broken>>

\* A window that closes reports it more than once.  Each report cancels the
\* login, but not while its callback is being processed.
CancelPendingLogin(p) ==
    /\ oauth.cancels
    /\ BeginCall(p, "none", "read")
    /\ \E more \in BOOLEAN : oauth' = [oauth EXCEPT !.cancels = more]
    /\ auth' = IF ~auth.callback /\ (auth.pending # 0 \/ auth.busy)
               THEN [SignedOut EXCEPT !.pending = 0] ELSE auth
    /\ KeepStore /\ UNCHANGED <<started, broken>>

----------------------------------------------------------------------------
(* logout, clear_auth_cache and the purge of the store.                    *)

BeginLogout(p, scope) ==
    /\ BeginCall(p, scope, "clear")
    /\ oauth' = OAuthClosed
    /\ KeepStore /\ UNCHANGED <<auth, started, broken>>

\* What a task read or was given and may still write or report.
HoldsTokens(p) ==
    call[p].at \in {"sync", "accept", "refresh", "fallback", "keep", "exchange",
                    "user", "setUser", "sisu", "setSisu", "web", "stream", "mark", "setKey", "seed"}

\* All tokens gone, the tasks that still have some in hand are noted.
NoteLate(p) ==
    /\ cleared' = TRUE
    /\ call' = [q \in Callers |-> IF q = p THEN [call[p] EXCEPT !.at = "reset"]
                                 ELSE [call[q] EXCEPT !.late = HoldsTokens(q)]]

\* Mutant: the stream tokens outlive the sign-out.
ClearTokensKeepsStreams(p) ==
    /\ AuthAt(p, "clear")
    /\ store' = [StoreAfter(p) EXCEPT !.stream = store.stream]
    /\ IF call[p].job = "all" THEN NoteLate(p) ELSE AuthGoTo(p, "reset") /\ UNCHANGED cleared
    /\ KeepOAuth /\ UNCHANGED <<auth, broken>>

ClearTokens(p) ==
    /\ AuthAt(p, "clear")
    /\ store' = StoreAfter(p)
    /\ IF call[p].job = "all" THEN NoteLate(p) ELSE AuthGoTo(p, "reset") /\ UNCHANGED cleared
    /\ KeepOAuth /\ UNCHANGED <<auth, broken>>

ClearAuthState(p) ==
    /\ AuthAt(p, "reset")
    /\ auth' = [SignedOut EXCEPT !.pending = 0]
    /\ SyncThen(p, "idle")
    /\ KeepStore /\ KeepOAuth /\ UNCHANGED broken

----------------------------------------------------------------------------
(* The store fails: errors of the silent flow count as fatal, the others   *)
(* return to the caller, and only a login puts the state in order first.   *)
(* A write whose saving failed may still be what later reads see.  One     *)
(* failure is allowed (bound).                                             *)

Saving(p) == call[p].at \in {"user", "setUser", "sisu", "setSisu", "web", "stream"}

StoreFails(p) ==
    /\ ~broken
    /\ \/ AuthAt(p, "silent") /\ AuthGoTo(p, "wipe")
       \/ Saving(p) /\ call[p].job = "check" /\ WroteToken(p, "wipe")
       \/ Saving(p) /\ call[p].job = "callback" /\ WroteToken(p, "unmark")
       \/ call[p].at \in {"key", "setKey"} /\ WroteToken(p, "failed")
       \/ call[p].at \in {"snapshot", "policy", "fallback", "wipe"} /\ SyncThen(p, "idle")
       \/ AuthAt(p, "clear") /\ AuthLeave(p)
    /\ \/ store' = store
       \/ call[p].at \in DOMAIN AfterToken \cup {"wipe", "clear"} /\ store' = StoreAfter(p)
    /\ broken' = TRUE
    /\ LateWrite(p) /\ KeepOAuth /\ UNCHANGED auth

----------------------------------------------------------------------------
(* Time.                                                                   *)

TokensExpire ==
    /\ store.web = "fresh"
    /\ store' = [store EXCEPT !.web = "old"]
    /\ KeepOAuth /\ UNCHANGED <<auth, call, broken, cleared>>

CheckStep(p) ==
    \/ CheckSnapshot(p) \/ AcceptSnapshot(p) \/ SilentFlowPolicy(p) \/ StartSilentFlow(p)
    \/ \E answers \in Grants : Refreshed(p, answers)
    \/ RefreshFails(p) \/ ReadFallback(p) \/ KeepSession(p) \/ WipeTokens(p) \/ FinishSignedOut(p)

SaveStep(p) == GetPayload(p) \/ SaveToken(p) \/ MarkAuthenticated(p)

LoginStep(p) ==
    \/ LoginStarts(p) \/ StorePending(p) \/ FailLogin(p) \/ OpenWindow(p)
    \/ TakePending(p) \/ LoadSeed(p)
    \/ \E answers \in Grants : Exchanged(p, answers)
    \/ ExchangeFails(p) \/ GiveUp(p) \/ UnmarkCallback(p) \/ ShutWindow(p)

AuthNext ==
    \/ \E p \in Callers :
        \/ ReadSnapshot(p) \/ SyncState(p) \/ CheckStep(p) \/ SaveStep(p) \/ LoginStep(p)
        \/ GetState(p) \/ BeginCheck(p) \/ BeginLogin(p) \/ CancelPendingLogin(p)
        \/ \E login \in 0 .. started : BeginCallback(p, login)
        \/ \E scope \in {"all", "ephemeral"} : BeginLogout(p, scope)
        \/ ClearTokens(p) \/ ClearAuthState(p) \/ StoreFails(p)
    \/ UserClosesWindow \/ TokensExpire

AuthSpec == AuthInit /\ [][AuthNext]_authVars

----------------------------------------------------------------------------
(* Properties.                                                             *)

StoreFields == [user : BOOLEAN, sisu : BOOLEAN, key : BOOLEAN, web : {"none", "fresh", "old"}, stream : 0 .. 2]
CallStages == {"idle", "read", "sync", "snapshot", "accept", "policy", "silent", "refresh", "fallback",
           "keep", "wipe", "signedOut", "user", "setUser", "sisu", "setSisu", "web", "stream", "mark",
           "login", "key", "setKey", "pend", "failed", "window", "take", "seed", "exchange", "giveUp", "unmark", "shut",
           "clear", "reset"}

\* Types of the sign-in's state.
AuthTypeOK ==
    /\ store \in StoreFields
    /\ auth \in [busy : BOOLEAN, signedIn : BOOLEAN, level : 0 .. 2, pending : 0 .. MaxLogins,
                 callback : BOOLEAN]
    /\ oauth \in [open : BOOLEAN, cancels : BOOLEAN]
    /\ started \in 0 .. MaxLogins /\ broken \in BOOLEAN /\ cleared \in BOOLEAN
    /\ call \in [Callers -> [at : CallStages, then : CallStages,
                             job : {"none", "check", "login", "callback", "all", "ephemeral"},
                             login : 0 .. MaxLogins, level : 0 .. 2, web : BOOLEAN,
                             was : [signedIn : BOOLEAN, level : 0 .. 2],
                             payload : [user : BOOLEAN, sisu : BOOLEAN, key : BOOLEAN], late : BOOLEAN]]

\* After a logout the user stays signed out, whatever tasks it met on their way: no check, login, read
\* of the state or cancel brings a token or the signed-in state back, until a callback comes or a task
\* writes what it already had in hand when the tokens were cleared (logout_impl).
LogoutSticks ==
    cleared =>
        /\ ~store.user /\ store.web = "none" /\ store.stream = 0
        /\ auth.signedIn => \E p \in Callers : AuthAt(p, "reset")

\* "Authenticating" with nobody to end it: no task at work, no window to complete or to close.
Stranded ==
    /\ auth.busy /\ ~oauth.open /\ ~oauth.cancels
    /\ \A p \in Callers : call[p].job = "none"

\* "Authenticating" keeps every check out, so it must not be left behind.  It is left behind in three
\* ways only: the window of a login could not be built (rpc.rs returns the error), a callback that
\* gave up finds its window closed from under it, or an error of the store ends a check or a sign-out.
BusyHasCause ==
    [][Stranded' => \/ Stranded
                    \/ \E p \in Callers :
                          \/ AuthAt(p, "window") /\ ~oauth'.open
                          \/ AuthAt(p, "shut") /\ ~oauth.open /\ ~oauth.cancels
                          \/ /\ broken' # broken /\ call[p].job \in {"check", "all", "ephemeral"}
                             /\ call'[p].job = "none"]_authVars
=============================================================================
