# xbxrc in TLA+

xbxrc plays Xbox consoles ("home") and Xbox Cloud titles ("cloud") remotely. This directory specifies
the part of it where several tasks, a remote service and a user act on the same session: who may start
a session of a target, who closes it, and what happens when answers are late, lost or wrong; and beside
it the services that a stream needs: signaling, sign-in, the leases of access, the catalog, the trace of
what happened, and the way from the user's settings to the plan of a stream.

## 1. Inventory

| Component | Source | State it keeps | Operations | What makes it correct |
|---|---|---|---|---|
| Startup registry | `crates/xbox-streaming/src/session/operation.rs` | attempts with their cancellation scopes, owned resources, tracked operations, targets with an unknown create, a shutdown latch | begin, cancel, finish, prune, set/release owned, track, record unknown, shutdown | one attempt per target; nothing of an attempt is forgotten; bounded |
| Startup and create tasks | `session/startup.rs`, `session/flow.rs`, `src-tauri/src/mods/streaming/service.rs` | the stage of each start, create and cancel | start_session, create_session_record, cancel_startup, wait for readiness, home re-create | a cancel leaves nothing behind; every start ends; no two sessions of one target |
| Remote cleanup, shutdown | `session/cleanup.rs` | pending cleanups, their results and retries | close_session, ensure_target_cleanup, retry, shutdown | a failed stop keeps the target closed; an orderly exit closes everything |
| Session store | `session/store.rs` | records by id, each with a token (generation) | insert, upsert, remove, compare by token | an old generation never touches a new one |
| Monitor and keepalive | `session/scheduler.rs`, `monitor.rs` | the session snapshot, what was observed | tick, keepalive, terminal errors | terminal states absorb; playback is not failed by start-up timeouts |
| Startup waits | `session/startup.rs`, `operation.rs` (`PreparationBudget`), `flow.rs` | the ages of the waits, the number of re-creates, the last recovery signal | wait for the console, wake it, create with retries, wait for the session, decide on a re-create | queue time is not charged; a second create only after the first failed |
| Startup errors | `session/flow.rs`, `mods/streaming/service.rs`, `projection.rs`, `types.rs`, `src/streaming/stream-errors.ts` | none | classify, hint, tell the page | the flow and the adapter tell one failure alike |
| Signaling | `session/signaling/*` | last answers, ICE generation and baselines | exchange_offer, poll_ice | a stale answer or candidate is never applied |
| Policy compiler | `crates/xbox-streaming/src/policy/*` | none | compile a plan, project it | every plan is complete and is what was asked for |
| Settings and adapters | `mods/config/*`, `mods/streaming/config_policy.rs`, `context.rs`, `service.rs`, `xbox-ios-bridge/src/streaming.rs` | the settings, the fallback TURN server found | patch, normalise, resolve a plan, project it | the two hosts make the same plan of the same settings |
| Sign-in | `mods/auth/*`, `xbox-auth-flow` | tokens in memory and on disk, the window, a pending login | check, refresh, login, callback, logout | a logout is not undone by a late refresh; "authenticating" ends |
| Runtime trace | `mods/runtime_trace/*` | a bounded queue, a writer, drop counters | publish, write, reconfigure | losses are counted; a row lands where its configuration says |
| Data services and cache | `mods/data/*` | catalog overlays and texts on disk and in memory, refreshes under way | load, join a refresh, refresh | one refresh per key, and nobody waits for none |
| iOS stream object | `crates/xbox-ios-bridge/src/streaming.rs` | a generation outside the lock, a phase, candidates | start, exchange, poll, cancel, close | a late return never revives or ends a newer generation |
| iOS access leases | `crates/xbox-ios-bridge/src/cloud_access.rs` | leases by handle, generations by owner | prepare, load, release, expire | the tokens of one owner are with one lease only |
| Connection recovery | `src/streaming/runtime/connection-recovery.ts` | the recovery transaction in flight, its gate and budget | run, reset, observeFrame, reserveFollowup | one connection action at a time, a bounded number per episode |
| Protocol crate, API gateways, web API client | `xbox-streaming-protocol`, `session/api/*`, `crates/xbox-webapi` | none | encode, request, map an answer | they enter the models as the answers the service can give |
| Browser runtime (but for recovery), player, navigation | `src/src/streaming/runtime`, `src/src/player`, `src/src/navigation` | WebRTC peers, media, input, focus | launch, negotiate, render, input | outside this project, except as the source of requests |
| iOS app, catalog flow, updater, window | `iosapp`, `crates/xbox-cloud-catalog-flow`, ... | mostly I/O | | outside this project, except as the source of requests |

How they interact: the page asks the Tauri service to start, cancel and close (RPC, at any time and in
any order); the service runs the start under a scope of the registry; the create runs in a task of its
own so that an abandoned start still takes delivery of what the service made; monitor and keepalive
loops share the stored record; every close goes through one table of pending cleanups, and a start
clears the pending cleanups of its target first. Everything is keyed by session id *and* generation,
because the service may name two sessions alike. A stream that is ready exchanges offers and candidates
through the same flow, under locks of the session. Sign-in, settings, catalog and trace share no state
with the session and none with each other: the page, or the iOS app, calls each of them.

Hard behaviours: cancellation before, during and after each await; answers that arrive after the
caller gave up or never; a stop that fails and is retried while others ask for the same target; id
reuse; several critical sections where one would be simpler; capacity limits checked in different
places; shutdown against tasks already under way. `PROJECT.json` lists them at their lines, with the
properties that cover each.

## 2. Modules

| Module | What it is |
|---|---|
| `StartupRegistry` | the registry, one operator per operation (each runs under one mutex) |
| `SessionLifecycle` | the tasks over it: per attempt a driver (`start_session`), a create task and a canceller; closers, cleanups, the store, the service and shutdown |
| `SessionSafety` | the invariants of the lifecycle, and the inductive invariants the proofs use |
| `SessionLiveness` | fairness and what must eventually happen |
| `TargetOwnership` | the abstract specification: what the registry promises each target |
| `SessionRefinement` | the mapping under which `SessionLifecycle` implements `TargetOwnership` |
| `MCSession` + `MC*.cfg` | the instances TLC checks |
| `SessionProofs` | theorems checked by TLAPS |
| `SessionMonitor` | the monitor and keepalive loops of the records of one session id, the tick they apply, and those who close and replace records meanwhile |
| `MCMonitor` + `MCMonitor*.cfg`, `MCAbsorbs`, `MCDemoted` | its instances |
| `SessionMonitorProofs` | theorems about it |
| `ConnectionRecovery` + `MCRecovery.cfg` | the page's connection recovery coordinator and the runtime host that feeds it |
| `ConnectionRecoveryProofs` | theorems about it |
| `Signaling` | the exchanges of SDP and ICE of a session, and a service that keeps what it answered last |
| `BridgeSession` | `XboxStreamSession`, the object the iOS app holds for one stream |
| `AccessLeases` | the iOS registry of prepared access |
| `AuthSession` | the desktop's sign-in |
| `DataCatalog` | the catalog of cloud titles, its caches and its refreshes |
| `RuntimeTrace` | the recorder of traces: publishers, a bounded queue, a writer |
| `StartupWait` | what a startup waits for; instantiates `SessionMonitor` for its tick and its phases |
| `StreamPolicy` | the policy compiler, as pure operators |
| `StreamSettings` | settings, and the plan either host makes of them with `StreamPolicy` |
| `StartupErrors` | what the page is told of a failure, as pure operators |
| `MCServices` + `MCServices.cfg` | one instance of the eight components above that have a state; `MCClosed.cfg` is one of `StartupWait` alone |
| `ServiceProofs` | theorems about `AuthSession`, `BridgeSession`, `AccessLeases`, `RuntimeTrace` and `DataCatalog` |
| `SettingsProofs` | theorems about `StreamSettings`, and about the operators of `StreamPolicy` |
| `StartupProofs` | theorems about `StartupErrors` and `StartupWait` |
| `SignalingProofs` | theorems about `Signaling` |
| `MCServicesProofs` | theorems about `MCServices`, from those of its components |

### StartupRegistry and SessionLifecycle

An *attempt* stands for its id and its scope (the page makes a fresh id per start). A *generation*
is a `SessionCancelToken`; `idOf` gives the service's name of it, `maker` the attempt that recorded
it. The mapping of state to code:

| Model | Code |
|---|---|
| `entry`, `cancelled`, `creating`, `owned` | `StartupRegistry.entries`, and per scope its token, `creating` and `owned` |
| `active`, `unknown`, `shuttingDown` | `StartupRegistry.active`, `unknown_targets`, `shutting_down` |
| `driver`, `sid`, `seen`, `pend`, `recreate` | where `start_session` stands and its locals |
| `task`, `reply` | `create_session_with_observer`'s spawned task |
| `canceller`, `held` | `cancel_startup` |
| `session`, `dead` | `SessionRuntimeStore.records`, cancelled tokens |
| `cleanup`, `stop`, `notify`, `joined` | `cleanups`, the progress of the stop of each generation, closers that have yet to run `cancel_session`, and the entries tasks await |
| `remote` | which sessions live on the service |
| `exit`, `scheduled`, `jobs` | `shutdown` |

A step runs from one await or lock to the next; the stages of a task are named for what it does next.
`scope.run` races its operation against cancellation and a timeout, so each wait of the driver may
end in failure at any time, with or without having cancelled the scope. A stop that failed and one
that has not been answered look alike (`stop = "pending"`): whoever awaits it may be told of an error,
the background retry or the next closer may still succeed.

Assumptions the model makes, each where it bites:
 - 15 s pass only in waits on the network (`SettleTimedOut`), 300 s only when no canceller has the
   entry in hand (`Expired`);
 - the service names an ended session again only in a create whose round trip is longer than the two
   locks that end a cleanup (`ServiceCreates`, with `ReuseIds`);
 - the page makes attempt ids that are unique (it uses random UUIDs).

`OrderlyExitIsClean` is about what is stored and under way here: a remote stop may still be outstanding
when the process ends.

Left out here: how long a start waits and which errors it tries again (any may be; `StartupWait`
has both), what a record says (`SessionMonitor`), sessions iOS starts outside the registry.

### SessionMonitor

`SessionLifecycle` knows of a record only that it exists; `SessionMonitor` looks inside. There is one
slot (one session id) and records of any number of generations pass through it.

| Model | Code |
|---|---|
| `slot`, `rec` | the record stored under the id: generation, `player_state`, `stream_state`, `reached_provisioned` and what kind of error it carries |
| `dead`, `closing` | cancelled tokens; closes between `cancel` and `clear_session` |
| `mon`, `mview`, `msend` | per generation, the monitor loop: its stage, the copy of the record it works on, and `should_send_connect_token` |
| `keep`, `kview` | per generation, the keepalive loop |
| `sent` | `connect_token_sent` of the mutation entry |
| `gone`, `provisioned` | the service's side: sessions it has forgotten, sessions it reported Provisioned |
| `played`, `ousted` | history: generations whose stored record ever told of playback, and those a keepalive loop ended |

`Tick` is `apply_monitor_tick` as a function of record, observed state and a late clock; `Phase` is
`resolve_session_phase`. A tick is five steps: read the record, get an answer, look at the token
under the mutation lock, write back (`upsert_if_same`), and send the connect token or cancel. Between
them anything else may run, and the loop may be dropped because its token was cancelled or its 45 s
are over. The loops look the record up by id, so a loop of an old generation may work on a copy of a
new one; the model lets it. The two looks of the keepalive at the record before it
asks the service (scheduler.rs:91, 103) are one step. Repeat counters, queue details and trace events are left out.

Most runs switch the deadlock check off because the system may rightly stop: when every generation of
the instance has been closed and its loops have ended, nothing is left to do.

### ConnectionRecovery

The page runs on one thread, so a step is what happens between two awaits; the asynchrony is in which
of the pending continuations, timers and events comes next. A transaction is a chain (`stage`): queued
as a microtask, deciding, decided, acting, observing, over. Beside the chain its `action` (the execute
promise) goes on whether or not the chain still waits for it.

| Model | Code |
|---|---|
| `generation` | the coordinator's `generation` and the host's `launchGeneration`, which are always raised together (runtime-host.ts:408, 521) |
| `flight`, `gate`, `actionCount`, `sequence` | the same |
| `stable` | `stableSince` is not null: a run of frames has begun |
| `kind`, `epoch`, `token` | which proposal it is, and what its closures captured |
| `outcome` | `finished` and the result `finish` was called with; the scope is aborted exactly when it is neither `none` nor `observed` |
| `action` in queued, running | `actionRunning` |
| `host`, `runtimeToken`, `turnUsed` | runtime closed, launching, or bound to its events; `runtimeToken`; `fallbackRetryConsumed` |
| `reports`, `newFrames` | history: calls of `onFailure`; frames since the action completed |

`Finish` is the whole of `finish`, including the `onFailure` of transport and TURN proposals, which
closes the runtime and thereby resets the coordinator from inside `finish`. Time is abstracted: a
deadline may pass at any time while its timer runs, the arbiter's window may end at any time
(`WindowEnds`), and a frame either begins a run of frames or completes it (`FrameSeen`,
`FrameStable`). The two transport facts (failed, closed) are one. Calls that change nothing (a stale
proposal, one that shares the flight, a suppressed one) are not steps. `resourceGeneration` of the
browser runtime moves with the host's `runtimeToken`, so the media proposal captures the token as well.

### The services around a session

These components share no state, so `MCServices` does not interleave them: a behaviour exercises the
one that `component` names, chosen at the start, while the others rest in an initial state. The run
checks the properties of all at the cost of the sum of their state spaces. Who may stand for whom
(two callers, two handles, two exchanges, two closers) are the same two values, which are symmetric.
The run switches the deadlock check off, since each component may rightly come to rest: the bounds on
calls are spent, the stream is closed. Their specifications state no fairness and the run no liveness.

`Signaling` (`signaling/flow.rs`, `exchange.rs`, `ice.rs`, `state.rs`). `signaling` is
`SessionSignalingState`, `ice` the lock of the same name; the negotiation lock admits offers in their
order and its holder takes `ice` at once, so one step stands for both. What the code does not have is
made explicit: `remote`, the service, which answers the last offer it was sent, keeps the answer and
the candidates it shows until it replaces them, and does not say to which offer they belong. A new peer
or a restart gets new remote credentials or those already shown; a renegotiation keeps them. The page
renegotiates quality or voice on a connection that has its candidates, and polls when it has an answer.
Requests that fail may have arrived (`OfferFails`). `shown` is history: what the service showed
when the offer of the current credentials began, and whether that offer was given the late answer of
another (`shown.late`).

`AuthSession` (`mods/auth/service.rs`, `runtime_state.rs`, the token store). Each caller is a task, a
step is one access to the store, one critical section or one answer of the network (reads of the store that
follow each other at the start of a refresh, service.rs:286, are one): between reading a token and storing
its refresh another caller may log out. `cleared` and the `late` of a task are history: since a logout
nothing that was in hand when it cleared the tokens has been written. `store` keeps how old the web token is and
what the stream tokens are good for, `oauth` the window. Callbacks come from the window's navigation
(the page never calls `handleOAuthCallback`). One access to the store may fail (`broken`), the policy step
of a check included.

`BridgeSession` (`xbox-ios-bridge/src/streaming.rs`). `gen` is the counter outside the lock and
`session` what is under it; `projection` is the flow's record of what it told, `service` the session
itself. The model leaves the re-create of a home session out and takes from the app that it calls
`start` once, before anything can end the stream, that it ends one by `cancel` and then `close`, maybe
twice at a time, and that it polls after an answer; a call it gave up runs on.

`AccessLeases` (`cloud_access.rs`). `prepare` is a call between its tokens and its
insertion, `leases`, `generations` the registry; `loaded` is history: the newest generation handed out
per owner. The clock moves both ways, as a wall clock may.

`RuntimeTrace`. `publisher` and `setting` are the recorder's side (under its mutex), `writer` the
thread's. `buffered` is what its `BufWriter` holds, `filed` what reached a file, rows and the losses told of
in notices alike; `offered` is history. `WriteOut` is a flush, or a buffer that is full, and may get out
only a part. A file is replaced once the old one is flushed, but turned off whether or not it was. A row
weighs one unit of the budget. The commands Sync (a `WriteOut` with an answer) and Shutdown and the end of
the process, whose last flush may fail like the closing one, are left out. `OpenOutput` admits `dev` again
with other dimensions.

`DataCatalog`. One product stands for the catalog; an overlay is the time it was saved. A key is an
account, the region and language being fixed. What is awaited between the look at the flights and the
start of a refresh is a step of its own.

`StartupWait`. One unit is one polling interval. What an error says is reduced to what the decisions
ask of it (`seen.details`); the classification itself is in `StartupErrors`. An age is counted to the
point where nothing tells it from a greater one. `truth` is history: units out of the queue and entries
to it. Of `CreatesJustified` the clause that no create follows a cancel restates a guard; what could go wrong
is the time left for its retries and the second session.

`StreamSettings` and `StreamPolicy`. Both hosts read settings, make a configuration and a context and
compile them. The settings that concern streams, and the game controls, are kept under the desktop's
names; iOS's are mapped to them. Facts about titles and consoles, and the regions of a token, come from
small sets in `MCServices` that include the missing and the useless. The user may write settings while
a plan is made. An absent string is `Blank`, as blank ones are read. An iOS lookup of a console that fails, or finds one
without an identity (streaming.rs:981), ends without a plan and is left out. `SettingsAssumption` says what a
patch may hold: of each setting a value of its type (`IsOfType`) or, in the desktop's store, one of
another (`Invalid`), which is what `normalize_value` asks of it; and a codec is none of the names that the
policy has for what it was told (the code keeps the two apart by type). `Strings` is the set that a string
is of: the constant the run sets to `STRING`, and of which the proofs know only that the texts the
compilers write themselves are in it (`OwnText`).

`StartupErrors`. A message is the set of the words that the classifiers look for. The assumption
`GuessesCompared` of `MCServices` has TLC evaluate on all messages of two words what the theorems say
of every message.

## 3. Runs

| Run | Instance | Question and result |
|---|---|---|
| `startup` | 2 attempts, 1 cloud title, 2 ids, 2 generations, no shutdown, no expiry; symmetric | whatever the interleaving of two starts of one title, their cancels, page closes, lost and late answers: one holder (`ExclusiveTarget`), at most one session on the service (`OneRemotePerTarget`), none forgotten (`NoOrphan`), a returned cancel is clean (`CancelReturnedMeansClean`), and the tasks implement `TargetOwnership` (`OwnershipKept`). Holds, 1.2 million states. |
| `recreate` | 1 attempt of a console, 2 ids that the service may hand out again, 2 generations, everything enabled | the home re-create, expiry and shutdown: types, `StoredIsOwned`, `LiveTokenIsStored`, `OrderlyExitIsClean`; releases, cancels and removals keyed by a reused id never hit the new generation. Holds. |
| `capacity` | 2 attempts of 2 targets, every capacity 1 | the creates that are unanswered or lost, each counted once, stay within the cap (`UnresolvedCreatesBounded`), and so do the sessions that are stored or still to be stopped (`ResourcesBounded`), which no check counts. Holds. |
| `liveness` | 1 attempt of a console, fair tasks | `CancelFreesTarget`, `StartupEnds`. Hold. |
| `self_cancel` | 1 attempt of a console | `RecreateSparesItself` is violated: see the findings. |
| `monitor_loops` | 2 generations of one id, the service reports Provisioned or Closed; symmetric | `FactsAreOwn`, `NeverResurrected`: what a loop of one generation saw never reaches the record of another, and a removed record never returns. Holds, 1.7 million states. |
| `monitor` | 1 generation, every state the service can report, loops fair | `StartTimeoutSparesPlayback`: a session whose record ever told of playback is never failed by the start-up timeout, whichever of two stale copies is written last, unless the keepalive had ended it already; `LoopsEnd`: a cancelled token ends both loops, whatever the record they find says; `EndIsNoticed`: a session the service has forgotten gets its token cancelled. Hold. |
| `terminal_absorbs`, `playback_demoted` | 1 generation | violated: see the findings. |

The loops of the monitor run are weakly fair, as tasks the runtime polls are; that the service answers
in the end, so that a 404 comes through and is written down within its deadline, is assumed strongly
(`ServiceAnswers`), for without it a session could be unreachable for ever.
| `recovery` | 2 transactions, 2 explicit starts and closes (and those caused by failures), everything else unbounded, fair steps | types and the budget of two actions; `OneAction`; `RevokedIsFinished`; `ReportedOnce`; `ObservedByNewFrames`; `HandledIsReal`; `FlightEnds`; `RunSettles`. Hold, 213 000 states. |

Two transactions show each effect of one on the next: the barrier, the gate, the budget (one action
and its follow-up, then another). With three generations the safety part holds as well (880 000
states). In the recovery run microtasks, settling actions and deadlines are weakly fair: the event
loop runs what is ready, timers fire, and each action awaits only bounded work (its operation's
`wait`, or timeouts of its own). Frames, answers and callers are not fair.
| `services` | `MCServices`: 2 callers and 1 login; 3 offers and 1 poll; 2 exchanges, 2 closers, 2 offers; a queue of 3 rows and 3 configurations; 2 handles, 2 owners; 2 calls, 2 accounts; waits of 1 to 4 units; 2 writes of the settings; symmetric | `TypesOK`, `LogoutSticks`, `BusyHasCause` (sign-in), `StaleRefused` (signaling), `UsableHasSession`, `ClosedMeansStopped`, `CandidatesOfCurrentOffer` (iOS stream), `TokensWithCurrentLease` (leases), `EveryRowAccounted`, `RowsOfTheirConfiguration` (trace), `FlightsAnswered` (catalog), `QueueTimeSpared`, `CreatesJustified` (waits), `PlansAgree` (settings). Hold, 2.3 million states. |
| `closed_final` | `StartupWait` | `ClosedIsTransient` is violated: see the findings. |

Bounds of `services`. Two calls are a race, and each of these components compares a call only with what
another left behind. Three offers are one whose answer is stale to the next and a third that meets the
leftovers of both; a fourth matters only through the late answer that `StaleRefused` excepts. A queue of three rows has one place per rank, so that rank decides; three
configurations are one in force, one refused and one that gets the refused one's generation; two rows in the
buffer show a flush that gets out one. Two
handles of one owner supersede each other. The waits are so short that each may run out before or after
each other one, the grace within the preparation included. Two writes of the settings are one before and
one while the plan is made.

Bounds. Two attempts are enough for a race on a target: an attempt only ever compares itself with
"some other entry of the target". Two generations per run make every start followed by a re-create or
a second start; two ids are as many as two generations can have. The proofs lift the central results
to any number of each. Capacity 1 makes a limit that the code sets at 256 bite at once. Attempts,
ids and generations are interchangeable where their targets are, so the safety runs use symmetry;
the liveness run does not.

Fairness. A task that can go on does: every `scope.run` and every close has a timeout, and the HTTP
client a total one, so no wait is for ever. Drivers, creates and cancellers are strongly fair because
a page that closes a session again and again keeps interrupting the closers that share it; the cleanup
steps are weakly fair (the retry loop runs until the stop succeeds). What the page, the service and
shutdown do is not fair: no property relies on a user or on the service to act.

## 4. Findings

`self_cancel`: a home re-create first closes its own session without cancelling its own startup
(`cleanup_session_for_recreate` passes `cancel_startup = false`), and continues when the stop fails.
The cleanup is then pending and still owned by the startup, and the create that follows closes every
pending cleanup of its target through `close_session`, which does cancel the owner: itself.

`terminal_absorbs`: the keepalive's `record_terminal_error` takes neither the mutation lock nor looks
at the token; a monitor tick of the same generation that has passed its last check writes its
ordinary snapshot over the terminal one. The token is cancelled all the same, so the loops end; but
whoever asks for the progress of the session reads `ready` or `pending` instead of the error.

`playback_demoted`: the arm of the tick that protects playback from an empty body keeps the player
state of the tick before. After a Recovering observation that is `pending`, and the next empty body,
unknown state or Provisioning leaves the session in playback at "waiting for readiness", the very
thing its comment rules out; the keepalive, which only runs when ready or recovering, pauses as well.

`closed_final`: a session that reads Closed is, for the startup that waits, transient within a grace;
but the monitor's tick that writes Closed down cancels the session's token, and the wait runs under
that token. It ends as cancelled, not after the grace.

Observations, for which no run is listed:
 - `exchange_offer` tells its own answer from others only by the one that was there when it began. The
   late answer of an offer that was sent and then given up is taken for the next restart's own. The ICE
   user name in it is of the older credentials, so that the restart's baseline is cleared; when the next
   quality offer then takes the restart's own answer, a poll hands out candidates of credentials the peer
   no longer has. It takes four offers; `StaleRefused` excepts the case by name (`shown.late`).
 - A session that failed for staying in one state too long is told as a failure of the player while the
   flow has it and as a failure to get ready once the adapter has to guess (`StuckSessionIsToldAsRuntime`);
   the comment at `projection.rs:269` and a test of the adapter (`service.test.rs:274`) want the latter.
 - `remoteConsoleNotReady` is retryable to the flow, but the page never offers another try for its kind.
 - The desktop asks for the fallback TURN server for cloud streams as well, and when the setting is off;
   a failed request is kept for the life of the process.
 - The defaults used when the settings cannot be read differ from the ones that normalise them
   (resolution 1080 instead of 720, sharpness 2 instead of 0).
 - A resolution left to "auto" gives a 720p device and the bitrate of 1080p.
 - No host sets a device profile, a preferred region by name, a client address or the rust-owned runtime:
   those parts of the policy are modelled as code that no input reaches.
 - A refused plan (for a missing token, say) is told as unknown, not as a failure of sign-in.
 - `from_session_snapshot` reads "closed" as creating, `resolve_session_phase` as closed.
 - "Authenticating" is left behind, and every later check kept out until a login or a logout, when the login
   window cannot be built (`open_oauth_window(...)?`, mods/auth/rpc.rs:46), when a callback gives up after
   its window was closed, or when the store fails in a check or a logout. `BusyHasCause` says that nothing
   else leaves it.
 - A check that has refreshed the tokens when the user signs out stores them after the logout has cleared the
   store, and signs the user in again; `LogoutSticks` excepts such writes by name (`late`).
 - Rows in the write buffer are lost uncounted when tracing is turned off and the closing flush fails
   (`configure`, writer.rs:235-245): `EveryRowAccounted` excepts that step and bounds the loss.
 - `ClosedMeansStopped` supposes that the flow had the record before the first close: a close that comes
   between the session's creation and its record finds nothing to stop (the flow's own cleanup does).

## 5. Proofs

`SessionProofs` proves, for every value of the constants that satisfies the two assumptions
(`RegistryAssumption`, `LifecycleAssumption`):

 - `TypeCorrect`: `Spec => [](TypeOK /\ StageInv)`. Types alone are not inductive: a record is looked
   up by the id a task holds, so `StageInv` says at which stages a task has one.
 - `TargetsAreExclusive`: `Spec => []ExclusiveTarget`. The inductive invariant is `ClaimInv`: of two
   attempts on one target, one is *spent*: it owns nothing, has no create under way, its entry no
   longer is open, and if any of its tasks still run then its scope is cancelled, so that it can never
   send a create again. `begin` keeps it because it admits an attempt only when every other entry of
   the target has settled, which makes the others spent (`RivalsAreSpent`); pruning keeps it because
   an entry it drops is spent (`PrunedIsSpent`); a cancel keeps it because its tombstone is spent.
 - `NothingIsOrphaned`, `OneSessionPerTarget`, `RecordsAreOwned`, `LiveTokensAreStored` and
   `CancelIsComplete`, from one inductive invariant, `KeptInv` (`KeptCorrect`), which uses `TypeOK`,
   `StageInv` and `ClaimInv`. `NoOrphan` is far from inductive: that a closer may give a target back
   depends on what the stop it awaited was of, that in turn on who owns the record, and that on when
   a task may create. The parts of `KeptInv` are these layers. `StoreInv`: a record and a cleanup are
   under their own id, never both. `OwnedInv`, `MakerInv`: a resource is owned by its maker, and by
   nobody else, until its stop was acknowledged. `StepInv`: an attempt that is about to create has
   nothing left in the store. `ClearInv`: its pending cleanups are those it is still to wait for.
   `CancelInv`: a canceller releases only what was stopped. `FlightInv`: the id in an unread answer
   is nobody else's. `RemoteInv`: what lives on the service is accounted for (`NoOrphan`,
   `OneRemotePerTarget`), is of the target its record names, and a target whose create was lost
   admits no other. Each has a lemma that goes through every action (`StoreStep` ... `RemoteStep`).
 - `OwnershipIsKept`: `Spec => OwnershipKept`, the refinement of `TargetOwnership`. `ClaimInv` makes
   the abstract owner unique, `CancelInv` and `OwnedInv` say that what is given back was stopped, so
   each step maps to the abstract step of that name or to a stutter (`OwnershipStep`).
 - `OrderlyExit`: `Spec => []OrderlyExitIsClean`, by `ActiveInv` (an attempt is active from its
   tracking to the end of its create) and `ExitInv` (once swept, a record is left only to a create
   task that is about to see its cancelled scope and close it).
 - `CreatesAreBounded` and `SessionsAreBounded`, by `CapsInv`. A create that is lost is recorded under one
   lock and leaves `active` under a later one (`LostCreateEnds`). In between it has both places, so the sum
   that `track` compares with its cap may be above it, and a loss is recorded without looking at any cap.
   Counted once, each create keeps the place it was admitted with: hence the first property, and hence
   the targets blocked for good are bounded (`UnknownTargetsBounded`). The second counts nothing the code
   counts: it maps each session that is stored or still to be stopped to the entry of its maker, which
   is one to one because an attempt owns one resource and an owner's entry is never pruned. (The
   entries of `cleanups` themselves may exceed their cap of 256 by those whose owner is released and
   which are about to be removed.)

`SessionMonitorProofs` proves, from `MonitorAssumption` alone:

 - `TypeCorrect`: `Spec => []TypeOK`. `TypeOK` also says that a loop at rest holds no copy.
 - `FactsStayOwn` and `PlaybackOutlivesTimeout`: the invariants `FactsAreOwn` and
   `StartTimeoutSparesPlayback` speak of the stored record; neither is inductive, for any copy may be
   written back later. `CopiesAreOwn` and `CopiesAreSpared` say the same of every copy a loop holds.
   For the first it matters that a copy carries the generation it was read from and that
   `upsert_if_same` compares it. The second is about what the record *ever* told (`played`), not about
   what it remembers, for a copy the keepalive took before playback makes it forget when it is written
   back. `WritesItsOwn`: only a generation's own monitor applies an answer to it; one that woke to another's
   record has lost its token. So playback is forgotten by a keepalive's ending alone (`PlaybackKept`),
   and that ends the session: the comment at monitor.rs:118, that start-up timeouts end with start-up,
   fails only for a session that is over (its error may then be replaced by "timeout"). History begins
   where the record is written: an observation dropped before that is nobody's.
 - `NeverReturns`: `Spec => NeverResurrected`, an action property: of all steps only an insertion
   fills the slot.

`ConnectionRecoveryProofs` proves all six invariants of the `recovery` run from `RecoveryAssumption`,
for any number of transactions and launches, with one inductive invariant `Inv`. Its heart is
`FlightInCharge`: a transaction is the flight exactly if it is open or its action still runs. From
that, one action at a time is immediate, and it is what the other parts need: `RevokedIsFinished`
(only the flight can be open, so a reset that cancels the flight cancels everything), `BudgetHeld`
(nobody else spends between a transaction's admission and its commit), `GateOwned` (the gate of a
transport or TURN action belongs to the flight) and `FramesCounted`. The check that finds the budget
before the await and spends it after is safe only because of `FlightInCharge`.

`ServiceProofs`, leases: `TokensAreCurrent` is `Spec => []TokensWithCurrentLease`. Its invariant `LeaseInv`
says that a lease that goes on has the generation its owner has reached (`LeaseSound`), that there is one
per owner (`OneEach`) and that nothing newer was handed out (`HandedOut`). `ExpireLeases` and `Supersede`
only ever end leases (`Ended`), whatever the clock says, so only the insertion has to be looked at: it
raises the generation and leaves no other lease of the owner.

`ServiceProofs`, trace: `RowsAccounted` is `TraceSpec => EveryRowAccounted`, an action property. Every action
moves units between offered, waiting, buffered, filed and lost and keeps the sum (`Balanced`), a notice
because the counts it took are its own until it is written (`TakenForNotice`); but the step that turns the
recorder off (`Closing`). `RowsOfOwnConfiguration` needs what is in the queue: at most one configuration is,
because a second one waits for its outcome; the rows before it are of the writer's configuration or of
another generation (`Told`), so that the writer's comparison of generations is enough, and those behind
it are of the one asked for. When that one is refused they are of a generation the writer does not have
(`Behind`), and the order of the queue brings them to it before the next configuration of that generation.

`ServiceProofs`, catalog: `EveryFlightAnswered` is `CatalogSpec => []FlightsAnswered`. A flight is live exactly
while one refresh of its key runs (`OneFlight`), who waits is in a live flight (`Awaited`), and a flight
has only such waiters (`OnlyWaiters`), so that its end answers them and nobody else. That a call which
still has to begin a refresh has none under way (`BeginsOnce`) is what makes the background refresh safe
to start: it looks at the flight again.

`ServiceProofs`, stream: `UsableHasASession`, `ClosedIsStopped` and `CandidatesAreCurrent` are the three
invariants of `BridgeSession`, for any number of exchanges, closers and offers. The invariant `BridgeInv`
rests on one observation: the generation of the start is the current one exactly while nobody has begun
to end the stream (`Generations`), and whoever begins never goes back. So a call that finds its own
generation under the lock knows that no close has reset anything yet: a usable phase is of a start that
returned before any closer held the lock (`UsableSince`), and a poll that merges is of an answered offer
(`AnsweredFirst`). `KnownUntilStopped` says that a session recorded before the first close stays known to
the closers until it is stopped; the closer that resets the projection has therefore stopped it, or
another has.

`ServiceProofs`, types: `TraceTypesHold`, `CatalogTypesHold` and `BridgeTypesHold`, each from the
invariant above it and one of bounds. `TraceBounded` holds the length of the queue to the budget and the
configuration that is asked for, so that `RowsTold` makes the rows in the queue exactly those of the
budget (`RowsWaiting`); that no row is ever counted twice (`Unaccounted >= 0`) then bounds each count by the
rows offered. `Dated` keeps every overlay, the one a call holds between its read and its write included,
behind the clock. `Epochs` says that an answer, and an exchange that awaits one, is of an offer that was
sent, as long as nobody ends the stream: the candidates of epoch 0 there would be are of no offer.

`StartupProofs`, errors: for every message, the flow and the adapter guess the same kind unless it has a
word that only one of them looks for (`GuessesAgree`). Each makes out the phase for itself, the flow from
player and stream (`ResolveSessionPhase`), the adapter from the player alone (`FromSessionSnapshot`).
`ProgressToldAlike` is about what is told in the end: the same error, except of a session at its end or
recovering that the adapter takes for one not ready yet (`HiddenEnd`); there a message that says nothing
itself is a failure of the player to the flow and unknown to the adapter. Of the failures the flow itself
names, the page offers another try for a timeout only (`OnlyTimeoutsAreTriedAgain`), of a session created
again as well, and not once the retries are reported exhausted.

`StartupProofs`, waits: `QueueIsNotCharged` and `CreatesAreJustified`. The code charges the interval that
has passed when the last look at the session did not find it in the queue. `Accounted` therefore covers
one interval more than is charged whenever the next look may charge one: by time out of the queue, or by
an entry that no interval was charged for yet. `EndIsLast` says that an error of the service ends the
session, so that a retry is decided only of one that failed (`RetryAfterFailure`).

`ServiceProofs`, sign-in: `LogoutIsFinal` and `BusyIsCaused`, from `AuthInv`. Tasks differ in where they stand
and in what they hold, hence `Placement`: every step belongs to a job, and a read of the state goes on to
a step of the job that asked for it. `Cleared`: since the logout no task has tokens but those that had
some in hand when it cleared the store (`late`), and none of these has written; the key of a login may still
be written, with nothing beside it. `BusyHasCause` is an action property: for each action a lemma says that
it leaves a task at work, a state that is not busy or a window to end it by, or is one of the three that do
not (`LeftBehind`). `CallbackMarked` (the state is marked for a callback only while one is at work) is what it
needs of the state.

`SignalingProofs`: `StaleIsRefused` is `SigSpec => StaleRefused`, from `SigInv`. `Queue` gives the lock to
one offer or poll at a time and orders the offers; `Progressed` orders the numbers of page and service;
`Before` says that what an offer read is not later than what the service has, so that an answer that
differs from the one read is a later one (`AnswerIsLater`). `Based` is the point: while the service shows
what it showed when the offer of the current credentials began, the baseline is exactly that, hence the
filter lets none of it through (`StaleIsFiltered`); a baseline is only cleared when the user name in the
answer changes, that is once the page has the credentials shown, or by the late answer that
`shown.late` tells of. The attempt to prove `Based` without that exception found the case above, which
needs one offer more than the run has.

`SettingsProofs`: `PlansAsAsked` is `SettingsSpec => []PlansAgree`, from `SettingsInv` and
`SettingsAssumption`. The invariant says that a plan made *is* the compiler's word on the copy of the
settings, the token and the facts it was begun with (`MadeByDesktop`, `MadeByApp`), so that a write of
the settings has nothing to reach it by; what is left is about the compiler, in lemmas that hold for
every configuration a host makes. `Picked`: the region taken is one none is better than, because the
least index of a set exists (`LeastExists`, by the library's `WFMin`). `SessionIsAsAsked`,
`NegotiationIsAsAsked`, `TurnCompiles`: what each part of a plan has of the configuration.
`DesktopAsAsked` and `IosAsAsked`: the configuration each host makes of its settings, through the clamps
(`NormalizedIsAskable`) and its own copy of the parsers. `RefusedForAccess`: once the host has its
facts, only the access can make the compiler refuse.

`PlanIsComplete` says of the compiler that it is total: of every configuration (`Configs`) and context
(`IsContext`) it makes a plan of `Plans` or returns one of the errors it names. A lemma for each of its
parts (`AccessTyped`, `RuntimeTyped`, ...) goes through its cases; the bitrates and the sizes of a display
stay natural numbers through their divisions and clamps. `SettingsTyped` is `SettingsSpec => []SettingsTypeOK` from `SettingsTypedInv`:
what a host writes is of the types the compiler asks for, because `NormalizeConfig` makes it so whatever
the store held, so that `PlanIsComplete` applies to what it plans, and a snapshot or a stream made of the
plan is of its types.

`MCServicesProofs`: `ComponentsRun` is `ServicesSpec => AuthSpec /\ SigSpec /\ ...`: the components share no
variable, so a step of one is a stutter of the others (`StepOfOne`). `TypesHold` (`ServicesSpec => []TypesOK`)
and `ServicesSafe` are then what is proved of each component alone.

Only model-checked: liveness, and what depends on `ENABLED`, which is out of the prover's reach, as is
induction over data (the library's induction theorems take an operator; where the least number of a set
was enough, `SettingsProofs` takes `WFMin` instead). Every safety property of a passing run, invariant or
action property, is a theorem.

## 6. Plan

 1. (done) the registry, the lifecycle, their safety, liveness and refinement; type correctness and
    exclusiveness proved.
 2. (done) `SessionMonitor`: the monitor tick as a function, the monitor and keepalive loops over one
    record; types and its safety properties proved.
 3. (done) `ConnectionRecovery`: the page's recovery transaction, its barrier and its budget, proved.
 4. (done) `Signaling`, `BridgeSession`, `AccessLeases`, `AuthSession`, `DataCatalog`, `RuntimeTrace`:
    the services around a session, each against the calls that may overlap on it.
 5. (done) `StreamPolicy`, `StreamSettings`, `StartupErrors`, `StartupWait`: the algorithms a startup
    runs by and the waits it is made of.
 6. (done) proofs of `BridgeSession`, `AccessLeases`, `RuntimeTrace`, `DataCatalog` and `StartupErrors`.
 7. The stop's mutex, completion counter and retry loop in detail, implementing the abstract stop of
    `SessionLifecycle`; super resolution tiers and the ICE candidate policy as operators.
 8. (done) proofs of what is left of the session lifecycle: nothing orphaned, the refinement, the exit,
    the caps.
 9. (done) proofs of the sign-in, of the signaling and of the waits of a startup.
10. (done) `PlansAgree` of `StreamSettings`: lemmas about the compiler, and the property for any patches.
11. (done) the types of `StreamSettings`, hence that every plan is complete, and with them the types of
    all that `services` runs: `MCServicesProofs`.

## 7. Not modelled

 - The browser runtime, the player and navigation: they depend on the browser's WebRTC stack and the
   document; what they ask of the rest enters as requests at any time.
 - The protocol crate (constants and message formats), the text of candidates (`ice.rs`, `turn.rs`),
   headers, URLs and logging: data no property here tells apart.
 - The cloud catalog flow and most data calls: one request mapped to one answer, with no state between.
 - The updater and the window: sequential I/O around one stored value.
 - The Swift application, which is the caller of the bridge (its order of calls is an assumption of
   `BridgeSession`).
