---------------------------- MODULE BridgeSession ----------------------------
(***************************************************************************)
(* XboxStreamSession, the object the iOS app holds for one stream.  Every  *)
(* call takes part in a race of generations: cancel and close bump the     *)
(* counter before they hold the lock of the state, and a call that awaited *)
(* compares its own generation before it writes.  The create request runs  *)
(* in a task of the session flow and outlives the call that asked for it.  *)
(***************************************************************************)
EXTENDS Naturals

CONSTANTS Exchanges,   \* exchanges of an offer under way at once (bound)
          Closers,     \* owners that end the stream: stop of the actor, its teardown
          MaxEpoch     \* offers sent (bound)

ASSUME BridgeAssumption == MaxEpoch \in Nat

VARIABLES gen,         \* XboxStreamSession.generation, the counter outside the lock
          session,     \* SessionState, under the lock
          projection,  \* SessionFlowProjection: what the provider was told
          service,     \* the remote session and what the flow knows of it
          start,       \* the call of start: its step and generation
          exchange,    \* each exchange_offer
          batch,       \* next_remote_ice_batch, which the app runs one at a time
          closer       \* each cancel followed by close

bridgeVars == <<gen, session, projection, service, start, exchange, batch, closer>>

Nothing == [known |-> FALSE, terminal |-> FALSE]
Fresh == [completed |-> 0, epoch |-> 0, ice |-> {}, ended |-> 0]
Usable == {"Ready", "Negotiating", "Connected"}

BridgeInit ==
    /\ gen = 0 /\ session = [gen |-> 0, phase |-> "Idle", signal |-> Fresh]
    /\ projection = Nothing
    /\ service = [at |-> "none", early |-> FALSE, dropped |-> FALSE]
    /\ start = [at |-> "idle", gen |-> 0]
    /\ exchange = [e \in Exchanges |-> [at |-> "idle", gen |-> 0]]
    /\ batch = [at |-> "idle", gen |-> 0, epoch |-> 0]
    /\ closer = [c \in Closers |-> [at |-> "idle", gen |-> 0]]

----------------------------------------------------------------------------
(* start.  The flow creates the session, tells the provider its name,      *)
(* stores the record and waits until the session is ready.                 *)

\* The app asks for the start once, before anything can end the stream.
BeginGeneration ==
    /\ start.at = "idle" /\ \A c \in Closers : closer[c].at = "idle"
    /\ session.phase \in {"Idle", "Closed", "Failed"} \/ session.gen # gen
    /\ gen' = gen + 1
    /\ session' = [gen |-> gen + 1, phase |-> "Creating", signal |-> Fresh]
    /\ projection' = Nothing
    /\ start' = [at |-> "creating", gen |-> gen + 1]
    /\ service' = [service EXCEPT !.at = "requested"]
    /\ UNCHANGED <<exchange, batch, closer>>

\* The provider is told of the session before the flow has a record of it.
OnSessionCreated ==
    /\ service.at = "requested"
    /\ service' = [service EXCEPT !.at = "told"]
    /\ projection' = [known |-> TRUE, terminal |-> FALSE]
    /\ UNCHANGED <<gen, session, start, exchange, batch, closer>>

\* What an earlier timeout of the create dropped is closed by the task itself.
RecordSession ==
    /\ service.at = "told"
    /\ \E at \in IF service.dropped THEN {"pending", "stopped"} ELSE {"stored"} :
           service' = [service EXCEPT !.at = at, !.early = \A c \in Closers : closer[c].at = "idle"]
    /\ UNCHANGED <<gen, session, projection, start, exchange, batch, closer>>

StartAt(step) ==
    /\ start' = [start EXCEPT !.at = step]
    /\ UNCHANGED <<exchange, batch, closer>>

CreateFails ==
    /\ service.at = "requested"
    /\ service' = [service EXCEPT !.at = "none"]
    /\ StartAt(IF start.at = "creating" THEN "failing" ELSE start.at) /\ UNCHANGED <<gen, session, projection>>

\* The flow gives the create up after its time: the request runs on, its scope cancelled.
CreateTimesOut ==
    /\ service.at \in {"requested", "told"} /\ start.at = "creating"
    /\ service' = [service EXCEPT !.dropped = TRUE]
    /\ StartAt("failing") /\ UNCHANGED <<gen, session, projection>>

\* The wait gives a session up that failed, or that a close revoked, and closes it.
WaitFails ==
    /\ start.at = "creating" /\ service.at \in {"stored", "pending", "stopped"}
    /\ \E at \in {"pending", "stopped"} :
           /\ service.at = "stopped" => at = "stopped"
           /\ service' = [service EXCEPT !.at = at]
    /\ StartAt("failing") /\ UNCHANGED <<gen, session, projection>>

SessionReady ==
    /\ service.at = "stored" /\ start.at = "creating"
    /\ StartAt(IF gen = start.gen THEN "writing" ELSE "cancelled")
    /\ UNCHANGED <<gen, session, projection, service>>

WriteProjection ==
    /\ start.at = "writing"
    /\ projection' = [projection EXCEPT !.known = TRUE]
    /\ StartAt("locking") /\ UNCHANGED <<gen, session, service>>

\* Mutant: the start writes its phase without comparing generations.
StartReturnsLate ==
    /\ start.at \in {"locking", "failing"}
    /\ session' = [session EXCEPT !.phase = IF start.at = "locking" THEN "Ready" ELSE "Failed"]
    /\ StartAt(IF start.at = "locking" THEN "started" ELSE "failed")
    /\ UNCHANGED <<gen, projection, service>>

StartReturns ==
    /\ start.at \in {"locking", "failing"}
    /\ session' = IF gen # start.gen THEN session
                  ELSE [session EXCEPT !.phase = IF start.at = "locking" THEN "Ready" ELSE "Failed"]
    /\ StartAt(IF gen # start.gen THEN "cancelled"
               ELSE IF start.at = "locking" THEN "started" ELSE "failed")
    /\ UNCHANGED <<gen, projection, service>>

StartStep == BeginGeneration \/ OnSessionCreated \/ RecordSession \/ CreateFails \/ CreateTimesOut
             \/ WaitFails \/ SessionReady \/ WriteProjection \/ StartReturns

----------------------------------------------------------------------------
(* Offers and the polls of remote candidates, with the generation start    *)
(* returned.  An element of signal.ice is the epoch of the poll it came    *)
(* from, and signal.ended the epoch whose poll ended the candidates.       *)

SessionIdFor(g) == gen = g /\ session.phase \in Usable /\ projection.known

ExchangeAt(e, step) ==
    /\ exchange' = [exchange EXCEPT ![e].at = step]
    /\ UNCHANGED <<gen, projection, service, start, batch, closer>>

AskExchange(e) ==
    /\ exchange[e].at = "idle" /\ start.at = "started" /\ SessionIdFor(start.gen)
    /\ session.signal.epoch < MaxEpoch
    /\ exchange' = [exchange EXCEPT ![e] = [at |-> "asked", gen |-> start.gen]]
    /\ UNCHANGED <<gen, session, projection, service, start, batch, closer>>

\* An offer after an answered one restarts the candidates.
NextOffer(signal) ==
    [signal EXCEPT !.epoch = @ + 1,
                   !.ice = IF signal.completed > 0 THEN {} ELSE @,
                   !.ended = IF signal.completed > 0 THEN 0 ELSE @]

BeginOfferExchange(e) ==
    /\ exchange[e].at = "asked"
    /\ \/ /\ gen # exchange[e].gen
          /\ ExchangeAt(e, "idle") /\ UNCHANGED session
       \/ /\ gen = exchange[e].gen /\ session.signal.epoch < MaxEpoch
          /\ session' = [session EXCEPT !.phase = "Negotiating", !.signal = NextOffer(session.signal)]
          /\ ExchangeAt(e, "sent")

OfferAnswered(e) ==
    /\ exchange[e].at = "sent"
    /\ \/ session' = IF gen # exchange[e].gen THEN session
                     ELSE [session EXCEPT !.signal.completed = 1]
       \/ UNCHANGED session
    /\ ExchangeAt(e, "idle")

RemoteActive == ~(projection.known /\ projection.terminal)

BatchAt(step) ==
    /\ batch' = [batch EXCEPT !.at = step]
    /\ UNCHANGED <<gen, projection, service, start, exchange, closer>>

\* The app asks for candidates once an answer came back.
AskBatch ==
    /\ batch.at = "idle" /\ start.at = "started" /\ session.signal.completed > 0
    /\ SessionIdFor(start.gen) /\ RemoteActive
    /\ batch' = [at |-> "asked", gen |-> start.gen, epoch |-> session.signal.epoch]
    /\ UNCHANGED <<gen, session, projection, service, start, exchange, closer>>

BatchChecks ==
    /\ batch.at = "asked"
    /\ LET stale == gen # batch.gen \/ session.signal.epoch # batch.epoch \/ session.signal.ended # 0
       IN \/ stale /\ BatchAt("idle") /\ UNCHANGED session
          \/ ~stale /\ BatchAt("polling") /\ UNCHANGED session
          \/ /\ ~stale    \* the time for candidates is over
             /\ session' = [session EXCEPT !.signal.ended = batch.epoch]
             /\ BatchAt("idle")

\* Mutant: what a poll brings is merged without looking at the offer again.
BatchMergesAnyOffer ==
    /\ batch.at = "polling"
    /\ LET dropped == gen # batch.gen \/ ~RemoteActive
       IN \/ dropped /\ BatchAt("idle") /\ UNCHANGED session
          \/ /\ ~dropped
             /\ \E fresh, end \in BOOLEAN :
                  /\ session' = [session EXCEPT !.signal.ice = IF fresh THEN @ \cup {batch.epoch} ELSE @,
                                                !.signal.ended = IF end THEN batch.epoch ELSE @]
                  /\ BatchAt(IF fresh \/ end THEN "idle" ELSE "asked")

\* A poll that brings neither a candidate nor the end sleeps and asks again.
BatchMerges ==
    /\ batch.at = "polling"
    /\ LET dropped == gen # batch.gen \/ ~RemoteActive \/ session.signal.epoch # batch.epoch
       IN \/ dropped /\ BatchAt("idle") /\ UNCHANGED session
          \/ /\ ~dropped
             /\ \E fresh, end \in BOOLEAN :
                  /\ session' = [session EXCEPT !.signal.ice = IF fresh THEN @ \cup {batch.epoch} ELSE @,
                                                !.signal.ended = IF end THEN batch.epoch ELSE @]
                  /\ BatchAt(IF fresh \/ end THEN "idle" ELSE "asked")

BatchFails == batch.at = "polling" /\ BatchAt("idle") /\ UNCHANGED session

MarkConnected ==
    /\ start.at = "started" /\ gen = start.gen /\ session.phase \in {"Negotiating", "Ready"}
    /\ session' = [session EXCEPT !.phase = "Connected"]
    /\ UNCHANGED <<gen, projection, service, start, exchange, batch, closer>>

\* The monitor of the flow found the remote session over.
OnMonitorTick ==
    /\ service.at = "stored" /\ projection.known
    /\ projection' = [projection EXCEPT !.terminal = TRUE]
    /\ UNCHANGED <<gen, session, service, start, exchange, batch, closer>>

SignalStep ==
    \/ \E e \in Exchanges : AskExchange(e) \/ BeginOfferExchange(e) \/ OfferAnswered(e)
    \/ AskBatch \/ BatchChecks \/ BatchMerges \/ BatchFails \/ MarkConnected \/ OnMonitorTick

----------------------------------------------------------------------------
(* The end: the app cancels and then closes.                               *)

CloserAt(c, step) ==
    /\ closer' = [closer EXCEPT ![c] = [at |-> step, gen |-> gen']]
    /\ UNCHANGED <<start, exchange, batch>>

Bump(c) ==
    /\ gen' = gen + 1
    /\ \/ closer[c].at = "idle" /\ CloserAt(c, "cancelling")
       \/ closer[c].at = "cancelled" /\ CloserAt(c, "closing")
    /\ UNCHANGED <<session, projection, service>>

Step(c, from, to) ==
    /\ closer[c].at = from
    /\ closer' = [closer EXCEPT ![c].at = to]
    /\ UNCHANGED <<gen, start, exchange, batch>>

CancelLocks(c) ==
    /\ Step(c, "cancelling", "cancelled")
    /\ session' = [session EXCEPT !.gen = closer[c].gen, !.phase = "Failed"]
    /\ UNCHANGED <<projection, service>>

CloseLocks(c) ==
    /\ IF session.phase = "Closed"
       THEN Step(c, "closing", "ended") /\ session' = [session EXCEPT !.gen = closer[c].gen]
       ELSE /\ Step(c, "closing", "reading")
            /\ session' = [session EXCEPT !.gen = closer[c].gen, !.phase = "Closing"]
    /\ UNCHANGED <<projection, service>>

\* close_session of the flow: without a record or a cleanup there is nothing to stop.
ReadsProjection(c) ==
    /\ LET known == projection.known /\ service.at \in {"stored", "pending"}
       IN /\ Step(c, "reading", IF known THEN "stopping" ELSE "resetting")
          /\ service' = [service EXCEPT !.at = IF known THEN "pending" ELSE @]
    /\ UNCHANGED <<session, projection>>

Stopped(c) ==
    /\ Step(c, "stopping", "resetting")
    /\ service' = [service EXCEPT !.at = "stopped"]
    /\ UNCHANGED <<session, projection>>

\* Mutant: a close whose stop failed goes on as if it had stopped.
StopFailsQuietly(c) == Step(c, "stopping", "resetting") /\ UNCHANGED <<session, projection, service>>

StopFails(c) == Step(c, "stopping", "ended") /\ UNCHANGED <<session, projection, service>>

ResetsProjection(c) ==
    /\ Step(c, "resetting", "locking")
    /\ projection' = Nothing
    /\ UNCHANGED <<session, service>>

CloseReturns(c) ==
    /\ Step(c, "locking", "ended")
    /\ session' = IF gen # closer[c].gen THEN session
                  ELSE [session EXCEPT !.phase = "Closed", !.signal = Fresh]
    /\ UNCHANGED <<projection, service>>

\* A cleanup that failed is tried again in the background.
RetryStops ==
    /\ service.at = "pending"
    /\ service' = [service EXCEPT !.at = "stopped"]
    /\ UNCHANGED <<gen, session, projection, start, exchange, batch, closer>>

CloseStep ==
    \/ \E c \in Closers : \/ Bump(c) \/ CancelLocks(c) \/ CloseLocks(c) \/ ReadsProjection(c)
                          \/ Stopped(c) \/ StopFails(c) \/ ResetsProjection(c) \/ CloseReturns(c)
    \/ RetryStops

BridgeNext == StartStep \/ SignalStep \/ CloseStep
BridgeSpec == BridgeInit /\ [][BridgeNext]_bridgeVars

----------------------------------------------------------------------------
BridgeTypeOK ==
    /\ gen \in Nat /\ session.gen \in Nat
    /\ session.phase \in Usable \cup {"Idle", "Creating", "Closing", "Closed", "Failed"}
    /\ session.signal \in [completed : {0, 1}, epoch : 0 .. MaxEpoch,
                           ice : SUBSET (1 .. MaxEpoch), ended : 0 .. MaxEpoch]
    /\ projection \in [known : BOOLEAN, terminal : BOOLEAN]
    /\ service \in [at : {"none", "requested", "told", "stored", "pending", "stopped"},
                    early : BOOLEAN, dropped : BOOLEAN]

\* A stream whose phase admits offers, commands and polls has a remote session to send them to:
\* the resets of a close and the late writes of a start never meet in a usable phase.
UsableHasSession == session.phase \in Usable => projection.known

\* Closed is only ever said of a stopped session, provided the flow had its record before the
\* first close: whatever part of the closers' calls failed, raced or was repeated.
ClosedMeansStopped == session.phase = "Closed" /\ service.early => service.at = "stopped"

\* The candidates kept, and the word that there are no more, come from polls of the current offer:
\* a poll that awaited the service while the next offer began changes nothing.
CandidatesOfCurrentOffer ==
    /\ session.signal.ice \subseteq {session.signal.epoch}
    /\ session.signal.ended \in {0, session.signal.epoch}
=============================================================================
