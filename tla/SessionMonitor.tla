---------------------------- MODULE SessionMonitor ----------------------------
(***************************************************************************)
(* The monitor and keepalive loops of crates/xbox-streaming                *)
(* (session/scheduler.rs) and the tick they apply (session/monitor.rs).    *)
(*                                                                         *)
(* The store has one slot (one session id): a record of some generation.   *)
(* Each generation has a monitor loop and a keepalive loop.  A loop works  *)
(* on a copy of the record and writes it back if the slot still holds the  *)
(* same generation; cancelling a generation's token drops what awaits      *)
(* under it, but not a step that already runs on another thread.           *)
(***************************************************************************)
EXTENDS Naturals

CONSTANTS
    Gens,     \* generations of the session's record
    NoGen,    \* no record
    Streams   \* session states a poll may report; "none" is an empty body

ASSUME MonitorAssumption == NoGen \notin Gens

VARIABLES
    slot,        \* the generation stored under the id
    rec,         \* its snapshot and metadata
    dead,        \* generations whose token is cancelled
    closing,     \* generations between cancel and clear_session
    mon, mview,  \* monitor loops: stage, and the copy they work on
    msend,       \* the tick asked for a connect token
    keep, kview, \* keepalive loops
    sent,        \* generations whose connect token was accepted
    gone,        \* generations the service has forgotten: it answers 404
    provisioned, \* history: generations the service reported Provisioned
    played,      \* history: generations whose record ever told of playback
    ousted       \* history: generations whose end a keepalive loop wrote down

vars == <<slot, rec, dead, closing, mon, mview, msend, keep, kview,
          sent, gone, provisioned, played, ousted>>
history == <<provisioned, played, ousted>>
monVars == <<mon, mview, msend>>
keepVars == <<keep, kview>>

Records == [player : {"pending", "queued", "started", "failed", "closed"},
            stream : Streams \cup {"none", "Failed", "Closed"},
            reached : BOOLEAN,
            error : {"none", "timeout", "remote"}]
Fresh == [player |-> "pending", stream |-> "none", reached |-> FALSE, error |-> "none"]

View == [of : Gens \cup {NoGen}, rec : Records]
NoView == [of |-> NoGen, rec |-> Fresh]
StoredView == [of |-> slot, rec |-> rec]

MonitorStages == {"none", "sleeping", "awake", "polling", "deciding", "writing",
                  "recording", "revoking", "sending", "ended"}
KeepStages == {"none", "sleeping", "awake", "sending", "recording", "revoking", "ended"}

\* Every variable keeps its type; a loop that works on no record holds no copy
\* of one, and asks for no connect token.
TypeOK ==
    /\ slot \in Gens \cup {NoGen}
    /\ rec \in Records
    /\ dead \subseteq Gens /\ closing \subseteq Gens
    /\ mon \in [Gens -> MonitorStages] /\ keep \in [Gens -> KeepStages]
    /\ mview \in [Gens -> View] /\ kview \in [Gens -> View]
    /\ msend \in [Gens -> BOOLEAN]
    /\ sent \subseteq Gens /\ gone \subseteq Gens
    /\ provisioned \subseteq Gens /\ played \subseteq Gens /\ ousted \subseteq Gens
    /\ \A g \in Gens :
          /\ mview[g].of = NoGen <=> mon[g] \in {"none", "sleeping", "awake", "ended"}
          /\ kview[g].of = NoGen <=> keep[g] \in {"none", "sleeping", "awake", "ended"}
          /\ msend[g] => mon[g] \in {"deciding", "writing"}

Init ==
    /\ slot = NoGen /\ rec = Fresh
    /\ dead = {} /\ closing = {}
    /\ mon = [g \in Gens |-> "none"] /\ keep = [g \in Gens |-> "none"]
    /\ mview = [g \in Gens |-> NoView] /\ kview = [g \in Gens |-> NoView]
    /\ msend = [g \in Gens |-> FALSE]
    /\ sent = {} /\ gone = {} /\ provisioned = {} /\ played = {} /\ ousted = {}

-----------------------------------------------------------------------------
(* What a record says, and what an observation does to it.                 *)

Phase(r) ==
    CASE r.player = "started" -> "ready"
      [] r.player \in {"failed", "closed"} -> r.player
      [] r.player = "queued" -> "waiting"
      [] r.player = "pending" -> (CASE r.stream = "ReadyToConnect" -> "starting"
                                    [] r.stream = "Closing" -> "closing"
                                    [] r.stream = "Closed" -> "closed"
                                    [] r.stream = "Recovering" -> "recovering"
                                    [] OTHER -> "waiting")

Terminal(r) == Phase(r) \in {"failed", "closed"}

Preparing == {"Provisioning", "ReadyToConnect"}

\* Mutant: the start timeout holds during playback, too.
OverdueMutant(r, s, late) == late /\ s \in Preparing

\* A session not yet provisioned has stayed in a preparing state too long.
Overdue(r, s, late) == late /\ s \in Preparing /\ ~r.reached

Tick(r, s, late) ==
    CASE Overdue(r, s, late) ->
            [r EXCEPT !.player = "failed", !.stream = s, !.error = "timeout"]
      [] s = "Provisioned" ->
            [player |-> "started", stream |-> s, reached |-> TRUE, error |-> "none"]
      [] s \in Preparing \cup {"WaitingForResources"} /\ r.reached ->
            [r EXCEPT !.stream = s]
      [] s \in Preparing /\ ~r.reached /\ ~Overdue(r, s, late) ->
            [r EXCEPT !.player = "pending", !.stream = s, !.error = "none"]
      [] s = "WaitingForResources" /\ ~r.reached ->
            [r EXCEPT !.player = "queued", !.stream = s, !.error = "none"]
      [] s = "Failed" ->
            [r EXCEPT !.player = "failed", !.stream = s, !.error = "remote"]
      [] OTHER ->
            [r EXCEPT !.player = IF r.reached /\ s \notin {"Closing", "Closed", "Recovering"}
                                 THEN @ ELSE "pending",
                      !.stream = s]

SendsToken(r, s, late) ==
    s = "ReadyToConnect" /\ ~r.reached /\ ~Overdue(r, s, late)

\* record_terminal_error: 404 closes, 401 fails.
EndedBy(r, how) ==
    [r EXCEPT !.player = how,
              !.stream = IF how = "closed" THEN "Closed" ELSE "Failed",
              !.error = "remote"]

Verdicts(g) == {"failed"} \cup (IF g \in gone THEN {"closed"} ELSE {})

-----------------------------------------------------------------------------
(* The monitor loop of generation g.                                       *)

MonitorAt(g, stage) == mon' = [mon EXCEPT ![g] = stage]
MonitorRests(g, stage) ==
    /\ MonitorAt(g, stage)
    /\ mview' = [mview EXCEPT ![g] = NoView]
    /\ msend' = [msend EXCEPT ![g] = FALSE]

\* Mutant: the request for a connect token outlives the tick that made it.
MonitorGoesOnMutant(g, stage) ==
    /\ MonitorAt(g, stage)
    /\ mview' = [mview EXCEPT ![g].rec = Fresh]
    /\ UNCHANGED msend

\* The copy is written back; from here on only its generation matters.
MonitorGoesOn(g, stage) ==
    /\ MonitorAt(g, stage)
    /\ mview' = [mview EXCEPT ![g].rec = Fresh]
    /\ msend' = [msend EXCEPT ![g] = FALSE]

MonitorWakes(g) ==
    /\ mon[g] = "sleeping"
    /\ MonitorRests(g, IF g \in dead THEN "ended" ELSE "awake")
    /\ UNCHANGED <<slot, rec, dead, closing, keepVars, sent, gone, history>>

\* The record is looked up by id: it may be of another generation by now.
MonitorReads(g) ==
    /\ mon[g] = "awake"
    /\ IF slot = NoGen
       THEN MonitorRests(g, "ended")
       ELSE /\ mview' = [mview EXCEPT ![g] = StoredView]
            /\ MonitorAt(g, "polling")
            /\ UNCHANGED msend
    /\ UNCHANGED <<slot, rec, dead, closing, keepVars, sent, gone, history>>

MonitorAnswered(g) ==
    LET view == mview[g] IN
    /\ mon[g] = "polling"
    /\ g \notin dead
    /\ view.of \notin gone
    /\ \E s \in Streams, late \in BOOLEAN :
          /\ late => view.rec.stream = s
          /\ mview' = [mview EXCEPT ![g].rec = Tick(view.rec, s, late)]
          /\ msend' = [msend EXCEPT ![g] = SendsToken(view.rec, s, late)]
          /\ provisioned' = IF s = "Provisioned" THEN provisioned \cup {view.of}
                            ELSE provisioned
    /\ MonitorAt(g, "deciding")
    /\ UNCHANGED <<slot, rec, dead, closing, keepVars, sent, gone, played, ousted>>

\* The awaits at which a tick may be dropped.
MonitorAwaits == {"awake", "polling", "deciding", "writing", "recording", "sending"}

\* Network trouble, no token, or 45 s: the observation is given up.
MonitorUnanswered(g) ==
    /\ mon[g] \in MonitorAwaits \ {"awake"}
    /\ MonitorRests(g, "sleeping")
    /\ UNCHANGED <<slot, rec, dead, closing, keepVars, sent, gone, history>>

\* Mutant: a 404 is one more failed observation.
MonitorEndsMutant(g) == MonitorUnanswered(g)

MonitorEnds(g) ==
    LET view == mview[g] IN
    /\ mon[g] = "polling"
    /\ g \notin dead
    /\ \E how \in Verdicts(view.of) :
          mview' = [mview EXCEPT ![g].rec = EndedBy(view.rec, how)]
    /\ MonitorAt(g, "recording")
    /\ UNCHANGED <<slot, rec, dead, closing, msend, keepVars, sent, gone, history>>

\* Dropped at an await because its token is cancelled.
MonitorDropped(g) ==
    /\ mon[g] \in MonitorAwaits
    /\ g \in dead
    /\ MonitorRests(g, "ended")
    /\ UNCHANGED <<slot, rec, dead, closing, keepVars, sent, gone, history>>

\* The last look at the token before the tick is written back.
MonitorChecks(g) ==
    /\ mon[g] = "deciding"
    /\ IF slot = mview[g].of /\ mview[g].of \notin dead
       THEN MonitorAt(g, "writing") /\ UNCHANGED <<mview, msend>>
       ELSE MonitorRests(g, "ended")
    /\ UNCHANGED <<slot, rec, dead, closing, keepVars, sent, gone, history>>

\* Mutant: upsert, which keeps the token of whatever the slot holds.
WriteBackMutant(view) ==
    /\ rec' = view.rec
    /\ slot' = IF slot = NoGen THEN view.of ELSE slot

\* upsert_if_same
WriteBack(view) ==
    /\ rec' = IF slot = view.of THEN view.rec ELSE rec
    /\ UNCHANGED slot

MonitorWrites(g) ==
    LET view == mview[g] IN
    /\ mon[g] = "writing"
    /\ WriteBack(view)
    /\ CASE slot' # view.of -> MonitorRests(g, "ended")
         [] slot' = view.of /\ Terminal(view.rec) -> MonitorGoesOn(g, "revoking")
         [] slot' = view.of /\ msend[g] /\ view.of \notin sent -> MonitorGoesOn(g, "sending")
         [] OTHER -> MonitorRests(g, "sleeping")
    /\ played' = IF slot' = view.of /\ view.rec.reached THEN played \cup {slot'} ELSE played
    /\ UNCHANGED <<dead, closing, keepVars, sent, gone, provisioned, ousted>>

\* Sent, refused, or unanswered for 15 s: the next tick sends it again.
MonitorSent(g) ==
    /\ mon[g] = "sending"
    /\ g \notin dead
    /\ \/ sent' = sent \cup {mview[g].of}
       \/ UNCHANGED sent
    /\ MonitorRests(g, "sleeping")
    /\ UNCHANGED <<slot, rec, dead, closing, keepVars, gone, history>>

MonitorRecords(g) ==
    /\ mon[g] = "recording"
    /\ WriteBack(mview[g])
    /\ IF slot' = mview[g].of
       THEN MonitorGoesOn(g, "revoking")
       ELSE MonitorRests(g, "ended")
    /\ UNCHANGED <<dead, closing, keepVars, sent, gone, history>>

MonitorRevokes(g) ==
    /\ mon[g] = "revoking"
    /\ dead' = dead \cup {mview[g].of}
    /\ MonitorRests(g, "ended")
    /\ UNCHANGED <<slot, rec, closing, keepVars, sent, gone, history>>

-----------------------------------------------------------------------------
(* The keepalive loop of generation g.  The call itself runs under the     *)
(* token of the record it found, which may be another generation's.        *)

KeepAt(g, stage) == keep' = [keep EXCEPT ![g] = stage]
KeepRests(g, stage) ==
    KeepAt(g, stage) /\ kview' = [kview EXCEPT ![g] = NoView]

\* Mutant: the loop does not look at its own token.
KeepWakesMutant(g) ==
    /\ keep[g] = "sleeping"
    /\ KeepRests(g, "awake")
    /\ UNCHANGED <<slot, rec, dead, closing, monVars, sent, gone, history>>

KeepWakes(g) ==
    /\ keep[g] = "sleeping"
    /\ KeepRests(g, IF g \in dead THEN "ended" ELSE "awake")
    /\ UNCHANGED <<slot, rec, dead, closing, monVars, sent, gone, history>>

KeepReads(g) ==
    /\ keep[g] = "awake"
    /\ CASE slot = NoGen \/ Terminal(rec) -> KeepRests(g, "ended")
         [] slot # NoGen /\ Phase(rec) \in {"ready", "recovering"} ->
               KeepAt(g, "sending") /\ kview' = [kview EXCEPT ![g] = StoredView]
         [] OTHER -> KeepRests(g, "sleeping")
    /\ UNCHANGED <<slot, rec, dead, closing, monVars, sent, gone, history>>

\* Kept alive, failed for now, cancelled, or over after 15 s.
KeepAnswered(g) ==
    /\ keep[g] \in {"sending", "recording"}
    /\ KeepRests(g, "sleeping")
    /\ UNCHANGED <<slot, rec, dead, closing, monVars, sent, gone, history>>

KeepEnds(g) ==
    /\ keep[g] = "sending"
    /\ kview[g].of \notin dead
    /\ \E how \in Verdicts(kview[g].of) :
          kview' = [kview EXCEPT ![g].rec = EndedBy(@, how)]
    /\ KeepAt(g, "recording")
    /\ UNCHANGED <<slot, rec, dead, closing, monVars, sent, gone, history>>

KeepRecords(g) ==
    /\ keep[g] = "recording"
    /\ WriteBack(kview[g])
    /\ IF slot' = kview[g].of
       THEN KeepAt(g, "revoking") /\ kview' = [kview EXCEPT ![g].rec = Fresh]
       ELSE KeepRests(g, "sleeping")
    /\ ousted' = IF slot' = kview[g].of THEN ousted \cup {slot'} ELSE ousted
    /\ UNCHANGED <<dead, closing, monVars, sent, gone, provisioned, played>>

KeepRevokes(g) ==
    /\ keep[g] = "revoking"
    /\ dead' = dead \cup {kview[g].of}
    /\ KeepRests(g, "sleeping")
    /\ UNCHANGED <<slot, rec, closing, monVars, sent, gone, history>>

-----------------------------------------------------------------------------
(* Insertion of records, closers, and the service.                         *)

\* insert_new_with_plan, then start_loops; a replaced record loses its token.
Insert(g) ==
    /\ mon[g] = "none"
    /\ slot' = g /\ rec' = Fresh
    /\ dead' = dead \cup ({slot} \ {NoGen})
    /\ MonitorRests(g, "sleeping") /\ KeepRests(g, "sleeping")
    /\ UNCHANGED <<closing, sent, gone, history>>

CloseBegins ==
    /\ slot # NoGen
    /\ slot \notin closing
    /\ dead' = dead \cup {slot}
    /\ closing' = closing \cup {slot}
    /\ UNCHANGED <<slot, rec, monVars, keepVars, sent, gone, history>>

\* clear_session removes the record only if it is the closed generation's.
CloseClears(g) ==
    /\ g \in closing
    /\ slot' = IF slot = g THEN NoGen ELSE slot
    /\ rec' = IF slot = g THEN Fresh ELSE rec
    /\ closing' = closing \ {g}
    /\ UNCHANGED <<dead, monVars, keepVars, sent, gone, history>>

ServiceForgets(g) ==
    /\ mon[g] # "none"
    /\ g \notin gone
    /\ gone' = gone \cup {g}
    /\ UNCHANGED <<slot, rec, dead, closing, monVars, keepVars, sent, history>>

-----------------------------------------------------------------------------
MonitorStep(g) ==
    \/ MonitorWakes(g) \/ MonitorReads(g) \/ MonitorAnswered(g)
    \/ MonitorUnanswered(g) \/ MonitorEnds(g) \/ MonitorDropped(g)
    \/ MonitorChecks(g) \/ MonitorWrites(g) \/ MonitorSent(g)
    \/ MonitorRecords(g) \/ MonitorRevokes(g)

KeepStep(g) ==
    \/ KeepWakes(g) \/ KeepReads(g) \/ KeepAnswered(g) \/ KeepEnds(g)
    \/ KeepRecords(g) \/ KeepRevokes(g)

Next ==
    \/ \E g \in Gens :
          \/ MonitorStep(g) \/ KeepStep(g)
          \/ Insert(g) \/ CloseClears(g) \/ ServiceForgets(g)
    \/ CloseBegins

Spec == Init /\ [][Next]_vars

\* The runtime polls its tasks.
LoopsRun ==
    \A g \in Gens : /\ WF_vars(MonitorStep(g)) /\ WF_vars(KeepStep(g))
                    /\ WF_vars(CloseClears(g))

\* The service cannot be unreachable for ever: in the end it answers that it
\* has forgotten the session, and the answer is written down in time.
ServiceAnswers ==
    \A g \in Gens : SF_vars(MonitorEnds(g) /\ mview[g].of \in gone) /\ SF_vars(MonitorRecords(g))

LoopSpec == Spec /\ LoopsRun
FairSpec == LoopSpec /\ ServiceAnswers

-----------------------------------------------------------------------------
\* What a record says of a session was observed of that very generation, not
\* left behind by a loop of the one before it under the same id.
FactsAreOwn == slot # NoGen /\ rec.reached => slot \in provisioned

\* A record that left the store never returns, whatever the loops still hold.
NeverResurrected ==
    [][slot' # slot /\ slot' # NoGen => mon[slot'] = "none"]_vars

\* Start-up timeouts end with start-up (monitor.rs:118): a session whose record
\* ever told of playback is not failed for staying in a preparing state,
\* whichever copy of whichever loop was written back since.  The only one that
\* may be is one a keepalive loop has already ended: the copy it ended may be
\* of before playback, and the record forgets playback with it.
StartTimeoutSparesPlayback ==
    rec.error = "timeout" /\ slot \in played => slot \in ousted

\* Once a token is cancelled, by whoever, both loops of it end.
LoopsEnd ==
    \A g \in Gens : g \in dead /\ mon[g] # "none" ~> mon[g] = "ended" /\ keep[g] = "ended"

\* A session the service has forgotten is noticed: its token is cancelled, so
\* that no request for it is made any more.
EndIsNoticed == \A g \in Gens : g \in gone ~> g \in dead

\* The reliability RFC (line 96): within a generation, a closed or failed
\* state absorbs late ordinary events.
TerminalAbsorbs ==
    [][slot # NoGen /\ slot' = slot /\ Terminal(rec) => Terminal(rec')]_vars

\* monitor.rs:236: an empty body or an unknown state during playback does not
\* put the session back to waiting for readiness.
PlaybackNotDemoted == rec.reached => Phase(rec) \notin {"waiting", "starting"}
=============================================================================
