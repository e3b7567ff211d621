------------------------- MODULE SessionMonitorProofs -------------------------
(* What the loops of SessionMonitor keep, for any number of generations. *)
EXTENDS SessionMonitor, TLAPS

\* The copies a loop holds are as sound as the record itself: playback they
\* remember was observed of the generation they are a copy of, and is not
\* failed by a start-up timeout.
OwnFacts(view) == view.rec.reached => view.of \in provisioned
Spared(r) == r.reached => r.error # "timeout"

CopiesAreOwn ==
    /\ FactsAreOwn
    /\ \A g \in Gens : OwnFacts(mview[g]) /\ OwnFacts(kview[g])

CopiesAreSpared ==
    /\ Spared(rec)
    /\ \A g \in Gens : Spared(mview[g].rec) /\ Spared(kview[g].rec)

-----------------------------------------------------------------------------
\* A tick yields a record, remembers playback exactly if it was remembered
\* before or is reported now, and never fails playback by a timeout.
LEMMA TickKeepsRecord ==
    ASSUME NEW r \in Records, NEW s \in Streams, NEW late \in BOOLEAN
    PROVE  /\ Tick(r, s, late) \in Records
           /\ Tick(r, s, late).reached => r.reached \/ s = "Provisioned"
           /\ Spared(r) => Spared(Tick(r, s, late))
<1>1. CASE Overdue(r, s, late)
  BY <1>1 DEF Tick, Overdue, Preparing, Records, Spared
<1>2. CASE s = "Provisioned" /\ ~Overdue(r, s, late)
  BY <1>2 DEF Tick, Preparing, Records, Spared
<1>3. CASE s # "Provisioned" /\ ~Overdue(r, s, late)
  <2>1. CASE s \in Preparing \cup {"WaitingForResources"} /\ r.reached
    BY <1>3, <2>1 DEF Tick, Preparing, Records, Spared
  <2>2. CASE s \in Preparing \cup {"WaitingForResources"} /\ ~r.reached
    BY <1>3, <2>2 DEF Tick, Preparing, Records, Spared
  <2>3. CASE s \notin Preparing \cup {"WaitingForResources"}
    BY <1>3, <2>3 DEF Tick, Preparing, Records, Spared
  <2>4. QED BY <2>1, <2>2, <2>3
<1>4. QED BY <1>1, <1>2, <1>3

\* Ending a record keeps what it remembers of playback.
LEMMA EndKeepsRecord ==
    ASSUME NEW r \in Records, NEW how \in {"failed", "closed"}
    PROVE  /\ EndedBy(r, how) \in Records
           /\ EndedBy(r, how).reached = r.reached
           /\ Spared(EndedBy(r, how))
BY DEF EndedBy, Records, Spared

\* A new record is a record, without memories.
LEMMA FreshIsRecord ==
    /\ Fresh \in Records /\ ~Fresh.reached /\ NoView.rec = Fresh /\ NoView.of = NoGen
    /\ NoView = [of |-> NoGen, rec |-> Fresh]
BY DEF Fresh, Records, NoView

-----------------------------------------------------------------------------
\* The type invariant, by the actor a part of it is about.
MonTyped ==
    /\ mon \in [Gens -> MonitorStages]
    /\ mview \in [Gens -> View]
    /\ msend \in [Gens -> BOOLEAN]
    /\ \A g \in Gens :
          /\ mview[g].of = NoGen <=> mon[g] \in {"none", "sleeping", "awake", "ended"}
          /\ msend[g] => mon[g] \in {"deciding", "writing"}

KeepTyped ==
    /\ keep \in [Gens -> KeepStages]
    /\ kview \in [Gens -> View]
    /\ \A g \in Gens :
          kview[g].of = NoGen <=> keep[g] \in {"none", "sleeping", "awake", "ended"}

RestTyped ==
    /\ slot \in Gens \cup {NoGen}
    /\ rec \in Records
    /\ dead \subseteq Gens /\ closing \subseteq Gens
    /\ sent \subseteq Gens /\ gone \subseteq Gens
    /\ provisioned \subseteq Gens /\ played \subseteq Gens /\ ousted \subseteq Gens

LEMMA TypeParts == TypeOK <=> MonTyped /\ KeepTyped /\ RestTyped
BY DEF TypeOK, MonTyped, KeepTyped, RestTyped

LEMMA TypePartsNext == TypeOK' <=> MonTyped' /\ KeepTyped' /\ RestTyped'
BY DEF TypeOK, MonTyped, KeepTyped, RestTyped

\* A loop that rests, or goes on with the generation of its copy, is typed.
LEMMA RestsTyped ==
    ASSUME MonTyped, NEW g \in Gens, NEW stage \in {"sleeping", "awake", "ended"},
           MonitorRests(g, stage)
    PROVE  MonTyped'
BY FreshIsRecord, MonitorAssumption
DEF MonTyped, MonitorRests, MonitorAt, MonitorStages, View

LEMMA GoesOnTyped ==
    ASSUME MonTyped, NEW g \in Gens, NEW stage \in {"revoking", "sending"},
           mview[g].of # NoGen, MonitorGoesOn(g, stage)
    PROVE  MonTyped'
BY FreshIsRecord, MonitorAssumption
DEF MonTyped, MonitorGoesOn, MonitorAt, MonitorStages, View

LEMMA KeepRestsTyped ==
    ASSUME KeepTyped, NEW g \in Gens, NEW stage \in {"sleeping", "awake", "ended"},
           KeepRests(g, stage)
    PROVE  KeepTyped'
BY FreshIsRecord, MonitorAssumption DEF KeepTyped, KeepRests, KeepAt, KeepStages, View

\* What a loop writes back is a record, and stays in its slot.
LEMMA WriteBackTyped ==
    ASSUME RestTyped, NEW view \in View, WriteBack(view)
    PROVE  slot' = slot /\ rec' \in Records
BY DEF RestTyped, WriteBack, View

\* A step keeps every type.
LEMMA TypeStep == ASSUME TypeOK, [Next]_vars PROVE TypeOK'
<1> USE MonitorAssumption
<1>1. ASSUME NEW g \in Gens, MonitorWakes(g) PROVE TypeOK'
  BY <1>1, FreshIsRecord
  DEF MonitorWakes, MonitorRests, MonitorAt, TypeOK, View, MonitorStages, KeepStages,
      monVars, keepVars, history
<1>2. ASSUME NEW g \in Gens, MonitorReads(g) PROVE TypeOK'
  <2>1. CASE slot = NoGen
    <3>1. MonTyped' BY <1>2, <2>1, TypeParts, RestsTyped DEF MonitorReads
    <3>2. KeepTyped' /\ RestTyped'
      BY <1>2, TypeParts DEF MonitorReads, KeepTyped, RestTyped, keepVars, history
    <3>3. QED BY <3>1, <3>2, TypePartsNext
  <2>2. CASE slot # NoGen
    <3>1. StoredView \in View /\ StoredView.of # NoGen
      BY <2>2, TypeParts DEF RestTyped, StoredView, View
    <3>2. ~msend[g] /\ mview' = [mview EXCEPT ![g] = StoredView]
          /\ mon' = [mon EXCEPT ![g] = "polling"] /\ msend' = msend
      BY <1>2, <2>2, TypeParts DEF MonitorReads, MonitorAt, MonTyped
    <3>3. MonTyped'
      BY <3>1, <3>2, TypeParts DEF MonTyped, MonitorStages
    <3>4. KeepTyped' /\ RestTyped'
      BY <1>2, TypeParts DEF MonitorReads, KeepTyped, RestTyped, keepVars, history
    <3>5. QED BY <3>3, <3>4, TypePartsNext
  <2>3. QED BY <2>1, <2>2
<1>3. ASSUME NEW g \in Gens, MonitorAnswered(g) PROVE TypeOK'
  <2>1. PICK s \in Streams, late \in BOOLEAN :
          /\ mview' = [mview EXCEPT ![g].rec = Tick(mview[g].rec, s, late)]
          /\ msend' = [msend EXCEPT ![g] = SendsToken(mview[g].rec, s, late)]
          /\ provisioned' = IF s = "Provisioned" THEN provisioned \cup {mview[g].of}
                            ELSE provisioned
    BY <1>3 DEF MonitorAnswered
  <2>2. mview[g] \in View /\ mview[g].of \in Gens /\ mview[g].rec \in Records
    BY <1>3, TypeParts DEF MonTyped, MonitorAnswered, View
  <2>3. SendsToken(mview[g].rec, s, late) \in BOOLEAN
    BY DEF SendsToken
  <2>4. Tick(mview[g].rec, s, late) \in Records
    BY <2>2, TickKeepsRecord
  <2>5. MonTyped'
    BY <1>3, <2>1, <2>2, <2>3, <2>4, TypeParts
    DEF MonitorAnswered, MonitorAt, MonTyped, MonitorStages, View
  <2>6. KeepTyped' /\ RestTyped'
    BY <1>3, <2>1, <2>2, TypeParts DEF MonitorAnswered, KeepTyped, RestTyped, keepVars, history
  <2>7. QED BY <2>5, <2>6, TypePartsNext
<1>4. ASSUME NEW g \in Gens, MonitorUnanswered(g) PROVE TypeOK'
  BY <1>4, FreshIsRecord
  DEF MonitorUnanswered, MonitorRests, MonitorAt, MonitorAwaits, TypeOK, View,
      MonitorStages, KeepStages, monVars, keepVars, history
<1>5. ASSUME NEW g \in Gens, MonitorEnds(g) PROVE TypeOK'
  BY <1>5, EndKeepsRecord, FreshIsRecord
  DEF MonitorEnds, MonitorAt, Verdicts, TypeOK, View, MonitorStages, KeepStages,
      monVars, keepVars, history
<1>6. ASSUME NEW g \in Gens, MonitorDropped(g) PROVE TypeOK'
  BY <1>6, FreshIsRecord
  DEF MonitorDropped, MonitorRests, MonitorAt, MonitorAwaits, TypeOK, View,
      MonitorStages, KeepStages, monVars, keepVars, history
<1>7. ASSUME NEW g \in Gens, MonitorChecks(g) PROVE TypeOK'
  <2>1. KeepTyped' /\ RestTyped'
    BY <1>7, TypeParts DEF MonitorChecks, KeepTyped, RestTyped, keepVars, history
  <2>2. CASE slot = mview[g].of /\ mview[g].of \notin dead
    <3>1. MonTyped'
      BY <1>7, <2>2, TypeParts DEF MonitorChecks, MonitorAt, MonTyped, MonitorStages
    <3>2. QED BY <3>1, <2>1, TypePartsNext
  <2>3. CASE ~(slot = mview[g].of /\ mview[g].of \notin dead)
    <3>1. MonTyped' BY <1>7, <2>3, TypeParts, RestsTyped DEF MonitorChecks
    <3>2. QED BY <3>1, <2>1, TypePartsNext
  <2>4. QED BY <2>2, <2>3
<1>8. ASSUME NEW g \in Gens, MonitorWrites(g) PROVE TypeOK'
  <2>1. mview[g] \in View /\ mview[g].of # NoGen
    BY <1>8, TypeParts DEF MonTyped, MonitorWrites
  <2>2. slot' = slot /\ rec' \in Records
    BY <1>8, <2>1, TypeParts, WriteBackTyped DEF MonitorWrites
  <2>3. KeepTyped' /\ RestTyped'
    BY <1>8, <2>1, <2>2, TypeParts
    DEF MonitorWrites, KeepTyped, RestTyped, keepVars, View
  <2>4. \/ MonitorRests(g, "ended") \/ MonitorRests(g, "sleeping")
        \/ MonitorGoesOn(g, "revoking") \/ MonitorGoesOn(g, "sending")
    BY <1>8 DEF MonitorWrites
  <2>5. MonTyped'
    BY <2>1, <2>4, TypeParts, RestsTyped, GoesOnTyped
  <2>6. QED BY <2>3, <2>5, TypePartsNext
<1>9. ASSUME NEW g \in Gens, MonitorSent(g) PROVE TypeOK'
  BY ZenonT(30), <1>9, FreshIsRecord
  DEF MonitorSent, MonitorRests, MonitorAt, TypeOK, View, MonitorStages, KeepStages,
      monVars, keepVars, history
<1>10. ASSUME NEW g \in Gens, MonitorRecords(g) PROVE TypeOK'
  <2>1. mview[g] \in View /\ mview[g].of # NoGen
    BY <1>10, TypeParts DEF MonTyped, MonitorRecords
  <2>2. slot' = slot /\ rec' \in Records
    BY <1>10, <2>1, TypeParts, WriteBackTyped DEF MonitorRecords
  <2>3. KeepTyped' /\ RestTyped'
    BY <1>10, <2>2, TypeParts DEF MonitorRecords, KeepTyped, RestTyped, keepVars, history
  <2>4. MonitorRests(g, "ended") \/ MonitorGoesOn(g, "revoking")
    BY <1>10 DEF MonitorRecords
  <2>5. MonTyped'
    BY <2>1, <2>4, TypeParts, RestsTyped, GoesOnTyped
  <2>6. QED BY <2>3, <2>5, TypePartsNext
<1>11. ASSUME NEW g \in Gens, MonitorRevokes(g) PROVE TypeOK'
  BY ZenonT(30), <1>11, FreshIsRecord
  DEF MonitorRevokes, MonitorRests, MonitorAt, TypeOK, View, MonitorStages, KeepStages,
      monVars, keepVars, history
<1>12. ASSUME NEW g \in Gens, KeepWakes(g) PROVE TypeOK'
  BY <1>12, FreshIsRecord
  DEF KeepWakes, KeepRests, KeepAt, TypeOK, View, MonitorStages, KeepStages, monVars,
      keepVars, history
<1>13. ASSUME NEW g \in Gens, KeepReads(g) PROVE TypeOK'
  <2>1. MonTyped' /\ RestTyped'
    BY <1>13, TypeParts DEF KeepReads, MonTyped, RestTyped, monVars, history
  <2>2. KeepTyped'
    <3>1. CASE slot = NoGen \/ Terminal(rec)
      <4>1. KeepRests(g, "ended") BY <1>13, <3>1 DEF KeepReads, Terminal
      <4>2. QED BY <4>1, TypeParts, KeepRestsTyped
    <3>2. CASE slot # NoGen /\ ~Terminal(rec) /\ Phase(rec) \in {"ready", "recovering"}
      <4>1. StoredView \in View /\ StoredView.of # NoGen
        BY <3>2, TypeParts DEF RestTyped, StoredView, View
      <4>2. kview' = [kview EXCEPT ![g] = StoredView] /\ keep' = [keep EXCEPT ![g] = "sending"]
        BY <1>13, <3>2 DEF KeepReads, KeepAt, Terminal
      <4>3. QED BY <4>1, <4>2, TypeParts DEF KeepTyped, KeepStages
    <3>3. CASE slot # NoGen /\ ~Terminal(rec) /\ Phase(rec) \notin {"ready", "recovering"}
      <4>1. KeepRests(g, "sleeping") BY <1>13, <3>3 DEF KeepReads
      <4>2. QED BY <4>1, TypeParts, KeepRestsTyped
    <3>4. QED BY <3>1, <3>2, <3>3
  <2>3. QED BY <2>1, <2>2, TypePartsNext
<1>14. ASSUME NEW g \in Gens, KeepAnswered(g) PROVE TypeOK'
  BY <1>14, FreshIsRecord
  DEF KeepAnswered, KeepRests, KeepAt, TypeOK, View, MonitorStages, KeepStages, monVars,
      keepVars, history
<1>15. ASSUME NEW g \in Gens, KeepEnds(g) PROVE TypeOK'
  BY SMTT(20), <1>15, EndKeepsRecord, FreshIsRecord
  DEF KeepEnds, KeepAt, Verdicts, TypeOK, View, MonitorStages, KeepStages, monVars,
      keepVars, history
<1>16. ASSUME NEW g \in Gens, KeepRecords(g) PROVE TypeOK'
  <2>1. kview[g] \in View
    BY <1>16, TypeParts DEF KeepTyped, KeepRecords
  <2>2. slot' = slot /\ rec' \in Records
    BY <1>16, <2>1, TypeParts, WriteBackTyped DEF KeepRecords
  <2>3. MonTyped' /\ RestTyped'
    <3>1. kview[g].of \in Gens
      BY <1>16, <2>1, TypeParts DEF KeepTyped, KeepRecords, View
    <3>2. MonTyped'
      BY <1>16, TypeParts DEF KeepRecords, MonTyped, monVars
    <3>3. RestTyped'
      BY <1>16, <2>2, <3>1, TypeParts DEF KeepRecords, RestTyped
    <3>4. QED BY <3>2, <3>3
  <2>4. KeepTyped'
    <3>1. CASE slot' = kview[g].of
      BY SMTT(20), <1>16, <3>1, FreshIsRecord, TypeParts
      DEF KeepRecords, KeepAt, KeepTyped, KeepStages, View
    <3>2. CASE slot' # kview[g].of
      <4>1. KeepRests(g, "sleeping") BY <1>16, <3>2 DEF KeepRecords
      <4>2. QED BY <4>1, TypeParts, KeepRestsTyped
    <3>3. QED BY <3>1, <3>2
  <2>5. QED BY <2>3, <2>4, TypePartsNext
<1>17. ASSUME NEW g \in Gens, KeepRevokes(g) PROVE TypeOK'
  BY <1>17, FreshIsRecord
  DEF KeepRevokes, KeepRests, KeepAt, TypeOK, View, MonitorStages, KeepStages, monVars,
      keepVars, history
<1>18. ASSUME NEW g \in Gens, Insert(g) PROVE TypeOK'
  <2>1. MonTyped' /\ KeepTyped'
    BY <1>18, TypeParts, RestsTyped, KeepRestsTyped DEF Insert
  <2>2. RestTyped'
    BY <1>18, FreshIsRecord, TypeParts DEF Insert, RestTyped, history
  <2>3. QED BY <2>1, <2>2, TypePartsNext
<1>19. ASSUME NEW g \in Gens, CloseClears(g) PROVE TypeOK'
  BY <1>19, FreshIsRecord
  DEF CloseClears, TypeOK, View, MonitorStages, KeepStages, monVars, keepVars, history
<1>20. ASSUME NEW g \in Gens, ServiceForgets(g) PROVE TypeOK'
  BY <1>20, FreshIsRecord
  DEF ServiceForgets, TypeOK, View, MonitorStages, KeepStages, monVars, keepVars, history
<1>21. CASE CloseBegins
  BY <1>21, FreshIsRecord
  DEF CloseBegins, TypeOK, View, MonitorStages, KeepStages, monVars, keepVars, history
<1>22. CASE UNCHANGED vars
  BY <1>22 DEF vars, TypeOK, View, MonitorStages, KeepStages, monVars, keepVars, history
<1>23. QED
  BY <1>1, <1>2, <1>3, <1>4, <1>5, <1>6, <1>7, <1>8, <1>9, <1>10, <1>11, <1>12, <1>13, <1>14, <1>15, <1>16, <1>17, <1>18, <1>19, <1>20, <1>21, <1>22
  DEF Next, MonitorStep, KeepStep

-----------------------------------------------------------------------------
\* A step keeps what the record and the copies say about playback.
LEMMA OwnStep ==
    ASSUME TypeOK, CopiesAreOwn, [Next]_vars PROVE CopiesAreOwn'
<1> USE MonitorAssumption
<1>1. ASSUME NEW g \in Gens, MonitorWakes(g) PROVE CopiesAreOwn'
  BY <1>1, FreshIsRecord
  DEF MonitorWakes, MonitorRests, MonitorAt, TypeOK, View, CopiesAreOwn, FactsAreOwn,
      OwnFacts, monVars, keepVars, history
<1>2. ASSUME NEW g \in Gens, MonitorReads(g) PROVE CopiesAreOwn'
  <2>1. CASE slot = NoGen
    BY <1>2, <2>1, FreshIsRecord
    DEF MonitorReads, MonitorRests, TypeOK, View, CopiesAreOwn, FactsAreOwn, OwnFacts,
        keepVars, history
  <2>2. CASE slot # NoGen
    <3>1. mview' = [mview EXCEPT ![g] = StoredView] /\ UNCHANGED <<kview, slot, rec, provisioned>>
      BY <1>2, <2>2 DEF MonitorReads, keepVars, history
    <3>2. QED BY <2>2, <3>1
        DEF StoredView, TypeOK, View, CopiesAreOwn, FactsAreOwn, OwnFacts
  <2>3. QED BY <2>1, <2>2
<1>3. ASSUME NEW g \in Gens, MonitorAnswered(g) PROVE CopiesAreOwn'
  BY <1>3, TickKeepsRecord, FreshIsRecord
  DEF MonitorAnswered, MonitorAt, SendsToken, TypeOK, View, CopiesAreOwn, FactsAreOwn,
      OwnFacts, monVars, keepVars, history
<1>4. ASSUME NEW g \in Gens, MonitorUnanswered(g) PROVE CopiesAreOwn'
  BY <1>4, FreshIsRecord
  DEF MonitorUnanswered, MonitorRests, MonitorAt, MonitorAwaits, TypeOK, View,
      CopiesAreOwn, FactsAreOwn, OwnFacts, monVars, keepVars, history
<1>5. ASSUME NEW g \in Gens, MonitorEnds(g) PROVE CopiesAreOwn'
  BY <1>5, EndKeepsRecord, FreshIsRecord
  DEF MonitorEnds, MonitorAt, Verdicts, TypeOK, View, CopiesAreOwn, FactsAreOwn,
      OwnFacts, monVars, keepVars, history
<1>6. ASSUME NEW g \in Gens, MonitorDropped(g) PROVE CopiesAreOwn'
  BY <1>6, FreshIsRecord
  DEF MonitorDropped, MonitorRests, MonitorAt, MonitorAwaits, TypeOK, View,
      CopiesAreOwn, FactsAreOwn, OwnFacts, monVars, keepVars, history
<1>7. ASSUME NEW g \in Gens, MonitorChecks(g) PROVE CopiesAreOwn'
  BY <1>7, FreshIsRecord
  DEF MonitorChecks, MonitorRests, MonitorAt, TypeOK, View, CopiesAreOwn, FactsAreOwn,
      OwnFacts, monVars, keepVars, history
<1>8. ASSUME NEW g \in Gens, MonitorWrites(g) PROVE CopiesAreOwn'
  <2>1. UNCHANGED <<slot, provisioned>> /\ rec' = IF slot = mview[g].of THEN mview[g].rec ELSE rec
    BY <1>8 DEF MonitorWrites, WriteBack
  <2>2. /\ UNCHANGED kview
        /\ \/ mview' = [mview EXCEPT ![g].rec = Fresh]
           \/ mview' = [mview EXCEPT ![g] = NoView]
    BY <1>8 DEF MonitorWrites, MonitorRests, MonitorGoesOn, keepVars, history
  <2>3. mview \in [Gens -> View] /\ kview \in [Gens -> View]
    BY DEF TypeOK
  <2>4. \A h \in Gens : h # g => mview'[h] = mview[h]
    BY <2>2, <2>3
  <2>5. mview'[g].rec = Fresh /\ mview'[g].of \in {mview[g].of, NoGen}
    BY <2>2, <2>3, FreshIsRecord DEF View
  <2>6. QED BY <2>1, <2>2, <2>3, <2>4, <2>5, FreshIsRecord
      DEF CopiesAreOwn, FactsAreOwn, OwnFacts
<1>9. ASSUME NEW g \in Gens, MonitorSent(g) PROVE CopiesAreOwn'
  BY <1>9, FreshIsRecord
  DEF MonitorSent, MonitorRests, MonitorAt, TypeOK, View, CopiesAreOwn, FactsAreOwn,
      OwnFacts, monVars, keepVars, history
<1>10. ASSUME NEW g \in Gens, MonitorRecords(g) PROVE CopiesAreOwn'
  <2>1. UNCHANGED <<slot, provisioned>> /\ rec' = IF slot = mview[g].of THEN mview[g].rec ELSE rec
    BY <1>10 DEF MonitorRecords, WriteBack, history
  <2>2. /\ UNCHANGED kview
        /\ \/ mview' = [mview EXCEPT ![g].rec = Fresh]
           \/ mview' = [mview EXCEPT ![g] = NoView]
    BY <1>10 DEF MonitorRecords, MonitorRests, MonitorGoesOn, keepVars, history
  <2>3. mview \in [Gens -> View] /\ kview \in [Gens -> View]
    BY DEF TypeOK
  <2>4. \A h \in Gens : h # g => mview'[h] = mview[h]
    BY <2>2, <2>3
  <2>5. mview'[g].rec = Fresh /\ mview'[g].of \in {mview[g].of, NoGen}
    BY <2>2, <2>3, FreshIsRecord DEF View
  <2>6. QED BY <2>1, <2>2, <2>3, <2>4, <2>5, FreshIsRecord
      DEF CopiesAreOwn, FactsAreOwn, OwnFacts
<1>11. ASSUME NEW g \in Gens, MonitorRevokes(g) PROVE CopiesAreOwn'
  BY <1>11, FreshIsRecord
  DEF MonitorRevokes, MonitorRests, MonitorAt, TypeOK, View, CopiesAreOwn, FactsAreOwn,
      OwnFacts, monVars, keepVars, history
<1>12. ASSUME NEW g \in Gens, KeepWakes(g) PROVE CopiesAreOwn'
  BY <1>12, FreshIsRecord
  DEF KeepWakes, KeepRests, KeepAt, TypeOK, View, CopiesAreOwn, FactsAreOwn, OwnFacts,
      monVars, keepVars, history
<1>13. ASSUME NEW g \in Gens, KeepReads(g) PROVE CopiesAreOwn'
  <2>1. UNCHANGED <<mview, slot, rec, provisioned>>
    BY <1>13 DEF KeepReads, monVars, history
  <2>2. \/ slot # NoGen /\ kview' = [kview EXCEPT ![g] = StoredView]
        \/ kview' = [kview EXCEPT ![g] = NoView]
    BY <1>13 DEF KeepReads, KeepRests, Terminal
  <2>3. CASE slot # NoGen /\ kview' = [kview EXCEPT ![g] = StoredView]
    BY <2>1, <2>3 DEF StoredView, TypeOK, View, CopiesAreOwn, FactsAreOwn, OwnFacts
  <2>4. CASE kview' = [kview EXCEPT ![g] = NoView]
    BY <2>1, <2>4, FreshIsRecord DEF TypeOK, View, CopiesAreOwn, FactsAreOwn, OwnFacts
  <2>5. QED BY <2>2, <2>3, <2>4
<1>14. ASSUME NEW g \in Gens, KeepAnswered(g) PROVE CopiesAreOwn'
  BY <1>14, FreshIsRecord
  DEF KeepAnswered, KeepRests, KeepAt, TypeOK, View, CopiesAreOwn, FactsAreOwn,
      OwnFacts, monVars, keepVars, history
<1>15. ASSUME NEW g \in Gens, KeepEnds(g) PROVE CopiesAreOwn'
  BY <1>15, EndKeepsRecord, FreshIsRecord
  DEF KeepEnds, KeepAt, Verdicts, TypeOK, View, CopiesAreOwn, FactsAreOwn, OwnFacts,
      monVars, keepVars, history
<1>16. ASSUME NEW g \in Gens, KeepRecords(g) PROVE CopiesAreOwn'
  <2>1. UNCHANGED <<slot, provisioned>> /\ rec' = IF slot = kview[g].of THEN kview[g].rec ELSE rec
    BY <1>16 DEF KeepRecords, WriteBack
  <2>2. /\ UNCHANGED mview
        /\ \/ kview' = [kview EXCEPT ![g].rec = Fresh]
           \/ kview' = [kview EXCEPT ![g] = NoView]
    BY <1>16 DEF KeepRecords, KeepRests, monVars
  <2>3. mview \in [Gens -> View] /\ kview \in [Gens -> View]
    BY DEF TypeOK
  <2>4. \A h \in Gens : h # g => kview'[h] = kview[h]
    BY <2>2, <2>3
  <2>5. kview'[g].rec = Fresh /\ kview'[g].of \in {kview[g].of, NoGen}
    BY <2>2, <2>3, FreshIsRecord DEF View
  <2>6. QED BY <2>1, <2>2, <2>3, <2>4, <2>5, FreshIsRecord
      DEF CopiesAreOwn, FactsAreOwn, OwnFacts
<1>17. ASSUME NEW g \in Gens, KeepRevokes(g) PROVE CopiesAreOwn'
  BY <1>17, FreshIsRecord
  DEF KeepRevokes, KeepRests, KeepAt, TypeOK, View, CopiesAreOwn, FactsAreOwn, OwnFacts,
      monVars, keepVars, history
<1>18. ASSUME NEW g \in Gens, Insert(g) PROVE CopiesAreOwn'
  BY <1>18, FreshIsRecord
  DEF Insert, MonitorRests, KeepRests, MonitorAt, KeepAt, TypeOK, View, CopiesAreOwn,
      FactsAreOwn, OwnFacts, monVars, keepVars, history
<1>19. ASSUME NEW g \in Gens, CloseClears(g) PROVE CopiesAreOwn'
  BY <1>19, FreshIsRecord
  DEF CloseClears, TypeOK, View, CopiesAreOwn, FactsAreOwn, OwnFacts, monVars, keepVars, history
<1>20. ASSUME NEW g \in Gens, ServiceForgets(g) PROVE CopiesAreOwn'
  BY <1>20, FreshIsRecord
  DEF ServiceForgets, TypeOK, View, CopiesAreOwn, FactsAreOwn, OwnFacts, monVars,
      keepVars, history
<1>21. CASE CloseBegins
  BY <1>21, FreshIsRecord
  DEF CloseBegins, TypeOK, View, CopiesAreOwn, FactsAreOwn, OwnFacts, monVars, keepVars, history
<1>22. CASE UNCHANGED vars
  BY <1>22 DEF vars, TypeOK, View, CopiesAreOwn, FactsAreOwn, OwnFacts, monVars, keepVars, history
<1>23. QED
  BY <1>1, <1>2, <1>3, <1>4, <1>5, <1>6, <1>7, <1>8, <1>9, <1>10, <1>11, <1>12, <1>13, <1>14, <1>15, <1>16, <1>17, <1>18, <1>19, <1>20, <1>21, <1>22
  DEF Next, MonitorStep, KeepStep

\* A step keeps playback from being failed by the start-up timeout.
LEMMA SparedStep ==
    ASSUME TypeOK, CopiesAreSpared, [Next]_vars PROVE CopiesAreSpared'
<1> USE MonitorAssumption
<1>1. ASSUME NEW g \in Gens, MonitorWakes(g) PROVE CopiesAreSpared'
  BY <1>1, FreshIsRecord
  DEF MonitorWakes, MonitorRests, MonitorAt, TypeOK, View, CopiesAreSpared, Spared,
      monVars, keepVars, history
<1>2. ASSUME NEW g \in Gens, MonitorReads(g) PROVE CopiesAreSpared'
  <2>1. CASE slot = NoGen
    BY <1>2, <2>1, FreshIsRecord
    DEF MonitorReads, MonitorRests, TypeOK, View, CopiesAreSpared, Spared, keepVars, history
  <2>2. CASE slot # NoGen
    <3>1. mview' = [mview EXCEPT ![g] = StoredView] /\ UNCHANGED <<kview, slot, rec, provisioned>>
      BY <1>2, <2>2 DEF MonitorReads, keepVars, history
    <3>2. QED BY <2>2, <3>1 DEF StoredView, TypeOK, View, CopiesAreSpared, Spared
  <2>3. QED BY <2>1, <2>2
<1>3. ASSUME NEW g \in Gens, MonitorAnswered(g) PROVE CopiesAreSpared'
  BY <1>3, TickKeepsRecord, FreshIsRecord
  DEF MonitorAnswered, MonitorAt, SendsToken, TypeOK, View, CopiesAreSpared, Spared,
      monVars, keepVars, history
<1>4. ASSUME NEW g \in Gens, MonitorUnanswered(g) PROVE CopiesAreSpared'
  BY <1>4, FreshIsRecord
  DEF MonitorUnanswered, MonitorRests, MonitorAt, MonitorAwaits, TypeOK, View,
      CopiesAreSpared, Spared, monVars, keepVars, history
<1>5. ASSUME NEW g \in Gens, MonitorEnds(g) PROVE CopiesAreSpared'
  BY <1>5, EndKeepsRecord, FreshIsRecord
  DEF MonitorEnds, MonitorAt, Verdicts, TypeOK, View, CopiesAreSpared, Spared, monVars,
      keepVars, history
<1>6. ASSUME NEW g \in Gens, MonitorDropped(g) PROVE CopiesAreSpared'
  BY <1>6, FreshIsRecord
  DEF MonitorDropped, MonitorRests, MonitorAt, MonitorAwaits, TypeOK, View,
      CopiesAreSpared, Spared, monVars, keepVars, history
<1>7. ASSUME NEW g \in Gens, MonitorChecks(g) PROVE CopiesAreSpared'
  BY SMTT(20), <1>7, FreshIsRecord
  DEF MonitorChecks, MonitorRests, MonitorAt, TypeOK, View, CopiesAreSpared, Spared,
      monVars, keepVars, history
<1>8. ASSUME NEW g \in Gens, MonitorWrites(g) PROVE CopiesAreSpared'
  <2>1. UNCHANGED <<slot, provisioned>> /\ rec' = IF slot = mview[g].of THEN mview[g].rec ELSE rec
    BY <1>8 DEF MonitorWrites, WriteBack
  <2>2. /\ UNCHANGED kview
        /\ \/ mview' = [mview EXCEPT ![g].rec = Fresh]
           \/ mview' = [mview EXCEPT ![g] = NoView]
    BY <1>8 DEF MonitorWrites, MonitorRests, MonitorGoesOn, keepVars, history
  <2>3. mview \in [Gens -> View] /\ kview \in [Gens -> View]
    BY DEF TypeOK
  <2>4. \A h \in Gens : h # g => mview'[h] = mview[h]
    BY <2>2, <2>3
  <2>5. mview'[g].rec = Fresh /\ mview'[g].of \in {mview[g].of, NoGen}
    BY <2>2, <2>3, FreshIsRecord DEF View
  <2>6. QED BY <2>1, <2>2, <2>3, <2>4, <2>5, FreshIsRecord DEF CopiesAreSpared, Spared
<1>9. ASSUME NEW g \in Gens, MonitorSent(g) PROVE CopiesAreSpared'
  BY <1>9, FreshIsRecord
  DEF MonitorSent, MonitorRests, MonitorAt, TypeOK, View, CopiesAreSpared, Spared,
      monVars, keepVars, history
<1>10. ASSUME NEW g \in Gens, MonitorRecords(g) PROVE CopiesAreSpared'
  <2>1. UNCHANGED <<slot, provisioned>> /\ rec' = IF slot = mview[g].of THEN mview[g].rec ELSE rec
    BY <1>10 DEF MonitorRecords, WriteBack, history
  <2>2. /\ UNCHANGED kview
        /\ \/ mview' = [mview EXCEPT ![g].rec = Fresh]
           \/ mview' = [mview EXCEPT ![g] = NoView]
    BY <1>10 DEF MonitorRecords, MonitorRests, MonitorGoesOn, keepVars, history
  <2>3. mview \in [Gens -> View] /\ kview \in [Gens -> View]
    BY DEF TypeOK
  <2>4. \A h \in Gens : h # g => mview'[h] = mview[h]
    BY <2>2, <2>3
  <2>5. mview'[g].rec = Fresh /\ mview'[g].of \in {mview[g].of, NoGen}
    BY <2>2, <2>3, FreshIsRecord DEF View
  <2>6. QED BY <2>1, <2>2, <2>3, <2>4, <2>5, FreshIsRecord DEF CopiesAreSpared, Spared
<1>11. ASSUME NEW g \in Gens, MonitorRevokes(g) PROVE CopiesAreSpared'
  BY <1>11, FreshIsRecord
  DEF MonitorRevokes, MonitorRests, MonitorAt, TypeOK, View, CopiesAreSpared, Spared,
      monVars, keepVars, history
<1>12. ASSUME NEW g \in Gens, KeepWakes(g) PROVE CopiesAreSpared'
  BY <1>12, FreshIsRecord
  DEF KeepWakes, KeepRests, KeepAt, TypeOK, View, CopiesAreSpared, Spared, monVars,
      keepVars, history
<1>13. ASSUME NEW g \in Gens, KeepReads(g) PROVE CopiesAreSpared'
  <2>1. UNCHANGED <<mview, slot, rec, provisioned>>
    BY <1>13 DEF KeepReads, monVars, history
  <2>2. \/ slot # NoGen /\ kview' = [kview EXCEPT ![g] = StoredView]
        \/ kview' = [kview EXCEPT ![g] = NoView]
    BY <1>13 DEF KeepReads, KeepRests, Terminal
  <2>3. CASE slot # NoGen /\ kview' = [kview EXCEPT ![g] = StoredView]
    BY <2>1, <2>3 DEF StoredView, TypeOK, View, CopiesAreSpared, Spared
  <2>4. CASE kview' = [kview EXCEPT ![g] = NoView]
    BY <2>1, <2>4, FreshIsRecord DEF TypeOK, View, CopiesAreSpared, Spared
  <2>5. QED BY <2>2, <2>3, <2>4
<1>14. ASSUME NEW g \in Gens, KeepAnswered(g) PROVE CopiesAreSpared'
  BY <1>14, FreshIsRecord
  DEF KeepAnswered, KeepRests, KeepAt, TypeOK, View, CopiesAreSpared, Spared, monVars,
      keepVars, history
<1>15. ASSUME NEW g \in Gens, KeepEnds(g) PROVE CopiesAreSpared'
  BY <1>15, EndKeepsRecord, FreshIsRecord
  DEF KeepEnds, KeepAt, Verdicts, TypeOK, View, CopiesAreSpared, Spared, monVars,
      keepVars, history
<1>16. ASSUME NEW g \in Gens, KeepRecords(g) PROVE CopiesAreSpared'
  <2>1. UNCHANGED <<slot, provisioned>> /\ rec' = IF slot = kview[g].of THEN kview[g].rec ELSE rec
    BY <1>16 DEF KeepRecords, WriteBack
  <2>2. /\ UNCHANGED mview
        /\ \/ kview' = [kview EXCEPT ![g].rec = Fresh]
           \/ kview' = [kview EXCEPT ![g] = NoView]
    BY <1>16 DEF KeepRecords, KeepRests, monVars
  <2>3. mview \in [Gens -> View] /\ kview \in [Gens -> View]
    BY DEF TypeOK
  <2>4. \A h \in Gens : h # g => kview'[h] = kview[h]
    BY <2>2, <2>3
  <2>5. kview'[g].rec = Fresh /\ kview'[g].of \in {kview[g].of, NoGen}
    BY <2>2, <2>3, FreshIsRecord DEF View
  <2>6. QED BY <2>1, <2>2, <2>3, <2>4, <2>5, FreshIsRecord DEF CopiesAreSpared, Spared
<1>17. ASSUME NEW g \in Gens, KeepRevokes(g) PROVE CopiesAreSpared'
  BY <1>17, FreshIsRecord
  DEF KeepRevokes, KeepRests, KeepAt, TypeOK, View, CopiesAreSpared, Spared, monVars,
      keepVars, history
<1>18. ASSUME NEW g \in Gens, Insert(g) PROVE CopiesAreSpared'
  BY <1>18, FreshIsRecord
  DEF Insert, MonitorRests, KeepRests, MonitorAt, KeepAt, TypeOK, View, CopiesAreSpared,
      Spared, monVars, keepVars, history
<1>19. ASSUME NEW g \in Gens, CloseClears(g) PROVE CopiesAreSpared'
  BY <1>19, FreshIsRecord
  DEF CloseClears, TypeOK, View, CopiesAreSpared, Spared, monVars, keepVars, history
<1>20. ASSUME NEW g \in Gens, ServiceForgets(g) PROVE CopiesAreSpared'
  BY <1>20, FreshIsRecord
  DEF ServiceForgets, TypeOK, View, CopiesAreSpared, Spared, monVars, keepVars, history
<1>21. CASE CloseBegins
  BY <1>21, FreshIsRecord
  DEF CloseBegins, TypeOK, View, CopiesAreSpared, Spared, monVars, keepVars, history
<1>22. CASE UNCHANGED vars
  BY <1>22 DEF vars, TypeOK, View, CopiesAreSpared, Spared, monVars, keepVars, history
<1>23. QED
  BY <1>1, <1>2, <1>3, <1>4, <1>5, <1>6, <1>7, <1>8, <1>9, <1>10, <1>11, <1>12, <1>13, <1>14, <1>15, <1>16, <1>17, <1>18, <1>19, <1>20, <1>21, <1>22
  DEF Next, MonitorStep, KeepStep

-----------------------------------------------------------------------------
\* A generation that is not the stored one has lost its token; a monitor that
\* woke to find the record of another generation is dropped before it can
\* apply an answer to it.  So only its own monitor writes what it saw of one.
WritesItsOwn ==
    /\ closing \subseteq dead
    /\ \A g \in Gens : mon[g] # "none" /\ g \notin dead => slot = g
    /\ \A g \in Gens :
          mview[g].of \in {g, NoGen} \/ (g \in dead /\ mon[g] = "polling")

\* A generation seen in playback has a record that says so, unless a keepalive
\* loop has ended it; and so has the copy its monitor will write back.
Remembered(g, r) == g \in played => r.reached \/ g \in ousted

Holding == {"polling", "deciding", "writing", "recording"}

PlaybackKept ==
    /\ \A g \in played : mon[g] # "none"
    /\ Remembered(slot, rec)
    /\ \A g \in Gens :
          mon[g] \in Holding /\ mview[g].of = g => Remembered(g, mview[g].rec)

\* What the type invariant says of the variables these two are about.
LEMMA Basics ==
    ASSUME TypeOK
    PROVE  /\ slot \in Gens \cup {NoGen} /\ NoGen \notin Gens
           /\ dead \subseteq Gens /\ closing \subseteq Gens /\ played \subseteq Gens
           /\ mon \in [Gens -> MonitorStages] /\ mview \in [Gens -> View]
           /\ \A g \in Gens : mview[g].of = NoGen
                 <=> mon[g] \in {"none", "sleeping", "awake", "ended"}
BY MonitorAssumption DEF TypeOK

\* A tick forgets no playback.
LEMMA TickRemembers ==
    ASSUME NEW r \in Records, r.reached, NEW s \in Streams, NEW late \in BOOLEAN
    PROVE  Tick(r, s, late).reached
<1>1. ~Overdue(r, s, late) BY DEF Overdue
<1>2. CASE s = "Provisioned" BY <1>1, <1>2 DEF Tick
<1>3. CASE s # "Provisioned" BY <1>1, <1>3 DEF Tick, Records
<1>4. QED BY <1>2, <1>3

\* A monitor that keeps no copy, or one of its own generation, may move on.
LEMMA OwnerMoves ==
    ASSUME TypeOK, WritesItsOwn, NEW g \in Gens, NEW stage, mon[g] # "none",
           mon' = [mon EXCEPT ![g] = stage], UNCHANGED <<slot, dead, closing>>,
           \A h \in Gens : h # g => mview'[h] = mview[h],
           mview'[g].of \in {g, NoGen}
    PROVE  WritesItsOwn'
<1>1. mon \in [Gens -> MonitorStages] BY Basics
<1>2. \A h \in Gens : h # g => mon'[h] = mon[h] BY <1>1
<1>3. closing' \subseteq dead' BY DEF WritesItsOwn
<1>4. \A h \in Gens : mon'[h] # "none" /\ h \notin dead' => slot' = h
  BY <1>2 DEF WritesItsOwn
<1>5. \A h \in Gens : mview'[h].of \in {h, NoGen} \/ (h \in dead' /\ mon'[h] = "polling")
  BY <1>2 DEF WritesItsOwn
<1>6. QED BY <1>3, <1>4, <1>5 DEF WritesItsOwn

\* A step keeps every other generation's loops from writing.
LEMMA OwnerStep ==
    ASSUME TypeOK, WritesItsOwn, [Next]_vars PROVE WritesItsOwn'
<1>1. ASSUME NEW g \in Gens, MonitorWakes(g) PROVE WritesItsOwn'
  BY <1>1, FreshIsRecord, Basics
  DEF MonitorWakes, MonitorRests, MonitorAt,
      WritesItsOwn, View, keepVars, monVars, history
<1>2. ASSUME NEW g \in Gens, MonitorReads(g) PROVE WritesItsOwn'
  <2>1. CASE slot = NoGen
    BY <1>2, <2>1, FreshIsRecord, Basics
    DEF MonitorReads, MonitorRests, MonitorAt, WritesItsOwn, View, keepVars
  <2>2. CASE slot # NoGen
    <3>1. /\ mview' = [mview EXCEPT ![g] = StoredView] /\ mon' = [mon EXCEPT ![g] = "polling"]
          /\ UNCHANGED <<slot, dead, closing>> /\ mon[g] = "awake"
      BY <1>2, <2>2 DEF MonitorReads, MonitorAt
    <3>2. slot = g \/ g \in dead
      BY <3>1 DEF WritesItsOwn
    <3>3. StoredView.of = slot
      BY DEF StoredView
    <3>4. \A h \in Gens : h # g => mview'[h] = mview[h] /\ mon'[h] = mon[h]
      BY <3>1, Basics
    <3>5. mview'[g].of = slot /\ mon'[g] = "polling"
      BY <3>1, <3>3, Basics
    <3>6. QED BY <3>1, <3>2, <3>4, <3>5 DEF WritesItsOwn
  <2>3. QED BY <2>1, <2>2
<1>3. ASSUME NEW g \in Gens, MonitorAnswered(g) PROVE WritesItsOwn'
  <2>1. /\ mon[g] = "polling" /\ g \notin dead
        /\ mon' = [mon EXCEPT ![g] = "deciding"] /\ UNCHANGED <<slot, dead, closing>>
    BY <1>3 DEF MonitorAnswered, MonitorAt
  <2>2. DOMAIN mview[g] = {"of", "rec"}
    BY Basics DEF View
  <2>3. mview'[g].of = mview[g].of /\ \A h \in Gens : h # g => mview'[h] = mview[h]
    BY <1>3, <2>2, Basics DEF MonitorAnswered, View
  <2>4. mview[g].of = g
    BY <2>1, Basics DEF WritesItsOwn
  <2>5. QED BY <2>1, <2>3, <2>4, OwnerMoves
<1>4. ASSUME NEW g \in Gens, MonitorUnanswered(g) PROVE WritesItsOwn'
  <2>1. /\ mon[g] # "none" /\ mon' = [mon EXCEPT ![g] = "sleeping"]
        /\ UNCHANGED <<slot, dead, closing>>
        /\ mview' = [mview EXCEPT ![g] = NoView]
    BY <1>4 DEF MonitorUnanswered, MonitorRests, MonitorAt, MonitorAwaits
  <2>2. mview'[g] = NoView /\ \A h \in Gens : h # g => mview'[h] = mview[h]
    BY <2>1, Basics
  <2>3. QED BY <2>1, <2>2, FreshIsRecord, OwnerMoves
<1>5. ASSUME NEW g \in Gens, MonitorEnds(g) PROVE WritesItsOwn'
  <2>1. /\ mon[g] = "polling" /\ g \notin dead
        /\ mon' = [mon EXCEPT ![g] = "recording"] /\ UNCHANGED <<slot, dead, closing>>
    BY <1>5 DEF MonitorEnds, MonitorAt
  <2>2. DOMAIN mview[g] = {"of", "rec"}
    BY Basics DEF View
  <2>3. mview'[g].of = mview[g].of /\ \A h \in Gens : h # g => mview'[h] = mview[h]
    BY <1>5, <2>2, Basics DEF MonitorEnds, View
  <2>4. mview[g].of = g
    BY <2>1, Basics DEF WritesItsOwn
  <2>5. QED BY <2>1, <2>3, <2>4, OwnerMoves
<1>6. ASSUME NEW g \in Gens, MonitorDropped(g) PROVE WritesItsOwn'
  <2>1. /\ mon[g] # "none" /\ mon' = [mon EXCEPT ![g] = "ended"]
        /\ UNCHANGED <<slot, dead, closing>>
        /\ mview' = [mview EXCEPT ![g] = NoView]
    BY <1>6 DEF MonitorDropped, MonitorRests, MonitorAt, MonitorAwaits
  <2>2. mview'[g] = NoView /\ \A h \in Gens : h # g => mview'[h] = mview[h]
    BY <2>1, Basics
  <2>3. QED BY <2>1, <2>2, FreshIsRecord, OwnerMoves
<1>7. ASSUME NEW g \in Gens, MonitorChecks(g) PROVE WritesItsOwn'
  BY <1>7, FreshIsRecord, Basics
  DEF MonitorChecks, MonitorRests, MonitorGoesOn, MonitorAt,
      WritesItsOwn, View, keepVars, monVars, history
<1>8. ASSUME NEW g \in Gens, MonitorWrites(g) PROVE WritesItsOwn'
  <2>1. mon[g] # "none" /\ UNCHANGED <<slot, dead, closing>> /\ mview[g].of = g
    BY <1>8, Basics DEF MonitorWrites, WriteBack, WritesItsOwn
  <2>2. \E stage \in MonitorStages :
           /\ mon' = [mon EXCEPT ![g] = stage]
           /\ \/ mview' = [mview EXCEPT ![g].rec = Fresh]
              \/ mview' = [mview EXCEPT ![g] = NoView]
    BY <1>8 DEF MonitorWrites, MonitorRests, MonitorGoesOn, MonitorAt, MonitorStages
  <2>3. /\ \A h \in Gens : h # g => mview'[h] = mview[h]
        /\ mview'[g].of \in {g, NoGen}
    BY <2>1, <2>2, FreshIsRecord, Basics DEF View
  <2>4. QED BY <2>1, <2>2, <2>3, OwnerMoves
<1>9. ASSUME NEW g \in Gens, MonitorSent(g) PROVE WritesItsOwn'
  BY <1>9, FreshIsRecord, Basics
  DEF MonitorSent, MonitorRests, MonitorAt,
      WritesItsOwn, View, keepVars, monVars, history
<1>10. ASSUME NEW g \in Gens, MonitorRecords(g) PROVE WritesItsOwn'
  <2>1. mon[g] # "none" /\ UNCHANGED <<slot, dead, closing>> /\ mview[g].of = g
    BY <1>10, Basics DEF MonitorRecords, WriteBack, WritesItsOwn
  <2>2. \/ mview' = [mview EXCEPT ![g].rec = Fresh] /\ mon' = [mon EXCEPT ![g] = "revoking"]
        \/ mview' = [mview EXCEPT ![g] = NoView] /\ mon' = [mon EXCEPT ![g] = "ended"]
    BY <1>10 DEF MonitorRecords, MonitorRests, MonitorGoesOn, MonitorAt
  <2>3. /\ \A h \in Gens : h # g => mview'[h] = mview[h]
        /\ mview'[g].of \in {g, NoGen}
    BY <2>1, <2>2, FreshIsRecord, Basics DEF View
  <2>4. QED BY <2>1, <2>2, <2>3, OwnerMoves
<1>11. ASSUME NEW g \in Gens, MonitorRevokes(g) PROVE WritesItsOwn'
  BY <1>11, FreshIsRecord, Basics
  DEF MonitorRevokes, MonitorRests, MonitorAt,
      WritesItsOwn, View, keepVars, monVars, history
<1>12. ASSUME NEW g \in Gens, KeepWakes(g) PROVE WritesItsOwn'
  BY <1>12, FreshIsRecord, Basics
  DEF KeepWakes,
      WritesItsOwn, View, keepVars, monVars, history
<1>13. ASSUME NEW g \in Gens, KeepReads(g) PROVE WritesItsOwn'
  BY <1>13 DEF KeepReads, WritesItsOwn, monVars
<1>14. ASSUME NEW g \in Gens, KeepAnswered(g) PROVE WritesItsOwn'
  BY <1>14, FreshIsRecord, Basics
  DEF KeepAnswered,
      WritesItsOwn, View, keepVars, monVars, history
<1>15. ASSUME NEW g \in Gens, KeepEnds(g) PROVE WritesItsOwn'
  BY <1>15 DEF KeepEnds, WritesItsOwn, View, keepVars, monVars, history
<1>16. ASSUME NEW g \in Gens, KeepRecords(g) PROVE WritesItsOwn'
  BY <1>16, FreshIsRecord, Basics
  DEF KeepRecords, WriteBack,
      WritesItsOwn, View, keepVars, monVars, history
<1>17. ASSUME NEW g \in Gens, KeepRevokes(g) PROVE WritesItsOwn'
  BY <1>17, FreshIsRecord, Basics
  DEF KeepRevokes,
      WritesItsOwn, View, keepVars, monVars, history
<1>18. ASSUME NEW g \in Gens, Insert(g) PROVE WritesItsOwn'
  BY <1>18, FreshIsRecord, Basics
  DEF Insert, MonitorRests, MonitorAt,
      WritesItsOwn, View, keepVars, monVars, history
<1>19. ASSUME NEW g \in Gens, CloseClears(g) PROVE WritesItsOwn'
  BY <1>19, FreshIsRecord, Basics
  DEF CloseClears,
      WritesItsOwn, View, keepVars, monVars, history
<1>20. ASSUME NEW g \in Gens, ServiceForgets(g) PROVE WritesItsOwn'
  BY <1>20, FreshIsRecord, Basics
  DEF ServiceForgets,
      WritesItsOwn, View, keepVars, monVars, history
<1>21. CASE CloseBegins
  BY <1>21, Basics DEF CloseBegins, WritesItsOwn, View, keepVars, monVars, history
<1>22. CASE UNCHANGED vars
  BY <1>22 DEF vars, WritesItsOwn, View, keepVars, monVars, history
<1>23. QED
  BY <1>1, <1>2, <1>3, <1>4, <1>5, <1>6, <1>7, <1>8, <1>9, <1>10, <1>11, <1>12, <1>13, <1>14, <1>15, <1>16, <1>17, <1>18, <1>19, <1>20, <1>21, <1>22
  DEF Next, MonitorStep, KeepStep

\* A step keeps playback remembered where only its own monitor writes.
LEMMA KeptStep ==
    ASSUME TypeOK, WritesItsOwn, PlaybackKept, [Next]_vars PROVE PlaybackKept'
<1>1. ASSUME NEW g \in Gens, MonitorWakes(g) PROVE PlaybackKept'
  BY <1>1, FreshIsRecord, Basics
  DEF MonitorWakes, MonitorRests, MonitorAt,
      PlaybackKept, Remembered, Holding, View, keepVars, monVars, history
<1>2. ASSUME NEW g \in Gens, MonitorReads(g) PROVE PlaybackKept'
  <2>1. CASE slot = NoGen
    BY <1>2, <2>1, FreshIsRecord, Basics
    DEF MonitorReads, MonitorRests, MonitorAt,
        PlaybackKept, Remembered, Holding, View, keepVars, history
  <2>2. CASE slot # NoGen
    <3>1. /\ mview' = [mview EXCEPT ![g] = StoredView] /\ mon' = [mon EXCEPT ![g] = "polling"]
          /\ UNCHANGED <<slot, rec, played, ousted>>
      BY <1>2, <2>2 DEF MonitorReads, MonitorAt, history
    <3>2. StoredView.of = slot /\ StoredView.rec = rec
      BY DEF StoredView
    <3>3. QED BY <3>1, <3>2, Basics DEF PlaybackKept, Remembered, Holding
  <2>3. QED BY <2>1, <2>2
<1>3. ASSUME NEW g \in Gens, MonitorAnswered(g) PROVE PlaybackKept'
  <2>1. PICK s \in Streams, late \in BOOLEAN :
           mview' = [mview EXCEPT ![g].rec = Tick(mview[g].rec, s, late)]
    BY <1>3 DEF MonitorAnswered
  <2>2. /\ mon[g] = "polling" /\ mon' = [mon EXCEPT ![g] = "deciding"]
        /\ UNCHANGED <<slot, rec, played, ousted>>
    BY <1>3 DEF MonitorAnswered, MonitorAt
  <2>3. mview[g].rec \in Records
    BY Basics DEF View
  <2>4. mview[g].rec.reached => Tick(mview[g].rec, s, late).reached
    BY <2>3, TickRemembers
  <2>5. /\ mview'[g].of = mview[g].of
        /\ mview'[g].rec = Tick(mview[g].rec, s, late)
        /\ \A h \in Gens : h # g => mview'[h] = mview[h] /\ mon'[h] = mon[h]
        /\ mon'[g] = "deciding"
    BY <2>1, <2>2, Basics DEF View
  <2>6. QED BY <2>2, <2>4, <2>5 DEF PlaybackKept, Remembered, Holding
<1>4. ASSUME NEW g \in Gens, MonitorUnanswered(g) PROVE PlaybackKept'
  BY <1>4, FreshIsRecord, Basics
  DEF MonitorUnanswered, MonitorRests, MonitorAt, MonitorAwaits,
      PlaybackKept, Remembered, Holding, View, keepVars, monVars, history
<1>5. ASSUME NEW g \in Gens, MonitorEnds(g) PROVE PlaybackKept'
  <2>1. PICK how \in Verdicts(mview[g].of) :
           mview' = [mview EXCEPT ![g].rec = EndedBy(mview[g].rec, how)]
    BY <1>5 DEF MonitorEnds
  <2>2. /\ mon[g] = "polling" /\ mon' = [mon EXCEPT ![g] = "recording"]
        /\ UNCHANGED <<slot, rec, played, ousted>>
    BY <1>5 DEF MonitorEnds, MonitorAt, history
  <2>3. mview[g].rec \in Records /\ how \in {"failed", "closed"}
    BY Basics DEF View, Verdicts
  <2>4. EndedBy(mview[g].rec, how).reached = mview[g].rec.reached
    BY <2>3, EndKeepsRecord
  <2>5. /\ mview'[g].of = mview[g].of
        /\ mview'[g].rec = EndedBy(mview[g].rec, how)
        /\ \A h \in Gens : h # g => mview'[h] = mview[h] /\ mon'[h] = mon[h]
        /\ mon'[g] = "recording"
    BY <2>1, <2>2, Basics DEF View
  <2>6. QED BY <2>2, <2>4, <2>5 DEF PlaybackKept, Remembered, Holding
<1>6. ASSUME NEW g \in Gens, MonitorDropped(g) PROVE PlaybackKept'
  BY <1>6, FreshIsRecord, Basics
  DEF MonitorDropped, MonitorRests, MonitorAt, MonitorAwaits,
      PlaybackKept, Remembered, Holding, View, keepVars, monVars, history
<1>7. ASSUME NEW g \in Gens, MonitorChecks(g) PROVE PlaybackKept'
  BY <1>7, FreshIsRecord, Basics
  DEF MonitorChecks, MonitorRests, MonitorGoesOn, MonitorAt,
      PlaybackKept, Remembered, Holding, View, keepVars, monVars, history
<1>8. ASSUME NEW g \in Gens, MonitorWrites(g) PROVE PlaybackKept'
  <2>1. mview[g].of = g
    BY <1>8, Basics DEF WritesItsOwn, MonitorWrites
  <2>2. /\ rec' = IF slot = g THEN mview[g].rec ELSE rec
        /\ played' = IF slot = g /\ mview[g].rec.reached THEN played \cup {g} ELSE played
        /\ UNCHANGED <<slot, ousted>>
    BY <1>8, <2>1 DEF MonitorWrites, WriteBack
  <2>3. /\ mon[g] = "writing" /\ mon'[g] \in {"ended", "sleeping", "revoking", "sending"}
        /\ \A h \in Gens : h # g => mview'[h] = mview[h] /\ mon'[h] = mon[h]
    BY <1>8, Basics DEF MonitorWrites, MonitorRests, MonitorGoesOn, MonitorAt
  <2>4. \A h \in played' : mon'[h] # "none"
    BY <2>2, <2>3, Basics DEF PlaybackKept
  <2>5. Remembered(slot, rec)'
    BY <1>8, <2>1, <2>2, <2>3, Basics DEF PlaybackKept, Remembered, Holding
  <2>6. ASSUME NEW h \in Gens, mon'[h] \in Holding, mview'[h].of = h
        PROVE  Remembered(h, mview[h].rec)'
    <3>1. h # g /\ Remembered(h, mview[h].rec)
      BY <2>3, <2>6 DEF PlaybackKept, Holding
    <3>2. QED BY <2>2, <2>3, <3>1 DEF Remembered
  <2>7. QED BY <2>4, <2>5, <2>6 DEF PlaybackKept, Remembered
<1>9. ASSUME NEW g \in Gens, MonitorSent(g) PROVE PlaybackKept'
  BY <1>9, FreshIsRecord, Basics
  DEF MonitorSent, MonitorRests, MonitorAt,
      PlaybackKept, Remembered, Holding, View, keepVars, monVars, history
<1>10. ASSUME NEW g \in Gens, MonitorRecords(g) PROVE PlaybackKept'
  <2>1. mview[g].of = g
    BY <1>10, Basics DEF WritesItsOwn, MonitorRecords
  <2>2. /\ rec' = IF slot = g THEN mview[g].rec ELSE rec
        /\ UNCHANGED <<slot, played, ousted>>
    BY <1>10, <2>1 DEF MonitorRecords, WriteBack, history
  <2>3. /\ mon[g] = "recording" /\ mon'[g] \in {"ended", "revoking"}
        /\ \A h \in Gens : h # g => mview'[h] = mview[h] /\ mon'[h] = mon[h]
    BY <1>10, Basics DEF MonitorRecords, MonitorRests, MonitorGoesOn, MonitorAt
  <2>4. \A h \in played' : mon'[h] # "none"
    BY <2>2, <2>3, Basics DEF PlaybackKept
  <2>5. Remembered(slot, rec)'
    BY <2>1, <2>2, <2>3 DEF PlaybackKept, Remembered, Holding
  <2>6. ASSUME NEW h \in Gens, mon'[h] \in Holding, mview'[h].of = h
        PROVE  Remembered(h, mview[h].rec)'
    <3>1. h # g /\ Remembered(h, mview[h].rec)
      BY <2>3, <2>6 DEF PlaybackKept, Holding
    <3>2. QED BY <2>2, <2>3, <3>1 DEF Remembered
  <2>7. QED BY <2>4, <2>5, <2>6 DEF PlaybackKept, Remembered
<1>11. ASSUME NEW g \in Gens, MonitorRevokes(g) PROVE PlaybackKept'
  BY <1>11, FreshIsRecord, Basics
  DEF MonitorRevokes, MonitorRests, MonitorAt,
      PlaybackKept, Remembered, Holding, View, keepVars, monVars, history
<1>12. ASSUME NEW g \in Gens, KeepWakes(g) PROVE PlaybackKept'
  BY <1>12, FreshIsRecord, Basics
  DEF KeepWakes,
      PlaybackKept, Remembered, Holding, View, keepVars, monVars, history
<1>13. ASSUME NEW g \in Gens, KeepReads(g) PROVE PlaybackKept'
  <2>1. UNCHANGED <<slot, rec, mon, mview, played, ousted>>
    BY <1>13 DEF KeepReads, monVars, history
  <2>2. QED BY <2>1 DEF PlaybackKept, Remembered, Holding
<1>14. ASSUME NEW g \in Gens, KeepAnswered(g) PROVE PlaybackKept'
  BY <1>14, FreshIsRecord, Basics
  DEF KeepAnswered,
      PlaybackKept, Remembered, Holding, View, keepVars, monVars, history
<1>15. ASSUME NEW g \in Gens, KeepEnds(g) PROVE PlaybackKept'
  BY <1>15 DEF KeepEnds, PlaybackKept, Remembered, Holding, View, keepVars, monVars, history
<1>16. ASSUME NEW g \in Gens, KeepRecords(g) PROVE PlaybackKept'
  <2>1. /\ rec' = IF slot = kview[g].of THEN kview[g].rec ELSE rec
        /\ ousted' = IF slot = kview[g].of THEN ousted \cup {slot} ELSE ousted
        /\ UNCHANGED <<slot, played, mon, mview>>
    BY <1>16 DEF KeepRecords, WriteBack, monVars
  <2>2. QED BY <2>1 DEF PlaybackKept, Remembered, Holding
<1>17. ASSUME NEW g \in Gens, KeepRevokes(g) PROVE PlaybackKept'
  BY <1>17, FreshIsRecord, Basics
  DEF KeepRevokes,
      PlaybackKept, Remembered, Holding, View, keepVars, monVars, history
<1>18. ASSUME NEW g \in Gens, Insert(g) PROVE PlaybackKept'
  BY <1>18, FreshIsRecord, Basics
  DEF Insert, MonitorRests, MonitorAt,
      PlaybackKept, Remembered, Holding, View, keepVars, monVars, history
<1>19. ASSUME NEW g \in Gens, CloseClears(g) PROVE PlaybackKept'
  BY <1>19, FreshIsRecord, Basics
  DEF CloseClears,
      PlaybackKept, Remembered, Holding, View, keepVars, monVars, history
<1>20. ASSUME NEW g \in Gens, ServiceForgets(g) PROVE PlaybackKept'
  BY <1>20, FreshIsRecord, Basics
  DEF ServiceForgets,
      PlaybackKept, Remembered, Holding, View, keepVars, monVars, history
<1>21. CASE CloseBegins
  BY <1>21, Basics DEF CloseBegins, PlaybackKept, Remembered, Holding, View, keepVars, monVars, history
<1>22. CASE UNCHANGED vars
  BY <1>22 DEF vars, PlaybackKept, Remembered, Holding, View, keepVars, monVars, history
<1>23. QED
  BY <1>1, <1>2, <1>3, <1>4, <1>5, <1>6, <1>7, <1>8, <1>9, <1>10, <1>11, <1>12, <1>13, <1>14, <1>15, <1>16, <1>17, <1>18, <1>19, <1>20, <1>21, <1>22
  DEF Next, MonitorStep, KeepStep

-----------------------------------------------------------------------------
\* Every variable keeps its type, and a loop at rest holds no copy.
THEOREM TypeCorrect == Spec => []TypeOK
<1>1. Init => TypeOK
  BY FreshIsRecord, MonitorAssumption
  DEF Init, TypeOK, View, MonitorStages, KeepStages
<1>2. TypeOK /\ [Next]_vars => TypeOK'
  BY TypeStep
<1>3. QED BY <1>1, <1>2, PTL DEF Spec

\* A record that says playback was reached tells of its own generation: the
\* loops of a replaced session of the same id (scheduler.rs) never leave what
\* they saw in the record of its successor.
THEOREM FactsStayOwn == Spec => []FactsAreOwn
<1>1. Init => CopiesAreOwn
  BY FreshIsRecord DEF Init, CopiesAreOwn, FactsAreOwn, OwnFacts
<1>2. TypeOK /\ CopiesAreOwn /\ [Next]_vars => CopiesAreOwn'
  BY OwnStep
<1>3. CopiesAreOwn => FactsAreOwn
  BY DEF CopiesAreOwn
<1>4. QED BY <1>1, <1>2, <1>3, TypeCorrect, PTL DEF Spec

\* No session whose record ever told of playback is failed by the start-up
\* timeout (monitor.rs:118-126), unless a keepalive loop had ended it, from a
\* copy that may be older than its playback.
THEOREM PlaybackOutlivesTimeout == Spec => []StartTimeoutSparesPlayback
<1>1. Init => CopiesAreSpared
  BY FreshIsRecord DEF Init, CopiesAreSpared, Spared
<1>2. TypeOK /\ CopiesAreSpared /\ [Next]_vars => CopiesAreSpared'
  BY SparedStep
<1>3. Init => WritesItsOwn /\ PlaybackKept
  <2>1. Init => WritesItsOwn BY FreshIsRecord DEF Init, WritesItsOwn
  <2>2. Init => PlaybackKept BY FreshIsRecord DEF Init, PlaybackKept, Remembered
  <2>3. QED BY <2>1, <2>2
<1>4. TypeOK /\ WritesItsOwn /\ [Next]_vars => WritesItsOwn'
  BY OwnerStep
<1>5. TypeOK /\ WritesItsOwn /\ PlaybackKept /\ [Next]_vars => PlaybackKept'
  BY KeptStep
<1>6. CopiesAreSpared /\ PlaybackKept => StartTimeoutSparesPlayback
  BY DEF CopiesAreSpared, Spared, PlaybackKept, Remembered, StartTimeoutSparesPlayback
<1>7. QED BY <1>1, <1>2, <1>3, <1>4, <1>5, <1>6, TypeCorrect, PTL DEF Spec

\* A removed record never comes back: only a new generation fills the slot.
THEOREM NeverReturns == Spec => NeverResurrected
<1> DEFINE Fills == slot' # slot /\ slot' # NoGen => mon[slot'] = "none"
<1>1. ASSUME TypeOK, [Next]_vars PROVE Fills
  <2>1. ASSUME NEW g \in Gens, MonitorStep(g) PROVE slot' = slot
    BY <2>1 DEF MonitorStep, MonitorWakes, MonitorReads, MonitorAnswered, MonitorUnanswered,
       MonitorEnds, MonitorDropped, MonitorChecks, MonitorWrites, MonitorSent,
       MonitorRecords, MonitorRevokes, WriteBack
  <2>2. ASSUME NEW g \in Gens, KeepStep(g) PROVE slot' = slot
    BY <2>2 DEF KeepStep, KeepWakes, KeepReads, KeepAnswered, KeepEnds, KeepRecords,
       KeepRevokes, WriteBack
  <2>3. ASSUME NEW g \in Gens, Insert(g) PROVE slot' = g /\ mon[g] = "none"
    BY <2>3 DEF Insert
  <2>4. ASSUME NEW g \in Gens, CloseClears(g) PROVE slot' \in {slot, NoGen}
    BY <2>4 DEF CloseClears
  <2>5. ASSUME NEW g \in Gens, ServiceForgets(g) PROVE slot' = slot
    BY <2>5 DEF ServiceForgets
  <2>6. CloseBegins \/ UNCHANGED vars => slot' = slot
    BY DEF CloseBegins, vars
  <2>7. QED BY <1>1, <2>1, <2>2, <2>3, <2>4, <2>5, <2>6 DEF Next
<1>2. TypeOK /\ [Next]_vars => [Fills]_vars
  BY <1>1
<1>3. QED BY <1>2, TypeCorrect, PTL DEF Spec, NeverResurrected
=============================================================================
