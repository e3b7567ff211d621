---------------------------- MODULE RuntimeTrace ----------------------------
(***************************************************************************)
(* The recorder of runtime traces: publishers filter and encode rows under *)
(* the lock of the profile, one writer thread owns the file, and a bounded *)
(* queue lies between them.  A row that is lost on the way to the writer's *)
(* buffer is counted, and the counts are told of in a notice of the        *)
(* writer; a closing flush that fails loses what the buffer still holds.   *)
(* A row weighs one unit of the budgets whatever its bytes, a notice in    *)
(* the buffer as many as the losses it tells of.                           *)
(***************************************************************************)
EXTENDS Integers, Sequences, FiniteSets

CONSTANTS QueueMax,     \* rows the queue admits, and for each rank below the top one less
          FileMax,      \* rows one file admits
          MaxRows,      \* rows offered (bound)
          MaxConfigs    \* configurations asked for (bound)

ASSUME TraceAssumption ==
    QueueMax \in Nat /\ FileMax \in Nat \ {0} /\ MaxRows \in Nat /\ MaxConfigs \in Nat \ {0}

VARIABLES publisher,    \* RuntimeTraceRecorder.inner
          setting,      \* open_trace_output under way: its step and what it replaced
          queue,        \* the channel: rows and configurations
          usage,        \* QueueBudget: rows reserved until the writer is done with them
          drops,        \* DropCounters: rows lost, by rank
          writer,       \* TraceWriter: its step, the counts it took, its configuration and file
          offered,      \* rows that passed the filter
          buffered,     \* BufWriter: rows, and losses in notices, not yet in the file
          filed         \* those in files

traceVars == <<publisher, setting, queue, usage, drops, writer, offered, buffered, filed>>

Ranks == 0 .. 2         \* essential, key, debug and raw
NoDrops == [r \in Ranks |-> 0]
Total(counts) == counts[0] + counts[1] + counts[2]
Plus(a, b) == [r \in Ranks |-> a[r] + b[r]]
Note(r) == [drops EXCEPT ![r] = @ + 1]

Configuration(profile, generation, id) == [profile |-> profile, gen |-> generation, id |-> id]

\* The recorder exists once its first configuration was applied.
TraceInit ==
    /\ \E profile \in {"off", "production", "dev"} :
          /\ publisher = Configuration(profile, 1, 1)
          /\ writer = [at |-> "idle", taken |-> NoDrops, config |-> Configuration(profile, 1, 1),
                       open |-> profile # "off", size |-> 0]
          /\ setting = [at |-> "idle", previous |-> publisher, id |-> 1]
    /\ queue = <<>> /\ usage = 0 /\ drops = NoDrops
    /\ offered = 0 /\ buffered = 0 /\ filed = 0

----------------------------------------------------------------------------
(* Publishers.                                                             *)

\* Dimensions and sampling may hold back any row but an essential one: such a row is not offered.
ShouldRecord(profile, r) == profile # "off" /\ (profile = "production" => r <= 1)

CanReserve(r) == usage < QueueMax - r

Record(r) ==
    /\ offered < MaxRows /\ ShouldRecord(publisher.profile, r)
    /\ offered' = offered + 1
    /\ \/ /\ CanReserve(r) /\ usage' = usage + 1
          /\ queue' = Append(queue, [kind |-> "row", rank |-> r, config |-> publisher])
          /\ UNCHANGED drops
       \/ /\ drops' = Note(r)    \* the queue is full, or the row is too long to encode
          /\ UNCHANGED <<queue, usage>>
    /\ UNCHANGED <<publisher, setting, writer, buffered, filed>>

\* Mutant: the new configuration keeps the generation.
OpenOutputSameGeneration(profile) ==
    /\ setting.at = "idle" /\ setting.id < MaxConfigs /\ (profile # publisher.profile \/ profile = "dev")
    /\ LET next == Configuration(profile, publisher.gen, setting.id + 1)
       IN /\ queue' = Append(queue, [kind |-> "configure", rank |-> 0, config |-> next])
          /\ publisher' = next
    /\ setting' = [at |-> "waiting", previous |-> publisher, id |-> setting.id + 1]
    /\ UNCHANGED <<usage, drops, writer, offered, buffered, filed>>

\* A changed profile, or other dimensions of dev, is published together with the request to
\* the writer.
OpenOutput(profile) ==
    /\ setting.at = "idle" /\ setting.id < MaxConfigs /\ (profile # publisher.profile \/ profile = "dev")
    /\ LET next == Configuration(profile, publisher.gen + 1, setting.id + 1)
       IN /\ queue' = Append(queue, [kind |-> "configure", rank |-> 0, config |-> next])
          /\ publisher' = next
    /\ setting' = [at |-> "waiting", previous |-> publisher, id |-> setting.id + 1]
    /\ UNCHANGED <<usage, drops, writer, offered, buffered, filed>>

\* A refused configuration is taken back, its generation with it.
OutputReturns ==
    /\ setting.at \in {"applied", "refused"}
    /\ publisher' = IF setting.at = "refused" THEN setting.previous ELSE publisher
    /\ setting' = [setting EXCEPT !.at = "idle"]
    /\ UNCHANGED <<queue, usage, drops, writer, offered, buffered, filed>>

----------------------------------------------------------------------------
(* The writer.  Every write may fail.                                      *)

Full == writer.size = FileMax

\* The file after one more row: a full one is written out and replaced first.
Written == [writer EXCEPT !.size = IF Full THEN 1 ELSE @ + 1]
Put(units) ==
    /\ buffered' = units + (IF Full THEN 0 ELSE buffered)
    /\ filed' = filed + (IF Full THEN buffered ELSE 0)

\* The row at hand is of the writer's configuration, and there is a file.
Current == writer.open /\ writer.config.gen = Head(queue).config.gen

\* append fails, before it counts the row's bytes or after.  What the buffer held stays there.
Unwritten == writer' = writer /\ UNCHANGED <<buffered, filed>>
PartlyWritten == writer' = Written /\ Put(0)

\* A flush every FLUSH_INTERVAL, a buffer that is full, or what a flush got out before it failed.
WriteOut ==
    /\ writer.open
    /\ \E units \in 1 .. buffered : buffered' = buffered - units /\ filed' = filed + units
    /\ UNCHANGED <<publisher, setting, queue, usage, drops, writer, offered>>

\* Mutant: a row that is handled keeps its share of the budget.
HandleRowKeepsUsage ==
    /\ writer.at = "idle" /\ queue # <<>> /\ Head(queue).kind = "row"
    /\ queue' = Tail(queue) /\ usage' = usage
    /\ \/ /\ Current /\ writer' = Written /\ Put(1) /\ UNCHANGED drops
       \/ /\ drops' = Note(Head(queue).rank)
          /\ Unwritten \/ (Current /\ PartlyWritten)
    /\ UNCHANGED <<publisher, setting, offered>>

HandleRow ==
    /\ writer.at = "idle" /\ queue # <<>> /\ Head(queue).kind = "row"
    /\ queue' = Tail(queue) /\ usage' = usage - 1
    /\ \/ /\ Current /\ writer' = Written /\ Put(1) /\ UNCHANGED drops
       \/ /\ drops' = Note(Head(queue).rank)    \* stale, too long, or not written
          /\ Unwritten \/ (Current /\ PartlyWritten)
    /\ UNCHANGED <<publisher, setting, offered>>

\* emit_notice takes the counts first; publishers go on counting meanwhile.
EmitNotice(stage) ==
    /\ writer' = [writer EXCEPT !.at = stage, !.taken = drops]
    /\ drops' = NoDrops

NoticeDue == writer.open /\ Total(drops) > 0

TakeDrops ==
    /\ writer.at = "idle" /\ NoticeDue /\ EmitNotice("notice")
    /\ UNCHANGED <<publisher, setting, queue, usage, offered, buffered, filed>>

\* The notice of a configuration is written to the file of the one before.
BeginConfigure ==
    /\ writer.at = "idle" /\ queue # <<>> /\ Head(queue).kind = "configure"
    /\ IF NoticeDue THEN EmitNotice("noticeFirst")
       ELSE writer' = [writer EXCEPT !.at = "configure"] /\ UNCHANGED drops
    /\ UNCHANGED <<publisher, setting, queue, usage, offered, buffered, filed>>

\* Mutant: the restored counts replace those counted meanwhile.
AppendNoticeOverwrites ==
    /\ writer.at \in {"notice", "noticeFirst"}
    /\ LET Resumed(file) == [file EXCEPT !.taken = NoDrops,
                                        !.at = IF @ = "notice" THEN "idle" ELSE "configure"]
       IN \/ /\ writer' = Resumed(Written) /\ Put(Total(writer.taken)) /\ UNCHANGED drops
          \/ /\ drops' = writer.taken
             /\ \/ writer' = Resumed(writer) /\ UNCHANGED <<buffered, filed>>
                \/ writer' = Resumed(Written) /\ Put(0)
    /\ UNCHANGED <<publisher, setting, queue, usage, offered>>

AppendNotice ==
    /\ writer.at \in {"notice", "noticeFirst"}
    /\ LET Resumed(file) == [file EXCEPT !.taken = NoDrops,
                                        !.at = IF @ = "notice" THEN "idle" ELSE "configure"]
       IN \/ /\ writer' = Resumed(Written) /\ Put(Total(writer.taken)) /\ UNCHANGED drops
          \/ /\ drops' = Plus(drops, writer.taken)    \* restore
             /\ \/ writer' = Resumed(writer) /\ UNCHANGED <<buffered, filed>>
                \/ writer' = Resumed(Written) /\ Put(0)
    /\ UNCHANGED <<publisher, setting, queue, usage, offered>>

\* Another file is opened once the old one is written out, and the old one is kept when that or
\* the opening fails.  Turned off, the file goes also when the flush fails: what then is still in
\* the buffer is lost, and nothing counts it.
HandleConfigure ==
    /\ writer.at = "configure"
    /\ queue' = Tail(queue)
    /\ LET next == Head(queue).config
       IN \/ /\ writer' = [writer EXCEPT !.at = "idle", !.config = next, !.size = 0,
                                         !.open = next.profile # "off"]
             /\ setting' = [setting EXCEPT !.at = "applied"]
             /\ buffered' = 0
             /\ \E units \in 0 .. buffered :
                   /\ next.profile # "off" => units = buffered
                   /\ filed' = filed + units
          \/ /\ next.profile # "off" /\ writer' = [writer EXCEPT !.at = "idle"]
             /\ setting' = [setting EXCEPT !.at = "refused"]
             /\ UNCHANGED <<buffered, filed>>
    /\ UNCHANGED <<publisher, usage, drops, offered>>

TraceNext ==
    \/ \E r \in Ranks : Record(r)
    \/ \E profile \in {"off", "production", "dev"} : OpenOutput(profile)
    \/ OutputReturns \/ HandleRow \/ WriteOut \/ TakeDrops \/ BeginConfigure \/ AppendNotice \/ HandleConfigure

TraceSpec == TraceInit /\ [][TraceNext]_traceVars

----------------------------------------------------------------------------
TraceTypeOK ==
    /\ publisher.gen \in 1 .. MaxConfigs /\ publisher.id \in 1 .. MaxConfigs
    /\ setting.at \in {"idle", "waiting", "applied", "refused"}
    /\ usage = Cardinality({i \in DOMAIN queue : queue[i].kind = "row"}) /\ usage \in 0 .. QueueMax
    /\ Len(queue) <= QueueMax + 1
    /\ drops \in [Ranks -> 0 .. MaxRows] /\ writer.taken \in [Ranks -> 0 .. MaxRows]
    /\ writer.at \in {"idle", "notice", "noticeFirst", "configure"} /\ writer.size \in 0 .. FileMax

\* Rows that passed the filter and are neither waiting, nor with the file, nor counted as lost.
RowsSeen == usage + (buffered + filed) + (Total(drops) + Total(writer.taken))
Unaccounted == offered - RowsSeen

\* A row is lost without being counted, or counted twice, in no step but one: a configuration that
\* turns the recorder off loses at most what the write buffer held.  So also when a notice that took
\* the counts cannot be written and publishers counted more in the meantime (writer.rs).
EveryRowAccounted ==
    [][Unaccounted' # Unaccounted =>
           /\ writer.at = "configure" /\ Head(queue).config.profile = "off"
           /\ Unaccounted' - Unaccounted \in 1 .. buffered]_traceVars

\* Every row is written to a file of the very configuration it was published under, although the
\* generation of a refused configuration is given to the next one.
RowsOfTheirConfiguration ==
    [][writer.at = "idle" /\ buffered' + filed' # buffered + filed
           => Head(queue).config = writer.config]_traceVars
=============================================================================
