----------------------------- MODULE WriteQueue -----------------------------
(***************************************************************************)
(* How threads write to LevelDB: the queue of writers, the batch a thread  *)
(* writes for those behind it, the memtable that is switched when full,    *)
(* and the background thread that flushes it and merges level 0.           *)
(*     Pods/leveldb-library/db/db_impl.cc  Write, BuildBatchGroup,         *)
(*         MakeRoomForWrite, CompactMemTable, BackgroundCall, ~DBImpl      *)
(*     Pods/leveldb-library/util/env_posix.cc  Schedule, BGThread          *)
(*                                                                         *)
(* mutex_ guards everything but the log and the memtable, which belong to  *)
(* the writer in front.  An action is what happens between a lock of       *)
(* mutex_ and the next unlock or wait, or what happens without it.         *)
(***************************************************************************)
EXTENDS Naturals, FiniteSets, Sequences, Functions

CONSTANTS
    Writers,            \* the threads that call Write
    MaxCalls,           \* bound: the calls of a behaviour
    BufferSize,         \* write_buffer_size, in batches
    CompactionTrigger,  \* kL0_CompactionTrigger
    SlowdownTrigger,    \* kL0_SlowdownWritesTrigger
    StopTrigger,        \* kL0_StopWritesTrigger
    Level0AtOpen,       \* the level-0 files of the database when it is opened
    IOMayFail           \* whether the file system may return errors

ASSUME WriteQueueAssumption ==
    /\ IsFiniteSet(Writers)
    /\ MaxCalls \in Nat
    /\ BufferSize \in Nat \ {0}
    /\ 1 <= CompactionTrigger
    /\ CompactionTrigger <= SlowdownTrigger
    /\ SlowdownTrigger <= StopTrigger
    /\ CompactionTrigger \in Nat /\ SlowdownTrigger \in Nat /\ StopTrigger \in Nat
    /\ Level0AtOpen \in Nat
    /\ IOMayFail \in BOOLEAN

VARIABLES
    writers,     \* writers_
    pc,          \* where a thread is
    call,        \* what it asked for
    delayed,     \* the writer in front has had its delay
    group,       \* the writers from the front to last_writer
    outcome,     \* status of the write in front
    lastSeq,     \* versions_->LastSequence()
    mem, imm,    \* the batches in the memtables
    hasImm,      \* imm_ # NULL
    tables,      \* the batches in table files
    logs,        \* the log files by number; the last one is log_
    logNumber,   \* versions_->LogNumber(): earlier log files are deleted
    editLog,     \* the log number in CompactMemTable's edit
    level0,      \* the number of level-0 files
    scheduled,   \* bg_compaction_scheduled_
    bg,          \* where the background thread is
    merging,     \* it is flushing from within DoCompactionWork
    bgError,     \* ~bg_error_.ok()
    closing,     \* shutting_down_
    calls,       \* the calls so far
    answers      \* what calls have returned

writerVars == << writers, pc, call, delayed, group, outcome >>
dataVars == << lastSeq, mem, imm, hasImm, tables, logs, logNumber >>
bgVars == << editLog, level0, scheduled, bg, merging >>
vars == << writerVars, dataVars, bgVars, bgError, closing, calls, answers >>

\* A batch is named by its call.  NULL is the batch of TEST_CompactMemTable.
Batch == 1..MaxCalls
Call == [batch : Batch, null : BOOLEAN, sync : BOOLEAN]
NoCall == [batch |-> 0, null |-> FALSE, sync |-> FALSE]
Answer == [batch : Batch, sync : BOOLEAN, ok : BOOLEAN]
Record == [first : Nat, batches : SUBSET Batch]
Log == [records : Seq(Record), synced : Nat]

WriterPlaces == {"idle", "asleep", "signalled", "room", "delayed", "bgWait", "log",
                 "sync", "insert", "finish", "immCheck", "immWait"}
BgPlaces == {"idle", "build", "apply", "merge", "install"}

EmptyLog == [records |-> << >>, synced |-> 0]

\* A database just opened: nothing in memory.
Init ==
    /\ writers = << >>
    /\ pc = [w \in Writers |-> "idle"]
    /\ call = [w \in Writers |-> NoCall]
    /\ delayed = FALSE
    /\ group = << >>
    /\ outcome = "ok"
    /\ lastSeq = 0
    /\ mem = {} /\ imm = {} /\ hasImm = FALSE /\ tables = {}
    /\ logs = << EmptyLog >>
    /\ logNumber = 1
    /\ editLog = 0
    /\ level0 = Level0AtOpen
    /\ scheduled = (level0 >= CompactionTrigger)
    /\ bg = "idle"
    /\ merging = FALSE
    /\ bgError = FALSE
    /\ closing = FALSE
    /\ calls = 0
    /\ answers = {}

\* The batches of a group, as one record or one insertion takes them.
Batches(g) == {call[x].batch : x \in {y \in Range(g) : ~call[y].null}}

-----------------------------------------------------------------------------
(* Condition variables and scheduling *)

\* bg_cv_.SignalAll()
SignalAll(places) ==
    [w \in Writers |-> CASE places[w] = "bgWait"  -> "room"
                         [] places[w] = "immWait" -> "immCheck"
                         [] OTHER -> places[w]]

\* MaybeScheduleCompaction: whether BGWork is in the queue of the thread.
ScheduledAfter(already, withImm, files, error) ==
    already \/ (~closing /\ ~error /\ (withImm \/ files >= CompactionTrigger))

-----------------------------------------------------------------------------
(* Write *)

CallWrite(w, null, sync) ==
    /\ ~closing
    /\ pc[w] = "idle"
    /\ calls < MaxCalls
    /\ calls' = calls + 1
    /\ call' = [call EXCEPT ![w] = [batch |-> calls + 1, null |-> null, sync |-> sync]]
    /\ writers' = Append(writers, w)
    /\ pc' = [pc EXCEPT ![w] = IF writers = << >> THEN "room" ELSE "asleep"]
    /\ UNCHANGED << delayed, group, outcome, dataVars, bgVars, bgError, closing, answers >>

\* The loop around w.cv.Wait() finds w in front.
WakeInFront(w) ==
    /\ pc[w] = "signalled"
    /\ writers # << >> /\ w = Head(writers)
    /\ pc' = [pc EXCEPT ![w] = "room"]
    /\ UNCHANGED << writers, call, delayed, group, outcome, dataVars, bgVars, bgError, closing, calls, answers >>

\* Wrong version: nobody tells the new front.
PlacesUnsignalled(g, ok) ==
    [x \in Writers |->
        IF x \in Range(g) THEN (IF call[x].null /\ ok THEN "immCheck" ELSE "idle") ELSE pc[x]]

\* Who is behind a group, and where the end of Write leaves the threads: those
\* of the group return, and the new front is signalled.
Behind(g) == SubSeq(writers, Len(g) + 1, Len(writers))
PlacesAfter(g, ok) ==
    [x \in Writers |->
        IF x \in Range(g) THEN (IF call[x].null /\ ok THEN "immCheck" ELSE "idle")
        ELSE IF Behind(g) # << >> /\ x = Head(Behind(g)) THEN "signalled"
        ELSE pc[x]]

AnswersTo(g, ok) ==
    {[batch |-> call[x].batch, sync |-> call[x].sync, ok |-> ok] : x \in {y \in Range(g) : ~call[y].null}}

\* The end of Write: the group learns the outcome.
AfterWrite(g, ok) ==
    /\ writers' = Behind(g)
    /\ pc' = IF bgError' /\ ~bgError THEN SignalAll(PlacesAfter(g, ok)) ELSE PlacesAfter(g, ok)
    /\ answers' = answers \cup AnswersTo(g, ok)
    /\ call' = [x \in Writers |-> IF x \in Range(g) THEN NoCall ELSE call[x]]
    /\ group' = << >>
    /\ outcome' = "ok"
    /\ delayed' = FALSE

\* MakeRoomForWrite returns the error of the background thread.
RoomFails(w) ==
    /\ pc[w] = "room"
    /\ bgError
    /\ bgError' = bgError
    /\ AfterWrite(<< w >>, FALSE)
    /\ UNCHANGED << dataVars, bgVars, closing, calls >>

TooManyFiles(w) == ~delayed /\ ~call[w].null /\ level0 >= SlowdownTrigger

\* mutex_ is released for a millisecond.
RoomDelays(w) ==
    /\ pc[w] = "room"
    /\ ~bgError
    /\ TooManyFiles(w)
    /\ pc' = [pc EXCEPT ![w] = "delayed"]
    /\ delayed' = TRUE
    /\ UNCHANGED << writers, call, group, outcome, dataVars, bgVars, bgError, closing, calls, answers >>

DelayEnds(w) ==
    /\ pc[w] = "delayed"
    /\ pc' = [pc EXCEPT ![w] = "room"]
    /\ UNCHANGED << writers, call, delayed, group, outcome, dataVars, bgVars,
                    bgError, closing, calls, answers >>

MemHasRoom(w) == ~call[w].null /\ Cardinality(mem) < BufferSize

\* Wrong version: a memtable that waits to be flushed is overwritten.
MustWaitForLevel0 == level0 >= StopTrigger

MustWait == hasImm \/ level0 >= StopTrigger

RoomWaits(w) ==
    /\ pc[w] = "room"
    /\ ~bgError /\ ~TooManyFiles(w) /\ ~MemHasRoom(w)
    /\ MustWait
    /\ pc' = [pc EXCEPT ![w] = "bgWait"]
    /\ UNCHANGED << writers, call, delayed, group, outcome, dataVars, bgVars,
                    bgError, closing, calls, answers >>

\* Wrong version: a write that is to be synced may ride with one that is not.
AnyGroups(w) == {SubSeq(writers, 1, n) : n \in 1..Len(writers)}

\* BuildBatchGroup.  Where the sizes of the batches end the group is left open.
Groups(w) ==
    {SubSeq(writers, 1, n) : n \in {m \in 1..Len(writers) :
        \A i \in 2..m : call[writers[i]].sync => call[w].sync}}

\* What follows when MakeRoomForWrite is content: a batch is written without
\* mutex_, for w and for those behind it; NULL is done.
BeginWrite(w) ==
    IF call[w].null
    THEN /\ AfterWrite(<< w >>, TRUE)
    ELSE /\ group' \in Groups(w)
         /\ pc' = [pc EXCEPT ![w] = "log"]
         /\ delayed' = FALSE
         /\ UNCHANGED << writers, call, outcome, answers >>

RoomIsThere(w) ==
    /\ pc[w] = "room"
    /\ ~bgError /\ ~TooManyFiles(w)
    /\ MemHasRoom(w)
    /\ bgError' = bgError
    /\ BeginWrite(w)
    /\ UNCHANGED << dataVars, bgVars, closing, calls >>

CanSwitch(w) == ~bgError /\ ~TooManyFiles(w) /\ ~MemHasRoom(w) /\ ~MustWait

\* A new log file and a new memtable.
RoomSwitches(w) ==
    /\ pc[w] = "room"
    /\ CanSwitch(w)
    /\ bgError' = bgError
    /\ logs' = Append(logs, EmptyLog)
    /\ imm' = mem
    /\ hasImm' = TRUE
    /\ mem' = {}
    /\ scheduled' = ScheduledAfter(scheduled, TRUE, level0, bgError)
    /\ BeginWrite(w)
    /\ UNCHANGED << lastSeq, tables, logNumber, editLog, level0, bg, merging, closing, calls >>

\* NewWritableFile fails.
SwitchFails(w) ==
    /\ IOMayFail
    /\ pc[w] = "room"
    /\ CanSwitch(w)
    /\ bgError' = bgError
    /\ AfterWrite(<< w >>, FALSE)
    /\ UNCHANGED << dataVars, bgVars, closing, calls >>

Written == [first |-> lastSeq + 1, batches |-> Batches(group)]

\* log_->AddRecord, without mutex_.
AddRecord(w) ==
    /\ pc[w] = "log"
    /\ logs' = [logs EXCEPT ![Len(logs)].records = Append(@, Written)]
    /\ pc' = [pc EXCEPT ![w] = IF call[w].sync THEN "sync" ELSE "insert"]
    /\ UNCHANGED << writers, call, delayed, group, outcome, lastSeq, mem, imm, hasImm,
                    tables, logNumber, bgVars, bgError, closing, calls, answers >>

\* The record may be in the file though Append or Flush reports an error.
AddRecordFails(w) ==
    /\ IOMayFail
    /\ pc[w] = "log"
    /\ logs' \in {logs, [logs EXCEPT ![Len(logs)].records = Append(@, Written)]}
    /\ outcome' = "error"
    /\ pc' = [pc EXCEPT ![w] = "finish"]
    /\ UNCHANGED << writers, call, delayed, group, lastSeq, mem, imm, hasImm, tables,
                    logNumber, bgVars, bgError, closing,
                    calls, answers >>

SyncLog(w) ==
    /\ pc[w] = "sync"
    /\ logs' = [logs EXCEPT ![Len(logs)].synced = Len(logs[Len(logs)].records)]
    /\ pc' = [pc EXCEPT ![w] = "insert"]
    /\ UNCHANGED << writers, call, delayed, group, outcome, lastSeq, mem, imm, hasImm,
                    tables, logNumber, bgVars, bgError, closing, calls, answers >>

SyncFails(w) ==
    /\ IOMayFail
    /\ pc[w] = "sync"
    /\ outcome' = "syncError"
    /\ pc' = [pc EXCEPT ![w] = "finish"]
    /\ UNCHANGED << writers, call, delayed, group, dataVars, bgVars, bgError, closing,
                    calls, answers >>

\* WriteBatchInternal::InsertInto
InsertInto(w) ==
    /\ pc[w] = "insert"
    /\ mem' = mem \cup Batches(group)
    /\ pc' = [pc EXCEPT ![w] = "finish"]
    /\ UNCHANGED << writers, call, delayed, group, outcome, lastSeq, imm, hasImm, tables,
                    logs, logNumber, bgVars, bgError, closing, calls, answers >>

\* mutex_ is locked again.  The sequence advances whatever the outcome.
Finish(w) ==
    /\ pc[w] = "finish"
    /\ bgError' = (bgError \/ outcome = "syncError")
    /\ lastSeq' = lastSeq + Cardinality(Batches(group))
    /\ AfterWrite(group, outcome = "ok")
    /\ UNCHANGED << mem, imm, hasImm, tables, logs, logNumber, bgVars, closing, calls >>

\* The rest of TEST_CompactMemTable, which CompactRange calls.
CheckImm(w) ==
    /\ pc[w] = "immCheck"
    /\ pc' = [pc EXCEPT ![w] = IF hasImm /\ ~bgError THEN "immWait" ELSE "idle"]
    /\ UNCHANGED << writers, call, delayed, group, outcome, dataVars, bgVars, bgError,
                    closing, calls, answers >>

-----------------------------------------------------------------------------
(* The background thread *)

\* The end of BackgroundCall, with what the compaction left.
BgReturns(withImm, files, error) ==
    /\ bg' = "idle"
    /\ merging' = FALSE
    /\ scheduled' = ScheduledAfter(FALSE, withImm, files, error)
    /\ pc' = SignalAll(pc)

\* BackgroundCall with nothing to do or no leave to do it.
BgIdles ==
    /\ scheduled /\ bg = "idle"
    /\ closing \/ bgError \/ (~hasImm /\ level0 < CompactionTrigger)
    /\ BgReturns(hasImm, level0, bgError)
    /\ UNCHANGED << writers, call, delayed, group, outcome, dataVars, editLog, level0,
                    bgError, closing, calls, answers >>

\* CompactMemTable; WriteLevel0Table releases mutex_.
BgFlushes ==
    /\ scheduled /\ bg = "idle"
    /\ ~closing /\ ~bgError
    /\ hasImm
    /\ bg' = "build"
    /\ UNCHANGED << writerVars, dataVars, editLog, level0, scheduled, merging, bgError, closing,
                    calls, answers >>

BgMerges ==
    /\ scheduled /\ bg = "idle"
    /\ ~closing /\ ~bgError
    /\ ~hasImm /\ level0 >= CompactionTrigger
    /\ bg' = "merge"
    /\ UNCHANGED << writerVars, dataVars, editLog, level0, scheduled, merging, bgError, closing,
                    calls, answers >>

\* An iteration of DoCompactionWork sees has_imm_.
BgInterrupts ==
    /\ bg = "merge"
    /\ ~closing
    /\ hasImm
    /\ bg' = "build"
    /\ merging' = TRUE
    /\ UNCHANGED << writerVars, dataVars, editLog, level0, scheduled, bgError, closing, calls, answers >>

\* RecordBackgroundError in CompactMemTable.  A merge goes on, but its result
\* is installed still.
FlushError ==
    /\ bgError' = TRUE
    /\ editLog' = 0
    /\ IF merging
       THEN /\ bg' = "merge" /\ merging' = FALSE /\ scheduled' = scheduled
            /\ pc' = SignalAll(pc)
       ELSE BgReturns(hasImm, level0, TRUE)
    /\ UNCHANGED << writers, call, delayed, group, outcome, dataVars, level0,
                    closing, calls, answers >>

\* Wrong version: the log number is that of a log still to be begun.
BuiltWithOldLog ==
    /\ bg = "build"
    /\ ~closing
    /\ editLog' = Len(logs) + 1
    /\ bg' = "apply"
    /\ UNCHANGED << writerVars, dataVars, level0, scheduled, merging, bgError, closing, calls, answers >>

\* BuildTable has written and synced the table; LogAndApply releases mutex_.
Built ==
    /\ bg = "build"
    /\ ~closing
    /\ editLog' = Len(logs)
    /\ bg' = "apply"
    /\ UNCHANGED << writerVars, dataVars, level0, scheduled, merging, bgError, closing, calls, answers >>

BuildFails ==
    /\ bg = "build"
    /\ IOMayFail \/ closing
    /\ FlushError

\* The edit is in the manifest: the table joins level 0 or a deeper one, and
\* the logs the edit no longer needs go.
Applied ==
    /\ bg = "apply"
    /\ tables' = tables \cup imm
    /\ imm' = {} /\ hasImm' = FALSE
    /\ logNumber' = editLog
    /\ level0' \in {level0} \cup (IF imm = {} THEN {} ELSE {level0 + 1})
    /\ editLog' = 0
    /\ IF merging
       THEN /\ bg' = "merge" /\ merging' = FALSE /\ scheduled' = scheduled
            /\ pc' = SignalAll(pc)
       ELSE BgReturns(FALSE, level0', bgError)
    /\ UNCHANGED << writers, call, delayed, group, outcome, lastSeq, mem, logs,
                    bgError, closing, calls, answers >>

ApplyFails ==
    /\ bg = "apply"
    /\ IOMayFail
    /\ FlushError

\* The loop of DoCompactionWork ends; LogAndApply releases mutex_.
Merged ==
    /\ bg = "merge"
    /\ ~closing
    /\ bg' = "install"
    /\ UNCHANGED << writerVars, dataVars, editLog, level0, scheduled, merging, bgError, closing,
                    calls, answers >>

MergeFails ==
    /\ bg \in {"merge", "install"}
    /\ IOMayFail \/ (closing /\ bg = "merge")
    /\ bgError' = TRUE
    /\ BgReturns(hasImm, level0, TRUE)
    /\ UNCHANGED << writers, call, delayed, group, outcome, dataVars, editLog, level0,
                    closing, calls, answers >>

\* The files of level 0 that took part leave it.
Installed ==
    /\ bg = "install"
    /\ level0' \in 0..(level0 - 1)
    /\ BgReturns(hasImm, level0', bgError)
    /\ UNCHANGED << writers, call, delayed, group, outcome, dataVars, editLog,
                    bgError, closing, calls, answers >>

\* ~DBImpl: callers have returned.  It waits until nothing is scheduled.
Close ==
    /\ ~closing
    /\ \A w \in Writers : pc[w] = "idle"
    /\ closing' = TRUE
    /\ UNCHANGED << writerVars, dataVars, bgVars, bgError, calls, answers >>

-----------------------------------------------------------------------------
WriterStep(w) ==
    \/ WakeInFront(w)
    \/ RoomFails(w) \/ RoomDelays(w) \/ DelayEnds(w) \/ RoomWaits(w)
    \/ RoomIsThere(w) \/ RoomSwitches(w) \/ SwitchFails(w)
    \/ AddRecord(w) \/ AddRecordFails(w)
    \/ SyncLog(w) \/ SyncFails(w)
    \/ InsertInto(w)
    \/ Finish(w)
    \/ CheckImm(w)

BgStep ==
    \/ BgIdles \/ BgFlushes \/ BgMerges \/ BgInterrupts
    \/ Built \/ BuildFails \/ Applied \/ ApplyFails
    \/ Merged \/ MergeFails \/ Installed

Next ==
    \/ \E w \in Writers : \/ \E null, sync \in BOOLEAN : /\ ~(null /\ sync)
                                                         /\ CallWrite(w, null, sync)
                          \/ WriterStep(w)
    \/ BgStep
    \/ Close

Spec == Init /\ [][Next]_vars

\* Threads run; callers need not call and nobody need close.
FairSpec ==
    /\ Spec
    /\ \A w \in Writers : WF_vars(WriterStep(w))
    /\ WF_vars(BgStep)

-----------------------------------------------------------------------------
TypeOK ==
    /\ writers \in Seq(Writers)
    /\ pc \in [Writers -> WriterPlaces]
    /\ call \in [Writers -> Call \cup {NoCall}]
    /\ delayed \in BOOLEAN
    /\ group \in Seq(Writers)
    /\ outcome \in {"ok", "error", "syncError"}
    /\ lastSeq \in Nat
    /\ mem \subseteq Batch /\ imm \subseteq Batch /\ tables \subseteq Batch
    /\ hasImm \in BOOLEAN
    /\ logs \in Seq(Log)
    /\ logNumber \in Nat /\ editLog \in Nat /\ level0 \in Nat
    /\ scheduled \in BOOLEAN /\ bg \in BgPlaces /\ merging \in BOOLEAN
    /\ bgError \in BOOLEAN /\ closing \in BOOLEAN
    /\ calls \in 0..MaxCalls
    /\ answers \subseteq Answer

Busy == {"room", "delayed", "bgWait", "log", "sync", "insert", "finish"}

\* One thread at a time writes, and it is the one in front: the log and the
\* memtable it uses without mutex_ are its own.
OnlyFrontWrites ==
    \A w \in Writers : pc[w] \in Busy => writers # << >> /\ w = Head(writers)

LiveRecords == UNION {Range(logs[n].records) : n \in logNumber..Len(logs)}
InLog(b, records) == \E r \in records : b \in r.batches

\* What is only in memory is in a log that recovery will read.
UnflushedIsLogged ==
    \A b \in mem \cup imm : InLog(b, LiveRecords)

\* A write that was asked to be synced, and has returned, is where a crash of
\* the machine does not reach: in a table or in the synced part of a log.
SyncedIsSafe ==
    \A a \in answers : a.sync /\ a.ok =>
        \/ a.batch \in tables
        \/ \E n \in logNumber..Len(logs) :
              InLog(a.batch, Range(SubSeq(logs[n].records, 1, logs[n].synced)))

\* A call that has returned tells the truth: its batch can be read from now
\* on, or never.
AnswersAreTrue ==
    \A a \in answers : a.ok <=> a.batch \in mem \cup imm \cup tables

\* Every call returns and ~DBImpl gets to its end: no signal is lost, whoever
\* waits for whom.
EverybodyReturns ==
    /\ \A w \in Writers : pc[w] # "idle" ~> pc[w] = "idle"
    /\ closing ~> ~scheduled
=============================================================================
