------------------------------ MODULE Recovery ------------------------------
(***************************************************************************)
(* LevelDB's files and what a crash leaves of them: logs, tables, the      *)
(* MANIFEST and CURRENT, and how opening the database puts them together.  *)
(*     Pods/leveldb-library/db/db_impl.cc      Write, MakeRoomForWrite,    *)
(*         CompactMemTable, Recover, RecoverLogFile, Open,                 *)
(*         DeleteObsoleteFiles                                             *)
(*     Pods/leveldb-library/db/version_set.cc  LogAndApply, Recover        *)
(*                                                                         *)
(* A process that dies leaves what it has handed to the system, cut short  *)
(* where it was writing.  A machine that dies leaves any beginning of what *)
(* was not synced.  Creating, renaming and deleting files lasts.  The      *)
(* database exists: NewDB has been through.                                *)
(***************************************************************************)
EXTENDS LogFormat, FiniteSets

CONSTANTS
    Sizes,           \* of batches, in bytes
    WriteBuffer,     \* write_buffer_size, in batches
    Budgets          \* bounds: numbers of batches, of crashes and of failing appends

ASSUME RecoveryAssumption ==
    /\ Sizes \subseteq Nat \ {0}
    /\ WriteBuffer \in Nat \ {0}
    /\ Budgets \subseteq [writes : Nat, crashes : Nat, failures : Nat]

VARIABLES
    logs,        \* on disk: the cells of a log, how many are synced, its
                 \* batches, and whether an append to it has failed
    tables,      \* on disk: the sequence numbers in a table
    manifests,   \* on disk: the edits of a descriptor, and how many are synced
    current,     \* on disk: the descriptor CURRENT names
    mode,        \* how far Open has come, "open" when it has returned
    db,          \* what the process has in memory
    pending,     \* the batch being written, or Nothing
    job,         \* what the background thread is at, or Idle
    acked,       \* the batches whose write has returned OK ...
    hard,        \* ... those of them a machine crash has to spare ...
    spoilt,      \* ... and those that went into a log after a failed append
    budget       \* the writes, crashes and failures to come

disk == << logs, tables, manifests, current >>
promise == << acked, hard, spoilt >>
vars == << disk, mode, db, pending, job, promise, budget >>

EmptyLog == [cells |-> << >>, synced |-> 0, records |-> << >>, torn |-> FALSE]
NoEdit == [add |-> {}, del |-> {}]
Nothing == [seq |-> 0, sync |-> FALSE, from |-> 0]
Idle == [kind |-> "none", step |-> "none", edit |-> NoEdit]
Closed == [version |-> {}, logNumber |-> 0, manifest |-> 0, nextFile |-> 0, lastSeq |-> 0,
           logfile |-> 0, offset |-> 0, mem |-> {}, imm |-> {}, edit |-> NoEdit,
           todo |-> {}, maxSeq |-> 0]

With(f, n, x) == [m \in DOMAIN f \cup {n} |-> IF m = n THEN x ELSE f[m]]
Only(f, ns) == [m \in DOMAIN f \cap ns |-> f[m]]
HighestOf(ns) == Max(ns \cup {0})

\* What VersionSet::Recover makes of the edits of a descriptor: the files one of
\* them adds and none after it deletes.
VersionOf(edits) ==
    UNION {{n \in edits[i].add : \A j \in (i + 1)..Len(edits) : n \notin edits[j].del} :
              i \in DOMAIN edits}
LastEdit(edits) == edits[Len(edits)]

\* What a process that opened the database now would find.
LogsFrom(number) == {n \in DOMAIN logs : n >= number}
InTables(version) == UNION {tables[n] : n \in version \cap DOMAIN tables}
InLog(n) == {r.seq : r \in Range(ReadRecords(logs[n].cells))}
OnDisk ==
    LET edits == manifests[current].edits
    IN IF edits = << >> THEN {} ELSE
       InTables(VersionOf(edits)) \cup UNION {InLog(n) : n \in LogsFrom(LastEdit(edits).logNumber)}

-----------------------------------------------------------------------------
(* Writing *)

\* Write up to the log, with the bytes as the system has them.
AppendBatch(size, sync) ==
    LET record == [seq |-> db.lastSeq + 1, size |-> size]
        added == AddRecord(record, db.offset)
    IN /\ mode = "open" /\ pending = Nothing /\ budget.writes > 0
       /\ logs' = [logs EXCEPT ![db.logfile].cells = @ \o added.cells,
                               ![db.logfile].records = Append(@, record)]
       /\ db' = [db EXCEPT !.lastSeq = record.seq, !.offset = added.offset]
       /\ pending' = [seq |-> record.seq, sync |-> sync, from |-> Len(logs[db.logfile].cells)]
       /\ budget' = [budget EXCEPT !.writes = @ - 1]
       /\ UNCHANGED << tables, manifests, current, mode, job, promise >>

\* One of the fragments does not get to the system, or not all of it:
\* block_offset_ counts it all the same, and the write returns the error.
AppendFails(size) ==
    LET record == [seq |-> db.lastSeq + 1, size |-> size]
        round == Writing(record, db.offset)
    IN /\ budget.failures > 0
       /\ mode = "open" /\ pending = Nothing /\ budget.writes > 0
       /\ \E i \in 1..Rounds(record, db.offset) :
          \E n \in Len(round[i - 1].cells)..(Len(round[i].cells) - 1) :
             /\ logs' = [logs EXCEPT ![db.logfile].torn = TRUE,
                                     ![db.logfile].cells = @ \o SubSeq(round[i].cells, 1, n)]
             /\ db' = [db EXCEPT !.lastSeq = record.seq, !.offset = round[i].offset]
       /\ budget' = [budget EXCEPT !.writes = @ - 1, !.failures = @ - 1]
       /\ UNCHANGED << tables, manifests, current, mode, pending, job, promise >>

\* The rest of Write: the sync that was asked for, the memtable, the answer.  The
\* batch may have the number of one that was lost, which counts no more.
Acknowledge ==
    /\ pending # Nothing
    /\ logs' = IF pending.sync
                THEN [logs EXCEPT ![db.logfile].synced = Len(logs[db.logfile].cells)] ELSE logs
    /\ db' = [db EXCEPT !.mem = @ \cup {pending.seq}]
    /\ acked' = acked \cup {pending.seq}
    /\ hard' = IF pending.sync THEN hard \cup {pending.seq} ELSE hard \ {pending.seq}
    /\ spoilt' = IF logs[db.logfile].torn THEN spoilt \cup {pending.seq} ELSE spoilt \ {pending.seq}
    /\ pending' = Nothing
    /\ UNCHANGED << tables, manifests, current, mode, job, budget >>

\* MakeRoomForWrite: a new log for a new memtable, when the memtable is full or
\* the switch is forced.  The old log is closed as it is.
Switch ==
    /\ mode = "open" /\ pending = Nothing
    /\ db.imm = {} /\ db.mem # {}
    /\ logs' = With(logs, db.nextFile, EmptyLog)
    /\ db' = [db EXCEPT !.imm = db.mem, !.mem = {}, !.offset = 0,
                        !.logfile = db.nextFile, !.nextFile = @ + 1]
    /\ UNCHANGED << tables, manifests, current, mode, pending, job, promise, budget >>

-----------------------------------------------------------------------------
(* The background thread *)

\* Wrong version: every edit says that the logs before this one are done with.
CurrentLog(kind) == db.logfile

\* The log_number_ of an edit: only CompactMemTable moves it.
LogNumberOf(kind) == IF kind = "flush" THEN db.logfile ELSE db.logNumber

\* BuildTable: of imm_, or of the tables there are.  A table is synced before
\* an edit names it.
Build(kind, contents, edit) ==
    /\ mode = "open" /\ job = Idle
    /\ tables' = With(tables, db.nextFile, contents)
    /\ db' = [db EXCEPT !.nextFile = @ + 1]
    /\ job' = [kind |-> kind, step |-> "built", edit |-> [edit EXCEPT !.add = {db.nextFile}]]
    /\ UNCHANGED << logs, manifests, current, mode, pending, promise, budget >>

BuildFlush == db.imm # {} /\ Build("flush", db.imm, NoEdit)

BuildCompaction ==
    /\ db.imm = {} /\ Cardinality(db.version) > 1
    /\ Build("compaction", InTables(db.version), [NoEdit EXCEPT !.del = db.version])

\* LogAndApply: the edit goes into the descriptor, ...
LogEdit ==
    /\ job # Idle /\ job.step = "built"
    /\ manifests' = [manifests EXCEPT ![db.manifest].edits = Append(@,
          [add |-> job.edit.add, del |-> job.edit.del, logNumber |-> LogNumberOf(job.kind),
           nextFile |-> db.nextFile, lastSeq |-> db.lastSeq])]
    /\ job' = [job EXCEPT !.step = "logged"]
    /\ UNCHANGED << logs, tables, current, mode, db, pending, promise, budget >>

\* ... is synced, and what it says is installed.
ApplyEdit ==
    LET edits == manifests[db.manifest].edits
    IN /\ job # Idle /\ job.step = "logged"
       /\ manifests' = [manifests EXCEPT ![db.manifest].synced = Len(edits)]
       /\ db' = [db EXCEPT !.version = VersionOf(edits), !.logNumber = LastEdit(edits).logNumber,
                           !.imm = IF job.kind = "flush" THEN {} ELSE @]
       /\ hard' = IF job.kind = "flush" THEN hard \cup (acked \cap db.imm) ELSE hard
       /\ job' = [job EXCEPT !.step = "applied"]
       /\ UNCHANGED << logs, tables, current, mode, pending, acked, spoilt, budget >>

\* What DeleteObsoleteFiles keeps.
DeleteObsolete ==
    /\ logs' = Only(logs, LogsFrom(db.logNumber))
    /\ tables' = Only(tables, db.version)
    /\ manifests' = Only(manifests, {n \in DOMAIN manifests : n >= db.manifest})

CleanUp ==
    /\ job # Idle /\ job.step = "applied"
    /\ DeleteObsolete
    /\ job' = Idle
    /\ UNCHANGED << current, mode, db, pending, promise, budget >>

-----------------------------------------------------------------------------
(* Opening *)

\* VersionSet::Recover, and the check that every table is there.
ReadDescriptor ==
    /\ mode = "closed"
    /\ LET edits == manifests[current].edits
           last == LastEdit(edits)
       IN IF edits = << >> \/ last.nextFile = 0 \/ ~(VersionOf(edits) \subseteq DOMAIN tables)
          THEN mode' = "failed" /\ db' = db
          ELSE /\ mode' = "replaying"
               /\ db' = [Closed EXCEPT
                     !.version = VersionOf(edits), !.logNumber = last.logNumber,
                     !.manifest = last.nextFile, !.nextFile = last.nextFile + 1,
                     !.lastSeq = last.lastSeq, !.todo = LogsFrom(last.logNumber)]
    /\ UNCHANGED << disk, pending, job, promise, budget >>

\* Wrong version: what is left in the last memtable is not written.
FullMemtables(records) ==
    LET taken == WriteBuffer + 1
    IN [t \in 1..(Len(records) \div taken) |->
           {records[i].seq : i \in {j \in DOMAIN records : (j - 1) \div taken = t - 1}}]

\* The batches of a log, in memtables: one is full with the batch that takes it
\* over write_buffer_size.
Memtables(records) ==
    LET taken == WriteBuffer + 1
    IN [t \in 1..((Len(records) + taken - 1) \div taken) |->
           {records[i].seq : i \in {j \in DOMAIN records : (j - 1) \div taken = t - 1}}]

\* MarkFileNumberUsed
MarkFileNumberUsed(next, log) == IF next <= log THEN log + 1 ELSE next

\* RecoverLogFile, the oldest log first: its batches become tables.
ReplayLog ==
    /\ mode = "replaying" /\ db.todo # {}
    /\ LET log == Min(db.todo)
           records == ReadRecords(logs[log].cells)
           mems == Memtables(records)
           Number(t) == db.nextFile + t - 1
       IN /\ tables' = [n \in DOMAIN tables \cup {Number(t) : t \in DOMAIN mems} |->
                           IF n - db.nextFile + 1 \in DOMAIN mems
                           THEN mems[n - db.nextFile + 1] ELSE tables[n]]
          /\ db' = [db EXCEPT
                !.todo = @ \ {log},
                !.edit.add = @ \cup {Number(t) : t \in DOMAIN mems},
                !.nextFile = MarkFileNumberUsed(@ + Len(mems), log),
                !.maxSeq = HighestOf({r.seq : r \in Range(records)} \cup {@})]
    /\ UNCHANGED << logs, manifests, current, mode, pending, job, promise, budget >>

\* Wrong version: what the logs held is not counted.
SequenceOfDescriptor == db.lastSeq

RecoveredSequence == HighestOf({db.lastSeq, db.maxSeq})

\* Open: a log for what is to come.
CreateLog ==
    /\ mode = "replaying" /\ db.todo = {}
    /\ logs' = With(logs, db.nextFile, EmptyLog)
    /\ db' = [db EXCEPT !.logfile = db.nextFile, !.nextFile = @ + 1, !.lastSeq = RecoveredSequence]
    /\ mode' = "logging"
    /\ UNCHANGED << tables, manifests, current, pending, job, promise, budget >>

\* LogAndApply for the first time: a descriptor with a snapshot of the version
\* and the edit of the recovery, ...
WriteDescriptor ==
    /\ mode = "logging"
    /\ LET snapshot == [add |-> db.version, del |-> {}, logNumber |-> 0, nextFile |-> 0, lastSeq |-> 0]
           edit == [add |-> db.edit.add, del |-> {}, logNumber |-> db.logfile,
                    nextFile |-> db.nextFile, lastSeq |-> db.lastSeq]
       IN manifests' = With(manifests, db.manifest, [edits |-> << snapshot, edit >>, synced |-> 0])
    /\ mode' = "written"
    /\ UNCHANGED << logs, tables, current, db, pending, job, promise, budget >>

\* Wrong version: CURRENT may name it before it is on disk.
LeaveUnsynced ==
    /\ mode = "written"
    /\ mode' = "synced"
    /\ UNCHANGED << disk, db, pending, job, promise, budget >>

\* ... which is synced ...
SyncDescriptor ==
    /\ mode = "written"
    /\ manifests' = [manifests EXCEPT ![db.manifest].synced = 2]
    /\ mode' = "synced"
    /\ UNCHANGED << logs, tables, current, db, pending, job, promise, budget >>

\* ... before CURRENT is made to name it.
SetCurrentFile ==
    /\ mode = "synced"
    /\ current' = db.manifest
    /\ db' = [db EXCEPT !.version = @ \cup db.edit.add, !.logNumber = db.logfile, !.edit = NoEdit]
    /\ hard' = acked
    /\ mode' = "installed"
    /\ UNCHANGED << logs, tables, manifests, pending, job, acked, spoilt, budget >>

Opened ==
    /\ mode = "installed"
    /\ DeleteObsolete
    /\ mode' = "open"
    /\ UNCHANGED << current, db, pending, job, promise, budget >>

-----------------------------------------------------------------------------
(* Crashes *)

Restart ==
    /\ budget.crashes > 0
    /\ budget' = [budget EXCEPT !.crashes = @ - 1]
    /\ mode \notin {"closed", "failed"}
    /\ mode' = "closed"
    /\ db' = Closed
    /\ pending' = Nothing
    /\ job' = Idle
    /\ UNCHANGED << tables, current >>

\* The process dies, perhaps in the middle of a write.
ProcessCrash ==
    /\ Restart
    /\ IF pending = Nothing THEN logs' = logs
       ELSE \E n \in pending.from..Len(logs[db.logfile].cells) :
                logs' = [logs EXCEPT ![db.logfile].cells = SubSeq(@, 1, n)]
    /\ UNCHANGED << manifests, promise >>

\* What the end of each file that was not synced may lose.
Losses(length, synced) ==
    {lost \in [DOMAIN length -> 0..HighestOf({length[n] - synced[n] : n \in DOMAIN length})] :
        \A n \in DOMAIN length : lost[n] <= length[n] - synced[n]}

\* The machine dies.
MachineCrash ==
    LET cells == [n \in DOMAIN logs |-> Len(logs[n].cells)]
        edits == [n \in DOMAIN manifests |-> Len(manifests[n].edits)]
    IN /\ Restart
       /\ \E lost \in Losses(cells, [n \in DOMAIN logs |-> logs[n].synced]) :
             logs' = [n \in DOMAIN logs |->
                 [cells |-> SubSeq(logs[n].cells, 1, cells[n] - lost[n]),
                  synced |-> cells[n] - lost[n],
                  records |-> logs[n].records, torn |-> logs[n].torn]]
       /\ \E lost \in Losses(edits, [n \in DOMAIN manifests |-> manifests[n].synced]) :
             manifests' = [n \in DOMAIN manifests |->
                 [edits |-> SubSeq(manifests[n].edits, 1, edits[n] - lost[n]),
                  synced |-> edits[n] - lost[n]]]
       /\ acked' = hard /\ UNCHANGED << hard, spoilt >>

-----------------------------------------------------------------------------
\* A database NewDB has just made.
Init ==
    /\ logs = [n \in {} |-> EmptyLog]
    /\ tables = [n \in {} |-> {}]
    /\ manifests = [n \in {1} |->
          [edits |-> << [add |-> {}, del |-> {}, logNumber |-> 0, nextFile |-> 2, lastSeq |-> 0] >>,
           synced |-> 1]]
    /\ current = 1
    /\ mode = "closed"
    /\ db = Closed
    /\ pending = Nothing /\ job = Idle
    /\ acked = {} /\ hard = {} /\ spoilt = {}
    /\ budget \in Budgets

OpenStep ==
    \/ ReadDescriptor \/ ReplayLog \/ CreateLog
    \/ WriteDescriptor \/ SyncDescriptor \/ SetCurrentFile \/ Opened

Next ==
    \/ \E size \in Sizes, sync \in BOOLEAN : AppendBatch(size, sync)
    \/ \E size \in Sizes : AppendFails(size)
    \/ Acknowledge
    \/ Switch
    \/ BuildFlush \/ BuildCompaction \/ LogEdit \/ ApplyEdit \/ CleanUp
    \/ OpenStep
    \/ ProcessCrash \/ MachineCrash

Spec == Init /\ [][Next]_vars

\* Open does not wait for anybody: weak fairness of OpenStep, one of whose
\* disjuncts can always be taken until Open has returned.
FairSpec == Spec /\ ([]<>(mode \in {"open", "failed"}) \/ []<><<OpenStep>>_vars)

-----------------------------------------------------------------------------
TypeOK ==
    /\ DOMAIN logs \subseteq Nat
    /\ \A n \in DOMAIN logs : logs[n].synced \in 0..Len(logs[n].cells)
    /\ \A n \in DOMAIN tables : tables[n] \subseteq Nat \ {0}
    /\ current \in DOMAIN manifests
    /\ \A n \in DOMAIN manifests : manifests[n].synced \in 0..Len(manifests[n].edits)
    /\ mode \in {"closed", "replaying", "logging", "written", "synced", "installed", "open", "failed"}
    /\ hard \subseteq acked /\ acked \subseteq Nat \ {0}

\* No batch that was promised to last is missing from where opening the
\* database would find it: none whose write has returned if it is the process
\* that dies, none that was synced or flushed if it is the machine.  This holds
\* at every step of the opening too.
PromisedIsOnDisk == acked \ spoilt \subseteq OnDisk

\* When the database is open, such a batch is there to be read.
PromisedIsRead ==
    mode = "open" => acked \ spoilt \subseteq db.mem \cup db.imm \cup InTables(db.version)

\* A new write never gets the number of one that is there.
SequencesAreNew ==
    mode = "open" => \A s \in db.mem \cup db.imm \cup InTables(db.version) : s <= db.lastSeq

\* However a log has been cut short, it reads back as the first of the batches
\* that went into it: none is skipped and none is made up.
LogsReadBack ==
    \A n \in DOMAIN logs :
        ~logs[n].torn => IsPrefix(ReadRecords(logs[n].cells), logs[n].records)

\* Whatever crashes leave, the database can be opened again.
OpensInTheEnd == (mode = "closed") ~> (mode = "open")
=============================================================================
