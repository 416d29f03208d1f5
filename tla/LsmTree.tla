------------------------------ MODULE LsmTree ------------------------------
(***************************************************************************)
(* LevelDB's tree of sorted tables: memtables, levels of files, snapshots, *)
(* and the compactions that move entries towards the deepest level.        *)
(*     Pods/leveldb-library/db/version_set.cc                              *)
(*     Pods/leveldb-library/db/db_impl.cc    WriteLevel0Table,             *)
(*         BackgroundCompaction, DoCompactionWork, Get, GetSnapshot        *)
(*                                                                         *)
(* One background thread changes the levels.  While it merges, mutex_ is   *)
(* free: callers write, switch the memtable and take snapshots, and the    *)
(* thread itself flushes a memtable in the middle of its merge.            *)
(***************************************************************************)
EXTENDS Integers, FiniteSets, SequencesExt

CONSTANTS
    Keys,                \* user keys: numbers, in the order of the comparator
    NumLevels,           \* kNumLevels
    MaxMemCompactLevel,  \* kMaxMemCompactLevel
    Level0Trigger,       \* kL0_CompactionTrigger
    MaxBytes,            \* MaxBytesForLevel
    ExpandedLimit,       \* kExpandedCompactionByteSizeLimit
    MaxOverlap,          \* kMaxGrandParentOverlapBytes
    Loads                \* what a database is put to (below)

\* A load: kTargetFileSize, and two bounds: how many snapshots callers hold at
\* once, and how many writes a behaviour has.
ASSUME LsmTreeAssumption ==
    /\ Keys \subseteq Nat /\ IsFiniteSet(Keys)
    /\ NumLevels \in Nat /\ NumLevels >= 2
    /\ MaxMemCompactLevel \in 0..(NumLevels - 1)
    /\ Level0Trigger \in Nat \ {0}
    /\ MaxBytes \in [1..(NumLevels - 2) -> Nat \ {0}]
    /\ ExpandedLimit \in Nat /\ MaxOverlap \in Nat
    /\ Loads \subseteq [fileSize : Nat \ {0}, snapshots : Nat, writes : Nat]

VARIABLES
    load,
    lastSeq,         \* LastSequence()
    mem, imm,        \* the entries of the memtables
    files,           \* the current version: files_[level]
    nextFile,        \* next_file_number_
    snapshots,       \* snapshots_
    compactPointer,  \* compact_pointer_[level], NoKey if empty
    compaction       \* what DoCompactionWork is at, NoCompaction if nothing

vars == << load, lastSeq, mem, imm, files, nextFile, snapshots, compactPointer, compaction >>

Levels == 0..(NumLevels - 1)
Types == {"value", "deletion"}
Entry == [key : Keys, seq : 1..load.writes, type : Types]

\* InternalKeyComparator: by key, the newest first.
Before(a, b) == a.key < b.key \/ (a.key = b.key /\ a.seq > b.seq)
FirstOf(entries) == CHOOSE e \in entries : \A d \in entries : d = e \/ Before(e, d)
LastOf(entries) == CHOOSE e \in entries : \A d \in entries : d = e \/ Before(d, e)

\* A table and its FileMetaData.
Table(number, entries) ==
    [number |-> number, entries |-> entries,
     smallest |-> FirstOf(entries), largest |-> LastOf(entries)]

\* A file's size is the number of its entries.
TotalFileSize(fs) == Cardinality(UNION {{f} \X f.entries : f \in fs})

NoKey == [key |-> -1, seq |-> 0, type |-> "value"]
NoCompaction == [level |-> -1]

-----------------------------------------------------------------------------
(* Overlaps *)

Overlaps(f, lo, hi) == f.largest.key >= lo /\ f.smallest.key <= hi

OverlapInLevel(fs, lo, hi) == \E f \in fs : Overlaps(f, lo, hi)

LowestKey(fs) == Min({f.smallest.key : f \in fs})
HighestKey(fs) == Max({f.largest.key : f \in fs})

\* The least range from lo to hi that no file sticks out of.
NoneSticksOut(fs, l, h) ==
    \A f \in fs : Overlaps(f, l, h) => l <= f.smallest.key /\ f.largest.key <= h
WidenedFrom(fs, lo, hi) ==
    Max({l \in Keys : l <= lo /\ \E h \in Keys : h >= hi /\ NoneSticksOut(fs, l, h)})
WidenedTo(fs, from, hi) == Min({h \in Keys : h >= hi /\ NoneSticksOut(fs, from, h)})

\* GetOverlappingInputs.  In level 0 a file that is taken widens the range.
GetOverlappingInputs(version, level, lo, hi) ==
    LET from == IF level = 0 THEN WidenedFrom(version[0], lo, hi) ELSE lo
        to == IF level = 0 THEN WidenedTo(version[0], from, hi) ELSE hi
    IN {f \in version[level] : Overlaps(f, from, to)}

\* Wrong version: level 0 is not looked at.
PickLevelBelow(version, lo, hi) ==
    Max({0} \cup {l \in 1..MaxMemCompactLevel :
        \A m \in 1..l : ~OverlapInLevel(version[m], lo, hi)})

\* Wrong version: the level it arrives at is not looked at.
PickLevelAbove(version, lo, hi) ==
    Max({0} \cup {l \in 1..MaxMemCompactLevel :
        \A m \in 1..l : ~OverlapInLevel(version[m - 1], lo, hi)})

\* PickLevelForMemTableOutput
PickLevelForMemTableOutput(version, lo, hi) ==
    LET MayGo(l) ==
            /\ ~OverlapInLevel(version[l], lo, hi)
            /\ l + 1 < NumLevels =>
                  TotalFileSize(GetOverlappingInputs(version, l + 1, lo, hi)) <= MaxOverlap
    IN IF OverlapInLevel(version[0], lo, hi) THEN 0
       ELSE Max({0} \cup {l \in 1..MaxMemCompactLevel : \A m \in 1..l : MayGo(m)})

-----------------------------------------------------------------------------
(* Reading *)

\* The entries of a run that answer for a key as of a sequence number.  A seek
\* finds the newest.
Visible(entries, k, s) == {e \in entries : e.key = k /\ e.seq <= s}
Hit(f, k, s) == Visible(f.entries, k, s) # {}

NewestFirst(fs) == {f \in fs : \A g \in fs : f.number >= g.number}

\* The file of a deeper level FindFile leads to: the first that does not end
\* before the key.
FindFile(fs, k, s) ==
    LET ending == {f \in fs : ~Before(f.largest, [key |-> k, seq |-> s])}
    IN {f \in ending : f.smallest.key <= k /\ \A g \in ending : ~Before(g.largest, f.largest)}

\* The file Version::Get finds a key in, if there is one.
FoundIn(version, k, s) ==
    LET level0 == {f \in version[0] : Hit(f, k, s)}
        deeper == {l \in Levels \ {0} : \E f \in FindFile(version[l], k, s) : Hit(f, k, s)}
    IN IF level0 # {} THEN NewestFirst(level0)
       ELSE IF deeper # {} THEN FindFile(version[Min(deeper)], k, s)
       ELSE {}

\* DBImpl::Get: the memtables, then the files.  0 is NotFound.
Get(k, s) ==
    LET runs == IF Visible(mem, k, s) # {} THEN mem
                ELSE IF Visible(imm, k, s) # {} THEN imm
                ELSE UNION {f.entries : f \in FoundIn(files, k, s)}
        e == FirstOf(Visible(runs, k, s))
    IN IF Visible(runs, k, s) = {} \/ e.type = "deletion" THEN 0 ELSE e.seq

\* Files a read turns to in vain before another one: any of them may use up its
\* allowed_seeks and become file_to_compact_.
SeekFiles(l) ==
    {f \in files[l] : \E k \in Keys, s \in 1..load.writes :
        /\ IF l = 0 THEN Overlaps(f, k, k) /\ \A g \in files[0] :
                             Overlaps(g, k, k) => g.number <= f.number
           ELSE /\ f \in FindFile(files[l], k, s)
                /\ \A m \in 0..(l - 1) :
                      IF m = 0 THEN ~OverlapInLevel(files[0], k, k)
                      ELSE FindFile(files[m], k, s) = {}
        /\ ~Hit(f, k, s)
        /\ \/ l = 0 /\ \E g \in files[0] \ {f} : Overlaps(g, k, k)
           \/ \E m \in (l + 1)..(NumLevels - 1) : FindFile(files[m], k, s) # {}}

-----------------------------------------------------------------------------
(* Picking a compaction *)

\* Finalize: how full a level is, as a fraction, and the level that is fullest.
Fill(l) == IF l = 0 THEN Cardinality(files[0]) ELSE TotalFileSize(files[l])
Room(l) == IF l = 0 THEN Level0Trigger ELSE MaxBytes[l]
NeedsCompaction(l) ==
    /\ Fill(l) >= Room(l)
    /\ \A m \in 0..(NumLevels - 2) :
          IF m < l THEN Fill(l) * Room(m) > Fill(m) * Room(l)
                   ELSE Fill(l) * Room(m) >= Fill(m) * Room(l)

\* Wrong version: no wrap-around at the end of the key space.
NextOnly(l) ==
    LET after == {f \in files[l] : compactPointer[l] = NoKey
                                   \/ Before(compactPointer[l], f.largest)}
    IN {f \in after : \A g \in after : ~Before(g.smallest, f.smallest)}

\* The first file after compact_pointer_, or the first one.
NextInLevel(l) ==
    LET after == {f \in files[l] : compactPointer[l] = NoKey
                                   \/ Before(compactPointer[l], f.largest)}
        from == IF after = {} THEN files[l] ELSE after
    IN {f \in from : \A g \in from : ~Before(g.smallest, f.smallest)}

\* SetupOtherInputs
Inputs(l, fs) ==
    LET Parents(gs) == GetOverlappingInputs(files, l + 1, LowestKey(gs), HighestKey(gs))
        parents == Parents(fs)
        wider == GetOverlappingInputs(files, l, LowestKey(fs \cup parents), HighestKey(fs \cup parents))
        grow == /\ parents # {}
                /\ Cardinality(wider) > Cardinality(fs)
                /\ TotalFileSize(parents) + TotalFileSize(wider) < ExpandedLimit
                /\ Cardinality(Parents(wider)) = Cardinality(parents)
        inputs == IF grow THEN wider ELSE fs
        all == inputs \cup Parents(inputs)
    IN [level |-> l,
        inputs |-> inputs,
        parents |-> Parents(inputs),
        grandparents |-> IF l + 2 < NumLevels
                         THEN GetOverlappingInputs(files, l + 2, LowestKey(all), HighestKey(all))
                         ELSE {}]

\* PickCompaction
Picked(l, f) ==
    Inputs(l, IF l = 0 THEN GetOverlappingInputs(files, 0, f.smallest.key, f.largest.key) ELSE {f})

IsTrivialMove(c) ==
    /\ Cardinality(c.inputs) = 1
    /\ c.parents = {}
    /\ TotalFileSize(c.grandparents) <= MaxOverlap

-----------------------------------------------------------------------------
(* DoCompactionWork *)

IsBaseLevelForKey(c, k) ==
    \A l \in (c.level + 2)..(NumLevels - 1) : ~OverlapInLevel(c.version[l], k, k)

\* Wrong version: it is the entry itself that is older than every snapshot.
DropByOwnAge(c, e, newer) ==
    newer <= load.writes /\ e.seq <= c.smallestSnapshot

\* Whether an entry goes: newer is the sequence number of the entry before it
\* if that has the same key, and larger than any otherwise.
Drop(c, e, newer) ==
    \/ newer <= c.smallestSnapshot
    \/ e.type = "deletion" /\ e.seq <= c.smallestSnapshot /\ IsBaseLevelForKey(c, e.key)

\* How far ShouldStopBefore has come among the grandparents, which it passes
\* one by one; those it passes after the first entry count for the output.
PassedBy(c, e) == {g \in c.grandparents : Before(g.largest, e)}

\* One round of the loop, for an entry of the merged inputs.
Round(c, at, e) ==
    LET passing == PassedBy(c, e) \ at.passed
        overlap == at.overlap + IF at.seen THEN TotalFileSize(passing) ELSE 0
        stop == overlap > MaxOverlap
        newer == IF at.key = e.key THEN at.seq ELSE load.writes + 1
        begun == IF stop /\ at.output # << >> THEN Append(at.outputs, at.output) ELSE at.outputs
        rest == IF stop THEN << >> ELSE at.output
        output == IF Drop(c, e, newer) THEN rest ELSE Append(rest, e)
        full == ~Drop(c, e, newer) /\ Len(output) >= load.fileSize
    IN [key |-> e.key, seq |-> e.seq, seen |-> TRUE,
        passed |-> at.passed \cup passing,
        overlap |-> IF stop THEN 0 ELSE overlap,
        outputs |-> IF full THEN Append(begun, output) ELSE begun,
        output |-> IF full THEN << >> ELSE output]

\* What the merging iterator yields, in its order.
Sorted(entries) ==
    [i \in 1..Cardinality(entries) |->
        CHOOSE e \in entries : Cardinality({d \in entries : Before(d, e)}) = i - 1]

\* The loop before its first round.
Start == [key |-> -1, seq |-> 0, seen |-> FALSE, passed |-> {}, overlap |-> 0,
          outputs |-> << >>, output |-> << >>]

\* How the loop stands after each of its rounds.
Rounds(c, merged) ==
    LET at[i \in 0..Len(merged)] == IF i = 0 THEN Start ELSE Round(c, at[i - 1], merged[i])
    IN at

\* The tables a compaction writes.
Outputs(c) ==
    LET merged == Sorted(UNION {f.entries : f \in c.inputs \cup c.parents})
        end == Rounds(c, merged)[Len(merged)]
    IN IF end.output = << >> THEN end.outputs ELSE Append(end.outputs, end.output)

-----------------------------------------------------------------------------
Init ==
    /\ load \in Loads
    /\ lastSeq = 0
    /\ mem = {} /\ imm = {}
    /\ files = [l \in Levels |-> {}]
    /\ nextFile = 1
    /\ snapshots = {}
    /\ compactPointer = [l \in Levels |-> NoKey]
    /\ compaction = NoCompaction

Write(k, type) ==
    /\ lastSeq < load.writes
    /\ lastSeq' = lastSeq + 1
    /\ mem' = mem \cup {[key |-> k, seq |-> lastSeq + 1, type |-> type]}
    /\ UNCHANGED << load, imm, files, nextFile, snapshots, compactPointer, compaction >>

\* MakeRoomForWrite, however much fits into a memtable.
Switch ==
    /\ imm = {} /\ mem # {}
    /\ imm' = mem
    /\ mem' = {}
    /\ UNCHANGED << load, lastSeq, files, nextFile, snapshots, compactPointer, compaction >>

GetSnapshot ==
    /\ Cardinality(snapshots) < load.snapshots
    /\ snapshots' = snapshots \cup {lastSeq}
    /\ UNCHANGED << load, lastSeq, mem, imm, files, nextFile, compactPointer, compaction >>

ReleaseSnapshot(s) ==
    /\ snapshots' = snapshots \ {s}
    /\ UNCHANGED << load, lastSeq, mem, imm, files, nextFile, compactPointer, compaction >>

\* CompactMemTable, by itself or in the middle of a compaction.
CompactMemTable ==
    /\ imm # {}
    /\ LET table == Table(nextFile, imm)
           level == PickLevelForMemTableOutput(files, table.smallest.key, table.largest.key)
       IN files' = [files EXCEPT ![level] = @ \cup {table}]
    /\ nextFile' = nextFile + 1
    /\ imm' = {}
    /\ UNCHANGED << load, lastSeq, mem, snapshots, compactPointer, compaction >>

\* BackgroundCompaction with the inputs it has picked: the only one is moved,
\* or a merge begins.
Begin(c) ==
    /\ compactPointer' = [compactPointer EXCEPT ![c.level] = LastOf({f.largest : f \in c.inputs})]
    /\ IF IsTrivialMove(c)
       THEN /\ files' = [files EXCEPT ![c.level] = @ \ c.inputs, ![c.level + 1] = @ \cup c.inputs]
            /\ compaction' = NoCompaction
       ELSE /\ files' = files
            /\ compaction' = [level |-> c.level, inputs |-> c.inputs, parents |-> c.parents,
                              grandparents |-> c.grandparents, version |-> files,
                              smallestSnapshot |-> Min(snapshots \cup {lastSeq})]

SizeCompaction(l) ==
    /\ compaction = NoCompaction /\ imm = {}
    /\ NeedsCompaction(l)
    /\ \E f \in NextInLevel(l) : Begin(Picked(l, f))
    /\ UNCHANGED << load, lastSeq, mem, imm, nextFile, snapshots >>

SeekCompaction(l) ==
    /\ compaction = NoCompaction /\ imm = {}
    /\ \A m \in 0..(NumLevels - 2) : ~NeedsCompaction(m)
    /\ \E f \in SeekFiles(l) : Begin(Picked(l, f))
    /\ UNCHANGED << load, lastSeq, mem, imm, nextFile, snapshots >>

\* InstallCompactionResults, on top of what is current by now.
Install ==
    /\ compaction # NoCompaction
    /\ LET c == compaction
           tables == {Table(nextFile + i - 1, Range(Outputs(c)[i])) : i \in DOMAIN Outputs(c)}
       IN /\ files' = [files EXCEPT ![c.level] = @ \ c.inputs,
                                    ![c.level + 1] = (@ \ c.parents) \cup tables]
          /\ nextFile' = nextFile + Len(Outputs(c))
    /\ compaction' = NoCompaction
    /\ UNCHANGED << load, lastSeq, mem, imm, snapshots, compactPointer >>

BackgroundStep ==
    \/ CompactMemTable
    \/ \E l \in 0..(NumLevels - 2) : SizeCompaction(l) \/ SeekCompaction(l)
    \/ Install

Next ==
    \/ \E k \in Keys, type \in Types : Write(k, type)
    \/ Switch
    \/ GetSnapshot
    \/ \E s \in snapshots : ReleaseSnapshot(s)
    \/ BackgroundStep

Spec == Init /\ [][Next]_vars

\* The background thread is scheduled again while there is work: weak fairness
\* of each of its actions, with the guard of the last two for what enables
\* them.  Nobody has to read: seek compactions may never come.
CanPick ==
    /\ compaction = NoCompaction /\ imm = {}
    /\ \E l \in 0..(NumLevels - 2) : NeedsCompaction(l) /\ NextInLevel(l) # {}

FairSpec ==
    /\ Spec
    /\ WF_vars(CompactMemTable)
    /\ []<>~CanPick \/ []<><<\E l \in 0..(NumLevels - 2) : SizeCompaction(l)>>_vars
    /\ []<>(compaction = NoCompaction) \/ []<><<Install>>_vars

-----------------------------------------------------------------------------
TypeOK ==
    /\ lastSeq \in 0..load.writes
    /\ mem \subseteq Entry /\ imm \subseteq Entry
    /\ \A l \in Levels : \A f \in files[l] : f.entries \in (SUBSET Entry) \ {{}} /\ f.number < nextFile
    /\ nextFile \in Nat
    /\ snapshots \subseteq 0..lastSeq
    /\ compactPointer \in [Levels -> Entry \cup {NoKey}]

\* What MaybeAddFile asserts: below level 0 the files of a level do not
\* overlap, though a memtable is placed while a compaction is still to install
\* its own.
LevelsAreDisjoint ==
    \A l \in Levels \ {0} : \A f, g \in files[l] :
        f = g \/ Before(f.largest, g.smallest) \/ Before(g.largest, f.smallest)

\* "Entries never hop across levels": of two entries for a key the one in the
\* smaller level is the newer one, so a search may stop where it finds one.
NewerAbove ==
    \A l, m \in Levels : l < m =>
        \A f \in files[l], g \in files[m] : \A a \in f.entries, b \in g.entries :
            a.key = b.key => a.seq > b.seq

\* Every reader sees the map as of its snapshot, whatever has been flushed,
\* merged, moved and dropped since.
Store == INSTANCE SnapshotStore WITH
    last <- lastSeq,
    held <- snapshots,
    view <- [s \in snapshots \cup {lastSeq} |-> [k \in Keys |-> Get(k, s)]]

KeepsStore == Store!Spec

\* Once writers pause, compactions end, and when they do every level has come
\* to fit: none is left that should be compacted and is not.
LevelsFitInTheEnd ==
    <>[](compaction = NoCompaction /\ \A l \in 0..(NumLevels - 2) : Fill(l) < Room(l))
=============================================================================
