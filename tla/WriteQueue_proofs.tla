--------------------------- MODULE WriteQueue_proofs ---------------------------
(***************************************************************************)
(* Proofs about WriteQueue, for any number of threads, any size of the     *)
(* memtable, any triggers, with and without I/O errors.                    *)
(*                                                                         *)
(* The invariant has types and four parts, each resting on those before    *)
(* it: who is in the queue and where (QueueInv), which batches calls,      *)
(* answers and tables name (CallInv), what has been stored (StoredInv),    *)
(* and which logs hold it (LogInv).                                        *)
(***************************************************************************)
EXTENDS WriteQueue, FiniteSetTheorems, TLAPS

Waiting == {"asleep", "signalled"}
Writing == {"log", "sync", "insert", "finish"}
Stored == mem \cup imm \cup tables

\* A group is a beginning of the queue.
IsFront(g) ==
    /\ g \in Seq(Writers)
    /\ Len(g) \in 1..Len(writers)
    /\ \A i \in 1..Len(g) : g[i] = writers[i]

\* A thread is in the queue once, and while it is there it sleeps or is in
\* front.  A group under way is at the front of the queue.
QueueInv ==
    /\ \A i, j \in 1..Len(writers) : writers[i] = writers[j] => i = j
    /\ \A i \in 1..Len(writers) : pc[writers[i]] \in Waiting \cup Busy
    /\ OnlyFrontWrites
    /\ \A w \in Writers : pc[w] \in Writing => IsFront(group)
    /\ outcome # "ok" => \E w \in Writers : pc[w] = "finish"

\* Calls in the queue, and answers, have batches of their own.
CallInv ==
    /\ \A i \in 1..Len(writers) : call[writers[i]] \in Call /\ call[writers[i]].batch <= calls
    /\ \A i, j \in 1..Len(writers) : call[writers[i]].batch = call[writers[j]].batch => i = j
    /\ \A a \in answers : a.batch <= calls
    /\ \A a \in answers, i \in 1..Len(writers) : a.batch # call[writers[i]].batch
    /\ \A b \in Stored : b <= calls

\* The write in front has been inserted.
Inserted == outcome = "ok" /\ \E w \in Writers : pc[w] = "finish"

\* A batch is stored from its insertion on, and not before.
StoredInv ==
    /\ AnswersAreTrue
    /\ \A i \in 1..Len(writers) :
          call[writers[i]].batch \in Stored => Inserted /\ i <= Len(group)
    /\ Inserted => Batches(group) \subseteq mem
    /\ ~hasImm => imm = {}
    /\ bg \in {"build", "apply"} => hasImm

IsLogged(b, n) == \E i \in 1..Len(logs[n].records) : b \in logs[n].records[i].batches
IsSynced(b, n) == \E i \in 1..logs[n].synced : b \in logs[n].records[i].batches

LogNumbers ==
    /\ logNumber \in 1..Len(logs)
    /\ \A n \in 1..Len(logs) : logs[n].synced <= Len(logs[n].records)
    /\ bg = "apply" => editLog = Len(logs)

\* The last log has the memtable, and the logs that are kept have imm_.
MemtablesLogged ==
    /\ \A b \in mem : IsLogged(b, Len(logs))
    /\ \A b \in imm : \E n \in logNumber..Len(logs) : IsLogged(b, n)

\* How far the thread w has got with its group: a group whose front does not
\* sync has nobody who wants it, and what was added, and what was synced, is in
\* the last log.
GroupIsLogged(w) ==
    /\ \A i \in 1..Len(group) : call[group[i]].sync => call[w].sync
    /\ pc[w] \in {"sync", "insert"} \/ (pc[w] = "finish" /\ outcome = "ok") =>
          \A b \in Batches(group) : IsLogged(b, Len(logs))
    /\ call[w].sync /\ (pc[w] = "insert" \/ (pc[w] = "finish" /\ outcome = "ok")) =>
          \A b \in Batches(group) : IsSynced(b, Len(logs))

GroupLogged == \A w \in Writers : pc[w] \in Writing => GroupIsLogged(w)

\* What an answer promised to be synced is synced in the log of its memtable.
IsSafe(b) ==
    /\ b \in mem => IsSynced(b, Len(logs))
    /\ b \in imm => \E n \in logNumber..Len(logs) : IsSynced(b, n)

LogInv ==
    /\ LogNumbers
    /\ MemtablesLogged
    /\ GroupLogged
    /\ \A a \in answers : a.sync /\ a.ok => IsSafe(a.batch)

Inv == TypeOK /\ QueueInv /\ CallInv /\ StoredInv /\ LogInv
-----------------------------------------------------------------------------
(* The queue *)

LEMMA SubSeqIs ==
    ASSUME NEW S, NEW s \in Seq(S), NEW m \in 1..(Len(s) + 1), NEW n \in (m - 1)..Len(s)
    PROVE  /\ SubSeq(s, m, n) \in Seq(S)
           /\ Len(SubSeq(s, m, n)) = n - m + 1
           /\ \A i \in 1..(n - m + 1) : SubSeq(s, m, n)[i] = s[m + i - 1]
OBVIOUS

LEMMA FrontAlone ==
    ASSUME TypeOK, NEW w \in Writers, writers # << >>, w = Head(writers)
    PROVE  IsFront(<< w >>) /\ Range(<< w >>) = {w}
<1>1. writers \in Seq(Writers)
  BY DEF TypeOK
<1>2. Len(writers) \in Nat /\ Len(writers) >= 1 /\ writers[1] = w
  BY <1>1
<1>3. << w >> \in Seq(Writers) /\ Len(<< w >>) = 1 /\ << w >>[1] = w /\ DOMAIN << w >> = {1}
  OBVIOUS
<1> QED BY <1>2, <1>3 DEF IsFront, Range

LEMMA GroupsAreFront ==
    ASSUME TypeOK, NEW w, writers # << >>, NEW g \in Groups(w)
    PROVE  IsFront(g) /\ \A i \in 2..Len(g) : call[g[i]].sync => call[w].sync
<1>1. writers \in Seq(Writers) /\ Len(writers) \in Nat
  BY DEF TypeOK
<1>2. PICK n \in 1..Len(writers) :
          /\ g = SubSeq(writers, 1, n)
          /\ \A i \in 2..n : call[writers[i]].sync => call[w].sync
  BY DEF Groups
<1>3. /\ g \in Seq(Writers) /\ Len(g) = n
      /\ \A i \in 1..n : g[i] = writers[i]
  BY <1>1, <1>2, SubSeqIs
<1> QED BY <1>1, <1>2, <1>3 DEF IsFront

LEMMA InFront ==
    ASSUME TypeOK, QueueInv, NEW g, IsFront(g)
    PROVE  /\ writers # << >>
           /\ Head(writers) = writers[1]
           /\ \A x : x \in Range(g) <=> \E i \in 1..Len(g) : writers[i] = x
           /\ Range(g) \subseteq Writers
           /\ writers[1] \in Range(g)
           /\ \A i \in (Len(g) + 1)..Len(writers) : writers[i] \notin Range(g)
<1>1. writers \in Seq(Writers) /\ Len(writers) \in Nat /\ Len(g) \in 1..Len(writers)
  BY DEF TypeOK, IsFront
<1>2. writers # << >> /\ Head(writers) = writers[1]
  BY <1>1
<1>3. DOMAIN g = 1..Len(g) /\ \A i \in 1..Len(g) : g[i] = writers[i]
  BY DEF IsFront
<1>4. \A x : x \in Range(g) <=> \E i \in 1..Len(g) : writers[i] = x
  BY <1>3 DEF Range
<1>5. \A i \in 1..Len(writers) : writers[i] \in Writers
  BY <1>1
<1>6. \A i \in (Len(g) + 1)..Len(writers) : writers[i] \notin Range(g)
  BY <1>1, <1>4 DEF QueueInv
<1>7. 1 \in DOMAIN g /\ g[1] = writers[1]
  BY <1>1, <1>3
<1>8. writers[1] \in Range(g)
  BY <1>7 DEF Range
<1> QED BY <1>1, <1>2, <1>4, <1>5, <1>6, <1>8

\* What the end of a write leaves of the queue.
LEMMA AfterWriteRest ==
    ASSUME TypeOK, QueueInv, NEW g, IsFront(g), NEW ok \in BOOLEAN, AfterWrite(g, ok)
    PROVE  /\ writers' \in Seq(Writers)
           /\ Len(writers') = Len(writers) - Len(g)
           /\ \A i \in 1..Len(writers') :
                 /\ i + Len(g) \in 1..Len(writers)
                 /\ writers'[i] = writers[i + Len(g)]
                 /\ writers'[i] \notin Range(g)
<1>1. writers \in Seq(Writers) /\ Len(writers) \in Nat /\ Len(g) \in 1..Len(writers)
  BY DEF TypeOK, IsFront
<1>2. writers' = SubSeq(writers, Len(g) + 1, Len(writers))
  BY DEF AfterWrite, Behind
<1>3. Len(g) + 1 \in 1..(Len(writers) + 1) /\ Len(writers) \in (Len(g) + 1 - 1)..Len(writers)
  BY <1>1
<1>4. /\ writers' \in Seq(Writers)
      /\ Len(writers') = Len(writers) - (Len(g) + 1) + 1
      /\ \A i \in 1..(Len(writers) - (Len(g) + 1) + 1) : writers'[i] = writers[(Len(g) + 1) + i - 1]
  BY <1>1, <1>2, <1>3, SubSeqIs
<1>5. \A i \in 1..Len(writers') : i + Len(g) \in (Len(g) + 1)..Len(writers)
                                   /\ writers'[i] = writers[i + Len(g)]
  BY <1>1, <1>4
<1>6. \A i \in (Len(g) + 1)..Len(writers) : writers[i] \notin Range(g)
  BY InFront
<1>7. \A i \in 1..Len(writers') : writers'[i] \notin Range(g)
  BY <1>5, <1>6
<1>8. Len(writers') = Len(writers) - Len(g)
  BY <1>1, <1>4
<1>9. \A i \in 1..Len(writers') : i + Len(g) \in 1..Len(writers)
  BY <1>1, <1>8
<1> QED BY <1>4, <1>5, <1>7, <1>8, <1>9

\* .. and where it leaves the threads.
LEMMA AfterWritePlaces ==
    ASSUME TypeOK, NEW g, NEW ok \in BOOLEAN, AfterWrite(g, ok), NEW x \in Writers
    PROVE  /\ x \in Range(g) => pc'[x] \in {"idle", "immCheck"}
           /\ x \notin Range(g) =>
                 \/ writers' # << >> /\ x = Head(writers') /\ pc'[x] = "signalled"
                 \/ ~(writers' # << >> /\ x = Head(writers')) /\ pc'[x] = pc[x]
                 \/ pc[x] = "bgWait" /\ pc'[x] = "room"
                 \/ pc[x] = "immWait" /\ pc'[x] = "immCheck"
<1> DEFINE P == PlacesAfter(g, ok)
<1>1. pc' = P \/ pc' = SignalAll(P)
  BY DEF AfterWrite
<1>2. pc'[x] = P[x] \/ (P[x] = "bgWait" /\ pc'[x] = "room") \/ (P[x] = "immWait" /\ pc'[x] = "immCheck")
  <2>1. SignalAll(P)[x] = CASE P[x] = "bgWait"  -> "room"
                            [] P[x] = "immWait" -> "immCheck"
                            [] OTHER -> P[x]
    BY DEF SignalAll
  <2> HIDE DEF P
  <2> QED BY <1>1, <2>1
<1>3. /\ x \in Range(g) => P[x] \in {"idle", "immCheck"}
      /\ x \notin Range(g) => P[x] = IF writers' # << >> /\ x = Head(writers') THEN "signalled" ELSE pc[x]
  BY DEF PlacesAfter, AfterWrite
<1> HIDE DEF P
<1> QED BY <1>2, <1>3

\* A step of the thread in front.
LEMMA QueueMoves ==
    ASSUME TypeOK, QueueInv, NEW w \in Writers, writers # << >>, w = Head(writers), NEW p \in Busy,
           pc' = [pc EXCEPT ![w] = p],
           writers' = writers,
           p \in Writing => IsFront(group'),
           outcome' # "ok" => p = "finish"
    PROVE  QueueInv'
<1>1. pc \in [Writers -> WriterPlaces] /\ writers # << >> /\ w = Head(writers)
  BY DEF TypeOK, QueueInv, OnlyFrontWrites
<1>2. pc'[w] = p /\ \A x \in Writers : x # w => pc'[x] = pc[x]
  BY <1>1
<1>3. \A i \in 1..Len(writers) : writers[i] \in Writers
  BY DEF TypeOK
<1>4. \A i \in 1..Len(writers') : pc'[writers'[i]] \in Waiting \cup Busy
  BY <1>2, <1>3 DEF QueueInv
<1>5. \A x \in Writers : x # w => pc'[x] \notin Busy
  BY <1>1, <1>2 DEF QueueInv, OnlyFrontWrites
<1>6. OnlyFrontWrites'
  BY <1>1, <1>5 DEF OnlyFrontWrites
<1>7. \A x \in Writers : pc'[x] \in Writing => IsFront(group)'
  BY <1>2, <1>5 DEF IsFront, Writing, Busy
<1>8. outcome' # "ok" => \E x \in Writers : pc'[x] = "finish"
  BY <1>2
<1> QED BY <1>4, <1>6, <1>7, <1>8 DEF QueueInv

\* A step that wakes threads or none.
LEMMA QueueSignals ==
    ASSUME TypeOK, QueueInv, pc' = SignalAll(pc) \/ pc' = pc,
           UNCHANGED << writers, group, outcome >>
    PROVE  QueueInv'
<1>1. pc \in [Writers -> WriterPlaces]
  BY DEF TypeOK
<1>2. \A x \in Writers : \/ pc'[x] = pc[x]
                         \/ pc[x] = "bgWait" /\ pc'[x] = "room"
                         \/ pc[x] = "immWait" /\ pc'[x] = "immCheck"
  BY <1>1 DEF SignalAll
<1>3. \A i \in 1..Len(writers) : writers[i] \in Writers
  BY DEF TypeOK
<1>4. \A i \in 1..Len(writers') : pc'[writers'[i]] \in Waiting \cup Busy
  BY <1>2, <1>3 DEF QueueInv, Waiting, Busy
<1>5. \A x \in Writers : pc'[x] \in Busy => pc[x] \in Busy
  BY <1>2 DEF Busy
<1>6. \A x \in Writers : pc'[x] \in Writing <=> pc[x] \in Writing
  BY <1>2 DEF Writing
<1>7. \A x \in Writers : pc'[x] = "finish" <=> pc[x] = "finish"
  BY <1>2
<1>8. OnlyFrontWrites'
  BY <1>5 DEF QueueInv, OnlyFrontWrites
<1>9. \A x \in Writers : pc'[x] \in Writing => IsFront(group)'
  BY <1>6 DEF QueueInv, IsFront
<1> QED BY <1>4, <1>7, <1>8, <1>9 DEF QueueInv

LEMMA QueueAfterWrite ==
    ASSUME TypeOK, QueueInv, NEW g, IsFront(g), NEW ok \in BOOLEAN, AfterWrite(g, ok)
    PROVE  QueueInv' /\ \A x \in Writers : pc'[x] \notin Busy
<1>1. writers \in Seq(Writers) /\ Len(writers) \in Nat /\ Len(g) \in 1..Len(writers)
  BY DEF TypeOK, IsFront
<1>2. /\ writers' \in Seq(Writers)
      /\ Len(writers') = Len(writers) - Len(g)
      /\ \A i \in 1..Len(writers') : /\ i + Len(g) \in 1..Len(writers)
                                   /\ writers'[i] = writers[i + Len(g)]
                                   /\ writers'[i] \notin Range(g)
  BY AfterWriteRest
<1>3. \A x \in Writers :
          /\ x \in Range(g) => pc'[x] \in {"idle", "immCheck"}
          /\ x \notin Range(g) =>
                \/ writers' # << >> /\ x = Head(writers') /\ pc'[x] = "signalled"
                \/ ~(writers' # << >> /\ x = Head(writers')) /\ pc'[x] = pc[x]
                \/ pc[x] = "bgWait" /\ pc'[x] = "room"
                \/ pc[x] = "immWait" /\ pc'[x] = "immCheck"
  BY AfterWritePlaces
<1>4. \A x \in Writers : pc[x] \in Busy => x \in Range(g)
  <2>1. Head(writers) = writers[1] /\ writers[1] \in Range(g)
    BY InFront
  <2> QED BY <2>1 DEF QueueInv, OnlyFrontWrites
<1>5. \A x \in Writers : pc'[x] \notin Busy
  BY <1>3, <1>4 DEF Busy
<1>6. \A i \in 1..Len(writers') : pc'[writers'[i]] \in Waiting
  <2> SUFFICES ASSUME NEW i \in 1..Len(writers') PROVE pc'[writers'[i]] \in Waiting
    OBVIOUS
  <2> DEFINE j == i + Len(g)
  <2>1. j \in 1..Len(writers) /\ writers'[i] = writers[j] /\ writers'[i] \notin Range(g)
    BY <1>2
  <2>2. pc[writers[j]] \in Waiting \cup Busy /\ writers[j] \in Writers
    <3> HIDE DEF j
    <3> QED BY <1>1, <2>1 DEF QueueInv
  <2>3. writers'[i] \in Writers /\ writers'[i] \notin Range(g) /\ pc[writers'[i]] \in Waiting \cup Busy
    BY <2>1, <2>2
  <2>4. pc[writers'[i]] \in Waiting
    BY <1>4, <2>3
  <2> QED BY <1>3, <2>3, <2>4 DEF Waiting
<1>7. \A i, j \in 1..Len(writers') : writers'[i] = writers'[j] => i = j
  <2> SUFFICES ASSUME NEW i \in 1..Len(writers'), NEW j \in 1..Len(writers'), writers'[i] = writers'[j]
               PROVE  i = j
    OBVIOUS
  <2>1. i + Len(g) = j + Len(g)
    BY <1>2 DEF QueueInv
  <2> QED BY <1>1, <2>1
<1>8. \A x \in Writers : pc'[x] \notin Writing
  BY <1>5 DEF Writing, Busy
<1>9. outcome' = "ok"
  BY DEF AfterWrite
<1> QED BY <1>5, <1>6, <1>7, <1>8, <1>9 DEF QueueInv, OnlyFrontWrites
-----------------------------------------------------------------------------
(* Types *)

LEMMA BusyIsFront ==
    ASSUME TypeOK, QueueInv, NEW w \in Writers, pc[w] \in Busy
    PROVE  /\ writers # << >> /\ w = Head(writers) /\ w = writers[1]
           /\ Len(writers) \in Nat /\ 1 \in 1..Len(writers)
           /\ IsFront(<< w >>) /\ Range(<< w >>) = {w}
<1>1. writers # << >> /\ w = Head(writers) /\ writers \in Seq(Writers)
  BY DEF QueueInv, OnlyFrontWrites, TypeOK
<1>2. w = writers[1] /\ Len(writers) \in Nat /\ 1 \in 1..Len(writers)
  BY <1>1
<1> QED BY <1>1, <1>2, FrontAlone

\* The calls of a group are in the queue.
LEMMA GroupCalls ==
    ASSUME TypeOK, QueueInv, CallInv, NEW g, IsFront(g)
    PROVE  /\ \A x \in Range(g) : x \in Writers /\ call[x] \in Call /\ call[x].batch <= calls
           /\ Batches(g) \subseteq Batch
           /\ Cardinality(Batches(g)) \in Nat
<1>1. \A x : x \in Range(g) <=> \E i \in 1..Len(g) : writers[i] = x
  BY InFront
<1>2. Len(g) \in 1..Len(writers) /\ Len(writers) \in Nat
  BY DEF TypeOK, IsFront
<1>3. \A x \in Range(g) : call[x] \in Call /\ call[x].batch <= calls
  BY <1>1, <1>2 DEF CallInv
<1>4. Batches(g) \subseteq Batch
  BY <1>3 DEF Batches, Call
<1>5. IsFiniteSet(Batch)
  BY WriteQueueAssumption, FS_Interval DEF Batch
<1>6. Cardinality(Batches(g)) \in Nat
  BY <1>4, <1>5, FS_Subset, FS_CardinalityType
<1> QED BY <1>3, <1>4, <1>6, InFront

LEMMA AfterWriteTypes ==
    ASSUME TypeOK, QueueInv, CallInv, NEW g, IsFront(g), NEW ok \in BOOLEAN, AfterWrite(g, ok)
    PROVE  /\ writers' \in Seq(Writers)
           /\ pc' \in [Writers -> WriterPlaces]
           /\ call' \in [Writers -> Call \cup {NoCall}]
           /\ delayed' \in BOOLEAN /\ group' \in Seq(Writers)
           /\ outcome' \in {"ok", "error", "syncError"}
           /\ answers' \subseteq Answer
<1>1. \A x \in Range(g) : x \in Writers /\ call[x] \in Call
  BY GroupCalls
<1>2. pc \in [Writers -> WriterPlaces] /\ call \in [Writers -> Call \cup {NoCall}] /\ answers \subseteq Answer
  BY DEF TypeOK
<1>3. \A x \in Writers : PlacesAfter(g, ok)[x] \in WriterPlaces
  BY <1>2 DEF PlacesAfter, WriterPlaces
<1>4. PlacesAfter(g, ok) \in [Writers -> WriterPlaces]
  BY <1>3 DEF PlacesAfter
<1>5. pc' \in [Writers -> WriterPlaces]
  <2> DEFINE P == PlacesAfter(g, ok)
  <2>1. pc' = P \/ pc' = SignalAll(P)
    BY DEF AfterWrite
  <2> HIDE DEF P
  <2>2. P \in [Writers -> WriterPlaces]
    BY <1>4 DEF P
  <2> QED BY <2>1, <2>2 DEF SignalAll, WriterPlaces
<1>6. AnswersTo(g, ok) \subseteq Answer
  BY <1>1 DEF AnswersTo, Answer, Call
<1>7. call' \in [Writers -> Call \cup {NoCall}]
  BY <1>2 DEF AfterWrite
<1>8. delayed' \in BOOLEAN /\ group' = << >> /\ outcome' = "ok"
  BY DEF AfterWrite
<1>9. answers' \subseteq Answer
  BY <1>2, <1>6 DEF AfterWrite
<1>10. << >> \in Seq(Writers)
  OBVIOUS
<1> QED BY <1>5, <1>7, <1>8, <1>9, <1>10, AfterWriteRest

LEMMA LastReplaced ==
    ASSUME NEW S, NEW s \in Seq(S), Len(s) >= 1, NEW e \in S,
           NEW t, t = [s EXCEPT ![Len(s)] = e]
    PROVE  /\ t \in Seq(S) /\ Len(t) = Len(s)
           /\ \A n \in 1..Len(s) : n # Len(s) => t[n] = s[n]
           /\ t[Len(s)] = e
OBVIOUS

LEMMA LogExcept ==
    ASSUME NEW l \in Log, NEW r, NEW n
    PROVE  /\ [l EXCEPT !.records = r] = [records |-> r, synced |-> l.synced]
           /\ [l EXCEPT !.synced = n] = [records |-> l.records, synced |-> n]
<1>1. l = [records |-> l.records, synced |-> l.synced]
  BY DEF Log
<1>2. \A a, b : /\ [[records |-> a, synced |-> b] EXCEPT !.records = r] = [records |-> r, synced |-> b]
                /\ [[records |-> a, synced |-> b] EXCEPT !.synced = n] = [records |-> a, synced |-> n]
  OBVIOUS
<1> QED BY <1>1, <1>2

\* The log in use, with a record more ..
LEMMA RecordAdded ==
    ASSUME TypeOK, Len(logs) >= 1, NEW r \in Record,
           NEW new, new = [logs EXCEPT ![Len(logs)].records = Append(@, r)]
    PROVE  /\ new \in Seq(Log) /\ Len(new) = Len(logs)
           /\ \A n \in 1..Len(logs) : n # Len(logs) => new[n] = logs[n]
           /\ new[Len(logs)].records = Append(logs[Len(logs)].records, r)
           /\ new[Len(logs)].synced = logs[Len(logs)].synced
<1> DEFINE last == logs[Len(logs)]
           added == [records |-> Append(last.records, r), synced |-> last.synced]
<1>1. logs \in Seq(Log) /\ Len(logs) \in Nat /\ Len(logs) \in 1..Len(logs)
  BY DEF TypeOK
<1>2. last \in Log
  BY <1>1
<1>3. last.records \in Seq(Record) /\ last.synced \in Nat
  BY <1>2 DEF Log
<1>4. added \in Log
  BY <1>3 DEF Log
<1>5. new = [logs EXCEPT ![Len(logs)] = [last EXCEPT !.records = Append(last.records, r)]]
  BY <1>1
<1>6. [last EXCEPT !.records = Append(last.records, r)] = added
  BY <1>2, LogExcept
<1>7. new = [logs EXCEPT ![Len(logs)] = added]
  BY <1>5, <1>6
<1>8. added.records = Append(last.records, r) /\ added.synced = last.synced
  OBVIOUS
<1>9. \A t : t = [logs EXCEPT ![Len(logs)] = added] =>
         /\ t \in Seq(Log) /\ Len(t) = Len(logs)
         /\ \A n \in 1..Len(logs) : n # Len(logs) => t[n] = logs[n]
         /\ t[Len(logs)] = added
  <2> HIDE DEF added
  <2> QED BY <1>1, <1>4, LastReplaced
<1>10. /\ new \in Seq(Log) /\ Len(new) = Len(logs)
       /\ \A n \in 1..Len(logs) : n # Len(logs) => new[n] = logs[n]
       /\ new[Len(logs)] = added
  <2> HIDE DEF added
  <2> QED BY <1>7, <1>9, Zenon
<1> HIDE DEF added
<1> QED BY <1>8, <1>10

\* .. and synced.
LEMMA LogSynced ==
    ASSUME TypeOK, Len(logs) >= 1,
           NEW new, new = [logs EXCEPT ![Len(logs)].synced = Len(logs[Len(logs)].records)]
    PROVE  /\ new \in Seq(Log) /\ Len(new) = Len(logs)
           /\ \A n \in 1..Len(logs) : n # Len(logs) => new[n] = logs[n]
           /\ new[Len(logs)].records = logs[Len(logs)].records
           /\ new[Len(logs)].synced = Len(logs[Len(logs)].records)
<1> DEFINE last == logs[Len(logs)]
           safe == [records |-> last.records, synced |-> Len(last.records)]
<1>1. logs \in Seq(Log) /\ Len(logs) \in Nat /\ Len(logs) \in 1..Len(logs)
  BY DEF TypeOK
<1>2. last \in Log
  BY <1>1
<1>3. last.records \in Seq(Record) /\ last.synced \in Nat
  BY <1>2 DEF Log
<1>4. safe \in Log
  BY <1>3 DEF Log
<1>5. new = [logs EXCEPT ![Len(logs)] = [last EXCEPT !.synced = Len(last.records)]]
  BY <1>1
<1>6. [last EXCEPT !.synced = Len(last.records)] = safe
  BY <1>2, LogExcept
<1>7. new = [logs EXCEPT ![Len(logs)] = safe]
  BY <1>5, <1>6
<1>8. safe.records = last.records /\ safe.synced = Len(last.records)
  OBVIOUS
<1>9. \A t : t = [logs EXCEPT ![Len(logs)] = safe] =>
         /\ t \in Seq(Log) /\ Len(t) = Len(logs)
         /\ \A n \in 1..Len(logs) : n # Len(logs) => t[n] = logs[n]
         /\ t[Len(logs)] = safe
  <2> HIDE DEF safe
  <2> QED BY <1>1, <1>4, LastReplaced
<1>10. /\ new \in Seq(Log) /\ Len(new) = Len(logs)
       /\ \A n \in 1..Len(logs) : n # Len(logs) => new[n] = logs[n]
       /\ new[Len(logs)] = safe
  <2> HIDE DEF safe
  <2> QED BY <1>7, <1>9, Zenon
<1> HIDE DEF safe
<1> QED BY <1>8, <1>10

LEMMA BgReturnsTypes ==
    ASSUME TypeOK, NEW withImm, NEW files, NEW error, BgReturns(withImm, files, error)
    PROVE  /\ bg' = "idle" /\ merging' = FALSE /\ scheduled' \in BOOLEAN
           /\ pc' = SignalAll(pc) /\ pc' \in [Writers -> WriterPlaces]
<1>1. SignalAll(pc) \in [Writers -> WriterPlaces]
  BY DEF SignalAll, TypeOK, WriterPlaces
<1>2. ScheduledAfter(FALSE, withImm, files, error) \in BOOLEAN
  BY DEF ScheduledAfter
<1> QED BY <1>1, <1>2 DEF BgReturns

LEMMA TypeStep ==
    ASSUME Inv, [Next]_vars
    PROVE  TypeOK'
<1> USE DEF Inv
<1>1. CASE UNCHANGED vars
  BY <1>1 DEF vars, writerVars, dataVars, bgVars, TypeOK
<1>2. ASSUME NEW w \in Writers, NEW null \in BOOLEAN, NEW sync \in BOOLEAN, CallWrite(w, null, sync)
      PROVE  TypeOK'
  <2>1. calls + 1 \in Batch /\ calls + 1 \in 0..MaxCalls
    BY <1>2, WriteQueueAssumption DEF CallWrite, Batch, TypeOK
  <2>2. [batch |-> calls + 1, null |-> null, sync |-> sync] \in Call
    BY <2>1 DEF Call
  <2>3. writers' \in Seq(Writers) /\ pc' \in [Writers -> WriterPlaces]
        /\ call' \in [Writers -> Call \cup {NoCall}]
    BY <1>2, <2>2 DEF CallWrite, TypeOK, WriterPlaces
  <2> QED BY <1>2, <2>1, <2>3 DEF CallWrite, TypeOK, dataVars, bgVars
<1>3. ASSUME NEW w \in Writers, WakeInFront(w) \/ RoomDelays(w) \/ DelayEnds(w) \/ RoomWaits(w)
                                 \/ SyncFails(w) \/ CheckImm(w)
      PROVE  TypeOK'
  <2>1. pc' \in [Writers -> WriterPlaces] /\ delayed' \in BOOLEAN /\ outcome' \in {"ok", "error", "syncError"}
    BY <1>3 DEF WakeInFront, RoomDelays, DelayEnds, RoomWaits, SyncFails, CheckImm, TypeOK, WriterPlaces
  <2> QED BY <1>3, <2>1 DEF WakeInFront, RoomDelays, DelayEnds, RoomWaits, SyncFails, CheckImm,
               TypeOK, dataVars, bgVars
<1>4. ASSUME NEW w \in Writers, RoomFails(w) \/ SwitchFails(w)
      PROVE  TypeOK'
  <2>1. IsFront(<< w >>)
    BY <1>4, BusyIsFront DEF RoomFails, SwitchFails, Busy
  <2>2. AfterWrite(<< w >>, FALSE)
    BY <1>4 DEF RoomFails, SwitchFails
  <2> QED BY <1>4, <2>1, <2>2, AfterWriteTypes DEF RoomFails, SwitchFails, TypeOK, dataVars, bgVars
<1>5. ASSUME NEW w \in Writers, pc[w] = "room", BeginWrite(w)
      PROVE  /\ writers' \in Seq(Writers)
             /\ pc' \in [Writers -> WriterPlaces]
             /\ call' \in [Writers -> Call \cup {NoCall}]
             /\ delayed' \in BOOLEAN /\ group' \in Seq(Writers)
             /\ outcome' \in {"ok", "error", "syncError"}
             /\ answers' \subseteq Answer
  <2>1. IsFront(<< w >>) /\ writers # << >>
    BY <1>5, BusyIsFront DEF Busy
  <2>2. CASE AfterWrite(<< w >>, TRUE)
    BY <2>1, <2>2, AfterWriteTypes
  <2>3. CASE /\ group' \in Groups(w)
             /\ pc' = [pc EXCEPT ![w] = "log"]
             /\ delayed' = FALSE
             /\ UNCHANGED << writers, call, outcome, answers >>
    <3>1. IsFront(group')
      BY <2>1, <2>3, GroupsAreFront
    <3> QED BY <2>3, <3>1 DEF IsFront, TypeOK, WriterPlaces
  <2> QED BY <1>5, <2>2, <2>3 DEF BeginWrite
<1>6. ASSUME NEW w \in Writers, RoomIsThere(w)
      PROVE  TypeOK'
  BY <1>5, <1>6 DEF RoomIsThere, TypeOK, dataVars, bgVars
<1>7. ASSUME NEW w \in Writers, RoomSwitches(w)
      PROVE  TypeOK'
  <2>1. EmptyLog \in Log
    BY DEF EmptyLog, Log
  <2>2. logs' \in Seq(Log) /\ scheduled' \in BOOLEAN
    BY <1>7, <2>1 DEF RoomSwitches, TypeOK, ScheduledAfter
  <2> QED BY <1>5, <1>7, <2>2 DEF RoomSwitches, TypeOK
<1>8. ASSUME NEW w \in Writers, AddRecord(w) \/ AddRecordFails(w)
      PROVE  TypeOK'
  <2>1. IsFront(group)
    BY <1>8 DEF AddRecord, AddRecordFails, QueueInv, Writing
  <2>2. Written \in Record
    BY <2>1, GroupCalls DEF Written, Record, TypeOK
  <2>3. [logs EXCEPT ![Len(logs)].records = Append(@, Written)] \in Seq(Log)
    <3>1. Len(logs) >= 1
      BY DEF LogInv, LogNumbers, TypeOK
    <3> QED BY <2>2, <3>1, RecordAdded
  <2>4. logs' \in Seq(Log) /\ pc' \in [Writers -> WriterPlaces] /\ outcome' \in {"ok", "error", "syncError"}
    BY <1>8, <2>3 DEF AddRecord, AddRecordFails, TypeOK, WriterPlaces
  <2> QED BY <1>8, <2>4 DEF AddRecord, AddRecordFails, TypeOK, bgVars
<1>9. ASSUME NEW w \in Writers, SyncLog(w)
      PROVE  TypeOK'
  <2>1. Len(logs) >= 1
    BY DEF LogInv, LogNumbers, TypeOK
  <2>2. logs' \in Seq(Log)
    BY <1>9, <2>1, LogSynced DEF SyncLog
  <2>3. pc' \in [Writers -> WriterPlaces]
    BY <1>9 DEF SyncLog, TypeOK, WriterPlaces
  <2> QED BY <1>9, <2>2, <2>3 DEF SyncLog, TypeOK, bgVars
<1>10. ASSUME NEW w \in Writers, InsertInto(w)
       PROVE  TypeOK'
  <2>1. Batches(group) \subseteq Batch
    BY <1>10, GroupCalls DEF InsertInto, QueueInv, Writing
  <2>2. mem' \subseteq Batch /\ pc' \in [Writers -> WriterPlaces]
    BY <1>10, <2>1 DEF InsertInto, TypeOK, WriterPlaces
  <2> QED BY <1>10, <2>2 DEF InsertInto, TypeOK, bgVars
<1>11. ASSUME NEW w \in Writers, Finish(w)
       PROVE  TypeOK'
  <2>1. IsFront(group) /\ AfterWrite(group, outcome = "ok")
    BY <1>11 DEF Finish, QueueInv, Writing
  <2>2. lastSeq' \in Nat
    BY <1>11, <2>1, GroupCalls DEF Finish, TypeOK
  <2>3. bgError' \in BOOLEAN
    BY <1>11 DEF Finish, TypeOK
  <2> QED BY <1>11, <2>1, <2>2, <2>3, AfterWriteTypes DEF Finish, TypeOK, bgVars
<1>12. SignalAll(pc) \in [Writers -> WriterPlaces]
  BY DEF SignalAll, TypeOK, WriterPlaces
<1>13. ASSUME BgStep
       PROVE  TypeOK'
  <2>1. CASE BgIdles
    <3>1. BgReturns(hasImm, level0, bgError)
      BY <2>1 DEF BgIdles
    <3> QED BY <2>1, <3>1, BgReturnsTypes DEF BgIdles, TypeOK, BgPlaces, dataVars
  <2>2. CASE BgFlushes \/ BgMerges \/ BgInterrupts \/ Built \/ Merged
    <3>1. Len(logs) \in Nat /\ editLog \in Nat /\ merging \in BOOLEAN
      BY DEF TypeOK
    <3>2. bg' \in BgPlaces /\ merging' \in {TRUE, merging} /\ editLog' \in {Len(logs), editLog}
      BY <2>2 DEF BgFlushes, BgMerges, BgInterrupts, Built, Merged, BgPlaces
    <3>3. UNCHANGED << writerVars, dataVars, level0, scheduled, bgError, closing, calls, answers >>
      BY <2>2 DEF BgFlushes, BgMerges, BgInterrupts, Built, Merged
    <3> QED BY <3>1, <3>2, <3>3 DEF TypeOK, writerVars, dataVars
  <2>3. CASE FlushError
    <3>1. \/ bg' = "merge" /\ merging' = FALSE /\ scheduled' = scheduled /\ pc' = SignalAll(pc)
          \/ BgReturns(hasImm, level0, TRUE)
      BY <2>3 DEF FlushError
    <3>2. /\ bg' \in BgPlaces /\ merging' \in BOOLEAN /\ scheduled' \in BOOLEAN
          /\ pc' \in [Writers -> WriterPlaces]
      BY <1>12, <3>1, BgReturnsTypes DEF TypeOK, BgPlaces
    <3> QED BY <2>3, <3>2 DEF FlushError, TypeOK, dataVars
  <2>4. CASE Applied
    <3>1. \/ bg' = "merge" /\ merging' = FALSE /\ scheduled' = scheduled /\ pc' = SignalAll(pc)
          \/ BgReturns(FALSE, level0', bgError)
      BY <2>4 DEF Applied
    <3>2. /\ bg' \in BgPlaces /\ merging' \in BOOLEAN /\ scheduled' \in BOOLEAN
          /\ pc' \in [Writers -> WriterPlaces]
      BY <1>12, <3>1, BgReturnsTypes DEF TypeOK, BgPlaces
    <3>3. level0 \in Nat /\ level0' \in {level0, level0 + 1}
      BY <2>4 DEF Applied, TypeOK
    <3>4. tables' \subseteq Batch /\ imm' \subseteq Batch /\ hasImm' \in BOOLEAN
          /\ logNumber' \in Nat /\ editLog' \in Nat
      BY <2>4 DEF Applied, TypeOK
    <3>5. level0' \in Nat
      BY <3>3
    <3> QED BY <2>4, <3>2, <3>4, <3>5 DEF Applied, TypeOK
  <2>5. CASE MergeFails
    <3>1. BgReturns(hasImm, level0, TRUE) /\ bgError' = TRUE
      BY <2>5 DEF MergeFails
    <3> QED BY <2>5, <3>1, BgReturnsTypes DEF MergeFails, TypeOK, BgPlaces, dataVars
  <2>6. CASE Installed
    <3>1. BgReturns(hasImm, level0', bgError) /\ level0' \in Nat
      BY <2>6 DEF Installed, TypeOK
    <3> QED BY <2>6, <3>1, BgReturnsTypes DEF Installed, TypeOK, BgPlaces, dataVars
  <2> QED BY <1>13, <2>1, <2>2, <2>3, <2>4, <2>5, <2>6 DEF BgStep, BuildFails, ApplyFails
<1>14. CASE Close
  BY <1>14 DEF Close, TypeOK, writerVars, dataVars, bgVars
<1> QED BY <1>1, <1>2, <1>3, <1>4, <1>6, <1>7, <1>8, <1>9, <1>10, <1>11, <1>13, <1>14 DEF Next, WriterStep
-----------------------------------------------------------------------------
(* The queue is as described *)

\* What a step of the background thread leaves alone.
LEMMA BgLeaves ==
    ASSUME BgStep
    PROVE  /\ pc' = SignalAll(pc) \/ pc' = pc
           /\ UNCHANGED << writers, call, delayed, group, outcome, lastSeq, mem, logs, closing, calls, answers >>
<1>1. CASE BgIdles \/ MergeFails \/ Installed
  BY <1>1 DEF BgIdles, MergeFails, Installed, BgReturns, dataVars
<1>2. CASE BgFlushes \/ BgMerges \/ BgInterrupts \/ Built \/ Merged
  BY <1>2 DEF BgFlushes, BgMerges, BgInterrupts, Built, Merged, writerVars, dataVars
<1>3. CASE FlushError
  BY <1>3 DEF FlushError, BgReturns, dataVars
<1>4. CASE Applied
  BY <1>4 DEF Applied, BgReturns
<1> QED BY <1>1, <1>2, <1>3, <1>4 DEF BgStep, BuildFails, ApplyFails

\* The steps that end no write, by which the thread in front gets on.
FrontStep(w) ==
    \/ WakeInFront(w) \/ RoomDelays(w) \/ DelayEnds(w) \/ RoomWaits(w)
    \/ AddRecord(w) \/ AddRecordFails(w) \/ SyncLog(w) \/ SyncFails(w) \/ InsertInto(w)

LEMMA FrontStepIs ==
    ASSUME TypeOK, QueueInv, NEW w \in Writers, FrontStep(w)
    PROVE  /\ writers # << >> /\ w = Head(writers) /\ outcome = "ok"
           /\ pc[w] \in Busy \cup {"signalled"}
           /\ \E p \in Busy : /\ pc' = [pc EXCEPT ![w] = p]
                              /\ p \in Writing => pc[w] \in Writing
                              /\ outcome' # "ok" => p = "finish"
           /\ UNCHANGED << writers, call, group, lastSeq, calls, answers, imm, hasImm, tables, logNumber,
                           bgVars, bgError, closing >>
<1>1. pc[w] \in (Busy \ {"finish"}) \cup {"signalled"}
  BY DEF FrontStep, WakeInFront, RoomDelays, DelayEnds, RoomWaits, AddRecord, AddRecordFails, SyncLog,
         SyncFails, InsertInto, Busy
<1>2. writers # << >> /\ w = Head(writers)
  <2>1. CASE WakeInFront(w)
    BY <2>1 DEF WakeInFront
  <2>2. CASE pc[w] \in Busy
    BY <2>2 DEF QueueInv, OnlyFrontWrites
  <2> QED BY <2>1, <2>2
           DEF FrontStep, RoomDelays, DelayEnds, RoomWaits, AddRecord, AddRecordFails, SyncLog, SyncFails,
               InsertInto, Busy
<1>3. outcome = "ok"
  <2>1. \A x \in Writers : pc[x] = "finish" => x = w
    BY <1>2 DEF QueueInv, OnlyFrontWrites, Busy
  <2> QED BY <1>1, <2>1 DEF QueueInv
<1>4. UNCHANGED << writers, call, group, lastSeq, calls, answers, imm, hasImm, tables, logNumber,
                   bgVars, bgError, closing >>
  BY DEF FrontStep, WakeInFront, RoomDelays, DelayEnds, RoomWaits, AddRecord, AddRecordFails, SyncLog,
         SyncFails, InsertInto, dataVars
<1>5. CASE WakeInFront(w) \/ RoomDelays(w) \/ DelayEnds(w) \/ RoomWaits(w)
  <2>1. \E p \in {"room", "delayed", "bgWait"} : pc' = [pc EXCEPT ![w] = p]
    BY <1>5 DEF WakeInFront, RoomDelays, DelayEnds, RoomWaits
  <2>2. outcome' = outcome
    BY <1>5 DEF WakeInFront, RoomDelays, DelayEnds, RoomWaits
  <2>3. \A p \in {"room", "delayed", "bgWait"} : p \in Busy /\ p \notin Writing
    BY DEF Busy, Writing
  <2> QED BY <1>1, <1>2, <1>3, <1>4, <2>1, <2>2, <2>3
<1>6. CASE AddRecord(w) \/ SyncLog(w) \/ InsertInto(w)
  <2>1. \E p \in Writing : pc' = [pc EXCEPT ![w] = p]
    BY <1>6 DEF AddRecord, SyncLog, InsertInto, Writing
  <2>2. outcome' = outcome /\ pc[w] \in Writing
    BY <1>6 DEF AddRecord, SyncLog, InsertInto, Writing
  <2>3. \A p \in Writing : p \in Busy
    BY DEF Busy, Writing
  <2> QED BY <1>1, <1>2, <1>3, <1>4, <2>1, <2>2, <2>3
<1>7. CASE AddRecordFails(w) \/ SyncFails(w)
  <2>1. pc' = [pc EXCEPT ![w] = "finish"] /\ pc[w] \in Writing
    BY <1>7 DEF AddRecordFails, SyncFails, Writing
  <2>2. "finish" \in Busy
    BY DEF Busy
  <2> QED BY <1>1, <1>2, <1>3, <1>4, <2>1, <2>2
<1> QED BY <1>5, <1>6, <1>7 DEF FrontStep
\* A group begins to write.
GroupBegins(w) == ~call[w].null /\ (RoomIsThere(w) \/ RoomSwitches(w))

LEMMA GroupBeginsIs ==
    ASSUME TypeOK, QueueInv, NEW w \in Writers, GroupBegins(w)
    PROVE  /\ pc[w] = "room" /\ pc' = [pc EXCEPT ![w] = "log"] /\ outcome = "ok"
           /\ writers # << >> /\ w = Head(writers)
           /\ IsFront(group') /\ \A i \in 2..Len(group') : call[group'[i]].sync => call[w].sync
           /\ UNCHANGED << writers, call, outcome, lastSeq, calls, answers, closing, tables, logNumber, bg,
                           editLog, bgError >>
<1>1. pc[w] = "room" /\ BeginWrite(w) /\ UNCHANGED << lastSeq, calls, closing, tables, logNumber, bg, editLog, bgError >>
  BY DEF GroupBegins, RoomIsThere, RoomSwitches, dataVars, bgVars
<1>2. /\ group' \in Groups(w) /\ pc' = [pc EXCEPT ![w] = "log"]
      /\ UNCHANGED << writers, call, outcome, answers >>
  BY <1>1 DEF BeginWrite, GroupBegins
<1>3. writers # << >> /\ w = Head(writers)
  BY <1>1 DEF QueueInv, OnlyFrontWrites, Busy
<1>4. outcome = "ok"
  <2>1. \A x \in Writers : pc[x] = "finish" => x = w
    BY <1>3 DEF QueueInv, OnlyFrontWrites, Busy
  <2> QED BY <1>1, <2>1 DEF QueueInv
<1> QED BY <1>1, <1>2, <1>3, <1>4, GroupsAreFront

\* A write ends, for the group g.
Ends(w, g, ok) ==
    /\ AfterWrite(g, ok)
    /\ \/ RoomFails(w) /\ g = << w >> /\ ok = FALSE
       \/ SwitchFails(w) /\ g = << w >> /\ ok = FALSE
       \/ RoomIsThere(w) /\ call[w].null /\ g = << w >> /\ ok = TRUE
       \/ RoomSwitches(w) /\ call[w].null /\ g = << w >> /\ ok = TRUE
       \/ Finish(w) /\ g = group /\ ok = (outcome = "ok")

LEMMA EndsIs ==
    ASSUME TypeOK, QueueInv, NEW w \in Writers, NEW g, NEW ok, Ends(w, g, ok)
    PROVE  /\ ok \in BOOLEAN /\ IsFront(g)
           /\ writers # << >> /\ w = Head(writers) /\ pc[w] \in {"room", "finish"}
           /\ UNCHANGED << calls, closing, tables, logNumber, bg, editLog >>
<1>1. pc[w] \in {"room", "finish"}
  BY DEF Ends, RoomFails, SwitchFails, RoomIsThere, RoomSwitches, Finish
<1>2. writers # << >> /\ w = Head(writers) /\ IsFront(<< w >>)
  BY <1>1, BusyIsFront DEF Busy
<1>3. IsFront(g)
  <2>1. CASE Finish(w) /\ g = group
    BY <2>1 DEF Finish, QueueInv, Writing
  <2>2. CASE g = << w >>
    BY <1>2, <2>2
  <2> QED BY <2>1, <2>2 DEF Ends
<1>4. ok \in BOOLEAN
  BY DEF Ends
<1>5. UNCHANGED << calls, closing, tables, logNumber, bg, editLog >>
  BY DEF Ends, RoomFails, SwitchFails, RoomIsThere, RoomSwitches, Finish, dataVars, bgVars
<1> QED BY <1>1, <1>2, <1>3, <1>4, <1>5

\* What the steps are.
LEMMA StepsAre ==
    ASSUME [Next]_vars
    PROVE  \/ UNCHANGED vars
           \/ \E w \in Writers, null, sync \in BOOLEAN : CallWrite(w, null, sync)
           \/ \E w \in Writers : FrontStep(w)
           \/ \E w \in Writers : GroupBegins(w)
           \/ \E w \in Writers : \E g, ok : Ends(w, g, ok)
           \/ \E w \in Writers : CheckImm(w)
           \/ BgStep
           \/ Close
<1>1. ASSUME NEW w \in Writers, WriterStep(w)
      PROVE  \/ FrontStep(w)
             \/ GroupBegins(w)
             \/ \E g, ok : Ends(w, g, ok)
             \/ CheckImm(w)
  <2>1. CASE RoomFails(w) \/ SwitchFails(w)
    <3>1. Ends(w, << w >>, FALSE)
      BY <2>1 DEF RoomFails, SwitchFails, Ends
    <3> QED BY <3>1
  <2>2. CASE call[w].null /\ (RoomIsThere(w) \/ RoomSwitches(w))
    <3>1. Ends(w, << w >>, TRUE)
      BY <2>2 DEF RoomIsThere, RoomSwitches, BeginWrite, Ends
    <3> QED BY <3>1
  <2>3. CASE Finish(w)
    <3>1. Ends(w, group, outcome = "ok")
      BY <2>3 DEF Finish, Ends
    <3> QED BY <3>1
  <2> QED BY <1>1, <2>1, <2>2, <2>3 DEF WriterStep, FrontStep, GroupBegins
<1> QED BY <1>1 DEF Next

LEMMA QueueStep ==
    ASSUME TypeOK, QueueInv, [Next]_vars
    PROVE  QueueInv'
<1>1. CASE UNCHANGED vars
  BY <1>1 DEF vars, writerVars, QueueInv, OnlyFrontWrites, IsFront
<1>2. ASSUME NEW w \in Writers, NEW null \in BOOLEAN, NEW sync \in BOOLEAN, CallWrite(w, null, sync)
      PROVE  QueueInv'
  <2> DEFINE place == IF writers = << >> THEN "room" ELSE "asleep"
  <2>1. /\ writers \in Seq(Writers) /\ Len(writers) \in Nat /\ pc \in [Writers -> WriterPlaces]
        /\ pc[w] = "idle" /\ pc' = [pc EXCEPT ![w] = place]
        /\ writers' = Append(writers, w) /\ UNCHANGED << group, outcome >>
    BY <1>2 DEF CallWrite, TypeOK
  <2>2. /\ Len(writers') = Len(writers) + 1 /\ writers'[Len(writers) + 1] = w
        /\ \A i \in 1..Len(writers) : writers'[i] = writers[i] /\ writers[i] \in Writers
    BY <2>1
  <2>3. \A i \in 1..Len(writers) : writers[i] # w
    BY <2>1 DEF QueueInv, Waiting, Busy
  <2>4. pc'[w] = place /\ \A x \in Writers : x # w => pc'[x] = pc[x]
    BY <2>1
  <2>5. place \in {"room", "asleep"} /\ (writers # << >> => place = "asleep")
    OBVIOUS
  <2> HIDE DEF place
  <2>6. \A i, j \in 1..Len(writers') : writers'[i] = writers'[j] => i = j
    <3> SUFFICES ASSUME NEW i \in 1..Len(writers'), NEW j \in 1..Len(writers'), writers'[i] = writers'[j]
                 PROVE  i = j
      OBVIOUS
    <3>1. i \in 1..Len(writers) \/ i = Len(writers) + 1
      BY <2>1, <2>2
    <3>2. j \in 1..Len(writers) \/ j = Len(writers) + 1
      BY <2>1, <2>2
    <3> QED BY <2>2, <2>3, <3>1, <3>2 DEF QueueInv
  <2>7. \A i \in 1..Len(writers') : pc'[writers'[i]] \in Waiting \cup Busy
    <3> SUFFICES ASSUME NEW i \in 1..Len(writers') PROVE pc'[writers'[i]] \in Waiting \cup Busy
      OBVIOUS
    <3>1. CASE i = Len(writers) + 1
      BY <2>2, <2>4, <2>5, <3>1 DEF Waiting, Busy
    <3>2. CASE i \in 1..Len(writers)
      BY <2>2, <2>3, <2>4, <3>2 DEF QueueInv
    <3> QED BY <2>1, <2>2, <3>1, <3>2
  <2>8. OnlyFrontWrites'
    <3>1. CASE writers = << >>
      <4>1. writers' = << w >> /\ \A x \in Writers : pc[x] \notin Busy
        BY <2>1, <3>1 DEF QueueInv, OnlyFrontWrites
      <4> QED BY <2>4, <4>1 DEF OnlyFrontWrites
    <3>2. CASE writers # << >>
      <4>1. writers' # << >> /\ Head(writers') = Head(writers)
        BY <2>1, <3>2
      <4>2. pc'[w] \notin Busy
        BY <2>4, <2>5, <3>2 DEF Busy
      <4> QED BY <2>4, <4>1, <4>2 DEF QueueInv, OnlyFrontWrites
    <3> QED BY <3>1, <3>2
  <2>9. \A x \in Writers : pc'[x] \in Writing => IsFront(group)'
    <3> SUFFICES ASSUME NEW x \in Writers, pc'[x] \in Writing PROVE IsFront(group)'
      OBVIOUS
    <3>1. pc[x] \in Writing
      BY <2>4, <2>5 DEF Writing
    <3>2. IsFront(group)
      BY <3>1 DEF QueueInv
    <3>3. Len(group) \in 1..Len(writers') /\ \A i \in 1..Len(group) : group[i] = writers'[i]
      BY <2>1, <2>2, <3>2 DEF IsFront
    <3> QED BY <2>1, <3>2, <3>3 DEF IsFront
  <2>10. outcome' # "ok" => \E x \in Writers : pc'[x] = "finish"
    <3>1. \A x \in Writers : pc[x] = "finish" => pc'[x] = "finish"
      BY <2>1, <2>4
    <3> QED BY <2>1, <3>1 DEF QueueInv
  <2> QED BY <2>6, <2>7, <2>8, <2>9, <2>10 DEF QueueInv
<1>3. ASSUME NEW w \in Writers, FrontStep(w)
      PROVE  QueueInv'
  <2>1. PICK p \in Busy : /\ pc' = [pc EXCEPT ![w] = p]
                          /\ p \in Writing => pc[w] \in Writing
                          /\ outcome' # "ok" => p = "finish"
    BY <1>3, FrontStepIs
  <2>2. writers # << >> /\ w = Head(writers) /\ UNCHANGED << writers, group >>
    BY <1>3, FrontStepIs
  <2>3. p \in Writing => IsFront(group')
    BY <2>1, <2>2 DEF QueueInv
  <2> QED BY <2>1, <2>2, <2>3, QueueMoves
<1>4. ASSUME NEW w \in Writers, GroupBegins(w)
      PROVE  QueueInv'
  <2>1. "log" \in Busy
    BY DEF Busy
  <2> QED BY <1>4, <2>1, GroupBeginsIs, QueueMoves
<1>5. ASSUME NEW w \in Writers, NEW g, NEW ok, Ends(w, g, ok)
      PROVE  QueueInv'
  BY <1>5, EndsIs, QueueAfterWrite DEF Ends
<1>6. ASSUME NEW w \in Writers, CheckImm(w)
      PROVE  QueueInv'
  <2>1. /\ pc \in [Writers -> WriterPlaces] /\ pc[w] = "immCheck"
        /\ \E p \in {"immWait", "idle"} : pc' = [pc EXCEPT ![w] = p]
        /\ UNCHANGED << writers, group, outcome >>
    BY <1>6 DEF CheckImm, TypeOK
  <2>2. pc'[w] \in {"immWait", "idle"} /\ \A x \in Writers : x # w => pc'[x] = pc[x]
    BY <2>1
  <2>3. \A i \in 1..Len(writers) : writers[i] \in Writers /\ writers[i] # w
    <3>1. \A i \in 1..Len(writers) : writers[i] \in Writers
      BY DEF TypeOK
    <3>2. "immCheck" \notin Waiting \cup Busy
      BY DEF Waiting, Busy
    <3>3. \A i \in 1..Len(writers) : pc[writers[i]] \in Waiting \cup Busy
      BY DEF QueueInv
    <3> QED BY <2>1, <3>1, <3>2, <3>3
  <2>4. \A x \in Writers : /\ pc'[x] \in Busy => pc[x] \in Busy
                           /\ pc'[x] \in Writing => pc[x] \in Writing
                           /\ pc[x] = "finish" => pc'[x] = "finish"
    BY <2>1, <2>2 DEF Busy, Writing
  <2>5. \A i \in 1..Len(writers') : pc'[writers'[i]] \in Waiting \cup Busy
    BY <2>1, <2>2, <2>3 DEF QueueInv
  <2>6. OnlyFrontWrites'
    BY <2>1, <2>4 DEF QueueInv, OnlyFrontWrites
  <2>7. \A x \in Writers : pc'[x] \in Writing => IsFront(group)'
    BY <2>1, <2>4 DEF QueueInv, IsFront
  <2> QED BY <2>1, <2>4, <2>5, <2>6, <2>7 DEF QueueInv
<1>7. CASE BgStep
  BY <1>7, BgLeaves, QueueSignals
<1>8. CASE Close
  BY <1>8, QueueSignals DEF Close, writerVars
<1> QED BY <1>1, <1>2, <1>3, <1>4, <1>5, <1>6, <1>7, <1>8, StepsAre
-----------------------------------------------------------------------------
(* Batches belong to calls *)

\* A switch moves the batches, and the background thread does.
LEMMA SwitchStores ==
    ASSUME StoredInv, NEW w \in Writers, RoomSwitches(w)
    PROVE  Stored' = Stored /\ hasImm' = TRUE /\ imm' = mem /\ mem' = {} /\ bg' = bg /\ ~hasImm
<1>1. ~hasImm /\ imm' = mem /\ mem' = {} /\ hasImm' = TRUE /\ UNCHANGED << tables, bg >>
  BY DEF RoomSwitches, CanSwitch, MustWait
<1> QED BY <1>1 DEF Stored, StoredInv

LEMMA RoomStores ==
    ASSUME StoredInv, NEW w \in Writers, RoomSwitches(w) \/ RoomIsThere(w)
    PROVE  Stored' = Stored /\ (~hasImm' => imm' = {}) /\ (hasImm => hasImm') /\ bg' = bg
<1>1. CASE RoomIsThere(w)
  BY <1>1 DEF RoomIsThere, dataVars, bgVars, Stored, StoredInv
<1> QED BY <1>1, SwitchStores

LEMMA EndStores ==
    ASSUME StoredInv, NEW w \in Writers, NEW g, NEW ok, Ends(w, g, ok)
    PROVE  Stored' = Stored /\ (~hasImm' => imm' = {}) /\ (hasImm => hasImm') /\ bg' = bg
<1>1. CASE RoomFails(w) \/ SwitchFails(w) \/ Finish(w)
  BY <1>1 DEF RoomFails, SwitchFails, Finish, dataVars, bgVars, Stored, StoredInv
<1> QED BY <1>1, RoomStores DEF Ends

LEMMA BgStores ==
    ASSUME StoredInv, BgStep
    PROVE  /\ Stored' = Stored /\ (~hasImm' => imm' = {})
           /\ bg' \in {"build", "apply"} => hasImm'
<1>1. CASE Applied
  BY <1>1 DEF Applied, BgReturns, Stored
<1>2. CASE BgIdles \/ BgFlushes \/ BgMerges \/ BgInterrupts \/ Built \/ Merged \/ MergeFails \/ Installed
  <2>1. UNCHANGED << mem, imm, tables, hasImm >>
    BY <1>2 DEF BgIdles, BgFlushes, BgMerges, BgInterrupts, Built, Merged, MergeFails, Installed, dataVars
  <2>2. bg' \in {"build", "apply"} => hasImm
    BY <1>2 DEF BgIdles, BgFlushes, BgMerges, BgInterrupts, Built, Merged, MergeFails, Installed, BgReturns, StoredInv
  <2> QED BY <2>1, <2>2 DEF Stored, StoredInv
<1>3. CASE FlushError
  <2>1. UNCHANGED << mem, imm, tables, hasImm >> /\ bg' \in {"idle", "merge"}
    BY <1>3 DEF FlushError, BgReturns, dataVars
  <2> QED BY <2>1 DEF Stored, StoredInv
<1> QED BY <1>1, <1>2, <1>3 DEF BgStep, BuildFails, ApplyFails

LEMMA CallsKept ==
    ASSUME CallInv, UNCHANGED << writers, call, calls, answers >>, \A b \in Stored' : b <= calls
    PROVE  CallInv'
BY DEF CallInv

LEMMA CallStep ==
    ASSUME TypeOK, QueueInv, CallInv, StoredInv, [Next]_vars
    PROVE  CallInv'
<1>1. CASE UNCHANGED vars
  BY <1>1, CallsKept DEF vars, writerVars, dataVars, CallInv, Stored
<1>2. ASSUME NEW w \in Writers, NEW null \in BOOLEAN, NEW sync \in BOOLEAN, CallWrite(w, null, sync)
      PROVE  CallInv'
  <2> DEFINE new == [batch |-> calls + 1, null |-> null, sync |-> sync]
  <2>1. /\ writers \in Seq(Writers) /\ Len(writers) \in Nat /\ pc[w] = "idle"
        /\ calls \in Nat /\ calls' = calls + 1 /\ calls + 1 \in Batch
        /\ call' = [call EXCEPT ![w] = new] /\ call \in [Writers -> Call \cup {NoCall}]
        /\ writers' = Append(writers, w) /\ answers' = answers /\ Stored' = Stored
    BY <1>2, WriteQueueAssumption DEF CallWrite, TypeOK, Batch, Stored, dataVars
  <2>2. new \in Call /\ new.batch = calls + 1
    BY <2>1 DEF Call
  <2> HIDE DEF new
  <2>3. /\ Len(writers') = Len(writers) + 1 /\ writers'[Len(writers) + 1] = w
        /\ \A i \in 1..Len(writers) : writers'[i] = writers[i] /\ writers[i] \in Writers
    BY <2>1
  <2>4. \A i \in 1..Len(writers) : writers[i] # w
    BY <2>1 DEF QueueInv, Waiting, Busy
  <2>5. call'[w] = new /\ \A x \in Writers : x # w => call'[x] = call[x]
    BY <2>1
  <2>6. \A i \in 1..Len(writers') :
            \/ i \in 1..Len(writers) /\ call'[writers'[i]] = call[writers[i]]
            \/ i = Len(writers) + 1 /\ call'[writers'[i]] = new
    BY <2>1, <2>3, <2>4, <2>5
  <2>7. \A i \in 1..Len(writers) : call[writers[i]] \in Call /\ call[writers[i]].batch <= calls
                                    /\ call[writers[i]].batch \in Nat
    BY WriteQueueAssumption DEF CallInv, Call, Batch
  <2>8. \A i \in 1..Len(writers') : call'[writers'[i]] \in Call /\ call'[writers'[i]].batch <= calls'
    BY <2>1, <2>2, <2>6, <2>7
  <2>9. \A i, j \in 1..Len(writers') : call'[writers'[i]].batch = call'[writers'[j]].batch => i = j
    <3> SUFFICES ASSUME NEW i \in 1..Len(writers'), NEW j \in 1..Len(writers'),
                        call'[writers'[i]].batch = call'[writers'[j]].batch
                 PROVE  i = j
      OBVIOUS
    <3>1. CASE i \in 1..Len(writers) /\ j \in 1..Len(writers)
      BY <2>1, <2>6, <3>1 DEF CallInv
    <3>2. CASE i = Len(writers) + 1 \/ j = Len(writers) + 1
      BY <2>1, <2>2, <2>6, <2>7, <3>2
    <3> QED BY <2>6, <3>1, <3>2
  <2>10. answers \subseteq Answer /\ \A a \in answers : a.batch \in Nat /\ a.batch <= calls
    BY WriteQueueAssumption DEF TypeOK, CallInv, Answer, Batch
  <2>11. \A a \in answers', i \in 1..Len(writers') : a.batch # call'[writers'[i]].batch
    <3> SUFFICES ASSUME NEW a \in answers, NEW i \in 1..Len(writers')
                 PROVE  a.batch # call'[writers'[i]].batch
      BY <2>1
    <3>1. CASE i \in 1..Len(writers) /\ call'[writers'[i]] = call[writers[i]]
      BY <3>1 DEF CallInv
    <3>2. CASE call'[writers'[i]] = new
      BY <2>1, <2>2, <2>10, <3>2
    <3> QED BY <2>6, <3>1, <3>2
  <2>12. \A a \in answers' : a.batch <= calls'
    BY <2>1, <2>10
  <2>13. \A b \in Stored' : b <= calls'
    <3>1. Stored \subseteq Batch
      BY DEF Stored, TypeOK
    <3>2. \A b \in Stored : b \in Nat
      BY <3>1, WriteQueueAssumption DEF Batch
    <3>3. \A b \in Stored : b <= calls
      BY DEF CallInv
    <3> QED BY <2>1, <3>2, <3>3
  <2> QED BY <2>8, <2>9, <2>11, <2>12, <2>13 DEF CallInv
<1>3. ASSUME NEW w \in Writers, FrontStep(w)
      PROVE  CallInv'
  <2>1. UNCHANGED << writers, call, calls, answers, imm, tables >>
    BY <1>3, FrontStepIs
  <2>2. CASE mem' = mem
    BY <2>1, <2>2, CallsKept DEF CallInv, Stored
  <2>3. CASE InsertInto(w)
    <3>1. IsFront(group) /\ mem' = mem \cup Batches(group)
      BY <2>3 DEF InsertInto, QueueInv, Writing
    <3>2. \A b \in Batches(group) : b <= calls
      BY <3>1, GroupCalls DEF Batches
    <3> QED BY <2>1, <3>1, <3>2, CallsKept DEF CallInv, Stored
  <2>4. mem' = mem \/ InsertInto(w)
    BY <1>3 DEF FrontStep, WakeInFront, RoomDelays, DelayEnds, RoomWaits, AddRecord, AddRecordFails, SyncLog,
         SyncFails, dataVars
  <2> QED BY <2>2, <2>3, <2>4
<1>4. ASSUME NEW w \in Writers, GroupBegins(w)
      PROVE  CallInv'
  <2>1. Stored' = Stored
    BY <1>4, RoomStores DEF GroupBegins
  <2>2. UNCHANGED << writers, call, calls, answers >>
    BY <1>4, GroupBeginsIs
  <2> QED BY <2>1, <2>2, CallsKept DEF CallInv
<1>5. ASSUME NEW w \in Writers, NEW g, NEW ok, Ends(w, g, ok)
      PROVE  CallInv'
  <2>1. AfterWrite(g, ok) /\ IsFront(g) /\ ok \in BOOLEAN /\ calls' = calls
    BY <1>5, EndsIs DEF Ends
  <2>2. \A i \in 1..Len(writers') : /\ i + Len(g) \in 1..Len(writers)
                                   /\ writers'[i] = writers[i + Len(g)]
                                   /\ writers'[i] \notin Range(g) /\ writers'[i] \in Writers
    BY <2>1, AfterWriteRest
  <2>3. Len(g) \in Nat /\ \A x \in Writers : x \notin Range(g) => call'[x] = call[x]
    BY <2>1 DEF AfterWrite, IsFront
  <2>4. \A i \in 1..Len(writers') : i + Len(g) \in 1..Len(writers) /\ call'[writers'[i]] = call[writers[i + Len(g)]]
    BY <2>2, <2>3
  <2>5. \A i \in 1..Len(writers') : call'[writers'[i]] \in Call /\ call'[writers'[i]].batch <= calls'
    BY <2>1, <2>4 DEF CallInv
  <2>6. \A i, j \in 1..Len(writers') : call'[writers'[i]].batch = call'[writers'[j]].batch => i = j
    <3> SUFFICES ASSUME NEW i \in 1..Len(writers'), NEW j \in 1..Len(writers'),
                        call'[writers'[i]].batch = call'[writers'[j]].batch
                 PROVE  i = j
      OBVIOUS
    <3>1. \A m, n \in 1..Len(writers) : call[writers[m]].batch = call[writers[n]].batch => m = n
      BY DEF CallInv
    <3>2. call[writers[i + Len(g)]].batch = call[writers[j + Len(g)]].batch
      BY <2>4
    <3>3. i + Len(g) = j + Len(g)
      BY <2>4, <3>1, <3>2
    <3> QED BY <2>3, <3>3
  <2>7. \A a \in answers' : \/ a \in answers
                            \/ \E j \in 1..Len(g) : a.batch = call[writers[j]].batch
    <3>1. answers' = answers \cup AnswersTo(g, ok)
      BY <2>1 DEF AfterWrite
    <3>2. \A a \in AnswersTo(g, ok) : \E x \in Range(g) : a.batch = call[x].batch
      BY DEF AnswersTo
    <3> QED BY <2>1, <3>1, <3>2, InFront
  <2>8. Len(g) \in 1..Len(writers) /\ Len(writers) \in Nat
    BY <2>1 DEF IsFront, TypeOK
  <2>9. \A a \in answers' : a.batch <= calls'
    BY <2>1, <2>7, <2>8 DEF CallInv
  <2>10. \A a \in answers', i \in 1..Len(writers') : a.batch # call'[writers'[i]].batch
    <3> SUFFICES ASSUME NEW a \in answers', NEW i \in 1..Len(writers')
                 PROVE  a.batch # call[writers[i + Len(g)]].batch
      BY <2>4
    <3>1. CASE a \in answers
      BY <2>4, <3>1 DEF CallInv
    <3>2. ASSUME NEW j \in 1..Len(g), a.batch = call[writers[j]].batch
          PROVE  a.batch # call[writers[i + Len(g)]].batch
      <4>1. j \in 1..Len(writers) /\ i + Len(g) \in 1..Len(writers) /\ j # i + Len(g)
        BY <2>4, <2>8
      <4> QED BY <3>2, <4>1 DEF CallInv
    <3> QED BY <2>7, <3>1, <3>2
  <2>11. \A b \in Stored' : b <= calls'
    BY <1>5, <2>1, EndStores DEF CallInv
  <2> QED BY <2>5, <2>6, <2>9, <2>10, <2>11 DEF CallInv
<1>6. ASSUME NEW w \in Writers, CheckImm(w)
      PROVE  CallInv'
  BY <1>6, CallsKept DEF CheckImm, dataVars, Stored, CallInv
<1>7. CASE BgStep
  BY <1>7, BgLeaves, BgStores, CallsKept DEF CallInv
<1>8. CASE Close
  BY <1>8, CallsKept DEF Close, writerVars, dataVars, Stored, CallInv
<1> QED BY <1>1, <1>2, <1>3, <1>4, <1>5, <1>6, <1>7, <1>8, StepsAre
-----------------------------------------------------------------------------
(* A batch is stored from its insertion on *)

\* While the thread in front is not at the end of Write, nothing is inserted.
LEMMA NotInserted ==
    ASSUME QueueInv, NEW w \in Writers, writers # << >>, w = Head(writers), pc[w] # "finish"
    PROVE  ~Inserted
<1>1. \A x \in Writers : pc[x] = "finish" => x = w
  BY DEF QueueInv, OnlyFrontWrites, Busy
<1> QED BY <1>1 DEF Inserted

LEMMA StoredKept ==
    ASSUME StoredInv, UNCHANGED << writers, call, group, answers, mem >>, Stored' = Stored,
           Inserted' <=> Inserted,
           ~hasImm' => imm' = {},
           bg' \in {"build", "apply"} => hasImm'
    PROVE  StoredInv'
<1>1. AnswersAreTrue'
  BY DEF StoredInv, AnswersAreTrue, Stored
<1>2. Batches(group)' = Batches(group)
  BY DEF Batches, Range
<1> QED BY <1>1, <1>2 DEF StoredInv

LEMMA StoredStep ==
    ASSUME TypeOK, QueueInv, CallInv, StoredInv, [Next]_vars
    PROVE  StoredInv'
<1>1. CASE UNCHANGED vars
  BY <1>1, StoredKept DEF vars, writerVars, dataVars, bgVars, StoredInv, Stored, Inserted
<1>2. ASSUME NEW w \in Writers, NEW null \in BOOLEAN, NEW sync \in BOOLEAN, CallWrite(w, null, sync)
      PROVE  StoredInv'
  <2>1. /\ writers \in Seq(Writers) /\ Len(writers) \in Nat /\ pc[w] = "idle"
        /\ pc \in [Writers -> WriterPlaces] /\ calls \in Nat
        /\ \A x \in Writers : x # w => pc'[x] = pc[x] /\ call'[x] = call[x]
        /\ pc'[w] \in {"room", "asleep"}
        /\ call'[w].batch = calls + 1
        /\ writers' = Append(writers, w)
        /\ UNCHANGED << group, outcome, answers, mem, imm, tables, hasImm, bg >>
    BY <1>2 DEF CallWrite, TypeOK, dataVars, bgVars
  <2>2. Stored' = Stored
    BY <2>1 DEF Stored
  <2>3. Inserted' <=> Inserted
    <3>1. \A x \in Writers : pc'[x] = "finish" <=> pc[x] = "finish"
      BY <2>1
    <3> QED BY <2>1, <3>1 DEF Inserted
  <2>4. AnswersAreTrue'
    BY <2>1 DEF StoredInv, AnswersAreTrue
  <2>5. \A i \in 1..Len(writers) : writers[i] \in Writers /\ writers[i] # w
    BY <2>1 DEF QueueInv, Waiting, Busy
  <2>6. \A i \in 1..Len(writers') : call'[writers'[i]].batch \in Stored' => Inserted' /\ i <= Len(group')
    <3> SUFFICES ASSUME NEW i \in 1..Len(writers'), call'[writers'[i]].batch \in Stored
                 PROVE  Inserted /\ i <= Len(group)
      BY <2>1, <2>2, <2>3
    <3>1. CASE i \in 1..Len(writers)
      <4>1. writers'[i] = writers[i]
        BY <2>1, <3>1
      <4>2. call'[writers'[i]] = call[writers[i]]
        BY <2>1, <2>5, <3>1, <4>1
      <4> QED BY <3>1, <4>2 DEF StoredInv
    <3>2. CASE i = Len(writers) + 1
      <4>1. writers'[i] = w
        BY <2>1, <3>2
      <4>2. calls + 1 \in Stored
        BY <2>1, <4>1
      <4>3. calls + 1 <= calls
        BY <4>2 DEF CallInv
      <4> QED BY <2>1, <4>3
    <3> QED BY <2>1, <3>1, <3>2
  <2>7. Inserted' => Batches(group)' \subseteq mem'
    <3> SUFFICES ASSUME Inserted PROVE Batches(group)' \subseteq mem
      BY <2>1, <2>3
    <3>1. IsFront(group)
      BY DEF QueueInv, Inserted, Writing
    <3>2. \A x \in Range(group) : \E i \in 1..Len(writers) : x = writers[i]
      <4>1. \A x : x \in Range(group) <=> \E i \in 1..Len(group) : writers[i] = x
        BY <3>1, InFront
      <4>2. \A i \in 1..Len(group) : i \in 1..Len(writers)
        BY <2>1, <3>1 DEF IsFront
      <4> QED BY <4>1, <4>2
    <3>3. \A x \in Range(group) : call'[x] = call[x]
      BY <2>1, <2>5, <3>2
    <3>4. Batches(group)' = Batches(group)
      BY <2>1, <3>3 DEF Batches, Range
    <3> QED BY <3>4 DEF StoredInv
  <2> QED BY <2>1, <2>4, <2>6, <2>7 DEF StoredInv
<1>3. ASSUME NEW w \in Writers, FrontStep(w)
      PROVE  StoredInv'
  <2>1. /\ writers # << >> /\ w = Head(writers) /\ outcome = "ok" /\ pc[w] # "finish"
        /\ UNCHANGED << writers, call, group, answers, imm, tables, hasImm, bg >>
    <3>1. pc[w] # "finish"
      BY <1>3 DEF FrontStep, WakeInFront, RoomDelays, DelayEnds, RoomWaits, AddRecord, AddRecordFails,
         SyncLog, SyncFails, InsertInto
    <3> QED BY <1>3, <3>1, FrontStepIs DEF bgVars
  <2>2. ~Inserted
    BY <2>1, NotInserted
  <2>3. CASE InsertInto(w)
    <3>1. /\ IsFront(group) /\ mem' = mem \cup Batches(group) /\ outcome' = outcome
          /\ pc' = [pc EXCEPT ![w] = "finish"]
      BY <2>3 DEF InsertInto, QueueInv, Writing
    <3>2. Inserted'
      BY <2>1, <3>1 DEF Inserted, TypeOK
    <3>3. \A b \in Batches(group) : \E j \in 1..Len(group) : b = call[writers[j]].batch
      <4>1. \A b \in Batches(group) : \E x \in Range(group) : b = call[x].batch
        BY DEF Batches
      <4> QED BY <3>1, <4>1, InFront
    <3>4. Len(group) \in 1..Len(writers) /\ Len(writers) \in Nat
      BY <3>1 DEF IsFront, TypeOK
    <3>5. \A j \in 1..Len(group) : j \in 1..Len(writers)
      BY <3>4
    <3>6. Stored' = Stored \cup Batches(group)
      BY <2>1, <3>1 DEF Stored
    <3>7. \A a \in answers : a.batch \notin Batches(group)
      BY <3>3, <3>5 DEF CallInv
    <3>8. AnswersAreTrue'
      <4>1. \A a \in answers : a.ok <=> a.batch \in Stored
        BY DEF StoredInv, AnswersAreTrue, Stored
      <4>2. \A a \in answers' : a.ok <=> a.batch \in Stored'
        BY <2>1, <3>6, <3>7, <4>1
      <4> QED BY <4>2 DEF AnswersAreTrue, Stored
    <3>9. \A i \in 1..Len(writers') : call'[writers'[i]].batch \in Stored' => Inserted' /\ i <= Len(group')
      <4> SUFFICES ASSUME NEW i \in 1..Len(writers), call[writers[i]].batch \in Stored'
                   PROVE  i <= Len(group)
        BY <2>1, <3>2
      <4>1. CASE call[writers[i]].batch \in Stored
        BY <2>2, <4>1 DEF StoredInv
      <4>2. CASE call[writers[i]].batch \in Batches(group)
        <5>1. PICK j \in 1..Len(group) : call[writers[i]].batch = call[writers[j]].batch
          BY <3>3, <4>2
        <5>2. i = j
          BY <3>5, <5>1 DEF CallInv
        <5> QED BY <3>4, <5>2
      <4> QED BY <3>6, <4>1, <4>2
    <3>10. Batches(group)' \subseteq mem'
      <4>1. Batches(group)' = Batches(group)
        BY <2>1 DEF Batches, Range
      <4> QED BY <3>1, <4>1
    <3> QED BY <2>1, <3>8, <3>9, <3>10 DEF StoredInv
  <2>4. CASE ~InsertInto(w)
    <3>1. mem' = mem
      BY <1>3, <2>4 DEF FrontStep, WakeInFront, RoomDelays, DelayEnds, RoomWaits, AddRecord, AddRecordFails,
         SyncLog, SyncFails, dataVars
    <3>2. pc'[w] # "finish" \/ outcome' # "ok"
      BY <1>3, <2>4 DEF FrontStep, WakeInFront, RoomDelays, DelayEnds, RoomWaits, AddRecord, AddRecordFails,
         SyncLog, SyncFails, TypeOK
    <3>3. \A x \in Writers : x # w => pc'[x] = pc[x]
      BY <1>3, FrontStepIs DEF TypeOK
    <3>4. \A x \in Writers : pc[x] = "finish" => x = w
      BY <2>1 DEF QueueInv, OnlyFrontWrites, Busy
    <3>5. ~Inserted'
      BY <2>1, <3>2, <3>3, <3>4 DEF Inserted
    <3>6. Stored' = Stored
      BY <2>1, <3>1 DEF Stored
    <3> QED BY <2>1, <2>2, <3>1, <3>5, <3>6, StoredKept DEF StoredInv
  <2> QED BY <2>3, <2>4
<1>4. ASSUME NEW w \in Writers, GroupBegins(w)
      PROVE  StoredInv'
  <2>1. /\ writers # << >> /\ w = Head(writers) /\ pc[w] = "room" /\ pc' = [pc EXCEPT ![w] = "log"]
        /\ UNCHANGED << writers, call, outcome, answers >>
    BY <1>4, GroupBeginsIs
  <2>2. Stored' = Stored /\ (~hasImm' => imm' = {}) /\ (hasImm => hasImm') /\ bg' = bg
    BY <1>4, RoomStores DEF GroupBegins
  <2>3. ~Inserted
    BY <2>1, NotInserted
  <2>4. ~Inserted'
    BY <2>1, <2>3 DEF Inserted, TypeOK
  <2>5. AnswersAreTrue'
    BY <2>1, <2>2 DEF StoredInv, AnswersAreTrue, Stored
  <2>6. \A i \in 1..Len(writers') : call'[writers'[i]].batch \notin Stored'
    BY <2>1, <2>2, <2>3 DEF StoredInv
  <2> QED BY <2>2, <2>4, <2>5, <2>6 DEF StoredInv
<1>5. ASSUME NEW w \in Writers, NEW g, NEW ok, Ends(w, g, ok)
      PROVE  StoredInv'
  <2>1. /\ AfterWrite(g, ok) /\ IsFront(g) /\ ok \in BOOLEAN
        /\ writers # << >> /\ w = Head(writers)
    BY <1>5, EndsIs DEF Ends
  <2>2. Stored' = Stored /\ (~hasImm' => imm' = {}) /\ (hasImm => hasImm') /\ bg' = bg
    BY <1>5, EndStores
  <2>3. \A i \in 1..Len(writers') : /\ i + Len(g) \in 1..Len(writers)
                                    /\ writers'[i] = writers[i + Len(g)]
                                    /\ writers'[i] \notin Range(g) /\ writers'[i] \in Writers
    BY <2>1, AfterWriteRest
  <2>4. \A i \in 1..Len(writers') : i + Len(g) \in 1..Len(writers) /\ call'[writers'[i]] = call[writers[i + Len(g)]]
    BY <2>1, <2>3 DEF AfterWrite
  <2>5. Inserted => Finish(w)
    <3>1. pc[w] # "finish" => ~Inserted
      BY <2>1, NotInserted
    <3> QED BY <1>5, <3>1 DEF Ends, RoomFails, SwitchFails, RoomIsThere, RoomSwitches
  <2>6. Finish(w) => g = group /\ ok = (outcome = "ok")
    <3> SUFFICES ASSUME Finish(w) PROVE g = group /\ ok = (outcome = "ok")
      OBVIOUS
    <3> QED BY <1>5 DEF Ends, Finish, RoomFails, SwitchFails, RoomIsThere, RoomSwitches
  <2>7. Len(g) \in 1..Len(writers) /\ Len(writers) \in Nat
    BY <2>1 DEF IsFront, TypeOK
  <2>8. \A i \in 1..Len(writers') : call'[writers'[i]].batch \notin Stored'
    <3> SUFFICES ASSUME NEW i \in 1..Len(writers'), call[writers[i + Len(g)]].batch \in Stored
                 PROVE  FALSE
      BY <2>2, <2>4
    <3>1. i + Len(g) <= Len(group) /\ Inserted
      BY <2>4 DEF StoredInv
    <3> QED BY <2>5, <2>6, <2>7, <3>1
  <2>9. ~Inserted'
    <3>1. \A x \in Writers : pc'[x] \notin Busy
      BY <2>1, QueueAfterWrite
    <3> QED BY <3>1 DEF Inserted, Busy
  <2>10. \A a \in AnswersTo(g, ok) : a.ok <=> a.batch \in Stored
    <3> SUFFICES ASSUME NEW x \in Range(g), ~call[x].null
                 PROVE  ok <=> call[x].batch \in Stored
      BY DEF AnswersTo
    <3>1. PICK j \in 1..Len(g) : x = writers[j]
      BY <2>1, InFront
    <3>2. call[x].batch \in Stored => Inserted
      BY <2>7, <3>1 DEF StoredInv
    <3>3. CASE Finish(w)
      <4>1. pc[w] = "finish" /\ g = group /\ ok = (outcome = "ok")
        BY <2>6, <3>3 DEF Finish
      <4>2. Inserted <=> outcome = "ok"
        BY <4>1 DEF Inserted
      <4>3. call[x].batch \in Batches(group)
        BY <4>1 DEF Batches
      <4>4. Inserted => call[x].batch \in Stored
        BY <4>3 DEF StoredInv, Stored
      <4> QED BY <3>2, <4>1, <4>2, <4>4
    <3>4. CASE ~Finish(w)
      <4>1. g = << w >> /\ (ok = FALSE \/ call[w].null)
        BY <1>5, <3>4 DEF Ends
      <4>2. Range(<< w >>) = {w}
        BY <2>1, FrontAlone
      <4>3. ok = FALSE
        BY <4>1, <4>2
      <4> QED BY <2>5, <3>2, <3>4, <4>3
    <3> QED BY <3>3, <3>4
  <2>11. AnswersAreTrue'
    <3>1. answers' = answers \cup AnswersTo(g, ok)
      BY <2>1 DEF AfterWrite
    <3>2. \A a \in answers : a.ok <=> a.batch \in Stored
      BY DEF StoredInv, AnswersAreTrue, Stored
    <3>3. \A a \in answers' : a.ok <=> a.batch \in Stored'
      BY <2>2, <2>10, <3>1, <3>2
    <3> QED BY <3>3 DEF AnswersAreTrue, Stored
  <2> QED BY <2>2, <2>8, <2>9, <2>11 DEF StoredInv
<1>6. ASSUME NEW w \in Writers, CheckImm(w)
      PROVE  StoredInv'
  <2>1. /\ pc[w] = "immCheck" /\ pc \in [Writers -> WriterPlaces]
        /\ \E p \in {"immWait", "idle"} : pc' = [pc EXCEPT ![w] = p]
        /\ UNCHANGED << writers, call, group, outcome, answers, mem, imm, tables, hasImm, bg >>
    BY <1>6 DEF CheckImm, dataVars, bgVars, TypeOK
  <2>2. \A x \in Writers : pc'[x] = "finish" <=> pc[x] = "finish"
    BY <2>1
  <2> QED BY <2>1, <2>2, StoredKept DEF Inserted, Stored, StoredInv
<1>7. CASE BgStep
  <2>1. /\ pc' = SignalAll(pc) \/ pc' = pc
        /\ UNCHANGED << writers, call, group, outcome, answers, mem >>
    BY <1>7, BgLeaves
  <2>2. \A x \in Writers : pc'[x] = "finish" <=> pc[x] = "finish"
    BY <2>1 DEF SignalAll
  <2> QED BY <1>7, <2>1, <2>2, BgStores, StoredKept DEF Inserted
<1>8. CASE Close
  BY <1>8, StoredKept DEF Close, writerVars, dataVars, bgVars, Inserted, Stored, StoredInv
<1> QED BY <1>1, <1>2, <1>3, <1>4, <1>5, <1>6, <1>7, <1>8, StepsAre
-----------------------------------------------------------------------------
(* The logs *)

\* No log loses a record, none is begun.
LogsKept ==
    /\ Len(logs') = Len(logs)
    /\ \A n \in 1..Len(logs) :
          /\ logs'[n].synced <= Len(logs'[n].records)
          /\ \A b : IsLogged(b, n) => IsLogged(b, n)'
          /\ \A b : IsSynced(b, n) => IsSynced(b, n)'

LEMMA SameLogs ==
    ASSUME LogInv, UNCHANGED logs
    PROVE  LogsKept
BY DEF LogInv, LogNumbers, LogsKept, IsLogged, IsSynced

LEMMA AddRecordLogs ==
    ASSUME TypeOK, QueueInv, CallInv, LogInv, IsFront(group),
           logs' = [logs EXCEPT ![Len(logs)].records = Append(@, Written)]
    PROVE  LogsKept /\ \A b \in Batches(group) : IsLogged(b, Len(logs))'
<1> DEFINE last == logs[Len(logs)]
<1>1. /\ logs \in Seq(Log) /\ Len(logs) \in Nat /\ Len(logs) >= 1
      /\ \A n \in 1..Len(logs) : logs[n].synced <= Len(logs[n].records)
  BY DEF TypeOK, LogInv, LogNumbers
<1>2. last \in Log
  BY <1>1
<1>3. last.records \in Seq(Record) /\ last.synced \in Nat /\ Len(last.records) \in Nat
  BY <1>2 DEF Log
<1>4. Written \in Record /\ Written.batches = Batches(group)
  BY GroupCalls DEF Written, Record, TypeOK
<1>5. /\ Len(logs') = Len(logs)
      /\ \A n \in 1..Len(logs) : n # Len(logs) => logs'[n] = logs[n]
      /\ logs'[Len(logs)].records = Append(last.records, Written)
      /\ logs'[Len(logs)].synced = last.synced
  BY <1>1, <1>4, RecordAdded
<1> DEFINE rs == logs'[Len(logs)].records
<1>6. /\ Len(rs) = Len(last.records) + 1
      /\ \A i \in 1..Len(last.records) : rs[i] = last.records[i]
      /\ rs[Len(last.records) + 1] = Written
  <2>1. \A r \in Seq(Record) : /\ Len(Append(r, Written)) = Len(r) + 1
                               /\ \A i \in 1..Len(r) : Append(r, Written)[i] = r[i]
                               /\ Append(r, Written)[Len(r) + 1] = Written
    BY <1>4
  <2> HIDE DEF last
  <2> QED BY <1>3, <1>5, <2>1
<1>7. last.synced <= Len(last.records)
  BY <1>1
<1> HIDE DEF last, rs
<1>8. \A b : IsLogged(b, Len(logs)) => IsLogged(b, Len(logs))'
  BY <1>3, <1>5, <1>6 DEF IsLogged, last, rs
<1>9. \A b : IsSynced(b, Len(logs)) => IsSynced(b, Len(logs))'
  <2>1. \A i \in 1..last.synced : i \in 1..Len(last.records)
    BY <1>3, <1>7
  <2> QED BY <1>5, <1>6, <2>1 DEF IsSynced, last, rs
<1>10. logs'[Len(logs)].synced <= Len(rs)
  BY <1>3, <1>5, <1>6, <1>7
<1>11. LogsKept
  <2>1. \A n \in 1..Len(logs) : n # Len(logs) =>
           /\ logs'[n].synced <= Len(logs'[n].records)
           /\ \A b : IsLogged(b, n) => IsLogged(b, n)'
           /\ \A b : IsSynced(b, n) => IsSynced(b, n)'
    BY <1>1, <1>5 DEF IsLogged, IsSynced
  <2> QED BY <1>5, <1>8, <1>9, <1>10, <2>1 DEF LogsKept, rs
<1>12. \A b \in Batches(group) : IsLogged(b, Len(logs))'
  <2>1. Len(last.records) + 1 \in 1..Len(rs) /\ rs[Len(last.records) + 1].batches = Batches(group)
    BY <1>3, <1>4, <1>6
  <2> QED BY <1>5, <2>1 DEF IsLogged, rs
<1> QED BY <1>11, <1>12

LEMMA SyncLogs ==
    ASSUME TypeOK, LogInv, logs' = [logs EXCEPT ![Len(logs)].synced = Len(logs[Len(logs)].records)]
    PROVE  LogsKept /\ \A b : IsLogged(b, Len(logs)) => IsSynced(b, Len(logs))'
<1> DEFINE last == logs[Len(logs)]
<1>1. /\ logs \in Seq(Log) /\ Len(logs) \in Nat /\ Len(logs) >= 1
      /\ \A n \in 1..Len(logs) : logs[n].synced <= Len(logs[n].records)
  BY DEF TypeOK, LogInv, LogNumbers
<1>2. last \in Log
  BY <1>1
<1>3. last.synced \in Nat /\ Len(last.records) \in Nat /\ last.synced <= Len(last.records)
  <2>1. last.synced <= Len(last.records)
    BY <1>1
  <2>2. last.records \in Seq(Record) /\ last.synced \in Nat
    BY <1>2 DEF Log
  <2> QED BY <2>1, <2>2
<1>4. /\ Len(logs') = Len(logs)
      /\ \A n \in 1..Len(logs) : n # Len(logs) => logs'[n] = logs[n]
      /\ logs'[Len(logs)].records = last.records
      /\ logs'[Len(logs)].synced = Len(last.records)
  BY <1>1, LogSynced
<1> HIDE DEF last
<1>5. \A b : IsLogged(b, Len(logs)) => IsLogged(b, Len(logs))' /\ IsSynced(b, Len(logs))'
  BY <1>4 DEF IsLogged, IsSynced, last
<1>6. \A b : IsSynced(b, Len(logs)) => IsLogged(b, Len(logs))
  <2>1. \A i \in 1..last.synced : i \in 1..Len(last.records)
    BY <1>3
  <2> QED BY <2>1 DEF IsLogged, IsSynced, last
<1>7. logs'[Len(logs)].synced <= Len(logs'[Len(logs)].records)
  BY <1>3, <1>4
<1>8. \A n \in 1..Len(logs) : n # Len(logs) =>
           /\ logs'[n].synced <= Len(logs'[n].records)
           /\ \A b : IsLogged(b, n) => IsLogged(b, n)'
           /\ \A b : IsSynced(b, n) => IsSynced(b, n)'
  BY <1>1, <1>4 DEF IsLogged, IsSynced
<1> QED BY <1>4, <1>5, <1>6, <1>7, <1>8 DEF LogsKept

\* A new log takes the memtable with it into the past.
LEMMA SwitchLogs ==
    ASSUME TypeOK, StoredInv, LogInv, NEW w \in Writers, RoomSwitches(w)
    PROVE  LogNumbers' /\ MemtablesLogged' /\ \A b : IsSafe(b) => IsSafe(b)'
<1>1. /\ logs \in Seq(Log) /\ Len(logs) \in Nat /\ logNumber \in 1..Len(logs)
      /\ \A n \in 1..Len(logs) : logs[n].synced <= Len(logs[n].records)
  BY DEF TypeOK, LogInv, LogNumbers
<1>2. logs' = Append(logs, EmptyLog) /\ UNCHANGED << logNumber, editLog, bg >>
  BY DEF RoomSwitches
<1>3. ~hasImm /\ imm' = mem /\ mem' = {} /\ bg # "apply"
  BY SwitchStores DEF StoredInv
<1>4. /\ Len(logs') = Len(logs) + 1 /\ logs'[Len(logs) + 1] = EmptyLog
      /\ \A n \in 1..Len(logs) : logs'[n] = logs[n]
  BY <1>1, <1>2
<1>5. EmptyLog.synced = 0 /\ Len(EmptyLog.records) = 0
  BY DEF EmptyLog
<1>6. \A n \in 1..Len(logs) : \A b : /\ IsLogged(b, n) => IsLogged(b, n)'
                                     /\ IsSynced(b, n) => IsSynced(b, n)'
  BY <1>4 DEF IsLogged, IsSynced
<1>7. LogNumbers'
  <2>1. \A n \in 1..Len(logs') : n \in 1..Len(logs) \/ n = Len(logs) + 1
    BY <1>1, <1>4
  <2>2. \A n \in 1..Len(logs') : logs'[n].synced <= Len(logs'[n].records)
    BY <1>1, <1>4, <1>5, <2>1
  <2>3. logNumber' \in 1..Len(logs')
    BY <1>1, <1>2, <1>4
  <2> QED BY <1>2, <1>3, <2>2, <2>3 DEF LogNumbers
<1>8. Len(logs) \in 1..Len(logs) /\ Len(logs) \in logNumber'..Len(logs')
  BY <1>1, <1>2, <1>4
<1>9. MemtablesLogged'
  BY <1>3, <1>6, <1>8 DEF MemtablesLogged, LogInv
<1>10. \A b : IsSafe(b) => IsSafe(b)'
  BY <1>3, <1>6, <1>8 DEF IsSafe
<1> QED BY <1>7, <1>9, <1>10
LEMMA MemtablesKept ==
    ASSUME LogInv, LogsKept, UNCHANGED << mem, imm, logNumber >>
    PROVE  MemtablesLogged' /\ \A b : IsSafe(b) => IsSafe(b)'
<1>1. Len(logs) \in 1..Len(logs) /\ \A n \in logNumber..Len(logs) : n \in 1..Len(logs)
  BY DEF LogInv, LogNumbers
<1>2. Len(logs') = Len(logs)
      /\ \A n \in 1..Len(logs) : \A b : /\ IsLogged(b, n) => IsLogged(b, n)'
                                        /\ IsSynced(b, n) => IsSynced(b, n)'
  BY DEF LogsKept
<1>3. MemtablesLogged'
  BY <1>1, <1>2 DEF MemtablesLogged, LogInv
<1>4. \A b : IsSafe(b) => IsSafe(b)'
  BY <1>1, <1>2 DEF IsSafe
<1> QED BY <1>3, <1>4

LEMMA NumbersKept ==
    ASSUME LogInv, LogsKept, UNCHANGED << logNumber, bg, editLog >>
    PROVE  LogNumbers'
BY DEF LogInv, LogNumbers, LogsKept

LEMMA GroupKept ==
    ASSUME LogInv, LogsKept, UNCHANGED << group, outcome >>,
           \A w \in Writers : pc'[w] \in Writing =>
               /\ pc'[w] = pc[w] /\ call'[w] = call[w]
               /\ group \in Seq(Writers)
               /\ \A x \in Range(group) : call'[x] = call[x]
    PROVE  GroupLogged'
<1> SUFFICES ASSUME NEW w \in Writers, pc'[w] \in Writing PROVE GroupIsLogged(w)'
  BY DEF GroupLogged
<1>1. pc'[w] = pc[w] /\ call'[w] = call[w] /\ \A x \in Range(group) : call'[x] = call[x]
  OBVIOUS
<1>2. \A i \in 1..Len(group) : group[i] \in Range(group)
  BY DEF Range
<1>3. Batches(group)' = Batches(group)
  BY <1>1 DEF Batches, Range
<1>4. GroupIsLogged(w)
  BY <1>1 DEF LogInv, GroupLogged
<1>5. Len(logs) \in 1..Len(logs) /\ Len(logs') = Len(logs)
  BY DEF LogInv, LogNumbers, LogsKept
<1>6. \A b : /\ IsLogged(b, Len(logs)) => IsLogged(b, Len(logs))'
             /\ IsSynced(b, Len(logs)) => IsSynced(b, Len(logs))'
  BY <1>5 DEF LogsKept
<1> QED BY <1>1, <1>2, <1>3, <1>4, <1>6 DEF GroupIsLogged

LEMMA NobodyWrites ==
    ASSUME \A w \in Writers : pc'[w] \notin Writing
    PROVE  GroupLogged'
BY DEF GroupLogged

LEMMA LogStep ==
    ASSUME TypeOK, QueueInv, CallInv, StoredInv, LogInv, [Next]_vars
    PROVE  LogInv'
<1>1. CASE UNCHANGED vars
  <2>1. UNCHANGED << pc, call, group, outcome, mem, imm, logs, logNumber, bg, editLog, answers >>
    BY <1>1 DEF vars, writerVars, dataVars, bgVars
  <2>2. LogsKept
    BY <2>1, SameLogs
  <2>3. GroupLogged'
    BY <2>1, <2>2, GroupKept DEF TypeOK
  <2> QED BY <2>1, <2>2, <2>3, MemtablesKept, NumbersKept DEF LogInv
<1>2. ASSUME NEW w \in Writers, NEW null \in BOOLEAN, NEW sync \in BOOLEAN, CallWrite(w, null, sync)
      PROVE  LogInv'
  <2>1. /\ pc[w] = "idle" /\ pc'[w] \in {"room", "asleep"}
        /\ \A x \in Writers : x # w => pc'[x] = pc[x] /\ call'[x] = call[x]
        /\ UNCHANGED << group, outcome, mem, imm, logs, logNumber, bg, editLog, answers >>
    BY <1>2 DEF CallWrite, TypeOK, dataVars, bgVars
  <2>2. LogsKept
    BY <2>1, SameLogs
  <2>3. GroupLogged'
    <3>1. ASSUME NEW x \in Writers, pc'[x] \in Writing
          PROVE  /\ pc'[x] = pc[x] /\ call'[x] = call[x] /\ group \in Seq(Writers)
                 /\ \A y \in Range(group) : call'[y] = call[y]
      <4>1. x # w
        BY <2>1, <3>1 DEF Writing
      <4>2. IsFront(group)
        BY <2>1, <3>1, <4>1 DEF QueueInv
      <4>3. /\ \A y : y \in Range(group) <=> \E i \in 1..Len(group) : writers[i] = y
            /\ Range(group) \subseteq Writers
        BY <4>2, InFront
      <4>4. \A i \in 1..Len(group) : i \in 1..Len(writers)
        BY <4>2 DEF IsFront, TypeOK
      <4>5. \A y \in Range(group) : pc[y] \in Waiting \cup Busy
        BY <4>3, <4>4 DEF QueueInv
      <4>6. w \notin Range(group)
        BY <2>1, <4>5 DEF Waiting, Busy
      <4> QED BY <2>1, <4>1, <4>2, <4>3, <4>6 DEF IsFront
    <3> QED BY <2>1, <2>2, <3>1, GroupKept
  <2> QED BY <2>1, <2>2, <2>3, MemtablesKept, NumbersKept DEF LogInv
<1>3. ASSUME NEW w \in Writers, FrontStep(w)
      PROVE  LogInv'
  <2>1. /\ writers # << >> /\ w = Head(writers) /\ outcome = "ok"
        /\ UNCHANGED << call, group, answers, imm, logNumber, bg, editLog >>
        /\ \A x \in Writers : x # w => pc'[x] = pc[x]
    BY <1>3, FrontStepIs DEF bgVars, TypeOK
  <2>2. \A x \in Writers : pc'[x] \in Writing => x = w
    <3>1. \A x \in Writers : pc[x] \in Writing => x = w
      BY <2>1 DEF QueueInv, OnlyFrontWrites, Writing, Busy
    <3> QED BY <2>1, <3>1
  <2>3. Batches(group)' = Batches(group)
    BY <2>1 DEF Batches, Range
  <2>4. CASE WakeInFront(w) \/ RoomDelays(w) \/ DelayEnds(w) \/ RoomWaits(w)
    <3>1. UNCHANGED << logs, mem >> /\ pc'[w] \notin Writing
      BY <2>4 DEF WakeInFront, RoomDelays, DelayEnds, RoomWaits, dataVars, TypeOK, Writing
    <3>2. LogsKept /\ GroupLogged'
      BY <2>2, <3>1, SameLogs, NobodyWrites
    <3> QED BY <2>1, <3>1, <3>2, MemtablesKept, NumbersKept DEF LogInv
  <2>5. ASSUME pc[w] \in Writing
        PROVE  IsFront(group) /\ GroupIsLogged(w)
    BY <2>5 DEF QueueInv, LogInv, GroupLogged
  <2>6. CASE AddRecord(w)
    <3>1. /\ pc[w] = "log" /\ pc'[w] = IF call[w].sync THEN "sync" ELSE "insert"
          /\ mem' = mem /\ outcome' = outcome
          /\ logs' = [logs EXCEPT ![Len(logs)].records = Append(@, Written)]
      BY <2>6 DEF AddRecord, TypeOK
    <3>2. LogsKept /\ \A b \in Batches(group) : IsLogged(b, Len(logs))'
      BY <2>5, <3>1, AddRecordLogs DEF Writing
    <3>3. GroupIsLogged(w)'
      BY <2>1, <2>3, <2>5, <3>1, <3>2 DEF GroupIsLogged, Writing
    <3> QED BY <2>1, <2>2, <3>1, <3>2, <3>3, MemtablesKept, NumbersKept DEF LogInv, GroupLogged
  <2>7. CASE AddRecordFails(w)
    <3>1. /\ pc[w] = "log" /\ pc'[w] = "finish" /\ mem' = mem /\ outcome' = "error"
          /\ \/ logs' = logs
             \/ logs' = [logs EXCEPT ![Len(logs)].records = Append(@, Written)]
      BY <2>7 DEF AddRecordFails, TypeOK
    <3>2. LogsKept
      BY <2>5, <3>1, SameLogs, AddRecordLogs DEF Writing
    <3>3. GroupIsLogged(w)'
      BY <2>1, <2>5, <3>1 DEF GroupIsLogged, Writing
    <3> QED BY <2>1, <2>2, <3>1, <3>2, <3>3, MemtablesKept, NumbersKept DEF LogInv, GroupLogged
  <2>8. CASE SyncLog(w)
    <3>1. /\ pc[w] = "sync" /\ pc'[w] = "insert" /\ mem' = mem /\ outcome' = outcome
          /\ logs' = [logs EXCEPT ![Len(logs)].synced = Len(logs[Len(logs)].records)]
      BY <2>8 DEF SyncLog, TypeOK
    <3>2. LogsKept /\ \A b : IsLogged(b, Len(logs)) => IsSynced(b, Len(logs))'
      BY <3>1, SyncLogs
    <3>3. Len(logs) \in 1..Len(logs)
      BY DEF LogInv, LogNumbers
    <3>4. \A b : IsLogged(b, Len(logs)) => IsLogged(b, Len(logs))'
      BY <3>2, <3>3 DEF LogsKept
    <3>5. \A b \in Batches(group) : IsLogged(b, Len(logs))
      BY <2>5, <3>1 DEF GroupIsLogged, Writing
    <3>6. GroupIsLogged(w)'
      BY <2>1, <2>3, <2>5, <3>1, <3>2, <3>4, <3>5 DEF GroupIsLogged, Writing
    <3> QED BY <2>1, <2>2, <3>1, <3>2, <3>6, MemtablesKept, NumbersKept DEF LogInv, GroupLogged
  <2>9. CASE SyncFails(w)
    <3>1. pc[w] = "sync" /\ pc'[w] = "finish" /\ outcome' = "syncError" /\ UNCHANGED << mem, logs >>
      BY <2>9 DEF SyncFails, TypeOK, dataVars
    <3>2. LogsKept
      BY <3>1, SameLogs
    <3>3. GroupIsLogged(w)'
      BY <2>1, <2>5, <3>1 DEF GroupIsLogged, Writing
    <3> QED BY <2>1, <2>2, <3>1, <3>2, <3>3, MemtablesKept, NumbersKept DEF LogInv, GroupLogged
  <2>10. CASE InsertInto(w)
    <3>1. /\ pc[w] = "insert" /\ pc'[w] = "finish" /\ outcome' = outcome /\ logs' = logs
          /\ mem' = mem \cup Batches(group)
      BY <2>10 DEF InsertInto, TypeOK
    <3>2. LogsKept /\ IsFront(group) /\ GroupIsLogged(w)
      BY <2>5, <3>1, SameLogs DEF Writing
    <3>3. \A b, n : (IsLogged(b, n)' <=> IsLogged(b, n)) /\ (IsSynced(b, n)' <=> IsSynced(b, n))
      BY <3>1 DEF IsLogged, IsSynced
    <3>4. GroupIsLogged(w)'
      BY <2>1, <2>3, <3>1, <3>2, <3>3 DEF GroupIsLogged
    <3>5. \A b \in Batches(group) : IsLogged(b, Len(logs))
      BY <3>1, <3>2 DEF GroupIsLogged
    <3>6. MemtablesLogged'
      BY <2>1, <3>1, <3>3, <3>5 DEF MemtablesLogged, LogInv
    <3>7. \A a \in answers : a.batch \notin Batches(group)
      <4>1. \A b \in Batches(group) : \E x \in Range(group) : b = call[x].batch
        BY DEF Batches
      <4>2. \A x \in Range(group) : \E i \in 1..Len(writers) : writers[i] = x
        <5>1. \A x : x \in Range(group) <=> \E i \in 1..Len(group) : writers[i] = x
          BY <3>2, InFront
        <5>2. \A i \in 1..Len(group) : i \in 1..Len(writers)
          BY <3>2 DEF IsFront, TypeOK
        <5> QED BY <5>1, <5>2
      <4> QED BY <4>1, <4>2 DEF CallInv
    <3>8. \A a \in answers' : a.sync /\ a.ok => IsSafe(a.batch)'
      <4> SUFFICES ASSUME NEW a \in answers, a.sync, a.ok PROVE IsSafe(a.batch)'
        BY <2>1
      <4>1. IsSafe(a.batch)
        BY DEF LogInv
      <4> QED BY <2>1, <3>1, <3>3, <3>7, <4>1 DEF IsSafe
    <3> QED BY <2>1, <2>2, <3>2, <3>4, <3>6, <3>8, NumbersKept DEF LogInv, GroupLogged
  <2> QED BY <1>3, <2>4, <2>6, <2>7, <2>8, <2>9, <2>10 DEF FrontStep
<1>4. ASSUME NEW w \in Writers, GroupBegins(w)
      PROVE  LogInv'
  <2>1. /\ pc' = [pc EXCEPT ![w] = "log"] /\ writers # << >> /\ w = Head(writers)
        /\ IsFront(group') /\ \A i \in 2..Len(group') : call[group'[i]].sync => call[w].sync
        /\ UNCHANGED << call, answers, logNumber, bg, editLog >>
    BY <1>4, GroupBeginsIs
  <2>2. pc'[w] = "log" /\ \A x \in Writers : x # w => pc'[x] = pc[x]
    BY <2>1 DEF TypeOK
  <2>3. \A x \in Writers : pc'[x] \in Writing => x = w
    <3>1. \A x \in Writers : pc[x] \in Writing => x = w
      BY <2>1 DEF QueueInv, OnlyFrontWrites, Writing, Busy
    <3> QED BY <2>2, <3>1
  <2>4. \A i \in 1..Len(group') : call[group'[i]].sync => call[w].sync
    <3>1. writers[1] = w /\ Len(group') \in Nat
      BY <2>1 DEF TypeOK, IsFront
    <3>2. \A i \in 1..Len(group') : i = 1 \/ i \in 2..Len(group')
      BY <3>1
    <3>3. \A i \in 1..Len(group') : group'[i] = writers[i]
      BY <2>1 DEF IsFront
    <3> QED BY <2>1, <3>1, <3>2, <3>3
  <2>5. GroupLogged'
    BY <2>1, <2>2, <2>3, <2>4 DEF GroupLogged, GroupIsLogged
  <2>6. CASE RoomIsThere(w)
    <3>1. UNCHANGED << mem, imm, logs >>
      BY <2>6 DEF RoomIsThere, dataVars
    <3> QED BY <2>1, <2>5, <3>1, SameLogs, MemtablesKept, NumbersKept DEF LogInv
  <2>7. CASE RoomSwitches(w)
    BY <2>1, <2>5, <2>7, SwitchLogs DEF LogInv
  <2> QED BY <1>4, <2>6, <2>7 DEF GroupBegins
<1>5. ASSUME NEW w \in Writers, NEW g, NEW ok, Ends(w, g, ok)
      PROVE  LogInv'
  <2>1. /\ AfterWrite(g, ok) /\ IsFront(g) /\ ok \in BOOLEAN
        /\ writers # << >> /\ w = Head(writers)
        /\ UNCHANGED << logNumber, bg, editLog >>
    BY <1>5, EndsIs DEF Ends
  <2>2. GroupLogged'
    <3>1. \A x \in Writers : pc'[x] \notin Writing
      BY <2>1, QueueAfterWrite DEF Writing, Busy
    <3> QED BY <3>1, NobodyWrites
  <2>3. answers' = answers \cup AnswersTo(g, ok)
    BY <2>1 DEF AfterWrite
  <2>4. Range(<< w >>) = {w}
    BY <2>1, FrontAlone
  <2>5. CASE RoomSwitches(w) /\ call[w].null /\ g = << w >>
    <3>1. answers' = answers
      BY <2>3, <2>4, <2>5 DEF AnswersTo
    <3> QED BY <2>2, <2>5, <3>1, SwitchLogs DEF LogInv
  <2>6. ASSUME UNCHANGED << mem, imm, logs >>,
               \A a \in AnswersTo(g, ok) : a.sync /\ a.ok => IsSafe(a.batch)
        PROVE  LogInv'
    BY <2>1, <2>2, <2>3, <2>6, SameLogs, MemtablesKept, NumbersKept DEF LogInv
  <2>7. CASE RoomFails(w) \/ SwitchFails(w)
    <3>1. UNCHANGED << mem, imm, logs >>
      BY <2>7 DEF RoomFails, SwitchFails, dataVars
    <3>2. pc[w] = "room"
      BY <2>7 DEF RoomFails, SwitchFails
    <3>3. ok = FALSE \/ (call[w].null /\ g = << w >>)
      BY <1>5, <3>2 DEF Ends, Finish
    <3>4. \A a \in AnswersTo(g, ok) : ~a.ok
      BY <2>4, <3>3 DEF AnswersTo
    <3> QED BY <2>6, <3>1, <3>4
  <2>8. CASE RoomIsThere(w) /\ call[w].null /\ g = << w >>
    <3>1. UNCHANGED << mem, imm, logs >>
      BY <2>8 DEF RoomIsThere, dataVars
    <3>2. AnswersTo(g, ok) = {}
      BY <2>4, <2>8 DEF AnswersTo
    <3> QED BY <2>6, <3>1, <3>2
  <2>9. CASE Finish(w) /\ g = group /\ ok = (outcome = "ok")
    <3>1. UNCHANGED << mem, imm, logs >> /\ pc[w] = "finish"
      BY <2>9 DEF Finish
    <3>2. GroupIsLogged(w)
      BY <3>1 DEF LogInv, GroupLogged, Writing
    <3>3. ASSUME NEW a \in AnswersTo(g, ok), a.sync, a.ok
          PROVE  IsSafe(a.batch)
      <4>1. PICK x \in Range(group) :
                ~call[x].null /\ a = [batch |-> call[x].batch, sync |-> call[x].sync, ok |-> ok]
        BY <2>9 DEF AnswersTo
      <4>2. PICK i \in 1..Len(group) : x = group[i]
        BY <2>1, <2>9 DEF Range, IsFront
      <4>3. call[w].sync /\ outcome = "ok"
        BY <2>9, <3>2, <3>3, <4>1, <4>2 DEF GroupIsLogged
      <4>4. a.batch \in Batches(group)
        BY <4>1 DEF Batches
      <4>5. IsSynced(a.batch, Len(logs))
        BY <3>1, <3>2, <4>3, <4>4 DEF GroupIsLogged
      <4>6. Len(logs) \in logNumber..Len(logs)
        BY DEF LogInv, LogNumbers
      <4> QED BY <4>5, <4>6 DEF IsSafe
    <3> QED BY <2>6, <3>1, <3>3
  <2> QED BY <1>5, <2>5, <2>7, <2>8, <2>9 DEF Ends
<1>6. ASSUME NEW w \in Writers, CheckImm(w)
      PROVE  LogInv'
  <2>1. /\ pc[w] = "immCheck" /\ pc'[w] \in {"immWait", "idle"}
        /\ \A x \in Writers : x # w => pc'[x] = pc[x]
        /\ UNCHANGED << call, group, outcome, mem, imm, logs, logNumber, bg, editLog, answers >>
    BY <1>6 DEF CheckImm, dataVars, bgVars, TypeOK
  <2>2. LogsKept
    BY <2>1, SameLogs
  <2>3. \A x \in Writers : pc'[x] \in Writing => x # w
    BY <2>1 DEF Writing
  <2>4. GroupLogged'
    BY <2>1, <2>2, <2>3, GroupKept DEF TypeOK
  <2> QED BY <2>1, <2>2, <2>4, MemtablesKept, NumbersKept DEF LogInv
<1>7. CASE BgStep
  <2>1. /\ pc' = SignalAll(pc) \/ pc' = pc
        /\ UNCHANGED << call, group, outcome, mem, logs, answers >>
    BY <1>7, BgLeaves
  <2>2. \A x \in Writers : pc'[x] \in Writing => pc'[x] = pc[x]
    BY <2>1 DEF SignalAll, Writing
  <2>3. LogsKept
    BY <2>1, SameLogs
  <2>4. GroupLogged'
    BY <2>1, <2>2, <2>3, GroupKept DEF TypeOK
  <2>5. \A b, n : (IsLogged(b, n)' <=> IsLogged(b, n)) /\ (IsSynced(b, n)' <=> IsSynced(b, n))
    BY <2>1 DEF IsLogged, IsSynced
  <2>6. CASE Applied
    <3>1. imm' = {} /\ logNumber' = editLog /\ bg' # "apply" /\ bg = "apply"
      BY <2>6 DEF Applied, BgReturns
    <3>2. editLog = Len(logs) /\ Len(logs) \in 1..Len(logs)
      BY <3>1 DEF LogInv, LogNumbers
    <3>3. LogNumbers'
      BY <2>1, <3>1, <3>2 DEF LogInv, LogNumbers
    <3>4. MemtablesLogged'
      BY <2>1, <2>5, <3>1 DEF LogInv, MemtablesLogged
    <3>5. \A b : IsSafe(b) => IsSafe(b)'
      BY <2>1, <2>5, <3>1 DEF IsSafe
    <3> QED BY <2>1, <2>4, <3>3, <3>4, <3>5 DEF LogInv
  <2>7. CASE ~Applied
    <3>1. UNCHANGED << imm, logNumber >>
      BY <1>7, <2>7 DEF BgStep, BgIdles, BgFlushes, BgMerges, BgInterrupts, Built, BuildFails, ApplyFails, Merged,
           MergeFails, Installed, FlushError, dataVars
    <3>2. bg' = "apply" => editLog' = Len(logs)
      BY <1>7, <2>7 DEF BgStep, BgIdles, BgFlushes, BgMerges, BgInterrupts, Built, BuildFails, ApplyFails, Merged,
           MergeFails, Installed, FlushError, BgReturns
    <3>3. LogNumbers'
      BY <2>1, <3>1, <3>2 DEF LogInv, LogNumbers
    <3> QED BY <2>1, <2>3, <2>4, <3>1, <3>3, MemtablesKept DEF LogInv
  <2> QED BY <2>6, <2>7
<1>8. CASE Close
  <2>1. UNCHANGED << pc, call, group, outcome, mem, imm, logs, logNumber, bg, editLog, answers >>
    BY <1>8 DEF Close, writerVars, dataVars, bgVars
  <2>2. LogsKept
    BY <2>1, SameLogs
  <2>3. GroupLogged'
    BY <2>1, <2>2, GroupKept DEF TypeOK
  <2> QED BY <2>1, <2>2, <2>3, MemtablesKept, NumbersKept DEF LogInv
<1> QED BY <1>1, <1>2, <1>3, <1>4, <1>5, <1>6, <1>7, <1>8, StepsAre
-----------------------------------------------------------------------------
(* The theorems *)

LEMMA InvAtStart ==
    ASSUME Init
    PROVE  Inv
<1> USE DEF Init
<1>1. TypeOK
  <2>1. EmptyLog \in Log
    BY DEF EmptyLog, Log
  <2>2. logs \in Seq(Log) /\ writers \in Seq(Writers) /\ group \in Seq(Writers)
    BY <2>1
  <2>3. pc \in [Writers -> WriterPlaces] /\ call \in [Writers -> Call \cup {NoCall}]
    BY DEF WriterPlaces
  <2>4. lastSeq \in Nat /\ logNumber \in Nat /\ editLog \in Nat /\ level0 \in Nat /\ calls \in 0..MaxCalls
    BY WriteQueueAssumption
  <2>5. scheduled \in BOOLEAN /\ bg \in BgPlaces
    BY DEF BgPlaces
  <2> QED BY <2>2, <2>3, <2>4, <2>5 DEF TypeOK
<1>2. \A w \in Writers : pc[w] \notin Busy
  BY DEF Busy
<1>3. Len(writers) = 0
  OBVIOUS
<1>4. QueueInv
  BY <1>2, <1>3 DEF QueueInv, OnlyFrontWrites, Writing, Busy
<1>5. CallInv
  BY <1>3 DEF CallInv, Stored
<1>6. StoredInv
  BY <1>2, <1>3 DEF StoredInv, Inserted, AnswersAreTrue, Busy
<1>7. LogInv
  <2>1. Len(logs) = 1 /\ logs[1] = EmptyLog /\ EmptyLog.synced = 0 /\ Len(EmptyLog.records) = 0
    BY DEF EmptyLog
  <2>2. LogNumbers
    BY <2>1 DEF LogNumbers
  <2>3. GroupLogged
    BY <1>2 DEF GroupLogged, Writing, Busy
  <2> QED BY <2>2, <2>3 DEF LogInv, MemtablesLogged
<1> QED BY <1>1, <1>4, <1>5, <1>6, <1>7 DEF Inv

\* The five parts of the invariant hold together.
THEOREM InvAlways == Spec => []Inv
<1>1. Init => Inv
  BY InvAtStart
<1>2. Inv /\ [Next]_vars => Inv'
  BY TypeStep, QueueStep, CallStep, StoredStep, LogStep DEF Inv
<1> QED BY <1>1, <1>2, PTL DEF Spec

\* Whatever the threads do, only the one in front is between MakeRoomForWrite
\* and the end of Write: the log and the memtable, which it uses without
\* mutex_, are not used by two threads at a time.
THEOREM OnlyFrontWritesAlways == Spec => []OnlyFrontWrites
<1>1. Inv => OnlyFrontWrites
  BY DEF Inv, QueueInv
<1> QED BY <1>1, InvAlways, PTL

\* A batch that is in no table yet is in a log file that recovery reads: the
\* log number of CompactMemTable's edit is never ahead of what is flushed.
THEOREM UnflushedIsLoggedAlways == Spec => []UnflushedIsLogged
<1>1. Inv => UnflushedIsLogged
  <2> SUFFICES ASSUME Inv, NEW b \in mem \cup imm PROVE InLog(b, LiveRecords)
    BY DEF UnflushedIsLogged
  <2>1. Len(logs) \in logNumber..Len(logs)
    BY DEF Inv, LogInv, LogNumbers
  <2>2. PICK n \in logNumber..Len(logs) : IsLogged(b, n)
    BY <2>1 DEF Inv, LogInv, MemtablesLogged
  <2>3. PICK i \in 1..Len(logs[n].records) : b \in logs[n].records[i].batches
    BY <2>2 DEF IsLogged
  <2>4. logs[n].records[i] \in Range(logs[n].records)
    <3>1. n \in 1..Len(logs)
      BY DEF Inv, LogInv, LogNumbers
    <3>2. logs[n] \in Log
      BY <3>1 DEF Inv, TypeOK
    <3>3. logs[n].records \in Seq(Record)
      BY <3>2 DEF Log
    <3>4. i \in DOMAIN logs[n].records
      BY <2>3, <3>3
    <3> QED BY <3>4 DEF Range
  <2>5. logs[n].records[i] \in LiveRecords
    BY <2>4 DEF LiveRecords
  <2> QED BY <2>3, <2>5 DEF InLog
<1> QED BY <1>1, InvAlways, PTL

\* A call that has returned tells the truth: its batch is stored if it returned
\* OK, and is never read if it did not.
THEOREM AnswersAreTrueAlways == Spec => []AnswersAreTrue
<1>1. Inv => AnswersAreTrue
  BY DEF Inv, StoredInv
<1> QED BY <1>1, InvAlways, PTL

\* A write with sync that has returned OK is in a table or in the synced part
\* of a log that recovery reads, whoever wrote it for whom.
THEOREM SyncedIsSafeAlways == Spec => []SyncedIsSafe
<1>1. Inv => SyncedIsSafe
  <2> SUFFICES ASSUME Inv, NEW a \in answers, a.sync, a.ok, a.batch \notin tables
               PROVE  \E n \in logNumber..Len(logs) :
                         InLog(a.batch, Range(SubSeq(logs[n].records, 1, logs[n].synced)))
    BY DEF SyncedIsSafe
  <2>1. a.batch \in mem \cup imm /\ IsSafe(a.batch)
    BY DEF Inv, StoredInv, AnswersAreTrue, LogInv
  <2>2. Len(logs) \in logNumber..Len(logs)
    BY DEF Inv, LogInv, LogNumbers
  <2>3. PICK n \in logNumber..Len(logs) : IsSynced(a.batch, n)
    BY <2>1, <2>2 DEF IsSafe
  <2>4. PICK i \in 1..logs[n].synced : a.batch \in logs[n].records[i].batches
    BY <2>3 DEF IsSynced
  <2> DEFINE rs == logs[n].records
             m == logs[n].synced
             safe == SubSeq(rs, 1, m)
  <2>5. n \in 1..Len(logs) /\ logs[n] \in Log /\ m <= Len(rs)
    <3>1. n \in 1..Len(logs)
      BY DEF Inv, TypeOK, LogInv, LogNumbers
    <3>2. logs[n] \in Log
      BY <3>1 DEF Inv, TypeOK
    <3>3. m <= Len(rs)
      BY <3>1 DEF Inv, LogInv, LogNumbers
    <3> QED BY <3>1, <3>2, <3>3
  <2>6. rs \in Seq(Record) /\ m \in Nat
    BY <2>5 DEF Log
  <2>7. safe \in Seq(Record) /\ Len(safe) = m /\ \A j \in 1..m : safe[j] = rs[j]
    <3> HIDE DEF rs, m
    <3>1. 1 \in 1..(Len(rs) + 1) /\ m \in (1 - 1)..Len(rs)
      BY <2>5, <2>6
    <3> QED BY <2>6, <3>1, SubSeqIs
  <2>8. safe[i] \in Range(safe) /\ a.batch \in safe[i].batches
    <3>1. i \in 1..m /\ safe[i] = rs[i]
      BY <2>7
    <3>2. i \in DOMAIN safe
      <4> HIDE DEF safe, m
      <4> QED BY <2>7, <3>1
    <3> QED BY <2>4, <3>1, <3>2 DEF Range
  <2> QED BY <2>8 DEF InLog
<1> QED BY <1>1, InvAlways, PTL
=============================================================================
