--------------------------- MODULE LsmTree_proofs ---------------------------
(***************************************************************************)
(* Proofs about LsmTree, for any keys, levels, limits and loads.           *)
(***************************************************************************)
EXTENDS LsmTree, SequenceLemmas, FiniteSetTheorems

\* An entry, whatever the load.
Record == [key : Keys, seq : Nat \ {0}, type : Types]

\* Entries of which no two come from the same write.
Distinct(entries) == \A a, b \in entries : a.seq = b.seq => a = b

-----------------------------------------------------------------------------
(***************************************************************************)
(* Sets of keys                                                            *)
(***************************************************************************)
\* A finite set of numbers has an upper bound.
LEMMA FiniteSetIsBounded ==
    ASSUME NEW T \in SUBSET Nat, IsFiniteSet(T)
    PROVE  \E n \in Nat : \A x \in T : x <= n
<1>1. PICK f \in Bijection(1..Cardinality(T), T) : TRUE
  BY FS_CardinalityType DEF ExistsBijection
<1> DEFINE P == {m \in Nat : \E n \in Nat : \A i \in 1..Cardinality(T) : i <= m => f[i] <= n}
<1>2. Cardinality(T) \in Nat
  BY FS_CardinalityType
<1>3. \A i \in 1..Cardinality(T) : f[i] \in Nat
  BY <1>1 DEF Bijection, Injection
<1>4. 0 \in P
  BY <1>2
<1>5. ASSUME NEW m \in P PROVE m + 1 \in P
  <2>1. PICK n \in Nat : \A i \in 1..Cardinality(T) : i <= m => f[i] <= n
    BY <1>5
  <2>2. CASE m + 1 \in 1..Cardinality(T)
    <3>1. f[m + 1] \in Nat
      BY <1>3, <2>2
    <3>2. \A i \in 1..Cardinality(T) : i <= m + 1 => f[i] <= n + f[m + 1]
      <4> SUFFICES ASSUME NEW i \in 1..Cardinality(T), i <= m + 1 PROVE f[i] <= n + f[m + 1]
        OBVIOUS
      <4>1. f[i] \in Nat
        BY <1>3
      <4>2. CASE i = m + 1
        BY <3>1, <4>2
      <4>3. CASE i <= m
        BY <2>1, <3>1, <4>1, <4>3
      <4> QED BY <1>2, <1>5, <4>2, <4>3
    <3> HIDE DEF P
    <3>3. m \in Nat /\ n + f[m + 1] \in Nat
      BY <1>5, <3>1 DEF P
    <3>4. \E r \in Nat : \A i \in 1..Cardinality(T) : i <= m + 1 => f[i] <= r
      BY <3>2, <3>3
    <3>5. m + 1 \in Nat
      BY <3>3
    <3> QED BY <3>4, <3>5, Zenon DEF P
  <2>3. CASE m + 1 \notin 1..Cardinality(T)
    <3>1. \A i \in 1..Cardinality(T) : i <= m + 1 => i <= m
      BY <1>2, <1>5, <2>3
    <3> QED BY <1>5, <2>1, <3>1
  <2> QED BY <2>2, <2>3
<1>6. P = Nat
  <2>1. P \in SUBSET Nat
    OBVIOUS
  <2> HIDE DEF P
  <2> QED BY <1>4, <1>5, <2>1, InductionOnNat
<1>7. PICK n \in Nat : \A i \in 1..Cardinality(T) : f[i] <= n
  <2> HIDE DEF P
  <2>1. Cardinality(T) \in P
    BY <1>2, <1>6
  <2>2. PICK n \in Nat : \A i \in 1..Cardinality(T) : i <= Cardinality(T) => f[i] <= n
    BY <2>1 DEF P
  <2>3. \A i \in 1..Cardinality(T) : i <= Cardinality(T)
    BY <1>2
  <2> QED BY <2>2, <2>3
<1>8. \A x \in T : \E i \in 1..Cardinality(T) : x = f[i]
  BY <1>1 DEF Bijection, Surjection
<1> QED BY <1>7, <1>8

\* A set of user keys has a least and a greatest one.
LEMMA MinOfKeys ==
    ASSUME NEW T \in SUBSET Keys, T # {}
    PROVE  Min(T) \in T /\ \A k \in T : Min(T) <= k
BY MinOfNats, LsmTreeAssumption

LEMMA MaxOfBounded ==
    ASSUME NEW T \in SUBSET Nat, T # {}, NEW n \in Nat, \A k \in T : k <= n
    PROVE  Max(T) \in T /\ \A k \in T : Max(T) >= k
<1> DEFINE R == {n - i : i \in T}
<1>1. R \in SUBSET Nat /\ R # {}
  <2>1. \A i \in T : n - i \in Nat
    OBVIOUS
  <2> QED BY <2>1
<1>2. Min(R) \in R /\ \A y \in R : Min(R) <= y
  BY <1>1, MinOfNats, Zenon
<1>3. PICK m \in T : Min(R) = n - m
  BY <1>2
<1>4. ASSUME NEW y \in T PROVE m >= y
  <2>1. n - y \in R
    OBVIOUS
  <2>2. n - m <= n - y
    BY <1>2, <1>3, <2>1, Zenon
  <2> QED BY <2>2
<1> HIDE DEF R
<1> QED BY <1>4 DEF Max

LEMMA MaxOfKeys ==
    ASSUME NEW T \in SUBSET Keys, T # {}
    PROVE  Max(T) \in T /\ \A k \in T : Max(T) >= k
<1>1. PICK n \in Nat : \A k \in Keys : k <= n
  BY FiniteSetIsBounded, LsmTreeAssumption
<1> QED BY <1>1, MaxOfBounded, LsmTreeAssumption

-----------------------------------------------------------------------------
(***************************************************************************)
(* The order of the entries                                                *)
(***************************************************************************)
LEMMA BeforeIsOrder ==
    ASSUME NEW entries \in SUBSET Record, Distinct(entries)
    PROVE  /\ \A a, b \in entries : a = b \/ Before(a, b) \/ Before(b, a)
           /\ \A a, b \in entries : ~(Before(a, b) /\ (Before(b, a) \/ a = b))
           /\ \A a, b, d \in entries : Before(a, b) /\ Before(b, d) => Before(a, d)
<1>1. \A a \in entries : a.key \in Nat /\ a.seq \in Nat
  BY LsmTreeAssumption DEF Record
<1> QED BY <1>1 DEF Before, Distinct

\* There are no more entries than writes.
LEMMA DistinctIsFinite ==
    ASSUME NEW entries \in SUBSET Record, Distinct(entries),
           NEW n \in Nat, \A e \in entries : e.seq <= n
    PROVE  IsFiniteSet(entries) /\ Cardinality(entries) <= n
<1> DEFINE f == [e \in entries |-> e.seq]
<1>1. f \in Injection(entries, 1..n)
  <2>1. \A e \in entries : e.seq \in 1..n
    BY DEF Record
  <2> QED BY <2>1 DEF Injection, IsInjective, Distinct
<1>2. IsFiniteSet(1..n) /\ Cardinality(1..n) = n
  BY FS_Interval
<1> HIDE DEF f
<1> QED BY <1>1, <1>2, FS_Injection

\* The merging iterator yields every entry, each one before the next.
LEMMA SortedInOrder ==
    ASSUME NEW entries \in SUBSET Record, Distinct(entries), IsFiniteSet(entries)
    PROVE  /\ Sorted(entries) \in Seq(entries)
           /\ Cardinality(entries) \in Nat
           /\ Len(Sorted(entries)) = Cardinality(entries)
           /\ \A i, j \in 1..Cardinality(entries) :
                 i < j => Before(Sorted(entries)[i], Sorted(entries)[j])
           /\ \A e \in entries : \E i \in 1..Cardinality(entries) : Sorted(entries)[i] = e
<1> DEFINE N == Cardinality(entries)
           under(e) == {d \in entries : Before(d, e)}
           rank == [e \in entries |-> Cardinality(under(e)) + 1]
<1>1. N \in Nat
  BY FS_CardinalityType
<1>2. ASSUME NEW e \in entries
      PROVE  IsFiniteSet(under(e)) /\ Cardinality(under(e)) \in Nat /\ Cardinality(under(e)) < N
  <2>1. under(e) \in SUBSET entries /\ under(e) # entries
    BY BeforeIsOrder
  <2>2. IsFiniteSet(under(e)) /\ Cardinality(under(e)) <= N /\ Cardinality(under(e)) # N
    BY <2>1, FS_Subset
  <2>3. Cardinality(under(e)) \in Nat
    BY <2>2, FS_CardinalityType
  <2> QED BY <1>1, <2>2, <2>3
<1>3. ASSUME NEW a \in entries, NEW b \in entries, Before(a, b)
      PROVE  Cardinality(under(a)) < Cardinality(under(b))
  <2>1. under(a) \in SUBSET under(b) /\ under(a) # under(b)
    <3>1. \A d \in entries : Before(d, a) => Before(d, b)
      BY <1>3, BeforeIsOrder
    <3>2. ~Before(a, a)
      BY BeforeIsOrder
    <3> QED BY <1>3, <3>1, <3>2
  <2>2. Cardinality(under(a)) <= Cardinality(under(b)) /\ Cardinality(under(a)) # Cardinality(under(b))
    BY <1>2, <2>1, FS_Subset
  <2>3. Cardinality(under(a)) \in Nat /\ Cardinality(under(b)) \in Nat
    BY <1>2
  <2> HIDE DEF under
  <2> QED BY <2>2, <2>3
<1>4. rank \in [entries -> 1..N]
  BY <1>1, <1>2
<1>5. ASSUME NEW a \in entries, NEW b \in entries, Before(a, b) PROVE rank[a] < rank[b]
  <2>1. Cardinality(under(a)) \in Nat /\ Cardinality(under(b)) \in Nat
    BY <1>2
  <2>2. Cardinality(under(a)) < Cardinality(under(b))
    BY <1>3, <1>5
  <2> HIDE DEF under
  <2> QED BY <2>1, <2>2
<1>6. ASSUME NEW a \in entries PROVE rank[a] - 1 = Cardinality(under(a))
  <2>1. Cardinality(under(a)) \in Nat
    BY <1>2
  <2> HIDE DEF under
  <2> QED BY <2>1
<1> HIDE DEF rank
<1>7. rank \in Injection(entries, 1..N)
  <2>1. ASSUME NEW a \in entries, NEW b \in entries, rank[a] = rank[b] PROVE a = b
    <3>1. rank[a] \in Nat /\ rank[b] \in Nat
      BY <1>1, <1>4
    <3> QED BY <1>5, <2>1, <3>1, BeforeIsOrder
  <2> QED BY <1>4, <2>1 DEF Injection, IsInjective
<1>8. rank \in Surjection(entries, 1..N)
  <2>1. IsFiniteSet(1..N) /\ Cardinality(1..N) = N
    BY <1>1, FS_Interval
  <2> QED BY <1>7, <2>1, FS_Injection
<1>9. ASSUME NEW i \in 1..N PROVE \E e \in entries : rank[e] = i /\ Sorted(entries)[i] = e
  <2>1. PICK e \in entries : rank[e] = i
    BY <1>8 DEF Surjection
  <2>2. Cardinality(under(e)) = i - 1
    BY <1>6, <2>1
  <2>3. \A d \in entries : Cardinality(under(d)) = i - 1 => d = e
    <3> SUFFICES ASSUME NEW d \in entries, Cardinality(under(d)) = i - 1 PROVE d = e
      OBVIOUS
    <3>1. rank[d] - 1 = i - 1 /\ rank[d] \in 1..N
      BY <1>4, <1>6
    <3>2. rank[d] = i
      BY <1>1, <3>1
    <3> QED BY <1>7, <2>1, <3>2 DEF Injection, IsInjective
  <2>4. Sorted(entries)[i] = CHOOSE d \in entries : Cardinality(under(d)) = i - 1
    BY DEF Sorted
  <2> HIDE DEF under
  <2> QED BY <2>1, <2>2, <2>3, <2>4
<1>10. Sorted(entries) \in Seq(entries) /\ Len(Sorted(entries)) = N
  <2>1. Sorted(entries) \in [1..N -> entries]
    <3> DEFINE at(i) == CHOOSE e \in entries : Cardinality(under(e)) = i - 1
    <3>1. Sorted(entries) = [i \in 1..N |-> at(i)]
      BY DEF Sorted
    <3> HIDE DEF at
    <3>2. \A i \in 1..N : at(i) \in entries
      BY <1>9, <3>1
    <3> QED BY <3>1, <3>2
  <2> QED BY <1>1, <2>1
<1>11. ASSUME NEW i \in 1..N, NEW j \in 1..N, i < j
       PROVE  Before(Sorted(entries)[i], Sorted(entries)[j])
  <2>1. PICK a \in entries : rank[a] = i /\ Sorted(entries)[i] = a
    BY <1>9
  <2>2. PICK b \in entries : rank[b] = j /\ Sorted(entries)[j] = b
    BY <1>9
  <2>3. ~(rank[b] < rank[a]) /\ rank[a] # rank[b]
    BY <1>1, <1>11, <2>1, <2>2
  <2>4. a # b /\ ~Before(b, a)
    BY <1>5, <2>3
  <2> QED BY <2>1, <2>2, <2>4, BeforeIsOrder
<1>12. ASSUME NEW e \in entries PROVE \E i \in 1..N : Sorted(entries)[i] = e
  <2>1. rank[e] \in 1..N
    BY <1>4
  <2>2. PICK d \in entries : rank[d] = rank[e] /\ Sorted(entries)[rank[e]] = d
    BY <1>9, <2>1
  <2> QED BY <1>7, <2>1, <2>2 DEF Injection, IsInjective
<1> QED BY <1>1, <1>10, <1>11, <1>12

\* A seek in a table finds its first entry, and its last one ends it.
LEMMA FirstOfIsFirst ==
    ASSUME NEW entries \in SUBSET Record, Distinct(entries), IsFiniteSet(entries), entries # {}
    PROVE  /\ FirstOf(entries) \in entries
           /\ \A e \in entries : e = FirstOf(entries) \/ Before(FirstOf(entries), e)
<1> DEFINE N == Cardinality(entries)
           s == Sorted(entries)
<1>1. /\ s \in Seq(entries) /\ N \in Nat /\ Len(s) = N
      /\ \A i, j \in 1..N : i < j => Before(s[i], s[j])
      /\ \A e \in entries : \E i \in 1..N : s[i] = e
  BY SortedInOrder
<1> HIDE DEF N, s
<1>2. 1 \in 1..N
  BY <1>1
<1>3. s[1] \in entries
  BY <1>1, <1>2
<1>4. ASSUME NEW e \in entries PROVE e = s[1] \/ Before(s[1], e)
  <2>1. PICK i \in 1..N : s[i] = e
    BY <1>1
  <2>2. i = 1 \/ 1 < i
    BY <1>1
  <2> QED BY <1>1, <1>2, <2>1, <2>2
<1> QED BY <1>3, <1>4, Zenon DEF FirstOf

LEMMA LastOfIsLast ==
    ASSUME NEW entries \in SUBSET Record, Distinct(entries), IsFiniteSet(entries), entries # {}
    PROVE  /\ LastOf(entries) \in entries
           /\ \A e \in entries : e = LastOf(entries) \/ Before(e, LastOf(entries))
<1> DEFINE N == Cardinality(entries)
           s == Sorted(entries)
<1>1. /\ s \in Seq(entries) /\ N \in Nat /\ Len(s) = N
      /\ \A i, j \in 1..N : i < j => Before(s[i], s[j])
      /\ \A e \in entries : \E i \in 1..N : s[i] = e
  BY SortedInOrder
<1> HIDE DEF N, s
<1>2. N \in 1..N
  BY <1>1
<1>3. s[N] \in entries
  BY <1>1, <1>2
<1>4. ASSUME NEW e \in entries PROVE e = s[N] \/ Before(e, s[N])
  <2>1. PICK i \in 1..N : s[i] = e
    BY <1>1
  <2>2. i = N \/ i < N
    BY <1>1
  <2> QED BY <1>1, <1>2, <2>1, <2>2
<1> QED BY <1>3, <1>4, Zenon DEF LastOf

-----------------------------------------------------------------------------
(***************************************************************************)
(* Tables and the ranges of keys they cover                                *)
(***************************************************************************)
\* A table that has entries, and metadata that tell the first and the last.
GoodFile(f) ==
    /\ f.entries \in SUBSET Record
    /\ f.smallest \in f.entries /\ f.largest \in f.entries
    /\ \A e \in f.entries : /\ e = f.smallest \/ Before(f.smallest, e)
                            /\ e = f.largest \/ Before(e, f.largest)

GoodFiles(fs) == \A f \in fs : GoodFile(f)

LEMMA TableIsGood ==
    ASSUME NEW entries \in SUBSET Record, Distinct(entries), IsFiniteSet(entries), entries # {},
           NEW number
    PROVE  /\ GoodFile(Table(number, entries))
           /\ Table(number, entries).entries = entries
           /\ Table(number, entries).number = number
BY FirstOfIsFirst, LastOfIsLast DEF GoodFile, Table

LEMMA KeysOfFile ==
    ASSUME NEW f, GoodFile(f)
    PROVE  /\ f.smallest.key \in Keys /\ f.largest.key \in Keys
           /\ f.smallest.key <= f.largest.key
           /\ \A e \in f.entries : /\ e.key \in Keys
                                   /\ f.smallest.key <= e.key /\ e.key <= f.largest.key
<1>1. \A e \in f.entries : e.key \in Keys /\ e.key \in Nat
  BY LsmTreeAssumption DEF GoodFile, Record
<1> QED BY <1>1 DEF GoodFile, Before

LEMMA HullOfFiles ==
    ASSUME NEW fs, fs # {}, GoodFiles(fs)
    PROVE  /\ LowestKey(fs) \in Keys /\ HighestKey(fs) \in Keys
           /\ LowestKey(fs) <= HighestKey(fs)
           /\ \E f \in fs : f.smallest.key = LowestKey(fs)
           /\ \E f \in fs : f.largest.key = HighestKey(fs)
           /\ \A f \in fs : LowestKey(fs) <= f.smallest.key /\ f.largest.key <= HighestKey(fs)
<1>1. \A f \in fs : f.smallest.key \in Keys /\ f.largest.key \in Keys
  BY KeysOfFile DEF GoodFiles
<1>2. /\ LowestKey(fs) \in {f.smallest.key : f \in fs}
      /\ \A k \in {f.smallest.key : f \in fs} : LowestKey(fs) <= k
  <2>1. {f.smallest.key : f \in fs} \in SUBSET Keys /\ {f.smallest.key : f \in fs} # {}
    BY <1>1
  <2> QED BY <2>1, MinOfKeys, Zenon DEF LowestKey
<1>3. /\ HighestKey(fs) \in {f.largest.key : f \in fs}
      /\ \A k \in {f.largest.key : f \in fs} : HighestKey(fs) >= k
  <2>1. {f.largest.key : f \in fs} \in SUBSET Keys /\ {f.largest.key : f \in fs} # {}
    BY <1>1
  <2> QED BY <2>1, MaxOfKeys, Zenon DEF HighestKey
<1>4. \A f \in fs : /\ f.smallest.key \in Nat /\ f.largest.key \in Nat
                    /\ f.smallest.key <= f.largest.key
  BY <1>1, KeysOfFile, LsmTreeAssumption DEF GoodFiles
<1>5. LowestKey(fs) \in Keys /\ HighestKey(fs) \in Keys
  BY <1>1, <1>2, <1>3
<1>6. LowestKey(fs) \in Nat /\ HighestKey(fs) \in Nat
  BY <1>5, LsmTreeAssumption
<1>7. \E f \in fs : f.smallest.key = LowestKey(fs)
  BY <1>2
<1>8. \E f \in fs : f.largest.key = HighestKey(fs)
  BY <1>3
<1>9. \A f \in fs : LowestKey(fs) <= f.smallest.key /\ f.largest.key <= HighestKey(fs)
  BY <1>2, <1>3, <1>4, <1>6
<1>10. LowestKey(fs) <= HighestKey(fs)
  BY <1>4, <1>6, <1>7, <1>9
<1> QED BY <1>5, <1>7, <1>8, <1>9, <1>10

\* Every key of a range is within a file's.
Covered(fs, lo, hi) == \A k \in Keys : lo <= k /\ k <= hi => \E f \in fs : Overlaps(f, k, k)

\* GetOverlappingInputs takes every file of the range and no key on the way
\* to those it takes is in none; below level 0 it takes no others, and in level
\* 0 none is left that overlaps those it takes.
Takes(R, fs, level, lo, hi) ==
    /\ R \subseteq fs
    /\ \A f \in fs : Overlaps(f, lo, hi) => f \in R
    /\ level # 0 => \A f \in R : Overlaps(f, lo, hi)
    /\ \A k \in Keys, f \in R :
           (f.smallest.key <= k /\ k < lo) \/ (hi < k /\ k <= f.largest.key)
               => \E r \in R : Overlaps(r, k, k)
    /\ level = 0 => \A g \in fs \ R : \A f, h \in R :
                        ~Overlaps(g, f.smallest.key, h.largest.key)

LEMMA DeeperInputs ==
    ASSUME NEW version, NEW level, level # 0, NEW lo, NEW hi
    PROVE  GetOverlappingInputs(version, level, lo, hi) = {f \in version[level] : Overlaps(f, lo, hi)}
BY Zenon DEF GetOverlappingInputs

LEMMA Level0Inputs ==
    ASSUME NEW version, NEW lo, NEW hi, NEW from, NEW to,
           from = WidenedFrom(version[0], lo, hi), to = WidenedTo(version[0], from, hi)
    PROVE  GetOverlappingInputs(version, 0, lo, hi) = {f \in version[0] : Overlaps(f, from, to)}
BY Zenon DEF GetOverlappingInputs

LEMMA TakenFiles ==
    ASSUME NEW version, NEW level, GoodFiles(version[level]),
           NEW lo \in Keys, NEW hi \in Keys, lo <= hi
    PROVE  Takes(GetOverlappingInputs(version, level, lo, hi), version[level], level, lo, hi)
<1> SUFFICES ASSUME NEW R, R = GetOverlappingInputs(version, level, lo, hi)
             PROVE  Takes(R, version[level], level, lo, hi)
  BY Zenon
<1> DEFINE Closed(l, h) == \A f \in version[level] :
               Overlaps(f, l, h) => l <= f.smallest.key /\ f.largest.key <= h
           Lows == {l \in Keys : l <= lo /\ \E h \in Keys : h >= hi /\ Closed(l, h)}
           From == Max(Lows)
           Highs == {h \in Keys : h >= hi /\ Closed(From, h)}
           To == Min(Highs)
<1>1. \A f \in version[level] : /\ f.smallest.key \in Keys /\ f.largest.key \in Keys
                                /\ f.smallest.key \in Nat /\ f.largest.key \in Nat
                                /\ f.smallest.key <= f.largest.key
  <2> SUFFICES ASSUME NEW f \in version[level]
               PROVE  /\ f.smallest.key \in Keys /\ f.largest.key \in Keys
                      /\ f.smallest.key \in Nat /\ f.largest.key \in Nat
                      /\ f.smallest.key <= f.largest.key
    OBVIOUS
  <2>1. GoodFile(f)
    BY DEF GoodFiles
  <2> QED BY <2>1, KeysOfFile, LsmTreeAssumption
<1>2. lo \in Nat /\ hi \in Nat /\ \A k \in Keys : k \in Nat
  BY LsmTreeAssumption
<1>3. CASE level # 0
  <2>1. R = {f \in version[level] : Overlaps(f, lo, hi)}
    BY <1>3, DeeperInputs
  <2>2. ASSUME NEW k \in Keys, NEW f \in R,
               (f.smallest.key <= k /\ k < lo) \/ (hi < k /\ k <= f.largest.key)
        PROVE  Overlaps(f, k, k)
    <3>0. lo \in Nat /\ hi \in Nat /\ k \in Nat
      BY <1>2
    <3> HIDE DEF Closed, From, To, Lows, Highs
    <3>1. f.largest.key >= lo /\ f.smallest.key <= hi /\ f \in version[level]
      BY <2>1 DEF Overlaps
    <3> QED BY <1>1, <2>2, <3>0, <3>1 DEF Overlaps
  <2> HIDE DEF Closed, Lows, From, Highs, To
  <2> QED BY <1>3, <2>1, <2>2 DEF Takes
<1>4. CASE level = 0
  <2>1. R = {f \in version[level] : Overlaps(f, From, To)}
    <3>1. From = WidenedFrom(version[level], lo, hi)
      BY DEF WidenedFrom, NoneSticksOut
    <3> HIDE DEF From
    <3>2. To = WidenedTo(version[level], From, hi)
      BY DEF WidenedTo, NoneSticksOut
    <3> HIDE DEF To
    <3> QED BY <1>4, <3>1, <3>2, Level0Inputs
  <2>2. From \in Lows /\ \A l \in Lows : From >= l
    <3>1. Keys # {}
      OBVIOUS
    <3>2. PICK l \in Keys : \A k \in Keys : l <= k
      BY <3>1, MinOfKeys
    <3>3. PICK h \in Keys : \A k \in Keys : h >= k
      BY <3>1, MaxOfKeys
    <3>4. l \in Lows
      <4>1. h >= hi /\ l <= lo
        BY <3>2, <3>3
      <4>2. Closed(l, h)
        BY <1>1, <1>2, <3>2, <3>3
      <4> QED BY <4>1, <4>2
    <3>5. Lows \in SUBSET Keys /\ Lows # {}
      BY <3>4
    <3> HIDE DEF Lows
    <3> QED BY <3>5, MaxOfKeys
  <2>3. To \in Highs /\ \A h \in Highs : To <= h
    <3>1. Highs \in SUBSET Keys /\ Highs # {}
      BY <2>2
    <3> HIDE DEF Highs
    <3> QED BY <3>1, MinOfKeys
  <2>4. /\ From \in Keys /\ From <= lo /\ From \in Nat
        /\ To \in Keys /\ hi <= To /\ To \in Nat
        /\ Closed(From, To)
    BY <1>2, <2>2, <2>3
  <2>5. \A l \in Keys : l <= lo /\ Closed(l, To) => From >= l
    BY <2>2, <2>4
  <2>6. \A h \in Keys : h >= hi /\ Closed(From, h) => To <= h
    BY <2>3
  <2> HIDE DEF From, To, Lows, Highs
  <2>7. \A f \in R : From <= f.smallest.key /\ f.largest.key <= To
    BY <2>1, <2>4
  <2>8. ASSUME NEW k \in Keys, From <= k, k <= To, \A f \in R : ~Overlaps(f, k, k)
        PROVE  lo <= k /\ k <= hi
    <3>1. ASSUME k < lo PROVE FALSE
      <4> DEFINE Above == {l \in Keys : k < l}
      <4>1. PICK l \in Above : \A m \in Above : l <= m
        <5>1. Above \in SUBSET Keys /\ Above # {}
          BY <3>1
        <5> HIDE DEF Above
        <5> QED BY <5>1, MinOfKeys
      <4>2. l \in Keys /\ l \in Nat /\ k < l /\ l <= lo
        BY <1>2, <3>1, <4>1
      <4>3. ASSUME NEW f \in version[level], Overlaps(f, l, To)
            PROVE  l <= f.smallest.key /\ f.largest.key <= To
        <5>1. f \in R
          BY <1>1, <1>2, <2>1, <2>4, <2>8, <4>2, <4>3 DEF Overlaps
        <5>2. f.largest.key >= l
          BY <4>3 DEF Overlaps
        <5>3. f.smallest.key > k
          <6>1. ~Overlaps(f, k, k)
            BY <2>8, <5>1
          <6>2. f.largest.key \in Nat /\ f.smallest.key \in Nat
            BY <1>1
          <6>3. f.largest.key >= k
            BY <1>2, <4>2, <5>2, <6>2
          <6> QED BY <1>2, <6>1, <6>2, <6>3 DEF Overlaps
        <5>4. f.smallest.key \in Above
          BY <1>1, <5>3
        <5> QED BY <2>7, <4>1, <5>1, <5>4
      <4> HIDE DEF Above
      <4>4. From >= l
        BY <2>5, <4>2, <4>3
      <4> QED BY <1>2, <2>4, <2>8, <4>2, <4>4
    <3>2. ASSUME k > hi PROVE FALSE
      <4> DEFINE Below == {h \in Keys : h < k}
      <4>1. PICK h \in Below : \A m \in Below : h >= m
        <5>1. Below \in SUBSET Keys /\ Below # {}
          BY <1>2, <3>2
        <5> HIDE DEF Below
        <5> QED BY <5>1, MaxOfKeys
      <4>2. h \in Keys /\ h \in Nat /\ h < k /\ hi <= h
        BY <1>2, <3>2, <4>1
      <4>3. ASSUME NEW f \in version[level], Overlaps(f, From, h)
            PROVE  From <= f.smallest.key /\ f.largest.key <= h
        <5>1. f \in R
          BY <1>1, <1>2, <2>1, <2>4, <2>8, <4>2, <4>3 DEF Overlaps
        <5>2. f.smallest.key <= h
          BY <4>3 DEF Overlaps
        <5>3. f.largest.key < k
          <6>1. ~Overlaps(f, k, k)
            BY <2>8, <5>1
          <6>2. f.largest.key \in Nat /\ f.smallest.key \in Nat
            BY <1>1
          <6>3. f.smallest.key <= k
            BY <1>2, <4>2, <5>2, <6>2
          <6> QED BY <1>2, <6>1, <6>2, <6>3 DEF Overlaps
        <5>4. f.largest.key \in Below
          BY <1>1, <5>3
        <5>5. h >= f.largest.key
          BY <4>1, <5>4
        <5> QED BY <1>1, <2>7, <4>2, <5>1, <5>5
      <4> HIDE DEF Below
      <4>4. To <= h
        BY <2>6, <4>2, <4>3
      <4> QED BY <1>2, <2>4, <2>8, <4>2, <4>4
    <3> QED BY <1>2, <3>1, <3>2
  <2>9. ASSUME NEW k \in Keys, NEW f \in R,
               (f.smallest.key <= k /\ k < lo) \/ (hi < k /\ k <= f.largest.key)
        PROVE  \E r \in R : Overlaps(r, k, k)
    <3>1. f \in version[level]
      BY <2>1
    <3>2. From <= k /\ k <= To
      <4>1. f.largest.key \in Nat /\ f.smallest.key \in Nat /\ k \in Nat
        BY <1>1, <1>2, <3>1
      <4>2. From <= f.smallest.key /\ f.largest.key <= To
        BY <2>7
      <4> QED BY <1>2, <2>4, <2>9, <4>1, <4>2
    <3>3. ~(lo <= k /\ k <= hi)
      BY <1>2, <2>9
    <3> QED BY <2>8, <3>2, <3>3
  <2>10. ASSUME NEW g \in version[0] \ R, NEW f \in R, NEW h \in R
         PROVE  ~Overlaps(g, f.smallest.key, h.largest.key)
    <3>1. f \in version[level] /\ h \in version[level] /\ g \in version[level]
      BY <1>4, <2>1
    <3>2. ~Overlaps(g, From, To)
      BY <1>4, <2>1, Zenon
    <3> QED BY <1>1, <1>2, <2>4, <2>7, <3>1, <3>2 DEF Overlaps
  <2>11. ASSUME NEW f \in version[level], Overlaps(f, lo, hi) PROVE f \in R
    BY <1>1, <1>2, <2>1, <2>4, <2>11 DEF Overlaps
  <2>12. R \subseteq version[level]
    BY <2>1
  <2> HIDE DEF Closed
  <2> QED BY <1>4, <2>9, <2>10, <2>11, <2>12 DEF Takes
<1> QED BY <1>3, <1>4

-----------------------------------------------------------------------------
(***************************************************************************)
(* What a compaction takes                                                 *)
(***************************************************************************)
\* None of some files is among the keys of others.
Apart(gs, fs) == \A g \in gs : ~Overlaps(g, LowestKey(fs), HighestKey(fs))

\* With the files that overlap them, files without a gap still have none.
LEMMA GrownFilesAreCovered ==
    ASSUME NEW version, NEW level, GoodFiles(version[level]),
           NEW fs, fs # {}, GoodFiles(fs), Covered(fs, LowestKey(fs), HighestKey(fs)),
           NEW gs, gs = GetOverlappingInputs(version, level, LowestKey(fs), HighestKey(fs))
    PROVE  /\ GoodFiles(fs \cup gs)
           /\ Covered(fs \cup gs, LowestKey(fs \cup gs), HighestKey(fs \cup gs))
<1> DEFINE lo == LowestKey(fs)
           hi == HighestKey(fs)
           all == fs \cup gs
<1>1. /\ lo \in Keys /\ hi \in Keys /\ lo <= hi
      /\ \A f \in fs : lo <= f.smallest.key /\ f.largest.key <= hi
  BY HullOfFiles
<1>2. /\ gs \subseteq version[level]
      /\ \A k \in Keys, f \in gs :
            (f.smallest.key <= k /\ k < lo) \/ (hi < k /\ k <= f.largest.key)
                => \E r \in gs : Overlaps(r, k, k)
  BY <1>1, TakenFiles DEF Takes
<1>3. GoodFiles(all)
  BY <1>2 DEF GoodFiles
<1>4. /\ LowestKey(all) \in Keys /\ HighestKey(all) \in Keys
      /\ \E f \in all : f.smallest.key = LowestKey(all)
      /\ \E f \in all : f.largest.key = HighestKey(all)
  <2>1. all # {}
    OBVIOUS
  <2> HIDE DEF all
  <2> QED BY <1>3, <2>1, HullOfFiles
<1>5. \A f \in all : f.smallest.key \in Nat /\ f.largest.key \in Nat
  BY <1>3, KeysOfFile, LsmTreeAssumption DEF GoodFiles
<1>6. lo \in Nat /\ hi \in Nat /\ \A k \in Keys : k \in Nat
  BY <1>1, LsmTreeAssumption
<1>7. ASSUME NEW k \in Keys, LowestKey(all) <= k, k <= HighestKey(all)
      PROVE  \E f \in all : Overlaps(f, k, k)
  <2>1. CASE lo <= k /\ k <= hi
    BY <2>1 DEF Covered
  <2>2. CASE k < lo
    <3>1. PICK f \in all : f.smallest.key = LowestKey(all)
      BY <1>4
    <3>2. f \in gs
      BY <1>1, <1>5, <1>6, <1>7, <2>2, <3>1
    <3> HIDE DEF lo, hi
    <3> QED BY <1>2, <1>7, <2>2, <3>1, <3>2
  <2>3. CASE k > hi
    <3>1. PICK f \in all : f.largest.key = HighestKey(all)
      BY <1>4
    <3>2. f \in gs
      BY <1>1, <1>5, <1>6, <1>7, <2>3, <3>1
    <3>3. hi < k /\ k <= f.largest.key
      BY <1>6, <1>7, <2>3, <3>1
    <3> HIDE DEF lo, hi
    <3> QED BY <1>2, <3>2, <3>3
  <2> QED BY <1>6, <2>1, <2>2, <2>3
<1> QED BY <1>3, <1>7 DEF Covered

\* What a compaction may take from the levels: files of one level without a
\* gap between them that the next level does not fill, and all the files of
\* the next level that overlap them.
Fits(fl, c) ==
    /\ c.level \in 0..(NumLevels - 2)
    /\ c.inputs # {} /\ c.inputs \subseteq fl[c.level]
    /\ c.parents \subseteq fl[c.level + 1]
    /\ \A g \in fl[c.level + 1] :
          g \in c.parents <=> Overlaps(g, LowestKey(c.inputs), HighestKey(c.inputs))
    /\ Covered(c.inputs \cup c.parents, LowestKey(c.inputs), HighestKey(c.inputs))

\* In level 0 it takes all files that overlap each other.
TakesAllOfLevel0(fl, c) == c.level = 0 => Apart(fl[0] \ c.inputs, c.inputs)

\* The next level but one, as far as there is one.
Below(fl, c) == IF c.level + 2 < NumLevels THEN fl[c.level + 2] ELSE {}

LEMMA InputsFit ==
    ASSUME NEW l \in 0..(NumLevels - 2), \A m \in Levels : GoodFiles(files[m]),
           NEW fs \in SUBSET files[l], fs # {},
           Covered(fs, LowestKey(fs), HighestKey(fs)),
           l = 0 => Apart(files[0] \ fs, fs)
    PROVE  /\ Inputs(l, fs).level = l
           /\ Fits(files, Inputs(l, fs))
           /\ TakesAllOfLevel0(files, Inputs(l, fs))
           /\ Inputs(l, fs).grandparents \subseteq Below(files, Inputs(l, fs))
<1> DEFINE Parents(gs) == GetOverlappingInputs(files, l + 1, LowestKey(gs), HighestKey(gs))
           parents == Parents(fs)
           both == fs \cup parents
           wider == GetOverlappingInputs(files, l, LowestKey(both), HighestKey(both))
           c == Inputs(l, fs)
<1>1. l \in Levels /\ l + 1 \in Levels /\ l + 1 # 0 /\ NumLevels \in Nat
  BY LsmTreeAssumption DEF Levels
<1>2. GoodFiles(files[l]) /\ GoodFiles(files[l + 1])
  BY <1>1
<1>3. GoodFiles(fs)
  BY <1>2 DEF GoodFiles
<1>4. GoodFiles(both) /\ Covered(both, LowestKey(both), HighestKey(both))
  BY <1>2, <1>3, GrownFilesAreCovered
<1>5. both # {}
  OBVIOUS
<1>6. /\ LowestKey(both) \in Keys /\ HighestKey(both) \in Keys /\ LowestKey(both) <= HighestKey(both)
      /\ \A f \in both : LowestKey(both) <= f.smallest.key /\ f.largest.key <= HighestKey(both)
  <2> HIDE DEF both
  <2> QED BY <1>4, <1>5, HullOfFiles
<1>7. \A m \in Levels : \A f \in files[m] : /\ f.smallest.key \in Nat /\ f.largest.key \in Nat
                                            /\ f.smallest.key <= f.largest.key
  BY KeysOfFile, LsmTreeAssumption DEF GoodFiles
<1>8. /\ wider \subseteq files[l]
      /\ \A f \in files[l] : Overlaps(f, LowestKey(both), HighestKey(both)) => f \in wider
      /\ l = 0 => \A g \in files[0] \ wider : \A f, h \in wider :
             ~Overlaps(g, f.smallest.key, h.largest.key)
  <2>1. Takes(wider, files[l], l, LowestKey(both), HighestKey(both))
    BY <1>2, <1>6, TakenFiles, Zenon
  <2> HIDE DEF wider, both
  <2> QED BY <2>1 DEF Takes
<1>9. fs \subseteq wider
  <2>1. \A f \in fs : Overlaps(f, LowestKey(both), HighestKey(both))
    <3>1. LowestKey(both) \in Nat /\ HighestKey(both) \in Nat
      BY <1>6, LsmTreeAssumption
    <3>2. \A f \in fs : f \in both /\ f \in files[l]
      OBVIOUS
    <3> HIDE DEF both
    <3> QED BY <1>1, <1>6, <1>7, <3>1, <3>2 DEF Overlaps
  <2> QED BY <1>8, <2>1
<1>10. GoodFiles(wider)
  BY <1>2, <1>8 DEF GoodFiles
<1>11. Covered(wider \cup parents, LowestKey(wider \cup parents), HighestKey(wider \cup parents))
  <2>1. Covered(both \cup wider, LowestKey(both \cup wider), HighestKey(both \cup wider))
    BY <1>2, <1>4, <1>5, GrownFilesAreCovered
  <2>2. both \cup wider = wider \cup parents
    BY <1>9
  <2> QED BY <2>1, <2>2
\* The same for what it starts from and for what it may grow to.
<1>12. ASSUME NEW gs \in SUBSET files[l], gs # {}, fs \subseteq gs,
              Covered(gs \cup parents, LowestKey(gs), HighestKey(gs)),
              l = 0 => Apart(files[0] \ gs, gs),
              c.level = l, c.inputs = gs, c.parents = Parents(gs)
       PROVE  Fits(files, c) /\ TakesAllOfLevel0(files, c)
  <2>1. GoodFiles(gs)
    BY <1>2 DEF GoodFiles
  <2>2. /\ LowestKey(gs) \in Keys /\ HighestKey(gs) \in Keys /\ LowestKey(gs) <= HighestKey(gs)
        /\ \A f \in gs : LowestKey(gs) <= f.smallest.key /\ f.largest.key <= HighestKey(gs)
    BY <1>12, <2>1, HullOfFiles
  <2>3. /\ Parents(gs) \subseteq files[l + 1]
        /\ \A f \in files[l + 1] : Overlaps(f, LowestKey(gs), HighestKey(gs)) => f \in Parents(gs)
        /\ \A f \in Parents(gs) : Overlaps(f, LowestKey(gs), HighestKey(gs))
    BY <1>1, <1>2, <2>2, TakenFiles DEF Takes
  <2>4. parents \subseteq Parents(gs)
    <3>1. /\ LowestKey(fs) \in Keys /\ HighestKey(fs) \in Keys /\ LowestKey(fs) <= HighestKey(fs)
          /\ \E f \in fs : f.smallest.key = LowestKey(fs)
          /\ \E f \in fs : f.largest.key = HighestKey(fs)
      BY <1>3, HullOfFiles
    <3>2. parents \subseteq files[l + 1] /\ \A f \in parents : Overlaps(f, LowestKey(fs), HighestKey(fs))
      BY <1>1, <1>2, <3>1, TakenFiles DEF Takes
    <3>3. LowestKey(gs) <= LowestKey(fs) /\ HighestKey(fs) <= HighestKey(gs)
      BY <1>12, <2>2, <3>1
    <3>4. /\ LowestKey(gs) \in Nat /\ LowestKey(fs) \in Nat
          /\ HighestKey(gs) \in Nat /\ HighestKey(fs) \in Nat
      BY <2>2, <3>1, LsmTreeAssumption
    <3> HIDE DEF Parents, parents
    <3>5. \A f \in parents : Overlaps(f, LowestKey(gs), HighestKey(gs))
      BY <1>1, <1>7, <3>2, <3>3, <3>4 DEF Overlaps
    <3> QED BY <2>3, <3>2, <3>5
  <2>5. Covered(gs \cup Parents(gs), LowestKey(gs), HighestKey(gs))
    BY <1>12, <2>4, Zenon DEF Covered
  <2> HIDE DEF Parents, c
  <2> QED BY <1>12, <2>3, <2>5 DEF Fits, TakesAllOfLevel0
<1>13. ASSUME c.inputs = fs
       PROVE  Fits(files, c) /\ TakesAllOfLevel0(files, c)
  <2>1. c.level = l /\ c.parents = Parents(fs)
    BY <1>13, Zenon DEF Inputs
  <2>2. Covered(fs \cup parents, LowestKey(fs), HighestKey(fs))
    BY Zenon DEF Covered
  <2> QED BY <1>12, <1>13, <2>1, <2>2
<1>14. ASSUME c.inputs = wider
       PROVE  Fits(files, c) /\ TakesAllOfLevel0(files, c)
  <2>1. c.level = l /\ c.parents = Parents(wider)
    BY <1>14, Zenon DEF Inputs
  <2>2. wider # {} /\ wider \in SUBSET files[l]
    BY <1>8, <1>9
  <2>3. /\ LowestKey(wider) \in Nat /\ HighestKey(wider) \in Nat
        /\ \E f \in wider : f.smallest.key = LowestKey(wider)
        /\ \E f \in wider : f.largest.key = HighestKey(wider)
    BY <1>10, <2>2, HullOfFiles, LsmTreeAssumption
  <2> HIDE DEF wider
  <2>4. Covered(wider \cup parents, LowestKey(wider), HighestKey(wider))
    <3>1. wider \cup parents # {} /\ GoodFiles(wider \cup parents)
      <4>1. \A f \in parents : f \in both
        OBVIOUS
      <4> HIDE DEF parents, both
      <4> QED BY <1>4, <1>10, <2>2, <4>1 DEF GoodFiles
    <3> HIDE DEF parents
    <3>2. /\ LowestKey(wider \cup parents) \in Nat /\ HighestKey(wider \cup parents) \in Nat
          /\ \A f \in wider \cup parents : /\ LowestKey(wider \cup parents) <= f.smallest.key
                                            /\ f.largest.key <= HighestKey(wider \cup parents)
      BY <3>1, HullOfFiles, LsmTreeAssumption
    <3>3. /\ LowestKey(wider \cup parents) <= LowestKey(wider)
          /\ HighestKey(wider) <= HighestKey(wider \cup parents)
      BY <2>3, <3>2
    <3>4. \A k \in Keys : k \in Nat
      BY LsmTreeAssumption
    <3>5. \A k \in Keys : LowestKey(wider) <= k /\ k <= HighestKey(wider)
             => LowestKey(wider \cup parents) <= k /\ k <= HighestKey(wider \cup parents)
      BY <2>3, <3>2, <3>3, <3>4
    <3> QED BY <1>11, <3>5, Zenon DEF Covered
  <2>5. l = 0 => Apart(files[0] \ wider, wider)
    BY <1>8, <2>3, Zenon DEF Apart
  <2> QED BY <1>9, <1>12, <1>14, <2>1, <2>2, <2>4, <2>5
<1>15. c.inputs = fs \/ c.inputs = wider
  BY Zenon DEF Inputs
<1>16. Fits(files, c) /\ TakesAllOfLevel0(files, c) /\ c.level = l
  <2>1. c.level = l
    BY Zenon DEF Inputs
  <2> QED BY <1>13, <1>14, <1>15, <2>1
<1>17. c.grandparents \subseteq Below(files, c)
  <2> DEFINE all == c.inputs \cup c.parents
  <2>1. c.grandparents = IF l + 2 < NumLevels
                         THEN GetOverlappingInputs(files, l + 2, LowestKey(all), HighestKey(all))
                         ELSE {}
    BY Zenon DEF Inputs
  <2>2. all # {} /\ GoodFiles(all)
    BY <1>2, <1>16 DEF Fits, GoodFiles
  <2> HIDE DEF all, c
  <2>3. LowestKey(all) \in Keys /\ HighestKey(all) \in Keys /\ LowestKey(all) <= HighestKey(all)
    BY <2>2, HullOfFiles
  <2>4. CASE l + 2 < NumLevels
    <3>1. l + 2 \in Levels
      BY <1>1, <2>4 DEF Levels
    <3>2. GetOverlappingInputs(files, l + 2, LowestKey(all), HighestKey(all)) \subseteq files[l + 2]
      BY <2>3, <3>1, TakenFiles DEF Takes
    <3> QED BY <1>16, <2>1, <2>4, <3>2 DEF Below
  <2>5. CASE ~(l + 2 < NumLevels)
    BY <2>1, <2>5
  <2> QED BY <2>4, <2>5
<1> QED BY <1>16, <1>17

\* PickCompaction starts from one file, or in level 0 from those it overlaps.
LEMMA PickedFits ==
    ASSUME NEW l \in 0..(NumLevels - 2), \A m \in Levels : GoodFiles(files[m]),
           NEW f \in files[l]
    PROVE  /\ Picked(l, f).level = l
           /\ Fits(files, Picked(l, f))
           /\ TakesAllOfLevel0(files, Picked(l, f))
           /\ Picked(l, f).grandparents \subseteq Below(files, Picked(l, f))
<1>1. l \in Levels /\ 0 \in Levels
  BY LsmTreeAssumption DEF Levels
<1>2. GoodFile(f)
  BY <1>1 DEF GoodFiles
<1>3. \A k \in Keys : k \in Nat
  BY LsmTreeAssumption
<1>4. /\ f.smallest.key \in Keys /\ f.largest.key \in Keys
      /\ f.smallest.key <= f.largest.key
      /\ f.smallest.key \in Nat /\ f.largest.key \in Nat
  BY <1>2, <1>3, KeysOfFile
<1>5. CASE l # 0
  <2>1. {f} # {} /\ GoodFiles({f}) /\ {f} \in SUBSET files[l]
    BY <1>2 DEF GoodFiles
  <2>2. LowestKey({f}) = f.smallest.key /\ HighestKey({f}) = f.largest.key
    BY <2>1, HullOfFiles
  <2>3. Covered({f}, LowestKey({f}), HighestKey({f}))
    BY <1>3, <1>4, <2>2 DEF Covered, Overlaps
  <2>4. Picked(l, f) = Inputs(l, {f})
    BY <1>5 DEF Picked
  <2> QED BY <1>5, <2>1, <2>3, <2>4, InputsFit
<1>6. CASE l = 0
  <2> DEFINE lo == f.smallest.key
             hi == f.largest.key
             R == GetOverlappingInputs(files, 0, lo, hi)
  <2>1. Takes(R, files[0], 0, lo, hi)
    BY <1>1, <1>4, TakenFiles
  <2> HIDE DEF R
  <2>2. f \in R /\ R \in SUBSET files[0]
    BY <1>4, <1>6, <2>1 DEF Takes, Overlaps
  <2>3. GoodFiles(R)
    BY <1>1, <2>2 DEF GoodFiles
  <2>4. /\ LowestKey(R) \in Nat /\ HighestKey(R) \in Nat
        /\ \E g \in R : g.smallest.key = LowestKey(R)
        /\ \E g \in R : g.largest.key = HighestKey(R)
    BY <2>2, <2>3, HullOfFiles, LsmTreeAssumption
  <2>5. Covered(R, LowestKey(R), HighestKey(R))
    <3> SUFFICES ASSUME NEW k \in Keys, LowestKey(R) <= k, k <= HighestKey(R)
                 PROVE  \E g \in R : Overlaps(g, k, k)
      BY DEF Covered
    <3>1. CASE lo <= k /\ k <= hi
      BY <1>3, <1>4, <2>2, <3>1 DEF Overlaps
    <3>2. CASE k < lo
      BY <2>1, <2>4, <3>2 DEF Takes
    <3>3. CASE hi < k
      BY <2>1, <2>4, <3>3 DEF Takes
    <3> QED BY <1>3, <1>4, <3>1, <3>2, <3>3
  <2>6. Apart(files[0] \ R, R)
    BY <2>1, <2>4 DEF Takes, Apart
  <2>7. Picked(0, f) = Inputs(0, R)
    BY DEF Picked, R
  <2> QED BY <1>6, <2>2, <2>5, <2>6, <2>7, InputsFit
<1> QED BY <1>5, <1>6

\* A memtable is placed where nothing overlaps it, in its level or above,
\* unless it goes to level 0.
LEMMA PlaceIsFree ==
    ASSUME NEW version, NEW lo, NEW hi
    PROVE  /\ PickLevelForMemTableOutput(version, lo, hi) \in Levels
           /\ PickLevelForMemTableOutput(version, lo, hi) # 0
              => \A m \in 0..PickLevelForMemTableOutput(version, lo, hi) :
                    ~OverlapInLevel(version[m], lo, hi)
<1> DEFINE MayGo(l) ==
               /\ ~OverlapInLevel(version[l], lo, hi)
               /\ l + 1 < NumLevels =>
                     TotalFileSize(GetOverlappingInputs(version, l + 1, lo, hi)) <= MaxOverlap
           free == {l \in 1..MaxMemCompactLevel : \A m \in 1..l : MayGo(m)}
           place == Max({0} \cup free)
<1>1. PickLevelForMemTableOutput(version, lo, hi) = IF OverlapInLevel(version[0], lo, hi) THEN 0 ELSE place
  BY Zenon DEF PickLevelForMemTableOutput
<1>2. 0 \in Levels /\ MaxMemCompactLevel \in Nat /\ 0..MaxMemCompactLevel \subseteq Levels
  BY LsmTreeAssumption DEF Levels
<1>3. \A l \in free : l \in 1..MaxMemCompactLevel /\ \A m \in 1..l : ~OverlapInLevel(version[m], lo, hi)
  OBVIOUS
<1> HIDE DEF MayGo, free
<1>4. place \in {0} \cup free
  <2>1. ({0} \cup free) \in SUBSET Nat /\ \A k \in {0} \cup free : k <= MaxMemCompactLevel
    BY <1>2, <1>3
  <2> QED BY <1>2, <2>1, MaxOfBounded
<1> HIDE DEF place
<1>5. CASE OverlapInLevel(version[0], lo, hi)
  BY <1>1, <1>2, <1>5
<1>6. CASE ~OverlapInLevel(version[0], lo, hi) /\ place = 0
  BY <1>1, <1>2, <1>6
<1>7. CASE ~OverlapInLevel(version[0], lo, hi) /\ place \in free
  <2>1. place \in 1..MaxMemCompactLevel /\ \A m \in 1..place : ~OverlapInLevel(version[m], lo, hi)
    BY <1>3, <1>7
  <2>2. \A m \in 0..place : m = 0 \/ m \in 1..place
    BY <1>2, <2>1
  <2> QED BY <1>1, <1>2, <1>7, <2>1, <2>2
<1> QED BY <1>4, <1>5, <1>6, <1>7

-----------------------------------------------------------------------------
(***************************************************************************)
(* The loop of DoCompactionWork                                            *)
(***************************************************************************)
LEMMA RoundsDefined ==
    ASSUME NEW c, NEW merged, Len(merged) \in Nat
    PROVE  /\ Rounds(c, merged)[0] = Start
           /\ \A i \in 1..Len(merged) :
                 Rounds(c, merged)[i] = Round(c, Rounds(c, merged)[i - 1], merged[i])
<1> DEFINE N == Len(merged)
           Upto(g, n) == g = [i \in 0..n |-> IF i = 0 THEN Start ELSE Round(c, g[i - 1], merged[i])]
           P == {n \in Nat : \E g : Upto(g, n)}
<1>1. 0 \in P
  <2> DEFINE g == [i \in 0..0 |-> Start]
  <2>1. Upto(g, 0)
    OBVIOUS
  <2> QED BY <2>1, Zenon
<1>2. ASSUME NEW n \in P PROVE n + 1 \in P
  <2>1. n \in Nat
    OBVIOUS
  <2>2. PICK g : Upto(g, n)
    BY Zenon
  <2> DEFINE h == [i \in 0..(n + 1) |-> IF i = n + 1 THEN Round(c, g[n], merged[n + 1]) ELSE g[i]]
  <2>3. Upto(h, n + 1)
    <3>1. ASSUME NEW i \in 0..(n + 1)
          PROVE  h[i] = IF i = 0 THEN Start ELSE Round(c, h[i - 1], merged[i])
      <4>1. CASE i = 0
        <5>1. 0 \in 0..n /\ 0 # n + 1
          BY <2>1
        <5>2. g[0] = Start
          BY <2>2, <5>1
        <5> QED BY <4>1, <5>1, <5>2
      <4>2. CASE i = n + 1
        <5>1. n \in 0..(n + 1) /\ n # n + 1 /\ (n + 1) - 1 = n /\ n + 1 # 0
          BY <2>1
        <5>2. h[n] = g[n]
          BY <5>1
        <5> QED BY <4>2, <5>1, <5>2
      <4>3. CASE i # 0 /\ i # n + 1
        <5>1. i \in 0..n /\ i - 1 \in 0..(n + 1) /\ i - 1 # n + 1
          BY <2>1, <4>3
        <5>2. g[i] = Round(c, g[i - 1], merged[i])
          BY <2>2, <4>3, <5>1
        <5>3. h[i] = g[i] /\ h[i - 1] = g[i - 1]
          BY <4>3, <5>1
        <5> QED BY <4>3, <5>2, <5>3
      <4> QED BY <4>1, <4>2, <4>3
    <3>2. h = [i \in 0..(n + 1) |-> h[i]]
      OBVIOUS
    <3> HIDE DEF h
    <3> QED BY <3>1, <3>2
  <2> HIDE DEF h, Upto
  <2>4. n + 1 \in Nat
    BY <2>1
  <2> QED BY <2>3, <2>4, Zenon
<1>3. P = Nat
  <2>1. P \in SUBSET Nat
    OBVIOUS
  <2> HIDE DEF P
  <2> QED BY <1>1, <1>2, <2>1, InductionOnNat
<1>4. \E g : Upto(g, N)
  <2>1. N \in P
    BY <1>3
  <2> HIDE DEF N, Upto
  <2> QED BY <2>1
<1>5. Rounds(c, merged) = CHOOSE g : Upto(g, N)
  BY DEF Rounds
<1>6. Upto(Rounds(c, merged), N)
  <2> HIDE DEF Upto
  <2> QED BY <1>4, <1>5, Zenon
<1> HIDE DEF N
<1>7. N \in Nat
  BY DEF N
<1>8. 0 \in 0..N /\ \A i \in 1..N : i \in 0..N /\ i # 0
  BY <1>7
<1> QED BY <1>6, <1>8, Zenon DEF N

\* The tables a loop has written, the one under way included.
Written(a) == IF a.output = << >> THEN a.outputs ELSE Append(a.outputs, a.output)

\* What may become of an entry.
Stops(c, a, e) ==
    a.overlap + (IF a.seen THEN TotalFileSize(PassedBy(c, e) \ a.passed) ELSE 0) > MaxOverlap
Drops(c, a, e) == Drop(c, e, IF a.key = e.key THEN a.seq ELSE load.writes + 1)

\* A round drops the entry, or opens a table with it, or adds it to the table
\* under way.
RoundFrom(c, a, e, b) ==
    /\ b.key = e.key /\ b.seq = e.seq
    /\ b.outputs \in Seq(Seq(Record)) /\ b.output \in Seq(Record)
    /\ \/ Drops(c, a, e) /\ Written(b) = Written(a)
       \/ /\ ~Drops(c, a, e) /\ (Stops(c, a, e) \/ a.output = << >>)
          /\ Written(b) = Append(Written(a), << e >>)
       \/ /\ ~Drops(c, a, e) /\ ~Stops(c, a, e) /\ a.output # << >>
          /\ Written(b) = Append(a.outputs, Append(a.output, e))

LEMMA RoundWrites ==
    ASSUME NEW c, NEW a, NEW e \in Record,
           a.outputs \in Seq(Seq(Record)), a.output \in Seq(Record),
           NEW b, b = Round(c, a, e)
    PROVE  RoundFrom(c, a, e, b)
<1> DEFINE stop == Stops(c, a, e)
           drop == Drops(c, a, e)
           begun == IF stop /\ a.output # << >> THEN Append(a.outputs, a.output) ELSE a.outputs
           rest == IF stop THEN << >> ELSE a.output
           output == IF drop THEN rest ELSE Append(rest, e)
           full == ~drop /\ Len(output) >= load.fileSize
<1>1. /\ b.key = e.key /\ b.seq = e.seq
      /\ b.outputs = IF full THEN Append(begun, output) ELSE begun
      /\ b.output = IF full THEN << >> ELSE output
  BY DEF Round, Stops, Drops
<1>2. rest \in Seq(Record) /\ begun \in Seq(Seq(Record))
  <2> HIDE DEF stop
  <2>1. << >> \in Seq(Record)
    OBVIOUS
  <2>2. Append(a.outputs, a.output) \in Seq(Seq(Record))
    BY AppendProperties
  <2> QED BY <2>1, <2>2
<1>3. Append(rest, e) \in Seq(Record) /\ Append(rest, e) # << >>
  <2> HIDE DEF rest
  <2> QED BY <1>2, AppendProperties
<1>4. output \in Seq(Record)
  BY <1>2, <1>3
<1>5. b.outputs \in Seq(Seq(Record)) /\ b.output \in Seq(Record)
  <2>1. Append(begun, output) \in Seq(Seq(Record))
    <3> HIDE DEF begun, output
    <3> QED BY <1>2, <1>4, AppendProperties
  <2>2. << >> \in Seq(Record)
    OBVIOUS
  <2> HIDE DEF begun, output, full
  <2> QED BY <1>1, <1>2, <1>4, <2>1, <2>2
<1>6. CASE drop
  <2>1. b.outputs = begun /\ b.output = rest
    BY <1>1, <1>6
  <2> HIDE DEF stop, drop
  <2>2. Written(b) = Written(a)
    BY <2>1 DEF Written
  <2> QED BY <1>1, <1>5, <1>6, <2>2, Zenon DEF drop, RoundFrom
<1>7. CASE ~drop
  <2>1. Written(b) = Append(begun, Append(rest, e))
    <3>1. output = Append(rest, e)
      BY <1>7
    <3> HIDE DEF begun, rest, output, full
    <3> QED BY <1>1, <1>3, <3>1 DEF Written
  <2>2. CASE stop \/ a.output = << >>
    <3>1. begun = Written(a) /\ rest = << >>
      <4> HIDE DEF stop
      <4> QED BY <2>2 DEF Written
    <3>2. Append(rest, e) = << e >>
      <4>1. Append(<< >>, e) = << e >>
        OBVIOUS
      <4> QED BY <3>1, <4>1, Zenon
    <3>3. Written(b) = Append(Written(a), << e >>)
      BY <2>1, <3>1, <3>2, Zenon
    <3> HIDE DEF begun, rest, output, full
    <3> QED BY <1>1, <1>5, <1>7, <2>2, <3>3, Zenon DEF stop, drop, RoundFrom
  <2>3. CASE ~stop /\ a.output # << >>
    <3>1. begun = a.outputs /\ rest = a.output
      <4> HIDE DEF stop
      <4> QED BY <2>3
    <3> HIDE DEF begun, rest, output, full
    <3> QED BY <1>1, <1>5, <1>7, <2>1, <2>3, <3>1, Zenon DEF stop, drop, RoundFrom
  <2> QED BY <2>2, <2>3
<1> QED BY <1>6, <1>7

\* What is said of the tables written so far: each has entries, and those of
\* one come before those of the next; no key is in two of them.
Entries(os) == UNION {Range(os[j]) : j \in DOMAIN os}
InOrder(os) ==
    /\ \A j \in DOMAIN os : os[j] # << >>
    /\ \A j, k \in DOMAIN os : j < k =>
          \A x \in Range(os[j]), y \in Range(os[k]) : Before(x, y)
WholeKeys(os) ==
    \A j, k \in DOMAIN os : j # k =>
        \A x \in Range(os[j]), y \in Range(os[k]) : x.key # y.key

LEMMA RangeOfAppend ==
    ASSUME NEW s \in Seq(Record), NEW e \in Record
    PROVE  Range(Append(s, e)) = Range(s) \cup {e}
<1>1. Len(s) \in Nat /\ DOMAIN s = 1..Len(s)
  BY LenProperties
<1>2. /\ DOMAIN Append(s, e) = 1..(Len(s) + 1)
      /\ \A i \in 1..Len(s) : Append(s, e)[i] = s[i]
      /\ Append(s, e)[Len(s) + 1] = e
  BY AppendProperties, <1>1
<1>3. \A i : i \in 1..(Len(s) + 1) <=> i \in 1..Len(s) \/ i = Len(s) + 1
  BY <1>1
<1> QED BY <1>1, <1>2, <1>3, Zenon DEF Range

LEMMA EntriesOfAppend ==
    ASSUME NEW os \in Seq(Seq(Record)), NEW o \in Seq(Record)
    PROVE  Entries(Append(os, o)) = Entries(os) \cup Range(o)
<1>1. Len(os) \in Nat /\ DOMAIN os = 1..Len(os)
  BY LenProperties
<1>2. /\ DOMAIN Append(os, o) = 1..(Len(os) + 1)
      /\ \A i \in 1..Len(os) : Append(os, o)[i] = os[i]
      /\ Append(os, o)[Len(os) + 1] = o
  BY AppendProperties, <1>1
<1>3. \A i : i \in 1..(Len(os) + 1) <=> i \in 1..Len(os) \/ i = Len(os) + 1
  BY <1>1
<1>4. \A x : x \in Entries(Append(os, o)) <=> \E i \in 1..(Len(os) + 1) : x \in Range(Append(os, o)[i])
  BY <1>2, Zenon DEF Entries
<1>5. \A x : x \in Entries(os) <=> \E i \in 1..Len(os) : x \in Range(os[i])
  BY <1>1, Zenon DEF Entries
<1>6. \A x : x \in Entries(Append(os, o)) <=> x \in Entries(os) \/ x \in Range(o)
  BY <1>2, <1>3, <1>4, <1>5, Zenon
<1> QED BY <1>6, Zenon

LEMMA InOrderAppend ==
    ASSUME NEW os \in Seq(Seq(Record)), NEW o \in Seq(Record)
    PROVE  InOrder(Append(os, o)) <=> /\ InOrder(os) /\ o # << >>
                                      /\ \A x \in Entries(os), y \in Range(o) : Before(x, y)
<1> DEFINE n == Len(os)
           new == Append(os, o)
<1>1. n \in Nat /\ DOMAIN os = 1..n
  BY LenProperties
<1>2. /\ DOMAIN new = 1..(n + 1)
      /\ \A i \in 1..n : new[i] = os[i]
      /\ new[n + 1] = o
  BY AppendProperties, <1>1
<1>3. \A x : x \in Entries(os) <=> \E i \in 1..n : x \in Range(os[i])
  BY <1>1, Zenon DEF Entries
<1>4. \A i \in 1..(n + 1) : i \in 1..n \/ i = n + 1
  BY <1>1
<1>5. n + 1 \in 1..(n + 1) /\ \A i \in 1..n : i \in 1..(n + 1) /\ i < n + 1 /\ i # n + 1 /\ ~(n + 1 < i)
  BY <1>1
<1>6. ~(n + 1 < n + 1)
  BY <1>1
<1> HIDE DEF n, new
<1>7. ASSUME InOrder(new)
      PROVE  InOrder(os) /\ o # << >> /\ \A x \in Entries(os), y \in Range(o) : Before(x, y)
  <2>1. InOrder(os)
    BY <1>1, <1>2, <1>5, <1>7 DEF InOrder
  <2>2. o # << >>
    BY <1>2, <1>5, <1>7 DEF InOrder
  <2>3. \A x \in Entries(os), y \in Range(o) : Before(x, y)
    BY <1>2, <1>3, <1>5, <1>7, Zenon DEF InOrder
  <2> QED BY <2>1, <2>2, <2>3
<1>8. ASSUME InOrder(os), o # << >>, \A x \in Entries(os), y \in Range(o) : Before(x, y)
      PROVE  InOrder(new)
  <2>1. \A j \in 1..(n + 1) : new[j] # << >>
    BY <1>1, <1>2, <1>4, <1>8, Zenon DEF InOrder
  <2>2. ASSUME NEW j \in 1..(n + 1), NEW k \in 1..(n + 1), j < k,
               NEW x \in Range(new[j]), NEW y \in Range(new[k])
        PROVE  Before(x, y)
    <3>1. j \in 1..n
      <4>1. j # n + 1
        BY <1>1, <2>2
      <4> QED BY <1>4, <4>1
    <3>2. x \in Range(os[j])
      BY <1>2, <3>1
    <3>3. CASE k \in 1..n
      BY <1>1, <1>2, <1>8, <2>2, <3>1, <3>2, <3>3, Zenon DEF InOrder
    <3>4. CASE k = n + 1
      BY <1>2, <1>3, <1>8, <3>1, <3>2, <3>4, Zenon
    <3> QED BY <1>4, <3>3, <3>4
  <2> QED BY <1>2, <2>1, <2>2, Zenon DEF InOrder
<1> QED BY <1>7, <1>8, Zenon DEF new

LEMMA WholeKeysAppend ==
    ASSUME NEW os \in Seq(Seq(Record)), NEW o \in Seq(Record)
    PROVE  WholeKeys(Append(os, o)) <=> /\ WholeKeys(os)
                                        /\ \A x \in Entries(os), y \in Range(o) : x.key # y.key
<1> DEFINE n == Len(os)
           new == Append(os, o)
<1>1. n \in Nat /\ DOMAIN os = 1..n
  BY LenProperties
<1>2. /\ DOMAIN new = 1..(n + 1)
      /\ \A i \in 1..n : new[i] = os[i]
      /\ new[n + 1] = o
  BY AppendProperties, <1>1
<1>3. \A x : x \in Entries(os) <=> \E i \in 1..n : x \in Range(os[i])
  BY <1>1, Zenon DEF Entries
<1>4. \A i \in 1..(n + 1) : i \in 1..n \/ i = n + 1
  BY <1>1
<1>5. n + 1 \in 1..(n + 1) /\ \A i \in 1..n : i \in 1..(n + 1) /\ i # n + 1
  BY <1>1
<1> HIDE DEF n, new
<1>6. ASSUME WholeKeys(new)
      PROVE  WholeKeys(os) /\ \A x \in Entries(os), y \in Range(o) : x.key # y.key
  <2>1. WholeKeys(os)
    BY <1>1, <1>2, <1>5, <1>6, Zenon DEF WholeKeys
  <2>2. ASSUME NEW x \in Entries(os), NEW y \in Range(o) PROVE x.key # y.key
    <3>1. PICK i \in 1..n : x \in Range(os[i])
      BY <1>3
    <3>2. i \in DOMAIN new /\ n + 1 \in DOMAIN new /\ i # n + 1
      BY <1>2, <1>5
    <3>3. x \in Range(new[i]) /\ y \in Range(new[n + 1])
      BY <1>2, <3>1
    <3> QED BY <1>6, <3>2, <3>3, Zenon DEF WholeKeys
  <2> QED BY <2>1, <2>2
<1>7. ASSUME WholeKeys(os), \A x \in Entries(os), y \in Range(o) : x.key # y.key
      PROVE  WholeKeys(new)
  <2>1. ASSUME NEW j \in 1..(n + 1), NEW k \in 1..(n + 1), j # k,
               NEW x \in Range(new[j]), NEW y \in Range(new[k])
        PROVE  x.key # y.key
    <3>1. CASE j \in 1..n /\ k \in 1..n
      BY <1>1, <1>2, <1>7, <2>1, <3>1, Zenon DEF WholeKeys
    <3>2. CASE j \in 1..n /\ k = n + 1
      BY <1>2, <1>3, <1>7, <3>2, Zenon
    <3>3. CASE j = n + 1 /\ k \in 1..n
      BY <1>2, <1>3, <1>7, <3>3, Zenon
    <3> QED BY <1>4, <2>1, <3>1, <3>2, <3>3
  <2> QED BY <1>2, <2>1, Zenon DEF WholeKeys
<1> QED BY <1>6, <1>7, Zenon DEF new

\* The entry m of a sorted sequence is dropped.
Gone(c, s, m) ==
    Drop(c, s[m], IF m > 1 /\ s[m - 1].key = s[m].key THEN s[m - 1].seq ELSE load.writes + 1)

\* Those of the first i that are not.
Kept(c, s, i) == {s[m] : m \in {n \in 1..i : ~Gone(c, s, n)}}

Increasing(s) == \A i, j \in 1..Len(s) : i < j => Before(s[i], s[j])

\* How the loop stands after i rounds.
RoundInv(c, s, i, a) ==
    /\ a.outputs \in Seq(Seq(Record)) /\ a.output \in Seq(Record)
    /\ InOrder(Written(a))
    /\ Entries(Written(a)) = Kept(c, s, i)
    /\ i = 0 => a.key = -1
    /\ i > 0 => a.key = s[i].key /\ a.seq = s[i].seq

LEMMA KeptNext ==
    ASSUME NEW c, NEW s, NEW i \in Nat
    PROVE  Kept(c, s, i + 1) = Kept(c, s, i) \cup (IF Gone(c, s, i + 1) THEN {} ELSE {s[i + 1]})
<1>1. \A m : m \in 1..(i + 1) <=> m \in 1..i \/ m = i + 1
  OBVIOUS
<1> QED BY <1>1, Zenon DEF Kept

LEMMA RoundInvStep ==
    ASSUME NEW c, NEW s \in Seq(Record), Increasing(s), NEW i \in Nat, i < Len(s),
           NEW a, RoundInv(c, s, i, a),
           NEW b, b = Round(c, a, s[i + 1])
    PROVE  /\ RoundInv(c, s, i + 1, b)
           /\ Drops(c, a, s[i + 1]) <=> Gone(c, s, i + 1)
<1> DEFINE e == s[i + 1]
<1>1. Len(s) \in Nat /\ i + 1 \in 1..Len(s) /\ i + 1 # 0 /\ i + 1 > 0
  BY LenProperties
<1>2. e \in Record /\ e.key \in Nat
  <2>1. e \in Record
    BY <1>1, ElementOfSeq
  <2> QED BY <2>1, LsmTreeAssumption DEF Record
<1>3. Drops(c, a, e) <=> Gone(c, s, i + 1)
  <2>1. CASE i = 0
    <3>1. a.key # e.key /\ ~(i + 1 > 1)
      BY <1>2, <2>1 DEF RoundInv
    <3> QED BY <3>1, Zenon DEF Drops, Gone
  <2>2. CASE i > 0
    <3>1. i + 1 > 1 /\ (i + 1) - 1 = i
      BY <2>2
    <3>2. a.key = s[i].key /\ a.seq = s[i].seq
      BY <2>2 DEF RoundInv
    <3> QED BY <3>1, <3>2 DEF Drops, Gone
  <2> QED BY <2>1, <2>2
<1>4. RoundFrom(c, a, e, b)
  <2>1. a.outputs \in Seq(Seq(Record)) /\ a.output \in Seq(Record) /\ b = Round(c, a, e)
    BY DEF RoundInv
  <2> HIDE DEF e
  <2> QED BY <1>2, <2>1, RoundWrites, Zenon
<1>5. \A x \in Kept(c, s, i) : Before(x, e)
  <2>1. \A m \in 1..i : m \in 1..Len(s) /\ m < i + 1
    BY <1>1
  <2>2. \A m \in 1..i : Before(s[m], e)
    BY <1>1, <2>1 DEF Increasing
  <2> QED BY <2>2 DEF Kept
<1>6. Written(a) \in Seq(Seq(Record))
  <2>1. Append(a.outputs, a.output) \in Seq(Seq(Record))
    BY AppendProperties DEF RoundInv
  <2> QED BY <2>1 DEF RoundInv, Written
<1>7. << e >> \in Seq(Record) /\ << e >> # << >> /\ Range(<< e >>) = {e}
  BY <1>2 DEF Range
<1> HIDE DEF e
<1>8. /\ InOrder(Written(a)) /\ Entries(Written(a)) = Kept(c, s, i)
      /\ Kept(c, s, i + 1) = Kept(c, s, i) \cup (IF Drops(c, a, e) THEN {} ELSE {e})
  <2>1. Kept(c, s, i + 1) = Kept(c, s, i) \cup (IF Gone(c, s, i + 1) THEN {} ELSE {s[i + 1]})
    BY KeptNext, Zenon
  <2>2. InOrder(Written(a)) /\ Entries(Written(a)) = Kept(c, s, i)
    BY Zenon DEF RoundInv
  <2> QED BY <1>3, <2>1, <2>2, Zenon DEF e
<1>9. CASE Drops(c, a, e) /\ Written(b) = Written(a)
  <2>1. InOrder(Written(b)) /\ Entries(Written(b)) = Kept(c, s, i + 1)
    BY <1>8, <1>9, Zenon
  <2> QED BY <1>1, <1>3, <1>4, <2>1, Zenon DEF RoundInv, RoundFrom, e
<1>10. CASE ~Drops(c, a, e) /\ Written(b) = Append(Written(a), << e >>)
  <2>0. \A x \in Entries(Written(a)), y \in Range(<< e >>) : Before(x, y)
    BY <1>5, <1>7, <1>8
  <2>1. InOrder(Written(b))
    BY <1>6, <1>7, <1>8, <1>10, <2>0, InOrderAppend, Zenon
  <2>2. Entries(Written(b)) = Entries(Written(a)) \cup Range(<< e >>)
    BY <1>6, <1>7, <1>10, EntriesOfAppend, Zenon
  <2>3. Entries(Written(b)) = Kept(c, s, i + 1)
    BY <1>7, <1>8, <1>10, <2>2, Zenon
  <2> QED BY <1>1, <1>3, <1>4, <2>1, <2>3, Zenon DEF RoundInv, RoundFrom, e
<1>11. CASE /\ ~Drops(c, a, e) /\ a.output # << >>
            /\ Written(b) = Append(a.outputs, Append(a.output, e))
  <2> DEFINE os == a.outputs
             o == a.output
             more == Append(o, e)
  <2>1. os \in Seq(Seq(Record)) /\ o \in Seq(Record) /\ Written(a) = Append(os, o)
    BY <1>11 DEF Written, RoundInv
  <2>2. Written(b) = Append(os, more)
    BY <1>11, Zenon
  <2> HIDE DEF os, o
  <2>3. more \in Seq(Record) /\ more # << >> /\ Range(more) = Range(o) \cup {e}
    <3>1. more \in Seq(Record) /\ more # << >>
      BY <1>2, <2>1, AppendProperties
    <3>2. Range(more) = Range(o) \cup {e}
      BY <1>2, <2>1, RangeOfAppend, Zenon
    <3> QED BY <3>1, <3>2
  <2> HIDE DEF more
  <2>4. Entries(Written(a)) = Entries(os) \cup Range(o)
    BY <2>1, EntriesOfAppend, Zenon
  <2>5. Entries(Written(b)) = Entries(os) \cup Range(more)
    BY <2>1, <2>2, <2>3, EntriesOfAppend, Zenon
  <2>6. InOrder(os) /\ \A x \in Entries(os), y \in Range(o) : Before(x, y)
    BY <1>8, <2>1, InOrderAppend, Zenon
  <2>7. \A x \in Entries(os), y \in Range(more) : Before(x, y)
    <3>1. \A x \in Entries(os) : Before(x, e)
      BY <1>5, <1>8, <2>4, Zenon
    <3> QED BY <2>3, <2>6, <3>1, Zenon
  <2>8. InOrder(Written(b))
    BY <2>1, <2>2, <2>3, <2>6, <2>7, InOrderAppend, ZenonT(40)
  <2>9. Entries(Written(b)) = Kept(c, s, i + 1)
    BY <1>8, <1>11, <2>3, <2>4, <2>5
  <2> QED BY <1>1, <1>3, <1>4, <2>8, <2>9, Zenon DEF RoundInv, RoundFrom, e
<1> QED BY <1>4, <1>9, <1>10, <1>11, Zenon DEF RoundFrom

\* The loop goes on from its start to the end of the merged entries.
LEMMA RoundInvAlways ==
    ASSUME NEW c, NEW s \in Seq(Record), Increasing(s)
    PROVE  \A i \in 0..Len(s) : RoundInv(c, s, i, Rounds(c, s)[i])
<1> DEFINE at == Rounds(c, s)
           P == {n \in Nat : n <= Len(s) => RoundInv(c, s, n, at[n])}
<1>1. Len(s) \in Nat
  BY LenProperties
<1>2. at[0] = Start /\ \A i \in 1..Len(s) : at[i] = Round(c, at[i - 1], s[i])
  BY <1>1, RoundsDefined
<1>3. RoundInv(c, s, 0, Start)
  <2>1. /\ Start.outputs = << >> /\ Start.output = << >> /\ Start.key = -1
        /\ Written(Start) = << >>
    BY DEF Start, Written
  <2>2. Kept(c, s, 0) = {}
    BY DEF Kept
  <2>3. Entries(<< >>) = {} /\ InOrder(<< >>)
    BY DEF Entries, InOrder
  <2>4. << >> \in Seq(Seq(Record)) /\ << >> \in Seq(Record)
    OBVIOUS
  <2>5. ~(0 > 0)
    OBVIOUS
  <2> QED BY <2>1, <2>2, <2>3, <2>4, <2>5, Zenon DEF RoundInv
<1> HIDE DEF at
<1>4. 0 \in P
  BY <1>2, <1>3
<1>5. ASSUME NEW n \in P PROVE n + 1 \in P
  <2> SUFFICES ASSUME n + 1 <= Len(s) PROVE RoundInv(c, s, n + 1, at[n + 1])
    OBVIOUS
  <2>1. n \in Nat /\ n < Len(s) /\ RoundInv(c, s, n, at[n])
    BY <1>1
  <2>2. n + 1 \in 1..Len(s) /\ (n + 1) - 1 = n
    BY <1>1, <2>1
  <2>3. at[n + 1] = Round(c, at[n], s[n + 1])
    BY <1>2, <2>2
  <2> QED BY <2>1, <2>3, RoundInvStep, Zenon
<1>6. P = Nat
  <2>1. P \in SUBSET Nat
    OBVIOUS
  <2> HIDE DEF P
  <2> QED BY <1>4, <1>5, <2>1, InductionOnNat
<1> QED BY <1>1, <1>6 DEF at

\* The entries a compaction merges.
Merged(c) == UNION {f.entries : f \in c.inputs \cup c.parents}

\* The tables a compaction writes are in order, and hold what is not dropped.
LEMMA OutputsInOrder ==
    ASSUME NEW c, Merged(c) \in SUBSET Record, Distinct(Merged(c)), IsFiniteSet(Merged(c)),
           NEW s, s = Sorted(Merged(c))
    PROVE  /\ s \in Seq(Record) /\ Increasing(s)
           /\ Len(s) = Cardinality(Merged(c)) /\ Len(s) \in Nat
           /\ {s[m] : m \in 1..Len(s)} = Merged(c)
           /\ Outputs(c) = Written(Rounds(c, s)[Len(s)])
           /\ Outputs(c) \in Seq(Seq(Record))
           /\ InOrder(Outputs(c))
           /\ Entries(Outputs(c)) = Kept(c, s, Len(s))
           /\ Entries(Outputs(c)) \subseteq Merged(c)
<1>1. /\ s \in Seq(Merged(c)) /\ Len(s) = Cardinality(Merged(c)) /\ Len(s) \in Nat
      /\ \A i, j \in 1..Len(s) : i < j => Before(s[i], s[j])
      /\ \A e \in Merged(c) : \E i \in 1..Len(s) : s[i] = e
  BY SortedInOrder
<1>2. s \in Seq(Record) /\ \A i \in 1..Len(s) : s[i] \in Merged(c)
  BY <1>1
<1>3. Increasing(s)
  BY <1>1 DEF Increasing
<1>4. Outputs(c) = Written(Rounds(c, s)[Len(s)])
  BY DEF Outputs, Written, Merged
<1>5. RoundInv(c, s, Len(s), Rounds(c, s)[Len(s)])
  BY <1>1, <1>2, <1>3, RoundInvAlways
<1> DEFINE end == Rounds(c, s)[Len(s)]
<1> HIDE DEF end
<1>6. Outputs(c) \in Seq(Seq(Record))
  <2>1. end.outputs \in Seq(Seq(Record)) /\ end.output \in Seq(Record)
    BY <1>5, Zenon DEF RoundInv, end
  <2>2. Append(end.outputs, end.output) \in Seq(Seq(Record))
    BY <2>1, AppendProperties
  <2> QED BY <1>4, <2>1, <2>2, Zenon DEF Written, end
<1>7. InOrder(Outputs(c)) /\ Entries(Outputs(c)) = Kept(c, s, Len(s))
  BY <1>4, <1>5, Zenon DEF RoundInv
<1>8. Kept(c, s, Len(s)) \subseteq Merged(c)
  BY <1>2 DEF Kept
<1>9. {s[m] : m \in 1..Len(s)} = Merged(c)
  BY <1>1, <1>2
<1> QED BY <1>1, <1>2, <1>3, <1>4, <1>6, <1>7, <1>8, <1>9

\* When the key changes, it has not been met before.
LEMMA NewKeyIsNew ==
    ASSUME NEW c, NEW s \in Seq(Record), Increasing(s), NEW i \in Nat, i < Len(s),
           i = 0 \/ s[i].key # s[i + 1].key
    PROVE  \A x \in Kept(c, s, i) : x.key # s[i + 1].key
<1>1. Len(s) \in Nat /\ \A m \in 1..Len(s) : s[m] \in Record
  BY LenProperties, ElementOfSeq
<1>2. \A m \in 1..Len(s) : s[m].key \in Nat
  BY <1>1, LsmTreeAssumption DEF Record
<1>3. ASSUME NEW m \in 1..i PROVE s[m].key # s[i + 1].key
  <2>1. m \in 1..Len(s) /\ i \in 1..Len(s) /\ i + 1 \in 1..Len(s) /\ i # 0 /\ i < i + 1
    BY <1>1
  <2>2. s[i].key < s[i + 1].key
    BY <2>1 DEF Increasing, Before
  <2>3. m = i \/ m < i
    BY <1>1
  <2>4. s[m].key <= s[i].key
    BY <1>2, <2>1, <2>3 DEF Increasing, Before
  <2> QED BY <1>2, <2>1, <2>2, <2>4
<1> QED BY <1>3 DEF Kept

\* A round keeps keys whole if it drops the entry, or its key is not in a table
\* yet, or only in the one under way, which goes on.
KeepsWhole(c, a, e) ==
    \/ Drops(c, a, e)
    \/ \A x \in Entries(Written(a)) : x.key # e.key
    \/ ~Stops(c, a, e) /\ \A x \in Entries(a.outputs) : x.key # e.key

LEMMA WholeKeysStep ==
    ASSUME NEW c, NEW a, NEW e \in Record,
           a.outputs \in Seq(Seq(Record)), a.output \in Seq(Record),
           NEW b, b = Round(c, a, e), WholeKeys(Written(a)), KeepsWhole(c, a, e)
    PROVE  WholeKeys(Written(b))
<1>1. RoundFrom(c, a, e, b)
  BY RoundWrites, Zenon
<1>2. CASE Written(b) = Written(a)
  BY <1>2
<1>3. CASE /\ ~Drops(c, a, e) /\ (Stops(c, a, e) \/ a.output = << >>)
           /\ Written(b) = Append(Written(a), << e >>)
  <2>1. << e >> \in Seq(Record) /\ Range(<< e >>) = {e}
    BY DEF Range
  <2>2. Written(a) \in Seq(Seq(Record))
    <3>1. Append(a.outputs, a.output) \in Seq(Seq(Record))
      BY AppendProperties
    <3> QED BY <3>1, Zenon DEF Written
  <2>3. \A x \in Entries(Written(a)) : x.key # e.key
    BY <1>3, Zenon DEF Written, KeepsWhole
  <2>4. \A x \in Entries(Written(a)), y \in Range(<< e >>) : x.key # y.key
    BY <2>1, <2>3
  <2> QED BY <1>3, <2>1, <2>2, <2>4, WholeKeysAppend, Zenon
<1>4. CASE /\ ~Drops(c, a, e) /\ ~Stops(c, a, e) /\ a.output # << >>
           /\ Written(b) = Append(a.outputs, Append(a.output, e))
  <2> DEFINE os == a.outputs
             o == a.output
             more == Append(o, e)
  <2>1. os \in Seq(Seq(Record)) /\ o \in Seq(Record) /\ Written(a) = Append(os, o)
    BY <1>4 DEF Written
  <2>2. Written(b) = Append(os, more)
    BY <1>4, Zenon
  <2>3. \A x \in Entries(os) : x.key # e.key
    <3>1. Entries(Written(a)) = Entries(os) \cup Range(o)
      BY <2>1, EntriesOfAppend, Zenon
    <3> QED BY <1>4, <3>1, Zenon DEF KeepsWhole
  <2> HIDE DEF os, o
  <2>4. more \in Seq(Record)
    BY <2>1, AppendProperties
  <2>5. Range(more) = Range(o) \cup {e}
    BY <2>1, RangeOfAppend, Zenon
  <2> HIDE DEF more
  <2>6. WholeKeys(os) /\ \A x \in Entries(os), y \in Range(o) : x.key # y.key
    BY <2>1, WholeKeysAppend, Zenon
  <2>7. \A x \in Entries(os), y \in Range(more) : x.key # y.key
    BY <2>3, <2>5, <2>6, Zenon
  <2> QED BY <2>1, <2>2, <2>4, <2>6, <2>7, WholeKeysAppend, Zenon
<1> QED BY <1>1, <1>2, <1>3, <1>4, Zenon DEF RoundFrom

\* If every entry is visible to every reader, one entry of a key is left.
LEMMA WholeBySnapshot ==
    ASSUME NEW c, NEW s \in Seq(Record), Increasing(s),
           \A m \in 1..Len(s) : s[m].seq <= c.smallestSnapshot
    PROVE  \A i \in 0..Len(s) : WholeKeys(Written(Rounds(c, s)[i]))
<1> DEFINE at == Rounds(c, s)
           P == {n \in Nat : n <= Len(s) => WholeKeys(Written(at[n]))}
<1>1. Len(s) \in Nat /\ \A m \in 1..Len(s) : s[m] \in Record
  BY LenProperties, ElementOfSeq
<1>2. at[0] = Start /\ \A i \in 1..Len(s) : at[i] = Round(c, at[i - 1], s[i])
  BY <1>1, RoundsDefined
<1>3. \A i \in 0..Len(s) : RoundInv(c, s, i, at[i])
  BY RoundInvAlways
<1> HIDE DEF at
<1>4. 0 \in P
  <2>1. Written(Start) = << >>
    BY DEF Start, Written
  <2>2. WholeKeys(<< >>)
    BY DEF WholeKeys
  <2> QED BY <1>2, <2>1, <2>2
<1>5. ASSUME NEW n \in P PROVE n + 1 \in P
  <2> SUFFICES ASSUME n + 1 <= Len(s) PROVE WholeKeys(Written(at[n + 1]))
    OBVIOUS
  <2>1. n \in Nat /\ n < Len(s) /\ n \in 0..Len(s) /\ WholeKeys(Written(at[n]))
    BY <1>1
  <2>2. n + 1 \in 1..Len(s) /\ (n + 1) - 1 = n
    BY <1>1, <2>1
  <2>3. at[n + 1] = Round(c, at[n], s[n + 1])
    BY <1>2, <2>2
  <2>4. RoundInv(c, s, n, at[n])
    BY <1>3, <2>1
  <2>5. /\ at[n].outputs \in Seq(Seq(Record)) /\ at[n].output \in Seq(Record)
        /\ Entries(Written(at[n])) = Kept(c, s, n)
    BY <2>4, Zenon DEF RoundInv
  <2>6. s[n + 1] \in Record
    BY <1>1, <2>2
  <2>7. CASE n > 0 /\ s[n].key = s[n + 1].key
    <3>1. at[n].key = s[n + 1].key /\ at[n].seq = s[n].seq
      BY <2>4, <2>7, Zenon DEF RoundInv
    <3>2. at[n].seq <= c.smallestSnapshot
      BY <2>1, <2>7, <3>1
    <3>3. Drops(c, at[n], s[n + 1])
      BY <3>1, <3>2, Zenon DEF Drops, Drop
    <3>4. KeepsWhole(c, at[n], s[n + 1])
      BY <3>3 DEF KeepsWhole
    <3> QED BY <2>1, <2>3, <2>5, <2>6, <3>4, WholeKeysStep, ZenonT(40)
  <2>8. CASE n = 0 \/ s[n].key # s[n + 1].key
    <3>1. \A x \in Entries(Written(at[n])) : x.key # s[n + 1].key
      BY <2>1, <2>5, <2>8, NewKeyIsNew, ZenonT(40)
    <3>2. KeepsWhole(c, at[n], s[n + 1])
      BY <3>1 DEF KeepsWhole
    <3> QED BY <2>1, <2>3, <2>5, <2>6, <3>2, WholeKeysStep, ZenonT(40)
  <2> QED BY <2>1, <2>7, <2>8
<1>6. P = Nat
  <2>1. P \in SUBSET Nat
    OBVIOUS
  <2> HIDE DEF P
  <2> QED BY <1>4, <1>5, <2>1, InductionOnNat
<1> QED BY <1>1, <1>6 DEF at

\* A table that does not get full ends only where the grandparents stop it.
SmallRoundFrom(c, a, e, b) ==
    /\ b.outputs = IF Stops(c, a, e) THEN Written(a) ELSE a.outputs
    /\ Len(b.output) <= Len(a.output) + 1
    /\ b.passed = a.passed \cup PassedBy(c, e)
    /\ b.overlap = IF Stops(c, a, e) THEN 0
                   ELSE a.overlap + (IF a.seen THEN TotalFileSize(PassedBy(c, e) \ a.passed) ELSE 0)

LEMMA RoundOfSmallTable ==
    ASSUME NEW c, NEW a, NEW e \in Record,
           a.outputs \in Seq(Seq(Record)), a.output \in Seq(Record),
           load.fileSize \in Nat, Len(a.output) + 1 < load.fileSize,
           NEW b, b = Round(c, a, e)
    PROVE  SmallRoundFrom(c, a, e, b)
<1> DEFINE stop == Stops(c, a, e)
           drop == Drops(c, a, e)
           begun == IF stop /\ a.output # << >> THEN Append(a.outputs, a.output) ELSE a.outputs
           rest == IF stop THEN << >> ELSE a.output
           output == IF drop THEN rest ELSE Append(rest, e)
           full == ~drop /\ Len(output) >= load.fileSize
           passing == PassedBy(c, e) \ a.passed
           overlap == a.overlap + IF a.seen THEN TotalFileSize(passing) ELSE 0
<1>1. /\ b.outputs = IF full THEN Append(begun, output) ELSE begun
      /\ b.output = IF full THEN << >> ELSE output
      /\ b.passed = a.passed \cup passing
      /\ b.overlap = IF stop THEN 0 ELSE overlap
  BY DEF Round, Stops, Drops
<1>2. rest \in Seq(Record) /\ Len(rest) <= Len(a.output) /\ Len(rest) \in Nat /\ Len(a.output) \in Nat
  <2>1. << >> \in Seq(Record) /\ Len(<< >>) = 0 /\ Len(a.output) \in Nat
    BY LenProperties
  <2> HIDE DEF stop
  <2> QED BY <2>1
<1>3. Len(output) <= Len(a.output) + 1 /\ Len(output) \in Nat
  <2>1. Len(Append(rest, e)) = Len(rest) + 1
    <3> HIDE DEF rest
    <3> QED BY <1>2, AppendProperties
  <2> HIDE DEF rest, drop
  <2> QED BY <1>2, <2>1
<1>4. ~full
  <2> HIDE DEF output
  <2> QED BY <1>2, <1>3
<1>5. begun = IF stop THEN Written(a) ELSE a.outputs
  <2> HIDE DEF stop
  <2> QED BY DEF Written
<1>6. a.passed \cup passing = a.passed \cup PassedBy(c, e)
  OBVIOUS
<1> HIDE DEF begun, output, full
<1> QED BY <1>1, <1>3, <1>4, <1>5, <1>6 DEF stop, overlap, SmallRoundFrom

\* If all entries fit into a table, and are newer than those of the
\* grandparents, a key is never cut: where it would be, another one begins.
LEMMA WholeBySize ==
    ASSUME NEW c, NEW s \in Seq(Record), Increasing(s),
           load.fileSize \in Nat, Len(s) < load.fileSize,
           \A gs \in SUBSET c.grandparents : TotalFileSize(gs) \in Nat,
           \A g \in c.grandparents : g.largest \in Record,
           \A g \in c.grandparents : \A m \in 1..Len(s) :
               g.largest.key = s[m].key => s[m].seq > g.largest.seq
    PROVE  \A i \in 0..Len(s) : WholeKeys(Written(Rounds(c, s)[i]))
<1> DEFINE at == Rounds(c, s)
           Inv(n, a) == /\ WholeKeys(Written(a))
                        /\ Len(a.output) <= n
                        /\ a.overlap \in Nat /\ a.overlap <= MaxOverlap
                        /\ n > 0 => /\ PassedBy(c, s[n]) \subseteq a.passed
                                    /\ \A x \in Entries(a.outputs) : x.key # s[n].key
           P == {n \in Nat : n <= Len(s) => Inv(n, at[n])}
<1>1. Len(s) \in Nat /\ \A m \in 1..Len(s) : s[m] \in Record
  BY LenProperties, ElementOfSeq
<1>2. at[0] = Start /\ \A i \in 1..Len(s) : at[i] = Round(c, at[i - 1], s[i])
  BY <1>1, RoundsDefined
<1>3. \A i \in 0..Len(s) : RoundInv(c, s, i, at[i])
  BY RoundInvAlways
<1>4. MaxOverlap \in Nat
  BY LsmTreeAssumption
<1> HIDE DEF at
<1>5. Inv(0, Start)
  <2>1. Written(Start) = << >> /\ Start.output = << >> /\ Start.overlap = 0
    BY DEF Start, Written
  <2>2. WholeKeys(<< >>) /\ Len(<< >>) <= 0
    BY DEF WholeKeys
  <2> QED BY <1>4, <2>1, <2>2
<1>6. ASSUME NEW n \in Nat, n + 1 <= Len(s), Inv(n, at[n]) PROVE Inv(n + 1, at[n + 1])
  <2> DEFINE a == at[n]
             b == at[n + 1]
             e == s[n + 1]
             passing == PassedBy(c, e) \ a.passed
             more == IF a.seen THEN TotalFileSize(passing) ELSE 0
  <2>1. n < Len(s) /\ n \in 0..Len(s) /\ n + 1 \in 1..Len(s) /\ (n + 1) - 1 = n /\ n + 1 > 0
    BY <1>1, <1>6
  <2>2. b = Round(c, a, e) /\ e \in Record
    BY <1>1, <1>2, <2>1
  <2>3. RoundInv(c, s, n, a)
    BY <1>3, <2>1
  <2>4. /\ a.outputs \in Seq(Seq(Record)) /\ a.output \in Seq(Record)
        /\ Entries(Written(a)) = Kept(c, s, n)
    BY <2>3, Zenon DEF RoundInv
  <2>5. /\ WholeKeys(Written(a)) /\ Len(a.output) <= n
        /\ a.overlap \in Nat /\ a.overlap <= MaxOverlap
        /\ n > 0 => /\ PassedBy(c, s[n]) \subseteq a.passed
                    /\ \A x \in Entries(a.outputs) : x.key # s[n].key
    BY <1>6
  <2> HIDE DEF a, b
  <2>6. /\ b.outputs = IF Stops(c, a, e) THEN Written(a) ELSE a.outputs
        /\ Len(b.output) <= Len(a.output) + 1
        /\ b.passed = a.passed \cup PassedBy(c, e)
        /\ b.overlap = IF Stops(c, a, e) THEN 0 ELSE a.overlap + more
    <3>1. Len(a.output) + 1 < load.fileSize
      <4>1. Len(a.output) \in Nat
        BY <2>4, LenProperties
      <4> QED BY <1>1, <2>1, <2>5, <4>1
    <3> HIDE DEF e
    <3>2. SmallRoundFrom(c, a, e, b)
      BY <2>2, <2>4, <3>1, RoundOfSmallTable, Zenon
    <3> QED BY <3>2, Zenon DEF SmallRoundFrom
  <2>7. more \in Nat
    <3>1. passing \in SUBSET c.grandparents
      BY DEF PassedBy
    <3> QED BY <3>1
  <2>8. b.overlap \in Nat /\ b.overlap <= MaxOverlap
    <3>1. Stops(c, a, e) <=> a.overlap + more > MaxOverlap
      BY DEF Stops
    <3> HIDE DEF more
    <3> QED BY <1>4, <2>5, <2>6, <2>7, <3>1
  <2>9. Len(b.output) <= n + 1
    <3>1. Len(a.output) \in Nat
      BY <2>4, LenProperties
    <3>2. Len(b.output) \in Int
      <4>1. RoundFrom(c, a, e, b)
        BY <2>2, <2>4, RoundWrites, Zenon
      <4> QED BY <4>1, LenProperties DEF RoundFrom
    <3> QED BY <2>5, <2>6, <3>1, <3>2
  <2>10. CASE n > 0 /\ s[n].key = e.key
    <3>1. passing = {}
      <4> SUFFICES ASSUME NEW g \in c.grandparents, Before(g.largest, e) PROVE g \in a.passed
        BY DEF PassedBy
      <4>1. /\ g.largest.key \in Nat /\ g.largest.seq \in Nat /\ e.key \in Nat /\ e.seq \in Nat
        BY <2>2, LsmTreeAssumption DEF Record
      <4>2. g.largest.key = e.key => e.seq > g.largest.seq
        BY <2>1
      <4>3. g.largest.key < e.key
        BY <4>1, <4>2 DEF Before
      <4>4. Before(g.largest, s[n])
        BY <2>10, <4>3 DEF Before
      <4>5. g \in PassedBy(c, s[n])
        BY <4>4 DEF PassedBy
      <4> QED BY <2>5, <2>10, <4>5
    <3>2. TotalFileSize({}) = 0
      <4>1. UNION {{f} \X f.entries : f \in {}} = {}
        OBVIOUS
      <4> QED BY <4>1, FS_EmptySet DEF TotalFileSize
    <3>3. more = 0
      <4> HIDE DEF passing
      <4> QED BY <3>1, <3>2
    <3>4. ~Stops(c, a, e)
      <4>1. Stops(c, a, e) <=> a.overlap + more > MaxOverlap
        BY DEF Stops
      <4> HIDE DEF more
      <4> QED BY <1>4, <2>5, <3>3, <4>1
    <3>5. \A x \in Entries(a.outputs) : x.key # e.key
      BY <2>5, <2>10
    <3>6. KeepsWhole(c, a, e)
      BY <3>4, <3>5 DEF KeepsWhole
    <3> HIDE DEF e
    <3>7. WholeKeys(Written(b))
      BY <2>2, <2>4, <2>5, <3>6, WholeKeysStep, ZenonT(40)
    <3>8. b.outputs = a.outputs
      BY <2>6, <3>4
    <3> QED BY <2>6, <2>8, <2>9, <3>5, <3>7, <3>8, Zenon DEF a, b, e
  <2>11. CASE n = 0 \/ s[n].key # e.key
    <3>1. \A x \in Entries(Written(a)) : x.key # e.key
      BY <2>1, <2>4, <2>11, NewKeyIsNew, Zenon
    <3>2. KeepsWhole(c, a, e)
      BY <3>1 DEF KeepsWhole
    <3>3. \A x \in Entries(a.outputs) : x \in Entries(Written(a))
      <4>1. Entries(Append(a.outputs, a.output)) = Entries(a.outputs) \cup Range(a.output)
        BY <2>4, EntriesOfAppend, Zenon
      <4> QED BY <4>1, Zenon DEF Written
    <3> HIDE DEF e
    <3>4. WholeKeys(Written(b))
      BY <2>2, <2>4, <2>5, <3>2, WholeKeysStep, ZenonT(40)
    <3>5. \A x \in Entries(b.outputs) : x.key # e.key
      BY <2>6, <3>1, <3>3, Zenon
    <3> QED BY <2>6, <2>8, <2>9, <3>4, <3>5, Zenon DEF a, b, e
  <2> QED BY <2>1, <2>10, <2>11
<1> HIDE DEF Inv
<1>7. 0 \in P
  BY <1>2, <1>5
<1>8. ASSUME NEW n \in P PROVE n + 1 \in P
  <2> SUFFICES ASSUME n + 1 <= Len(s) PROVE Inv(n + 1, at[n + 1])
    OBVIOUS
  <2>1. n \in Nat /\ n <= Len(s) /\ Inv(n, at[n])
    BY <1>1
  <2> QED BY <1>6, <2>1
<1>9. P = Nat
  <2>1. P \in SUBSET Nat
    OBVIOUS
  <2> HIDE DEF P
  <2> QED BY <1>7, <1>8, <2>1, InductionOnNat
<1>10. \A n \in 0..Len(s) : Inv(n, at[n])
  BY <1>1, <1>9
<1> QED BY <1>10 DEF at, Inv

-----------------------------------------------------------------------------
(***************************************************************************)
(* What changes of the levels keep, for levels fl                          *)
(***************************************************************************)
InFiles(fl) == {e \in Record : \E l \in Levels : \E f \in fl[l] : e \in f.entries}

FilesOK(fl, next) ==
    /\ fl = [l \in Levels |-> fl[l]]
    /\ \A l \in Levels : /\ IsFiniteSet(fl[l]) /\ GoodFiles(fl[l])
                         /\ \A f \in fl[l] : f.number \in Nat /\ f.number < next

Disjoint(fl) ==
    \A l \in Levels \ {0} : \A f, g \in fl[l] :
        f = g \/ Before(f.largest, g.smallest) \/ Before(g.largest, f.smallest)

LEMMA BeforeIsTransitive ==
    /\ \A a, b, d \in Record : Before(a, b) /\ Before(b, d) => Before(a, d)
    /\ \A a \in Record : ~Before(a, a)
<1>1. \A a \in Record : a.key \in Nat /\ a.seq \in Nat
  BY LsmTreeAssumption DEF Record
<1> QED BY <1>1 DEF Before

LEMMA CompactionLevels ==
    ASSUME NEW fl, NEW c, Fits(fl, c)
    PROVE  /\ c.level \in Levels /\ c.level + 1 \in Levels /\ c.level + 1 # 0
           /\ c.level # c.level + 1 /\ c.level \in Nat
BY LsmTreeAssumption DEF Fits, Levels

LEMMA MergedIsInFiles ==
    ASSUME NEW fl, NEW next, FilesOK(fl, next), NEW c, Fits(fl, c)
    PROVE  /\ Merged(c) \subseteq InFiles(fl)
           /\ Merged(c) \subseteq Record
           /\ GoodFiles(c.inputs) /\ GoodFiles(c.parents)
<1>1. c.level \in Levels /\ c.level + 1 \in Levels
  BY CompactionLevels
<1>2. c.inputs \subseteq fl[c.level] /\ c.parents \subseteq fl[c.level + 1]
  BY DEF Fits
<1>3. GoodFiles(c.inputs) /\ GoodFiles(c.parents)
  BY <1>1, <1>2 DEF FilesOK, GoodFiles
<1>4. \A f \in c.inputs \cup c.parents : f.entries \subseteq InFiles(fl)
  BY <1>1, <1>2, <1>3 DEF InFiles, GoodFiles, GoodFile
<1> QED BY <1>3, <1>4 DEF Merged, InFiles

\* A file of the next level that is not taken is on one side of all that is.
LEMMA OthersAreAside ==
    ASSUME NEW fl, NEW next, FilesOK(fl, next), Disjoint(fl), NEW c, Fits(fl, c),
           NEW g \in fl[c.level + 1] \ c.parents
    PROVE  \/ \A e \in Merged(c) : Before(e, g.smallest)
           \/ \A e \in Merged(c) : Before(g.largest, e)
<1> DEFINE lo == LowestKey(c.inputs)
           hi == HighestKey(c.inputs)
<1>1. c.level \in Levels /\ c.level + 1 \in Levels \ {0}
  BY CompactionLevels
<1>2. GoodFiles(c.inputs) /\ GoodFiles(c.parents) /\ Merged(c) \subseteq Record /\ c.inputs # {}
  BY MergedIsInFiles DEF Fits
<1>3. /\ lo \in Nat /\ hi \in Nat /\ lo <= hi
      /\ \A f \in c.inputs : lo <= f.smallest.key /\ f.largest.key <= hi
  BY <1>2, HullOfFiles, LsmTreeAssumption
<1>4. GoodFile(g) /\ g.smallest \in Record /\ g.largest \in Record
  BY <1>1 DEF FilesOK, GoodFiles, GoodFile
<1>5. /\ g.smallest.key \in Nat /\ g.largest.key \in Nat /\ g.smallest.key <= g.largest.key
  BY <1>4, KeysOfFile, LsmTreeAssumption
<1>6. g.largest.key < lo \/ g.smallest.key > hi
  <2>1. ~Overlaps(g, lo, hi)
    BY DEF Fits
  <2> QED BY <1>3, <1>5, <2>1 DEF Overlaps
<1>7. \A p \in c.parents : /\ p \in fl[c.level + 1] /\ p # g /\ GoodFile(p)
                           /\ p.largest.key >= lo /\ p.smallest.key <= hi
                           /\ p.smallest \in Record /\ p.largest \in Record
  BY <1>2 DEF Fits, Overlaps, GoodFiles, GoodFile
<1>8. \A p \in c.parents : /\ p.smallest.key \in Nat /\ p.largest.key \in Nat
                           /\ p.smallest.key <= p.largest.key
  BY <1>7, KeysOfFile, LsmTreeAssumption
<1>9. \A p \in c.parents : Before(p.largest, g.smallest) \/ Before(g.largest, p.smallest)
  BY <1>1, <1>7 DEF Disjoint
<1>10. \A e \in Merged(c) : (\E f \in c.inputs : e \in f.entries) \/ (\E p \in c.parents : e \in p.entries)
  BY DEF Merged
<1>11. \A f \in c.inputs : \A e \in f.entries : e.key \in Nat /\ lo <= e.key /\ e.key <= hi
  <2>1. \A f \in c.inputs : /\ f.smallest.key \in Nat /\ f.largest.key \in Nat
                            /\ \A e \in f.entries : /\ e.key \in Nat /\ f.smallest.key <= e.key
                                                    /\ e.key <= f.largest.key
    BY <1>2, KeysOfFile, LsmTreeAssumption DEF GoodFiles
  <2> HIDE DEF lo, hi
  <2> QED BY <1>3, <2>1
<1> HIDE DEF lo, hi
<1>12. CASE g.smallest.key > hi
  <2>1. ASSUME NEW p \in c.parents, NEW e \in p.entries PROVE Before(e, g.smallest)
    <3>1. ~Before(g.largest, p.smallest)
      BY <1>3, <1>5, <1>7, <1>8, <1>12 DEF Before
    <3>2. Before(p.largest, g.smallest)
      BY <1>9, <3>1
    <3>3. (e = p.largest \/ Before(e, p.largest)) /\ e \in Record
      BY <1>7 DEF GoodFile
    <3> QED BY <1>4, <1>7, <3>2, <3>3, BeforeIsTransitive
  <2>2. ASSUME NEW f \in c.inputs, NEW e \in f.entries PROVE Before(e, g.smallest)
    BY <1>3, <1>5, <1>11, <1>12 DEF Before
  <2> QED BY <1>10, <2>1, <2>2
<1>13. CASE g.largest.key < lo
  <2>1. ASSUME NEW p \in c.parents, NEW e \in p.entries PROVE Before(g.largest, e)
    <3>1. ~Before(p.largest, g.smallest)
      BY <1>3, <1>5, <1>7, <1>8, <1>13 DEF Before
    <3>2. Before(g.largest, p.smallest)
      BY <1>9, <3>1
    <3>3. (e = p.smallest \/ Before(p.smallest, e)) /\ e \in Record
      BY <1>7 DEF GoodFile
    <3> QED BY <1>4, <1>7, <3>2, <3>3, BeforeIsTransitive
  <2>2. ASSUME NEW f \in c.inputs, NEW e \in f.entries PROVE Before(g.largest, e)
    BY <1>3, <1>5, <1>11, <1>13 DEF Before
  <2> QED BY <1>10, <2>1, <2>2
<1> QED BY <1>6, <1>12, <1>13

\* The levels with a compaction's files taken out and some tables put in.
Replaced(fl, c, tables) ==
    [fl EXCEPT ![c.level] = @ \ c.inputs, ![c.level + 1] = (@ \ c.parents) \cup tables]

LEMMA ReplacedLevels ==
    ASSUME NEW fl, NEW next, FilesOK(fl, next), NEW c, Fits(fl, c), NEW tables
    PROVE  /\ Replaced(fl, c, tables) = [l \in Levels |-> Replaced(fl, c, tables)[l]]
           /\ Replaced(fl, c, tables)[c.level] = fl[c.level] \ c.inputs
           /\ Replaced(fl, c, tables)[c.level + 1] = (fl[c.level + 1] \ c.parents) \cup tables
           /\ \A l \in Levels \ {c.level, c.level + 1} : Replaced(fl, c, tables)[l] = fl[l]
<1>1. c.level \in Levels /\ c.level + 1 \in Levels /\ c.level # c.level + 1
  BY CompactionLevels
<1>2. fl = [l \in Levels |-> fl[l]]
  BY DEF FilesOK
<1> QED BY <1>1, <1>2 DEF Replaced

\* Tables that hold merged entries, each of its own stretch of them.
TablesOK(c, tables, next) ==
    /\ IsFiniteSet(tables) /\ GoodFiles(tables)
    /\ \A t \in tables : /\ t.number \in Nat /\ t.number < next
                         /\ t.entries \subseteq Merged(c)
    /\ \A t, u \in tables :
          t = u \/ Before(t.largest, u.smallest) \/ Before(u.largest, t.smallest)

LEMMA ReplacedFilesOK ==
    ASSUME NEW fl, NEW next \in Nat, FilesOK(fl, next), Disjoint(fl), NEW c, Fits(fl, c),
           NEW tables, NEW more \in Nat, next <= more, TablesOK(c, tables, more)
    PROVE  /\ FilesOK(Replaced(fl, c, tables), more)
           /\ Disjoint(Replaced(fl, c, tables))
           /\ InFiles(Replaced(fl, c, tables)) \subseteq InFiles(fl)
<1> DEFINE new == Replaced(fl, c, tables)
<1>1. /\ new = [l \in Levels |-> new[l]]
      /\ new[c.level] = fl[c.level] \ c.inputs
      /\ new[c.level + 1] = (fl[c.level + 1] \ c.parents) \cup tables
      /\ \A l \in Levels \ {c.level, c.level + 1} : new[l] = fl[l]
  BY ReplacedLevels
<1> HIDE DEF new
<1>2. c.level \in Levels /\ c.level + 1 \in Levels /\ c.level + 1 # 0
  BY CompactionLevels
<1>3. \A l \in Levels : \A f \in new[l] : f \in fl[l] \/ (f \in tables /\ l = c.level + 1)
  BY <1>1, <1>2
<1>4. FilesOK(new, more)
  <2>1. ASSUME NEW l \in Levels PROVE IsFiniteSet(new[l])
    <3>1. IsFiniteSet(fl[l])
      BY DEF FilesOK
    <3>2. CASE l = c.level + 1
      <4>1. IsFiniteSet(fl[l] \ c.parents)
        BY <3>1, FS_Subset
      <4>2. IsFiniteSet((fl[l] \ c.parents) \cup tables)
        BY <4>1, FS_Union DEF TablesOK
      <4> QED BY <1>1, <3>2, <4>2
    <3>3. CASE l # c.level + 1
      <4>1. new[l] \in SUBSET fl[l]
        BY <1>1, <3>3
      <4> QED BY <3>1, <4>1, FS_Subset
    <3> QED BY <3>2, <3>3
  <2>2. ASSUME NEW l \in Levels, NEW f \in new[l]
        PROVE  GoodFile(f) /\ f.number \in Nat /\ f.number < more
    BY <1>3 DEF FilesOK, GoodFiles, TablesOK
  <2> QED BY <1>1, <2>1, <2>2 DEF FilesOK, GoodFiles
<1>5. Disjoint(new)
  <2> SUFFICES ASSUME NEW l \in Levels \ {0}, NEW f \in new[l], NEW g \in new[l]
               PROVE  f = g \/ Before(f.largest, g.smallest) \/ Before(g.largest, f.smallest)
    BY DEF Disjoint
  <2>1. CASE f \in fl[l] /\ g \in fl[l]
    BY <2>1 DEF Disjoint
  <2>2. ASSUME NEW h \in new[l], h \notin tables, NEW t \in tables, l = c.level + 1
        PROVE  Before(h.largest, t.smallest) \/ Before(t.largest, h.smallest)
    <3>1. h \in fl[c.level + 1] \ c.parents
      BY <1>1, <2>2
    <3>2. t.smallest \in Merged(c) /\ t.largest \in Merged(c)
      BY DEF TablesOK, GoodFiles, GoodFile
    <3> QED BY <3>1, <3>2, OthersAreAside
  <2>3. CASE f \in tables /\ g \in tables
    BY <2>3 DEF TablesOK
  <2> QED BY <1>3, <2>1, <2>2, <2>3
<1>6. InFiles(new) \subseteq InFiles(fl)
  <2> SUFFICES ASSUME NEW e \in Record, NEW l \in Levels, NEW f \in new[l], e \in f.entries
               PROVE  e \in InFiles(fl)
    BY DEF InFiles
  <2>1. CASE f \in fl[l]
    BY <2>1 DEF InFiles
  <2>2. CASE f \in tables
    BY <2>2, MergedIsInFiles DEF TablesOK
  <2> QED BY <1>3, <2>1, <2>2
<1> QED BY <1>4, <1>5, <1>6 DEF new

\* The levels with a memtable's table put in.
Flushed(fl, level, t) == [fl EXCEPT ![level] = @ \cup {t}]

\* Where it is put.
Free(fl, level, t) ==
    level # 0 => \A m \in 0..level : ~OverlapInLevel(fl[m], t.smallest.key, t.largest.key)

LEMMA FlushedLevels ==
    ASSUME NEW fl, NEW next, FilesOK(fl, next), NEW level \in Levels, NEW t
    PROVE  /\ Flushed(fl, level, t) = [l \in Levels |-> Flushed(fl, level, t)[l]]
           /\ \A l \in Levels : Flushed(fl, level, t)[l] = IF l = level THEN fl[l] \cup {t} ELSE fl[l]
<1>1. fl = [l \in Levels |-> fl[l]]
  BY DEF FilesOK
<1> QED BY <1>1 DEF Flushed

LEMMA FlushedFilesOK ==
    ASSUME NEW fl, NEW next \in Nat, FilesOK(fl, next), Disjoint(fl),
           NEW level \in Levels, NEW t, GoodFile(t), t.number = next, Free(fl, level, t)
    PROVE  /\ FilesOK(Flushed(fl, level, t), next + 1)
           /\ Disjoint(Flushed(fl, level, t))
           /\ InFiles(Flushed(fl, level, t)) = InFiles(fl) \cup t.entries
<1> DEFINE new == Flushed(fl, level, t)
<1>1. /\ new = [l \in Levels |-> new[l]]
      /\ \A l \in Levels : new[l] = IF l = level THEN fl[l] \cup {t} ELSE fl[l]
  BY FlushedLevels
<1> HIDE DEF new
<1>2. \A l \in Levels : \A f \in new[l] : f \in fl[l] \/ (f = t /\ l = level)
  BY <1>1
<1>3. FilesOK(new, next + 1)
  <2>1. ASSUME NEW l \in Levels PROVE IsFiniteSet(new[l])
    <3>1. IsFiniteSet(fl[l])
      BY DEF FilesOK
    <3>2. IsFiniteSet(fl[l] \cup {t})
      BY <3>1, FS_AddElement
    <3> QED BY <1>1, <3>1, <3>2
  <2>2. ASSUME NEW l \in Levels, NEW f \in new[l]
        PROVE  GoodFile(f) /\ f.number \in Nat /\ f.number < next + 1
    BY <1>2 DEF FilesOK, GoodFiles
  <2> QED BY <1>1, <2>1, <2>2 DEF FilesOK, GoodFiles
<1>4. Disjoint(new)
  <2> SUFFICES ASSUME NEW l \in Levels \ {0}, NEW f \in new[l], NEW g \in new[l]
               PROVE  f = g \/ Before(f.largest, g.smallest) \/ Before(g.largest, f.smallest)
    BY DEF Disjoint
  <2>1. CASE f \in fl[l] /\ g \in fl[l]
    BY <2>1 DEF Disjoint
  <2>2. ASSUME NEW h \in fl[l], l = level
        PROVE  Before(h.largest, t.smallest) \/ Before(t.largest, h.smallest)
    <3>1. l \in 0..level
      BY <2>2 DEF Levels
    <3>2. ~Overlaps(h, t.smallest.key, t.largest.key)
      BY <2>2, <3>1 DEF Free, OverlapInLevel
    <3>3. GoodFile(h)
      BY DEF FilesOK, GoodFiles
    <3>4. /\ h.smallest.key \in Nat /\ h.largest.key \in Nat
          /\ t.smallest.key \in Nat /\ t.largest.key \in Nat
      BY <3>3, KeysOfFile, LsmTreeAssumption
    <3> QED BY <3>2, <3>4 DEF Overlaps, Before
  <2> QED BY <1>2, <2>1, <2>2
<1>5. InFiles(new) = InFiles(fl) \cup t.entries
  <2>1. ASSUME NEW e \in InFiles(new) PROVE e \in InFiles(fl) \cup t.entries
    BY <1>2, <2>1 DEF InFiles
  <2>2. ASSUME NEW e \in InFiles(fl) PROVE e \in InFiles(new)
    BY <1>1, <2>2 DEF InFiles
  <2>3. ASSUME NEW e \in t.entries PROVE e \in InFiles(new)
    <3>1. t \in new[level] /\ e \in Record
      BY <1>1 DEF GoodFile
    <3> QED BY <3>1 DEF InFiles
  <2> QED BY <2>1, <2>2, <2>3
<1> QED BY <1>3, <1>4, <1>5 DEF new

\* A compaction under way does not mind: where the table is, there is no file
\* it overlaps, so it is not within the keys that are merged either.
LEMMA FlushedFits ==
    ASSUME NEW fl, NEW next \in Nat, FilesOK(fl, next),
           NEW level \in Levels, NEW t, GoodFile(t), Free(fl, level, t),
           NEW c, Fits(fl, c), c.grandparents \subseteq Below(fl, c)
    PROVE  /\ Fits(Flushed(fl, level, t), c)
           /\ c.grandparents \subseteq Below(Flushed(fl, level, t), c)
<1> DEFINE new == Flushed(fl, level, t)
           lo == LowestKey(c.inputs)
           hi == HighestKey(c.inputs)
<1>1. \A l \in Levels : new[l] = IF l = level THEN fl[l] \cup {t} ELSE fl[l]
  <2>1. fl = [l \in Levels |-> fl[l]]
    BY DEF FilesOK
  <2> QED BY <2>1 DEF Flushed
<1> HIDE DEF new
<1>2. c.level \in Levels /\ c.level + 1 \in Levels /\ c.level + 1 # 0 /\ c.level \in Nat
  BY CompactionLevels
<1>3. c.inputs \subseteq new[c.level] /\ c.parents \subseteq new[c.level + 1]
  BY <1>1, <1>2 DEF Fits
<1>4. ASSUME level = c.level + 1 PROVE ~Overlaps(t, lo, hi)
  <2>1. GoodFiles(c.inputs) /\ GoodFiles(c.parents) /\ c.inputs # {}
    BY MergedIsInFiles DEF Fits
  <2>2. lo \in Keys /\ hi \in Keys /\ lo \in Nat /\ hi \in Nat /\ lo <= hi
    BY <2>1, HullOfFiles, LsmTreeAssumption
  <2>3. /\ t.smallest.key \in Keys /\ t.largest.key \in Keys /\ t.smallest.key <= t.largest.key
        /\ t.smallest.key \in Nat /\ t.largest.key \in Nat
    BY KeysOfFile, LsmTreeAssumption
  <2>4. SUFFICES ASSUME Overlaps(t, lo, hi) PROVE FALSE
    OBVIOUS
  <2> DEFINE k == IF t.smallest.key <= lo THEN lo ELSE t.smallest.key
  <2>5. /\ k \in Keys /\ k \in Nat /\ lo <= k /\ k <= hi
        /\ t.smallest.key <= k /\ k <= t.largest.key
    BY <2>2, <2>3, <2>4 DEF Overlaps
  <2> HIDE DEF k
  <2>6. PICK f \in c.inputs \cup c.parents : Overlaps(f, k, k)
    BY <2>5 DEF Fits, Covered
  <2>7. /\ f.smallest.key \in Nat /\ f.largest.key \in Nat
    BY <2>1, KeysOfFile, LsmTreeAssumption DEF GoodFiles
  <2>8. Overlaps(f, t.smallest.key, t.largest.key)
    BY <2>3, <2>5, <2>6, <2>7 DEF Overlaps
  <2>9. f \in fl[c.level] \/ f \in fl[c.level + 1]
    BY DEF Fits
  <2>10. c.level \in 0..level /\ c.level + 1 \in 0..level /\ level # 0
    BY <1>2, <1>4
  <2> QED BY <2>8, <2>9, <2>10 DEF Free, OverlapInLevel
<1>5. ASSUME level = c.level + 1 PROVE t \notin c.parents
  BY <1>4, <1>5 DEF Fits
<1>6. ASSUME NEW g \in new[c.level + 1] PROVE g \in c.parents <=> Overlaps(g, lo, hi)
  <2>1. CASE g \in fl[c.level + 1]
    BY <2>1 DEF Fits
  <2>2. CASE g = t /\ level = c.level + 1
    BY <1>4, <1>5, <2>2
  <2> QED BY <1>1, <1>2, <2>1, <2>2
<1>7. c.grandparents \subseteq Below(new, c)
  <2>1. CASE c.level + 2 < NumLevels
    <3>1. c.level + 2 \in Levels
      BY <1>2, <2>1, LsmTreeAssumption DEF Levels
    <3> QED BY <1>1, <2>1, <3>1 DEF Below
  <2>2. CASE ~(c.level + 2 < NumLevels)
    BY <2>2 DEF Below
  <2> QED BY <2>1, <2>2
<1> QED BY <1>3, <1>6, <1>7 DEF Fits, new

-----------------------------------------------------------------------------
(***************************************************************************)
(* Newer entries above older ones                                          *)
(***************************************************************************)
Newer(fl) ==
    \A l, m \in Levels : l < m =>
        \A f \in fl[l], g \in fl[m] : \A a \in f.entries, b \in g.entries :
            a.key = b.key => a.seq > b.seq

\* Below level 0 no key is in two files of a level.
NoSplit(fl) ==
    \A l \in Levels \ {0} : \A f, g \in fl[l] :
        f = g \/ \A a \in f.entries, b \in g.entries : a.key # b.key

\* The files a compaction leaves in its level are newer than those it takes.
OthersNewer(fl, c) ==
    \A f \in fl[c.level] \ c.inputs, g \in c.inputs : \A a \in f.entries, b \in g.entries :
        a.key = b.key => a.seq > b.seq

TablesWhole(tables) ==
    \A t, u \in tables : t = u \/ \A a \in t.entries, b \in u.entries : a.key # b.key

\* Nothing that is not taken shares a key with what is taken.
LEMMA PickedOthersNewer ==
    ASSUME NEW fl, NEW next, FilesOK(fl, next), NoSplit(fl), NEW c, Fits(fl, c), TakesAllOfLevel0(fl, c)
    PROVE  OthersNewer(fl, c)
<1>1. c.level \in Levels /\ c.inputs \subseteq fl[c.level] /\ c.inputs # {}
  BY CompactionLevels DEF Fits
<1>2. CASE c.level # 0
  <2> SUFFICES ASSUME NEW f \in fl[c.level] \ c.inputs, NEW g \in c.inputs,
                      NEW a \in f.entries, NEW b \in g.entries
               PROVE  a.key # b.key
    BY DEF OthersNewer
  <2>1. c.level \in Levels \ {0} /\ f \in fl[c.level] /\ g \in fl[c.level] /\ f # g
    BY <1>1, <1>2
  <2> QED BY <2>1 DEF NoSplit
<1>3. CASE c.level = 0
  <2> DEFINE lo == LowestKey(c.inputs)
             hi == HighestKey(c.inputs)
  <2>1. GoodFiles(c.inputs)
    BY MergedIsInFiles
  <2>2. /\ lo \in Nat /\ hi \in Nat
        /\ \A f \in c.inputs : lo <= f.smallest.key /\ f.largest.key <= hi
    BY <1>1, <2>1, HullOfFiles, LsmTreeAssumption
  <2> SUFFICES ASSUME NEW f \in fl[c.level] \ c.inputs, NEW g \in c.inputs,
                      NEW a \in f.entries, NEW b \in g.entries
               PROVE  a.key # b.key
    BY DEF OthersNewer
  <2>3. ~Overlaps(f, lo, hi)
    BY <1>3 DEF TakesAllOfLevel0, Apart
  <2>4. GoodFile(f) /\ GoodFile(g)
    BY <1>1, <2>1 DEF FilesOK, GoodFiles
  <2>5. /\ f.smallest.key \in Nat /\ f.largest.key \in Nat /\ a.key \in Nat
        /\ f.smallest.key <= a.key /\ a.key <= f.largest.key
        /\ g.smallest.key \in Nat /\ g.largest.key \in Nat /\ b.key \in Nat
        /\ g.smallest.key <= b.key /\ b.key <= g.largest.key
    BY <2>4, KeysOfFile, LsmTreeAssumption
  <2>6. lo <= g.smallest.key /\ g.largest.key <= hi
    BY <2>2
  <2> HIDE DEF lo, hi
  <2> QED BY <2>2, <2>3, <2>5, <2>6 DEF Overlaps
<1> QED BY <1>2, <1>3

LEMMA ReplacedNewer ==
    ASSUME NEW fl, NEW next, FilesOK(fl, next), Newer(fl), NoSplit(fl),
           NEW c, Fits(fl, c), OthersNewer(fl, c),
           NEW tables, NEW more, TablesOK(c, tables, more), TablesWhole(tables)
    PROVE  Newer(Replaced(fl, c, tables)) /\ NoSplit(Replaced(fl, c, tables))
<1> DEFINE new == Replaced(fl, c, tables)
<1>1. /\ new[c.level] = fl[c.level] \ c.inputs
      /\ new[c.level + 1] = (fl[c.level + 1] \ c.parents) \cup tables
      /\ \A l \in Levels \ {c.level, c.level + 1} : new[l] = fl[l]
  BY ReplacedLevels
<1> HIDE DEF new
<1>2. c.level \in Levels /\ c.level + 1 \in Levels /\ c.level + 1 # 0 /\ c.level \in Nat
  BY CompactionLevels
<1>3. \A l \in Levels : \A f \in new[l] : f \in fl[l] \/ (f \in tables /\ l = c.level + 1)
  BY <1>1, <1>2
<1>4. \A t \in tables : \A a \in t.entries :
         (\E f \in c.inputs : a \in f.entries) \/ (\E p \in c.parents : a \in p.entries)
  BY DEF TablesOK, Merged
<1>5. c.inputs \subseteq fl[c.level] /\ c.parents \subseteq fl[c.level + 1]
  BY DEF Fits
<1>6. Newer(new)
  <2> SUFFICES ASSUME NEW l \in Levels, NEW m \in Levels, l < m, NEW f \in new[l], NEW g \in new[m],
                      NEW a \in f.entries, NEW b \in g.entries, a.key = b.key
               PROVE  a.seq > b.seq
    BY DEF Newer
  <2>1. CASE f \in fl[l] /\ g \in fl[m]
    BY <2>1 DEF Newer
  <2>2. CASE f \in tables /\ l = c.level + 1
    <3>1. g \in fl[m] /\ c.level < m
      BY <1>2, <1>3, <2>2 DEF Levels
    <3>2. CASE \E h \in c.inputs : a \in h.entries
      BY <1>2, <1>5, <3>1, <3>2 DEF Newer
    <3>3. CASE \E h \in c.parents : a \in h.entries
      BY <1>2, <1>5, <2>2, <3>1, <3>3 DEF Newer
    <3> QED BY <1>4, <2>2, <3>2, <3>3
  <2>3. CASE g \in tables /\ m = c.level + 1
    <3>1. f \in fl[l] /\ (l = c.level \/ l < c.level) /\ l # c.level + 1
      BY <1>2, <1>3, <2>3 DEF Levels
    <3>2. CASE \E h \in c.parents : b \in h.entries
      BY <1>2, <1>5, <2>3, <3>1, <3>2 DEF Newer
    <3>3. CASE (\E h \in c.inputs : b \in h.entries) /\ l < c.level
      BY <1>2, <1>5, <3>1, <3>3 DEF Newer
    <3>4. CASE (\E h \in c.inputs : b \in h.entries) /\ l = c.level
      BY <1>1, <3>4 DEF OthersNewer
    <3> QED BY <1>4, <2>3, <3>1, <3>2, <3>3, <3>4
  <2> QED BY <1>3, <2>1, <2>2, <2>3
<1>7. NoSplit(new)
  <2> SUFFICES ASSUME NEW l \in Levels \ {0}, NEW f \in new[l], NEW g \in new[l], f # g,
                      NEW a \in f.entries, NEW b \in g.entries
               PROVE  a.key # b.key
    BY DEF NoSplit
  <2>1. CASE f \in fl[l] /\ g \in fl[l]
    BY <2>1 DEF NoSplit
  <2>2. ASSUME NEW h \in new[l], h \notin tables, NEW t \in tables, l = c.level + 1,
               NEW x \in h.entries, NEW y \in t.entries
        PROVE  x.key # y.key
    <3>1. h \in fl[c.level + 1] /\ h \notin c.parents
      BY <1>1, <2>2
    <3>2. CASE \E p \in c.parents : y \in p.entries
      BY <1>2, <1>5, <3>1, <3>2 DEF NoSplit
    <3>3. CASE \E f1 \in c.inputs : y \in f1.entries
      <4> DEFINE lo == LowestKey(c.inputs)
                 hi == HighestKey(c.inputs)
      <4>1. PICK f1 \in c.inputs : y \in f1.entries
        BY <3>3
      <4>2. GoodFiles(c.inputs) /\ GoodFile(f1) /\ GoodFile(h)
        BY <1>2, <3>1, MergedIsInFiles DEF FilesOK, GoodFiles
      <4>3. /\ lo \in Nat /\ hi \in Nat /\ lo <= f1.smallest.key /\ f1.largest.key <= hi
        BY <4>2, HullOfFiles, LsmTreeAssumption
      <4>4. ~Overlaps(h, lo, hi)
        BY <3>1 DEF Fits
      <4>5. /\ h.smallest.key \in Nat /\ h.largest.key \in Nat /\ x.key \in Nat
            /\ h.smallest.key <= x.key /\ x.key <= h.largest.key
            /\ f1.smallest.key \in Nat /\ f1.largest.key \in Nat /\ y.key \in Nat
            /\ f1.smallest.key <= y.key /\ y.key <= f1.largest.key
        BY <4>1, <4>2, KeysOfFile, LsmTreeAssumption
      <4> HIDE DEF lo, hi
      <4> QED BY <4>3, <4>4, <4>5 DEF Overlaps
    <3> QED BY <1>4, <3>2, <3>3
  <2>3. CASE f \in tables /\ g \in tables
    BY <2>3 DEF TablesWhole
  <2> QED BY <1>3, <2>1, <2>2, <2>3
<1> QED BY <1>6, <1>7 DEF new

LEMMA FlushedNewer ==
    ASSUME NEW fl, NEW next, FilesOK(fl, next), Newer(fl), NoSplit(fl),
           NEW level \in Levels, NEW t, GoodFile(t), Free(fl, level, t),
           \A a \in t.entries, b \in InFiles(fl) : a.seq > b.seq
    PROVE  /\ Newer(Flushed(fl, level, t)) /\ NoSplit(Flushed(fl, level, t))
           /\ \A c : Fits(fl, c) /\ OthersNewer(fl, c) => OthersNewer(Flushed(fl, level, t), c)
<1> DEFINE new == Flushed(fl, level, t)
<1>1. \A l \in Levels : new[l] = IF l = level THEN fl[l] \cup {t} ELSE fl[l]
  BY FlushedLevels
<1> HIDE DEF new
<1>2. \A l \in Levels : \A f \in new[l] : f \in fl[l] \/ (f = t /\ l = level)
  BY <1>1
<1>3. ASSUME NEW l \in Levels, NEW f \in fl[l], NEW a \in t.entries, NEW b \in f.entries
      PROVE  /\ a.seq > b.seq
             /\ l <= level /\ level # 0 => a.key # b.key
  <2>1. GoodFile(f)
    BY DEF FilesOK, GoodFiles
  <2>2. b \in InFiles(fl)
    BY <2>1 DEF InFiles, GoodFile
  <2>3. ASSUME l <= level, level # 0 PROVE a.key # b.key
    <3>1. l \in 0..level
      BY <2>3 DEF Levels
    <3>2. ~Overlaps(f, t.smallest.key, t.largest.key)
      BY <2>3, <3>1 DEF Free, OverlapInLevel
    <3>3. /\ f.smallest.key \in Nat /\ f.largest.key \in Nat /\ b.key \in Nat
          /\ f.smallest.key <= b.key /\ b.key <= f.largest.key
          /\ t.smallest.key \in Nat /\ t.largest.key \in Nat /\ a.key \in Nat
          /\ t.smallest.key <= a.key /\ a.key <= t.largest.key
      BY <2>1, KeysOfFile, LsmTreeAssumption
    <3> QED BY <3>2, <3>3 DEF Overlaps
  <2> QED BY <2>2, <2>3
<1>4. Newer(new)
  <2> SUFFICES ASSUME NEW l \in Levels, NEW m \in Levels, l < m, NEW f \in new[l], NEW g \in new[m],
                      NEW a \in f.entries, NEW b \in g.entries, a.key = b.key
               PROVE  a.seq > b.seq
    BY DEF Newer
  <2>1. CASE f \in fl[l] /\ g \in fl[m]
    BY <2>1 DEF Newer
  <2>2. CASE f = t /\ g \in fl[m]
    BY <1>3, <2>2
  <2>3. CASE f \in fl[l] /\ g = t /\ m = level
    <3>1. l <= level /\ level # 0
      BY <2>3 DEF Levels
    <3> QED BY <1>3, <2>3, <3>1
  <2>4. l # level \/ m # level
    BY DEF Levels
  <2> QED BY <1>2, <2>1, <2>2, <2>3, <2>4
<1>5. NoSplit(new)
  <2> SUFFICES ASSUME NEW l \in Levels \ {0}, NEW f \in new[l], NEW g \in new[l], f # g,
                      NEW a \in f.entries, NEW b \in g.entries
               PROVE  a.key # b.key
    BY DEF NoSplit
  <2>1. CASE f \in fl[l] /\ g \in fl[l]
    BY <2>1 DEF NoSplit
  <2>2. l = level => l <= level /\ level # 0
    BY DEF Levels
  <2> QED BY <1>2, <1>3, <2>1, <2>2
<1>6. ASSUME NEW c, Fits(fl, c), OthersNewer(fl, c) PROVE OthersNewer(new, c)
  <2>1. c.level \in Levels /\ c.inputs \subseteq fl[c.level]
    BY <1>6, CompactionLevels DEF Fits
  <2> SUFFICES ASSUME NEW f \in new[c.level] \ c.inputs, NEW g \in c.inputs,
                      NEW a \in f.entries, NEW b \in g.entries, a.key = b.key
               PROVE  a.seq > b.seq
    BY DEF OthersNewer
  <2>2. CASE f \in fl[c.level]
    BY <1>6, <2>2 DEF OthersNewer
  <2>3. CASE f = t
    BY <1>3, <2>1, <2>3
  <2> QED BY <1>2, <2>1, <2>2, <2>3
<1> QED BY <1>4, <1>5, <1>6 DEF new

-----------------------------------------------------------------------------
(***************************************************************************)
(* The tables a compaction installs                                        *)
(***************************************************************************)
TablesOf(c, next) == {Table(next + i - 1, Range(Outputs(c)[i])) : i \in DOMAIN Outputs(c)}

LEMMA InstalledTables ==
    ASSUME NEW c, Merged(c) \in SUBSET Record, Distinct(Merged(c)), IsFiniteSet(Merged(c)),
           NEW next \in Nat
    PROVE  /\ Len(Outputs(c)) \in Nat
           /\ TablesOK(c, TablesOf(c, next), next + Len(Outputs(c)))
           /\ WholeKeys(Outputs(c)) => TablesWhole(TablesOf(c, next))
           /\ UNION {t.entries : t \in TablesOf(c, next)} = Entries(Outputs(c))
<1> DEFINE os == Outputs(c)
           n == Len(os)
           table(i) == Table(next + i - 1, Range(os[i]))
           tables == {table(i) : i \in 1..n}
<1>1. os \in Seq(Seq(Record)) /\ InOrder(os) /\ Entries(os) \subseteq Merged(c)
  BY OutputsInOrder, Zenon
<1> HIDE DEF os
<1>2. n \in Nat /\ DOMAIN os = 1..n /\ \A i \in 1..n : os[i] \in Seq(Record)
  BY <1>1, LenProperties, ElementOfSeq
<1>3. ASSUME NEW i \in 1..n PROVE Range(os[i]) \in SUBSET Merged(c) /\ Range(os[i]) # {}
  <2>1. Range(os[i]) \subseteq Entries(os)
    BY <1>2 DEF Entries
  <2>2. os[i] # << >> /\ os[i] \in Seq(Record)
    BY <1>1, <1>2 DEF InOrder
  <2>3. Len(os[i]) \in Nat /\ DOMAIN os[i] = 1..Len(os[i]) /\ Len(os[i]) # 0
    BY <2>2, LenProperties, EmptySeq
  <2>4. 1 \in DOMAIN os[i]
    BY <2>3
  <2>5. os[i][1] \in Range(os[i])
    BY <2>4 DEF Range
  <2> QED BY <1>1, <2>1, <2>5
<1>4. ASSUME NEW i \in 1..n
      PROVE  /\ GoodFile(table(i)) /\ table(i).entries = Range(os[i])
             /\ table(i).number = next + i - 1
  <2>1. Range(os[i]) \in SUBSET Record /\ Distinct(Range(os[i]))
    BY <1>3 DEF Distinct
  <2>2. IsFiniteSet(Range(os[i]))
    BY <1>3, FS_Subset
  <2> QED BY <1>3, <2>1, <2>2, TableIsGood
<1>5. TablesOf(c, next) = tables
  BY <1>2 DEF TablesOf, os
<1> HIDE DEF table
<1>6. IsFiniteSet(tables)
  <2> DEFINE f == [i \in 1..n |-> table(i)]
  <2>1. f \in Surjection(1..n, tables)
    <3>1. f \in [1..n -> tables]
      OBVIOUS
    <3>2. \A t \in tables : \E i \in 1..n : f[i] = t
      OBVIOUS
    <3> HIDE DEF f, tables
    <3> QED BY <3>1, <3>2 DEF Surjection
  <2>2. IsFiniteSet(1..n)
    BY <1>2, FS_Interval
  <2> HIDE DEF f, tables
  <2> QED BY <2>1, <2>2, FS_Surjection
<1>7. GoodFiles(tables)
  BY <1>4 DEF GoodFiles
<1>8. ASSUME NEW t \in tables
      PROVE  /\ t.number \in Nat /\ t.number < next + n
             /\ t.entries \subseteq Merged(c)
  <2>1. PICK i \in 1..n : t = table(i)
    OBVIOUS
  <2>2. t.number = next + i - 1
    BY <1>4, <2>1
  <2> HIDE DEF n
  <2>3. t.number \in Nat /\ t.number < next + n
    BY <1>2, <2>2
  <2> QED BY <1>3, <1>4, <2>1, <2>3 DEF n
<1>9. ASSUME NEW i \in 1..n, NEW j \in 1..n, i < j
      PROVE  Before(table(i).largest, table(j).smallest)
  <2>1. table(i).largest \in Range(os[i]) /\ table(j).smallest \in Range(os[j])
    BY <1>4 DEF GoodFile
  <2> QED BY <1>1, <1>2, <1>9, <2>1 DEF InOrder
<1>10. ASSUME NEW t \in tables, NEW u \in tables
       PROVE  t = u \/ Before(t.largest, u.smallest) \/ Before(u.largest, t.smallest)
  <2>1. PICK i \in 1..n : t = table(i)
    OBVIOUS
  <2>2. PICK j \in 1..n : u = table(j)
    OBVIOUS
  <2>3. i = j \/ i < j \/ j < i
    BY <1>2
  <2> QED BY <1>9, <2>1, <2>2, <2>3
<1>11. ASSUME WholeKeys(os) PROVE TablesWhole(tables)
  <2> SUFFICES ASSUME NEW t \in tables, NEW u \in tables, t # u,
                      NEW a \in t.entries, NEW b \in u.entries
               PROVE  a.key # b.key
    BY DEF TablesWhole
  <2>1. PICK i \in 1..n : t = table(i)
    OBVIOUS
  <2>2. PICK j \in 1..n : u = table(j)
    OBVIOUS
  <2>3. i # j /\ a \in Range(os[i]) /\ b \in Range(os[j])
    BY <1>4, <2>1, <2>2
  <2> QED BY <1>2, <1>11, <2>3 DEF WholeKeys
<1>12. UNION {t.entries : t \in tables} = Entries(os)
  <2>1. ASSUME NEW e \in Entries(os) PROVE e \in UNION {t.entries : t \in tables}
    <3>1. PICK i \in 1..n : e \in Range(os[i])
      BY <1>2 DEF Entries
    <3>2. table(i) \in tables /\ e \in table(i).entries
      BY <1>4, <3>1
    <3> QED BY <3>2
  <2>2. ASSUME NEW t \in tables, NEW e \in t.entries PROVE e \in Entries(os)
    <3>1. PICK i \in 1..n : t = table(i)
      OBVIOUS
    <3>2. e \in Range(os[i])
      BY <1>4, <2>2, <3>1
    <3> QED BY <1>2, <3>2 DEF Entries
  <2> QED BY <2>1, <2>2
<1>13. TablesOK(c, tables, next + n)
  <2> HIDE DEF tables, n
  <2> QED BY <1>6, <1>7, <1>8, <1>10 DEF TablesOK
<1> QED BY <1>2, <1>5, <1>11, <1>12, <1>13 DEF os

-----------------------------------------------------------------------------
(***************************************************************************)
(* The inductive invariant                                                 *)
(***************************************************************************)
\* Every entry is of a write of its own, those of a memtable after those that
\* have left it.
SeqOK(m, i, fl, last) ==
    /\ m \in SUBSET Record /\ i \in SUBSET Record
    /\ Distinct(m \cup i \cup InFiles(fl))
    /\ \A a \in m \cup i \cup InFiles(fl) : a.seq <= last
    /\ \A a \in m, b \in i \cup InFiles(fl) : a.seq > b.seq
    /\ \A a \in i, b \in InFiles(fl) : a.seq > b.seq

Pointers == Record \cup {NoKey}

CompactionOK(fl, c) == Fits(fl, c) /\ c.grandparents \subseteq Below(fl, c)

TreeInv ==
    /\ load \in Loads
    /\ lastSeq \in Nat /\ lastSeq <= load.writes
    /\ nextFile \in Nat
    /\ snapshots \in SUBSET (0..lastSeq)
    /\ compactPointer = [l \in Levels |-> compactPointer[l]]
    /\ \A l \in Levels :
          \/ compactPointer[l] = NoKey
          \/ (compactPointer[l] \in Record /\ compactPointer[l].seq <= lastSeq)
    /\ FilesOK(files, nextFile)
    /\ Disjoint(files)
    /\ SeqOK(mem, imm, files, lastSeq)
    /\ compaction # NoCompaction => CompactionOK(files, compaction)

LEMMA LoadTypes ==
    ASSUME load \in Loads
    PROVE  load.fileSize \in Nat \ {0} /\ load.snapshots \in Nat /\ load.writes \in Nat
BY LsmTreeAssumption

\* What is in files is finite, and has no two entries of one write.
LEMMA StoredIsFinite ==
    ASSUME NEW m, NEW i, NEW fl, NEW last \in Nat, SeqOK(m, i, fl, last),
           NEW E, E \subseteq m \cup i \cup InFiles(fl)
    PROVE  /\ E \in SUBSET Record /\ Distinct(E)
           /\ IsFiniteSet(E) /\ Cardinality(E) <= last
<1>1. E \in SUBSET Record
  BY DEF SeqOK, InFiles
<1>2. Distinct(E)
  BY DEF SeqOK, Distinct
<1>3. \A e \in E : e.seq <= last
  BY DEF SeqOK
<1> QED BY <1>1, <1>2, <1>3, DistinctIsFinite

LEMMA SeqOKOfFewer ==
    ASSUME NEW m, NEW i, NEW fl, NEW last, SeqOK(m, i, fl, last),
           NEW gl, InFiles(gl) \subseteq InFiles(fl)
    PROVE  SeqOK(m, i, gl, last)
BY Zenon DEF SeqOK, Distinct

LEMMA InitTree == Init => TreeInv
<1> SUFFICES ASSUME Init PROVE TreeInv
  OBVIOUS
<1>1. \A l \in Levels : files[l] = {} /\ compactPointer[l] = NoKey
  BY DEF Init
<1>2. files = [l \in Levels |-> files[l]] /\ compactPointer = [l \in Levels |-> compactPointer[l]]
  BY DEF Init
<1>3. InFiles(files) = {}
  BY <1>1 DEF InFiles
<1>4. FilesOK(files, nextFile)
  BY <1>1, <1>2, FS_EmptySet DEF FilesOK, GoodFiles
<1>5. Disjoint(files)
  BY <1>1 DEF Disjoint
<1>6. SeqOK(mem, imm, files, lastSeq)
  BY <1>3 DEF Init, SeqOK, Distinct
<1>7. /\ load \in Loads /\ lastSeq = 0 /\ nextFile = 1 /\ snapshots = {}
      /\ compaction = NoCompaction
  BY DEF Init
<1>8. lastSeq <= load.writes
  BY <1>7, LoadTypes
<1> QED BY <1>1, <1>2, <1>4, <1>5, <1>6, <1>7, <1>8 DEF TreeInv

LEMMA WriteTree ==
    ASSUME TreeInv, NEW k \in Keys, NEW type \in Types, Write(k, type)
    PROVE  TreeInv'
<1> DEFINE e == [key |-> k, seq |-> lastSeq + 1, type |-> type]
<1>1. /\ lastSeq \in Nat /\ lastSeq < load.writes /\ lastSeq' = lastSeq + 1
      /\ mem' = mem \cup {e}
      /\ load' = load /\ imm' = imm /\ files' = files /\ nextFile' = nextFile
      /\ snapshots' = snapshots /\ compactPointer' = compactPointer /\ compaction' = compaction
  BY DEF Write, TreeInv
<1>2. e \in Record /\ e.seq = lastSeq + 1
  BY <1>1 DEF Record
<1>3. SeqOK(mem, imm, files, lastSeq)
  BY DEF TreeInv
<1> HIDE DEF e
<1>4. \A a \in mem \cup imm \cup InFiles(files) : a.seq \in Nat /\ a.seq <= lastSeq
  BY <1>3 DEF SeqOK, InFiles, Record
<1>5. \A a \in mem \cup imm \cup InFiles(files) : a.seq < e.seq /\ a.seq # e.seq /\ a.seq <= lastSeq + 1
  BY <1>1, <1>2, <1>4
<1>6. SeqOK(mem', imm, files, lastSeq + 1)
  <2>1. mem' \in SUBSET Record /\ imm \in SUBSET Record
    BY <1>1, <1>2, <1>3 DEF SeqOK
  <2>2. \A a \in mem' : a \in mem \/ a = e
    BY <1>1
  <2>3. Distinct(mem' \cup imm \cup InFiles(files))
    BY <1>3, <1>5, <2>2, Zenon DEF SeqOK, Distinct
  <2>4. \A a \in mem' \cup imm \cup InFiles(files) : a.seq <= lastSeq + 1
    <3>1. e.seq <= lastSeq + 1
      BY <1>1, <1>2
    <3> QED BY <1>5, <2>2, <3>1
  <2>5. \A a \in mem', b \in imm \cup InFiles(files) : a.seq > b.seq
    BY <1>3, <1>5, <2>2 DEF SeqOK
  <2>6. \A a \in imm, b \in InFiles(files) : a.seq > b.seq
    BY <1>3 DEF SeqOK
  <2> QED BY <2>1, <2>3, <2>4, <2>5, <2>6 DEF SeqOK
<1>7. load' \in Loads /\ nextFile' \in Nat /\ lastSeq' \in Nat /\ lastSeq' <= load'.writes
  BY <1>1, LoadTypes DEF TreeInv
<1>8. snapshots' \in SUBSET (0..lastSeq')
  BY <1>1 DEF TreeInv
<1>9. /\ compactPointer' = [l \in Levels |-> compactPointer'[l]]
      /\ \A l \in Levels :
            \/ compactPointer'[l] = NoKey
            \/ (compactPointer'[l] \in Record /\ compactPointer'[l].seq <= lastSeq')
  <2>1. \A r \in Record : r.seq <= lastSeq => r.seq <= lastSeq'
    BY <1>1 DEF Record
  <2> QED BY <1>1, <2>1 DEF TreeInv
<1> QED BY <1>1, <1>6, <1>7, <1>8, <1>9 DEF TreeInv

LEMMA SwitchTree ==
    ASSUME TreeInv, Switch
    PROVE  TreeInv'
<1>1. SeqOK(mem', imm', files, lastSeq)
  BY DEF TreeInv, Switch, SeqOK
<1> QED BY <1>1 DEF TreeInv, Switch

LEMMA SnapshotTree ==
    ASSUME TreeInv, GetSnapshot \/ \E s \in snapshots : ReleaseSnapshot(s)
    PROVE  TreeInv'
<1>1. snapshots' \in SUBSET (0..lastSeq)
  BY DEF TreeInv, GetSnapshot, ReleaseSnapshot
<1> QED BY <1>1 DEF TreeInv, GetSnapshot, ReleaseSnapshot

\* What CompactMemTable does, in terms of the levels.
LEMMA FlushIsFlushed ==
    ASSUME TreeInv, CompactMemTable
    PROVE  \E level \in Levels : \E t :
               /\ t = Table(nextFile, imm)
               /\ GoodFile(t) /\ t.number = nextFile /\ t.entries = imm
               /\ Free(files, level, t)
               /\ files' = Flushed(files, level, t)
<1> DEFINE t == Table(nextFile, imm)
           level == PickLevelForMemTableOutput(files, t.smallest.key, t.largest.key)
<1>1. imm # {} /\ files' = Flushed(files, level, t)
  BY DEF CompactMemTable, Flushed
<1>2. imm \in SUBSET Record /\ Distinct(imm) /\ IsFiniteSet(imm)
  BY StoredIsFinite DEF TreeInv
<1>3. GoodFile(t) /\ t.number = nextFile /\ t.entries = imm
  BY <1>1, <1>2, TableIsGood
<1>4. level \in Levels /\ Free(files, level, t)
  <2> HIDE DEF t
  <2> QED BY PlaceIsFree, Zenon DEF Free
<1> HIDE DEF t, level
<1>5. t = Table(nextFile, imm)
  BY DEF t
<1> QED BY <1>1, <1>3, <1>4, <1>5

LEMMA FlushTree ==
    ASSUME TreeInv, CompactMemTable
    PROVE  TreeInv'
<1> PICK level \in Levels : \E t :
       /\ GoodFile(t) /\ t.number = nextFile /\ t.entries = imm
       /\ Free(files, level, t)
       /\ files' = Flushed(files, level, t)
  BY FlushIsFlushed
<1>1. PICK t : /\ GoodFile(t) /\ t.number = nextFile /\ t.entries = imm
              /\ Free(files, level, t)
              /\ files' = Flushed(files, level, t)
  OBVIOUS
<1>2. /\ nextFile' = nextFile + 1 /\ imm' = {}
      /\ load' = load /\ lastSeq' = lastSeq /\ mem' = mem /\ snapshots' = snapshots
      /\ compactPointer' = compactPointer /\ compaction' = compaction
  BY DEF CompactMemTable
<1>3. /\ nextFile \in Nat /\ FilesOK(files, nextFile) /\ Disjoint(files)
      /\ SeqOK(mem, imm, files, lastSeq)
  BY DEF TreeInv
<1>4. FilesOK(files', nextFile + 1) /\ Disjoint(files') /\ InFiles(files') = InFiles(files) \cup imm
  BY <1>1, <1>3, FlushedFilesOK
<1>5. SeqOK(mem, {}, files', lastSeq)
  BY <1>3, <1>4 DEF SeqOK
<1>6. compaction # NoCompaction => CompactionOK(files', compaction)
  BY <1>1, <1>3, FlushedFits DEF TreeInv, CompactionOK
<1> QED BY <1>2, <1>3, <1>4, <1>5, <1>6 DEF TreeInv

\* Both ways to pick a compaction begin with a file of the level.
LEMMA PickIsOfLevel ==
    ASSUME TreeInv, NEW l \in 0..(NumLevels - 2), SizeCompaction(l) \/ SeekCompaction(l)
    PROVE  /\ compaction = NoCompaction
           /\ load' = load /\ lastSeq' = lastSeq /\ mem' = mem /\ imm' = imm
           /\ nextFile' = nextFile /\ snapshots' = snapshots
           /\ \E f \in files[l] : Begin(Picked(l, f))
<1>1. /\ compaction = NoCompaction
      /\ load' = load /\ lastSeq' = lastSeq /\ mem' = mem /\ imm' = imm
      /\ nextFile' = nextFile /\ snapshots' = snapshots
  BY DEF SizeCompaction, SeekCompaction
<1>2. CASE SizeCompaction(l)
  <2>1. NextInLevel(l) \subseteq files[l]
    BY DEF NextInLevel
  <2>2. \E f \in NextInLevel(l) : Begin(Picked(l, f))
    BY <1>2, Zenon DEF SizeCompaction
  <2> QED BY <1>1, <2>1, <2>2, Zenon
<1>3. CASE SeekCompaction(l)
  <2>1. SeekFiles(l) \subseteq files[l]
    BY DEF SeekFiles
  <2>2. \E f \in SeekFiles(l) : Begin(Picked(l, f))
    BY <1>3, Zenon DEF SeekCompaction
  <2> QED BY <1>1, <2>1, <2>2, Zenon
<1> QED BY <1>2, <1>3

\* A file that is moved is a table with entries of its own.
LEMMA TrivialMove ==
    ASSUME NEW fl, NEW next, FilesOK(fl, next), NEW c, Fits(fl, c), IsTrivialMove(c)
    PROVE  /\ TablesOK(c, c.inputs, next) /\ TablesWhole(c.inputs)
           /\ Replaced(fl, c, c.inputs)
                = [fl EXCEPT ![c.level] = @ \ c.inputs, ![c.level + 1] = @ \cup c.inputs]
<1>1. c.parents = {} /\ Cardinality(c.inputs) = 1
  BY DEF IsTrivialMove
<1>2. c.level \in Levels /\ c.inputs \subseteq fl[c.level]
  BY CompactionLevels DEF Fits
<1>3. IsFiniteSet(c.inputs)
  BY <1>2, FS_Subset DEF FilesOK
<1>4. \A f, g \in c.inputs : f = g
  BY <1>1, <1>3, FS_Singleton
<1>5. GoodFiles(c.inputs) /\ \A f \in c.inputs : f.number \in Nat /\ f.number < next
  BY <1>2 DEF FilesOK, GoodFiles
<1>6. \A f \in c.inputs : f.entries \subseteq Merged(c)
  BY DEF Merged
<1>7. TablesOK(c, c.inputs, next)
  BY <1>3, <1>4, <1>5, <1>6 DEF TablesOK
<1>8. TablesWhole(c.inputs)
  BY <1>4 DEF TablesWhole
<1>9. \A S : S \ c.parents = S
  BY <1>1
<1> QED BY <1>7, <1>8, <1>9 DEF Replaced

LEMMA BeginTree ==
    ASSUME TreeInv, NEW l \in 0..(NumLevels - 2), SizeCompaction(l) \/ SeekCompaction(l)
    PROVE  TreeInv'
<1>1. /\ load' = load /\ lastSeq' = lastSeq /\ mem' = mem /\ imm' = imm
      /\ nextFile' = nextFile /\ snapshots' = snapshots
  BY PickIsOfLevel
<1>2. PICK f \in files[l] : Begin(Picked(l, f))
  BY PickIsOfLevel
<1>3. /\ nextFile \in Nat /\ FilesOK(files, nextFile) /\ Disjoint(files)
      /\ SeqOK(mem, imm, files, lastSeq) /\ lastSeq \in Nat
  BY DEF TreeInv
<1>4. \A m \in Levels : GoodFiles(files[m])
  BY <1>3 DEF FilesOK
<1> DEFINE c == Picked(l, f)
<1>5. c.level = l /\ Fits(files, c) /\ c.grandparents \subseteq Below(files, c)
  BY <1>4, PickedFits
<1> HIDE DEF c
<1>6. Merged(c) \subseteq InFiles(files) /\ GoodFiles(c.inputs) /\ c.inputs # {}
  BY <1>3, <1>5, MergedIsInFiles DEF Fits
<1>7. /\ compactPointer' = [m \in Levels |-> compactPointer'[m]]
      /\ \A m \in Levels :
            \/ compactPointer'[m] = NoKey
            \/ (compactPointer'[m] \in Record /\ compactPointer'[m].seq <= lastSeq)
  <2> DEFINE E == {g.largest : g \in c.inputs}
  <2>1. E \subseteq Merged(c) /\ E # {}
    BY <1>6 DEF Merged, GoodFiles, GoodFile
  <2>2. E \subseteq mem \cup imm \cup InFiles(files)
    BY <1>6, <2>1
  <2>3. compactPointer' = [compactPointer EXCEPT ![c.level] = LastOf(E)]
    BY <1>2 DEF Begin, c
  <2> HIDE DEF E
  <2>4. E \in SUBSET Record /\ Distinct(E) /\ IsFiniteSet(E)
    BY <1>3, <2>2, StoredIsFinite
  <2>5. LastOf(E) \in E
    BY <2>1, <2>4, LastOfIsLast
  <2>6. LastOf(E) \in Record /\ LastOf(E).seq <= lastSeq
    BY <1>3, <2>2, <2>4, <2>5 DEF SeqOK
  <2>7. compactPointer = [m \in Levels |-> compactPointer[m]]
    BY DEF TreeInv
  <2>8. \A m \in Levels : compactPointer'[m] = compactPointer[m] \/ compactPointer'[m] = LastOf(E)
    BY <2>3, <2>7
  <2>9. compactPointer' = [m \in Levels |-> compactPointer'[m]]
    BY <2>3, <2>7
  <2> QED BY <2>6, <2>8, <2>9 DEF TreeInv
<1>8. CASE IsTrivialMove(c)
  <2>1. files' = Replaced(files, c, c.inputs) /\ compaction' = NoCompaction
    BY <1>2, <1>3, <1>5, <1>8, TrivialMove DEF Begin, c
  <2>2. TablesOK(c, c.inputs, nextFile)
    BY <1>3, <1>5, <1>8, TrivialMove
  <2>3. FilesOK(files', nextFile) /\ Disjoint(files') /\ InFiles(files') \subseteq InFiles(files)
    BY <1>3, <1>5, <2>1, <2>2, ReplacedFilesOK
  <2>4. SeqOK(mem, imm, files', lastSeq)
    BY <1>3, <2>3, SeqOKOfFewer
  <2> QED BY <1>1, <1>7, <2>1, <2>3, <2>4 DEF TreeInv
<1>9. CASE ~IsTrivialMove(c)
  <2>1. /\ files' = files
        /\ compaction'.level = c.level /\ compaction'.inputs = c.inputs
        /\ compaction'.parents = c.parents /\ compaction'.grandparents = c.grandparents
    BY <1>2, <1>9 DEF Begin, c
  <2>2. CompactionOK(files, compaction')
    BY <1>5, <2>1 DEF CompactionOK, Fits, Below
  <2> QED BY <1>1, <1>7, <2>1, <2>2 DEF TreeInv
<1> QED BY <1>8, <1>9

LEMMA InstallIsReplaced ==
    ASSUME TreeInv, Install
    PROVE  /\ compaction # NoCompaction /\ CompactionOK(files, compaction)
           /\ Merged(compaction) \subseteq InFiles(files)
           /\ files' = Replaced(files, compaction, TablesOf(compaction, nextFile))
           /\ Len(Outputs(compaction)) \in Nat
           /\ nextFile' = nextFile + Len(Outputs(compaction))
           /\ TablesOK(compaction, TablesOf(compaction, nextFile), nextFile')
<1>1. /\ compaction # NoCompaction
      /\ files' = Replaced(files, compaction, TablesOf(compaction, nextFile))
      /\ nextFile' = nextFile + Len(Outputs(compaction))
  BY DEF Install, Replaced, TablesOf
<1>2. CompactionOK(files, compaction) /\ FilesOK(files, nextFile) /\ nextFile \in Nat
  BY <1>1 DEF TreeInv
<1>3. Merged(compaction) \subseteq InFiles(files)
  BY <1>2, MergedIsInFiles DEF CompactionOK
<1>4. /\ Merged(compaction) \in SUBSET Record /\ Distinct(Merged(compaction))
      /\ IsFiniteSet(Merged(compaction))
  BY <1>3, StoredIsFinite DEF TreeInv
<1>5. /\ Len(Outputs(compaction)) \in Nat
      /\ TablesOK(compaction, TablesOf(compaction, nextFile), nextFile + Len(Outputs(compaction)))
  BY <1>2, <1>4, InstalledTables
<1> QED BY <1>1, <1>2, <1>3, <1>5

LEMMA InstallTree ==
    ASSUME TreeInv, Install
    PROVE  TreeInv'
<1>1. /\ CompactionOK(files, compaction)
      /\ files' = Replaced(files, compaction, TablesOf(compaction, nextFile))
      /\ Len(Outputs(compaction)) \in Nat
      /\ nextFile' = nextFile + Len(Outputs(compaction))
      /\ TablesOK(compaction, TablesOf(compaction, nextFile), nextFile')
  BY InstallIsReplaced
<1>2. /\ nextFile \in Nat /\ FilesOK(files, nextFile) /\ Disjoint(files)
      /\ SeqOK(mem, imm, files, lastSeq)
  BY DEF TreeInv
<1>3. nextFile' \in Nat /\ nextFile <= nextFile'
  BY <1>1, <1>2
<1>4. FilesOK(files', nextFile') /\ Disjoint(files') /\ InFiles(files') \subseteq InFiles(files)
  BY <1>1, <1>2, <1>3, ReplacedFilesOK DEF CompactionOK
<1>5. SeqOK(mem, imm, files', lastSeq)
  BY <1>2, <1>4, SeqOKOfFewer
<1>6. /\ compaction' = NoCompaction
      /\ load' = load /\ lastSeq' = lastSeq /\ mem' = mem /\ imm' = imm
      /\ snapshots' = snapshots /\ compactPointer' = compactPointer
  BY DEF Install
<1> QED BY <1>3, <1>4, <1>5, <1>6 DEF TreeInv

LEMMA TreeStays == TreeInv /\ [Next]_vars => TreeInv'
<1> SUFFICES ASSUME TreeInv, [Next]_vars PROVE TreeInv'
  OBVIOUS
<1>1. CASE \E k \in Keys, type \in Types : Write(k, type)
  BY <1>1, WriteTree
<1>2. CASE Switch
  BY <1>2, SwitchTree
<1>3. CASE GetSnapshot \/ \E s \in snapshots : ReleaseSnapshot(s)
  BY <1>3, SnapshotTree
<1>4. CASE CompactMemTable
  BY <1>4, FlushTree
<1>5. CASE \E l \in 0..(NumLevels - 2) : SizeCompaction(l) \/ SeekCompaction(l)
  BY <1>5, BeginTree
<1>6. CASE Install
  BY <1>6, InstallTree
<1>7. CASE UNCHANGED vars
  BY <1>7 DEF vars, TreeInv
<1> QED BY <1>1, <1>2, <1>3, <1>4, <1>5, <1>6, <1>7 DEF Next, BackgroundStep

LEMMA TreeAlways == Spec => []TreeInv
BY InitTree, TreeStays, PTL DEF Spec

-----------------------------------------------------------------------------
(***************************************************************************)
(* Types, and levels without overlap                                       *)
(***************************************************************************)
LEMMA TreeTypes == TreeInv => TypeOK
<1> SUFFICES ASSUME TreeInv PROVE TypeOK
  OBVIOUS
<1>1. /\ load \in Loads /\ lastSeq \in Nat /\ lastSeq <= load.writes /\ load.writes \in Nat
      /\ nextFile \in Nat /\ snapshots \in SUBSET (0..lastSeq)
      /\ FilesOK(files, nextFile) /\ SeqOK(mem, imm, files, lastSeq)
  BY LoadTypes DEF TreeInv
<1>2. ASSUME NEW e \in Record, e.seq <= lastSeq PROVE e \in Entry
  <2>1. /\ e.key \in Keys /\ e.type \in Types /\ e.seq \in 1..load.writes
        /\ e = [key |-> e.key, seq |-> e.seq, type |-> e.type]
    BY <1>1, <1>2 DEF Record
  <2> QED BY <2>1 DEF Entry
<1>3. mem \subseteq Entry /\ imm \subseteq Entry
  BY <1>1, <1>2 DEF SeqOK
<1>4. ASSUME NEW l \in Levels, NEW f \in files[l]
      PROVE  f.entries \in (SUBSET Entry) \ {{}} /\ f.number < nextFile
  <2>1. GoodFile(f) /\ f.number < nextFile
    BY <1>1 DEF FilesOK, GoodFiles
  <2>2. f.entries \subseteq InFiles(files)
    BY <2>1 DEF InFiles, GoodFile
  <2>3. \A e \in f.entries : e \in Entry
    BY <1>1, <1>2, <2>1, <2>2 DEF SeqOK, GoodFile
  <2>4. f.entries # {}
    BY <2>1 DEF GoodFile
  <2> QED BY <2>1, <2>3, <2>4
<1>5. compactPointer \in [Levels -> Entry \cup {NoKey}]
  <2>1. \A l \in Levels : compactPointer[l] \in Entry \cup {NoKey}
    BY <1>2 DEF TreeInv
  <2>2. compactPointer = [l \in Levels |-> compactPointer[l]]
    BY DEF TreeInv
  <2> QED BY <2>1, <2>2
<1>6. lastSeq \in 0..load.writes
  BY <1>1
<1> QED BY <1>1, <1>3, <1>4, <1>5, <1>6 DEF TypeOK

\* Every entry, table, snapshot and compaction pointer is one that writes have
\* made, and no file has a number that is still to be given.
THEOREM TreeTypesAlways == Spec => []TypeOK
BY TreeAlways, TreeTypes, PTL

\* Below level 0 the files of a level never overlap: not after a flush that
\* skips levels while a merge is under way, and not when the merge installs its
\* tables next to what the flush has put there (DBImpl::WriteLevel0Table,
\* VersionSet::SetupOtherInputs, DBImpl::InstallCompactionResults).
THEOREM LevelsAreDisjointAlways == Spec => []LevelsAreDisjoint
<1>1. TreeInv => LevelsAreDisjoint
  BY DEF TreeInv, Disjoint, LevelsAreDisjoint
<1> QED BY <1>1, TreeAlways, PTL

-----------------------------------------------------------------------------
(***************************************************************************)
(* Newer entries above older ones, as long as no key is cut in two         *)
(***************************************************************************)
\* The merge under way will not leave entries of one key in two tables.
NoKeyIsCut == compaction # NoCompaction => WholeKeys(Outputs(compaction))

NewerInv ==
    /\ TreeInv
    /\ Newer(files) /\ NoSplit(files)
    /\ compaction # NoCompaction => OthersNewer(files, compaction)

LEMMA InitNewer == Init => NewerInv
<1> SUFFICES ASSUME Init PROVE NewerInv
  OBVIOUS
<1>1. /\ \A l \in Levels : files[l] = {}
      /\ compaction = NoCompaction
  BY DEF Init
<1>2. Newer(files) /\ NoSplit(files)
  BY <1>1 DEF Newer, NoSplit
<1> QED BY <1>1, <1>2, InitTree DEF NewerInv

LEMMA FlushNewer ==
    ASSUME NewerInv, CompactMemTable
    PROVE  NewerInv'
<1> PICK level \in Levels : \E t :
       /\ GoodFile(t) /\ t.number = nextFile /\ t.entries = imm
       /\ Free(files, level, t)
       /\ files' = Flushed(files, level, t)
  BY FlushIsFlushed DEF NewerInv
<1>1. PICK t : /\ GoodFile(t) /\ t.number = nextFile /\ t.entries = imm
              /\ Free(files, level, t)
              /\ files' = Flushed(files, level, t)
  OBVIOUS
<1>2. /\ FilesOK(files, nextFile) /\ SeqOK(mem, imm, files, lastSeq)
      /\ compaction # NoCompaction => Fits(files, compaction)
      /\ TreeInv'
  BY FlushTree DEF NewerInv, TreeInv, CompactionOK
<1>3. \A a \in t.entries, b \in InFiles(files) : a.seq > b.seq
  BY <1>1, <1>2 DEF SeqOK
<1>4. /\ Newer(files') /\ NoSplit(files')
      /\ \A c : Fits(files, c) /\ OthersNewer(files, c) => OthersNewer(files', c)
  BY <1>1, <1>2, <1>3, FlushedNewer DEF NewerInv
<1>5. compaction' = compaction
  BY DEF CompactMemTable
<1> QED BY <1>2, <1>4, <1>5 DEF NewerInv

LEMMA BeginNewer ==
    ASSUME NewerInv, NEW l \in 0..(NumLevels - 2), SizeCompaction(l) \/ SeekCompaction(l)
    PROVE  NewerInv'
<1>1. PICK f \in files[l] : Begin(Picked(l, f))
  BY PickIsOfLevel DEF NewerInv
<1>2. TreeInv' /\ FilesOK(files, nextFile)
  BY BeginTree DEF NewerInv, TreeInv
<1>3. \A m \in Levels : GoodFiles(files[m])
  BY <1>2 DEF FilesOK
<1> DEFINE c == Picked(l, f)
<1>4. c.level = l /\ Fits(files, c) /\ TakesAllOfLevel0(files, c)
  BY <1>3, PickedFits
<1> HIDE DEF c
<1>5. OthersNewer(files, c)
  BY <1>2, <1>4, PickedOthersNewer DEF NewerInv
<1>6. CASE IsTrivialMove(c)
  <2>1. /\ files' = Replaced(files, c, c.inputs) /\ compaction' = NoCompaction
        /\ TablesOK(c, c.inputs, nextFile) /\ TablesWhole(c.inputs)
    BY <1>1, <1>2, <1>4, <1>6, TrivialMove DEF Begin, c
  <2>2. Newer(files') /\ NoSplit(files')
    BY <1>2, <1>4, <1>5, <2>1, ReplacedNewer DEF NewerInv
  <2> QED BY <1>2, <2>1, <2>2 DEF NewerInv
<1>7. CASE ~IsTrivialMove(c)
  <2>1. files' = files /\ compaction'.level = c.level /\ compaction'.inputs = c.inputs
    BY <1>1, <1>7 DEF Begin, c
  <2>2. OthersNewer(files, compaction')
    BY <1>5, <2>1 DEF OthersNewer
  <2> QED BY <1>2, <2>1, <2>2 DEF NewerInv
<1> QED BY <1>6, <1>7

LEMMA InstallNewer ==
    ASSUME NewerInv, NoKeyIsCut, Install
    PROVE  NewerInv'
<1>1. /\ compaction # NoCompaction /\ CompactionOK(files, compaction)
      /\ Merged(compaction) \subseteq InFiles(files)
      /\ files' = Replaced(files, compaction, TablesOf(compaction, nextFile))
      /\ TablesOK(compaction, TablesOf(compaction, nextFile), nextFile')
  BY InstallIsReplaced DEF NewerInv
<1>2. /\ FilesOK(files, nextFile) /\ nextFile \in Nat
      /\ TreeInv' /\ compaction' = NoCompaction
  BY InstallTree DEF NewerInv, TreeInv, Install
<1>3. /\ Merged(compaction) \in SUBSET Record /\ Distinct(Merged(compaction))
      /\ IsFiniteSet(Merged(compaction))
  BY <1>1, StoredIsFinite DEF NewerInv, TreeInv
<1>4. TablesWhole(TablesOf(compaction, nextFile))
  BY <1>1, <1>2, <1>3, InstalledTables DEF NoKeyIsCut
<1>5. Newer(files') /\ NoSplit(files')
  BY <1>1, <1>2, <1>4, ReplacedNewer DEF NewerInv, CompactionOK
<1> QED BY <1>2, <1>5 DEF NewerInv

LEMMA NewerStays == NewerInv /\ NoKeyIsCut /\ [Next]_vars => NewerInv'
<1> SUFFICES ASSUME NewerInv, NoKeyIsCut, [Next]_vars PROVE NewerInv'
  OBVIOUS
<1>1. ASSUME \/ \E k \in Keys, type \in Types : Write(k, type)
             \/ Switch
             \/ GetSnapshot
             \/ \E s \in snapshots : ReleaseSnapshot(s)
             \/ UNCHANGED vars
      PROVE  NewerInv'
  <2>1. files' = files /\ compaction' = compaction
    BY <1>1 DEF Write, Switch, GetSnapshot, ReleaseSnapshot, vars
  <2>2. TreeInv'
    BY TreeStays DEF NewerInv
  <2> QED BY <2>1, <2>2 DEF NewerInv
<1>2. CASE CompactMemTable
  BY <1>2, FlushNewer
<1>3. CASE \E l \in 0..(NumLevels - 2) : SizeCompaction(l) \/ SeekCompaction(l)
  BY <1>3, BeginNewer
<1>4. CASE Install
  BY <1>4, InstallNewer
<1> QED BY <1>1, <1>2, <1>3, <1>4 DEF Next, BackgroundStep

LEMMA NewerIsNewerAbove == NewerInv => NewerAbove
BY DEF NewerInv, Newer, NewerAbove

\* However writes, flushes, moves and merges interleave, and whatever snapshots
\* are held, entries never hop across levels as long as no merge cuts the
\* entries of one key into two tables (Version::Get relies on it; the cut is
\* the one thing VersionSet::SetupOtherInputs does not guard against).
THEOREM NewerAboveUnlessCut == Spec /\ []NoKeyIsCut => []NewerAbove
<1>1. Init => NewerInv
  BY InitNewer
<1>2. NewerInv /\ NoKeyIsCut /\ [Next]_vars => NewerInv'
  BY NewerStays
<1>3. NewerInv => NewerAbove
  BY NewerIsNewerAbove
<1> QED BY <1>1, <1>2, <1>3, PTL DEF Spec

-----------------------------------------------------------------------------
(***************************************************************************)
(* When no key is cut                                                      *)
(***************************************************************************)
\* Nobody holds a snapshot, so a merge leaves one entry of a key; or all
\* there ever is fits into a table.
NothingToCut(d) == d.snapshots = 0 \/ d.writes < d.fileSize

NoSnapshotInv ==
    load.snapshots = 0 =>
        /\ snapshots = {}
        /\ compaction # NoCompaction =>
              \A e \in Merged(compaction) : e.seq <= compaction.smallestSnapshot

LEMMA BeginNoSnapshot ==
    ASSUME TreeInv, NoSnapshotInv, NEW l \in 0..(NumLevels - 2), SizeCompaction(l) \/ SeekCompaction(l)
    PROVE  NoSnapshotInv'
<1>1. load' = load /\ snapshots' = snapshots
  BY PickIsOfLevel
<1>2. PICK f \in files[l] : Begin(Picked(l, f))
  BY PickIsOfLevel
<1> SUFFICES ASSUME load.snapshots = 0, compaction' # NoCompaction
             PROVE  \A e \in Merged(compaction') : e.seq <= compaction'.smallestSnapshot
  BY <1>1 DEF NoSnapshotInv
<1> DEFINE c == Picked(l, f)
<1>3. /\ compaction'.inputs = c.inputs /\ compaction'.parents = c.parents
      /\ compaction'.smallestSnapshot = Min(snapshots \cup {lastSeq})
  BY <1>2 DEF Begin
<1>4. snapshots \cup {lastSeq} = {lastSeq} /\ lastSeq \in Nat
  BY DEF NoSnapshotInv, TreeInv
<1>5. Min({lastSeq}) = lastSeq
  BY <1>4 DEF Min
<1>6. FilesOK(files, nextFile) /\ SeqOK(mem, imm, files, lastSeq)
  BY DEF TreeInv
<1>7. Merged(c) \subseteq InFiles(files)
  <2>1. \A m \in Levels : GoodFiles(files[m])
    BY <1>6 DEF FilesOK
  <2>2. Fits(files, c)
    BY <2>1, PickedFits
  <2> HIDE DEF c
  <2> QED BY <1>6, <2>2, MergedIsInFiles
<1> HIDE DEF c
<1>8. Merged(compaction') = Merged(c)
  BY <1>3 DEF Merged
<1> QED BY <1>3, <1>4, <1>5, <1>6, <1>7, <1>8 DEF SeqOK

LEMMA NoSnapshotStays == TreeInv /\ NoSnapshotInv /\ [Next]_vars => NoSnapshotInv'
<1> SUFFICES ASSUME TreeInv, NoSnapshotInv, [Next]_vars PROVE NoSnapshotInv'
  OBVIOUS
<1>1. ASSUME \/ \E k \in Keys, type \in Types : Write(k, type)
             \/ Switch
             \/ CompactMemTable
             \/ UNCHANGED vars
      PROVE  NoSnapshotInv'
  <2>1. load' = load /\ snapshots' = snapshots /\ compaction' = compaction
    BY <1>1 DEF Write, Switch, CompactMemTable, vars
  <2> QED BY <2>1 DEF NoSnapshotInv
<1>2. CASE GetSnapshot
  <2>1. load' = load /\ compaction' = compaction /\ Cardinality(snapshots) < load.snapshots
    BY <1>2 DEF GetSnapshot
  <2>2. load.snapshots # 0
    <3>1. SUFFICES ASSUME load.snapshots = 0 PROVE FALSE
      OBVIOUS
    <3>2. Cardinality(snapshots) = 0
      BY <3>1, FS_EmptySet DEF NoSnapshotInv
    <3> QED BY <2>1, <3>1, <3>2
  <2> QED BY <2>1, <2>2 DEF NoSnapshotInv
<1>3. CASE \E s \in snapshots : ReleaseSnapshot(s)
  <2>1. load' = load /\ compaction' = compaction /\ snapshots' \subseteq snapshots
    BY <1>3 DEF ReleaseSnapshot
  <2> QED BY <2>1 DEF NoSnapshotInv
<1>4. CASE \E l \in 0..(NumLevels - 2) : SizeCompaction(l) \/ SeekCompaction(l)
  BY <1>4, BeginNoSnapshot
<1>5. CASE Install
  <2>1. load' = load /\ snapshots' = snapshots /\ compaction' = NoCompaction
    BY <1>5 DEF Install
  <2> QED BY <2>1 DEF NoSnapshotInv
<1> QED BY <1>1, <1>2, <1>3, <1>4, <1>5 DEF Next, BackgroundStep

\* Grandparents are finite, and older than what is merged.
LEMMA GrandparentsAreOlder ==
    ASSUME NewerInv, compaction # NoCompaction
    PROVE  /\ \A gs \in SUBSET compaction.grandparents : TotalFileSize(gs) \in Nat
           /\ \A g \in compaction.grandparents :
                 /\ g.largest \in Record
                 /\ \A e \in Merged(compaction) : g.largest.key = e.key => e.seq > g.largest.seq
<1> DEFINE c == compaction
<1>1. /\ FilesOK(files, nextFile) /\ SeqOK(mem, imm, files, lastSeq) /\ lastSeq \in Nat
      /\ Fits(files, c) /\ c.grandparents \subseteq Below(files, c) /\ Newer(files)
  BY DEF NewerInv, TreeInv, CompactionOK
<1>2. /\ c.level \in Levels /\ c.level + 1 \in Levels /\ c.level \in Nat
  BY <1>1, CompactionLevels
<1>3. CASE c.level + 2 < NumLevels
  <2>1. c.level + 2 \in Levels /\ c.grandparents \subseteq files[c.level + 2]
    <3>1. c.level + 2 \in Levels
      BY <1>2, <1>3, LsmTreeAssumption DEF Levels
    <3> QED BY <1>1, <1>3, <3>1, Zenon DEF Below
  <2>2. IsFiniteSet(c.grandparents) /\ GoodFiles(c.grandparents)
    BY <1>1, <2>1, FS_Subset DEF FilesOK, GoodFiles
  <2>3. ASSUME NEW gs \in SUBSET c.grandparents PROVE TotalFileSize(gs) \in Nat
    <3> DEFINE E == InFiles(files)
               pairs == UNION {{f} \X f.entries : f \in gs}
    <3>1. IsFiniteSet(E)
      BY <1>1, StoredIsFinite
    <3>2. IsFiniteSet(gs)
      BY <2>2, FS_Subset
    <3>3. \A f \in gs : f.entries \subseteq E
      BY <2>1, <2>2 DEF InFiles, GoodFiles, GoodFile
    <3> HIDE DEF E
    <3>4. pairs \in SUBSET (gs \X E)
      BY <3>3
    <3> HIDE DEF pairs
    <3>5. IsFiniteSet(gs \X E)
      BY <3>1, <3>2, FS_Product
    <3>6. IsFiniteSet(pairs)
      BY <3>4, <3>5, FS_Subset
    <3>7. Cardinality(pairs) \in Nat
      BY <3>6, FS_CardinalityType
    <3> QED BY <3>7 DEF TotalFileSize, pairs
  <2>4. ASSUME NEW g \in c.grandparents
        PROVE  /\ g.largest \in Record
               /\ \A e \in Merged(c) : g.largest.key = e.key => e.seq > g.largest.seq
    <3>1. GoodFile(g) /\ g \in files[c.level + 2]
      BY <2>1, <2>2 DEF GoodFiles
    <3>2. g.largest \in g.entries /\ g.largest \in Record
      BY <3>1 DEF GoodFile
    <3> SUFFICES ASSUME NEW e \in Merged(c), g.largest.key = e.key PROVE e.seq > g.largest.seq
      BY <3>2
    <3>3. PICK h \in c.inputs \cup c.parents : e \in h.entries
      BY DEF Merged
    <3>4. h \in files[c.level] \/ h \in files[c.level + 1]
      BY <1>1 DEF Fits
    <3>5. c.level < c.level + 2 /\ c.level + 1 < c.level + 2
      BY <1>2
    <3> QED BY <1>1, <1>2, <2>1, <3>1, <3>2, <3>3, <3>4, <3>5 DEF Newer
  <2> QED BY <2>3, <2>4
<1>4. CASE ~(c.level + 2 < NumLevels)
  <2>1. c.grandparents = {}
    BY <1>1, <1>4 DEF Below
  <2>2. \A gs \in SUBSET {} : UNION {{f} \X f.entries : f \in gs} = {}
    OBVIOUS
  <2>3. Cardinality({}) = 0
    BY FS_EmptySet
  <2>4. \A gs \in SUBSET {} : TotalFileSize(gs) \in Nat
    BY <2>2, <2>3 DEF TotalFileSize
  <2> QED BY <2>1, <2>4
<1> QED BY <1>3, <1>4

LEMMA NothingIsCut ==
    ASSUME NewerInv, NoSnapshotInv, NothingToCut(load)
    PROVE  NoKeyIsCut
<1> SUFFICES ASSUME compaction # NoCompaction PROVE WholeKeys(Outputs(compaction))
  BY DEF NoKeyIsCut
<1> DEFINE c == compaction
           s == Sorted(Merged(c))
<1>1. /\ FilesOK(files, nextFile) /\ SeqOK(mem, imm, files, lastSeq)
      /\ lastSeq \in Nat /\ lastSeq <= load.writes /\ load \in Loads
      /\ Fits(files, c)
  BY DEF NewerInv, TreeInv, CompactionOK
<1>2. Merged(c) \subseteq InFiles(files)
  BY <1>1, MergedIsInFiles
<1>3. /\ Merged(c) \in SUBSET Record /\ Distinct(Merged(c)) /\ IsFiniteSet(Merged(c))
      /\ Cardinality(Merged(c)) <= lastSeq
  BY <1>1, <1>2, StoredIsFinite
<1> HIDE DEF s
<1>4. /\ s \in Seq(Record) /\ Increasing(s)
      /\ Len(s) = Cardinality(Merged(c)) /\ Len(s) \in Nat
      /\ {s[m] : m \in 1..Len(s)} = Merged(c)
      /\ Outputs(c) = Written(Rounds(c, s)[Len(s)])
  BY <1>3, OutputsInOrder DEF s
<1>5. \A m \in 1..Len(s) : s[m] \in Merged(c)
  BY <1>4
<1>6. load.fileSize \in Nat /\ load.writes \in Nat
  BY <1>1, LoadTypes
<1>7. \A i \in 0..Len(s) : WholeKeys(Written(Rounds(c, s)[i]))
  <2>1. CASE load.snapshots = 0
    <3>1. \A m \in 1..Len(s) : s[m].seq <= c.smallestSnapshot
      BY <1>5, <2>1 DEF NoSnapshotInv
    <3> QED BY <1>4, <3>1, WholeBySnapshot
  <2>2. CASE load.writes < load.fileSize
    <3>1. Len(s) < load.fileSize
      BY <1>1, <1>3, <1>4, <1>6, <2>2
    <3>2. /\ \A gs \in SUBSET c.grandparents : TotalFileSize(gs) \in Nat
          /\ \A g \in c.grandparents :
                /\ g.largest \in Record
                /\ \A e \in Merged(c) : g.largest.key = e.key => e.seq > g.largest.seq
      BY GrandparentsAreOlder
    <3>3. \A g \in c.grandparents : \A m \in 1..Len(s) :
             g.largest.key = s[m].key => s[m].seq > g.largest.seq
      BY <1>5, <3>2
    <3> QED BY <1>4, <1>6, <3>1, <3>2, <3>3, WholeBySize
  <2> QED BY <2>1, <2>2 DEF NothingToCut
<1> QED BY <1>4, <1>7

LEMMA NothingIsEverCut ==
    ASSUME \A d \in Loads : NothingToCut(d)
    PROVE  Spec => []NoKeyIsCut
<1> DEFINE Calm == NewerInv /\ NoSnapshotInv
<1>1. Init => Calm
  BY InitNewer DEF Init, NoSnapshotInv
<1>2. Calm => NoKeyIsCut
  BY NothingIsCut DEF NewerInv, TreeInv
<1>3. Calm /\ [Next]_vars => Calm'
  <2> SUFFICES ASSUME NewerInv, NoSnapshotInv, [Next]_vars PROVE NewerInv' /\ NoSnapshotInv'
    OBVIOUS
  <2>1. TreeInv /\ NoKeyIsCut
    BY <1>2 DEF NewerInv
  <2> QED BY <2>1, NewerStays, NoSnapshotStays
<1> QED BY <1>1, <1>2, <1>3, PTL DEF Spec

\* Without snapshots, or as long as one table has room for all that is
\* written, entries never hop across levels: what Version::Get relies on when
\* it stops at the first level it finds a key in.
THEOREM NewerAboveAlways ==
    ASSUME \A d \in Loads : NothingToCut(d)
    PROVE  Spec => []NewerAbove
BY NothingIsEverCut, NewerAboveUnlessCut, PTL

-----------------------------------------------------------------------------
(***************************************************************************)
(* What a reader sees                                                      *)
(***************************************************************************)
\* What a read of E would answer that looks at every entry.
Newest(E, k, s) ==
    LET e == FirstOf(Visible(E, k, s))
    IN IF Visible(E, k, s) = {} \/ e.type = "deletion" THEN 0 ELSE e.seq

IsNewest(E, k, s, e) == e \in Visible(E, k, s) /\ \A d \in Visible(E, k, s) : d.seq <= e.seq

LEMMA NewestIsFirst ==
    ASSUME NEW E \in SUBSET Record, Distinct(E), NEW k, NEW s, NEW e, IsNewest(E, k, s, e)
    PROVE  /\ FirstOf(Visible(E, k, s)) = e
           /\ Newest(E, k, s) = IF e.type = "deletion" THEN 0 ELSE e.seq
<1> DEFINE V == Visible(E, k, s)
<1>1. e \in V /\ V \in SUBSET Record /\ Distinct(V) /\ \A d \in V : d.key = k
  BY DEF IsNewest, Visible, Distinct
<1>2. \A d \in V : d = e \/ Before(e, d)
  <2> SUFFICES ASSUME NEW d \in V, d # e PROVE Before(e, d)
    OBVIOUS
  <2>1. d.seq <= e.seq
    BY DEF IsNewest
  <2>2. d.seq # e.seq /\ d.seq \in Nat /\ e.seq \in Nat
    BY <1>1 DEF Distinct, Record
  <2>3. d.key = e.key
    BY <1>1
  <2> HIDE DEF V
  <2> QED BY <2>1, <2>2, <2>3 DEF Before
<1> HIDE DEF V
<1>3. FirstOf(V) \in V /\ \A d \in V : d = FirstOf(V) \/ Before(FirstOf(V), d)
  BY <1>1, <1>2, Zenon DEF FirstOf
<1>4. FirstOf(V) = e
  <2>1. ~(Before(FirstOf(V), e) /\ Before(e, FirstOf(V)))
    BY <1>1, <1>3, BeforeIsOrder
  <2> QED BY <1>1, <1>2, <1>3, <2>1
<1>5. V # {}
  BY <1>1
<1> QED BY <1>4, <1>5 DEF Newest, V

LEMMA NoneIsNewest ==
    ASSUME NEW E, NEW k, NEW s, Visible(E, k, s) = {}
    PROVE  Newest(E, k, s) = 0
BY DEF Newest

LEMMA HasNewest ==
    ASSUME NEW E \in SUBSET Record, Distinct(E), IsFiniteSet(E), NEW k, NEW s, Visible(E, k, s) # {}
    PROVE  \E e \in E : IsNewest(E, k, s, e)
<1> DEFINE V == Visible(E, k, s)
<1>1. V \in SUBSET Record /\ Distinct(V) /\ V \subseteq E /\ V # {} /\ \A d \in V : d.key = k
  BY DEF Visible, Distinct
<1>2. IsFiniteSet(V)
  BY <1>1, FS_Subset
<1> HIDE DEF V
<1>3. FirstOf(V) \in V /\ \A d \in V : d = FirstOf(V) \/ Before(FirstOf(V), d)
  BY <1>1, <1>2, FirstOfIsFirst
<1>4. \A d \in V : d.key \in Nat /\ d.seq \in Nat
  BY <1>1, LsmTreeAssumption DEF Record
<1>5. \A d \in V : d.seq <= FirstOf(V).seq
  BY <1>1, <1>3, <1>4 DEF Before
<1> QED BY <1>1, <1>3, <1>5 DEF IsNewest, V

\* A read of some of the entries answers the same if they have the newest.
LEMMA SameNewest ==
    ASSUME NEW E \in SUBSET Record, Distinct(E), IsFiniteSet(E), NEW k, NEW s,
           NEW R \in SUBSET E, \A e \in E : IsNewest(E, k, s, e) => e \in R
    PROVE  Newest(R, k, s) = Newest(E, k, s)
<1>1. CASE Visible(E, k, s) = {}
  <2>1. Visible(R, k, s) = {}
    BY <1>1 DEF Visible
  <2> QED BY <1>1, <2>1, NoneIsNewest
<1>2. CASE Visible(E, k, s) # {}
  <2>1. PICK e \in R : IsNewest(E, k, s, e)
    BY <1>2, HasNewest
  <2>2. IsNewest(R, k, s, e)
    BY <2>1 DEF IsNewest, Visible
  <2>3. R \in SUBSET Record /\ Distinct(R)
    BY DEF Distinct
  <2> QED BY <2>1, <2>2, <2>3, NewestIsFirst
<1> QED BY <1>1, <1>2

\* In a level whose files share no key FindFile leads to the one that has it.
LEMMA FileIsFound ==
    ASSUME FilesOK(files, nextFile), Disjoint(files), NoSplit(files),
           NEW l \in Levels \ {0}, NEW f \in files[l],
           NEW k, NEW s \in Nat, NEW e \in Visible(f.entries, k, s)
    PROVE  f \in FindFile(files[l], k, s)
<1> DEFINE at == [key |-> k, seq |-> s]
<1>1. e \in f.entries /\ e.key = k /\ e.seq <= s
  BY DEF Visible
<1>2. GoodFiles(files[l]) /\ GoodFile(f)
  BY DEF FilesOK, GoodFiles
<1>3. e \in Record /\ k \in Nat /\ e.seq \in Nat
  BY <1>1, <1>2, LsmTreeAssumption DEF GoodFile, Record
<1>4. /\ f.smallest.key \in Nat /\ f.largest.key \in Nat
      /\ f.smallest.key <= k /\ k <= f.largest.key
  BY <1>1, <1>2, KeysOfFile, LsmTreeAssumption
<1>5. ~Before(f.largest, at)
  <2>1. f.largest.seq \in Nat
    BY <1>2 DEF GoodFile, Record
  <2>2. e = f.largest \/ Before(e, f.largest)
    BY <1>1, <1>2 DEF GoodFile
  <2> QED BY <1>1, <1>3, <1>4, <2>1, <2>2 DEF Before
<1>6. ASSUME NEW g \in files[l], ~Before(g.largest, at), Before(g.largest, f.largest) PROVE FALSE
  <2>1. GoodFile(g)
    BY <1>2 DEF GoodFiles
  <2>2. /\ g.largest \in Record /\ g.smallest \in Record /\ f.largest \in Record /\ f.smallest \in Record
        /\ g.largest \in g.entries
    BY <1>2, <2>1 DEF GoodFile
  <2>3. f # g
    BY <1>6, <2>2, BeforeIsTransitive
  <2>4. ~Before(f.largest, g.smallest)
    <3>1. g.smallest = g.largest \/ Before(g.smallest, g.largest)
      BY <2>1 DEF GoodFile
    <3>2. Before(g.smallest, f.largest)
      BY <1>6, <2>2, <3>1, BeforeIsTransitive
    <3> QED BY <2>2, <3>2, BeforeIsTransitive
  <2>5. Before(g.largest, f.smallest)
    BY <2>3, <2>4 DEF Disjoint
  <2>6. g.largest.key \in Nat /\ g.largest.seq \in Nat /\ f.smallest.seq \in Nat
    BY <2>2, LsmTreeAssumption DEF Record
  <2>7. g.largest.key = k
    BY <1>3, <1>4, <1>6, <2>5, <2>6 DEF Before
  <2> QED BY <1>1, <2>2, <2>3, <2>7 DEF NoSplit
<1> HIDE DEF at
<1> QED BY <1>4, <1>5, <1>6 DEF FindFile, at

\* Of two tables of level 0 the one with the larger number is the newer one.
Level0InOrder ==
    \A f, g \in files[0] :
        \/ f = g
        \/ /\ f.number # g.number
           /\ f.number < g.number => \A a \in f.entries, b \in g.entries : a.seq < b.seq

Stored == mem \cup imm \cup InFiles(files)

\* Version::Get looks into no more files than it has to: it comes to the
\* newest entry all the same.
LEMMA FoundHasNewest ==
    ASSUME FilesOK(files, nextFile), Disjoint(files), Newer(files), NoSplit(files), Level0InOrder,
           Distinct(InFiles(files)), NEW k, NEW s \in Nat,
           NEW R, R = UNION {f.entries : f \in FoundIn(files, k, s)}
    PROVE  /\ R \subseteq InFiles(files)
           /\ \A e \in InFiles(files) : IsNewest(InFiles(files), k, s, e) => e \in R
<1> DEFINE level0 == {f \in files[0] : Hit(f, k, s)}
           deeper == {l \in Levels \ {0} : \E f \in FindFile(files[l], k, s) : Hit(f, k, s)}
<1>1. FoundIn(files, k, s) = IF level0 # {} THEN NewestFirst(level0)
                             ELSE IF deeper # {} THEN FindFile(files[Min(deeper)], k, s)
                             ELSE {}
  BY Zenon DEF FoundIn
<1>2. 0 \in Levels /\ Levels \in SUBSET Nat
  BY LsmTreeAssumption DEF Levels
<1>3. deeper # {} => Min(deeper) \in deeper /\ \A l \in deeper : Min(deeper) <= l
  <2>1. deeper \in SUBSET Nat
    BY <1>2
  <2> HIDE DEF deeper
  <2> QED BY <2>1, MinOfNats
<1>4. \A l \in Levels : \A f \in files[l] : f.entries \subseteq InFiles(files) /\ GoodFile(f)
  BY DEF FilesOK, GoodFiles, GoodFile, InFiles
<1>5. R \subseteq InFiles(files)
  <2>1. \A f \in FoundIn(files, k, s) : \E l \in Levels : f \in files[l]
    <3>1. CASE level0 # {}
      BY <1>1, <1>2, <3>1 DEF NewestFirst
    <3>2. CASE level0 = {} /\ deeper # {}
      <4>1. Min(deeper) \in Levels
        BY <1>3, <3>2
      <4> HIDE DEF deeper
      <4> QED BY <1>1, <3>2, <4>1 DEF FindFile
    <3>3. CASE level0 = {} /\ deeper = {}
      BY <1>1, <3>3
    <3> QED BY <3>1, <3>2, <3>3
  <2> QED BY <1>4, <2>1
<1>6. ASSUME NEW e \in InFiles(files), IsNewest(InFiles(files), k, s, e) PROVE e \in R
  <2> PICK l \in Levels : \E f \in files[l] : e \in f.entries
    BY DEF InFiles
  <2>1. PICK f \in files[l] : e \in f.entries
    OBVIOUS
  <2>2. e.key = k /\ e.seq <= s /\ e \in Visible(f.entries, k, s) /\ Hit(f, k, s)
    BY <1>6, <2>1 DEF IsNewest, Visible, Hit
  <2>3. ASSUME NEW m \in Levels, NEW g \in files[m], NEW d \in Visible(g.entries, k, s)
        PROVE  /\ d.seq <= e.seq /\ d.key = k /\ d \in g.entries
               /\ d.seq \in Nat /\ e.seq \in Nat
    <3>1. d \in Visible(InFiles(files), k, s) /\ d.key = k /\ d \in g.entries
      BY <1>4, <2>3 DEF Visible
    <3>2. d.seq <= e.seq
      BY <1>6, <3>1 DEF IsNewest
    <3>3. d \in Record /\ e \in Record
      BY <1>4, <3>1 DEF InFiles
    <3> QED BY <3>1, <3>2, <3>3 DEF Record
  <2>4. CASE l = 0
    <3>1. f \in level0
      BY <2>1, <2>2, <2>4
    <3>2. ASSUME NEW g \in level0 PROVE f.number >= g.number
      <4>1. PICK d \in Visible(g.entries, k, s) : TRUE
        BY DEF Hit
      <4>2. d.seq <= e.seq /\ d \in g.entries /\ d.seq \in Nat /\ e.seq \in Nat
        BY <1>2, <2>3, <4>1
      <4>3. ~(f.number < g.number)
        <5>1. SUFFICES ASSUME f.number < g.number PROVE FALSE
          OBVIOUS
        <5>2. f # g
          <6>1. f.number \in Nat
            BY <1>2, <2>1 DEF FilesOK
          <6> QED BY <5>1, <6>1
        <5>3. e.seq < d.seq
          BY <2>1, <2>4, <4>2, <5>1, <5>2 DEF Level0InOrder
        <5> QED BY <4>2, <5>3
      <4>4. f.number \in Nat /\ g.number \in Nat
        BY <1>2, <2>1 DEF FilesOK
      <4> QED BY <4>3, <4>4
    <3>3. f \in NewestFirst(level0)
      BY <3>1, <3>2 DEF NewestFirst
    <3>4. f \in FoundIn(files, k, s)
      BY <1>1, <3>1, <3>3
    <3> QED BY <2>1, <3>4
  <2>5. CASE l # 0
    <3>1. ASSUME NEW m \in Levels, m < l, NEW g \in files[m], Hit(g, k, s) PROVE FALSE
      <4>1. PICK d \in Visible(g.entries, k, s) : TRUE
        BY <3>1 DEF Hit
      <4>2. d.seq <= e.seq /\ d.key = k /\ d \in g.entries /\ d.seq \in Nat /\ e.seq \in Nat
        BY <2>3, <4>1
      <4>3. d.seq > e.seq
        BY <2>1, <2>2, <3>1, <4>2 DEF Newer
      <4> QED BY <4>2, <4>3
    <3>2. level0 = {}
      BY <1>2, <2>5, <3>1
    <3>3. f \in FindFile(files[l], k, s)
      BY <2>1, <2>2, <2>5, FileIsFound
    <3>4. l \in deeper
      BY <2>1, <2>2, <2>5, <3>3
    <3>5. Min(deeper) = l
      <4>1. Min(deeper) \in deeper /\ Min(deeper) <= l
        BY <1>3, <3>4
      <4>2. PICK g \in FindFile(files[Min(deeper)], k, s) : Hit(g, k, s)
        BY <4>1
      <4>3. Min(deeper) \in Levels /\ g \in files[Min(deeper)]
        BY <4>1, <4>2 DEF FindFile
      <4> HIDE DEF deeper
      <4>4. ~(Min(deeper) < l)
        BY <3>1, <4>2, <4>3
      <4> QED BY <1>2, <4>1, <4>3, <4>4
    <3>6. f \in FoundIn(files, k, s)
      BY <1>1, <3>2, <3>3, <3>4, <3>5
    <3> QED BY <2>1, <3>6
  <2> QED BY <2>4, <2>5
<1> QED BY <1>5, <1>6

\* What a read answers depends on what is stored, and not on where it is.
ReadsNewest == \A k \in Keys, s \in Nat : Get(k, s) = Newest(Stored, k, s)

LEMMA GetIsNewest == NewerInv /\ Level0InOrder => ReadsNewest
<1> SUFFICES ASSUME NewerInv, Level0InOrder, NEW k \in Keys, NEW s \in Nat
             PROVE  Get(k, s) = Newest(Stored, k, s)
  BY DEF ReadsNewest
<1> DEFINE F == InFiles(files)
           found == UNION {f.entries : f \in FoundIn(files, k, s)}
           R == IF Visible(mem, k, s) # {} THEN mem
                ELSE IF Visible(imm, k, s) # {} THEN imm ELSE found
<1>1. Get(k, s) = Newest(R, k, s)
  BY Zenon DEF Get, Newest
<1>2. /\ FilesOK(files, nextFile) /\ Disjoint(files) /\ Newer(files) /\ NoSplit(files)
      /\ SeqOK(mem, imm, files, lastSeq) /\ lastSeq \in Nat
  BY DEF NewerInv, TreeInv
<1>3. Stored \in SUBSET Record /\ Distinct(Stored) /\ IsFiniteSet(Stored)
  BY <1>2, StoredIsFinite DEF Stored
<1>4. Distinct(F) /\ F \subseteq Stored
  BY <1>3 DEF Distinct, Stored
<1>5. /\ found \subseteq F
      /\ \A e \in F : IsNewest(F, k, s, e) => e \in found
  <2> HIDE DEF found, F
  <2>1. found = UNION {f.entries : f \in FoundIn(files, k, s)}
    BY DEF found
  <2> QED BY <1>2, <1>4, <2>1, FoundHasNewest DEF F
<1> HIDE DEF found, F
<1>6. mem \subseteq Stored /\ imm \subseteq Stored /\ Stored = mem \cup imm \cup F
  BY DEF Stored, F
<1>7. R \subseteq Stored
  BY <1>4, <1>5, <1>6
<1>8. ASSUME NEW e \in Stored, IsNewest(Stored, k, s, e) PROVE e \in R
  <2>1. /\ \A a \in mem, b \in imm \cup F : a.seq > b.seq
        /\ \A a \in imm, b \in F : a.seq > b.seq
    BY <1>2 DEF SeqOK, F
  <2>2. \A a \in Stored : a.seq \in Nat
    BY <1>3 DEF Record
  <2>3. e \in Visible(Stored, k, s)
    BY <1>8 DEF IsNewest
  <2>4. ASSUME NEW a \in Stored, a \in Visible(mem, k, s) \/ a \in Visible(imm, k, s)
        PROVE  a.seq <= e.seq /\ a.seq \in Nat /\ e.seq \in Nat
    BY <1>6, <1>8, <2>2, <2>4 DEF IsNewest, Visible
  <2>5. CASE Visible(mem, k, s) # {}
    <3>1. PICK a \in Visible(mem, k, s) : TRUE
      BY <2>5
    <3>2. a \in mem
      BY DEF Visible
    <3>3. a.seq <= e.seq /\ a.seq \in Nat /\ e.seq \in Nat
      BY <1>6, <2>4, <3>2
    <3>4. e \in mem
      BY <1>6, <2>1, <3>2, <3>3
    <3> QED BY <2>5, <3>4
  <2>6. CASE Visible(mem, k, s) = {} /\ Visible(imm, k, s) # {}
    <3>1. e \notin mem
      BY <2>3, <2>6 DEF Visible
    <3>2. PICK a \in Visible(imm, k, s) : TRUE
      BY <2>6
    <3>3. a \in imm
      BY DEF Visible
    <3>4. a.seq <= e.seq /\ a.seq \in Nat /\ e.seq \in Nat
      BY <1>6, <2>4, <3>3
    <3>5. e \in imm
      BY <1>6, <2>1, <3>1, <3>3, <3>4
    <3> QED BY <2>6, <3>5
  <2>7. CASE Visible(mem, k, s) = {} /\ Visible(imm, k, s) = {}
    <3>1. e \in F
      BY <1>6, <2>3, <2>7 DEF Visible
    <3>2. IsNewest(F, k, s, e)
      BY <1>4, <1>8, <3>1 DEF IsNewest, Visible
    <3> QED BY <1>5, <2>7, <3>1, <3>2
  <2> QED BY <2>5, <2>6, <2>7
<1> HIDE DEF R
<1>9. Newest(R, k, s) = Newest(Stored, k, s)
  BY <1>3, <1>7, <1>8, SameNewest
<1> QED BY <1>1, <1>9

\* A merge has begun at a sequence number nobody reads before, and what has
\* come to the deeper levels since is newer than what it merges.
BegunBefore ==
    compaction # NoCompaction =>
        /\ compaction.smallestSnapshot \in Nat
        /\ \A s \in snapshots \cup {lastSeq} : compaction.smallestSnapshot <= s
        /\ \A l \in Levels : l >= compaction.level + 2 =>
              \A f \in files[l] \ compaction.version[l] :
                  \A a \in f.entries, e \in Merged(compaction) : a.seq > e.seq

\* The file f of level l stays when c is installed.
Stays(c, l, f) == (l = c.level => f \notin c.inputs) /\ (l = c.level + 1 => f \notin c.parents)

\* Where the deeper levels have nothing of a key, what stays of it is no older
\* than what is merged.
LEMMA WhatStaysIsNotOlder ==
    ASSUME NewerInv, BegunBefore, compaction # NoCompaction,
           NEW e \in Merged(compaction), IsBaseLevelForKey(compaction, e.key),
           NEW l \in Levels, NEW f \in files[l], Stays(compaction, l, f),
           NEW d \in f.entries, d.key = e.key
    PROVE  ~(d.seq < e.seq)
<1> DEFINE c == compaction
<1>1. /\ FilesOK(files, nextFile) /\ Fits(files, c) /\ Newer(files) /\ NoSplit(files)
      /\ OthersNewer(files, c)
  BY DEF NewerInv, TreeInv, CompactionOK
<1>2. /\ c.level \in Levels /\ c.level + 1 \in Levels /\ c.level + 1 # 0 /\ c.level \in Nat
      /\ c.inputs \subseteq files[c.level] /\ c.parents \subseteq files[c.level + 1]
  BY <1>1, CompactionLevels DEF Fits
<1>3. GoodFile(f) /\ GoodFiles(c.inputs) /\ GoodFiles(c.parents)
  BY <1>1, MergedIsInFiles DEF FilesOK, GoodFiles
<1>4. PICK h \in c.inputs \cup c.parents : e \in h.entries
  BY DEF Merged
<1>5. GoodFile(h)
  BY <1>3 DEF GoodFiles
<1>6. /\ d.seq \in Nat /\ e.seq \in Nat /\ d.key \in Nat
      /\ f.smallest.key \in Nat /\ f.largest.key \in Nat
      /\ f.smallest.key <= d.key /\ d.key <= f.largest.key
      /\ h.smallest.key \in Nat /\ h.largest.key \in Nat
      /\ h.smallest.key <= e.key /\ e.key <= h.largest.key
  <2>1. d \in Record /\ e \in Record
    BY <1>3, <1>4, <1>5 DEF GoodFile
  <2> QED BY <1>3, <1>4, <1>5, <2>1, KeysOfFile, LsmTreeAssumption DEF Record
<1>7. l \in Nat
  BY DEF Levels
<1>8. CASE l < c.level
  <2>1. h \in files[c.level] \/ h \in files[c.level + 1]
    BY <1>2
  <2>2. d.seq > e.seq
    <3>1. CASE h \in files[c.level]
      BY <1>1, <1>2, <1>4, <1>8, <3>1 DEF Newer
    <3>2. CASE h \in files[c.level + 1]
      <4>1. l < c.level + 1
        BY <1>2, <1>7, <1>8
      <4> QED BY <1>1, <1>2, <1>4, <3>2, <4>1 DEF Newer
    <3> QED BY <2>1, <3>1, <3>2
  <2> QED BY <1>6, <2>2
<1>9. CASE l = c.level
  <2>1. CASE h \in c.inputs
    <3>1. f \in files[c.level] \ c.inputs
      BY <1>9 DEF Stays
    <3>2. d.seq > e.seq
      BY <1>1, <1>4, <2>1, <3>1 DEF OthersNewer
    <3> QED BY <1>6, <3>2
  <2>2. CASE h \in c.parents
    <3>1. l < c.level + 1 /\ h \in files[c.level + 1]
      BY <1>2, <1>9, <2>2
    <3>2. d.seq > e.seq
      BY <1>1, <1>2, <1>4, <3>1 DEF Newer
    <3> QED BY <1>6, <3>2
  <2> QED BY <2>1, <2>2
<1>10. CASE l = c.level + 1
  <2>1. f \in files[c.level + 1] /\ f \notin c.parents
    BY <1>10 DEF Stays
  <2>2. CASE h \in c.parents
    <3>1. h \in files[c.level + 1] /\ f # h
      BY <1>2, <2>1, <2>2
    <3>2. d.key # e.key
      BY <1>1, <1>2, <1>4, <2>1, <3>1 DEF NoSplit
    <3> QED BY <3>2
  <2>3. CASE h \in c.inputs
    <3> DEFINE lo == LowestKey(c.inputs)
               hi == HighestKey(c.inputs)
    <3>1. ~Overlaps(f, lo, hi)
      BY <1>1, <2>1 DEF Fits
    <3>2. lo \in Nat /\ hi \in Nat /\ lo <= h.smallest.key /\ h.largest.key <= hi
      BY <1>3, <2>3, HullOfFiles, LsmTreeAssumption
    <3> HIDE DEF lo, hi
    <3> QED BY <1>6, <3>1, <3>2 DEF Overlaps
  <2> QED BY <2>2, <2>3
<1>11. CASE l >= c.level + 2
  <2>1. CASE f \in c.version[l]
    <3>1. l \in (c.level + 2)..(NumLevels - 1)
      BY <1>2, <1>7, <1>11, LsmTreeAssumption DEF Levels
    <3>2. ~Overlaps(f, e.key, e.key)
      BY <2>1, <3>1 DEF IsBaseLevelForKey, OverlapInLevel
    <3> QED BY <1>6, <3>2 DEF Overlaps
  <2>2. CASE f \notin c.version[l]
    <3>1. d.seq > e.seq
      BY <1>11, <2>2 DEF BegunBefore
    <3> QED BY <1>6, <3>1
  <2> QED BY <2>1, <2>2
<1>12. l < c.level \/ l = c.level \/ l = c.level + 1 \/ l >= c.level + 2
  BY <1>2, <1>7
<1> QED BY <1>8, <1>9, <1>10, <1>11, <1>12

LEMMA InstallKeepsNewest ==
    ASSUME NewerInv, BegunBefore, Install, NEW k \in Keys, NEW s \in snapshots \cup {lastSeq}
    PROVE  Newest(Stored', k, s) = Newest(Stored, k, s)
<1> DEFINE c == compaction
           srt == Sorted(Merged(c))
           tables == TablesOf(c, nextFile)
           kept == Kept(c, srt, Len(srt))
           old == Stored
           new == Stored'
<1>1. /\ c # NoCompaction /\ Fits(files, c) /\ Merged(c) \subseteq InFiles(files)
      /\ files' = Replaced(files, c, tables)
      /\ GoodFiles(tables)
  BY InstallIsReplaced DEF NewerInv, CompactionOK, TablesOK
<1>2. mem' = mem /\ imm' = imm
  BY DEF Install
<1>3. /\ FilesOK(files, nextFile) /\ SeqOK(mem, imm, files, lastSeq)
      /\ lastSeq \in Nat /\ lastSeq <= load.writes /\ load.writes \in Nat
      /\ nextFile \in Nat
  BY LoadTypes DEF NewerInv, TreeInv
<1>4. old \in SUBSET Record /\ Distinct(old) /\ IsFiniteSet(old)
  BY <1>3, StoredIsFinite DEF Stored
<1>5. Merged(c) \in SUBSET Record /\ Distinct(Merged(c)) /\ IsFiniteSet(Merged(c))
  BY <1>1, <1>3, StoredIsFinite
<1>6. /\ srt \in Seq(Record) /\ Increasing(srt) /\ Len(srt) \in Nat
      /\ {srt[m] : m \in 1..Len(srt)} = Merged(c)
      /\ Entries(Outputs(c)) = kept
      /\ kept \subseteq Merged(c)
  BY <1>5, OutputsInOrder
<1>7. UNION {t.entries : t \in tables} = kept
  BY <1>3, <1>5, <1>6, InstalledTables
<1>8. /\ c.level \in Levels /\ c.level + 1 \in Levels /\ c.level # c.level + 1
  BY <1>1, CompactionLevels
<1>9. /\ files'[c.level] = files[c.level] \ c.inputs
      /\ files'[c.level + 1] = (files[c.level + 1] \ c.parents) \cup tables
      /\ \A l \in Levels \ {c.level, c.level + 1} : files'[l] = files[l]
  BY <1>1, <1>3, ReplacedLevels
<1> HIDE DEF c, srt, tables, kept
<1>10. /\ \A l \in Levels : \A f \in files[l] : Stays(c, l, f) => f \in files'[l]
       /\ \A l \in Levels : \A f \in files'[l] : (f \in files[l] /\ Stays(c, l, f)) \/ f \in tables
  BY <1>8, <1>9 DEF Stays
<1>11. ASSUME NEW e \in old, e \notin new PROVE e \in Merged(c) /\ e \notin kept
  <2>1. e \in InFiles(files) /\ e \notin InFiles(files') /\ e \in Record
    BY <1>2, <1>4, <1>11 DEF Stored
  <2>2. PICK l \in Levels : \E f \in files[l] : e \in f.entries
    BY <2>1 DEF InFiles
  <2>3. PICK f \in files[l] : e \in f.entries
    BY <2>2
  <2>4. ~Stays(c, l, f)
    BY <1>10, <2>1, <2>3 DEF InFiles
  <2>5. e \in Merged(c)
    BY <2>3, <2>4 DEF Stays, Merged
  <2>6. ASSUME e \in kept PROVE FALSE
    <3>1. PICK t \in tables : e \in t.entries
      BY <1>7, <2>6
    <3>2. t \in files'[c.level + 1]
      BY <1>9
    <3> QED BY <1>8, <2>1, <3>1, <3>2 DEF InFiles
  <2> QED BY <2>5, <2>6
<1>12. ASSUME NEW d \in new
       PROVE  \/ d \in mem \/ d \in imm \/ d \in kept
              \/ \E l \in Levels : \E f \in files[l] : Stays(c, l, f) /\ d \in f.entries
  <2>1. CASE d \in InFiles(files')
    <3>1. PICK l \in Levels : \E f \in files'[l] : d \in f.entries
      BY <2>1 DEF InFiles
    <3>2. PICK f \in files'[l] : d \in f.entries
      BY <3>1
    <3> QED BY <1>7, <1>10, <3>2
  <2> QED BY <1>2, <2>1 DEF Stored
<1>13. new \subseteq old
  <2>1. \A l \in Levels : \A f \in files[l] : f.entries \subseteq InFiles(files)
    BY <1>3 DEF FilesOK, GoodFiles, GoodFile, InFiles
  <2>2. kept \subseteq InFiles(files)
    BY <1>1, <1>6
  <2>3. old = mem \cup imm \cup InFiles(files)
    BY DEF Stored
  <2> HIDE DEF new, old
  <2> QED BY <1>12, <2>1, <2>2, <2>3
<1>14. /\ c.smallestSnapshot \in Nat /\ c.smallestSnapshot <= s /\ c.smallestSnapshot <= lastSeq
       /\ s \in Nat
  <2>1. s \in Nat
    BY <1>3 DEF NewerInv, TreeInv
  <2> QED BY <1>1, <2>1 DEF BegunBefore, c
<1> HIDE DEF new, old
<1>15. CASE Visible(old, k, s) = {}
  <2>1. Visible(new, k, s) = {}
    BY <1>13, <1>15 DEF Visible
  <2> QED BY <1>15, <2>1, NoneIsNewest DEF new, old
<1>16. CASE Visible(old, k, s) # {}
  <2>1. PICK e \in old : IsNewest(old, k, s, e)
    BY <1>4, <1>16, HasNewest
  <2>2. /\ e.key = k /\ e.seq <= s /\ e.seq \in Nat
        /\ \A d \in old : d.key = k /\ d.seq <= s => d.seq <= e.seq /\ d.seq \in Nat
    BY <1>4, <2>1 DEF IsNewest, Visible, Record
  <2>3. CASE e \in new
    <3>1. IsNewest(new, k, s, e)
      BY <1>13, <2>1, <2>3 DEF IsNewest, Visible
    <3>2. new \in SUBSET Record /\ Distinct(new)
      BY <1>4, <1>13 DEF Distinct
    <3>3. Newest(new, k, s) = Newest(old, k, s)
      BY <1>4, <2>1, <3>1, <3>2, NewestIsFirst
    <3> QED BY <3>3 DEF new, old
  <2>4. CASE e \notin new
    <3>1. e \in Merged(c) /\ e \notin kept
      BY <1>11, <2>4
    <3>2. PICK i \in 1..Len(srt) : e = srt[i]
      BY <1>6, <3>1
    <3>3. Gone(c, srt, i)
      BY <3>1, <3>2 DEF kept, Kept
    <3>4. \A j \in 1..Len(srt) : srt[j] \in Merged(c) /\ srt[j] \in Record /\ srt[j] \in old
      BY <1>1, <1>5, <1>6 DEF Stored, old
    <3>5. \A j \in 1..Len(srt) : srt[j].key \in Nat /\ srt[j].seq \in Nat
      BY <3>4, LsmTreeAssumption DEF Record
    <3>6. ~(i > 1 /\ srt[i - 1].key = srt[i].key /\ srt[i - 1].seq <= c.smallestSnapshot)
      <4>1. SUFFICES ASSUME i > 1, srt[i - 1].key = srt[i].key, srt[i - 1].seq <= c.smallestSnapshot
                     PROVE  FALSE
        OBVIOUS
      <4>2. i - 1 \in 1..Len(srt) /\ i - 1 < i
        BY <1>6, <4>1
      <4>3. Before(srt[i - 1], srt[i])
        BY <1>6, <4>2 DEF Increasing
      <4>4. srt[i - 1].seq > e.seq
        BY <3>2, <3>5, <4>1, <4>2, <4>3 DEF Before
      <4>5. srt[i - 1].seq <= s /\ srt[i - 1].seq \in Nat /\ srt[i - 1] \in old
        BY <1>14, <3>4, <3>5, <4>1, <4>2
      <4> QED BY <2>2, <3>2, <4>1, <4>4, <4>5
    <3>7. /\ e.type = "deletion" /\ e.seq <= c.smallestSnapshot /\ IsBaseLevelForKey(c, e.key)
      <4>1. ~(load.writes + 1 <= c.smallestSnapshot)
        BY <1>3, <1>14
      <4> QED BY <3>2, <3>3, <3>6, <4>1 DEF Gone, Drop
    <3>8. Visible(new, k, s) = {}
      <4>1. SUFFICES ASSUME NEW d \in new, d.key = k, d.seq <= s PROVE FALSE
        BY DEF Visible
      <4>2. d \in old /\ d.seq \in Nat /\ d.seq <= e.seq /\ d # e
        BY <1>13, <2>2, <2>4, <4>1
      <4>3. d.seq < e.seq
        BY <1>4, <2>2, <4>2 DEF Distinct
      <4>4. d \notin mem /\ d \notin imm
        <5>1. e \in InFiles(files)
          BY <1>1, <3>1
        <5>2. \A a \in mem \cup imm : a.seq > e.seq
          BY <1>3, <5>1 DEF SeqOK
        <5> QED BY <2>2, <4>2, <4>3, <5>2
      <4>5. ~\E l \in Levels : \E f \in files[l] : Stays(c, l, f) /\ d \in f.entries
        BY <1>1, <2>2, <3>1, <3>7, <4>1, <4>3, WhatStaysIsNotOlder DEF c
      <4>6. d \in kept
        BY <1>12, <4>4, <4>5
      <4>7. PICK j \in 1..Len(srt) : d = srt[j] /\ ~Gone(c, srt, j)
        BY <4>6 DEF kept, Kept
      <4>8. i < j
        <5>1. ~(j < i)
          <6>1. SUFFICES ASSUME j < i PROVE FALSE
            OBVIOUS
          <6>2. Before(d, e)
            BY <1>6, <3>2, <4>7, <6>1 DEF Increasing
          <6> QED BY <2>2, <3>2, <3>5, <4>1, <4>2, <4>3, <4>7, <6>2 DEF Before
        <5>2. i # j
          BY <3>2, <4>2, <4>7
        <5> QED BY <5>1, <5>2
      <4>9. j > 1 /\ j - 1 \in 1..Len(srt) /\ j - 1 < j /\ (i = j - 1 \/ i < j - 1)
        BY <1>6, <4>8
      <4>10. srt[j - 1].key = srt[j].key /\ srt[j - 1].seq <= e.seq
        <5>1. CASE i = j - 1
          BY <2>2, <3>2, <4>1, <4>7, <5>1
        <5>2. CASE i < j - 1
          <6>1. Before(e, srt[j - 1]) /\ Before(srt[j - 1], d)
            BY <1>6, <3>2, <4>7, <4>9, <5>2 DEF Increasing
          <6>2. srt[j - 1].key \in Nat /\ srt[j - 1].seq \in Nat /\ e.key \in Nat
            BY <3>2, <3>5, <4>9
          <6> QED BY <2>2, <4>1, <4>2, <4>7, <6>1, <6>2 DEF Before
        <5> QED BY <4>9, <5>1, <5>2
      <4>11. srt[j - 1].seq <= c.smallestSnapshot
        <5>1. srt[j - 1].seq \in Nat
          BY <3>5, <4>9
        <5> QED BY <1>14, <2>2, <3>7, <4>10, <5>1
      <4> QED BY <4>7, <4>9, <4>10, <4>11, Zenon DEF Gone, Drop
    <3>9. Newest(old, k, s) = 0
      BY <1>4, <2>1, <3>7, NewestIsFirst
    <3> QED BY <3>8, <3>9, NoneIsNewest DEF new, old
  <2> QED BY <2>3, <2>4
<1> QED BY <1>15, <1>16

ReadInv == NewerInv /\ Level0InOrder /\ BegunBefore

LEMMA InitRead == Init => ReadInv
<1> SUFFICES ASSUME Init PROVE ReadInv
  OBVIOUS
<1>1. 0 \in Levels
  BY LsmTreeAssumption DEF Levels
<1>2. files[0] = {} /\ compaction = NoCompaction
  BY <1>1 DEF Init
<1> QED BY <1>2, InitNewer DEF ReadInv, Level0InOrder, BegunBefore

LEMMA FlushRead ==
    ASSUME ReadInv, CompactMemTable
    PROVE  Level0InOrder' /\ BegunBefore'
<1> PICK level \in Levels : \E t :
       /\ GoodFile(t) /\ t.number = nextFile /\ t.entries = imm
       /\ Free(files, level, t)
       /\ files' = Flushed(files, level, t)
  BY FlushIsFlushed DEF ReadInv, NewerInv
<1>1. PICK t : /\ GoodFile(t) /\ t.number = nextFile /\ t.entries = imm
              /\ Free(files, level, t)
              /\ files' = Flushed(files, level, t)
  OBVIOUS
<1>2. /\ FilesOK(files, nextFile) /\ SeqOK(mem, imm, files, lastSeq)
      /\ compaction # NoCompaction => Fits(files, compaction)
      /\ nextFile \in Nat
  BY DEF ReadInv, NewerInv, TreeInv, CompactionOK
<1>3. \A a \in t.entries, b \in InFiles(files) : a.seq > b.seq
  BY <1>1, <1>2 DEF SeqOK
<1>4. \A l \in Levels : \A f \in files'[l] : f \in files[l] \/ f = t
  <2>1. \A l \in Levels : Flushed(files, level, t)[l] = IF l = level THEN files[l] \cup {t} ELSE files[l]
    BY <1>2, FlushedLevels
  <2>2. files' = Flushed(files, level, t)
    BY <1>1
  <2>3. \A l \in Levels : files'[l] \subseteq files[l] \cup {t}
    BY <2>1, <2>2
  <2> QED BY <2>3
<1>5. compaction' = compaction /\ snapshots' = snapshots /\ lastSeq' = lastSeq
  BY DEF CompactMemTable
<1>6. \A l \in Levels : \A f \in files[l] : f.entries \subseteq InFiles(files) /\ f.number < t.number
                                            /\ f.number \in Nat /\ t.number \in Nat
  BY <1>1, <1>2 DEF FilesOK, GoodFiles, GoodFile, InFiles
<1>7. 0 \in Levels
  BY LsmTreeAssumption DEF Levels
<1>8. Level0InOrder'
  <2> SUFFICES ASSUME NEW f \in files'[0], NEW g \in files'[0], f # g
               PROVE  /\ f.number # g.number
                      /\ f.number < g.number => \A a \in f.entries, b \in g.entries : a.seq < b.seq
    BY DEF Level0InOrder
  <2>1. CASE f \in files[0] /\ g \in files[0]
    BY <2>1 DEF ReadInv, Level0InOrder
  <2>2. CASE f \in files[0] /\ g = t
    <3>1. f.entries \subseteq InFiles(files) /\ f.number < t.number /\ f.number \in Nat
      BY <1>6, <1>7, <2>2
    <3>2. ASSUME NEW a \in f.entries, NEW b \in t.entries PROVE a.seq < b.seq
      <4>1. b.seq > a.seq
        BY <1>3, <3>1
      <4>2. a.seq \in Nat /\ b.seq \in Nat
        BY <1>1, <3>1 DEF GoodFile, InFiles, Record
      <4> QED BY <4>1, <4>2
    <3>3. t.number \in Nat
      BY <1>1, <1>2
    <3> QED BY <2>2, <3>1, <3>2, <3>3
  <2>3. CASE f = t /\ g \in files[0]
    <3>1. g.number < t.number /\ g.number \in Nat /\ t.number \in Nat
      BY <1>6, <1>7, <2>3
    <3> QED BY <2>3, <3>1
  <2> QED BY <1>4, <1>7, <2>1, <2>2, <2>3
<1>9. BegunBefore'
  <2> SUFFICES ASSUME compaction # NoCompaction PROVE BegunBefore'
    BY <1>5 DEF BegunBefore
  <2>1. Merged(compaction) \subseteq InFiles(files)
    BY <1>2, MergedIsInFiles
  <2>2. ASSUME NEW l \in Levels, l >= compaction.level + 2,
               NEW f \in files'[l] \ compaction.version[l], NEW a \in f.entries, NEW e \in Merged(compaction)
        PROVE  a.seq > e.seq
    <3>1. CASE f \in files[l]
      BY <2>2, <3>1 DEF ReadInv, BegunBefore
    <3>2. CASE f = t
      BY <1>3, <2>1, <3>2
    <3> QED BY <1>4, <3>1, <3>2
  <2> QED BY <1>5, <2>2 DEF ReadInv, BegunBefore
<1> QED BY <1>8, <1>9

LEMMA BeginRead ==
    ASSUME ReadInv, NEW l \in 0..(NumLevels - 2), SizeCompaction(l) \/ SeekCompaction(l)
    PROVE  /\ Level0InOrder' /\ BegunBefore'
           /\ InFiles(files') = InFiles(files)
<1>1. snapshots' = snapshots /\ lastSeq' = lastSeq
  BY PickIsOfLevel DEF ReadInv, NewerInv
<1>2. PICK f \in files[l] : Begin(Picked(l, f))
  BY PickIsOfLevel DEF ReadInv, NewerInv
<1>3. /\ FilesOK(files, nextFile) /\ nextFile \in Nat /\ Disjoint(files)
      /\ snapshots \in SUBSET (0..lastSeq) /\ lastSeq \in Nat
  BY DEF ReadInv, NewerInv, TreeInv
<1>4. \A m \in Levels : GoodFiles(files[m])
  BY <1>3 DEF FilesOK
<1> DEFINE c == Picked(l, f)
<1>5. c.level = l /\ Fits(files, c)
  BY <1>4, PickedFits
<1> HIDE DEF c
<1>6. CASE IsTrivialMove(c)
  <2>1. /\ files' = Replaced(files, c, c.inputs) /\ compaction' = NoCompaction
    BY <1>2, <1>3, <1>5, <1>6, TrivialMove DEF Begin, c
  <2>2. /\ TablesOK(c, c.inputs, nextFile) /\ c.parents = {}
    BY <1>3, <1>5, <1>6, TrivialMove DEF IsTrivialMove
  <2>3. InFiles(files') \subseteq InFiles(files)
    BY <1>3, <1>5, <2>1, <2>2, ReplacedFilesOK
  <2>4. /\ files'[c.level] = files[c.level] \ c.inputs
        /\ files'[c.level + 1] = files[c.level + 1] \cup c.inputs
        /\ \A m \in Levels \ {c.level, c.level + 1} : files'[m] = files[m]
    <3>1. \A S : S \ c.parents = S
      BY <2>2
    <3> QED BY <1>3, <1>5, <2>1, <3>1, ReplacedLevels
  <2>5. c.level \in Levels /\ c.level + 1 \in Levels /\ c.level + 1 # 0
    BY <1>5, CompactionLevels
  <2>6. InFiles(files) \subseteq InFiles(files')
    <3> SUFFICES ASSUME NEW e \in Record, NEW m \in Levels, NEW g \in files[m], e \in g.entries
                 PROVE  e \in InFiles(files')
      BY DEF InFiles
    <3>1. g \in files'[m] \/ g \in files'[c.level + 1]
      BY <2>4, <2>5
    <3> QED BY <2>5, <3>1 DEF InFiles
  <2>7. files'[0] \subseteq files[0]
    <3>1. 0 \in Levels
      BY LsmTreeAssumption DEF Levels
    <3> QED BY <2>4, <2>5, <3>1
  <2>8. Level0InOrder'
    BY <2>7 DEF ReadInv, Level0InOrder
  <2>9. BegunBefore'
    BY <2>1 DEF BegunBefore
  <2> QED BY <2>3, <2>6, <2>8, <2>9
<1>7. CASE ~IsTrivialMove(c)
  <2>1. /\ files' = files /\ compaction'.version = files
        /\ compaction'.smallestSnapshot = Min(snapshots \cup {lastSeq})
    BY <1>2, <1>7 DEF Begin, c
  <2>2. /\ Min(snapshots \cup {lastSeq}) \in Nat
        /\ \A s \in snapshots \cup {lastSeq} : Min(snapshots \cup {lastSeq}) <= s
    <3>1. (snapshots \cup {lastSeq}) \in SUBSET Nat /\ snapshots \cup {lastSeq} # {}
      BY <1>3
    <3>2. /\ Min(snapshots \cup {lastSeq}) \in snapshots \cup {lastSeq}
          /\ \A s \in snapshots \cup {lastSeq} : Min(snapshots \cup {lastSeq}) <= s
      BY <3>1, MinOfNats
    <3> QED BY <3>1, <3>2
  <2>3. Level0InOrder'
    BY <2>1 DEF ReadInv, Level0InOrder
  <2>4. BegunBefore'
    BY <1>1, <2>1, <2>2 DEF BegunBefore
  <2> QED BY <2>1, <2>3, <2>4
<1> QED BY <1>6, <1>7

LEMMA InstallRead ==
    ASSUME ReadInv, Install
    PROVE  Level0InOrder' /\ BegunBefore'
<1>1. /\ CompactionOK(files, compaction)
      /\ files' = Replaced(files, compaction, TablesOf(compaction, nextFile))
  BY InstallIsReplaced DEF ReadInv, NewerInv
<1>2. FilesOK(files, nextFile)
  BY DEF ReadInv, NewerInv, TreeInv
<1>3. /\ files'[compaction.level] = files[compaction.level] \ compaction.inputs
      /\ \A m \in Levels \ {compaction.level, compaction.level + 1} : files'[m] = files[m]
  BY <1>1, <1>2, ReplacedLevels DEF CompactionOK
<1>4. 0 \in Levels /\ compaction.level + 1 # 0
  BY <1>1, CompactionLevels, LsmTreeAssumption DEF CompactionOK, Levels
<1>5. files'[0] \subseteq files[0]
  BY <1>3, <1>4
<1>6. Level0InOrder'
  BY <1>5 DEF ReadInv, Level0InOrder
<1>7. BegunBefore'
  BY DEF Install, BegunBefore
<1> QED BY <1>6, <1>7

LEMMA ReadStays == ReadInv /\ NoKeyIsCut /\ [Next]_vars => ReadInv'
<1> SUFFICES ASSUME ReadInv, NoKeyIsCut, [Next]_vars PROVE Level0InOrder' /\ BegunBefore'
  BY NewerStays DEF ReadInv
<1>1. ASSUME \/ \E k \in Keys, type \in Types : Write(k, type)
             \/ Switch
             \/ GetSnapshot
             \/ \E s \in snapshots : ReleaseSnapshot(s)
             \/ UNCHANGED vars
      PROVE  Level0InOrder' /\ BegunBefore'
  <2>1. files' = files /\ compaction' = compaction
    BY <1>1 DEF Write, Switch, GetSnapshot, ReleaseSnapshot, vars
  <2>2. lastSeq \in Nat /\ lastSeq' \in Nat /\ lastSeq' >= lastSeq
    BY <1>1 DEF ReadInv, NewerInv, TreeInv, Write, Switch, GetSnapshot, ReleaseSnapshot, vars
  <2>3. snapshots' \subseteq snapshots \cup {lastSeq}
    BY <1>1 DEF Write, Switch, GetSnapshot, ReleaseSnapshot, vars
  <2>4. \A s \in snapshots' \cup {lastSeq'} : s \in snapshots \cup {lastSeq} \/ s = lastSeq'
    BY <2>3
  <2>5. Level0InOrder'
    BY <2>1 DEF ReadInv, Level0InOrder
  <2>6. BegunBefore'
    <3> SUFFICES ASSUME compaction # NoCompaction PROVE BegunBefore'
      BY <2>1 DEF BegunBefore
    <3>1. \A s \in snapshots' \cup {lastSeq'} : compaction.smallestSnapshot <= s
      <4>1. /\ compaction.smallestSnapshot \in Nat
            /\ \A s \in snapshots \cup {lastSeq} : compaction.smallestSnapshot <= s
        BY DEF ReadInv, BegunBefore
      <4>2. compaction.smallestSnapshot <= lastSeq'
        BY <2>2, <4>1
      <4> QED BY <2>4, <4>1, <4>2
    <3> QED BY <2>1, <3>1 DEF ReadInv, BegunBefore
  <2> QED BY <2>5, <2>6
<1>2. CASE CompactMemTable
  BY <1>2, FlushRead
<1>3. CASE \E l \in 0..(NumLevels - 2) : SizeCompaction(l) \/ SeekCompaction(l)
  BY <1>3, BeginRead
<1>4. CASE Install
  BY <1>4, InstallRead
<1> QED BY <1>1, <1>2, <1>3, <1>4 DEF Next, BackgroundStep

-----------------------------------------------------------------------------
(***************************************************************************)
(* The tree implements a map with snapshots                                *)
(***************************************************************************)
LEMMA ReadsAlways == ReadInv => ReadsNewest
BY GetIsNewest DEF ReadInv

LEMMA ReadsNext == ReadInv' => ReadsNewest'
BY ReadsAlways, PTL

LEMMA ReadersAreNumbers ==
    ASSUME TreeInv, NEW s \in snapshots \cup {lastSeq}
    PROVE  s \in Nat /\ s <= lastSeq
BY DEF TreeInv

LEMMA ViewStays ==
    ASSUME TreeInv, ReadsNewest, ReadsNewest', snapshots' = snapshots, lastSeq' = lastSeq,
           \A k \in Keys, s \in snapshots \cup {lastSeq} : Newest(Stored', k, s) = Newest(Stored, k, s)
    PROVE  UNCHANGED Store!storeVars
<1>1. ASSUME NEW k \in Keys, NEW s \in snapshots \cup {lastSeq} PROVE Get(k, s)' = Get(k, s)
  <2>1. s \in Nat
    BY ReadersAreNumbers
  <2>2. Get(k, s)' = Newest(Stored', k, s)
    BY <2>1 DEF ReadsNewest
  <2>3. Get(k, s) = Newest(Stored, k, s)
    BY <2>1 DEF ReadsNewest
  <2> QED BY <2>2, <2>3
<1> QED BY <1>1 DEF Store!storeVars

LEMMA StoreInit == Init => Store!Init
<1> SUFFICES ASSUME Init PROVE Store!Init
  OBVIOUS
<1>1. ReadsNewest
  BY InitRead, ReadsAlways
<1>2. Stored = {}
  <2>1. InFiles(files) = {}
    BY DEF Init, InFiles
  <2> QED BY <2>1 DEF Init, Stored
<1>3. \A k \in Keys : Newest({}, k, 0) = 0
  BY NoneIsNewest DEF Visible
<1>4. \A k \in Keys : Get(k, 0) = 0
  BY <1>1, <1>2, <1>3 DEF ReadsNewest
<1> QED BY <1>4 DEF Init, Store!Init

LEMMA StoreWrite ==
    ASSUME TreeInv, ReadsNewest, ReadsNewest', NEW k \in Keys, NEW type \in Types, Write(k, type)
    PROVE  Store!Write(k, type = "deletion")
<1> DEFINE e == [key |-> k, seq |-> lastSeq + 1, type |-> type]
           old == Stored
           new == Stored'
<1>1. /\ lastSeq' = lastSeq + 1 /\ lastSeq \in Nat /\ snapshots' = snapshots
      /\ mem' = mem \cup {e} /\ imm' = imm /\ files' = files
  BY DEF Write, TreeInv
<1>2. e \in Record /\ e.seq = lastSeq + 1 /\ e.key = k /\ e.type = type
  BY <1>1 DEF Record
<1>3. new = old \cup {e}
  BY <1>1 DEF Stored
<1>4. /\ old \in SUBSET Record /\ Distinct(old)
      /\ \A d \in old : d.seq <= lastSeq /\ d.seq \in Nat
  BY StoredIsFinite DEF TreeInv, Stored, SeqOK, InFiles, Record
<1> HIDE DEF e, old, new
<1>5. new \in SUBSET Record /\ Distinct(new) /\ \A d \in new : d.seq <= lastSeq + 1
  <2>1. \A d \in old : d.seq # e.seq /\ d.seq <= lastSeq + 1
    BY <1>1, <1>2, <1>4
  <2>2. e.seq <= lastSeq + 1
    BY <1>1, <1>2
  <2>3. Distinct(new)
    BY <1>3, <1>4, <2>1, Zenon DEF Distinct
  <2> QED BY <1>2, <1>3, <1>4, <2>1, <2>2, <2>3
<1>6. ASSUME NEW j \in Keys, NEW s \in snapshots PROVE Get(j, s)' = Get(j, s)
  <2>1. s \in Nat /\ s <= lastSeq
    BY ReadersAreNumbers
  <2>2. Visible(new, j, s) = Visible(old, j, s)
    <3>1. ~(e.seq <= s)
      BY <1>1, <1>2, <2>1
    <3> QED BY <1>3, <3>1 DEF Visible
  <2>3. Newest(new, j, s) = Newest(old, j, s)
    BY <2>2 DEF Newest
  <2> QED BY <2>1, <2>3 DEF ReadsNewest, old, new
<1>7. ASSUME NEW n \in Nat, n = lastSeq + 1
      PROVE  Get(k, n)' = IF type = "deletion" THEN 0 ELSE n
  <2>1. e \in Visible(new, k, n)
    BY <1>2, <1>3, <1>7 DEF Visible
  <2>2. IsNewest(new, k, n, e)
    BY <1>2, <1>5, <1>7, <2>1 DEF IsNewest, Visible
  <2>3. Newest(new, k, n) = IF type = "deletion" THEN 0 ELSE n
    BY <1>2, <1>5, <1>7, <2>2, NewestIsFirst
  <2> QED BY <2>3 DEF ReadsNewest, new
<1>8. ASSUME NEW m \in Nat, NEW n \in Nat, m = lastSeq, n = lastSeq + 1, NEW j \in Keys, j # k
      PROVE  Get(j, n)' = Get(j, m)
  <2>1. \A d \in old : d.seq <= m /\ d.seq <= n
    BY <1>4, <1>8
  <2>2. Visible(new, j, n) = Visible(old, j, m)
    BY <1>2, <1>3, <1>8, <2>1 DEF Visible
  <2>3. Newest(new, j, n) = Newest(old, j, m)
    BY <2>2 DEF Newest
  <2> QED BY <2>3 DEF ReadsNewest, old, new
<1> DEFINE view == [s \in snapshots \cup {lastSeq} |-> [j \in Keys |-> Get(j, s)]]
           after(s) == [j \in Keys |-> Get(j, s)']
           told(s) == IF s # lastSeq + 1 THEN view[s]
                      ELSE [view[lastSeq] EXCEPT ![k] = IF type = "deletion" THEN 0 ELSE lastSeq + 1]
<1>9. view' = [s \in snapshots \cup {lastSeq + 1} |-> told(s)]
  <2>1. view' = [s \in snapshots \cup {lastSeq + 1} |-> after(s)]
    BY <1>1
  <2>2. ASSUME NEW s \in snapshots \cup {lastSeq + 1} PROVE after(s) = told(s)
    <3>1. CASE s # lastSeq + 1
      <4>1. s \in snapshots /\ told(s) = view[s]
        BY <3>1
      <4> QED BY <1>6, <4>1
    <3>2. CASE s = lastSeq + 1
      <4>1. PICK m \in Nat : m = lastSeq
        BY <1>1
      <4>2. view[m] = [j \in Keys |-> Get(j, m)] /\ view[m] = view[lastSeq]
        BY <4>1
      <4>3. s \in Nat
        BY <1>1, <3>2
      <4> HIDE DEF view
      <4>4. told(s) = [view[m] EXCEPT ![k] = IF type = "deletion" THEN 0 ELSE s]
        BY <3>2, <4>2
      <4>5. \A j \in Keys : Get(j, s)' = IF j = k THEN (IF type = "deletion" THEN 0 ELSE s) ELSE Get(j, m)
        BY <1>7, <1>8, <3>2, <4>1, <4>3
      <4> QED BY <4>2, <4>4, <4>5
    <3> QED BY <3>1, <3>2
  <2> HIDE DEF view, after, told
  <2> QED BY <2>1, <2>2
<1> QED BY <1>1, <1>9 DEF Store!Write

LEMMA StoreSnapshot ==
    ASSUME TreeInv, ReadsNewest, ReadsNewest', GetSnapshot \/ \E s \in snapshots : ReleaseSnapshot(s)
    PROVE  Store!Next
<1>1. lastSeq' = lastSeq /\ mem' = mem /\ imm' = imm /\ files' = files
  BY DEF GetSnapshot, ReleaseSnapshot
<1>2. snapshots' \cup {lastSeq} \subseteq snapshots \cup {lastSeq}
  BY DEF GetSnapshot, ReleaseSnapshot
<1>3. Stored' = Stored
  BY <1>1 DEF Stored
<1>4. ASSUME NEW k \in Keys, NEW s \in snapshots \cup {lastSeq} PROVE Get(k, s)' = Get(k, s)
  <2>1. s \in Nat
    BY ReadersAreNumbers
  <2>2. Get(k, s)' = Newest(Stored', k, s)
    BY <2>1 DEF ReadsNewest
  <2>3. Get(k, s) = Newest(Stored, k, s)
    BY <2>1 DEF ReadsNewest
  <2> QED BY <1>3, <2>2, <2>3
<1> DEFINE view == [s \in snapshots \cup {lastSeq} |-> [k \in Keys |-> Get(k, s)]]
<1>5. view' = [s \in snapshots' \cup {lastSeq} |-> view[s]]
  <2>1. \A s \in snapshots' \cup {lastSeq} : view[s] = [k \in Keys |-> Get(k, s)']
    BY <1>2, <1>4
  <2>2. view' = [s \in snapshots' \cup {lastSeq} |-> [k \in Keys |-> Get(k, s)']]
    BY <1>1
  <2> HIDE DEF view
  <2> QED BY <2>1, <2>2
<1>6. CASE GetSnapshot
  <2>1. snapshots' = snapshots \cup {lastSeq}
    BY <1>6 DEF GetSnapshot
  <2>2. snapshots' \cup {lastSeq} = snapshots \cup {lastSeq}
    BY <2>1
  <2>3. view' = view
    BY <1>5, <2>2
  <2>4. Store!GetSnapshot
    BY <1>1, <2>1, <2>3 DEF Store!GetSnapshot
  <2> QED BY <2>4 DEF Store!Next
<1>7. ASSUME NEW r \in snapshots, ReleaseSnapshot(r) PROVE Store!Next
  <2>1. snapshots' = snapshots \ {r}
    BY <1>7 DEF ReleaseSnapshot
  <2>2. Store!ReleaseSnapshot(r)
    BY <1>1, <1>5, <2>1 DEF Store!ReleaseSnapshot
  <2> QED BY <2>2 DEF Store!Next
<1> QED BY <1>6, <1>7

LEMMA StoreStep == ReadInv /\ NoKeyIsCut /\ [Next]_vars => [Store!Next]_(Store!storeVars)
<1> SUFFICES ASSUME ReadInv, NoKeyIsCut, [Next]_vars PROVE [Store!Next]_(Store!storeVars)
  OBVIOUS
<1>1. TreeInv /\ ReadsNewest /\ ReadsNewest'
  BY ReadsAlways, ReadsNext, ReadStays DEF ReadInv, NewerInv
<1>2. ASSUME NEW k \in Keys, NEW type \in Types, Write(k, type)
      PROVE  Store!Next
  BY <1>1, <1>2, StoreWrite DEF Store!Next
<1>3. CASE GetSnapshot \/ \E s \in snapshots : ReleaseSnapshot(s)
  BY <1>1, <1>3, StoreSnapshot
<1>4. ASSUME snapshots' = snapshots, lastSeq' = lastSeq, Stored' = Stored
      PROVE  UNCHANGED Store!storeVars
  BY <1>1, <1>4, ViewStays
<1>5. CASE Switch
  <2>1. Stored' = Stored
    BY <1>5 DEF Switch, Stored
  <2> QED BY <1>4, <1>5, <2>1 DEF Switch
<1>6. CASE CompactMemTable
  <2> PICK level \in Levels : \E t :
         /\ GoodFile(t) /\ t.number = nextFile /\ t.entries = imm
         /\ Free(files, level, t)
         /\ files' = Flushed(files, level, t)
    BY <1>1, <1>6, FlushIsFlushed
  <2>1. PICK t : /\ GoodFile(t) /\ t.number = nextFile /\ t.entries = imm
                /\ Free(files, level, t)
                /\ files' = Flushed(files, level, t)
    OBVIOUS
  <2>2. FilesOK(files, nextFile) /\ Disjoint(files) /\ nextFile \in Nat
    BY <1>1 DEF TreeInv
  <2>3. InFiles(files') = InFiles(files) \cup imm
    BY <2>1, <2>2, FlushedFilesOK
  <2>4. Stored' = Stored
    BY <1>6, <2>3 DEF CompactMemTable, Stored
  <2> QED BY <1>4, <1>6, <2>4 DEF CompactMemTable
<1>7. ASSUME NEW l \in 0..(NumLevels - 2), SizeCompaction(l) \/ SeekCompaction(l)
      PROVE  UNCHANGED Store!storeVars
  <2>1. /\ snapshots' = snapshots /\ lastSeq' = lastSeq /\ mem' = mem /\ imm' = imm
    BY <1>1, <1>7, PickIsOfLevel
  <2>2. InFiles(files') = InFiles(files)
    BY <1>7, BeginRead
  <2>3. Stored' = Stored
    BY <2>1, <2>2 DEF Stored
  <2> QED BY <1>4, <2>1, <2>3
<1>8. CASE Install
  <2>1. \A k \in Keys, s \in snapshots \cup {lastSeq} : Newest(Stored', k, s) = Newest(Stored, k, s)
    BY <1>8, InstallKeepsNewest DEF ReadInv
  <2>2. snapshots' = snapshots /\ lastSeq' = lastSeq
    BY <1>8 DEF Install
  <2> QED BY <1>1, <2>1, <2>2, ViewStays
<1>9. CASE UNCHANGED vars
  <2>1. Stored' = Stored
    BY <1>9 DEF vars, Stored
  <2> QED BY <1>4, <1>9, <2>1 DEF vars
<1> QED BY <1>2, <1>3, <1>5, <1>6, <1>7, <1>8, <1>9 DEF Next, BackgroundStep

\* As long as no merge cuts the entries of one key into two tables, DBImpl::Get
\* answers what the map was as of the snapshot, whatever is written, flushed,
\* moved, merged and dropped meanwhile, with any load: every step is one of a
\* map with snapshots, or changes nothing a reader sees.
THEOREM KeepsStoreUnlessCut == Spec /\ []NoKeyIsCut => KeepsStore
<1>1. Init => ReadInv
  BY InitRead
<1>2. ReadInv /\ NoKeyIsCut /\ [Next]_vars => ReadInv'
  BY ReadStays
<1>3. Init => Store!Init
  BY StoreInit
<1>4. ReadInv /\ NoKeyIsCut /\ [Next]_vars => [Store!Next]_(Store!storeVars)
  BY StoreStep
<1> QED BY <1>1, <1>2, <1>3, <1>4, PTL DEF Spec, KeepsStore, Store!Spec

\* Without snapshots, or as long as one table has room for all that is written,
\* the tree of tables implements a map with snapshots.
THEOREM TreeKeepsStore ==
    ASSUME \A d \in Loads : NothingToCut(d)
    PROVE  Spec => KeepsStore
BY NothingIsEverCut, KeepsStoreUnlessCut, PTL
=============================================================================
