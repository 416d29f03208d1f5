--------------------------- MODULE TableCache_proofs ---------------------------
(***************************************************************************)
(* Proofs about TableCache, for any number of clients, files and addresses *)
(* and any capacity.                                                       *)
(*                                                                         *)
(* Part 1 is about the cache: what each operation does to the counts, the  *)
(* list and the table (CacheInv).  Part 2 adds where the clients are and   *)
(* what becomes of the files (FilesInv).  Part 3 counts the open files     *)
(* (UsageInv).                                                             *)
(***************************************************************************)
EXTENDS TableCache, SequenceLemmas, FiniteSetTheorems, TLAPS

-----------------------------------------------------------------------------
(* Lists as sets *)

Occurs(a, s) == \E i \in DOMAIN s : s[i] = a

LEMMA AppendOccurs ==
    ASSUME NEW S, NEW s \in Seq(S), NEW a \in S, IsInjective(s), ~Occurs(a, s)
    PROVE  /\ Append(s, a) \in Seq(S)
           /\ IsInjective(Append(s, a))
           /\ \A b : Occurs(b, Append(s, a)) <=> b = a \/ Occurs(b, s)
<1>1. \A i \in DOMAIN s : s[i] # a
  BY DEF Occurs
<1>2. IsInjective(Append(s, a))
  BY <1>1, AppendIsInjective
<1>3. /\ Append(s, a) \in Seq(S)
      /\ Len(Append(s, a)) = Len(s) + 1
      /\ Append(s, a)[Len(s) + 1] = a
      /\ \A i \in 1..Len(s) : Append(s, a)[i] = s[i]
  OBVIOUS
<1>4. DOMAIN Append(s, a) = 1..(Len(s) + 1) /\ DOMAIN s = 1..Len(s) /\ Len(s) \in Nat
  BY <1>3
<1>5. \A b : Occurs(b, Append(s, a)) <=> b = a \/ Occurs(b, s)
  BY <1>3, <1>4 DEF Occurs
<1> QED BY <1>2, <1>3, <1>5

LEMMA RemoveOccurs ==
    ASSUME NEW S, NEW s \in Seq(S), NEW a, IsInjective(s), Occurs(a, s)
    PROVE  /\ ListRemove(s, a) \in Seq(S)
           /\ IsInjective(ListRemove(s, a))
           /\ \A b : Occurs(b, ListRemove(s, a)) <=> b # a /\ Occurs(b, s)
<1> DEFINE i == SelectInSeq(s, LAMBDA x : x = a)
           rest == RemoveAt(s, i)
<1>1. i \in 1..Len(s) /\ s[i] = a
  BY SelectInSeqFinds DEF Occurs
<1>2. ListRemove(s, a) = rest
  BY DEF ListRemove
<1> HIDE DEF i
<1>3. IsInjective(rest)
  BY <1>1, RemoveAtIsInjective
<1>4. /\ rest \in Seq(S)
      /\ Len(rest) = Len(s) - 1
      /\ \A k \in 1..(Len(s) - 1) : rest[k] = IF k < i THEN s[k] ELSE s[k + 1]
  BY <1>1, RemoveAtShifts
<1> HIDE DEF rest
<1>5. Len(s) \in Nat /\ DOMAIN s = 1..Len(s) /\ DOMAIN rest = 1..(Len(s) - 1)
  BY <1>4
<1>6. \A j \in 1..Len(s) : s[j] = a => j = i
  BY <1>1, <1>5 DEF IsInjective
<1>7. ASSUME NEW b, Occurs(b, rest) PROVE b # a /\ Occurs(b, s)
  <2>1. PICK k \in 1..(Len(s) - 1) : rest[k] = b
    BY <1>5, <1>7 DEF Occurs
  <2>2. PICK j \in 1..Len(s) : s[j] = b /\ j # i
    BY <1>1, <1>4, <1>5, <2>1
  <2> QED BY <1>5, <1>6, <2>2 DEF Occurs
<1>8. ASSUME NEW b, b # a, Occurs(b, s) PROVE Occurs(b, rest)
  <2>1. PICK j \in 1..Len(s) : s[j] = b
    BY <1>5, <1>8 DEF Occurs
  <2>2. j # i
    BY <1>1, <1>8, <2>1
  <2>3. CASE j < i
    BY <1>1, <1>4, <1>5, <2>1, <2>3 DEF Occurs
  <2>4. CASE j > i
    <3>1. j - 1 \in 1..(Len(s) - 1) /\ ~(j - 1 < i) /\ (j - 1) + 1 = j
      BY <1>1, <1>5, <2>4
    <3>2. rest[j - 1] = b
      BY <1>4, <2>1, <3>1
    <3> QED BY <1>5, <3>1, <3>2 DEF Occurs
  <2> QED BY <1>1, <2>2, <2>3, <2>4
<1> QED BY <1>2, <1>3, <1>4, <1>7, <1>8

LEMMA TailOccurs ==
    ASSUME NEW S, NEW s \in Seq(S), IsInjective(s), s # << >>
    PROVE  /\ Head(s) \in S /\ Occurs(Head(s), s)
           /\ Tail(s) \in Seq(S)
           /\ IsInjective(Tail(s))
           /\ \A b : Occurs(b, Tail(s)) <=> b # Head(s) /\ Occurs(b, s)
<1>1. /\ Len(s) \in Nat \ {0} /\ DOMAIN s = 1..Len(s)
      /\ Head(s) = s[1] /\ s[1] \in S
  OBVIOUS
<1>2. /\ Tail(s) \in Seq(S) /\ Len(Tail(s)) = Len(s) - 1
      /\ \A i \in 1..(Len(s) - 1) : Tail(s)[i] = s[i + 1]
  OBVIOUS
<1>3. DOMAIN Tail(s) = 1..(Len(s) - 1)
  BY <1>1, <1>2
<1>4. \A i, j \in 1..Len(s) : s[i] = s[j] => i = j
  BY <1>1 DEF IsInjective
<1>5. IsInjective(Tail(s))
  BY <1>1, <1>2, <1>3, <1>4 DEF IsInjective
<1>6. ASSUME NEW b, Occurs(b, Tail(s)) PROVE b # Head(s) /\ Occurs(b, s)
  <2>1. PICK i \in 1..(Len(s) - 1) : Tail(s)[i] = b
    BY <1>3, <1>6 DEF Occurs
  <2>2. i + 1 \in 1..Len(s) /\ i + 1 # 1 /\ 1 \in 1..Len(s) /\ s[i + 1] = b
    BY <1>1, <1>2, <2>1
  <2> QED BY <1>1, <1>4, <2>2 DEF Occurs
<1>7. ASSUME NEW b, b # Head(s), Occurs(b, s) PROVE Occurs(b, Tail(s))
  <2>1. PICK j \in 1..Len(s) : s[j] = b
    BY <1>1, <1>7 DEF Occurs
  <2>2. j - 1 \in 1..(Len(s) - 1) /\ (j - 1) + 1 = j
    BY <1>1, <1>7, <2>1
  <2>3. Tail(s)[j - 1] = b
    BY <1>2, <2>1, <2>2
  <2> QED BY <1>3, <2>2, <2>3 DEF Occurs
<1>8. Occurs(Head(s), s)
  BY <1>1 DEF Occurs
<1> QED BY <1>1, <1>2, <1>5, <1>6, <1>7, <1>8

-----------------------------------------------------------------------------
(* Counts *)

LEMMA HoldersAreFinite ==
    \A b : /\ IsFiniteSet(HoldersOf(b)) /\ Cardinality(HoldersOf(b)) \in Nat
           /\ IsFiniteSet(HoldersOf(b)') /\ Cardinality(HoldersOf(b)') \in Nat
<1>1. \A T \in SUBSET Clients : IsFiniteSet(T) /\ Cardinality(T) \in Nat
  BY FS_Subset, FS_CardinalityType, LRUCacheAssumption
<1>2. \A b : HoldersOf(b) \subseteq Clients /\ HoldersOf(b)' \subseteq Clients
  BY DEF HoldersOf
<1> QED BY <1>1, <1>2

\* A client takes a handle to the entry at a ...
LEMMA HandleTaken ==
    ASSUME CacheTypeOK, NEW c \in Clients, NEW a \in Addresses,
           handle[c] = Nobody, handle' = [handle EXCEPT ![c] = a]
    PROVE  \A b \in Addresses :
              Cardinality(HoldersOf(b)') = Cardinality(HoldersOf(b)) + IF b = a THEN 1 ELSE 0
<1> SUFFICES ASSUME NEW b \in Addresses
             PROVE  Cardinality(HoldersOf(b)')
                        = Cardinality(HoldersOf(b)) + IF b = a THEN 1 ELSE 0
  OBVIOUS
<1>1. Nobody # b /\ handle \in [Clients -> Addresses \cup {Nobody}]
  BY LRUCacheAssumption DEF CacheTypeOK
<1>2. CASE b = a
  <2>1. HoldersOf(b)' = HoldersOf(b) \cup {c} /\ c \notin HoldersOf(b)
    BY <1>1, <1>2 DEF HoldersOf
  <2> QED BY <1>2, <2>1, HoldersAreFinite, FS_AddElement
<1>3. CASE b # a
  <2>1. HoldersOf(b)' = HoldersOf(b)
    BY <1>1, <1>3 DEF HoldersOf
  <2> QED BY <1>3, <2>1, HoldersAreFinite
<1> QED BY <1>2, <1>3

\* ... and gives it back.
LEMMA HandleReleased ==
    ASSUME CacheTypeOK, NEW c \in Clients, NEW a \in Addresses,
           handle[c] = a, handle' = [handle EXCEPT ![c] = Nobody]
    PROVE  \A b \in Addresses :
              Cardinality(HoldersOf(b)') = Cardinality(HoldersOf(b)) - IF b = a THEN 1 ELSE 0
<1> SUFFICES ASSUME NEW b \in Addresses
             PROVE  Cardinality(HoldersOf(b)')
                        = Cardinality(HoldersOf(b)) - IF b = a THEN 1 ELSE 0
  OBVIOUS
<1>1. Nobody # b /\ handle \in [Clients -> Addresses \cup {Nobody}]
  BY LRUCacheAssumption DEF CacheTypeOK
<1>2. CASE b = a
  <2>1. HoldersOf(b)' = HoldersOf(b) \ {c} /\ c \in HoldersOf(b)
    BY <1>1, <1>2 DEF HoldersOf
  <2> QED BY <1>2, <2>1, HoldersAreFinite, FS_RemoveElement
<1>3. CASE b # a
  <2>1. HoldersOf(b)' = HoldersOf(b)
    BY <1>1, <1>3 DEF HoldersOf
  <2> QED BY <1>3, <2>1, HoldersAreFinite
<1> QED BY <1>2, <1>3

\* Ref adds one reference.
LEMMA RefAddsOne ==
    ASSUME NEW e \in [Addresses -> Entry], NEW a \in Addresses
    PROVE  /\ Ref(e, a) \in [Addresses -> Entry]
           /\ \A b \in Addresses : b # a => Ref(e, a)[b] = e[b]
           /\ Ref(e, a)[a].refs = e[a].refs + 1
           /\ Ref(e, a)[a].key = e[a].key
<1> DEFINE more == [key |-> e[a].key, charge |-> e[a].charge, refs |-> e[a].refs + 1]
<1>1. Ref(e, a) = [e EXCEPT ![a] = more]
  BY DEF Ref
<1>2. more \in Entry /\ more.refs = e[a].refs + 1 /\ more.key = e[a].key
  BY DEF Entry
<1> QED BY <1>1, <1>2

\* Unref takes one reference, and frees the memory with the last.
LEMMA UnrefTakesOne ==
    ASSUME NEW e \in [Addresses -> Entry], NEW a \in Addresses, e[a].refs >= 1
    PROVE  /\ Unref(e, a) \in [Addresses -> Entry]
           /\ \A b \in Addresses : b # a => Unref(e, a)[b] = e[b]
           /\ Unref(e, a)[a].refs = e[a].refs - 1
           /\ Unref(e, a)[a].refs = 0 => Unref(e, a)[a] = Freed
           /\ Unref(e, a)[a].refs # 0 => Unref(e, a)[a].key = e[a].key
<1>1. e[a] \in Entry /\ e[a].refs \in Nat /\ Freed \in Entry
  BY DEF Entry, Freed
<1>2. CASE e[a].refs = 1
  <2>1. Unref(e, a) = [e EXCEPT ![a] = Freed]
    BY <1>2 DEF Unref
  <2> QED BY <1>1, <1>2, <2>1 DEF Freed
<1>3. CASE e[a].refs # 1
  <2> DEFINE less == [key |-> e[a].key, charge |-> e[a].charge, refs |-> e[a].refs - 1]
  <2>1. Unref(e, a) = [e EXCEPT ![a] = less]
    BY <1>3 DEF Unref
  <2>2. less \in Entry /\ less.refs = e[a].refs - 1 /\ less.key = e[a].key /\ less.refs # 0
    BY <1>1, <1>3 DEF Entry
  <2> QED BY <1>1, <2>1, <2>2
<1> QED BY <1>2, <1>3

-----------------------------------------------------------------------------
(* Part 1: the cache *)

KeysKnown == \A a \in Addresses : entry[a] # Freed => entry[a].key \in Keys

CacheInv == CacheTypeOK /\ RefsCountHolders /\ TableFollowsList /\ KeysKnown

\* Nothing but an insertion brings an entry to an address.
Kept(a) == entry'[a] # Freed => entry[a] # Freed /\ entry'[a].key = entry[a].key

\* What the invariant says of one address, and of one key.
LEMMA AtAddress ==
    ASSUME CacheInv, NEW a \in Addresses
    PROVE  /\ entry[a] \in Entry /\ entry[a].refs \in Nat
           /\ Listed(a) => /\ entry[a].refs >= 1 /\ entry[a].key \in Keys
                           /\ table[entry[a].key] = a
           /\ \A c \in Clients : handle[c] = a => entry[a].refs >= 1
           /\ entry[a] = Freed <=> entry[a].refs = 0
           /\ entry[a] = Freed => ~Listed(a)
<1>1. entry[a] \in Entry /\ entry[a].refs \in Nat
  BY DEF CacheInv, CacheTypeOK, Entry
<1>2. /\ entry[a].refs = Cardinality(HoldersOf(a)) + IF Listed(a) THEN 1 ELSE 0
      /\ entry[a].refs = 0 => entry[a] = Freed
  BY DEF CacheInv, RefsCountHolders
<1>3. Cardinality(HoldersOf(a)) \in Nat /\ IsFiniteSet(HoldersOf(a))
  BY HoldersAreFinite
<1>4. Listed(a) => entry[a].key \in Keys /\ table[entry[a].key] = a
  BY DEF CacheInv, TableFollowsList, Listed
<1>5. ASSUME NEW c \in Clients, handle[c] = a PROVE entry[a].refs >= 1
  <2>1. HoldersOf(a) # {}
    BY <1>5 DEF HoldersOf
  <2>2. Cardinality(HoldersOf(a)) # 0
    BY <1>3, <2>1, FS_EmptySet
  <2> QED BY <1>2, <1>3, <2>2
<1>6. entry[a] = Freed => entry[a].refs = 0
  BY DEF Freed
<1>7. Listed(a) => entry[a].refs >= 1
  BY <1>2, <1>3
<1> QED BY <1>1, <1>2, <1>4, <1>5, <1>6, <1>7

LEMMA AtKey ==
    ASSUME CacheInv, NEW k \in Keys, table[k] # Nobody
    PROVE  /\ table[k] \in Addresses
           /\ Listed(table[k])
           /\ entry[table[k]].key = k
BY DEF CacheInv, CacheTypeOK, TableFollowsList

\* The invariant again, from what an operation left.
LEMMA CacheInvAgain ==
    ASSUME CacheTypeOK', IsInjective(lru'),
           \A a \in Addresses :
              /\ entry'[a].refs = Cardinality(HoldersOf(a)') + IF Occurs(a, lru') THEN 1 ELSE 0
              /\ entry'[a].refs = 0 => entry'[a] = Freed
              /\ entry'[a] # Freed => entry'[a].key \in Keys
              /\ Occurs(a, lru') => entry'[a].key \in Keys /\ table'[entry'[a].key] = a,
           \A k \in Keys : table'[k] # Nobody =>
              Occurs(table'[k], lru') /\ entry'[table'[k]].key = k
    PROVE  CacheInv'
<1>1. RefsCountHolders'
  BY DEF RefsCountHolders, Listed, Occurs
<1>2. \A i \in DOMAIN lru' : lru'[i] \in Addresses /\ Occurs(lru'[i], lru')
  BY DEF CacheTypeOK, Occurs
<1>3. TableFollowsList'
  BY <1>2 DEF TableFollowsList, Listed, Occurs
<1> QED BY <1>1, <1>3 DEF CacheInv, KeysKnown

LEMMA LookupStep ==
    ASSUME CacheInv, NEW c \in Clients, NEW k \in Keys, Lookup(c, k)
    PROVE  CacheInv' /\ \A b \in Addresses : Kept(b)
<1> DEFINE a == table[k]
           rest == ListRemove(lru, a)
<1>1. /\ a # Nobody /\ handle[c] = Nobody
      /\ entry' = Ref(entry, a)
      /\ lru' = Append(rest, a)
      /\ handle' = [handle EXCEPT ![c] = a]
      /\ table' = table /\ usage' = usage /\ evicting' = evicting
  BY DEF Lookup
<1>2. a \in Addresses /\ Listed(a) /\ entry[a].key = k
  BY <1>1, AtKey
<1>3. /\ entry \in [Addresses -> Entry] /\ lru \in Seq(Addresses) /\ IsInjective(lru)
      /\ table \in [Keys -> Addresses \cup {Nobody}]
      /\ CacheTypeOK
  BY DEF CacheInv, CacheTypeOK, TableFollowsList
<1> HIDE DEF a
<1>4. /\ rest \in Seq(Addresses) /\ IsInjective(rest)
      /\ \A b : Occurs(b, rest) <=> b # a /\ Occurs(b, lru)
  <2>1. Occurs(a, lru)
    BY <1>2 DEF Listed, Occurs
  <2> QED BY <1>3, <2>1, RemoveOccurs
<1> HIDE DEF rest
<1>5. /\ lru' \in Seq(Addresses) /\ IsInjective(lru')
      /\ \A b : Occurs(b, lru') <=> b = a \/ Occurs(b, rest)
  BY <1>1, <1>2, <1>4, AppendOccurs
<1>6. \A b : Occurs(b, lru') <=> Listed(b)
  BY <1>2, <1>4, <1>5 DEF Listed, Occurs
<1>7. \A b \in Addresses :
         Cardinality(HoldersOf(b)') = Cardinality(HoldersOf(b)) + IF b = a THEN 1 ELSE 0
  BY <1>1, <1>2, <1>3, HandleTaken
<1>8. /\ entry' \in [Addresses -> Entry]
      /\ \A b \in Addresses : /\ entry'[b].key = entry[b].key
                              /\ entry'[b].refs = entry[b].refs + IF b = a THEN 1 ELSE 0
                              /\ b # a => entry'[b] = entry[b]
  BY <1>1, <1>2, <1>3, RefAddsOne DEF Entry
<1>9. CacheTypeOK'
  BY <1>1, <1>2, <1>3, <1>5, <1>8 DEF CacheTypeOK
<1>10. entry[a] # Freed /\ entry'[a] # Freed
  BY <1>2, <1>8, AtAddress DEF Freed
<1>11. ASSUME NEW b \in Addresses
       PROVE  /\ entry'[b].refs = Cardinality(HoldersOf(b)') + IF Occurs(b, lru') THEN 1 ELSE 0
              /\ entry'[b].refs = 0 => entry'[b] = Freed
              /\ entry'[b] # Freed => entry'[b].key \in Keys
              /\ Occurs(b, lru') => entry'[b].key \in Keys /\ table'[entry'[b].key] = b
              /\ Kept(b)
  <2>1. entry[b].refs = Cardinality(HoldersOf(b)) + IF Listed(b) THEN 1 ELSE 0
    BY DEF CacheInv, RefsCountHolders
  <2>2. Cardinality(HoldersOf(b)) \in Nat
    BY HoldersAreFinite
  <2>3. entry'[b].refs = Cardinality(HoldersOf(b)') + IF Occurs(b, lru') THEN 1 ELSE 0
    BY <1>6, <1>7, <1>8, <2>1, <2>2
  <2>4. entry'[b].refs = 0 => entry'[b] = Freed
    BY <1>8, <2>1, <2>2, AtAddress
  <2>5. (entry'[b] # Freed => entry'[b].key \in Keys) /\ Kept(b)
    BY <1>8, <1>10 DEF CacheInv, KeysKnown, Kept
  <2> QED BY <1>1, <1>6, <1>8, <2>3, <2>4, <2>5, AtAddress
<1>12. \A l \in Keys : table'[l] # Nobody =>
           Occurs(table'[l], lru') /\ entry'[table'[l]].key = l
  BY <1>1, <1>6, <1>8, AtKey
<1>13. CacheInv'
  BY <1>5, <1>9, <1>11, <1>12, CacheInvAgain
<1> QED BY <1>11, <1>13

LEMMA ReleaseStep ==
    ASSUME CacheInv, NEW c \in Clients, Release(c)
    PROVE  CacheInv' /\ \A b \in Addresses : Kept(b)
<1> DEFINE a == handle[c]
<1>1. /\ a # Nobody
      /\ entry' = Unref(entry, a)
      /\ usage' = usage - UsageWithout(entry, a)
      /\ handle' = [handle EXCEPT ![c] = Nobody]
      /\ table' = table /\ lru' = lru /\ evicting' = evicting
  BY DEF Release
<1>2. /\ entry \in [Addresses -> Entry] /\ lru \in Seq(Addresses) /\ IsInjective(lru)
      /\ table \in [Keys -> Addresses \cup {Nobody}]
      /\ CacheTypeOK
  BY DEF CacheInv, CacheTypeOK, TableFollowsList
<1>3. a \in Addresses /\ entry[a].refs >= 1
  BY <1>1, <1>2, AtAddress DEF CacheTypeOK
<1>4. /\ entry' \in [Addresses -> Entry]
      /\ \A b \in Addresses : b # a => entry'[b] = entry[b]
      /\ entry'[a].refs = entry[a].refs - 1
      /\ entry'[a].refs = 0 => entry'[a] = Freed
      /\ entry'[a].refs # 0 => entry'[a].key = entry[a].key
  BY <1>1, <1>2, <1>3, UnrefTakesOne
<1>5. \A b \in Addresses :
         Cardinality(HoldersOf(b)') = Cardinality(HoldersOf(b)) - IF b = a THEN 1 ELSE 0
  BY <1>1, <1>2, <1>3, HandleReleased
<1>6. \A b : Occurs(b, lru') <=> Listed(b)
  BY <1>1 DEF Listed, Occurs
<1>7. CacheTypeOK'
  <2>1. usage' \in Int
    BY <1>1, <1>2, <1>3 DEF CacheTypeOK, UsageWithout, Entry
  <2> QED BY <1>1, <1>2, <1>4, <2>1 DEF CacheTypeOK
<1>8. ASSUME NEW b \in Addresses
      PROVE  /\ entry'[b].refs = Cardinality(HoldersOf(b)') + IF Occurs(b, lru') THEN 1 ELSE 0
             /\ entry'[b].refs = 0 => entry'[b] = Freed
             /\ entry'[b].refs # 0 => entry'[b].key = entry[b].key
             /\ Kept(b)
  <2>1. entry[b].refs = Cardinality(HoldersOf(b)) + IF Listed(b) THEN 1 ELSE 0
    BY DEF CacheInv, RefsCountHolders
  <2>2. Cardinality(HoldersOf(b)) \in Nat
    BY HoldersAreFinite
  <2>3. entry'[b].refs = Cardinality(HoldersOf(b)') + IF Occurs(b, lru') THEN 1 ELSE 0
    BY <1>4, <1>5, <1>6, <2>1, <2>2
  <2>4. entry'[b].refs = 0 => entry'[b] = Freed
    BY <1>4, AtAddress
  <2>5. entry'[b].refs # 0 => entry'[b].key = entry[b].key
    BY <1>4
  <2>6. Kept(b)
    BY <1>3, <1>4, <2>4, <2>5 DEF Kept, Freed
  <2> QED BY <2>3, <2>4, <2>5, <2>6
<1>9. \A b \in Addresses : Occurs(b, lru') => entry'[b].refs # 0
  BY <1>8, HoldersAreFinite
<1>10. \A b \in Addresses :
          /\ entry'[b] # Freed => entry'[b].key \in Keys
          /\ Occurs(b, lru') => entry'[b].key \in Keys /\ table'[entry'[b].key] = b
  BY <1>1, <1>6, <1>8, <1>9, AtAddress DEF CacheInv, KeysKnown, Kept
<1>11. \A l \in Keys : table'[l] # Nobody =>
           Occurs(table'[l], lru') /\ entry'[table'[l]].key = l
  BY <1>1, <1>6, <1>8, <1>9, AtKey
<1>12. CacheInv'
  BY <1>1, <1>2, <1>7, <1>8, <1>10, <1>11, CacheInvAgain
<1> QED BY <1>8, <1>12

\* Whoever has the mutex, the rest stays.
LEMMA OnlyTheMutexStep ==
    ASSUME CacheInv, UNCHANGED << entry, table, lru, usage, handle >>,
           evicting' \in Clients \cup {Nobody}
    PROVE  CacheInv' /\ \A b \in Addresses : Kept(b)
<1>1. /\ entry' = entry /\ table' = table /\ lru' = lru /\ usage' = usage
      /\ handle' = handle
  OBVIOUS
<1>2. CacheTypeOK'
  BY <1>1 DEF CacheInv, CacheTypeOK
<1>3. RefsCountHolders'
  <2>1. \A a : HoldersOf(a)' = HoldersOf(a) /\ (Listed(a)' <=> Listed(a))
    BY <1>1 DEF HoldersOf, Listed
  <2> QED BY <1>1, <2>1 DEF CacheInv, RefsCountHolders
<1>4. TableFollowsList'
  BY <1>1 DEF CacheInv, TableFollowsList, Listed
<1>5. KeysKnown' /\ \A b \in Addresses : Kept(b)
  BY <1>1 DEF CacheInv, KeysKnown, Kept
<1> QED BY <1>2, <1>3, <1>4, <1>5 DEF CacheInv

\* The list lets go of an entry, which leaves the table with it: EvictOldest, and
\* Erase of a key that has an entry.
LEMMA UnlistStep ==
    ASSUME CacheInv, NEW a \in Addresses, Listed(a),
           entry' = Unref(entry, a),
           usage' = usage - UsageWithout(entry, a),
           table' = [table EXCEPT ![entry[a].key] = Nobody],
           lru' \in Seq(Addresses), IsInjective(lru'),
           \A b : Occurs(b, lru') <=> b # a /\ Occurs(b, lru),
           handle' = handle, evicting' = evicting
    PROVE  CacheInv' /\ \A b \in Addresses : Kept(b)
<1>1. /\ entry \in [Addresses -> Entry] /\ table \in [Keys -> Addresses \cup {Nobody}]
      /\ CacheTypeOK
  BY DEF CacheInv, CacheTypeOK
<1>2. entry[a].refs >= 1 /\ entry[a].key \in Keys /\ table[entry[a].key] = a
  BY AtAddress
<1>3. /\ entry' \in [Addresses -> Entry]
      /\ \A b \in Addresses : b # a => entry'[b] = entry[b]
      /\ entry'[a].refs = entry[a].refs - 1
      /\ entry'[a].refs = 0 => entry'[a] = Freed
      /\ entry'[a].refs # 0 => entry'[a].key = entry[a].key
  BY <1>1, <1>2, UnrefTakesOne
<1>4. \A b \in Addresses : Listed(b) <=> Occurs(b, lru)
  BY DEF Listed, Occurs
<1>5. HoldersOf(a)' = HoldersOf(a) /\ \A b : HoldersOf(b)' = HoldersOf(b)
  BY DEF HoldersOf
<1>6. CacheTypeOK'
  <2>1. usage' \in Int
    BY <1>1, <1>2 DEF CacheTypeOK, UsageWithout, Entry
  <2> QED BY <1>1, <1>2, <1>3, <2>1 DEF CacheTypeOK
<1>7. ASSUME NEW b \in Addresses
      PROVE  /\ entry'[b].refs = Cardinality(HoldersOf(b)') + IF Occurs(b, lru') THEN 1 ELSE 0
             /\ entry'[b].refs = 0 => entry'[b] = Freed
             /\ Kept(b)
  <2>1. entry[b].refs = Cardinality(HoldersOf(b)) + IF Listed(b) THEN 1 ELSE 0
    BY DEF CacheInv, RefsCountHolders
  <2>2. Cardinality(HoldersOf(b)) \in Nat
    BY HoldersAreFinite
  <2>3. CASE b = a
    <3>1. entry'[b].refs = Cardinality(HoldersOf(b)') + IF Occurs(b, lru') THEN 1 ELSE 0
      BY <1>3, <1>5, <2>1, <2>2, <2>3
    <3>2. Kept(b)
      BY <1>2, <1>3, <2>3 DEF Kept, Freed
    <3> QED BY <1>3, <2>3, <3>1, <3>2
  <2>4. CASE b # a
    <3>1. entry'[b] = entry[b] /\ Listed(b) <=> Occurs(b, lru')
      BY <1>3, <1>4, <2>4
    <3>2. entry'[b].refs = Cardinality(HoldersOf(b)') + IF Occurs(b, lru') THEN 1 ELSE 0
      BY <1>3, <1>4, <1>5, <2>1, <2>4
    <3> QED BY <1>3, <2>4, <3>2, AtAddress DEF Kept
  <2> QED BY <2>3, <2>4
<1>8. \A b \in Addresses :
         /\ entry'[b] # Freed => entry'[b].key \in Keys
         /\ Occurs(b, lru') => entry'[b].key \in Keys /\ table'[entry'[b].key] = b
  <2>1. \A b \in Addresses : entry'[b] # Freed => entry'[b].key \in Keys
    BY <1>7 DEF Kept, CacheInv, KeysKnown
  <2>2. ASSUME NEW b \in Addresses, Occurs(b, lru')
        PROVE  entry'[b].key \in Keys /\ table'[entry'[b].key] = b
    <3>1. b # a /\ Listed(b) /\ entry'[b] = entry[b]
      BY <1>3, <1>4, <2>2
    <3>2. entry[b].key \in Keys /\ table[entry[b].key] = b
      BY <3>1, AtAddress
    <3>3. entry[b].key # entry[a].key
      BY <1>2, <3>1, <3>2
    <3> QED BY <1>1, <3>1, <3>2, <3>3
  <2> QED BY <2>1, <2>2
<1>9. ASSUME NEW l \in Keys, table'[l] # Nobody
      PROVE  Occurs(table'[l], lru') /\ entry'[table'[l]].key = l
  <2>1. l # entry[a].key /\ table'[l] = table[l]
    BY <1>1, <1>2, <1>9
  <2>2. table[l] \in Addresses /\ Listed(table[l]) /\ entry[table[l]].key = l
    BY <1>9, <2>1, AtKey
  <2> QED BY <1>3, <1>4, <2>1, <2>2
<1>10. CacheInv'
  BY <1>6, <1>7, <1>8, <1>9, CacheInvAgain
<1> QED BY <1>7, <1>10

LEMMA EvictStep ==
    ASSUME CacheInv, NEW c \in Clients, EvictOldest(c)
    PROVE  CacheInv' /\ (\A b \in Addresses : Kept(b)) /\ handle' = handle
<1> DEFINE a == Head(lru)
<1>1. /\ lru # << >> /\ lru' = Tail(lru)
      /\ table' = [table EXCEPT ![entry[a].key] = Nobody]
      /\ entry' = Unref(entry, a)
      /\ usage' = usage - UsageWithout(entry, a)
      /\ handle' = handle /\ evicting' = evicting
  BY DEF EvictOldest
<1>2. lru \in Seq(Addresses) /\ IsInjective(lru)
  BY DEF CacheInv, CacheTypeOK, TableFollowsList
<1>3. /\ a \in Addresses /\ Occurs(a, lru)
      /\ lru' \in Seq(Addresses) /\ IsInjective(lru')
      /\ \A b : Occurs(b, lru') <=> b # a /\ Occurs(b, lru)
  BY <1>1, <1>2, TailOccurs
<1>4. Listed(a)
  BY <1>3 DEF Listed, Occurs
<1> HIDE DEF a
<1> QED BY <1>1, <1>3, <1>4, UnlistStep

LEMMA EraseStep ==
    ASSUME CacheInv, NEW k \in Keys, Erase(k)
    PROVE  /\ CacheInv' /\ (\A b \in Addresses : Kept(b)) /\ handle' = handle
           /\ table'[k] = Nobody
<1> DEFINE a == table[k]
<1>1. CASE a = Nobody
  <2>1. UNCHANGED << entry, table, lru, usage, handle, evicting >>
    BY <1>1 DEF Erase
  <2>2. evicting' \in Clients \cup {Nobody}
    BY <2>1 DEF CacheInv, CacheTypeOK
  <2> QED BY <1>1, <2>1, <2>2, OnlyTheMutexStep
<1>2. CASE a # Nobody
  <2>1. /\ table' = [table EXCEPT ![k] = Nobody]
        /\ lru' = ListRemove(lru, a)
        /\ entry' = Unref(entry, a)
        /\ usage' = usage - UsageWithout(entry, a)
        /\ handle' = handle /\ evicting' = evicting
    BY <1>2 DEF Erase
  <2>2. a \in Addresses /\ Listed(a) /\ entry[a].key = k
    BY <1>2, AtKey
  <2>3. /\ lru \in Seq(Addresses) /\ IsInjective(lru)
        /\ table \in [Keys -> Addresses \cup {Nobody}]
    BY DEF CacheInv, CacheTypeOK, TableFollowsList
  <2> HIDE DEF a
  <2>4. Occurs(a, lru)
    BY <2>2 DEF Listed, Occurs
  <2>5. /\ lru' \in Seq(Addresses) /\ IsInjective(lru')
        /\ \A b : Occurs(b, lru') <=> b # a /\ Occurs(b, lru)
    BY <2>1, <2>3, <2>4, RemoveOccurs
  <2>6. CacheInv' /\ \A b \in Addresses : Kept(b)
    BY <2>1, <2>2, <2>5, UnlistStep
  <2> QED BY <2>1, <2>3, <2>6
<1> QED BY <1>1, <1>2

LEMMA InsertStep ==
    ASSUME CacheInv, NEW c \in Clients, NEW k \in Keys, Insert(c, k, 1)
    PROVE  /\ CacheInv'
           /\ \E a \in Addresses : /\ entry[a] = Freed
                                   /\ entry'[a] # Freed /\ entry'[a].key = k
                                   /\ handle' = [handle EXCEPT ![c] = a]
                                   /\ \A b \in Addresses : b # a => Kept(b)
<1> DEFINE old == table[k]
           list == IF old = Nobody THEN lru ELSE ListRemove(lru, old)
<1>1. PICK a \in Addresses :
         /\ handle[c] = Nobody /\ entry[a] = Freed
         /\ LET with == [entry EXCEPT ![a] = [key |-> k, charge |-> 1, refs |-> 2]] IN
            /\ entry' = IF old = Nobody THEN with ELSE Unref(with, old)
            /\ usage' = usage + 1
                        - IF old = Nobody THEN 0 ELSE UsageWithout(entry, old)
         /\ lru' = Append(list, a)
         /\ table' = [table EXCEPT ![k] = a]
         /\ handle' = [handle EXCEPT ![c] = a]
         /\ evicting' = c
  BY DEF Insert
<1> DEFINE new  == [key |-> k, charge |-> 1, refs |-> 2]
           with == [entry EXCEPT ![a] = new]
<1>2. /\ entry \in [Addresses -> Entry] /\ lru \in Seq(Addresses) /\ IsInjective(lru)
      /\ table \in [Keys -> Addresses \cup {Nobody}] /\ usage \in Int
      /\ CacheTypeOK
  BY DEF CacheInv, CacheTypeOK, TableFollowsList
<1>3. /\ with \in [Addresses -> Entry] /\ with[a] = new
      /\ \A b \in Addresses : b # a => with[b] = entry[b]
  <2>1. new \in Entry
    BY DEF Entry
  <2> QED BY <1>2, <2>1
<1>4. old # Nobody => /\ old \in Addresses /\ Listed(old) /\ entry[old].key = k
                      /\ old # a /\ entry[old].refs >= 1
  BY <1>1, AtKey, AtAddress
<1>5. /\ entry' = IF old = Nobody THEN with ELSE Unref(with, old)
      /\ usage' = usage + 1 - IF old = Nobody THEN 0 ELSE UsageWithout(entry, old)
      /\ lru' = Append(list, a)
  BY <1>1
<1>6. /\ list \in Seq(Addresses) /\ IsInjective(list)
      /\ \A b \in Addresses : Occurs(b, list) <=> b # old /\ Listed(b)
  <2>1. CASE old = Nobody
    <3>1. list = lru /\ old \notin Addresses
      BY <2>1, LRUCacheAssumption
    <3> QED BY <1>2, <3>1 DEF Listed, Occurs
  <2>2. CASE old # Nobody
    <3>1. list = ListRemove(lru, old)
      BY <2>2
    <3>2. Occurs(old, lru)
      BY <1>4, <2>2 DEF Listed, Occurs
    <3>3. /\ list \in Seq(Addresses) /\ IsInjective(list)
          /\ \A b : Occurs(b, list) <=> b # old /\ Occurs(b, lru)
      BY <1>2, <3>1, <3>2, RemoveOccurs
    <3>4. \A b : Occurs(b, lru) <=> Listed(b)
      BY DEF Occurs, Listed
    <3> QED BY <3>3, <3>4
  <2> QED BY <2>1, <2>2
<1> HIDE DEF list, new, with
<1>7. a # old /\ ~Listed(a) /\ ~Occurs(a, list)
  BY <1>1, <1>4, <1>6, AtAddress, LRUCacheAssumption
<1>8. /\ lru' \in Seq(Addresses) /\ IsInjective(lru')
      /\ \A b \in Addresses : Occurs(b, lru') <=> b = a \/ (b # old /\ Listed(b))
  BY <1>5, <1>6, <1>7, AppendOccurs
<1>9. /\ entry' \in [Addresses -> Entry]
      /\ entry'[a] = new
      /\ \A b \in Addresses : b # a /\ b # old => entry'[b] = entry[b]
      /\ \A b \in Addresses : b = old =>
            /\ entry'[b].refs = entry[b].refs - 1
            /\ entry'[b].refs = 0 => entry'[b] = Freed
            /\ entry'[b].refs # 0 => entry'[b].key = entry[b].key
  <2>1. CASE old = Nobody
    <3>1. entry' = with /\ old \notin Addresses
      BY <1>5, <2>1, LRUCacheAssumption
    <3> QED BY <1>3, <3>1
  <2>2. CASE old # Nobody
    <3>1. entry' = Unref(with, old) /\ old \in Addresses /\ old # a
      BY <1>4, <1>5, <2>2
    <3>2. with[old] = entry[old] /\ with[old].refs >= 1
      BY <1>3, <1>4, <2>2
    <3> HIDE DEF old
    <3>3. /\ Unref(with, old) \in [Addresses -> Entry]
          /\ \A b \in Addresses : b # old => Unref(with, old)[b] = with[b]
          /\ Unref(with, old)[old].refs = with[old].refs - 1
          /\ Unref(with, old)[old].refs = 0 => Unref(with, old)[old] = Freed
          /\ Unref(with, old)[old].refs # 0 => Unref(with, old)[old].key = with[old].key
      BY <1>3, <3>1, <3>2, UnrefTakesOne
    <3> QED BY <1>3, <3>1, <3>2, <3>3
  <2> QED BY <2>1, <2>2
<1> HIDE DEF old
<1>10. new.refs = 2 /\ new.key = k /\ new # Freed
  BY DEF new, Freed
<1>11. \A b \in Addresses :
          Cardinality(HoldersOf(b)') = Cardinality(HoldersOf(b)) + IF b = a THEN 1 ELSE 0
  BY <1>1, <1>2, HandleTaken
<1>12. CacheTypeOK'
  <2>1. usage' \in Int
    BY <1>2, <1>4, <1>5 DEF UsageWithout, Entry
  <2>2. table' \in [Keys -> Addresses \cup {Nobody}]
    BY <1>1, <1>2
  <2>3. handle' \in [Clients -> Addresses \cup {Nobody}]
    BY <1>1, <1>2 DEF CacheTypeOK
  <2>4. evicting' \in Clients \cup {Nobody}
    BY <1>1
  <2> QED BY <1>8, <1>9, <2>1, <2>2, <2>3, <2>4 DEF CacheTypeOK
<1>13. ASSUME NEW b \in Addresses
       PROVE  /\ entry'[b].refs = Cardinality(HoldersOf(b)') + IF Occurs(b, lru') THEN 1 ELSE 0
              /\ entry'[b].refs = 0 => entry'[b] = Freed
              /\ b # a => Kept(b)
  <2>1. entry[b].refs = Cardinality(HoldersOf(b)) + IF Listed(b) THEN 1 ELSE 0
    BY DEF CacheInv, RefsCountHolders
  <2>2. Cardinality(HoldersOf(b)) \in Nat
    BY HoldersAreFinite
  <2>3. CASE b = a
    <3>1. entry[b].refs = 0
      BY <1>1, <2>3, AtAddress
    <3> QED BY <1>7, <1>8, <1>9, <1>10, <1>11, <2>1, <2>2, <2>3, <3>1
  <2>4. CASE b = old
    <3>1. b # a /\ Listed(b) /\ entry[b] # Freed
      BY <1>4, <2>4, AtAddress, LRUCacheAssumption
    <3>2. entry'[b].refs = Cardinality(HoldersOf(b)') + IF Occurs(b, lru') THEN 1 ELSE 0
      BY <1>8, <1>9, <1>11, <2>1, <2>2, <2>4, <3>1
    <3>3. Kept(b)
      BY <1>9, <2>4, <3>1 DEF Kept, Freed
    <3> QED BY <1>9, <2>4, <3>2, <3>3
  <2>5. CASE b # a /\ b # old
    BY <1>8, <1>9, <1>11, <2>1, <2>2, <2>5, AtAddress DEF Kept
  <2> QED BY <2>3, <2>4, <2>5
<1>14. ASSUME NEW b \in Addresses
       PROVE  /\ entry'[b] # Freed => entry'[b].key \in Keys
              /\ Occurs(b, lru') => entry'[b].key \in Keys /\ table'[entry'[b].key] = b
  <2>1. CASE b = a
    BY <1>1, <1>2, <1>9, <1>10, <2>1
  <2>2. CASE b # a
    <3>1. entry'[b] # Freed => entry'[b].key \in Keys
      BY <1>13, <2>2 DEF Kept, CacheInv, KeysKnown
    <3>2. ASSUME Occurs(b, lru')
          PROVE  entry'[b].key \in Keys /\ table'[entry'[b].key] = b
      <4>1. b # old /\ Listed(b) /\ entry'[b] = entry[b]
        BY <1>8, <1>9, <2>2, <3>2
      <4>2. entry[b].key \in Keys /\ table[entry[b].key] = b
        BY <4>1, AtAddress
      <4>3. entry[b].key # k
        BY <4>1, <4>2 DEF old
      <4> QED BY <1>1, <1>2, <4>1, <4>2, <4>3
    <3> QED BY <3>1, <3>2
  <2> QED BY <2>1, <2>2
<1>15. ASSUME NEW l \in Keys, table'[l] # Nobody
       PROVE  Occurs(table'[l], lru') /\ entry'[table'[l]].key = l
  <2>1. CASE l = k
    BY <1>1, <1>2, <1>8, <1>9, <1>10, <2>1
  <2>2. CASE l # k
    <3>1. table'[l] = table[l]
      BY <1>1, <1>2, <2>2
    <3>2. table[l] \in Addresses /\ Listed(table[l]) /\ entry[table[l]].key = l
      BY <1>15, <3>1, AtKey
    <3>3. table[l] # a /\ table[l] # old
      BY <1>4, <1>7, <2>2, <3>2, LRUCacheAssumption
    <3> QED BY <1>8, <1>9, <3>1, <3>2, <3>3
  <2> QED BY <2>1, <2>2
<1>16. CacheInv'
  BY <1>8, <1>12, <1>13, <1>14, <1>15, CacheInvAgain
<1> QED BY <1>1, <1>9, <1>10, <1>13, <1>16

-----------------------------------------------------------------------------
(* Part 2: the clients and the files *)

Present == {"pending", "live", "obsolete"}

FilesTypeOK ==
    /\ status \in [Keys -> Statuses]
    /\ pc \in [Clients -> Places]
    /\ file \in [Clients -> Keys \cup {Nobody}]
    /\ closed \in BOOLEAN

\* A client that is not idle works on a file, and from its insertion or its hit on
\* it holds the entry of that file.
ClientOK(c) ==
    /\ pc[c] = "idle" <=> file[c] = Nobody
    /\ handle[c] = Nobody <=> pc[c] \notin {"loop", "use"}
    /\ handle[c] # Nobody => entry[handle[c]].key = file[c]

ClientsOK == \A c \in Clients : ClientOK(c)

\* What a client works on has not been evicted.
PinnedPresent == \A c \in Clients : file[c] # Nobody => status[file[c]] \in Present

FilesInv == FilesTypeOK /\ ClientsOK /\ PinnedPresent /\ CachedFilesExist

TableInv == CacheInv /\ FilesInv

\* After a step that keeps CacheInv, what a client holds is in use.
LEMMA HeldInUse ==
    ASSUME CacheInv', NEW c \in Clients, NEW a \in Addresses, handle'[c] = a
    PROVE  entry'[a] # Freed
<1>1. entry'[a].refs = Cardinality(HoldersOf(a)') + IF Listed(a)' THEN 1 ELSE 0
  BY DEF CacheInv, RefsCountHolders
<1>2. c \in HoldersOf(a)'
  BY DEF HoldersOf
<1>3. Cardinality(HoldersOf(a)') # 0
  BY <1>2, HoldersAreFinite, FS_EmptySet
<1>4. entry'[a].refs # 0
  BY <1>1, <1>3, HoldersAreFinite
<1> QED BY <1>4 DEF Freed

\* A step of one client leaves the others as they are.
LEMMA OthersStay ==
    ASSUME TableInv, CacheInv', NEW c \in Clients, ClientOK(c)',
           \A d \in Clients \ {c} :
              pc'[d] = pc[d] /\ file'[d] = file[d] /\ handle'[d] = handle[d],
           \A b \in Addresses : entry[b] # Freed => Kept(b)
    PROVE  ClientsOK'
<1> SUFFICES ASSUME NEW d \in Clients \ {c} PROVE ClientOK(d)'
  BY DEF ClientsOK
<1>1. ClientOK(d) /\ pc'[d] = pc[d] /\ file'[d] = file[d] /\ handle'[d] = handle[d]
  BY DEF TableInv, FilesInv, ClientsOK
<1>2. ASSUME handle[d] # Nobody PROVE entry'[handle[d]].key = entry[handle[d]].key
  <2>1. handle[d] \in Addresses
    BY <1>2 DEF TableInv, CacheInv, CacheTypeOK
  <2>2. entry[handle[d]] # Freed
    <3>1. entry[handle[d]].refs >= 1 /\ entry[handle[d]].refs \in Nat
      BY <2>1, AtAddress DEF TableInv
    <3> QED BY <3>1 DEF Freed
  <2>3. entry'[handle[d]] # Freed
    BY <1>1, <2>1, HeldInUse
  <2> QED BY <2>1, <2>2, <2>3 DEF Kept
<1> QED BY <1>1, <1>2 DEF ClientOK

\* As long as no entry comes and no file goes, the files in the cache exist.
LEMMA CachedFilesStay ==
    ASSUME TableInv, \A b \in Addresses : Kept(b),
           \A f \in Keys : status[f] \in Present => status'[f] \in Present
    PROVE  CachedFilesExist'
<1> SUFFICES ASSUME NEW a \in Addresses, entry'[a] # Freed
             PROVE  status'[entry'[a].key] \in Present
  BY DEF CachedFilesExist, Present
<1>1. entry[a] # Freed /\ entry'[a].key = entry[a].key
  BY DEF Kept
<1>2. entry[a].key \in Keys /\ status[entry[a].key] \in Present
  BY <1>1 DEF TableInv, FilesInv, CachedFilesExist, CacheInv, KeysKnown, Present
<1> QED BY <1>1, <1>2

\* A step of one client on the cache that keeps its entries.
LEMMA ClientKeepsInv ==
    ASSUME TableInv, CacheInv', NEW c \in Clients, FilesTypeOK', ClientOK(c)',
           file'[c] # Nobody => status[file'[c]] \in Present,
           status' = status,
           \A d \in Clients \ {c} :
              pc'[d] = pc[d] /\ file'[d] = file[d] /\ handle'[d] = handle[d],
           \A b \in Addresses : Kept(b)
    PROVE  TableInv'
<1>1. ClientsOK'
  BY OthersStay
<1>2. CachedFilesExist'
  BY CachedFilesStay
<1>3. PinnedPresent'
  BY DEF TableInv, FilesInv, PinnedPresent
<1> QED BY <1>1, <1>2, <1>3 DEF TableInv, FilesInv

\* A step that leaves the cache and the clients and takes no file away.
LEMMA FilesStepKeepsInv ==
    ASSUME TableInv, UNCHANGED << cacheVars, pc, file >>,
           status' \in [Keys -> Statuses], closed' \in BOOLEAN,
           \A f \in Keys : status[f] \in Present => status'[f] \in Present
    PROVE  TableInv'
<1>1. UNCHANGED << entry, table, lru, usage, handle >> /\ evicting' = evicting
  BY DEF cacheVars
<1>2. CacheInv' /\ \A b \in Addresses : Kept(b)
  <2>1. evicting' \in Clients \cup {Nobody}
    BY <1>1 DEF TableInv, CacheInv, CacheTypeOK
  <2> QED BY <1>1, <2>1, OnlyTheMutexStep DEF TableInv
<1>3. FilesTypeOK'
  BY DEF TableInv, FilesInv, FilesTypeOK
<1>4. ClientsOK'
  BY <1>1 DEF TableInv, FilesInv, ClientsOK, ClientOK
<1>5. PinnedPresent'
  BY DEF TableInv, FilesInv, FilesTypeOK, PinnedPresent
<1>6. CachedFilesExist'
  BY <1>2, CachedFilesStay
<1> QED BY <1>2, <1>3, <1>4, <1>5, <1>6 DEF TableInv, FilesInv

LEMMA EvictObsoleteKeepsInv ==
    ASSUME TableInv, NEW f \in Keys, EvictObsolete(f)
    PROVE  TableInv'
<1>1. /\ ~Pinned(f) /\ Erase(f)
      /\ status' = [status EXCEPT ![f] = "evicted"]
      /\ pc' = pc /\ file' = file /\ closed' = closed
  BY DEF EvictObsolete
<1>2. /\ CacheInv' /\ (\A b \in Addresses : Kept(b)) /\ handle' = handle
      /\ table'[f] = Nobody
  BY <1>1, EraseStep DEF TableInv
<1>3. FilesTypeOK'
  BY <1>1 DEF TableInv, FilesInv, FilesTypeOK, Statuses
<1>4. ClientsOK'
  <2> SUFFICES ASSUME NEW c \in Clients PROVE ClientOK(c)'
    BY DEF ClientsOK
  <2>1. ClientOK(c)
    BY DEF TableInv, FilesInv, ClientsOK
  <2>2. ASSUME handle[c] # Nobody PROVE entry'[handle[c]].key = entry[handle[c]].key
    <3>1. handle[c] \in Addresses
      BY <2>2 DEF TableInv, CacheInv, CacheTypeOK
    <3>2. entry'[handle[c]] # Freed
      BY <1>2, <3>1, HeldInUse
    <3> QED BY <1>2, <3>1, <3>2 DEF Kept
  <2> QED BY <1>1, <1>2, <2>1, <2>2 DEF ClientOK
<1>5. \A c \in Clients : file[c] # f
  BY <1>1 DEF Pinned
<1>6. PinnedPresent'
  BY <1>1, <1>5 DEF TableInv, FilesInv, FilesTypeOK, PinnedPresent
<1>7. CachedFilesExist'
  <2> SUFFICES ASSUME NEW a \in Addresses, entry'[a] # Freed
               PROVE  status'[entry'[a].key] \in Present
    BY DEF CachedFilesExist, Present
  <2>1. entry[a] # Freed /\ entry'[a].key = entry[a].key
    BY <1>2 DEF Kept
  <2>2. entry[a].key \in Keys /\ status[entry[a].key] \in Present
    BY <2>1 DEF TableInv, FilesInv, CachedFilesExist, CacheInv, KeysKnown, Present
  <2>3. entry'[a].key # f
    <3>1. entry'[a].refs = Cardinality(HoldersOf(a)') + IF Listed(a)' THEN 1 ELSE 0
      BY <1>2 DEF CacheInv, RefsCountHolders
    <3>2. CASE Listed(a)'
      <4>1. table'[entry'[a].key] = a
        BY <1>2, <3>2 DEF CacheInv, TableFollowsList, Listed
      <4> QED BY <1>2, <4>1, LRUCacheAssumption
    <3>3. CASE ~Listed(a)'
      <4>1. entry'[a].refs # 0
        BY <1>2 DEF CacheInv, RefsCountHolders
      <4>2. HoldersOf(a)' # {}
        BY <3>1, <3>3, <4>1, FS_EmptySet
      <4>3. PICK c \in Clients : handle'[c] = a
        BY <4>2 DEF HoldersOf
      <4>4. entry'[a].key = file'[c]
        BY <1>4, <4>3, LRUCacheAssumption DEF ClientsOK, ClientOK
      <4> QED BY <1>1, <1>5, <4>4
    <3> QED BY <3>2, <3>3
  <2> QED BY <1>1, <2>1, <2>2, <2>3 DEF TableInv, FilesInv, FilesTypeOK
<1> QED BY <1>2, <1>3, <1>4, <1>6, <1>7 DEF TableInv, FilesInv

\* The step of a client that does not go to the cache.
LEMMA ClientMoveKeepsInv ==
    ASSUME TableInv, NEW c \in Clients, UNCHANGED << cacheVars, status, closed >>,
           NEW place \in Places, NEW f \in Keys \cup {Nobody},
           pc' = [pc EXCEPT ![c] = place], file' = [file EXCEPT ![c] = f],
           pc[c] \notin {"loop", "use"}, place \notin {"loop", "use"},
           place = "idle" <=> f = Nobody,
           f # Nobody => status[f] \in Present
    PROVE  TableInv'
<1>1. UNCHANGED << entry, table, lru, usage, handle >> /\ evicting' = evicting
      /\ status' = status /\ closed' = closed
  BY DEF cacheVars
<1>2. CacheInv' /\ \A b \in Addresses : Kept(b)
  <2>1. evicting' \in Clients \cup {Nobody}
    BY <1>1 DEF TableInv, CacheInv, CacheTypeOK
  <2> QED BY <1>1, <2>1, OnlyTheMutexStep DEF TableInv
<1>3. pc \in [Clients -> Places] /\ file \in [Clients -> Keys \cup {Nobody}] /\ ClientOK(c)
  BY DEF TableInv, FilesInv, FilesTypeOK, ClientsOK
<1>4. FilesTypeOK'
  BY <1>1, <1>3 DEF TableInv, FilesInv, FilesTypeOK
<1>5. ClientOK(c)'
  BY <1>1, <1>3 DEF ClientOK
<1> QED BY <1>1, <1>2, <1>3, <1>4, <1>5, ClientKeepsInv

\* The step of a client that keeps its file.
LEMMA ClientAdvances ==
    ASSUME TableInv, NEW c \in Clients, NEW place \in Places,
           pc' = [pc EXCEPT ![c] = place], UNCHANGED << status, file, closed >>
    PROVE  /\ FilesTypeOK'
           /\ pc'[c] = place /\ file'[c] = file[c]
           /\ file'[c] # Nobody => status[file'[c]] \in Present
           /\ \A d \in Clients \ {c} : pc'[d] = pc[d] /\ file'[d] = file[d]
BY DEF TableInv, FilesInv, FilesTypeOK, PinnedPresent

LEMMA FindCachedKeepsInv ==
    ASSUME TableInv, NEW c \in Clients, FindCached(c)
    PROVE  TableInv'
<1>1. /\ pc[c] = "find" /\ Lookup(c, file[c])
      /\ pc' = [pc EXCEPT ![c] = "use"]
      /\ UNCHANGED << status, file, closed >>
  BY DEF FindCached
<1>2. ClientOK(c) /\ file[c] \in Keys /\ table[file[c]] \in Addresses
      /\ entry[table[file[c]]].key = file[c]
  <2>1. ClientOK(c) /\ file[c] \in Keys \cup {Nobody}
    BY DEF TableInv, FilesInv, FilesTypeOK, ClientsOK
  <2>2. file[c] \in Keys
    BY <1>1, <2>1 DEF ClientOK
  <2>3. table[file[c]] # Nobody
    BY <1>1 DEF Lookup
  <2> QED BY <2>1, <2>2, <2>3, AtKey DEF TableInv
<1>3. CacheInv' /\ \A b \in Addresses : Kept(b)
  BY <1>1, <1>2, LookupStep DEF TableInv
<1>4. /\ handle' = [handle EXCEPT ![c] = table[file[c]]]
      /\ handle \in [Clients -> Addresses \cup {Nobody}]
  BY <1>1 DEF Lookup, TableInv, CacheInv, CacheTypeOK
<1>5. /\ FilesTypeOK' /\ pc'[c] = "use" /\ file'[c] = file[c]
      /\ file'[c] # Nobody => status[file'[c]] \in Present
      /\ \A d \in Clients \ {c} : pc'[d] = pc[d] /\ file'[d] = file[d]
  <2>1. "use" \in Places
    BY DEF Places
  <2> QED BY <1>1, <2>1, ClientAdvances
<1>6. entry'[handle'[c]].key = file[c] /\ handle'[c] # Nobody
  <2>1. handle'[c] = table[file[c]]
    BY <1>4
  <2>2. entry'[handle'[c]] # Freed
    BY <1>2, <1>3, <2>1, HeldInUse
  <2> QED BY <1>2, <1>3, <2>1, <2>2, LRUCacheAssumption DEF Kept
<1>7. ClientOK(c)'
  BY <1>1, <1>2, <1>5, <1>6 DEF ClientOK
<1> QED BY <1>1, <1>3, <1>4, <1>5, <1>7, ClientKeepsInv

LEMMA InsertTableKeepsInv ==
    ASSUME TableInv, NEW c \in Clients, InsertTable(c)
    PROVE  TableInv'
<1>1. /\ pc[c] = "insert" /\ Insert(c, file[c], 1)
      /\ pc' = [pc EXCEPT ![c] = "loop"]
      /\ UNCHANGED << status, file, closed >>
  BY DEF InsertTable
<1>2. ClientOK(c) /\ file[c] \in Keys
  <2>1. ClientOK(c) /\ file[c] \in Keys \cup {Nobody}
    BY DEF TableInv, FilesInv, FilesTypeOK, ClientsOK
  <2> QED BY <1>1, <2>1 DEF ClientOK
<1>3. CacheInv'
  BY <1>1, <1>2, InsertStep DEF TableInv
<1>4. PICK a \in Addresses : /\ entry[a] = Freed
                             /\ entry'[a] # Freed /\ entry'[a].key = file[c]
                             /\ handle' = [handle EXCEPT ![c] = a]
                             /\ \A b \in Addresses : b # a => Kept(b)
  BY <1>1, <1>2, InsertStep DEF TableInv
<1>5. /\ FilesTypeOK' /\ pc'[c] = "loop" /\ file'[c] = file[c]
      /\ status[file[c]] \in Present
      /\ \A d \in Clients \ {c} : pc'[d] = pc[d] /\ file'[d] = file[d]
  <2>1. "loop" \in Places
    BY DEF Places
  <2>2. file[c] # Nobody
    BY <1>2, LRUCacheAssumption
  <2> QED BY <1>1, <2>1, <2>2, ClientAdvances
<1>6. ClientOK(c)' /\ \A d \in Clients \ {c} : handle'[d] = handle[d]
  <2>1. handle \in [Clients -> Addresses \cup {Nobody}]
    BY DEF TableInv, CacheInv, CacheTypeOK
  <2> QED BY <1>2, <1>4, <1>5, <2>1, LRUCacheAssumption DEF ClientOK
<1>7. ClientsOK'
  BY <1>3, <1>4, <1>5, <1>6, OthersStay
<1>8. CachedFilesExist'
  <2> SUFFICES ASSUME NEW b \in Addresses, entry'[b] # Freed
               PROVE  status'[entry'[b].key] \in Present
    BY DEF CachedFilesExist, Present
  <2>1. CASE b = a
    BY <1>1, <1>4, <1>5, <2>1
  <2>2. CASE b # a
    BY <1>1, <1>4, <2>2 DEF Kept, TableInv, FilesInv, CachedFilesExist, Present
  <2> QED BY <2>1, <2>2
<1>9. PinnedPresent'
  BY <1>1 DEF TableInv, FilesInv, PinnedPresent
<1> QED BY <1>3, <1>5, <1>7, <1>8, <1>9 DEF TableInv, FilesInv

LEMMA EvictsKeepsInv ==
    ASSUME TableInv, NEW c \in Clients, Evicts(c)
    PROVE  TableInv'
<1>1. EvictOldest(c) /\ status' = status /\ pc' = pc /\ file' = file /\ closed' = closed
  BY DEF Evicts
<1>2. CacheInv' /\ (\A b \in Addresses : Kept(b)) /\ handle' = handle
  BY <1>1, EvictStep DEF TableInv
<1>3. FilesTypeOK'
  BY <1>1 DEF TableInv, FilesInv, FilesTypeOK
<1>4. ClientOK(c)'
  <2>1. ClientOK(c)
    BY DEF TableInv, FilesInv, ClientsOK
  <2>2. ASSUME handle[c] # Nobody PROVE entry'[handle[c]].key = entry[handle[c]].key
    <3>1. handle[c] \in Addresses
      BY <2>2 DEF TableInv, CacheInv, CacheTypeOK
    <3>2. entry'[handle[c]] # Freed
      BY <1>2, <3>1, HeldInUse
    <3> QED BY <1>2, <3>1, <3>2 DEF Kept
  <2> QED BY <1>1, <1>2, <2>1, <2>2 DEF ClientOK
<1>5. file'[c] # Nobody => status[file'[c]] \in Present
  BY <1>1 DEF TableInv, FilesInv, PinnedPresent
<1> QED BY <1>1, <1>2, <1>3, <1>4, <1>5, ClientKeepsInv

LEMMA FindReturnsKeepsInv ==
    ASSUME TableInv, NEW c \in Clients, FindReturns(c)
    PROVE  TableInv'
<1>1. /\ pc[c] = "loop" /\ pc' = [pc EXCEPT ![c] = "use"]
      /\ UNCHANGED << status, file, closed >>
      /\ UNCHANGED << entry, table, lru, usage, handle >> /\ evicting' = Nobody
  BY DEF FindReturns, InsertReturns
<1>2. CacheInv' /\ \A b \in Addresses : Kept(b)
  BY <1>1, OnlyTheMutexStep DEF TableInv
<1>3. /\ FilesTypeOK' /\ pc'[c] = "use" /\ file'[c] = file[c]
      /\ file'[c] # Nobody => status[file'[c]] \in Present
      /\ \A d \in Clients \ {c} : pc'[d] = pc[d] /\ file'[d] = file[d]
  <2>1. "use" \in Places
    BY DEF Places
  <2> QED BY <1>1, <2>1, ClientAdvances
<1>4. ClientOK(c)'
  BY <1>1, <1>3 DEF TableInv, FilesInv, ClientsOK, ClientOK
<1> QED BY <1>1, <1>2, <1>3, <1>4, ClientKeepsInv

LEMMA FinishKeepsInv ==
    ASSUME TableInv, NEW c \in Clients, Finish(c)
    PROVE  TableInv'
<1>1. /\ Release(c)
      /\ pc' = [pc EXCEPT ![c] = "idle"] /\ file' = [file EXCEPT ![c] = Nobody]
      /\ handle' = [handle EXCEPT ![c] = Nobody]
      /\ status' = status /\ closed' = closed
  BY DEF Finish, Release
<1>2. CacheInv' /\ \A b \in Addresses : Kept(b)
  BY <1>1, ReleaseStep DEF TableInv
<1>3. /\ pc \in [Clients -> Places] /\ file \in [Clients -> Keys \cup {Nobody}]
      /\ handle \in [Clients -> Addresses \cup {Nobody}]
  BY DEF TableInv, FilesInv, FilesTypeOK, CacheInv, CacheTypeOK
<1>4. FilesTypeOK'
  BY <1>1, <1>3 DEF TableInv, FilesInv, FilesTypeOK, Places
<1>5. ClientOK(c)' /\ file'[c] = Nobody
  BY <1>1, <1>3 DEF ClientOK
<1> QED BY <1>1, <1>2, <1>3, <1>4, <1>5, ClientKeepsInv

LEMMA CloseKeepsInv ==
    ASSUME TableInv, Close
    PROVE  TableInv'
<1>1. /\ \A c \in Clients : pc[c] = "idle"
      /\ entry' = [a \in Addresses |-> IF \E i \in DOMAIN lru : lru[i] = a
                                       THEN Unref(entry, a)[a] ELSE entry[a]]
      /\ table' = [k \in Keys |-> Nobody] /\ lru' = << >> /\ usage' = 0
      /\ handle' = handle /\ evicting' = evicting
      /\ status' = status /\ pc' = pc /\ file' = file /\ closed' = TRUE
  BY DEF Close, Destroy
<1>2. \A c \in Clients : handle[c] = Nobody
  BY <1>1 DEF TableInv, FilesInv, ClientsOK, ClientOK
<1>3. \A b \in Addresses : HoldersOf(b) = {} /\ HoldersOf(b)' = {}
  BY <1>1, <1>2, LRUCacheAssumption DEF HoldersOf
<1>4. Cardinality({}) = 0
  BY FS_EmptySet
<1>5. ASSUME NEW a \in Addresses PROVE entry'[a] = Freed
  <2>1. entry[a].refs = IF Listed(a) THEN 1 ELSE 0
    <3>1. entry[a].refs = Cardinality(HoldersOf(a)) + IF Listed(a) THEN 1 ELSE 0
      BY DEF TableInv, CacheInv, RefsCountHolders
    <3>2. Cardinality(HoldersOf(a)) = 0
      BY <1>3, <1>4
    <3> QED BY <3>1, <3>2
  <2>2. CASE Listed(a)
    <3>1. entry'[a] = Unref(entry, a)[a]
      BY <1>1, <2>2 DEF Listed
    <3>2. entry \in [Addresses -> Entry] /\ entry[a].refs = 1
      BY <2>1, <2>2 DEF TableInv, CacheInv, CacheTypeOK
    <3> QED BY <3>1, <3>2, UnrefTakesOne
  <2>3. CASE ~Listed(a)
    <3>1. entry'[a] = entry[a]
      BY <1>1, <2>3 DEF Listed
    <3> QED BY <2>1, <2>3, <3>1, AtAddress DEF TableInv
  <2> QED BY <2>2, <2>3
<1>6. \A b : ~Occurs(b, lru')
  BY <1>1 DEF Occurs
<1>7. CacheInv'
  <2>1. entry' \in [Addresses -> Entry]
    BY <1>1, <1>5 DEF Entry, Freed
  <2>2. CacheTypeOK'
    BY <1>1, <2>1 DEF TableInv, CacheInv, CacheTypeOK
  <2>3. IsInjective(lru')
    BY <1>1 DEF IsInjective
  <2>4. ASSUME NEW a \in Addresses
        PROVE  /\ entry'[a].refs = Cardinality(HoldersOf(a)') + IF Occurs(a, lru') THEN 1 ELSE 0
               /\ entry'[a].refs = 0 => entry'[a] = Freed
               /\ entry'[a] # Freed => entry'[a].key \in Keys
               /\ Occurs(a, lru') => entry'[a].key \in Keys /\ table'[entry'[a].key] = a
    <3>1. entry'[a] = Freed /\ entry'[a].refs = 0
      BY <1>5 DEF Freed
    <3>2. Cardinality(HoldersOf(a)') = 0
      BY <1>3, <1>4
    <3> QED BY <1>6, <3>1, <3>2
  <2>5. \A k \in Keys : table'[k] = Nobody
    BY <1>1
  <2> QED BY <2>2, <2>3, <2>4, <2>5, CacheInvAgain
<1>8. FilesInv'
  <2>1. FilesTypeOK'
    BY <1>1 DEF TableInv, FilesInv, FilesTypeOK
  <2>2. ClientsOK'
    BY <1>1, <1>2 DEF TableInv, FilesInv, ClientsOK, ClientOK
  <2>3. PinnedPresent' /\ CachedFilesExist'
    BY <1>1, <1>5 DEF TableInv, FilesInv, PinnedPresent, CachedFilesExist
  <2> QED BY <2>1, <2>2, <2>3 DEF FilesInv
<1> QED BY <1>7, <1>8 DEF TableInv

-----------------------------------------------------------------------------
(* The theorems *)

LEMMA InitHasInv == Init => TableInv
<1> SUFFICES ASSUME Init PROVE TableInv
  OBVIOUS
<1>1. /\ entry = [a \in Addresses |-> Freed] /\ table = [k \in Keys |-> Nobody]
      /\ lru = << >> /\ usage = 0 /\ handle = [c \in Clients |-> Nobody]
      /\ evicting = Nobody
      /\ status = [f \in Keys |-> "none"] /\ pc = [c \in Clients |-> "idle"]
      /\ file = [c \in Clients |-> Nobody] /\ closed = FALSE
  BY DEF Init, CacheInit
<1>2. CacheTypeOK
  BY <1>1 DEF CacheTypeOK, Entry, Freed
<1>3. RefsCountHolders
  <2> SUFFICES ASSUME NEW a \in Addresses
               PROVE  entry[a].refs = Cardinality(HoldersOf(a)) + IF Listed(a) THEN 1 ELSE 0
    BY <1>1 DEF RefsCountHolders
  <2>1. HoldersOf(a) = {}
    BY <1>1, LRUCacheAssumption DEF HoldersOf
  <2>2. ~Listed(a)
    BY <1>1 DEF Listed
  <2>3. Cardinality(HoldersOf(a)) = 0
    BY <2>1, FS_EmptySet
  <2> QED BY <1>1, <2>2, <2>3 DEF Freed
<1>4. TableFollowsList /\ KeysKnown
  BY <1>1 DEF TableFollowsList, KeysKnown, IsInjective
<1>5. FilesInv
  BY <1>1 DEF FilesInv, FilesTypeOK, ClientsOK, ClientOK, PinnedPresent, CachedFilesExist,
              Statuses, Places
<1> QED BY <1>2, <1>3, <1>4, <1>5 DEF TableInv, CacheInv

LEMMA NextKeepsInv == TableInv /\ [Next]_vars => TableInv'
<1> SUFFICES ASSUME TableInv, [Next]_vars PROVE TableInv'
  OBVIOUS
<1>0. /\ status \in [Keys -> Statuses] /\ closed \in BOOLEAN
      /\ pc \in [Clients -> Places] /\ file \in [Clients -> Keys \cup {Nobody}]
  BY DEF TableInv, FilesInv, FilesTypeOK
<1>1. ASSUME NEW f \in Keys, Create(f) PROVE TableInv'
  BY <1>0, <1>1, FilesStepKeepsInv DEF Create, Statuses, Present
<1>2. ASSUME NEW f \in Keys, Install(f) PROVE TableInv'
  <2>1. PICK inputs \in SUBSET {g \in Keys : status[g] = "live"} :
           status' = [g \in Keys |-> IF g = f THEN "live"
                                     ELSE IF g \in inputs THEN "obsolete" ELSE status[g]]
    BY <1>2 DEF Install
  <2>2. status' \in [Keys -> Statuses]
    BY <1>0, <2>1 DEF Statuses
  <2>3. \A g \in Keys : status[g] \in Present => status'[g] \in Present
    BY <2>1 DEF Present
  <2>4. UNCHANGED << cacheVars, pc, file >> /\ closed' \in BOOLEAN
    BY <1>0, <1>2 DEF Install
  <2> QED BY <2>2, <2>3, <2>4, FilesStepKeepsInv
<1>3. ASSUME NEW f \in Keys, Abandon(f) PROVE TableInv'
  BY <1>0, <1>3, FilesStepKeepsInv DEF Abandon, Statuses, Present
<1>4. ASSUME NEW f \in Keys, EvictObsolete(f) PROVE TableInv'
  BY <1>4, EvictObsoleteKeepsInv
<1>5. ASSUME NEW f \in Keys, DeleteFile(f) PROVE TableInv'
  BY <1>0, <1>5, FilesStepKeepsInv DEF DeleteFile, Statuses, Present
<1>6. ASSUME NEW c \in Clients, NEW f \in Keys, Begin(c, f) PROVE TableInv'
  <2>1. "find" \in Places /\ status[f] \in Present /\ f # Nobody
    BY <1>6, LRUCacheAssumption DEF Begin, Places, Present
  <2> QED BY <1>6, <2>1, ClientMoveKeepsInv DEF Begin
<1>7. ASSUME NEW c \in Clients, FindNothing(c) \/ Open(c) PROVE TableInv'
  <2>1. pc[c] \in {"find", "open"} /\ UNCHANGED << cacheVars, status, file, closed >>
        /\ \E place \in {"open", "insert"} : pc' = [pc EXCEPT ![c] = place]
    BY <1>7 DEF FindNothing, Open
  <2>2. PICK place \in {"open", "insert"} : pc' = [pc EXCEPT ![c] = place]
    BY <2>1
  <2>3. file[c] \in Keys /\ file[c] # Nobody /\ status[file[c]] \in Present
    BY <1>0, <2>1, LRUCacheAssumption
       DEF TableInv, FilesInv, ClientsOK, ClientOK, PinnedPresent
  <2>4. file' = [file EXCEPT ![c] = file[c]] /\ place \in Places
    BY <1>0, <2>1 DEF Places
  <2> QED BY <2>1, <2>2, <2>3, <2>4, ClientMoveKeepsInv
<1>8. ASSUME NEW c \in Clients, OpenFails(c) PROVE TableInv'
  <2>1. "idle" \in Places
    BY DEF Places
  <2> QED BY <1>8, <2>1, ClientMoveKeepsInv DEF OpenFails
<1>9. ASSUME NEW c \in Clients,
             FindCached(c) \/ InsertTable(c) \/ Evicts(c) \/ FindReturns(c) \/ Finish(c)
      PROVE  TableInv'
  BY <1>9, FindCachedKeepsInv, InsertTableKeepsInv, EvictsKeepsInv, FindReturnsKeepsInv,
     FinishKeepsInv
<1>10. CASE Close
  BY <1>10, CloseKeepsInv
<1>11. CASE UNCHANGED vars
  BY <1>0, <1>11, FilesStepKeepsInv DEF vars
<1> QED BY <1>1, <1>2, <1>3, <1>4, <1>5, <1>6, <1>7, <1>8, <1>9, <1>10, <1>11 DEF Next

LEMMA TableInvHolds == Spec => []TableInv
BY InitHasInv, NextKeepsInv, PTL DEF Spec

\* The count of an entry is the number of ways to it, whoever looks up, inserts,
\* evicts, erases and releases (LRUCache in util/cache.cc): its memory is never
\* freed under a holder and never lost.
THEOREM RefsCountHoldersAlways == Spec => []RefsCountHolders
<1>1. TableInv => RefsCountHolders
  BY DEF TableInv, CacheInv
<1> QED BY <1>1, TableInvHolds, PTL

\* The hash table and the list have the same entries (LRUCache::Insert, Erase).
THEOREM TableFollowsListAlways == Spec => []TableFollowsList
<1>1. TableInv => TableFollowsList
  BY DEF TableInv, CacheInv
<1> QED BY <1>1, TableInvHolds, PTL

\* Who uses a table has the file asked for (TableCache::FindTable).
THEOREM HandlesAreGoodAlways == Spec => []HandlesAreGood
<1>1. TableInv => HandlesAreGood
  BY DEF TableInv, FilesInv, ClientsOK, ClientOK, HandlesAreGood
<1> QED BY <1>1, TableInvHolds, PTL

\* No entry of the cache keeps a deleted file open (DBImpl::DeleteObsoleteFiles).
THEOREM CachedFilesExistAlways == Spec => []CachedFilesExist
<1>1. TableInv => CachedFilesExist
  BY DEF TableInv, FilesInv
<1> QED BY <1>1, TableInvHolds, PTL

-----------------------------------------------------------------------------
(* Part 3: the bound on open files *)

\* The addresses that entries occupy.
In(e) == {a \in Addresses : e[a] # Freed}
ChargedOne(e) == IsFiniteSet(In(e)) /\ \A a \in In(e) : e[a].charge = 1

\* usage_ is what is open, and an Insert that has returned has evicted all it could.
UsageInv ==
    /\ ChargedOne(entry)
    /\ usage = Cardinality(OpenFiles)
    /\ evicting = Nobody => usage <= Capacity \/ lru = << >>
    /\ closed => OpenFiles = {} /\ \A c \in Clients : pc[c] = "idle"

\* Ref leaves what is charged ...
LEMMA RefCharges ==
    ASSUME NEW e \in [Addresses -> Entry], NEW a \in In(e), ChargedOne(e)
    PROVE  ChargedOne(Ref(e, a)) /\ In(Ref(e, a)) = In(e)
<1> DEFINE more == [key |-> e[a].key, charge |-> e[a].charge, refs |-> e[a].refs + 1]
<1>1. Ref(e, a) = [e EXCEPT ![a] = more]
  BY DEF Ref
<1>2. e[a].refs \in Nat
  BY DEF In, Entry
<1>3. more # Freed /\ more.charge = e[a].charge
  BY <1>2 DEF Freed
<1> HIDE DEF more
<1>4. \A b \in Addresses : Ref(e, a)[b] = IF b = a THEN more ELSE e[b]
  BY <1>1
<1>5. In(Ref(e, a)) = In(e)
  BY <1>3, <1>4 DEF In
<1> QED BY <1>3, <1>4, <1>5 DEF ChargedOne, In

\* ... and Unref takes off what it frees.
LEMMA UnrefCharges ==
    ASSUME NEW e \in [Addresses -> Entry], NEW a \in Addresses, e[a].refs >= 1, ChargedOne(e)
    PROVE  /\ ChargedOne(Unref(e, a))
           /\ Cardinality(In(Unref(e, a))) = Cardinality(In(e)) - UsageWithout(e, a)
           /\ UsageWithout(e, a) \in {0, 1}
           /\ In(Unref(e, a)) \subseteq In(e)
<1>1. IsFiniteSet(In(e)) /\ Cardinality(In(e)) \in Nat
  BY FS_CardinalityType DEF ChargedOne
<1>2. e[a].refs \in Nat /\ a \in In(e) /\ e[a].charge = 1
  <2>1. e[a].refs \in Nat
    BY DEF Entry
  <2>2. a \in In(e)
    BY <2>1 DEF In, Freed
  <2> QED BY <2>1, <2>2 DEF ChargedOne
<1>3. CASE e[a].refs = 1
  <2>1. Unref(e, a) = [e EXCEPT ![a] = Freed]
    BY <1>3 DEF Unref
  <2>2. \A b \in Addresses : Unref(e, a)[b] = IF b = a THEN Freed ELSE e[b]
    BY <2>1
  <2>3. In(Unref(e, a)) = In(e) \ {a}
    BY <2>2 DEF In
  <2>4. /\ IsFiniteSet(In(e) \ {a})
        /\ Cardinality(In(e) \ {a}) = Cardinality(In(e)) - 1
    BY <1>1, <1>2, FS_RemoveElement
  <2>5. UsageWithout(e, a) = 1
    BY <1>2, <1>3 DEF UsageWithout
  <2>6. \A b \in In(e) \ {a} : Unref(e, a)[b].charge = 1
    BY <2>2 DEF In, ChargedOne
  <2> QED BY <2>3, <2>4, <2>5, <2>6 DEF ChargedOne
<1>4. CASE e[a].refs # 1
  <2> DEFINE less == [key |-> e[a].key, charge |-> e[a].charge, refs |-> e[a].refs - 1]
  <2>1. Unref(e, a) = [e EXCEPT ![a] = less]
    BY <1>4 DEF Unref
  <2>2. less # Freed /\ less.charge = 1
    BY <1>2, <1>4 DEF Freed
  <2> HIDE DEF less
  <2>3. \A b \in Addresses : Unref(e, a)[b] = IF b = a THEN less ELSE e[b]
    BY <2>1
  <2>4. In(Unref(e, a)) = In(e)
    BY <1>2, <2>2, <2>3 DEF In
  <2>5. UsageWithout(e, a) = 0
    BY <1>4 DEF UsageWithout
  <2>6. \A b \in In(e) : Unref(e, a)[b].charge = 1
    BY <2>2, <2>3 DEF In, ChargedOne
  <2> QED BY <1>1, <2>4, <2>5, <2>6 DEF ChargedOne
<1> QED BY <1>3, <1>4

\* What the invariants say together of the memory.
LEMMA UsageFacts ==
    ASSUME CacheInv, UsageInv
    PROVE  /\ entry \in [Addresses -> Entry] /\ lru \in Seq(Addresses) /\ ChargedOne(entry)
           /\ OpenFiles = In(entry) /\ OpenFiles' = In(entry')
           /\ usage = Cardinality(In(entry)) /\ usage \in Nat
           /\ \A a \in Addresses : entry[a].refs >= 1 <=> a \in In(entry)
<1>1. OpenFiles = In(entry) /\ OpenFiles' = In(entry')
  BY DEF OpenFiles, In
<1>2. Cardinality(In(entry)) \in Nat
  BY FS_CardinalityType DEF UsageInv, ChargedOne
<1>3. \A a \in Addresses : entry[a].refs >= 1 <=> a \in In(entry)
  BY AtAddress DEF In
<1> QED BY <1>1, <1>2, <1>3 DEF UsageInv, CacheInv, CacheTypeOK

\* The memory of one entry is let go of by one holder.
LEMMA UnrefKeepsUsage ==
    ASSUME CacheInv, UsageInv, NEW a \in In(entry),
           entry' = Unref(entry, a), usage' = usage - UsageWithout(entry, a)
    PROVE  /\ ChargedOne(entry') /\ usage' = Cardinality(OpenFiles')
           /\ usage' <= usage /\ usage' \in Nat
           /\ OpenFiles = {} => OpenFiles' = {}
<1>1. a \in Addresses /\ entry[a].refs >= 1
  BY UsageFacts DEF In
<1>2. /\ ChargedOne(Unref(entry, a))
      /\ Cardinality(In(Unref(entry, a))) = Cardinality(In(entry)) - UsageWithout(entry, a)
      /\ UsageWithout(entry, a) \in {0, 1}
      /\ In(Unref(entry, a)) \subseteq In(entry)
  BY <1>1, UsageFacts, UnrefCharges
<1>3. Cardinality(In(entry')) \in Nat
  BY <1>2, FS_CardinalityType DEF ChargedOne
<1> QED BY <1>2, <1>3, UsageFacts

\* A step that leaves the memory and the list, or only gives the mutex back.
LEMMA MemoryStays ==
    ASSUME UsageInv, UNCHANGED << entry, usage, lru >>,
           evicting' = Nobody => evicting = Nobody \/ usage <= Capacity \/ lru = << >>,
           closed' => closed /\ \A c \in Clients : pc'[c] = "idle"
    PROVE  UsageInv'
<1>1. OpenFiles' = OpenFiles
  BY DEF OpenFiles
<1> QED BY <1>1 DEF UsageInv

\* Erase only makes room.
LEMMA EraseKeepsUsage ==
    ASSUME CacheInv, UsageInv, NEW k \in Keys, Erase(k), ~closed'
    PROVE  UsageInv'
<1> DEFINE a == table[k]
<1>1. CASE a = Nobody
  BY <1>1, MemoryStays DEF Erase
<1>2. CASE a # Nobody
  <2>1. /\ lru' = ListRemove(lru, a) /\ entry' = Unref(entry, a)
        /\ usage' = usage - UsageWithout(entry, a)
        /\ evicting' = evicting /\ evicting = Nobody
    BY <1>2 DEF Erase
  <2>2. a \in Addresses /\ Listed(a)
    BY <1>2, AtKey
  <2>3. a \in In(entry)
    BY <2>2, UsageFacts, AtAddress
  <2>4. lru # << >>
    BY <2>2 DEF Listed
  <2> HIDE DEF a
  <2>5. ChargedOne(entry') /\ usage' = Cardinality(OpenFiles') /\ usage' <= usage /\ usage' \in Nat
    BY <2>1, <2>3, UnrefKeepsUsage
  <2>6. usage <= Capacity
    BY <2>1, <2>4 DEF UsageInv
  <2>7. usage' <= Capacity
    BY <2>5, <2>6, UsageFacts, LRUCacheAssumption
  <2> QED BY <2>5, <2>7 DEF UsageInv
<1> QED BY <1>1, <1>2

\* Lookup finds nothing once the list is empty.
LEMMA LookupKeepsUsage ==
    ASSUME CacheInv, UsageInv, NEW c \in Clients, NEW k \in Keys, Lookup(c, k), ~closed'
    PROVE  UsageInv'
<1> DEFINE a == table[k]
<1>1. a # Nobody /\ entry' = Ref(entry, a) /\ usage' = usage /\ evicting' = evicting
      /\ evicting = Nobody
  BY DEF Lookup
<1>2. a \in Addresses /\ Listed(a)
  BY <1>1, AtKey
<1>3. a \in In(entry) /\ lru # << >>
  BY <1>2, UsageFacts, AtAddress DEF Listed
<1> HIDE DEF a
<1>4. ChargedOne(entry') /\ In(entry') = In(entry)
  BY <1>1, <1>3, UsageFacts, RefCharges
<1> QED BY <1>1, <1>3, <1>4, UsageFacts DEF UsageInv

\* Release only makes room.
LEMMA ReleaseKeepsUsage ==
    ASSUME CacheInv, UsageInv, NEW c \in Clients, Release(c), ~closed'
    PROVE  UsageInv'
<1> DEFINE a == handle[c]
<1>1. /\ a # Nobody /\ entry' = Unref(entry, a) /\ usage' = usage - UsageWithout(entry, a)
      /\ lru' = lru /\ evicting' = evicting
  BY DEF Release
<1>2. a \in Addresses
  BY <1>1 DEF CacheInv, CacheTypeOK
<1>3. a \in In(entry)
  BY <1>2, UsageFacts, AtAddress
<1> HIDE DEF a
<1>4. ChargedOne(entry') /\ usage' = Cardinality(OpenFiles') /\ usage' <= usage /\ usage' \in Nat
  BY <1>1, <1>3, UnrefKeepsUsage
<1>5. evicting' = Nobody => usage' <= Capacity \/ lru' = << >>
  BY <1>1, <1>4, UsageFacts, LRUCacheAssumption DEF UsageInv
<1> QED BY <1>4, <1>5 DEF UsageInv

\* The loop of Insert takes off what it evicts ...
LEMMA EvictKeepsUsage ==
    ASSUME CacheInv, UsageInv, NEW c \in Clients, EvictOldest(c), closed' = closed, pc' = pc
    PROVE  UsageInv'
<1> DEFINE a == Head(lru)
<1>1. /\ lru # << >> /\ entry' = Unref(entry, a) /\ usage' = usage - UsageWithout(entry, a)
      /\ evicting = c /\ evicting' = evicting
  BY DEF EvictOldest
<1>2. a \in Addresses /\ Occurs(a, lru)
  BY <1>1, TailOccurs DEF CacheInv, CacheTypeOK, TableFollowsList
<1>3. a \in In(entry)
  BY <1>2, UsageFacts, AtAddress DEF Occurs, Listed
<1> HIDE DEF a
<1>4. /\ ChargedOne(entry') /\ usage' = Cardinality(OpenFiles')
      /\ OpenFiles = {} => OpenFiles' = {}
  BY <1>1, <1>3, UnrefKeepsUsage
<1>5. evicting' # Nobody
  BY <1>1, LRUCacheAssumption
<1> QED BY <1>4, <1>5 DEF UsageInv

\* ... after Insert has added one and perhaps taken off the entry it replaced.
LEMMA InsertKeepsUsage ==
    ASSUME CacheInv, UsageInv, NEW c \in Clients, NEW k \in Keys, Insert(c, k, 1), ~closed'
    PROVE  UsageInv'
<1> DEFINE old == table[k]
           new == [key |-> k, charge |-> 1, refs |-> 2]
<1>1. PICK a \in Addresses :
         /\ entry[a] = Freed
         /\ LET with == [entry EXCEPT ![a] = [key |-> k, charge |-> 1, refs |-> 2]] IN
            /\ entry' = IF old = Nobody THEN with ELSE Unref(with, old)
            /\ usage' = usage + 1 - IF old = Nobody THEN 0 ELSE UsageWithout(entry, old)
         /\ evicting' = c
  BY DEF Insert
<1> DEFINE with == [entry EXCEPT ![a] = new]
<1>2. new \in Entry /\ new # Freed /\ new.charge = 1
  BY DEF Entry, Freed
<1>3. /\ entry' = IF old = Nobody THEN with ELSE Unref(with, old)
      /\ usage' = usage + 1 - IF old = Nobody THEN 0 ELSE UsageWithout(entry, old)
  BY <1>1
<1> HIDE DEF new
<1>4. /\ with \in [Addresses -> Entry]
      /\ \A b \in Addresses : with[b] = IF b = a THEN new ELSE entry[b]
  BY <1>2, UsageFacts
<1> HIDE DEF with
<1>5. In(with) = In(entry) \cup {a} /\ a \notin In(entry)
  BY <1>1, <1>2, <1>4 DEF In
<1>6. /\ IsFiniteSet(In(with)) /\ Cardinality(In(with)) = Cardinality(In(entry)) + 1
  BY <1>5, UsageFacts, FS_AddElement DEF ChargedOne
<1>7. ChargedOne(with)
  BY <1>2, <1>4, <1>5, <1>6, UsageFacts DEF ChargedOne, In
<1>8. ChargedOne(entry') /\ usage' = Cardinality(In(entry'))
  <2>1. CASE old = Nobody
    BY <1>3, <1>6, <1>7, <2>1, UsageFacts
  <2>2. CASE old # Nobody
    <3>1. old \in Addresses /\ Listed(old)
      BY <2>2, AtKey
    <3>2. old \in In(entry) /\ entry[old].refs >= 1
      BY <3>1, UsageFacts, AtAddress
    <3> HIDE DEF old
    <3>3. with[old] = entry[old]
      BY <1>4, <1>5, <3>1, <3>2
    <3>4. /\ ChargedOne(Unref(with, old))
          /\ Cardinality(In(Unref(with, old))) = Cardinality(In(with)) - UsageWithout(with, old)
      BY <1>4, <1>7, <3>1, <3>2, <3>3, UnrefCharges
    <3>5. UsageWithout(with, old) = UsageWithout(entry, old)
      BY <3>3 DEF UsageWithout
    <3>6. UsageWithout(entry, old) \in {0, 1}
      BY <3>1, <3>2, UsageFacts, UnrefCharges
    <3> QED BY <1>3, <1>6, <2>2, <3>4, <3>5, <3>6, UsageFacts
  <2> QED BY <2>1, <2>2
<1>9. evicting' # Nobody
  BY <1>1, LRUCacheAssumption
<1> QED BY <1>8, <1>9, UsageFacts DEF UsageInv

\* With all handles released the list has the last reference of every entry.
LEMMA CloseKeepsUsage ==
    ASSUME TableInv, UsageInv, Close
    PROVE  UsageInv'
<1>1. /\ \A c \in Clients : pc[c] = "idle"
      /\ entry' = [a \in Addresses |-> IF \E i \in DOMAIN lru : lru[i] = a
                                       THEN Unref(entry, a)[a] ELSE entry[a]]
      /\ lru' = << >> /\ usage' = 0 /\ pc' = pc
  BY DEF Close, Destroy
<1>2. \A a \in Addresses : HoldersOf(a) = {}
  BY <1>1, LRUCacheAssumption DEF TableInv, FilesInv, ClientsOK, ClientOK, HoldersOf
<1>3. ASSUME NEW a \in Addresses PROVE entry'[a] = Freed
  <2>1. entry[a].refs = IF Listed(a) THEN 1 ELSE 0
    BY <1>2, FS_EmptySet DEF TableInv, CacheInv, RefsCountHolders
  <2>2. CASE Listed(a)
    <3>1. entry'[a] = Unref(entry, a)[a]
      BY <1>1, <2>2 DEF Listed
    <3>2. entry \in [Addresses -> Entry] /\ entry[a].refs = 1
      BY <2>1, <2>2 DEF TableInv, CacheInv, CacheTypeOK
    <3> QED BY <3>1, <3>2, UnrefTakesOne
  <2>3. CASE ~Listed(a)
    BY <1>1, <2>1, <2>3, AtAddress DEF TableInv, Listed
  <2> QED BY <2>2, <2>3
<1>4. OpenFiles' = {} /\ In(entry') = {}
  BY <1>3 DEF OpenFiles, In
<1>5. ChargedOne(entry') /\ usage' = Cardinality(OpenFiles')
  BY <1>1, <1>4, FS_EmptySet DEF ChargedOne
<1> QED BY <1>1, <1>4, <1>5 DEF UsageInv

\* Every step keeps the count.
LEMMA NextKeepsUsage == TableInv /\ UsageInv /\ [Next]_vars => UsageInv'
<1> SUFFICES ASSUME TableInv, UsageInv, [Next]_vars PROVE UsageInv'
  OBVIOUS
<1>0. CacheInv /\ file \in [Clients -> Keys \cup {Nobody}] /\ pc \in [Clients -> Places]
  BY DEF TableInv, FilesInv, FilesTypeOK
<1>1. \A c \in Clients : pc[c] # "idle" => file[c] \in Keys /\ ~closed
  BY <1>0 DEF TableInv, FilesInv, ClientsOK, ClientOK, UsageInv
<1>2. ASSUME NEW f \in Keys, Create(f) \/ Install(f) \/ Abandon(f) \/ DeleteFile(f)
      PROVE  UsageInv'
  <2>1. UNCHANGED << entry, usage, lru, evicting, pc, closed >>
    BY <1>2 DEF Create, Install, Abandon, DeleteFile, cacheVars
  <2> QED BY <2>1, MemoryStays DEF UsageInv
<1>3. ASSUME NEW f \in Keys, EvictObsolete(f) PROVE UsageInv'
  BY <1>0, <1>3, EraseKeepsUsage DEF EvictObsolete
<1>4. ASSUME NEW c \in Clients, NEW f \in Keys, Begin(c, f) PROVE UsageInv'
  BY <1>4, MemoryStays DEF Begin, cacheVars
<1>5. ASSUME NEW c \in Clients, FindNothing(c) \/ Open(c) \/ OpenFails(c) PROVE UsageInv'
  <2>1. ~closed' /\ UNCHANGED << entry, usage, lru, evicting >>
    BY <1>1, <1>5 DEF FindNothing, Open, OpenFails, cacheVars
  <2> QED BY <2>1, MemoryStays
<1>6. ASSUME NEW c \in Clients, FindCached(c) PROVE UsageInv'
  BY <1>0, <1>1, <1>6, LookupKeepsUsage DEF FindCached
<1>7. ASSUME NEW c \in Clients, InsertTable(c) PROVE UsageInv'
  BY <1>0, <1>1, <1>7, InsertKeepsUsage DEF InsertTable
<1>8. ASSUME NEW c \in Clients, Evicts(c) PROVE UsageInv'
  BY <1>0, <1>8, EvictKeepsUsage DEF Evicts
<1>9. ASSUME NEW c \in Clients, FindReturns(c) PROVE UsageInv'
  <2>1. ~closed' /\ UNCHANGED << entry, usage, lru >> /\ (usage <= Capacity \/ lru = << >>)
    BY <1>1, <1>9 DEF FindReturns, InsertReturns
  <2> QED BY <2>1, MemoryStays
<1>10. ASSUME NEW c \in Clients, Finish(c) PROVE UsageInv'
  BY <1>0, <1>1, <1>10, ReleaseKeepsUsage DEF Finish
<1>11. CASE Close
  BY <1>11, CloseKeepsUsage
<1>12. CASE UNCHANGED vars
  <2>1. UNCHANGED << entry, usage, lru, evicting, pc, closed >>
    BY <1>12 DEF vars, cacheVars
  <2> QED BY <2>1, MemoryStays DEF UsageInv
<1> QED BY <1>2, <1>3, <1>4, <1>5, <1>6, <1>7, <1>8, <1>9, <1>10, <1>11, <1>12 DEF Next

\* Between calls, more files are open than the cache has room for only if callers hold
\* them all, and none is when the cache is gone: usage_ counts what is open, and the loop
\* of LRUCache::Insert ends with room or with an empty list (util/cache.cc).
THEOREM OpenFilesAreBoundedAlways == Spec => []OpenFilesAreBounded
<1>1. Init => UsageInv
  <2> SUFFICES ASSUME Init PROVE UsageInv
    OBVIOUS
  <2>1. /\ entry = [a \in Addresses |-> Freed] /\ lru = << >> /\ usage = 0 /\ closed = FALSE
    BY DEF Init, CacheInit
  <2>2. In(entry) = {} /\ OpenFiles = {}
    BY <2>1 DEF In, OpenFiles
  <2> QED BY <2>1, <2>2, FS_EmptySet DEF UsageInv, ChargedOne
<1>2. TableInv /\ UsageInv => OpenFilesAreBounded
  <2> SUFFICES ASSUME TableInv, UsageInv PROVE OpenFilesAreBounded
    OBVIOUS
  <2>1. CacheInv
    BY DEF TableInv
  <2>2. ASSUME evicting = Nobody, Cardinality(OpenFiles) > Capacity, NEW a \in OpenFiles
        PROVE  HoldersOf(a) # {} /\ ~Listed(a)
    <3>1. lru = << >>
      BY <2>2, <2>1, UsageFacts, LRUCacheAssumption DEF UsageInv
    <3>2. ~Listed(a)
      BY <3>1 DEF Listed
    <3>3. a \in Addresses /\ entry[a].refs >= 1
      BY <2>1, UsageFacts DEF OpenFiles
    <3>4. entry[a].refs = Cardinality(HoldersOf(a))
      BY <2>1, <3>2, <3>3, HoldersAreFinite DEF CacheInv, RefsCountHolders
    <3>5. HoldersOf(a) # {}
      BY <3>3, <3>4, FS_EmptySet
    <3> QED BY <3>2, <3>5
  <2> QED BY <2>2 DEF OpenFilesAreBounded, UsageInv
<1> QED BY <1>1, <1>2, TableInvHolds, NextKeepsUsage, PTL DEF Spec
=============================================================================
