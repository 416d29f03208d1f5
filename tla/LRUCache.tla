------------------------------ MODULE LRUCache ------------------------------
(***************************************************************************)
(* One shard of LevelDB's cache of reference-counted entries.              *)
(*     Pods/leveldb-library/util/cache.cc                                  *)
(*                                                                         *)
(* An entry is reachable in three ways: by the hash table, by the list in  *)
(* order of use, and by the handles callers have not released.  The list   *)
(* and a handle each count for one reference; the last one frees the       *)
(* memory, which malloc may give to another entry.  Every operation runs   *)
(* under the mutex of the shard.  Insert is one that loops: it is a step   *)
(* to begin with, a step per entry it evicts, and a step to return.        *)
(***************************************************************************)
EXTENDS Integers, FiniteSets, SequencesExt

CONSTANTS
    Keys,
    Addresses,  \* where malloc puts entries
    Clients,    \* threads; each holds at most one handle
    Nobody,     \* no client, no address, no key
    Capacity

ASSUME LRUCacheAssumption ==
    /\ IsFiniteSet(Clients)
    /\ Nobody \notin Keys \cup Addresses \cup Clients
    /\ Capacity \in Nat

VARIABLES
    entry,    \* what is at an address
    table,    \* table_: the address of a key's entry
    lru,      \* the addresses from lru_.next, the oldest, to lru_.prev
    usage,    \* usage_
    handle,   \* the handle a client holds
    evicting  \* the client whose Insert has the mutex

cacheVars == << entry, table, lru, usage, handle, evicting >>

Freed == [key |-> Nobody, charge |-> 0, refs |-> 0]
Entry == [key : Keys \cup {Nobody}, charge : Nat, refs : Nat]

CacheInit ==
    /\ entry = [a \in Addresses |-> Freed]
    /\ table = [k \in Keys |-> Nobody]
    /\ lru = << >>
    /\ usage = 0
    /\ handle = [c \in Clients |-> Nobody]
    /\ evicting = Nobody

-----------------------------------------------------------------------------
\* The entries after refs++ of the entry at an address.
Ref(entries, a) ==
    LET e == entries[a]
    IN  [entries EXCEPT ![a] = [key |-> e.key, charge |-> e.charge, refs |-> e.refs + 1]]

\* Wrong version: the memory is freed under a second holder.
UnrefFrees(entries, a) == [entries EXCEPT ![a] = Freed]

\* The entries and the usage after Unref of the entry at an address.
Unref(entries, a) ==
    LET e    == entries[a]
        less == [key |-> e.key, charge |-> e.charge, refs |-> e.refs - 1]
    IN  [entries EXCEPT ![a] = IF e.refs = 1 THEN Freed ELSE less]

UsageWithout(entries, a) == IF entries[a].refs = 1 THEN entries[a].charge ELSE 0

ListRemove(list, a) == RemoveAt(list, SelectInSeq(list, LAMBDA b : b = a))

\* Wrong version: Lookup hands an entry out without counting the handle.
LookupUncounted(c, k) ==
    LET a == table[k] IN
    /\ evicting = Nobody
    /\ handle[c] = Nobody
    /\ a # Nobody
    /\ lru' = Append(ListRemove(lru, a), a)
    /\ handle' = [handle EXCEPT ![c] = a]
    /\ UNCHANGED << entry, table, usage, evicting >>

\* Lookup of a key that has an entry, which becomes the newest.
Lookup(c, k) ==
    LET a == table[k] IN
    /\ evicting = Nobody
    /\ handle[c] = Nobody
    /\ a # Nobody
    /\ entry' = Ref(entry, a)
    /\ lru' = Append(ListRemove(lru, a), a)
    /\ handle' = [handle EXCEPT ![c] = a]
    /\ UNCHANGED << table, usage, evicting >>

Release(c) ==
    LET a == handle[c] IN
    /\ evicting = Nobody
    /\ a # Nobody
    /\ entry' = Unref(entry, a)
    /\ usage' = usage - UsageWithout(entry, a)
    /\ handle' = [handle EXCEPT ![c] = Nobody]
    /\ UNCHANGED << table, lru, evicting >>

\* Insert up to its loop: a new entry, referenced by the list and by the
\* handle to be returned, takes the place of an entry of the same key.
Insert(c, k, charge) ==
    LET old == table[k] IN
    \E a \in Addresses :
        /\ evicting = Nobody
        /\ handle[c] = Nobody
        /\ entry[a] = Freed
        /\ LET with == [entry EXCEPT ![a] = [key |-> k, charge |-> charge, refs |-> 2]] IN
           /\ entry' = IF old = Nobody THEN with ELSE Unref(with, old)
           /\ usage' = usage + charge
                       - IF old = Nobody THEN 0 ELSE UsageWithout(entry, old)
        /\ lru' = Append(IF old = Nobody THEN lru ELSE ListRemove(lru, old), a)
        /\ table' = [table EXCEPT ![k] = a]
        /\ handle' = [handle EXCEPT ![c] = a]
        /\ evicting' = c

\* The body of Insert's loop.  The oldest entry goes though somebody may hold
\* it, the new one too if it is alone.
EvictOldest(c) ==
    LET a == Head(lru) IN
    /\ evicting = c
    /\ usage > Capacity
    /\ lru # << >>
    /\ lru' = Tail(lru)
    /\ table' = [table EXCEPT ![entry[a].key] = Nobody]
    /\ entry' = Unref(entry, a)
    /\ usage' = usage - UsageWithout(entry, a)
    /\ UNCHANGED << handle, evicting >>

\* Wrong version: a single entry is evicted at most.
InsertReturnsEarly(c) ==
    /\ evicting = c
    /\ evicting' = Nobody
    /\ UNCHANGED << entry, table, lru, usage, handle >>

InsertReturns(c) ==
    /\ evicting = c
    /\ usage <= Capacity \/ lru = << >>
    /\ evicting' = Nobody
    /\ UNCHANGED << entry, table, lru, usage, handle >>

\* Erase, of a key with an entry and of a key without.
Erase(k) ==
    LET a == table[k] IN
    /\ evicting = Nobody
    /\ IF a = Nobody
       THEN UNCHANGED << entry, table, lru, usage >>
       ELSE /\ table' = [table EXCEPT ![k] = Nobody]
            /\ lru' = ListRemove(lru, a)
            /\ entry' = Unref(entry, a)
            /\ usage' = usage - UsageWithout(entry, a)
    /\ UNCHANGED << handle, evicting >>

\* ~LRUCache, which trusts that no handle is left.
Destroy ==
    /\ evicting = Nobody
    /\ entry' = [a \in Addresses |-> IF \E i \in DOMAIN lru : lru[i] = a
                                     THEN Unref(entry, a)[a] ELSE entry[a]]
    /\ table' = [k \in Keys |-> Nobody]
    /\ lru' = << >>
    /\ usage' = 0
    /\ UNCHANGED << handle, evicting >>

-----------------------------------------------------------------------------
Listed(a) == \E i \in DOMAIN lru : lru[i] = a
HoldersOf(a) == {c \in Clients : handle[c] = a}

CacheTypeOK ==
    /\ entry \in [Addresses -> Entry]
    /\ table \in [Keys -> Addresses \cup {Nobody}]
    /\ lru \in Seq(Addresses)
    /\ usage \in Int
    /\ handle \in [Clients -> Addresses \cup {Nobody}]
    /\ evicting \in Clients \cup {Nobody}

\* The count of an entry is the number of handles to it, and one more while
\* it is in the list; so memory is freed exactly when nothing leads to it.
RefsCountHolders ==
    \A a \in Addresses :
        /\ entry[a].refs = Cardinality(HoldersOf(a)) + IF Listed(a) THEN 1 ELSE 0
        /\ entry[a].refs = 0 => entry[a] = Freed

\* The list and the table hold the same entries, each once and under its key:
\* no entry can be found that will not be evicted, nor the other way round.
TableFollowsList ==
    /\ IsInjective(lru)
    /\ \A k \in Keys : table[k] # Nobody => Listed(table[k]) /\ entry[table[k]].key = k
    /\ \A i \in DOMAIN lru : /\ entry[lru[i]].key \in Keys
                             /\ table[entry[lru[i]].key] = lru[i]
=============================================================================
