----------------------------- MODULE TableCache -----------------------------
(***************************************************************************)
(* The cache of open table files, with the readers, the compaction thread  *)
(* and the deletion of files that go around it.                            *)
(*     Pods/leveldb-library/db/table_cache.cc                              *)
(*     Pods/leveldb-library/db/db_impl.cc      DeleteObsoleteFiles,        *)
(*         FinishCompactionOutputFile, InstallCompactionResults            *)
(*     Pods/leveldb-library/db/version_set.cc  Version::Ref, AddLiveFiles  *)
(*                                                                         *)
(* A reader works on the files of a version it has pinned.  FindTable asks *)
(* the cache, opens the file without a lock, and inserts what it opened:   *)
(* two readers may open one file, and a file may leave the current version *)
(* meanwhile.  An entry of the cache charges 1 and holds a file open.      *)
(***************************************************************************)
EXTENDS LRUCache

CONSTANT Background  \* the client that compacts

ASSUME TableCacheAssumption == Background \in Clients

VARIABLES
    status,   \* of a table file
    pc,       \* where a client is in FindTable
    file,     \* the file number a client looks for, Nobody if none
    closed    \* the database is deleted

vars == << cacheVars, status, pc, file, closed >>

Statuses == {"none", "pending", "live", "obsolete", "evicted", "deleted"}
Places == {"idle", "find", "open", "insert", "loop", "use"}

Init ==
    /\ CacheInit
    /\ status = [f \in Keys |-> "none"]
    /\ pc = [c \in Clients |-> "idle"]
    /\ file = [c \in Clients |-> Nobody]
    /\ closed = FALSE

Pinned(f) == \E c \in Clients : file[c] = f

-----------------------------------------------------------------------------
(* Files *)

\* A file number from NewFileNumber, in pending_outputs_ until it is installed.
Create(f) ==
    /\ ~closed
    /\ status[f] = "none"
    /\ status' = [status EXCEPT ![f] = "pending"]
    /\ UNCHANGED << cacheVars, pc, file, closed >>

\* LogAndApply of a compaction: its output joins the current version, its
\* inputs leave it.
Install(f) ==
    /\ ~closed
    /\ status[f] = "pending"
    /\ pc[Background] = "idle"
    /\ \E inputs \in SUBSET {g \in Keys : status[g] = "live"} :
          status' = [g \in Keys |-> IF g = f THEN "live"
                                    ELSE IF g \in inputs THEN "obsolete" ELSE status[g]]
    /\ UNCHANGED << cacheVars, pc, file, closed >>

\* CleanupCompaction after an error.
Abandon(f) ==
    /\ ~closed
    /\ status[f] = "pending"
    /\ pc[Background] = "idle"
    /\ status' = [status EXCEPT ![f] = "obsolete"]
    /\ UNCHANGED << cacheVars, pc, file, closed >>

\* Wrong version: the file is removed without a word to the cache.
DoNotEvict(f) ==
    /\ ~closed
    /\ status[f] = "obsolete"
    /\ ~Pinned(f)
    /\ status' = [status EXCEPT ![f] = "evicted"]
    /\ UNCHANGED << cacheVars, pc, file, closed >>

\* DeleteObsoleteFiles: a file no version lists leaves the cache ..
EvictObsolete(f) ==
    /\ ~closed
    /\ status[f] = "obsolete"
    /\ ~Pinned(f)
    /\ Erase(f)
    /\ status' = [status EXCEPT ![f] = "evicted"]
    /\ UNCHANGED << pc, file, closed >>

\* .. and then the directory.
DeleteFile(f) ==
    /\ status[f] = "evicted"
    /\ status' = [status EXCEPT ![f] = "deleted"]
    /\ UNCHANGED << cacheVars, pc, file, closed >>

-----------------------------------------------------------------------------
(* Clients *)

\* Get and NewIterator reference the current version; the compaction thread
\* looks at the table it has just written.
Begin(c, f) ==
    /\ ~closed
    /\ pc[c] = "idle"
    /\ IF c = Background THEN status[f] \in {"pending", "live"} ELSE status[f] = "live"
    /\ pc' = [pc EXCEPT ![c] = "find"]
    /\ file' = [file EXCEPT ![c] = f]
    /\ UNCHANGED << cacheVars, status, closed >>

FindCached(c) ==
    /\ pc[c] = "find"
    /\ Lookup(c, file[c])
    /\ pc' = [pc EXCEPT ![c] = "use"]
    /\ UNCHANGED << status, file, closed >>

FindNothing(c) ==
    /\ pc[c] = "find"
    /\ evicting = Nobody
    /\ table[file[c]] = Nobody
    /\ pc' = [pc EXCEPT ![c] = "open"]
    /\ UNCHANGED << cacheVars, status, file, closed >>

\* NewRandomAccessFile and Table::Open.
Open(c) ==
    /\ pc[c] = "open"
    /\ status[file[c]] # "deleted"
    /\ pc' = [pc EXCEPT ![c] = "insert"]
    /\ UNCHANGED << cacheVars, status, file, closed >>

\* An error is returned and not cached.
OpenFails(c) ==
    /\ pc[c] = "open"
    /\ pc' = [pc EXCEPT ![c] = "idle"]
    /\ file' = [file EXCEPT ![c] = Nobody]
    /\ UNCHANGED << cacheVars, status, closed >>

InsertTable(c) ==
    /\ pc[c] = "insert"
    /\ Insert(c, file[c], 1)
    /\ pc' = [pc EXCEPT ![c] = "loop"]
    /\ UNCHANGED << status, file, closed >>

Evicts(c) ==
    /\ EvictOldest(c)
    /\ UNCHANGED << status, pc, file, closed >>

FindReturns(c) ==
    /\ pc[c] = "loop"
    /\ InsertReturns(c)
    /\ pc' = [pc EXCEPT ![c] = "use"]
    /\ UNCHANGED << status, file, closed >>

\* UnrefEntry of an iterator, or the end of TableCache::Get; the version is
\* released with it.
Finish(c) ==
    /\ pc[c] = "use"
    /\ Release(c)
    /\ pc' = [pc EXCEPT ![c] = "idle"]
    /\ file' = [file EXCEPT ![c] = Nobody]
    /\ UNCHANGED << status, closed >>

\* ~DBImpl deletes the cache; callers have deleted their iterators.
Close ==
    /\ ~closed
    /\ \A c \in Clients : pc[c] = "idle"
    /\ closed' = TRUE
    /\ Destroy
    /\ UNCHANGED << status, pc, file >>

-----------------------------------------------------------------------------
Next ==
    \/ \E f \in Keys : \/ Create(f)
                       \/ Install(f)
                       \/ Abandon(f)
                       \/ EvictObsolete(f)
                       \/ DeleteFile(f)
    \/ \E c \in Clients : \/ \E f \in Keys : Begin(c, f)
                          \/ FindCached(c)
                          \/ FindNothing(c)
                          \/ Open(c)
                          \/ OpenFails(c)
                          \/ InsertTable(c)
                          \/ Evicts(c)
                          \/ FindReturns(c)
                          \/ Finish(c)
    \/ Close

Spec == Init /\ [][Next]_vars

-----------------------------------------------------------------------------
TypeOK ==
    /\ CacheTypeOK
    /\ status \in [Keys -> Statuses]
    /\ pc \in [Clients -> Places]
    /\ file \in [Clients -> Keys \cup {Nobody}]
    /\ closed \in BOOLEAN

\* Whoever uses a table has the file asked for, whatever was inserted,
\* replaced, evicted and allocated in the meantime.
HandlesAreGood ==
    \A c \in Clients : pc[c] = "use" =>
        handle[c] # Nobody /\ entry[handle[c]].key = file[c]

\* No entry keeps a deleted file open, also when the file left the current
\* version while a reader was between its miss and its insertion.
CachedFilesExist ==
    \A a \in Addresses : entry[a] # Freed =>
        status[entry[a].key] \in {"pending", "live", "obsolete"}

OpenFiles == {a \in Addresses : entry[a] # Freed}

\* Between calls more files are open than the cache is for only if callers hold
\* them all, and none is open at the end: what usage_ counts is what is open.
OpenFilesAreBounded ==
    /\ evicting = Nobody /\ Cardinality(OpenFiles) > Capacity =>
           \A a \in OpenFiles : HoldersOf(a) # {} /\ ~Listed(a)
    /\ closed => OpenFiles = {}
=============================================================================
