--------------------------- MODULE SnapshotStore ---------------------------
(***************************************************************************)
(* What LevelDB promises to whoever reads it: a map that changes one key   *)
(* at a time, and snapshots that do not change at all.                     *)
(*     Pods/leveldb-library/include/leveldb/db.h  Get, GetSnapshot         *)
(*                                                                         *)
(* A value is named by the number of the write that stored it, 0 is none.  *)
(***************************************************************************)
EXTENDS Naturals

CONSTANTS Keys

VARIABLES
    last,    \* the number of the last write
    held,    \* the snapshots that have not been released
    view     \* what the map was, at the snapshots and now

storeVars == << last, held, view >>

Init ==
    /\ last = 0
    /\ held = {}
    /\ view = [s \in {0} |-> [k \in Keys |-> 0]]

\* Put or Delete of a key.
Write(k, deletion) ==
    /\ last' = last + 1
    /\ held' = held
    /\ view' = [s \in held \cup {last'} |->
                   IF s # last' THEN view[s]
                   ELSE [view[last] EXCEPT ![k] = IF deletion THEN 0 ELSE last']]

GetSnapshot ==
    /\ held' = held \cup {last}
    /\ UNCHANGED << last, view >>

ReleaseSnapshot(s) ==
    /\ held' = held \ {s}
    /\ view' = [r \in held' \cup {last} |-> view[r]]
    /\ last' = last

Next ==
    \/ \E k \in Keys, deletion \in BOOLEAN : Write(k, deletion)
    \/ GetSnapshot
    \/ \E s \in held : ReleaseSnapshot(s)

Spec == Init /\ [][Next]_storeVars
=============================================================================
