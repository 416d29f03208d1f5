----------------------------- MODULE MCLsmTree -----------------------------
(***************************************************************************)
(* Three levels and three keys for TLC.  A compaction leaves one entry of  *)
(* a key when nobody holds a snapshot, and may leave more when somebody    *)
(* does.                                                                   *)
(***************************************************************************)
EXTENDS LsmTree

SmallFiles == [fileSize |-> 1, snapshots |-> 0, writes |-> 4]
LargeFiles == [fileSize |-> 9, snapshots |-> 0, writes |-> 4]
HeldFiles == [fileSize |-> 9, snapshots |-> 2, writes |-> 3]

UsualLoads == {SmallFiles, LargeFiles, HeldFiles}
SmallFilesHeld == {[fileSize |-> 1, snapshots |-> 1, writes |-> 4]}
OneByte == [l \in {1} |-> 1]
=============================================================================
