----------------------------- MODULE LogFormat -----------------------------
(***************************************************************************)
(* The format of LevelDB's write-ahead logs: records cut into fragments    *)
(* that never cross the border of a block.                                 *)
(*     Pods/leveldb-library/db/log_writer.cc   AddRecord                   *)
(*     Pods/leveldb-library/db/log_reader.cc   ReadRecord                  *)
(*                                                                         *)
(* A file is a sequence of cells, each what one byte stands for: a byte of *)
(* the header of a fragment, a byte of a record, or filling.               *)
(***************************************************************************)
EXTENDS Integers, SequencesExt

CONSTANTS
    BlockSize,     \* kBlockSize
    HeaderSize     \* kHeaderSize

ASSUME LogFormatAssumption ==
    /\ BlockSize \in Nat /\ HeaderSize \in Nat \ {0}
    /\ BlockSize > HeaderSize

\* A record is [seq, size]: a batch and its length.
HeaderCell(fragment, i) == [part |-> "header", of |-> fragment, at |-> i]
DataCell(record, i) == [part |-> "data", of |-> record, at |-> i]
Filling == [part |-> "zero"]

Least(a, b) == IF a < b THEN a ELSE b

-----------------------------------------------------------------------------
(* Writing *)

\* What goes at the end of a block that has no room for a header.
Trailer(leftover) == [i \in 1..leftover |-> Filling]

\* Wrong version: begin stays true.
TypeByEnd(begin, end) == IF end THEN "full" ELSE "first"

FragmentType(begin, end) ==
    CASE begin /\ end -> "full"
      [] begin /\ ~end -> "first"
      [] ~begin /\ end -> "last"
      [] ~begin /\ ~end -> "middle"

\* A round of the loop of AddRecord: how much is done of the record,
\* block_offset_, and all cells so far.
NextFragment(record, at) ==
    LET leftover == BlockSize - at.offset
        filled == leftover < HeaderSize
        start == IF filled THEN 0 ELSE at.offset
        length == Least(record.size - at.done, BlockSize - start - HeaderSize)
        end == at.done + length = record.size
        fragment == [of |-> record, type |-> FragmentType(at.begin, end),
                     from |-> at.done, length |-> length]
    IN [begin |-> FALSE,
        done |-> at.done + length,
        offset |-> start + HeaderSize + length,
        cells |-> at.cells \o (IF filled THEN Trailer(leftover) ELSE << >>)
                  \o [i \in 1..HeaderSize |-> HeaderCell(fragment, i)]
                  \o [i \in 1..length |-> DataCell(record, at.done + i)]]

\* AddRecord from a block_offset_ on, after so many rounds ...
Writing(record, offset) ==
    LET round[i \in Nat] ==
            IF i = 0 THEN [begin |-> TRUE, done |-> 0, offset |-> offset, cells |-> << >>]
            ELSE NextFragment(record, round[i - 1])
    IN round

\* ... and how many it takes.  All but the first do some of the record.
Rounds(record, offset) ==
    Min({i \in 1..(record.size + 1) : Writing(record, offset)[i].done = record.size})

AddRecord(record, offset) == Writing(record, offset)[Rounds(record, offset)]

-----------------------------------------------------------------------------
(* Reading *)

\* What the reader has: its position, the end of the block in buffer_, the cells
\* of the record so far (inside says that there is one), and the batches read.
StartOfFile ==
    [pos |-> 0, block |-> BlockSize, inside |-> FALSE, scratch |-> << >>, records |-> << >>]

\* ReadPhysicalRecord: what is left of a block that has no room for a header is
\* skipped, ...
Refill(file, at) ==
    IF at.block - at.pos < HeaderSize /\ at.block <= Len(file)
    THEN [at EXCEPT !.pos = at.block, !.block = at.block + BlockSize] ELSE at

\* ... then there is a fragment.  A bad one takes the rest of its block with it.
Physical(file, pos, block) ==
    LET eof == Len(file) < block
        end == Least(block, Len(file))
        fragment == file[pos + 1].of
        Header == \A i \in 1..HeaderSize :
            file[pos + i].part = "header" /\ file[pos + i].of = fragment /\ file[pos + i].at = i
        Checksum == \A i \in 1..fragment.length :
            file[pos + HeaderSize + i] = DataCell(fragment.of, fragment.from + i)
        Bad == [type |-> "bad", next |-> end, cells |-> << >>]
        Eof == [type |-> "eof", next |-> end, cells |-> << >>]
    IN IF end - pos < HeaderSize THEN Eof
       ELSE IF ~(file[pos + 1].part = "header" /\ Header) THEN Bad
       ELSE IF pos + HeaderSize + fragment.length > end THEN IF eof THEN Eof ELSE Bad
       ELSE IF ~Checksum THEN Bad
       ELSE [type |-> fragment.type,
             next |-> pos + HeaderSize + fragment.length,
             cells |-> SubSeq(file, pos + HeaderSize + 1, pos + HeaderSize + fragment.length)]

\* The records that cells read as a batch make: one, if they are all of it.
BatchOf(cells) ==
    IF cells # << >> /\ cells = [i \in 1..cells[1].of.size |-> DataCell(cells[1].of, i)]
    THEN << cells[1].of >> ELSE << >>

\* A round of the loop of ReadRecord.
NextPhysical(file, at) ==
    LET from == Refill(file, at)
        p == Physical(file, from.pos, from.block)
        goesOn == p.type = "middle" /\ at.inside
        ends == p.type = "last" /\ at.inside
    IN IF p.type = "eof" THEN at ELSE
       [pos |-> p.next,
        block |-> from.block,
        inside |-> p.type = "first" \/ goesOn,
        scratch |-> IF p.type = "first" THEN p.cells
                    ELSE IF goesOn THEN at.scratch \o p.cells ELSE << >>,
        records |-> IF p.type = "full" THEN at.records \o BatchOf(p.cells)
                    ELSE IF ends THEN at.records \o BatchOf(at.scratch \o p.cells)
                    ELSE at.records]

\* ReadRecord, again and again, until the end of the file: a round takes at
\* least a cell.
Reading(file) ==
    LET round[i \in Nat] == IF i = 0 THEN StartOfFile ELSE NextPhysical(file, round[i - 1])
    IN round

ReadRecords(file) == Reading(file)[Len(file)].records
=============================================================================
