--------------------------- MODULE Recovery_proofs ----------------------------
(***************************************************************************)
(* What LevelDB promises to keep is on disk after any crash, and there to  *)
(* be read when the database is open, for any sizes of batches and write   *)
(* buffers and any numbers of writes, crashes and failing appends.         *)
(*                                                                         *)
(* The invariant IInv says of every edit of the descriptor in use that a   *)
(* crash may leave as its last one (Standing) that its tables are there,   *)
(* and that what is promised of a machine crash is in them or in the       *)
(* synced part of a log that edit has recovery read; and of the last edit  *)
(* the same for what is promised of the death of the process.              *)
(*                                                                         *)
(* Before that: a log reads back as the records that were added to it, and *)
(* one cut short as the first of them, whatever the sizes of blocks,       *)
(* headers and records, and however many records there are.                *)
(***************************************************************************)
EXTENDS Recovery, SequenceLemmas, FiniteSetTheorems

Record == [seq : Nat \ {0}, size : Nat \ {0}]
Fragment == [of : Record, type : {"full", "first", "middle", "last"}, from : Nat, length : Nat]
Cell == [part : {"header"}, of : Fragment, at : Nat]
        \cup [part : {"data"}, of : Record, at : Nat] \cup {Filling}

WriterState(record) ==
    [begin : BOOLEAN, done : 0..record.size, offset : 0..BlockSize, cells : Seq(Cell)]
ReaderState ==
    [pos : Nat, block : Nat, inside : BOOLEAN, scratch : Seq(Cell), records : Seq(Record)]

\* The sizes of blocks and headers, as numbers.
LEMMA Constants == BlockSize \in Nat /\ HeaderSize \in Nat /\ HeaderSize >= 1 /\ BlockSize > HeaderSize
BY LogFormatAssumption

\* Sequences of cells may be joined in any grouping ...
LEMMA JoinAssociates == \A s, t, u \in Seq(Cell) : (s \o t) \o u = s \o (t \o u)
BY ConcatAssociative

\* ... and stay sequences of cells.
LEMMA JoinIsSeq == \A s, t \in Seq(Cell) : s \o t \in Seq(Cell)
BY ConcatProperties

-----------------------------------------------------------------------------
(* The writer *)

\* What a round adds: a trailer if need be, a header, and some of the record.
Fill(at) == IF BlockSize - at.offset < HeaderSize THEN BlockSize - at.offset ELSE 0
From(at) == IF BlockSize - at.offset < HeaderSize THEN 0 ELSE at.offset
Taken(record, at) == Least(record.size - at.done, BlockSize - From(at) - HeaderSize)
Piece(record, at) ==
    [of |-> record, type |-> FragmentType(at.begin, at.done + Taken(record, at) = record.size),
     from |-> at.done, length |-> Taken(record, at)]

\* A round of AddRecord takes a fragment out of the record.
LEMMA PieceIsFragment ==
    ASSUME NEW record \in Record, NEW at \in WriterState(record)
    PROVE  /\ Fill(at) \in Nat
           /\ From(at) \in 0..(BlockSize - HeaderSize)
           /\ Taken(record, at) \in 0..(record.size - at.done)
           /\ Taken(record, at) <= BlockSize - From(at) - HeaderSize
           /\ Piece(record, at) \in Fragment
<1>1. /\ record.size \in Nat /\ at.done \in 0..record.size /\ at.offset \in 0..BlockSize
      /\ at.begin \in BOOLEAN
  BY DEF Record, WriterState
<1>2. Fill(at) \in Nat /\ From(at) \in 0..(BlockSize - HeaderSize)
  BY <1>1, Constants DEF Fill, From
<1>3. /\ Taken(record, at) \in 0..(record.size - at.done)
      /\ Taken(record, at) <= BlockSize - From(at) - HeaderSize
  BY <1>1, <1>2, Constants DEF Taken, Least
<1>4. FragmentType(at.begin, at.done + Taken(record, at) = record.size)
         \in {"full", "first", "middle", "last"}
  BY <1>1 DEF FragmentType
<1>5. Taken(record, at) \in Nat /\ at.done \in Nat
  BY <1>1, <1>3
<1> QED BY <1>2, <1>3, <1>4, <1>5 DEF Piece, Fragment

\* The cells a round adds, one by one.
LEMMA RoundAdds ==
    ASSUME NEW record \in Record, NEW at \in WriterState(record)
    PROVE  /\ NextFragment(record, at) \in WriterState(record)
           /\ NextFragment(record, at).begin = FALSE
           /\ NextFragment(record, at).done = at.done + Taken(record, at)
           /\ NextFragment(record, at).offset = From(at) + HeaderSize + Taken(record, at)
           /\ \E new \in Seq(Cell) :
                 /\ NextFragment(record, at).cells = at.cells \o new
                 /\ Len(new) = Fill(at) + HeaderSize + Taken(record, at)
                 /\ \A i \in 1..HeaderSize : new[Fill(at) + i] = HeaderCell(Piece(record, at), i)
                 /\ \A i \in 1..Taken(record, at) :
                       new[Fill(at) + HeaderSize + i] = DataCell(record, at.done + i)
<1> DEFINE fill == Fill(at)
           taken == Taken(record, at)
           piece == Piece(record, at)
           trailer == IF BlockSize - at.offset < HeaderSize
                      THEN Trailer(BlockSize - at.offset) ELSE << >>
           header == [i \in 1..HeaderSize |-> HeaderCell(piece, i)]
           data == [i \in 1..taken |-> DataCell(record, at.done + i)]
           next == NextFragment(record, at)
<1>1. /\ record.size \in Nat /\ at.done \in 0..record.size /\ at.offset \in 0..BlockSize
      /\ at.cells \in Seq(Cell) /\ at.done \in Nat
  BY DEF Record, WriterState
<1>2. /\ fill \in Nat /\ taken \in Nat /\ taken \in 0..(record.size - at.done)
      /\ taken <= BlockSize - From(at) - HeaderSize /\ From(at) \in 0..(BlockSize - HeaderSize)
      /\ piece \in Fragment
  BY <1>1, PieceIsFragment
<1>3. /\ next.begin = FALSE /\ next.done = at.done + taken
      /\ next.offset = From(at) + HeaderSize + taken
      /\ next.cells = ((at.cells \o trailer) \o header) \o data
      /\ next = [begin |-> FALSE, done |-> at.done + taken,
                 offset |-> From(at) + HeaderSize + taken,
                 cells |-> ((at.cells \o trailer) \o header) \o data]
  BY DEF NextFragment, Fill, From, Taken, Piece
<1>4. trailer \in Seq(Cell) /\ Len(trailer) = fill
  <2>1. CASE BlockSize - at.offset < HeaderSize
    <3>1. Filling \in Cell
      BY DEF Cell
    <3>2. BlockSize - at.offset \in Nat
      BY <1>1, Constants
    <3> QED BY <2>1, <3>1, <3>2 DEF Trailer, Fill
  <2>2. CASE ~(BlockSize - at.offset < HeaderSize)
    BY <2>2 DEF Fill
  <2> QED BY <2>1, <2>2
<1>5. header \in Seq(Cell) /\ Len(header) = HeaderSize
  <2>1. \A i \in 1..HeaderSize : HeaderCell(piece, i) \in Cell
    BY <1>2 DEF HeaderCell, Cell
  <2> QED BY <2>1, Constants
<1>6. data \in Seq(Cell) /\ Len(data) = taken
  <2>1. \A i \in 1..taken : DataCell(record, at.done + i) \in Cell
    BY <1>1, <1>2 DEF DataCell, Cell
  <2> HIDE DEF taken
  <2> QED BY <2>1, <1>2
<1> HIDE DEF trailer, next
<1> DEFINE new == (trailer \o header) \o data
<1>7. new \in Seq(Cell) /\ Len(new) = fill + HeaderSize + taken
  <2> HIDE DEF fill, taken, header, data
  <2> QED BY <1>4, <1>5, <1>6
<1>8. next.cells = at.cells \o new
  <2> HIDE DEF header, data
  <2>1. (at.cells \o trailer) \o header = at.cells \o (trailer \o header)
    BY <1>1, <1>4, <1>5, JoinAssociates, Zenon
  <2>2. (at.cells \o (trailer \o header)) \o data = at.cells \o ((trailer \o header) \o data)
    <3>1. trailer \o header \in Seq(Cell)
      BY <1>4, <1>5, ConcatProperties
    <3> QED BY <1>1, <1>6, <3>1, JoinAssociates, Zenon
  <2> QED BY <1>3, <2>1, <2>2
<1>9. ASSUME NEW i \in 1..HeaderSize PROVE new[fill + i] = HeaderCell(piece, i)
  <2>1. header[i] = HeaderCell(piece, i)
    OBVIOUS
  <2> HIDE DEF fill, taken, header, data, piece
  <2>2. trailer \o header \in Seq(Cell) /\ Len(trailer \o header) = fill + HeaderSize
    BY <1>4, <1>5, ConcatProperties
  <2>3. fill \in Nat /\ taken \in Nat /\ HeaderSize \in Nat
    BY <1>2, Constants
  <2>4. /\ fill + i \in 1..(fill + HeaderSize + taken) /\ fill + i <= fill + HeaderSize
        /\ fill + i \in 1..(fill + HeaderSize) /\ ~(fill + i <= fill) /\ (fill + i) - fill = i
    BY <2>3
  <2>5. new[fill + i] = (trailer \o header)[fill + i]
    BY <1>6, <2>2, <2>4, ConcatProperties
  <2>6. (trailer \o header)[fill + i] = header[i]
    BY <1>4, <1>5, <2>4, ConcatProperties
  <2> QED BY <2>1, <2>5, <2>6
<1>10. ASSUME NEW i \in 1..taken PROVE new[fill + HeaderSize + i] = DataCell(record, at.done + i)
  <2>1. data[i] = DataCell(record, at.done + i)
    OBVIOUS
  <2> HIDE DEF fill, taken, header, data, piece
  <2>2. /\ trailer \o header \in Seq(Cell)
        /\ Len(trailer \o header) = fill + HeaderSize
    BY <1>4, <1>5
  <2>3. /\ fill + HeaderSize + i \in 1..(Len(trailer \o header) + Len(data))
        /\ ~(fill + HeaderSize + i <= Len(trailer \o header))
        /\ (fill + HeaderSize + i) - Len(trailer \o header) = i
    <3> HIDE DEF new
    <3>1. taken \in Nat /\ fill \in Nat /\ HeaderSize \in Nat
      BY <1>2, Constants
    <3> QED BY <1>6, <2>2, <3>1
  <2>4. new[fill + HeaderSize + i] = data[i]
    BY <1>6, <2>2, <2>3, ConcatProperties
  <2> QED BY <2>1, <2>4
<1>11. next \in WriterState(record)
  <2> HIDE DEF new, taken, data, header, fill, piece
  <2>1. next.cells \in Seq(Cell)
    BY <1>1, <1>7, <1>8, ConcatProperties
  <2>2. /\ at.done + taken \in 0..record.size
        /\ From(at) + HeaderSize + taken \in 0..BlockSize
    <3>1. at.done + taken \in 0..record.size
      BY <1>1, <1>2
    <3>2. From(at) + HeaderSize + taken \in 0..BlockSize
      BY <1>2, Constants
    <3> QED BY <3>1, <3>2
  <2> QED BY <1>3, <2>1, <2>2 DEF WriterState
<1> QED BY <1>3, <1>7, <1>8, <1>9, <1>10, <1>11 DEF new, next

\* The rounds are what the loop says.
LEMMA WritingIs ==
    ASSUME NEW record \in Record, NEW offset \in 0..BlockSize
    PROVE  /\ Writing(record, offset) \in [Nat -> WriterState(record)]
           /\ Writing(record, offset)[0]
                 = [begin |-> TRUE, done |-> 0, offset |-> offset, cells |-> << >>]
           /\ \A i \in Nat : Writing(record, offset)[i + 1]
                                = NextFragment(record, Writing(record, offset)[i])
<1> DEFINE S == WriterState(record)
           first == [begin |-> TRUE, done |-> 0, offset |-> offset, cells |-> << >>]
           step == [at \in S |-> NextFragment(record, at)]
           IsIt(f) == f = [i \in Nat |-> IF i = 0 THEN first ELSE NextFragment(record, f[i - 1])]
<1>1. first \in S
  BY DEF WriterState, Record
<1>2. step \in [S -> S]
  BY RoundAdds
<1> HIDE DEF S, first, step
<1>3. PICK f \in [Nat -> S] : f[0] = first /\ \A i \in Nat : f[i + 1] = step[f[i]]
  <2>1. \E f : Recursive(f, S, first, step)
    BY <1>1, <1>2, RecursiveExists, Zenon
  <2> QED BY <2>1 DEF Recursive
<1>4. IsIt(f)
  <2>1. \A i \in Nat : f[i] = IF i = 0 THEN first ELSE step[f[i - 1]]
    <3>1. \A i \in Nat \ {0} : i - 1 \in Nat /\ (i - 1) + 1 = i
      OBVIOUS
    <3> QED BY <1>3, <3>1
  <2>2. \A i \in Nat \ {0} : f[i - 1] \in S
    <3>1. \A i \in Nat \ {0} : i - 1 \in Nat
      OBVIOUS
    <3> QED BY <3>1
  <2>3. \A i \in Nat : f[i] = IF i = 0 THEN first ELSE NextFragment(record, f[i - 1])
    BY <2>1, <2>2 DEF step
  <2> QED BY <1>3, <2>3
<1>5. Writing(record, offset) = CHOOSE g : IsIt(g)
  BY DEF Writing, first
<1>6. IsIt(Writing(record, offset))
  BY <1>4, <1>5
<1> DEFINE g == Writing(record, offset)
<1> HIDE DEF g
<1>7. g = [i \in Nat |-> IF i = 0 THEN first ELSE NextFragment(record, g[i - 1])]
  BY <1>6 DEF g
<1>8. g[0] = first /\ \A i \in Nat : g[i + 1] = NextFragment(record, g[i])
  <2>1. \A i \in Nat : i + 1 \in Nat /\ i + 1 # 0 /\ (i + 1) - 1 = i
    OBVIOUS
  <2> QED BY <1>7, <2>1
<1>9. \A i \in Nat : g[i] \in S
  <2> DEFINE P == {i \in Nat : g[i] \in S}
  <2>1. 0 \in P
    BY <1>1, <1>8
  <2>2. \A i \in P : i + 1 \in P
    <3>1. \A at \in S : NextFragment(record, at) \in S
      BY RoundAdds DEF S
    <3> QED BY <1>8, <3>1
  <2> HIDE DEF P
  <2>3. P = Nat
    BY <2>1, <2>2, InductionOnNat DEF P
  <2> QED BY <2>3 DEF P
<1>10. g \in [Nat -> S]
  BY <1>7, <1>9
<1> QED BY <1>8, <1>10 DEF g, S, first

(* The reader *)

HasHeader(file, pos) ==
    /\ file[pos + 1].part = "header"
    /\ \A i \in 1..HeaderSize :
          /\ file[pos + i].part = "header"
          /\ file[pos + i].of = file[pos + 1].of /\ file[pos + i].at = i
HasChecksum(file, pos) ==
    \A i \in 1..file[pos + 1].of.length :
        file[pos + HeaderSize + i]
            = DataCell(file[pos + 1].of.of, file[pos + 1].of.from + i)
EndOf(file, block) == Least(block, Len(file))
NoFragment(type, file, block) == [type |-> type, next |-> EndOf(file, block), cells |-> << >>]
FragmentAt(file, pos) ==
    [type |-> file[pos + 1].of.type,
     next |-> pos + HeaderSize + file[pos + 1].of.length,
     cells |-> SubSeq(file, pos + HeaderSize + 1, pos + HeaderSize + file[pos + 1].of.length)]

\* Cells are told apart by their part.
LEMMA CellParts ==
    ASSUME NEW c \in Cell
    PROVE  /\ c.part = "header" => c.of \in Fragment
           /\ c.part = "data" => c.of \in Record
<1>1. "header" # "data" /\ "header" # "zero" /\ "data" # "zero"
  OBVIOUS
<1> QED BY <1>1 DEF Cell, Filling

\* Physical in these words.
LEMMA PhysicalIs ==
    \A file, pos, block :
       Physical(file, pos, block) =
          IF EndOf(file, block) - pos < HeaderSize THEN NoFragment("eof", file, block)
          ELSE IF ~HasHeader(file, pos) THEN NoFragment("bad", file, block)
          ELSE IF pos + HeaderSize + file[pos + 1].of.length > EndOf(file, block)
               THEN IF Len(file) < block THEN NoFragment("eof", file, block)
                    ELSE NoFragment("bad", file, block)
          ELSE IF ~HasChecksum(file, pos) THEN NoFragment("bad", file, block)
          ELSE FragmentAt(file, pos)
BY DEF Physical, HasHeader, HasChecksum, EndOf, NoFragment, FragmentAt

\* The first cell of a header says which fragment it is of.
LEMMA HeaderIsFragment ==
    ASSUME NEW file \in Seq(Cell), NEW pos \in Nat, HasHeader(file, pos), pos + 1 <= Len(file)
    PROVE  file[pos + 1].of \in Fragment
<1>1. file[pos + 1] \in Cell
  BY ElementOfSeq
<1> QED BY <1>1, CellParts DEF HasHeader

\* ReadPhysicalRecord gives back cells of the file and does not go back in it.
LEMMA PhysicalType ==
    ASSUME NEW file \in Seq(Cell), NEW pos \in Nat, NEW block \in Nat
    PROVE  /\ Physical(file, pos, block).type \in {"eof", "bad", "full", "first", "middle", "last"}
           /\ Physical(file, pos, block).next \in Nat
           /\ Physical(file, pos, block).cells \in Seq(Cell)
<1> DEFINE p == Physical(file, pos, block)
<1>0. Len(file) \in Nat
  OBVIOUS
<1>1. EndOf(file, block) \in Nat /\ EndOf(file, block) <= Len(file)
  BY <1>0 DEF EndOf, Least
<1>2. \A type \in {"eof", "bad"} :
         /\ NoFragment(type, file, block).type \in {"eof", "bad"}
         /\ NoFragment(type, file, block).next \in Nat
         /\ NoFragment(type, file, block).cells \in Seq(Cell)
  BY <1>1 DEF NoFragment
<1>3. CASE p \in {NoFragment("eof", file, block), NoFragment("bad", file, block)}
  BY <1>2, <1>3
<1>4. CASE /\ p = FragmentAt(file, pos) /\ HasHeader(file, pos)
           /\ ~(EndOf(file, block) - pos < HeaderSize)
           /\ ~(pos + HeaderSize + file[pos + 1].of.length > EndOf(file, block))
  <2> DEFINE fragment == file[pos + 1].of
  <2>1. pos + 1 <= Len(file)
    BY <1>0, <1>1, <1>4, Constants
  <2>2. fragment \in Fragment
    BY <1>4, <2>1, HeaderIsFragment
  <2>3. fragment.length \in Nat /\ fragment.type \in {"full", "first", "middle", "last"}
    BY <2>2 DEF Fragment
  <2>4. /\ p.type = fragment.type
        /\ p.next = pos + HeaderSize + fragment.length
        /\ p.cells = SubSeq(file, pos + HeaderSize + 1, pos + HeaderSize + fragment.length)
    <3> DEFINE type == file[pos + 1].of.type
               next == pos + HeaderSize + file[pos + 1].of.length
               cells == SubSeq(file, pos + HeaderSize + 1, next)
    <3>1. p = [type |-> type, next |-> next, cells |-> cells]
      BY <1>4 DEF FragmentAt
    <3>2. p.type = type /\ p.next = next /\ p.cells = cells
      <4> HIDE DEF p, type, next, cells
      <4> QED BY <3>1
    <3> QED BY <3>2
  <2>5. pos + HeaderSize + fragment.length <= Len(file)
    BY <1>0, <1>1, <1>4, <2>3, Constants
  <2> HIDE DEF fragment, p
  <2>6. \A i \in (pos + HeaderSize + 1)..(pos + HeaderSize + fragment.length) : file[i] \in Cell
    BY <1>0, <2>3, <2>5, Constants, ElementOfSeq
  <2>7. p.cells \in Seq(Cell)
    <3>1. pos + HeaderSize + 1 \in Int /\ pos + HeaderSize + fragment.length \in Int
      BY <2>3, Constants
    <3> QED BY <2>4, <2>6, <3>1, SubSeqProperties
  <2> QED BY <2>3, <2>4, <2>7, Constants DEF p
<1>5. \/ p \in {NoFragment("eof", file, block), NoFragment("bad", file, block)}
      \/ /\ p = FragmentAt(file, pos) /\ HasHeader(file, pos)
         /\ ~(EndOf(file, block) - pos < HeaderSize)
         /\ ~(pos + HeaderSize + file[pos + 1].of.length > EndOf(file, block))
  BY PhysicalIs
<1> QED BY <1>3, <1>4, <1>5

\* At most one batch is made of the cells that were gathered.
LEMMA BatchOfType ==
    ASSUME NEW cells \in Seq(Cell)
    PROVE  BatchOf(cells) \in Seq(Record)
<1>1. CASE cells # << >> /\ cells = [i \in 1..cells[1].of.size |-> DataCell(cells[1].of, i)]
  <2>1. Len(cells) >= 1 /\ 1 \in DOMAIN cells
    BY <1>1
  <2>2. cells[1] \in Cell /\ 1 \in 1..cells[1].of.size
    <3>1. 1 \in DOMAIN cells
      BY <2>1
    <3>2. cells[1] \in Cell
      BY <2>1
    <3>3. DOMAIN cells = 1..cells[1].of.size
      BY <1>1
    <3> QED BY <3>1, <3>2, <3>3
  <2>3. cells[1] = DataCell(cells[1].of, 1)
    BY <1>1, <2>2
  <2>4. cells[1].part = "data"
    BY <2>3 DEF DataCell
  <2>5. cells[1].of \in Record
    BY <2>2, <2>4, CellParts
  <2> QED BY <1>1, <2>5 DEF BatchOf
<1> QED BY <1>1 DEF BatchOf

\* What Refill makes of a position in a file.
LEMMA RefillIs ==
    ASSUME NEW file, NEW at \in ReaderState
    PROVE  /\ Refill(file, at) \in ReaderState
           /\ Refill(file, at) =
                 [pos |-> Refill(file, at).pos, block |-> Refill(file, at).block,
                  inside |-> at.inside, scratch |-> at.scratch, records |-> at.records]
           /\ IF at.block - at.pos < HeaderSize /\ at.block <= Len(file)
              THEN Refill(file, at).pos = at.block /\ Refill(file, at).block = at.block + BlockSize
              ELSE Refill(file, at) = at
<1>1. CASE at.block - at.pos < HeaderSize /\ at.block <= Len(file)
  <2>1. Refill(file, at) = [at EXCEPT !.pos = at.block, !.block = at.block + BlockSize]
    BY <1>1 DEF Refill
  <2>2. at = [pos |-> at.pos, block |-> at.block, inside |-> at.inside,
              scratch |-> at.scratch, records |-> at.records]
    BY DEF ReaderState
  <2>3. Refill(file, at) = [pos |-> at.block, block |-> at.block + BlockSize, inside |-> at.inside,
                            scratch |-> at.scratch, records |-> at.records]
    BY <2>1, <2>2, Zenon
  <2>4. at.block + BlockSize \in Nat /\ at.block \in Nat
    BY Constants DEF ReaderState
  <2> QED BY <1>1, <2>3, <2>4 DEF ReaderState
<1>2. CASE ~(at.block - at.pos < HeaderSize /\ at.block <= Len(file))
  BY <1>2 DEF Refill, ReaderState
<1> QED BY <1>1, <1>2

\* A round of ReadRecord keeps the type of what the reader has.
LEMMA NextPhysicalType ==
    ASSUME NEW file \in Seq(Cell), NEW at \in ReaderState
    PROVE  /\ Refill(file, at) \in ReaderState
           /\ NextPhysical(file, at) \in ReaderState
<1> DEFINE from == Refill(file, at)
           p == Physical(file, from.pos, from.block)
<1>1. from \in ReaderState /\ from.pos \in Nat /\ from.block \in Nat
  BY RefillIs DEF ReaderState
<1>2. /\ p.next \in Nat /\ p.cells \in Seq(Cell)
  BY <1>1, PhysicalType
<1>3. at.scratch \in Seq(Cell) /\ at.records \in Seq(Record) /\ at.inside \in BOOLEAN
  BY DEF ReaderState
<1>4. at.scratch \o p.cells \in Seq(Cell)
  BY <1>2, <1>3, ConcatProperties
<1>5. BatchOf(p.cells) \in Seq(Record) /\ BatchOf(at.scratch \o p.cells) \in Seq(Record)
  BY <1>2, <1>4, BatchOfType
<1>6. /\ at.records \o BatchOf(p.cells) \in Seq(Record)
      /\ at.records \o BatchOf(at.scratch \o p.cells) \in Seq(Record)
  BY <1>3, <1>5, ConcatProperties
<1> HIDE DEF from, p
<1>7. NextPhysical(file, at) \in ReaderState
  <2>1. CASE p.type = "eof"
    BY <2>1 DEF NextPhysical, from, p
  <2>2. CASE p.type # "eof"
    <3> DEFINE goesOn == p.type = "middle" /\ at.inside
               ends == p.type = "last" /\ at.inside
               inside == p.type = "first" \/ goesOn
               scratch == IF p.type = "first" THEN p.cells
                          ELSE IF goesOn THEN at.scratch \o p.cells ELSE << >>
               records == IF p.type = "full" THEN at.records \o BatchOf(p.cells)
                          ELSE IF ends THEN at.records \o BatchOf(at.scratch \o p.cells)
                          ELSE at.records
    <3>1. NextPhysical(file, at)
             = [pos |-> p.next, block |-> from.block, inside |-> inside,
                scratch |-> scratch, records |-> records]
      BY <2>2 DEF NextPhysical, from, p
    <3>2. inside \in BOOLEAN
      OBVIOUS
    <3>3. scratch \in Seq(Cell)
      BY <1>2, <1>4
    <3>4. records \in Seq(Record)
      BY <1>3, <1>6
    <3> HIDE DEF inside, scratch, records
    <3> QED BY <1>1, <1>2, <3>1, <3>2, <3>3, <3>4 DEF ReaderState
  <2> QED BY <2>1, <2>2
<1> QED BY <1>1, <1>7 DEF from

\* Reading is the function its recursion defines.
LEMMA ReadingIs ==
    ASSUME NEW file \in Seq(Cell)
    PROVE  /\ Reading(file) \in [Nat -> ReaderState]
           /\ Reading(file)[0] = StartOfFile
           /\ \A i \in Nat : Reading(file)[i + 1] = NextPhysical(file, Reading(file)[i])
<1> DEFINE step == [at \in ReaderState |-> NextPhysical(file, at)]
           IsIt(f) == f = [i \in Nat |-> IF i = 0 THEN StartOfFile ELSE NextPhysical(file, f[i - 1])]
<1>1. StartOfFile \in ReaderState
  BY Constants DEF StartOfFile, ReaderState
<1>2. step \in [ReaderState -> ReaderState]
  BY NextPhysicalType
<1> HIDE DEF step
<1>3. PICK f \in [Nat -> ReaderState] :
         f[0] = StartOfFile /\ \A i \in Nat : f[i + 1] = step[f[i]]
  <2>1. \E f : Recursive(f, ReaderState, StartOfFile, step)
    BY <1>1, <1>2, RecursiveExists, Zenon
  <2> QED BY <2>1 DEF Recursive
<1>4. IsIt(f)
  <2>1. \A i \in Nat : f[i] = IF i = 0 THEN StartOfFile ELSE step[f[i - 1]]
    <3>1. \A i \in Nat \ {0} : i - 1 \in Nat /\ (i - 1) + 1 = i
      OBVIOUS
    <3> QED BY <1>3, <3>1
  <2>2. \A i \in Nat \ {0} : f[i - 1] \in ReaderState
    <3>1. \A i \in Nat \ {0} : i - 1 \in Nat
      OBVIOUS
    <3> QED BY <3>1
  <2>3. \A i \in Nat : f[i] = IF i = 0 THEN StartOfFile ELSE NextPhysical(file, f[i - 1])
    BY <2>1, <2>2 DEF step
  <2> QED BY <1>3, <2>3
<1>5. Reading(file) = CHOOSE g : IsIt(g)
  BY DEF Reading
<1>6. IsIt(Reading(file))
  BY <1>4, <1>5
<1> DEFINE g == Reading(file)
<1> HIDE DEF g
<1>7. g = [i \in Nat |-> IF i = 0 THEN StartOfFile ELSE NextPhysical(file, g[i - 1])]
  BY <1>6 DEF g
<1>8. g[0] = StartOfFile /\ \A i \in Nat : g[i + 1] = NextPhysical(file, g[i])
  <2>1. \A i \in Nat : i + 1 \in Nat /\ i + 1 # 0 /\ (i + 1) - 1 = i
    OBVIOUS
  <2> QED BY <1>7, <2>1
<1>9. \A i \in Nat : g[i] \in ReaderState
  <2> DEFINE P == {i \in Nat : g[i] \in ReaderState}
  <2>1. 0 \in P
    BY <1>1, <1>8
  <2>2. \A i \in P : i + 1 \in P
    <3>1. \A at \in ReaderState : NextPhysical(file, at) \in ReaderState
      BY NextPhysicalType
    <3>2. \A i \in Nat : i + 1 \in Nat
      OBVIOUS
    <3> QED BY <1>8, <3>1, <3>2, Zenon
  <2> HIDE DEF P
  <2>3. P = Nat
    BY <2>1, <2>2, InductionOnNat DEF P
  <2> QED BY <2>3 DEF P
<1>10. g \in [Nat -> ReaderState]
  BY <1>7, <1>9
<1> QED BY <1>8, <1>10 DEF g

-----------------------------------------------------------------------------
(* A file that has been cut short *)

\* What cutting a file does to one read.
LEMMA SubSeqSame ==
    ASSUME NEW S, NEW s, NEW t, NEW m \in Int, NEW n \in Int,
           \A i \in m..n : s[i] \in S /\ t[i] = s[i]
    PROVE  SubSeq(s, m, n) = SubSeq(t, m, n)
<1> DEFINE u == SubSeq(s, m, n)
           v == SubSeq(t, m, n)
<1>1. /\ u \in Seq(S) /\ v \in Seq(S)
      /\ Len(u) = (IF m <= n THEN n - m + 1 ELSE 0) /\ Len(v) = Len(u)
      /\ \A i \in 1..(n - m + 1) : u[i] = s[m + i - 1] /\ v[i] = t[m + i - 1]
  BY SubSeqProperties
<1> HIDE DEF u, v
<1>2. \A i \in 1..Len(u) : u[i] = v[i]
  BY <1>1
<1> QED BY <1>1, <1>2, SeqEqual DEF u, v

\* A file that has been cut short reads the same up to where it ends.
LEMMA CutPhysical ==
    ASSUME NEW file \in Seq(Cell), NEW n \in 0..Len(file), NEW pos \in Nat, NEW block \in Nat
    PROVE  LET p == Physical(SubSeq(file, 1, n), pos, block)
           IN \/ p = Physical(file, pos, block)
              \/ n < block /\ p.type = "eof"
              \/ n < block /\ p.type = "bad" /\ p.next = n /\ p.cells = << >>
<1> DEFINE g == SubSeq(file, 1, n)
           p == Physical(g, pos, block)
           q == Physical(file, pos, block)
           fragment == file[pos + 1].of
<1>1. Len(file) \in Nat /\ n \in Nat /\ n <= Len(file)
  OBVIOUS
<1>2. g \in Seq(Cell) /\ Len(g) = n /\ \A i \in 1..n : g[i] = file[i]
  <2>1. \A i \in 1..n : file[i] \in Cell
    BY <1>1, ElementOfSeq
  <2> QED BY <1>1, <2>1, SubSeqProperties
<1>3. /\ EndOf(g, block) = Least(block, n)
      /\ EndOf(g, block) \in Nat /\ EndOf(file, block) \in Nat
      /\ n < block => EndOf(g, block) = n
      /\ n >= block => EndOf(g, block) = block /\ EndOf(file, block) = block
      /\ EndOf(g, block) <= EndOf(file, block) /\ EndOf(g, block) <= n
  BY <1>1, <1>2 DEF EndOf, Least
<1>6. SUFFICES \/ p = q
               \/ n < block /\ p.type = "eof"
               \/ n < block /\ p.type = "bad" /\ p.next = n /\ p.cells = << >>
  OBVIOUS
<1> HIDE DEF g, p, q
<1>7. Physical(g, pos, block) = p /\ Physical(file, pos, block) = q
  BY DEF p, q
<1>4. CASE EndOf(g, block) - pos < HeaderSize
  <2>1. p = NoFragment("eof", g, block)
    BY <1>4, <1>7, PhysicalIs
  <2>2. CASE n < block
    BY <2>1, <2>2 DEF NoFragment
  <2>3. CASE n >= block
    <3>1. q = NoFragment("eof", file, block)
      BY <1>3, <1>4, <2>3, <1>7, PhysicalIs
    <3> QED BY <1>3, <2>1, <2>3, <3>1 DEF NoFragment
  <2> QED BY <1>1, <2>2, <2>3
<1>5. CASE ~(EndOf(g, block) - pos < HeaderSize)
  <2>1. pos + HeaderSize <= n
    BY <1>1, <1>3, <1>5, Constants
  <2>2. \A i \in 1..HeaderSize : g[pos + i] = file[pos + i]
    BY <1>1, <1>2, <2>1, Constants
  <2>3. g[pos + 1] = file[pos + 1]
    BY <2>2, Constants
  <2>4. HasHeader(g, pos) <=> HasHeader(file, pos)
    BY <2>2, <2>3, Zenon DEF HasHeader
  <2>5. ~(EndOf(file, block) - pos < HeaderSize)
    BY <1>1, <1>3, <1>5, Constants
  <2>6. CASE ~HasHeader(g, pos)
    <3>1. p = NoFragment("bad", g, block) /\ q = NoFragment("bad", file, block)
      BY <1>5, <2>4, <2>5, <2>6, <1>7, PhysicalIs, Zenon
    <3> QED BY <1>1, <1>3, <3>1 DEF NoFragment
  <2>7. CASE HasHeader(g, pos)
    <3>1. fragment \in Fragment
      BY <1>1, <2>1, <2>4, <2>7, HeaderIsFragment, Constants
    <3>2. fragment.length \in Nat /\ g[pos + 1].of = fragment
      BY <2>3, <3>1 DEF Fragment
    <3> DEFINE end == pos + HeaderSize + fragment.length
    <3> HIDE DEF fragment
    <3>3. CASE end > EndOf(g, block)
      <4>1. CASE n < block
        <5>1. p = NoFragment("eof", g, block)
          BY <1>2, <1>5, <2>7, <3>2, <3>3, <4>1, <1>7, PhysicalIs
        <5> QED BY <4>1, <5>1 DEF NoFragment
      <4>2. CASE n >= block
        <5>1. ~(Len(g) < block) /\ ~(Len(file) < block)
          BY <1>1, <1>2, <4>2
        <5>2. p = NoFragment("bad", g, block)
          BY <1>5, <2>7, <3>2, <3>3, <5>1, <1>7, PhysicalIs, Zenon
        <5>3. end > EndOf(file, block)
          BY <1>3, <3>3, <4>2
        <5>4. q = NoFragment("bad", file, block)
          BY <2>4, <2>5, <2>7, <5>3, <5>1, <1>7, PhysicalIs, Zenon DEF fragment
        <5> QED BY <1>3, <4>2, <5>2, <5>4 DEF NoFragment
      <4> QED BY <1>1, <4>1, <4>2
    <3>4. CASE ~(end > EndOf(g, block))
      <4>1. end <= n /\ ~(end > EndOf(file, block))
        BY <1>1, <1>3, <3>2, <3>4, Constants
      <4>2. \A i \in 1..fragment.length : g[pos + HeaderSize + i] = file[pos + HeaderSize + i]
        BY <1>1, <1>2, <3>2, <4>1, Constants, SMTT(30)
      <4>3. HasChecksum(g, pos) <=> HasChecksum(file, pos)
        BY <3>2, <4>2, Zenon DEF HasChecksum, fragment
      <4>4. CASE ~HasChecksum(g, pos)
        <5>1. p = NoFragment("bad", g, block)
          BY <1>5, <2>7, <3>2, <3>4, <4>4, <1>7, PhysicalIs, Zenon
        <5>2. q = NoFragment("bad", file, block)
          BY <2>4, <2>5, <2>7, <4>1, <4>3, <4>4, <1>7, PhysicalIs, Zenon DEF fragment
        <5> QED BY <1>1, <1>3, <5>1, <5>2 DEF NoFragment
      <4>5. CASE HasChecksum(g, pos)
        <5>1. p = FragmentAt(g, pos)
          BY <1>5, <2>7, <3>2, <3>4, <4>5, <1>7, PhysicalIs, Zenon
        <5>2. q = FragmentAt(file, pos)
          BY <2>4, <2>5, <2>7, <4>1, <4>3, <4>5, <1>7, PhysicalIs, Zenon DEF fragment
        <5>3. SubSeq(g, pos + HeaderSize + 1, end) = SubSeq(file, pos + HeaderSize + 1, end)
          <6>1. \A i \in (pos + HeaderSize + 1)..end : g[i] = file[i] /\ g[i] \in Cell
            BY <1>1, <1>2, <3>2, <4>1, Constants, ElementOfSeq
          <6>2. pos + HeaderSize + 1 \in Int /\ end \in Int
            BY <3>2, Constants
          <6> DEFINE start == pos + HeaderSize + 1
          <6> HIDE DEF end, start
          <6>3. \A i \in start..end : g[i] \in Cell /\ file[i] = g[i]
            BY <6>1 DEF start
          <6>4. start \in Int /\ end \in Int
            BY <6>2 DEF start
          <6>5. SubSeq(g, start, end) = SubSeq(file, start, end)
            BY <6>3, <6>4, SubSeqSame
          <6> QED BY <6>5 DEF start
        <5>4. FragmentAt(g, pos) = FragmentAt(file, pos)
          BY <2>3, <5>3, Zenon DEF FragmentAt, fragment
        <5> QED BY <5>1, <5>2, <5>4
      <4> QED BY <4>4, <4>5
    <3> QED BY <3>3, <3>4
  <2> QED BY <2>6, <2>7
<1> QED BY <1>4, <1>5

Begins(s, t) == Len(s) <= Len(t) /\ \A i \in 1..Len(s) : s[i] = t[i]

\* Begins is IsPrefix, said with the elements.
LEMMA BeginsIsPrefix ==
    ASSUME NEW S, NEW s \in Seq(S), NEW t \in Seq(S)
    PROVE  Begins(s, t) <=> IsPrefix(s, t)
<1>1. Len(s) \in Nat /\ Len(t) \in Nat /\ SubSeq(s, 1, Len(s)) = s
  BY SubSeqFull
<1>2. SUFFICES ASSUME Len(s) <= Len(t)
               PROVE  (\A i \in 1..Len(s) : s[i] = t[i]) <=> s = SubSeq(t, 1, Len(s))
  BY <1>1 DEF Begins, IsPrefix
<1> DEFINE u == SubSeq(t, 1, Len(s))
<1>3. u \in Seq(S) /\ Len(u) = Len(s) /\ \A i \in 1..Len(s) : u[i] = t[i]
  <2>1. \A i \in 1..Len(s) : t[i] \in S
    BY <1>1, <1>2, ElementOfSeq
  <2> QED BY <1>1, <2>1, SubSeqProperties
<1> HIDE DEF u
<1>4. (\A i \in 1..Len(s) : s[i] = u[i]) <=> s = u
  BY <1>3, SeqEqual
<1> QED BY <1>3, <1>4 DEF u

\* Begins is an order, and joining makes a sequence longer.
LEMMA BeginsOrder ==
    /\ \A s \in Seq(Record) : Begins(s, s)
    /\ \A s, t, u \in Seq(Record) : Begins(s, t) /\ Begins(t, u) => Begins(s, u)
    /\ \A s, t \in Seq(Record) : s \o t \in Seq(Record) /\ Begins(s, s \o t)
<1>1. \A s \in Seq(Record) : Begins(s, s)
  BY DEF Begins
<1>2. ASSUME NEW s \in Seq(Record), NEW t \in Seq(Record), NEW u \in Seq(Record),
             Begins(s, t), Begins(t, u)
      PROVE  Begins(s, u)
  <2>1. Len(s) \in Nat /\ Len(t) \in Nat /\ Len(u) \in Nat
    OBVIOUS
  <2>2. \A i \in 1..Len(s) : i \in 1..Len(t)
    BY <1>2, <2>1 DEF Begins
  <2> QED BY <1>2, <2>1, <2>2 DEF Begins
<1>3. ASSUME NEW s \in Seq(Record), NEW t \in Seq(Record)
      PROVE  s \o t \in Seq(Record) /\ Begins(s, s \o t)
  <2>1. /\ s \o t \in Seq(Record) /\ Len(s \o t) = Len(s) + Len(t)
        /\ \A i \in 1..Len(s) + Len(t) : (s \o t)[i] = IF i <= Len(s) THEN s[i] ELSE t[i - Len(s)]
    BY ConcatProperties
  <2>2. Len(s) \in Nat /\ Len(t) \in Nat
    OBVIOUS
  <2> QED BY <2>1, <2>2 DEF Begins
<1> QED BY <1>1, <1>2, <1>3

\* The reader has come to the end: it stays there.
Ended(file, at) ==
    Physical(file, Refill(file, at).pos, Refill(file, at).block).type = "eof"

\* A reader that has come to the end stays there.
LEMMA EndedStays ==
    ASSUME NEW file, NEW at, Ended(file, at)
    PROVE  NextPhysical(file, at) = at
BY Zenon DEF Ended, NextPhysical

\* Reading on only adds records.
LEMMA RecordsGrow ==
    ASSUME NEW file \in Seq(Cell), NEW at \in ReaderState
    PROVE  Begins(at.records, NextPhysical(file, at).records)
<1> DEFINE from == Refill(file, at)
           p == Physical(file, from.pos, from.block)
           goesOn == p.type = "middle" /\ at.inside
           ends == p.type = "last" /\ at.inside
           records == IF p.type = "full" THEN at.records \o BatchOf(p.cells)
                      ELSE IF ends THEN at.records \o BatchOf(at.scratch \o p.cells)
                      ELSE at.records
<1>1. at.records \in Seq(Record) /\ at.scratch \in Seq(Cell)
  BY DEF ReaderState
<1>2. from.pos \in Nat /\ from.block \in Nat
  BY NextPhysicalType DEF ReaderState
<1>3. p.cells \in Seq(Cell)
  BY <1>2, PhysicalType
<1>4. BatchOf(p.cells) \in Seq(Record) /\ BatchOf(at.scratch \o p.cells) \in Seq(Record)
  BY <1>1, <1>3, BatchOfType, ConcatProperties
<1> HIDE DEF from, p
<1>5. CASE p.type = "eof"
  <2>1. NextPhysical(file, at) = at
    BY <1>5 DEF NextPhysical, from, p
  <2> QED BY <1>1, <2>1, BeginsOrder
<1>6. CASE p.type # "eof"
  <2>1. NextPhysical(file, at).records = records
    BY <1>6 DEF NextPhysical, from, p
  <2>2. \/ records = at.records \o BatchOf(p.cells)
        \/ records = at.records \o BatchOf(at.scratch \o p.cells)
        \/ records = at.records
    OBVIOUS
  <2> HIDE DEF records
  <2> QED BY <1>1, <1>4, <2>1, <2>2, BeginsOrder, ZenonT(30)
<1> QED BY <1>5, <1>6

\* From the same place, the file and what is left of it read the same, or the
\* latter is at its end, without a batch more.
LEMMA CutNext ==
    ASSUME NEW file \in Seq(Cell), NEW n \in 0..Len(file), NEW at \in ReaderState
    PROVE  LET g == SubSeq(file, 1, n)
           IN \/ NextPhysical(g, at) = NextPhysical(file, at)
              \/ Ended(g, at)
              \/ /\ Ended(g, NextPhysical(g, at))
                 /\ NextPhysical(g, at).records = at.records
<1> DEFINE g == SubSeq(file, 1, n)
           from == Refill(g, at)
           p == Physical(g, from.pos, from.block)
<1>1. Len(file) \in Nat /\ n \in Nat /\ n <= Len(file) /\ at.pos \in Nat /\ at.block \in Nat
  BY DEF ReaderState
<1>2. g \in Seq(Cell) /\ Len(g) = n
  <2>1. \A i \in 1..n : file[i] \in Cell
    BY <1>1, ElementOfSeq
  <2> QED BY <1>1, <2>1, SubSeqProperties
<1>3. from.pos \in Nat /\ from.block \in Nat
  BY <1>2, NextPhysicalType DEF ReaderState
<1>4. SUFFICES \/ NextPhysical(g, at) = NextPhysical(file, at)
               \/ Ended(g, at)
               \/ /\ Ended(g, NextPhysical(g, at))
                  /\ NextPhysical(g, at).records = at.records
  OBVIOUS
<1>5. CASE from = Refill(file, at)
  <2>1. \/ p = Physical(file, from.pos, from.block)
        \/ n < from.block /\ p.type = "eof"
        \/ n < from.block /\ p.type = "bad" /\ p.next = n /\ p.cells = << >>
    BY <1>3, CutPhysical
  <2>2. CASE p = Physical(file, from.pos, from.block)
    <3>1. NextPhysical(g, at) = NextPhysical(file, at)
      BY <1>5, <2>2, Zenon DEF NextPhysical
    <3> QED BY <3>1
  <2>3. CASE p.type = "eof"
    BY <2>3 DEF Ended
  <2>4. CASE n < from.block /\ p.type = "bad" /\ p.next = n /\ p.cells = << >>
    <3> DEFINE b == [pos |-> n, block |-> from.block, inside |-> FALSE, scratch |-> << >>,
                     records |-> at.records]
    <3> HIDE DEF g, from, p
    <3>1. NextPhysical(g, at) = b
      <4>1. /\ p.type # "eof" /\ p.type # "first" /\ p.type # "middle"
            /\ p.type # "last" /\ p.type # "full"
        BY <2>4
      <4> QED BY <2>4, <4>1 DEF NextPhysical, p, from
    <3>2. b \in ReaderState /\ b.pos = n /\ b.block = from.block /\ b.records = at.records
      BY <1>1, <1>3 DEF ReaderState
    <3> HIDE DEF b
    <3>3. Refill(g, b) = b
      BY <1>1, <1>2, <1>3, <2>4, <3>2 DEF Refill
    <3>4. EndOf(g, b.block) - b.pos < HeaderSize
      BY <1>1, <1>2, <1>3, <2>4, <3>2, Constants DEF EndOf, Least
    <3>5. Physical(g, b.pos, b.block) = NoFragment("eof", g, b.block)
      BY <3>4, PhysicalIs, Zenon
    <3>6. Ended(g, b)
      BY <3>3, <3>5 DEF Ended, NoFragment
    <3> QED BY <3>1, <3>2, <3>6
  <2> QED BY <2>1, <2>2, <2>3, <2>4
<1>6. CASE from # Refill(file, at)
  <2> HIDE DEF g
  <2>1. /\ at.block - at.pos < HeaderSize /\ at.block > n
        /\ from = at
    BY <1>1, <1>2, <1>6 DEF Refill
  <2>2. EndOf(g, at.block) - at.pos < HeaderSize
    BY <1>1, <1>2, <2>1, Constants DEF EndOf, Least
  <2>3. Physical(g, at.pos, at.block) = NoFragment("eof", g, at.block)
    BY <2>2, PhysicalIs, Zenon
  <2>4. Ended(g, at)
    BY <2>1, <2>3 DEF Ended, NoFragment
  <2> QED BY <2>4
<1> QED BY <1>5, <1>6

\* Wherever a crash cuts any file of cells, the reader finds in what is left the first of
\* the records it would have found in all of it, and nothing else (log_reader.cc
\* ReadPhysicalRecord treats a fragment that ends behind the file as its end).
THEOREM TruncatedReads ==
    ASSUME NEW file \in Seq(Cell), NEW n \in 0..Len(file)
    PROVE  /\ ReadRecords(file) \in Seq(Record)
           /\ ReadRecords(SubSeq(file, 1, n)) \in Seq(Record)
           /\ Begins(ReadRecords(SubSeq(file, 1, n)), ReadRecords(file))
<1> DEFINE g == SubSeq(file, 1, n)
           whole == Reading(file)
           part == Reading(g)
           P == {i \in Nat : \/ part[i] = whole[i]
                             \/ Ended(g, part[i]) /\ Begins(part[i].records, whole[i].records)}
           Q(k) == {i \in Nat : Begins(whole[k].records, whole[k + i].records)}
<1>1. Len(file) \in Nat /\ n \in Nat /\ n <= Len(file)
  OBVIOUS
<1>2. g \in Seq(Cell) /\ Len(g) = n
  <2>1. \A i \in 1..n : file[i] \in Cell
    BY <1>1, ElementOfSeq
  <2> QED BY <1>1, <2>1, SubSeqProperties
<1> HIDE DEF g
<1>3. /\ whole \in [Nat -> ReaderState] /\ part \in [Nat -> ReaderState]
      /\ whole[0] = StartOfFile /\ part[0] = StartOfFile
      /\ \A i \in Nat : whole[i + 1] = NextPhysical(file, whole[i])
      /\ \A i \in Nat : part[i + 1] = NextPhysical(g, part[i])
  BY <1>2, ReadingIs
<1> HIDE DEF whole, part
<1>4. \A i \in Nat : /\ i + 1 \in Nat
                     /\ whole[i] \in ReaderState /\ part[i] \in ReaderState
                     /\ whole[i].records \in Seq(Record) /\ part[i].records \in Seq(Record)
  <2>1. \A i \in Nat : i + 1 \in Nat /\ whole[i] \in ReaderState /\ part[i] \in ReaderState
    <3>1. \A i \in Nat : i + 1 \in Nat
      OBVIOUS
    <3>2. whole \in [Nat -> ReaderState] /\ part \in [Nat -> ReaderState]
      BY <1>3
    <3>3. \A i \in Nat : whole[i] \in ReaderState /\ part[i] \in ReaderState
      BY <3>2
    <3> QED BY <3>1, <3>3
  <2>2. \A at \in ReaderState : at.records \in Seq(Record)
    BY DEF ReaderState
  <2> QED BY <2>1, <2>2
<1>5. \A i \in Nat : Begins(whole[i].records, whole[i + 1].records)
  BY <1>3, <1>4, RecordsGrow
<1>6. P = Nat
  <2>1. 0 \in P
    BY <1>3
  <2>2. ASSUME NEW i \in P PROVE i + 1 \in P
    <3>1. i \in Nat /\ i + 1 \in Nat
      OBVIOUS
    <3>2. CASE Ended(g, part[i]) /\ Begins(part[i].records, whole[i].records)
      <4>1. part[i + 1] = part[i]
        BY <1>3, <3>1, <3>2, EndedStays
      <4>2. Begins(part[i].records, whole[i + 1].records)
        BY <1>4, <1>5, <3>1, <3>2, BeginsOrder
      <4> QED BY <3>1, <3>2, <4>1, <4>2
    <3>3. CASE part[i] = whole[i]
      <4>1. \/ NextPhysical(g, part[i]) = NextPhysical(file, part[i])
            \/ Ended(g, part[i])
            \/ /\ Ended(g, NextPhysical(g, part[i]))
               /\ NextPhysical(g, part[i]).records = part[i].records
        BY <1>4, <3>1, CutNext DEF g
      <4>2. CASE NextPhysical(g, part[i]) = NextPhysical(file, part[i])
        BY <1>3, <3>1, <3>3, <4>2
      <4>3. CASE Ended(g, part[i])
        <5>1. part[i + 1] = part[i]
          BY <1>3, <3>1, <4>3, EndedStays
        <5> QED BY <1>5, <3>1, <3>3, <4>3, <5>1
      <4>4. CASE /\ Ended(g, NextPhysical(g, part[i]))
                 /\ NextPhysical(g, part[i]).records = part[i].records
        BY <1>3, <1>5, <3>1, <3>3, <4>4
      <4> QED BY <4>1, <4>2, <4>3, <4>4
    <3> QED BY <3>2, <3>3
  <2> HIDE DEF P
  <2> QED BY <2>1, <2>2, InductionOnNat DEF P
<1>7. Begins(part[n].records, whole[n].records)
  <2>1. n \in P
    BY <1>1, <1>6
  <2> QED BY <1>4, <2>1, BeginsOrder
<1>8. Q(n) = Nat
  <2>1. 0 \in Q(n)
    BY <1>1, <1>4, BeginsOrder
  <2>2. ASSUME NEW i \in Q(n) PROVE i + 1 \in Q(n)
    <3>1. n + i \in Nat /\ n + (i + 1) = (n + i) + 1 /\ i + 1 \in Nat
      BY <1>1
    <3> QED BY <1>4, <1>5, <1>1, <2>2, <3>1, BeginsOrder
  <2> HIDE DEF Q
  <2> QED BY <2>1, <2>2, InductionOnNat DEF Q
<1>9. Begins(whole[n].records, whole[Len(file)].records)
  <2>1. Len(file) - n \in Nat /\ n + (Len(file) - n) = Len(file)
    BY <1>1
  <2>2. Len(file) - n \in Q(n)
    BY <1>8, <2>1
  <2> QED BY <2>1, <2>2
<1>10. ReadRecords(file) = whole[Len(file)].records /\ ReadRecords(g) = part[n].records
  BY <1>2 DEF ReadRecords, whole, part
<1> QED BY <1>1, <1>4, <1>7, <1>9, <1>10, BeginsOrder DEF g

(* What has been written reads back *)

Data(record, n) == [i \in 1..n |-> DataCell(record, i)]

\* Where the reader is after so many rounds of AddRecord.
Midway(a, rs, record, at) ==
    [pos |-> Len(a) + Len(at.cells), block |-> Len(a) + Len(at.cells) + BlockSize - at.offset,
     inside |-> ~at.begin /\ at.done < record.size,
     scratch |-> IF at.done < record.size THEN Data(record, at.done) ELSE << >>,
     records |-> IF at.done < record.size THEN rs ELSE Append(rs, record)]

\* The cells of a part of a record.
LEMMA DataIsSeq ==
    ASSUME NEW record \in Record, NEW n \in Nat
    PROVE  Data(record, n) \in Seq(Cell) /\ Len(Data(record, n)) = n
<1>1. \A i \in 1..n : DataCell(record, i) \in Cell
  BY DEF DataCell, Cell
<1> QED BY <1>1 DEF Data

\* All cells of a record make the record.
LEMMA BatchOfData ==
    ASSUME NEW record \in Record
    PROVE  BatchOf(Data(record, record.size)) = << record >>
<1> DEFINE cells == Data(record, record.size)
<1>1. record.size \in Nat /\ record.size >= 1
  BY DEF Record
<1>2. cells \in Seq(Cell) /\ Len(cells) = record.size
  BY <1>1, DataIsSeq
<1>3. cells[1] = DataCell(record, 1)
  BY <1>1 DEF Data
<1>4. cells[1].of = record
  BY <1>3 DEF DataCell
<1>5. cells # << >>
  BY <1>1, <1>2
<1>6. cells = [i \in 1..cells[1].of.size |-> DataCell(cells[1].of, i)]
  <2>1. cells = [i \in 1..record.size |-> DataCell(record, i)]
    BY DEF Data
  <2> HIDE DEF cells
  <2> QED BY <1>4, <2>1
<1> HIDE DEF cells
<1> QED BY <1>4, <1>5, <1>6 DEF BatchOf, cells

\* Parts of a record that follow each other make one part.
LEMMA DataJoins ==
    ASSUME NEW record \in Record, NEW m \in Nat, NEW k \in Nat
    PROVE  Data(record, m) \o [i \in 1..k |-> DataCell(record, m + i)] = Data(record, m + k)
<1> DEFINE s == Data(record, m)
           t == [i \in 1..k |-> DataCell(record, m + i)]
           u == Data(record, m + k)
<1>1. s \in Seq(Cell) /\ Len(s) = m /\ u \in Seq(Cell) /\ Len(u) = m + k
  BY DataIsSeq
<1>2. t \in Seq(Cell) /\ Len(t) = k
  <2>1. \A i \in 1..k : DataCell(record, m + i) \in Cell
    BY DEF DataCell, Cell
  <2> QED BY <2>1
<1>3. /\ \A i \in 1..m : s[i] = DataCell(record, i)
      /\ \A i \in 1..k : t[i] = DataCell(record, m + i)
      /\ \A i \in 1..(m + k) : u[i] = DataCell(record, i)
  BY DEF Data
<1> HIDE DEF s, t, u
<1>4. /\ s \o t \in Seq(Cell) /\ Len(s \o t) = m + k
      /\ \A i \in 1..(m + k) : (s \o t)[i] = IF i <= m THEN s[i] ELSE t[i - m]
  BY <1>1, <1>2, ConcatProperties
<1>5. ASSUME NEW i \in 1..(m + k) PROVE (s \o t)[i] = u[i]
  <2>1. CASE i <= m
    BY <1>3, <1>4, <2>1
  <2>2. CASE ~(i <= m)
    <3>1. i - m \in 1..k /\ m + (i - m) = i
      BY <2>2
    <3>2. (s \o t)[i] = t[i - m]
      BY <1>4, <2>2
    <3>3. t[i - m] = DataCell(record, m + (i - m))
      BY <1>3, <3>1
    <3> QED BY <1>3, <3>1, <3>2, <3>3
  <2> QED BY <2>1, <2>2
<1>6. s \o t = u
  BY <1>1, <1>4, <1>5, SeqEqual
<1> QED BY <1>6 DEF s, t, u

\* The reader takes what a round of the writer has added.
LEMMA RoundReads ==
    ASSUME NEW record \in Record, NEW at \in WriterState(record),
           at.done < record.size, at.begin => at.done = 0,
           NEW a \in Seq(Cell), NEW rs \in Seq(Record), NEW b \in Seq(Cell)
    PROVE  NextPhysical((a \o NextFragment(record, at).cells) \o b, Midway(a, rs, record, at))
              = Midway(a, rs, record, NextFragment(record, at))
<1> DEFINE next == NextFragment(record, at)
           fill == Fill(at)
           taken == Taken(record, at)
           piece == Piece(record, at)
           first == From(at)
           file == (a \o next.cells) \o b
           L == Len(a) + Len(at.cells)
           s == Midway(a, rs, record, at)
           done == at.done
           start == L + fill
           limit == start + BlockSize - first
<1>1. /\ record.size \in Nat /\ done \in Nat /\ at.offset \in 0..BlockSize
      /\ at.cells \in Seq(Cell) /\ at.begin \in BOOLEAN /\ L \in Nat
  BY DEF Record, WriterState
<1>2. /\ fill \in Nat /\ first \in 0..(BlockSize - HeaderSize)
      /\ taken \in 0..(record.size - done) /\ taken <= BlockSize - first - HeaderSize
      /\ piece \in Fragment
  BY PieceIsFragment
<1>3. /\ next \in WriterState(record) /\ next.begin = FALSE /\ next.done = done + taken
      /\ next.offset = first + HeaderSize + taken
  BY RoundAdds
<1>4. PICK new \in Seq(Cell) :
         /\ next.cells = at.cells \o new
         /\ Len(new) = fill + HeaderSize + taken
         /\ \A i \in 1..HeaderSize : new[fill + i] = HeaderCell(piece, i)
         /\ \A i \in 1..taken : new[fill + HeaderSize + i] = DataCell(record, done + i)
  BY RoundAdds
<1>5. /\ taken \in Nat /\ first \in Nat /\ start \in Nat /\ limit \in Nat
      /\ Len(new) \in Nat /\ Len(b) \in Nat
  <2> HIDE DEF fill, taken, first, L
  <2>1. taken \in Nat /\ first \in Nat
    BY <1>1, <1>2, Constants
  <2>2. start \in Nat /\ limit \in Nat
    BY <1>1, <1>2, Constants
  <2> QED BY <2>1, <2>2
<1>6. /\ fill = IF BlockSize - at.offset < HeaderSize THEN BlockSize - at.offset ELSE 0
      /\ first = IF BlockSize - at.offset < HeaderSize THEN 0 ELSE at.offset
  BY DEF Fill, From
<1>7. /\ piece.of = record /\ piece.from = done /\ piece.length = taken
      /\ piece.type = FragmentType(at.begin, done + taken = record.size)
  BY DEF Piece
<1>8. /\ s.pos = L /\ s.block = L + BlockSize - at.offset /\ s.inside = ~at.begin
      /\ s.scratch = Data(record, done) /\ s.records = rs /\ s \in ReaderState
  <2>1. L + BlockSize - at.offset \in Nat
    BY <1>1, Constants, SMTT(30)
  <2>2. Data(record, done) \in Seq(Cell)
    BY <1>1, DataIsSeq
  <2> QED BY <1>1, <2>1, <2>2 DEF Midway, ReaderState
<1> HIDE DEF next, fill, taken, piece, first, s, done
<1>9. /\ file \in Seq(Cell) /\ Len(file) = L + Len(new) + Len(b)
      /\ \A i \in 1..Len(new) : file[L + i] = new[i]
  <2> DEFINE c == a \o at.cells
  <2>1. c \in Seq(Cell) /\ Len(c) = L
    BY <1>1, ConcatProperties
  <2>2. file = (c \o new) \o b
    <3>1. (a \o at.cells) \o new = a \o (at.cells \o new)
      BY <1>1, JoinAssociates, Zenon
    <3> QED BY <1>4, <3>1
  <2>3. c \o new \in Seq(Cell) /\ Len(c \o new) = L + Len(new)
    BY <2>1, ConcatProperties
  <2> HIDE DEF c, file, L
  <2>4. \A i \in 1..(L + Len(new)) : (c \o new)[i] = IF i <= L THEN c[i] ELSE new[i - L]
    BY <1>1, <2>1, ConcatProperties
  <2>5. file \in Seq(Cell) /\ Len(file) = L + Len(new) + Len(b)
    BY <2>2, <2>3, ConcatProperties
  <2>6. \A i \in 1..(L + Len(new)) : file[i] = (c \o new)[i]
    BY <1>1, <1>5, <2>2, <2>3, ConcatProperties, SMTT(30)
  <2>7. ASSUME NEW i \in 1..Len(new) PROVE file[L + i] = new[i]
    <3>1. L + i \in 1..(L + Len(new)) /\ ~(L + i <= L) /\ (L + i) - L = i
      BY <1>1, <1>5
    <3> QED BY <2>4, <2>6, <3>1
  <2> QED BY <2>5, <2>7
<1> HIDE DEF file, L, start, limit
<1>10. start = L + fill /\ limit = start + BlockSize - first
  BY DEF start, limit
<1>11. /\ Refill(file, s).pos = start /\ Refill(file, s).block = limit
       /\ Refill(file, s).inside = s.inside /\ Refill(file, s).scratch = s.scratch
       /\ Refill(file, s).records = s.records
  <2>1. CASE BlockSize - at.offset < HeaderSize
    <3>1. s.block - s.pos < HeaderSize /\ s.block <= Len(file)
      <4>1. s.block = L + fill
        BY <1>1, <1>6, <1>8, <2>1, Constants
      <4>2. L + fill <= Len(file)
        <5>1. Len(new) >= fill
          BY <1>2, <1>4, <1>5, Constants
        <5> QED BY <1>1, <1>2, <1>5, <1>9, <5>1
      <4> QED BY <1>1, <1>8, <2>1, <4>1, <4>2, Constants
    <3>2. Refill(file, s).pos = s.block /\ Refill(file, s).block = s.block + BlockSize
      BY <1>8, <3>1, RefillIs
    <3>3. s.block = start /\ s.block + BlockSize = limit
      BY <1>1, <1>6, <1>8, <1>10, <2>1, Constants
    <3> QED BY <1>8, <3>2, <3>3, RefillIs
  <2>2. CASE ~(BlockSize - at.offset < HeaderSize)
    <3>1. ~(s.block - s.pos < HeaderSize)
      BY <1>1, <1>8, <2>2, Constants
    <3>2. Refill(file, s) = s
      BY <1>8, <3>1, RefillIs
    <3>3. s.pos = start /\ s.block = limit
      BY <1>1, <1>6, <1>8, <1>10, <2>2, Constants
    <3> QED BY <3>2, <3>3
  <2> QED BY <2>1, <2>2
<1> DEFINE end == EndOf(file, limit)
<1>12. start + HeaderSize + taken <= end /\ end \in Nat
  <2>1. start + HeaderSize + taken <= limit
    BY <1>1, <1>2, <1>5, <1>10, Constants
  <2>2. start + HeaderSize + taken <= Len(file)
    BY <1>1, <1>2, <1>4, <1>5, <1>9, <1>10, Constants
  <2> QED BY <1>5, <1>9, <2>1, <2>2 DEF EndOf, Least
<1>13. \A i \in 1..HeaderSize : file[start + i] = HeaderCell(piece, i)
  <2>1. SUFFICES ASSUME NEW i \in 1..HeaderSize PROVE file[start + i] = HeaderCell(piece, i)
    OBVIOUS
  <2>2. fill + i \in 1..Len(new) /\ L + (fill + i) = start + i
    BY <1>1, <1>2, <1>4, <1>5, <1>10, Constants
  <2> QED BY <1>4, <1>9, <2>2
<1>14. \A i \in 1..taken : file[start + HeaderSize + i] = DataCell(record, done + i)
  <2>1. SUFFICES ASSUME NEW i \in 1..taken
                 PROVE  file[start + HeaderSize + i] = DataCell(record, done + i)
    OBVIOUS
  <2>2. fill + HeaderSize + i \in 1..Len(new)
        /\ L + (fill + HeaderSize + i) = start + HeaderSize + i
    BY <1>1, <1>2, <1>4, <1>5, <1>10, Constants
  <2> QED BY <1>4, <1>9, <2>2
<1>15. file[start + 1].of = piece /\ HasHeader(file, start)
  <2>1. file[start + 1] = HeaderCell(piece, 1)
    BY <1>13, Constants
  <2>2. \A i \in 1..HeaderSize :
           /\ HeaderCell(piece, i).part = "header" /\ HeaderCell(piece, i).of = piece
           /\ HeaderCell(piece, i).at = i
    BY DEF HeaderCell
  <2>3. HeaderCell(piece, 1).part = "header" /\ HeaderCell(piece, 1).of = piece
    BY DEF HeaderCell
  <2> QED BY <1>13, <2>1, <2>2, <2>3, Zenon DEF HasHeader
<1>16. HasChecksum(file, start)
  BY <1>7, <1>14, <1>15, Zenon DEF HasChecksum
<1> DEFINE p == Physical(file, start, limit)
           data == [i \in 1..taken |-> DataCell(record, done + i)]
<1>17. p = FragmentAt(file, start)
  <2>1. ~(end - start < HeaderSize) /\ ~(start + HeaderSize + taken > end)
    BY <1>5, <1>12, Constants
  <2> HIDE DEF end
  <2> QED BY <1>7, <1>15, <1>16, <2>1, PhysicalIs, Zenon DEF end
<1>18. /\ p.type = piece.type
       /\ p.next = start + HeaderSize + taken
       /\ p.cells = SubSeq(file, start + HeaderSize + 1, start + HeaderSize + taken)
  <2> DEFINE type == piece.type
             after == start + HeaderSize + taken
             cells == SubSeq(file, start + HeaderSize + 1, after)
  <2>1. p = [type |-> type, next |-> after, cells |-> cells]
    BY <1>7, <1>15, <1>17 DEF FragmentAt
  <2> HIDE DEF p, type, after, cells
  <2>2. p.type = type /\ p.next = after /\ p.cells = cells
    BY <2>1
  <2> QED BY <2>2 DEF type, after, cells
<1> HIDE DEF p
<1>19. p.cells = data
  <2> DEFINE from == start + HeaderSize + 1
             to == start + HeaderSize + taken
             u == SubSeq(file, from, to)
  <2>1. from \in Int /\ to \in Int /\ to - from + 1 = taken /\ (from <= to <=> taken > 0)
        /\ \A i \in 1..taken : from + i - 1 = start + HeaderSize + i
    BY <1>5, Constants
  <2>2. \A i \in from..to : file[i] \in Cell
    <3>1. from >= 1 /\ to <= Len(file)
      <4>1. Len(file) = L + (fill + HeaderSize + taken) + Len(b)
        BY <1>4, <1>9
      <4>2. start = L + fill
        BY <1>10
      <4> QED BY <1>1, <1>2, <1>5, <4>1, <4>2, Constants
    <3> HIDE DEF from, to
    <3> QED BY <1>9, <2>1, <3>1, ElementOfSeq
  <2> HIDE DEF from, to
  <2>3. u \in Seq(Cell) /\ Len(u) = taken /\ \A i \in 1..taken : u[i] = file[from + i - 1]
    BY <1>5, <2>1, <2>2, SubSeqProperties
  <2>4. \A i \in 1..taken : u[i] = data[i]
    BY <1>14, <2>1, <2>3
  <2>5. data \in Seq(Cell) /\ Len(data) = taken
    <3>1. \A i \in 1..taken : DataCell(record, done + i) \in Cell
      BY <1>1, <1>5 DEF DataCell, Cell
    <3> QED BY <1>5, <3>1
  <2> HIDE DEF u, data
  <2>6. u = data
    BY <2>3, <2>4, <2>5, SeqEqual
  <2> QED BY <1>18, <2>6 DEF u, from, to
<1>20. s.scratch \o p.cells = Data(record, done + taken)
  <2>1. Data(record, done) \o data = Data(record, done + taken)
    <3>1. \A m, k \in Nat : Data(record, m) \o [i \in 1..k |-> DataCell(record, m + i)]
                               = Data(record, m + k)
      BY DataJoins
    <3> QED BY <1>1, <1>5, <3>1, Zenon
  <2> QED BY <1>8, <1>19, <2>1
<1>21. at.begin => p.cells = Data(record, done + taken)
  <2>1. SUFFICES ASSUME at.begin PROVE p.cells = Data(record, done + taken)
    OBVIOUS
  <2>2. done = 0
    BY <2>1 DEF done
  <2>3. \A i \in 1..taken : done + i = i
    BY <1>5, <2>2
  <2>4. done + taken = taken
    BY <1>5, <2>2
  <2> QED BY <1>19, <2>3, <2>4 DEF Data
<1>22. /\ L + Len(new) = p.next
       /\ limit = (L + Len(new)) + BlockSize - next.offset
  BY <1>1, <1>2, <1>3, <1>4, <1>5, <1>10, <1>18, Constants
<1>23. Len(a) + Len(next.cells) = L + Len(new)
  <2>1. Len(next.cells) = Len(at.cells) + Len(new)
    BY <1>1, <1>4, ConcatProperties
  <2>2. Len(a) \in Nat /\ Len(at.cells) \in Nat
    BY <1>1
  <2> QED BY <1>5, <2>1, <2>2 DEF L
<1> DEFINE isEnd == done + taken = record.size
           goal == [pos |-> p.next, block |-> limit,
                    inside |-> ~isEnd,
                    scratch |-> IF isEnd THEN << >> ELSE Data(record, done + taken),
                    records |-> IF isEnd THEN Append(rs, record) ELSE rs]
<1>24. Midway(a, rs, record, next) = goal
  <2>1. (next.done < record.size) <=> ~isEnd
    <3>1. done + taken <= record.size
      BY <1>1, <1>2
    <3>2. next.done = done + taken /\ done \in Nat /\ taken \in Nat /\ record.size \in Nat
      BY <1>1, <1>3, <1>5
    <3> QED BY <3>1, <3>2
  <2> HIDE DEF isEnd
  <2>2. Len(a) + Len(next.cells) = p.next
    BY <1>22, <1>23
  <2>3. (Len(a) + Len(next.cells)) + BlockSize - next.offset = limit
    BY <1>22, <1>23
  <2>4. (~next.begin /\ next.done < record.size) = ~isEnd
    BY <1>3, <2>1
  <2> QED BY <1>3, <2>1, <2>2, <2>3, <2>4 DEF Midway
<1>25. rs \o << record >> = Append(rs, record)
  BY AppendIsConcat
<1>26. isEnd => BatchOf(Data(record, done + taken)) = << record >>
  BY BatchOfData
<1>27. NextPhysical(file, s) = goal
  <2> DEFINE goesOn == p.type = "middle" /\ s.inside
             ends == p.type = "last" /\ s.inside
             inside == p.type = "first" \/ goesOn
             scratch == IF p.type = "first" THEN p.cells
                        ELSE IF goesOn THEN s.scratch \o p.cells ELSE << >>
             records == IF p.type = "full" THEN s.records \o BatchOf(p.cells)
                        ELSE IF ends THEN s.records \o BatchOf(s.scratch \o p.cells)
                        ELSE s.records
  <2> HIDE DEF isEnd
  <2>1. p.type = FragmentType(at.begin, isEnd)
    BY <1>7, <1>18 DEF isEnd
  <2>2. /\ at.begin /\ isEnd => p.type = "full"
        /\ at.begin /\ ~isEnd => p.type = "first"
        /\ ~at.begin /\ isEnd => p.type = "last"
        /\ ~at.begin /\ ~isEnd => p.type = "middle"
    BY <2>1 DEF FragmentType
  <2>3. p.type # "eof"
    BY <2>2
  <2>4. NextPhysical(file, s)
           = [pos |-> p.next, block |-> limit, inside |-> inside, scratch |-> scratch,
              records |-> records]
    BY <1>11, <2>3 DEF NextPhysical, p
  <2>5. inside = ~isEnd
    BY <1>1, <1>8, <2>2
  <2>6. scratch = IF isEnd THEN << >> ELSE Data(record, done + taken)
    BY <1>8, <1>20, <1>21, <2>2
  <2>7. records = IF isEnd THEN Append(rs, record) ELSE rs
    BY <1>8, <1>20, <1>21, <1>25, <1>26, <2>2
  <2> HIDE DEF inside, scratch, records
  <2> QED BY <2>4, <2>5, <2>6, <2>7
<1> QED BY <1>24, <1>27 DEF file, s, next

\* AddRecord is done after a number of rounds.
LEMMA RoundsEnd ==
    ASSUME NEW record \in Record, NEW offset \in 0..BlockSize
    PROVE  /\ Rounds(record, offset) \in Nat \ {0}
           /\ Writing(record, offset)[Rounds(record, offset)].done = record.size
           /\ \A i \in Nat : i < Rounds(record, offset) =>
                 /\ Writing(record, offset)[i].done < record.size
                 /\ Writing(record, offset)[i].begin => Writing(record, offset)[i].done = 0
<1> DEFINE round == Writing(record, offset)
           size == record.size
           T == {i \in 1..(size + 1) : round[i].done = size}
           P == {i \in Nat : \/ round[i + 1].done = size
                             \/ round[i + 1].done >= i /\ round[i + 1].offset = BlockSize}
<1>1. size \in Nat /\ size >= 1
  BY DEF Record
<1>2. /\ \A i \in Nat : i + 1 \in Nat /\ round[i] \in WriterState(record)
      /\ round[0].done = 0
      /\ \A i \in Nat : round[i + 1] = NextFragment(record, round[i])
  <2>1. /\ round \in [Nat -> WriterState(record)]
        /\ round[0] = [begin |-> TRUE, done |-> 0, offset |-> offset, cells |-> << >>]
        /\ \A i \in Nat : round[i + 1] = NextFragment(record, round[i])
    BY WritingIs
  <2> HIDE DEF round
  <2>2. \A i \in Nat : round[i] \in WriterState(record)
    BY <2>1
  <2>3. round[0].done = 0
    BY <2>1
  <2>4. \A i \in Nat : i + 1 \in Nat
    OBVIOUS
  <2> QED BY <2>1, <2>2, <2>3, <2>4
<1> HIDE DEF round, size
<1>3. \A i \in Nat : /\ round[i].done \in 0..size /\ round[i].offset \in 0..BlockSize
                     /\ round[i].done \in Nat
  <2>1. \A at \in WriterState(record) : at.done \in 0..size /\ at.offset \in 0..BlockSize
    BY DEF WriterState, size
  <2> QED BY <1>1, <1>2, <2>1
<1>4. ASSUME NEW i \in Nat
      PROVE  LET at == round[i]
                 next == round[i + 1]
             IN /\ next.begin = FALSE
                /\ next.done = at.done + Taken(record, at)
                /\ \/ next.done = size
                   \/ next.offset = BlockSize
                /\ at.offset = BlockSize /\ at.done < size => next.done > at.done
  <2> DEFINE at == round[i]
             next == round[i + 1]
  <2>1. at \in WriterState(record) /\ next = NextFragment(record, at)
    BY <1>2
  <2>2. at.done \in 0..size /\ at.offset \in 0..BlockSize
    BY <1>3
  <2> HIDE DEF at, next
  <2>3. /\ next.begin = FALSE
        /\ next.done = at.done + Taken(record, at)
        /\ next.offset = From(at) + HeaderSize + Taken(record, at)
    BY <2>1, RoundAdds
  <2>4. /\ From(at) \in 0..(BlockSize - HeaderSize)
        /\ Taken(record, at) = Least(size - at.done, BlockSize - From(at) - HeaderSize)
        /\ at.offset = BlockSize => From(at) = 0
    <3>1. From(at) \in 0..(BlockSize - HeaderSize)
      BY <2>1, PieceIsFragment
    <3>2. at.offset = BlockSize => From(at) = 0
      BY Constants DEF From
    <3> QED BY <3>1, <3>2 DEF Taken, size
  <2>5. \/ Taken(record, at) = size - at.done
        \/ Taken(record, at) = BlockSize - From(at) - HeaderSize
    BY <2>4 DEF Least
  <2>6. next.done = size \/ next.offset = BlockSize
    BY <1>1, <2>2, <2>3, <2>4, <2>5, Constants
  <2>7. at.offset = BlockSize /\ at.done < size => next.done > at.done
    BY <1>1, <2>2, <2>3, <2>4, <2>5, Constants
  <2> QED BY <2>3, <2>6, <2>7 DEF at, next
<1>5. P = Nat
  <2>1. 0 \in P
    <3> DEFINE next == round[0 + 1]
    <3>1. next.done = size \/ next.offset = BlockSize
      BY <1>4
    <3>2. next.done >= 0
      BY <1>3
    <3> QED BY <3>1, <3>2
  <2>2. ASSUME NEW i \in P PROVE i + 1 \in P
    <3>1. i \in Nat /\ i + 1 \in Nat /\ (i + 1) + 1 \in Nat
      OBVIOUS
    <3> DEFINE at == round[i + 1]
               next == round[(i + 1) + 1]
    <3>2. at.done \in 0..size /\ next.done \in 0..size /\ at.done \in Nat /\ next.done \in Nat
      BY <1>3, <3>1
    <3>3. /\ next.done = at.done + Taken(record, at)
          /\ next.done = size \/ next.offset = BlockSize
          /\ at.offset = BlockSize /\ at.done < size => next.done > at.done
      BY <1>4, <3>1
    <3>4. Taken(record, at) \in 0..(size - at.done)
      BY <1>2, <3>1, PieceIsFragment DEF size
    <3>5. at.done = size \/ (at.done >= i /\ at.offset = BlockSize)
      BY <2>2
    <3>6. next.done = size \/ (next.done >= i + 1 /\ next.offset = BlockSize)
      <4> HIDE DEF at, next
      <4> QED BY <1>1, <3>1, <3>2, <3>3, <3>4, <3>5
    <3> QED BY <3>1, <3>6
  <2> HIDE DEF P
  <2> QED BY <2>1, <2>2, InductionOnNat DEF P
<1>6. size + 1 \in T
  <2>1. size \in P
    BY <1>1, <1>5
  <2>2. round[size + 1].done \in 0..size
    BY <1>1, <1>3
  <2>3. round[size + 1].done = size
    BY <1>1, <2>1, <2>2
  <2> QED BY <1>1, <2>3
<1>7. Min(T) \in T /\ \A i \in T : Min(T) <= i
  <2>1. T \in SUBSET Nat /\ T # {}
    BY <1>1, <1>6
  <2> HIDE DEF T
  <2> QED BY <2>1, MinOfNats
<1>8. Rounds(record, offset) = Min(T)
  BY DEF Rounds, round, size
<1> DEFINE m == Min(T)
<1>9. m \in 1..(size + 1) /\ round[m].done = size /\ m \in Nat \ {0}
  BY <1>1, <1>7
<1>10. ASSUME NEW i \in Nat, i < m
       PROVE  /\ round[i].done < size
              /\ round[i].begin => round[i].done = 0
  <2>1. CASE i = 0
    BY <1>1, <1>2, <2>1
  <2>2. CASE i # 0
    <3>1. i \in 1..(size + 1) /\ ~(m <= i)
      BY <1>1, <1>9, <1>10, <2>2
    <3>2. round[i].done # size
      BY <1>7, <3>1
    <3>3. i - 1 \in Nat /\ (i - 1) + 1 = i
      BY <2>2
    <3>4. round[i].begin = FALSE
      BY <1>4, <3>3
    <3>5. round[i].done \in 0..size
      BY <1>3
    <3> QED BY <1>1, <3>2, <3>4, <3>5
  <2> QED BY <2>1, <2>2
<1> HIDE DEF m
<1> QED BY <1>8, <1>9, <1>10 DEF round, size, m

-----------------------------------------------------------------------------
\* Whatever comes after a, the reader gets through it, with rs, to where the
\* writer is in its block.
ReadsThrough(a, rs, offset) ==
    \A b \in Seq(Cell) : \E j \in 0..Len(a) :
        Reading(a \o b)[j] =
            [pos |-> Len(a), block |-> Len(a) + BlockSize - offset,
             inside |-> FALSE, scratch |-> << >>, records |-> rs]

\* Nothing is read from an empty log, and that is all that is in it.
LEMMA NothingReads == ReadsThrough(<< >>, << >>, 0)
<1>1. SUFFICES ASSUME NEW b \in Seq(Cell)
               PROVE  Reading(b)[0] =
                  [pos |-> 0, block |-> 0 + BlockSize - 0,
                   inside |-> FALSE, scratch |-> << >>, records |-> << >>]
  <2>1. \A b \in Seq(Cell) : << >> \o b = b
    BY ConcatEmptySeq
  <2>2. Len(<< >>) = 0 /\ 0 \in 0..0
    OBVIOUS
  <2> QED BY <2>1, <2>2 DEF ReadsThrough
<1>2. Reading(b)[0] = StartOfFile
  BY ReadingIs
<1>3. 0 + BlockSize - 0 = BlockSize
  BY Constants
<1> QED BY <1>2, <1>3, Zenon DEF StartOfFile

\* What AddRecord appends to a log, at the block_offset_ it has, is read back as one record
\* more, whatever the size of the record (log_writer.cc AddRecord).
THEOREM AddRecordReads ==
    ASSUME NEW a \in Seq(Cell), NEW rs \in Seq(Record), NEW offset \in 0..BlockSize,
           ReadsThrough(a, rs, offset), NEW record \in Record
    PROVE  /\ AddRecord(record, offset).cells \in Seq(Cell)
           /\ AddRecord(record, offset).offset \in 0..BlockSize
           /\ ReadsThrough(a \o AddRecord(record, offset).cells, Append(rs, record),
                           AddRecord(record, offset).offset)
<1> DEFINE round == Writing(record, offset)
           size == record.size
           m == Rounds(record, offset)
           Between(at) ==
              \A b \in Seq(Cell) : \E j \in 0..(Len(a) + Len(at.cells)) :
                 Reading((a \o at.cells) \o b)[j] = Midway(a, rs, record, at)
           P == {i \in Nat : i <= m => Between(round[i])}
<1>1. size \in Nat /\ size >= 1
  BY DEF Record
<1>2. /\ \A i \in Nat : i + 1 \in Nat /\ round[i] \in WriterState(record)
      /\ round[0] = [begin |-> TRUE, done |-> 0, offset |-> offset, cells |-> << >>]
      /\ \A i \in Nat : round[i + 1] = NextFragment(record, round[i])
  <2>1. /\ round \in [Nat -> WriterState(record)]
        /\ round[0] = [begin |-> TRUE, done |-> 0, offset |-> offset, cells |-> << >>]
        /\ \A i \in Nat : round[i + 1] = NextFragment(record, round[i])
    BY WritingIs
  <2> HIDE DEF round
  <2>2. \A i \in Nat : round[i] \in WriterState(record)
    BY <2>1
  <2>3. \A i \in Nat : i + 1 \in Nat
    OBVIOUS
  <2> QED BY <2>1, <2>2, <2>3
<1>3. /\ m \in Nat \ {0} /\ round[m].done = size
      /\ \A i \in Nat : i < m => round[i].done < size /\ (round[i].begin => round[i].done = 0)
  BY RoundsEnd
<1> HIDE DEF round, m
<1>4. Between(round[0])
  <2>1. SUFFICES ASSUME NEW b \in Seq(Cell)
                 PROVE  \E j \in 0..(Len(a) + 0) :
                           Reading(a \o b)[j] = Midway(a, rs, record, round[0])
    <3>1. a \o << >> = a /\ Len(<< >>) = 0
      BY ConcatEmptySeq
    <3>2. round[0].cells = << >>
      BY <1>2
    <3>3. Len(round[0].cells) = 0 /\ a \o round[0].cells = a
      BY <3>1, <3>2
    <3> QED BY <2>1, <3>3, Zenon
  <2>2. PICK j \in 0..Len(a) :
           Reading(a \o b)[j] =
              [pos |-> Len(a), block |-> Len(a) + BlockSize - offset,
               inside |-> FALSE, scratch |-> << >>, records |-> rs]
    BY DEF ReadsThrough
  <2>3. /\ round[0].done = 0 /\ round[0].begin = TRUE /\ round[0].offset = offset
        /\ round[0].cells = << >>
    BY <1>2
  <2>4. Data(record, 0) = << >>
    BY DataIsSeq, EmptySeq
  <2>5. Len(a) + 0 = Len(a) /\ 0 < size
    BY <1>1
  <2>6. Midway(a, rs, record, round[0]) =
              [pos |-> Len(a), block |-> Len(a) + BlockSize - offset,
               inside |-> FALSE, scratch |-> << >>, records |-> rs]
    BY <2>3, <2>4, <2>5 DEF Midway
  <2> QED BY <2>2, <2>5, <2>6
<1>5. ASSUME NEW i \in Nat, i < m, Between(round[i]) PROVE Between(round[i + 1])
  <2> DEFINE at == round[i]
             next == round[i + 1]
  <2>1. /\ at \in WriterState(record) /\ next = NextFragment(record, at)
        /\ at.done < record.size /\ (at.begin => at.done = 0)
    BY <1>2, <1>3, <1>5
  <2>2. Between(at)
    BY <1>5
  <2>3. SUFFICES Between(next)
    OBVIOUS
  <2> HIDE DEF at, next
  <2>4. SUFFICES ASSUME NEW b \in Seq(Cell)
                 PROVE  \E j \in 0..(Len(a) + Len(next.cells)) :
                    Reading((a \o next.cells) \o b)[j] = Midway(a, rs, record, next)
    OBVIOUS
  <2>5. PICK new \in Seq(Cell) :
           /\ next.cells = at.cells \o new
           /\ Len(new) >= 1
    <3>1. PICK new \in Seq(Cell) :
             /\ next.cells = at.cells \o new
             /\ Len(new) = Fill(at) + HeaderSize + Taken(record, at)
      BY <2>1, RoundAdds
    <3>2. Fill(at) \in Nat /\ Taken(record, at) \in 0..(record.size - at.done)
      BY <2>1, PieceIsFragment
    <3>3. Fill(at) + HeaderSize + Taken(record, at) >= 1
      BY <2>1, <3>2, Constants, SMTT(30) DEF WriterState, Record
    <3> QED BY <3>1, <3>3
  <2>6. at.cells \in Seq(Cell)
    BY <2>1 DEF WriterState
  <2> DEFINE file == (a \o next.cells) \o b
  <2>7. file = (a \o at.cells) \o (new \o b)
    <3>1. (a \o at.cells) \o new = a \o (at.cells \o new)
      BY <2>6, JoinAssociates, Zenon
    <3>2. a \o at.cells \in Seq(Cell)
      BY <2>6, JoinIsSeq, Zenon
    <3>3. ((a \o at.cells) \o new) \o b = (a \o at.cells) \o (new \o b)
      BY <3>2, JoinAssociates, Zenon
    <3> QED BY <2>5, <3>1, <3>3
  <2>8. new \o b \in Seq(Cell) /\ file \in Seq(Cell)
    <3>1. next.cells \in Seq(Cell)
      BY <2>5, <2>6, JoinIsSeq
    <3> QED BY <3>1, JoinIsSeq
  <2> HIDE DEF file
  <2>9. PICK j \in 0..(Len(a) + Len(at.cells)) : Reading(file)[j] = Midway(a, rs, record, at)
    BY <2>2, <2>7, <2>8
  <2>10. Reading(file)[j + 1] = NextPhysical(file, Midway(a, rs, record, at))
    <3>1. j \in Nat
      BY <2>6
    <3> QED BY <2>8, <2>9, <3>1, ReadingIs
  <2>11. NextPhysical(file, Midway(a, rs, record, at)) = Midway(a, rs, record, next)
    BY <2>1, RoundReads DEF file
  <2>12. j + 1 \in 0..(Len(a) + Len(next.cells))
    <3>1. Len(next.cells) = Len(at.cells) + Len(new)
      BY <2>5, <2>6, ConcatProperties
    <3>2. Len(a) \in Nat /\ Len(at.cells) \in Nat /\ Len(new) \in Nat
      BY <2>6
    <3> QED BY <2>5, <3>1, <3>2
  <2> QED BY <2>10, <2>11, <2>12 DEF file
<1>6. P = Nat
  <2> HIDE DEF Between
  <2>1. 0 \in P
    BY <1>4
  <2>2. ASSUME NEW i \in P PROVE i + 1 \in P
    <3>1. CASE i + 1 <= m
      <4>1. i < m /\ i <= m
        BY <1>3, <3>1
      <4> QED BY <1>5, <2>2, <4>1
    <3>2. CASE ~(i + 1 <= m)
      BY <3>2
    <3> QED BY <3>1, <3>2
  <2> HIDE DEF P
  <2> QED BY <2>1, <2>2, InductionOnNat DEF P
<1>7. Between(round[m])
  <2> HIDE DEF Between
  <2>1. m \in P
    BY <1>3, <1>6
  <2> QED BY <1>3, <2>1
<1> DEFINE w == round[m]
<1>8. AddRecord(record, offset) = w
  BY DEF AddRecord, round, m
<1>9. w \in WriterState(record) /\ w.done = size
  BY <1>2, <1>3
<1> HIDE DEF w
<1>10. w.cells \in Seq(Cell) /\ w.offset \in 0..BlockSize
  BY <1>9 DEF WriterState
<1>11. Midway(a, rs, record, w) =
          [pos |-> Len(a) + Len(w.cells), block |-> Len(a) + Len(w.cells) + BlockSize - w.offset,
           inside |-> FALSE, scratch |-> << >>, records |-> Append(rs, record)]
  <2>1. ~(w.done < record.size)
    BY <1>1, <1>9
  <2> QED BY <2>1 DEF Midway
<1>12. Len(a \o w.cells) = Len(a) + Len(w.cells)
  BY <1>10, ConcatProperties
<1>13. ReadsThrough(a \o w.cells, Append(rs, record), w.offset)
  BY <1>7, <1>11, <1>12 DEF ReadsThrough, w
<1> QED BY <1>8, <1>10, <1>13

\* A log that was only added to is read back as all the records that were added.
THEOREM WrittenReads ==
    ASSUME NEW a \in Seq(Cell), NEW rs \in Seq(Record), NEW offset \in 0..BlockSize,
           ReadsThrough(a, rs, offset)
    PROVE  ReadRecords(a) = rs
<1> DEFINE s == [pos |-> Len(a), block |-> Len(a) + BlockSize - offset,
                 inside |-> FALSE, scratch |-> << >>, records |-> rs]
<1>0. Len(a) \in Nat
  OBVIOUS
<1>1. PICK j \in 0..Len(a) : Reading(a)[j] = s
  <2>1. a \o << >> = a /\ << >> \in Seq(Cell)
    BY ConcatEmptySeq
  <2> QED BY <2>1 DEF ReadsThrough
<1>2. /\ s \in ReaderState /\ s.pos = Len(a) /\ s.block = Len(a) + BlockSize - offset
      /\ s.records = rs
  BY <1>0, Constants DEF ReaderState
<1> HIDE DEF s
<1>3. Ended(a, s)
  <2> DEFINE from == Refill(a, s)
  <2>1. from.pos = Len(a) /\ from.block \in Nat /\ from.block >= Len(a)
    <3>1. CASE s.block - s.pos < HeaderSize /\ s.block <= Len(a)
      BY <1>0, <1>2, <3>1, RefillIs, Constants
    <3>2. CASE ~(s.block - s.pos < HeaderSize /\ s.block <= Len(a))
      BY <1>0, <1>2, <3>2, RefillIs, Constants
    <3> QED BY <3>1, <3>2
  <2> HIDE DEF from
  <2>2. EndOf(a, from.block) - from.pos < HeaderSize
    BY <1>0, <2>1, Constants DEF EndOf, Least
  <2>3. Physical(a, from.pos, from.block) = NoFragment("eof", a, from.block)
    BY <2>2, PhysicalIs, Zenon
  <2> QED BY <2>3 DEF Ended, NoFragment, from
<1> DEFINE P == {i \in Nat : Reading(a)[j + i] = s}
<1>4. j \in Nat /\ j + 0 = j
  BY <1>0
<1>5. P = Nat
  <2>1. 0 \in P
    BY <1>1, <1>4
  <2>2. ASSUME NEW i \in P PROVE i + 1 \in P
    <3>1. j + i \in Nat /\ j + (i + 1) = (j + i) + 1 /\ i + 1 \in Nat
      BY <1>4
    <3>2. Reading(a)[(j + i) + 1] = NextPhysical(a, Reading(a)[j + i])
      BY <3>1, ReadingIs
    <3> QED BY <1>3, <2>2, <3>1, <3>2, EndedStays
  <2> HIDE DEF P
  <2> QED BY <2>1, <2>2, InductionOnNat DEF P
<1>6. Len(a) - j \in P /\ j + (Len(a) - j) = Len(a)
  <2>1. Len(a) - j \in Nat /\ j + (Len(a) - j) = Len(a)
    BY <1>0, <1>4
  <2> QED BY <1>5, <2>1
<1> QED BY <1>2, <1>6 DEF ReadRecords

-----------------------------------------------------------------------------
(***************************************************************************)
(* The database                                                            *)
(***************************************************************************)
(* Types *)

Log == [cells : Seq(Cell), synced : Nat, records : Seq(Record), torn : BOOLEAN]
Change == [add : SUBSET Nat, del : SUBSET Nat]
Edit == [add : SUBSET Nat, del : SUBSET Nat, logNumber : Nat, nextFile : Nat, lastSeq : Nat]
Descriptor == [edits : Seq(Edit), synced : Nat]
Memory ==
    [version : SUBSET Nat, logNumber : Nat, manifest : Nat, nextFile : Nat, lastSeq : Nat,
     logfile : Nat, offset : 0..BlockSize, mem : SUBSET Nat, imm : SUBSET Nat, edit : Change,
     todo : SUBSET Nat, maxSeq : Nat]
Batch == [seq : Nat, sync : BOOLEAN, from : Nat]
Job == [kind : {"none", "flush", "compaction"}, step : {"none", "built", "logged", "applied"},
        edit : Change]
Modes == {"closed", "replaying", "logging", "written", "synced", "installed", "open"}

Typed ==
    /\ logs \in [DOMAIN logs -> Log] /\ DOMAIN logs \subseteq Nat
    /\ tables \in [DOMAIN tables -> SUBSET (Nat \ {0})] /\ DOMAIN tables \subseteq Nat
    /\ manifests \in [DOMAIN manifests -> Descriptor] /\ DOMAIN manifests \subseteq Nat
    /\ current \in DOMAIN manifests
    /\ mode \in Modes
    /\ db \in Memory /\ pending \in Batch /\ job \in Job
    /\ acked \subseteq Nat \ {0} /\ hard \subseteq acked
    /\ \A n \in DOMAIN logs : logs[n].synced <= Len(logs[n].cells)
    /\ \A n \in DOMAIN manifests : manifests[n].synced <= Len(manifests[n].edits)

-----------------------------------------------------------------------------
(* What is kept where *)

Kept == acked \ spoilt
Solid == hard \ spoilt

SeqsOf(records) == {records[i].seq : i \in 1..Len(records)}

\* The numbers read from the first of some cells.
Held(cells, n) == SeqsOf(ReadRecords(SubSeq(cells, 1, n)))

\* InTables, of any tables.
Stored(ts, version) == UNION {ts[n] : n \in version \cap DOMAIN ts}

\* The cells of a log that a process leaves when it dies.
Whole(n) == IF pending # Nothing /\ n = db.logfile THEN pending.from ELSE Len(logs[n].cells)

InLogs(s, number) == \E n \in DOMAIN logs : n >= number /\ s \in Held(logs[n].cells, Whole(n))
InSynced(s, number) == \E n \in DOMAIN logs : n >= number /\ s \in Held(logs[n].cells, logs[n].synced)

Edits == manifests[current].edits
VersionAt(k) == VersionOf(SubSeq(Edits, 1, k))
Standing == manifests[current].synced..Len(Edits)

\* An edit that may be the last one a process that opens the database finds.
FilesOK ==
    /\ manifests[current].synced >= 1
    /\ \A k \in Standing :
          /\ Edits[k].nextFile > current /\ Edits[k].logNumber < Edits[k].nextFile
          /\ Edits[k].nextFile <= LastEdit(Edits).nextFile
          /\ \A n \in VersionAt(k) :
                /\ n \in DOMAIN tables /\ n < Edits[k].nextFile
                /\ \A s \in tables[n] : s <= Edits[k].lastSeq

\* What outlasts a machine crash, whichever edit it leaves as the last.
HardOK ==
    \A k \in Standing : \A s \in Solid :
        s \in Stored(tables, VersionAt(k)) \/ InSynced(s, Edits[k].logNumber)

\* What outlasts the process.
AckedOK ==
    \A s \in Kept :
        s \in Stored(tables, VersionOf(Edits)) \/ InLogs(s, LastEdit(Edits).logNumber)

\* Logs read back.
LogsOK ==
    \A n \in DOMAIN logs : ~logs[n].torn => Begins(ReadRecords(logs[n].cells), logs[n].records)

\* The log that is being written.
Logging == mode \in {"logging", "written", "synced", "installed", "open"}
LogfileOK ==
    Logging =>
        /\ db.logfile \in DOMAIN logs
        /\ ~logs[db.logfile].torn =>
              ReadsThrough(logs[db.logfile].cells, logs[db.logfile].records, db.offset)
        /\ \A n \in DOMAIN logs : n < db.nextFile

\* A write between its append and its answer.
PendingOK ==
    pending # Nothing =>
        /\ mode = "open" /\ pending.seq = db.lastSeq /\ pending.seq > 0
        /\ pending.seq \notin Kept /\ pending.seq \notin db.mem \cup db.imm
        /\ pending.from \in logs[db.logfile].synced..Len(logs[db.logfile].cells)
        /\ pending.seq \in SeqsOf(logs[db.logfile].records)

\* While the database is open.
Running == mode \in {"installed", "open"}

\* Memory follows the edit that is in force; what is promised is in memory, and what of
\* it is in no table is in the log that is being written.
RunningOK ==
    Running =>
        /\ db.manifest = current /\ db.nextFile > current
        /\ db.version = VersionAt(manifests[current].synced)
        /\ db.logNumber = Edits[manifests[current].synced].logNumber
        /\ Len(Edits) = IF job.step = "logged" THEN manifests[current].synced + 1
                        ELSE manifests[current].synced
        /\ \A k \in Standing : Edits[k].nextFile <= db.nextFile /\ Edits[k].logNumber <= db.logfile
        /\ \A s \in db.mem \cup db.imm \cup Stored(tables, db.version) : s <= db.lastSeq /\ s > 0
        /\ db.mem \cap db.imm = {}
        /\ \A s \in Kept : s \in db.mem \cup db.imm \cup Stored(tables, db.version)
        /\ \A s \in Kept \cap db.mem : s \in Held(logs[db.logfile].cells, Whole(db.logfile))
        /\ \A s \in Solid \cap db.mem : s \in Held(logs[db.logfile].cells, logs[db.logfile].synced)

\* CURRENT names the new descriptor, nothing is written yet.
InstalledOK == mode = "installed" => db.mem = {} /\ db.imm = {}

\* A table is what was flushed or merged; an edit keeps what the version had.
JobOK ==
    /\ mode # "open" => job = Idle /\ pending = Nothing
    /\ job.step = "none" => job = Idle
    /\ job.step # "none" => job.kind # "none"
    /\ job.step = "built" =>
          \E t \in DOMAIN tables :
             /\ t < db.nextFile /\ job.edit.add = {t}
             /\ job.kind = "flush" =>
                   db.imm # {} /\ job.edit.del = {} /\ tables[t] = db.imm
             /\ job.kind = "compaction" =>
                   job.edit.del = db.version /\ tables[t] = Stored(tables, db.version)
    /\ job.step = "logged" =>
          /\ job.kind = "flush" => db.imm # {}
          /\ Stored(tables, VersionOf(Edits))
                = Stored(tables, db.version) \cup (IF job.kind = "flush" THEN db.imm ELSE {})

\* While it is being opened.
Opening == mode \in {"replaying", "logging", "written", "synced"}
OpeningOK ==
    Opening =>
        /\ db.version = VersionOf(Edits) /\ db.logNumber = LastEdit(Edits).logNumber
        /\ db.manifest = LastEdit(Edits).nextFile /\ db.nextFile > db.manifest
        /\ db.mem = {} /\ db.imm = {} /\ db.edit.del = {} /\ db.offset = 0
        /\ \A n \in db.edit.add : n \in DOMAIN tables /\ n < db.nextFile

\* The logs replayed so far are in the tables of the edit.
ReplayingOK ==
    mode = "replaying" =>
        /\ db.lastSeq = LastEdit(Edits).lastSeq
        /\ db.todo \subseteq LogsFrom(db.logNumber)
        /\ \A n \in DOMAIN logs \ db.todo :
              /\ n < db.nextFile
              /\ n >= db.logNumber =>
                    Held(logs[n].cells, Len(logs[n].cells)) \subseteq Stored(tables, db.edit.add)
        /\ \A s \in Stored(tables, db.edit.add) : s <= db.maxSeq

\* All of them are: what is promised is in the tables of the new version.
RecoveredOK ==
    mode \in {"logging", "written", "synced"} =>
        /\ db.logfile < db.nextFile
        /\ \A s \in Stored(tables, db.version \cup db.edit.add) : s <= db.lastSeq
        /\ Kept \subseteq Stored(tables, db.version \cup db.edit.add)

Snapshot(version) ==
    [add |-> version, del |-> {}, logNumber |-> 0, nextFile |-> 0, lastSeq |-> 0]
RecoveryEdit ==
    [add |-> db.edit.add, del |-> {}, logNumber |-> db.logfile, nextFile |-> db.nextFile,
     lastSeq |-> db.lastSeq]

\* The new descriptor holds the version and the edit of the recovery.
WrittenOK ==
    mode \in {"written", "synced"} =>
        /\ db.manifest \in DOMAIN manifests
        /\ manifests[db.manifest].edits = << Snapshot(db.version), RecoveryEdit >>
        /\ mode = "synced" => manifests[db.manifest].synced = 2

IInv ==
    /\ Typed /\ FilesOK /\ HardOK /\ AckedOK /\ LogsOK /\ LogfileOK /\ PendingOK
    /\ RunningOK /\ InstalledOK /\ JobOK /\ OpeningOK /\ ReplayingOK /\ RecoveredOK /\ WrittenOK

\* More records have more numbers.
LEMMA SeqsOfGrow ==
    ASSUME NEW s \in Seq(Record), NEW t \in Seq(Record), Begins(s, t)
    PROVE  SeqsOf(s) \subseteq SeqsOf(t)
<1>1. Len(s) \in Nat /\ Len(t) \in Nat /\ Len(s) <= Len(t)
  BY DEF Begins
<1>2. \A i \in 1..Len(s) : i \in 1..Len(t) /\ s[i].seq = t[i].seq
  BY <1>1 DEF Begins
<1> QED BY <1>2 DEF SeqsOf

\* The number of a batch is not zero.
LEMMA SeqsOfType ==
    ASSUME NEW s \in Seq(Record)
    PROVE  SeqsOf(s) \subseteq Nat \ {0}
<1>1. \A i \in 1..Len(s) : s[i] \in Record
  BY ElementOfSeq
<1>2. \A r \in Record : r.seq \in Nat \ {0}
  BY DEF Record
<1> QED BY <1>1, <1>2 DEF SeqsOf

\* The first cells of a log ...
LEMMA CutIsSeq ==
    ASSUME NEW cells \in Seq(Cell), NEW n \in 0..Len(cells)
    PROVE  /\ SubSeq(cells, 1, n) \in Seq(Cell) /\ Len(SubSeq(cells, 1, n)) = n
           /\ \A i \in 1..n : SubSeq(cells, 1, n)[i] = cells[i]
<1>1. n \in Nat /\ n <= Len(cells) /\ Len(cells) \in Nat
  OBVIOUS
<1>2. \A i \in 1..n : cells[i] \in Cell
  BY <1>1, ElementOfSeq
<1> QED BY <1>1, <1>2, SubSeqProperties

\* ... the first of those ...
LEMMA CutOfCut ==
    ASSUME NEW cells \in Seq(Cell), NEW n \in 0..Len(cells), NEW m \in 0..n
    PROVE  SubSeq(SubSeq(cells, 1, n), 1, m) = SubSeq(cells, 1, m)
<1>1. n \in Nat /\ m \in Nat /\ m <= n /\ m \in 0..Len(cells)
  OBVIOUS
<1> DEFINE c == SubSeq(cells, 1, n)
<1>2. c \in Seq(Cell) /\ Len(c) = n /\ \A i \in 1..n : c[i] = cells[i]
  BY CutIsSeq
<1> HIDE DEF c
<1>3. \A i \in 1..m : c[i] \in Cell /\ cells[i] = c[i]
  BY <1>1, <1>2, ElementOfSeq
<1>4. SubSeq(c, 1, m) = SubSeq(cells, 1, m)
  BY <1>1, <1>3, SubSeqSame
<1> QED BY <1>4 DEF c

\* ... and those of a log that has been added to.
LEMMA CutOfJoin ==
    ASSUME NEW cells \in Seq(Cell), NEW more \in Seq(Cell), NEW m \in 0..Len(cells)
    PROVE  SubSeq(cells \o more, 1, m) = SubSeq(cells, 1, m)
<1>1. m \in Nat /\ m <= Len(cells) /\ Len(cells) \in Nat /\ Len(more) \in Nat
  OBVIOUS
<1> DEFINE c == cells \o more
<1>2. /\ \A i \in 1..Len(cells) + Len(more) :
            c[i] = IF i <= Len(cells) THEN cells[i] ELSE more[i - Len(cells)]
  BY ConcatProperties
<1> HIDE DEF c
<1>3. \A i \in 1..m : cells[i] \in Cell /\ c[i] = cells[i]
  BY <1>1, <1>2, ElementOfSeq
<1>4. SubSeq(cells, 1, m) = SubSeq(c, 1, m)
  BY <1>1, <1>3, SubSeqSame
<1> QED BY <1>4 DEF c

\* More cells, more batches.
LEMMA HeldGrows ==
    ASSUME NEW cells \in Seq(Cell), NEW n \in 0..Len(cells), NEW m \in 0..n
    PROVE  /\ Held(cells, m) \subseteq Held(cells, n)
           /\ Held(cells, n) \subseteq Nat \ {0}
<1> DEFINE c == SubSeq(cells, 1, n)
<1>1. c \in Seq(Cell) /\ Len(c) = n
  BY CutIsSeq
<1>2. SubSeq(c, 1, m) = SubSeq(cells, 1, m)
  BY CutOfCut
<1> HIDE DEF c
<1>3. /\ ReadRecords(c) \in Seq(Record) /\ ReadRecords(SubSeq(c, 1, m)) \in Seq(Record)
      /\ Begins(ReadRecords(SubSeq(c, 1, m)), ReadRecords(c))
  BY <1>1, TruncatedReads
<1>4. SeqsOf(ReadRecords(SubSeq(cells, 1, m))) \subseteq SeqsOf(ReadRecords(c))
  BY <1>2, <1>3, SeqsOfGrow
<1>5. SeqsOf(ReadRecords(c)) \subseteq Nat \ {0}
  BY <1>3, SeqsOfType
<1> QED BY <1>4, <1>5 DEF Held, c

\* A log that has been cut short holds in its first cells what it held there, ...
LEMMA HeldOfCut ==
    ASSUME NEW cells \in Seq(Cell), NEW n \in 0..Len(cells), NEW m \in 0..n
    PROVE  Held(SubSeq(cells, 1, n), m) = Held(cells, m)
BY CutOfCut DEF Held

\* ... and so does one that has been added to.
LEMMA HeldOfJoin ==
    ASSUME NEW cells \in Seq(Cell), NEW more \in Seq(Cell), NEW m \in 0..Len(cells)
    PROVE  Held(cells \o more, m) = Held(cells, m)
BY CutOfJoin DEF Held

\* What all cells of a log hold is what is read from it.
LEMMA HeldOfAll ==
    ASSUME NEW cells \in Seq(Cell)
    PROVE  Held(cells, Len(cells)) = SeqsOf(ReadRecords(cells))
BY SubSeqFull DEF Held

-----------------------------------------------------------------------------
(* Versions and tables *)

\* The files of a version: those an edit adds and none after it deletes.
LEMMA VersionIs ==
    ASSUME NEW edits \in Seq(Edit), NEW n
    PROVE  n \in VersionOf(edits) <=>
              \E i \in 1..Len(edits) :
                 /\ n \in edits[i].add
                 /\ \A j \in (i + 1)..Len(edits) : n \notin edits[j].del
<1>1. DOMAIN edits = 1..Len(edits)
  BY LenProperties
<1>2. \A i \in 1..Len(edits) :
         n \in {m \in edits[i].add : \A j \in (i + 1)..Len(edits) : m \notin edits[j].del} <=>
            /\ n \in edits[i].add
            /\ \A j \in (i + 1)..Len(edits) : n \notin edits[j].del
  OBVIOUS
<1> QED BY <1>1, <1>2, Zenon DEF VersionOf

\* An edit at the end deletes and adds to the version.
LEMMA VersionOfAppend ==
    ASSUME NEW edits \in Seq(Edit), NEW e \in Edit
    PROVE  VersionOf(Append(edits, e)) = (VersionOf(edits) \ e.del) \cup e.add
<1> DEFINE all == Append(edits, e)
           L == Len(edits)
<1>1. /\ all \in Seq(Edit) /\ Len(all) = L + 1 /\ L \in Nat
      /\ \A i \in 1..L : all[i] = edits[i]
      /\ all[L + 1] = e
  BY AppendProperties
<1> HIDE DEF all, L
<1>2. SUFFICES ASSUME NEW n
               PROVE  n \in VersionOf(all) <=> n \in (VersionOf(edits) \ e.del) \cup e.add
  BY DEF all
<1>3. n \in VersionOf(all) <=>
         \E i \in 1..(L + 1) : /\ n \in all[i].add
                               /\ \A j \in (i + 1)..(L + 1) : n \notin all[j].del
  BY <1>1, VersionIs
<1>4. n \in VersionOf(edits) <=>
         \E i \in 1..L : /\ n \in edits[i].add
                         /\ \A j \in (i + 1)..L : n \notin edits[j].del
  BY VersionIs DEF L
<1>5. ASSUME n \in VersionOf(all) PROVE n \in (VersionOf(edits) \ e.del) \cup e.add
  <2>1. PICK i \in 1..(L + 1) : /\ n \in all[i].add
                                /\ \A j \in (i + 1)..(L + 1) : n \notin all[j].del
    BY <1>3, <1>5
  <2>2. CASE i = L + 1
    BY <1>1, <2>1, <2>2
  <2>3. CASE i \in 1..L
    <3>1. L + 1 \in (i + 1)..(L + 1) /\ n \notin e.del
      BY <1>1, <2>1, <2>3
    <3>2. \A j \in (i + 1)..L : j \in (i + 1)..(L + 1) /\ j \in 1..L
      BY <1>1, <2>3
    <3>3. \A j \in (i + 1)..L : n \notin edits[j].del
      BY <1>1, <2>1, <3>2
    <3>4. n \in edits[i].add
      BY <1>1, <2>1, <2>3
    <3> QED BY <1>4, <2>3, <3>1, <3>3, <3>4
  <2> QED BY <1>1, <2>2, <2>3
<1>6. ASSUME n \in VersionOf(edits), n \notin e.del PROVE n \in VersionOf(all)
  <2>1. PICK i \in 1..L : /\ n \in edits[i].add
                          /\ \A j \in (i + 1)..L : n \notin edits[j].del
    BY <1>4, <1>6
  <2>2. i \in 1..(L + 1) /\ n \in all[i].add
    BY <1>1, <2>1
  <2>3. \A j \in (i + 1)..(L + 1) : j = L + 1 \/ (j \in (i + 1)..L /\ j \in 1..L)
    BY <1>1
  <2>4. \A j \in (i + 1)..(L + 1) : n \notin all[j].del
    BY <1>1, <1>6, <2>1, <2>3
  <2> QED BY <1>3, <2>2, <2>4
<1>7. ASSUME n \in e.add PROVE n \in VersionOf(all)
  <2>1. L + 1 \in 1..(L + 1) /\ (L + 1 + 1)..(L + 1) = {}
    BY <1>1
  <2> QED BY <1>1, <1>3, <1>7, <2>1
<1> QED BY <1>5, <1>6, <1>7

\* There is nothing before the first edit.
LEMMA VersionOfNone == VersionOf(<< >>) = {}
BY DEF VersionOf

\* A snapshot and an edit after it that deletes nothing.
LEMMA VersionOfTwo ==
    ASSUME NEW a \in Edit, NEW b \in Edit, b.del = {}
    PROVE  /\ << a, b >> \in Seq(Edit) /\ Len(<< a, b >>) = 2
           /\ << a, b >>[1] = a /\ << a, b >>[2] = b
           /\ VersionOf(<< a, b >>) = a.add \cup b.add
<1>1. << a, b >> = Append(<< a >>, b) /\ << a >> = Append(<< >>, a)
  OBVIOUS
<1>2. << >> \in Seq(Edit) /\ << a >> \in Seq(Edit) /\ << a, b >> \in Seq(Edit)
  OBVIOUS
<1>3. VersionOf(<< a >>) = (VersionOf(<< >>) \ a.del) \cup a.add
  BY <1>1, <1>2, VersionOfAppend
<1>4. VersionOf(<< a, b >>) = (VersionOf(<< a >>) \ b.del) \cup b.add
  BY <1>1, <1>2, VersionOfAppend
<1> QED BY <1>2, <1>3, <1>4, VersionOfNone

\* The files of a version are numbers.
LEMMA VersionType ==
    ASSUME NEW edits \in Seq(Edit)
    PROVE  VersionOf(edits) \subseteq Nat
<1>1. \A i \in 1..Len(edits) : edits[i] \in Edit
  BY ElementOfSeq
<1>2. \A e \in Edit : e.add \subseteq Nat
  BY DEF Edit
<1> QED BY <1>1, <1>2, VersionIs

\* What tables hold, one of them does.
LEMMA StoredIs ==
    ASSUME NEW ts, NEW version, NEW s
    PROVE  s \in Stored(ts, version) <=> \E n \in version : n \in DOMAIN ts /\ s \in ts[n]
BY DEF Stored

\* Tables that stay hold what they held.
LEMMA StoredStays ==
    ASSUME NEW ts, NEW us, NEW version,
           \A n \in version : n \in DOMAIN ts => n \in DOMAIN us /\ us[n] = ts[n]
    PROVE  Stored(ts, version) \subseteq Stored(us, version)
BY DEF Stored

\* Tables that are all there and stay as they are hold the same.
LEMMA StoredSame ==
    ASSUME NEW ts, NEW us, NEW version,
           \A n \in version : n \in DOMAIN ts /\ n \in DOMAIN us /\ us[n] = ts[n]
    PROVE  Stored(us, version) = Stored(ts, version)
BY DEF Stored

\* What the tables of two versions hold.
LEMMA StoredUnion ==
    ASSUME NEW ts, NEW v, NEW w
    PROVE  Stored(ts, v \cup w) = Stored(ts, v) \cup Stored(ts, w)
BY DEF Stored

\* What one table holds.
LEMMA StoredOne ==
    ASSUME NEW ts, NEW n \in DOMAIN ts
    PROVE  Stored(ts, {n}) = ts[n]
BY DEF Stored

-----------------------------------------------------------------------------
(* Greatest numbers *)

\* Numbers with a bound have a greatest one, and Max is it.
LEMMA BoundedHasMax ==
    ASSUME NEW b \in Nat, NEW T \in SUBSET Nat, T # {}, \A y \in T : y <= b
    PROVE  Max(T) \in T /\ \A y \in T : y <= Max(T)
<1> DEFINE R == {b - i : i \in T}
<1>1. R \in SUBSET Nat /\ R # {}
  <2>1. \A i \in T : b - i \in Nat
    OBVIOUS
  <2> QED BY <2>1
<1>2. Min(R) \in R /\ \A y \in R : Min(R) <= y
  BY <1>1, MinOfNats, Zenon
<1>3. PICK m \in T : Min(R) = b - m
  BY <1>2
<1>4. ASSUME NEW y \in T PROVE y <= m
  <2>1. b - y \in R
    OBVIOUS
  <2>2. b - m <= b - y
    BY <2>1, <1>2, <1>3, Zenon
  <2>3. m \in Nat /\ y \in Nat
    OBVIOUS
  <2> QED BY <2>2, <2>3
<1> HIDE DEF R
<1> QED BY <1>4 DEF Max

\* The numbers of the batches of a log have a bound.
LEMMA SeqsAreBounded ==
    ASSUME NEW s \in Seq(Record)
    PROVE  \E b \in Nat : \A x \in SeqsOf(s) : x <= b
<1> DEFINE P == {i \in Nat : \E b \in Nat : \A j \in 1..Len(s) : j <= i => s[j].seq <= b}
<1>0. Len(s) \in Nat
  OBVIOUS
<1>1. \A j \in 1..Len(s) : s[j].seq \in Nat
  <2>1. \A j \in 1..Len(s) : s[j] \in Record
    BY ElementOfSeq
  <2> QED BY <2>1 DEF Record
<1>2. 0 \in P
  OBVIOUS
<1>3. ASSUME NEW i \in P PROVE i + 1 \in P
  <2>1. PICK b \in Nat : \A j \in 1..Len(s) : j <= i => s[j].seq <= b
    OBVIOUS
  <2>2. CASE i + 1 \in 1..Len(s)
    <3> DEFINE c == b + s[i + 1].seq
    <3>1. c \in Nat /\ b <= c /\ s[i + 1].seq <= c
      BY <1>1, <2>2
    <3> HIDE DEF c
    <3>2. \A j \in 1..Len(s) : j <= i + 1 => j <= i \/ j = i + 1
      OBVIOUS
    <3>3. \A j \in 1..Len(s) : j <= i + 1 => s[j].seq <= c
      BY <1>1, <2>1, <3>1, <3>2
    <3>4. i + 1 \in Nat
      OBVIOUS
    <3> QED BY <3>1, <3>3, <3>4
  <2>3. CASE i + 1 \notin 1..Len(s)
    <3>1. \A j \in 1..Len(s) : j <= i + 1 => j <= i
      BY <2>3
    <3> QED BY <2>1, <3>1, SMTT(30)
  <2> QED BY <2>2, <2>3
<1> HIDE DEF P
<1>4. P = Nat
  <2>1. P \in SUBSET Nat
    BY DEF P
  <2> QED BY <1>2, <1>3, <2>1, InductionOnNat
<1>5. PICK b \in Nat : \A j \in 1..Len(s) : j <= Len(s) => s[j].seq <= b
  BY <1>0, <1>4 DEF P
<1>6. \A j \in 1..Len(s) : s[j].seq <= b
  BY <1>0, <1>5
<1> QED BY <1>6 DEF SeqsOf

\* HighestOf is above all of them.
LEMMA HighestIs ==
    ASSUME NEW T \in SUBSET Nat, NEW b \in Nat, \A y \in T : y <= b
    PROVE  HighestOf(T) \in Nat /\ \A y \in T : y <= HighestOf(T)
<1>1. T \cup {0} \in SUBSET Nat /\ T \cup {0} # {} /\ \A y \in T \cup {0} : y <= b
  OBVIOUS
<1>2. Max(T \cup {0}) \in T \cup {0} /\ \A y \in T \cup {0} : y <= Max(T \cup {0})
  BY <1>1, BoundedHasMax
<1> QED BY <1>1, <1>2 DEF HighestOf

-----------------------------------------------------------------------------
(* Replaying *)

\* The numbers of records, as a set of their fields.
LEMMA SeqsOfIs ==
    ASSUME NEW s \in Seq(Record)
    PROVE  SeqsOf(s) = {r.seq : r \in Range(s)}
<1>1. DOMAIN s = 1..Len(s)
  BY LenProperties
<1> QED BY <1>1 DEF SeqsOf, Range

\* Every batch goes into one of the memtables.
LEMMA MemtablesHold ==
    ASSUME NEW s \in Seq(Record)
    PROVE  /\ DOMAIN Memtables(s) = 1..Len(Memtables(s)) /\ Len(Memtables(s)) \in Nat
           /\ \A t \in DOMAIN Memtables(s) : Memtables(s)[t] \subseteq SeqsOf(s)
           /\ SeqsOf(s) = UNION {Memtables(s)[t] : t \in DOMAIN Memtables(s)}
<1> DEFINE taken == WriteBuffer + 1
           count == (Len(s) + taken - 1) \div taken
           Group(t) == {s[i].seq : i \in {j \in DOMAIN s : (j - 1) \div taken = t - 1}}
           mems == [t \in 1..count |-> Group(t)]
<1>1. Memtables(s) = mems
  BY DEF Memtables
<1>2. DOMAIN s = 1..Len(s) /\ Len(s) \in Nat
  BY LenProperties
<1>3. taken \in Nat \ {0}
  BY RecoveryAssumption
<1> HIDE DEF taken
<1>4. count \in Nat
  BY <1>2, <1>3
<1>5. \A j \in 1..Len(s) : (j - 1) \div taken + 1 \in 1..count /\ (j - 1) \div taken \in Nat
  BY <1>2, <1>3
<1> HIDE DEF count
<1>6. DOMAIN mems = 1..count /\ Len(mems) = count /\ \A t \in 1..count : mems[t] = Group(t)
  BY <1>4
<1>7. \A t \in 1..count : Group(t) \subseteq SeqsOf(s)
  BY <1>2 DEF SeqsOf
<1>8. ASSUME NEW x \in SeqsOf(s) PROVE \E t \in 1..count : x \in Group(t)
  <2>1. PICK j \in 1..Len(s) : x = s[j].seq
    BY DEF SeqsOf
  <2> DEFINE t == (j - 1) \div taken + 1
  <2>2. t \in 1..count /\ (j - 1) \div taken = t - 1
    BY <1>5
  <2> HIDE DEF t
  <2> QED BY <1>2, <2>1, <2>2
<1> HIDE DEF Group, mems
<1>9. SeqsOf(s) = UNION {mems[t] : t \in DOMAIN mems}
  BY <1>6, <1>7, <1>8
<1> QED BY <1>1, <1>4, <1>6, <1>7, <1>9

(* What the types say *)

\* Of a log.
LEMMA LogTypes ==
    ASSUME Typed, NEW n \in DOMAIN logs
    PROVE  /\ n \in Nat /\ logs[n] \in Log
           /\ logs[n].cells \in Seq(Cell) /\ Len(logs[n].cells) \in Nat
           /\ logs[n].synced \in Nat /\ logs[n].synced \in 0..Len(logs[n].cells)
           /\ logs[n].records \in Seq(Record) /\ logs[n].torn \in BOOLEAN
<1>1. logs[n] \in Log /\ n \in Nat /\ logs[n].synced <= Len(logs[n].cells)
  BY DEF Typed
<1>2. /\ logs[n].cells \in Seq(Cell) /\ logs[n].synced \in Nat
      /\ logs[n].records \in Seq(Record) /\ logs[n].torn \in BOOLEAN
  BY <1>1 DEF Log
<1>3. Len(logs[n].cells) \in Nat
  BY <1>2
<1> QED BY <1>1, <1>2, <1>3

\* Of the descriptor that CURRENT names.
LEMMA EditTypes ==
    ASSUME Typed
    PROVE  /\ Edits \in Seq(Edit) /\ Len(Edits) \in Nat
           /\ manifests[current].synced \in Nat /\ manifests[current].synced <= Len(Edits)
           /\ \A k \in 1..Len(Edits) :
                 /\ Edits[k] \in Edit /\ Edits[k].nextFile \in Nat /\ Edits[k].lastSeq \in Nat
                 /\ Edits[k].logNumber \in Nat
           /\ current \in Nat /\ VersionOf(Edits) \subseteq Nat
           /\ \A k \in 1..Len(Edits) :
                 /\ SubSeq(Edits, 1, k) \in Seq(Edit) /\ VersionAt(k) \subseteq Nat
           /\ VersionAt(Len(Edits)) = VersionOf(Edits)
<1>1. manifests[current] \in Descriptor /\ current \in Nat
      /\ manifests[current].synced <= Len(manifests[current].edits)
  BY DEF Typed
<1>2. Edits \in Seq(Edit) /\ manifests[current].synced \in Nat
      /\ manifests[current].synced <= Len(Edits)
  BY <1>1 DEF Descriptor, Edits
<1> HIDE DEF Edits
<1>3. Len(Edits) \in Nat /\ \A k \in 1..Len(Edits) : Edits[k] \in Edit
  BY <1>2, ElementOfSeq
<1>4. \A e \in Edit : e.nextFile \in Nat /\ e.lastSeq \in Nat /\ e.logNumber \in Nat
  BY DEF Edit
<1>5. ASSUME NEW k \in 1..Len(Edits)
      PROVE  SubSeq(Edits, 1, k) \in Seq(Edit) /\ VersionAt(k) \subseteq Nat
  <2>1. \A i \in 1..k : Edits[i] \in Edit
    BY <1>3
  <2>2. k \in Int
    OBVIOUS
  <2>3. SubSeq(Edits, 1, k) \in Seq(Edit)
    BY <2>1, <2>2, SubSeqProperties
  <2> QED BY <2>3, VersionType DEF VersionAt
<1>6. SubSeq(Edits, 1, Len(Edits)) = Edits
  BY <1>2, SubSeqFull
<1>7. VersionAt(Len(Edits)) = VersionOf(Edits)
  BY <1>6 DEF VersionAt
<1>8. VersionOf(Edits) \subseteq Nat
  BY <1>2, VersionType
<1> QED BY <1>1, <1>2, <1>3, <1>4, <1>5, <1>7, <1>8

\* Of what the process has in memory.
LEMMA MemoryTypes ==
    ASSUME Typed
    PROVE  /\ db.version \subseteq Nat /\ db.logNumber \in Nat /\ db.manifest \in Nat
           /\ db.nextFile \in Nat /\ db.lastSeq \in Nat /\ db.logfile \in Nat
           /\ db.offset \in 0..BlockSize /\ db.mem \subseteq Nat /\ db.imm \subseteq Nat
           /\ db.edit \in Change /\ db.edit.add \subseteq Nat /\ db.edit.del \subseteq Nat
           /\ db.todo \subseteq Nat /\ db.maxSeq \in Nat
           /\ pending.seq \in Nat /\ pending.sync \in BOOLEAN /\ pending.from \in Nat
           /\ job.edit \in Change /\ job.edit.add \subseteq Nat /\ job.edit.del \subseteq Nat
           /\ job.step \in {"none", "built", "logged", "applied"}
           /\ job.kind \in {"none", "flush", "compaction"}
BY DEF Typed, Memory, Batch, Job, Change

\* Of the tables.
LEMMA TableTypes ==
    ASSUME Typed
    PROVE  /\ \A n \in DOMAIN tables : n \in Nat /\ tables[n] \subseteq Nat \ {0}
           /\ \A v : Stored(tables, v) \subseteq Nat \ {0}
<1>1. \A n \in DOMAIN tables : n \in Nat /\ tables[n] \subseteq Nat \ {0}
  BY DEF Typed
<1> QED BY <1>1 DEF Stored

\* The last edit is one that may be the last, and so is the last that is synced.
LEMMA StandingIs ==
    ASSUME Typed, FilesOK
    PROVE  /\ \A k \in Standing : k \in 1..Len(Edits) /\ k \in Nat
           /\ Len(Edits) \in Standing /\ manifests[current].synced \in Standing
           /\ LastEdit(Edits) = Edits[Len(Edits)]
           /\ VersionOf(Edits) = VersionAt(Len(Edits))
           /\ Len(Edits) \in 1..Len(Edits) /\ LastEdit(Edits) \in Edit
           /\ Edits # << >>
<1>1. /\ Len(Edits) \in Nat /\ manifests[current].synced \in Nat
      /\ manifests[current].synced <= Len(Edits) /\ manifests[current].synced >= 1
      /\ VersionAt(Len(Edits)) = VersionOf(Edits) /\ Edits \in Seq(Edit)
      /\ \A k \in 1..Len(Edits) : Edits[k] \in Edit
  BY EditTypes DEF FilesOK
<1> HIDE DEF Edits
<1>2. Len(Edits) \in 1..Len(Edits) /\ Edits # << >>
  BY <1>1
<1> QED BY <1>1, <1>2 DEF Standing, LastEdit

\* What survives the process is a beginning of a log, and no less than what is synced.
LEMMA WholeType ==
    ASSUME Typed, PendingOK, NEW n \in DOMAIN logs
    PROVE  /\ Whole(n) \in Nat /\ Whole(n) \in 0..Len(logs[n].cells)
           /\ logs[n].synced <= Whole(n)
<1>1. CASE pending # Nothing /\ n = db.logfile
  <2>1. pending.from \in logs[n].synced..Len(logs[n].cells)
    BY <1>1 DEF PendingOK
  <2> QED BY <1>1, <2>1, LogTypes DEF Whole
<1>2. CASE ~(pending # Nothing /\ n = db.logfile)
  BY <1>2, LogTypes DEF Whole
<1> QED BY <1>1, <1>2

-----------------------------------------------------------------------------
(* What a step leaves as it is *)

SameDescriptor == current' = current /\ manifests'[current] = manifests[current]

TablesStay == \A k \in Standing : \A n \in VersionAt(k) :
                 n \in DOMAIN tables' /\ tables'[n] = tables[n]

SyncedStays ==
    \A k \in Standing : \A n \in DOMAIN logs : n >= Edits[k].logNumber =>
        /\ n \in DOMAIN logs'
        /\ Held(logs[n].cells, logs[n].synced) \subseteq Held(logs'[n].cells, logs'[n].synced)

WholeStays ==
    \A n \in DOMAIN logs : n >= LastEdit(Edits).logNumber =>
        /\ n \in DOMAIN logs'
        /\ Held(logs[n].cells, Whole(n)) \subseteq Held(logs'[n].cells, Whole(n)')

\* The same descriptor has the same edits and versions.
LEMMA DescriptorSame ==
    ASSUME SameDescriptor
    PROVE  /\ Edits' = Edits /\ Standing' = Standing /\ \A k : VersionAt(k)' = VersionAt(k)
           /\ manifests'[current'].synced = manifests[current].synced
BY DEF SameDescriptor, Edits, Standing, VersionAt

\* The files a descriptor needs are there if they stay.
LEMMA FilesStay ==
    ASSUME FilesOK, SameDescriptor, TablesStay
    PROVE  FilesOK'
<1>1. /\ Edits' = Edits /\ Standing' = Standing /\ \A k : VersionAt(k)' = VersionAt(k)
      /\ manifests'[current'].synced = manifests[current].synced
  BY DescriptorSame
<1>2. current' = current
  BY DEF SameDescriptor
<1> HIDE DEF Edits, Standing, VersionAt
<1> QED BY <1>1, <1>2 DEF FilesOK, TablesStay

\* They hold what they held.
LEMMA StoredInVersions ==
    ASSUME FilesOK, TablesStay, NEW k \in Standing
    PROVE  Stored(tables', VersionAt(k)) = Stored(tables, VersionAt(k))
<1>1. \A n \in VersionAt(k) : n \in DOMAIN tables /\ n \in DOMAIN tables' /\ tables'[n] = tables[n]
  BY DEF FilesOK, TablesStay
<1> QED BY <1>1, StoredSame

\* What a machine crash has to spare it spares after a step if the files stay ...
LEMMA SolidStays ==
    ASSUME HardOK, FilesOK, SameDescriptor, TablesStay, SyncedStays
    PROVE  \A k \in Standing : \A s \in Solid :
              \/ s \in Stored(tables', VersionAt(k))
              \/ InSynced(s, Edits[k].logNumber)'
<1> SUFFICES ASSUME NEW k \in Standing, NEW s \in Solid
             PROVE  \/ s \in Stored(tables', VersionAt(k))
                    \/ InSynced(s, Edits[k].logNumber)'
  OBVIOUS
<1>1. CASE s \in Stored(tables, VersionAt(k))
  BY <1>1, StoredInVersions
<1>2. CASE InSynced(s, Edits[k].logNumber)
  <2>1. PICK n \in DOMAIN logs :
           n >= Edits[k].logNumber /\ s \in Held(logs[n].cells, logs[n].synced)
    BY <1>2 DEF InSynced
  <2>2. n \in DOMAIN logs' /\ s \in Held(logs'[n].cells, logs'[n].synced)
    BY <2>1 DEF SyncedStays
  <2>3. Edits' = Edits
    BY DescriptorSame
  <2> QED BY <2>1, <2>2, <2>3 DEF InSynced
<1> QED BY <1>1, <1>2 DEF HardOK

\* ... so that HardOK stays when nothing new has been promised.
LEMMA HardStays ==
    ASSUME HardOK, FilesOK, SameDescriptor, TablesStay, SyncedStays, Solid' \subseteq Solid
    PROVE  HardOK'
<1>1. \A k \in Standing : \A s \in Solid :
         \/ s \in Stored(tables', VersionAt(k))
         \/ InSynced(s, Edits[k].logNumber)'
  BY SolidStays
<1>2. Edits' = Edits /\ Standing' = Standing /\ \A k : VersionAt(k)' = VersionAt(k)
  BY DescriptorSame
<1> SUFFICES ASSUME NEW k \in Standing', NEW s \in Solid'
             PROVE  \/ s \in Stored(tables', VersionAt(k)')
                    \/ InSynced(s, Edits[k].logNumber)'
  BY DEF HardOK
<1> QED BY <1>1, <1>2

\* The same of what a crash of the process has to spare ...
LEMMA KeptStays ==
    ASSUME Typed, AckedOK, FilesOK, SameDescriptor, TablesStay, WholeStays
    PROVE  \A s \in Kept :
              \/ s \in Stored(tables', VersionOf(Edits'))
              \/ InLogs(s, LastEdit(Edits).logNumber)'
<1> SUFFICES ASSUME NEW s \in Kept
             PROVE  \/ s \in Stored(tables', VersionOf(Edits'))
                    \/ InLogs(s, LastEdit(Edits).logNumber)'
  OBVIOUS
<1>0. Edits' = Edits
  BY DescriptorSame
<1>1. CASE s \in Stored(tables, VersionOf(Edits))
  <2>1. Stored(tables', VersionAt(Len(Edits))) = Stored(tables, VersionAt(Len(Edits)))
    BY StandingIs, StoredInVersions
  <2> QED BY <1>0, <1>1, <2>1, StandingIs
<1>2. CASE InLogs(s, LastEdit(Edits).logNumber)
  <2>1. PICK n \in DOMAIN logs :
           n >= LastEdit(Edits).logNumber /\ s \in Held(logs[n].cells, Whole(n))
    BY <1>2 DEF InLogs
  <2>2. n \in DOMAIN logs' /\ s \in Held(logs'[n].cells, Whole(n)')
    BY <2>1 DEF WholeStays
  <2> QED BY <1>0, <2>1, <2>2 DEF InLogs
<1> QED BY <1>1, <1>2 DEF AckedOK

\* ... and of AckedOK.
LEMMA AckedStays ==
    ASSUME Typed, AckedOK, FilesOK, SameDescriptor, TablesStay, WholeStays, Kept' \subseteq Kept
    PROVE  AckedOK'
<1>1. \A s \in Kept :
         \/ s \in Stored(tables', VersionOf(Edits'))
         \/ InLogs(s, LastEdit(Edits).logNumber)'
  BY KeptStays
<1> SUFFICES ASSUME NEW s \in Kept'
             PROVE  \/ s \in Stored(tables', VersionOf(Edits'))
                    \/ InLogs(s, LastEdit(Edits).logNumber)'
  BY DEF AckedOK
<1> QED BY <1>1

\* When the files are as they were.
LEMMA NothingLost ==
    /\ FilesOK /\ UNCHANGED tables => TablesStay
    /\ UNCHANGED logs => SyncedStays
    /\ UNCHANGED << logs, pending >> /\ db'.logfile = db.logfile => WholeStays
    /\ UNCHANGED << current, manifests >> => SameDescriptor
    /\ UNCHANGED << acked, hard, spoilt >> => Kept' = Kept /\ Solid' = Solid
<1>1. FilesOK /\ UNCHANGED tables => TablesStay
  BY DEF FilesOK, TablesStay
<1>2. UNCHANGED logs => SyncedStays
  BY DEF SyncedStays
<1>3. UNCHANGED << logs, pending >> /\ db'.logfile = db.logfile => WholeStays
  BY DEF WholeStays, Whole
<1>4. UNCHANGED << current, manifests >> => SameDescriptor
  BY DEF SameDescriptor
<1>5. UNCHANGED << acked, hard, spoilt >> => Kept' = Kept /\ Solid' = Solid
  BY DEF Kept, Solid
<1> QED BY <1>1, <1>2, <1>3, <1>4, <1>5

\* What AddRecord adds to a log are cells, and block_offset_ stays in the block.
LEMMA RoundTypes ==
    ASSUME NEW record \in Record, NEW offset \in 0..BlockSize
    PROVE  /\ \A i \in Nat : /\ Writing(record, offset)[i].cells \in Seq(Cell)
                             /\ Writing(record, offset)[i].offset \in 0..BlockSize
           /\ AddRecord(record, offset).cells \in Seq(Cell)
           /\ AddRecord(record, offset).offset \in 0..BlockSize
<1>1. \A i \in Nat : Writing(record, offset)[i] \in WriterState(record)
  <2>1. Writing(record, offset) \in [Nat -> WriterState(record)]
    BY WritingIs
  <2> QED BY <2>1
<1>2. \A at \in WriterState(record) : at.cells \in Seq(Cell) /\ at.offset \in 0..BlockSize
  BY DEF WriterState
<1>3. Rounds(record, offset) \in Nat
  BY RoundsEnd
<1> QED BY <1>1, <1>2, <1>3 DEF AddRecord

\* InTables is Stored of the tables there are.
LEMMA InTablesIs == \A v : InTables(v) = Stored(tables, v)
BY DEF InTables, Stored

\* Adding a number at the end.
LEMMA SeqsOfAppend ==
    ASSUME NEW s \in Seq(Record), NEW r \in Record
    PROVE  /\ SeqsOf(s) \subseteq SeqsOf(Append(s, r)) /\ r.seq \in SeqsOf(Append(s, r))
           /\ Append(s, r) \in Seq(Record)
<1>1. /\ Append(s, r) \in Seq(Record) /\ Len(Append(s, r)) = Len(s) + 1 /\ Len(s) \in Nat
      /\ \A i \in 1..Len(s) : Append(s, r)[i] = s[i]
      /\ Append(s, r)[Len(s) + 1] = r
  BY AppendProperties
<1>2. Len(s) + 1 \in 1..(Len(s) + 1) /\ \A i \in 1..Len(s) : i \in 1..(Len(s) + 1)
  BY <1>1
<1> QED BY <1>1, <1>2 DEF SeqsOf

\* Adding makes numbers no smaller.
LEMMA Sums == \A a, b, c \in Nat : b <= b + c /\ (a <= b => a <= b + c)
OBVIOUS

\* A batch that goes to the log: its number is new, so nothing rests on it yet.
LEMMA AppendBatchStep ==
    ASSUME IInv, NEW size \in Sizes, NEW sync \in BOOLEAN, AppendBatch(size, sync)
    PROVE  IInv'
<1> USE DEF IInv
<1> DEFINE record == [seq |-> db.lastSeq + 1, size |-> size]
           added == AddRecord(record, db.offset)
           f == db.logfile
<1>1. /\ mode = "open" /\ pending = Nothing /\ mode' = mode
      /\ tables' = tables /\ manifests' = manifests /\ current' = current
      /\ job' = job /\ acked' = acked /\ hard' = hard /\ spoilt' = spoilt
      /\ logs' = [logs EXCEPT ![f].cells = @ \o added.cells,
                              ![f].records = Append(@, record)]
      /\ db' = [db EXCEPT !.lastSeq = record.seq, !.offset = added.offset]
      /\ pending' = [seq |-> record.seq, sync |-> sync, from |-> Len(logs[f].cells)]
  BY DEF AppendBatch, promise
<1>2. /\ db.lastSeq \in Nat /\ db.offset \in 0..BlockSize /\ f \in Nat /\ db.mem \subseteq Nat
      /\ db.imm \subseteq Nat
  BY MemoryTypes
<1>3. record \in Record /\ record.seq = db.lastSeq + 1 /\ record.seq \in Nat
  BY <1>2, RecoveryAssumption DEF Record
<1>4. added.cells \in Seq(Cell) /\ added.offset \in 0..BlockSize
  BY <1>2, <1>3, RoundTypes
<1>5. f \in DOMAIN logs
  BY <1>1 DEF LogfileOK, Logging
<1>6. /\ logs[f].cells \in Seq(Cell) /\ Len(logs[f].cells) \in Nat
      /\ logs[f].synced \in 0..Len(logs[f].cells) /\ logs[f].records \in Seq(Record)
      /\ logs[f] \in Log /\ logs[f].torn \in BOOLEAN /\ logs[f].synced \in Nat
  BY <1>5, LogTypes
<1> HIDE DEF record, added
<1>7. /\ DOMAIN logs' = DOMAIN logs
      /\ logs'[f].cells = logs[f].cells \o added.cells /\ logs'[f].synced = logs[f].synced
      /\ logs'[f].records = Append(logs[f].records, record) /\ logs'[f].torn = logs[f].torn
      /\ \A n \in DOMAIN logs : n # f => logs'[n] = logs[n]
  BY <1>1, <1>5 DEF Typed, Log
<1>8. /\ db'.lastSeq = record.seq /\ db'.offset = added.offset /\ db' \in Memory
      /\ db'.version = db.version /\ db'.logNumber = db.logNumber /\ db'.manifest = db.manifest
      /\ db'.nextFile = db.nextFile /\ db'.logfile = f /\ db'.mem = db.mem /\ db'.imm = db.imm
      /\ db'.edit = db.edit /\ db'.todo = db.todo /\ db'.maxSeq = db.maxSeq
  BY <1>1, <1>3, <1>4 DEF Typed, Memory
<1>9. /\ pending' # Nothing /\ pending'.seq = record.seq /\ pending'.from = Len(logs[f].cells)
      /\ pending' \in Batch /\ pending'.sync = sync
  <2>1. record.seq # 0
    BY <1>2, <1>3
  <2>2. Nothing.seq = 0
    BY DEF Nothing
  <2> QED BY <1>1, <1>3, <1>6, <2>1, <2>2 DEF Batch
<1>10. /\ logs'[f].cells \in Seq(Cell)
       /\ Len(logs'[f].cells) = Len(logs[f].cells) + Len(added.cells)
       /\ Len(added.cells) \in Nat
       /\ logs'[f].records \in Seq(Record)
  <2>1. Append(logs[f].records, record) \in Seq(Record)
    BY <1>3, <1>6, SeqsOfAppend
  <2> QED BY <1>4, <1>6, <1>7, <2>1, ConcatProperties
<1>21. logs'[f].synced <= Len(logs'[f].cells) /\ Len(logs[f].cells) <= Len(logs'[f].cells)
       /\ logs'[f].synced <= Len(logs[f].cells)
  <2>1. logs[f].synced <= Len(logs[f].cells)
    BY <1>5 DEF Typed
  <2>2. logs[f].synced \in Nat /\ Len(logs[f].cells) \in Nat /\ Len(added.cells) \in Nat
    BY <1>6, <1>10
  <2>3. /\ logs[f].synced <= Len(logs[f].cells) + Len(added.cells)
        /\ Len(logs[f].cells) <= Len(logs[f].cells) + Len(added.cells)
    BY <2>1, <2>2, Sums, Zenon
  <2> QED BY <2>1, <2>3, <1>7, <1>10, Zenon
<1>11. /\ \A n \in DOMAIN logs : n = f => Whole(n) = Len(logs[n].cells)
                                          /\ Whole(n)' = Len(logs[n].cells)
       /\ Whole(f) = Len(logs[f].cells) /\ Whole(f)' = Len(logs[f].cells)
       /\ \A n \in DOMAIN logs : n # f => Whole(n)' = Whole(n)
  BY <1>1, <1>7, <1>8, <1>9 DEF Whole
<1>12. /\ Held(logs'[f].cells, Len(logs[f].cells)) = Held(logs[f].cells, Len(logs[f].cells))
       /\ Held(logs'[f].cells, logs[f].synced) = Held(logs[f].cells, logs[f].synced)
  BY <1>4, <1>6, <1>7, HeldOfJoin
<1>13. SameDescriptor /\ TablesStay /\ SyncedStays /\ WholeStays /\ Kept' = Kept /\ Solid' = Solid
  <2>1. SameDescriptor /\ TablesStay /\ Kept' = Kept /\ Solid' = Solid
    BY <1>1, NothingLost
  <2>2. SyncedStays
    BY <1>7, <1>12 DEF SyncedStays
  <2>3. WholeStays
    <3> SUFFICES ASSUME NEW n \in DOMAIN logs
                 PROVE  /\ n \in DOMAIN logs'
                        /\ Held(logs[n].cells, Whole(n)) \subseteq Held(logs'[n].cells, Whole(n)')
      BY DEF WholeStays
    <3>1. CASE n = f
      BY <1>5, <1>7, <1>11, <1>12, <3>1, Zenon
    <3>2. CASE n # f
      <4>1. logs'[n] = logs[n] /\ Whole(n)' = Whole(n)
        BY <1>7, <1>11, <3>2
      <4> QED BY <1>7, <4>1
    <3> QED BY <3>1, <3>2
  <2> QED BY <2>1, <2>2, <2>3
<1>14. /\ Edits' = Edits /\ Standing' = Standing /\ \A k : VersionAt(k)' = VersionAt(k)
       /\ manifests'[current'].synced = manifests[current].synced
  BY <1>13, DescriptorSame
<1>15. Typed'
  <2>1. \A n \in DOMAIN logs : logs'[n] \in Log /\ logs'[n].synced <= Len(logs'[n].cells)
    <3> SUFFICES ASSUME NEW n \in DOMAIN logs
                 PROVE  logs'[n] \in Log /\ logs'[n].synced <= Len(logs'[n].cells)
      OBVIOUS
    <3>1. CASE n # f
      BY <1>7, <3>1 DEF Typed
    <3>2. CASE n = f
      <4>1. logs'[f] = [cells |-> logs'[f].cells, synced |-> logs'[f].synced,
                        records |-> logs'[f].records, torn |-> logs'[f].torn]
        BY <1>1, <1>5 DEF Typed, Log
      <4>2. logs'[f] \in Log
        BY <1>6, <1>7, <1>10, <4>1 DEF Log
      <4> QED BY <1>21, <3>2, <4>2
    <3> QED BY <3>1, <3>2
  <2>2. logs' \in [DOMAIN logs' -> Log]
    BY <1>1, <1>7, <2>1 DEF Typed
  <2> QED BY <1>1, <1>7, <1>8, <1>9, <2>1, <2>2 DEF Typed
<1>16. FilesOK' /\ HardOK' /\ AckedOK'
  BY <1>13, FilesStay, HardStays, AckedStays
<1>17. LogsOK' /\ LogfileOK'
  <2>1. CASE logs[f].torn
    <3>1. LogsOK'
      BY <1>7, <2>1 DEF LogsOK
    <3> QED BY <1>1, <1>5, <1>7, <1>8, <2>1, <3>1 DEF LogfileOK, Logging
  <2>2. CASE ~logs[f].torn
    <3>1. ReadsThrough(logs[f].cells, logs[f].records, db.offset)
      BY <1>1, <2>2 DEF LogfileOK, Logging
    <3>2. ReadsThrough(logs[f].cells \o added.cells, Append(logs[f].records, record), added.offset)
      BY <1>2, <1>3, <1>6, <3>1, AddRecordReads DEF added
    <3>3. ReadRecords(logs'[f].cells) = logs'[f].records
      BY <1>4, <1>7, <1>10, <3>2, WrittenReads
    <3>4. Begins(logs'[f].records, logs'[f].records)
      BY <1>10, BeginsOrder
    <3>5. LogsOK'
      BY <1>7, <3>3, <3>4 DEF LogsOK
    <3> QED BY <1>1, <1>5, <1>7, <1>8, <3>2, <3>5 DEF LogfileOK, Logging
  <2> QED BY <1>6, <2>1, <2>2
<1>18. PendingOK'
  <2>1. record.seq \notin Kept /\ record.seq \notin db.mem \cup db.imm
    <3>1. \A s \in db.mem \cup db.imm \cup Stored(tables, db.version) : s <= db.lastSeq
      BY <1>1 DEF RunningOK, Running
    <3>2. \A s \in Kept : s \in db.mem \cup db.imm \cup Stored(tables, db.version)
      BY <1>1 DEF RunningOK, Running
    <3>3. ~(record.seq <= db.lastSeq)
      BY <1>2, <1>3
    <3> QED BY <3>1, <3>2, <3>3
  <2>2. record.seq \in SeqsOf(logs'[f].records)
    BY <1>3, <1>6, <1>7, SeqsOfAppend
  <2>3. Len(logs[f].cells) \in logs'[f].synced..Len(logs'[f].cells)
    <3>1. Len(logs[f].cells) \in Nat /\ logs'[f].synced \in Nat /\ Len(logs'[f].cells) \in Nat
      <4>1. Len(logs'[f].cells) \in Nat
        BY <1>10, LenProperties
      <4> QED BY <1>6, <1>7, <4>1, Zenon
    <3> HIDE DEF f
    <3> QED BY <1>21, <3>1
  <2>4. record.seq > 0
    BY <1>2, <1>3
  <2> QED BY <1>1, <1>8, <1>9, <1>13, <2>1, <2>2, <2>3, <2>4 DEF PendingOK
<1>19. RunningOK'
  <2>1. \A s : s <= db.lastSeq /\ s \in Nat => s <= record.seq
    BY <1>2, <1>3
  <2>2. Stored(tables, db.version) \subseteq Nat
    BY TableTypes
  <2>3. \A s \in db.mem \cup db.imm \cup Stored(tables, db.version) : s <= record.seq /\ s > 0
    BY <1>1, <1>2, <2>1, <2>2 DEF RunningOK, Running
  <2> QED BY <1>1, <1>7, <1>8, <1>11, <1>12, <1>13, <1>14, <2>3 DEF RunningOK, Running
<1>20. InstalledOK' /\ JobOK' /\ OpeningOK' /\ ReplayingOK' /\ RecoveredOK' /\ WrittenOK'
  <2>1. InstalledOK' /\ OpeningOK' /\ ReplayingOK' /\ RecoveredOK' /\ WrittenOK'
    BY <1>1 DEF InstalledOK, OpeningOK, Opening, ReplayingOK, RecoveredOK, WrittenOK
  <2>2. JobOK'
    BY <1>1, <1>8, <1>14 DEF JobOK
  <2> QED BY <2>1, <2>2
<1> QED BY <1>15, <1>16, <1>17, <1>18, <1>19, <1>20

\* A fragment that does not: the log holds no less than before.
LEMMA AppendFailsStep ==
    ASSUME IInv, NEW size \in Sizes, AppendFails(size)
    PROVE  IInv'
<1> USE DEF IInv
<1> DEFINE record == [seq |-> db.lastSeq + 1, size |-> size]
           round == Writing(record, db.offset)
<1>1. PICK f, part, offset :
      /\ f = db.logfile
      /\ mode = "open" /\ pending = Nothing /\ mode' = mode /\ pending' = pending
      /\ tables' = tables /\ manifests' = manifests /\ current' = current
      /\ job' = job /\ acked' = acked /\ hard' = hard /\ spoilt' = spoilt
      /\ logs' = [logs EXCEPT ![f].torn = TRUE, ![f].cells = @ \o part]
      /\ db' = [db EXCEPT !.lastSeq = record.seq, !.offset = offset]
      /\ part \in Seq(Cell) /\ offset \in 0..BlockSize
  <2>1. PICK i \in 1..Rounds(record, db.offset) :
        \E n \in Len(round[i - 1].cells)..(Len(round[i].cells) - 1) :
             /\ logs' = [logs EXCEPT ![db.logfile].torn = TRUE,
                                     ![db.logfile].cells = @ \o SubSeq(round[i].cells, 1, n)]
             /\ db' = [db EXCEPT !.lastSeq = record.seq, !.offset = round[i].offset]
    BY DEF AppendFails
  <2>2. PICK n \in Len(round[i - 1].cells)..(Len(round[i].cells) - 1) :
             /\ logs' = [logs EXCEPT ![db.logfile].torn = TRUE,
                                     ![db.logfile].cells = @ \o SubSeq(round[i].cells, 1, n)]
             /\ db' = [db EXCEPT !.lastSeq = record.seq, !.offset = round[i].offset]
    BY <2>1
  <2>3. db.offset \in 0..BlockSize /\ record \in Record
    <3>1. db.offset \in 0..BlockSize /\ db.lastSeq + 1 \in Nat \ {0} /\ size \in Nat \ {0}
      <4>1. db.offset \in 0..BlockSize /\ db.lastSeq \in Nat
        BY MemoryTypes
      <4>2. size \in Nat \ {0}
        BY RecoveryAssumption
      <4>3. \A x \in Nat : x + 1 \in Nat \ {0}
        OBVIOUS
      <4> QED BY <4>1, <4>2, <4>3, Zenon
    <3> QED BY <3>1 DEF Record
  <2>4. i \in Nat /\ i - 1 \in Nat
    BY <2>3, RoundsEnd
  <2>5. /\ round[i].cells \in Seq(Cell) /\ round[i].offset \in 0..BlockSize
        /\ round[i - 1].cells \in Seq(Cell)
    BY <2>3, <2>4, RoundTypes
  <2> HIDE DEF round, record
  <2>6. Len(round[i].cells) \in Nat /\ Len(round[i - 1].cells) \in Nat
    BY <2>5, LenProperties
  <2>7. n \in 0..Len(round[i].cells)
    BY <2>6
  <2>8. SubSeq(round[i].cells, 1, n) \in Seq(Cell)
    BY <2>5, <2>7, CutIsSeq
  <2> USE DEF record
  <2> QED BY <2>2, <2>5, <2>8 DEF AppendFails, promise
<1>2. /\ db.lastSeq \in Nat /\ f \in Nat /\ db.mem \subseteq Nat /\ db.imm \subseteq Nat
  BY <1>1, MemoryTypes
<1>3. record.seq = db.lastSeq + 1 /\ record.seq \in Nat
  BY <1>2
<1>4. f \in DOMAIN logs
  BY <1>1 DEF LogfileOK, Logging
<1>5. /\ logs[f].cells \in Seq(Cell) /\ Len(logs[f].cells) \in Nat
      /\ logs[f].synced \in 0..Len(logs[f].cells) /\ logs[f].records \in Seq(Record)
      /\ logs[f] \in Log /\ logs[f].synced \in Nat
  BY <1>4, LogTypes
<1> HIDE DEF record, round
<1>6. /\ DOMAIN logs' = DOMAIN logs
      /\ logs'[f].cells = logs[f].cells \o part /\ logs'[f].synced = logs[f].synced
      /\ logs'[f].records = logs[f].records /\ logs'[f].torn = TRUE
      /\ \A n \in DOMAIN logs : n # f => logs'[n] = logs[n]
  BY <1>1, <1>4 DEF Typed, Log
<1>7. /\ db'.lastSeq = record.seq /\ db' \in Memory
      /\ db'.version = db.version /\ db'.logNumber = db.logNumber /\ db'.manifest = db.manifest
      /\ db'.nextFile = db.nextFile /\ db'.logfile = f /\ db'.mem = db.mem /\ db'.imm = db.imm
      /\ db'.edit = db.edit /\ db'.todo = db.todo /\ db'.maxSeq = db.maxSeq
  BY <1>1, <1>3 DEF Typed, Memory
<1>8. /\ logs'[f].cells \in Seq(Cell) /\ Len(logs'[f].cells) \in Nat
      /\ Len(logs'[f].cells) = Len(logs[f].cells) + Len(part) /\ Len(part) \in Nat
  <2>1. part \in Seq(Cell) /\ logs[f].cells \in Seq(Cell) /\ logs'[f].cells = logs[f].cells \o part
    BY <1>1, <1>5, <1>6, Zenon
  <2>2. /\ logs[f].cells \o part \in Seq(Cell)
        /\ Len(logs[f].cells \o part) = Len(logs[f].cells) + Len(part)
    BY <2>1, ConcatProperties
  <2>3. Len(part) \in Nat /\ Len(logs[f].cells \o part) \in Nat
    BY <2>1, <2>2, LenProperties, Zenon
  <2> QED BY <2>1, <2>2, <2>3, Zenon
<1>9. /\ logs[f].synced <= Len(logs[f].cells)
      /\ logs[f].synced <= Len(logs'[f].cells) /\ Len(logs[f].cells) <= Len(logs'[f].cells)
  <2>1. logs[f].synced <= Len(logs[f].cells)
    BY <1>4 DEF Typed
  <2> QED BY <2>1, <1>5, <1>8, Sums, Zenon
<1>10. /\ Held(logs'[f].cells, logs[f].synced) = Held(logs[f].cells, logs[f].synced)
       /\ Held(logs[f].cells, Len(logs[f].cells)) \subseteq Held(logs'[f].cells, Len(logs'[f].cells))
  <2>1. /\ Held(logs'[f].cells, logs[f].synced) = Held(logs[f].cells, logs[f].synced)
        /\ Held(logs'[f].cells, Len(logs[f].cells)) = Held(logs[f].cells, Len(logs[f].cells))
    <3>1. part \in Seq(Cell) /\ logs[f].cells \in Seq(Cell) /\ logs'[f].cells = logs[f].cells \o part
      BY <1>1, <1>5, <1>6, Zenon
    <3>2. logs[f].synced \in 0..Len(logs[f].cells) /\ Len(logs[f].cells) \in 0..Len(logs[f].cells)
      BY <1>5
    <3> QED BY <3>1, <3>2, HeldOfJoin, Zenon
  <2>2. Len(logs[f].cells) \in 0..Len(logs'[f].cells) /\ Len(logs'[f].cells) \in 0..Len(logs'[f].cells)
    BY <1>5, <1>8, <1>9
  <2>3. Held(logs'[f].cells, Len(logs[f].cells)) \subseteq Held(logs'[f].cells, Len(logs'[f].cells))
    BY <2>2, <1>8, HeldGrows
  <2> QED BY <2>1, <2>3
<1>11. /\ \A n \in DOMAIN logs : Whole(n) = Len(logs[n].cells) /\ Whole(n)' = Len(logs'[n].cells)
  BY <1>1 DEF Whole
<1>12. SameDescriptor /\ TablesStay /\ SyncedStays /\ WholeStays /\ Kept' = Kept /\ Solid' = Solid
  <2>1. SameDescriptor /\ TablesStay /\ Kept' = Kept /\ Solid' = Solid
    BY <1>1, NothingLost
  <2>2. SyncedStays
    BY <1>6, <1>10 DEF SyncedStays
  <2>3. WholeStays
    <3> SUFFICES ASSUME NEW n \in DOMAIN logs
                 PROVE  /\ n \in DOMAIN logs'
                        /\ Held(logs[n].cells, Whole(n)) \subseteq Held(logs'[n].cells, Whole(n)')
      BY DEF WholeStays
    <3>1. CASE n = f
      BY <1>4, <1>6, <1>11, <1>10, <3>1, Zenon
    <3>2. CASE n # f
      <4>1. logs'[n] = logs[n] /\ Whole(n)' = Whole(n)
        BY <1>6, <1>11, <3>2
      <4> QED BY <1>6, <4>1
    <3> QED BY <3>1, <3>2
  <2> QED BY <2>1, <2>2, <2>3
<1>13. /\ Edits' = Edits /\ Standing' = Standing /\ \A k : VersionAt(k)' = VersionAt(k)
       /\ manifests'[current'].synced = manifests[current].synced
  BY <1>12, DescriptorSame
<1>14. Typed'
  <2>1. \A n \in DOMAIN logs : logs'[n] \in Log /\ logs'[n].synced <= Len(logs'[n].cells)
    <3> SUFFICES ASSUME NEW n \in DOMAIN logs
                 PROVE  logs'[n] \in Log /\ logs'[n].synced <= Len(logs'[n].cells)
      OBVIOUS
    <3>1. CASE n # f
      BY <1>6, <3>1 DEF Typed
    <3>2. CASE n = f
      <4>1. logs'[f] = [cells |-> logs'[f].cells, synced |-> logs'[f].synced,
                        records |-> logs'[f].records, torn |-> logs'[f].torn]
        BY <1>1, <1>4 DEF Typed, Log
      <4>2. logs'[f] \in Log
        BY <1>5, <1>6, <1>8, <4>1 DEF Log
      <4> QED BY <1>6, <1>9, <3>2, <4>2
    <3> QED BY <3>1, <3>2
  <2>2. logs' \in [DOMAIN logs' -> Log]
    BY <1>1, <1>6, <2>1 DEF Typed
  <2> QED BY <1>1, <1>6, <1>7, <2>1, <2>2 DEF Typed
<1>15. FilesOK' /\ HardOK' /\ AckedOK'
  BY <1>12, FilesStay, HardStays, AckedStays
<1>16. LogsOK' /\ LogfileOK' /\ PendingOK'
  BY <1>1, <1>4, <1>6, <1>7 DEF LogsOK, LogfileOK, Logging, PendingOK
<1>17. RunningOK'
  <2>1. \A s : s <= db.lastSeq /\ s \in Nat => s <= record.seq
    BY <1>2, <1>3
  <2>2. Stored(tables, db.version) \subseteq Nat
    BY TableTypes
  <2>3. \A s \in db.mem \cup db.imm \cup Stored(tables, db.version) : s <= record.seq /\ s > 0
    BY <1>1, <1>2, <2>1, <2>2 DEF RunningOK, Running
  <2>4. /\ \A s \in Kept \cap db.mem : s \in Held(logs[f].cells, Len(logs[f].cells))
        /\ \A s \in Solid \cap db.mem : s \in Held(logs[f].cells, logs[f].synced)
    BY <1>1, <1>4, <1>11 DEF RunningOK, Running
  <2>5. /\ \A s \in Kept \cap db.mem : s \in Held(logs'[f].cells, Len(logs'[f].cells))
        /\ \A s \in Solid \cap db.mem : s \in Held(logs'[f].cells, logs'[f].synced)
    BY <1>6, <1>10, <2>4
  <2>6. Whole(db.logfile)' = Len(logs'[f].cells)
    BY <1>1, <1>7 DEF Whole
  <2>7. /\ \A s \in (Kept \cap db.mem)' : s \in Held(logs'[db'.logfile].cells, Whole(db.logfile)')
        /\ \A s \in (Solid \cap db.mem)' : s \in Held(logs'[db'.logfile].cells, logs'[db'.logfile].synced)
    BY <1>7, <1>12, <2>5, <2>6
  <2> QED BY <1>1, <1>7, <1>12, <1>13, <2>3, <2>7 DEF RunningOK, Running
<1>18. InstalledOK' /\ JobOK' /\ OpeningOK' /\ ReplayingOK' /\ RecoveredOK' /\ WrittenOK'
  <2>1. InstalledOK' /\ OpeningOK' /\ ReplayingOK' /\ RecoveredOK' /\ WrittenOK'
    BY <1>1 DEF InstalledOK, OpeningOK, Opening, ReplayingOK, RecoveredOK, WrittenOK
  <2>2. JobOK'
    BY <1>1, <1>7, <1>13 DEF JobOK
  <2> QED BY <2>1, <2>2
<1> QED BY <1>14, <1>15, <1>16, <1>17, <1>18

\* A write that returns: its batch is read from the log, from what is synced of it if the
\* write asked for that, unless the log is torn.
LEMMA AcknowledgeStep ==
    ASSUME IInv, Acknowledge
    PROVE  IInv'
<1> USE DEF IInv
<1>1. PICK f, p :
      /\ f = db.logfile /\ p = pending.seq
      /\ pending # Nothing /\ pending' = Nothing /\ mode = "open" /\ mode' = mode
      /\ tables' = tables /\ manifests' = manifests /\ current' = current /\ job' = job
      /\ logs' = IF pending.sync
                 THEN [logs EXCEPT ![f].synced = Len(logs[f].cells)] ELSE logs
      /\ db' = [db EXCEPT !.mem = @ \cup {p}]
      /\ acked' = acked \cup {p}
      /\ hard' = IF pending.sync THEN hard \cup {p} ELSE hard \ {p}
      /\ spoilt' = IF logs[f].torn THEN spoilt \cup {p} ELSE spoilt \ {p}
  BY DEF Acknowledge, PendingOK
<1>2. /\ p = db.lastSeq /\ p > 0 /\ p \in Nat /\ p \notin Kept /\ p \notin db.mem \cup db.imm
      /\ pending.from \in logs[f].synced..Len(logs[f].cells) /\ p \in SeqsOf(logs[f].records)
      /\ db.mem \subseteq Nat /\ pending.sync \in BOOLEAN
  BY <1>1, MemoryTypes DEF PendingOK
<1>3. f \in DOMAIN logs
  BY <1>1 DEF LogfileOK, Logging
<1>4. /\ logs[f].cells \in Seq(Cell) /\ Len(logs[f].cells) \in Nat
      /\ logs[f].synced \in 0..Len(logs[f].cells) /\ logs[f].records \in Seq(Record)
      /\ logs[f] \in Log /\ logs[f].synced \in Nat /\ logs[f].torn \in BOOLEAN
  BY <1>3, LogTypes
<1>5. /\ DOMAIN logs' = DOMAIN logs
      /\ \A n \in DOMAIN logs :
            /\ logs'[n].cells = logs[n].cells /\ logs'[n].records = logs[n].records
            /\ logs'[n].torn = logs[n].torn
            /\ logs'[n].synced = IF n = f /\ pending.sync THEN Len(logs[f].cells)
                                 ELSE logs[n].synced
            /\ logs'[n] \in Log
  <2>1. CASE ~pending.sync
    <3>1. logs' = logs
      BY <1>1, <2>1
    <3>2. \A n \in DOMAIN logs : logs[n] \in Log
      BY LogTypes
    <3> QED BY <2>1, <3>1, <3>2
  <2>2. CASE pending.sync
    <3>1. logs' = [logs EXCEPT ![f].synced = Len(logs[f].cells)]
      BY <1>1, <2>2
    <3>2. DOMAIN logs' = DOMAIN logs /\ \A n \in DOMAIN logs : n # f => logs'[n] = logs[n]
      BY <3>1
    <3>3. logs'[f] = [cells |-> logs[f].cells, synced |-> Len(logs[f].cells),
                      records |-> logs[f].records, torn |-> logs[f].torn]
      BY <1>3, <3>1 DEF Typed, Log
    <3>4. logs'[f] \in Log
      BY <1>4, <3>3 DEF Log
    <3>5. \A n \in DOMAIN logs : logs[n] \in Log
      BY LogTypes
    <3> QED BY <2>2, <3>2, <3>3, <3>4, <3>5
  <2> QED BY <2>1, <2>2
<1>6. /\ db'.mem = db.mem \cup {p} /\ db' \in Memory
      /\ db'.version = db.version /\ db'.logNumber = db.logNumber /\ db'.manifest = db.manifest
      /\ db'.nextFile = db.nextFile /\ db'.logfile = f /\ db'.imm = db.imm
      /\ db'.lastSeq = db.lastSeq /\ db'.offset = db.offset
      /\ db'.edit = db.edit /\ db'.todo = db.todo /\ db'.maxSeq = db.maxSeq
  BY <1>1, <1>2 DEF Typed, Memory
<1>7. /\ \A n \in DOMAIN logs : Whole(n)' = Len(logs[n].cells)
      /\ \A n \in DOMAIN logs :
            Held(logs[n].cells, Whole(n)) \subseteq Held(logs[n].cells, Len(logs[n].cells))
      /\ Held(logs[f].cells, logs[f].synced) \subseteq Held(logs[f].cells, Len(logs[f].cells))
  <2>1. \A n \in DOMAIN logs : Whole(n)' = Len(logs[n].cells)
    BY <1>1, <1>5 DEF Whole
  <2>2. ASSUME NEW n \in DOMAIN logs, NEW m \in 0..Len(logs[n].cells)
        PROVE  Held(logs[n].cells, m) \subseteq Held(logs[n].cells, Len(logs[n].cells))
    <3>1. logs[n].cells \in Seq(Cell) /\ Len(logs[n].cells) \in Nat
      BY LogTypes
    <3>2. Len(logs[n].cells) \in 0..Len(logs[n].cells)
      BY <3>1
    <3> QED BY <3>1, <3>2, HeldGrows
  <2>3. \A n \in DOMAIN logs : Whole(n) \in 0..Len(logs[n].cells)
    BY WholeType
  <2> QED BY <1>3, <1>4, <2>1, <2>2, <2>3
<1>8. /\ Kept' \subseteq Kept \cup {p} /\ (p \in Kept' => ~logs[f].torn)
      /\ Solid' \subseteq Solid \cup {p} /\ (p \in Solid' => ~logs[f].torn /\ pending.sync)
  BY <1>1, <1>2 DEF Kept, Solid
<1>9. ~logs[f].torn => p \in Held(logs[f].cells, Len(logs[f].cells))
  <2> SUFFICES ASSUME ~logs[f].torn
               PROVE  p \in Held(logs[f].cells, Len(logs[f].cells))
    OBVIOUS
  <2>1. ReadsThrough(logs[f].cells, logs[f].records, db.offset)
    BY <1>1 DEF LogfileOK, Logging
  <2>2. ReadRecords(logs[f].cells) = logs[f].records
    BY <1>4, <2>1, WrittenReads, MemoryTypes
  <2> QED BY <1>2, <1>4, <2>2, HeldOfAll
<1>10. SameDescriptor /\ TablesStay /\ SyncedStays /\ WholeStays
  <2>1. SameDescriptor /\ TablesStay
    BY <1>1, NothingLost
  <2>2. SyncedStays
    BY <1>5, <1>7 DEF SyncedStays
  <2>3. WholeStays
    <3> SUFFICES ASSUME NEW n \in DOMAIN logs
                 PROVE  /\ n \in DOMAIN logs'
                        /\ Held(logs[n].cells, Whole(n)) \subseteq Held(logs'[n].cells, Whole(n)')
      BY DEF WholeStays
    <3> QED BY <1>5, <1>7
  <2> QED BY <2>1, <2>2, <2>3
<1>11. /\ Edits' = Edits /\ Standing' = Standing /\ \A k : VersionAt(k)' = VersionAt(k)
       /\ manifests'[current'].synced = manifests[current].synced
  BY <1>10, DescriptorSame
<1>12. Typed'
  <2>1. \A n \in DOMAIN logs : logs'[n].synced <= Len(logs'[n].cells)
    <3> SUFFICES ASSUME NEW n \in DOMAIN logs
                 PROVE  logs'[n].synced <= Len(logs'[n].cells)
      OBVIOUS
    <3>1. logs[n].synced <= Len(logs[n].cells) /\ Len(logs[f].cells) <= Len(logs[f].cells)
      BY <1>4 DEF Typed
    <3> QED BY <1>5, <3>1
  <2>2. logs' \in [DOMAIN logs' -> Log]
    BY <1>1, <1>5 DEF Typed
  <2>3. pending' \in Batch
    BY <1>1 DEF Nothing, Batch
  <2>4. acked' \subseteq Nat \ {0} /\ hard' \subseteq acked'
    BY <1>1, <1>2 DEF Typed
  <2> QED BY <1>1, <1>5, <1>6, <2>1, <2>2, <2>3, <2>4 DEF Typed
<1>13. FilesOK'
  BY <1>10, FilesStay
<1>14. \A k \in Standing : Edits[k].logNumber <= f
  BY <1>1 DEF RunningOK, Running
<1>15. HardOK'
  <2>1. \A k \in Standing : \A s \in Solid :
           \/ s \in Stored(tables', VersionAt(k))
           \/ InSynced(s, Edits[k].logNumber)'
    BY <1>10, SolidStays
  <2>2. ASSUME NEW k \in Standing, p \in Solid'
        PROVE  InSynced(p, Edits[k].logNumber)'
    <3>1. p \in Held(logs'[f].cells, logs'[f].synced)
      BY <1>3, <1>5, <1>8, <1>9, <2>2
    <3>2. f >= Edits[k].logNumber /\ f \in DOMAIN logs' /\ Edits' = Edits
      BY <1>3, <1>5, <1>11, <1>14
    <3> QED BY <3>1, <3>2 DEF InSynced
  <2> SUFFICES ASSUME NEW k \in Standing', NEW s \in Solid'
               PROVE  \/ s \in Stored(tables', VersionAt(k)')
                      \/ InSynced(s, Edits[k].logNumber)'
    BY DEF HardOK
  <2>3. CASE s \in Solid
    BY <1>11, <2>1, <2>3
  <2>4. CASE s = p
    BY <1>11, <2>2, <2>4
  <2> QED BY <1>8, <2>3, <2>4
<1>16. AckedOK'
  <2>1. \A s \in Kept :
           \/ s \in Stored(tables', VersionOf(Edits'))
           \/ InLogs(s, LastEdit(Edits).logNumber)'
    BY <1>10, KeptStays
  <2>2. ASSUME p \in Kept'
        PROVE  InLogs(p, LastEdit(Edits).logNumber)'
    <3>1. p \in Held(logs'[f].cells, Whole(f)')
      BY <1>3, <1>5, <1>7, <1>8, <1>9, <2>2
    <3>2. f >= LastEdit(Edits).logNumber /\ f \in DOMAIN logs' /\ Edits' = Edits
      BY <1>3, <1>5, <1>11, <1>14, StandingIs
    <3> QED BY <3>1, <3>2 DEF InLogs
  <2> SUFFICES ASSUME NEW s \in Kept'
               PROVE  \/ s \in Stored(tables', VersionOf(Edits'))
                      \/ InLogs(s, LastEdit(Edits).logNumber)'
    BY DEF AckedOK
  <2> QED BY <1>8, <2>1, <2>2
<1>17. LogsOK' /\ LogfileOK' /\ PendingOK'
  BY <1>1, <1>3, <1>5, <1>6 DEF LogsOK, LogfileOK, Logging, PendingOK
<1>18. RunningOK'
  <2>1. \A s \in db'.mem \cup db'.imm \cup Stored(tables, db.version) : s <= db.lastSeq /\ s > 0
    <3>1. p <= db.lastSeq
      BY <1>2
    <3> QED BY <1>1, <1>2, <1>6, <3>1 DEF RunningOK, Running
  <2>2. db'.mem \cap db'.imm = {}
    BY <1>1, <1>2, <1>6 DEF RunningOK, Running
  <2>3. \A s \in Kept' : s \in db'.mem \cup db'.imm \cup Stored(tables, db.version)
    BY <1>1, <1>6, <1>8 DEF RunningOK, Running
  <2>4. /\ \A s \in Kept \cap db.mem : s \in Held(logs[f].cells, Len(logs[f].cells))
        /\ \A s \in Solid \cap db.mem : s \in Held(logs[f].cells, logs[f].synced)
    BY <1>1, <1>3, <1>7 DEF RunningOK, Running
  <2>5. \A s \in Kept' \cap db'.mem : s \in Held(logs'[f].cells, Len(logs'[f].cells))
    BY <1>3, <1>2, <1>5, <1>6, <1>8, <1>9, <2>4
  <2>6. \A s \in Solid' \cap db'.mem : s \in Held(logs'[f].cells, logs'[f].synced)
    <3> SUFFICES ASSUME NEW s \in Solid' \cap db'.mem
                 PROVE  s \in Held(logs'[f].cells, logs'[f].synced)
      OBVIOUS
    <3>1. CASE s = p
      BY <1>3, <1>5, <1>8, <1>9, <3>1
    <3>2. CASE s # p
      <4>1. s \in Held(logs[f].cells, logs[f].synced)
        BY <1>6, <1>8, <2>4, <3>2
      <4>2. s \in Held(logs[f].cells, Len(logs[f].cells))
        BY <1>7, <4>1
      <4> QED BY <1>3, <1>5, <4>1, <4>2
    <3> QED BY <3>1, <3>2
  <2>7. Whole(db.logfile)' = Len(logs'[f].cells)
    BY <1>1, <1>6 DEF Whole
  <2>8. /\ \A s \in (Kept \cap db.mem)' : s \in Held(logs'[db'.logfile].cells, Whole(db.logfile)')
        /\ \A s \in (Solid \cap db.mem)' : s \in Held(logs'[db'.logfile].cells, logs'[db'.logfile].synced)
    BY <1>6, <2>5, <2>6, <2>7
  <2> QED BY <1>1, <1>6, <1>11, <2>1, <2>2, <2>3, <2>8 DEF RunningOK, Running
<1>19. InstalledOK' /\ JobOK' /\ OpeningOK' /\ ReplayingOK' /\ RecoveredOK' /\ WrittenOK'
  <2>1. InstalledOK' /\ OpeningOK' /\ ReplayingOK' /\ RecoveredOK' /\ WrittenOK'
    BY <1>1 DEF InstalledOK, OpeningOK, Opening, ReplayingOK, RecoveredOK, WrittenOK
  <2>2. JobOK'
    BY <1>1, <1>6, <1>11 DEF JobOK
  <2> QED BY <2>1, <2>2
<1> QED BY <1>12, <1>13, <1>15, <1>16, <1>17, <1>18, <1>19

\* An empty log.
LEMMA EmptyLogIs ==
    /\ EmptyLog \in Log /\ EmptyLog.cells = << >> /\ EmptyLog.records = << >>
    /\ EmptyLog.synced = 0 /\ EmptyLog.torn = FALSE
    /\ EmptyLog.synced <= Len(EmptyLog.cells)
    /\ ReadsThrough(<< >>, << >>, 0) /\ ReadRecords(<< >>) = << >>
    /\ Begins(<< >>, << >>) /\ Held(<< >>, 0) = {}
<1>1. << >> \in Seq(Cell) /\ << >> \in Seq(Record) /\ Len(<< >>) = 0
  OBVIOUS
<1>2. ReadsThrough(<< >>, << >>, 0)
  BY NothingReads
<1>3. 0 \in 0..BlockSize
  BY LogFormatAssumption
<1>4. ReadRecords(<< >>) = << >>
  BY <1>1, <1>2, <1>3, WrittenReads
<1>5. Begins(<< >>, << >>)
  BY <1>1, BeginsOrder
<1>6. Held(<< >>, 0) = SeqsOf(<< >>)
  BY <1>1, <1>4, HeldOfAll
<1>7. SeqsOf(<< >>) = {}
  BY DEF SeqsOf
<1>8. EmptyLog \in Log
  BY <1>1 DEF EmptyLog, Log
<1>9. EmptyLog.synced <= Len(EmptyLog.cells)
  BY <1>1 DEF EmptyLog
<1> QED BY <1>2, <1>4, <1>5, <1>6, <1>7, <1>8, <1>9 DEF EmptyLog

\* A new log, with a number that none has.
LEMMA NewLog ==
    ASSUME Typed, LogsOK, NEW f \in Nat, f \notin DOMAIN logs, logs' = With(logs, f, EmptyLog)
    PROVE  /\ DOMAIN logs' = DOMAIN logs \cup {f} /\ DOMAIN logs' \subseteq Nat
           /\ logs'[f] = EmptyLog /\ \A n \in DOMAIN logs : logs'[n] = logs[n]
           /\ logs' \in [DOMAIN logs' -> Log]
           /\ \A n \in DOMAIN logs' : logs'[n].synced <= Len(logs'[n].cells)
           /\ LogsOK' /\ SyncedStays
<1>1. /\ DOMAIN logs' = DOMAIN logs \cup {f}
      /\ logs'[f] = EmptyLog /\ \A n \in DOMAIN logs : logs'[n] = logs[n]
      /\ logs' = [n \in DOMAIN logs \cup {f} |-> logs'[n]]
  BY DEF With
<1>2. \A n \in DOMAIN logs' : logs'[n] \in Log /\ logs'[n].synced <= Len(logs'[n].cells)
  BY <1>1, EmptyLogIs DEF Typed
<1>3. logs' \in [DOMAIN logs' -> Log]
  BY <1>1, <1>2
<1>4. DOMAIN logs' \subseteq Nat
  BY <1>1 DEF Typed
<1>5. LogsOK'
  BY <1>1, EmptyLogIs DEF LogsOK
<1>6. SyncedStays
  BY <1>1 DEF SyncedStays
<1> QED BY <1>1, <1>2, <1>3, <1>4, <1>5, <1>6

\* A new log: what the old one holds stays, since its number is not below log_number_.
LEMMA SwitchStep ==
    ASSUME IInv, Switch
    PROVE  IInv'
<1> USE DEF IInv
<1>1. PICK f, old :
      /\ f = db.nextFile /\ old = db.logfile
      /\ mode = "open" /\ mode' = mode /\ pending = Nothing /\ pending' = pending
      /\ db.imm = {} /\ db.mem # {}
      /\ tables' = tables /\ manifests' = manifests /\ current' = current /\ job' = job
      /\ acked' = acked /\ hard' = hard /\ spoilt' = spoilt
      /\ logs' = With(logs, f, EmptyLog)
      /\ db' = [db EXCEPT !.imm = db.mem, !.mem = {}, !.offset = 0,
                          !.logfile = f, !.nextFile = @ + 1]
  BY DEF Switch, promise
<1>2. /\ f \in Nat /\ db.mem \subseteq Nat /\ 0 \in 0..BlockSize /\ old \in DOMAIN logs /\ old \in Nat
      /\ \A n \in DOMAIN logs : n < f
  BY <1>1, MemoryTypes, LogFormatAssumption DEF LogfileOK, Logging
<1>3. f \notin DOMAIN logs /\ old < f /\ f < f + 1 /\ f + 1 \in Nat
  BY <1>2
<1>4. /\ DOMAIN logs' = DOMAIN logs \cup {f} /\ DOMAIN logs' \subseteq Nat
      /\ logs'[f] = EmptyLog /\ \A n \in DOMAIN logs : logs'[n] = logs[n]
      /\ logs' \in [DOMAIN logs' -> Log]
      /\ \A n \in DOMAIN logs' : logs'[n].synced <= Len(logs'[n].cells)
      /\ LogsOK' /\ SyncedStays
  BY <1>1, <1>2, <1>3, NewLog
<1>5. /\ db'.mem = {} /\ db' \in Memory /\ db'.imm = db.mem
      /\ db'.version = db.version /\ db'.logNumber = db.logNumber /\ db'.manifest = db.manifest
      /\ db'.nextFile = f + 1 /\ db'.logfile = f
      /\ db'.lastSeq = db.lastSeq /\ db'.offset = 0
      /\ db'.edit = db.edit /\ db'.todo = db.todo /\ db'.maxSeq = db.maxSeq
  BY <1>1, <1>2, <1>3 DEF Typed, Memory
<1>6. \A n \in DOMAIN logs : Whole(n)' = Whole(n)
  BY <1>1, <1>4 DEF Whole
<1>7. SameDescriptor /\ TablesStay /\ WholeStays /\ Kept' = Kept /\ Solid' = Solid
  <2>1. SameDescriptor /\ TablesStay /\ Kept' = Kept /\ Solid' = Solid
    BY <1>1, NothingLost
  <2>2. WholeStays
    BY <1>4, <1>6 DEF WholeStays
  <2> QED BY <2>1, <2>2
<1>8. /\ Edits' = Edits /\ Standing' = Standing /\ \A k : VersionAt(k)' = VersionAt(k)
      /\ manifests'[current'].synced = manifests[current].synced
  BY <1>7, DescriptorSame
<1>9. Typed'
  BY <1>1, <1>4, <1>5 DEF Typed
<1>10. FilesOK' /\ HardOK' /\ AckedOK'
  BY <1>4, <1>7, FilesStay, HardStays, AckedStays
<1>11. LogfileOK'
  <2>1. \A n \in DOMAIN logs' : n < f + 1
    BY <1>2, <1>3, <1>4
  <2> QED BY <1>1, <1>4, <1>5, <2>1, EmptyLogIs DEF LogfileOK, Logging
<1>12. PendingOK'
  BY <1>1 DEF PendingOK
<1>13. RunningOK'
  <2>1. \A k \in Standing : Edits[k].nextFile <= f + 1 /\ Edits[k].logNumber <= f
    <3> SUFFICES ASSUME NEW k \in Standing
                 PROVE  Edits[k].nextFile <= f + 1 /\ Edits[k].logNumber <= f
      OBVIOUS
    <3>1. Edits[k].nextFile <= f /\ Edits[k].logNumber <= old
      BY <1>1 DEF RunningOK, Running
    <3>2. Edits[k].nextFile \in Nat /\ Edits[k].logNumber \in Nat
      BY EditTypes, StandingIs
    <3> HIDE DEF Edits
    <3> QED BY <1>2, <1>3, <3>1, <3>2
  <2>2. /\ \A s \in db'.mem \cup db'.imm \cup Stored(tables, db.version) : s <= db.lastSeq /\ s > 0
        /\ \A s \in Kept : s \in db'.mem \cup db'.imm \cup Stored(tables, db.version)
    BY <1>1, <1>5 DEF RunningOK, Running
  <2>3. f + 1 > current
    <3>1. f > current /\ current \in Nat
      BY <1>1, EditTypes DEF RunningOK, Running
    <3> QED BY <1>2, <3>1
  <2> QED BY <1>1, <1>5, <1>7, <1>8, <2>1, <2>2, <2>3 DEF RunningOK, Running
<1>14. JobOK'
  <2>1. \A t \in Nat : t < f => t < f + 1
    BY <1>2
  <2>2. \A t \in DOMAIN tables : t \in Nat
    BY TableTypes
  <2> QED BY <1>1, <1>5, <1>8, <2>1, <2>2 DEF JobOK
<1>15. InstalledOK' /\ OpeningOK' /\ ReplayingOK' /\ RecoveredOK' /\ WrittenOK'
  BY <1>1 DEF InstalledOK, OpeningOK, Opening, ReplayingOK, RecoveredOK, WrittenOK
<1> QED BY <1>4, <1>9, <1>10, <1>11, <1>12, <1>13, <1>14, <1>15

\* While the database is open, the versions that may be found have files of
\* older numbers than the next.
LEMMA VersionsAreOld ==
    ASSUME Typed, FilesOK, RunningOK, Running
    PROVE  /\ \A k \in Standing : \A n \in VersionAt(k) :
                 n \in Nat /\ n \in DOMAIN tables /\ n < db.nextFile
           /\ \A n \in db.version : n \in Nat /\ n \in DOMAIN tables /\ n < db.nextFile
<1>1. ASSUME NEW k \in Standing, NEW n \in VersionAt(k)
      PROVE  n \in Nat /\ n \in DOMAIN tables /\ n < db.nextFile
  <2>1. n \in DOMAIN tables /\ n < Edits[k].nextFile /\ Edits[k].nextFile <= db.nextFile
    BY DEF FilesOK, RunningOK
  <2>2. n \in Nat /\ Edits[k].nextFile \in Nat /\ db.nextFile \in Nat
    BY <2>1, TableTypes, EditTypes, StandingIs, MemoryTypes
  <2> HIDE DEF Edits
  <2> QED BY <2>1, <2>2
<1>2. db.version = VersionAt(manifests[current].synced) /\ manifests[current].synced \in Standing
  BY StandingIs DEF RunningOK
<1> QED BY <1>1, <1>2

\* A new table: its number is the next, so no version that may be found has it.
LEMMA BuildStep ==
    ASSUME IInv, NEW kind, NEW contents, NEW edit, Build(kind, contents, edit),
           \/ kind = "flush" /\ db.imm # {} /\ contents = db.imm /\ edit = NoEdit
           \/ /\ kind = "compaction" /\ contents = InTables(db.version)
              /\ edit = [NoEdit EXCEPT !.del = db.version]
    PROVE  IInv'
<1> USE DEF IInv
<1>1. PICK t, new :
      /\ t = db.nextFile /\ new = [edit EXCEPT !.add = {db.nextFile}]
      /\ mode = "open" /\ mode' = mode /\ job = Idle
      /\ tables' = With(tables, t, contents)
      /\ db' = [db EXCEPT !.nextFile = @ + 1]
      /\ job' = [kind |-> kind, step |-> "built", edit |-> new]
      /\ logs' = logs /\ manifests' = manifests /\ current' = current /\ pending' = pending
      /\ acked' = acked /\ hard' = hard /\ spoilt' = spoilt
  BY DEF Build, promise
<1>2. /\ t \in Nat /\ db.imm \subseteq Nat /\ db.version \subseteq Nat
      /\ t < t + 1 /\ t + 1 \in Nat
  <2>1. t \in Nat /\ db.imm \subseteq Nat /\ db.version \subseteq Nat
    BY <1>1, MemoryTypes
  <2> QED BY <2>1
<1>3. /\ new = [add |-> {t}, del |-> IF kind = "flush" THEN {} ELSE db.version]
      /\ new \in Change
  <2>1. CASE kind = "flush"
    <3>1. new = [add |-> {t}, del |-> {}]
      BY <1>1, <2>1 DEF NoEdit
    <3> QED BY <1>2, <2>1, <3>1 DEF Change
  <2>2. CASE kind = "compaction"
    <3>1. edit = [add |-> {}, del |-> db.version]
      BY <2>2 DEF NoEdit
    <3>2. new = [add |-> {t}, del |-> db.version]
      BY <1>1, <3>1
    <3> QED BY <1>2, <2>2, <3>2 DEF Change
  <2> QED BY <2>1, <2>2
<1>4. contents \subseteq Nat \ {0}
  <2>1. \A s \in db.imm : s > 0
    BY <1>1 DEF RunningOK, Running
  <2>2. db.imm \subseteq Nat \ {0}
    BY <1>2, <2>1
  <2> QED BY <2>2, InTablesIs, TableTypes
<1>5. /\ DOMAIN tables' = DOMAIN tables \cup {t} /\ tables'[t] = contents
      /\ \A n \in DOMAIN tables : n # t => tables'[n] = tables[n]
      /\ tables' = [n \in DOMAIN tables \cup {t} |-> tables'[n]]
  BY <1>1 DEF With
<1>6. /\ db'.nextFile = t + 1 /\ db' \in Memory
      /\ db'.version = db.version /\ db'.logNumber = db.logNumber /\ db'.manifest = db.manifest
      /\ db'.mem = db.mem /\ db'.imm = db.imm /\ db'.logfile = db.logfile
      /\ db'.lastSeq = db.lastSeq /\ db'.offset = db.offset
      /\ db'.edit = db.edit /\ db'.todo = db.todo /\ db'.maxSeq = db.maxSeq
  BY <1>1, <1>2 DEF Typed, Memory
<1>7. Typed'
  <2>1. tables' \in [DOMAIN tables' -> SUBSET (Nat \ {0})] /\ DOMAIN tables' \subseteq Nat
    <3>1. \A n \in DOMAIN tables' : n \in Nat /\ tables'[n] \subseteq Nat \ {0}
      BY <1>2, <1>4, <1>5, TableTypes
    <3> QED BY <1>5, <3>1
  <2>2. job' \in Job
    BY <1>1, <1>3 DEF Job
  <2> QED BY <1>1, <1>6, <2>1, <2>2 DEF Typed
<1>8. /\ TablesStay
      /\ \A n \in db.version :
            n \in DOMAIN tables /\ n \in DOMAIN tables' /\ tables'[n] = tables[n]
  <2>1. /\ \A k \in Standing : \A n \in VersionAt(k) :
              n \in Nat /\ n \in DOMAIN tables /\ n < t
        /\ \A n \in db.version : n \in Nat /\ n \in DOMAIN tables /\ n < t
    BY <1>1, VersionsAreOld DEF Running
  <2>2. \A n \in Nat : n < t => n # t
    BY <1>2
  <2>3. ASSUME NEW n \in DOMAIN tables, n # t
        PROVE  n \in DOMAIN tables' /\ tables'[n] = tables[n]
    BY <1>5, <2>3
  <2> QED BY <2>1, <2>2, <2>3 DEF TablesStay
<1>9. Stored(tables', db.version) = Stored(tables, db.version)
  BY <1>8, StoredSame
<1>10. SameDescriptor /\ SyncedStays /\ WholeStays /\ Kept' = Kept /\ Solid' = Solid
  BY <1>1, <1>6, NothingLost
<1>11. /\ Edits' = Edits /\ Standing' = Standing /\ \A k : VersionAt(k)' = VersionAt(k)
       /\ manifests'[current'].synced = manifests[current].synced
  BY <1>10, DescriptorSame
<1>12. FilesOK' /\ HardOK' /\ AckedOK'
  BY <1>8, <1>10, FilesStay, HardStays, AckedStays
<1>13. LogsOK' /\ LogfileOK' /\ PendingOK'
  <2>1. LogsOK' /\ PendingOK'
    BY <1>1, <1>6, <1>10 DEF LogsOK, PendingOK
  <2>2. \A n \in DOMAIN logs : n < t => n < t + 1
    BY <1>2, LogTypes
  <2> QED BY <1>1, <1>6, <2>1, <2>2 DEF LogfileOK, Logging
<1>14. RunningOK'
  <2>1. \A k \in Standing : Edits[k].nextFile <= t + 1
    <3> SUFFICES ASSUME NEW k \in Standing
                 PROVE  Edits[k].nextFile <= t + 1
      OBVIOUS
    <3>1. Edits[k].nextFile <= t
      BY <1>1 DEF RunningOK, Running
    <3>2. Edits[k].nextFile \in Nat
      BY EditTypes, StandingIs
    <3> HIDE DEF Edits
    <3> QED BY <1>2, <3>1, <3>2
  <2>2. t + 1 > current
    <3>1. t > current /\ current \in Nat
      BY <1>1, EditTypes DEF RunningOK, Running
    <3> QED BY <1>2, <3>1
  <2>3. job.step = "none" /\ job'.step = "built"
    BY <1>1 DEF Idle
  <2>4. Whole(db.logfile)' = Whole(db.logfile)
    BY <1>1, <1>6 DEF Whole
  <2> QED BY <1>1, <1>6, <1>9, <1>10, <1>11, <2>1, <2>2, <2>3, <2>4 DEF RunningOK, Running
<1>15. JobOK'
  <2>1. job'.kind = kind /\ job'.step = "built" /\ job'.edit.add = {t}
        /\ job'.edit.del = IF kind = "flush" THEN {} ELSE db.version
    <3>1. job'.kind = kind /\ job'.step = "built" /\ job'.edit = new
      BY <1>1
    <3>2. new.add = {t} /\ new.del = IF kind = "flush" THEN {} ELSE db.version
      <4>1. new = [add |-> {t}, del |-> IF kind = "flush" THEN {} ELSE db.version]
        BY <1>3
      <4> QED BY <4>1, Zenon
    <3> QED BY <3>1, <3>2
  <2>2. t \in DOMAIN tables' /\ t < db'.nextFile /\ tables'[t] = contents
    BY <1>2, <1>5, <1>6
  <2>3. /\ kind = "flush" => contents = db.imm /\ db.imm # {}
        /\ kind = "compaction" => contents = Stored(tables', db.version)
    BY <1>9, InTablesIs
  <2>4. kind # "none"
    OBVIOUS
  <2>5. \E n \in DOMAIN tables' :
             /\ n < db'.nextFile /\ job'.edit.add = {n}
             /\ job'.kind = "flush" =>
                   db'.imm # {} /\ job'.edit.del = {} /\ tables'[n] = db'.imm
             /\ job'.kind = "compaction" =>
                   job'.edit.del = db'.version /\ tables'[n] = Stored(tables', db'.version)
    <3> t \in DOMAIN tables'
      BY <2>2
    <3> WITNESS t \in DOMAIN tables'
    <3> QED BY <1>6, <2>1, <2>2, <2>3
  <2>6. mode' = "open"
    BY <1>1
  <2> QED BY <2>1, <2>4, <2>5, <2>6 DEF JobOK
<1>16. InstalledOK' /\ OpeningOK' /\ ReplayingOK' /\ RecoveredOK' /\ WrittenOK'
  BY <1>1 DEF InstalledOK, OpeningOK, Opening, ReplayingOK, RecoveredOK, WrittenOK
<1> QED BY <1>7, <1>12, <1>13, <1>14, <1>15, <1>16

\* An edit in the descriptor, synced or not: the version with it holds what the version
\* without it holds, and imm_ if the edit lets go of its log.
LEMMA LogEditStep ==
    ASSUME IInv, LogEdit
    PROVE  IInv'
<1> USE DEF IInv
<1>1. PICK t, L, e, m :
      /\ t \in DOMAIN tables /\ t < db.nextFile /\ job.edit.add = {t}
      /\ job.kind = "flush" => db.imm # {} /\ job.edit.del = {} /\ tables[t] = db.imm
      /\ job.kind = "compaction" =>
            job.edit.del = db.version /\ tables[t] = Stored(tables, db.version)
      /\ L = Len(Edits) /\ m = current
      /\ e = [add |-> job.edit.add, del |-> job.edit.del, logNumber |-> LogNumberOf(job.kind),
              nextFile |-> db.nextFile, lastSeq |-> db.lastSeq]
      /\ job.step = "built" /\ job.kind # "none" /\ mode = "open" /\ mode' = mode
      /\ manifests' = [manifests EXCEPT ![m].edits = Append(@, e)]
      /\ job' = [job EXCEPT !.step = "logged"]
      /\ logs' = logs /\ tables' = tables /\ current' = current /\ pending' = pending /\ db' = db
      /\ acked' = acked /\ hard' = hard /\ spoilt' = spoilt
  <2>1. mode = "open" /\ job.step = "built"
    BY DEF LogEdit, JobOK
  <2>2. db.manifest = current
    BY <2>1 DEF RunningOK, Running
  <2>3. PICK t \in DOMAIN tables :
             /\ t < db.nextFile /\ job.edit.add = {t}
             /\ job.kind = "flush" =>
                   db.imm # {} /\ job.edit.del = {} /\ tables[t] = db.imm
             /\ job.kind = "compaction" =>
                   job.edit.del = db.version /\ tables[t] = Stored(tables, db.version)
    BY <2>1 DEF JobOK
  <2>4. job.kind # "none"
    BY <2>1 DEF JobOK
  <2> QED BY <2>1, <2>2, <2>3, <2>4 DEF LogEdit, promise
<1>2. /\ db.logNumber \in Nat /\ db.nextFile \in Nat /\ db.lastSeq \in Nat /\ db.logfile \in Nat
      /\ job.edit.add \subseteq Nat /\ job.edit.del \subseteq Nat
      /\ job.kind \in {"none", "flush", "compaction"} /\ t \in Nat
      /\ db.imm \subseteq Nat /\ db.version \subseteq Nat
  BY <1>1, MemoryTypes, TableTypes
<1>3. /\ e \in Edit /\ e.add = {t} /\ e.del = job.edit.del /\ e.nextFile = db.nextFile
      /\ e.lastSeq = db.lastSeq
      /\ e.logNumber = IF job.kind = "flush" THEN db.logfile ELSE db.logNumber
  BY <1>1, <1>2 DEF Edit, LogNumberOf
<1>4. /\ Edits \in Seq(Edit) /\ L \in Nat /\ L >= 1 /\ manifests[m].synced = L
      /\ manifests[m].synced \in Nat /\ m \in DOMAIN manifests
      /\ Standing = L..L /\ Standing = {L}
      /\ VersionAt(L) = VersionOf(Edits) /\ LastEdit(Edits) = Edits[L]
  <2>1. Len(Edits) = manifests[m].synced
    BY <1>1 DEF RunningOK, Running
  <2>2. Edits \in Seq(Edit) /\ L \in Nat /\ VersionAt(L) = VersionOf(Edits)
    BY <1>1, EditTypes
  <2>3. manifests[m].synced >= 1
    BY <1>1 DEF FilesOK
  <2>4. L..L = {L}
    BY <2>2
  <2> QED BY <1>1, <2>1, <2>2, <2>3, <2>4 DEF Standing, LastEdit, Typed
<1> DEFINE E == Append(Edits, e)
<1>5. /\ E \in Seq(Edit) /\ Len(E) = L + 1 /\ E[L + 1] = e /\ \A i \in 1..L : E[i] = Edits[i]
  <2> HIDE DEF Edits
  <2> QED BY <1>1, <1>3, <1>4, AppendProperties
<1>6. /\ DOMAIN manifests' = DOMAIN manifests
      /\ manifests'[m].edits = E /\ manifests'[m].synced = L
      /\ \A n \in DOMAIN manifests : n # m => manifests'[n] = manifests[n]
  BY <1>1, <1>4 DEF Typed, Descriptor, Edits
<1>7. Edits' = E /\ manifests'[current'].synced = L
  BY <1>1, <1>6 DEF Edits
<1> HIDE DEF E
<1>8. /\ L \in 1..L /\ L + 1 \in 1..(L + 1) /\ L + 1 \in Nat /\ L <= L + 1 /\ Standing' = {L, L + 1}
      /\ L + 1 # L
  <2>1. Standing' = L..(L + 1)
    BY <1>1, <1>5, <1>7 DEF Standing
  <2>2. L..(L + 1) = {L, L + 1}
    BY <1>4
  <2> QED BY <1>4, <2>1, <2>2
<1>9. SubSeq(E, 1, L) = Edits /\ SubSeq(E, 1, L + 1) = E
  <2> HIDE DEF Edits
  <2>1. /\ SubSeq(E, 1, L) \in Seq(Edit) /\ Len(SubSeq(E, 1, L)) = L
        /\ \A i \in 1..L : SubSeq(E, 1, L)[i] = E[i]
    <3>1. \A i \in 1..L : E[i] \in Edit
      BY <1>4, <1>5, ElementOfSeq, <1>1
    <3> QED BY <3>1, <1>4, SubSeqProperties
  <2>2. \A i \in 1..L : SubSeq(E, 1, L)[i] = Edits[i]
    BY <1>5, <2>1
  <2>3. SubSeq(E, 1, L) = Edits
    BY <1>1, <1>4, <2>1, <2>2, SeqEqual
  <2> QED BY <1>5, <2>3, SubSeqFull
<1>10. VersionOf(E) = (VersionOf(Edits) \ e.del) \cup {t}
  <2> HIDE DEF Edits
  <2> QED BY <1>3, <1>4, VersionOfAppend DEF E
<1>11. VersionAt(L)' = VersionAt(L) /\ VersionAt(L + 1)' = VersionOf(E) /\ VersionOf(Edits') = VersionOf(E)
       /\ LastEdit(Edits') = e
  <2>1. VersionAt(L)' = VersionOf(Edits) /\ VersionAt(L + 1)' = VersionOf(E)
    BY <1>7, <1>9 DEF VersionAt
  <2>2. LastEdit(Edits') = e
    BY <1>5, <1>7 DEF LastEdit
  <2> QED BY <1>4, <1>7, <2>1, <2>2
<1>12. /\ db.version = VersionOf(Edits) /\ db.logNumber = Edits[L].logNumber
       /\ Edits[L].nextFile <= db.nextFile /\ Edits[L].logNumber <= db.logfile
       /\ db.nextFile > current /\ db.manifest = current
       /\ Edits[L].nextFile \in Nat
  <2>1. Edits[L].nextFile \in Nat
    BY <1>1, <1>8, EditTypes
  <2> QED BY <1>1, <1>4, <2>1 DEF RunningOK, Running
<1>13. Stored(tables, VersionOf(E))
          = Stored(tables, db.version) \cup (IF job.kind = "flush" THEN db.imm ELSE {})
  <2>1. Stored(tables, {t}) = tables[t]
    BY <1>1, StoredOne
  <2>2. Stored(tables, VersionOf(E)) = Stored(tables, VersionOf(Edits) \ e.del) \cup tables[t]
    BY <1>10, <2>1, StoredUnion
  <2>3. CASE job.kind = "flush"
    <3>1. VersionOf(Edits) \ e.del = db.version
      BY <1>1, <1>3, <1>12, <2>3
    <3> QED BY <1>1, <2>2, <2>3, <3>1
  <2>4. CASE job.kind = "compaction"
    <3>1. VersionOf(Edits) \ e.del = {}
      BY <1>1, <1>3, <1>12, <2>4
    <3>2. Stored(tables, {}) = {}
      BY DEF Stored
    <3> QED BY <1>1, <2>2, <2>4, <3>1, <3>2
  <2> QED BY <1>1, <1>2, <2>3, <2>4
<1>14. Typed'
  <2>1. manifests'[m] = [edits |-> E, synced |-> L] /\ manifests'[m] \in Descriptor
    <3>1. manifests'[m] = [edits |-> E, synced |-> L]
      <4>1. manifests[m] \in Descriptor
        BY <1>4 DEF Typed
      <4>2. manifests'[m] = [manifests[m] EXCEPT !.edits = Append(@, e)]
        BY <1>1, <1>4, Zenon
      <4>3. manifests'[m] = [edits |-> manifests'[m].edits, synced |-> manifests'[m].synced]
        BY <4>1, <4>2 DEF Descriptor
      <4> QED BY <1>6, <4>3, Zenon
    <3> QED BY <1>4, <1>5, <3>1 DEF Descriptor
  <2>2. manifests'[m].synced <= Len(manifests'[m].edits)
    BY <1>4, <1>5, <2>1
  <2>3. manifests' \in [DOMAIN manifests' -> Descriptor]
    BY <1>1, <1>6, <2>1 DEF Typed
  <2>4. job' \in Job
    BY <1>1 DEF Typed, Job
  <2> QED BY <1>1, <1>6, <2>1, <2>2, <2>3, <2>4 DEF Typed
<1>15. FilesOK'
  <2>1. e.nextFile > current /\ e.logNumber < e.nextFile
    <3>1. db.logfile < db.nextFile
      BY <1>1 DEF LogfileOK, Logging
    <3>2. db.logNumber <= db.logfile
      BY <1>12
    <3> QED BY <1>2, <1>3, <1>12, <3>1, <3>2
  <2>2. \A n \in VersionOf(E) :
           n \in DOMAIN tables /\ n < e.nextFile /\ \A s \in tables[n] : s <= e.lastSeq
    <3>1. \A n \in db.version : n \in DOMAIN tables /\ n < db.nextFile
      BY <1>1, VersionsAreOld DEF Running
    <3>2. \A s \in db.imm \cup Stored(tables, db.version) : s <= db.lastSeq
      BY <1>1 DEF RunningOK, Running
    <3>3. \A n \in VersionOf(E) : n \in DOMAIN tables /\ n < e.nextFile
      BY <1>1, <1>3, <1>10, <1>12, <3>1
    <3>4. \A s \in Stored(tables, VersionOf(E)) : s <= e.lastSeq
      BY <1>3, <1>13, <3>2
    <3>5. \A n \in VersionOf(E) : \A s \in tables[n] : s \in Stored(tables, VersionOf(E))
      BY <3>3, StoredIs
    <3> QED BY <3>3, <3>4, <3>5
  <2>3. /\ Edits[L].nextFile > current /\ Edits[L].logNumber < Edits[L].nextFile
        /\ \A n \in VersionAt(L) :
                /\ n \in DOMAIN tables /\ n < Edits[L].nextFile
                /\ \A s \in tables[n] : s <= Edits[L].lastSeq
    BY <1>4 DEF FilesOK
  <2>4. E[L] = Edits[L] /\ e.nextFile <= e.nextFile /\ Edits[L].nextFile <= e.nextFile
    BY <1>2, <1>3, <1>5, <1>8, <1>12
  <2> HIDE DEF Edits
  <2>5. \A k \in Standing' : /\ E[k].nextFile > current /\ E[k].logNumber < E[k].nextFile
                             /\ E[k].nextFile <= e.nextFile
                             /\ \A n \in VersionAt(k)' :
                                   /\ n \in DOMAIN tables /\ n < E[k].nextFile
                                   /\ \A s \in tables[n] : s <= E[k].lastSeq
    <3> SUFFICES ASSUME NEW k \in Standing'
                 PROVE  /\ E[k].nextFile > current /\ E[k].logNumber < E[k].nextFile
                        /\ E[k].nextFile <= e.nextFile
                        /\ \A n \in VersionAt(k)' :
                              /\ n \in DOMAIN tables /\ n < E[k].nextFile
                              /\ \A s \in tables[n] : s <= E[k].lastSeq
      OBVIOUS
    <3>1. CASE k = L
      BY <1>11, <2>3, <2>4, <3>1
    <3>2. CASE k = L + 1
      BY <1>5, <1>11, <2>1, <2>2, <2>4, <3>2
    <3> QED BY <1>8, <3>1, <3>2
  <2>6. manifests'[current'].synced >= 1
    BY <1>4, <1>7
  <2> QED BY <1>1, <1>7, <1>11, <2>5, <2>6 DEF FilesOK
<1>16. Kept' = Kept /\ Solid' = Solid
  BY <1>1, NothingLost
<1>17. /\ \A s \in Kept : s \in db.mem \cup db.imm \cup Stored(tables, db.version)
       /\ \A s \in Kept \cap db.mem : s \in Held(logs[db.logfile].cells, Whole(db.logfile))
       /\ \A s \in Solid \cap db.mem : s \in Held(logs[db.logfile].cells, logs[db.logfile].synced)
       /\ db.logfile \in DOMAIN logs
  BY <1>1 DEF RunningOK, Running, LogfileOK, Logging
<1>18. HardOK'
  <2>1. \A s, number : InSynced(s, number)' <=> InSynced(s, number)
    BY <1>1 DEF InSynced
  <2>2. \A s \in Solid : s \in Stored(tables, VersionAt(L)) \/ InSynced(s, Edits[L].logNumber)
    BY <1>4 DEF HardOK
  <2>3. ASSUME NEW s \in Solid
        PROVE  s \in Stored(tables, VersionOf(E)) \/ InSynced(s, e.logNumber)
    <3>1. CASE job.kind # "flush"
      <4>1. e.logNumber = Edits[L].logNumber
        BY <1>3, <1>12, <3>1
      <4> QED BY <1>4, <1>12, <1>13, <2>2, <4>1
    <3>2. CASE job.kind = "flush"
      <4>1. e.logNumber = db.logfile /\ db.logfile >= db.logfile
        BY <1>2, <1>3, <3>2
      <4>2. s \in Kept
        BY DEF Kept, Solid, Typed
      <4>3. s \in Stored(tables, VersionOf(E)) \/ s \in db.mem
        BY <1>13, <1>17, <3>2, <4>2
      <4> QED BY <1>17, <4>1, <4>3 DEF InSynced
    <3> QED BY <3>1, <3>2
  <2> SUFFICES ASSUME NEW k \in Standing', NEW s \in Solid
               PROVE  \/ s \in Stored(tables, VersionAt(k)')
                      \/ InSynced(s, E[k].logNumber)
    BY <1>1, <1>7, <1>16, <2>1 DEF HardOK
  <2>4. CASE k = L
    <3>1. E[L] = Edits[L]
      BY <1>5, <1>8
    <3> QED BY <1>11, <2>2, <2>4, <3>1
  <2>5. CASE k = L + 1
    <3>1. E[k] = e
      BY <1>5, <2>5
    <3> QED BY <1>11, <2>3, <2>5, <3>1
  <2> QED BY <1>8, <2>4, <2>5
<1>19. AckedOK'
  <2>1. \A s, number : InLogs(s, number)' <=> InLogs(s, number)
    BY <1>1 DEF InLogs, Whole
  <2>2. \A s \in Kept : s \in Stored(tables, VersionOf(Edits)) \/ InLogs(s, Edits[L].logNumber)
    BY <1>4 DEF AckedOK
  <2>3. ASSUME NEW s \in Kept
        PROVE  s \in Stored(tables, VersionOf(E)) \/ InLogs(s, e.logNumber)
    <3>1. CASE job.kind # "flush"
      <4>1. e.logNumber = Edits[L].logNumber
        BY <1>3, <1>12, <3>1
      <4> QED BY <1>4, <1>12, <1>13, <2>2, <4>1
    <3>2. CASE job.kind = "flush"
      <4>1. e.logNumber = db.logfile /\ db.logfile >= db.logfile
        BY <1>2, <1>3, <3>2
      <4>2. s \in Stored(tables, VersionOf(E)) \/ s \in db.mem
        BY <1>13, <1>17, <3>2
      <4> QED BY <1>17, <4>1, <4>2 DEF InLogs
    <3> QED BY <3>1, <3>2
  <2> SUFFICES ASSUME NEW s \in Kept
               PROVE  s \in Stored(tables, VersionOf(E)) \/ InLogs(s, e.logNumber)
    BY <1>1, <1>7, <1>11, <1>16, <2>1 DEF AckedOK
  <2> QED BY <2>3
<1>20. LogsOK' /\ LogfileOK' /\ PendingOK'
  BY <1>1, <1>16 DEF LogsOK, LogfileOK, Logging, PendingOK
<1>21. job'.step = "logged" /\ job'.kind = job.kind /\ job'.edit = job.edit
  BY <1>1 DEF Typed, Job
<1>22. RunningOK'
  <2>1. \A k \in Standing' : E[k].nextFile <= db.nextFile /\ E[k].logNumber <= db.logfile
    <3> SUFFICES ASSUME NEW k \in Standing'
                 PROVE  E[k].nextFile <= db.nextFile /\ E[k].logNumber <= db.logfile
      OBVIOUS
    <3>1. CASE k = L
      <4>1. E[L] = Edits[L]
        BY <1>5, <1>8
      <4> QED BY <1>12, <3>1, <4>1
    <3>2. CASE k = L + 1
      <4>1. E[k] = e
        BY <1>5, <3>2
      <4>2. e.nextFile <= db.nextFile /\ e.logNumber <= db.logfile
        BY <1>2, <1>3, <1>12
      <4> QED BY <4>1, <4>2
    <3> QED BY <1>8, <3>1, <3>2
  <2>2. db.version = VersionAt(L)' /\ db.logNumber = E[L].logNumber
    <3>1. E[L] = Edits[L]
      BY <1>5, <1>8
    <3> QED BY <1>4, <1>11, <1>12, <3>1
  <2>3. Len(E) = L + 1
    BY <1>5
  <2>4. Whole(db.logfile)' = Whole(db.logfile)
    BY <1>1 DEF Whole
  <2>5. /\ \A s \in db.mem \cup db.imm \cup Stored(tables, db.version) : s <= db.lastSeq /\ s > 0
        /\ db.mem \cap db.imm = {}
    BY <1>1 DEF RunningOK, Running
  <2> QED BY <1>1, <1>7, <1>12, <1>16, <1>17, <1>21, <2>1, <2>2, <2>3, <2>4, <2>5 DEF RunningOK, Running
<1>23. JobOK'
  BY <1>1, <1>7, <1>13, <1>21 DEF JobOK
<1>24. InstalledOK' /\ OpeningOK' /\ ReplayingOK' /\ RecoveredOK' /\ WrittenOK'
  BY <1>1 DEF InstalledOK, OpeningOK, Opening, ReplayingOK, RecoveredOK, WrittenOK
<1> QED BY <1>14, <1>15, <1>18, <1>19, <1>20, <1>22, <1>23, <1>24

\* An edit that is synced and installed: only versions with it may be found now.
LEMMA ApplyEditStep ==
    ASSUME IInv, ApplyEdit
    PROVE  IInv'
<1> USE DEF IInv
<1>1. PICK L, m, late :
      /\ m = current /\ L = manifests[m].synced
      /\ late = IF job.kind = "flush" THEN db.imm ELSE {}
      /\ job.step = "logged" /\ job.kind # "none" /\ mode = "open" /\ mode' = mode
      /\ manifests' = [manifests EXCEPT ![m].synced = Len(Edits)]
      /\ db' = [db EXCEPT !.version = VersionOf(Edits), !.logNumber = LastEdit(Edits).logNumber,
                          !.imm = @ \ late]
      /\ hard' = hard \cup (acked \cap late)
      /\ job' = [job EXCEPT !.step = "applied"]
      /\ logs' = logs /\ tables' = tables /\ current' = current /\ pending' = pending
      /\ acked' = acked /\ spoilt' = spoilt
  <2>1. mode = "open" /\ job.step = "logged" /\ job.kind # "none"
    BY DEF ApplyEdit, JobOK
  <2>2. db.manifest = current
    BY <2>1 DEF RunningOK, Running
  <2>3. /\ manifests' = [manifests EXCEPT ![current].synced = Len(Edits)]
        /\ db' = [db EXCEPT !.version = VersionOf(Edits), !.logNumber = LastEdit(Edits).logNumber,
                            !.imm = IF job.kind = "flush" THEN {} ELSE @]
    BY <2>2 DEF ApplyEdit, Edits
  <2> DEFINE late == IF job.kind = "flush" THEN db.imm ELSE {}
  <2>4. (IF job.kind = "flush" THEN {} ELSE db.imm) = db.imm \ late
    OBVIOUS
  <2>5. hard' = hard \cup (acked \cap late)
    BY DEF ApplyEdit
  <2>6. db' = [db EXCEPT !.version = VersionOf(Edits), !.logNumber = LastEdit(Edits).logNumber,
                         !.imm = @ \ late]
    BY <2>3, <2>4, Zenon
  <2>7. /\ job' = [job EXCEPT !.step = "applied"] /\ mode' = mode
        /\ logs' = logs /\ tables' = tables /\ current' = current /\ pending' = pending
        /\ acked' = acked /\ spoilt' = spoilt
    BY DEF ApplyEdit
  <2> HIDE DEF late
  <2> QED BY <2>1, <2>3, <2>5, <2>6, <2>7 DEF late
<1>2. /\ Edits \in Seq(Edit) /\ L \in Nat /\ L >= 1 /\ Len(Edits) = L + 1
      /\ m \in DOMAIN manifests /\ Len(Edits) \in Standing /\ L + 1 \in Nat
      /\ VersionOf(Edits) = VersionAt(L + 1) /\ LastEdit(Edits) = Edits[L + 1]
      /\ Edits[L + 1] \in Edit /\ Edits[L + 1].logNumber \in Nat /\ VersionOf(Edits) \subseteq Nat
  <2>1. Len(Edits) = L + 1
    BY <1>1 DEF RunningOK, Running
  <2>2. Edits \in Seq(Edit) /\ L \in Nat /\ Len(Edits) \in Nat /\ VersionOf(Edits) \subseteq Nat
    BY <1>1, EditTypes
  <2>3. L >= 1
    BY <1>1 DEF FilesOK
  <2>4. /\ Len(Edits) \in Standing /\ VersionOf(Edits) = VersionAt(Len(Edits))
        /\ LastEdit(Edits) = Edits[Len(Edits)] /\ LastEdit(Edits) \in Edit
    BY StandingIs
  <2>5. LastEdit(Edits).logNumber \in Nat
    BY <2>4 DEF Edit
  <2> QED BY <1>1, <2>1, <2>2, <2>3, <2>4, <2>5 DEF Typed
<1>3. /\ DOMAIN manifests' = DOMAIN manifests
      /\ manifests'[m].edits = Edits /\ manifests'[m].synced = L + 1
      /\ \A n \in DOMAIN manifests : n # m => manifests'[n] = manifests[n]
      /\ manifests'[m] \in Descriptor
  <2>1. manifests[m] \in Descriptor
    BY <1>2 DEF Typed
  <2>2. manifests'[m] = [manifests[m] EXCEPT !.synced = Len(Edits)]
    BY <1>1, <1>2, Zenon
  <2>3. manifests'[m] = [edits |-> Edits, synced |-> L + 1]
    BY <1>1, <1>2, <2>1, <2>2 DEF Descriptor, Edits
  <2>4. manifests'[m] \in Descriptor
    BY <1>2, <2>3 DEF Descriptor
  <2> QED BY <1>1, <2>3, <2>4
<1>4. /\ Edits' = Edits /\ Standing' = {L + 1} /\ \A k : VersionAt(k)' = VersionAt(k)
      /\ manifests'[current'].synced = L + 1
  <2>1. Edits' = Edits /\ manifests'[current'].synced = L + 1
    BY <1>1, <1>3 DEF Edits
  <2>2. Standing' = (L + 1)..(L + 1)
    BY <1>2, <2>1 DEF Standing
  <2>3. (L + 1)..(L + 1) = {L + 1}
    BY <1>2
  <2> QED BY <2>1, <2>2, <2>3 DEF VersionAt
<1>5. L + 1 \in Standing
  BY <1>2
<1>6. /\ db'.version = VersionOf(Edits) /\ db'.logNumber = Edits[L + 1].logNumber
      /\ db'.imm = db.imm \ late /\ db' \in Memory /\ db'.manifest = db.manifest
      /\ db'.nextFile = db.nextFile /\ db'.mem = db.mem /\ db'.logfile = db.logfile
      /\ db'.lastSeq = db.lastSeq /\ db'.offset = db.offset
      /\ db'.edit = db.edit /\ db'.todo = db.todo /\ db'.maxSeq = db.maxSeq
  BY <1>1, <1>2 DEF Typed, Memory
<1>7. Stored(tables, VersionOf(Edits)) = Stored(tables, db.version) \cup late /\ late \subseteq db.imm
  BY <1>1 DEF JobOK
<1>8. Kept' = Kept /\ Solid' \subseteq Solid \cup (Kept \cap late) /\ Solid' \subseteq Kept
  BY <1>1 DEF Kept, Solid, Typed
<1>9. Typed'
  <2>1. manifests' \in [DOMAIN manifests' -> Descriptor]
    BY <1>1, <1>3 DEF Typed
  <2>2. job' \in Job
    BY <1>1 DEF Typed, Job
  <2>3. hard' \subseteq acked'
    BY <1>1 DEF Typed
  <2>4. manifests'[m].synced <= Len(manifests'[m].edits)
    BY <1>2, <1>3
  <2> QED BY <1>1, <1>3, <1>6, <2>1, <2>2, <2>3, <2>4 DEF Typed
<1>10. FilesOK'
  <2>1. L + 1 >= 1
    BY <1>2
  <2> QED BY <1>1, <1>4, <1>5, <2>1 DEF FilesOK
<1>11. HardOK'
  <2>1. \A s, number : InSynced(s, number)' <=> InSynced(s, number)
    BY <1>1 DEF InSynced
  <2>2. \A s \in Solid : s \in Stored(tables, VersionAt(L + 1)) \/ InSynced(s, Edits[L + 1].logNumber)
    BY <1>5 DEF HardOK
  <2> SUFFICES ASSUME NEW s \in Solid'
               PROVE  \/ s \in Stored(tables, VersionAt(L + 1))
                      \/ InSynced(s, Edits[L + 1].logNumber)
    BY <1>1, <1>4, <2>1 DEF HardOK
  <2> QED BY <1>2, <1>7, <1>8, <2>2
<1>12. AckedOK'
  <2>1. \A s, number : InLogs(s, number)' <=> InLogs(s, number)
    BY <1>1, <1>6 DEF InLogs, Whole
  <2> QED BY <1>1, <1>4, <1>8, <2>1 DEF AckedOK
<1>13. LogsOK' /\ LogfileOK' /\ PendingOK'
  BY <1>1, <1>6, <1>8 DEF LogsOK, LogfileOK, Logging, PendingOK
<1>14. job'.step = "applied" /\ job'.kind = job.kind
  BY <1>1 DEF Typed, Job
<1>15. RunningOK'
  <2>1. /\ db.manifest = current /\ db.nextFile > current
        /\ Edits[L + 1].nextFile <= db.nextFile /\ Edits[L + 1].logNumber <= db.logfile
        /\ \A s \in db.mem \cup db.imm \cup Stored(tables, db.version) : s <= db.lastSeq /\ s > 0
        /\ db.mem \cap db.imm = {}
        /\ \A s \in Kept : s \in db.mem \cup db.imm \cup Stored(tables, db.version)
        /\ \A s \in Kept \cap db.mem : s \in Held(logs[db.logfile].cells, Whole(db.logfile))
        /\ \A s \in Solid \cap db.mem : s \in Held(logs[db.logfile].cells, logs[db.logfile].synced)
    BY <1>1, <1>5 DEF RunningOK, Running
  <2>2. \A s \in db'.mem \cup db'.imm \cup Stored(tables, db'.version) : s <= db.lastSeq /\ s > 0
    BY <1>6, <1>7, <2>1
  <2>3. db'.mem \cap db'.imm = {}
    BY <1>6, <2>1
  <2>4. \A s \in Kept : s \in db'.mem \cup db'.imm \cup Stored(tables, db'.version)
    BY <1>6, <1>7, <2>1
  <2>5. \A s \in Solid' \cap db.mem : s \in Held(logs[db.logfile].cells, logs[db.logfile].synced)
    BY <1>7, <1>8, <2>1
  <2>6. Whole(db.logfile)' = Whole(db.logfile)
    BY <1>1, <1>6 DEF Whole
  <2> QED BY <1>1, <1>2, <1>4, <1>6, <1>8, <1>14, <2>1, <2>2, <2>3, <2>4, <2>5, <2>6 DEF RunningOK, Running
<1>16. JobOK'
  BY <1>1, <1>14 DEF JobOK
<1>17. InstalledOK' /\ OpeningOK' /\ ReplayingOK' /\ RecoveredOK' /\ WrittenOK'
  BY <1>1 DEF InstalledOK, OpeningOK, Opening, ReplayingOK, RecoveredOK, WrittenOK
<1> QED BY <1>9, <1>10, <1>11, <1>12, <1>13, <1>15, <1>16, <1>17

\* Deleting the files nobody needs, when what the descriptor says is installed.
LEMMA DeleteStep ==
    ASSUME IInv, Running, job.step \in {"none", "applied"}, DeleteObsolete,
           UNCHANGED << current, db, pending, acked, hard, spoilt >>,
           mode' = "open", job' = Idle
    PROVE  IInv'
<1> USE DEF IInv
<1>1. PICK m, f : m = current /\ f = db.logfile
  OBVIOUS
<1>2. /\ db.manifest = m /\ Len(Edits) = manifests[m].synced
      /\ db.version = VersionAt(manifests[m].synced)
      /\ db.logNumber = Edits[manifests[m].synced].logNumber
      /\ \A k \in Standing : Edits[k].logNumber <= f
  BY <1>1 DEF RunningOK
<1>3. /\ manifests[m].synced \in Nat /\ Standing = {manifests[m].synced}
      /\ db.version = VersionOf(Edits) /\ db.logNumber = LastEdit(Edits).logNumber
      /\ db.logNumber \in Nat /\ f \in Nat /\ m \in DOMAIN manifests /\ m \in Nat
      /\ db.logNumber <= f
  <2>1. manifests[m].synced \in Nat /\ m \in Nat /\ m \in DOMAIN manifests
    BY <1>1, EditTypes DEF Typed
  <2>2. manifests[m].synced..manifests[m].synced = {manifests[m].synced}
    BY <2>1
  <2>3. Standing = {manifests[m].synced}
    BY <1>1, <1>2, <2>2 DEF Standing
  <2> QED BY <1>1, <1>2, <2>1, <2>3, StandingIs, MemoryTypes
<1>4. /\ DOMAIN logs' = {n \in DOMAIN logs : n >= db.logNumber}
      /\ \A n \in DOMAIN logs' : logs'[n] = logs[n]
      /\ logs' = [n \in DOMAIN logs' |-> logs'[n]]
  BY DEF DeleteObsolete, Only, LogsFrom
<1>5. /\ DOMAIN tables' = DOMAIN tables \cap db.version
      /\ \A n \in DOMAIN tables' : tables'[n] = tables[n]
      /\ tables' = [n \in DOMAIN tables' |-> tables'[n]]
  BY DEF DeleteObsolete, Only
<1>6. /\ DOMAIN manifests' = {n \in DOMAIN manifests : n >= m}
      /\ \A n \in DOMAIN manifests' : manifests'[n] = manifests[n]
      /\ manifests' = [n \in DOMAIN manifests' |-> manifests'[n]]
  BY <1>2 DEF DeleteObsolete, Only
<1>7. m \in DOMAIN manifests' /\ f \in DOMAIN logs'
  <2>1. f \in DOMAIN logs
    BY <1>1 DEF LogfileOK, Logging, Running
  <2>2. f >= db.logNumber /\ m >= m
    BY <1>3
  <2> QED BY <1>3, <1>4, <1>6, <2>1, <2>2
<1>8. \A n \in DOMAIN logs' : Whole(n)' = Whole(n)
  BY <1>4 DEF Whole
<1>9. SameDescriptor /\ TablesStay /\ SyncedStays /\ WholeStays /\ Kept' = Kept /\ Solid' = Solid
  <2>1. SameDescriptor
    BY <1>1, <1>6, <1>7 DEF SameDescriptor
  <2>2. TablesStay
    BY <1>1, <1>2, <1>3, <1>5 DEF TablesStay, FilesOK
  <2>3. SyncedStays
    BY <1>1, <1>2, <1>3, <1>4 DEF SyncedStays
  <2>4. WholeStays
    BY <1>3, <1>4, <1>8 DEF WholeStays
  <2>5. Kept' = Kept /\ Solid' = Solid
    BY DEF Kept, Solid
  <2> QED BY <2>1, <2>2, <2>3, <2>4, <2>5
<1>10. /\ Edits' = Edits /\ Standing' = Standing /\ \A k : VersionAt(k)' = VersionAt(k)
       /\ manifests'[current'].synced = manifests[current].synced
  BY <1>9, DescriptorSame
<1>11. Idle.step = "none" /\ Idle.kind = "none" /\ Idle \in Job
  BY DEF Idle, Job, NoEdit, Change
<1>12. Typed'
  <2>1. logs' \in [DOMAIN logs' -> Log] /\ DOMAIN logs' \subseteq Nat
    BY <1>4 DEF Typed
  <2>2. tables' \in [DOMAIN tables' -> SUBSET (Nat \ {0})] /\ DOMAIN tables' \subseteq Nat
    BY <1>5 DEF Typed
  <2>3. manifests' \in [DOMAIN manifests' -> Descriptor] /\ DOMAIN manifests' \subseteq Nat
    BY <1>6 DEF Typed
  <2>4. /\ \A n \in DOMAIN logs' : logs'[n].synced <= Len(logs'[n].cells)
        /\ \A n \in DOMAIN manifests' : manifests'[n].synced <= Len(manifests'[n].edits)
    BY <1>4, <1>6 DEF Typed
  <2>5. mode' \in Modes
    BY DEF Modes
  <2> QED BY <1>1, <1>7, <1>11, <2>1, <2>2, <2>3, <2>4, <2>5 DEF Typed
<1>13. FilesOK' /\ HardOK' /\ AckedOK'
  BY <1>9, FilesStay, HardStays, AckedStays
<1>14. LogsOK' /\ LogfileOK' /\ PendingOK'
  <2>1. pending # Nothing => mode = "open"
    BY DEF PendingOK
  <2> QED BY <1>1, <1>4, <1>7, <1>9, <2>1 DEF LogsOK, LogfileOK, Logging, Running, PendingOK
<1>15. RunningOK'
  <2>1. /\ db.manifest = current /\ db.nextFile > current
        /\ \A k \in Standing : Edits[k].nextFile <= db.nextFile /\ Edits[k].logNumber <= db.logfile
        /\ \A s \in db.mem \cup db.imm \cup Stored(tables, db.version) : s <= db.lastSeq /\ s > 0
        /\ db.mem \cap db.imm = {}
        /\ \A s \in Kept : s \in db.mem \cup db.imm \cup Stored(tables, db.version)
        /\ \A s \in Kept \cap db.mem : s \in Held(logs[db.logfile].cells, Whole(db.logfile))
        /\ \A s \in Solid \cap db.mem : s \in Held(logs[db.logfile].cells, logs[db.logfile].synced)
    BY DEF RunningOK
  <2>2. Stored(tables', db.version) = Stored(tables, db.version)
    <3>1. \A n \in db.version : n \in DOMAIN tables /\ n \in DOMAIN tables' /\ tables'[n] = tables[n]
      BY <1>2, <1>3, <1>1, <1>9 DEF TablesStay, FilesOK
    <3> QED BY <3>1, StoredSame
  <2>3. logs'[db.logfile] = logs[db.logfile] /\ Whole(db.logfile)' = Whole(db.logfile)
    BY <1>1, <1>4, <1>7 DEF Whole
  <2> QED BY <1>1, <1>2, <1>9, <1>10, <1>11, <2>1, <2>2, <2>3 DEF RunningOK
<1>16. JobOK'
  BY <1>11 DEF JobOK
<1>17. InstalledOK' /\ OpeningOK' /\ ReplayingOK' /\ RecoveredOK' /\ WrittenOK'
  BY DEF InstalledOK, OpeningOK, Opening, ReplayingOK, RecoveredOK, WrittenOK
<1> QED BY <1>12, <1>13, <1>14, <1>15, <1>16, <1>17

\* DeleteObsoleteFiles after a job ...
LEMMA CleanUpStep ==
    ASSUME IInv, CleanUp
    PROVE  IInv'
<1>1. mode = "open" /\ job.step = "applied"
  BY DEF IInv, JobOK, CleanUp
<1> QED BY <1>1, DeleteStep DEF CleanUp, Running, promise

\* ... and after the database has been opened.
LEMMA OpenedStep ==
    ASSUME IInv, Opened
    PROVE  IInv'
<1>1. job = Idle /\ job.step = "none"
  BY DEF IInv, JobOK, Opened, Idle
<1> QED BY <1>1, DeleteStep DEF Opened, Running, promise

\* Nobody writes until the database is open.
LEMMA NotOpen ==
    ASSUME IInv, mode # "open"
    PROVE  /\ job = Idle /\ pending = Nothing /\ job.step = "none" /\ job.kind = "none"
           /\ \A n : Whole(n) = Len(logs[n].cells)
<1>1. job = Idle /\ pending = Nothing
  BY DEF IInv, JobOK
<1> QED BY <1>1 DEF Idle, Whole

\* ... and nothing about jobs and writes changes.
LEMMA StillIdle ==
    ASSUME IInv, mode # "open", UNCHANGED << job, pending >>
    PROVE  /\ JobOK' /\ PendingOK'
           /\ \A n : Whole(n)' = Len(logs'[n].cells)
<1>1. job = Idle /\ pending = Nothing /\ job.step = "none"
  BY NotOpen
<1> QED BY <1>1 DEF JobOK, PendingOK, Whole

\* Every file the descriptor needs is there, so Recover does not fail.
LEMMA ReadDescriptorStep ==
    ASSUME IInv, ReadDescriptor
    PROVE  IInv'
<1> USE DEF IInv
<1>1. PICK last : last = LastEdit(Edits)
  OBVIOUS
<1>2. /\ mode = "closed" /\ logs' = logs /\ tables' = tables /\ manifests' = manifests
      /\ current' = current /\ pending' = pending /\ job' = job
      /\ acked' = acked /\ hard' = hard /\ spoilt' = spoilt
  BY DEF ReadDescriptor, disk, promise
<1>3. /\ Edits # << >> /\ last \in Edit /\ last.nextFile > current
      /\ last.logNumber < last.nextFile
      /\ \A n \in VersionOf(Edits) : n \in DOMAIN tables
      /\ VersionOf(Edits) \subseteq Nat /\ current \in Nat
  BY <1>1, StandingIs, EditTypes DEF FilesOK
<1>4. last.nextFile \in Nat /\ last.logNumber \in Nat /\ last.lastSeq \in Nat
  BY <1>3 DEF Edit
<1>5. last.nextFile # 0 /\ last.nextFile + 1 \in Nat /\ last.nextFile + 1 > last.nextFile
      /\ \A n \in Nat : n < last.logNumber => n < last.nextFile + 1
  BY <1>3, <1>4
<1>6. /\ mode' = "replaying"
      /\ db' = [Closed EXCEPT
              !.version = VersionOf(Edits), !.logNumber = last.logNumber,
              !.manifest = last.nextFile, !.nextFile = last.nextFile + 1,
              !.lastSeq = last.lastSeq, !.todo = LogsFrom(last.logNumber)]
  BY <1>1, <1>3, <1>5 DEF ReadDescriptor, Edits
<1>7. LogsFrom(last.logNumber) \subseteq Nat
  BY LogTypes DEF LogsFrom
<1>8. /\ db'.version = VersionOf(Edits) /\ db'.logNumber = last.logNumber
      /\ db'.manifest = last.nextFile /\ db'.nextFile = last.nextFile + 1
      /\ db'.lastSeq = last.lastSeq /\ db'.todo = LogsFrom(last.logNumber)
      /\ db'.mem = {} /\ db'.imm = {} /\ db'.edit = NoEdit /\ db'.offset = 0
      /\ db'.maxSeq = 0 /\ db'.logfile = 0
  BY <1>6 DEF Closed
<1>9. db' \in Memory
  <2>1. NoEdit \in Change /\ 0 \in 0..BlockSize
    BY LogFormatAssumption DEF NoEdit, Change
  <2> QED BY <1>3, <1>4, <1>5, <1>6, <1>7, <2>1 DEF Closed, Memory
<1>10. SameDescriptor /\ TablesStay /\ SyncedStays /\ Kept' = Kept /\ Solid' = Solid
  BY <1>2, NothingLost
<1>11. WholeStays
  <2>1. \A n : Whole(n)' = Whole(n)
    BY <1>2, NotOpen, StillIdle
  <2> QED BY <1>2, <2>1 DEF WholeStays
<1>12. /\ Edits' = Edits /\ Standing' = Standing /\ \A k : VersionAt(k)' = VersionAt(k)
  BY <1>10, DescriptorSame
<1>13. Typed'
  BY <1>2, <1>6, <1>9 DEF Typed, Modes
<1>14. FilesOK' /\ HardOK' /\ AckedOK'
  BY <1>10, <1>11, FilesStay, HardStays, AckedStays
<1>15. LogsOK' /\ LogfileOK' /\ RunningOK' /\ InstalledOK' /\ RecoveredOK' /\ WrittenOK'
  BY <1>2, <1>6
     DEF LogsOK, LogfileOK, Logging, RunningOK, Running, InstalledOK, RecoveredOK, WrittenOK
<1>16. JobOK' /\ PendingOK'
  BY <1>2, StillIdle
<1>17. OpeningOK'
  BY <1>1, <1>5, <1>8, <1>12 DEF OpeningOK, NoEdit
<1>18. ReplayingOK'
  <2>1. db'.edit.add = {} /\ Stored(tables', {}) = {}
    BY <1>8 DEF NoEdit, Stored
  <2>2. ASSUME NEW n \in DOMAIN logs, n \notin LogsFrom(last.logNumber)
        PROVE  n < last.logNumber /\ n < last.nextFile + 1 /\ ~(n >= last.logNumber)
    <3>1. ~(n >= last.logNumber) /\ n \in Nat
      BY <2>2, LogTypes DEF LogsFrom
    <3>2. n < last.logNumber
      BY <1>4, <3>1
    <3> QED BY <1>5, <3>1, <3>2
  <2>3. db'.todo \subseteq LogsFrom(db.logNumber)'
    BY <1>2, <1>8 DEF LogsFrom
  <2> QED BY <1>1, <1>2, <1>8, <1>12, <2>1, <2>2, <2>3 DEF ReplayingOK
<1> QED BY <1>13, <1>14, <1>15, <1>16, <1>17, <1>18

\* When all logs are replayed, what they held is in tables.
LEMMA CreateLogStep ==
    ASSUME IInv, CreateLog
    PROVE  IInv'
<1> USE DEF IInv
<1>1. PICK f, old :
      /\ f = db.nextFile /\ old = db.lastSeq
      /\ mode = "replaying" /\ mode' = "logging" /\ db.todo = {}
      /\ tables' = tables /\ manifests' = manifests /\ current' = current
      /\ pending' = pending /\ job' = job
      /\ acked' = acked /\ hard' = hard /\ spoilt' = spoilt
      /\ logs' = With(logs, f, EmptyLog)
      /\ db' = [db EXCEPT !.logfile = f, !.nextFile = f + 1, !.lastSeq = RecoveredSequence]
  BY DEF CreateLog, promise
<1>2. /\ f \in Nat /\ f + 1 \in Nat /\ f < f + 1 /\ old \in Nat /\ db.maxSeq \in Nat
      /\ db.manifest \in Nat /\ db.logNumber \in Nat
  <2>1. f \in Nat /\ old \in Nat /\ db.maxSeq \in Nat /\ db.manifest \in Nat /\ db.logNumber \in Nat
    BY <1>1, MemoryTypes
  <2> QED BY <2>1
<1>3. /\ db.version = VersionOf(Edits) /\ db.logNumber = LastEdit(Edits).logNumber
      /\ db.manifest = LastEdit(Edits).nextFile /\ f > db.manifest
      /\ db.mem = {} /\ db.imm = {} /\ db.edit.del = {} /\ db.offset = 0
      /\ \A n \in db.edit.add : n \in DOMAIN tables /\ n < f
  BY <1>1 DEF OpeningOK, Opening
<1>4. /\ old = LastEdit(Edits).lastSeq
      /\ \A n \in DOMAIN logs :
            /\ n < f
            /\ n >= db.logNumber =>
                  Held(logs[n].cells, Len(logs[n].cells)) \subseteq Stored(tables, db.edit.add)
      /\ \A s \in Stored(tables, db.edit.add) : s <= db.maxSeq
  BY <1>1 DEF ReplayingOK
<1>5. f \notin DOMAIN logs
  BY <1>2, <1>4
<1>6. /\ DOMAIN logs' = DOMAIN logs \cup {f} /\ DOMAIN logs' \subseteq Nat
      /\ logs'[f] = EmptyLog /\ \A n \in DOMAIN logs : logs'[n] = logs[n]
      /\ logs' \in [DOMAIN logs' -> Log]
      /\ \A n \in DOMAIN logs' : logs'[n].synced <= Len(logs'[n].cells)
      /\ LogsOK' /\ SyncedStays
  BY <1>1, <1>2, <1>5, NewLog
<1>7. RecoveredSequence \in Nat /\ old <= RecoveredSequence /\ db.maxSeq <= RecoveredSequence
  <2>1. {old, db.maxSeq} \in SUBSET Nat /\ old + db.maxSeq \in Nat
        /\ \A y \in {old, db.maxSeq} : y <= old + db.maxSeq
    BY <1>2
  <2>2. HighestOf({old, db.maxSeq}) \in Nat
        /\ \A y \in {old, db.maxSeq} : y <= HighestOf({old, db.maxSeq})
    BY <2>1, HighestIs
  <2> QED BY <1>1, <2>2 DEF RecoveredSequence
<1>8. /\ db'.logfile = f /\ db'.nextFile = f + 1 /\ db'.lastSeq = RecoveredSequence
      /\ db' \in Memory
      /\ db'.version = db.version /\ db'.logNumber = db.logNumber /\ db'.manifest = db.manifest
      /\ db'.mem = db.mem /\ db'.imm = db.imm /\ db'.offset = db.offset
      /\ db'.edit = db.edit /\ db'.todo = db.todo /\ db'.maxSeq = db.maxSeq
  BY <1>1, <1>2, <1>7 DEF Typed, Memory
<1>9. /\ \A n : Whole(n) = Len(logs[n].cells) /\ Whole(n)' = Len(logs'[n].cells)
      /\ JobOK' /\ PendingOK'
  BY <1>1, NotOpen, StillIdle
<1>10. SameDescriptor /\ TablesStay /\ Kept' = Kept /\ Solid' = Solid /\ WholeStays
  <2>1. WholeStays
    BY <1>6, <1>9 DEF WholeStays
  <2> QED BY <1>1, <2>1, NothingLost
<1>11. /\ Edits' = Edits /\ Standing' = Standing /\ \A k : VersionAt(k)' = VersionAt(k)
  BY <1>10, DescriptorSame
<1>12. Typed'
  BY <1>1, <1>6, <1>8 DEF Typed, Modes
<1>13. FilesOK' /\ HardOK' /\ AckedOK'
  BY <1>6, <1>10, FilesStay, HardStays, AckedStays
<1>14. LogfileOK'
  <2>1. \A n \in DOMAIN logs' : n < f + 1
    BY <1>2, <1>4, <1>6, LogTypes
  <2> QED BY <1>1, <1>3, <1>6, <1>8, <2>1, EmptyLogIs DEF LogfileOK, Logging
<1>15. OpeningOK'
  <2>1. \A n \in db.edit.add : n < f + 1
    BY <1>2, <1>3, TableTypes
  <2>2. f + 1 > db.manifest
    BY <1>2, <1>3
  <2> QED BY <1>1, <1>3, <1>8, <1>11, <2>1, <2>2 DEF OpeningOK
<1>16. RecoveredOK'
  <2>1. \A n \in VersionOf(Edits) : n \in DOMAIN tables /\ \A s \in tables[n] : s <= old
    BY <1>4, StandingIs DEF FilesOK
  <2>2. \A s \in Stored(tables, db.version) : s <= old
    BY <1>3, <2>1, StoredIs
  <2>3. Stored(tables, db.version \cup db.edit.add)
           = Stored(tables, db.version) \cup Stored(tables, db.edit.add)
    BY StoredUnion
  <2>4. \A s \in Stored(tables, db.version \cup db.edit.add) : s <= RecoveredSequence
    <3>1. \A s \in Nat : s <= old \/ s <= db.maxSeq => s <= RecoveredSequence
      BY <1>2, <1>7
    <3>2. Stored(tables, db.version \cup db.edit.add) \subseteq Nat
      BY TableTypes
    <3> QED BY <1>4, <2>2, <2>3, <3>1, <3>2
  <2>5. Kept \subseteq Stored(tables, db.version \cup db.edit.add)
    <3> SUFFICES ASSUME NEW s \in Kept
                 PROVE  s \in Stored(tables, db.version \cup db.edit.add)
      OBVIOUS
    <3>1. CASE s \in Stored(tables, VersionOf(Edits))
      BY <1>3, <2>3, <3>1
    <3>2. CASE InLogs(s, LastEdit(Edits).logNumber)
      <4>1. PICK n \in DOMAIN logs : n >= db.logNumber /\ s \in Held(logs[n].cells, Whole(n))
        BY <1>3, <3>2 DEF InLogs
      <4>2. s \in Stored(tables, db.edit.add)
        BY <1>4, <1>9, <4>1
      <4> QED BY <2>3, <4>2
    <3> QED BY <3>1, <3>2 DEF AckedOK
  <2> QED BY <1>1, <1>2, <1>8, <1>10, <2>4, <2>5 DEF RecoveredOK
<1>17. RunningOK' /\ InstalledOK' /\ ReplayingOK' /\ WrittenOK'
  BY <1>1 DEF RunningOK, Running, InstalledOK, ReplayingOK, WrittenOK
<1> QED BY <1>6, <1>9, <1>12, <1>13, <1>14, <1>15, <1>16, <1>17

\* While the database is being opened, what the descriptor needs is older than
\* the next file.
LEMMA OpeningIsNew ==
    ASSUME Typed, FilesOK, OpeningOK, Opening
    PROVE  /\ \A k \in Standing : \A n \in VersionAt(k) :
                 n \in Nat /\ n \in DOMAIN tables /\ n < db.nextFile
           /\ \A n \in db.version : n \in Nat /\ n \in DOMAIN tables /\ n < db.nextFile
           /\ db.manifest > current
<1>1. db.manifest = LastEdit(Edits).nextFile /\ db.manifest < db.nextFile
      /\ db.manifest \in Nat /\ db.nextFile \in Nat
  BY MemoryTypes DEF OpeningOK
<1>2. ASSUME NEW k \in Standing, NEW n \in VersionAt(k)
      PROVE  n \in Nat /\ n \in DOMAIN tables /\ n < db.nextFile
  <2>1. n \in DOMAIN tables /\ n < Edits[k].nextFile /\ Edits[k].nextFile <= db.manifest
    BY <1>1 DEF FilesOK
  <2>2. n \in Nat /\ Edits[k].nextFile \in Nat
    BY <2>1, TableTypes, EditTypes, StandingIs
  <2> HIDE DEF Edits
  <2> QED BY <1>1, <2>1, <2>2
<1>3. db.version = VersionAt(Len(Edits)) /\ Len(Edits) \in Standing
  BY StandingIs DEF OpeningOK
<1>4. LastEdit(Edits).nextFile > current
  BY StandingIs DEF FilesOK
<1> QED BY <1>1, <1>2, <1>3, <1>4

\* A log that is replayed: the numbers of its tables are above those of any version
\* that may be found, so none of them is written over.
LEMMA ReplayLogStep ==
    ASSUME IInv, ReplayLog
    PROVE  IInv'
<1> USE DEF IInv
<1> DEFINE records == ReadRecords(logs[Min(db.todo)].cells)
<1>1. PICK log, mems, f, top :
      /\ log = Min(db.todo) /\ mems = Memtables(records) /\ f = db.nextFile
      /\ top = HighestOf({r.seq : r \in Range(records)} \cup {db.maxSeq})
      /\ mode = "replaying" /\ mode' = mode /\ db.todo # {}
      /\ logs' = logs /\ manifests' = manifests /\ current' = current
      /\ pending' = pending /\ job' = job
      /\ acked' = acked /\ hard' = hard /\ spoilt' = spoilt
      /\ tables' = [n \in DOMAIN tables \cup {f + t - 1 : t \in DOMAIN mems} |->
                       IF n - f + 1 \in DOMAIN mems THEN mems[n - f + 1] ELSE tables[n]]
      /\ db' = [db EXCEPT
            !.todo = @ \ {log},
            !.edit.add = @ \cup {f + t - 1 : t \in DOMAIN mems},
            !.nextFile = MarkFileNumberUsed(f + Len(mems), log),
            !.maxSeq = top]
  BY DEF ReplayLog, promise
<1>2. /\ f \in Nat /\ db.todo \subseteq Nat /\ db.maxSeq \in Nat /\ db.edit \in Change
      /\ db.edit.add \subseteq Nat /\ db.logNumber \in Nat /\ db.manifest \in Nat
  BY <1>1, MemoryTypes
<1>3. /\ log \in db.todo /\ log \in Nat /\ log \in DOMAIN logs
      /\ db.todo \subseteq DOMAIN logs
  <2>1. log \in db.todo
    BY <1>1, <1>2, MinOfNats
  <2>2. db.todo \subseteq DOMAIN logs
    BY <1>1 DEF ReplayingOK, LogsFrom
  <2> QED BY <1>2, <2>1, <2>2
<1>4. /\ records \in Seq(Record) /\ SeqsOf(records) = Held(logs[log].cells, Len(logs[log].cells))
      /\ SeqsOf(records) \subseteq Nat \ {0}
  <2>1. logs[log].cells \in Seq(Cell) /\ Len(logs[log].cells) \in 0..Len(logs[log].cells)
    BY <1>3, LogTypes
  <2>2. records \in Seq(Record)
    BY <1>1, <2>1, TruncatedReads
  <2> QED BY <1>1, <2>1, <2>2, HeldOfAll, SeqsOfType
<1> HIDE DEF records
<1> DEFINE M == Len(mems)
           new == {f + t - 1 : t \in 1..M}
<1>5. /\ DOMAIN mems = 1..M /\ M \in Nat
      /\ \A t \in 1..M : mems[t] \subseteq SeqsOf(records)
      /\ SeqsOf(records) = UNION {mems[t] : t \in 1..M}
  BY <1>1, <1>4, MemtablesHold
<1> HIDE DEF M
<1>6. /\ top \in Nat /\ db.maxSeq <= top /\ \A s \in SeqsOf(records) : s <= top
  <2>1. PICK b \in Nat : \A s \in SeqsOf(records) : s <= b
    BY <1>4, SeqsAreBounded
  <2> DEFINE T == SeqsOf(records) \cup {db.maxSeq}
  <2>2. T \in SUBSET Nat /\ b + db.maxSeq \in Nat /\ \A y \in T : y <= b + db.maxSeq
    <3>1. \A y \in Nat : y <= b => y <= b + db.maxSeq
      BY <1>2, <2>1
    <3>2. db.maxSeq <= b + db.maxSeq /\ b + db.maxSeq \in Nat
      BY <1>2, <2>1
    <3> QED BY <1>2, <1>4, <2>1, <3>1, <3>2
  <2>3. top = HighestOf(T)
    BY <1>1, <1>4, SeqsOfIs
  <2> HIDE DEF T
  <2>4. HighestOf(T) \in Nat /\ \A y \in T : y <= HighestOf(T)
    BY <2>2, HighestIs
  <2> QED BY <2>3, <2>4 DEF T
<1>7. PICK next : next = MarkFileNumberUsed(f + M, log)
  OBVIOUS
<1>8. next \in Nat /\ f <= next /\ log < next /\ \A t \in 1..M : f + t - 1 < next
  BY <1>2, <1>3, <1>5, <1>7 DEF MarkFileNumberUsed
<1>9. new \subseteq Nat /\ \A n \in new : n < next /\ n >= f
  <2>1. \A t \in 1..M : f + t - 1 \in Nat /\ f + t - 1 >= f
    BY <1>2, <1>5
  <2> QED BY <1>8, <2>1
<1>10. /\ DOMAIN tables' = DOMAIN tables \cup new
       /\ \A n \in DOMAIN tables : n < f => tables'[n] = tables[n]
       /\ \A t \in 1..M : f + t - 1 \in new /\ tables'[f + t - 1] = mems[t]
       /\ \A n \in new : \E t \in 1..M : n = f + t - 1 /\ tables'[n] = mems[t]
       /\ \A n \in DOMAIN tables : n \notin new => tables'[n] = tables[n]
  <2>1. tables' = [n \in DOMAIN tables \cup new |->
                       IF n - f + 1 \in 1..M THEN mems[n - f + 1] ELSE tables[n]]
    BY <1>1, <1>5
  <2>2. \A t \in 1..M : (f + t - 1) - f + 1 = t
    BY <1>2, <1>5
  <2>3. \A n \in Nat : n < f => n - f + 1 \notin 1..M
    BY <1>2, <1>5
  <2>4. \A n \in Nat : n - f + 1 \in 1..M => n \in new
    <3>1. \A n \in Nat : n = f + (n - f + 1) - 1
      BY <1>2
    <3> QED BY <3>1
  <2>5. \A n \in DOMAIN tables : n \in Nat
    BY TableTypes
  <2>6. \A t \in 1..M : tables'[f + t - 1] = mems[t]
    <3> SUFFICES ASSUME NEW t \in 1..M PROVE tables'[f + t - 1] = mems[t]
      OBVIOUS
    <3>1. f + t - 1 \in new
      OBVIOUS
    <3> QED BY <2>1, <2>2, <3>1
  <2>7. \A n \in DOMAIN tables : n < f => tables'[n] = tables[n]
    BY <2>1, <2>3, <2>5
  <2>8. \A n \in DOMAIN tables : n \notin new => tables'[n] = tables[n]
    BY <2>1, <2>4, <2>5
  <2> QED BY <2>1, <2>6, <2>7, <2>8
<1>11. /\ db'.todo = db.todo \ {log} /\ db'.edit.add = db.edit.add \cup new
       /\ db'.edit.del = db.edit.del /\ db'.nextFile = next /\ db'.maxSeq = top
       /\ db' \in Memory
       /\ db'.version = db.version /\ db'.logNumber = db.logNumber /\ db'.manifest = db.manifest
       /\ db'.mem = db.mem /\ db'.imm = db.imm /\ db'.offset = db.offset
       /\ db'.lastSeq = db.lastSeq /\ db'.logfile = db.logfile
  <2>0. {f + t - 1 : t \in DOMAIN mems} = new
    BY <1>5
  <2> HIDE DEF new
  <2>1. PICK change : change = [add |-> db.edit.add \cup new, del |-> db.edit.del]
    OBVIOUS
  <2>2. change \in Change
    BY <1>2, <1>9, <2>1 DEF Change
  <2>3. [db.edit EXCEPT !.add = db.edit.add \cup new] = change
    <3>1. db.edit = [add |-> db.edit.add, del |-> db.edit.del]
      BY <1>2 DEF Change
    <3> QED BY <2>1, <3>1
  <2>4. db' = [db EXCEPT !.todo = db.todo \ {log}, !.edit.add = db.edit.add \cup new,
                         !.nextFile = next, !.maxSeq = top]
    BY <1>1, <1>7, <2>0, Zenon DEF M
  <2>5. db' = [db EXCEPT !.todo = db.todo \ {log}, !.edit = change,
                         !.nextFile = next, !.maxSeq = top]
    BY <2>3, <2>4
  <2>6. /\ db'.todo = db.todo \ {log} /\ db'.edit = change
        /\ db'.nextFile = next /\ db'.maxSeq = top /\ db' \in Memory
        /\ db'.version = db.version /\ db'.logNumber = db.logNumber /\ db'.manifest = db.manifest
        /\ db'.mem = db.mem /\ db'.imm = db.imm /\ db'.offset = db.offset
        /\ db'.lastSeq = db.lastSeq /\ db'.logfile = db.logfile
    BY <1>2, <1>6, <1>8, <2>2, <2>5 DEF Typed, Memory
  <2> QED BY <2>1, <2>6
<1> HIDE DEF new
<1>12. /\ db.version = VersionOf(Edits) /\ db.logNumber = LastEdit(Edits).logNumber
       /\ db.manifest = LastEdit(Edits).nextFile /\ f > db.manifest
       /\ db.mem = {} /\ db.imm = {} /\ db.edit.del = {} /\ db.offset = 0
       /\ \A n \in db.edit.add : n \in DOMAIN tables /\ n < f
       /\ \A k \in Standing : \A n \in VersionAt(k) : n \in DOMAIN tables /\ n < f
  BY <1>1, OpeningIsNew DEF OpeningOK, Opening
<1>13. /\ db.lastSeq = LastEdit(Edits).lastSeq
       /\ db.todo \subseteq LogsFrom(db.logNumber)
       /\ \A n \in DOMAIN logs \ db.todo :
             /\ n < f
             /\ n >= db.logNumber =>
                   Held(logs[n].cells, Len(logs[n].cells)) \subseteq Stored(tables, db.edit.add)
       /\ \A s \in Stored(tables, db.edit.add) : s <= db.maxSeq
  BY <1>1 DEF ReplayingOK
<1>14. TablesStay
  BY <1>10, <1>12 DEF TablesStay
<1>15. \A n : Whole(n) = Len(logs[n].cells) /\ Whole(n)' = Len(logs'[n].cells)
  BY <1>1, NotOpen, StillIdle
<1>16. SameDescriptor /\ SyncedStays /\ WholeStays /\ Kept' = Kept /\ Solid' = Solid
  <2>1. WholeStays
    BY <1>1, <1>15 DEF WholeStays
  <2> QED BY <1>1, <2>1, NothingLost
<1>17. Edits' = Edits
  BY <1>16, DescriptorSame
<1>18. Stored(tables', db.edit.add) = Stored(tables, db.edit.add)
       /\ Stored(tables', new) = SeqsOf(records)
       /\ Stored(tables', db'.edit.add) = Stored(tables, db.edit.add) \cup SeqsOf(records)
  <2>1. Stored(tables', db.edit.add) = Stored(tables, db.edit.add)
    <3>1. \A n \in db.edit.add : n \in DOMAIN tables /\ n \in DOMAIN tables' /\ tables'[n] = tables[n]
      BY <1>10, <1>12
    <3> QED BY <3>1, StoredSame
  <2>2. Stored(tables', new) = SeqsOf(records)
    <3>1. \A s : s \in Stored(tables', new) <=> \E n \in new : n \in DOMAIN tables' /\ s \in tables'[n]
      BY StoredIs
    <3>2. \A s : s \in SeqsOf(records) <=> \E t \in 1..M : s \in mems[t]
      BY <1>5
    <3>3. \A n \in new : n \in DOMAIN tables'
      BY <1>10
    <3>4. \A s : s \in Stored(tables', new) <=> s \in SeqsOf(records)
      BY <1>10, <3>1, <3>2, <3>3
    <3> QED BY <3>4
  <2> QED BY <1>11, <2>1, <2>2, StoredUnion
<1>19. Typed'
  <2>1. tables' \in [DOMAIN tables' -> SUBSET (Nat \ {0})] /\ DOMAIN tables' \subseteq Nat
    <3>1. \A n \in DOMAIN tables' : n \in Nat /\ tables'[n] \subseteq Nat \ {0}
      <4> SUFFICES ASSUME NEW n \in DOMAIN tables'
                   PROVE  n \in Nat /\ tables'[n] \subseteq Nat \ {0}
        OBVIOUS
      <4>1. CASE n \in new
        <5>1. PICK t \in 1..M : tables'[n] = mems[t]
          BY <1>10, <4>1
        <5> QED BY <1>4, <1>5, <1>9, <4>1, <5>1
      <4>2. CASE n \notin new
        <5>1. n \in DOMAIN tables /\ tables'[n] = tables[n]
          BY <1>10, <4>2
        <5> QED BY <5>1, TableTypes
      <4> QED BY <4>1, <4>2
    <3>2. tables' = [n \in DOMAIN tables' |-> tables'[n]]
      BY <1>1
    <3> QED BY <3>1, <3>2
  <2> QED BY <1>1, <1>11, <2>1 DEF Typed
<1>20. FilesOK' /\ HardOK' /\ AckedOK'
  BY <1>14, <1>16, FilesStay, HardStays, AckedStays
<1>21. LogsOK' /\ LogfileOK' /\ RunningOK' /\ InstalledOK' /\ RecoveredOK' /\ WrittenOK'
  BY <1>1 DEF LogsOK, LogfileOK, Logging, RunningOK, Running, InstalledOK, RecoveredOK, WrittenOK
<1>22. JobOK' /\ PendingOK'
  BY <1>1, StillIdle
<1>23. OpeningOK'
  <2>1. \A n \in db'.edit.add : n \in DOMAIN tables' /\ n < next
    <3>1. \A n \in Nat : n < f => n < next
      BY <1>2, <1>8
    <3> QED BY <1>2, <1>9, <1>10, <1>11, <1>12, <3>1
  <2>2. next > db.manifest
    BY <1>2, <1>8, <1>12
  <2> QED BY <1>11, <1>12, <1>17, <2>1, <2>2 DEF OpeningOK
<1>24. ReplayingOK'
  <2>1. db'.todo \subseteq LogsFrom(db.logNumber)'
    BY <1>1, <1>11, <1>13 DEF LogsFrom
  <2>2. ASSUME NEW n \in DOMAIN logs \ db'.todo
        PROVE  /\ n < next
               /\ n >= db.logNumber =>
                     Held(logs[n].cells, Len(logs[n].cells)) \subseteq Stored(tables', db'.edit.add)
    <3>1. CASE n = log
      BY <1>4, <1>8, <1>18, <3>1
    <3>2. CASE n # log
      <4>1. n \in DOMAIN logs \ db.todo /\ n \in Nat
        BY <1>11, <3>2, LogTypes
      <4>2. n < next
        BY <1>2, <1>8, <1>13, <4>1
      <4> QED BY <1>13, <1>18, <4>1, <4>2
    <3> QED BY <3>1, <3>2
  <2>3. \A s \in Stored(tables', db'.edit.add) : s <= top
    <3>1. \A s \in Nat : s <= db.maxSeq => s <= top
      BY <1>2, <1>6
    <3>2. Stored(tables, db.edit.add) \subseteq Nat
      BY TableTypes
    <3> QED BY <1>6, <1>13, <1>18, <3>1, <3>2
  <2> QED BY <1>1, <1>11, <1>13, <1>17, <2>1, <2>2, <2>3 DEF ReplayingOK
<1> QED BY <1>19, <1>20, <1>21, <1>22, <1>23, <1>24

\* The first descriptor of a database that is being opened.
LEMMA NewDescriptor ==
    ASSUME Typed
    PROVE  /\ Snapshot(db.version) \in Edit /\ RecoveryEdit \in Edit
           /\ << Snapshot(db.version), RecoveryEdit >> \in Seq(Edit)
           /\ Len(<< Snapshot(db.version), RecoveryEdit >>) = 2
           /\ << Snapshot(db.version), RecoveryEdit >>[2] = RecoveryEdit
           /\ VersionOf(<< Snapshot(db.version), RecoveryEdit >>) = db.version \cup db.edit.add
<1>1. Snapshot(db.version) \in Edit /\ RecoveryEdit \in Edit
  BY MemoryTypes DEF Snapshot, RecoveryEdit, Edit
<1>2. RecoveryEdit.del = {} /\ RecoveryEdit.add = db.edit.add /\ Snapshot(db.version).add = db.version
  BY DEF RecoveryEdit, Snapshot
<1> QED BY <1>1, <1>2, VersionOfTwo

\* The new descriptor is not the one CURRENT names, ...
LEMMA WriteDescriptorStep ==
    ASSUME IInv, WriteDescriptor
    PROVE  IInv'
<1> USE DEF IInv
<1>1. PICK m :
      /\ m = db.manifest /\ mode = "logging" /\ mode' = "written"
      /\ manifests' = With(manifests, m,
            [edits |-> << Snapshot(db.version), RecoveryEdit >>, synced |-> 0])
      /\ logs' = logs /\ tables' = tables /\ current' = current /\ db' = db
      /\ pending' = pending /\ job' = job
      /\ acked' = acked /\ hard' = hard /\ spoilt' = spoilt
  BY DEF WriteDescriptor, promise, Snapshot, RecoveryEdit
<1>2. m \in Nat /\ m # current /\ current \in Nat
  <2>1. m > current
    BY <1>1, OpeningIsNew DEF Opening
  <2> QED BY <1>1, <2>1, MemoryTypes, EditTypes
<1>3. /\ DOMAIN manifests' = DOMAIN manifests \cup {m}
      /\ manifests'[m] = [edits |-> << Snapshot(db.version), RecoveryEdit >>, synced |-> 0]
      /\ \A n \in DOMAIN manifests : n # m => manifests'[n] = manifests[n]
      /\ manifests' = [n \in DOMAIN manifests' |-> manifests'[n]]
  BY <1>1 DEF With
<1>4. /\ manifests'[m].edits = << Snapshot(db.version), RecoveryEdit >>
      /\ manifests'[m].synced = 0 /\ manifests'[m] \in Descriptor
      /\ manifests'[m].synced <= Len(manifests'[m].edits)
  BY <1>3, NewDescriptor DEF Descriptor
<1>5. SameDescriptor /\ TablesStay /\ SyncedStays /\ WholeStays /\ Kept' = Kept /\ Solid' = Solid
  <2>1. SameDescriptor
    BY <1>1, <1>2, <1>3 DEF SameDescriptor, Typed
  <2> QED BY <1>1, <2>1, NothingLost
<1>6. Edits' = Edits
  BY <1>5, DescriptorSame
<1>7. Typed'
  <2>1. manifests' \in [DOMAIN manifests' -> Descriptor] /\ DOMAIN manifests' \subseteq Nat
    BY <1>2, <1>3, <1>4 DEF Typed
  <2>2. \A n \in DOMAIN manifests' : manifests'[n].synced <= Len(manifests'[n].edits)
    BY <1>3, <1>4 DEF Typed
  <2> QED BY <1>1, <1>3, <2>1, <2>2 DEF Typed, Modes
<1>8. FilesOK' /\ HardOK' /\ AckedOK'
  BY <1>5, FilesStay, HardStays, AckedStays
<1>9. LogsOK' /\ LogfileOK' /\ RunningOK' /\ InstalledOK' /\ ReplayingOK'
  BY <1>1 DEF LogsOK, LogfileOK, Logging, RunningOK, Running, InstalledOK, ReplayingOK
<1>10. JobOK' /\ PendingOK'
  BY <1>1, StillIdle
<1>11. OpeningOK' /\ RecoveredOK'
  BY <1>1, <1>5, <1>6 DEF OpeningOK, Opening, RecoveredOK
<1>12. WrittenOK'
  <2>1. Snapshot(db.version)' = Snapshot(db.version) /\ RecoveryEdit' = RecoveryEdit
    BY <1>1 DEF Snapshot, RecoveryEdit
  <2> QED BY <1>1, <1>3, <1>4, <2>1 DEF WrittenOK
<1> QED BY <1>7, <1>8, <1>9, <1>10, <1>11, <1>12

\* ... nor when it is synced, ...
LEMMA SyncDescriptorStep ==
    ASSUME IInv, SyncDescriptor
    PROVE  IInv'
<1> USE DEF IInv
<1>1. PICK m :
      /\ m = db.manifest /\ mode = "written" /\ mode' = "synced"
      /\ manifests' = [manifests EXCEPT ![m].synced = 2]
      /\ logs' = logs /\ tables' = tables /\ current' = current /\ db' = db
      /\ pending' = pending /\ job' = job
      /\ acked' = acked /\ hard' = hard /\ spoilt' = spoilt
  BY DEF SyncDescriptor, promise
<1>2. m \in Nat /\ m # current /\ current \in Nat
  <2>1. m > current
    BY <1>1, OpeningIsNew DEF Opening
  <2> QED BY <1>1, <2>1, MemoryTypes, EditTypes
<1>3. m \in DOMAIN manifests /\ manifests[m].edits = << Snapshot(db.version), RecoveryEdit >>
      /\ manifests[m] \in Descriptor
  BY <1>1 DEF WrittenOK, Typed
<1>4. /\ DOMAIN manifests' = DOMAIN manifests
      /\ manifests'[m] = [edits |-> << Snapshot(db.version), RecoveryEdit >>, synced |-> 2]
      /\ \A n \in DOMAIN manifests : n # m => manifests'[n] = manifests[n]
  <2>1. manifests'[m] = [manifests[m] EXCEPT !.synced = 2]
    BY <1>1, <1>3, Zenon
  <2>2. manifests'[m] = [edits |-> manifests[m].edits, synced |-> 2]
    BY <1>3, <2>1 DEF Descriptor
  <2> QED BY <1>1, <1>3, <2>2
<1>5. /\ manifests'[m].edits = << Snapshot(db.version), RecoveryEdit >>
      /\ manifests'[m].synced = 2 /\ manifests'[m] \in Descriptor
      /\ manifests'[m].synced <= Len(manifests'[m].edits)
  BY <1>4, NewDescriptor DEF Descriptor
<1>6. SameDescriptor /\ TablesStay /\ SyncedStays /\ WholeStays /\ Kept' = Kept /\ Solid' = Solid
  <2>1. SameDescriptor
    BY <1>1, <1>2, <1>4 DEF SameDescriptor, Typed
  <2> QED BY <1>1, <2>1, NothingLost
<1>7. Edits' = Edits
  BY <1>6, DescriptorSame
<1>8. Typed'
  <2>1. manifests' \in [DOMAIN manifests' -> Descriptor]
    BY <1>1, <1>4, <1>5 DEF Typed
  <2>2. \A n \in DOMAIN manifests' : manifests'[n].synced <= Len(manifests'[n].edits)
    BY <1>4, <1>5 DEF Typed
  <2> QED BY <1>1, <1>4, <2>1, <2>2 DEF Typed, Modes
<1>9. FilesOK' /\ HardOK' /\ AckedOK'
  BY <1>6, FilesStay, HardStays, AckedStays
<1>10. LogsOK' /\ LogfileOK' /\ RunningOK' /\ InstalledOK' /\ ReplayingOK'
  BY <1>1 DEF LogsOK, LogfileOK, Logging, RunningOK, Running, InstalledOK, ReplayingOK
<1>11. JobOK' /\ PendingOK'
  BY <1>1, StillIdle
<1>12. OpeningOK' /\ RecoveredOK'
  BY <1>1, <1>6, <1>7 DEF OpeningOK, Opening, RecoveredOK
<1>13. WrittenOK'
  <2>1. Snapshot(db.version)' = Snapshot(db.version) /\ RecoveryEdit' = RecoveryEdit
    BY <1>1 DEF Snapshot, RecoveryEdit
  <2> QED BY <1>1, <1>3, <1>4, <1>5, <2>1 DEF WrittenOK
<1> QED BY <1>8, <1>9, <1>10, <1>11, <1>12, <1>13

\* ... and when CURRENT names it, the version it makes holds all that was promised.
LEMMA SetCurrentFileStep ==
    ASSUME IInv, SetCurrentFile
    PROVE  IInv'
<1> USE DEF IInv
<1> DEFINE E == << Snapshot(db.version), RecoveryEdit >>
           all == db.version \cup db.edit.add
<1>1. PICK m, f, next, last :
      /\ m = db.manifest /\ f = db.logfile /\ next = db.nextFile /\ last = db.lastSeq
      /\ mode = "synced" /\ mode' = "installed" /\ current' = m
      /\ db' = [db EXCEPT !.version = all, !.logNumber = f, !.edit = NoEdit]
      /\ logs' = logs /\ tables' = tables /\ manifests' = manifests
      /\ pending' = pending /\ job' = job
      /\ acked' = acked /\ hard' = acked /\ spoilt' = spoilt
  BY DEF SetCurrentFile
<1>2. /\ E \in Seq(Edit) /\ Len(E) = 2 /\ E[2] = RecoveryEdit /\ RecoveryEdit \in Edit
      /\ VersionOf(E) = all
      /\ RecoveryEdit.nextFile = next /\ RecoveryEdit.lastSeq = last /\ RecoveryEdit.logNumber = f
  BY <1>1, NewDescriptor DEF RecoveryEdit
<1>3. m \in DOMAIN manifests /\ manifests[m].edits = E /\ manifests[m].synced = 2
  BY <1>1 DEF WrittenOK
<1>4. /\ m \in Nat /\ f \in Nat /\ next \in Nat /\ last \in Nat /\ all \subseteq Nat
      /\ NoEdit \in Change
  BY <1>1, MemoryTypes DEF NoEdit, Change
<1>5. /\ db.version = VersionOf(Edits) /\ next > m
      /\ db.mem = {} /\ db.imm = {}
      /\ \A n \in db.edit.add : n \in DOMAIN tables /\ n < next
      /\ \A n \in db.version : n \in DOMAIN tables /\ n < next
  BY <1>1, OpeningIsNew DEF OpeningOK, Opening
<1>6. /\ f < next /\ \A s \in Stored(tables, all) : s <= last
      /\ Kept \subseteq Stored(tables, all)
  BY <1>1 DEF RecoveredOK
<1> HIDE DEF E, all
<1>7. /\ db'.version = all /\ db'.logNumber = f /\ db'.edit = NoEdit
      /\ db' \in Memory
      /\ db'.manifest = m /\ db'.nextFile = next /\ db'.lastSeq = last /\ db'.logfile = f
      /\ db'.mem = db.mem /\ db'.imm = db.imm /\ db'.offset = db.offset
      /\ db'.todo = db.todo /\ db'.maxSeq = db.maxSeq
  BY <1>1, <1>4 DEF Typed, Memory
<1>8. Edits' = E /\ manifests'[current'].synced = 2 /\ Standing' = {2}
      /\ VersionOf(Edits') = all /\ VersionAt(2)' = all /\ LastEdit(Edits') = RecoveryEdit
  <2>1. Edits' = E /\ manifests'[current'].synced = 2
    BY <1>1, <1>3 DEF Edits
  <2>2. Standing' = 2..2
    BY <1>2, <2>1 DEF Standing
  <2>3. 2..2 = {2}
    OBVIOUS
  <2>4. SubSeq(E, 1, 2) = E
    BY <1>2, SubSeqFull
  <2> QED BY <1>2, <2>1, <2>2, <2>3, <2>4 DEF VersionAt, LastEdit
<1>9. Kept' = Kept /\ Solid' \subseteq Kept
  BY <1>1 DEF Kept, Solid
<1>10. \A n \in all : n \in DOMAIN tables /\ n < next /\ \A s \in tables[n] : s <= last
  <2>1. \A n \in all : n \in DOMAIN tables /\ n < next
    BY <1>5 DEF all
  <2>2. \A n \in all : \A s \in tables[n] : s \in Stored(tables, all)
    BY <2>1, StoredIs
  <2> QED BY <1>6, <2>1, <2>2
<1>11. Typed'
  BY <1>1, <1>3, <1>7 DEF Typed, Modes
<1>12. FilesOK'
  <2>1. next <= next /\ 2 >= 1
    BY <1>4
  <2> QED BY <1>1, <1>2, <1>5, <1>6, <1>8, <1>10, <2>1 DEF FilesOK
<1>13. HardOK' /\ AckedOK'
  BY <1>1, <1>6, <1>8, <1>9 DEF HardOK, AckedOK
<1>14. LogsOK' /\ LogfileOK' /\ OpeningOK' /\ ReplayingOK' /\ RecoveredOK' /\ WrittenOK'
  BY <1>1, <1>7 DEF LogsOK, LogfileOK, Logging, OpeningOK, Opening, ReplayingOK, RecoveredOK, WrittenOK
<1>15. JobOK' /\ PendingOK' /\ job.step = "none"
  BY <1>1, StillIdle, NotOpen
<1>16. InstalledOK'
  BY <1>5, <1>7 DEF InstalledOK
<1>17. RunningOK'
  <2>1. \A s \in Stored(tables, all) : s <= last /\ s > 0
    <3>1. Stored(tables, all) \subseteq Nat \ {0}
      BY TableTypes
    <3>2. \A s \in Nat \ {0} : s > 0
      OBVIOUS
    <3> QED BY <1>6, <3>1, <3>2
  <2>2. next <= next /\ f <= f
    BY <1>4
  <2> QED BY <1>1, <1>2, <1>5, <1>6, <1>7, <1>8, <1>9, <1>15, <2>1, <2>2 DEF RunningOK
<1> QED BY <1>11, <1>12, <1>13, <1>14, <1>15, <1>16, <1>17

\* A process that has not begun.
LEMMA Restarted ==
    ASSUME db' = Closed, pending' = Nothing, job' = Idle, mode' = "closed"
    PROVE  /\ db' \in Memory /\ pending' \in Batch /\ job' \in Job /\ mode' \in Modes
           /\ LogfileOK' /\ PendingOK' /\ RunningOK' /\ InstalledOK' /\ JobOK' /\ OpeningOK'
           /\ ReplayingOK' /\ RecoveredOK' /\ WrittenOK'
           /\ \A n : Whole(n)' = Len(logs'[n].cells)
<1>1. db' \in Memory
  BY LogFormatAssumption DEF Closed, Memory, NoEdit, Change
<1>2. pending' \in Batch /\ job' \in Job /\ mode' \in Modes
  BY DEF Nothing, Batch, Idle, Job, NoEdit, Change, Modes
<1>3. /\ LogfileOK' /\ PendingOK' /\ RunningOK' /\ InstalledOK' /\ OpeningOK'
      /\ ReplayingOK' /\ RecoveredOK' /\ WrittenOK'
  BY DEF LogfileOK, Logging, PendingOK, RunningOK, Running, InstalledOK, OpeningOK, Opening,
         ReplayingOK, RecoveredOK, WrittenOK
<1>4. JobOK'
  BY DEF JobOK, Idle
<1>5. \A n : Whole(n)' = Len(logs'[n].cells)
  BY DEF Whole
<1> QED BY <1>1, <1>2, <1>3, <1>4, <1>5

\* A log cut short: what it held up to there it holds, and it reads back.
LEMMA CutLog ==
    ASSUME NEW cells \in Seq(Cell), NEW c \in 0..Len(cells), NEW records \in Seq(Record)
    PROVE  /\ SubSeq(cells, 1, c) \in Seq(Cell) /\ Len(SubSeq(cells, 1, c)) = c
           /\ \A m \in 0..c : /\ Held(SubSeq(cells, 1, c), m) = Held(cells, m)
                              /\ Held(cells, m) \subseteq Held(SubSeq(cells, 1, c), c)
           /\ Begins(ReadRecords(cells), records)
                 => Begins(ReadRecords(SubSeq(cells, 1, c)), records)
<1>1. SubSeq(cells, 1, c) \in Seq(Cell) /\ Len(SubSeq(cells, 1, c)) = c
  BY CutIsSeq
<1>2. ASSUME NEW m \in 0..c
      PROVE  /\ Held(SubSeq(cells, 1, c), m) = Held(cells, m)
             /\ Held(cells, m) \subseteq Held(SubSeq(cells, 1, c), c)
  <2>1. c \in 0..c
    OBVIOUS
  <2>2. Held(SubSeq(cells, 1, c), m) = Held(cells, m) /\ Held(SubSeq(cells, 1, c), c) = Held(cells, c)
    BY <2>1, HeldOfCut
  <2>3. Held(cells, m) \subseteq Held(cells, c)
    BY HeldGrows
  <2> QED BY <2>2, <2>3
<1>3. /\ ReadRecords(cells) \in Seq(Record) /\ ReadRecords(SubSeq(cells, 1, c)) \in Seq(Record)
      /\ Begins(ReadRecords(SubSeq(cells, 1, c)), ReadRecords(cells))
  BY TruncatedReads
<1>4. Begins(ReadRecords(cells), records) => Begins(ReadRecords(SubSeq(cells, 1, c)), records)
  BY <1>3, BeginsOrder
<1> QED BY <1>1, <1>2, <1>4

\* The process dies: a log loses at most the batch that was being written.
LEMMA ProcessCrashStep ==
    ASSUME IInv, ProcessCrash
    PROVE  IInv'
<1> USE DEF IInv
<1>1. /\ db' = Closed /\ pending' = Nothing /\ job' = Idle /\ mode' = "closed"
      /\ tables' = tables /\ current' = current /\ manifests' = manifests
      /\ acked' = acked /\ hard' = hard /\ spoilt' = spoilt
  BY DEF ProcessCrash, Restart, promise
<1>2. /\ db' \in Memory /\ pending' \in Batch /\ job' \in Job /\ mode' \in Modes
      /\ LogfileOK' /\ PendingOK' /\ RunningOK' /\ InstalledOK' /\ JobOK' /\ OpeningOK'
      /\ ReplayingOK' /\ RecoveredOK' /\ WrittenOK'
      /\ \A n : Whole(n)' = Len(logs'[n].cells)
  BY <1>1, Restarted
\* What a log is cut to.
<1>3. /\ DOMAIN logs' = DOMAIN logs /\ logs' = [n \in DOMAIN logs |-> logs'[n]]
      /\ \A n \in DOMAIN logs : \E c \in Whole(n)..Len(logs[n].cells) :
            /\ logs'[n].cells = SubSeq(logs[n].cells, 1, c) /\ logs'[n].synced = logs[n].synced
            /\ logs'[n].records = logs[n].records /\ logs'[n].torn = logs[n].torn
            /\ logs'[n] \in [cells : {SubSeq(logs[n].cells, 1, c)}, synced : Nat,
                             records : Seq(Record), torn : BOOLEAN]
  <2>1. CASE pending = Nothing
    <3>1. logs' = logs
      BY <2>1 DEF ProcessCrash
    <3>2. ASSUME NEW n \in DOMAIN logs
          PROVE  /\ Len(logs[n].cells) \in Whole(n)..Len(logs[n].cells)
                 /\ SubSeq(logs[n].cells, 1, Len(logs[n].cells)) = logs[n].cells
                 /\ logs[n] \in [cells : {logs[n].cells}, synced : Nat,
                                 records : Seq(Record), torn : BOOLEAN]
      <4>1. Whole(n) = Len(logs[n].cells)
        BY <2>1 DEF Whole
      <4>2. logs[n].cells \in Seq(Cell) /\ Len(logs[n].cells) \in Nat /\ logs[n] \in Log
        BY LogTypes
      <4>3. SubSeq(logs[n].cells, 1, Len(logs[n].cells)) = logs[n].cells
        BY <4>2, SubSeqFull
      <4>4. logs[n] \in [cells : {logs[n].cells}, synced : Nat, records : Seq(Record), torn : BOOLEAN]
        BY <4>2 DEF Log
      <4>5. Len(logs[n].cells) \in Len(logs[n].cells)..Len(logs[n].cells)
        BY <4>2
      <4> QED BY <4>1, <4>3, <4>4, <4>5
    <3>3. logs = [n \in DOMAIN logs |-> logs[n]]
      BY DEF Typed
    <3> QED BY <3>1, <3>2, <3>3
  <2>2. CASE pending # Nothing
    <3>1. PICK f : f = db.logfile
      OBVIOUS
    <3>2. f \in DOMAIN logs /\ mode = "open"
      BY <2>2, <3>1 DEF PendingOK, LogfileOK, Logging
    <3>3. PICK c \in pending.from..Len(logs[f].cells) :
             logs' = [logs EXCEPT ![f].cells = SubSeq(@, 1, c)]
      BY <2>2, <3>1 DEF ProcessCrash
    <3>4. Whole(f) = pending.from /\ \A n \in DOMAIN logs : n # f => Whole(n) = Len(logs[n].cells)
      BY <2>2, <3>1 DEF Whole
    <3>5. logs'[f] = [cells |-> SubSeq(logs[f].cells, 1, c), synced |-> logs[f].synced,
                      records |-> logs[f].records, torn |-> logs[f].torn]
      BY <3>2, <3>3 DEF Typed, Log
    <3>6. DOMAIN logs' = DOMAIN logs /\ \A n \in DOMAIN logs : n # f => logs'[n] = logs[n]
      BY <3>3
    <3>7. ASSUME NEW n \in DOMAIN logs
          PROVE  \E d \in Whole(n)..Len(logs[n].cells) :
                   /\ logs'[n].cells = SubSeq(logs[n].cells, 1, d) /\ logs'[n].synced = logs[n].synced
                   /\ logs'[n].records = logs[n].records /\ logs'[n].torn = logs[n].torn
                   /\ logs'[n] \in [cells : {SubSeq(logs[n].cells, 1, d)}, synced : Nat,
                                    records : Seq(Record), torn : BOOLEAN]
      <4>1. /\ logs[n].cells \in Seq(Cell) /\ Len(logs[n].cells) \in Nat /\ logs[n] \in Log
            /\ logs[n].synced \in Nat /\ logs[n].records \in Seq(Record) /\ logs[n].torn \in BOOLEAN
        BY LogTypes
      <4>2. CASE n = f
        <5>1. logs'[f] \in [cells : {SubSeq(logs[f].cells, 1, c)}, synced : Nat,
                            records : Seq(Record), torn : BOOLEAN]
          BY <3>5, <4>1, <4>2
        <5> QED BY <3>4, <3>5, <4>2, <5>1
      <4>3. CASE n # f
        <5>1. SubSeq(logs[n].cells, 1, Len(logs[n].cells)) = logs[n].cells
          BY <4>1, SubSeqFull
        <5>2. logs[n] \in [cells : {logs[n].cells}, synced : Nat, records : Seq(Record), torn : BOOLEAN]
          BY <4>1 DEF Log
        <5>3. Len(logs[n].cells) \in Len(logs[n].cells)..Len(logs[n].cells)
          BY <4>1
        <5> QED BY <3>4, <3>6, <4>3, <5>1, <5>2, <5>3
      <4> QED BY <4>2, <4>3
    <3>8. logs' = [n \in DOMAIN logs |-> logs'[n]]
      BY <3>3, <3>6
    <3> QED BY <3>6, <3>7, <3>8
  <2> QED BY <2>1, <2>2
<1>4. ASSUME NEW n \in DOMAIN logs
      PROVE  /\ logs'[n] \in Log /\ logs'[n].synced <= Len(logs'[n].cells)
             /\ logs'[n].records = logs[n].records /\ logs'[n].torn = logs[n].torn
             /\ Held(logs[n].cells, logs[n].synced) \subseteq Held(logs'[n].cells, logs'[n].synced)
             /\ Held(logs[n].cells, Whole(n)) \subseteq Held(logs'[n].cells, Len(logs'[n].cells))
             /\ Begins(ReadRecords(logs[n].cells), logs[n].records)
                   => Begins(ReadRecords(logs'[n].cells), logs'[n].records)
  <2>1. PICK c \in Whole(n)..Len(logs[n].cells) :
            /\ logs'[n].cells = SubSeq(logs[n].cells, 1, c) /\ logs'[n].synced = logs[n].synced
            /\ logs'[n].records = logs[n].records /\ logs'[n].torn = logs[n].torn
            /\ logs'[n] \in [cells : {SubSeq(logs[n].cells, 1, c)}, synced : Nat,
                             records : Seq(Record), torn : BOOLEAN]
    BY <1>3
  <2>2. /\ logs[n].cells \in Seq(Cell) /\ Len(logs[n].cells) \in Nat
        /\ logs[n].synced \in Nat /\ logs[n].records \in Seq(Record)
    BY LogTypes
  <2>3. Whole(n) \in Nat /\ logs[n].synced <= Whole(n)
    BY WholeType
  <2>4. c \in 0..Len(logs[n].cells) /\ Whole(n) \in 0..c /\ logs[n].synced \in 0..c
        /\ logs[n].synced <= c
    BY <2>2, <2>3
  <2>5. /\ SubSeq(logs[n].cells, 1, c) \in Seq(Cell) /\ Len(SubSeq(logs[n].cells, 1, c)) = c
        /\ \A m \in 0..c :
              /\ Held(SubSeq(logs[n].cells, 1, c), m) = Held(logs[n].cells, m)
              /\ Held(logs[n].cells, m) \subseteq Held(SubSeq(logs[n].cells, 1, c), c)
        /\ Begins(ReadRecords(logs[n].cells), logs[n].records)
              => Begins(ReadRecords(SubSeq(logs[n].cells, 1, c)), logs[n].records)
    BY <2>2, <2>4, CutLog
  <2>6. logs'[n] \in Log
    BY <2>1, <2>5 DEF Log
  <2> QED BY <2>1, <2>4, <2>5, <2>6
<1>5. SameDescriptor /\ TablesStay /\ Kept' = Kept /\ Solid' = Solid
  BY <1>1, NothingLost
<1>6. SyncedStays /\ WholeStays
  <2>1. SyncedStays
    BY <1>3, <1>4 DEF SyncedStays
  <2>2. WholeStays
    BY <1>2, <1>3, <1>4 DEF WholeStays
  <2> QED BY <2>1, <2>2
<1>7. Typed'
  <2>1. logs' \in [DOMAIN logs' -> Log]
    BY <1>3, <1>4
  <2> QED BY <1>1, <1>2, <1>3, <1>4, <2>1 DEF Typed
<1>8. FilesOK' /\ HardOK' /\ AckedOK'
  BY <1>5, <1>6, FilesStay, HardStays, AckedStays
<1>9. LogsOK'
  BY <1>3, <1>4 DEF LogsOK
<1> QED BY <1>2, <1>7, <1>8, <1>9

\* What is lost was not synced.
LEMMA LossesLeave ==
    ASSUME NEW length, NEW synced, NEW lost \in Losses(length, synced), NEW n \in DOMAIN length,
           length[n] \in Nat, synced[n] \in 0..length[n]
    PROVE  /\ length[n] - lost[n] \in synced[n]..length[n]
           /\ length[n] - lost[n] \in Nat
<1>1. lost \in [DOMAIN length -> 0..HighestOf({length[k] - synced[k] : k \in DOMAIN length})]
      /\ lost[n] <= length[n] - synced[n]
  BY DEF Losses
<1>2. lost[n] \in 0..HighestOf({length[k] - synced[k] : k \in DOMAIN length})
  BY <1>1
<1>3. lost[n] \in Nat
  <2> DEFINE h == HighestOf({length[k] - synced[k] : k \in DOMAIN length})
  <2> HIDE DEF h
  <2>1. \A x : x \in 0..h => x \in Nat
    OBVIOUS
  <2> QED BY <1>2, <2>1 DEF h
<1> QED BY <1>1, <1>3

\* The machine dies: what is left of a descriptor ends with an edit that could be the
\* last, and of a log with what was synced or more.
LEMMA MachineCrashStep ==
    ASSUME IInv, MachineCrash
    PROVE  IInv'
<1> USE DEF IInv
<1>1. /\ db' = Closed /\ pending' = Nothing /\ job' = Idle /\ mode' = "closed"
      /\ tables' = tables /\ current' = current
      /\ acked' = hard /\ hard' = hard /\ spoilt' = spoilt
  BY DEF MachineCrash, Restart
<1>2. /\ db' \in Memory /\ pending' \in Batch /\ job' \in Job /\ mode' \in Modes
      /\ LogfileOK' /\ PendingOK' /\ RunningOK' /\ InstalledOK' /\ JobOK' /\ OpeningOK'
      /\ ReplayingOK' /\ RecoveredOK' /\ WrittenOK'
      /\ \A n : Whole(n)' = Len(logs'[n].cells)
  BY <1>1, Restarted
<1> DEFINE cells == [n \in DOMAIN logs |-> Len(logs[n].cells)]
           synced == [n \in DOMAIN logs |-> logs[n].synced]
           edits == [n \in DOMAIN manifests |-> Len(manifests[n].edits)]
           firm == [n \in DOMAIN manifests |-> manifests[n].synced]
<1>3. PICK lost \in Losses(cells, synced) :
         logs' = [n \in DOMAIN logs |->
                    [cells |-> SubSeq(logs[n].cells, 1, cells[n] - lost[n]),
                     synced |-> cells[n] - lost[n],
                     records |-> logs[n].records, torn |-> logs[n].torn]]
  BY DEF MachineCrash
<1>4. PICK gone \in Losses(edits, firm) :
         manifests' = [n \in DOMAIN manifests |->
                         [edits |-> SubSeq(manifests[n].edits, 1, edits[n] - gone[n]),
                          synced |-> edits[n] - gone[n]]]
  BY DEF MachineCrash
<1>5. ASSUME NEW n \in DOMAIN logs
      PROVE  /\ logs'[n] \in Log /\ logs'[n].synced <= Len(logs'[n].cells)
             /\ logs'[n].records = logs[n].records /\ logs'[n].torn = logs[n].torn
             /\ Held(logs[n].cells, logs[n].synced) \subseteq Held(logs'[n].cells, logs'[n].synced)
             /\ logs'[n].synced = Len(logs'[n].cells)
             /\ Begins(ReadRecords(logs[n].cells), logs[n].records)
                   => Begins(ReadRecords(logs'[n].cells), logs'[n].records)
  <2>1. PICK c : c = cells[n] - lost[n]
    OBVIOUS
  <2>2. /\ logs[n].cells \in Seq(Cell) /\ Len(logs[n].cells) \in Nat
        /\ logs[n].synced \in 0..Len(logs[n].cells) /\ logs[n].records \in Seq(Record)
        /\ logs[n].torn \in BOOLEAN /\ logs[n].synced \in Nat
    BY LogTypes
  <2>3. cells[n] = Len(logs[n].cells) /\ synced[n] = logs[n].synced /\ n \in DOMAIN cells
    OBVIOUS
  <2>4. c \in logs[n].synced..Len(logs[n].cells) /\ c \in Nat
    <3> HIDE DEF cells, synced
    <3> QED BY <2>1, <2>2, <2>3, LossesLeave
  <2>5. logs'[n] = [cells |-> SubSeq(logs[n].cells, 1, c), synced |-> c,
                    records |-> logs[n].records, torn |-> logs[n].torn]
    BY <1>3, <2>1
  <2>6. c \in 0..Len(logs[n].cells) /\ logs[n].synced \in 0..c /\ c <= c
    BY <2>2, <2>4
  <2>7. /\ SubSeq(logs[n].cells, 1, c) \in Seq(Cell) /\ Len(SubSeq(logs[n].cells, 1, c)) = c
        /\ \A m \in 0..c :
              /\ Held(SubSeq(logs[n].cells, 1, c), m) = Held(logs[n].cells, m)
              /\ Held(logs[n].cells, m) \subseteq Held(SubSeq(logs[n].cells, 1, c), c)
        /\ Begins(ReadRecords(logs[n].cells), logs[n].records)
              => Begins(ReadRecords(SubSeq(logs[n].cells, 1, c)), logs[n].records)
    BY <2>2, <2>6, CutLog
  <2>8. logs'[n] \in Log
    BY <2>2, <2>4, <2>5, <2>7 DEF Log
  <2> HIDE DEF cells, synced
  <2> QED BY <2>5, <2>6, <2>7, <2>8
<1>6. ASSUME NEW n \in DOMAIN manifests
      PROVE  \E k \in manifests[n].synced..Len(manifests[n].edits) :
                /\ manifests'[n] = [edits |-> SubSeq(manifests[n].edits, 1, k), synced |-> k]
                /\ k \in Nat
  <2>1. PICK k : k = edits[n] - gone[n]
    OBVIOUS
  <2>2. manifests[n] \in Descriptor /\ manifests[n].synced <= Len(manifests[n].edits)
    BY DEF Typed
  <2>3. manifests[n].edits \in Seq(Edit) /\ manifests[n].synced \in Nat
    BY <2>2 DEF Descriptor
  <2>4. Len(manifests[n].edits) \in Nat
    BY <2>3
  <2>5. manifests[n].synced \in 0..Len(manifests[n].edits)
    BY <2>2, <2>3, <2>4
  <2>6. edits[n] = Len(manifests[n].edits) /\ firm[n] = manifests[n].synced /\ n \in DOMAIN edits
    OBVIOUS
  <2>7. k \in manifests[n].synced..Len(manifests[n].edits) /\ k \in Nat
    <3> HIDE DEF edits, firm
    <3> QED BY <2>1, <2>4, <2>5, <2>6, LossesLeave
  <2>8. manifests'[n] = [edits |-> SubSeq(manifests[n].edits, 1, k), synced |-> k]
    BY <1>4, <2>1
  <2> QED BY <2>7, <2>8
<1>7. /\ DOMAIN logs' = DOMAIN logs /\ logs' = [n \in DOMAIN logs |-> logs'[n]]
      /\ DOMAIN manifests' = DOMAIN manifests
      /\ manifests' = [n \in DOMAIN manifests |-> manifests'[n]]
  BY <1>3, <1>4
<1> HIDE DEF cells, synced, edits, firm
<1>8. ASSUME NEW n \in DOMAIN manifests
      PROVE  manifests'[n] \in Descriptor /\ manifests'[n].synced <= Len(manifests'[n].edits)
  <2>1. PICK k \in manifests[n].synced..Len(manifests[n].edits) :
           /\ manifests'[n] = [edits |-> SubSeq(manifests[n].edits, 1, k), synced |-> k]
           /\ k \in Nat
    BY <1>6
  <2>2. manifests[n].edits \in Seq(Edit) /\ Len(manifests[n].edits) \in Nat
    <3>1. manifests[n] \in Descriptor
      BY DEF Typed
    <3> QED BY <3>1 DEF Descriptor
  <2>3. \A i \in 1..k : manifests[n].edits[i] \in Edit
    <3>1. \A i \in 1..k : i \in 1..Len(manifests[n].edits)
      BY <2>1, <2>2
    <3> QED BY <2>2, <3>1, ElementOfSeq
  <2>4. SubSeq(manifests[n].edits, 1, k) \in Seq(Edit) /\ Len(SubSeq(manifests[n].edits, 1, k)) = k
    BY <2>1, <2>3, SubSeqProperties
  <2>5. k <= k
    BY <2>1
  <2> QED BY <2>1, <2>4, <2>5 DEF Descriptor
<1>9. PICK k \in Standing :
         /\ manifests'[current] = [edits |-> SubSeq(Edits, 1, k), synced |-> k] /\ k \in Nat
  BY <1>6 DEF Standing, Edits, Typed
<1>10. k \in 1..Len(Edits) /\ Edits \in Seq(Edit) /\ Len(Edits) \in Nat /\ Edits[k] \in Edit
  BY StandingIs, EditTypes
<1>11. /\ SubSeq(Edits, 1, k) \in Seq(Edit) /\ Len(SubSeq(Edits, 1, k)) = k
       /\ SubSeq(Edits, 1, k)[k] = Edits[k] /\ k >= 1
  <2> HIDE DEF Edits
  <2>1. \A i \in 1..k : Edits[i] \in Edit
    <3>1. \A i \in 1..k : i \in 1..Len(Edits)
      BY <1>10
    <3> QED BY <1>10, <3>1, ElementOfSeq
  <2>2. k \in 1..k
    BY <1>10
  <2> QED BY <1>9, <1>10, <2>1, <2>2, SubSeqProperties
<1>12. /\ Edits' = SubSeq(Edits, 1, k) /\ manifests'[current'].synced = k /\ Standing' = {k}
       /\ VersionAt(k)' = VersionAt(k) /\ VersionOf(Edits') = VersionAt(k)
       /\ LastEdit(Edits') = Edits[k] /\ Edits'[k] = Edits[k]
  <2>1. Edits' = SubSeq(Edits, 1, k) /\ manifests'[current'].synced = k
    BY <1>1, <1>9 DEF Edits
  <2>2. k..k = {k}
    BY <1>9
  <2>3. Standing' = {k}
    BY <1>11, <2>1, <2>2 DEF Standing
  <2>4. SubSeq(SubSeq(Edits, 1, k), 1, k) = SubSeq(Edits, 1, k)
    <3> HIDE DEF Edits
    <3>1. PICK e : e = SubSeq(Edits, 1, k)
      OBVIOUS
    <3>2. SubSeq(e, 1, Len(e)) = e
      BY <1>11, <3>1, SubSeqFull
    <3> QED BY <1>11, <3>1, <3>2
  <2> QED BY <1>11, <2>1, <2>3, <2>4 DEF VersionAt, LastEdit
<1>13. Kept' = Solid /\ Solid' = Solid
  BY <1>1 DEF Kept, Solid
<1>14. Typed'
  <2>1. logs' \in [DOMAIN logs' -> Log]
    BY <1>5, <1>7
  <2>2. manifests' \in [DOMAIN manifests' -> Descriptor]
    BY <1>7, <1>8
  <2> QED BY <1>1, <1>2, <1>5, <1>7, <1>8, <2>1, <2>2 DEF Typed
<1>15. FilesOK'
  <2>1. /\ Edits[k].nextFile > current /\ Edits[k].logNumber < Edits[k].nextFile
        /\ \A n \in VersionAt(k) :
                /\ n \in DOMAIN tables /\ n < Edits[k].nextFile
                /\ \A s \in tables[n] : s <= Edits[k].lastSeq
    BY DEF FilesOK
  <2>2. Edits[k].nextFile <= Edits[k].nextFile
    BY <1>10, EditTypes
  <2> QED BY <1>1, <1>11, <1>12, <2>1, <2>2 DEF FilesOK
<1>16. \A s \in Solid : \/ s \in Stored(tables, VersionAt(k))
                        \/ \E n \in DOMAIN logs' : n >= Edits[k].logNumber
                                                   /\ s \in Held(logs'[n].cells, logs'[n].synced)
  <2> SUFFICES ASSUME NEW s \in Solid, s \notin Stored(tables, VersionAt(k))
               PROVE  \E n \in DOMAIN logs' : n >= Edits[k].logNumber
                                              /\ s \in Held(logs'[n].cells, logs'[n].synced)
    OBVIOUS
  <2>1. PICK n \in DOMAIN logs :
           n >= Edits[k].logNumber /\ s \in Held(logs[n].cells, logs[n].synced)
    BY DEF HardOK, InSynced
  <2> QED BY <1>5, <1>7, <2>1
<1>17. HardOK'
  BY <1>1, <1>12, <1>13, <1>16 DEF HardOK, InSynced
<1>18. AckedOK'
  <2>1. \A n \in DOMAIN logs' : Whole(n)' = logs'[n].synced
    BY <1>2, <1>5, <1>7
  <2> QED BY <1>1, <1>12, <1>13, <1>16, <2>1 DEF AckedOK, InLogs
<1>19. LogsOK'
  BY <1>5, <1>7 DEF LogsOK
<1> QED BY <1>2, <1>14, <1>15, <1>17, <1>18, <1>19

\* A database NewDB has just made.
LEMMA InitHolds ==
    ASSUME Init
    PROVE  IInv
<1> DEFINE e == [add |-> {}, del |-> {}, logNumber |-> 0, nextFile |-> 2, lastSeq |-> 0]
<1>1. /\ DOMAIN logs = {} /\ DOMAIN tables = {} /\ DOMAIN manifests = {1} /\ current = 1
      /\ logs = [n \in {} |-> EmptyLog] /\ tables = [n \in {} |-> {}]
      /\ manifests[1] = [edits |-> << e >>, synced |-> 1]
      /\ manifests = [n \in {1} |-> manifests[1]]
      /\ mode = "closed" /\ db = Closed /\ pending = Nothing /\ job = Idle
      /\ acked = {} /\ hard = {} /\ spoilt = {}
  BY DEF Init
<1>2. e \in Edit /\ << e >> \in Seq(Edit) /\ Len(<< e >>) = 1 /\ << e >>[1] = e
  <2>1. e \in Edit
    BY DEF Edit
  <2> HIDE DEF e
  <2> QED BY <2>1
<1>3. /\ e.add = {} /\ e.nextFile = 2 /\ e.logNumber = 0
  OBVIOUS
<1> HIDE DEF e
<1>4. /\ Edits = << e >> /\ Len(Edits) = 1 /\ manifests[current].synced = 1 /\ Standing = {1}
      /\ LastEdit(Edits) = e /\ Edits[1] = e
  <2>1. Edits = << e >> /\ manifests[current].synced = 1
    BY <1>1 DEF Edits
  <2>2. 1..1 = {1}
    OBVIOUS
  <2> QED BY <1>2, <2>1, <2>2 DEF Standing, LastEdit
<1>5. VersionAt(1) = {}
  <2>1. SubSeq(<< e >>, 1, 1) = << e >>
    BY <1>2, SubSeqFull
  <2>2. \A n : n \notin VersionOf(<< e >>)
    <3>1. \A i \in 1..1 : i = 1
      OBVIOUS
    <3> QED BY <1>2, <1>3, <3>1, VersionIs
  <2> QED BY <1>4, <2>1, <2>2 DEF VersionAt
<1>6. /\ db \in Memory /\ pending \in Batch /\ job \in Job /\ mode \in Modes
  <2>1. db \in Memory
    BY <1>1, LogFormatAssumption DEF Closed, Memory, NoEdit, Change
  <2> QED BY <1>1, <2>1 DEF Nothing, Batch, Idle, Job, NoEdit, Change, Modes
<1>7. Typed
  <2>1. manifests[1] \in Descriptor /\ manifests[1].synced <= Len(manifests[1].edits)
    BY <1>1, <1>2 DEF Descriptor
  <2>2. manifests \in [DOMAIN manifests -> Descriptor]
    BY <1>1, <2>1
  <2>3. logs \in [DOMAIN logs -> Log] /\ tables \in [DOMAIN tables -> SUBSET (Nat \ {0})]
    BY <1>1
  <2> QED BY <1>1, <1>6, <2>1, <2>2, <2>3, SMTT(30) DEF Typed
<1>8. FilesOK
  BY <1>1, <1>3, <1>4, <1>5 DEF FilesOK
<1>9. HardOK /\ AckedOK /\ LogsOK
  BY <1>1 DEF HardOK, AckedOK, LogsOK, Solid, Kept
<1>10. /\ LogfileOK /\ PendingOK /\ RunningOK /\ InstalledOK /\ OpeningOK
       /\ ReplayingOK /\ RecoveredOK /\ WrittenOK
  BY <1>1 DEF LogfileOK, Logging, PendingOK, RunningOK, Running, InstalledOK, OpeningOK, Opening,
              ReplayingOK, RecoveredOK, WrittenOK
<1>11. JobOK
  BY <1>1 DEF JobOK, Idle
<1> QED BY <1>7, <1>8, <1>9, <1>10, <1>11 DEF IInv

\* A step in which nothing changes.
LEMMA StutterHolds ==
    ASSUME IInv, UNCHANGED vars
    PROVE  IInv'
<1>1. /\ logs' = logs /\ tables' = tables /\ manifests' = manifests /\ current' = current
      /\ mode' = mode /\ db' = db /\ pending' = pending /\ job' = job
      /\ acked' = acked /\ hard' = hard /\ spoilt' = spoilt
  BY DEF vars, disk, promise
<1>2. /\ SameDescriptor /\ TablesStay /\ SyncedStays /\ WholeStays /\ Kept' = Kept
      /\ Solid' = Solid /\ FilesOK' /\ HardOK' /\ AckedOK'
  BY <1>1, NothingLost, FilesStay, HardStays, AckedStays DEF IInv
<1>3. Typed' /\ LogsOK' /\ LogfileOK' /\ InstalledOK'
  BY <1>1 DEF IInv, Typed, LogsOK, LogfileOK, Logging, InstalledOK
<1>4. PendingOK'
  BY <1>1, <1>2 DEF IInv, PendingOK
<1>5. /\ Edits' = Edits /\ Standing' = Standing /\ \A k : VersionAt(k)' = VersionAt(k)
      /\ Whole(db.logfile)' = Whole(db.logfile)
  BY <1>1 DEF Edits, Standing, VersionAt, Whole
<1>6. JobOK' /\ OpeningOK' /\ RecoveredOK'
  BY <1>1, <1>2, <1>5 DEF IInv, JobOK, OpeningOK, Opening, RecoveredOK
<1>7. ReplayingOK'
  BY <1>1, <1>5 DEF IInv, ReplayingOK, LogsFrom
<1>8. WrittenOK'
  BY <1>1 DEF IInv, WrittenOK, Snapshot, RecoveryEdit
<1>9. RunningOK'
  BY <1>1, <1>2, <1>5 DEF IInv, RunningOK, Running
<1> QED BY <1>2, <1>3, <1>4, <1>6, <1>7, <1>8, <1>9 DEF IInv

\* Every step of the program, the background thread, the opening and the crashes keeps
\* the invariant.
THEOREM Inductive == Spec => []IInv
<1>1. Init => IInv
  BY InitHolds
<1>2. IInv /\ [Next]_vars => IInv'
  <2> SUFFICES ASSUME IInv, [Next]_vars
               PROVE  IInv'
    OBVIOUS
  <2>1. CASE \E size \in Sizes, sync \in BOOLEAN : AppendBatch(size, sync)
    BY <2>1, AppendBatchStep
  <2>2. CASE \E size \in Sizes : AppendFails(size)
    BY <2>2, AppendFailsStep
  <2>3. CASE Acknowledge
    BY <2>3, AcknowledgeStep
  <2>4. CASE Switch
    BY <2>4, SwitchStep
  <2>5. CASE BuildFlush
    BY <2>5, BuildStep DEF BuildFlush
  <2>6. CASE BuildCompaction
    BY <2>6, BuildStep DEF BuildCompaction
  <2>7. CASE LogEdit
    BY <2>7, LogEditStep
  <2>8. CASE ApplyEdit
    BY <2>8, ApplyEditStep
  <2>9. CASE CleanUp
    BY <2>9, CleanUpStep
  <2>10. CASE ReadDescriptor
    BY <2>10, ReadDescriptorStep
  <2>11. CASE ReplayLog
    BY <2>11, ReplayLogStep
  <2>12. CASE CreateLog
    BY <2>12, CreateLogStep
  <2>13. CASE WriteDescriptor
    BY <2>13, WriteDescriptorStep
  <2>14. CASE SyncDescriptor
    BY <2>14, SyncDescriptorStep
  <2>15. CASE SetCurrentFile
    BY <2>15, SetCurrentFileStep
  <2>16. CASE Opened
    BY <2>16, OpenedStep
  <2>17. CASE ProcessCrash
    BY <2>17, ProcessCrashStep
  <2>18. CASE MachineCrash
    BY <2>18, MachineCrashStep
  <2>19. CASE UNCHANGED vars
    BY <2>19, StutterHolds
  <2> QED BY <2>1, <2>2, <2>3, <2>4, <2>5, <2>6, <2>7, <2>8, <2>9, <2>10, <2>11, <2>12, <2>13,
             <2>14, <2>15, <2>16, <2>17, <2>18, <2>19 DEF Next, OpenStep
<1> QED BY <1>1, <1>2, PTL DEF Spec

\* The types of Recovery, and that no more is synced than there is.
LEMMA IInvTypeOK == IInv => TypeOK
<1> SUFFICES ASSUME IInv PROVE TypeOK
  OBVIOUS
<1> USE DEF IInv
<1>1. \A n \in DOMAIN logs : n \in Nat /\ logs[n].synced \in 0..Len(logs[n].cells)
  BY LogTypes
<1>2. \A n \in DOMAIN tables : tables[n] \subseteq Nat \ {0}
  BY TableTypes
<1>3. ASSUME NEW n \in DOMAIN manifests
      PROVE  manifests[n].synced \in 0..Len(manifests[n].edits)
  <2>1. manifests[n] \in Descriptor /\ manifests[n].synced <= Len(manifests[n].edits)
    BY DEF Typed
  <2>2. manifests[n].edits \in Seq(Edit) /\ manifests[n].synced \in Nat
    BY <2>1 DEF Descriptor
  <2>3. Len(manifests[n].edits) \in Nat
    BY <2>2
  <2> QED BY <2>1, <2>2, <2>3
<1> QED BY <1>1, <1>2, <1>3 DEF TypeOK, Typed, Modes

\* What a log holds is what is read from it.
LEMMA InLogIs ==
    ASSUME Typed, NEW n \in DOMAIN logs
    PROVE  InLog(n) = Held(logs[n].cells, Len(logs[n].cells))
<1>1. logs[n].cells \in Seq(Cell) /\ Len(logs[n].cells) \in 0..Len(logs[n].cells)
  BY LogTypes
<1>2. ReadRecords(logs[n].cells) \in Seq(Record)
  BY <1>1, TruncatedReads
<1> QED BY <1>1, <1>2, HeldOfAll, SeqsOfIs DEF InLog

\* What AckedOK says is on disk is found by who opens the database.
LEMMA IInvOnDisk == IInv => PromisedIsOnDisk
<1> SUFFICES ASSUME IInv, NEW s \in Kept PROVE s \in OnDisk
  BY DEF PromisedIsOnDisk, Kept
<1> USE DEF IInv
<1>1. Edits # << >>
  BY StandingIs
<1>2. OnDisk = InTables(VersionOf(Edits))
                  \cup UNION {InLog(n) : n \in LogsFrom(LastEdit(Edits).logNumber)}
  BY <1>1 DEF OnDisk, Edits
<1>3. CASE s \in Stored(tables, VersionOf(Edits))
  BY <1>2, <1>3, InTablesIs
<1>4. CASE InLogs(s, LastEdit(Edits).logNumber)
  <2>1. PICK n \in DOMAIN logs : n >= LastEdit(Edits).logNumber /\ s \in Held(logs[n].cells, Whole(n))
    BY <1>4 DEF InLogs
  <2>2. logs[n].cells \in Seq(Cell) /\ Len(logs[n].cells) \in Nat /\ Whole(n) \in 0..Len(logs[n].cells)
    BY LogTypes, WholeType
  <2>3. Len(logs[n].cells) \in 0..Len(logs[n].cells)
    BY <2>2
  <2>4. s \in Held(logs[n].cells, Len(logs[n].cells))
    BY <2>1, <2>2, <2>3, HeldGrows
  <2>5. s \in InLog(n) /\ n \in LogsFrom(LastEdit(Edits).logNumber)
    BY <2>1, <2>4, InLogIs DEF LogsFrom
  <2> QED BY <1>2, <2>5
<1> QED BY <1>3, <1>4 DEF AckedOK

\* Types, and that the bounds of what is synced of each file are kept (log_writer.cc,
\* version_set.cc).
THEOREM RecoveryTypes == Spec => []TypeOK
<1> QED BY Inductive, IInvTypeOK, PTL

\* No write that returned OK is lost when the process dies, nor one that was synced or
\* flushed when the machine does, at no step of writing, flushing, compacting, deleting
\* files or opening the database (db_impl.cc Write, CompactMemTable, Recover,
\* DeleteObsoleteFiles; version_set.cc LogAndApply).
THEOREM PromisesAreKept == Spec => []PromisedIsOnDisk
<1> QED BY Inductive, IInvOnDisk, PTL

\* Such a write is read when the database is open (db_impl.cc Get looks in mem_, imm_
\* and the current version).
THEOREM PromisesAreRead == Spec => []PromisedIsRead
<1>1. IInv => PromisedIsRead
  BY InTablesIs DEF IInv, RunningOK, Running, PromisedIsRead, Kept
<1> QED BY <1>1, Inductive, PTL

\* No write gets the number of one that is there: what the logs held counts for
\* last_sequence_ (db_impl.cc Recover, max_sequence).
THEOREM NumbersAreNew == Spec => []SequencesAreNew
<1>1. IInv => SequencesAreNew
  BY InTablesIs DEF IInv, RunningOK, Running, SequencesAreNew
<1> QED BY <1>1, Inductive, PTL

\* However crashes cut a log, it reads back as the first of the batches that went into
\* it, unless an append to it has failed (log_reader.cc ReadRecord).
THEOREM LogsAreReadBack == Spec => []LogsReadBack
<1>1. IInv => LogsReadBack
  <2> SUFFICES ASSUME IInv, NEW n \in DOMAIN logs, ~logs[n].torn
               PROVE  IsPrefix(ReadRecords(logs[n].cells), logs[n].records)
    BY DEF LogsReadBack
  <2>1. Begins(ReadRecords(logs[n].cells), logs[n].records)
    BY DEF IInv, LogsOK
  <2>2. logs[n].cells \in Seq(Cell) /\ Len(logs[n].cells) \in 0..Len(logs[n].cells)
        /\ logs[n].records \in Seq(Record)
    BY LogTypes DEF IInv
  <2>3. ReadRecords(logs[n].cells) \in Seq(Record)
    BY <2>2, TruncatedReads
  <2> QED BY <2>1, <2>2, <2>3, BeginsIsPrefix
<1> QED BY <1>1, Inductive, PTL

\* VersionSet::Recover never finds a descriptor without an edit or a version one of whose
\* tables is missing (version_set.cc Recover, db_impl.cc Recover).
THEOREM OpeningNeverFails == Spec => [](mode # "failed")
<1>1. IInv => mode # "failed"
  BY DEF IInv, Typed, Modes
<1> QED BY <1>1, Inductive, PTL
===============================================================================
