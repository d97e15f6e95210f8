--------------------------- MODULE XzStreamProofs ---------------------------
(***************************************************************************)
(* Proofs about the .xz framing of a compressed stream: what the caller is *)
(* given and what waits in the framing buffers, the slices and the held    *)
(* block is, at any moment, the beginning of a file that a reader accepts. *)
(*                                                                         *)
(* The reader (Reader ... ReadUpTo) takes a piece at a time and keeps what *)
(* it needs to judge the next.  What it accepts has the properties of      *)
(* XzStream (FileIsFramed ... FileKnown).  Each function of the framing    *)
(* adds to the file only what the reader goes on with (CloseBlockReads ... *)
(* EndReads), and the invariant DInv relates the reader's state to the     *)
(* accounts of the open block, to the block in compression and to the      *)
(* dictionary buffer; each action has a lemma that it keeps DInv.          *)
(***************************************************************************)
EXTENDS XzStream, DictBufferProofs, SequenceLemmas, FiniteSetTheorems

USE ModesAssumption, AlignAssumption, SizeAssumption, RoomAssumption, JobsAssumption

-----------------------------------------------------------------------------
(* The pieces a file is made of, and the output state.                     *)
Record == [unpadded : Nat, uncompressed : Nat]

HeaderPiece == [kind : {"header"}]
BlockPiece  == [kind : {"block"}, compressed : Int, uncompressed : Int, dict : Nat]
LzPiece     == [kind : {"lz"}, at : Nat, window : Nat, reset : BOOLEAN]
EndPiece    == [kind : {"blockEnd"}, check : Seq(Nat)]
IndexPiece  == [kind : {"index"}, records : Seq(Record)]

Piece == HeaderPiece \cup BlockPiece \cup LzPiece \cup EndPiece \cup IndexPiece

State ==
  [hold : BOOLEAN, head : Seq(Piece), tail : Seq(Piece), block : Seq(Piece),
   records : Seq(Record), check : Seq(Nat), uSize : Nat, cSize : Nat, open : BOOLEAN,
   unaccounted : BOOLEAN, outThread : Nat, outPos : Nat]

(* Where output is read, in the slices.                                    *)
InSlices(s) == AtSlice(Piece, jobs, Len(jobs), s.outThread, s.outPos)

Typed(s) == s \in State /\ InSlices(s) /\ (~s.hold => s.block = <<>>)

LEMMA PendingIsSlices ==
  ASSUME NEW s, NEW u PROVE Pending(s, u) = SlicesTo(jobs, s.outThread, s.outPos, u)
  BY DEF Pending, Rest, SlicesTo, SliceRest

(* A field of the output state is given a value of its type.               *)
LEMMA SetField ==
  ASSUME NEW s \in State
  PROVE  /\ \A v \in Seq(Piece) : /\ [s EXCEPT !.head = v] \in State
                                  /\ [s EXCEPT !.tail = v] \in State
                                  /\ [s EXCEPT !.block = v] \in State
         /\ \A v \in Seq(Record) : [s EXCEPT !.records = v] \in State
         /\ \A v \in Seq(Nat) : [s EXCEPT !.check = v] \in State
         /\ \A v \in Nat : /\ [s EXCEPT !.uSize = v] \in State
                           /\ [s EXCEPT !.cSize = v] \in State
                           /\ [s EXCEPT !.outThread = v] \in State
                           /\ [s EXCEPT !.outPos = v] \in State
         /\ \A v \in BOOLEAN : /\ [s EXCEPT !.open = v] \in State
                               /\ [s EXCEPT !.unaccounted = v] \in State
  BY Zenon DEF State

LEMMA FieldTypes ==
  ASSUME NEW s \in State
  PROVE  /\ s.hold \in BOOLEAN /\ s.open \in BOOLEAN /\ s.unaccounted \in BOOLEAN
         /\ s.head \in Seq(Piece) /\ s.tail \in Seq(Piece) /\ s.block \in Seq(Piece)
         /\ s.records \in Seq(Record) /\ s.check \in Seq(Nat)
         /\ s.uSize \in Nat /\ s.cSize \in Nat /\ s.outThread \in Nat /\ s.outPos \in Nat
  BY DEF State

LEMMA AccountType ==
  ASSUME NEW s \in State, jobs \in Seq(Seq(Piece))
  PROVE  Account(s) \in State
<1> DEFINE n == s.cSize + Len(FlattenSeq(jobs))
<1>1. n \in Nat
  <2>1. Len(FlattenSeq(jobs)) \in Nat
    BY FlattenType, LenProperties
  <2>2. s.cSize \in Nat
    BY FieldTypes
  <2>3. QED
    BY <2>1, <2>2
<1> HIDE DEF n
<1>2. [s EXCEPT !.cSize = n] \in State
  BY <1>1, SetField
<1>3. [[s EXCEPT !.cSize = n] EXCEPT !.unaccounted = FALSE] \in State
  BY <1>2, SetField
<1>4. QED
  BY <1>3 DEF Account, n

-----------------------------------------------------------------------------
(* The functions of the framing keep the types.                            *)
TypedAll(os) == \A o \in os : Typed(o.fcs)

LEMMA TypedOutcome ==
  ASSUME NEW s, Typed(s) PROVE TypedAll(Ok(s)) /\ TypedAll(OutOfMemory(s))
  BY DEF TypedAll, Ok, OutOfMemory

LEMMA TypedStays ==
  ASSUME NEW s, Typed(s), NEW t \in State, t.outThread = s.outThread, t.outPos = s.outPos,
         t.hold = s.hold, ~t.hold => t.block = <<>>
  PROVE  Typed(t)
  BY DEF Typed, InSlices

LEMMA AccountTyped == ASSUME NEW s, Typed(s) PROVE Typed(Account(s))
<1>1. s \in State /\ jobs \in Seq(Seq(Piece))
  BY DEF Typed, InSlices, AtSlice
<1>2. Account(s) \in State
  BY <1>1, AccountType
<1>3. /\ Account(s).outThread = s.outThread /\ Account(s).outPos = s.outPos
      /\ Account(s).hold = s.hold /\ Account(s).block = s.block
  BY <1>1 DEF Account, State
<1>4. QED
  BY <1>2, <1>3, TypedStays DEF Typed

LEMMA RecordTyped ==
  ASSUME NEW s, Typed(s), NEW c \in Nat, NEW u \in Nat PROVE TypedAll(AddRecord(s, c, u))
<1> DEFINE v == Append(s.records, [unpadded |-> c, uncompressed |-> u])
           t == [s EXCEPT !.records = v]
<1>1. s \in State
  BY DEF Typed
<1>2. v \in Seq(Record)
  <2>1. [unpadded |-> c, uncompressed |-> u] \in Record
    BY DEF Record
  <2>2. QED
    BY <1>1, <2>1, FieldTypes, AppendProperties
<1> HIDE DEF v
<1>3. t \in State
  BY <1>1, <1>2, SetField
<1>4. t.outThread = s.outThread /\ t.outPos = s.outPos /\ t.hold = s.hold /\ t.block = s.block
  BY <1>1 DEF State
<1>5. Typed(t)
  BY <1>3, <1>4, TypedStays DEF Typed
<1>6. AddRecord(s, c, u) = Ok(t) \cup OutOfMemory(s)
  BY DEF AddRecord, v
<1>7. QED
  BY <1>5, <1>6, TypedOutcome DEF TypedAll

LEMMA ClosedTyped ==
  ASSUME NEW os, TypedAll(os) PROVE TypedAll(Then(os, LAMBDA x : Ok([x EXCEPT !.open = FALSE])))
<1>1. ASSUME NEW o \in os PROVE TypedAll(Ok([o.fcs EXCEPT !.open = FALSE]))
  <2> DEFINE x == o.fcs
             t == [x EXCEPT !.open = FALSE]
  <2>1. Typed(x)
    BY DEF TypedAll
  <2> HIDE DEF x
  <2>2. t \in State
    BY <2>1, SetField DEF Typed
  <2>3. t.outThread = x.outThread /\ t.outPos = x.outPos /\ t.hold = x.hold /\ t.block = x.block
    BY <2>1 DEF Typed, State
  <2>4. Typed(t)
    BY <2>1, <2>2, <2>3, TypedStays DEF Typed
  <2>5. QED
    BY <2>4, TypedOutcome DEF x
<1>2. QED
  BY <1>1 DEF Then, TypedAll

(* A piece is appended to one of the framing buffers.                      *)
LEMMA AppendTyped ==
  ASSUME NEW s, Typed(s), NEW dst \in {"head", "tail"}, NEW x \in Piece
  PROVE  /\ Typed([s EXCEPT ![dst] = Append(@, x)])
         /\ [s EXCEPT ![dst] = Append(@, x)].check = s.check
         /\ [s EXCEPT ![dst] = Append(@, x)].uSize = s.uSize
         /\ [s EXCEPT ![dst] = Append(@, x)].cSize = s.cSize
<1> DEFINE t == [s EXCEPT ![dst] = Append(@, x)]
<1>1. s \in State
  BY DEF Typed
<1>2. t \in State
  <2>1. CASE dst = "head"
    <3>1. Append(s.head, x) \in Seq(Piece)
      BY <1>1, FieldTypes, AppendProperties
    <3>2. [s EXCEPT !.head = Append(s.head, x)] \in State
      BY <1>1, <3>1, SetField
    <3>3. QED
      BY <2>1, <3>2
  <2>2. CASE dst = "tail"
    <3>1. Append(s.tail, x) \in Seq(Piece)
      BY <1>1, FieldTypes, AppendProperties
    <3>2. [s EXCEPT !.tail = Append(s.tail, x)] \in State
      BY <1>1, <3>1, SetField
    <3>3. QED
      BY <2>2, <3>2
  <2>3. QED
    BY <2>1, <2>2
<1>3. /\ t.outThread = s.outThread /\ t.outPos = s.outPos /\ t.hold = s.hold /\ t.block = s.block
      /\ t.check = s.check /\ t.uSize = s.uSize /\ t.cSize = s.cSize
  BY <1>1 DEF State
<1>4. Typed(t)
  BY <1>2, <1>3, TypedStays DEF Typed
<1>5. QED
  BY <1>3, <1>4

LEMMA CloseBlockTyped ==
  ASSUME NEW s, Typed(s), NEW dst \in {"head", "tail"} PROVE TypedAll(CloseBlock(s, dst))
<1> DEFINE a == Account(s)
           x == BlockEnd(a.check)
           c == [a EXCEPT ![dst] = Append(@, x)]
           b == [c EXCEPT !.cSize = @ + 1]
<1>1. Typed(a) /\ a \in State
  BY AccountTyped DEF Typed
<1> HIDE DEF a
<1>2. x \in Piece
  BY <1>1, FieldTypes DEF BlockEnd, EndPiece, Piece
<1> HIDE DEF x
<1>3. Typed(c) /\ c.cSize = a.cSize /\ c \in State
  BY <1>1, <1>2, AppendTyped, SMTT(30) DEF Typed
<1> HIDE DEF c
<1>4. Typed(b)
  <2>1. c.cSize + 1 \in Nat
    BY <1>3, FieldTypes
  <2>2. b \in State
    BY <1>3, <2>1, SetField
  <2>3. b.outThread = c.outThread /\ b.outPos = c.outPos /\ b.hold = c.hold /\ b.block = c.block
    BY <1>3 DEF State
  <2>4. QED
    BY <1>3, <2>2, <2>3, TypedStays DEF Typed
<1>5. b = [a EXCEPT ![dst] = Append(@, BlockEnd(a.check)), !.cSize = @ + 1]
  BY DEF c, x
<1> HIDE DEF b
<1>6. TypedAll(Then(AddRecord(b, b.cSize, b.uSize), LAMBDA y : Ok([y EXCEPT !.open = FALSE])))
  <2>1. b.cSize \in Nat /\ b.uSize \in Nat
    BY <1>4, FieldTypes DEF Typed
  <2>2. QED
    BY <1>4, <2>1, RecordTyped, ClosedTyped
<1>7. CloseBlock(s, dst) =
        OutOfMemory(a) \cup Then(AddRecord(b, b.cSize, b.uSize), LAMBDA y : Ok([y EXCEPT !.open = FALSE]))
  BY <1>5 DEF CloseBlock, a
<1>8. QED
  BY <1>1, <1>6, <1>7, TypedOutcome DEF TypedAll

(* What the slices give up is what waited in them.                         *)
LEMMA PendingType ==
  ASSUME NEW s, InSlices(s), NEW u \in s.outThread .. Len(jobs) PROVE Pending(s, u) \in Seq(Piece)
<1> DEFINE t == s.outThread
           p == s.outPos
           n == Len(jobs)
<1>1. AtSlice(Piece, jobs, n, t, p)
  BY DEF InSlices
<1>2. t \in Nat /\ n \in Nat
  BY <1>1 DEF AtSlice
<1>3. u \in t .. n
  OBVIOUS
<1> HIDE DEF t, p, n
<1>4. SlicesTo(jobs, t, p, u) \in Seq(Piece)
  <2>1. CASE u = n
    BY <1>1, <2>1, SlicesToEnd
  <2>2. CASE u # n
    <3>1. u \in Nat /\ t <= u /\ u < n
      BY <1>2, <1>3, <2>2
    <3>2. QED
      BY <1>1, <3>1, SlicesSplit
  <2>3. QED
    BY <2>1, <2>2
<1>5. QED
  BY <1>4, PendingIsSlices DEF t, p

LEMMA AbsorbToTyped ==
  ASSUME NEW s, Typed(s), s.hold, NEW u \in s.outThread .. Len(jobs) PROVE Typed(AbsorbTo(s, u))
<1>1. s \in State /\ InSlices(s)
  BY DEF Typed
<1>2. /\ s.outThread \in Nat /\ Len(jobs) \in Nat /\ s.outPos \in Nat /\ u \in Nat
      /\ u <= Len(jobs)
  BY <1>1 DEF InSlices, AtSlice
<1> DEFINE v == s.block \o Pending(s, u)
           p == IF u = s.outThread THEN s.outPos ELSE 0
           t == AbsorbTo(s, u)
<1>3. v \in Seq(Piece)
  <2>1. s.block \in Seq(Piece) /\ Pending(s, u) \in Seq(Piece)
    BY <1>1, PendingType, FieldTypes
  <2>2. QED
    BY <2>1, ConcatProperties
<1>4. p \in Nat
  BY <1>2
<1>5. t = [s EXCEPT !.block = v, !.outThread = u, !.outPos = p]
  BY DEF AbsorbTo
<1> HIDE DEF v, t
<1>6. t \in State
  <2>1. [s EXCEPT !.block = v] \in State
    BY <1>1, <1>3, SetField
  <2>2. [s EXCEPT !.block = v, !.outThread = u] \in State
    BY <1>2, <2>1, SetField
  <2>3. QED
    BY <1>4, <1>5, <2>2, SetField
<1>7. t.outThread = u /\ t.outPos = p /\ t.hold = s.hold
  BY <1>1, <1>5 DEF State
<1>8. InSlices(t)
  <2>1. u < Len(jobs) => p < Len(jobs[u + 1])
    <3>1. CASE u = s.outThread
      BY <1>1, <3>1 DEF InSlices, AtSlice
    <3>2. CASE u # s.outThread
      <4> SUFFICES ASSUME u < Len(jobs) PROVE 0 < Len(jobs[u + 1])
        BY <3>2
      <4>1. u + 1 \in 1 .. Len(jobs) /\ u \in 0 .. Len(jobs) - 1
        BY <1>2
      <4>2. jobs[u + 1] \in Seq(Piece) /\ jobs[u + 1] # <<>>
        BY <1>1, <4>1, ElementOfSeq DEF InSlices, AtSlice
      <4>3. QED
        BY <4>2
    <3>3. QED
      BY <3>1, <3>2
  <2>2. QED
    BY <1>1, <1>2, <1>4, <1>7, <2>1 DEF InSlices, AtSlice
<1>9. QED
  BY <1>6, <1>7, <1>8 DEF Typed, t

LEMMA AbsorbTyped == ASSUME NEW s, Typed(s) PROVE TypedAll(Absorb(s))
<1>1. CASE s.hold /\ HasSlices(s)
  <2> DEFINE n == Len(jobs)
             t == AbsorbTo(s, n)
  <2>1. s.outThread \in Nat /\ n \in Nat /\ s.outThread <= n
    BY DEF Typed, InSlices, AtSlice
  <2>2. \A u \in s.outThread .. n : Typed(AbsorbTo(s, u))
    BY <1>1, AbsorbToTyped
  <2>3. Typed(t)
    BY <2>1, <2>2
  <2> HIDE DEF t
  <2>4. Typed([t EXCEPT !.unaccounted = FALSE])
    <3>1. [t EXCEPT !.unaccounted = FALSE] \in State
      BY <2>3, SetField DEF Typed
    <3>2. /\ [t EXCEPT !.unaccounted = FALSE].outThread = t.outThread
          /\ [t EXCEPT !.unaccounted = FALSE].outPos = t.outPos
          /\ [t EXCEPT !.unaccounted = FALSE].hold = t.hold
          /\ [t EXCEPT !.unaccounted = FALSE].block = t.block
      BY <2>3 DEF Typed, State
    <3>3. QED
      BY <2>3, <3>1, <3>2, TypedStays DEF Typed
  <2>5. TypedAll(Ok([t EXCEPT !.unaccounted = FALSE]))
    BY <2>4, TypedOutcome
  <2>6. \A u \in s.outThread .. n - 1 : TypedAll(OutOfMemory(AbsorbTo(s, u)))
    <3> SUFFICES ASSUME NEW u \in s.outThread .. n - 1
                 PROVE  TypedAll(OutOfMemory(AbsorbTo(s, u)))
      OBVIOUS
    <3>1. u \in s.outThread .. n
      BY <2>1
    <3>2. QED
      BY <2>2, <3>1, TypedOutcome
  <2>7. Absorb(s) = Ok([t EXCEPT !.unaccounted = FALSE])
                      \cup UNION {OutOfMemory(AbsorbTo(s, u)) : u \in s.outThread .. n - 1}
    BY <1>1 DEF Absorb, t
  <2>8. QED
    BY <2>5, <2>6, <2>7 DEF TypedAll
<1>2. CASE ~(s.hold /\ HasSlices(s))
  BY <1>2, TypedOutcome DEF Absorb
<1>3. QED
  BY <1>1, <1>2

(* The header of a held block, and what there is once it is written.       *)
HeldHeader(s) == BlockHeader(Len(s.block) + 1, s.uSize, IF s.uSize < Size THEN s.uSize ELSE Size)

Moved(s) == [s EXCEPT !.head = @ \o <<HeldHeader(s)>> \o s.block \o <<BlockEnd(s.check)>>, !.block = <<>>]

LEMMA MovedTyped == ASSUME NEW s, Typed(s) PROVE Typed(Moved(s))
<1> DEFINE v == s.head \o <<HeldHeader(s)>> \o s.block \o <<BlockEnd(s.check)>>
           t == Moved(s)
<1>1. s \in State
  BY DEF Typed
<1>2. v \in Seq(Piece)
  <2>1. s.head \in Seq(Piece) /\ s.block \in Seq(Piece) /\ s.check \in Seq(Nat)
        /\ s.uSize \in Nat
    BY <1>1, FieldTypes
  <2>2. HeldHeader(s) \in Piece
    <3>1. Len(s.block) \in Nat
      BY <2>1, LenProperties
    <3>2. QED
      BY <2>1, <3>1 DEF HeldHeader, BlockHeader, BlockPiece, Piece
  <2>3. BlockEnd(s.check) \in Piece
    BY <2>1 DEF BlockEnd, EndPiece, Piece
  <2>4. <<HeldHeader(s)>> \in Seq(Piece) /\ <<BlockEnd(s.check)>> \in Seq(Piece)
    BY <2>2, <2>3
  <2>5. QED
    BY <2>1, <2>4, ConcatProperties
<1>3. t = [s EXCEPT !.head = v, !.block = <<>>]
  BY DEF Moved
<1> HIDE DEF v, t
<1>4. t \in State
  <2>1. [s EXCEPT !.head = v] \in State
    BY <1>1, <1>2, SetField
  <2>2. <<>> \in Seq(Piece)
    OBVIOUS
  <2>3. QED
    BY <1>3, <2>1, <2>2, SetField
<1>5. t.outThread = s.outThread /\ t.outPos = s.outPos /\ t.hold = s.hold /\ t.block = <<>>
  BY <1>1, <1>3 DEF State
<1>6. QED
  BY <1>4, <1>5, TypedStays DEF t

LEMMA HeldTyped == ASSUME NEW s, Typed(s), s.hold PROVE TypedAll(CloseHeldBlock(s))
<1> DEFINE c == Len(s.block) + 1
           m == Moved(s)
           v == Append(s.block, BlockEnd(s.check))
           t == [s EXCEPT !.block = v]
<1>1. s \in State /\ s.block \in Seq(Piece) /\ s.uSize \in Nat /\ s.check \in Seq(Nat)
  BY FieldTypes DEF Typed
<1>2. Typed(t)
  <2>1. BlockEnd(s.check) \in Piece
    BY <1>1 DEF BlockEnd, EndPiece, Piece
  <2>2. v \in Seq(Piece)
    BY <1>1, <2>1, AppendProperties
  <2> HIDE DEF v
  <2>3. t \in State
    BY <1>1, <2>2, SetField
  <2>4. t.outThread = s.outThread /\ t.outPos = s.outPos /\ t.hold = s.hold
    BY <1>1 DEF State
  <2>5. QED
    BY <2>3, <2>4, TypedStays
<1>3. Typed(m)
  BY MovedTyped
<1>4. c \in Nat
  BY <1>1, LenProperties
<1> HIDE DEF m, t
<1>5. CloseHeldBlock(s) =
        OutOfMemory(s) \cup (IF s.head # <<>> THEN OutOfMemory(t) ELSE {})
          \cup Then(AddRecord(m, c, s.uSize), LAMBDA x : Ok([x EXCEPT !.open = FALSE]))
  BY DEF CloseHeldBlock, Moved, HeldHeader, m, t
<1> HIDE DEF c
<1>6. TypedAll(Then(AddRecord(m, c, s.uSize), LAMBDA x : Ok([x EXCEPT !.open = FALSE])))
  BY <1>1, <1>3, <1>4, RecordTyped, ClosedTyped
<1>7. QED
  BY <1>2, <1>5, <1>6, TypedOutcome DEF TypedAll

(* Absorbing changes the block, where slices are read and their accounting *)
(* and nothing else.                                                       *)
SameFrame(t, s) ==
  /\ t.hold = s.hold /\ t.head = s.head /\ t.tail = s.tail /\ t.records = s.records
  /\ t.check = s.check /\ t.uSize = s.uSize /\ t.cSize = s.cSize /\ t.open = s.open

LEMMA AbsorbKeepsFrame == ASSUME NEW s \in State PROVE \A o \in Absorb(s) : SameFrame(o.fcs, s)
<1>1. ASSUME NEW u PROVE SameFrame(AbsorbTo(s, u), s)
  BY DEF AbsorbTo, SameFrame, State
<1>2. ASSUME NEW u PROVE SameFrame([AbsorbTo(s, u) EXCEPT !.unaccounted = FALSE], s)
  BY DEF AbsorbTo, SameFrame, State
<1>3. SameFrame(s, s)
  BY DEF SameFrame
<1>4. QED
  BY <1>1, <1>2, <1>3 DEF Absorb, Ok, OutOfMemory

LEMMA CloseIfOpenTyped ==
  ASSUME NEW s, Typed(s), NEW dst \in {"head", "tail"} PROVE TypedAll(CloseIfOpen(s, dst))
<1>1. TypedAll(Ok(s)) /\ TypedAll(CloseBlock(s, dst))
  BY TypedOutcome, CloseBlockTyped
<1>2. s.hold => TypedAll(Then(Absorb(s), CloseHeldBlock))
  <2> SUFFICES ASSUME s.hold PROVE TypedAll(Then(Absorb(s), CloseHeldBlock))
    OBVIOUS
  <2>1. \A o \in Absorb(s) : Typed(o.fcs) /\ o.fcs.hold
    BY AbsorbTyped, AbsorbKeepsFrame DEF TypedAll, SameFrame, Typed
  <2>2. \A o \in Absorb(s) : TypedAll(CloseHeldBlock(o.fcs))
    BY <2>1, HeldTyped
  <2>3. QED
    BY <2>1, <2>2 DEF Then, TypedAll
<1>3. QED
  BY <1>1, <1>2 DEF CloseIfOpen

LEMMA OpenTyped ==
  ASSUME NEW s, Typed(s), NEW dict \in Nat PROVE TypedAll(OpenBlock(s, dict))
<1> DEFINE header == IF s.hold THEN <<>> ELSE <<BlockHeader(Unknown, Unknown, dict)>>
           v == s.head \o header
           t == [s EXCEPT !.head = v, !.check = <<>>, !.uSize = 0, !.cSize = 0]
           w == [t EXCEPT !.open = TRUE]
<1>1. s \in State /\ s.head \in Seq(Piece)
  BY FieldTypes DEF Typed
<1>2. v \in Seq(Piece)
  <2>1. BlockHeader(Unknown, Unknown, dict) \in Piece
    BY DEF BlockHeader, Unknown, BlockPiece, Piece
  <2>2. header \in Seq(Piece)
    BY <2>1
  <2>3. QED
    BY <1>1, <2>2, ConcatProperties
<1> HIDE DEF header, v
<1>3. t \in State
  <2>1. [s EXCEPT !.head = v] \in State
    BY <1>1, <1>2, SetField
  <2>2. <<>> \in Seq(Nat) /\ 0 \in Nat
    OBVIOUS
  <2>3. [s EXCEPT !.head = v, !.check = <<>>] \in State
    BY <2>1, <2>2, SetField
  <2>4. [s EXCEPT !.head = v, !.check = <<>>, !.uSize = 0] \in State
    BY <2>2, <2>3, SetField
  <2>5. QED
    BY <2>2, <2>4, SetField
<1>4. t.outThread = s.outThread /\ t.outPos = s.outPos /\ t.hold = s.hold /\ t.block = s.block
  BY <1>1 DEF State
<1>5. OpenBlock(s, dict) = Ok(w) \cup OutOfMemory(s)
  BY DEF OpenBlock, header, v
<1> HIDE DEF t
<1>6. Typed(w)
  <2>1. w \in State
    BY <1>3, SetField
  <2>2. w.outThread = t.outThread /\ w.outPos = t.outPos /\ w.hold = t.hold /\ w.block = t.block
    BY <1>3 DEF State
  <2>3. QED
    BY <1>4, <2>1, <2>2, TypedStays DEF Typed
<1>7. QED
  BY <1>5, <1>6, TypedOutcome DEF TypedAll

BlockOK(b) ==
  b \in [buffer : 0 .. 1, start : Nat, end : Nat] /\ b.start < b.end /\ b.end <= Size

LEMMA BlockBytesType ==
  ASSUME DictTypeOK, NEW b, BlockOK(b)
  PROVE  /\ BlockBytes(b) \in Seq(Nat) /\ Len(BlockBytes(b)) = b.end - b.start
         /\ \A i \in 1 .. b.end - b.start : BlockBytes(b)[i] = data[b.buffer][b.start + i - 1]
<1> DEFINE n == b.end - b.start
<1>1. n \in Nat /\ \A i \in 1 .. n : data[b.buffer][b.start + i - 1] \in Nat
  BY SMTT(30) DEF DictTypeOK, BlockOK
<1>2. BlockBytes(b) = [i \in 1 .. n |-> data[b.buffer][b.start + i - 1]]
  BY DEF BlockBytes
<1> HIDE DEF n
<1>3. BlockBytes(b) \in Seq(Nat) /\ Len(BlockBytes(b)) = n
      /\ \A i \in 1 .. n : BlockBytes(b)[i] = data[b.buffer][b.start + i - 1]
  BY <1>1, <1>2, SMTT(30)
<1>4. QED
  BY <1>3 DEF n

(* The last step of BeginCompression.                                      *)
Counted(x, b) == [x EXCEPT !.check = @ \o BlockBytes(b), !.uSize = @ + (b.end - b.start)]

LEMMA CountedTyped ==
  ASSUME NEW x, Typed(x), DictTypeOK, NEW b, BlockOK(b) PROVE Typed(Counted(x, b))
<1> DEFINE v == x.check \o BlockBytes(b)
           n == x.uSize + (b.end - b.start)
           t == Counted(x, b)
<1>1. x \in State
  BY DEF Typed
<1>2. v \in Seq(Nat) /\ n \in Nat
  <2>1. x.check \in Seq(Nat) /\ x.uSize \in Nat /\ BlockBytes(b) \in Seq(Nat)
        /\ b.end - b.start \in Nat
    BY <1>1, FieldTypes, BlockBytesType DEF BlockOK
  <2>2. QED
    BY <2>1, ConcatProperties
<1>3. t = [x EXCEPT !.check = v, !.uSize = n]
  BY DEF Counted
<1> HIDE DEF v, n, t
<1>4. t \in State
  <2>1. [x EXCEPT !.check = v] \in State
    BY <1>1, <1>2, SetField
  <2>2. QED
    BY <1>2, <1>3, <2>1, SetField
<1>5. t.outThread = x.outThread /\ t.outPos = x.outPos /\ t.hold = x.hold /\ t.block = x.block
  BY <1>1, <1>3 DEF State
<1>6. QED
  BY <1>4, <1>5, TypedStays DEF Typed, t

LEMMA BeginTyped ==
  ASSUME NEW s, Typed(s), DictTypeOK, NEW b, BlockOK(b), NEW final
  PROVE  TypedAll(BeginCompression(s, b, final))
<1> DEFINE a == Account(s)
           d == IF final THEN b.end ELSE Size
           framed == IF b.start = 0 THEN Then(CloseIfOpen(a, "head"), LAMBDA x : OpenBlock(x, d))
                     ELSE Ok(a)
<1>1. Typed(a) /\ d \in Nat
  BY AccountTyped DEF BlockOK
<1>2. BeginCompression(s, b, final) = Then(framed, LAMBDA x : Ok(Counted(x, b)))
  BY DEF BeginCompression, Counted
<1> HIDE DEF a, d
<1>3. TypedAll(framed)
  <2>1. TypedAll(CloseIfOpen(a, "head")) /\ TypedAll(Ok(a))
    BY <1>1, CloseIfOpenTyped, TypedOutcome
  <2>2. \A o \in CloseIfOpen(a, "head") : TypedAll(OpenBlock(o.fcs, d))
    BY <1>1, <2>1, OpenTyped DEF TypedAll
  <2>3. TypedAll(Then(CloseIfOpen(a, "head"), LAMBDA x : OpenBlock(x, d)))
    BY <2>1, <2>2 DEF Then, TypedAll
  <2>4. QED
    BY <2>1, <2>3
<1> HIDE DEF framed
<1>4. \A o \in framed : TypedAll(Ok(Counted(o.fcs, b)))
  BY <1>3, CountedTyped, TypedOutcome DEF TypedAll
<1>5. QED
  BY <1>2, <1>3, <1>4 DEF Then, TypedAll

LEMMA EndTyped ==
  ASSUME NEW s, Typed(s), NEW dst \in {"head", "tail"} PROVE TypedAll(XzEnd(s, dst))
<1>1. TypedAll(CloseIfOpen(s, dst))
  BY CloseIfOpenTyped
<1>2. ASSUME NEW x, Typed(x)
      PROVE  TypedAll(Ok([x EXCEPT ![dst] = Append(@, Index(x.records))]) \cup OutOfMemory(x))
  <2>1. Index(x.records) \in Piece
    BY <1>2, FieldTypes DEF Typed, Index, IndexPiece, Piece
  <2>2. Typed([x EXCEPT ![dst] = Append(@, Index(x.records))])
    BY <1>2, <2>1, AppendTyped
  <2>3. QED
    BY <1>2, <2>2, TypedOutcome DEF TypedAll
<1>3. QED
  BY <1>1, <1>2 DEF XzEnd, Then, TypedAll

-----------------------------------------------------------------------------
(* Output: what is written, and what is left of the buffers and slices, is *)
(* what there was.                                                         *)
Waiting(s) == s.head \o Available(s) \o s.tail

SameBlock(t, s) ==
  /\ t.hold = s.hold /\ t.block = s.block /\ t.records = s.records /\ t.check = s.check
  /\ t.uSize = s.uSize /\ t.cSize = s.cSize /\ t.open = s.open /\ t.unaccounted = s.unaccounted

LEMMA AvailableType == ASSUME NEW s, InSlices(s) PROVE Available(s) \in Seq(Piece)
<1>1. s.outThread \in Nat /\ Len(jobs) \in Nat /\ s.outThread <= Len(jobs)
  BY DEF InSlices, AtSlice
<1>2. Len(jobs) \in s.outThread .. Len(jobs)
  BY <1>1
<1>3. Pending(s, Len(jobs)) \in Seq(Piece)
  BY <1>2, PendingType
<1>4. QED
  BY <1>3 DEF Available

LEMMA SlicesTaken ==
  ASSUME NEW s, InSlices(s), Available(s) # <<>>, NEW p \in Nat, p <= Len(Available(s)), NEW next,
         next = Max({u \in s.outThread .. Len(jobs) : Len(Pending(s, u)) <= p}),
         NEW r, r.hold = s.hold, r.outThread = next,
         r.outPos = (IF next = s.outThread THEN s.outPos ELSE 0) + p - Len(Pending(s, next))
  PROVE  InSlices(r) /\ Available(r) = SubSeq(Available(s), p + 1, Len(Available(s)))
<1> DEFINE t == s.outThread
           q == s.outPos
           n == Len(jobs)
<1>1. AtSlice(Piece, jobs, n, t, q)
  BY DEF InSlices
<1>2. ~s.hold /\ ~running /\ Available(s) = SlicesTo(jobs, t, q, n)
  BY PendingIsSlices DEF Available
<1>3. next = SliceReached(jobs, t, q, n, p)
  <2>1. \A u : Pending(s, u) = SlicesTo(jobs, t, q, u)
    BY PendingIsSlices
  <2>2. {u \in t .. n : Len(Pending(s, u)) <= p} = {u \in t .. n : Len(SlicesTo(jobs, t, q, u)) <= p}
    BY <2>1
  <2>3. QED
    BY <2>2 DEF SliceReached
<1>4. r.outPos = PlaceReached(jobs, t, q, n, p)
  <2>1. Pending(s, next) = SlicesTo(jobs, t, q, next)
    BY PendingIsSlices
  <2>2. QED
    BY <1>3, <2>1 DEF PlaceReached
<1>5. Available(r) = SlicesTo(jobs, r.outThread, r.outPos, n)
  BY <1>2, PendingIsSlices DEF Available
<1> HIDE DEF t, q, n
<1>6. p <= Len(SlicesTo(jobs, t, q, n))
  BY <1>2
<1>7. /\ AtSlice(Piece, jobs, n, SliceReached(jobs, t, q, n, p), PlaceReached(jobs, t, q, n, p))
      /\ SlicesTo(jobs, SliceReached(jobs, t, q, n, p), PlaceReached(jobs, t, q, n, p), n)
           = SubSeq(SlicesTo(jobs, t, q, n), p + 1, Len(SlicesTo(jobs, t, q, n)))
  BY <1>1, <1>6, SlicesTake
<1>8. QED
  BY <1>2, <1>3, <1>4, <1>5, <1>7 DEF InSlices, n
LEMMA WrittenCut ==
  ASSUME NEW s, Typed(s), NEW n \in Nat
  PROVE  /\ Typed(Written(s, n).fcs) /\ SameBlock(Written(s, n).fcs, s)
         /\ Written(s, n).bytes \in Seq(Piece)
         /\ Written(s, n).bytes \o Waiting(Written(s, n).fcs) = Waiting(s)
         /\ s.head = <<>> => Written(s, n).fcs.head = <<>>
         /\ s.tail = <<>> => Written(s, n).fcs.tail = <<>>
         /\ Available(s) = <<>> => /\ Written(s, n).fcs.outThread = s.outThread
                                  /\ Written(s, n).fcs.outPos = s.outPos
<1> DEFINE a == s.head
           b == Available(s)
           c == s.tail
           tail == IF running /\ ~s.hold THEN <<>> ELSE c
           h == Min({n, Len(a)})
           p == Min({n - h, Len(b)})
           t == Min({n - h - p, Len(tail)})
           next == IF b = <<>> THEN s.outThread
                   ELSE Max({u \in s.outThread .. Len(jobs) : Len(Pending(s, u)) <= p})
           place == IF b = <<>> THEN s.outPos
                    ELSE (IF next = s.outThread THEN s.outPos ELSE 0) + p - Len(Pending(s, next))
           r == [s EXCEPT !.head = SubSeq(a, h + 1, Len(a)), !.tail = SubSeq(c, t + 1, Len(c)),
                          !.outThread = next, !.outPos = place]
           w == SubSeq(a, 1, h) \o SubSeq(b, 1, p) \o SubSeq(tail, 1, t)
<1>1. Written(s, n).bytes = w /\ Written(s, n).fcs = r
  BY DEF Written
<1>2. s \in State /\ InSlices(s)
  BY DEF Typed
<1>3. a \in Seq(Piece) /\ b \in Seq(Piece) /\ c \in Seq(Piece) /\ tail \in Seq(Piece)
  BY <1>2, FieldTypes, AvailableType
<1>4. Len(a) \in Nat /\ Len(b) \in Nat /\ Len(c) \in Nat /\ Len(tail) \in Nat
      /\ Len(tail) <= Len(c)
  BY <1>3, LenProperties
<1> HIDE DEF a, b, c, next, place
<1>5. /\ h \in Nat /\ h <= Len(a) /\ h <= n /\ (h < Len(a) => h = n)
  <2>1. h = IF n <= Len(a) THEN n ELSE Len(a)
    BY <1>4, SmallerOfTwo
  <2>2. QED
    BY <1>4, <2>1
<1> HIDE DEF h
<1>6. /\ p \in Nat /\ p <= Len(b) /\ p <= n - h /\ (p < Len(b) => p = n - h)
  <2>1. p = IF n - h <= Len(b) THEN n - h ELSE Len(b)
    BY <1>4, <1>5, SmallerOfTwo
  <2>2. QED
    BY <1>4, <1>5, <2>1
<1> HIDE DEF p
<1>7. t \in Nat /\ t <= Len(tail) /\ t <= n - h - p
  <2>1. t = IF n - h - p <= Len(tail) THEN n - h - p ELSE Len(tail)
    BY <1>4, <1>5, <1>6, SmallerOfTwo, SMTT(20)
  <2>2. QED
    BY <1>4, <1>5, <1>6, <2>1
<1> HIDE DEF t
<1>8. (h < Len(a) => p = 0 /\ t = 0) /\ (p < Len(b) => t = 0) /\ t <= Len(c)
  BY <1>4, <1>5, <1>6, <1>7
<1>9. SubSeq(tail, 1, t) = SubSeq(c, 1, t)
  <2>1. CASE running /\ ~s.hold
    <3>1. Len(tail) = 0
      BY <2>1
    <3>2. t = 0
      BY <1>7, <3>1
    <3>3. QED
      BY <1>3, <2>1, <3>2, CutEnds
  <2>2. CASE ~(running /\ ~s.hold)
    BY <2>2
  <2>3. QED
    BY <2>1, <2>2
<1>10. CutThree(SubSeq(a, 1, h), SubSeq(b, 1, p), SubSeq(c, 1, t), SubSeq(a, h + 1, Len(a)),
                SubSeq(b, p + 1, Len(b)), SubSeq(c, t + 1, Len(c)), a, b, c)
  BY <1>3, <1>5, <1>6, <1>7, <1>8, CutOfThree
<1> DEFINE ra == SubSeq(a, h + 1, Len(a))
           rc == SubSeq(c, t + 1, Len(c))
<1>11. ra \in Seq(Piece) /\ rc \in Seq(Piece)
  BY <1>3, <1>4, <1>5, <1>7, <1>8, SubSeqProperties
<1>12. w \in Seq(Piece)
  <2>1. SubSeq(a, 1, h) \in Seq(Piece) /\ SubSeq(b, 1, p) \in Seq(Piece)
        /\ SubSeq(c, 1, t) \in Seq(Piece)
    BY <1>3, <1>4, <1>5, <1>6, <1>7, <1>8, SubSeqProperties
  <2>2. QED
    BY <1>9, <2>1, ConcatProperties
<1> HIDE DEF tail, ra, rc
<1>13. next \in Nat /\ place \in Nat /\ SameBlock(r, s) /\ r.hold = s.hold
       /\ r.outThread = next /\ r.outPos = place /\ r.head = ra /\ r.tail = rc
       /\ InSlices(r) /\ Available(r) = SubSeq(b, p + 1, Len(b))
  <2>0. /\ r.outThread = next /\ r.outPos = place /\ r.head = ra /\ r.tail = rc
        /\ r.hold = s.hold /\ SameBlock(r, s)
    BY <1>2 DEF State, SameBlock, ra, rc
  <2>1. InSlices(r) /\ Available(r) = SubSeq(b, p + 1, Len(b))
    <3>1. CASE b = <<>>
      <4>1. r.outThread = s.outThread /\ r.outPos = s.outPos
        BY <2>0, <3>1 DEF next, place
      <4>2. InSlices(r)
        BY <1>2, <4>1 DEF InSlices
      <4>3. Available(r) = Available(s)
        <5>1. \A u : Pending(r, u) = Pending(s, u)
          BY <4>1, PendingIsSlices
        <5>2. QED
          BY <2>0, <5>1 DEF Available
      <4>4. SubSeq(b, p + 1, Len(b)) = b
        <5>1. p = 0
          BY <1>6, <3>1
        <5>2. QED
          BY <1>3, <5>1, CutEnds
      <4>5. QED
        BY <4>2, <4>3, <4>4 DEF b
    <3>2. CASE b # <<>>
      <4>1. next = Max({u \in s.outThread .. Len(jobs) : Len(Pending(s, u)) <= p})
        BY <3>2 DEF next
      <4>2. r.outPos = (IF next = s.outThread THEN s.outPos ELSE 0) + p - Len(Pending(s, next))
        BY <2>0, <3>2 DEF place
      <4>3. p \in Nat /\ p <= Len(Available(s)) /\ Available(s) # <<>>
        BY <1>6, <3>2 DEF b
      <4>4. r.hold = s.hold /\ r.outThread = next /\ InSlices(s)
        BY <1>2, <2>0
      <4> HIDE DEF next, r
      <4>5. QED
        BY <4>1, <4>2, <4>3, <4>4, SlicesTaken DEF b
    <3>3. QED
      BY <3>1, <3>2
  <2>2. next \in Nat /\ place \in Nat
    BY <2>0, <2>1 DEF InSlices, AtSlice
  <2>3. QED
    BY <2>0, <2>1, <2>2
<1>14. r \in State
  <2>1. [s EXCEPT !.head = ra] \in State
    BY <1>2, <1>11, SetField
  <2>2. [s EXCEPT !.head = ra, !.tail = rc] \in State
    BY <1>11, <2>1, SetField
  <2>3. [s EXCEPT !.head = ra, !.tail = rc, !.outThread = next] \in State
    BY <1>13, <2>2, SetField
  <2>4. [s EXCEPT !.head = ra, !.tail = rc, !.outThread = next, !.outPos = place] \in State
    BY <1>13, <2>3, SetField
  <2>5. QED
    BY <2>4 DEF ra, rc
<1>15. Typed(r)
  BY <1>13, <1>14, SMTT(30) DEF Typed, SameBlock
<1> HIDE DEF r, w
<1>16. w \o Waiting(r) = Waiting(s)
  <2>1. Waiting(r) = ra \o SubSeq(b, p + 1, Len(b)) \o rc
    BY <1>13 DEF Waiting
  <2>2. w = SubSeq(a, 1, h) \o SubSeq(b, 1, p) \o SubSeq(c, 1, t)
    BY <1>9 DEF w
  <2>3. Waiting(s) = a \o b \o c
    BY DEF Waiting, a, b, c
  <2>4. QED
    BY <1>10, <2>1, <2>2, <2>3 DEF CutThree, ra, rc
<1>17. (a = <<>> => ra = <<>>) /\ (c = <<>> => rc = <<>>)
  <2>1. a = <<>> => h = Len(a)
    BY <1>4, <1>5
  <2>2. c = <<>> => t = Len(c)
    BY <1>4, <1>7, <1>8
  <2>3. SubSeq(a, Len(a) + 1, Len(a)) = <<>> /\ SubSeq(c, Len(c) + 1, Len(c)) = <<>>
    BY <1>3, CutEnds
  <2>4. QED
    BY <2>1, <2>2, <2>3 DEF ra, rc
<1>18. b = <<>> => next = s.outThread /\ place = s.outPos
  BY DEF next, place
<1>19. QED
  <2>1. r.head = ra /\ r.tail = rc /\ r.outThread = next /\ r.outPos = place
    BY <1>13
  <2>2. /\ s.head = <<>> => r.head = <<>>
        /\ s.tail = <<>> => r.tail = <<>>
        /\ Available(s) = <<>> => r.outThread = s.outThread /\ r.outPos = s.outPos
    BY <1>17, <1>18, <2>1 DEF a, b, c
  <2>3. QED
    BY <1>1, <1>12, <1>13, <1>15, <1>16, <2>2

-----------------------------------------------------------------------------
(* The slices of a block.                                                  *)
LzOf(b, p) == [kind |-> "lz", at |-> data[b.buffer][p], window |-> b.end, reset |-> p = 0]

IsPart(e, b, first, last) ==
  /\ e \in Seq(Piece) /\ Len(e) = last - first
  /\ \A i \in 1 .. last - first : e[i] = LzOf(b, first + i - 1)

LEMMA EncodedType ==
  ASSUME DictTypeOK, NEW b, BlockOK(b), NEW first \in Nat, NEW last \in Nat,
         first <= last, last <= b.end
  PROVE  IsPart(Encoded(b, first, last), b, first, last)
<1>1. b.buffer \in 0 .. 1 /\ b.end \in Nat /\ b.end <= Size
  BY DEF BlockOK
<1> DEFINE n == last - first
<1>2. n \in Nat
  OBVIOUS
<1>3. \A i \in 1 .. n : /\ first + i - 1 \in 0 .. Size - 1
                        /\ (first + i = 1) = (first + i - 1 = 0)
  BY <1>1 DEF DictTypeOK
<1>4. \A p \in 0 .. Size - 1 : LzOf(b, p) \in Piece
  BY <1>1 DEF DictTypeOK, LzOf, LzPiece, Piece
<1>5. Encoded(b, first, last) = [i \in 1 .. n |-> LzOf(b, first + i - 1)]
  BY <1>3 DEF Encoded, LzOf
<1> HIDE DEF n
<1>6. \A i \in 1 .. n : LzOf(b, first + i - 1) \in Piece
  BY <1>3, <1>4
<1>7. /\ Encoded(b, first, last) \in Seq(Piece) /\ Len(Encoded(b, first, last)) = n
      /\ \A i \in 1 .. n : Encoded(b, first, last)[i] = LzOf(b, first + i - 1)
  BY <1>2, <1>5, <1>6
<1>8. QED
  BY <1>7 DEF IsPart, n

LEMMA EncodedJoins ==
  ASSUME DictTypeOK, NEW b, BlockOK(b), NEW first \in Nat, NEW mid \in Nat, NEW last \in Nat,
         first <= mid, mid <= last, last <= b.end
  PROVE  Encoded(b, first, mid) \o Encoded(b, mid, last) = Encoded(b, first, last)
<1> DEFINE x == Encoded(b, first, mid)
           y == Encoded(b, mid, last)
           z == Encoded(b, first, last)
<1>1. b.end \in Nat /\ mid <= b.end /\ first <= last
  BY DEF BlockOK
<1>2. /\ x \in Seq(Piece) /\ Len(x) = mid - first
      /\ \A i \in 1 .. mid - first : x[i] = LzOf(b, first + i - 1)
  <2>1. IsPart(x, b, first, mid)
    BY <1>1, EncodedType
  <2> HIDE DEF x
  <2>2. QED
    BY <2>1 DEF IsPart
<1>3. /\ y \in Seq(Piece) /\ Len(y) = last - mid
      /\ \A i \in 1 .. last - mid : y[i] = LzOf(b, mid + i - 1)
  <2>1. IsPart(y, b, mid, last)
    BY <1>1, EncodedType
  <2> HIDE DEF y
  <2>2. QED
    BY <2>1 DEF IsPart
<1>4. /\ z \in Seq(Piece) /\ Len(z) = last - first
      /\ \A i \in 1 .. last - first : z[i] = LzOf(b, first + i - 1)
  <2>1. IsPart(z, b, first, last)
    BY <1>1, EncodedType
  <2> HIDE DEF z
  <2>2. QED
    BY <2>1 DEF IsPart
<1> HIDE DEF x, y, z
<1>5. /\ x \o y \in Seq(Piece) /\ Len(x \o y) = Len(x) + Len(y)
      /\ \A i \in 1 .. Len(x) + Len(y) : (x \o y)[i] = IF i <= Len(x) THEN x[i] ELSE y[i - Len(x)]
  BY <1>2, <1>3, ConcatProperties, Zenon
<1>6. Len(x \o y) = Len(z)
  BY <1>2, <1>3, <1>4, <1>5
<1>7. ASSUME NEW i \in 1 .. Len(z) PROVE (x \o y)[i] = z[i]
  <2>1. i \in 1 .. Len(x) + Len(y) /\ i \in 1 .. last - first
    BY <1>4, <1>5, <1>6
  <2>2. CASE i <= Len(x)
    <3>1. i \in 1 .. mid - first
      BY <1>2, <2>1, <2>2
    <3>2. QED
      BY <1>2, <1>4, <1>5, <2>1, <2>2, <3>1
  <2>3. CASE ~(i <= Len(x))
    <3>1. /\ i - Len(x) \in 1 .. last - mid
          /\ mid + (i - Len(x)) - 1 = first + i - 1
      BY <1>2, <2>1, <2>3
    <3>2. (x \o y)[i] = y[i - Len(x)]
      BY <1>5, <2>1, <2>3
    <3>3. QED
      BY <1>3, <1>4, <2>1, <3>1, <3>2
  <2>4. QED
    BY <2>2, <2>3
<1>8. x \o y = z
  BY <1>4, <1>5, <1>6, <1>7, SeqEqual
<1>9. QED
  BY <1>8 DEF x, y, z

NbSlices(b)   == IF b.end - b.start < JobCount THEN b.end - b.start ELSE JobCount
SliceFrom(b, u) == IF u = NbSlices(b) THEN b.end
                   ELSE b.start + u * ((b.end - b.start) \div NbSlices(b))

(* No slice is empty, and the last one ends with the block.                *)
LEMMA Offsets ==
  ASSUME NEW b, BlockOK(b)
  PROVE  /\ NbSlices(b) \in Nat \ {0} /\ NbSlices(b) <= JobCount
         /\ SliceFrom(b, 0) = b.start /\ SliceFrom(b, NbSlices(b)) = b.end
         /\ \A u \in 0 .. NbSlices(b) - 1 :
              /\ SliceFrom(b, u) \in Nat /\ b.start <= SliceFrom(b, u)
              /\ SliceFrom(b, u + 1) \in Nat /\ SliceFrom(b, u + 1) <= b.end
              /\ SliceFrom(b, u) < SliceFrom(b, u + 1)
<1> DEFINE size == b.end - b.start
           nb == NbSlices(b)
           q  == size \div nb
<1>1. b.start \in Nat /\ b.end \in Nat /\ size \in Nat \ {0}
  BY DEF BlockOK
<1>2. nb \in Nat \ {0} /\ nb <= size /\ nb <= JobCount
  <2>1. nb = IF size < JobCount THEN size ELSE JobCount
    BY DEF NbSlices
  <2> HIDE DEF size, nb
  <2>2. QED
    BY <1>1, <2>1
<1>3. \A u : SliceFrom(b, u) = IF u = nb THEN b.end ELSE b.start + u * q
  BY DEF SliceFrom
<1>4. b.end = b.start + size
  BY <1>1
<1> HIDE DEF size, nb
<1>5. q \in Nat \ {0} /\ nb * q <= size
  <2>1. q \in Nat /\ nb * q <= size /\ size < nb * q + nb
    BY <1>1, <1>2
  <2>2. q # 0
    <3> HIDE DEF q
    <3> SUFFICES ASSUME q = 0 PROVE FALSE
      OBVIOUS
    <3>1. nb * q = 0
      BY <1>2
    <3>2. size < nb
      BY <1>1, <1>2, <2>1, <3>1
    <3>3. QED
      BY <1>1, <1>2, <3>2
  <2>3. QED
    BY <2>1, <2>2
<1> HIDE DEF q
<1>6. SliceFrom(b, 0) = b.start /\ SliceFrom(b, nb) = b.end
  <2>1. 0 # nb /\ b.start + 0 * q = b.start
    BY <1>1, <1>2, <1>5
  <2>2. QED
    BY <1>3, <2>1
<1>7. ASSUME NEW u \in 0 .. nb - 1
      PROVE  /\ SliceFrom(b, u) \in Nat /\ b.start <= SliceFrom(b, u)
             /\ SliceFrom(b, u + 1) \in Nat /\ SliceFrom(b, u + 1) <= b.end
             /\ SliceFrom(b, u) < SliceFrom(b, u + 1)
  <2>1. u \in Nat /\ u # nb /\ nb - (u + 1) \in Nat
    BY <1>2
  <2>2. u * q \in Nat /\ (u + 1) * q = u * q + q
    BY <1>5, <2>1
  <2>3. (u + 1) * q <= nb * q
    <3>1. (nb - (u + 1)) * q \in Nat
      BY <1>5, <2>1
    <3>2. (nb - (u + 1)) * q = nb * q - (u + 1) * q
      BY <1>2, <1>5, <2>1
    <3>3. nb * q \in Nat /\ (u + 1) * q \in Nat
      BY <1>2, <1>5, <2>1
    <3>4. QED
      BY <3>1, <3>2, <3>3
  <2>4. nb * q \in Nat
    BY <1>2, <1>5
  <2>5. SliceFrom(b, u) = b.start + u * q
    BY <1>3, <2>1
  <2>6. CASE u + 1 = nb
    <3>1. SliceFrom(b, u + 1) = b.end
      BY <1>6, <2>6
    <3>2. QED
      BY <1>1, <1>4, <1>5, <2>2, <2>3, <2>4, <2>5, <3>1
  <2>7. CASE u + 1 # nb
    <3>1. SliceFrom(b, u + 1) = b.start + (u + 1) * q
      BY <1>3, <2>7
    <3>2. QED
      BY <1>1, <1>4, <1>5, <2>2, <2>3, <2>4, <2>5, <3>1
  <2>8. QED
    BY <2>6, <2>7
<1>8. QED
  BY <1>2, <1>6, <1>7 DEF nb

(* The slices of a block together are its bytes, in order and each once.   *)
(* The first slices, and one more.                                         *)
LEMMA OneMoreSlice ==
  ASSUME NEW T, NEW s \in Seq(T), NEW n \in Nat, n + 2 \in 1 .. Len(s)
  PROVE  /\ SubSeq(s, 1, n + 1) \in Seq(T)
         /\ SubSeq(s, 1, n + 2) = Append(SubSeq(s, 1, n + 1), s[n + 2])
<1> DEFINE u == SubSeq(s, 1, n + 1)
           v == SubSeq(s, 1, n + 2)
           w == Append(u, s[n + 2])
<1>1. \A i \in 1 .. n + 2 : s[i] \in T
  <2>1. Len(s) \in Nat
    BY LenProperties
  <2>2. \A i \in 1 .. n + 2 : i \in 1 .. Len(s)
    BY <2>1
  <2>3. QED
    BY <2>2, ElementOfSeq
<1>2. u \in Seq(T) /\ Len(u) = n + 1 /\ \A i \in 1 .. n + 1 : u[i] = s[i]
  <2>1. \A i \in 1 .. n + 1 : i \in 1 .. n + 2 /\ 1 + i - 1 = i
    OBVIOUS
  <2>2. /\ u \in Seq(T) /\ Len(u) = (IF 1 <= n + 1 THEN (n + 1) - 1 + 1 ELSE 0)
        /\ \A i \in 1 .. (n + 1) - 1 + 1 : u[i] = s[1 + i - 1]
    BY <1>1, <2>1, SubSeqProperties
  <2> HIDE DEF u
  <2>3. Len(u) = n + 1
    BY <2>2
  <2>4. \A i \in 1 .. n + 1 : i \in 1 .. (n + 1) - 1 + 1
    OBVIOUS
  <2>5. \A i \in 1 .. n + 1 : u[i] = s[i]
    BY <2>1, <2>2, <2>4, SMTT(30)
  <2>6. QED
    BY <2>2, <2>3, <2>5
<1>3. v \in Seq(T) /\ Len(v) = n + 2 /\ \A i \in 1 .. n + 2 : v[i] = s[i]
  <2>1. \A i \in 1 .. n + 2 : 1 + i - 1 = i
    OBVIOUS
  <2>2. /\ v \in Seq(T) /\ Len(v) = (IF 1 <= n + 2 THEN (n + 2) - 1 + 1 ELSE 0)
        /\ \A i \in 1 .. (n + 2) - 1 + 1 : v[i] = s[1 + i - 1]
    BY <1>1, SubSeqProperties
  <2> HIDE DEF v
  <2>3. QED
    BY <2>1, <2>2
<1>4. s[n + 2] \in T
  BY <1>1
<1> HIDE DEF u, v
<1>5. /\ w \in Seq(T) /\ Len(w) = n + 2 /\ w[n + 2] = s[n + 2]
      /\ \A i \in 1 .. n + 1 : w[i] = u[i]
  <2>1. /\ w \in Seq(T) /\ Len(w) = Len(u) + 1 /\ w[Len(u) + 1] = s[n + 2]
        /\ \A i \in 1 .. Len(u) : w[i] = u[i]
    BY <1>2, <1>4, AppendProperties
  <2> HIDE DEF w
  <2>2. QED
    BY <1>2, <2>1
<1> HIDE DEF w
<1>6. \A i \in 1 .. n + 2 : v[i] = w[i]
  <2> SUFFICES ASSUME NEW i \in 1 .. n + 2 PROVE v[i] = w[i]
    OBVIOUS
  <2>1. i = n + 2 \/ i \in 1 .. n + 1
    OBVIOUS
  <2>2. QED
    BY <1>2, <1>3, <1>5, <2>1
<1>7. v = w
  BY <1>3, <1>5, <1>6, SeqEqual
<1>8. QED
  BY <1>2, <1>7 DEF u, v, w

LEMMA SlicesOfBlock ==
  ASSUME DictTypeOK, NEW b, BlockOK(b)
  PROVE  /\ Slices(b) \in Seq(Seq(Piece)) /\ Len(Slices(b)) \in 1 .. JobCount
         /\ \A u \in 1 .. Len(Slices(b)) : Slices(b)[u] # <<>>
         /\ FlattenSeq(Slices(b)) = Encoded(b, b.start, b.end)
<1> DEFINE nb == NbSlices(b)
           ss == Slices(b)
           at(n) == SliceFrom(b, n)
           piece(n) == Encoded(b, at(n), at(n + 1))
           upTo(n) == Encoded(b, b.start, at(n))
<1>1. /\ nb \in Nat \ {0} /\ nb <= JobCount /\ at(0) = b.start /\ at(nb) = b.end
      /\ b.start \in Nat /\ b.end \in Nat
      /\ \A n \in 0 .. nb - 1 : /\ at(n) \in Nat /\ b.start <= at(n) /\ at(n + 1) \in Nat
                                /\ at(n + 1) <= b.end /\ at(n) < at(n + 1)
  BY Offsets DEF BlockOK
<1>2. /\ ss = [u \in 1 .. nb |-> ss[u]]
      /\ \A u \in 1 .. nb : ss[u] = Encoded(b, at(u - 1), at(u))
  BY DEF Slices, NbSlices, SliceFrom
<1> HIDE DEF nb, ss, at
<1>3. ASSUME NEW n \in 0 .. nb - 1
      PROVE  /\ piece(n) \in Seq(Piece) /\ piece(n) # <<>> /\ upTo(n + 1) \in Seq(Piece)
             /\ upTo(n) \o piece(n) = upTo(n + 1)
  <2>1. /\ at(n) \in Nat /\ b.start <= at(n) /\ at(n + 1) \in Nat /\ at(n + 1) <= b.end
        /\ at(n) < at(n + 1)
    BY <1>1
  <2> DEFINE f == at(n)
             g == at(n + 1)
  <2>a. /\ f \in Nat /\ b.start <= f /\ g \in Nat /\ g <= b.end /\ f < g /\ f <= g
        /\ b.start \in Nat /\ b.start <= g
    BY <1>1, <2>1
  <2> HIDE DEF f, g
  <2>b. IsPart(Encoded(b, f, g), b, f, g) /\ IsPart(Encoded(b, b.start, g), b, b.start, g)
    BY <2>a, EncodedType
  <2>c. Encoded(b, b.start, f) \o Encoded(b, f, g) = Encoded(b, b.start, g)
    BY <2>a, EncodedJoins
  <2>2. piece(n) \in Seq(Piece) /\ Len(piece(n)) = at(n + 1) - at(n)
    BY <2>b DEF IsPart, f, g
  <2>3. upTo(n + 1) \in Seq(Piece)
    BY <2>b DEF IsPart, f, g
  <2>4. upTo(n) \o piece(n) = upTo(n + 1)
    BY <2>c DEF f, g
  <2>5. piece(n) # <<>>
    BY <2>1, <2>2
  <2>6. QED
    BY <2>2, <2>3, <2>4, <2>5
<1>4. \A n \in 0 .. nb - 1 : n + 1 \in 1 .. nb /\ ss[n + 1] = piece(n)
  <2> SUFFICES ASSUME NEW n \in 0 .. nb - 1 PROVE n + 1 \in 1 .. nb /\ ss[n + 1] = piece(n)
    OBVIOUS
  <2>1. n + 1 \in 1 .. nb /\ (n + 1) - 1 = n
    BY <1>1
  <2>2. QED
    BY <1>2, <2>1
<1> HIDE DEF piece
<1>5. \A u \in 1 .. nb : ss[u] \in Seq(Piece) /\ ss[u] # <<>>
  <2> SUFFICES ASSUME NEW u \in 1 .. nb PROVE ss[u] \in Seq(Piece) /\ ss[u] # <<>>
    OBVIOUS
  <2>1. u - 1 \in 0 .. nb - 1 /\ (u - 1) + 1 = u
    BY <1>1
  <2>2. ss[u] = piece(u - 1)
    BY <1>4, <2>1
  <2>3. QED
    BY <1>3, <2>1, <2>2
<1>6. ss \in Seq(Seq(Piece)) /\ Len(ss) = nb
  BY <1>1, <1>2, <1>5, SMTT(20)
<1>7. upTo(0) = <<>>
  <2>1. upTo(0) \in Seq(Piece) /\ Len(upTo(0)) = b.start - b.start
    <3>1. b.start <= b.end /\ b.start <= b.start
      BY DEF BlockOK
    <3>2. IsPart(Encoded(b, b.start, b.start), b, b.start, b.start)
      BY <1>1, <3>1, EncodedType
    <3>3. QED
      BY <1>1, <3>2 DEF IsPart
  <2> HIDE DEF upTo
  <2>2. QED
    BY <1>1, <2>1
<1> HIDE DEF upTo
<1> DEFINE Part(n) == SubSeq(ss, 1, n + 1)
           Good == {n \in Nat : n < nb => FlattenSeq(Part(n)) = upTo(n + 1)}
<1>8. 0 \in Good
  <2>1. Part(0) = <<ss[1]>> /\ ss[1] \in Seq(Piece)
    <3>1. 1 \in 1 .. nb /\ 1 \in 1 .. Len(ss) /\ 0 + 1 = 1
      BY <1>1, <1>6
    <3>2. SubSeq(ss, 1, 1) = <<ss[1]>>
      BY <1>6, <3>1, FirstAlone
    <3>3. QED
      BY <1>5, <3>1, <3>2
  <2>2. FlattenSeq(Part(0)) = ss[1]
    BY <2>1, FlattenOne
  <2>3. 0 \in 0 .. nb - 1 /\ 0 + 1 = 1
    BY <1>1
  <2>4. ss[1] = piece(0) /\ piece(0) \in Seq(Piece) /\ upTo(0) \o piece(0) = upTo(1)
    BY <1>3, <1>4, <2>3
  <2>5. <<>> \o piece(0) = piece(0)
    BY <2>4, ConcatEmptySeq
  <2>6. ss[1] = upTo(1)
    BY <1>7, <2>4, <2>5
  <2>7. QED
    BY <2>2, <2>3, <2>6
<1>9. ASSUME NEW n \in Nat, n \in Good PROVE n + 1 \in Good
  <2> SUFFICES ASSUME n + 1 < nb PROVE FlattenSeq(Part(n + 1)) = upTo((n + 1) + 1)
    OBVIOUS
  <2>1. n < nb /\ n \in 0 .. nb - 1 /\ n + 1 \in 0 .. nb - 1 /\ (n + 1) + 1 \in 1 .. nb
    BY <1>1
  <2>2. FlattenSeq(Part(n)) = upTo(n + 1)
    BY <1>9, <2>1
  <2>3. Part(n) \in Seq(Seq(Piece)) /\ Part(n + 1) = Append(Part(n), ss[(n + 1) + 1])
    <3>1. (n + 1) + 1 = n + 2 /\ n + 2 \in 1 .. Len(ss)
      BY <1>6, <2>1
    <3>2. /\ SubSeq(ss, 1, n + 1) \in Seq(Seq(Piece))
          /\ SubSeq(ss, 1, n + 2) = Append(SubSeq(ss, 1, n + 1), ss[n + 2])
      BY <1>6, <3>1, OneMoreSlice
    <3>3. QED
      BY <3>1, <3>2
  <2>4. ss[(n + 1) + 1] \in Seq(Piece)
    BY <1>5, <2>1
  <2> HIDE DEF Part
  <2>5. FlattenSeq(Part(n + 1)) = FlattenSeq(Part(n)) \o ss[(n + 1) + 1]
    BY <2>3, <2>4, FlattenAppend
  <2>6. ss[(n + 1) + 1] = piece(n + 1) /\ upTo(n + 1) \o piece(n + 1) = upTo((n + 1) + 1)
    BY <1>3, <1>4, <2>1
  <2>7. QED
    BY <2>2, <2>5, <2>6
<1> HIDE DEF Good
<1>10. nb - 1 \in Good
  <2>1. Nat \subseteq Good
    BY <1>8, <1>9, Induction
  <2>2. QED
    BY <1>1, <2>1
<1>11. Part(nb - 1) = ss /\ (nb - 1) + 1 = nb /\ nb - 1 < nb
  <2>1. (nb - 1) + 1 = nb /\ nb - 1 < nb
    BY <1>1
  <2>2. SubSeq(ss, 1, nb) = ss
    BY <1>6, SubSeqFull
  <2>3. QED
    BY <2>1, <2>2
<1>12. FlattenSeq(ss) = upTo(nb)
  BY <1>10, <1>11 DEF Good
<1>13. QED
  BY <1>1, <1>5, <1>6, <1>12 DEF ss, upTo

-----------------------------------------------------------------------------
(* The invariant of types and offsets.  While a block is compressed there  *)
(* are no slices, and what will be read of those to come is their start.   *)
WhileRunning ==
  running => /\ async /\ jobs = <<>> /\ BlockOK(curBlock)
             /\ fcs.outThread = 0 /\ fcs.outPos = 0

Control ==
  /\ running \in BOOLEAN /\ ending \in BOOLEAN /\ endMarked \in BOOLEAN
  /\ ended \in BOOLEAN /\ failed \in BOOLEAN
  /\ Len(jobs) <= JobCount /\ out \in Seq(Piece)

XInv == IInv /\ Typed(fcs) /\ Control /\ WhileRunning

Fresh(s) == s \in State /\ s.block = <<>> /\ s.outThread = 0 /\ s.outPos = 0

LEMMA NoSlices == AtSlice(Piece, <<>>, Len(<<>>), 0, 0)
  BY DEF AtSlice

LEMMA FreshTyped == ASSUME NEW s, Fresh(s), jobs = <<>> PROVE Typed(s)
  BY NoSlices DEF Fresh, Typed, InSlices

LEMMA StartFresh == ASSUME NEW h \in Holds PROVE Fresh(Start(h))
<1>1. h \in BOOLEAN
  BY HoldsAssumption
<1>2. <<>> \in Seq(Piece) /\ <<>> \in Seq(Record) /\ <<>> \in Seq(Nat) /\ <<FileHeader>> \in Seq(Piece)
  <2>1. FileHeader \in Piece
    BY DEF FileHeader, HeaderPiece, Piece
  <2>2. QED
    BY <2>1
<1>3. Start(h) \in State
  <2>1. 0 \in Nat /\ FALSE \in BOOLEAN
    OBVIOUS
  <2>2. QED
    BY <1>1, <1>2, <2>1, Zenon DEF Start, State
<1>4. Start(h).outThread = 0 /\ Start(h).outPos = 0 /\ Start(h).block = <<>>
  BY DEF Start
<1>5. QED
  BY <1>3, <1>4 DEF Fresh

LEMMA XInit == ASSUME Init PROVE XInv
<1>1. IInv
  BY InitIInv DEF Init
<1>2. Typed(fcs) /\ fcs.outThread = 0 /\ fcs.outPos = 0
  <2>1. PICK h \in Holds : fcs = Start(h)
    BY DEF Init
  <2>2. Typed(Start(h))
    BY StartFresh, FreshTyped DEF Init
  <2>3. QED
    BY <2>1, <2>2 DEF Start
<1>3. Control
  <2>1. jobs = <<>> /\ out = <<>>
    BY DEF Init
  <2>2. Len(jobs) <= JobCount /\ out \in Seq(Piece)
    BY <2>1
  <2>3. /\ running \in BOOLEAN /\ ending \in BOOLEAN /\ endMarked \in BOOLEAN
        /\ ended \in BOOLEAN /\ failed \in BOOLEAN
    BY DEF Init
  <2>4. QED
    BY <2>2, <2>3 DEF Control
<1>4. WhileRunning
  BY DEF Init, WhileRunning
<1>5. QED
  BY <1>1, <1>2, <1>3, <1>4 DEF XInv

LEMMA DictStays == ASSUME IInv, UNCHANGED dictVars PROVE IInv'
  BY DEF dictVars, IInv, DictTypeOK, RoomInInterval, HistorySinceReset, WindowIsHistory

(* A stream that is used again keeps what counted its last open block.     *)
Restarted(h, s) == [Start(h) EXCEPT !.check = s.check, !.uSize = s.uSize, !.cSize = s.cSize]

LEMMA RestartFresh == ASSUME NEW h \in Holds, NEW s \in State PROVE Fresh(Restarted(h, s))
<1> DEFINE t == Restarted(h, s)
<1>1. Fresh(Start(h)) /\ Start(h) \in State
  BY StartFresh DEF Fresh
<1>2. s.check \in Seq(Nat) /\ s.uSize \in Nat /\ s.cSize \in Nat
  BY FieldTypes
<1>3. t \in State
  <2>1. [Start(h) EXCEPT !.check = s.check] \in State
    BY <1>1, <1>2, SetField
  <2>2. [Start(h) EXCEPT !.check = s.check, !.uSize = s.uSize] \in State
    BY <1>2, <2>1, SetField
  <2>3. QED
    BY <1>2, <2>2, SetField DEF Restarted
<1>4. /\ t.outThread = Start(h).outThread /\ t.outPos = Start(h).outPos
      /\ t.block = Start(h).block
  BY <1>1 DEF State, Restarted
<1>5. QED
  BY <1>1, <1>3, <1>4 DEF Fresh

LEMMA XReinit == ASSUME XInv, InitCStream PROVE XInv'
<1>1. IInv'
  BY ReinitKeepsIInv DEF XInv, InitCStream
<1>2. PICK h \in Holds : fcs' = Restarted(h, fcs)
  BY DEF InitCStream, Restarted
<1>3. jobs' = <<>> /\ running' = FALSE /\ running = FALSE
  BY DEF InitCStream, XInv, Control
<1>4. Fresh(fcs')
  BY <1>2, RestartFresh DEF XInv, Typed
<1>5. Typed(fcs)'
  BY <1>3, <1>4, NoSlices DEF Fresh, Typed, InSlices
<1>6. Control'
  <2>1. jobs' = <<>> /\ out' = <<>>
    BY DEF InitCStream
  <2>2. Len(jobs') <= JobCount /\ out' \in Seq(Piece)
    BY <2>1
  <2>3. /\ running' \in BOOLEAN /\ ending' \in BOOLEAN /\ endMarked' \in BOOLEAN
        /\ ended' \in BOOLEAN /\ failed' \in BOOLEAN
    BY <1>3 DEF InitCStream
  <2>4. QED
    BY <2>2, <2>3 DEF Control
<1>7. WhileRunning'
  BY <1>3 DEF WhileRunning
<1>8. QED
  BY <1>1, <1>5, <1>6, <1>7 DEF XInv

(* The invariant does not speak of the dictionary buffer but in IInv.      *)
LEMMA InputSteps ==
  ASSUME XInv, IInv', UNCHANGED <<async, fcs, jobs, running, curBlock, userVars, out>>
  PROVE  XInv'
<1>1. Typed(fcs)'
  BY DEF XInv, Typed, InSlices
<1>2. Control' /\ WhileRunning'
  BY DEF XInv, Control, WhileRunning, userVars
<1>3. QED
  BY <1>1, <1>2 DEF XInv

LEMMA ShiftKeepsIInv == ASSUME IInv, Shift PROVE IInv' /\ UNCHANGED async
<1>1. CASE UNCHANGED dictVars
  BY <1>1, DictStays DEF dictVars
<1>2. CASE ~(start < end) /\ DropHistory
  BY <1>2, DropKeepsIInv DEF DropHistory
<1>3. CASE ~(start < end) /\ KeepHistory
  BY <1>3, KeepKeepsIInv DEF KeepHistory
<1>4. QED
  BY <1>1, <1>2, <1>3 DEF Shift

LEMMA XMakeRoom == ASSUME XInv, MakeRoom PROVE XInv'
<1>1. IInv' /\ UNCHANGED async
  BY ShiftKeepsIInv DEF XInv, MakeRoom
<1>2. QED
  BY <1>1, InputSteps DEF MakeRoom

LEMMA XInput == ASSUME XInv, NEW n \in InputSizes, Input(n) PROVE XInv'
<1> DEFINE m == IF n < AvailSpace THEN n ELSE AvailSpace
<1>1. n \in Nat /\ IInv
  BY SizesAssumption DEF XInv
<1>2. AvailSpace \in Nat
  BY <1>1 DEF IInv, DictTypeOK, AvailSpace
<1>3. m \in Nat
  BY <1>1, <1>2
<1>4. Put(m)
  BY DEF Input
<1> HIDE DEF m
<1>5. IInv' /\ UNCHANGED async
  BY <1>1, <1>3, <1>4, PutKeepsIInv DEF Put
<1>6. QED
  BY <1>5, InputSteps DEF Input

LEMMA BlockIsOK == ASSUME DictTypeOK, HasUnprocessed PROVE BlockOK(Block)
  BY DEF DictTypeOK, HasUnprocessed, Block, BlockOK

(* A table of slices, read from its start.                                 *)
Table(js) == js \in Seq(Seq(Piece)) /\ Len(js) <= JobCount /\ \A u \in 1 .. Len(js) : js[u] # <<>>

LEMMA TableStart == ASSUME NEW js, Table(js) PROVE AtSlice(Piece, js, Len(js), 0, 0)
<1>1. js \in Seq(Seq(Piece)) /\ Len(js) \in Nat
  BY LenProperties DEF Table
<1>2. \A u \in 0 .. Len(js) - 1 : u + 1 \in 1 .. Len(js)
  BY <1>1
<1>3. \A u \in 0 .. Len(js) - 1 : js[u + 1] # <<>> /\ js[u + 1] \in Seq(Piece)
  BY <1>1, <1>2, ElementOfSeq DEF Table
<1>4. 0 < Len(js) => 0 < Len(js[0 + 1])
  <2> SUFFICES ASSUME 0 < Len(js) PROVE 0 < Len(js[0 + 1])
    OBVIOUS
  <2>1. 0 \in 0 .. Len(js) - 1
    BY <1>1
  <2>2. js[0 + 1] # <<>> /\ js[0 + 1] \in Seq(Piece)
    BY <1>3, <2>1
  <2> HIDE DEF Table
  <2>3. QED
    BY <2>2
<1>5. QED
  BY <1>1, <1>3, <1>4 DEF AtSlice

LEMMA BlockTable == ASSUME DictTypeOK, NEW b, BlockOK(b) PROVE Table(Slices(b)) /\ Table(<<>>)
  BY SlicesOfBlock DEF Table

Rewound(s) == [s EXCEPT !.outThread = 0, !.outPos = 0, !.unaccounted = TRUE]

LEMMA RewoundFields ==
  ASSUME NEW s, Typed(s)
  PROVE  /\ Rewound(s) \in State /\ Rewound(s).outThread = 0 /\ Rewound(s).outPos = 0
         /\ Rewound(s).hold = s.hold /\ Rewound(s).block = s.block /\ SameFrame(Rewound(s), s)
         /\ Rewound(s).unaccounted
<1>1. s \in State
  BY DEF Typed
<1>2. [s EXCEPT !.outThread = 0] \in State
  BY <1>1, SetField
<1>3. [s EXCEPT !.outThread = 0, !.outPos = 0] \in State
  BY <1>2, SetField
<1>4. Rewound(s) \in State
  BY <1>3, SetField DEF Rewound
<1>5. QED
  BY <1>1, <1>4 DEF Rewound, State, SameFrame

LEMMA XBeginBlock ==
  ASSUME XInv, NEW s, Typed(s), ~running, HasUnprocessed, BeginBlock(s),
         UNCHANGED <<ending, endMarked, ended, out>>
  PROVE  XInv'
<1>1. IInv /\ DictTypeOK /\ BlockOK(Block)
  BY BlockIsOK DEF XInv, IInv
<1>2. IInv' /\ async' = async
  BY <1>1, GetBlockKeepsIInv DEF BeginBlock, GetBlock
<1>3. PICK o \in BeginCompression(s, Block, ending) :
        IF o.res = "ok"
        THEN /\ fcs' = Rewound(o.fcs)
             /\ running' = async
             /\ jobs' = IF async THEN <<>> ELSE Slices(Block)
             /\ UNCHANGED failed
        ELSE /\ fcs' = o.fcs
             /\ failed' = TRUE
             /\ UNCHANGED <<running, jobs>>
  BY DEF BeginBlock, Rewound
<1>4. Typed(o.fcs)
  BY <1>1, BeginTyped DEF TypedAll
<1>5. curBlock' = Block
  BY DEF BeginBlock
<1>6. async \in BOOLEAN
  BY <1>1 DEF DictTypeOK
<1>7. CASE o.res = "ok"
  <2>1. /\ fcs' = Rewound(o.fcs) /\ running' = async /\ UNCHANGED failed
        /\ jobs' = IF async THEN <<>> ELSE Slices(Block)
    BY <1>3, <1>7
  <2>2. Table(jobs')
    BY <1>1, <2>1, BlockTable
  <2>3. /\ fcs' \in State /\ fcs'.outThread = 0 /\ fcs'.outPos = 0 /\ fcs'.hold = o.fcs.hold
        /\ fcs'.block = o.fcs.block
    BY <1>4, <2>1, RewoundFields
  <2>4. Typed(fcs)'
    BY <1>4, <2>2, <2>3, TableStart DEF Typed, InSlices
  <2>5. Control'
    BY <1>6, <2>1, <2>2 DEF XInv, Control, Table
  <2>6. WhileRunning'
    BY <1>1, <1>2, <1>5, <2>1, <2>3 DEF WhileRunning, BlockOK
  <2>7. QED
    BY <1>2, <2>4, <2>5, <2>6 DEF XInv
<1>8. CASE o.res # "ok"
  <2>1. fcs' = o.fcs /\ failed' = TRUE /\ UNCHANGED <<running, jobs>>
    BY <1>3, <1>8
  <2>2. Typed(fcs)'
    BY <1>4, <2>1 DEF Typed, InSlices
  <2>3. Control'
    BY <2>1 DEF XInv, Control
  <2>4. WhileRunning'
    BY <2>1 DEF WhileRunning
  <2>5. QED
    BY <1>2, <2>2, <2>3, <2>4 DEF XInv
<1>9. QED
  BY <1>7, <1>8

(* A step that changes no more than the output state, what was received    *)
(* and the caller's side.                                                  *)
LEMMA OutputSteps ==
  ASSUME XInv, Typed(fcs'), UNCHANGED <<dictVars, jobs, running, curBlock>>,
         running => fcs'.outThread = 0 /\ fcs'.outPos = 0, Control'
  PROVE  XInv'
<1>1. IInv' /\ async' = async
  BY DictStays DEF XInv, dictVars
<1>2. Typed(fcs)'
  BY DEF Typed, InSlices
<1>3. WhileRunning'
  BY <1>1 DEF XInv, WhileRunning
<1>4. QED
  BY <1>1, <1>2, <1>3 DEF XInv

LEMMA XCompress == ASSUME XInv, Compress PROVE XInv'
<1>1. PICK a \in Absorb(fcs) :
        IF a.res = "ok" /\ ~HasSlices(a.fcs) /\ HasUnprocessed
        THEN BeginBlock(a.fcs)
        ELSE fcs' = a.fcs /\ UNCHANGED <<dictVars, jobs, running, curBlock, failed>>
  BY DEF Compress
<1>2. Typed(a.fcs) /\ ~running /\ UNCHANGED <<ending, endMarked, ended, out>>
  BY AbsorbTyped DEF Compress, XInv, TypedAll
<1>3. CASE a.res = "ok" /\ ~HasSlices(a.fcs) /\ HasUnprocessed
  BY <1>1, <1>2, <1>3, XBeginBlock
<1>4. CASE ~(a.res = "ok" /\ ~HasSlices(a.fcs) /\ HasUnprocessed)
  <2>1. fcs' = a.fcs /\ UNCHANGED <<dictVars, jobs, running, curBlock, failed>>
    BY <1>1, <1>4
  <2>2. Control'
    BY <1>2, <2>1 DEF XInv, Control
  <2>3. QED
    BY <1>2, <2>1, <2>2, OutputSteps
<1>5. QED
  BY <1>3, <1>4

LEMMA XEnds == ASSUME XInv, CompressionEnds PROVE XInv'
<1>1. DictTypeOK /\ BlockOK(curBlock) /\ fcs.outThread = 0 /\ fcs.outPos = 0
  BY DEF XInv, IInv, WhileRunning, CompressionEnds
<1>2. Table(jobs') /\ running' = FALSE
  BY <1>1, BlockTable DEF CompressionEnds
<1>3. Typed(fcs)'
  BY <1>1, <1>2, TableStart DEF XInv, Typed, InSlices, CompressionEnds
<1>4. IInv'
  BY DictStays DEF XInv, CompressionEnds
<1>5. Control'
  BY <1>2 DEF XInv, Control, CompressionEnds, Table, userVars
<1>6. QED
  BY <1>2, <1>3, <1>4, <1>5 DEF XInv, WhileRunning

(* While a block is compressed nothing is read of its slices.              *)
LEMMA NothingRead ==
  ASSUME NEW s, Typed(s), running
  PROVE  /\ \A n : /\ Written(s, n).fcs.outThread = s.outThread
                   /\ Written(s, n).fcs.outPos = s.outPos
         /\ Absorb(s) = Ok(s)
<1>1. Available(s) = <<>> /\ ~HasSlices(s)
  BY DEF Available, HasSlices
<1>2. ASSUME NEW n
      PROVE  /\ Written(s, n).fcs.outThread = s.outThread
             /\ Written(s, n).fcs.outPos = s.outPos
  BY <1>1 DEF Written, Typed, State
<1>3. QED
  BY <1>1, <1>2 DEF Absorb

LEMMA XWritten ==
  ASSUME XInv, NEW a \in Absorb(fcs), NEW n \in Nat,
         fcs' = Written(a.fcs, n).fcs, out' = out \o Written(a.fcs, n).bytes,
         UNCHANGED <<dictVars, jobs, running, curBlock, userVars>>
  PROVE  XInv'
<1>1. Typed(a.fcs)
  BY AbsorbTyped DEF XInv, TypedAll
<1>2. Typed(fcs') /\ Written(a.fcs, n).bytes \in Seq(Piece)
  BY <1>1, WrittenCut
<1>3. out' \in Seq(Piece)
  BY <1>2, ConcatProperties DEF XInv, Control
<1>4. Control'
  BY <1>3 DEF XInv, Control, userVars
<1>5. running => fcs'.outThread = 0 /\ fcs'.outPos = 0
  <2> SUFFICES ASSUME running PROVE fcs'.outThread = 0 /\ fcs'.outPos = 0
    OBVIOUS
  <2>1. Typed(fcs) /\ fcs.outThread = 0 /\ fcs.outPos = 0
    BY DEF XInv, WhileRunning
  <2>2. a.fcs = fcs
    BY <2>1, NothingRead DEF Ok
  <2>3. QED
    BY <2>1, <2>2, NothingRead
<1>6. QED
  BY <1>2, <1>4, <1>5, OutputSteps

LEMMA XCopy == ASSUME XInv, NEW n \in OutputSizes, CopyOutput(n) PROVE XInv'
<1>1. n \in Nat
  BY SizesAssumption
<1>2. PICK a \in Absorb(fcs) : fcs' = Written(a.fcs, n).fcs /\ out' = out \o Written(a.fcs, n).bytes
  BY DEF CopyOutput
<1>3. QED
  BY <1>1, <1>2, XWritten DEF CopyOutput

(* How much UF2_getNextCompressedBuffer hands out.                         *)
NextSize(a) ==
  CASE a.res # "ok"      -> 0
    [] a.fcs.head # <<>> -> Len(a.fcs.head)
    [] HasSlices(a.fcs)  -> Len(Rest(a.fcs, a.fcs.outThread))
    [] OTHER             -> Len(a.fcs.tail)

LEMMA NextSizeType == ASSUME NEW a, Typed(a.fcs) PROVE NextSize(a) \in Nat
<1> DEFINE s == a.fcs
<1>1. s \in State /\ InSlices(s)
  BY DEF Typed
<1>2. Len(s.head) \in Nat /\ Len(s.tail) \in Nat
  BY <1>1, FieldTypes, LenProperties
<1>3. HasSlices(s) => Len(Rest(s, s.outThread)) \in Nat
  <2> SUFFICES ASSUME HasSlices(s) PROVE Len(Rest(s, s.outThread)) \in Nat
    OBVIOUS
  <2>1. /\ AtSlice(Piece, jobs, Len(jobs), s.outThread, s.outPos)
        /\ s.outThread \in Nat /\ s.outThread <= s.outThread /\ s.outThread < Len(jobs)
    BY <1>1 DEF InSlices, AtSlice, HasSlices
  <2>2. SliceRest(jobs, s.outThread, s.outPos, s.outThread) \in Seq(Piece)
    BY <2>1, SliceRestType
  <2>3. QED
    BY <2>2, LenProperties DEF Rest, SliceRest
<1>4. QED
  BY <1>2, <1>3 DEF NextSize

LEMMA XNextBuffer == ASSUME XInv, NextBuffer PROVE XInv'
<1>1. PICK a \in Absorb(fcs) : /\ fcs' = Written(a.fcs, NextSize(a)).fcs
                               /\ out' = out \o Written(a.fcs, NextSize(a)).bytes
  BY ZenonT(40) DEF NextBuffer, NextSize
<1>2. Typed(a.fcs)
  BY AbsorbTyped DEF XInv, TypedAll
<1>3. QED
  BY <1>1, <1>2, NextSizeType, XWritten, ZenonT(40) DEF NextBuffer

LEMMA XWriteEnd == ASSUME XInv, WriteEnd PROVE XInv'
<1>1. PICK a \in Absorb(fcs) :
        IF a.res # "ok" THEN fcs' = a.fcs /\ UNCHANGED <<endMarked, failed>>
        ELSE \E o \in XzEnd(a.fcs, IF HasSlices(a.fcs) THEN "tail" ELSE "head") :
               /\ fcs' = o.fcs
               /\ endMarked' = (o.res = "ok")
               /\ failed' = (failed \/ o.res # "ok")
  BY DEF WriteEnd
<1>2. Typed(a.fcs)
  BY AbsorbTyped DEF XInv, TypedAll
<1>3. Typed(fcs') /\ endMarked' \in BOOLEAN /\ failed' \in BOOLEAN
  <2>1. CASE a.res # "ok"
    BY <1>1, <1>2, <2>1 DEF XInv, Control
  <2>2. CASE a.res = "ok"
    <3> DEFINE dst == IF HasSlices(a.fcs) THEN "tail" ELSE "head"
    <3>1. PICK o \in XzEnd(a.fcs, dst) : /\ fcs' = o.fcs
                                         /\ endMarked' = (o.res = "ok")
                                         /\ failed' = (failed \/ o.res # "ok")
      BY <1>1, <2>2
    <3>2. dst \in {"head", "tail"}
      OBVIOUS
    <3> HIDE DEF dst
    <3>3. Typed(o.fcs)
      BY <1>2, <3>2, EndTyped DEF TypedAll
    <3>4. QED
      BY <3>1, <3>3
  <2>3. QED
    BY <2>1, <2>2
<1>4. UNCHANGED <<dictVars, jobs, running, curBlock, ending, ended, out>> /\ ~running
  BY DEF WriteEnd
<1>5. Control'
  BY <1>3, <1>4 DEF XInv, Control
<1>6. QED
  BY <1>3, <1>4, <1>5, OutputSteps

LEMMA XBeginEnd == ASSUME XInv, BeginEnd PROVE XInv'
<1>1. Control'
  BY DEF XInv, Control, BeginEnd
<1>2. QED
  BY <1>1, OutputSteps DEF XInv, WhileRunning, BeginEnd

LEMMA XEndReturns == ASSUME XInv, EndReturns PROVE XInv'
<1>1. Control'
  BY DEF XInv, Control, EndReturns
<1>2. QED
  BY <1>1, OutputSteps DEF XInv, WhileRunning, EndReturns

LEMMA XStutter == ASSUME XInv, UNCHANGED vars PROVE XInv'
<1>1. Control'
  BY DEF XInv, Control, vars, userVars
<1>2. QED
  BY <1>1, OutputSteps DEF XInv, WhileRunning, vars

LEMMA XStep == ASSUME XInv, [Next]_vars PROVE XInv'
  BY XReinit, XMakeRoom, XInput, XCompress, XEnds, XCopy, XNextBuffer, XBeginEnd, XWriteEnd,
     XEndReturns, XStutter DEF Next

LEMMA XInvariance == Spec => []XInv
<1>1. Init => XInv
  BY XInit
<1>2. XInv /\ [Next]_vars => XInv'
  BY XStep
<1>3. QED
  BY <1>1, <1>2, PTL DEF Spec

(* What the output is read from is there: the next slice to read is in the *)
(* table, and the place to read at is in that slice, whatever fails and    *)
(* wherever the copies of output are cut; and only a stream that holds     *)
(* blocks back has a held block.                                           *)
THEOREM SlicesAreInReach == Spec => []XzTypeOK
<1>1. XInv => XzTypeOK
  <2> SUFFICES ASSUME XInv PROVE XzTypeOK
    OBVIOUS
  <2>1. DictTypeOK /\ fcs \in State /\ InSlices(fcs) /\ Len(jobs) <= JobCount
        /\ (~fcs.hold => fcs.block = <<>>)
    BY DEF XInv, IInv, Typed, Control
  <2>2. /\ fcs.outThread \in 0 .. Len(jobs)
        /\ fcs.outThread < Len(jobs) => fcs.outPos < Len(jobs[fcs.outThread + 1])
    BY <2>1 DEF InSlices, AtSlice
  <2>3. fcs.open \in BOOLEAN /\ fcs.unaccounted \in BOOLEAN
    BY <2>1, FieldTypes
  <2>4. QED
    BY <2>1, <2>2, <2>3 DEF XzTypeOK
<1>2. QED
  BY <1>1, XInvariance, PTL

(* The framing takes a block from the dictionary buffer before it can      *)
(* fail, and the caller may go on: what it does with the buffer never      *)
(* lets more than reset_interval bytes be compressed against one           *)
(* dictionary.                                                             *)
THEOREM FramedResetsInTime == Spec => []ResetInTime
<1>1. XInv => ResetInTime
  BY DEF XInv, IInv, ResetInTime, RoomInInterval, DictTypeOK
<1>2. QED
  BY <1>1, XInvariance, PTL

(* Nor is a block ever compressed with a window that a decoder has not, or *)
(* one that is not the stream before it.                                   *)
THEOREM FramedWindow == Spec => []WindowIsDecodable
<1>1. XInv => WindowIsDecodable
  BY DEF XInv, IInv, WindowIsDecodable
<1>2. QED
  BY <1>1, XInvariance, PTL

(* And the input loop, which shifts a full buffer, always makes room.      *)
THEOREM FramedFullShifts == Spec => []FullCanShift
<1>1. XInv => FullCanShift
  <2> SUFFICES ASSUME IInv, start = end, end = Size
               PROVE  NeedShift /\ (KeepsOverlap => end - ShiftFrom < Size)
    BY DEF FullCanShift, XInv
  <2>1. end >= Overlap + Align /\ DictTypeOK
    BY DEF IInv
  <2>2. ShiftFrom \in Nat /\ ShiftFrom >= 1
    BY <2>1, KeptBounds
  <2>3. QED
    BY <2>1, <2>2 DEF NeedShift, DictTypeOK
<1>2. QED
  BY <1>1, XInvariance, PTL

-----------------------------------------------------------------------------
(* A reader of the file, one piece at a time: whether a block is open, how *)
(* many bytes of the stream it has read, where the block began, its header *)
(* and the sizes of the blocks it has closed.                              *)
Reader ==
  {q \in [open : BOOLEAN, done : BOOLEAN, n : Nat, from : Nat, at : Nat,
          head : BlockPiece, recs : Seq(Record)] : q.from <= q.n}

FirstReader ==
  [open |-> FALSE, done |-> FALSE, n |-> 0, from |-> 0, at |-> 0,
   head |-> BlockHeader(0, 0, 0), recs |-> <<>>]

OpenedBy(q, x, i) ==
  [open |-> TRUE, done |-> q.done, n |-> q.n, from |-> q.n, at |-> i, head |-> x, recs |-> q.recs]

Advanced(q, k) ==
  [open |-> q.open, done |-> q.done, n |-> q.n + k, from |-> q.from, at |-> q.at,
   head |-> q.head, recs |-> q.recs]

BlockRecord(q) == [unpadded |-> q.n - q.from + 1, uncompressed |-> q.n - q.from]

ClosedBy(q) ==
  [open |-> FALSE, done |-> q.done, n |-> q.n, from |-> q.from, at |-> q.at,
   head |-> q.head, recs |-> Append(q.recs, BlockRecord(q))]

Finished(q) ==
  [open |-> q.open, done |-> TRUE, n |-> q.n, from |-> q.from, at |-> q.at,
   head |-> q.head, recs |-> q.recs]

(* The positions of n bytes of the stream from a.                          *)
Span(a, n) == [i \in 1 .. n |-> a + i - 1]

(* With two buffers and no overlap a second DICT_shift with nothing put in *)
(* between leads back to the buffer that is being compressed, and what the *)
(* caller puts there overwrites it: then the data may be wrong, though not *)
(* the framing.                                                            *)
OverlapWhenTwo == TRUE \in Modes => Overlap # 0

(* The reader accepts x, which is piece i of the file.                     *)
ReadsBlock(q, x, r, i) == x \in BlockPiece /\ ~q.open /\ r = OpenedBy(q, x, i)

ReadsLz(q, x, r) ==
  /\ x \in LzPiece /\ q.open
  /\ x.reset <=> q.n = q.from
  /\ x.window <= q.head.dict
  /\ OverlapWhenTwo => x.at = q.n
  /\ r = Advanced(q, 1)

ReadsEnd(q, x, r) ==
  /\ x \in EndPiece /\ q.open
  /\ x.check = Span(q.from, q.n - q.from)
  /\ q.head.uncompressed # Unknown => q.head.uncompressed = q.n - q.from
  /\ q.head.compressed # Unknown => q.head.compressed = q.n - q.from + 1
  /\ r = ClosedBy(q)

ReadsIndex(q, x, r) == x \in IndexPiece /\ ~q.open /\ x.records = q.recs /\ r = Finished(q)

Reads(q, x, r, i) ==
  ~q.done /\ (ReadsBlock(q, x, r, i) \/ ReadsLz(q, x, r) \/ ReadsEnd(q, x, r) \/ ReadsIndex(q, x, r))

Reading(f, r) ==
  /\ f \in Seq(Piece) /\ r \in Seq(Reader) /\ Len(f) >= 1 /\ Len(r) = Len(f)
  /\ f[1] = FileHeader /\ r[1] = FirstReader
  /\ \A i \in 2 .. Len(f) : Reads(r[i - 1], f[i], r[i], i)

(* The reader accepts f, and is then in state q.                           *)
ReadUpTo(f, q) == \E r : Reading(f, r) /\ r[Len(f)] = q

LEMMA ReaderTypes ==
  ASSUME NEW q \in Reader
  PROVE  /\ q.open \in BOOLEAN /\ q.done \in BOOLEAN /\ q.n \in Nat /\ q.from \in Nat
         /\ q.at \in Nat /\ q.head \in BlockPiece /\ q.recs \in Seq(Record)
         /\ q.from <= q.n /\ q.n - q.from \in Nat
<1>1. q \in [open : BOOLEAN, done : BOOLEAN, n : Nat, from : Nat, at : Nat,
             head : BlockPiece, recs : Seq(Record)] /\ q.from <= q.n
  BY DEF Reader
<1>2. /\ q.open \in BOOLEAN /\ q.done \in BOOLEAN /\ q.n \in Nat /\ q.from \in Nat
      /\ q.at \in Nat /\ q.head \in BlockPiece /\ q.recs \in Seq(Record)
  BY <1>1
<1>3. QED
  BY <1>1, <1>2

LEMMA FirstReaderType == FirstReader \in Reader
<1>1. BlockHeader(0, 0, 0) \in BlockPiece
  BY DEF BlockHeader, BlockPiece
<1>2. <<>> \in Seq(Record)
  OBVIOUS
<1>3. FirstReader.from <= FirstReader.n
  BY DEF FirstReader
<1>4. FirstReader \in [open : BOOLEAN, done : BOOLEAN, n : Nat, from : Nat, at : Nat,
                       head : BlockPiece, recs : Seq(Record)]
  <2>1. 0 \in Nat /\ FALSE \in BOOLEAN
    OBVIOUS
  <2>2. QED
    BY <1>1, <1>2, <2>1, Zenon DEF FirstReader
<1>5. QED
  BY <1>3, <1>4 DEF Reader

LEMMA ReaderSteps ==
  ASSUME NEW q \in Reader
  PROVE  /\ \A x \in BlockPiece, i \in Nat : OpenedBy(q, x, i) \in Reader
         /\ \A k \in Nat : Advanced(q, k) \in Reader
         /\ ClosedBy(q) \in Reader
         /\ Finished(q) \in Reader
<1> DEFINE R == [open : BOOLEAN, done : BOOLEAN, n : Nat, from : Nat, at : Nat,
                 head : BlockPiece, recs : Seq(Record)]
<1>1. /\ q.open \in BOOLEAN /\ q.done \in BOOLEAN /\ q.n \in Nat /\ q.from \in Nat
      /\ q.at \in Nat /\ q.head \in BlockPiece /\ q.recs \in Seq(Record)
      /\ q.from <= q.n /\ q.n - q.from \in Nat
  BY ReaderTypes
<1>2. ASSUME NEW x \in BlockPiece, NEW i \in Nat PROVE OpenedBy(q, x, i) \in Reader
  <2>1. OpenedBy(q, x, i) \in R
    <3>1. TRUE \in BOOLEAN
      OBVIOUS
    <3>2. QED
      BY <1>1, <3>1, Zenon DEF OpenedBy
  <2>2. OpenedBy(q, x, i).from = q.n /\ OpenedBy(q, x, i).n = q.n
    BY DEF OpenedBy
  <2>3. QED
    BY <1>1, <2>1, <2>2 DEF Reader
<1>3. ASSUME NEW k \in Nat PROVE Advanced(q, k) \in Reader
  <2>1. q.n + k \in Nat /\ q.from <= q.n + k
    BY <1>1
  <2>2. Advanced(q, k) \in R
    BY <1>1, <2>1, Zenon DEF Advanced
  <2>3. Advanced(q, k).from = q.from /\ Advanced(q, k).n = q.n + k
    BY DEF Advanced
  <2>4. QED
    BY <2>1, <2>2, <2>3 DEF Reader
<1>4. ClosedBy(q) \in Reader
  <2>1. BlockRecord(q) \in Record
    BY <1>1 DEF BlockRecord, Record
  <2>2. Append(q.recs, BlockRecord(q)) \in Seq(Record)
    BY <1>1, <2>1, AppendProperties
  <2>3. FALSE \in BOOLEAN
    OBVIOUS
  <2>4. ClosedBy(q) \in R
    BY <1>1, <2>2, <2>3, Zenon DEF ClosedBy
  <2>5. ClosedBy(q).from = q.from /\ ClosedBy(q).n = q.n
    BY DEF ClosedBy
  <2>6. QED
    BY <1>1, <2>4, <2>5 DEF Reader
<1>5. Finished(q) \in Reader
  <2>1. Finished(q) \in R
    <3>1. TRUE \in BOOLEAN
      OBVIOUS
    <3>2. QED
      BY <1>1, <3>1, Zenon DEF Finished
  <2>2. Finished(q).from = q.from /\ Finished(q).n = q.n
    BY DEF Finished
  <2>3. QED
    BY <1>1, <2>1, <2>2 DEF Reader
<1>6. QED
  BY <1>2, <1>3, <1>4, <1>5

LEMMA ReadUpToType ==
  ASSUME NEW f, NEW q, ReadUpTo(f, q) PROVE f \in Seq(Piece) /\ q \in Reader
<1>1. PICK r : Reading(f, r) /\ r[Len(f)] = q
  BY DEF ReadUpTo
<1>2. f \in Seq(Piece) /\ r \in Seq(Reader) /\ Len(r) = Len(f) /\ Len(f) >= 1
  BY <1>1 DEF Reading
<1>3. Len(r) \in 1 .. Len(r)
  <2>1. Len(r) \in Nat
    BY <1>2, LenProperties
  <2>2. QED
    BY <1>2, <2>1
<1>4. r[Len(r)] \in Reader
  BY <1>2, <1>3, ElementOfSeq
<1>5. QED
  BY <1>1, <1>2, <1>4

LEMMA ReadHeader == ReadUpTo(<<FileHeader>>, FirstReader)
<1>1. FileHeader \in Piece
  BY DEF FileHeader, HeaderPiece, Piece
<1>2. Reading(<<FileHeader>>, <<FirstReader>>)
  <2>1. <<FileHeader>> \in Seq(Piece) /\ <<FirstReader>> \in Seq(Reader)
    BY <1>1, FirstReaderType
  <2>2. QED
    BY <2>1 DEF Reading
<1>3. <<FirstReader>>[Len(<<FileHeader>>)] = FirstReader
  OBVIOUS
<1>4. QED
  BY <1>2, <1>3 DEF ReadUpTo

LEMMA ReadOne ==
  ASSUME NEW f, NEW q, ReadUpTo(f, q), NEW x \in Piece, NEW p \in Reader,
         Reads(q, x, p, Len(f) + 1)
  PROVE  ReadUpTo(Append(f, x), p)
<1>1. PICK r : Reading(f, r) /\ r[Len(f)] = q
  BY DEF ReadUpTo
<1>2. /\ f \in Seq(Piece) /\ r \in Seq(Reader) /\ Len(r) = Len(f) /\ Len(f) >= 1
      /\ f[1] = FileHeader /\ r[1] = FirstReader
      /\ \A i \in 2 .. Len(f) : Reads(r[i - 1], f[i], r[i], i)
  BY <1>1 DEF Reading
<1>3. Len(f) \in Nat
  BY <1>2, LenProperties
<1> DEFINE g == Append(f, x)
           t == Append(r, p)
           n == Len(f)
<1>4. /\ g \in Seq(Piece) /\ Len(g) = n + 1 /\ g[n + 1] = x
      /\ \A i \in 1 .. n : g[i] = f[i]
  BY <1>2, AppendProperties
<1>5. /\ t \in Seq(Reader) /\ Len(t) = n + 1 /\ t[n + 1] = p
      /\ \A i \in 1 .. n : t[i] = r[i]
  BY <1>2, AppendProperties
<1> HIDE DEF g, t
<1>6. ASSUME NEW i \in 2 .. n + 1 PROVE Reads(t[i - 1], g[i], t[i], i)
  <2>1. CASE i = n + 1
    <3>1. i - 1 = n /\ n \in 1 .. n
      BY <1>2, <1>3, <2>1
    <3>2. t[i - 1] = q
      BY <1>1, <1>5, <3>1
    <3>3. QED
      BY <1>4, <1>5, <2>1, <3>2
  <2>2. CASE i # n + 1
    <3>1. i \in 2 .. n /\ i \in 1 .. n /\ i - 1 \in 1 .. n
      BY <1>3, <2>2
    <3>2. QED
      BY <1>2, <1>4, <1>5, <3>1
  <2>3. QED
    BY <2>1, <2>2
<1>7. 1 \in 1 .. n /\ n + 1 >= 1
  BY <1>2, <1>3
<1>8. Reading(g, t) /\ t[Len(g)] = p
  BY <1>2, <1>4, <1>5, <1>6, <1>7 DEF Reading
<1>9. QED
  BY <1>8 DEF ReadUpTo, g

(* A run of compressed bytes that the reader in state q accepts.           *)
LzRun(q, e) ==
  /\ e \in Seq(Piece)
  /\ \A i \in 1 .. Len(e) :
       /\ e[i] \in LzPiece
       /\ e[i].reset <=> q.n + i - 1 = q.from
       /\ e[i].window <= q.head.dict
       /\ OverlapWhenTwo => e[i].at = q.n + i - 1

LEMMA AdvancedTwice ==
  ASSUME NEW q \in Reader, NEW k \in Nat
  PROVE  /\ Advanced(Advanced(q, k), 1) = Advanced(q, k + 1)
         /\ Advanced(q, 0) = q
         /\ Advanced(q, k).n = q.n + k /\ Advanced(q, k).from = q.from
         /\ Advanced(q, k).open = q.open /\ Advanced(q, k).done = q.done
         /\ Advanced(q, k).head = q.head
<1>1. q.n \in Nat
  BY ReaderTypes
<1>2. (q.n + k) + 1 = q.n + (k + 1) /\ q.n + 0 = q.n
  BY <1>1
<1>3. Advanced(Advanced(q, k), 1) = Advanced(q, k + 1)
  BY <1>2 DEF Advanced
<1>4. Advanced(q, 0) = q
  BY <1>2 DEF Advanced, Reader
<1>5. QED
  BY <1>3, <1>4 DEF Advanced

LEMMA ReadMany ==
  ASSUME NEW f, NEW q, ReadUpTo(f, q), q.open, ~q.done, NEW e, LzRun(q, e)
  PROVE  ReadUpTo(f \o e, Advanced(q, Len(e)))
<1>1. f \in Seq(Piece) /\ q \in Reader /\ e \in Seq(Piece) /\ Len(e) \in Nat /\ q.n \in Nat
  BY ReadUpToType, ReaderTypes, LenProperties DEF LzRun
<1> DEFINE Part(k) == f \o SubSeq(e, 1, k)
           Good == {k \in Nat : k <= Len(e) => ReadUpTo(Part(k), Advanced(q, k))}
<1>2. 0 \in Good
  <2>1. SubSeq(e, 1, 0) = <<>>
    BY SubSeqEmpty
  <2>2. Part(0) = f
    BY <1>1, <2>1, ConcatEmptySeq
  <2>3. QED
    BY <1>1, <2>2, AdvancedTwice
<1>3. ASSUME NEW k \in Nat, k \in Good PROVE k + 1 \in Good
  <2> SUFFICES ASSUME k + 1 <= Len(e) PROVE ReadUpTo(Part(k + 1), Advanced(q, k + 1))
    OBVIOUS
  <2>1. ReadUpTo(Part(k), Advanced(q, k)) /\ k + 1 \in 1 .. Len(e) /\ k <= Len(e)
    BY <1>1, <1>3
  <2> DEFINE x == e[k + 1]
             a == Advanced(q, k)
             b == Advanced(q, k + 1)
  <2>2. /\ x \in LzPiece
        /\ x.reset <=> q.n + (k + 1) - 1 = q.from
        /\ x.window <= q.head.dict
        /\ OverlapWhenTwo => x.at = q.n + (k + 1) - 1
    BY <2>1 DEF LzRun
  <2>3. a \in Reader /\ b \in Reader
    <3>1. k \in Nat /\ k + 1 \in Nat
      OBVIOUS
    <3>2. \A j \in Nat : Advanced(q, j) \in Reader
      BY <1>1, ReaderSteps
    <3>3. QED
      BY <3>1, <3>2, Zenon
  <2>4. /\ b = Advanced(a, 1) /\ a.n = q.n + k /\ a.from = q.from /\ a.open /\ ~a.done
        /\ a.head = q.head
    BY <1>1, AdvancedTwice, ZenonT(40)
  <2>5. q.n + (k + 1) - 1 = q.n + k
    BY <1>1
  <2>6. Part(k + 1) = Append(Part(k), x)
    <3>1. SubSeq(e, 1, k + 1) = SubSeq(e, 1, k) \o <<x>>
      <4>1. 1 \in 1 .. Len(e) /\ k + 1 \in 1 .. Len(e) /\ (k + 1) - 1 = k
        BY <1>1, <2>1
      <4>2. QED
        BY <1>1, <4>1, SubSeqRecursiveSecond
    <3>2. SubSeq(e, 1, k) \in Seq(Piece)
      BY <1>1, <2>1, SubSeqProperties
    <3>3. x \in Piece
      BY <1>1, <2>1, ElementOfSeq
    <3> DEFINE g == SubSeq(e, 1, k)
    <3>4. <<x>> \in Seq(Piece)
      BY <3>3
    <3> DEFINE y == <<x>>
    <3>a. g \in Seq(Piece) /\ y \in Seq(Piece) /\ f \in Seq(Piece)
      BY <1>1, <3>2, <3>4
    <3> HIDE DEF g, x, y
    <3>b. f \o (g \o y) = (f \o g) \o y
      BY <3>a, ConcatAssociative, SMTT(20)
    <3>5. f \o (g \o <<x>>) = (f \o g) \o <<x>>
      BY <3>b DEF y
    <3>6. f \o g \in Seq(Piece)
      BY <3>a, ConcatProperties
    <3>7. Append(f \o g, x) = (f \o g) \o <<x>>
      BY <3>3, <3>6, AppendIsConcat
    <3>8. QED
      BY <3>1, <3>5, <3>7 DEF g
  <2>7. x \in Piece
    BY <2>2 DEF Piece
  <2> HIDE DEF x, a, b
  <2>8. ReadsLz(a, x, b)
    BY <2>2, <2>4, <2>5 DEF ReadsLz
  <2>9. Reads(a, x, b, Len(Part(k)) + 1)
    BY <2>4, <2>8 DEF Reads
  <2>10. ReadUpTo(Append(Part(k), x), b)
    <3> HIDE DEF Part
    <3>1. QED
      BY <2>1, <2>3, <2>7, <2>9, ReadOne DEF a
  <2>11. QED
    BY <2>6, <2>10 DEF b
<1> HIDE DEF Good
<1>4. Nat \subseteq Good
  BY <1>2, <1>3, Induction
<1>5. Len(e) \in Good
  BY <1>1, <1>4
<1>6. Part(Len(e)) = f \o e
  BY <1>1, SubSeqFull
<1>7. ReadUpTo(Part(Len(e)), Advanced(q, Len(e)))
  BY <1>1, <1>5 DEF Good
<1>8. QED
  BY <1>6, <1>7

LEMMA SpanType ==
  ASSUME NEW a \in Nat, NEW n \in Nat
  PROVE  /\ Span(a, n) \in Seq(Nat) /\ Len(Span(a, n)) = n
         /\ \A i \in 1 .. n : Span(a, n)[i] = a + i - 1
<1>1. \A i \in 1 .. n : a + i - 1 \in Nat
  OBVIOUS
<1>2. QED
  BY <1>1 DEF Span

LEMMA SpanJoins ==
  ASSUME NEW a \in Nat, NEW m \in Nat, NEW n \in Nat
  PROVE  Span(a, m) \o Span(a + m, n) = Span(a, m + n)
<1> DEFINE x == Span(a, m)
           y == Span(a + m, n)
           z == Span(a, m + n)
<1>1. /\ x \in Seq(Nat) /\ Len(x) = m /\ \A i \in 1 .. m : x[i] = a + i - 1
  BY SpanType
<1>2. a + m \in Nat /\ m + n \in Nat
  OBVIOUS
<1>3. /\ y \in Seq(Nat) /\ Len(y) = n /\ \A i \in 1 .. n : y[i] = (a + m) + i - 1
  BY <1>2, SpanType
<1>4. /\ z \in Seq(Nat) /\ Len(z) = m + n /\ \A i \in 1 .. m + n : z[i] = a + i - 1
  BY <1>2, SpanType
<1> HIDE DEF x, y, z
<1>5. /\ x \o y \in Seq(Nat) /\ Len(x \o y) = Len(x) + Len(y)
      /\ \A i \in 1 .. Len(x) + Len(y) : (x \o y)[i] = IF i <= Len(x) THEN x[i] ELSE y[i - Len(x)]
  BY <1>1, <1>3, ConcatProperties, Zenon
<1>6. ASSUME NEW i \in 1 .. m + n PROVE (x \o y)[i] = z[i]
  <2>1. (x \o y)[i] = IF i <= m THEN x[i] ELSE y[i - m]
    BY <1>1, <1>3, <1>5
  <2>2. CASE i <= m
    BY <1>1, <1>4, <2>1, <2>2
  <2>3. CASE ~(i <= m)
    <3>1. i - m \in 1 .. n /\ (a + m) + (i - m) - 1 = a + i - 1
      BY <2>3
    <3>2. QED
      BY <1>3, <1>4, <2>1, <2>3, <3>1
  <2>4. QED
    BY <2>2, <2>3
<1>7. x \o y = z
  <2>1. Len(x \o y) = Len(z)
    BY <1>1, <1>3, <1>4, <1>5
  <2>2. QED
    BY <1>4, <1>5, <1>6, <2>1, SeqEqual
<1>8. QED
  BY <1>7 DEF x, y, z

-----------------------------------------------------------------------------
(* What a file that the reader accepts is like, and what its state tells.  *)
Places(f, k)         == {i \in 1 .. Len(f) : f[i].kind = k}
CountBefore(f, k, i) == Cardinality({j \in Places(f, k) : j < i})
OpeningOf(f, i)      == Max({j \in Places(f, "block") : j <= i})
SizesAt(f, i)        == [unpadded |-> i - OpeningOf(f, i), uncompressed |-> i - OpeningOf(f, i) - 1]

LEMMA CountStarts == ASSUME NEW f, NEW k PROVE CountBefore(f, k, 1) = 0
<1>1. {j \in Places(f, k) : j < 1} = {}
  BY DEF Places
<1>2. QED
  BY <1>1, FS_EmptySet DEF CountBefore

LEMMA CountSteps ==
  ASSUME NEW f, Len(f) \in Nat, NEW k, NEW i \in 1 .. Len(f)
  PROVE  /\ CountBefore(f, k, i) \in Nat
         /\ CountBefore(f, k, i + 1) = CountBefore(f, k, i) + (IF f[i].kind = k THEN 1 ELSE 0)
<1> DEFINE S == {j \in Places(f, k) : j < i}
           T == {j \in Places(f, k) : j < i + 1}
<1>1. IsFiniteSet(S) /\ Cardinality(S) \in Nat
  <2>1. S \in SUBSET (1 .. Len(f)) /\ IsFiniteSet(1 .. Len(f))
    BY FS_Interval DEF Places
  <2>2. IsFiniteSet(S)
    BY <2>1, FS_Subset
  <2>3. QED
    BY <2>2, FS_CardinalityType
<1>2. CASE f[i].kind = k
  <2>1. T = S \cup {i} /\ i \notin S
    BY <1>2 DEF Places
  <2>2. Cardinality(T) = Cardinality(S) + 1
    BY <1>1, <2>1, FS_AddElement
  <2>3. QED
    BY <1>1, <1>2, <2>2 DEF CountBefore
<1>3. CASE f[i].kind # k
  <2>1. T = S
    BY <1>3 DEF Places
  <2>2. Cardinality(T) = Cardinality(S) /\ Cardinality(S) \in Nat
    BY <1>1, <2>1
  <2> HIDE DEF S, T
  <2>3. Cardinality(T) = Cardinality(S) + 0
    BY <2>2
  <2>4. QED
    BY <1>3, <2>2, <2>3 DEF CountBefore, S, T
<1>4. QED
  BY <1>2, <1>3

(* One step of the reader, seen in what it counts.                         *)
IsKind(x, k) == IF x.kind = k THEN 1 ELSE 0
Opens(q)     == IF q.open THEN 1 ELSE 0

LEMMA Kinds ==
  ASSUME NEW x
  PROVE  /\ x \in BlockPiece => x.kind = "block"
         /\ x \in LzPiece => x.kind = "lz"
         /\ x \in EndPiece => x.kind = "blockEnd"
         /\ x \in IndexPiece => x.kind = "index"
         /\ x \in HeaderPiece => x.kind = "header"
         /\ x \in Piece => x.kind \in {"header", "block", "lz", "blockEnd", "index"}
  BY DEF BlockPiece, LzPiece, EndPiece, IndexPiece, HeaderPiece, Piece

LEMMA StepCounts ==
  ASSUME NEW q \in Reader, NEW x, NEW p, NEW i, Reads(q, x, p, i)
  PROVE  /\ Len(p.recs) + Opens(p) = Len(q.recs) + Opens(q) + IsKind(x, "block")
         /\ Len(p.recs) = Len(q.recs) + IsKind(x, "blockEnd")
         /\ p.n = q.n + IsKind(x, "lz")
         /\ x.kind # "header" /\ (p.done <=> x.kind = "index") /\ ~q.done
         /\ (x.kind \in {"block", "index"} => ~q.open) /\ (x.kind \in {"lz", "blockEnd"} => q.open)
<1>1. q.recs \in Seq(Record) /\ q.n \in Nat /\ q.from \in Nat /\ Len(q.recs) \in Nat
  BY ReaderTypes, LenProperties
<1>2. CASE ReadsBlock(q, x, p, i)
  <2>1. x.kind = "block" /\ ~q.open /\ ~q.done
    BY <1>2, Kinds DEF ReadsBlock, Reads
  <2>2. p.recs = q.recs /\ p.open = TRUE /\ p.n = q.n /\ p.done = q.done
    BY <1>2 DEF ReadsBlock, OpenedBy
  <2>3. /\ IsKind(x, "block") = 1 /\ IsKind(x, "blockEnd") = 0 /\ IsKind(x, "lz") = 0
        /\ Opens(q) = 0 /\ Opens(p) = 1
    BY <2>1, <2>2 DEF IsKind, Opens
  <2>4. /\ Len(p.recs) + Opens(p) = Len(q.recs) + Opens(q) + IsKind(x, "block")
        /\ Len(p.recs) = Len(q.recs) + IsKind(x, "blockEnd")
        /\ p.n = q.n + IsKind(x, "lz")
    BY <1>1, <2>2, <2>3
  <2>5. QED
    BY <2>1, <2>2, <2>4
<1>3. CASE ReadsLz(q, x, p)
  <2>1. x.kind = "lz" /\ q.open /\ ~q.done
    BY <1>3, Kinds DEF ReadsLz, Reads
  <2>2. p.recs = q.recs /\ p.open = q.open /\ p.n = q.n + 1 /\ p.done = q.done
    BY <1>3 DEF ReadsLz, Advanced
  <2>3. /\ IsKind(x, "block") = 0 /\ IsKind(x, "blockEnd") = 0 /\ IsKind(x, "lz") = 1
        /\ Opens(q) = 1 /\ Opens(p) = 1
    BY <2>1, <2>2 DEF IsKind, Opens
  <2>4. /\ Len(p.recs) + Opens(p) = Len(q.recs) + Opens(q) + IsKind(x, "block")
        /\ Len(p.recs) = Len(q.recs) + IsKind(x, "blockEnd")
        /\ p.n = q.n + IsKind(x, "lz")
    BY <1>1, <2>2, <2>3
  <2>5. QED
    BY <2>1, <2>2, <2>4
<1>4. CASE ReadsEnd(q, x, p)
  <2>1. x.kind = "blockEnd" /\ q.open /\ ~q.done
    BY <1>4, Kinds DEF ReadsEnd, Reads
  <2>2. p.recs = Append(q.recs, BlockRecord(q)) /\ p.open = FALSE /\ p.n = q.n /\ p.done = q.done
    BY <1>4 DEF ReadsEnd, ClosedBy
  <2>3. Len(p.recs) = Len(q.recs) + 1
    <3>1. BlockRecord(q) \in Record
      BY ReaderTypes DEF BlockRecord, Record
    <3>2. QED
      BY <1>1, <2>2, <3>1, AppendProperties
  <2>4. /\ IsKind(x, "block") = 0 /\ IsKind(x, "blockEnd") = 1 /\ IsKind(x, "lz") = 0
        /\ Opens(q) = 1 /\ Opens(p) = 0
    BY <2>1, <2>2 DEF IsKind, Opens
  <2>5. /\ Len(p.recs) + Opens(p) = Len(q.recs) + Opens(q) + IsKind(x, "block")
        /\ Len(p.recs) = Len(q.recs) + IsKind(x, "blockEnd")
        /\ p.n = q.n + IsKind(x, "lz")
    BY <1>1, <2>2, <2>3, <2>4
  <2>6. QED
    BY <2>1, <2>2, <2>5
<1>5. CASE ReadsIndex(q, x, p)
  <2>1. x.kind = "index" /\ ~q.open /\ ~q.done
    BY <1>5, Kinds DEF ReadsIndex, Reads
  <2>2. p.recs = q.recs /\ p.open = q.open /\ p.n = q.n /\ p.done = TRUE
    BY <1>5 DEF ReadsIndex, Finished
  <2>3. /\ IsKind(x, "block") = 0 /\ IsKind(x, "blockEnd") = 0 /\ IsKind(x, "lz") = 0
        /\ Opens(q) = 0 /\ Opens(p) = 0
    BY <2>1, <2>2 DEF IsKind, Opens
  <2>4. /\ Len(p.recs) + Opens(p) = Len(q.recs) + Opens(q) + IsKind(x, "block")
        /\ Len(p.recs) = Len(q.recs) + IsKind(x, "blockEnd")
        /\ p.n = q.n + IsKind(x, "lz")
    BY <1>1, <2>2, <2>3
  <2>5. QED
    BY <2>1, <2>2, <2>4
<1>6. QED
  BY <1>2, <1>3, <1>4, <1>5 DEF Reads

Counts(f, q, i) ==
  /\ CountBefore(f, "block", i) = Len(q.recs) + Opens(q)
  /\ CountBefore(f, "blockEnd", i) = Len(q.recs)
  /\ CountBefore(f, "lz", i) = q.n

LEMMA ReadingTypes ==
  ASSUME NEW f, NEW r, Reading(f, r)
  PROVE  /\ Len(f) \in Nat /\ Len(f) >= 1
         /\ \A i \in 1 .. Len(f) : r[i] \in Reader /\ f[i] \in Piece
         /\ f[1] = FileHeader /\ r[1] = FirstReader
         /\ \A i \in 2 .. Len(f) : i - 1 \in 1 .. Len(f) /\ Reads(r[i - 1], f[i], r[i], i)
<1>1. f \in Seq(Piece) /\ r \in Seq(Reader) /\ Len(f) >= 1 /\ Len(r) = Len(f)
  BY DEF Reading
<1>2. Len(f) \in Nat
  BY <1>1, LenProperties
<1>3. \A i \in 1 .. Len(f) : r[i] \in Reader /\ f[i] \in Piece
  BY <1>1, ElementOfSeq
<1>4. \A i \in 2 .. Len(f) : i - 1 \in 1 .. Len(f)
  BY <1>2
<1>5. QED
  BY <1>1, <1>2, <1>3, <1>4 DEF Reading

LEMMA ReadingCounts ==
  ASSUME NEW f, NEW r, Reading(f, r) PROVE \A i \in 1 .. Len(f) : Counts(f, r[i], i + 1)
<1>1. /\ Len(f) \in Nat /\ Len(f) >= 1
      /\ \A i \in 1 .. Len(f) : r[i] \in Reader /\ f[i] \in Piece
      /\ f[1] = FileHeader /\ r[1] = FirstReader
      /\ \A i \in 2 .. Len(f) : i - 1 \in 1 .. Len(f) /\ Reads(r[i - 1], f[i], r[i], i)
  BY ReadingTypes
<1> DEFINE Good == {j \in Nat : j + 1 <= Len(f) => Counts(f, r[j + 1], (j + 1) + 1)}
<1>2. 0 \in Good
  <2>1. 1 \in 1 .. Len(f) /\ 0 + 1 = 1 /\ f[1].kind = "header"
    BY <1>1 DEF FileHeader
  <2>2. ASSUME NEW k \in {"block", "blockEnd", "lz"} PROVE CountBefore(f, k, 1 + 1) = 0
    <3>1. f[1].kind # k
      BY <2>1, <2>2
    <3>2. CountBefore(f, k, 1 + 1) = CountBefore(f, k, 1) + (IF f[1].kind = k THEN 1 ELSE 0)
      BY <1>1, <2>1, CountSteps
    <3>3. QED
      BY <3>1, <3>2, CountStarts
  <2>3. r[1].recs = <<>> /\ r[1].open = FALSE /\ r[1].n = 0
    BY <1>1 DEF FirstReader
  <2>4. Counts(f, r[1], 1 + 1)
    BY <2>2, <2>3 DEF Counts, Opens
  <2>5. QED
    BY <2>1, <2>4
<1>3. ASSUME NEW j \in Nat, j \in Good PROVE j + 1 \in Good
  <2> SUFFICES ASSUME (j + 1) + 1 <= Len(f) PROVE Counts(f, r[(j + 1) + 1], ((j + 1) + 1) + 1)
    OBVIOUS
  <2> DEFINE i == (j + 1) + 1
             q == r[j + 1]
             p == r[i]
             x == f[i]
  <2>1. i \in 2 .. Len(f) /\ i \in 1 .. Len(f) /\ i - 1 = j + 1 /\ j + 1 \in 1 .. Len(f)
    BY <1>1
  <2>2. Counts(f, q, i) /\ Reads(q, x, p, i) /\ q \in Reader
    BY <1>1, <1>3, <2>1
  <2>3. \A k : CountBefore(f, k, i + 1) = CountBefore(f, k, i) + IsKind(x, k)
    BY <1>1, <2>1, CountSteps DEF IsKind
  <2> HIDE DEF i, q, p, x
  <2>4. /\ Len(p.recs) + Opens(p) = Len(q.recs) + Opens(q) + IsKind(x, "block")
        /\ Len(p.recs) = Len(q.recs) + IsKind(x, "blockEnd")
        /\ p.n = q.n + IsKind(x, "lz")
    BY <2>2, StepCounts
  <2>5. Counts(f, p, i + 1)
    BY <2>2, <2>3, <2>4 DEF Counts
  <2>6. QED
    BY <2>5 DEF i, p
<1> HIDE DEF Good
<1>4. Nat \subseteq Good
  BY <1>2, <1>3, Induction
<1>5. ASSUME NEW i \in 1 .. Len(f) PROVE Counts(f, r[i], i + 1)
  <2>1. i - 1 \in Good /\ (i - 1) + 1 = i
    BY <1>4
  <2>2. QED
    BY <2>1 DEF Good
<1>6. QED
  BY <1>5

(* The block that the reader is in: where it began, and what is in it.     *)
InBlock(f, q, i) ==
  q.open =>
    /\ q.at \in 2 .. i /\ f[q.at] = q.head
    /\ q.n - q.from = i - q.at
    /\ \A j \in q.at + 1 .. i :
         /\ f[j] \in LzPiece /\ f[j].window <= q.head.dict
         /\ f[j].reset <=> j = q.at + 1
         /\ OverlapWhenTwo => f[j].at = q.from + (j - q.at) - 1

LEMMA InBlockSteps ==
  ASSUME NEW f, NEW q \in Reader, NEW i \in Nat, i >= 2, InBlock(f, q, i - 1), NEW p,
         Reads(q, f[i], p, i)
  PROVE  InBlock(f, p, i)
<1>1. q.n \in Nat /\ q.from \in Nat /\ q.at \in Nat
  BY ReaderTypes
<1> DEFINE x == f[i]
<1>2. CASE ReadsBlock(q, x, p, i)
  <2>1. p.at = i /\ p.head = x /\ p.n = q.n /\ p.from = q.n
    BY <1>2 DEF ReadsBlock, OpenedBy
  <2>2. i \in 2 .. i /\ q.n - q.n = i - i /\ (i + 1 .. i) = {}
    BY <1>1
  <2>3. QED
    BY <2>1, <2>2 DEF InBlock
<1>3. CASE ReadsLz(q, x, p)
  <2>1. /\ p.at = q.at /\ p.head = q.head /\ p.n = q.n + 1 /\ p.from = q.from
        /\ p.open = q.open /\ q.open
    BY <1>3 DEF ReadsLz, Advanced
  <2>2. /\ q.at \in 2 .. i - 1 /\ f[q.at] = q.head
        /\ q.n - q.from = (i - 1) - q.at
        /\ \A j \in q.at + 1 .. i - 1 :
             /\ f[j] \in LzPiece /\ f[j].window <= q.head.dict
             /\ f[j].reset <=> j = q.at + 1
             /\ OverlapWhenTwo => f[j].at = q.from + (j - q.at) - 1
    BY <2>1 DEF InBlock
  <2>3. /\ x \in LzPiece /\ x.window <= q.head.dict
        /\ x.reset <=> q.n = q.from
        /\ OverlapWhenTwo => x.at = q.n
    BY <1>3 DEF ReadsLz
  <2>4. /\ q.at \in 2 .. i /\ (q.n + 1) - q.from = i - q.at
        /\ (q.n = q.from <=> i = q.at + 1)
        /\ q.n = q.from + (i - q.at) - 1
    BY <1>1, <2>2
  <2>5. ASSUME NEW j \in q.at + 1 .. i
        PROVE  /\ f[j] \in LzPiece /\ f[j].window <= q.head.dict
               /\ f[j].reset <=> j = q.at + 1
               /\ OverlapWhenTwo => f[j].at = q.from + (j - q.at) - 1
    <3>1. CASE j = i
      BY <2>3, <2>4, <3>1
    <3>2. CASE j # i
      <4>1. j \in q.at + 1 .. i - 1
        BY <1>1, <3>2
      <4>2. QED
        BY <2>2, <4>1
    <3>3. QED
      BY <3>1, <3>2
  <2>6. QED
    BY <2>1, <2>2, <2>4, <2>5 DEF InBlock
<1>4. CASE ReadsEnd(q, x, p)
  BY <1>4 DEF ReadsEnd, ClosedBy, InBlock
<1>5. CASE ReadsIndex(q, x, p)
  BY <1>5 DEF ReadsIndex, Finished, InBlock
<1>6. QED
  BY <1>2, <1>3, <1>4, <1>5 DEF Reads

LEMMA OpeningIs ==
  ASSUME NEW f, NEW q \in Reader, NEW i \in 2 .. Len(f), Len(f) \in Nat, q.open, InBlock(f, q, i - 1),
         q.head = f[q.at], f[i].kind # "block"
  PROVE  OpeningOf(f, i) = q.at
<1> DEFINE N == {j \in Places(f, "block") : j <= i}
<1>1. /\ q.at \in 2 .. i - 1 /\ \A j \in q.at + 1 .. i - 1 : f[j] \in LzPiece
      /\ f[q.at].kind = "block"
  BY ReaderTypes, Kinds DEF InBlock
<1>2. q.at \in N
  BY <1>1 DEF Places
<1>3. \A j \in N : j <= q.at
  <2> SUFFICES ASSUME NEW j \in N, ~(j <= q.at) PROVE FALSE
    OBVIOUS
  <2>1. j \in 1 .. Len(f) /\ j <= i /\ f[j].kind = "block"
    BY DEF Places
  <2>2. j # i
    BY <2>1
  <2>3. j \in q.at + 1 .. i - 1
    BY <1>1, <2>1, <2>2
  <2>4. f[j].kind = "lz"
    BY <1>1, <2>3, Kinds
  <2>5. QED
    BY <2>1, <2>4
<1>4. N \subseteq Int /\ q.at \in Int
  BY <1>1 DEF Places
<1> HIDE DEF N
<1>5. Max(N) \in N /\ \A j \in N : j <= Max(N)
  BY <1>2, <1>3, <1>4, GreatestElement
<1>6. Max(N) = q.at
  BY <1>2, <1>3, <1>4, <1>5
<1>7. QED
  BY <1>6 DEF OpeningOf, N

(* The sizes of the closed blocks, in the order of their ends.             *)
SizesKept(f, q, i) ==
  \A j \in 1 .. i :
    f[j].kind = "blockEnd" =>
      /\ CountBefore(f, "blockEnd", j) + 1 \in 1 .. Len(q.recs)
      /\ q.recs[CountBefore(f, "blockEnd", j) + 1] = SizesAt(f, j)

LEMMA SizesSteps ==
  ASSUME NEW f, Len(f) \in Nat, NEW q \in Reader, NEW i \in 2 .. Len(f), InBlock(f, q, i - 1),
         SizesKept(f, q, i - 1), Counts(f, q, i), NEW p, Reads(q, f[i], p, i)
  PROVE  SizesKept(f, p, i)
<1> DEFINE x == f[i]
           C(j) == CountBefore(f, "blockEnd", j)
           n == Len(q.recs)
<1>1. q.recs \in Seq(Record) /\ n \in Nat /\ C(i) = n /\ q.n \in Nat /\ q.from \in Nat
  BY ReaderTypes, LenProperties DEF Counts
<1>2. \A j \in 1 .. i - 1 :
        f[j].kind = "blockEnd" => C(j) + 1 \in 1 .. n /\ q.recs[C(j) + 1] = SizesAt(f, j)
  BY DEF SizesKept
<1>3. CASE ReadsEnd(q, x, p)
  <2>1. BlockRecord(q) \in Record
    BY ReaderTypes DEF BlockRecord, Record
  <2>2. p.recs = Append(q.recs, BlockRecord(q)) /\ q.open /\ x \in EndPiece
    BY <1>3 DEF ReadsEnd, ClosedBy
  <2>3. /\ Len(p.recs) = n + 1 /\ p.recs[n + 1] = BlockRecord(q)
        /\ \A k \in 1 .. n : p.recs[k] = q.recs[k]
    BY <1>1, <2>1, <2>2, AppendProperties
  <2>4. x.kind = "blockEnd"
    BY <2>2, Kinds
  <2>5. BlockRecord(q) = SizesAt(f, i)
    <3>1. OpeningOf(f, i) = q.at /\ q.at \in Nat
      <4>1. q.head = f[q.at]
        BY <2>2 DEF InBlock
      <4>2. f[i].kind # "block"
        BY <2>4
      <4>3. QED
        BY <2>2, <4>1, <4>2, OpeningIs, ReaderTypes
    <3>2. q.n - q.from = (i - 1) - q.at
      BY <2>2 DEF InBlock
    <3>3. q.n - q.from + 1 = i - q.at /\ q.n - q.from = i - q.at - 1
      BY <1>1, <3>1, <3>2, SMTT(20)
    <3>4. QED
      BY <3>1, <3>3 DEF BlockRecord, SizesAt
  <2> HIDE DEF C, n
  <2>6. ASSUME NEW j \in 1 .. i, f[j].kind = "blockEnd"
        PROVE  C(j) + 1 \in 1 .. n + 1 /\ p.recs[C(j) + 1] = SizesAt(f, j)
    <3>1. CASE j = i
      BY <1>1, <2>3, <2>5, <3>1
    <3>2. CASE j # i
      <4>1. j \in 1 .. i - 1
        BY <3>2
      <4>2. C(j) + 1 \in 1 .. n /\ q.recs[C(j) + 1] = SizesAt(f, j)
        BY <1>2, <2>6, <4>1
      <4>3. QED
        BY <1>1, <2>3, <4>2, SMTT(20)
    <3>3. QED
      BY <3>1, <3>2
  <2>7. QED
    BY <2>3, <2>6 DEF SizesKept, C
<1>4. CASE ~ReadsEnd(q, x, p)
  <2>1. p.recs = q.recs /\ x.kind # "blockEnd"
    BY <1>4, Kinds DEF Reads, ReadsBlock, ReadsLz, ReadsIndex, OpenedBy, Advanced, Finished
  <2>2. ASSUME NEW j \in 1 .. i, f[j].kind = "blockEnd"
        PROVE  C(j) + 1 \in 1 .. n /\ q.recs[C(j) + 1] = SizesAt(f, j)
    <3>1. j # i
      BY <2>1, <2>2
    <3>2. j \in 1 .. i - 1
      BY <3>1
    <3>3. QED
      BY <1>2, <2>2, <3>2
  <2>3. QED
    BY <2>1, <2>2 DEF SizesKept
<1>5. QED
  BY <1>3, <1>4

(* Every byte that was read is in the file.                                *)
BytesThere(f, q, i) ==
  OverlapWhenTwo => \A m \in 0 .. q.n - 1 : \E j \in 1 .. i : f[j].kind = "lz" /\ f[j].at = m

LEMMA BytesSteps ==
  ASSUME NEW f, NEW q \in Reader, NEW i \in Nat, i >= 2, BytesThere(f, q, i - 1), NEW p,
         Reads(q, f[i], p, i)
  PROVE  BytesThere(f, p, i)
<1> SUFFICES ASSUME OverlapWhenTwo, NEW m \in 0 .. p.n - 1
             PROVE  \E j \in 1 .. i : f[j].kind = "lz" /\ f[j].at = m
  BY DEF BytesThere
<1>1. q.n \in Nat
  BY ReaderTypes
<1>2. CASE m \in 0 .. q.n - 1
  <2>1. PICK j \in 1 .. i - 1 : f[j].kind = "lz" /\ f[j].at = m
    BY <1>2 DEF BytesThere
  <2>2. j \in 1 .. i
    OBVIOUS
  <2>3. QED
    BY <2>1, <2>2
<1>3. CASE m \notin 0 .. q.n - 1
  <2>1. ReadsLz(q, f[i], p)
    <3>1. p.n # q.n
      BY <1>1, <1>3
    <3>2. QED
      BY <3>1 DEF Reads, ReadsBlock, ReadsEnd, ReadsIndex, OpenedBy, ClosedBy, Finished
  <2>2. p.n = q.n + 1 /\ f[i].kind = "lz" /\ f[i].at = q.n
    BY <2>1, Kinds DEF ReadsLz, Advanced
  <2>3. m = q.n /\ i \in 1 .. i
    BY <1>1, <1>3, <2>2
  <2>4. QED
    BY <2>2, <2>3
<1>4. QED
  BY <1>2, <1>3

Known(f, q, i) == InBlock(f, q, i) /\ SizesKept(f, q, i) /\ BytesThere(f, q, i)

LEMMA ReadingKnown ==
  ASSUME NEW f, NEW r, Reading(f, r) PROVE \A i \in 1 .. Len(f) : Known(f, r[i], i)
<1>1. /\ Len(f) \in Nat /\ Len(f) >= 1
      /\ \A i \in 1 .. Len(f) : r[i] \in Reader /\ f[i] \in Piece
      /\ f[1] = FileHeader /\ r[1] = FirstReader
      /\ \A i \in 2 .. Len(f) : i - 1 \in 1 .. Len(f) /\ Reads(r[i - 1], f[i], r[i], i)
  BY ReadingTypes
<1>2. \A i \in 1 .. Len(f) : Counts(f, r[i], i + 1)
  BY ReadingCounts
<1> DEFINE Good == {j \in Nat : j + 1 <= Len(f) => Known(f, r[j + 1], j + 1)}
<1>3. 0 \in Good
  <2>1. f[1].kind = "header" /\ r[1].open = FALSE /\ r[1].n = 0
    BY <1>1 DEF FileHeader, FirstReader
  <2>2. InBlock(f, r[1], 1)
    BY <2>1 DEF InBlock
  <2>3. SizesKept(f, r[1], 1)
    <3>1. \A j \in 1 .. 1 : f[j].kind # "blockEnd"
      BY <2>1
    <3>2. QED
      BY <3>1 DEF SizesKept
  <2>4. BytesThere(f, r[1], 1)
    BY <2>1 DEF BytesThere
  <2>5. QED
    BY <2>2, <2>3, <2>4 DEF Known
<1>4. ASSUME NEW j \in Nat, j \in Good PROVE j + 1 \in Good
  <2> SUFFICES ASSUME (j + 1) + 1 <= Len(f) PROVE Known(f, r[(j + 1) + 1], (j + 1) + 1)
    OBVIOUS
  <2> DEFINE i == (j + 1) + 1
             q == r[j + 1]
             p == r[i]
  <2>1. /\ i \in 2 .. Len(f) /\ i \in Nat /\ i >= 2 /\ i - 1 = j + 1
        /\ j + 1 \in 1 .. Len(f) /\ (j + 1) + 1 = i
    BY <1>1
  <2>2. Known(f, q, i - 1) /\ Reads(q, f[i], p, i) /\ q \in Reader /\ Counts(f, q, i)
    BY <1>1, <1>2, <1>4, <2>1
  <2> HIDE DEF i, q, p
  <2>3. Known(f, p, i)
    BY <1>1, <2>1, <2>2, InBlockSteps, SizesSteps, BytesSteps DEF Known
  <2>4. QED
    BY <2>3 DEF i, p
<1> HIDE DEF Good
<1>5. Nat \subseteq Good
  BY <1>3, <1>4, Induction
<1>6. ASSUME NEW i \in 1 .. Len(f) PROVE Known(f, r[i], i)
  <2>1. i - 1 \in Good /\ (i - 1) + 1 = i
    BY <1>5
  <2>2. QED
    BY <2>1 DEF Good
<1>7. QED
  BY <1>6

LEMMA NamesOfFile ==
  /\ \A k : At(k) = Places(File, k)
  /\ \A k, i : Before(k, i) = CountBefore(File, k, i)
  /\ \A i : Opening(i) = OpeningOf(File, i)
  BY DEF At, Places, Before, CountBefore, Opening, OpeningOf

LEMMA FileIsFramed == ASSUME NEW q, ReadUpTo(File, q) PROVE WellFramed
<1> DEFINE f == File
<1>1. PICK r : Reading(f, r)
  BY DEF ReadUpTo
<1> HIDE DEF f
<1>2. /\ Len(f) \in Nat /\ Len(f) >= 1
      /\ \A i \in 1 .. Len(f) : r[i] \in Reader /\ f[i] \in Piece
      /\ f[1] = FileHeader /\ r[1] = FirstReader
      /\ \A i \in 2 .. Len(f) : i - 1 \in 1 .. Len(f) /\ Reads(r[i - 1], f[i], r[i], i)
  BY <1>1, ReadingTypes
<1>3. \A i \in 1 .. Len(f) : Counts(f, r[i], i + 1)
  BY <1>1, ReadingCounts
<1>4. f[1].kind = "header"
  BY <1>2 DEF FileHeader
<1>5. ASSUME NEW i \in 1 .. Len(f), i # 1
      PROVE  /\ f[i].kind # "header"
             /\ f[i].kind \in {"block", "index"} => CountBefore(f, "block", i) = CountBefore(f, "blockEnd", i)
             /\ f[i].kind \in {"lz", "blockEnd"} => CountBefore(f, "block", i) = CountBefore(f, "blockEnd", i) + 1
             /\ f[i].kind = "index" => i = Len(f)
  <2> DEFINE s == r[i - 1]
  <2>1. /\ i \in 2 .. Len(f) /\ i - 1 \in 1 .. Len(f) /\ (i - 1) + 1 = i
        /\ s \in Reader /\ Reads(s, f[i], r[i], i) /\ Counts(f, s, i)
    <3>1. i \in 2 .. Len(f) /\ (i - 1) + 1 = i
      BY <1>2, <1>5
    <3>2. i - 1 \in 1 .. Len(f) /\ Reads(s, f[i], r[i], i)
      BY <1>2, <3>1
    <3>3. s \in Reader /\ Counts(f, s, (i - 1) + 1)
      BY <1>2, <1>3, <3>2
    <3>4. QED
      BY <3>1, <3>2, <3>3
  <2> HIDE DEF s
  <2>2. /\ f[i].kind # "header" /\ (r[i].done <=> f[i].kind = "index")
        /\ (f[i].kind \in {"block", "index"} => ~s.open)
        /\ (f[i].kind \in {"lz", "blockEnd"} => s.open)
    BY <2>1, StepCounts
  <2>3. /\ CountBefore(f, "block", i) = Len(s.recs) + Opens(s)
        /\ CountBefore(f, "blockEnd", i) = Len(s.recs)
    BY <2>1 DEF Counts
  <2>4. Len(s.recs) \in Nat
    BY <2>1, ReaderTypes, LenProperties
  <2>5. ~s.open => CountBefore(f, "block", i) = CountBefore(f, "blockEnd", i)
    BY <2>3, <2>4 DEF Opens
  <2>6. s.open => CountBefore(f, "block", i) = CountBefore(f, "blockEnd", i) + 1
    BY <2>3, <2>4 DEF Opens
  <2>7. f[i].kind = "index" => i = Len(f)
    <3> SUFFICES ASSUME r[i].done, i # Len(f) PROVE FALSE
      BY <2>2
    <3>1. i + 1 \in 2 .. Len(f) /\ (i + 1) - 1 = i
      BY <1>2, <2>1
    <3>2. Reads(r[i], f[i + 1], r[i + 1], i + 1)
      BY <1>2, <3>1
    <3>3. QED
      BY <3>2 DEF Reads
  <2>8. QED
    BY <2>2, <2>5, <2>6, <2>7
<1>6. 1 \in 1 .. Len(f)
  BY <1>2
<1>7. Places(f, "header") = {1}
  BY <1>4, <1>5, <1>6 DEF Places
<1>8. \A i \in Places(f, "block") \cup Places(f, "index") :
        CountBefore(f, "block", i) = CountBefore(f, "blockEnd", i)
  <2> SUFFICES ASSUME NEW i \in 1 .. Len(f), f[i].kind \in {"block", "index"}
               PROVE  CountBefore(f, "block", i) = CountBefore(f, "blockEnd", i)
    BY DEF Places
  <2>1. QED
    BY <1>4, <1>5
<1>9. \A i \in Places(f, "lz") \cup Places(f, "blockEnd") :
        CountBefore(f, "block", i) = CountBefore(f, "blockEnd", i) + 1
  <2> SUFFICES ASSUME NEW i \in 1 .. Len(f), f[i].kind \in {"lz", "blockEnd"}
               PROVE  CountBefore(f, "block", i) = CountBefore(f, "blockEnd", i) + 1
    BY DEF Places
  <2>1. QED
    BY <1>4, <1>5
<1>10. Places(f, "index") \subseteq {Len(f)}
  BY <1>4, <1>5 DEF Places
<1>11. QED
  BY <1>7, <1>8, <1>9, <1>10, NamesOfFile DEF WellFramed, f

(* What the reader knew when it came to a piece of a block.                *)
LEMMA InsideBlock ==
  ASSUME NEW f, NEW r, Reading(f, r), NEW i \in 1 .. Len(f), f[i].kind \in {"lz", "blockEnd"}
  PROVE  /\ i \in 2 .. Len(f) /\ i - 1 \in 1 .. Len(f) /\ (i - 1) + 1 = i
         /\ r[i - 1] \in Reader /\ r[i - 1].open
         /\ Reads(r[i - 1], f[i], r[i], i) /\ InBlock(f, r[i - 1], i - 1)
         /\ Counts(f, r[i - 1], i)
         /\ OpeningOf(f, i) = r[i - 1].at /\ f[r[i - 1].at] = r[i - 1].head
         /\ r[i - 1].at \in 2 .. i - 1
<1>1. /\ Len(f) \in Nat /\ Len(f) >= 1
      /\ \A j \in 1 .. Len(f) : r[j] \in Reader /\ f[j] \in Piece
      /\ f[1] = FileHeader /\ r[1] = FirstReader
      /\ \A j \in 2 .. Len(f) : j - 1 \in 1 .. Len(f) /\ Reads(r[j - 1], f[j], r[j], j)
  BY ReadingTypes
<1>2. i \in 2 .. Len(f) /\ (i - 1) + 1 = i
  <2>1. i # 1
    BY <1>1 DEF FileHeader
  <2>2. QED
    BY <1>1, <2>1
<1>3. i - 1 \in 1 .. Len(f) /\ Reads(r[i - 1], f[i], r[i], i)
  BY <1>1, <1>2
<1> DEFINE s == r[i - 1]
<1>4. s \in Reader /\ Counts(f, s, (i - 1) + 1) /\ InBlock(f, s, i - 1)
  BY <1>1, <1>3, ReadingCounts, ReadingKnown DEF Known
<1>5. s.open
  BY <1>3, <1>4, StepCounts
<1>6. f[s.at] = s.head /\ s.at \in 2 .. i - 1
  BY <1>4, <1>5 DEF InBlock
<1>7. OpeningOf(f, i) = s.at
  <2>1. f[i].kind # "block"
    OBVIOUS
  <2> HIDE DEF s
  <2>2. QED
    BY <1>1, <1>2, <1>4, <1>5, <1>6, <2>1, OpeningIs
<1>8. QED
  BY <1>2, <1>3, <1>4, <1>5, <1>6, <1>7

LEMMA FileBlocksAlone == ASSUME NEW q, ReadUpTo(File, q) PROVE BlocksStandAlone
<1> DEFINE f == File
<1>1. PICK r : Reading(f, r)
  BY DEF ReadUpTo
<1> HIDE DEF f
<1>2. ASSUME NEW i \in Places(f, "lz")
      PROVE  /\ f[i].reset <=> i - 1 \in Places(f, "block")
             /\ f[i].window <= f[OpeningOf(f, i)].dict
  <2>1. i \in 1 .. Len(f) /\ f[i].kind = "lz"
    BY DEF Places
  <2> DEFINE s == r[i - 1]
  <2>2. /\ i \in 2 .. Len(f) /\ i - 1 \in 1 .. Len(f) /\ s \in Reader /\ s.open
        /\ Reads(s, f[i], r[i], i) /\ InBlock(f, s, i - 1)
        /\ OpeningOf(f, i) = s.at /\ f[s.at] = s.head /\ s.at \in 2 .. i - 1
    BY <1>1, <2>1, InsideBlock
  <2> HIDE DEF s
  <2>3. ReadsLz(s, f[i], r[i])
    BY <2>1, <2>2, Kinds DEF Reads, ReadsBlock, ReadsEnd, ReadsIndex
  <2>4. f[i].window <= s.head.dict /\ (f[i].reset <=> s.n = s.from)
    BY <2>3 DEF ReadsLz
  <2>5. s.n - s.from = (i - 1) - s.at /\ \A j \in s.at + 1 .. i - 1 : f[j] \in LzPiece
    BY <2>2 DEF InBlock
  <2>6. s.n = s.from <=> i - 1 = s.at
    BY <2>2, <2>5, ReaderTypes
  <2>7. i - 1 = s.at <=> i - 1 \in Places(f, "block")
    <3>1. ASSUME i - 1 = s.at PROVE i - 1 \in Places(f, "block")
      <4>1. s.head \in BlockPiece
        BY <2>2, ReaderTypes
      <4>2. s.head.kind = "block"
        BY <4>1, Kinds
      <4>3. QED
        BY <2>2, <3>1, <4>2 DEF Places
    <3>2. ASSUME i - 1 # s.at PROVE i - 1 \notin Places(f, "block")
      <4>1. i - 1 \in s.at + 1 .. i - 1
        BY <2>2, <3>2
      <4>2. f[i - 1].kind = "lz"
        BY <2>5, <4>1, Kinds
      <4>3. QED
        BY <4>2 DEF Places
    <3>3. QED
      BY <3>1, <3>2
  <2>8. QED
    BY <2>2, <2>4, <2>6, <2>7
<1>3. QED
  BY <1>2, NamesOfFile DEF BlocksStandAlone, f

ContentOf(f, i) == [k \in 1 .. i - OpeningOf(f, i) - 1 |-> f[OpeningOf(f, i) + k].at]

LEMMA ContentLength ==
  ASSUME NEW f, NEW r, Reading(f, r), NEW i \in Places(f, "blockEnd")
  PROVE  /\ Len(ContentOf(f, i)) = i - OpeningOf(f, i) - 1
         /\ OverlapWhenTwo => ContentOf(f, i) = Span(r[i - 1].from, r[i - 1].n - r[i - 1].from)
         /\ r[i - 1].n - r[i - 1].from = i - OpeningOf(f, i) - 1
<1> DEFINE s == r[i - 1]
           n == i - s.at - 1
<1>1. i \in 1 .. Len(f) /\ f[i].kind = "blockEnd"
  BY DEF Places
<1>2. /\ i \in 2 .. Len(f) /\ s \in Reader /\ s.open /\ InBlock(f, s, i - 1)
      /\ OpeningOf(f, i) = s.at /\ s.at \in 2 .. i - 1
  BY <1>1, InsideBlock
<1> HIDE DEF s
<1>3. n \in Nat /\ ContentOf(f, i) = [k \in 1 .. n |-> f[s.at + k].at]
  BY <1>2 DEF ContentOf
<1>4. s.n - s.from = n
  BY <1>2 DEF InBlock
<1>5. Len(ContentOf(f, i)) = n
  BY <1>3
<1>6. OverlapWhenTwo => ContentOf(f, i) = Span(s.from, n)
  <2> SUFFICES ASSUME OverlapWhenTwo PROVE ContentOf(f, i) = Span(s.from, n)
    OBVIOUS
  <2>1. \A k \in 1 .. n : f[s.at + k].at = s.from + k - 1
    <3> SUFFICES ASSUME NEW k \in 1 .. n PROVE f[s.at + k].at = s.from + k - 1
      OBVIOUS
    <3>1. s.at + k \in s.at + 1 .. i - 1 /\ (s.at + k) - s.at = k
      BY <1>2
    <3>2. f[s.at + k].at = s.from + ((s.at + k) - s.at) - 1
      BY <1>2, <3>1 DEF InBlock
    <3>3. QED
      BY <3>1, <3>2
  <2>2. QED
    BY <1>3, <2>1 DEF Span
<1>7. QED
  BY <1>2, <1>4, <1>5, <1>6 DEF s

LEMMA FileSizesMatch ==
  ASSUME NEW q, ReadUpTo(File, q), OverlapWhenTwo PROVE ChecksAndSizesMatch
<1> DEFINE f == File
<1>1. PICK r : Reading(f, r)
  BY DEF ReadUpTo
<1>n. /\ \A k : At(k) = Places(f, k)
      /\ \A k, i : Before(k, i) = CountBefore(f, k, i)
      /\ \A i : Opening(i) = OpeningOf(f, i)
      /\ \A i : Content(i) = ContentOf(f, i)
  BY NamesOfFile DEF Content, ContentOf
<1>m. ChecksAndSizesMatch =
        (/\ \A i \in At("blockEnd") :
              LET h == f[Opening(i)]
              IN  /\ f[i].check = Content(i)
                  /\ h.uncompressed # Unknown => h.uncompressed = Len(Content(i))
                  /\ h.compressed # Unknown => h.compressed = i - Opening(i)
         /\ \A i \in At("index") :
              /\ Len(f[i].records) = Cardinality(At("blockEnd"))
              /\ \A j \in At("blockEnd") : f[i].records[Before("blockEnd", j) + 1] = Sized(j))
  BY Zenon DEF ChecksAndSizesMatch
<1> HIDE DEF f
<1>2. /\ Len(f) \in Nat /\ Len(f) >= 1
      /\ \A i \in 1 .. Len(f) : r[i] \in Reader /\ f[i] \in Piece
      /\ f[1] = FileHeader /\ r[1] = FirstReader
      /\ \A i \in 2 .. Len(f) : i - 1 \in 1 .. Len(f) /\ Reads(r[i - 1], f[i], r[i], i)
  BY <1>1, ReadingTypes
<1>3. ASSUME NEW i \in Places(f, "blockEnd")
      PROVE  /\ f[i].check = ContentOf(f, i)
             /\ f[OpeningOf(f, i)].uncompressed # Unknown =>
                  f[OpeningOf(f, i)].uncompressed = Len(ContentOf(f, i))
             /\ f[OpeningOf(f, i)].compressed # Unknown =>
                  f[OpeningOf(f, i)].compressed = i - OpeningOf(f, i)
  <2> DEFINE s == r[i - 1]
  <2>1. i \in 1 .. Len(f) /\ f[i].kind = "blockEnd"
    BY DEF Places
  <2>2. /\ s \in Reader /\ s.open /\ Reads(s, f[i], r[i], i)
        /\ OpeningOf(f, i) = s.at /\ f[s.at] = s.head /\ s.at \in 2 .. i - 1
    BY <1>1, <2>1, InsideBlock
  <2>3. /\ Len(ContentOf(f, i)) = i - OpeningOf(f, i) - 1
        /\ ContentOf(f, i) = Span(s.from, s.n - s.from)
        /\ s.n - s.from = i - OpeningOf(f, i) - 1
    BY <1>1, ContentLength
  <2> HIDE DEF s
  <2>4. ReadsEnd(s, f[i], r[i])
    BY <2>1, <2>2, Kinds DEF Reads, ReadsBlock, ReadsLz, ReadsIndex
  <2>5. /\ f[i].check = Span(s.from, s.n - s.from)
        /\ s.head.uncompressed # Unknown => s.head.uncompressed = s.n - s.from
        /\ s.head.compressed # Unknown => s.head.compressed = s.n - s.from + 1
    BY <2>4 DEF ReadsEnd
  <2>6. s.n - s.from + 1 = i - OpeningOf(f, i) /\ Len(ContentOf(f, i)) = s.n - s.from
    BY <2>1, <2>2, <2>3
  <2>7. f[OpeningOf(f, i)] = s.head
    BY <2>2
  <2>8. QED
    BY <2>3, <2>5, <2>6, <2>7
<1>4. ASSUME NEW i \in Places(f, "index")
      PROVE  /\ Len(f[i].records) = Cardinality(Places(f, "blockEnd"))
             /\ \A j \in Places(f, "blockEnd") :
                  f[i].records[CountBefore(f, "blockEnd", j) + 1] = SizesAt(f, j)
  <2> DEFINE s == r[i - 1]
  <2>1. i \in 1 .. Len(f) /\ f[i].kind = "index" /\ i = Len(f)
    <3>1. i \in 1 .. Len(f) /\ f[i].kind = "index"
      BY DEF Places
    <3>2. WellFramed
      BY FileIsFramed
    <3>3. i \in {Len(f)}
      BY <3>2, <1>n DEF WellFramed, f
    <3>4. QED
      BY <3>1, <3>3
  <2>2. i # 1
    BY <1>2, <2>1 DEF FileHeader
  <2>3. i \in 2 .. Len(f) /\ (i - 1) + 1 = i
    BY <1>2, <2>1, <2>2
  <2>4. i - 1 \in 1 .. Len(f) /\ Reads(s, f[i], r[i], i) /\ s \in Reader
    BY <1>2, <2>3
  <2>5. Counts(f, s, i) /\ SizesKept(f, s, i - 1)
    BY <1>1, <2>3, <2>4, ReadingCounts, ReadingKnown DEF Known
  <2> HIDE DEF s
  <2>6. f[i].records = s.recs
    BY <2>1, <2>4, Kinds DEF Reads, ReadsBlock, ReadsLz, ReadsEnd, ReadsIndex
  <2>7. \A j \in Places(f, "blockEnd") : j \in 1 .. i - 1 /\ j < i /\ f[j].kind = "blockEnd"
    <3> SUFFICES ASSUME NEW j \in 1 .. Len(f), f[j].kind = "blockEnd"
                 PROVE  j \in 1 .. i - 1 /\ j < i
      BY DEF Places
    <3>1. j # i
      BY <2>1
    <3>2. QED
      BY <2>1, <3>1
  <2>8. {j \in Places(f, "blockEnd") : j < i} = Places(f, "blockEnd")
    BY <2>7
  <2>9. Len(s.recs) = Cardinality(Places(f, "blockEnd"))
    BY <2>5, <2>8 DEF Counts, CountBefore
  <2>10. QED
    BY <2>5, <2>6, <2>7, <2>9 DEF SizesKept
<1>5. \A j \in Places(f, "blockEnd") : Sized(j) = SizesAt(f, j)
  <2> SUFFICES ASSUME NEW j \in Places(f, "blockEnd") PROVE Sized(j) = SizesAt(f, j)
    OBVIOUS
  <2>1. Len(ContentOf(f, j)) = j - OpeningOf(f, j) - 1
    BY <1>1, ContentLength
  <2>2. QED
    BY <1>n, <2>1 DEF Sized, SizesAt
<1>6. QED
  BY <1>n, <1>m, <1>3, <1>4, <1>5

(* What the reader's state at the end tells of the file.                   *)
LEMMA FileKnown ==
  ASSUME NEW q, ReadUpTo(File, q)
  PROVE  /\ File \in Seq(Piece) /\ Len(File) \in Nat \ {0}
         /\ q.done => File[Len(File)].kind = "index"
         /\ Cardinality(At("lz")) = q.n
         /\ OverlapWhenTwo => /\ \A i \in At("lz") : File[i].at = Before("lz", i)
                        /\ \A m \in 0 .. q.n - 1 : \E j \in 1 .. Len(File) :
                             File[j].kind = "lz" /\ File[j].at = m
<1> DEFINE f == File
<1>1. PICK r : Reading(f, r) /\ r[Len(f)] = q
  BY DEF ReadUpTo
<1> HIDE DEF f
<1>2. /\ Len(f) \in Nat /\ Len(f) >= 1
      /\ \A i \in 1 .. Len(f) : r[i] \in Reader /\ f[i] \in Piece
      /\ f[1] = FileHeader /\ r[1] = FirstReader
      /\ \A i \in 2 .. Len(f) : i - 1 \in 1 .. Len(f) /\ Reads(r[i - 1], f[i], r[i], i)
  BY <1>1, ReadingTypes
<1>3. Len(f) \in 1 .. Len(f)
  BY <1>2
<1>4. Counts(f, q, Len(f) + 1) /\ Known(f, q, Len(f)) /\ q \in Reader
  BY <1>1, <1>2, <1>3, ReadingCounts, ReadingKnown
<1>5. q.done => f[Len(f)].kind = "index"
  <2> SUFFICES ASSUME q.done PROVE f[Len(f)].kind = "index"
    OBVIOUS
  <2>1. Len(f) # 1
    BY <1>1, <1>2 DEF FirstReader
  <2>a. Len(f) \in Nat /\ Len(f) >= 1
    BY <1>2
  <2>2. Len(f) \in 2 .. Len(f)
    <3>1. \A n \in Nat : n >= 1 /\ n # 1 => n \in 2 .. n
      OBVIOUS
    <3>2. QED
      BY <2>a, <2>1, <3>1, Zenon
  <2>3. Reads(r[Len(f) - 1], f[Len(f)], q, Len(f)) /\ r[Len(f) - 1] \in Reader
    BY <1>1, <1>2, <2>2
  <2>4. QED
    BY <2>3, StepCounts
<1>6. Cardinality(Places(f, "lz")) = q.n
  <2>1. {j \in Places(f, "lz") : j < Len(f) + 1} = Places(f, "lz")
    BY <1>2 DEF Places
  <2>2. QED
    BY <1>4, <2>1 DEF Counts, CountBefore
<1>7. ASSUME OverlapWhenTwo, NEW i \in Places(f, "lz") PROVE f[i].at = CountBefore(f, "lz", i)
  <2>1. i \in 1 .. Len(f) /\ f[i].kind = "lz"
    BY DEF Places
  <2>2. Reads(r[i - 1], f[i], r[i], i) /\ Counts(f, r[i - 1], i)
    BY <1>1, <2>1, InsideBlock
  <2>3. f[i].at = r[i - 1].n
    BY <1>7, <2>1, <2>2, Kinds DEF Reads, ReadsBlock, ReadsLz, ReadsEnd, ReadsIndex
  <2>4. QED
    BY <2>2, <2>3 DEF Counts
<1>8. OverlapWhenTwo => \A m \in 0 .. q.n - 1 : \E j \in 1 .. Len(f) : f[j].kind = "lz" /\ f[j].at = m
  BY <1>4 DEF Known, BytesThere
<1>9. f \in Seq(Piece) /\ Len(f) \in Nat \ {0}
  BY <1>1, <1>2 DEF Reading
<1>10. /\ \A k : At(k) = Places(f, k)
       /\ \A k, i : Before(k, i) = CountBefore(f, k, i)
  BY NamesOfFile DEF f
<1>11. QED
  BY <1>5, <1>6, <1>7, <1>8, <1>9, <1>10 DEF f

-----------------------------------------------------------------------------
(* The functions of the framing, on a file that the reader accepts so far. *)
FileOf(s) == out \o Waiting(s)
HeldOf(s) == s.block \o (IF s.hold /\ ~running THEN Pending(s, Len(jobs)) ELSE <<>>)
Owed(s)   == IF s.unaccounted THEN Len(FlattenSeq(jobs)) ELSE 0

(* The slices are read from the same place.                                *)
SamePlace(t, s) == t.hold = s.hold /\ t.outThread = s.outThread /\ t.outPos = s.outPos

LEMMA SamePlaceSame ==
  ASSUME NEW s, NEW t, SamePlace(t, s)
  PROVE  /\ Available(t) = Available(s) /\ HasSlices(t) = HasSlices(s)
         /\ \A u : Pending(t, u) = Pending(s, u)
         /\ t.block = s.block => HeldOf(t) = HeldOf(s)
         /\ t.head = s.head /\ t.tail = s.tail => FileOf(t) = FileOf(s)
<1>1. \A u : Pending(t, u) = Pending(s, u)
  BY DEF SamePlace, Pending, Rest
<1>2. Available(t) = Available(s) /\ HasSlices(t) = HasSlices(s)
  BY <1>1 DEF SamePlace, Available, HasSlices
<1>3. t.block = s.block => HeldOf(t) = HeldOf(s)
  BY <1>1 DEF SamePlace, HeldOf
<1>4. t.head = s.head /\ t.tail = s.tail => FileOf(t) = FileOf(s)
  BY <1>2 DEF FileOf, Waiting
<1>5. QED
  BY <1>1, <1>2, <1>3, <1>4

LEMMA FileType ==
  ASSUME NEW s, Typed(s), out \in Seq(Piece)
  PROVE  /\ FileOf(s) \in Seq(Piece) /\ Len(FileOf(s)) \in Nat
         /\ s.head \in Seq(Piece) /\ s.tail \in Seq(Piece) /\ s.block \in Seq(Piece)
         /\ Available(s) \in Seq(Piece)
<1>1. s.head \in Seq(Piece) /\ s.tail \in Seq(Piece) /\ s.block \in Seq(Piece)
      /\ Available(s) \in Seq(Piece)
  BY FieldTypes, AvailableType DEF Typed
<1>2. FileOf(s) \in Seq(Piece)
  BY <1>1, ConcatProperties DEF FileOf, Waiting
<1>3. QED
  BY <1>1, <1>2, LenProperties

(* In t, e follows the file of s.                                          *)
Follows(t, s, e) == FileOf(t) = FileOf(s) \o e

LEMMA PutInHead ==
  ASSUME NEW s, Typed(s), out \in Seq(Piece), Available(s) = <<>>, s.tail = <<>>,
         NEW t, Available(t) = <<>>, t.tail = <<>>, NEW e, e \in Seq(Piece), t.head = s.head \o e
  PROVE  Follows(t, s, e)
<1> DEFINE h == s.head
           g == h \o e
<1>1. h \in Seq(Piece) /\ g \in Seq(Piece)
  BY FileType, ConcatProperties
<1>2. t.head = g
  OBVIOUS
<1> HIDE DEF h, g
<1>3. (out \o h) \o e = out \o (h \o e)
  BY <1>1, InAnyOrder, SMTT(20)
<1>4. Waiting(s) = h
  BY <1>1 DEF Waiting, h
<1>5. Waiting(t) = g
  BY <1>1, <1>2 DEF Waiting
<1>6. FileOf(t) = out \o g /\ FileOf(s) = out \o h
  BY <1>4, <1>5 DEF FileOf
<1>7. out \o g = (out \o h) \o e
  BY <1>3 DEF g
<1>8. QED
  BY <1>6, <1>7 DEF Follows

LEMMA PutInTail ==
  ASSUME NEW s, Typed(s), out \in Seq(Piece), NEW t, Available(t) = Available(s), t.head = s.head,
         NEW e, e \in Seq(Piece), t.tail = s.tail \o e
  PROVE  Follows(t, s, e)
<1> DEFINE a == s.head \o Available(s)
           b == s.tail
           c == b \o e
           d == a \o b
<1>1. a \in Seq(Piece) /\ b \in Seq(Piece) /\ c \in Seq(Piece) /\ d \in Seq(Piece)
  BY FileType, ConcatProperties
<1>2. Waiting(s) = d /\ Waiting(t) = a \o c
  BY DEF Waiting
<1> HIDE DEF a, b, c, d
<1>3. (a \o b) \o e = a \o (b \o e)
  <2>1. a \in Seq(Piece) /\ b \in Seq(Piece) /\ e \in Seq(Piece)
    BY <1>1
  <2>2. QED
    <3> HIDE <1>2
    <3>1. QED
      BY <2>1, InAnyOrder, SMTT(20)
<1>4. Waiting(t) = d \o e
  BY <1>2, <1>3 DEF c, d
<1>5. (out \o d) \o e = out \o (d \o e)
  BY <1>1, InAnyOrder, SMTT(20)
<1>6. FileOf(t) = out \o (d \o e) /\ FileOf(s) = out \o d
  BY <1>2, <1>4 DEF FileOf
<1>7. QED
  BY <1>5, <1>6 DEF Follows

LEMMA ReadNext ==
  ASSUME NEW s, NEW t, NEW q, ReadUpTo(FileOf(s), q), NEW x \in Piece, Follows(t, s, <<x>>),
         NEW p \in Reader, Reads(q, x, p, Len(FileOf(s)) + 1)
  PROVE  ReadUpTo(FileOf(t), p)
<1> DEFINE f == FileOf(s)
<1>1. f \in Seq(Piece)
  BY ReadUpToType
<1> HIDE DEF f
<1>2. Append(f, x) = f \o <<x>>
  BY <1>1, AppendIsConcat
<1>3. ReadUpTo(f, q) /\ Reads(q, x, p, Len(f) + 1)
  BY DEF f
<1>4. ReadUpTo(Append(f, x), p)
  BY <1>3, ReadOne
<1>5. QED
  BY <1>2, <1>4 DEF Follows, f

(* What follows the file so far may be put in the framing buffer dst.      *)
Free(s, dst) == s.tail = <<>> /\ (dst = "head" => Available(s) = <<>>)

(* How much the reader has of the open block.                              *)
Inside(q, s) == IF s.hold THEN 0 ELSE q.n - q.from

(* The accounts of the open block agree with what the reader has of it,    *)
(* what is held of it, h, and the n bytes of it that are in compression.   *)
Accounts(q, s, h, n) ==
  /\ s.records = q.recs
  /\ s.hold => ~q.open
  /\ ~s.hold => (q.open <=> s.open)
  /\ ~s.open => h = <<>> /\ n = 0
  /\ s.open => /\ s.uSize = Len(h) + n + Inside(q, s)
               /\ s.check = Span(q.n - Inside(q, s), s.uSize)
  /\ s.open /\ ~s.hold => /\ q.head.compressed = Unknown /\ q.head.uncompressed = Unknown
                          /\ s.cSize + Owed(s) = q.n - q.from

(* What is held continues what the reader has, and starts a block.         *)
HeldRun(q, s, h) ==
  /\ h \in Seq(Piece)
  /\ \A i \in 1 .. Len(h) :
       /\ h[i] \in LzPiece
       /\ h[i].reset <=> i = 1
       /\ h[i].window <= Size /\ h[i].window <= s.uSize
       /\ OverlapWhenTwo => h[i].at = q.n + i - 1

Reached(q, s) ==
  /\ ReadUpTo(FileOf(s), q) /\ ~q.done
  /\ Accounts(q, s, HeldOf(s), 0) /\ HeldRun(q, s, HeldOf(s))

(* A block was closed, and the reader came to p; or there was no memory,   *)
(* and what there is of the file is still accepted.                        *)
Closed(q, s, p, t) ==
  /\ p \in Reader /\ ~p.done /\ ~p.open /\ p.n = q.n + Len(HeldOf(s)) /\ p.recs = t.records
  /\ SamePlace(t, s) /\ ~t.open /\ t.block = <<>> /\ (~s.unaccounted => ~t.unaccounted)

ClosedOrNot(q, s, o, dst) ==
  \E p : /\ ReadUpTo(FileOf(o.fcs), p)
         /\ o.res = "ok" => Closed(q, s, p, o.fcs) /\ (dst = "head" => o.fcs.tail = <<>>)

LEMMA AccountFields ==
  ASSUME NEW s, Typed(s)
  PROVE  /\ SamePlace(Account(s), s) /\ Account(s).head = s.head /\ Account(s).tail = s.tail
         /\ Account(s).block = s.block /\ Account(s).records = s.records
         /\ Account(s).check = s.check /\ Account(s).uSize = s.uSize
         /\ Account(s).open = s.open /\ ~Account(s).unaccounted
         /\ Account(s).cSize = s.cSize + Owed(s)
<1>1. s \in State /\ s.cSize \in Nat
  BY FieldTypes DEF Typed
<1>2. CASE s.unaccounted
  <2> DEFINE n == s.cSize + Len(FlattenSeq(jobs))
  <2>1. Account(s) = [s EXCEPT !.cSize = n, !.unaccounted = FALSE]
    BY <1>2 DEF Account
  <2>2. s.cSize + Owed(s) = n
    BY <1>2 DEF Owed
  <2> HIDE DEF n
  <2>3. QED
    BY <1>1, <2>1, <2>2 DEF State, SamePlace
<1>3. CASE ~s.unaccounted
  <2>1. Account(s) = s /\ Owed(s) = 0
    BY <1>3 DEF Account, Owed
  <2>2. s.cSize + 0 = s.cSize
    BY <1>1
  <2>3. QED
    BY <1>3, <2>1, <2>2 DEF SamePlace
<1>4. QED
  BY <1>2, <1>3

(* A record is added and the block is closed, or there is no memory.       *)
Recorded(b, c, u) ==
  [[b EXCEPT !.records = Append(@, [unpadded |-> c, uncompressed |-> u])] EXCEPT !.open = FALSE]

LEMMA OkIs == ASSUME NEW s, NEW o, o \in Ok(s) PROVE o.res = "ok" /\ o.fcs = s
  BY DEF Ok

Recording(b, c, u) == Then(AddRecord(b, c, u), LAMBDA x : Ok([x EXCEPT !.open = FALSE]))

LEMMA RecordOutcomes ==
  ASSUME NEW b, NEW c, NEW u, NEW o \in Recording(b, c, u)
  PROVE  \/ o.res = "memory" /\ o.fcs = b
         \/ o.res = "ok" /\ o.fcs = Recorded(b, c, u)
<1> DEFINE r == [b EXCEPT !.records = Append(@, [unpadded |-> c, uncompressed |-> u])]
<1>1. AddRecord(b, c, u) = Ok(r) \cup OutOfMemory(b)
  BY DEF AddRecord
<1> HIDE DEF r
<1>2. PICK e \in Ok(r) \cup OutOfMemory(b) :
        o \in IF e.res = "ok" THEN Ok([e.fcs EXCEPT !.open = FALSE]) ELSE {e}
  BY <1>1 DEF Recording, Then
<1>3. CASE e \in Ok(r)
  <2>1. e.res = "ok" /\ e.fcs = r
    BY <1>3, OkIs
  <2>2. o \in Ok([r EXCEPT !.open = FALSE])
    BY <1>2, <2>1
  <2>3. [r EXCEPT !.open = FALSE] = Recorded(b, c, u)
    BY DEF Recorded, r
  <2> DEFINE w == Recorded(b, c, u)
  <2>4. o \in Ok(w)
    BY <2>2, <2>3
  <2> HIDE DEF w
  <2>5. o.res = "ok" /\ o.fcs = w
    BY <2>4, OkIs
  <2>6. QED
    BY <2>5 DEF w
<1>4. CASE e \in OutOfMemory(b)
  BY <1>2, <1>4 DEF OutOfMemory
<1>5. QED
  BY <1>3, <1>4

LEMMA RecordedFields ==
  ASSUME NEW b \in State, NEW c, NEW u
  PROVE  /\ SamePlace(Recorded(b, c, u), b)
         /\ Recorded(b, c, u).head = b.head /\ Recorded(b, c, u).tail = b.tail
         /\ Recorded(b, c, u).block = b.block /\ ~Recorded(b, c, u).open
         /\ Recorded(b, c, u).records = Append(b.records, [unpadded |-> c, uncompressed |-> u])
         /\ Recorded(b, c, u).unaccounted = b.unaccounted
  BY DEF Recorded, State, SamePlace

(* The reader in an open block takes its trailer.                          *)
LEMMA ReadsTrailer ==
  ASSUME NEW q \in Reader, q.open, ~q.done, NEW k \in Seq(Nat), k = Span(q.from, q.n - q.from),
         q.head.uncompressed # Unknown => q.head.uncompressed = q.n - q.from,
         q.head.compressed # Unknown => q.head.compressed = q.n - q.from + 1, NEW i
  PROVE  BlockEnd(k) \in Piece /\ Reads(q, BlockEnd(k), ClosedBy(q), i)
<1>1. BlockEnd(k) \in EndPiece /\ BlockEnd(k).check = k
  BY DEF BlockEnd, EndPiece
<1>2. ReadsEnd(q, BlockEnd(k), ClosedBy(q))
  BY <1>1 DEF ReadsEnd
<1>3. QED
  BY <1>1, <1>2 DEF Reads, Piece

LEMMA PutInBuffer ==
  ASSUME NEW s, Typed(s), out \in Seq(Piece), NEW dst \in {"head", "tail"}, Free(s, dst),
         NEW x \in Piece, NEW t, SamePlace(t, s), t.block = s.block,
         dst = "head" => t.head = Append(s.head, x) /\ t.tail = s.tail,
         dst = "tail" => t.tail = Append(s.tail, x) /\ t.head = s.head
  PROVE  Follows(t, s, <<x>>)
<1>1. s.head \in Seq(Piece) /\ s.tail \in Seq(Piece) /\ <<x>> \in Seq(Piece)
  BY FileType
<1>2. Available(t) = Available(s)
  BY SamePlaceSame
<1>3. Append(s.head, x) = s.head \o <<x>> /\ Append(s.tail, x) = s.tail \o <<x>>
  BY <1>1, AppendIsConcat
<1>4. CASE dst = "head"
  <2>1. t.head = s.head \o <<x>> /\ t.tail = <<>> /\ s.tail = <<>> /\ Available(s) = <<>>
    BY <1>3, <1>4 DEF Free
  <2>2. QED
    BY <1>1, <1>2, <2>1, PutInHead
<1>5. CASE dst = "tail"
  <2>1. t.tail = s.tail \o <<x>> /\ t.head = s.head
    BY <1>3, <1>5
  <2>2. QED
    BY <1>1, <1>2, <2>1, PutInTail
<1>6. QED
  BY <1>4, <1>5

LEMMA NoMemoryIs ==
  ASSUME NEW s, NEW o, o \in OutOfMemory(s) PROVE o.res = "memory" /\ o.fcs = s
  BY DEF OutOfMemory

(* A buffer with a piece more, and its block one byte longer.              *)
Longer(a, dst, x) == [[a EXCEPT ![dst] = Append(@, x)] EXCEPT !.cSize = @ + 1]

LEMMA LongerFields ==
  ASSUME NEW a \in State, NEW dst \in {"head", "tail"}, NEW x
  PROVE  /\ SamePlace(Longer(a, dst, x), a)
         /\ Longer(a, dst, x).block = a.block /\ Longer(a, dst, x).records = a.records
         /\ Longer(a, dst, x).cSize = a.cSize + 1 /\ Longer(a, dst, x).uSize = a.uSize
         /\ Longer(a, dst, x).unaccounted = a.unaccounted
         /\ dst = "head" => /\ Longer(a, dst, x).head = Append(a.head, x)
                            /\ Longer(a, dst, x).tail = a.tail
         /\ dst = "tail" => /\ Longer(a, dst, x).tail = Append(a.tail, x)
                            /\ Longer(a, dst, x).head = a.head
<1>1. CASE dst = "head"
  BY <1>1 DEF Longer, State, SamePlace
<1>2. CASE dst = "tail"
  BY <1>2 DEF Longer, State, SamePlace
<1>3. QED
  BY <1>1, <1>2

LEMMA CloseBlockReads ==
  ASSUME NEW s, Typed(s), out \in Seq(Piece), ~s.hold, s.open, NEW q, Reached(q, s),
         NEW dst \in {"head", "tail"}, Free(s, dst), NEW o, o \in CloseBlock(s, dst)
  PROVE  ClosedOrNot(q, s, o, dst)
<1> DEFINE a == Account(s)
           k == a.check
           x == BlockEnd(k)
           b == Longer(a, dst, x)
           t == Recorded(b, b.cSize, b.uSize)
           p == ClosedBy(q)
<1>1. /\ q \in Reader /\ ReadUpTo(FileOf(s), q) /\ ~q.done
      /\ Accounts(q, s, HeldOf(s), 0)
  BY ReadUpToType DEF Reached
<1>2. q.n \in Nat /\ q.from \in Nat /\ q.from <= q.n
  BY <1>1, ReaderTypes
<1>3. HeldOf(s) = <<>> /\ s.block = <<>>
  BY DEF HeldOf, Typed
<1>4. q.open /\ s.records = q.recs /\ q.head.compressed = Unknown /\ q.head.uncompressed = Unknown
  BY <1>1 DEF Accounts
<1>5. s.uSize = q.n - q.from /\ s.check = Span(q.from, q.n - q.from) /\ s.cSize + Owed(s) = q.n - q.from
  <2>1. Inside(q, s) = q.n - q.from
    BY DEF Inside
  <2>2. Len(HeldOf(s)) = 0
    BY <1>3
  <2>3. /\ s.uSize = Len(HeldOf(s)) + 0 + Inside(q, s)
        /\ s.check = Span(q.n - Inside(q, s), s.uSize)
        /\ s.cSize + Owed(s) = q.n - q.from
    BY <1>1 DEF Accounts
  <2>4. Len(HeldOf(s)) + 0 + Inside(q, s) = q.n - q.from /\ q.n - Inside(q, s) = q.from
    BY <1>2, <2>1, <2>2
  <2>5. QED
    BY <2>3, <2>4
<1>6. /\ Typed(a) /\ a \in State /\ SamePlace(a, s) /\ a.head = s.head /\ a.tail = s.tail
      /\ a.block = s.block /\ a.records = s.records /\ a.check = s.check /\ a.uSize = s.uSize
      /\ ~a.unaccounted /\ a.cSize = s.cSize + Owed(s)
  BY AccountFields, AccountTyped DEF Typed
<1> HIDE DEF a
<1>7. k \in Seq(Nat) /\ k = Span(q.from, q.n - q.from)
  BY <1>5, <1>6, FieldTypes
<1> HIDE DEF k
<1>8. x \in Piece /\ \A i : Reads(q, x, p, i)
  BY <1>1, <1>4, <1>7, ReadsTrailer
<1> HIDE DEF x
<1>9. /\ SamePlace(b, a) /\ b.block = a.block /\ b.records = a.records
      /\ b.cSize = a.cSize + 1 /\ b.uSize = a.uSize /\ b.unaccounted = a.unaccounted
      /\ dst = "head" => b.head = Append(a.head, x) /\ b.tail = a.tail
      /\ dst = "tail" => b.tail = Append(a.tail, x) /\ b.head = a.head
  BY <1>6, LongerFields
<1>10. b \in State
  <2>1. b = [[a EXCEPT ![dst] = Append(@, x)] EXCEPT !.cSize = @ + 1]
    BY DEF Longer
  <2> DEFINE c == [a EXCEPT ![dst] = Append(@, x)]
             n == c.cSize + 1
  <2>2. Typed(c)
    BY <1>6, <1>8, AppendTyped
  <2> HIDE DEF c
  <2>3. c \in State /\ n \in Nat
    BY <2>2, FieldTypes DEF Typed
  <2> HIDE DEF n
  <2>4. [c EXCEPT !.cSize = n] \in State
    BY <2>3, SetField
  <2>5. QED
    BY <2>1, <2>4 DEF c, n
<1>11. CloseBlock(s, dst) = OutOfMemory(a) \cup Recording(b, b.cSize, b.uSize)
  BY DEF CloseBlock, Recording, a, b, x, k, Longer
<1> HIDE DEF b
<1>12. FileOf(a) = FileOf(s) /\ Free(a, dst)
  BY <1>6, SamePlaceSame DEF Free
<1>13. Follows(b, a, <<x>>)
  BY <1>6, <1>8, <1>9, <1>12, PutInBuffer
<1>14. p \in Reader
  BY <1>1, ReaderSteps
<1>15. ReadUpTo(FileOf(b), p)
  BY <1>1, <1>8, <1>12, <1>13, <1>14, ReadNext
<1>16. CASE o \in OutOfMemory(a)
  BY <1>1, <1>12, <1>16, NoMemoryIs DEF ClosedOrNot
<1>17. CASE o \notin OutOfMemory(a)
  <2>1. \/ o.res = "memory" /\ o.fcs = b
        \/ o.res = "ok" /\ o.fcs = t
    BY <1>11, <1>17, RecordOutcomes
  <2>2. CASE o.res = "memory" /\ o.fcs = b
    BY <1>15, <2>2 DEF ClosedOrNot
  <2>3. CASE o.res = "ok" /\ o.fcs = t
    <3>1. /\ SamePlace(t, b) /\ t.head = b.head /\ t.tail = b.tail /\ t.block = b.block /\ ~t.open
          /\ t.records = Append(b.records, [unpadded |-> b.cSize, uncompressed |-> b.uSize])
          /\ t.unaccounted = b.unaccounted
      BY <1>10, RecordedFields
    <3>2. FileOf(t) = FileOf(b)
      BY <3>1, SamePlaceSame
    <3>3. p.recs = t.records
      <4>1. b.cSize = q.n - q.from + 1 /\ b.uSize = q.n - q.from /\ b.records = q.recs
        BY <1>4, <1>5, <1>6, <1>9
      <4>2. QED
        BY <3>1, <4>1 DEF ClosedBy, BlockRecord
    <3>4. p.n = q.n + Len(HeldOf(s)) /\ ~p.done /\ ~p.open
      BY <1>1, <1>2, <1>3 DEF ClosedBy
    <3>5. SamePlace(t, s) /\ t.block = <<>> /\ ~t.unaccounted
      BY <1>3, <1>6, <1>9, <3>1 DEF SamePlace
    <3>6. dst = "head" => t.tail = <<>>
      BY <1>6, <1>9, <3>1 DEF Free
    <3> HIDE DEF p, t
    <3>7. Closed(q, s, p, t)
      BY <1>14, <3>1, <3>3, <3>4, <3>5 DEF Closed
    <3>8. QED
      BY <1>15, <2>3, <3>2, <3>6, <3>7 DEF ClosedOrNot
  <2>4. QED
    BY <2>1, <2>2, <2>3
<1>18. QED
  BY <1>16, <1>17

(* The reader between blocks takes the header of one.                      *)
LEMMA ReadsHeader ==
  ASSUME NEW q \in Reader, ~q.open, ~q.done, NEW c \in Int, NEW u \in Int, NEW d \in Nat, NEW i \in Nat
  PROVE  /\ BlockHeader(c, u, d) \in BlockPiece /\ BlockHeader(c, u, d) \in Piece
         /\ OpenedBy(q, BlockHeader(c, u, d), i) \in Reader
         /\ Reads(q, BlockHeader(c, u, d), OpenedBy(q, BlockHeader(c, u, d), i), i)
<1> DEFINE x == BlockHeader(c, u, d)
<1>1. x \in BlockPiece
  BY DEF BlockHeader, BlockPiece
<1> HIDE DEF x
<1>2. OpenedBy(q, x, i) \in Reader /\ x \in Piece
  BY <1>1, ReaderSteps DEF Piece
<1>3. Reads(q, x, OpenedBy(q, x, i), i)
  BY <1>1 DEF Reads, ReadsBlock
<1>4. QED
  BY <1>1, <1>2, <1>3 DEF x

(* The same state with another head.                                       *)
Headed(s, v) == [s EXCEPT !.head = v]

LEMMA HeadedFields ==
  ASSUME NEW s, Typed(s), NEW v \in Seq(Piece)
  PROVE  /\ Typed(Headed(s, v)) /\ SamePlace(Headed(s, v), s) /\ Headed(s, v).head = v
         /\ Headed(s, v).tail = s.tail /\ Headed(s, v).block = s.block
<1>1. s \in State
  BY DEF Typed
<1>2. Headed(s, v) \in State
  BY <1>1, SetField DEF Headed
<1>3. /\ SamePlace(Headed(s, v), s) /\ Headed(s, v).head = v
      /\ Headed(s, v).tail = s.tail /\ Headed(s, v).block = s.block
  BY <1>1 DEF Headed, State, SamePlace
<1>4. Typed(Headed(s, v))
  BY <1>2, <1>3, TypedStays DEF SamePlace, Typed
<1>5. QED
  BY <1>3, <1>4

LEMMA HeldBlockReads ==
  ASSUME NEW s, Typed(s), out \in Seq(Piece), s.hold, s.open, ~HasSlices(s), ~running,
         s.tail = <<>>, NEW q, Reached(q, s), NEW dst, NEW o, o \in CloseHeldBlock(s)
  PROVE  ClosedOrNot(q, s, o, dst)
<1> DEFINE n == Len(s.block)
           d == IF s.uSize < Size THEN s.uSize ELSE Size
           h == BlockHeader(n + 1, s.uSize, d)
           i == Len(FileOf(s)) + 1
           x == BlockEnd(s.check)
           p1 == OpenedBy(q, h, i)
           p2 == Advanced(p1, n)
           p3 == ClosedBy(p2)
           v1 == s.head \o <<h>>
           v2 == v1 \o s.block
           v3 == v2 \o <<x>>
           m1 == Headed(s, v1)
           m2 == Headed(s, v2)
           m  == Moved(s)
           t  == Recorded(m, n + 1, s.uSize)
<1>1. /\ q \in Reader /\ ReadUpTo(FileOf(s), q) /\ ~q.done
      /\ Accounts(q, s, HeldOf(s), 0) /\ HeldRun(q, s, HeldOf(s))
  BY ReadUpToType DEF Reached
<1>2. q.n \in Nat /\ q.from \in Nat /\ q.from <= q.n /\ q.recs \in Seq(Record)
  BY <1>1, ReaderTypes
<1>3. /\ s \in State /\ s.head \in Seq(Piece) /\ s.block \in Seq(Piece) /\ n \in Nat
      /\ s.uSize \in Nat /\ s.check \in Seq(Nat) /\ i \in Nat /\ d \in Nat
      /\ d <= Size /\ d <= s.uSize /\ (d = s.uSize \/ d = Size)
  <2>1. s \in State /\ s.head \in Seq(Piece) /\ s.block \in Seq(Piece)
        /\ s.uSize \in Nat /\ s.check \in Seq(Nat)
    BY FieldTypes DEF Typed
  <2>2. n \in Nat /\ i \in Nat
    BY <2>1, FileType, LenProperties
  <2>3. QED
    BY <2>1, <2>2
<1>4. HeldOf(s) = s.block /\ Available(s) = <<>>
  <2>1. InSlices(s)
    BY DEF Typed
  <2>2. s.outThread = Len(jobs)
    BY <2>1 DEF HasSlices, InSlices, AtSlice
  <2>3. Pending(s, Len(jobs)) = <<>>
    BY <2>1, <2>2, PendingIsSlices, SlicesToHere DEF InSlices
  <2>4. HeldOf(s) = s.block \o <<>>
    BY <2>3 DEF HeldOf
  <2>5. QED
    BY <1>3, <2>4 DEF Available
<1>5. ~q.open /\ s.records = q.recs
  BY <1>1 DEF Accounts
<1>6. s.uSize = n /\ s.check = Span(q.n, n)
  <2>1. Inside(q, s) = 0
    BY DEF Inside
  <2>2. s.uSize = n + 0 + Inside(q, s) /\ s.check = Span(q.n - Inside(q, s), s.uSize)
    BY <1>1, <1>4 DEF Accounts
  <2>3. n + 0 + Inside(q, s) = n /\ q.n - Inside(q, s) = q.n
    BY <1>2, <1>3, <2>1
  <2>4. QED
    BY <2>2, <2>3
<1> HIDE DEF i, d, n
<1>7. h \in BlockPiece /\ h \in Piece /\ p1 \in Reader /\ Reads(q, h, p1, i)
  <2>1. n + 1 \in Int /\ s.uSize \in Int
    BY <1>3
  <2>2. QED
    BY <1>1, <1>3, <1>5, <2>1, ReadsHeader
<1>8. /\ p1.n = q.n /\ p1.from = q.n /\ p1.open /\ ~p1.done /\ p1.head = h /\ p1.recs = q.recs
      /\ h.dict = d /\ h.compressed = n + 1 /\ h.uncompressed = s.uSize
  BY <1>1 DEF OpenedBy, BlockHeader
<1>9. LzRun(p1, s.block)
  <2>1. ASSUME NEW j \in 1 .. Len(s.block)
        PROVE  /\ s.block[j] \in LzPiece
               /\ s.block[j].reset <=> p1.n + j - 1 = p1.from
               /\ s.block[j].window <= p1.head.dict
               /\ OverlapWhenTwo => s.block[j].at = p1.n + j - 1
    <3>1. /\ s.block[j] \in LzPiece
          /\ s.block[j].reset <=> j = 1
          /\ s.block[j].window <= Size /\ s.block[j].window <= s.uSize
          /\ OverlapWhenTwo => s.block[j].at = q.n + j - 1
      BY <1>1, <1>4 DEF HeldRun
    <3>2. (p1.n + j - 1 = p1.from) <=> (j = 1)
      BY <1>2, <1>3, <1>8
    <3>3. s.block[j].window <= p1.head.dict
      BY <1>3, <1>8, <3>1
    <3>4. p1.n + j - 1 = q.n + j - 1
      BY <1>8
    <3> HIDE DEF p1
    <3>5. QED
      BY <3>1, <3>2, <3>3, <3>4
  <2>2. QED
    BY <1>3, <2>1 DEF LzRun
<1> HIDE DEF p1
<1>10. /\ p2 \in Reader /\ p2.n = q.n + n /\ p2.from = q.n /\ p2.open /\ ~p2.done /\ p2.head = h
       /\ p2.recs = q.recs
  <2>1. p2 \in Reader
    BY <1>3, <1>7, ReaderSteps
  <2>2. p2.n = p1.n + n /\ p2.from = p1.from /\ p2.open = p1.open /\ p2.done = p1.done
        /\ p2.head = p1.head /\ p2.recs = p1.recs
    BY DEF Advanced
  <2>3. QED
    BY <1>8, <2>1, <2>2
<1> HIDE DEF p2
<1>11. x \in Piece /\ \A j : Reads(p2, x, p3, j)
  <2>1. p2.n - p2.from = n
    BY <1>2, <1>3, <1>10
  <2>2. s.check = Span(p2.from, p2.n - p2.from)
    BY <1>6, <1>10, <2>1
  <2>3. p2.head.uncompressed = p2.n - p2.from /\ p2.head.compressed = p2.n - p2.from + 1
    BY <1>6, <1>8, <1>10, <2>1
  <2>4. QED
    BY <1>3, <1>10, <2>2, <2>3, ReadsTrailer
<1> HIDE DEF h, x
<1>12. p3 \in Reader
  BY <1>10, ReaderSteps
<1>13. /\ v1 \in Seq(Piece) /\ v2 \in Seq(Piece) /\ v3 \in Seq(Piece)
       /\ <<h>> \in Seq(Piece) /\ <<x>> \in Seq(Piece)
  <2>1. <<h>> \in Seq(Piece) /\ <<x>> \in Seq(Piece)
    BY <1>7, <1>11
  <2>2. QED
    BY <1>3, <2>1, ConcatProperties
<1>14. /\ m.head = v3 /\ m.tail = s.tail /\ m.block = <<>> /\ SamePlace(m, s) /\ m \in State
       /\ m.records = s.records /\ m.unaccounted = s.unaccounted /\ m.uSize = s.uSize
  <2>1. HeldHeader(s) = h
    BY DEF HeldHeader, h, n, d
  <2>2. m \in State
    BY MovedTyped DEF Typed
  <2>3. QED
    BY <1>3, <2>1, <2>2 DEF Moved, State, SamePlace, x
<1> HIDE DEF v1, v2
<1>15. /\ Typed(m1) /\ SamePlace(m1, s) /\ m1.head = v1 /\ m1.tail = s.tail
       /\ Typed(m2) /\ SamePlace(m2, s) /\ m2.head = v2 /\ m2.tail = s.tail
  BY <1>13, HeadedFields
<1> HIDE DEF m1, m2, m
<1>16. Available(m1) = <<>> /\ Available(m2) = <<>> /\ Available(m) = <<>>
  BY <1>4, <1>14, <1>15, SamePlaceSame
<1>17. ReadUpTo(FileOf(m1), p1)
  <2>1. m1.head = s.head \o <<h>>
    BY <1>15 DEF v1
  <2>2. Follows(m1, s, <<h>>)
    BY <1>4, <1>13, <1>15, <1>16, <2>1, PutInHead
  <2>3. QED
    BY <1>1, <1>7, <2>2, ReadNext DEF i
<1>18. ReadUpTo(FileOf(m2), p2)
  <2>1. m2.head = m1.head \o s.block
    BY <1>15 DEF v2
  <2>2. Follows(m2, m1, s.block)
    BY <1>3, <1>15, <1>16, <2>1, PutInHead
  <2>3. ReadUpTo(FileOf(m1) \o s.block, Advanced(p1, Len(s.block)))
    BY <1>8, <1>9, <1>17, ReadMany
  <2>4. QED
    BY <2>2, <2>3 DEF Follows, p2, n
<1>19. ReadUpTo(FileOf(m), p3)
  <2>1. m.head = m2.head \o <<x>>
    BY <1>14, <1>15
  <2>2. Follows(m, m2, <<x>>)
    BY <1>13, <1>14, <1>15, <1>16, <2>1, PutInHead
  <2>3. QED
    BY <1>11, <1>12, <1>18, <2>2, ReadNext
<1> DEFINE w == [s EXCEPT !.block = Append(@, x)]
<1>20. FileOf(w) = FileOf(s)
  <2>1. SamePlace(w, s) /\ w.head = s.head /\ w.tail = s.tail
    BY <1>3 DEF SamePlace, State
  <2>2. QED
    BY <2>1, SamePlaceSame
<1>21. o \in OutOfMemory(s) \/ o \in OutOfMemory(w) \/ o \in Recording(m, n + 1, s.uSize)
  BY DEF CloseHeldBlock, Recording, m, Moved, HeldHeader, n, x, w
<1> HIDE DEF w
<1>22. CASE o \in OutOfMemory(s)
  BY <1>1, <1>22, NoMemoryIs DEF ClosedOrNot
<1>23. CASE o \in OutOfMemory(w)
  BY <1>1, <1>20, <1>23, NoMemoryIs DEF ClosedOrNot
<1>24. CASE o \in Recording(m, n + 1, s.uSize)
  <2>1. \/ o.res = "memory" /\ o.fcs = m
        \/ o.res = "ok" /\ o.fcs = t
    BY <1>24, RecordOutcomes
  <2>2. CASE o.res = "memory" /\ o.fcs = m
    BY <1>19, <2>2 DEF ClosedOrNot
  <2>3. CASE o.res = "ok" /\ o.fcs = t
    <3>1. /\ SamePlace(t, m) /\ t.head = m.head /\ t.tail = m.tail /\ t.block = m.block /\ ~t.open
          /\ t.records = Append(m.records, [unpadded |-> n + 1, uncompressed |-> s.uSize])
          /\ t.unaccounted = m.unaccounted
      BY <1>14, RecordedFields, ZenonT(40)
    <3>2. FileOf(t) = FileOf(m)
      BY <3>1, SamePlaceSame
    <3>3. p3.recs = t.records
      <4>1. p2.n - p2.from = n
        BY <1>2, <1>3, <1>10
      <4>2. QED
        BY <1>5, <1>6, <1>10, <1>14, <3>1, <4>1 DEF ClosedBy, BlockRecord
    <3>4. p3.n = q.n + Len(HeldOf(s)) /\ ~p3.done /\ ~p3.open
      BY <1>4, <1>10 DEF ClosedBy, n
    <3>5. SamePlace(t, s) /\ t.block = <<>> /\ (~s.unaccounted => ~t.unaccounted)
      BY <1>14, <3>1 DEF SamePlace
    <3>6. t.tail = <<>>
      BY <1>14, <3>1
    <3> HIDE DEF p3, t
    <3>7. Closed(q, s, p3, t)
      BY <1>12, <3>1, <3>3, <3>4, <3>5 DEF Closed
    <3>8. QED
      BY <1>19, <2>3, <3>2, <3>6, <3>7 DEF ClosedOrNot
  <2>4. QED
    BY <2>1, <2>2, <2>3
<1>25. QED
  BY <1>21, <1>22, <1>23, <1>24

LEMMA HeldIsBlock ==
  ASSUME NEW s, Typed(s), s.hold => ~HasSlices(s)
  PROVE  HeldOf(s) = s.block
<1>1. s \in State /\ InSlices(s) /\ s.block \in Seq(Piece)
  BY FieldTypes DEF Typed
<1>2. CASE s.hold /\ ~running
  <2>1. s.outThread = Len(jobs)
    BY <1>1, <1>2 DEF HasSlices, InSlices, AtSlice
  <2>2. Pending(s, Len(jobs)) = <<>>
    BY <1>1, <2>1, PendingIsSlices, SlicesToHere DEF InSlices
  <2>3. HeldOf(s) = s.block \o <<>>
    BY <1>2, <2>2 DEF HeldOf
  <2>4. QED
    BY <1>1, <2>3
<1>3. CASE ~(s.hold /\ ~running)
  <2>1. HeldOf(s) = s.block \o <<>>
    BY <1>3, Zenon DEF HeldOf
  <2>2. QED
    BY <1>1, <2>1
<1>4. QED
  BY <1>2, <1>3

LEMMA CloseIfOpenReads ==
  ASSUME NEW s, Typed(s), out \in Seq(Piece), ~running, s.hold => ~HasSlices(s), NEW q, Reached(q, s),
         NEW dst \in {"head", "tail"}, Free(s, dst), NEW o, o \in CloseIfOpen(s, dst)
  PROVE  ClosedOrNot(q, s, o, dst)
<1>1. HeldOf(s) = s.block
  BY HeldIsBlock
<1>2. CASE ~s.open
  <2>1. o.res = "ok" /\ o.fcs = s
    <3>1. o \in Ok(s)
      BY <1>2 DEF CloseIfOpen
    <3>2. QED
      BY <3>1, OkIs
  <2>2. /\ q \in Reader /\ ReadUpTo(FileOf(s), q) /\ ~q.done
        /\ Accounts(q, s, HeldOf(s), 0)
    BY ReadUpToType DEF Reached
  <2>3. s.records = q.recs /\ ~q.open /\ HeldOf(s) = <<>>
    BY <1>2, <2>2 DEF Accounts
  <2>4. q.n = q.n + Len(HeldOf(s))
    BY <2>2, <2>3, ReaderTypes
  <2>5. Closed(q, s, q, s)
    BY <1>1, <1>2, <2>2, <2>3, <2>4 DEF Closed, SamePlace
  <2>6. s.tail = <<>>
    BY DEF Free
  <2>7. QED
    BY <2>1, <2>2, <2>5, <2>6 DEF ClosedOrNot
<1>3. CASE s.open /\ s.hold
  <2>1. o \in Then(Absorb(s), CloseHeldBlock) /\ Absorb(s) = Ok(s)
    BY <1>3 DEF CloseIfOpen, Absorb
  <2>2. PICK e \in Ok(s) : o \in IF e.res = "ok" THEN CloseHeldBlock(e.fcs) ELSE {e}
    BY <2>1 DEF Then
  <2>3. e.res = "ok" /\ e.fcs = s
    BY <2>2, OkIs
  <2>4. o \in CloseHeldBlock(s)
    BY <2>2, <2>3
  <2>5. s.tail = <<>>
    BY DEF Free
  <2>6. QED
    BY <1>3, <2>4, <2>5, HeldBlockReads
<1>4. CASE s.open /\ ~s.hold
  <2>1. o \in CloseBlock(s, dst)
    BY <1>4 DEF CloseIfOpen
  <2>2. QED
    BY <1>4, <2>1, CloseBlockReads
<1>5. QED
  BY <1>2, <1>3, <1>4

(* A block was opened, from s where the reader was at q.                   *)
Opened(s, d) ==
  [s EXCEPT !.head = @ \o (IF s.hold THEN <<>> ELSE <<BlockHeader(Unknown, Unknown, d)>>),
            !.check = <<>>, !.uSize = 0, !.cSize = 0, !.open = TRUE]

LEMMA OpenOutcomes ==
  ASSUME NEW s, NEW d, NEW o, o \in OpenBlock(s, d)
  PROVE  (o.res = "memory" /\ o.fcs = s) \/ (o.res = "ok" /\ o.fcs = Opened(s, d))
<1> DEFINE t == Opened(s, d)
<1>1. OpenBlock(s, d) = Ok(t) \cup OutOfMemory(s)
  BY DEF OpenBlock, Opened
<1> HIDE DEF t
<1>2. CASE o \in Ok(t)
  BY <1>2, OkIs DEF t
<1>3. CASE o \in OutOfMemory(s)
  BY <1>3, NoMemoryIs
<1>4. QED
  BY <1>1, <1>2, <1>3

LEMMA OpenedFields ==
  ASSUME NEW s \in State, NEW d
  PROVE  /\ SamePlace(Opened(s, d), s) /\ Opened(s, d).tail = s.tail
         /\ Opened(s, d).block = s.block /\ Opened(s, d).records = s.records
         /\ Opened(s, d).check = <<>> /\ Opened(s, d).uSize = 0 /\ Opened(s, d).cSize = 0
         /\ Opened(s, d).open /\ Opened(s, d).unaccounted = s.unaccounted
         /\ s.hold => Opened(s, d).head = s.head
         /\ ~s.hold => Opened(s, d).head = s.head \o <<BlockHeader(Unknown, Unknown, d)>>
<1>1. s.head \in Seq(Piece)
  BY FieldTypes
<1>2. s.head \o <<>> = s.head
  BY <1>1
<1> DEFINE e == IF s.hold THEN <<>> ELSE <<BlockHeader(Unknown, Unknown, d)>>
           v == s.head \o e
<1>3. Opened(s, d) = [s EXCEPT !.head = v, !.check = <<>>, !.uSize = 0, !.cSize = 0, !.open = TRUE]
  BY DEF Opened
<1>4. (s.hold => v = s.head) /\ (~s.hold => v = s.head \o <<BlockHeader(Unknown, Unknown, d)>>)
  BY <1>2
<1> HIDE DEF v
<1>5. QED
  BY <1>3, <1>4, ZenonT(40) DEF State, SamePlace

(* The reader at p is where the block begins that t has opened.            *)
AtBlock(q, s, p, t, d) ==
  /\ p \in Reader /\ ~p.done /\ p.n = q.n + Len(HeldOf(s)) /\ p.recs = t.records
  /\ SamePlace(t, s) /\ t.tail = <<>> /\ t.block = <<>> /\ (~s.unaccounted => ~t.unaccounted)
  /\ t.open /\ t.check = <<>> /\ t.uSize = 0 /\ t.cSize = 0
  /\ s.hold => ~p.open
  /\ ~s.hold => p.open /\ p.from = p.n /\ p.head = BlockHeader(Unknown, Unknown, d)

OpenedOrNot(q, s, o, d) ==
  \E p : ReadUpTo(FileOf(o.fcs), p) /\ (o.res = "ok" => AtBlock(q, s, p, o.fcs, d))

Reopening(s, d) == Then(CloseIfOpen(s, "head"), LAMBDA x : OpenBlock(x, d))

LEMMA ReopeningReads ==
  ASSUME NEW s, Typed(s), out \in Seq(Piece), ~running, s.hold => ~HasSlices(s), NEW q, Reached(q, s),
         Free(s, "head"), NEW d \in Nat, NEW o, o \in Reopening(s, d)
  PROVE  OpenedOrNot(q, s, o, d)
<1>1. PICK e \in CloseIfOpen(s, "head") : o \in IF e.res = "ok" THEN OpenBlock(e.fcs, d) ELSE {e}
  BY DEF Reopening, Then
<1> DEFINE x == e.fcs
           t == Opened(x, d)
           h == BlockHeader(Unknown, Unknown, d)
           i == Len(FileOf(x)) + 1
<1>2. Typed(x)
  BY <1>1, CloseIfOpenTyped DEF TypedAll
<1>3. ClosedOrNot(q, s, e, "head")
  BY <1>1, CloseIfOpenReads
<1>4. PICK p : /\ ReadUpTo(FileOf(x), p)
               /\ e.res = "ok" => Closed(q, s, p, x) /\ x.tail = <<>>
  BY <1>3 DEF ClosedOrNot
<1> HIDE DEF x
<1>5. CASE e.res # "ok"
  BY <1>1, <1>4, <1>5 DEF OpenedOrNot, x
<1>6. CASE e.res = "ok"
  <2>1. o \in OpenBlock(x, d)
    BY <1>1, <1>6 DEF x
  <2>2. \/ o.res = "memory" /\ o.fcs = x
        \/ o.res = "ok" /\ o.fcs = t
    BY <2>1, OpenOutcomes
  <2>3. CASE o.res = "memory" /\ o.fcs = x
    BY <1>4, <2>3 DEF OpenedOrNot
  <2>4. CASE o.res = "ok" /\ o.fcs = t
    <3>1. /\ p \in Reader /\ ~p.done /\ ~p.open /\ p.n = q.n + Len(HeldOf(s)) /\ p.recs = x.records
          /\ SamePlace(x, s) /\ ~x.open /\ x.block = <<>> /\ (~s.unaccounted => ~x.unaccounted)
          /\ x.tail = <<>>
      BY <1>4, <1>6 DEF Closed
    <3>2. /\ SamePlace(t, x) /\ t.tail = x.tail /\ t.block = x.block /\ t.records = x.records
          /\ t.check = <<>> /\ t.uSize = 0 /\ t.cSize = 0 /\ t.open /\ t.unaccounted = x.unaccounted
          /\ x.hold => t.head = x.head
          /\ ~x.hold => t.head = x.head \o <<h>>
      BY <1>2, OpenedFields DEF Typed
    <3>3. SamePlace(t, s) /\ x.hold = s.hold
      BY <3>1, <3>2 DEF SamePlace
    <3>4. Available(x) = <<>> /\ Available(t) = <<>>
      <4>1. Available(s) = <<>>
        BY DEF Free
      <4>2. QED
        BY <3>1, <3>3, <4>1, SamePlaceSame
    <3>5. CASE s.hold
      <4>1. FileOf(t) = FileOf(x)
        BY <3>2, <3>3, <3>5, SamePlaceSame
      <4> HIDE DEF t
      <4>2. AtBlock(q, s, p, t, d)
        BY <3>1, <3>2, <3>3, <3>5 DEF AtBlock
      <4>3. QED
        BY <1>4, <2>4, <4>1, <4>2 DEF OpenedOrNot
    <3>6. CASE ~s.hold
      <4> DEFINE r == OpenedBy(p, h, i)
      <4>1. FileOf(x) \in Seq(Piece) /\ i \in Nat
        BY <1>2, FileType
      <4>2. Unknown \in Int
        BY DEF Unknown
      <4> HIDE DEF i
      <4>3. h \in Piece /\ r \in Reader /\ Reads(p, h, r, i)
        BY <3>1, <4>1, <4>2, ReadsHeader
      <4>4. <<h>> \in Seq(Piece)
        BY <4>3
      <4>5. Follows(t, x, <<h>>)
        <5>1. t.tail = <<>> /\ x.tail = <<>> /\ t.head = x.head \o <<h>>
          BY <3>1, <3>2, <3>3, <3>6
        <5> HIDE DEF t, h
        <5>2. QED
          BY <1>2, <3>4, <4>4, <5>1, PutInHead
      <4>6. ReadUpTo(FileOf(t), r)
        <5> HIDE DEF t, h, r
        <5>1. QED
          BY <1>4, <4>3, <4>5, ReadNext DEF i
      <4>7. r.n = p.n /\ r.from = p.n /\ r.open /\ ~r.done /\ r.recs = p.recs /\ r.head = h
        BY <3>1 DEF OpenedBy
      <4> HIDE DEF t, r
      <4>8. AtBlock(q, s, r, t, d)
        BY <3>1, <3>2, <3>3, <3>6, <4>3, <4>7 DEF AtBlock
      <4>9. QED
        BY <2>4, <4>6, <4>8 DEF OpenedOrNot
    <3>7. QED
      BY <3>5, <3>6
  <2>5. QED
    BY <2>2, <2>3, <2>4
<1>7. QED
  BY <1>5, <1>6

LEMMA SpanEmpty == ASSUME NEW a PROVE Span(a, 0) = <<>>
  BY DEF Span

LEMMA AtBlockReached ==
  ASSUME NEW q, NEW s, NEW p, NEW t, Typed(t), NEW d, AtBlock(q, s, p, t, d), ReadUpTo(FileOf(t), p),
         s.hold => ~HasSlices(s), ~s.unaccounted
  PROVE  Reached(p, t) /\ HeldOf(t) = <<>> /\ ~t.unaccounted
<1>1. /\ p \in Reader /\ ~p.done /\ p.recs = t.records
      /\ SamePlace(t, s) /\ t.block = <<>> /\ ~t.unaccounted
      /\ t.open /\ t.check = <<>> /\ t.uSize = 0 /\ t.cSize = 0
      /\ s.hold => ~p.open
      /\ ~s.hold => p.open /\ p.from = p.n /\ p.head = BlockHeader(Unknown, Unknown, d)
  BY DEF AtBlock
<1>2. t.hold = s.hold /\ HasSlices(t) = HasSlices(s)
  BY <1>1, SamePlaceSame DEF SamePlace
<1>3. HeldOf(t) = <<>>
  BY <1>1, <1>2, HeldIsBlock
<1>4. p.n \in Nat /\ Inside(p, t) = 0 /\ Owed(t) = 0
  BY <1>1, <1>2, ReaderTypes DEF Inside, Owed
<1>5. t.uSize = Len(<<>>) + 0 + Inside(p, t) /\ t.check = Span(p.n - Inside(p, t), t.uSize)
  BY <1>1, <1>4, SpanEmpty
<1>6. ~t.hold => /\ p.head.compressed = Unknown /\ p.head.uncompressed = Unknown
                 /\ t.cSize + Owed(t) = p.n - p.from
  BY <1>1, <1>2, <1>4 DEF BlockHeader
<1>7. Accounts(p, t, <<>>, 0)
  BY <1>1, <1>2, <1>5, <1>6 DEF Accounts
<1>8. HeldRun(p, t, <<>>)
  BY DEF HeldRun
<1>9. QED
  BY <1>1, <1>3, <1>7, <1>8 DEF Reached

LEMMA AccountReached ==
  ASSUME NEW s, Typed(s), NEW q, Reached(q, s)
  PROVE  /\ Reached(q, Account(s)) /\ HeldOf(Account(s)) = HeldOf(s)
         /\ FileOf(Account(s)) = FileOf(s)
<1> DEFINE a == Account(s)
<1>1. /\ SamePlace(a, s) /\ a.head = s.head /\ a.tail = s.tail /\ a.block = s.block
      /\ a.records = s.records /\ a.check = s.check /\ a.uSize = s.uSize /\ a.open = s.open
      /\ ~a.unaccounted /\ a.cSize = s.cSize + Owed(s)
  BY AccountFields
<1> HIDE DEF a
<1>2. HeldOf(a) = HeldOf(s) /\ FileOf(a) = FileOf(s)
  BY <1>1, SamePlaceSame
<1>3. a.hold = s.hold /\ Inside(q, a) = Inside(q, s) /\ Owed(a) = 0
  BY <1>1 DEF SamePlace, Inside, Owed
<1>4. /\ ReadUpTo(FileOf(s), q) /\ ~q.done
      /\ Accounts(q, s, HeldOf(s), 0) /\ HeldRun(q, s, HeldOf(s))
  BY DEF Reached
<1>5. s.open /\ ~s.hold => a.cSize + Owed(a) = q.n - q.from
  <2> SUFFICES ASSUME s.open /\ ~s.hold PROVE a.cSize + Owed(a) = q.n - q.from
    OBVIOUS
  <2>1. a.cSize = q.n - q.from
    BY <1>1, <1>4 DEF Accounts
  <2>2. q.n - q.from \in Nat
    BY <1>4, ReadUpToType, ReaderTypes
  <2>3. QED
    BY <1>3, <2>1, <2>2
<1>6. Accounts(q, a, HeldOf(a), 0)
  BY <1>1, <1>2, <1>3, <1>4, <1>5 DEF Accounts
<1>7. HeldRun(q, a, HeldOf(a))
  BY <1>1, <1>2, <1>4 DEF HeldRun
<1>8. QED
  BY <1>2, <1>4, <1>6, <1>7 DEF Reached, a

(* What is unprocessed in the dictionary buffer is the end of the stream.  *)
LEMMA UnprocessedBytes ==
  ASSUME IInv, HasUnprocessed
  PROVE  /\ BlockBytes(Block) = Span(taken - (end - start), end - start)
         /\ taken - (end - start) \in Nat /\ end - start \in Nat
         /\ BlockOK(Block) /\ Block.end - Block.start = end - start
<1> DEFINE n == end - start
           a == taken - n
           x == BlockBytes(Block)
           y == Span(a, n)
<1>1. DictTypeOK /\ BlockOK(Block) /\ WindowIsHistory
  BY BlockIsOK DEF IInv
<1>2. /\ n \in Nat /\ start \in Nat /\ end \in Nat /\ taken \in Nat /\ start < end /\ end <= Size
      /\ index \in 0 .. 1
  BY <1>1 DEF DictTypeOK, HasUnprocessed
<1>3. Block.end - Block.start = n /\ Block.buffer = index /\ Block.start = start
  BY DEF Block
<1>4. a \in Nat
  <2>1. end - 1 \in 0 .. end - 1 /\ 0 \in 0 .. end - 1
    BY <1>2
  <2>2. data[index][0] = taken - end + 0
    BY <1>1, <2>1 DEF WindowIsHistory
  <2>3. 0 \in 0 .. Size - 1
    BY <1>2
  <2>4. data[index][0] \in Nat
    BY <1>1, <1>2, <2>3 DEF DictTypeOK
  <2>5. taken - end + 0 \in Nat
    BY <2>2, <2>4
  <2>6. QED
    BY <1>2, <2>5
<1>5. /\ x \in Seq(Nat) /\ Len(x) = Block.end - Block.start
      /\ \A i \in 1 .. Block.end - Block.start :
           x[i] = data[Block.buffer][Block.start + i - 1]
  BY <1>1, BlockBytesType
<1>6. /\ y \in Seq(Nat) /\ Len(y) = n /\ \A i \in 1 .. n : y[i] = a + i - 1
  BY <1>2, <1>4, SpanType
<1> HIDE DEF x, y
<1>7. ASSUME NEW i \in 1 .. n PROVE x[i] = y[i]
  <2>1. x[i] = data[index][start + i - 1]
    BY <1>3, <1>5
  <2>2. start + i - 1 \in 0 .. end - 1
    BY <1>2
  <2>3. data[index][start + i - 1] = taken - end + (start + i - 1)
    BY <1>1, <2>2 DEF WindowIsHistory
  <2>4. taken - end + (start + i - 1) = a + i - 1
    BY <1>2
  <2>5. QED
    BY <1>6, <2>1, <2>3, <2>4
<1>8. x = y
  BY <1>3, <1>5, <1>6, <1>7, SeqEqual
<1>9. QED
  BY <1>1, <1>2, <1>3, <1>4, <1>8 DEF x, y

LEMMA CountedFields ==
  ASSUME NEW t \in State, NEW b
  PROVE  /\ SamePlace(Counted(t, b), t) /\ Counted(t, b).head = t.head
         /\ Counted(t, b).tail = t.tail /\ Counted(t, b).block = t.block
         /\ Counted(t, b).records = t.records /\ Counted(t, b).open = t.open
         /\ Counted(t, b).unaccounted = t.unaccounted /\ Counted(t, b).cSize = t.cSize
         /\ Counted(t, b).check = t.check \o BlockBytes(b)
         /\ Counted(t, b).uSize = t.uSize + (b.end - b.start)
  BY DEF Counted, State, SamePlace

LEMMA CountedReads ==
  ASSUME IInv, HasUnprocessed, NEW t, Typed(t), NEW p, Reached(p, t), t.open,
         p.n + Len(HeldOf(t)) = taken - (end - start)
  PROVE  /\ FileOf(Counted(t, Block)) = FileOf(t) /\ HeldOf(Counted(t, Block)) = HeldOf(t)
         /\ Accounts(p, Counted(t, Block), HeldOf(t), end - start)
         /\ HeldRun(p, Counted(t, Block), HeldOf(t))
<1> DEFINE c == Counted(t, Block)
           h == HeldOf(t)
           n == end - start
           base == p.n - Inside(p, t)
<1>1. /\ BlockBytes(Block) = Span(taken - n, n) /\ taken - n \in Nat /\ n \in Nat
      /\ Block.end - Block.start = n
  BY UnprocessedBytes
<1>2. /\ SamePlace(c, t) /\ c.head = t.head /\ c.tail = t.tail /\ c.block = t.block
      /\ c.records = t.records /\ c.open = t.open /\ c.unaccounted = t.unaccounted /\ c.cSize = t.cSize
      /\ c.check = t.check \o BlockBytes(Block) /\ c.uSize = t.uSize + (Block.end - Block.start)
  BY CountedFields DEF Typed
<1> HIDE DEF c
<1>3. FileOf(c) = FileOf(t) /\ HeldOf(c) = h
  BY <1>2, SamePlaceSame
<1>4. c.hold = t.hold /\ Inside(p, c) = Inside(p, t) /\ Owed(c) = Owed(t)
  BY <1>2 DEF SamePlace, Inside, Owed
<1>5. ReadUpTo(FileOf(t), p) /\ p \in Reader /\ Accounts(p, t, h, 0) /\ HeldRun(p, t, h)
  BY ReadUpToType DEF Reached
<1>6. /\ p.n \in Nat /\ p.from \in Nat /\ p.from <= p.n /\ Inside(p, t) \in Nat /\ Len(h) \in Nat
      /\ base \in Nat /\ t.uSize \in Nat
  <2>1. /\ p.n \in Nat /\ p.from \in Nat /\ p.from <= p.n
    BY <1>5, ReaderTypes
  <2>2. Inside(p, t) \in Nat /\ Inside(p, t) <= p.n
    BY <2>1 DEF Inside
  <2>3. Len(h) \in Nat
    BY <1>5, LenProperties DEF HeldRun
  <2>4. t.uSize \in Nat
    BY FieldTypes DEF Typed
  <2>5. QED
    BY <2>1, <2>2, <2>3, <2>4
<1>7. t.uSize = Len(h) + 0 + Inside(p, t) /\ t.check = Span(base, t.uSize)
  BY <1>5 DEF Accounts
<1>8. base + t.uSize = taken - n
  BY <1>6, <1>7
<1>9. c.uSize = Len(h) + n + Inside(p, c)
  BY <1>1, <1>2, <1>4, <1>6, <1>7
<1>10. c.uSize = t.uSize + n
  BY <1>1, <1>2
<1>11. c.check = Span(p.n - Inside(p, c), c.uSize)
  <2>1. c.check = Span(base, t.uSize) \o Span(base + t.uSize, n)
    BY <1>1, <1>2, <1>7, <1>8
  <2> DEFINE u == t.uSize
  <2>a. base \in Nat /\ u \in Nat /\ n \in Nat
    BY <1>1, <1>6
  <2> HIDE DEF base, n, u
  <2>b. Span(base, u) \o Span(base + u, n) = Span(base, u + n)
    BY <2>a, SpanJoins, ZenonT(40)
  <2>2. Span(base, t.uSize) \o Span(base + t.uSize, n) = Span(base, t.uSize + n)
    BY <2>b DEF u
  <2>3. c.check = Span(base, c.uSize)
    BY <1>10, <2>1, <2>2
  <2>4. QED
    BY <1>4, <2>3 DEF base
<1> HIDE DEF n, h
<1>12. Accounts(p, c, h, n)
  BY <1>2, <1>4, <1>5, <1>9, <1>11 DEF Accounts
<1>13. HeldRun(p, c, h)
  <2>1. t.uSize <= c.uSize /\ c.uSize \in Nat
    BY <1>1, <1>6, <1>10, SMTT(30)
  <2>2. ASSUME NEW i \in 1 .. Len(h)
        PROVE  /\ h[i] \in LzPiece
               /\ h[i].reset <=> i = 1
               /\ h[i].window <= Size /\ h[i].window <= c.uSize
               /\ OverlapWhenTwo => h[i].at = p.n + i - 1
    <3>1. /\ h[i] \in LzPiece
          /\ h[i].reset <=> i = 1
          /\ h[i].window <= Size /\ h[i].window <= t.uSize
          /\ OverlapWhenTwo => h[i].at = p.n + i - 1
      BY <1>5 DEF HeldRun
    <3>2. h[i].window \in Nat
      BY <3>1 DEF LzPiece
    <3>3. h[i].window <= c.uSize
      BY <1>6, <2>1, <3>1, <3>2
    <3>4. QED
      BY <3>1, <3>3
  <2>3. QED
    BY <1>5, <2>2 DEF HeldRun
<1>14. QED
  BY <1>3, <1>12, <1>13 DEF c, h, n

(* A block was begun from s, where the reader was at q: at p, it accepts   *)
(* what there is of the file, and the accounts include the block.          *)
Begun(q, s, p, t, d) ==
  /\ p \in Reader /\ ~p.done /\ SamePlace(t, s) /\ t.tail = <<>> /\ t.open /\ ~t.unaccounted
  /\ p.n + Len(HeldOf(t)) = q.n + Len(HeldOf(s))
  /\ Accounts(p, t, HeldOf(t), end - start) /\ HeldRun(p, t, HeldOf(t))
  /\ start = 0 => t.uSize = end - start /\ (p.open => p.head.dict = d)
  /\ start # 0 => t.uSize = s.uSize + (end - start) /\ p = q

BegunOrNot(q, s, o, d) ==
  \E p : ReadUpTo(FileOf(o.fcs), p) /\ (o.res = "ok" => Begun(q, s, p, o.fcs, d))

Beginning(s, b, d) ==
  Then(IF b.start = 0 THEN Reopening(Account(s), d) ELSE Ok(Account(s)), LAMBDA x : Ok(Counted(x, b)))

LEMMA BeginReads ==
  ASSUME IInv, HasUnprocessed, out \in Seq(Piece), ~running, NEW s, Typed(s), ~HasSlices(s),
         Free(s, "head"), NEW q, Reached(q, s), start # 0 => s.open,
         q.n + Len(HeldOf(s)) = taken - (end - start),
         NEW d \in Nat, NEW o, o \in Beginning(s, Block, d)
  PROVE  BegunOrNot(q, s, o, d)
<1> DEFINE a == Account(s)
           n == end - start
           c(x) == Counted(x, Block)
<1>1. /\ Typed(a) /\ SamePlace(a, s) /\ a.tail = s.tail /\ a.open = s.open /\ ~a.unaccounted
      /\ a.uSize = s.uSize
  BY AccountFields, AccountTyped
<1>2. Reached(q, a) /\ HeldOf(a) = HeldOf(s) /\ FileOf(a) = FileOf(s)
  BY AccountReached
<1>3. ~HasSlices(a) /\ Free(a, "head")
  BY <1>1, SamePlaceSame DEF Free
<1>4. Block.start = start /\ Block.end - Block.start = n
  BY DEF Block
<1> HIDE DEF a
<1>5. PICK e \in IF start = 0 THEN Reopening(a, d) ELSE Ok(a) :
        o \in IF e.res = "ok" THEN Ok(Counted(e.fcs, Block)) ELSE {e}
  BY <1>4 DEF Beginning, Then, a
<1> DEFINE x == e.fcs
(* What is true of x, in which a block is open.                            *)
<1>6. ASSUME NEW p, ReadUpTo(FileOf(x), p), e.res = "ok", Reached(p, x), Typed(x), x.open, x.tail = <<>>,
             ~x.unaccounted, SamePlace(x, s), p.n + Len(HeldOf(x)) = q.n + Len(HeldOf(s)),
             start = 0 => x.uSize = 0 /\ (p.open => p.head.dict = d),
             start # 0 => x.uSize = s.uSize /\ p = q
      PROVE  BegunOrNot(q, s, o, d)
  <2>1. o.res = "ok" /\ o.fcs = c(x)
    <3>1. o \in Ok(c(x))
      BY <1>5, <1>6
    <3>2. QED
      BY <3>1, OkIs
  <2> HIDE DEF x
  <2>2. /\ FileOf(c(x)) = FileOf(x) /\ HeldOf(c(x)) = HeldOf(x)
        /\ Accounts(p, c(x), HeldOf(x), n) /\ HeldRun(p, c(x), HeldOf(x))
    BY <1>6, CountedReads
  <2>3. /\ SamePlace(c(x), x) /\ c(x).tail = x.tail /\ c(x).open = x.open
        /\ c(x).unaccounted = x.unaccounted /\ c(x).uSize = x.uSize + (Block.end - Block.start)
    BY <1>6, CountedFields DEF Typed
  <2>4. c(x).uSize = x.uSize + n /\ n \in Nat
    BY <1>4, <2>3, UnprocessedBytes
  <2>5. start = 0 => c(x).uSize = n
    BY <1>6, <2>4
  <2>6. p \in Reader /\ ~p.done
    BY <1>6, ReadUpToType DEF Reached
  <2>7. SamePlace(c(x), s)
    BY <1>6, <2>3 DEF SamePlace
  <2> HIDE DEF c, n
  <2>8. Begun(q, s, p, c(x), d)
    BY <1>6, <2>2, <2>3, <2>4, <2>5, <2>6, <2>7 DEF Begun, n
  <2>9. QED
    BY <1>6, <2>1, <2>2, <2>8 DEF BegunOrNot
<1>7. CASE start = 0
  <2>1. e \in Reopening(a, d)
    BY <1>5, <1>7
  <2>2. OpenedOrNot(q, a, e, d)
    BY <1>1, <1>2, <1>3, <2>1, ReopeningReads
  <2>3. PICK p : ReadUpTo(FileOf(x), p) /\ (e.res = "ok" => AtBlock(q, a, p, x, d))
    BY <2>2 DEF OpenedOrNot
  <2>4. CASE e.res # "ok"
    BY <1>5, <2>3, <2>4 DEF BegunOrNot
  <2>5. CASE e.res = "ok"
    <3>1. AtBlock(q, a, p, x, d)
      BY <2>3, <2>5
    <3>2. Typed(x)
      <4>1. TypedAll(Reopening(a, d))
        <5>1. TypedAll(CloseIfOpen(a, "head"))
          BY <1>1, CloseIfOpenTyped
        <5>2. \A y \in CloseIfOpen(a, "head") : TypedAll(OpenBlock(y.fcs, d))
          BY <5>1, OpenTyped DEF TypedAll
        <5>3. QED
          BY <5>1, <5>2 DEF Reopening, Then, TypedAll
      <4>2. QED
        BY <2>1, <4>1 DEF TypedAll
    <3> HIDE DEF x
    <3>3. Reached(p, x) /\ HeldOf(x) = <<>> /\ ~x.unaccounted
      BY <1>1, <1>3, <2>3, <3>1, <3>2, AtBlockReached
    <3>4. /\ p \in Reader /\ p.n = q.n + Len(HeldOf(a)) /\ SamePlace(x, a) /\ x.tail = <<>> /\ x.open
          /\ x.uSize = 0
          /\ a.hold => ~p.open
          /\ ~a.hold => p.head = BlockHeader(Unknown, Unknown, d)
      BY <3>1 DEF AtBlock
    <3>5. p.open => p.head.dict = d
      BY <3>4 DEF BlockHeader
    <3>6. p.n + Len(HeldOf(x)) = q.n + Len(HeldOf(s))
      <4>1. p.n \in Nat /\ Len(HeldOf(x)) = 0
        BY <3>3, <3>4, ReaderTypes
      <4>2. p.n = q.n + Len(HeldOf(s))
        BY <1>2, <3>4
      <4>3. QED
        BY <4>1, <4>2
    <3>7. SamePlace(x, s)
      BY <1>1, <3>4 DEF SamePlace
    <3>8. QED
      BY <1>6, <1>7, <2>3, <2>5, <3>2, <3>3, <3>4, <3>5, <3>6, <3>7 DEF x
  <2>6. QED
    BY <2>4, <2>5
<1>8. CASE start # 0
  <2>1. e.res = "ok" /\ x = a
    <3>1. e \in Ok(a)
      BY <1>5, <1>8
    <3>2. QED
      BY <3>1, OkIs
  <2> HIDE DEF x
  <2>2. ReadUpTo(FileOf(x), q)
    BY <1>2, <2>1 DEF Reached
  <2>3. x.tail = <<>>
    BY <1>1, <2>1 DEF Free
  <2>4. QED
    BY <1>1, <1>2, <1>6, <1>8, <2>1, <2>2, <2>3 DEF x
<1>9. QED
  BY <1>7, <1>8
(* A table of slices read from its start is all of them.                   *)
LEMMA SlicesFromStart ==
  ASSUME NEW T, NEW ss \in Seq(Seq(T)) PROVE SlicesTo(ss, 0, 0, Len(ss)) = FlattenSeq(ss)
<1> DEFINE n == Len(ss)
           f == [i \in 1 .. n - 0 |-> SliceRest(ss, 0, 0, 0 + i - 1)]
<1>1. n \in Nat /\ n - 0 = n
  BY LenProperties
<1>2. ASSUME NEW i \in 1 .. n PROVE SliceRest(ss, 0, 0, 0 + i - 1) = ss[i]
  <2>1. ss[i] \in Seq(T) /\ (0 + i - 1) + 1 = i
    BY <1>1, <1>2, ElementOfSeq
  <2>2. SubSeq(ss[i], 0 + 1, Len(ss[i])) = ss[i]
    BY <2>1, CutEnds
  <2>3. QED
    BY <2>1, <2>2 DEF SliceRest
<1>3. ss = [i \in 1 .. n |-> ss[i]]
  BY LenProperties
<1>4. f = [i \in 1 .. n |-> ss[i]]
  BY <1>1, <1>2
<1>5. QED
  BY <1>3, <1>4 DEF SlicesTo

LEMMA PendingNext == \A u : Pending(fcs, u)' = SlicesTo(jobs', fcs'.outThread, fcs'.outPos, u)
  BY DEF Pending, Rest, SlicesTo, SliceRest

(* The file, and what is held, of the present output state.                *)
LEMMA FileIs == ASSUME XInv PROVE File = FileOf(fcs) /\ Held = HeldOf(fcs)
<1> DEFINE h == fcs.head
           a == Available(fcs)
           t == fcs.tail
<1>1. out \in Seq(Piece) /\ h \in Seq(Piece) /\ a \in Seq(Piece) /\ t \in Seq(Piece)
  BY FileType DEF XInv, Control
<1>2. (IF fcs.hold THEN <<>> ELSE Unwritten) = a
  BY DEF Unwritten, Available
<1>3. File = ((out \o h) \o a) \o t
  BY <1>2 DEF File
<1>4. FileOf(fcs) = out \o ((h \o a) \o t)
  BY DEF FileOf, Waiting
<1> HIDE DEF h, a, t
<1>5. (out \o h) \o a = out \o (h \o a) /\ h \o a \in Seq(Piece)
  <2>1. (out \o h) \o a = out \o (h \o a)
    BY <1>1, InAnyOrder, SMTT(30)
  <2>2. h \o a \in Seq(Piece)
    BY <1>1, ConcatProperties, SMTT(30)
  <2>3. QED
    BY <2>1, <2>2
<1>6. (out \o (h \o a)) \o t = out \o ((h \o a) \o t)
  <2> DEFINE g == h \o a
             o == out
  <2>1. o \in Seq(Piece) /\ g \in Seq(Piece) /\ t \in Seq(Piece)
    BY <1>1, <1>5
  <2> HIDE DEF g, o
  <2> HIDE <1>1, <1>2, <1>3, <1>4, <1>5
  <2>2. (o \o g) \o t = o \o (g \o t)
    BY <2>1, InAnyOrder, SMTT(30)
  <2>3. QED
    BY <2>2 DEF g, o
<1>7. Held = HeldOf(fcs)
  BY DEF Held, HeldOf, Unwritten
<1>8. QED
  BY <1>3, <1>4, <1>5, <1>6, <1>7

(* What is absorbed of the slices and what is left of them are the slices. *)
LEMMA SlicesCutAt ==
  ASSUME NEW T, NEW ss, NEW n, NEW t, NEW p, AtSlice(T, ss, n, t, p), NEW u \in t .. n,
         NEW x, x = IF u = t THEN p ELSE 0, AtSlice(T, ss, n, u, x)
  PROVE  /\ SlicesTo(ss, t, p, u) \in Seq(T) /\ SlicesTo(ss, u, x, n) \in Seq(T)
         /\ SlicesTo(ss, t, p, n) = SlicesTo(ss, t, p, u) \o SlicesTo(ss, u, x, n)
<1>1. t \in Nat /\ n \in Nat /\ t <= n
  BY DEF AtSlice
<1>2. SlicesTo(ss, t, p, n) \in Seq(T) /\ SlicesTo(ss, u, x, n) \in Seq(T)
  BY SlicesToEnd
<1>3. CASE u = t
  <2>1. SlicesTo(ss, t, p, u) = <<>> /\ x = p
    BY <1>3, SlicesToHere
  <2>2. QED
    BY <1>2, <1>3, <2>1
<1>4. CASE u = n
  <2>1. SlicesTo(ss, u, x, n) = <<>>
    BY <1>4, SlicesToEnd
  <2>2. QED
    BY <1>2, <1>4, <2>1
<1>5. CASE u # t /\ u # n
  <2> DEFINE a == SlicesTo(ss, t, p, u)
             b == ss[u + 1]
             c == SlicesAfter(ss, n, u + 1)
  <2>1. u \in Nat /\ t <= u /\ u < n /\ x = 0
    BY <1>1, <1>5
  <2>2. /\ a \in Seq(T) /\ c \in Seq(T)
        /\ SlicesTo(ss, t, p, n) = (a \o SliceRest(ss, t, p, u)) \o c
    BY <2>1, SlicesSplit
  <2>3. b \in Seq(T) /\ SliceRest(ss, t, p, u) = b
    BY <1>5, <2>1, SliceRestType
  <2>4. SlicesTo(ss, u, x, n) = SliceRest(ss, u, x, u) \o c
    BY <2>1, SlicesFromHere, SMTT(30)
  <2>5. SliceRest(ss, u, x, u) = b
    <3>1. SliceRest(ss, u, x, u) = SubSeq(b, 0 + 1, Len(b))
      BY <2>1 DEF SliceRest
    <3>2. QED
      BY <2>3, <3>1, CutEnds
  <2> HIDE DEF a, b, c
  <2>6. (a \o b) \o c = a \o (b \o c)
    BY <2>2, <2>3, InAnyOrder, SMTT(30)
  <2>7. QED
    BY <1>2, <2>2, <2>3, <2>4, <2>5, <2>6 DEF a
<1>6. QED
  BY <1>3, <1>4, <1>5

LEMMA AbsorbToKeeps ==
  ASSUME NEW s, Typed(s), s.hold, HasSlices(s), NEW u \in s.outThread .. Len(jobs)
  PROVE  HeldOf(AbsorbTo(s, u)) = HeldOf(s) /\ (u = Len(jobs) => ~HasSlices(AbsorbTo(s, u)))
<1> DEFINE t == AbsorbTo(s, u)
           n == Len(jobs)
           p == IF u = s.outThread THEN s.outPos ELSE 0
           b == s.block
           x == SlicesTo(jobs, s.outThread, s.outPos, u)
           y == SlicesTo(jobs, u, p, n)
           z == SlicesTo(jobs, s.outThread, s.outPos, n)
<1>1. s \in State /\ AtSlice(Piece, jobs, n, s.outThread, s.outPos) /\ Typed(t) /\ ~running
  BY AbsorbToTyped DEF Typed, InSlices, HasSlices
<1>2. /\ t.block = b \o Pending(s, u) /\ t.outThread = u /\ t.outPos = p /\ t.hold
  BY <1>1 DEF AbsorbTo, State
<1>3. AtSlice(Piece, jobs, n, u, p)
  BY <1>1, <1>2 DEF Typed, InSlices
<1>4. x \in Seq(Piece) /\ y \in Seq(Piece) /\ z = x \o y
  <2> DEFINE v == s.outThread
             w == s.outPos
  <2>1. AtSlice(Piece, jobs, n, v, w) /\ AtSlice(Piece, jobs, n, u, p) /\ u \in v .. n
    BY <1>1, <1>3
  <2>2. p = IF u = v THEN w ELSE 0
    OBVIOUS
  <2> HIDE DEF v, w, p, n
  <2>3. /\ SlicesTo(jobs, v, w, u) \in Seq(Piece) /\ SlicesTo(jobs, u, p, n) \in Seq(Piece)
        /\ SlicesTo(jobs, v, w, n) = SlicesTo(jobs, v, w, u) \o SlicesTo(jobs, u, p, n)
    BY <2>1, <2>2, SlicesCutAt
  <2>4. QED
    BY <2>3 DEF v, w
<1>5. Pending(s, u) = x /\ Pending(s, n) = z /\ Pending(t, n) = y
  BY <1>2, PendingIsSlices
<1>6. HeldOf(t) = (b \o x) \o y
  BY <1>1, <1>2, <1>5 DEF HeldOf
<1>7. HeldOf(s) = b \o z
  BY <1>1, <1>5 DEF HeldOf
<1>8. b \in Seq(Piece)
  BY <1>1, FieldTypes
<1>9. n \in Nat
  BY <1>1 DEF AtSlice
<1>10. u = n => ~HasSlices(t)
  BY <1>2, <1>9 DEF HasSlices
<1> HIDE DEF b, x, y, z, t
<1>11. (b \o x) \o y = b \o (x \o y)
  BY <1>4, <1>8, InAnyOrder, SMTT(30)
<1>12. QED
  BY <1>4, <1>6, <1>7, <1>10, <1>11 DEF t

(* Absorbing slices changes where they wait, and neither the file nor what *)
(* is held of the open block.                                              *)
Absorbed(t, s) ==
  /\ Typed(t) /\ SameFrame(t, s) /\ FileOf(t) = FileOf(s) /\ HeldOf(t) = HeldOf(s)
  /\ Available(t) = Available(s)
  /\ ~s.hold => t = s

LEMMA AbsorbKeeps ==
  ASSUME NEW s, Typed(s), NEW o \in Absorb(s)
  PROVE  /\ Absorbed(o.fcs, s)
         /\ o.res = "ok" /\ s.hold => ~HasSlices(o.fcs)
         /\ ~s.hold => o.res = "ok"
         /\ ~HasSlices(s) => o.fcs = s
<1>1. Typed(o.fcs) /\ s \in State /\ SameFrame(o.fcs, s)
  BY AbsorbTyped, AbsorbKeepsFrame DEF TypedAll, Typed
<1>2. CASE ~(s.hold /\ HasSlices(s))
  <2>1. o.res = "ok" /\ o.fcs = s
    <3>1. o \in Ok(s)
      BY <1>2 DEF Absorb
    <3>2. QED
      BY <3>1, OkIs
  <2>2. QED
    BY <1>1, <1>2, <2>1 DEF Absorbed
<1>3. CASE s.hold /\ HasSlices(s)
  <2> DEFINE n == Len(jobs)
             full == [AbsorbTo(s, n) EXCEPT !.unaccounted = FALSE]
  <2>1. n \in s.outThread .. n
    BY DEF Typed, InSlices, AtSlice
  <2>2. \/ o \in Ok(full)
        \/ \E u \in s.outThread .. n - 1 : o \in OutOfMemory(AbsorbTo(s, u))
    BY <1>3 DEF Absorb
  <2>3. HeldOf(o.fcs) = HeldOf(s) /\ (o.res = "ok" => ~HasSlices(o.fcs))
    <3>1. CASE o \in Ok(full)
      <4> DEFINE t == AbsorbTo(s, n)
      <4>1. HeldOf(t) = HeldOf(s) /\ ~HasSlices(t) /\ Typed(t)
        BY <1>3, <2>1, AbsorbToKeeps, AbsorbToTyped
      <4>2. o.fcs = full
        BY <3>1, OkIs
      <4> HIDE DEF t
      <4>3. SamePlace(full, t) /\ full.block = t.block
        BY <4>1 DEF Typed, State, SamePlace, t
      <4>4. QED
        BY <4>1, <4>2, <4>3, SamePlaceSame
    <3>2. ASSUME NEW u \in s.outThread .. n - 1, o \in OutOfMemory(AbsorbTo(s, u))
          PROVE  HeldOf(o.fcs) = HeldOf(s) /\ (o.res = "ok" => ~HasSlices(o.fcs))
      <4>1. u \in s.outThread .. n
        BY <2>1, <3>2
      <4>2. o.res = "memory" /\ o.fcs = AbsorbTo(s, u)
        BY <3>2, NoMemoryIs
      <4>3. QED
        BY <1>3, <4>1, <4>2, AbsorbToKeeps
    <3>3. QED
      BY <2>2, <3>1, <3>2
  <2>4. Available(o.fcs) = <<>> /\ Available(s) = <<>>
    BY <1>1, <1>3 DEF Available, SameFrame
  <2>5. FileOf(o.fcs) = FileOf(s)
    BY <1>1, <2>4 DEF FileOf, Waiting, SameFrame
  <2>6. QED
    BY <1>1, <1>3, <2>3, <2>4, <2>5 DEF Absorbed
<1>4. QED
  BY <1>2, <1>3

(* The index is written, and the reader has come to the end of the file.   *)
Ended(q, s, p, t) ==
  /\ p \in Reader /\ p.done /\ ~p.open /\ p.n = q.n + Len(HeldOf(s)) /\ p.recs = t.records
  /\ SamePlace(t, s) /\ ~t.open /\ HeldOf(t) = <<>>

EndedOrNot(q, s, o) ==
  \E p : ReadUpTo(FileOf(o.fcs), p) /\ (o.res = "ok" => Ended(q, s, p, o.fcs))

WithIndex(x, dst) == [x EXCEPT ![dst] = Append(@, Index(x.records))]

LEMMA WithIndexFields ==
  ASSUME NEW x \in State, NEW dst \in {"head", "tail"}
  PROVE  /\ SamePlace(WithIndex(x, dst), x) /\ WithIndex(x, dst).block = x.block
         /\ WithIndex(x, dst).records = x.records /\ WithIndex(x, dst).open = x.open
         /\ dst = "head" => /\ WithIndex(x, dst).head = Append(x.head, Index(x.records))
                            /\ WithIndex(x, dst).tail = x.tail
         /\ dst = "tail" => /\ WithIndex(x, dst).tail = Append(x.tail, Index(x.records))
                            /\ WithIndex(x, dst).head = x.head
<1>1. CASE dst = "head"
  BY <1>1 DEF WithIndex, State, SamePlace
<1>2. CASE dst = "tail"
  BY <1>2 DEF WithIndex, State, SamePlace
<1>3. QED
  BY <1>1, <1>2

(* The reader between blocks takes the index.                              *)
LEMMA ReadsTheIndex ==
  ASSUME NEW p \in Reader, ~p.open, ~p.done, NEW i
  PROVE  /\ Index(p.recs) \in Piece /\ Finished(p) \in Reader
         /\ Reads(p, Index(p.recs), Finished(p), i)
         /\ Finished(p).done /\ ~Finished(p).open /\ Finished(p).n = p.n /\ Finished(p).recs = p.recs
<1>1. Index(p.recs) \in IndexPiece /\ Index(p.recs).records = p.recs
  BY ReaderTypes DEF Index, IndexPiece
<1>2. Finished(p) \in Reader
  BY ReaderSteps
<1>3. ReadsIndex(p, Index(p.recs), Finished(p))
  BY <1>1 DEF ReadsIndex
<1>4. QED
  BY <1>1, <1>2, <1>3 DEF Piece, Reads, Finished

LEMMA IndexFollows ==
  ASSUME NEW x, Typed(x), out \in Seq(Piece), NEW dst \in {"head", "tail"},
         dst = "head" => Available(x) = <<>> /\ x.tail = <<>>, NEW e, e = Index(x.records), e \in Piece
  PROVE  Follows(WithIndex(x, dst), x, <<e>>)
<1> DEFINE t == WithIndex(x, dst)
           f == <<e>>
<1>1. /\ x \in State /\ x.head \in Seq(Piece) /\ x.tail \in Seq(Piece)
  BY FieldTypes DEF Typed
<1>2. /\ SamePlace(t, x)
      /\ dst = "head" => t.head = Append(x.head, e) /\ t.tail = x.tail
      /\ dst = "tail" => t.tail = Append(x.tail, e) /\ t.head = x.head
  BY <1>1, WithIndexFields
<1>3. Available(t) = Available(x)
  BY <1>2, SamePlaceSame
<1>4. f \in Seq(Piece) /\ Append(x.head, e) = x.head \o f /\ Append(x.tail, e) = x.tail \o f
  <2>1. f \in Seq(Piece)
    BY DEF f
  <2>2. QED
    BY <1>1, <2>1, AppendIsConcat
<1> HIDE DEF t, f
<1>5. CASE dst = "head"
  BY <1>2, <1>3, <1>4, <1>5, PutInHead DEF t, f
<1>6. CASE dst = "tail"
  BY <1>2, <1>3, <1>4, <1>6, PutInTail DEF t, f
<1>7. QED
  BY <1>5, <1>6

LEMMA EndReads ==
  ASSUME NEW s, Typed(s), out \in Seq(Piece), ~running, s.hold => ~HasSlices(s), NEW q, Reached(q, s),
         NEW dst \in {"head", "tail"}, Free(s, dst), NEW o, o \in XzEnd(s, dst)
  PROVE  EndedOrNot(q, s, o)
<1>1. PICK e \in CloseIfOpen(s, dst) :
        o \in IF e.res = "ok" THEN Ok(WithIndex(e.fcs, dst)) \cup OutOfMemory(e.fcs) ELSE {e}
  BY DEF XzEnd, Then, WithIndex
<1> DEFINE x == e.fcs
           t == WithIndex(x, dst)
<1>2. Typed(x) /\ x \in State
  BY <1>1, CloseIfOpenTyped DEF TypedAll, Typed
<1>3. ClosedOrNot(q, s, e, dst)
  BY <1>1, CloseIfOpenReads
<1>4. PICK p : /\ ReadUpTo(FileOf(x), p)
               /\ e.res = "ok" => Closed(q, s, p, x) /\ (dst = "head" => x.tail = <<>>)
  BY <1>3 DEF ClosedOrNot
<1>5. CASE e.res # "ok"
  BY <1>1, <1>4, <1>5 DEF EndedOrNot
<1>6. CASE e.res = "ok"
  <2>1. (o.res = "memory" /\ o.fcs = x) \/ (o.res = "ok" /\ o.fcs = t)
    <3>1. o \in Ok(t) \/ o \in OutOfMemory(x)
      BY <1>1, <1>6
    <3>2. QED
      BY <3>1, OkIs, NoMemoryIs
  <2>2. /\ p \in Reader /\ ~p.done /\ ~p.open /\ p.n = q.n + Len(HeldOf(s)) /\ p.recs = x.records
        /\ SamePlace(x, s) /\ ~x.open /\ x.block = <<>>
    BY <1>4, <1>6 DEF Closed
  <2>3. Available(x) = Available(s) /\ HasSlices(x) = HasSlices(s) /\ x.hold = s.hold
    BY <2>2, SamePlaceSame DEF SamePlace
  <2>4. dst = "head" => Available(x) = <<>> /\ x.tail = <<>>
    BY <1>4, <1>6, <2>3 DEF Free
  <2>5. /\ Index(p.recs) \in Piece /\ Finished(p) \in Reader
        /\ Reads(p, Index(p.recs), Finished(p), Len(FileOf(x)) + 1)
        /\ Finished(p).done /\ ~Finished(p).open /\ Finished(p).n = p.n /\ Finished(p).recs = p.recs
    BY <2>2, ReadsTheIndex
  <2>6. Follows(t, x, <<Index(p.recs)>>)
    BY <1>2, <2>2, <2>4, <2>5, IndexFollows
  <2>7. ReadUpTo(FileOf(t), Finished(p))
    BY <1>4, <2>5, <2>6, ReadNext
  <2>8. /\ SamePlace(t, x) /\ t.block = x.block /\ t.records = x.records /\ t.open = x.open
    BY <1>2, WithIndexFields
  <2>9. HeldOf(t) = HeldOf(x) /\ HeldOf(x) = <<>>
    BY <1>2, <2>2, <2>3, <2>8, SamePlaceSame, HeldIsBlock
  <2>10. Ended(q, s, Finished(p), t)
    BY <2>2, <2>5, <2>8, <2>9 DEF Ended, SamePlace
  <2>11. QED
    BY <1>4, <2>1, <2>7, <2>10 DEF EndedOrNot
<1>7. QED
  BY <1>5, <1>6

-----------------------------------------------------------------------------
(* The invariant: a reader accepts what there is of the file, and what is  *)
(* kept of the open block, of the one in compression and of the dictionary *)
(* buffer goes on where it stopped.                                        *)
Framed(q, s, n) == Accounts(q, s, HeldOf(s), n) /\ HeldRun(q, s, HeldOf(s))

(* The caller does not reach the block in compression: he is behind it in  *)
(* its buffer, or has moved to the other buffer and cannot move back.      *)
OutOfReach == IF index = curBlock.buffer THEN curBlock.end <= end ELSE async /\ ~NeedShift

BlockData(a) ==
  \A i \in curBlock.start .. curBlock.end - 1 :
    data[curBlock.buffer][i] = a + i - curBlock.start

InCompression(q) ==
  running => /\ fcs.open /\ (curBlock.start = 0 <=> fcs.uSize = InHand) /\ curBlock.end <= fcs.uSize
             /\ ~fcs.hold => fcs.unaccounted
             /\ OverlapWhenTwo => OutOfReach /\ BlockData(q.n + Len(HeldOf(fcs)))

InDictionary(q) ==
  /\ fcs.open => fcs.uSize = total \/ start = 0
  /\ ~fcs.open /\ ~endMarked => start = 0
  /\ q.open => \/ q.head.dict >= Size
               \/ ending /\ start = end /\ (running => curBlock.end <= q.head.dict)

AtEnd(q) ==
  /\ fcs.tail # <<>> => endMarked
  /\ q.done <=> endMarked
  /\ endMarked => ~running /\ ending /\ start = end /\ ~fcs.open
  /\ ended => endMarked /\ ~HasOutput(fcs)

Fits(q) ==
  /\ Framed(q, fcs, InHand)
  /\ q.n + Len(HeldOf(fcs)) + InHand + (end - start) = taken
  /\ InCompression(q) /\ InDictionary(q) /\ AtEnd(q)

GivenUp == ~running /\ ~endMarked /\ ~ended

DInv == \E q : ReadUpTo(FileOf(fcs), q) /\ IF failed THEN GivenUp ELSE Fits(q)

(* A step of the output that leaves the accounts of the open block.        *)
Moves(t, s) ==
  /\ t.hold = s.hold /\ t.records = s.records /\ t.check = s.check /\ t.uSize = s.uSize
  /\ t.open = s.open /\ HeldOf(t) = HeldOf(s)
  /\ ~s.hold => t.cSize = s.cSize /\ t.unaccounted = s.unaccounted
  /\ s.tail = <<>> => t.tail = <<>>
  /\ ~HasOutput(s) => ~HasOutput(t)

LEMMA FramedMoves ==
  ASSUME NEW q, NEW s, NEW t, Moves(t, s), NEW n, Framed(q, s, n) PROVE Framed(q, t, n)
<1> DEFINE h == HeldOf(s)
<1>1. HeldOf(t) = h /\ Accounts(q, s, h, n) /\ HeldRun(q, s, h)
  BY DEF Moves, Framed
<1>2. /\ t.hold = s.hold /\ t.records = s.records /\ t.check = s.check /\ t.uSize = s.uSize
      /\ t.open = s.open
  BY DEF Moves
<1>3. Inside(q, t) = Inside(q, s)
  BY <1>2 DEF Inside
<1>4. ~s.hold => t.cSize = s.cSize /\ Owed(t) = Owed(s)
  BY DEF Moves, Owed
<1> HIDE DEF h
<1>5. Accounts(q, t, h, n)
  BY <1>1, <1>2, <1>3, <1>4 DEF Accounts
<1>6. HeldRun(q, t, h)
  BY <1>1, <1>2 DEF HeldRun
<1>7. QED
  BY <1>1, <1>5, <1>6 DEF Framed

LEMMA AbsorbMoves == ASSUME NEW s, Typed(s), NEW o \in Absorb(s) PROVE Moves(o.fcs, s)
<1> DEFINE t == o.fcs
<1>1. Absorbed(t, s) /\ (~HasSlices(s) => t = s)
  BY AbsorbKeeps
<1> HIDE DEF t
<1>2. ~HasOutput(s) => t = s
  BY <1>1 DEF HasOutput
<1>3. QED
  BY <1>1, <1>2 DEF Absorbed, SameFrame, Moves, t

LEMMA NothingAvailable ==
  ASSUME NEW s, Typed(s), s.hold \/ running \/ ~HasSlices(s) PROVE Available(s) = <<>>
<1>1. CASE s.hold \/ running
  BY <1>1 DEF Available
<1>2. CASE ~HasSlices(s) /\ ~running
  <2>1. AtSlice(Piece, jobs, Len(jobs), s.outThread, s.outPos)
    BY DEF Typed, InSlices
  <2>2. s.outThread = Len(jobs)
    BY <1>2, <2>1 DEF AtSlice, HasSlices
  <2>3. Pending(s, Len(jobs)) = <<>>
    BY <2>1, <2>2, SlicesToEnd, PendingIsSlices
  <2>4. QED
    BY <2>3 DEF Available
<1>3. QED
  BY <1>1, <1>2

LEMMA WrittenMoves == ASSUME NEW s, Typed(s), NEW n \in Nat PROVE Moves(Written(s, n).fcs, s)
<1> DEFINE t == Written(s, n).fcs
<1>1. /\ SameBlock(t, s) /\ (s.head = <<>> => t.head = <<>>) /\ (s.tail = <<>> => t.tail = <<>>)
      /\ Available(s) = <<>> => t.outThread = s.outThread /\ t.outPos = s.outPos
  BY WrittenCut
<1> HIDE DEF t
<1>2. Available(s) = <<>> => SamePlace(t, s)
  BY <1>1 DEF SamePlace, SameBlock
<1>3. HeldOf(t) = HeldOf(s)
  <2>1. CASE s.hold \/ running
    BY <1>1, <1>2, <2>1, NothingAvailable, SamePlaceSame DEF SameBlock
  <2>2. CASE ~s.hold
    BY <1>1, <2>2 DEF HeldOf, SameBlock
  <2>3. QED
    BY <2>1, <2>2
<1>4. ~HasOutput(s) => ~HasOutput(t)
  <2>1. ASSUME ~HasOutput(s) PROVE ~HasOutput(t)
    <3>1. ~HasSlices(s) /\ s.head = <<>> /\ s.tail = <<>>
      BY <2>1 DEF HasOutput
    <3>2. HasSlices(t) = HasSlices(s)
      BY <1>2, <3>1, NothingAvailable, SamePlaceSame
    <3>3. QED
      BY <1>1, <3>1, <3>2 DEF HasOutput
  <2>2. QED
    BY <2>1
<1>5. QED
  BY <1>1, <1>3, <1>4 DEF Moves, SameBlock, t

(* The output state of the next moment.                                    *)
LEMMA NextOutput ==
  ASSUME UNCHANGED <<jobs, running>>, NEW t, fcs' = t
  PROVE  /\ HeldOf(fcs)' = HeldOf(t) /\ Waiting(fcs)' = Waiting(t) /\ FileOf(fcs)' = out' \o Waiting(t)
         /\ HasOutput(fcs)' = HasOutput(t) /\ Owed(fcs)' = Owed(t)
<1>1. \A u : Pending(fcs, u)' = Pending(t, u)
  BY PendingNext, PendingIsSlices
<1>2. Pending(fcs, Len(jobs))' = Pending(t, Len(jobs))
  <2>1. Pending(fcs, Len(jobs))' = SlicesTo(jobs', fcs'.outThread, fcs'.outPos, Len(jobs'))
    BY DEF Pending, Rest, SlicesTo, SliceRest
  <2>2. QED
    BY <2>1, PendingIsSlices
<1>3. HeldOf(fcs)' = HeldOf(t)
  BY <1>2 DEF HeldOf
<1>4. Waiting(fcs)' = Waiting(t)
  BY <1>2 DEF Waiting, Available
<1>5. FileOf(fcs)' = out' \o Waiting(t)
  BY <1>4 DEF FileOf
<1>6. HasOutput(fcs)' = HasOutput(t)
  BY DEF HasOutput, HasSlices
<1>7. Owed(fcs)' = Owed(t)
  BY DEF Owed
<1>8. QED
  BY <1>3, <1>4, <1>5, <1>6, <1>7

LEMMA NextFramed ==
  ASSUME UNCHANGED <<jobs, running>>, NEW t, fcs' = t, NEW q, NEW n, Framed(q, t, n), InHand' = n
  PROVE  Framed(q, fcs, InHand)'
<1> DEFINE h == HeldOf(t)
<1>1. HeldOf(fcs)' = h /\ Owed(fcs)' = Owed(t)
  BY NextOutput
<1>2. Accounts(q, t, h, n) /\ HeldRun(q, t, h)
  BY DEF Framed
<1>3. Inside(q, fcs)' = Inside(q, t)
  BY DEF Inside
<1> HIDE DEF h
<1>4. Accounts(q, fcs, HeldOf(fcs), InHand)'
  BY <1>1, <1>2, <1>3 DEF Accounts
<1>5. HeldRun(q, fcs, HeldOf(fcs))'
  BY <1>1, <1>2 DEF HeldRun
<1>6. QED
  BY <1>4, <1>5 DEF Framed

(* A step that moves output, and leaves the rest of the accounts.          *)
LEMMA OutputFits ==
  ASSUME XInv, ~failed, NEW q, ReadUpTo(FileOf(fcs), q), Fits(q),
         UNCHANGED <<dictVars, jobs, running, curBlock, endMarked, failed>>, ending => ending',
         NEW t, fcs' = t, Moves(t, fcs), out' \o Waiting(t) = FileOf(fcs),
         ended' => ended \/ (endMarked /\ ~HasOutput(t))
  PROVE  DInv'
<1>1. /\ Framed(q, fcs, InHand) /\ InCompression(q) /\ InDictionary(q) /\ AtEnd(q)
      /\ q.n + Len(HeldOf(fcs)) + InHand + (end - start) = taken
  BY DEF Fits
<1>2. /\ HeldOf(fcs)' = HeldOf(t) /\ FileOf(fcs)' = FileOf(fcs) /\ HasOutput(fcs)' = HasOutput(t)
  BY NextOutput
<1>3. /\ HeldOf(t) = HeldOf(fcs) /\ t.open = fcs.open /\ t.uSize = fcs.uSize
      /\ (fcs.tail = <<>> => t.tail = <<>>) /\ (~HasOutput(fcs) => ~HasOutput(t))
  BY DEF Moves
<1>4. InHand' = InHand
  BY DEF InHand
<1>5. Framed(q, fcs, InHand)'
  <2> DEFINE n == InHand
  <2>1. Framed(q, t, n) /\ InHand' = n
    BY <1>1, <1>4, FramedMoves
  <2> HIDE DEF n
  <2>2. QED
    BY <2>1, NextFramed
<1>6. (q.n + Len(HeldOf(fcs)) + InHand + (end - start) = taken)'
  BY <1>1, <1>2, <1>3, <1>4 DEF dictVars
<1>7. InCompression(q)'
  <2>1. OutOfReach' = OutOfReach
    BY DEF OutOfReach, NeedShift, KeepsOverlap, MustReset, dictVars
  <2>2. \A a : BlockData(a)' = BlockData(a)
    BY DEF BlockData, dictVars
  <2>3. HeldOf(fcs)' = HeldOf(fcs) /\ fcs'.open = fcs.open /\ fcs'.uSize = fcs.uSize
        /\ running' = running /\ curBlock' = curBlock
    BY <1>2, <1>3
  <2>4. ASSUME running'
        PROVE  (/\ fcs.open /\ (curBlock.start = 0 <=> fcs.uSize = InHand)
                /\ curBlock.end <= fcs.uSize /\ (~fcs.hold => fcs.unaccounted))'
    BY <1>1, <1>4, <2>3, <2>4 DEF InCompression, Moves
  <2>5. ASSUME running', OverlapWhenTwo PROVE OutOfReach' /\ BlockData(q.n + Len(HeldOf(fcs)))'
    <3>1. OutOfReach /\ BlockData(q.n + Len(HeldOf(fcs)))
      BY <1>1, <2>3, <2>5 DEF InCompression
    <3>2. BlockData(q.n + Len(HeldOf(fcs)))'
      BY <3>1, <2>3 DEF BlockData, dictVars
    <3>3. QED
      BY <2>1, <3>1, <3>2
  <2>6. QED
    BY <2>4, <2>5 DEF InCompression, OverlapWhenTwo
<1>8. InDictionary(q)'
  BY <1>1, <1>3 DEF InDictionary, dictVars
<1>9. AtEnd(q)'
  <2>1. (fcs'.tail # <<>> => endMarked') /\ (q.done <=> endMarked')
    BY <1>1, <1>3 DEF AtEnd
  <2>2. endMarked' => ~running' /\ ending' /\ start' = end' /\ ~fcs'.open
    BY <1>1, <1>3 DEF AtEnd, dictVars
  <2>3. ended' => endMarked' /\ ~HasOutput(fcs)'
    BY <1>1, <1>2, <1>3 DEF AtEnd
  <2>4. QED
    BY <2>1, <2>2, <2>3 DEF AtEnd
<1>10. Fits(q)'
  BY <1>5, <1>6, <1>7, <1>8, <1>9 DEF Fits
<1>11. QED
  BY <1>2, <1>10 DEF DInv

LEMMA NotFailed ==
  ASSUME DInv, ~failed PROVE \E q : ReadUpTo(FileOf(fcs), q) /\ Fits(q)
  BY DEF DInv

LEMMA MovesTwice ==
  ASSUME NEW s, NEW t, NEW u, Moves(u, t), Moves(t, s) PROVE Moves(u, s)
  BY DEF Moves

LEMMA DWritten ==
  ASSUME XInv, DInv, ~failed, NEW a \in Absorb(fcs), NEW n \in Nat,
         fcs' = Written(a.fcs, n).fcs, out' = out \o Written(a.fcs, n).bytes,
         UNCHANGED <<dictVars, jobs, running, curBlock, userVars>>
  PROVE  DInv'
<1> DEFINE s == a.fcs
           t == Written(s, n).fcs
           w == Written(s, n).bytes
           r == Waiting(t)
<1>1. PICK q : ReadUpTo(FileOf(fcs), q) /\ Fits(q)
  BY NotFailed
<1>2. Typed(fcs) /\ out \in Seq(Piece)
  BY DEF XInv, Control
<1>3. Absorbed(s, fcs) /\ Typed(s)
  BY <1>2, AbsorbKeeps DEF Absorbed
<1>4. Moves(t, fcs)
  <2> HIDE DEF s
  <2>1. Moves(t, s)
    BY <1>3, WrittenMoves
  <2>2. Moves(s, fcs)
    BY <1>2, AbsorbMoves DEF s
  <2> HIDE DEF t
  <2>3. QED
    BY <2>1, <2>2, MovesTwice
<1>5. w \in Seq(Piece) /\ Typed(t) /\ w \o r = Waiting(s)
  <2> HIDE DEF s
  <2>1. QED
    BY <1>3, WrittenCut
<1>6. r \in Seq(Piece)
  <2>1. InSlices(t)
    BY <1>5 DEF Typed
  <2> HIDE DEF t
  <2>2. t.head \in Seq(Piece) /\ Available(t) \in Seq(Piece) /\ t.tail \in Seq(Piece)
    BY <1>2, <1>5, FileType
  <2>3. QED
    BY <2>2, ConcatProperties DEF Waiting
<1>7. out' \o r = FileOf(fcs)
  <2> DEFINE o == out
  <2>1. o \in Seq(Piece) /\ w \in Seq(Piece) /\ r \in Seq(Piece) /\ out' = o \o w
    BY <1>2, <1>5, <1>6
  <2>2. FileOf(fcs) = o \o (w \o r)
    BY <1>3, <1>5 DEF Absorbed, FileOf
  <2> HIDE DEF w, r, o
  <2>3. (o \o w) \o r = o \o (w \o r)
    BY <2>1, InAnyOrder, SMTT(30)
  <2>4. QED
    BY <2>1, <2>2, <2>3
<1>8. fcs' = t
  OBVIOUS
<1> HIDE DEF r, s, t, w
<1>9. QED
  BY <1>1, <1>4, <1>7, <1>8, OutputFits DEF userVars, r

LEMMA DCopy == ASSUME XInv, DInv, ~Retries, NEW n \in OutputSizes, CopyOutput(n) PROVE DInv'
<1>1. n \in Nat /\ ~failed
  BY SizesAssumption DEF CopyOutput, Goes, XInv, Control
<1>2. PICK a \in Absorb(fcs) : fcs' = Written(a.fcs, n).fcs /\ out' = out \o Written(a.fcs, n).bytes
  BY SMTT(30) DEF CopyOutput
<1>3. QED
  BY <1>1, <1>2, DWritten DEF CopyOutput

LEMMA DNextBuffer == ASSUME XInv, DInv, ~Retries, NextBuffer PROVE DInv'
<1>1. PICK a \in Absorb(fcs) : /\ fcs' = Written(a.fcs, NextSize(a)).fcs
                               /\ out' = out \o Written(a.fcs, NextSize(a)).bytes
  BY ZenonT(40) DEF NextBuffer, NextSize
<1>2. Typed(a.fcs) /\ ~failed
  BY AbsorbTyped DEF XInv, TypedAll, NextBuffer, Goes
<1>3. QED
  BY <1>1, <1>2, NextSizeType, DWritten, ZenonT(40) DEF NextBuffer

(* The output state stays, or only absorbs slices.                         *)
LEMMA DAbsorbed ==
  ASSUME XInv, DInv, ~failed, NEW t, t = fcs \/ \E a \in Absorb(fcs) : t = a.fcs, fcs' = t,
         UNCHANGED <<dictVars, jobs, running, curBlock, endMarked, failed, out>>, ending => ending',
         ended' => ended \/ (endMarked /\ ~HasOutput(t))
  PROVE  DInv'
<1>1. PICK q : ReadUpTo(FileOf(fcs), q) /\ Fits(q)
  BY NotFailed
<1>2. Typed(fcs)
  BY DEF XInv
<1>3. Moves(t, fcs) /\ FileOf(t) = FileOf(fcs)
  <2>1. CASE t = fcs
    BY <2>1 DEF Moves
  <2>2. ASSUME NEW a \in Absorb(fcs), t = a.fcs PROVE Moves(t, fcs) /\ FileOf(t) = FileOf(fcs)
    BY <1>2, <2>2, AbsorbMoves, AbsorbKeeps DEF Absorbed
  <2>3. QED
    BY <2>1, <2>2
<1>4. out' \o Waiting(t) = FileOf(fcs)
  BY <1>3 DEF FileOf
<1>5. QED
  BY <1>1, <1>3, <1>4, OutputFits

LEMMA DBeginEnd == ASSUME XInv, DInv, ~Retries, BeginEnd PROVE DInv'
<1>1. ~failed /\ fcs' = fcs /\ ending' /\ UNCHANGED <<dictVars, jobs, running, curBlock>>
      /\ UNCHANGED <<endMarked, ended, failed, out>>
  BY DEF BeginEnd, Goes
<1>2. ended' => ended
  BY <1>1
<1>3. QED
  BY <1>1, <1>2, DAbsorbed

LEMMA DEndReturns == ASSUME XInv, DInv, ~Retries, EndReturns PROVE DInv'
<1>1. ~failed /\ fcs' = fcs /\ UNCHANGED <<dictVars, jobs, running, curBlock>>
      /\ UNCHANGED <<ending, endMarked, failed, out>> /\ endMarked /\ ~HasOutput(fcs)
  BY DEF EndReturns, Goes
<1>2. ending => ending'
  BY <1>1
<1>3. QED
  BY <1>1, <1>2, DAbsorbed

LEMMA DStutter == ASSUME XInv, DInv, UNCHANGED vars PROVE DInv'
<1>1. /\ fcs' = fcs /\ UNCHANGED <<dictVars, jobs, running, curBlock>>
      /\ UNCHANGED <<ending, endMarked, ended, failed, out>>
  BY DEF vars, userVars
<1>2. CASE ~failed
  <2>1. (ending => ending') /\ (ended' => ended)
    BY <1>1
  <2>2. QED
    BY <1>1, <1>2, <2>1, DAbsorbed
<1>3. CASE failed
  <2>1. PICK q : ReadUpTo(FileOf(fcs), q) /\ GivenUp
    BY <1>3 DEF DInv
  <2>2. FileOf(fcs)' = FileOf(fcs)
    BY <1>1, NextOutput DEF FileOf
  <2>3. GivenUp'
    BY <1>1, <2>1 DEF GivenUp
  <2>4. QED
    BY <1>1, <1>3, <2>1, <2>2, <2>3 DEF DInv
<1>4. QED
  BY <1>2, <1>3

(* A stream that has just been set up.                                     *)
FreshStream ==
  /\ Fresh(fcs) /\ fcs.records = <<>> /\ ~fcs.open /\ fcs.head = <<FileHeader>> /\ fcs.tail = <<>>
  /\ out = <<>> /\ jobs = <<>> /\ ~running /\ ~endMarked /\ ~ended /\ ~failed
  /\ start = 0 /\ end = 0 /\ taken = 0

LEMMA FreshFits == FreshStream => DInv
<1> SUFFICES ASSUME FreshStream PROVE DInv
  OBVIOUS
<1> DEFINE q == FirstReader
           s == fcs
<1>0. /\ Fresh(s) /\ s.records = <<>> /\ ~s.open /\ s.head = <<FileHeader>> /\ s.tail = <<>>
      /\ out = <<>> /\ jobs = <<>> /\ ~running /\ ~endMarked /\ ~ended /\ ~failed
      /\ start = 0 /\ end = 0 /\ taken = 0
  BY DEF FreshStream
<1>1. s \in State /\ s.block = <<>> /\ s.outThread = 0 /\ s.outPos = 0 /\ Typed(s)
  BY <1>0, FreshTyped DEF Fresh
<1>2. Available(s) = <<>> /\ HeldOf(s) = <<>>
  <2>1. ~HasSlices(s)
    BY <1>0, <1>1 DEF HasSlices
  <2>2. QED
    BY <1>1, <2>1, NothingAvailable, HeldIsBlock
<1>3. FileOf(s) = <<FileHeader>>
  <2> DEFINE h == <<FileHeader>>
  <2>1. h \in Seq({FileHeader})
    OBVIOUS
  <2> HIDE DEF h
  <2>2. (h \o <<>>) \o <<>> = h /\ <<>> \o h = h
    BY <2>1
  <2>3. s.head = h
    BY <1>0 DEF h
  <2>4. FileOf(s) = <<>> \o ((h \o <<>>) \o <<>>)
    BY <1>0, <1>2, <2>3 DEF FileOf, Waiting
  <2>5. QED
    BY <2>2, <2>4 DEF h
<1>4. ReadUpTo(FileOf(fcs), q)
  BY <1>3, ReadHeader
<1>5. ~q.open /\ ~q.done /\ q.n = 0 /\ q.recs = <<>>
  BY DEF FirstReader
<1> HIDE DEF q
<1>6. InHand = 0
  BY <1>0 DEF InHand
<1>7. Framed(q, fcs, InHand)
  <2>1. Accounts(q, s, <<>>, 0)
    BY <1>0, <1>5 DEF Accounts
  <2>2. HeldRun(q, s, <<>>)
    BY DEF HeldRun
  <2>3. QED
    BY <1>2, <1>6, <2>1, <2>2 DEF Framed
<1>8. q.n + Len(HeldOf(fcs)) + InHand + (end - start) = taken
  BY <1>0, <1>2, <1>5, <1>6
<1>9. InCompression(q) /\ InDictionary(q) /\ AtEnd(q)
  BY <1>0, <1>5 DEF InCompression, InDictionary, AtEnd
<1>10. QED
  BY <1>0, <1>4, <1>7, <1>8, <1>9 DEF Fits, DInv

LEMMA FreshFitsNext == FreshStream' => DInv'
  BY FreshFits, PTL

LEMMA DInit == ASSUME Init PROVE DInv
<1>1. PICK h \in Holds : fcs = Start(h)
  BY DEF Init
<1>2. Fresh(Start(h)) /\ Start(h).records = <<>> /\ ~Start(h).open
      /\ Start(h).head = <<FileHeader>> /\ Start(h).tail = <<>>
  BY StartFresh DEF Start
<1>3. FreshStream
  BY <1>1, <1>2 DEF Init, DictInit, FreshStream
<1>4. QED
  BY <1>3, FreshFits

LEMMA DReinit == ASSUME XInv, InitCStream PROVE DInv'
<1>1. PICK h \in Holds : fcs' = Restarted(h, fcs)
  BY DEF InitCStream, Restarted
<1> DEFINE t == Restarted(h, fcs)
<1>2. Fresh(t) /\ Start(h) \in State
  BY StartFresh, RestartFresh DEF XInv, Typed, Fresh
<1>3. t.records = <<>> /\ ~t.open /\ t.head = <<FileHeader>> /\ t.tail = <<>>
  BY <1>2 DEF Restarted, Start, State
<1> HIDE DEF t
<1>4. Fresh(fcs)'
  BY <1>1, <1>2 DEF Fresh, t
<1>5. FreshStream'
  BY <1>1, <1>3, <1>4 DEF FreshStream, InitCStream, DictReinit, t
<1>6. QED
  BY <1>5, FreshFitsNext

(* Between blocks and nothing in compression, the reader is where the next *)
(* function of the framing goes on.                                        *)
LEMMA AbsorbedReached ==
  ASSUME XInv, ~running, ~endMarked, NEW q, ReadUpTo(FileOf(fcs), q), Fits(q),
         NEW a \in Absorb(fcs), a.res = "ok"
  PROVE  /\ Typed(a.fcs) /\ out \in Seq(Piece) /\ Reached(q, a.fcs) /\ a.fcs.tail = <<>>
         /\ a.fcs.hold => ~HasSlices(a.fcs)
         /\ a.fcs.open = fcs.open /\ a.fcs.uSize = fcs.uSize
         /\ q.n + Len(HeldOf(a.fcs)) + (end - start) = taken
<1> DEFINE s == a.fcs
<1>1. Typed(fcs) /\ out \in Seq(Piece) /\ DictTypeOK
  BY DEF XInv, Control, IInv
<1>2. /\ Absorbed(s, fcs) /\ (fcs.hold => ~HasSlices(s))
  BY <1>1, AbsorbKeeps
<1>3. Moves(s, fcs)
  BY <1>1, AbsorbMoves
<1> HIDE DEF s
<1>4. /\ Framed(q, fcs, InHand) /\ InHand = 0 /\ ~q.done /\ fcs.tail = <<>>
      /\ q.n + Len(HeldOf(fcs)) + InHand + (end - start) = taken
  BY DEF Fits, InHand, AtEnd
<1>5. Framed(q, s, 0)
  BY <1>3, <1>4, FramedMoves
<1>6. Reached(q, s)
  BY <1>2, <1>4, <1>5 DEF Absorbed, Reached, Framed
<1>7. /\ Typed(s) /\ s.tail = <<>> /\ s.hold = fcs.hold /\ HeldOf(s) = HeldOf(fcs)
      /\ s.open = fcs.open /\ s.uSize = fcs.uSize
  BY <1>2, <1>4 DEF Absorbed, SameFrame
<1>8. q.n + Len(HeldOf(s)) + (end - start) = taken
  <2>1. q \in Reader /\ HeldRun(q, s, HeldOf(s))
    BY <1>6, ReadUpToType DEF Reached
  <2>2. q.n \in Nat /\ Len(HeldOf(s)) \in Nat
    BY <2>1, ReaderTypes, LenProperties DEF HeldRun
  <2>3. QED
    BY <1>4, <1>7, <2>2
<1>9. QED
  BY <1>1, <1>2, <1>6, <1>7, <1>8 DEF s

LEMMA DWriteEnd == ASSUME XInv, DInv, ~Retries, WriteEnd PROVE DInv'
<1>1. PICK a \in Absorb(fcs) :
        IF a.res # "ok" THEN fcs' = a.fcs /\ UNCHANGED <<endMarked, failed>>
        ELSE \E o \in XzEnd(a.fcs, IF HasSlices(a.fcs) THEN "tail" ELSE "head") :
               /\ fcs' = o.fcs
               /\ endMarked' = (o.res = "ok")
               /\ failed' = (failed \/ o.res # "ok")
  BY DEF WriteEnd
<1>2. /\ ~failed /\ ending /\ ~running /\ ~endMarked /\ ~HasUnprocessed
      /\ UNCHANGED <<dictVars, jobs, running, curBlock, ending, ended, out>>
  BY DEF WriteEnd, Goes
<1>3. DictTypeOK /\ start = end /\ Typed(fcs)
  BY <1>2 DEF XInv, IInv, DictTypeOK, HasUnprocessed
<1>4. CASE a.res # "ok"
  <2>1. (\E e \in Absorb(fcs) : a.fcs = e.fcs) /\ fcs' = a.fcs /\ UNCHANGED <<endMarked, failed>>
    BY <1>1, <1>4
  <2>2. (ending => ending') /\ (ended' => ended)
    BY <1>2
  <2> DEFINE t == a.fcs
  <2>3. (\E e \in Absorb(fcs) : t = e.fcs) /\ fcs' = t
    BY <2>1
  <2> HIDE DEF t
  <2>4. QED
    BY <1>2, <2>1, <2>2, <2>3, DAbsorbed
<1>5. CASE a.res = "ok"
  <2> DEFINE s == a.fcs
             dst == IF HasSlices(s) THEN "tail" ELSE "head"
  <2>1. PICK o \in XzEnd(s, dst) : /\ fcs' = o.fcs
                                   /\ endMarked' = (o.res = "ok")
                                   /\ failed' = (failed \/ o.res # "ok")
    BY <1>1, <1>5
  <2>2. PICK q : ReadUpTo(FileOf(fcs), q) /\ Fits(q)
    BY <1>2, NotFailed
  <2>3. /\ Typed(s) /\ out \in Seq(Piece) /\ Reached(q, s) /\ s.tail = <<>>
        /\ (s.hold => ~HasSlices(s)) /\ q.n + Len(HeldOf(s)) + (end - start) = taken
    BY <1>2, <1>5, <2>2, AbsorbedReached
  <2>4. dst \in {"head", "tail"}
    OBVIOUS
  <2>5. Free(s, dst)
    BY <2>3, NothingAvailable DEF Free
  <2> HIDE DEF s, dst
  <2>6. EndedOrNot(q, s, o)
    BY <1>2, <2>1, <2>3, <2>4, <2>5, EndReads
  <2> DEFINE t == o.fcs
  <2>7. PICK p : ReadUpTo(FileOf(t), p) /\ (o.res = "ok" => Ended(q, s, p, t))
    BY <2>6 DEF EndedOrNot
  <2>8. ~ended
    BY <1>2, <2>2 DEF Fits, AtEnd
  <2>9. fcs' = t /\ UNCHANGED <<jobs, running>>
    BY <1>2, <2>1
  <2>10. HeldOf(fcs)' = HeldOf(t) /\ FileOf(fcs)' = FileOf(t)
    <3> HIDE DEF t
    <3>1. QED
      BY <1>2, <2>9, NextOutput DEF FileOf
  <2>11. CASE o.res # "ok"
    <3>1. failed' /\ GivenUp'
      BY <1>2, <2>1, <2>8, <2>11 DEF GivenUp
    <3>2. QED
      BY <2>7, <2>10, <3>1 DEF DInv
  <2>12. CASE o.res = "ok"
    <3>1. /\ p \in Reader /\ p.done /\ ~p.open /\ p.n = q.n + Len(HeldOf(s)) /\ p.recs = t.records
          /\ ~t.open /\ HeldOf(t) = <<>>
      BY <2>7, <2>12 DEF Ended
    <3> HIDE DEF t
    <3>2. Framed(p, t, 0)
      <4>1. Accounts(p, t, <<>>, 0)
        BY <3>1 DEF Accounts
      <4>2. HeldRun(p, t, <<>>)
        BY DEF HeldRun
      <4>3. QED
        BY <3>1, <4>1, <4>2 DEF Framed
    <3>3. InHand' = 0
      BY <1>2 DEF InHand
    <3>4. Framed(p, fcs, InHand)'
      BY <2>9, <3>2, <3>3, NextFramed
    <3>5. start' = end' /\ taken' = taken /\ start' = start /\ end' = end
      BY <1>2, <1>3 DEF dictVars
    <3>6. (p.n + Len(HeldOf(fcs)) + InHand + (end - start) = taken)'
      <4>1. Len(HeldOf(fcs)') = 0 /\ p.n \in Nat
        BY <2>10, <3>1, ReaderTypes
      <4>2. start \in Nat /\ end \in Nat
        BY <1>3 DEF DictTypeOK
      <4>3. p.n + (end - start) = taken
        BY <2>3, <3>1
      <4>4. p.n + 0 + 0 + (end - start) = taken
        BY <4>1, <4>2, <4>3
      <4>5. Len(HeldOf(fcs))' = 0
        BY <4>1
      <4>6. QED
        BY <3>3, <3>5, <4>4, <4>5
    <3>7. InCompression(p)'
      BY <1>2 DEF InCompression
    <3>8. endMarked' /\ ~failed' /\ ~ended' /\ ~running' /\ ending'
      BY <1>2, <2>1, <2>8, <2>12
    <3>9. InDictionary(p)'
      BY <2>9, <3>1, <3>8 DEF InDictionary
    <3>10. AtEnd(p)'
      BY <2>9, <3>1, <3>5, <3>8 DEF AtEnd
    <3>11. Fits(p)'
      BY <3>4, <3>6, <3>7, <3>9, <3>10 DEF Fits
    <3>12. QED
      BY <2>7, <2>10, <3>8, <3>11 DEF DInv
  <2>13. QED
    BY <2>11, <2>12
<1>6. QED
  BY <1>4, <1>5

(* What is true of both lets the caller fill the dictionary buffer.        *)
LEMMA InputFits ==
  ASSUME XInv, ~failed, ~ending, NEW q, ReadUpTo(FileOf(fcs), q), Fits(q),
         UNCHANGED <<fcs, jobs, running, curBlock, userVars, out>>,
         end' - start' \in Int, taken' - taken = (end' - start') - (end - start), taken' \in Int,
         fcs.open => fcs.uSize = total' \/ start' = 0, ~fcs.open => start' = 0,
         running /\ OverlapWhenTwo =>
           /\ OutOfReach'
           /\ \A i \in curBlock.start .. curBlock.end - 1 :
                data'[curBlock.buffer][i] = data[curBlock.buffer][i]
  PROVE  DInv'
<1>1. /\ Framed(q, fcs, InHand) /\ InCompression(q) /\ InDictionary(q) /\ AtEnd(q)
      /\ q.n + Len(HeldOf(fcs)) + InHand + (end - start) = taken
  BY DEF Fits
<1>2. /\ fcs' = fcs /\ UNCHANGED <<jobs, running>> /\ curBlock' = curBlock
      /\ UNCHANGED <<ending, endMarked, ended, failed, out>>
  BY DEF userVars
<1>3. /\ HeldOf(fcs)' = HeldOf(fcs) /\ FileOf(fcs)' = FileOf(fcs) /\ HasOutput(fcs)' = HasOutput(fcs)
  BY <1>2, NextOutput DEF FileOf
<1>4. InHand' = InHand
  BY <1>2 DEF InHand
<1>5. Framed(q, fcs, InHand)'
  <2> DEFINE n == InHand
  <2>1. Framed(q, fcs, n) /\ InHand' = n
    BY <1>1, <1>4
  <2> HIDE DEF n
  <2>2. QED
    BY <1>2, <2>1, NextFramed
<1>6. InHand \in Int
  BY DEF XInv, WhileRunning, BlockOK, InHand
<1>7. q.n \in Nat /\ Len(HeldOf(fcs)) \in Nat
  <2>1. q \in Reader /\ HeldRun(q, fcs, HeldOf(fcs))
    BY <1>1, ReadUpToType DEF Framed
  <2>2. QED
    BY <2>1, ReaderTypes, LenProperties DEF HeldRun
<1>8. (q.n + Len(HeldOf(fcs)) + InHand + (end - start) = taken)'
  <2>1. end - start \in Int
    BY DEF XInv, IInv, DictTypeOK
  <2>2. q.n + Len(HeldOf(fcs)) + InHand + (end' - start') = taken'
    BY <1>1, <1>6, <1>7, <2>1, SMTT(30)
  <2>3. Len(HeldOf(fcs))' = Len(HeldOf(fcs))
    BY <1>3
  <2>4. QED
    BY <1>4, <2>2, <2>3
<1>9. InCompression(q)'
  <2>1. ASSUME running'
        PROVE  (/\ fcs.open /\ (curBlock.start = 0 <=> fcs.uSize = InHand)
                /\ curBlock.end <= fcs.uSize /\ (~fcs.hold => fcs.unaccounted))'
    BY <1>1, <1>2, <1>4, <2>1 DEF InCompression
  <2>2. ASSUME running', OverlapWhenTwo PROVE OutOfReach' /\ BlockData(q.n + Len(HeldOf(fcs)))'
    <3>1. BlockData(q.n + Len(HeldOf(fcs)))
      BY <1>1, <1>2, <2>2 DEF InCompression
    <3>2. BlockData(q.n + Len(HeldOf(fcs)))'
      BY <1>2, <1>3, <2>2, <3>1 DEF BlockData
    <3>3. QED
      BY <1>2, <2>2, <3>2
  <2>3. QED
    BY <2>1, <2>2 DEF InCompression, OverlapWhenTwo
<1>10. ~endMarked
  BY <1>1 DEF AtEnd
<1>11. InDictionary(q)'
  BY <1>1, <1>2, <1>10 DEF InDictionary
<1>12. AtEnd(q)'
  BY <1>1, <1>2, <1>3, <1>10 DEF AtEnd
<1>13. Fits(q)'
  BY <1>5, <1>8, <1>9, <1>11, <1>12 DEF Fits
<1>14. QED
  BY <1>2, <1>3, <1>13 DEF DInv

LEMMA DInput == ASSUME XInv, DInv, ~Retries, NEW n \in InputSizes, Input(n) PROVE DInv'
<1> DEFINE m == IF n < AvailSpace THEN n ELSE AvailSpace
<1>1. /\ ~failed /\ ~ending /\ (NeedShift => end = 0) /\ Put(m)
      /\ UNCHANGED <<fcs, jobs, running, curBlock, userVars, out>>
  BY DEF Input, Goes
<1>2. DictTypeOK
  BY DEF XInv, IInv
<1>3. m \in Nat /\ m <= AvailSpace
  BY <1>2, SizesAssumption DEF DictTypeOK, AvailSpace
<1> HIDE DEF m
<1>4. /\ end' = end + m /\ taken' = taken + m /\ start' = start /\ total' = total
      /\ index' = index /\ async' = async
      /\ data' = [data EXCEPT ![index] =
                   [i \in 0 .. Size - 1 |->
                      IF end <= i /\ i < end + m THEN taken + (i - end) ELSE @[i]]]
  BY <1>1 DEF Put
<1>5. PICK q : ReadUpTo(FileOf(fcs), q) /\ Fits(q)
  BY <1>1, NotFailed
<1>6. InCompression(q) /\ InDictionary(q) /\ AtEnd(q)
  BY <1>5 DEF Fits
<1>7. ~endMarked
  BY <1>1, <1>6 DEF AtEnd
<1>8. ASSUME running, OverlapWhenTwo
      PROVE  /\ OutOfReach'
             /\ \A i \in curBlock.start .. curBlock.end - 1 :
                  data'[curBlock.buffer][i] = data[curBlock.buffer][i]
  <2>1. OutOfReach /\ BlockOK(curBlock)
    BY <1>6, <1>8 DEF InCompression, XInv, WhileRunning
  <2>2. /\ curBlock.buffer \in 0 .. 1 /\ curBlock.start \in Nat /\ curBlock.end \in Nat
        /\ curBlock.end <= Size
    BY <2>1 DEF BlockOK
  <2>3. curBlock' = curBlock
    BY <1>1
  <2>4. CASE index = curBlock.buffer
    <3>1. curBlock.end <= end /\ end \in Nat /\ start \in Nat
      BY <1>2, <2>1, <2>4 DEF OutOfReach, DictTypeOK
    <3>2. OutOfReach'
      BY <1>3, <1>4, <2>2, <2>3, <2>4, <3>1 DEF OutOfReach
    <3>3. ASSUME NEW i \in curBlock.start .. curBlock.end - 1
          PROVE  data'[curBlock.buffer][i] = data[curBlock.buffer][i]
      <4>1. i \in 0 .. Size - 1 /\ ~(end <= i)
        BY <2>2, <3>1, <3>3
      <4>2. QED
        BY <1>2, <1>4, <2>4, <4>1 DEF DictTypeOK
    <3>4. QED
      BY <3>2, <3>3
  <2>5. CASE index # curBlock.buffer
    <3>1. async /\ ~NeedShift
      BY <2>1, <2>5 DEF OutOfReach
    <3>2. start \in Nat /\ end \in Nat /\ start <= end /\ KeepsOverlap' = KeepsOverlap
      BY <1>2, <1>4 DEF DictTypeOK, KeepsOverlap, MustReset
    <3>3. ~NeedShift'
      BY <1>3, <1>4, <3>1, <3>2 DEF NeedShift
    <3>4. data'[curBlock.buffer] = data[curBlock.buffer]
      BY <1>2, <1>4, <2>2, <2>5 DEF DictTypeOK
    <3>5. QED
      BY <1>4, <2>3, <2>5, <3>1, <3>3, <3>4 DEF OutOfReach
  <2>6. QED
    BY <2>4, <2>5
<1>9. end' - start' \in Int /\ taken' - taken = (end' - start') - (end - start) /\ taken' \in Int
  BY <1>2, <1>3, <1>4 DEF DictTypeOK
<1>10. (fcs.open => fcs.uSize = total' \/ start' = 0) /\ (~fcs.open => start' = 0)
  BY <1>4, <1>6, <1>7 DEF InDictionary
<1>11. QED
  BY <1>1, <1>5, <1>8, <1>9, <1>10, InputFits

LEMMA DMakeRoom ==
  ASSUME XInv, async \in Modes, DInv, ~Retries, MakeRoom PROVE DInv'
<1>1. /\ ~failed /\ ~ending /\ NeedShift /\ (running => async) /\ Shift
      /\ UNCHANGED <<fcs, jobs, running, curBlock, userVars, out>>
  BY DEF MakeRoom, Goes
<1>2. IInv /\ DictTypeOK
  BY DEF XInv, IInv
<1>3. /\ start = end /\ index' = Other(index) /\ async' = async
      /\ ~NeedShift' \/ (Overlap = 0 /\ end' = 0)
  BY <1>1, <1>2, ShiftOnce
<1>4. PICK q : ReadUpTo(FileOf(fcs), q) /\ Fits(q)
  BY <1>1, NotFailed
<1>5. InCompression(q) /\ InDictionary(q) /\ AtEnd(q)
  BY <1>4 DEF Fits
<1>6. ~endMarked
  BY <1>1, <1>5 DEF AtEnd
<1>7. DropHistory \/ KeepHistory
  BY <1>1, <1>2 DEF Shift, NeedShift, DictTypeOK
<1>8. /\ end' - start' \in Int /\ taken' - taken = (end' - start') - (end - start) /\ taken' \in Int
      /\ (fcs.open => fcs.uSize = total' \/ start' = 0) /\ (~fcs.open => start' = 0)
      /\ \A b \in 0 .. 1 : b # index' => data'[b] = data[b]
  <2>1. taken \in Int /\ start \in Nat /\ end \in Nat
    BY <1>2 DEF DictTypeOK
  <2>2. CASE DropHistory
    BY <1>3, <2>1, <2>2 DEF DropHistory
  <2>3. CASE KeepHistory
    <3>1. /\ start' = end' /\ end' = end - ShiftFrom /\ end >= Overlap + Align
          /\ total' = total /\ taken' = taken
          /\ data' = [data EXCEPT ![Other(index)] =
                        [i \in 0 .. Size - 1 |->
                           IF i < end - ShiftFrom THEN data[index][ShiftFrom + i] ELSE @[i]]]
      BY <2>3 DEF KeepHistory
    <3>2. end' \in Nat
      BY <1>2, <3>1, KeptBounds
    <3>3. start # 0
      BY <1>3, <2>1, <3>1
    <3>4. fcs.open /\ fcs.uSize = total
      BY <1>5, <1>6, <3>3 DEF InDictionary
    <3>5. \A b \in 0 .. 1 : b # index' => data'[b] = data[b]
      BY <1>2, <1>3, <3>1 DEF DictTypeOK
    <3>6. end' - start' = 0 /\ end - start = 0 /\ taken' - taken = 0
      BY <1>3, <2>1, <3>1, <3>2
    <3>7. QED
      BY <2>1, <3>1, <3>4, <3>5, <3>6
  <2>4. QED
    BY <1>7, <2>2, <2>3
<1>9. ASSUME running, OverlapWhenTwo
      PROVE  /\ OutOfReach'
             /\ \A i \in curBlock.start .. curBlock.end - 1 :
                  data'[curBlock.buffer][i] = data[curBlock.buffer][i]
  <2>1. OutOfReach /\ curBlock.buffer \in 0 .. 1 /\ async
    BY <1>1, <1>5, <1>9 DEF InCompression, XInv, WhileRunning, BlockOK
  <2>2. index = curBlock.buffer
    BY <1>1, <2>1 DEF OutOfReach
  <2>3. index' # curBlock.buffer
    BY <1>3, <2>1, <2>2 DEF Other
  <2>4. Overlap # 0
    BY <1>9, <2>1 DEF OverlapWhenTwo
  <2>5. ~NeedShift' /\ async' /\ curBlock' = curBlock
    BY <1>1, <1>3, <2>1, <2>4
  <2>6. OutOfReach'
    BY <2>3, <2>5 DEF OutOfReach
  <2>7. data'[curBlock.buffer] = data[curBlock.buffer]
    BY <1>8, <2>1, <2>3
  <2>8. QED
    BY <2>6, <2>7
<1>10. QED
  BY <1>1, <1>4, <1>8, <1>9, InputFits

-----------------------------------------------------------------------------
(* The slices of a block that is compressed are what the reader, or what   *)
(* is held, goes on with.                                                  *)
GoesOn(q, s, b) ==
  /\ b.start = 0 <=> s.uSize = b.end - b.start
  /\ b.end <= s.uSize
  /\ q.open => b.end <= q.head.dict
  /\ OverlapWhenTwo => \A i \in b.start .. b.end - 1 :
                   data[b.buffer][i] = q.n + Len(s.block) + i - b.start

LEMMA SlicesAre ==
  ASSUME DictTypeOK, NEW b, BlockOK(b), NEW e, e = Encoded(b, b.start, b.end)
  PROVE  /\ e \in Seq(Piece) /\ Len(e) = b.end - b.start /\ b.end - b.start \in Nat
         /\ b.start \in Nat /\ b.end \in Nat /\ b.end <= Size
         /\ \A i \in 1 .. b.end - b.start :
              /\ e[i] \in LzPiece /\ (e[i].reset <=> b.start + i - 1 = 0) /\ e[i].window = b.end
              /\ e[i].at = data[b.buffer][b.start + i - 1]
<1>1. /\ b.buffer \in 0 .. 1 /\ b.start \in Nat /\ b.end \in Nat /\ b.start < b.end /\ b.end <= Size
  BY DEF BlockOK
<1>2. IsPart(e, b, b.start, b.end)
  BY <1>1, EncodedType
<1>3. \A p \in 0 .. Size - 1 :
        /\ LzOf(b, p) \in LzPiece /\ (LzOf(b, p).reset <=> p = 0)
        /\ LzOf(b, p).window = b.end /\ LzOf(b, p).at = data[b.buffer][p]
  <2> SUFFICES ASSUME NEW p \in 0 .. Size - 1
               PROVE  /\ LzOf(b, p) \in LzPiece /\ (LzOf(b, p).reset <=> p = 0)
                      /\ LzOf(b, p).window = b.end /\ LzOf(b, p).at = data[b.buffer][p]
    OBVIOUS
  <2> DEFINE v == data[b.buffer][p]
             z == p = 0
             w == b.end
  <2>1. v \in Nat
    BY <1>1 DEF DictTypeOK
  <2>2. LzOf(b, p) = [kind |-> "lz", at |-> v, window |-> w, reset |-> z]
    BY DEF LzOf
  <2>3. w \in Nat /\ z \in BOOLEAN
    BY <1>1
  <2> HIDE DEF v, z, w
  <2>4. [kind |-> "lz", at |-> v, window |-> w, reset |-> z] \in LzPiece
    BY <2>1, <2>3, Zenon DEF LzPiece
  <2>5. LzOf(b, p).reset = z /\ LzOf(b, p).window = w /\ LzOf(b, p).at = v
    BY <2>2
  <2>6. QED
    BY <2>2, <2>4, <2>5 DEF v, z, w
<1>4. ASSUME NEW i \in 1 .. b.end - b.start
      PROVE  /\ e[i] \in LzPiece /\ (e[i].reset <=> b.start + i - 1 = 0) /\ e[i].window = b.end
             /\ e[i].at = data[b.buffer][b.start + i - 1]
  <2>1. e[i] = LzOf(b, b.start + i - 1)
    BY <1>2, <1>4 DEF IsPart
  <2>2. b.start + i - 1 \in 0 .. Size - 1
    BY <1>1, <1>4, SizeAssumption
  <2>3. QED
    BY <1>3, <2>1, <2>2
<1>5. QED
  BY <1>1, <1>2, <1>4 DEF IsPart

LEMMA SlicesRead ==
  ASSUME DictTypeOK, NEW b, BlockOK(b), NEW e, e = Encoded(b, b.start, b.end), NEW s, ~s.hold, s.open,
         s.block = <<>>, NEW q \in Reader, Accounts(q, s, s.block, b.end - b.start), GoesOn(q, s, b)
  PROVE  LzRun(q, e)
<1> DEFINE n == b.end - b.start
           D(i) == data[b.buffer][i]
<1>1. /\ e \in Seq(Piece) /\ Len(e) = n /\ n \in Nat
      /\ b.start \in Nat /\ b.end \in Nat /\ b.end <= Size
      /\ \A i \in 1 .. n :
           /\ e[i] \in LzPiece /\ (e[i].reset <=> b.start + i - 1 = 0) /\ e[i].window = b.end
           /\ e[i].at = D(b.start + i - 1)
  BY SlicesAre
<1>2. q.n \in Nat /\ q.from \in Nat /\ q.from <= q.n
  BY ReaderTypes
<1>3. s.uSize = 0 + n + (q.n - q.from) /\ q.open
  BY DEF Accounts, Inside
<1>4. /\ b.start = 0 <=> s.uSize = n
      /\ b.end <= q.head.dict
      /\ OverlapWhenTwo => \A i \in b.start .. b.end - 1 : D(i) = q.n + 0 + i - b.start
  BY <1>3 DEF GoesOn
<1>5. b.start = 0 <=> q.n = q.from
  BY <1>1, <1>2, <1>3, <1>4
<1>6. ASSUME NEW i \in 1 .. n
      PROVE  /\ e[i] \in LzPiece
             /\ e[i].reset <=> q.n + i - 1 = q.from
             /\ e[i].window <= q.head.dict
             /\ OverlapWhenTwo => e[i].at = q.n + i - 1
  <2>1. b.start + i - 1 = 0 <=> q.n + i - 1 = q.from
    BY <1>1, <1>2, <1>5, <1>6
  <2>2. b.start + i - 1 \in b.start .. b.end - 1
    BY <1>1, <1>6
  <2>3. q.n + 0 + (b.start + i - 1) - b.start = q.n + i - 1
    BY <1>1, <1>2, <1>6
  <2> HIDE DEF D
  <2>4. OverlapWhenTwo => D(b.start + i - 1) = q.n + i - 1
    BY <1>4, <2>2, <2>3
  <2>5. QED
    BY <1>1, <1>4, <1>6, <2>1, <2>4
<1>7. QED
  BY <1>1, <1>6 DEF LzRun

LEMMA SlicesHeld ==
  ASSUME DictTypeOK, NEW b, BlockOK(b), NEW e, e = Encoded(b, b.start, b.end), NEW s, s.hold, s.open,
         NEW q \in Reader, Accounts(q, s, s.block, b.end - b.start), HeldRun(q, s, s.block),
         GoesOn(q, s, b), NEW t, t.uSize = s.uSize
  PROVE  HeldRun(q, t, s.block \o e)
<1> DEFINE n == b.end - b.start
           h == s.block
           m == Len(h)
           D(i) == data[b.buffer][i]
           g == h \o e
<1>1. /\ e \in Seq(Piece) /\ Len(e) = n /\ n \in Nat
      /\ b.start \in Nat /\ b.end \in Nat /\ b.end <= Size
      /\ \A i \in 1 .. n :
           /\ e[i] \in LzPiece /\ (e[i].reset <=> b.start + i - 1 = 0) /\ e[i].window = b.end
           /\ e[i].at = D(b.start + i - 1)
  BY SlicesAre
<1>2. /\ h \in Seq(Piece)
      /\ \A i \in 1 .. m :
           /\ h[i] \in LzPiece /\ (h[i].reset <=> i = 1)
           /\ h[i].window <= Size /\ h[i].window <= s.uSize
           /\ OverlapWhenTwo => h[i].at = q.n + i - 1
  BY DEF HeldRun
<1>3. q.n \in Nat /\ m \in Nat
  BY <1>2, ReaderTypes, LenProperties
<1>4. s.uSize = m + n + 0
  BY DEF Accounts, Inside
<1>5. /\ b.start = 0 <=> s.uSize = n
      /\ b.end <= s.uSize
      /\ OverlapWhenTwo => \A i \in b.start .. b.end - 1 : D(i) = q.n + m + i - b.start
  BY DEF GoesOn
<1>6. b.start = 0 <=> m = 0
  BY <1>1, <1>3, <1>4, <1>5
<1> HIDE DEF h, m, D, n
<1>7. /\ g \in Seq(Piece) /\ Len(g) = m + n
      /\ \A i \in 1 .. m + n : g[i] = IF i <= m THEN h[i] ELSE e[i - m]
  <2>0. h \in Seq(Piece) /\ e \in Seq(Piece)
    BY <1>1, <1>2
  <2>1. /\ g \in Seq(Piece) /\ Len(g) = Len(h) + Len(e)
        /\ \A i \in 1 .. Len(h) + Len(e) : g[i] = IF i <= Len(h) THEN h[i] ELSE e[i - Len(h)]
    BY <2>0, ConcatProperties, Zenon DEF g
  <2>2. Len(h) = m /\ Len(e) = n
    BY <1>1 DEF m
  <2> HIDE DEF g
  <2>3. QED
    BY <2>1, <2>2
<1> HIDE DEF g
<1>8. ASSUME NEW i \in 1 .. m + n
      PROVE  /\ g[i] \in LzPiece
             /\ g[i].reset <=> i = 1
             /\ g[i].window <= Size /\ g[i].window <= t.uSize
             /\ OverlapWhenTwo => g[i].at = q.n + i - 1
  <2>1. CASE i <= m
    <3>1. i \in 1 .. m /\ g[i] = h[i]
      BY <1>3, <1>7, <1>8, <2>1
    <3>2. QED
      BY <1>2, <3>1
  <2>2. CASE ~(i <= m)
    <3> DEFINE j == i - m
    <3>1. j \in 1 .. n /\ g[i] = e[j] /\ i = m + j
      <4>1. i \in Nat /\ n \in Nat /\ m \in Nat /\ m < i /\ i <= m + n
        BY <1>1, <1>3, <1>8, <2>2
      <4>2. g[i] = e[i - m]
        BY <1>7, <1>8, <2>2, Zenon
      <4>3. j \in 1 .. n /\ i = m + j
        BY <4>1
      <4>4. QED
        BY <4>2, <4>3
    <3> HIDE DEF j
    <3>2. b.start + j - 1 = 0 <=> i = 1
      BY <1>1, <1>3, <1>6, <3>1
    <3>3. b.start + j - 1 \in b.start .. b.end - 1
      BY <1>1, <3>1 DEF n
    <3>4. q.n + m + (b.start + j - 1) - b.start = q.n + i - 1
      BY <1>1, <1>3, <3>1, SMTT(20)
    <3>5. OverlapWhenTwo => D(b.start + j - 1) = q.n + i - 1
      BY <1>5, <3>3, <3>4
    <3>6. QED
      BY <1>1, <1>5, <3>1, <3>2, <3>5, SMTT(30)
  <2>3. QED
    BY <2>1, <2>2
<1>9. QED
  BY <1>7, <1>8 DEF HeldRun, g, h

(* The slices of b wait for output, and the reader is at p.                *)
Waits(q, s, p, b) ==
  /\ p \in Reader /\ ~p.done /\ p.open = q.open /\ p.head = q.head
  /\ ReadUpTo(FileOf(fcs), p) /\ Framed(p, fcs, 0)
  /\ p.n + Len(HeldOf(fcs)) = q.n + Len(s.block) + (b.end - b.start)

LEMMA SlicesWait ==
  ASSUME DictTypeOK, NEW b, BlockOK(b), NEW e, e = Encoded(b, b.start, b.end),
         NEW t, fcs' = t, t.outThread = 0, t.outPos = 0, t.tail = <<>>, t.head \in Seq(Piece),
         running' = FALSE, jobs' = Slices(b), out' = out, ~t.hold => t.block = <<>>
  PROVE  /\ FileOf(fcs)' = out \o (IF t.hold THEN t.head ELSE t.head \o e)
         /\ HeldOf(fcs)' = (IF t.hold THEN t.block \o e ELSE <<>>)
         /\ FlattenSeq(jobs') = e
<1> DEFINE js == Slices(b)
           h == t.head
<1>1. js \in Seq(Seq(Piece)) /\ FlattenSeq(js) = e
  BY SlicesOfBlock
<1>2. SlicesTo(js, 0, 0, Len(js)) = e
  BY <1>1, SlicesFromStart
<1> HIDE DEF js
<1>3. Pending(fcs, Len(jobs))' = e
  <2>1. Pending(fcs, Len(jobs))' = SlicesTo(jobs', fcs'.outThread, fcs'.outPos, Len(jobs'))
    BY DEF Pending, Rest, SlicesTo, SliceRest
  <2>2. QED
    BY <1>2, <2>1 DEF js
<1>4. HeldOf(fcs)' = IF t.hold THEN t.block \o e ELSE <<>>
  <2>1. CASE t.hold
    BY <1>3, <2>1 DEF HeldOf
  <2>2. CASE ~t.hold
    <3>1. HeldOf(fcs)' = <<>> \o <<>>
      BY <2>2 DEF HeldOf
    <3>2. QED
      BY <2>2, <3>1
  <2>3. QED
    BY <2>1, <2>2
<1>5. Available(fcs)' = IF t.hold THEN <<>> ELSE e
  BY <1>3 DEF Available
<1>6. e \in Seq(Piece)
  BY SlicesAre
<1>7. FileOf(fcs)' = out \o (IF t.hold THEN h ELSE h \o e)
  <2>1. h \in Seq(Piece) /\ h \o e \in Seq(Piece) /\ h \o <<>> = h
    BY <1>6, ConcatProperties
  <2>2. (h \o e) \o <<>> = h \o e
    BY <2>1
  <2>3. CASE t.hold
    <3>1. FileOf(fcs)' = out \o ((h \o <<>>) \o <<>>)
      BY <1>5, <2>3 DEF FileOf, Waiting
    <3>2. QED
      BY <2>1, <2>3, <3>1
  <2>4. CASE ~t.hold
    <3>1. FileOf(fcs)' = out \o ((h \o e) \o <<>>)
      BY <1>5, <2>4 DEF FileOf, Waiting
    <3>2. QED
      BY <2>2, <2>4, <3>1
  <2>5. QED
    BY <2>3, <2>4
<1>8. QED
  BY <1>1, <1>4, <1>7 DEF js, h

LEMMA Compressed ==
  ASSUME DictTypeOK, out \in Seq(Piece), NEW b, BlockOK(b), NEW s \in State, s.open,
         s.tail = <<>>, Owed(s) = 0, NEW q, ReadUpTo(out \o s.head, q), ~q.done,
         Accounts(q, s, s.block, b.end - b.start), HeldRun(q, s, s.block), GoesOn(q, s, b),
         NEW t, SameFrame(t, s), t.block = s.block, t.outThread = 0, t.outPos = 0,
         ~t.hold => t.block = <<>> /\ t.unaccounted,
         fcs' = t, running' = FALSE, jobs' = Slices(b), out' = out
  PROVE  \E p : Waits(q, s, p, b)'
<1> DEFINE e == Encoded(b, b.start, b.end)
           n == b.end - b.start
           h == s.block
           f == s.head
<1>1. e \in Seq(Piece) /\ Len(e) = n /\ n \in Nat
  BY SlicesAre
<1>2. /\ t.hold = s.hold /\ t.head = f /\ t.tail = <<>> /\ t.records = s.records
      /\ t.check = s.check /\ t.uSize = s.uSize /\ t.cSize = s.cSize /\ t.open
  BY DEF SameFrame
<1>3. q \in Reader /\ f \in Seq(Piece) /\ h \in Seq(Piece)
  BY ReadUpToType, FieldTypes
<1>4. /\ FileOf(fcs)' = out \o (IF t.hold THEN f ELSE f \o e)
      /\ HeldOf(fcs)' = (IF t.hold THEN h \o e ELSE <<>>)
      /\ FlattenSeq(jobs') = e
  BY <1>2, <1>3, SlicesWait
<1>5. /\ s.records = q.recs /\ (s.hold => ~q.open) /\ (~s.hold => q.open)
      /\ s.uSize = Len(h) + n + Inside(q, s) /\ s.check = Span(q.n - Inside(q, s), s.uSize)
      /\ ~s.hold => /\ q.head.compressed = Unknown /\ q.head.uncompressed = Unknown
                    /\ s.cSize + 0 = q.n - q.from
  BY DEF Accounts
<1>6. q.n \in Nat /\ q.from \in Nat /\ q.from <= q.n /\ Len(h) \in Nat /\ s.cSize \in Nat
  BY <1>3, ReaderTypes, LenProperties, FieldTypes
<1>7. CASE s.hold
  <2> DEFINE g == h \o e
  <2>1. g \in Seq(Piece) /\ Len(g) = Len(h) + n
    <3>1. h \in Seq(Piece) /\ e \in Seq(Piece) /\ Len(e) = n
      BY <1>1, <1>3
    <3> HIDE DEF h, e, n
    <3>2. g \in Seq(Piece) /\ Len(g) = Len(h) + Len(e)
      BY <3>1, ConcatProperties
    <3>3. QED
      BY <3>1, <3>2
  <2>2. HeldRun(q, t, g)
    BY <1>2, <1>3, <1>7, SlicesHeld
  <2>3. HeldOf(fcs)' = g /\ FileOf(fcs)' = out \o f
    BY <1>2, <1>4, <1>7
  <2> HIDE DEF g, n, h, e, f
  <2>4. Accounts(q, t, g, 0)
    <3>1. Inside(q, s) = 0 /\ Inside(q, t) = 0
      BY <1>2, <1>7 DEF Inside
    <3>2. t.uSize = Len(g) + 0 + Inside(q, t)
      BY <1>1, <1>2, <1>5, <1>6, <2>1, <3>1
    <3>3. t.check = Span(q.n - Inside(q, t), t.uSize)
      BY <1>2, <1>5, <3>1
    <3>4. QED
      BY <1>2, <1>5, <1>7, <3>2, <3>3 DEF Accounts
  <2>5. Framed(q, fcs, 0)'
    <3>1. Accounts(q, fcs, HeldOf(fcs), 0)'
      BY <1>2, <1>7, <2>3, <2>4 DEF Accounts, Inside
    <3>2. HeldRun(q, fcs, HeldOf(fcs))'
      BY <2>2, <2>3 DEF HeldRun
    <3>3. QED
      BY <3>1, <3>2 DEF Framed
  <2>6. q.n + Len(g) = q.n + Len(h) + n
    BY <1>1, <1>6, <2>1
  <2>7. ReadUpTo(FileOf(fcs), q)'
    BY <2>3 DEF f
  <2>8. Waits(q, s, q, b)'
    BY <1>3, <2>3, <2>5, <2>6, <2>7 DEF Waits, n, h
  <2>9. QED
    BY <2>8
<1>8. CASE ~s.hold
  <2> DEFINE p == Advanced(q, n)
  <2>1. h = <<>> /\ t.unaccounted
    BY <1>2, <1>8
  <2>2. LzRun(q, e)
    BY <1>3, <1>8, <2>1, SlicesRead
  <2>3. ReadUpTo((out \o f) \o e, p)
    <3> DEFINE x == out \o f
    <3>1. ReadUpTo(x, q) /\ q.open
      BY <1>5, <1>8
    <3> HIDE DEF x, e, n
    <3>2. ReadUpTo(x \o e, Advanced(q, Len(e)))
      BY <2>2, <3>1, ReadMany
    <3>3. QED
      BY <1>1, <3>2 DEF x
  <2>4. (out \o f) \o e = out \o (f \o e)
    <3> DEFINE o == out
    <3>1. o \in Seq(Piece) /\ f \in Seq(Piece) /\ e \in Seq(Piece)
      BY <1>1, <1>3
    <3> HIDE DEF o, f, e, n, h
    <3>2. (o \o f) \o e = o \o (f \o e)
      BY <3>1, InAnyOrder, SMTT(30)
    <3>3. QED
      BY <3>2 DEF o
  <2>5. HeldOf(fcs)' = <<>> /\ FileOf(fcs)' = out \o (f \o e)
    BY <1>2, <1>4, <1>8
  <2>6. /\ p \in Reader /\ p.n = q.n + n /\ p.from = q.from /\ p.open = q.open /\ ~p.done
        /\ p.head = q.head /\ p.recs = q.recs
    BY <1>1, <1>3, ReaderSteps DEF Advanced
  <2> HIDE DEF p, e, n, h, f
  <2>7. Owed(fcs)' = n
    BY <1>1, <1>4, <2>1 DEF Owed
  <2>8. Inside(p, fcs)' = p.n - p.from /\ Inside(q, s) = q.n - q.from
    BY <1>2, <1>8 DEF Inside
  <2>9. Accounts(p, fcs, HeldOf(fcs), 0)'
    <3>1. t.uSize = Len(<<>>) + 0 + (p.n - p.from)
      BY <1>1, <1>2, <1>5, <1>6, <2>1, <2>6, <2>8
    <3>2. p.n - (p.n - p.from) = q.n - (q.n - q.from)
      BY <1>1, <1>6, <2>6
    <3>3. t.check = Span(p.n - (p.n - p.from), t.uSize)
      BY <1>2, <1>5, <2>8, <3>2
    <3>4. t.cSize + n = p.n - p.from
      BY <1>1, <1>2, <1>5, <1>6, <1>8, <2>6
    <3>5. QED
      BY <1>2, <1>5, <1>8, <2>5, <2>6, <2>7, <2>8, <3>1, <3>3, <3>4 DEF Accounts
  <2>10. HeldRun(p, fcs, HeldOf(fcs))'
    BY <2>5 DEF HeldRun
  <2>11. ReadUpTo(FileOf(fcs), p)'
    BY <2>3, <2>4, <2>5
  <2>12. p.n + Len(<<>>) = q.n + Len(h) + n
    BY <1>1, <1>6, <2>1, <2>6
  <2>13. Waits(q, s, p, b)'
    BY <2>5, <2>6, <2>9, <2>10, <2>11, <2>12 DEF Waits, Framed, n, h
  <2>14. QED
    BY <2>13
<1>9. QED
  BY <1>7, <1>8

LEMMA WaitsFits ==
  ASSUME NEW q, NEW s, NEW p, NEW b, Waits(q, s, p, b)', running' = FALSE, ~failed', ~endMarked', ~ended',
         end' - start' \in Int, Len(s.block) \in Int, q.n \in Int, b.end - b.start \in Int,
         (q.n + Len(s.block)) + (b.end - b.start) + (end' - start') = taken',
         fcs'.tail = <<>>, InDictionary(p)'
  PROVE  DInv'
<1>1. /\ p \in Reader /\ ~p.done /\ ReadUpTo(FileOf(fcs), p)' /\ Framed(p, fcs, 0)'
      /\ p.n + Len(HeldOf(fcs))' = q.n + Len(s.block) + (b.end - b.start)
  BY DEF Waits
<1>2. InHand' = 0
  BY DEF InHand
<1>3. Framed(p, fcs, InHand)'
  BY <1>1, <1>2 DEF Framed
<1>4. (p.n + Len(HeldOf(fcs)) + InHand + (end - start) = taken)'
  <2> DEFINE l == Len(HeldOf(fcs))'
             m == Len(s.block)
             k == b.end - b.start
             w == end' - start'
  <2>1. p.n \in Nat /\ l \in Nat
    BY <1>1, ReaderTypes, LenProperties DEF Framed, HeldRun
  <2>2. m \in Int /\ k \in Int /\ w \in Int /\ (q.n + m) + k + w = taken' /\ p.n + l = q.n + m + k
    BY <1>1
  <2> HIDE DEF l, m, k, w
  <2>3. p.n + l + 0 + w = taken'
    BY <2>1, <2>2
  <2>4. QED
    BY <1>2, <2>3 DEF l, w
<1>5. InCompression(p)' /\ AtEnd(p)'
  BY <1>1 DEF InCompression, AtEnd
<1>6. Fits(p)'
  BY <1>3, <1>4, <1>5 DEF Fits
<1>7. QED
  BY <1>1, <1>6 DEF DInv

LEMMA FileAhead ==
  ASSUME NEW s, s.head \in Seq(Piece), Available(s) = <<>>, s.tail = <<>> PROVE FileOf(s) = out \o s.head
<1> DEFINE h == s.head
<1>1. FileOf(s) = out \o ((h \o <<>>) \o <<>>)
  BY DEF FileOf, Waiting
<1>2. h \in Seq(Piece)
  OBVIOUS
<1> HIDE DEF h
<1>3. (h \o <<>>) \o <<>> = h
  BY <1>2
<1>4. QED
  BY <1>1, <1>3 DEF h

LEMMA DEnds == ASSUME XInv, DInv, CompressionEnds PROVE DInv'
<1>0. PICK b, s : b = curBlock /\ s = fcs
  OBVIOUS
<1> DEFINE n == b.end - b.start
           h == s.block
<1>1. /\ DictTypeOK /\ BlockOK(b) /\ running /\ jobs = <<>> /\ s.outThread = 0 /\ s.outPos = 0
      /\ Typed(fcs) /\ s \in State /\ out \in Seq(Piece)
  BY <1>0 DEF XInv, IInv, WhileRunning, CompressionEnds, Control, Typed
<1>2. /\ running' = FALSE /\ jobs' = Slices(b) /\ fcs' = s /\ curBlock' = b
      /\ UNCHANGED <<ending, endMarked, ended, failed, out>>
      /\ start' = start /\ end' = end /\ total' = total /\ taken' = taken
  BY <1>0 DEF CompressionEnds, userVars, dictVars
<1>3. ~failed
  BY <1>1 DEF DInv, GivenUp
<1>4. PICK q : ReadUpTo(FileOf(fcs), q) /\ Fits(q)
  BY <1>3, NotFailed
<1>5. /\ Framed(q, s, InHand) /\ InHand = n
      /\ InCompression(q) /\ InDictionary(q) /\ AtEnd(q)
      /\ q.n + Len(HeldOf(s)) + InHand + (end - start) = taken
  BY <1>0, <1>1, <1>4 DEF Fits, InHand
<1>6. ~endMarked /\ ~ended /\ ~q.done /\ s.tail = <<>>
  BY <1>0, <1>1, <1>5 DEF AtEnd
<1>7. HeldOf(s) = h /\ Available(s) = <<>>
  BY <1>0, <1>1, HeldIsBlock DEF HasSlices, Available
<1>8. s.head \in Seq(Piece) /\ h \in Seq(Piece) /\ q \in Reader
  BY <1>1, <1>4, FieldTypes, ReadUpToType
<1>9. ReadUpTo(out \o s.head, q)
  BY <1>0, <1>4, <1>6, <1>7, <1>8, FileAhead
<1>10. Owed(s) = 0
  BY <1>1, FlattenEmpty DEF Owed
<1>11. /\ s.open /\ (b.start = 0 <=> s.uSize = n) /\ b.end <= s.uSize
       /\ (~s.hold => s.unaccounted) /\ (OverlapWhenTwo => BlockData(q.n + Len(h)))
  BY <1>0, <1>1, <1>5, <1>7 DEF InCompression
<1>12. b.start \in Nat /\ b.end \in Nat /\ b.end <= Size /\ n \in Int
  BY <1>1 DEF BlockOK
<1>13. q.open => b.end <= q.head.dict
  <2>1. q.head.dict \in Nat
    BY <1>8, ReaderTypes DEF BlockPiece
  <2>2. q.open => q.head.dict >= Size \/ b.end <= q.head.dict
    BY <1>0, <1>1, <1>5 DEF InDictionary
  <2>3. QED
    BY <1>12, <2>1, <2>2, SizeAssumption
<1>14. GoesOn(q, s, b)
  BY <1>0, <1>11, <1>13 DEF GoesOn, BlockData
<1>15. Accounts(q, s, s.block, b.end - b.start) /\ HeldRun(q, s, s.block)
  BY <1>5, <1>7 DEF Framed
<1>16. \E p : Waits(q, s, p, b)'
  <2>1. SameFrame(s, s) /\ (~s.hold => s.block = <<>> /\ s.unaccounted)
    BY <1>0, <1>1, <1>11 DEF SameFrame, Typed
  <2>2. QED
    BY <1>1, <1>2, <1>6, <1>9, <1>10, <1>11, <1>14, <1>15, <2>1, Compressed
<1>17. PICK p : Waits(q, s, p, b)'
  BY <1>16
<1>18. p.open = q.open /\ p.head = q.head
  BY <1>17 DEF Waits
<1>19. InDictionary(p)'
  <2>1. InDictionary(q)
    BY <1>5
  <2>2. QED
    BY <1>0, <1>1, <1>2, <1>18, <2>1 DEF InDictionary
<1>20. q.n + Len(h) + n + (end' - start') = taken'
  BY <1>2, <1>5, <1>7
<1>21. end' - start' \in Int /\ Len(h) \in Int /\ q.n \in Int
  BY <1>1, <1>2, <1>8, ReaderTypes, LenProperties DEF DictTypeOK
<1>22. ~failed' /\ ~endMarked' /\ ~ended' /\ running' = FALSE /\ fcs'.tail = <<>>
  BY <1>2, <1>3, <1>6
<1>23. QED
  BY <1>12, <1>17, <1>19, <1>20, <1>21, <1>22, WaitsFits

(* A block that is begun goes on where the reader, or what is held, stops. *)
LEMMA BlockBegins ==
  ASSUME XInv, HasUnprocessed, ~endMarked, NEW q \in Reader, Fits(q), NEW s, s.open = fcs.open,
         s.uSize = fcs.uSize, Len(HeldOf(s)) \in Nat, q.n + Len(HeldOf(s)) + (end - start) = taken,
         NEW p, NEW c \in State, HeldOf(c) = c.block,
         Begun(q, s, p, c, IF ending THEN end ELSE Size)
  PROVE  /\ GoesOn(p, c, Block) /\ c.uSize = total + (end - start)
         /\ p.n + Len(c.block) = taken - (end - start)
         /\ p.open => p.head.dict >= Size \/ (ending /\ end <= p.head.dict)
<1> DEFINE k == p.n + Len(c.block)
<1>1. /\ start \in Nat /\ end \in Nat /\ total \in Nat /\ taken \in Nat /\ start < end /\ end <= Size
      /\ start <= total /\ (start = 0 => total = 0)
      /\ \A i \in 0 .. end - 1 : data[index][i] = taken - end + i
  BY DEF XInv, IInv, DictTypeOK, HistorySinceReset, WindowIsHistory, HasUnprocessed
<1>2. /\ p \in Reader /\ k = q.n + Len(HeldOf(s)) /\ c.uSize \in Nat
      /\ start = 0 => c.uSize = end - start /\ (p.open => p.head.dict = IF ending THEN end ELSE Size)
      /\ start # 0 => c.uSize = s.uSize + (end - start) /\ p = q
  BY FieldTypes DEF Begun
<1>3. InDictionary(q)
  BY DEF Fits
<1>4. start # 0 => s.open /\ s.uSize = total
  BY <1>3 DEF InDictionary
<1>5. c.uSize = total + (end - start)
  BY <1>1, <1>2, <1>4
<1>6. k = taken - (end - start)
  <2> DEFINE l == Len(HeldOf(s))
  <2>1. q.n \in Nat /\ l \in Nat /\ q.n + l + (end - start) = taken /\ k = q.n + l
    BY <1>2, ReaderTypes
  <2> HIDE DEF l, k
  <2>2. QED
    BY <1>1, <2>1
<1>7. p.open => p.head.dict >= Size \/ (ending /\ end <= p.head.dict)
  <2>1. CASE start = 0
    BY <1>1, <1>2, <2>1, SizeAssumption
  <2>2. CASE start # 0
    <3>1. p = q /\ start # end
      BY <1>1, <1>2, <2>2
    <3>2. QED
      BY <1>3, <3>1 DEF InDictionary
  <2>3. QED
    BY <2>1, <2>2
<1>8. Block.start = start /\ Block.end = end /\ Block.buffer = index
  BY DEF Block
<1>9. start = 0 <=> c.uSize = end - start
  BY <1>1, <1>5
<1>10. end <= c.uSize
  BY <1>1, <1>5
<1>11. p.open => end <= p.head.dict
  <2>1. p.head.dict \in Nat
    BY <1>2, ReaderTypes DEF BlockPiece
  <2>2. QED
    BY <1>1, <1>7, <2>1, SizeAssumption
<1>12. \A i \in start .. end - 1 : data[index][i] = k + i - start
  <2> HIDE DEF k
  <2>1. \A i \in start .. end - 1 : i \in 0 .. end - 1 /\ taken - end + i = k + i - start
    BY <1>1, <1>6
  <2>2. QED
    BY <1>1, <2>1
<1>13. GoesOn(p, c, Block)
  BY <1>8, <1>9, <1>10, <1>11, <1>12 DEF GoesOn
<1>14. QED
  BY <1>5, <1>6, <1>7, <1>13

(* The next block of the dictionary buffer is begun in c, and the reader   *)
(* accepts what there is of the file up to p.                              *)
BlockReady(p, c) ==
  /\ p \in Reader /\ ~p.done /\ ReadUpTo(FileOf(c), p)
  /\ Typed(c) /\ c.tail = <<>> /\ c.open /\ Owed(c) = 0 /\ Available(c) = <<>>
  /\ Accounts(p, c, c.block, end - start) /\ HeldRun(p, c, c.block) /\ GoesOn(p, c, Block)
  /\ c.uSize = total + (end - start) /\ p.n + Len(c.block) = taken - (end - start)
  /\ p.open => p.head.dict >= Size \/ (ending /\ end <= p.head.dict)

LEMMA BlockTaken ==
  ASSUME DictTypeOK, HasUnprocessed, GetBlock, NEW b, b = Block
  PROVE  /\ b.start = start /\ b.end = end /\ b.buffer = index /\ BlockOK(b)
         /\ start' = end /\ end' = end /\ total' = total + (end - start) /\ taken' = taken
         /\ data' = data /\ index' = index /\ async' = async
         /\ end - start \in Nat /\ end' - start' = 0 /\ taken \in Int
  BY BlockIsOK DEF Block, GetBlock, DictTypeOK, HasUnprocessed

LEMMA DSync ==
  ASSUME XInv, ~endMarked, ~ended, ~failed, HasUnprocessed, GetBlock, NEW p, NEW c, BlockReady(p, c),
         curBlock' = Block, fcs' = Rewound(c), running' = FALSE, jobs' = Slices(Block),
         UNCHANGED <<ending, endMarked, ended, failed, out>>
  PROVE  DInv'
<1>1. PICK b : b = Block
  OBVIOUS
<1> DEFINE t == Rewound(c)
<1>2. DictTypeOK /\ out \in Seq(Piece)
  BY DEF XInv, IInv, Control
<1>3. /\ b.start = start /\ b.end = end /\ b.buffer = index /\ BlockOK(b)
      /\ start' = end /\ end' = end /\ total' = total + (end - start) /\ taken' = taken
      /\ end - start \in Nat /\ end' - start' = 0 /\ taken \in Int
  BY <1>1, <1>2, BlockTaken
<1>4. /\ p \in Reader /\ ~p.done /\ ReadUpTo(FileOf(c), p)
      /\ Typed(c) /\ c.tail = <<>> /\ c.open /\ Owed(c) = 0 /\ Available(c) = <<>>
      /\ HeldRun(p, c, c.block) /\ GoesOn(p, c, b)
      /\ c.uSize = total + (end - start) /\ p.n + Len(c.block) = taken - (end - start)
      /\ p.open => p.head.dict >= Size \/ (ending /\ end <= p.head.dict)
  BY <1>1 DEF BlockReady
<1>5. Accounts(p, c, c.block, b.end - b.start)
  <2>1. Accounts(p, c, c.block, end - start)
    BY DEF BlockReady
  <2>2. QED
    BY <1>3, <2>1
<1>6. c \in State /\ c.head \in Seq(Piece) /\ (~c.hold => c.block = <<>>) /\ c.block \in Seq(Piece)
  BY <1>4, FieldTypes DEF Typed
<1>7. /\ t.outThread = 0 /\ t.outPos = 0 /\ t.hold = c.hold /\ t.block = c.block
      /\ SameFrame(t, c) /\ t.unaccounted
  BY <1>4, RewoundFields
<1>8. t.open = c.open /\ t.uSize = c.uSize /\ t.tail = c.tail
  BY <1>7 DEF SameFrame
<1>9. ReadUpTo(out \o c.head, p)
  BY <1>4, <1>6, FileAhead
<1>10. fcs' = t /\ running' = FALSE /\ jobs' = Slices(b) /\ out' = out
  BY <1>1
<1> HIDE DEF t
<1>11. PICK r : Waits(p, c, r, b)'
  <2>1. \E r : Waits(p, c, r, b)'
    BY <1>2, <1>3, <1>4, <1>5, <1>6, <1>7, <1>9, <1>10, Compressed
  <2>2. QED
    BY <2>1
<1>12. r.open = p.open /\ r.head = p.head
  BY <1>11 DEF Waits
<1>13. /\ fcs'.open /\ fcs'.uSize = total' /\ start' = end' /\ fcs'.tail = <<>>
       /\ r.open => r.head.dict >= Size \/ ending'
  BY <1>3, <1>4, <1>8, <1>10, <1>12
<1>14. InDictionary(r)'
  BY <1>13 DEF InDictionary
<1>15. (p.n + Len(c.block)) + (b.end - b.start) + (end' - start') = taken'
       /\ p.n \in Int /\ Len(c.block) \in Int /\ b.end - b.start \in Int /\ end' - start' \in Int
  <2> DEFINE k == p.n + Len(c.block)
  <2>1. k = taken - (end - start) /\ p.n \in Int /\ Len(c.block) \in Int
    BY <1>4, <1>6, ReaderTypes, LenProperties
  <2> HIDE DEF k
  <2>2. k + (b.end - b.start) + (end' - start') = taken'
    BY <1>3, <2>1
  <2>3. QED
    BY <1>3, <2>1, <2>2 DEF k
<1>16. QED
  BY <1>10, <1>11, <1>13, <1>14, <1>15, WaitsFits

LEMMA DAsync ==
  ASSUME XInv, ~endMarked, ~ended, ~failed, HasUnprocessed, GetBlock, NEW p, NEW c, BlockReady(p, c),
         curBlock' = Block, fcs' = Rewound(c), running' = TRUE, jobs' = <<>>,
         UNCHANGED <<ending, endMarked, ended, failed, out>>
  PROVE  DInv'
<1>1. PICK b, n, t : b = Block /\ n = end - start /\ t = Rewound(c)
  OBVIOUS
<1>2. DictTypeOK
  BY DEF XInv, IInv
<1>3. /\ b.start = start /\ b.end = end /\ b.buffer = index
      /\ start' = end /\ end' = end /\ total' = total + n /\ taken' = taken
      /\ data' = data /\ index' = index /\ n \in Nat /\ end' - start' = 0 /\ taken \in Int
      /\ end \in Nat
  BY <1>1, <1>2, BlockTaken DEF DictTypeOK
<1>4. /\ p \in Reader /\ ~p.done /\ ReadUpTo(FileOf(c), p)
      /\ Typed(c) /\ c.tail = <<>> /\ c.open /\ Owed(c) = 0 /\ Available(c) = <<>>
      /\ Accounts(p, c, c.block, n) /\ HeldRun(p, c, c.block) /\ GoesOn(p, c, b)
      /\ c.uSize = total + n /\ p.n + Len(c.block) = taken - n
      /\ p.open => p.head.dict >= Size \/ (ending /\ end <= p.head.dict)
  BY <1>1 DEF BlockReady
<1>5. /\ t.hold = c.hold /\ t.block = c.block /\ SameFrame(t, c) /\ t.unaccounted
  BY <1>1, <1>4, RewoundFields
<1>6. /\ t.open = c.open /\ t.uSize = c.uSize /\ t.tail = c.tail /\ t.head = c.head
      /\ t.records = c.records /\ t.check = c.check /\ t.cSize = c.cSize
  BY <1>5 DEF SameFrame
<1>7. fcs' = t /\ running' /\ curBlock' = b /\ jobs' = <<>>
  BY <1>1
<1>8. c.block \in Seq(Piece)
  BY <1>4, FieldTypes DEF Typed
<1>9. HeldOf(fcs)' = c.block
  <2>1. HeldOf(fcs)' = c.block \o <<>>
    BY <1>5, <1>7 DEF HeldOf
  <2>2. QED
    BY <1>8, <2>1
<1>10. FileOf(fcs)' = FileOf(c)
  <2>1. Available(fcs)' = <<>>
    BY <1>7 DEF Available
  <2>2. QED
    BY <1>4, <1>6, <1>7, <2>1 DEF FileOf, Waiting
<1>11. Owed(fcs)' = 0
  BY <1>7, FlattenEmpty DEF Owed
<1>12. InHand' = n
  BY <1>3, <1>7, <1>1 DEF InHand
<1>13. Framed(p, fcs, InHand)'
  <2>1. Inside(p, fcs)' = Inside(p, c)
    BY <1>5, <1>7 DEF Inside
  <2>2. Accounts(p, fcs, HeldOf(fcs), InHand)'
    BY <1>4, <1>5, <1>6, <1>7, <1>9, <1>11, <1>12, <2>1 DEF Accounts
  <2>3. HeldRun(p, fcs, HeldOf(fcs))'
    BY <1>4, <1>6, <1>7, <1>9 DEF HeldRun
  <2>4. QED
    BY <2>2, <2>3 DEF Framed
<1>14. (p.n + Len(HeldOf(fcs)) + InHand + (end - start) = taken)'
  <2> DEFINE k == p.n + Len(c.block)
  <2>1. k = taken - n
    BY <1>4
  <2> HIDE DEF k
  <2>2. k + n + (end' - start') = taken'
    BY <1>3, <2>1
  <2>3. Len(HeldOf(fcs))' = Len(c.block)
    BY <1>9
  <2>4. p.n + Len(c.block) + n + (end' - start') = taken'
    BY <2>2 DEF k
  <2>5. QED
    BY <1>12, <2>3, <2>4
<1>15. InCompression(p)'
  <2>1. /\ b.start = 0 <=> c.uSize = b.end - b.start
        /\ b.end <= c.uSize
        /\ OverlapWhenTwo => \A i \in b.start .. b.end - 1 :
                         data[b.buffer][i] = p.n + Len(c.block) + i - b.start
    BY <1>4 DEF GoesOn
  <2>2. (/\ fcs.open /\ (curBlock.start = 0 <=> fcs.uSize = InHand) /\ curBlock.end <= fcs.uSize
         /\ ~fcs.hold => fcs.unaccounted)'
    BY <1>1, <1>3, <1>4, <1>5, <1>6, <1>7, <1>12, <2>1
  <2>3. OutOfReach'
    BY <1>3, <1>7 DEF OutOfReach
  <2>4. OverlapWhenTwo => BlockData(p.n + Len(HeldOf(fcs)))'
    <3>1. Len(HeldOf(fcs))' = Len(c.block)
      BY <1>9
    <3>2. QED
      BY <1>3, <1>7, <2>1, <3>1 DEF BlockData
  <2>5. QED
    BY <2>2, <2>3, <2>4 DEF InCompression, OverlapWhenTwo
<1>16. InDictionary(p)'
  BY <1>3, <1>4, <1>6, <1>7 DEF InDictionary
<1>17. AtEnd(p)'
  BY <1>4, <1>6, <1>7 DEF AtEnd
<1>18. Fits(p)'
  BY <1>13, <1>14, <1>15, <1>16, <1>17 DEF Fits
<1>19. ReadUpTo(FileOf(fcs), p)'
  BY <1>4, <1>10
<1>20. QED
  BY <1>18, <1>19 DEF DInv

LEMMA BeginningIs ==
  ASSUME NEW s, NEW b PROVE BeginCompression(s, b, ending) = Beginning(s, b, IF ending THEN b.end ELSE Size)
  BY DEF Beginning, Reopening, Counted, BeginCompression

LEMMA DBegin ==
  ASSUME XInv, DInv, ~failed, ~running, HasUnprocessed, NEW a \in Absorb(fcs), a.res = "ok",
         ~HasSlices(a.fcs), BeginBlock(a.fcs), UNCHANGED <<ending, endMarked, ended, out>>
  PROVE  DInv'
<1> DEFINE s == a.fcs
           d == IF ending THEN end ELSE Size
<1>1. PICK o \in BeginCompression(s, Block, ending) :
        IF o.res = "ok"
        THEN /\ fcs' = Rewound(o.fcs)
             /\ running' = async
             /\ jobs' = IF async THEN <<>> ELSE Slices(Block)
             /\ UNCHANGED failed
        ELSE /\ fcs' = o.fcs
             /\ failed' = TRUE
             /\ UNCHANGED <<running, jobs>>
  BY DEF BeginBlock, Rewound
<1>2. IInv /\ DictTypeOK /\ async \in BOOLEAN /\ GetBlock /\ curBlock' = Block
  BY DEF XInv, IInv, DictTypeOK, BeginBlock
<1>3. start \in Nat /\ end \in Nat /\ start < end /\ d \in Nat /\ taken \in Int /\ end - start \in Nat
  BY <1>2, SizeAssumption DEF DictTypeOK, HasUnprocessed
<1>4. PICK q : ReadUpTo(FileOf(fcs), q) /\ Fits(q)
  BY NotFailed
<1>5. InDictionary(q) /\ AtEnd(q)
  BY <1>4 DEF Fits
<1>6. ~endMarked /\ ~ended
  BY <1>3, <1>5 DEF AtEnd
<1>7. /\ Typed(s) /\ out \in Seq(Piece) /\ Reached(q, s) /\ s.tail = <<>>
      /\ s.open = fcs.open /\ s.uSize = fcs.uSize /\ q.n + Len(HeldOf(s)) + (end - start) = taken
  BY <1>4, <1>6, AbsorbedReached
<1>8. ~HasSlices(s)
  OBVIOUS
<1>9. o \in Beginning(s, Block, d)
  BY BeginningIs DEF Block
<1> HIDE DEF s, d
<1>10. Free(s, "head")
  BY <1>7, <1>8, NothingAvailable DEF Free
<1>11. q \in Reader /\ Len(HeldOf(s)) \in Nat
  <2>1. q \in Reader /\ HeldRun(q, s, HeldOf(s))
    BY <1>7, ReadUpToType DEF Reached
  <2>2. QED
    BY <2>1, LenProperties DEF HeldRun
<1>12. q.n + Len(HeldOf(s)) = taken - (end - start)
  <2> DEFINE l == Len(HeldOf(s))
  <2>1. q.n \in Nat /\ l \in Nat /\ q.n + l + (end - start) = taken
    BY <1>7, <1>11, ReaderTypes
  <2> HIDE DEF l
  <2>2. q.n + l = taken - (end - start)
    BY <1>3, <2>1
  <2>3. QED
    BY <2>2 DEF l
<1>13. start # 0 => s.open
  BY <1>5, <1>6, <1>7 DEF InDictionary
<1>14. BegunOrNot(q, s, o, d)
  BY <1>2, <1>3, <1>7, <1>8, <1>9, <1>10, <1>12, <1>13, BeginReads
<1>15. PICK c : c = o.fcs
  OBVIOUS
<1>16. PICK p : ReadUpTo(FileOf(c), p) /\ (o.res = "ok" => Begun(q, s, p, c, d))
  BY <1>14, <1>15 DEF BegunOrNot
<1>17. CASE o.res # "ok"
  <2>1. fcs' = c /\ failed' /\ UNCHANGED <<running, jobs>>
    BY <1>1, <1>15, <1>17
  <2>2. FileOf(fcs)' = FileOf(c)
    BY <2>1, NextOutput DEF FileOf
  <2>3. GivenUp'
    BY <1>6, <2>1 DEF GivenUp
  <2>4. ReadUpTo(FileOf(fcs), p)'
    BY <1>16, <2>2
  <2>5. QED
    BY <2>1, <2>3, <2>4 DEF DInv
<1>18. CASE o.res = "ok"
  <2>1. /\ fcs' = Rewound(c) /\ running' = async /\ UNCHANGED failed
        /\ jobs' = IF async THEN <<>> ELSE Slices(Block)
    BY <1>1, <1>15, <1>18
  <2>2. Begun(q, s, p, c, d)
    BY <1>16, <1>18
  <2>3. Typed(c)
    <3>1. o \in BeginCompression(s, Block, ending)
      BY DEF s
    <3>2. QED
      BY <1>2, <1>7, <1>15, <3>1, BeginTyped, BlockIsOK DEF TypedAll
  <2>4. /\ p \in Reader /\ ~p.done /\ SamePlace(c, s) /\ c.tail = <<>> /\ c.open /\ ~c.unaccounted
        /\ Accounts(p, c, HeldOf(c), end - start) /\ HeldRun(p, c, HeldOf(c))
    BY <2>2 DEF Begun
  <2>5. ~HasSlices(c)
    BY <1>8, <2>4, SamePlaceSame
  <2>6. HeldOf(c) = c.block /\ Available(c) = <<>> /\ Owed(c) = 0 /\ c \in State
    BY <2>3, <2>4, <2>5, HeldIsBlock, NothingAvailable DEF Owed, Typed
  <2>7. /\ GoesOn(p, c, Block) /\ c.uSize = total + (end - start)
        /\ p.n + Len(c.block) = taken - (end - start)
        /\ p.open => p.head.dict >= Size \/ (ending /\ end <= p.head.dict)
    BY <1>4, <1>6, <1>7, <1>11, <2>2, <2>6, BlockBegins DEF d
  <2>8. BlockReady(p, c)
    BY <1>16, <2>3, <2>4, <2>6, <2>7 DEF BlockReady
  <2>9. CASE async
    BY <1>2, <1>6, <2>1, <2>8, <2>9, DAsync
  <2>10. CASE ~async
    BY <1>2, <1>6, <2>1, <2>8, <2>10, DSync
  <2>11. QED
    BY <2>9, <2>10
<1>19. QED
  BY <1>17, <1>18

LEMMA DCompress == ASSUME XInv, DInv, ~Retries, Compress PROVE DInv'
<1>1. PICK a \in Absorb(fcs) :
        IF a.res = "ok" /\ ~HasSlices(a.fcs) /\ HasUnprocessed
        THEN BeginBlock(a.fcs)
        ELSE fcs' = a.fcs /\ UNCHANGED <<dictVars, jobs, running, curBlock, failed>>
  BY DEF Compress
<1>2. ~failed /\ ~running /\ UNCHANGED <<ending, endMarked, ended, out>>
  BY DEF Compress, Goes
<1>3. CASE a.res = "ok" /\ ~HasSlices(a.fcs) /\ HasUnprocessed
  BY <1>1, <1>2, <1>3, DBegin
<1>4. CASE ~(a.res = "ok" /\ ~HasSlices(a.fcs) /\ HasUnprocessed)
  <2> DEFINE t == a.fcs
  <2>1. (\E e \in Absorb(fcs) : t = e.fcs) /\ fcs' = t
        /\ UNCHANGED <<dictVars, jobs, running, curBlock, endMarked, failed, out>>
        /\ (ending => ending') /\ (ended' => ended)
    BY <1>1, <1>2, <1>4
  <2> HIDE DEF t
  <2>2. QED
    BY <1>2, <2>1, DAbsorbed
<1>5. QED
  BY <1>3, <1>4

-----------------------------------------------------------------------------
LEMMA DStep == ASSUME XInv, async \in Modes, ~Retries, DInv, [Next]_vars PROVE DInv'
  BY DReinit, DMakeRoom, DInput, DCompress, DEnds, DCopy, DNextBuffer, DBeginEnd, DWriteEnd,
     DEndReturns, DStutter DEF Next

LEMMA AsyncStays == ASSUME XInv, [Next]_vars PROVE async' = async
<1>1. CASE InitCStream
  BY <1>1 DEF InitCStream, DictReinit
<1>2. CASE MakeRoom
  BY <1>2, ShiftKeepsIInv DEF XInv, MakeRoom
<1>3. ASSUME NEW n \in InputSizes, Input(n) PROVE async' = async
  BY <1>3 DEF Input, Put
<1>4. CASE Compress
  <2>1. PICK a \in Absorb(fcs) : BeginBlock(a.fcs) \/ UNCHANGED dictVars
    BY <1>4 DEF Compress
  <2>2. QED
    BY <2>1 DEF BeginBlock, GetBlock, dictVars
<1>5. ASSUME UNCHANGED dictVars PROVE async' = async
  BY <1>5, SMTT(30) DEF dictVars
<1>6. CASE CompressionEnds \/ (\E n \in OutputSizes : CopyOutput(n)) \/ NextBuffer \/ BeginEnd
           \/ WriteEnd \/ EndReturns \/ UNCHANGED vars
  BY <1>5, <1>6, ZenonT(40) DEF CompressionEnds, CopyOutput, NextBuffer, BeginEnd, WriteEnd, EndReturns, vars
<1>7. QED
  BY <1>1, <1>2, <1>3, <1>4, <1>6 DEF Next

(* The caller gives the stream up when the framing reports an error.       *)
CallerGivesUp == ~Retries

LEMMA DInvariance == CallerGivesUp => (Spec => []DInv)
<1> DEFINE M == async \in Modes
<1>1. Init => M /\ DInv
  BY DInit DEF Init, DictInit
<1>2. XInv /\ M /\ CallerGivesUp /\ DInv /\ [Next]_vars => M' /\ DInv'
  BY DStep, AsyncStays DEF CallerGivesUp
<1>3. CallerGivesUp => CallerGivesUp'
  BY DEF CallerGivesUp
<1> HIDE DEF M
<1>4. QED
  BY <1>1, <1>2, <1>3, XInvariance, PTL DEF Spec

LEMMA FileAccepted ==
  ASSUME XInv, DInv
  PROVE  \E q : ReadUpTo(File, q) /\ (~failed => Fits(q)) /\ (failed => GivenUp)
  BY FileIs DEF DInv

-----------------------------------------------------------------------------
(* What the caller has and what is kept for him is a sequence of blocks    *)
(* between a header and an index: framing that waits in two buffers, and   *)
(* slices that wait in the table, come out in the order they belong in,    *)
(* wherever the copies of output are cut and whatever allocation fails.    *)
THEOREM FileWellFramed == CallerGivesUp => (Spec => []WellFramed)
<1>1. XInv /\ DInv => WellFramed
  BY FileAccepted, FileIsFramed
<1>2. QED
  BY <1>1, XInvariance, DInvariance, PTL

(* A block of the file begins with a dictionary reset and has no other,    *)
(* and its header, written before its data is compressed, announces a      *)
(* dictionary that covers every window its data is compressed with.        *)
THEOREM BlocksDecodeAlone == CallerGivesUp => (Spec => []BlocksStandAlone)
<1>1. XInv /\ DInv => BlocksStandAlone
  BY FileAccepted, FileBlocksAlone
<1>2. QED
  BY <1>1, XInvariance, DInvariance, PTL

(* The check of a block is that of the bytes in it, and the sizes that its *)
(* header states and those the index records are those of its data, unless *)
(* there are two buffers and no overlap.                                   *)
THEOREM SizesAreRight == CallerGivesUp /\ OverlapWhenTwo => (Spec => []ChecksAndSizesMatch)
<1>1. XInv /\ DInv /\ OverlapWhenTwo => ChecksAndSizesMatch
  BY FileAccepted, FileSizesMatch
<1>2. OverlapWhenTwo => OverlapWhenTwo'
  BY DEF OverlapWhenTwo
<1>3. OverlapWhenTwo => []OverlapWhenTwo
  BY <1>2, PTL
<1>4. QED
  BY <1>1, <1>3, XInvariance, DInvariance, PTL

(* Until an error is reported every byte put is in the file, in the block  *)
(* that is held, in the block that is compressed or still in the           *)
(* dictionary buffer, once and in order.                                   *)
THEOREM BytesInOrder == CallerGivesUp /\ OverlapWhenTwo => (Spec => []NothingLostOrRepeated)
<1>1. XInv /\ DInv /\ OverlapWhenTwo => NothingLostOrRepeated
  <2> SUFFICES ASSUME XInv, DInv, OverlapWhenTwo, ~failed
               PROVE  /\ \A i \in At("lz") : File[i].at = Before("lz", i)
                      /\ \A i \in 1 .. Len(Held) :
                           Held[i].kind = "lz" /\ Held[i].at = Cardinality(At("lz")) + i - 1
                      /\ Cardinality(At("lz")) + Len(Held) + InHand + (end - start) = taken
    BY DEF NothingLostOrRepeated
  <2>1. PICK q : ReadUpTo(File, q) /\ Fits(q)
    BY FileAccepted
  <2>2. Cardinality(At("lz")) = q.n /\ \A i \in At("lz") : File[i].at = Before("lz", i)
    BY <2>1, FileKnown
  <2>3. HeldRun(q, fcs, HeldOf(fcs)) /\ q.n + Len(HeldOf(fcs)) + InHand + (end - start) = taken
    BY <2>1 DEF Fits, Framed
  <2>4. Held = HeldOf(fcs)
    BY FileIs
  <2>5. \A i \in 1 .. Len(Held) : Held[i].kind = "lz" /\ Held[i].at = q.n + i - 1
    BY <2>3, <2>4 DEF HeldRun, LzPiece
  <2>6. QED
    BY <2>2, <2>3, <2>4, <2>5
<1>2. OverlapWhenTwo => OverlapWhenTwo'
  BY DEF OverlapWhenTwo
<1>3. OverlapWhenTwo => []OverlapWhenTwo
  BY <1>2, PTL
<1>4. QED
  BY <1>1, <1>3, XInvariance, DInvariance, PTL

(* When UF2_endStream returns 0 the caller has every byte that was put,    *)
(* and the index after them.                                               *)
THEOREM EndIsReached == CallerGivesUp /\ OverlapWhenTwo => (Spec => []EndMeansComplete)
<1>1. XInv /\ DInv /\ OverlapWhenTwo => EndMeansComplete
  <2> SUFFICES ASSUME XInv, DInv, OverlapWhenTwo, ended
               PROVE  /\ out # <<>> /\ Last(out).kind = "index"
                      /\ \A i \in 1 .. taken :
                           \E j \in 1 .. Len(out) : out[j].kind = "lz" /\ out[j].at = i - 1
    BY DEF EndMeansComplete
  <2>1. PICK q : ReadUpTo(File, q) /\ Fits(q)
    BY FileAccepted DEF GivenUp
  <2>2. /\ endMarked /\ ~HasOutput(fcs) /\ q.done /\ ~running /\ start = end /\ ~fcs.open
        /\ Accounts(q, fcs, HeldOf(fcs), InHand)
        /\ q.n + Len(HeldOf(fcs)) + InHand + (end - start) = taken
    BY <2>1 DEF Fits, AtEnd, Framed
  <2>3. fcs.head = <<>> /\ fcs.tail = <<>> /\ ~HasSlices(fcs)
    BY <2>2 DEF HasOutput
  <2>4. Typed(fcs) /\ out \in Seq(Piece) /\ start \in Nat /\ end \in Nat /\ taken \in Nat
    BY DEF XInv, Control, IInv, DictTypeOK
  <2>5. Available(fcs) = <<>>
    BY <2>3, <2>4, NothingAvailable
  <2>6. FileOf(fcs) = out
    <3>1. FileOf(fcs) = out \o ((<<>> \o <<>>) \o <<>>)
      BY <2>3, <2>5 DEF FileOf, Waiting
    <3> DEFINE o == out
    <3>2. o \in Seq(Piece)
      BY <2>4
    <3> HIDE DEF o
    <3>3. o \o ((<<>> \o <<>>) \o <<>>) = o
      BY <3>2
    <3>4. QED
      BY <3>1, <3>3 DEF o
  <2>7. File = out
    BY <2>6, FileIs
  <2>8. HeldOf(fcs) = <<>> /\ InHand = 0
    BY <2>2 DEF Accounts, InHand
  <2>9. q.n = taken
    <3>1. q.n \in Nat
      BY <2>1, ReadUpToType, ReaderTypes
    <3>2. q.n + 0 + 0 + (end - start) = taken
      BY <2>2, <2>8
    <3>3. QED
      BY <2>2, <2>4, <3>1, <3>2
  <2>10. /\ Len(out) \in Nat \ {0} /\ out[Len(out)].kind = "index"
         /\ \A m \in 0 .. taken - 1 : \E j \in 1 .. Len(out) : out[j].kind = "lz" /\ out[j].at = m
    BY <2>1, <2>2, <2>7, <2>9, FileKnown
  <2>11. out # <<>> /\ Last(out).kind = "index"
    <3>1. out # <<>>
      <4>1. CASE out = <<>>
        BY <2>10, <4>1
      <4>2. QED
        BY <4>1
    <3>2. QED
      BY <2>10, <3>1 DEF Last
  <2>12. ASSUME NEW i \in 1 .. taken
         PROVE  \E j \in 1 .. Len(out) : out[j].kind = "lz" /\ out[j].at = i - 1
    <3>1. i - 1 \in 0 .. taken - 1
      BY <2>4
    <3>2. QED
      BY <2>10, <3>1
  <2>13. QED
    BY <2>11, <2>12
<1>2. OverlapWhenTwo => OverlapWhenTwo'
  BY DEF OverlapWhenTwo
<1>3. OverlapWhenTwo => []OverlapWhenTwo
  BY <1>2, PTL
<1>4. QED
  BY <1>1, <1>3, XInvariance, DInvariance, PTL
=============================================================================
