----------------------------- MODULE DictBuffer -----------------------------
(***************************************************************************)
(* dict_buffer.c: one or two buffers that collect input for the block      *)
(* compressor.  When all that was collected is processed, the tail of the  *)
(* buffer is kept as history (overlap) at the front of the same buffer, or *)
(* of the other one, or the history is dropped (a dictionary reset).       *)
(*                                                                         *)
(* A byte of input is modelled by its position in the stream, 0, 1, ...    *)
(***************************************************************************)
EXTENDS Integers

CONSTANTS
  Modes,          \* the values of buf->async
  Size,           \* buf->size
  Overlap,        \* buf->overlap
  ResetInterval,  \* buf->reset_interval
  Align           \* ALIGNMENT_SIZE

(* Parameters are clamped so that the overlap is at most 14/16 of a         *)
(* dictionary of at least 1 MiB, and the interval at least one dictionary.  *)
ASSUME ModesAssumption == Modes \subseteq BOOLEAN
ASSUME AlignAssumption == Align \in Nat \ {0}
ASSUME SizeAssumption  ==
  Size \in Nat /\ Overlap \in Nat /\ ResetInterval \in Nat
ASSUME RoomAssumption  == Overlap + Align <= Size /\ Size <= ResetInterval

VARIABLES
  async,   \* there are two buffers
  data,    \* data[b][i]: the stream position of the byte at offset i of buffer b
  index,   \* the buffer that takes input
  start,   \* first unprocessed offset
  end,     \* end of the input
  total,   \* bytes processed since the dictionary was reset
  taken    \* history: bytes of the stream put so far

dictVars == <<async, data, index, start, end, total, taken>>

Other(b) == IF async THEN 1 - b ELSE b      \* index ^ async

DictInit ==
  /\ async \in Modes
  /\ data = [b \in 0 .. 1 |-> [i \in 0 .. Size - 1 |-> 0]]
  /\ index = 0
  /\ start = 0 /\ end = 0 /\ total = 0
  /\ taken = 0

(* DICT_init on a buffer that is large enough: the contents stay.          *)
DictReinit ==
  /\ index' = 0
  /\ start' = 0 /\ end' = 0 /\ total' = 0
  /\ taken' = 0
  /\ UNCHANGED <<async, data>>

AvailSpace     == Size - end
HasUnprocessed == start < end

(* Mutant of MustReset: the block to come is not counted.                  *)
MustResetLate == total > ResetInterval

(* The next compression cycle would exceed the reset interval.             *)
MustReset == total + Size - Overlap > ResetInterval

KeepsOverlap == ~MustReset /\ Overlap # 0

NeedShift == start = end /\ (KeepsOverlap => end >= Overlap + Align)

(* Mutant of ShiftFrom: everything is kept.                                *)
ShiftFromZero == 0

(* (end - overlap) & ALIGNMENT_MASK                                        *)
ShiftFrom == (end - Overlap) - ((end - Overlap) % Align)

DropHistory ==
  /\ ~KeepsOverlap
  /\ start' = 0 /\ end' = 0 /\ total' = 0
  /\ index' = Other(index)
  /\ UNCHANGED <<async, data, taken>>

(* Mutant of KeepHistory: the index is flipped before the overlap is read. *)
KeepHistoryOfOther ==
  /\ KeepsOverlap /\ end >= Overlap + Align
  /\ LET kept == end - ShiftFrom
     IN  /\ data' = [data EXCEPT ![Other(index)] =
                      [i \in 0 .. Size - 1 |-> IF i < kept THEN @[ShiftFrom + i] ELSE @[i]]]
         /\ start' = kept /\ end' = kept
  /\ index' = Other(index)
  /\ UNCHANGED <<async, total, taken>>

KeepHistory ==
  /\ KeepsOverlap /\ end >= Overlap + Align
  /\ LET kept == end - ShiftFrom
     IN  /\ data' = [data EXCEPT ![Other(index)] =
                      [i \in 0 .. Size - 1 |->
                         IF i < kept THEN data[index][ShiftFrom + i] ELSE @[i]]]
         /\ start' = kept /\ end' = kept
  /\ index' = Other(index)
  /\ UNCHANGED <<async, total, taken>>

Shift ==
  \/ /\ start < end \/ (KeepsOverlap /\ end < Overlap + Align)
     /\ UNCHANGED dictVars
  \/ ~(start < end) /\ (DropHistory \/ KeepHistory)

(* DICT_put, and DICT_update after the caller filled the space itself: n   *)
(* more bytes of the stream.                                               *)
Put(n) ==
  /\ n <= AvailSpace
  /\ data' = [data EXCEPT ![index] =
               [i \in 0 .. Size - 1 |->
                  IF end <= i /\ i < end + n THEN taken + (i - end) ELSE @[i]]]
  /\ end' = end + n
  /\ taken' = taken + n
  /\ UNCHANGED <<async, index, start, total>>

(* DICT_getBlock: what is between start and end is handed out.             *)
Block == [buffer |-> index, start |-> start, end |-> end]

GetBlock ==
  /\ total' = total + (end - start)
  /\ start' = end
  /\ UNCHANGED <<async, data, index, end, taken>>

-----------------------------------------------------------------------------
(* The buffer by itself, used in any order.                                *)
CONSTANT MaxTaken   \* bound on the length of a stream

DictNext ==
  \/ Shift
  \/ \E n \in 1 .. Size : taken + n <= MaxTaken /\ Put(n)
  \/ HasUnprocessed /\ GetBlock
  \/ DictReinit

DictSpec == DictInit /\ [][DictNext]_dictVars

-----------------------------------------------------------------------------
DictTypeOK ==
  /\ async \in BOOLEAN
  /\ data \in [0 .. 1 -> [0 .. Size - 1 -> Nat]]
  /\ index \in 0 .. 1
  /\ start \in Nat /\ end \in Nat /\ total \in Nat /\ taken \in Nat
  /\ start <= end /\ end <= Size

(* The dictionary is reset often enough: no more than reset_interval bytes *)
(* are ever compressed against one dictionary, although the decision to    *)
(* reset is taken before the size of the next block is known.              *)
ResetInTime == total + (end - start) <= ResetInterval

(* What precedes offset end of the current buffer is the end of the        *)
(* stream, however often it was moved within a buffer or across the two.   *)
WindowIsHistory == \A i \in 0 .. end - 1 : data[index][i] = taken - end + i

(* The history before a block was compressed since the last reset, so the  *)
(* decoder still has it; and a block with no history follows a reset.      *)
HistorySinceReset == start <= total /\ (start = 0 => total = 0)

(* Both: a decoder that starts at the last reset can decode every block.   *)
WindowIsDecodable == WindowIsHistory /\ HistorySinceReset

(* A buffer that is full and processed can be shifted, and shifting it     *)
(* makes room: the input loop of compressStream cannot spin.               *)
FullCanShift ==
  start = end /\ end = Size => NeedShift /\ (KeepsOverlap => end - ShiftFrom < Size)
=============================================================================
