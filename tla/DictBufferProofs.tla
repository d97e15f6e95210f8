-------------------------- MODULE DictBufferProofs --------------------------
(***************************************************************************)
(* Proofs about DictBuffer, for one or two buffers of any size, any overlap*)
(* and any reset interval that leave room for the alignment.               *)
(***************************************************************************)
EXTENDS DictBuffer, TLAPS

USE ModesAssumption, AlignAssumption, SizeAssumption, RoomAssumption

(* total - start never changes between shifts: what is left of the buffer  *)
(* always fits in the reset interval.                                      *)
RoomInInterval == total + Size - start <= ResetInterval

IInv ==
  /\ DictTypeOK
  /\ RoomInInterval /\ HistorySinceReset /\ WindowIsHistory

(* The kept history is at least the overlap, and less than what there was. *)
LEMMA KeptBounds ==
  ASSUME DictTypeOK, end >= Overlap + Align
  PROVE  /\ ShiftFrom \in Nat /\ ShiftFrom >= 1
         /\ ShiftFrom <= end - Overlap
         /\ end - ShiftFrom \in Nat
<1>1. end - Overlap \in Nat /\ end - Overlap >= Align
  BY DEF DictTypeOK
<1>2. (end - Overlap) % Align \in 0 .. Align - 1
  BY <1>1
<1> DEFINE gap == end - Overlap
           rest == (end - Overlap) % Align
<1>3. ShiftFrom = gap - rest
  BY DEF ShiftFrom
<1>4. gap \in Nat /\ gap >= Align /\ rest \in 0 .. Align - 1 /\ end = gap + Overlap
  BY <1>1, <1>2 DEF DictTypeOK
<1> HIDE DEF gap, rest
<1>5. gap - rest \in Nat /\ gap - rest >= 1 /\ gap - rest <= gap
  BY <1>4
<1>6. gap = end - Overlap
  BY DEF gap
<1>7. end - ShiftFrom \in Nat
  BY <1>3, <1>4, <1>5
<1>8. QED
  BY <1>3, <1>5, <1>6, <1>7

LEMMA InitIInv == ASSUME DictInit PROVE IInv
<1>1. DictTypeOK
  BY DEF DictInit, DictTypeOK
<1>2. QED
  BY <1>1 DEF DictInit, IInv, RoomInInterval, HistorySinceReset, WindowIsHistory

LEMMA DropKeepsIInv == ASSUME IInv, DropHistory PROVE IInv'
<1>1. DictTypeOK'
  BY DEF IInv, DictTypeOK, DropHistory, Other
<1>2. QED
  BY <1>1 DEF IInv, DropHistory, RoomInInterval, HistorySinceReset, WindowIsHistory

LEMMA KeepKeepsIInv == ASSUME IInv, KeepHistory, ~(start < end) PROVE IInv'
<1> DEFINE kept == end - ShiftFrom
<1> USE DEF IInv
<1>1. /\ ShiftFrom \in Nat /\ ShiftFrom >= 1 /\ ShiftFrom <= end - Overlap
      /\ kept \in Nat /\ kept < end /\ kept >= Overlap /\ kept <= Size
  BY KeptBounds DEF KeepHistory, DictTypeOK
<1>2. start = end
  BY DEF DictTypeOK
<1>3. /\ start' = kept /\ end' = kept /\ total' = total /\ taken' = taken
      /\ async' = async
  BY DEF KeepHistory
<1>4. index' = Other(index) /\ index' \in 0 .. 1
  BY DEF KeepHistory, Other, DictTypeOK
<1>5. data' = [data EXCEPT ![index'] =
                [i \in 0 .. Size - 1 |->
                   IF i < kept THEN data[index][ShiftFrom + i] ELSE data[index'][i]]]
  BY <1>4 DEF KeepHistory
<1>6. \A i \in 0 .. Size - 1 :
         /\ i < kept => ShiftFrom + i \in 0 .. end - 1 /\ ShiftFrom + i \in 0 .. Size - 1
         /\ data'[index'][i] = IF i < kept THEN data[index][ShiftFrom + i] ELSE data[index'][i]
  BY <1>1, <1>4, <1>5 DEF DictTypeOK
<1>7. DictTypeOK'
  <2> DEFINE moved == [i \in 0 .. Size - 1 |->
                        IF i < kept THEN data[index][ShiftFrom + i] ELSE data[index'][i]]
  <2>1. \A i \in 0 .. Size - 1 :
          (IF i < kept THEN data[index][ShiftFrom + i] ELSE data[index'][i]) \in Nat
    BY <1>4, <1>6 DEF DictTypeOK
  <2>2. moved \in [0 .. Size - 1 -> Nat]
    BY <2>1
  <2>3. data' = [data EXCEPT ![index'] = moved]
    BY <1>5
  <2> HIDE DEF moved
  <2>4. data' \in [0 .. 1 -> [0 .. Size - 1 -> Nat]]
    BY <1>4, <2>2, <2>3 DEF DictTypeOK
  <2>5. QED
    BY <1>1, <1>3, <1>4, <2>4 DEF DictTypeOK
<1>8. RoomInInterval' /\ HistorySinceReset'
  <2>1. ~MustReset /\ Overlap # 0
    BY DEF KeepHistory, KeepsOverlap
  <2>2. QED
    BY <1>1, <1>2, <1>3, <2>1 DEF MustReset, RoomInInterval, HistorySinceReset, DictTypeOK
<1>9. WindowIsHistory'
  <2> SUFFICES ASSUME NEW i \in 0 .. kept - 1
               PROVE  data'[index'][i] = taken - kept + i
    BY <1>3 DEF WindowIsHistory
  <2>1. i \in 0 .. Size - 1 /\ i < kept
    BY <1>1
  <2>2. data'[index'][i] = data[index][ShiftFrom + i]
    BY <1>6, <2>1
  <2>3. data[index][ShiftFrom + i] = taken - end + (ShiftFrom + i)
    BY <1>6, <2>1 DEF WindowIsHistory
  <2>4. QED
    BY <1>1, <2>1, <2>2, <2>3 DEF DictTypeOK
<1>10. QED
  BY <1>7, <1>8, <1>9

LEMMA PutKeepsIInv == ASSUME IInv, NEW n \in Nat, Put(n) PROVE IInv'
<1> USE DEF IInv
<1> DEFINE filled == [i \in 0 .. Size - 1 |->
                       IF end <= i /\ i < end + n THEN taken + (i - end) ELSE data[index][i]]
<1>1. data' = [data EXCEPT ![index] = filled]
  BY DEF Put
<1>2. \A i \in 0 .. Size - 1 :
        filled[i] = IF end <= i /\ i < end + n THEN taken + (i - end) ELSE data[index][i]
  OBVIOUS
<1>3. \A i \in 0 .. Size - 1 : filled[i] \in Nat
  BY <1>2 DEF DictTypeOK
<1>4. filled \in [0 .. Size - 1 -> Nat]
  BY <1>3
<1> HIDE DEF filled
<1>5. /\ end' = end + n /\ end + n <= Size /\ taken' = taken + n
      /\ index' = index /\ start' = start /\ total' = total /\ async' = async
  BY DEF Put, AvailSpace, DictTypeOK
<1>6. DictTypeOK'
  <2>1. data' \in [0 .. 1 -> [0 .. Size - 1 -> Nat]]
    BY <1>1, <1>4 DEF DictTypeOK
  <2>2. QED
    BY <1>5, <2>1 DEF DictTypeOK
<1>7. data'[index'] = filled
  BY <1>1, <1>5 DEF DictTypeOK
<1>8. WindowIsHistory'
  <2> SUFFICES ASSUME NEW i \in 0 .. (end + n) - 1
               PROVE  filled[i] = (taken + n) - (end + n) + i
    BY <1>5, <1>7 DEF WindowIsHistory
  <2>1. i \in 0 .. Size - 1
    BY <1>5 DEF DictTypeOK
  <2>2. CASE i < end
    BY <1>2, <2>1, <2>2 DEF WindowIsHistory, DictTypeOK
  <2>3. CASE i >= end
    BY <1>2, <2>1, <2>3 DEF DictTypeOK
  <2>4. QED
    BY <2>2, <2>3 DEF DictTypeOK
<1>9. QED
  BY <1>5, <1>6, <1>8 DEF RoomInInterval, HistorySinceReset

LEMMA GetBlockKeepsIInv == ASSUME IInv, HasUnprocessed, GetBlock PROVE IInv'
<1> USE DEF IInv, GetBlock, HasUnprocessed
<1>1. DictTypeOK'
  BY DEF DictTypeOK
<1>2. RoomInInterval' /\ HistorySinceReset'
  BY DEF DictTypeOK, RoomInInterval, HistorySinceReset
<1>3. WindowIsHistory'
  BY DEF WindowIsHistory
<1>4. QED
  BY <1>1, <1>2, <1>3

LEMMA ReinitKeepsIInv == ASSUME IInv, DictReinit PROVE IInv'
<1>1. DictTypeOK'
  BY DEF IInv, DictTypeOK, DictReinit
<1>2. QED
  BY <1>1 DEF IInv, DictReinit, RoomInInterval, HistorySinceReset, WindowIsHistory

(* A shift that moves to the other buffer leaves nothing to shift again,   *)
(* unless there is no overlap: then it leaves the buffer empty.            *)
LEMMA ShiftOnce ==
  ASSUME IInv, Shift
  PROVE  \/ ~NeedShift /\ UNCHANGED dictVars
         \/ /\ NeedShift /\ start = end /\ index' = Other(index) /\ async' = async
            /\ ~NeedShift' \/ (Overlap = 0 /\ end' = 0)
<1>1. DictTypeOK /\ RoomInInterval
  BY DEF IInv
<1>2. CASE UNCHANGED dictVars /\ (start < end \/ (KeepsOverlap /\ end < Overlap + Align))
  <2>1. ~NeedShift
    BY <1>1, <1>2 DEF DictTypeOK, NeedShift
  <2>2. QED
    BY <1>2, <2>1
<1>3. CASE ~(start < end) /\ DropHistory
  <2>1. NeedShift /\ start = end /\ index' = Other(index) /\ async' = async
    BY <1>1, <1>3 DEF DropHistory, DictTypeOK, NeedShift
  <2>2. start' = 0 /\ end' = 0 /\ total' = 0
    BY <1>3 DEF DropHistory
  <2>3. Overlap # 0 => KeepsOverlap'
    BY <2>2 DEF KeepsOverlap, MustReset
  <2>4. Overlap # 0 => ~NeedShift'
    BY <2>2, <2>3 DEF NeedShift
  <2>5. QED
    BY <2>1, <2>2, <2>4
<1>4. CASE ~(start < end) /\ KeepHistory
  <2>1. NeedShift /\ start = end /\ index' = Other(index) /\ async' = async
    BY <1>1, <1>4 DEF KeepHistory, DictTypeOK, NeedShift
  <2>2. KeepsOverlap /\ end >= Overlap + Align /\ total' = total
        /\ end' = end - ShiftFrom
    BY <1>4 DEF KeepHistory
  <2>3. KeepsOverlap'
    BY <2>2 DEF KeepsOverlap, MustReset
  <2>4. end' < Overlap + Align
    <3> DEFINE gap == end - Overlap
               rest == (end - Overlap) % Align
    <3>1. gap \in Nat /\ end = Overlap + gap
      BY <1>1, <2>2 DEF DictTypeOK
    <3>2. rest \in 0 .. Align - 1
      BY <3>1
    <3>3. end' = end - (gap - rest)
      BY <2>2 DEF ShiftFrom
    <3> HIDE DEF gap, rest
    <3>4. QED
      BY <3>1, <3>2, <3>3
  <2>5. end' \in Int
    BY <1>1, <2>2, KeptBounds
  <2>6. ~NeedShift'
    BY <2>3, <2>4, <2>5 DEF NeedShift
  <2>7. QED
    BY <2>1, <2>6
<1>5. QED
  BY <1>2, <1>3, <1>4 DEF Shift

LEMMA Invariance == DictSpec => []IInv
<1>1. DictInit => IInv
  BY InitIInv
<1>2. IInv /\ [DictNext]_dictVars => IInv'
  <2> SUFFICES ASSUME IInv, [DictNext]_dictVars PROVE IInv'
    OBVIOUS
  <2>1. CASE Shift
    <3>1. CASE UNCHANGED dictVars
      BY <3>1 DEF dictVars, IInv, DictTypeOK, RoomInInterval, HistorySinceReset, WindowIsHistory
    <3>2. CASE ~(start < end) /\ DropHistory
      BY <3>2, DropKeepsIInv
    <3>3. CASE ~(start < end) /\ KeepHistory
      BY <3>3, KeepKeepsIInv
    <3>4. QED
      BY <2>1, <3>1, <3>2, <3>3 DEF Shift
  <2>2. ASSUME NEW n \in 1 .. Size, Put(n) PROVE IInv'
    BY <2>2, PutKeepsIInv
  <2>3. CASE HasUnprocessed /\ GetBlock
    BY <2>3, GetBlockKeepsIInv
  <2>4. CASE DictReinit
    BY <2>4, ReinitKeepsIInv
  <2>5. CASE UNCHANGED dictVars
    BY <2>5 DEF dictVars, IInv, DictTypeOK, RoomInInterval, HistorySinceReset, WindowIsHistory
  <2>6. QED
    BY <2>1, <2>2, <2>3, <2>4, <2>5 DEF DictNext
<1>3. QED
  BY <1>1, <1>2, PTL DEF DictSpec

-----------------------------------------------------------------------------
(* Offsets stay within the buffers, whatever the sizes.                    *)
THEOREM OffsetsInBounds == DictSpec => []DictTypeOK
<1>1. IInv => DictTypeOK
  BY DEF IInv
<1>2. QED
  BY <1>1, Invariance, PTL

(* No more than reset_interval bytes are compressed between two resets.    *)
THEOREM ResetsInTime == DictSpec => []ResetInTime
<1>1. IInv => ResetInTime
  BY DEF IInv, ResetInTime, RoomInInterval, DictTypeOK
<1>2. QED
  BY <1>1, Invariance, PTL

(* The window a block is compressed with is the stream just before it, and *)
(* lies after the last reset.                                              *)
THEOREM DecodableWindow == DictSpec => []WindowIsDecodable
<1>1. IInv => WindowIsDecodable
  BY DEF IInv, WindowIsDecodable
<1>2. QED
  BY <1>1, Invariance, PTL

(* A full and processed buffer can be shifted, and then has room.          *)
THEOREM FullBufferShifts == DictSpec => []FullCanShift
<1>1. IInv => FullCanShift
  <2> SUFFICES ASSUME IInv, start = end, end = Size
               PROVE  NeedShift /\ (KeepsOverlap => end - ShiftFrom < Size)
    BY DEF FullCanShift
  <2>1. end >= Overlap + Align /\ DictTypeOK
    BY DEF IInv
  <2>2. ShiftFrom \in Nat /\ ShiftFrom >= 1
    BY <2>1, KeptBounds
  <2>3. QED
    BY <2>1, <2>2 DEF NeedShift, DictTypeOK
<1>2. QED
  BY <1>1, Invariance, PTL
=============================================================================
