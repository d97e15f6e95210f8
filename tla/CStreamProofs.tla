--------------------------- MODULE CStreamProofs ---------------------------
(***************************************************************************)
(* Proofs about CStream, for dictionary buffers of any size, any number of *)
(* encoder threads, any sizes of input and output, with and without a      *)
(* compression thread: what a call and a compression may do while the      *)
(* other goes on, and then that all input is written, in order and once,   *)
(* between a header that covers every block and an end marker that is last. *)
(***************************************************************************)
EXTENDS CStream, DictBufferProofs, SequenceLemmas

USE ModesAssumption, AlignAssumption, SizeAssumption, RoomAssumption, ThreadsAssumption

-----------------------------------------------------------------------------
(* Types.                                                                  *)
Piece == [kind : {"lz"}, at : Int] \cup [kind : {"prop"}, dict : Int] \cup {EndMark}

Results == {"ok", "failed", "canceled"}

PC == {"idle", "copyIn", "check", "input", "put", "full", "block", "grant", "copyOut",
       "report", "flush", "end", "endCopy", "next", "copy", "wait", "cancel", "canceling"}

Flags ==
  /\ lockParams \in BOOLEAN /\ endMarked \in BOOLEAN /\ wroteProp \in BOOLEAN
  /\ thread \in BOOLEAN /\ timeout \in BOOLEAN /\ asyncPending \in BOOLEAN
  /\ canceled \in BOOLEAN /\ moved \in BOOLEAN /\ granted \in BOOLEAN /\ ending \in BOOLEAN

Counters ==
  /\ moreIn \in Nat /\ room \in Nat \cup {NoOutput}
  /\ dictMax \in Nat /\ streamProp \in Seq(Piece)
  /\ asyncRes \in Results
  /\ work \in {"idle", "queued", "building", "encoding", "returning"}
  /\ pc \in PC
  /\ curBlock \in [buffer : 0 .. 1, start : Nat, end : Nat]

(* The position of the output lies within a slice that is there.           *)
Written ==
  /\ out \in Seq(Piece) /\ jobs \in Seq(Seq(Piece))
  /\ threadCount \in Nat /\ outThread \in Nat /\ outPos \in Nat
  /\ outThread <= threadCount /\ threadCount <= Len(jobs)
  /\ outThread = threadCount => outPos = 0
  /\ outThread < threadCount => outPos < Len(Slice(outThread))
  /\ \A u \in 0 .. threadCount - 1 : Slice(u) # <<>>

-----------------------------------------------------------------------------
(* Control: who is where, and what that says.                              *)

(* The compression runs only between its start and the call that saw it    *)
(* end, on a thread that is there, and nothing of the last block is left.  *)
RunsAlone ==
  /\ work # "idle" => asyncPending /\ thread /\ lockParams /\ outThread = 0 /\ outPos = 0
  /\ work \in {"queued", "building", "encoding"} =>
       threadCount = 0 /\ asyncRes = "ok" /\ curBlock.start < curBlock.end /\ curBlock.end <= Size

(* A cancel is over when its call is.                                      *)
CancelInCall ==
  /\ canceled => pc = "canceling"
  /\ asyncRes = "canceled" => pc = "canceling"

(* After the end marker nothing is left to compress.                       *)
EndIsEnd == endMarked => ~lockParams /\ start = end /\ ~granted /\ asyncRes = "ok"

TakesInput == call \in {"compressStream", "getDictionaryBuffer", "flushStream", "updateDictionary"}

(* Which call is at which step, and what it may rely on.                   *)
CallOf ==
  /\ pc \in {"input", "put", "full", "copyOut"} => call = "compressStream"
  /\ pc = "grant" => call = "getDictionaryBuffer"
  /\ pc = "flush" => call = "flushStream"
  /\ pc \in {"end", "endCopy"} => call = "endStream"
  /\ pc = "report" => call \in {"compressStream", "updateDictionary"}
  /\ pc = "copyIn" => call \in {"compressStream", "flushStream", "endStream"}
  /\ pc \in {"check", "block"} =>
       call \in {"compressStream", "getDictionaryBuffer", "flushStream", "updateDictionary", "endStream"}
  /\ pc = "next" => call = "getNextCompressedBuffer"
  /\ pc = "copy" => call = "copyCStreamOutput"
  /\ pc = "wait" => call = "waitCStream"
  /\ pc \in {"input", "put"} => moreIn > 0

CallRelies ==
  /\ granted => lockParams /\ ~ending
  /\ pc # "idle" /\ TakesInput => lockParams /\ ~ending /\ ~granted
  /\ pc \notin {"idle", "cancel", "canceling"} /\ call = "endStream" =>
       (lockParams \/ endMarked) /\ ending /\ ~granted
  /\ pc = "endCopy" => ~asyncPending

Control == RunsAlone /\ CancelInCall /\ EndIsEnd /\ CallOf /\ CallRelies

(* What is compressed is in the buffer that is not filled, or below what   *)
(* is put in; and that buffer is not the next to be filled before the      *)
(* compression has ended.                                                  *)
OutOfReach ==
  work # "idle" =>
    /\ curBlock.end <= Size
    /\ index = curBlock.buffer => curBlock.end <= start
    /\ index # curBlock.buffer =>
         /\ async
         /\ \/ ~NeedShift
            \/ Overlap = 0 /\ (granted \/ (pc = "put" /\ AvailSpace > 0))

(* UF2_endStream puts the end marker unless output is left that keeps the  *)
(* rest of the input from being compressed.                                *)
EndingLater ==
  /\ pc = "end" /\ HasUnprocessed => outThread < threadCount /\ work = "idle"
  /\ pc = "endCopy" => endMarked \/ (HasUnprocessed /\ outThread < threadCount)
  /\ pc = "idle" /\ call = "endStream" /\ ret = "done" => endMarked /\ outThread = threadCount

(* With no overlap at all a second DICT_shift with nothing put in between  *)
(* switches back to the buffer that may be in compression, which a caller  *)
(* that updates the dictionary by 0 bytes can bring about.                 *)
NoEmptyUpdate == Overlap = 0 => 0 \notin InputSizes

CInv == IInv /\ Flags /\ Counters /\ Written /\ Control /\ (NoEmptyUpdate => OutOfReach)

-----------------------------------------------------------------------------
(* What there is to be written, slice by slice.                            *)
After(u) == FlattenSeq([i \in 1 .. threadCount - u |-> Slice(u + i - 1)])

LEMMA RestType ==
  ASSUME Written, NEW u \in Nat, outThread <= u, u < threadCount
  PROVE  /\ Slice(u) \in Seq(Piece) /\ Rest(u) \in Seq(Piece)
         /\ u = outThread => Len(Rest(u)) = Len(Slice(u)) - outPos
         /\ u # outThread => Rest(u) = Slice(u)
         /\ Len(Rest(u)) > 0
<1>1. u + 1 \in 1 .. Len(jobs) /\ u \in 0 .. threadCount - 1
  BY DEF Written
<1>2. Slice(u) \in Seq(Piece)
  <2>1. jobs \in Seq(Seq(Piece))
    BY DEF Written
  <2>2. QED
    BY <1>1, <2>1, ElementOfSeq DEF Slice
<1>3. Slice(u) # <<>>
  BY <1>1 DEF Written
<1>4. CASE u = outThread
  <2>1. outPos \in Nat /\ outPos < Len(Slice(u))
    BY <1>4 DEF Written
  <2> DEFINE s == Slice(u)
  <2>2. s \in Seq(Piece) /\ outPos \in Nat /\ outPos < Len(s)
    BY <1>2, <2>1
  <2> HIDE DEF s
  <2>3. /\ SubSeq(s, outPos + 1, Len(s)) \in Seq(Piece)
        /\ Len(SubSeq(s, outPos + 1, Len(s))) = Len(s) - outPos
    BY <2>2
  <2>4. Rest(u) = SubSeq(s, outPos + 1, Len(s))
    BY <1>4 DEF Rest, s
  <2>5. QED
    BY <1>2, <1>4, <2>2, <2>3, <2>4 DEF s
<1>5. CASE u # outThread
  BY <1>2, <1>3, <1>5 DEF Rest
<1>6. QED
  BY <1>4, <1>5

(* What is written up to a slice, that slice, and what follows.            *)
LEMMA Split ==
  ASSUME Written, NEW u \in Nat, outThread <= u, u < threadCount
  PROVE  /\ Pending(u) \in Seq(Piece) /\ After(u + 1) \in Seq(Piece)
         /\ Pending(u + 1) = Pending(u) \o Rest(u)
         /\ Unwritten = (Pending(u) \o Rest(u)) \o After(u + 1)
<1> DEFINE before == [i \in 1 .. u - outThread |-> Rest(outThread + i - 1)]
           after  == [i \in 1 .. threadCount - (u + 1) |-> Slice((u + 1) + i - 1)]
           upTo   == [i \in 1 .. (u + 1) - outThread |-> Rest(outThread + i - 1)]
           all    == [i \in 1 .. threadCount - outThread |-> Rest(outThread + i - 1)]
<1>1. outThread \in Nat /\ threadCount \in Nat
  BY DEF Written
<1>2. \A v \in Nat : outThread <= v /\ v < threadCount =>
        /\ Rest(v) \in Seq(Piece) /\ Slice(v) \in Seq(Piece)
        /\ v # outThread => Rest(v) = Slice(v)
  BY RestType
<1>3. before \in Seq(Seq(Piece)) /\ Len(before) = u - outThread
  <2>1. \A i \in 1 .. u - outThread : Rest(outThread + i - 1) \in Seq(Piece)
    BY <1>1, <1>2
  <2>2. QED
    BY <1>1, <2>1
<1>4. after \in Seq(Seq(Piece)) /\ Len(after) = threadCount - (u + 1)
  <2>1. \A i \in 1 .. threadCount - (u + 1) : Slice((u + 1) + i - 1) \in Seq(Piece)
    BY <1>1, <1>2
  <2>2. QED
    BY <1>1, <2>1
<1>5. upTo = Append(before, Rest(u))
  <2>1. upTo \in Seq(Seq(Piece)) /\ Len(upTo) = (u + 1) - outThread
    <3>1. \A i \in 1 .. (u + 1) - outThread : Rest(outThread + i - 1) \in Seq(Piece)
      BY <1>1, <1>2
    <3>2. QED
      BY <1>1, <3>1
  <2>2. /\ Append(before, Rest(u)) \in Seq(Seq(Piece))
        /\ Len(Append(before, Rest(u))) = (u - outThread) + 1
        /\ \A i \in 1 .. u - outThread : Append(before, Rest(u))[i] = before[i]
        /\ Append(before, Rest(u))[(u - outThread) + 1] = Rest(u)
    <3>1. Rest(u) \in Seq(Piece)
      BY <1>2
    <3> HIDE DEF before
    <3>2. QED
      BY <1>3, <3>1, AppendProperties
  <2>3. ASSUME NEW i \in 1 .. (u + 1) - outThread PROVE upTo[i] = Append(before, Rest(u))[i]
    <3>1. CASE i <= u - outThread
      BY <1>1, <2>2, <3>1
    <3>2. CASE i = (u - outThread) + 1
      <4>1. upTo[i] = Rest(outThread + i - 1) /\ outThread + i - 1 = u
        BY <1>1, <3>2
      <4>2. QED
        BY <2>2, <3>2, <4>1
    <3>3. QED
      BY <1>1, <3>1, <3>2
  <2> HIDE DEF upTo, before
  <2>4. Len(upTo) = Len(Append(before, Rest(u)))
    BY <1>1, <2>1, <2>2
  <2>5. QED
    BY <2>1, <2>2, <2>3, <2>4, SeqEqual
<1>6. all = upTo \o after
  <2>1. all \in Seq(Seq(Piece)) /\ Len(all) = threadCount - outThread
    <3>1. \A i \in 1 .. threadCount - outThread : Rest(outThread + i - 1) \in Seq(Piece)
      BY <1>1, <1>2
    <3>2. QED
      BY <1>1, <3>1
  <2>2. upTo \in Seq(Seq(Piece)) /\ Len(upTo) = (u + 1) - outThread
    <3>1. \A i \in 1 .. (u + 1) - outThread : Rest(outThread + i - 1) \in Seq(Piece)
      BY <1>1, <1>2
    <3>2. QED
      BY <1>1, <3>1
  <2>3. ASSUME NEW i \in 1 .. threadCount - outThread
        PROVE  all[i] = IF i <= (u + 1) - outThread THEN upTo[i] ELSE after[i - ((u + 1) - outThread)]
    <3>1. CASE i <= (u + 1) - outThread
      BY <1>1, <3>1
    <3>2. CASE ~(i <= (u + 1) - outThread)
      <4> DEFINE j == i - ((u + 1) - outThread)
      <4>1. /\ j \in 1 .. threadCount - (u + 1) /\ (u + 1) + j - 1 = outThread + i - 1
            /\ outThread + i - 1 \in Nat /\ outThread < outThread + i - 1
            /\ outThread + i - 1 < threadCount
        BY <1>1, <3>2
      <4>2. after[j] = Slice(outThread + i - 1)
        BY <4>1
      <4>3. Rest(outThread + i - 1) = Slice(outThread + i - 1)
        BY <1>1, <1>2, <4>1
      <4>4. QED
        BY <3>2, <4>2, <4>3
    <3>3. QED
      BY <3>1, <3>2
  <2> HIDE DEF all, upTo, after
  <2>4. /\ upTo \o after \in Seq(Seq(Piece))
        /\ Len(upTo \o after) = threadCount - outThread
        /\ \A i \in 1 .. threadCount - outThread : (upTo \o after)[i] =
             IF i <= (u + 1) - outThread THEN upTo[i] ELSE after[i - ((u + 1) - outThread)]
    <3>1. Len(upTo) + Len(after) = threadCount - outThread
      BY <1>1, <1>4, <2>2
    <3>2. upTo \in Seq(Seq(Piece)) /\ after \in Seq(Seq(Piece))
      BY <1>4, <2>2
    <3>3. /\ upTo \o after \in Seq(Seq(Piece))
          /\ Len(upTo \o after) = Len(upTo) + Len(after)
          /\ \A i \in 1 .. Len(upTo) + Len(after) :
               (upTo \o after)[i] = IF i <= Len(upTo) THEN upTo[i] ELSE after[i - Len(upTo)]
      BY <3>2, ConcatProperties, Zenon
    <3>4. QED
      BY <2>2, <3>1, <3>3
  <2>5. QED
    BY <2>1, <2>3, <2>4, SeqEqual
<1>7. /\ Pending(u) = FlattenSeq(before) /\ After(u + 1) = FlattenSeq(after)
      /\ Pending(u + 1) = FlattenSeq(upTo) /\ Unwritten = FlattenSeq(all)
  BY DEF Pending, After, Unwritten
<1> HIDE DEF before, after, upTo, all
<1>8. Rest(u) \in Seq(Piece)
  BY <1>2
<1>9. FlattenSeq(before) \in Seq(Piece) /\ FlattenSeq(after) \in Seq(Piece)
  BY <1>3, <1>4, FlattenType
<1>10. FlattenSeq(upTo) = FlattenSeq(before) \o Rest(u)
  BY <1>3, <1>5, <1>8, FlattenAppend
<1>11. FlattenSeq(all) = FlattenSeq(upTo) \o FlattenSeq(after)
  <2>1. upTo \in Seq(Seq(Piece))
    BY <1>3, <1>5, <1>8, AppendProperties
  <2>2. QED
    BY <1>4, <1>6, <2>1, FlattenCat
<1>12. QED
  BY <1>7, <1>9, <1>10, <1>11

LEMMA NothingPending == ASSUME Written PROVE Pending(outThread) = <<>>
<1>1. outThread - outThread = 0
  BY DEF Written
<1>2. Pending(outThread) = FlattenSeq([i \in 1 .. 0 |-> Rest(outThread + i - 1)])
  BY <1>1, Zenon DEF Pending
<1>3. [i \in 1 .. 0 |-> Rest(outThread + i - 1)] = <<>>
  OBVIOUS
<1>4. QED
  BY <1>2, <1>3, FlattenEmpty

LEMMA NothingPendingHolds == Written => Pending(outThread) = <<>>
  BY NothingPending

LEMMA UnwrittenType ==
  ASSUME Written
  PROVE  /\ Unwritten \in Seq(Piece)
         /\ outThread = threadCount => Unwritten = <<>>
         /\ outThread < threadCount => Len(Unwritten) > 0
<1>1. CASE outThread = threadCount
  <2>1. Unwritten = <<>>
    BY <1>1, NothingPending, Zenon DEF Unwritten
  <2>2. ~(outThread < threadCount)
    BY <1>1 DEF Written
  <2>3. QED
    BY <2>1, <2>2, EmptySeq
<1>2. CASE outThread < threadCount
  <2>1. outThread \in Nat
    BY DEF Written
  <2>2. /\ Pending(outThread) \in Seq(Piece) /\ After(outThread + 1) \in Seq(Piece)
        /\ Unwritten = (Pending(outThread) \o Rest(outThread)) \o After(outThread + 1)
    BY <1>2, <2>1, Split
  <2>3. Rest(outThread) \in Seq(Piece) /\ Len(Rest(outThread)) > 0
    BY <1>2, <2>1, RestType
  <2> DEFINE a == Pending(outThread)
             b == Rest(outThread)
             c == After(outThread + 1)
  <2>4. a \in Seq(Piece) /\ b \in Seq(Piece) /\ c \in Seq(Piece) /\ Len(b) > 0
    BY <2>2, <2>3
  <2> HIDE DEF a, b, c
  <2>5. (a \o b) \o c \in Seq(Piece) /\ Len((a \o b) \o c) > 0
    BY <2>4
  <2>6. Unwritten = (a \o b) \o c
    BY <2>2 DEF a, b, c
  <2>7. outThread # threadCount
    BY <1>2 DEF Written
  <2>8. QED
    BY <2>5, <2>6, <2>7
<1>3. QED
  BY <1>1, <1>2 DEF Written

LEMMA UnwrittenFromHere ==
  Written /\ outThread < threadCount => Unwritten = Rest(outThread) \o After(outThread + 1)
<1> SUFFICES ASSUME Written, outThread < threadCount
             PROVE  Unwritten = Rest(outThread) \o After(outThread + 1)
  OBVIOUS
<1>1. outThread \in Nat
  BY DEF Written
<1>2. Unwritten = (Pending(outThread) \o Rest(outThread)) \o After(outThread + 1)
  BY <1>1, Split
<1>3. <<>> \o Rest(outThread) = Rest(outThread)
  BY <1>1, RestType, ConcatEmptySeq
<1>4. QED
  BY <1>2, <1>3, NothingPending

(* A copy takes from the front what there is room for.                     *)
LEMMA CopyTakes ==
  ASSUME Written, NEW n \in Nat, CopyOutput(n), UNCHANGED <<jobs, threadCount>>
  PROVE  /\ Written' /\ room' \in Nat
         /\ Stream' = Stream
         /\ room' = 0 \/ outThread' = threadCount
         /\ outThread <= outThread'
         /\ moved' = (moved \/ (n > 0 /\ outThread < threadCount))
<1> DEFINE given == Min({n, Len(Unwritten)})
           ready == {u \in outThread .. threadCount : Len(Pending(u)) <= given}
           next  == Max(ready)
           base  == IF next = outThread THEN outPos ELSE 0
<1>1. /\ outThread \in Nat /\ threadCount \in Nat /\ outPos \in Nat
      /\ outThread <= threadCount
      /\ out \in Seq(Piece) /\ jobs \in Seq(Seq(Piece))
  BY DEF Written
<1>2. /\ out' = out \o SubSeq(Unwritten, 1, given)
      /\ outThread' = next
      /\ outPos' = base + given - Len(Pending(next))
      /\ room' = n - given
      /\ moved' = (moved \/ given > 0)
  BY Zenon DEF CopyOutput
<1>3. /\ Unwritten \in Seq(Piece) /\ Len(Unwritten) \in Nat
      /\ outThread = threadCount => Unwritten = <<>>
      /\ outThread < threadCount => Len(Unwritten) > 0
  BY UnwrittenType, LenProperties
<1>4. /\ given \in Nat /\ given <= n /\ given <= Len(Unwritten)
      /\ given = n \/ given = Len(Unwritten)
  <2>1. given = IF n <= Len(Unwritten) THEN n ELSE Len(Unwritten)
    BY <1>3, SmallerOfTwo
  <2>2. QED
    BY <1>3, <2>1
<1>5. Pending(outThread) = <<>> /\ Len(Pending(outThread)) = 0
  BY NothingPending, EmptySeq
<1> HIDE DEF given
<1>6. /\ next \in outThread .. threadCount /\ Len(Pending(next)) <= given
      /\ \A u \in ready : u <= next
  <2>1. ready \subseteq Int /\ outThread \in ready /\ \A u \in ready : u <= threadCount
    BY <1>1, <1>4, <1>5
  <2> HIDE DEF ready
  <2>2. ready # {} /\ threadCount \in Int
    BY <1>1, <2>1
  <2>3. Max(ready) \in ready /\ \A u \in ready : u <= Max(ready)
    BY <2>1, <2>2, GreatestElement
  <2>4. QED
    BY <2>3 DEF ready
<1> HIDE DEF next
<1>7. room' \in Nat /\ outThread <= outThread'
  BY <1>1, <1>2, <1>4, <1>6
<1>8. moved' = (moved \/ (n > 0 /\ outThread < threadCount))
  <2>1. given > 0 <=> n > 0 /\ outThread < threadCount
    <3>1. ~(outThread < threadCount) => Len(Unwritten) = 0
      BY <1>1, <1>3, EmptySeq
    <3>2. QED
      BY <1>3, <1>4, <3>1
  <2>2. QED
    BY <1>2, <2>1, Zenon
<1>9. /\ jobs' = jobs /\ threadCount' = threadCount
      /\ threadCount <= Len(jobs)
      /\ \A u \in 0 .. threadCount - 1 : jobs[u + 1] # <<>>
  BY DEF Written, Slice
<1>10. Written' /\ Stream' = Stream /\ (room' = 0 \/ outThread' = threadCount)
  <2>1. CASE next = threadCount
    <3>1. Unwritten = Pending(next)
      BY <2>1, Zenon DEF Unwritten
    <3>2. given = Len(Unwritten) /\ Len(Pending(next)) = Len(Unwritten)
      BY <1>3, <1>4, <1>6, <3>1
    <3>3. outPos' = 0
      <4>1. CASE next = outThread
        <5>1. outPos = 0
          BY <2>1, <4>1 DEF Written
        <5>2. QED
          BY <1>2, <1>3, <3>2, <5>1
      <4>2. CASE next # outThread
        BY <1>2, <1>3, <3>2, <4>2
      <4>3. QED
        BY <4>1, <4>2
    <3>4. out' = out \o Unwritten /\ out' \in Seq(Piece)
      <4>1. SubSeq(Unwritten, 1, given) = Unwritten
        BY <1>3, <3>2, SubSeqFull
      <4>2. QED
        BY <1>1, <1>2, <1>3, <4>1, ConcatProperties
    <3>5. Written'
      <4>1. outThread' = threadCount /\ ~(threadCount < threadCount)
        BY <1>1, <1>2, <2>1
      <4>2. QED
        BY <1>1, <1>9, <3>3, <3>4, <4>1 DEF Written, Slice
    <3>6. Unwritten' = <<>>
      <4>1. (Pending(outThread) = <<>>)'
        BY <3>5, NothingPendingHolds, PTL
      <4>2. outThread' = threadCount'
        BY <1>2, <2>1
      <4>3. QED
        BY <4>1, <4>2, Zenon DEF Unwritten, Pending, Rest, Slice
    <3>7. Stream' = Stream
      BY <3>4, <3>6, ConcatEmptySeq DEF Stream
    <3>8. QED
      BY <1>2, <2>1, <3>5, <3>7
  <2>2. CASE next < threadCount
    <3> DEFINE p == Pending(next)
               r == Rest(next)
               a == After(next + 1)
               k == given - Len(p)
               s == Slice(next)
    <3>1. next \in Nat /\ outThread <= next
      BY <1>1, <1>6
    <3>2. /\ p \in Seq(Piece) /\ a \in Seq(Piece)
          /\ Pending(next + 1) = p \o r
          /\ Unwritten = (p \o r) \o a
      BY <2>2, <3>1, Split
    <3>3. /\ s \in Seq(Piece) /\ r \in Seq(Piece)
          /\ r = SubSeq(s, base + 1, Len(s)) /\ Len(r) = Len(s) - base
          /\ base \in Nat /\ base < Len(s)
      <4>1. /\ s \in Seq(Piece) /\ r \in Seq(Piece) /\ Len(r) > 0
            /\ next = outThread => Len(r) = Len(s) - outPos
            /\ next # outThread => r = s
        BY <2>2, <3>1, RestType
      <4>2. CASE next = outThread
        <5>1. r = SubSeq(s, outPos + 1, Len(s))
          BY <4>2 DEF Rest
        <5>2. outPos < Len(s)
          BY <2>2, <4>2 DEF Written
        <5>3. QED
          BY <1>1, <4>1, <4>2, <5>1, <5>2
      <4>3. CASE next # outThread
        <5>1. SubSeq(s, 1, Len(s)) = s /\ Len(s) \in Nat
          BY <4>1, SubSeqFull, LenProperties
        <5>2. base = 0 /\ base + 1 = 1
          BY <4>3
        <5>3. QED
          BY <4>1, <4>3, <5>1, <5>2
      <4>4. QED
        BY <4>2, <4>3
    <3> HIDE DEF p, r, a, s
    <3>4. k \in Nat /\ k < Len(r) /\ given = Len(p) + k
      <4>1. Len(p) \in Nat /\ Len(r) \in Nat /\ Len(p \o r) = Len(p) + Len(r)
        BY <3>2, <3>3, ConcatProperties, LenProperties
      <4>2. Len(p) <= given
        BY <1>6 DEF p
      <4>3. ~(Len(Pending(next + 1)) <= given)
        <5>1. next + 1 \in outThread .. threadCount /\ ~(next + 1 <= next)
          BY <1>1, <2>2, <3>1
        <5>2. QED
          BY <1>6, <5>1
      <4>4. Pending(next + 1) = p \o r
        BY <3>2
      <4>5. QED
        BY <1>4, <4>1, <4>2, <4>3, <4>4
    <3> HIDE DEF k, base
    <3>5. outPos' = base + k /\ base + k \in Nat /\ base + k < Len(s)
      <4>1. outPos' = base + given - Len(p)
        BY <1>2 DEF p
      <4>2. Len(p) \in Nat
        BY <3>2, LenProperties
      <4>3. Len(s) \in Nat
        BY <3>3, LenProperties
      <4>4. QED
        BY <3>3, <3>4, <4>1, <4>2, <4>3
    <3>6. /\ out' \in Seq(Piece)
          /\ out' \o (SubSeq(r, k + 1, Len(r)) \o a) = out \o Unwritten
      <4> DEFINE head == SubSeq(Unwritten, 1, Len(p) + k)
                 tail == SubSeq(r, k + 1, Len(r)) \o a
      <4>1. out' = out \o head
        BY <1>2, <3>4
      <4>2. k <= Len(r)
        BY <3>3, <3>4, LenProperties
      <4>3. /\ out \in Seq(Piece) /\ p \in Seq(Piece) /\ r \in Seq(Piece)
            /\ a \in Seq(Piece) /\ k \in Nat /\ Unwritten = (p \o r) \o a
        BY <1>1, <3>2, <3>3, <3>4
      <4>4. Whole(Piece, out, SubSeq((p \o r) \o a, 1, Len(p) + k), tail, (p \o r) \o a)
        BY <4>2, <4>3, CutAndJoin, Zenon
      <4>5. Whole(Piece, out, head, tail, Unwritten)
        BY <4>3, <4>4, Zenon
      <4> HIDE DEF head, tail
      <4>6. out \o head \in Seq(Piece) /\ (out \o head) \o tail = out \o Unwritten
        BY <4>5, Zenon DEF Whole
      <4>7. QED
        BY <4>1, <4>6, Zenon DEF tail
    <3>7. Written'
      <4>1. next # threadCount
        BY <1>1, <2>2
      <4>2. Slice(outThread)' = s
        BY <1>2, <1>9 DEF s, Slice
      <4>3. outPos' < Len(Slice(outThread)')
        BY <3>5, <4>2
      <4>4. \A u \in 0 .. threadCount' - 1 : Slice(u)' # <<>>
        BY <1>9 DEF Slice
      <4>5. QED
        BY <1>1, <1>2, <1>6, <1>9, <3>1, <3>5, <3>6, <4>1, <4>3, <4>4 DEF Written
    <3>8. Unwritten' = SubSeq(r, k + 1, Len(r)) \o a
      <4>1. (outThread < threadCount)'
        BY <1>2, <1>9, <2>2
      <4>2. (Unwritten = Rest(outThread) \o After(outThread + 1))'
        BY <3>7, <4>1, UnwrittenFromHere, PTL
      <4>3. After(outThread + 1)' = a
        BY <1>2, <1>9, Zenon DEF After, Slice, a
      <4>4. Rest(outThread)' = SubSeq(s, (base + k) + 1, Len(s))
        BY <1>2, <1>9, <3>5 DEF Rest, Slice, s
      <4>5. SubSeq(s, (base + k) + 1, Len(s)) = SubSeq(r, k + 1, Len(r))
        <5>1. base + k <= Len(s)
          BY <3>3, <3>5, LenProperties
        <5>2. QED
          BY <3>3, <3>4, <5>1, RestOfRest
      <4>6. QED
        BY <4>2, <4>3, <4>4, <4>5
    <3>9. Stream' = Stream
      BY <3>6, <3>8 DEF Stream
    <3>10. room' = 0
      <4>1. Len((p \o r) \o a) = Len(p) + Len(r) + Len(a) /\ Len(a) \in Nat
        <5>1. p \o r \in Seq(Piece) /\ Len(p \o r) = Len(p) + Len(r)
          BY <3>2, <3>3, ConcatProperties
        <5>2. Len((p \o r) \o a) = Len(p \o r) + Len(a)
          BY <3>2, <5>1, ConcatProperties
        <5>3. QED
          BY <3>2, <5>1, <5>2, LenProperties
      <4>2. given < Len(Unwritten)
        BY <3>2, <3>3, <3>4, <4>1, LenProperties
      <4>3. QED
        BY <1>2, <1>3, <1>4, <4>2
    <3>11. QED
      BY <3>7, <3>9, <3>10
  <2>3. QED
    BY <1>1, <1>6, <2>1, <2>2
<1>11. QED
  BY <1>7, <1>8, <1>10

(* At the start of a slice, the rest is that slice and those after it.     *)
LEMMA UnwrittenAfresh == Written /\ outPos = 0 => Unwritten = After(outThread)
<1> SUFFICES ASSUME Written, outPos = 0
             PROVE  Unwritten = After(outThread)
  OBVIOUS
<1>1. outThread \in Nat /\ threadCount \in Nat
  BY DEF Written
<1>2. ASSUME NEW i \in 1 .. threadCount - outThread
      PROVE  Rest(outThread + i - 1) = Slice(outThread + i - 1)
  <2> DEFINE u == outThread + i - 1
             s == Slice(u)
  <2>1. u \in Nat /\ outThread <= u /\ u < threadCount
    BY <1>1
  <2>2. s \in Seq(Piece) /\ (u # outThread => Rest(u) = s)
    BY <2>1, RestType
  <2>3. SubSeq(s, 1, Len(s)) = s
    BY <2>2, SubSeqFull
  <2>4. u = outThread => Rest(u) = SubSeq(s, 0 + 1, Len(s))
    BY DEF Rest
  <2>5. QED
    BY <2>2, <2>3, <2>4
<1>3. [i \in 1 .. threadCount - outThread |-> Rest(outThread + i - 1)]
        = [i \in 1 .. threadCount - outThread |-> Slice(outThread + i - 1)]
  BY <1>2
<1>4. QED
  BY <1>3, Zenon DEF Unwritten, Pending, After

(* UF2_getNextCompressedBuffer takes the rest of a slice.                  *)
LEMMA HandOutTakes ==
  ASSUME Written, outThread < threadCount,
         out' = out \o Rest(outThread), outThread' = outThread + 1, outPos' = 0,
         UNCHANGED <<jobs, threadCount>>
  PROVE  Written' /\ Stream' = Stream
<1>1. /\ outThread \in Nat /\ threadCount \in Nat
      /\ out \in Seq(Piece) /\ jobs \in Seq(Seq(Piece))
      /\ threadCount <= Len(jobs)
      /\ \A u \in 0 .. threadCount - 1 : jobs[u + 1] # <<>>
  BY DEF Written, Slice
<1>2. Rest(outThread) \in Seq(Piece)
  BY <1>1, RestType
<1>3. out' \in Seq(Piece)
  BY <1>1, <1>2, ConcatProperties
<1>4. outThread' < threadCount' => 0 < Len(Slice(outThread)')
  <2> SUFFICES ASSUME outThread + 1 < threadCount PROVE 0 < Len(jobs[(outThread + 1) + 1])
    BY DEF Slice
  <2>1. outThread + 1 \in 0 .. threadCount - 1 /\ (outThread + 1) + 1 \in 1 .. Len(jobs)
    BY <1>1
  <2>2. jobs[(outThread + 1) + 1] # <<>> /\ jobs[(outThread + 1) + 1] \in Seq(Piece)
    BY <1>1, <2>1, ElementOfSeq
  <2>3. QED
    BY <2>2, EmptySeq
<1>5. Written'
  <2>1. outThread' \in Nat /\ outPos' \in Nat /\ outThread' <= threadCount'
    BY <1>1
  <2>2. QED
    BY <1>1, <1>3, <1>4, <2>1 DEF Written, Slice
<1>6. Unwritten = Rest(outThread) \o After(outThread + 1)
  BY UnwrittenFromHere
<1>7. (outPos = 0)'
  OBVIOUS
<1>8. (Unwritten = After(outThread))'
  BY <1>5, <1>7, UnwrittenAfresh, PTL
<1>9. After(outThread)' = After(outThread + 1)
  BY DEF After, Slice
<1>10. After(outThread + 1) \in Seq(Piece)
  BY <1>1, Split
<1>11. QED
  <2> DEFINE r == Rest(outThread)
             a == After(outThread + 1)
  <2>1. out \in Seq(Piece) /\ r \in Seq(Piece) /\ a \in Seq(Piece)
    BY <1>1, <1>2, <1>10
  <2>2. Stream = out \o Unwritten /\ Stream' = (out \o r) \o a /\ Unwritten = r \o a
    BY <1>6, <1>8, <1>9 DEF Stream
  <2> HIDE DEF r, a
  <2>3. (out \o r) \o a = out \o Unwritten
    BY <2>1, <2>2, JoinInOrder, SMTT(30)
  <2>4. QED
    BY <1>5, <2>2, <2>3

-----------------------------------------------------------------------------
(* The slices of a block.                                                  *)

LEMMA ThreadCounts ==
  ASSUME NEW size \in Nat \ {0}
  PROVE  /\ NbThreads(size) \in Nat \ {0}
         /\ size \div NbThreads(size) \in Nat \ {0}
         /\ NbThreads(size) * (size \div NbThreads(size)) <= size
<1> DEFINE n  == size \div MinSlice
           nb == NbThreads(size)
<1>1. n \in Nat /\ n <= size
  OBVIOUS
<1>2. nb \in Nat \ {0} /\ nb <= size
  <2>1. nb = IF n = 0 THEN 1 ELSE IF n < JobCount THEN n ELSE JobCount
    BY DEF NbThreads
  <2> HIDE DEF n, nb
  <2>2. QED
    BY <1>1, <2>1
<1> HIDE DEF n, nb
<1>3. size \div nb \in Nat /\ nb * (size \div nb) <= size /\ size < nb * (size \div nb) + nb
  BY <1>2
<1>4. size \div nb # 0
  BY <1>2, <1>3
<1>5. QED
  BY <1>2, <1>3, <1>4 DEF nb

BlockOK(b) ==
  b \in [buffer : 0 .. 1, start : Nat, end : Nat] /\ b.start < b.end /\ b.end <= Size

(* No slice is empty, and the last one ends with the block.                *)
LEMMA Offsets ==
  ASSUME NEW b, BlockOK(b)
  PROVE  /\ NbThreads(b.end - b.start) \in Nat \ {0}
         /\ SliceStart(b, 0) = b.start
         /\ SliceStart(b, NbThreads(b.end - b.start)) = b.end
         /\ \A u \in 0 .. NbThreads(b.end - b.start) - 1 :
              /\ SliceStart(b, u) \in Nat /\ b.start <= SliceStart(b, u)
              /\ SliceStart(b, u + 1) \in Nat /\ SliceStart(b, u + 1) <= b.end
              /\ SliceStart(b, u) < SliceStart(b, u + 1)
<1> DEFINE size == b.end - b.start
           nb == NbThreads(size)
           q  == size \div nb
<1>1. b.start \in Nat /\ b.end \in Nat /\ size \in Nat \ {0}
  BY DEF BlockOK
<1>2. nb \in Nat \ {0} /\ q \in Nat \ {0} /\ nb * q <= size
  BY <1>1, ThreadCounts
<1>3. \A u : SliceStart(b, u) = IF u = nb THEN b.end ELSE b.start + u * q
  BY DEF SliceStart
<1>4. b.end = b.start + size
  BY <1>1
<1> HIDE DEF size, nb, q
<1>5. SliceStart(b, 0) = b.start /\ SliceStart(b, nb) = b.end
  <2>1. 0 # nb /\ b.start + 0 * q = b.start
    BY <1>1, <1>2
  <2>2. QED
    BY <1>3, <2>1
<1>6. ASSUME NEW u \in 0 .. nb - 1
      PROVE  /\ SliceStart(b, u) \in Nat /\ b.start <= SliceStart(b, u)
             /\ SliceStart(b, u + 1) \in Nat /\ SliceStart(b, u + 1) <= b.end
             /\ SliceStart(b, u) < SliceStart(b, u + 1)
  <2>1. u \in Nat /\ u # nb /\ nb - (u + 1) \in Nat
    BY <1>2
  <2>2. u * q \in Nat /\ (u + 1) * q = u * q + q
    BY <1>2, <2>1
  <2>3. (u + 1) * q <= nb * q
    <3>1. (nb - (u + 1)) * q \in Nat
      BY <1>2, <2>1
    <3>2. (nb - (u + 1)) * q = nb * q - (u + 1) * q
      BY <1>2, <2>1
    <3>3. nb * q \in Nat /\ (u + 1) * q \in Nat
      BY <1>2, <2>1
    <3>4. QED
      BY <3>1, <3>2, <3>3
  <2>4. nb * q \in Nat
    BY <1>2
  <2>5. SliceStart(b, u) = b.start + u * q
    BY <1>3, <2>1
  <2>6. CASE u + 1 = nb
    <3>1. SliceStart(b, u + 1) = b.end
      BY <1>5, <2>6
    <3>2. QED
      BY <1>1, <1>2, <1>4, <2>2, <2>3, <2>4, <2>5, <3>1
  <2>7. CASE u + 1 # nb
    <3>1. SliceStart(b, u + 1) = b.start + (u + 1) * q
      BY <1>3, <2>7
    <3>2. QED
      BY <1>1, <1>2, <1>4, <2>2, <2>3, <2>4, <2>5, <3>1
  <2>8. QED
    BY <2>6, <2>7
<1>7. QED
  BY <1>2, <1>5, <1>6 DEF nb, size

LzAt(n) == [kind |-> "lz", at |-> n]

Bytes(b, n) == [i \in 1 .. n |-> LzAt(data[b.buffer][b.start + i - 1])]

LEMMA BytesType ==
  ASSUME DictTypeOK, NEW b, BlockOK(b), NEW n \in Nat, b.start + n <= Size
  PROVE  Bytes(b, n) \in Seq(Piece) /\ Len(Bytes(b, n)) = n
<1>1. \A i \in 1 .. n : data[b.buffer][b.start + i - 1] \in Nat
  BY SMTT(30) DEF DictTypeOK, BlockOK
<1>2. \A i \in 1 .. n : LzAt(data[b.buffer][b.start + i - 1]) \in Piece
  BY <1>1 DEF LzAt, Piece
<1>3. QED
  BY <1>2 DEF Bytes

LEMMA EncodedType ==
  ASSUME DictTypeOK, NEW b, BlockOK(b), NEW u \in 0 .. NbThreads(b.end - b.start) - 1
  PROVE  /\ Encoded(b, u) \in Seq(Piece)
         /\ Len(Encoded(b, u)) = SliceStart(b, u + 1) - SliceStart(b, u)
         /\ Len(Encoded(b, u)) > 0
         /\ Bytes(b, SliceStart(b, u) - b.start) \o Encoded(b, u)
              = Bytes(b, SliceStart(b, u + 1) - b.start)
<1> DEFINE from == SliceStart(b, u)
           to   == SliceStart(b, u + 1)
           n    == to - from
<1>1. /\ b.start \in Nat /\ b.end \in Nat /\ b.end <= Size /\ b.buffer \in 0 .. 1
      /\ from \in Nat /\ b.start <= from /\ to \in Nat /\ to <= b.end /\ from < to
  BY Offsets DEF BlockOK
<1>2. Encoded(b, u) = [i \in 1 .. n |-> LzAt(data[b.buffer][from + i - 1])]
  BY DEF Encoded, LzAt
<1> HIDE DEF from, to
<1>3. \A i \in 1 .. n : data[b.buffer][from + i - 1] \in Nat
  BY <1>1, SMTT(30) DEF DictTypeOK
<1>4. \A i \in 1 .. n : LzAt(data[b.buffer][from + i - 1]) \in Piece
  BY <1>3 DEF LzAt, Piece
<1>5. /\ Encoded(b, u) \in Seq(Piece) /\ Len(Encoded(b, u)) = n /\ n > 0
      /\ \A i \in 1 .. n : Encoded(b, u)[i] = LzAt(data[b.buffer][from + i - 1])
  BY <1>1, <1>2, <1>4
<1> DEFINE p == Bytes(b, from - b.start)
           e == Encoded(b, u)
           w == Bytes(b, to - b.start)
<1>6. /\ p \in Seq(Piece) /\ Len(p) = from - b.start
      /\ w \in Seq(Piece) /\ Len(w) = to - b.start
  <2>1. /\ from - b.start \in Nat /\ b.start + (from - b.start) <= Size
        /\ to - b.start \in Nat /\ b.start + (to - b.start) <= Size
    BY <1>1
  <2>2. QED
    BY <2>1, BytesType
<1>7. /\ \A i \in 1 .. from - b.start : p[i] = LzAt(data[b.buffer][b.start + i - 1])
      /\ \A i \in 1 .. to - b.start : w[i] = LzAt(data[b.buffer][b.start + i - 1])
  BY DEF Bytes
<1> HIDE DEF p, e, w, n
<1>8. /\ p \o e \in Seq(Piece) /\ Len(p \o e) = Len(p) + Len(e)
      /\ \A i \in 1 .. Len(p) + Len(e) : (p \o e)[i] = IF i <= Len(p) THEN p[i] ELSE e[i - Len(p)]
  <2>1. e \in Seq(Piece)
    BY <1>5 DEF e
  <2>2. p \in Seq(Piece)
    BY <1>6
  <2>3. QED
    BY <2>1, <2>2, ConcatProperties, Zenon
<1>9. Len(p \o e) = Len(w)
  <2>1. Len(e) = to - from
    BY <1>5 DEF e, n
  <2>2. Len(p \o e) = Len(p) + Len(e) /\ Len(p) = from - b.start /\ Len(w) = to - b.start
    BY <1>6, <1>8
  <2>3. b.start \in Int /\ from \in Int /\ to \in Int
    BY <1>1
  <2>4. QED
    BY <2>1, <2>2, <2>3
<1>10. ASSUME NEW i \in 1 .. Len(w) PROVE (p \o e)[i] = w[i]
  <2>1. i \in 1 .. Len(p) + Len(e) /\ i \in 1 .. to - b.start
    BY <1>6, <1>8, <1>9
  <2>2. CASE i <= Len(p)
    <3>1. i \in 1 .. from - b.start
      BY <1>6, <2>1, <2>2
    <3>2. QED
      BY <1>7, <1>8, <2>1, <2>2, <3>1
  <2>3. CASE ~(i <= Len(p))
    <3>1. i - Len(p) \in 1 .. n /\ from + (i - Len(p)) - 1 = b.start + i - 1
      <4>1. i \in Int /\ i <= to - b.start /\ n = to - from /\ Len(p) = from - b.start
            /\ ~(i <= from - b.start)
        BY <1>6, <2>1, <2>3 DEF n
      <4>2. /\ b.start \in Nat /\ from \in Nat /\ to \in Nat
            /\ b.start <= from /\ from < to
        BY <1>1
      <4>3. i - (from - b.start) \in 1 .. to - from
        BY <4>1, <4>2
      <4>4. from + (i - (from - b.start)) - 1 = b.start + i - 1
        BY <4>1, <4>2, SMTT(30)
      <4>5. QED
        BY <4>1, <4>3, <4>4
    <3>2. e[i - Len(p)] = LzAt(data[b.buffer][from + (i - Len(p)) - 1])
      BY <1>5, <3>1 DEF e
    <3>3. QED
      BY <1>7, <1>8, <2>1, <2>3, <3>1, <3>2
  <2>4. QED
    BY <2>2, <2>3
<1>11. p \o e = w
  BY <1>6, <1>8, <1>9, <1>10, SeqEqual
<1>12. QED
  BY <1>5, <1>11 DEF p, e, w, n, from, to

(* The slices of a block together are its bytes, in order and each once.   *)
LEMMA SlicesOfBlock ==
  ASSUME DictTypeOK, NEW b, BlockOK(b), NEW prop \in Seq(Piece)
  PROVE  /\ Slices(b, prop) \in Seq(Seq(Piece))
         /\ Len(Slices(b, prop)) = NbThreads(b.end - b.start)
         /\ \A u \in 1 .. Len(Slices(b, prop)) : Slices(b, prop)[u] # <<>>
         /\ FlattenSeq(Slices(b, prop)) = prop \o Bytes(b, b.end - b.start)
<1> DEFINE nb == NbThreads(b.end - b.start)
           ss == Slices(b, prop)
           to(n) == SliceStart(b, n) - b.start
<1>1. /\ nb \in Nat \ {0} /\ to(0) = 0 /\ to(nb) = b.end - b.start
      /\ \A n \in 0 .. nb - 1 : to(n + 1) \in Nat /\ b.start + to(n + 1) <= Size
  BY Offsets, SMTT(30) DEF BlockOK
<1>2. \A n \in 0 .. nb - 1 :
        /\ Encoded(b, n) \in Seq(Piece) /\ Len(Encoded(b, n)) > 0
        /\ Bytes(b, to(n)) \o Encoded(b, n) = Bytes(b, to(n + 1))
  BY EncodedType
<1> HIDE DEF nb, to
<1>3. /\ ss = [u \in 1 .. nb |-> (IF u = 1 THEN prop ELSE <<>>) \o Encoded(b, u - 1)]
      /\ \A u \in 1 .. nb :
           ss[u] = (IF u = 1 THEN prop ELSE <<>>) \o Encoded(b, u - 1)
  BY DEF Slices, nb
<1> HIDE DEF ss
<1>4. ss[1] = prop \o Bytes(b, to(1))
  <2>1. 1 \in 1 .. nb /\ 0 \in 0 .. nb - 1 /\ 1 - 1 = 0 /\ 0 + 1 = 1
    BY <1>1
  <2>2. ss[1] = prop \o Encoded(b, 0)
    BY <1>3, <2>1
  <2>3. Bytes(b, to(0)) \o Encoded(b, 0) = Bytes(b, to(1)) /\ Encoded(b, 0) \in Seq(Piece)
    BY <1>2, <2>1
  <2>4. Bytes(b, to(0)) = <<>>
    BY <1>1 DEF Bytes
  <2>5. QED
    BY <2>2, <2>3, <2>4, ConcatEmptySeq
<1>5. \A n \in 1 .. nb - 1 : ss[n + 1] = Encoded(b, n)
  <2> SUFFICES ASSUME NEW n \in 1 .. nb - 1 PROVE ss[n + 1] = Encoded(b, n)
    OBVIOUS
  <2>1. n + 1 \in 1 .. nb /\ n + 1 # 1 /\ (n + 1) - 1 = n /\ n \in 0 .. nb - 1
    BY <1>1
  <2>2. ss[n + 1] = <<>> \o Encoded(b, n)
    BY <1>3, <2>1
  <2>3. QED
    BY <1>2, <2>1, <2>2, ConcatEmptySeq
<1>6. \A n \in 0 .. nb - 1 : Bytes(b, to(n + 1)) \in Seq(Piece)
  BY <1>1, BytesType
<1>7. \A u \in 1 .. nb : ss[u] \in Seq(Piece) /\ ss[u] # <<>>
  <2> SUFFICES ASSUME NEW u \in 1 .. nb PROVE ss[u] \in Seq(Piece) /\ ss[u] # <<>>
    OBVIOUS
  <2>1. u - 1 \in 0 .. nb - 1
    BY <1>1
  <2>2. Encoded(b, u - 1) \in Seq(Piece) /\ Len(Encoded(b, u - 1)) > 0
    BY <1>2, <2>1
  <2> DEFINE e == Encoded(b, u - 1)
             p == IF u = 1 THEN prop ELSE <<>>
  <2>3. p \in Seq(Piece) /\ e \in Seq(Piece) /\ Len(e) > 0
    BY <2>2
  <2>4. ss[u] = p \o e
    BY <1>3
  <2> HIDE DEF e, p
  <2>5. QED
    BY <2>3, <2>4
<1>8. ss \in Seq(Seq(Piece)) /\ Len(ss) = nb
  <2>1. ss = [u \in 1 .. nb |-> ss[u]]
    BY <1>3
  <2>2. QED
    BY <1>1, <1>7, <2>1, SMTT(30)
<1> DEFINE Part(n) == SubSeq(ss, 1, n + 1)
           Holds == {n \in Nat : n < nb => FlattenSeq(Part(n)) = prop \o Bytes(b, to(n + 1))}
<1>9. 0 \in Holds
  <2>1. Part(0) = <<ss[1]>> /\ ss[1] \in Seq(Piece)
    <3>1. 1 \in 1 .. nb /\ 1 \in 1 .. Len(ss) /\ 0 + 1 = 1
      BY <1>1, <1>8
    <3>2. SubSeq(ss, 1, 1) = <<ss[1]>>
      BY <1>8, <3>1, FirstAlone
    <3>3. QED
      BY <1>7, <3>1, <3>2
  <2>2. FlattenSeq(Part(0)) = ss[1]
    BY <2>1, FlattenOne
  <2>3. 0 + 1 = 1
    OBVIOUS
  <2>4. QED
    BY <1>4, <2>2, <2>3
<1>10. ASSUME NEW n \in Nat, n \in Holds PROVE n + 1 \in Holds
  <2> SUFFICES ASSUME n + 1 < nb
               PROVE  FlattenSeq(Part(n + 1)) = prop \o Bytes(b, to((n + 1) + 1))
    OBVIOUS
  <2>1. n < nb /\ n + 1 \in 1 .. nb - 1 /\ n \in 0 .. nb - 1 /\ n + 1 \in 0 .. nb - 1
        /\ (n + 1) + 1 \in 1 .. nb
    BY <1>1
  <2>2. FlattenSeq(Part(n)) = prop \o Bytes(b, to(n + 1))
    BY <1>10, <2>1
  <2>3. Part(n) \in Seq(Seq(Piece)) /\ Part(n + 1) = Append(Part(n), ss[(n + 1) + 1])
    BY <1>1, <1>8, <2>1
  <2> HIDE DEF Part
  <2>4. FlattenSeq(Part(n + 1)) = (prop \o Bytes(b, to(n + 1))) \o ss[(n + 1) + 1]
    BY <1>7, <2>1, <2>2, <2>3, FlattenAppend
  <2> DEFINE e == Encoded(b, n + 1)
             v == Bytes(b, to(n + 1))
             w == Bytes(b, to((n + 1) + 1))
  <2>5. e \in Seq(Piece) /\ v \in Seq(Piece) /\ w = v \o e
    BY <1>2, <1>6, <2>1
  <2>6. ss[(n + 1) + 1] = e
    BY <1>5, <2>1
  <2> HIDE DEF e, v, w
  <2>7. (prop \o v) \o e = prop \o w
    BY <2>5, JoinInOrder
  <2>8. QED
    BY <2>4, <2>6, <2>7 DEF v, w
<1> HIDE DEF Holds
<1>11. nb - 1 \in Holds
  <2>1. Nat \subseteq Holds
    BY <1>9, <1>10, Induction
  <2>2. QED
    BY <1>1, <2>1
<1>12. Part(nb - 1) = ss /\ (nb - 1) + 1 = nb /\ nb - 1 < nb
  <2>1. (nb - 1) + 1 = nb /\ nb - 1 < nb
    BY <1>1
  <2>2. SubSeq(ss, 1, nb) = ss
    BY <1>8, SubSeqFull
  <2>3. QED
    BY <2>1, <2>2
<1>13. FlattenSeq(ss) = prop \o Bytes(b, b.end - b.start)
  BY <1>1, <1>11, <1>12 DEF Holds
<1>14. QED
  BY <1>7, <1>8, <1>13 DEF ss, nb

-----------------------------------------------------------------------------
(* What a step does to the dictionary buffer.                              *)

(* The input loop puts what there is, or fills the buffer.                 *)
LEMMA PutSome ==
  ASSUME CInv, pc = "put"
  PROVE  /\ Min({moreIn, AvailSpace}) \in Nat
         /\ Min({moreIn, AvailSpace}) <= moreIn /\ Min({moreIn, AvailSpace}) <= AvailSpace
         /\ AvailSpace > 0 => Min({moreIn, AvailSpace}) > 0
<1>1. moreIn \in Nat /\ moreIn > 0
  BY DEF CInv, Counters, Control, CallOf
<1>2. AvailSpace \in Nat
  BY DEF CInv, IInv, DictTypeOK, AvailSpace
<1>3. Min({moreIn, AvailSpace}) = IF moreIn <= AvailSpace THEN moreIn ELSE AvailSpace
  BY <1>1, <1>2, SmallerOfTwo
<1>4. QED
  BY <1>1, <1>2, <1>3

DictStep ==
  \/ UNCHANGED dictVars
  \/ Shift
  \/ \E n \in Nat : Put(n)
  \/ HasUnprocessed /\ GetBlock
  \/ DictReinit

LEMMA DictStepKeepsIInv == ASSUME IInv, DictStep PROVE IInv'
<1>1. CASE UNCHANGED dictVars
  BY <1>1 DEF dictVars, IInv, DictTypeOK, RoomInInterval, HistorySinceReset, WindowIsHistory
<1>2. CASE Shift
  <2>1. CASE UNCHANGED dictVars
    BY <1>1, <2>1
  <2>2. CASE ~(start < end) /\ DropHistory
    BY <2>2, DropKeepsIInv
  <2>3. CASE ~(start < end) /\ KeepHistory
    BY <2>3, KeepKeepsIInv
  <2>4. QED
    BY <1>2, <2>1, <2>2, <2>3 DEF Shift
<1>3. CASE \E n \in Nat : Put(n)
  BY <1>3, PutKeepsIInv
<1>4. CASE HasUnprocessed /\ GetBlock
  BY <1>4, GetBlockKeepsIInv
<1>5. CASE DictReinit
  BY <1>5, ReinitKeepsIInv
<1>6. QED
  BY <1>1, <1>2, <1>3, <1>4, <1>5 DEF DictStep

LEMMA CallStepsBuffer == ASSUME CInv, UserCalls PROVE DictStep
<1> USE DEF innerVars, DictStep
<1>1. CASE InitCStream
  BY <1>1 DEF InitCStream
<1>2. CASE InitMissing
  BY <1>2 DEF InitMissing
<1>3. ASSUME NEW t \in Timeouts, SetTimeout(t) PROVE DictStep
  BY <1>3 DEF SetTimeout
<1>4. ASSUME NEW n \in InputSizes, NEW m \in OutputSizes, CompressStream(n, m) PROVE DictStep
  BY <1>4 DEF CompressStream
<1>5. ASSUME NEW m \in OutputSizes, FlushStream(m) \/ EndStream(m) \/ CopyCStreamOutput(m)
      PROVE  DictStep
  BY <1>5 DEF FlushStream, EndStream, CopyCStreamOutput
<1>6. CASE GetDictionaryBuffer
  BY <1>6 DEF GetDictionaryBuffer
<1>7. ASSUME NEW n \in InputSizes, UpdateDictionary(n) PROVE DictStep
  <2>1. n \in Nat
    BY CallAssumption
  <2>2. QED
    BY <1>7, <2>1 DEF UpdateDictionary
<1>8. CASE GetNextCompressedBuffer \/ WaitCStream \/ CancelCStream
  BY <1>8 DEF GetNextCompressedBuffer, WaitCStream, CancelCStream
<1>9. QED
  BY <1>1, <1>2, <1>3, <1>4, <1>5, <1>6, <1>7, <1>8 DEF UserCalls

LEMMA StepBuffer == ASSUME CInv, Next PROVE DictStep
<1> USE DEF innerVars, DictStep
<1>1. CASE UserCalls
  BY <1>1, CallStepsBuffer
<1>2. CASE Work
  BY <1>2 DEF Work
<1>3. CASE CopyIn \/ Check \/ Full \/ CopyOut \/ Report \/ Flush \/ EndCopy
  BY <1>3 DEF CopyIn, Check, Full, CopyOut, Report, Flush, EndCopy
<1>4. CASE HandOut \/ Copy \/ WaitEnds \/ CancelBegins \/ CancelEnds
  BY <1>4 DEF HandOut, Copy, WaitEnds, CancelBegins, CancelEnds
<1>5. CASE EndWritten \/ EndLater \/ StopWaiting
  BY <1>5 DEF EndWritten, EndLater, StopWaiting, WaitStops
<1>6. CASE Input \/ Grant
  BY <1>6 DEF Input, Grant
<1>7. CASE PutInput
  BY <1>7, PutSome DEF PutInput
<1>8. CASE BlockStep
  BY <1>8 DEF BlockStep, CompressInternal
<1>9. QED
  BY <1>1, <1>2, <1>3, <1>4, <1>5, <1>6, <1>7, <1>8 DEF Next, InCall

-----------------------------------------------------------------------------
(* Types and control, action by action.                                    *)
State == Flags /\ Counters /\ Control

LEMMA CallsKeepState == ASSUME CInv, UserCalls PROVE State'
<1> USE CallAssumption
        DEF CInv, State, Flags, Counters, Control, RunsAlone, CancelInCall, EndIsEnd, CallOf,
            CallRelies, TakesInput, Results, PC, Begins, Simple, Return, NoOutput,
            innerVars, dictVars, workVars, blockVars, outVars, frameVars, userVars, callVars
<1>1. CASE InitCStream
  <2>1. Flags'
    BY <1>1 DEF InitCStream, DictReinit
  <2>2. Counters'
    BY <1>1 DEF InitCStream, DictReinit
  <2>3. RunsAlone' /\ CancelInCall' /\ EndIsEnd'
    BY <1>1 DEF InitCStream, DictReinit
  <2>4. CallOf' /\ CallRelies'
    BY <1>1 DEF InitCStream, DictReinit
  <2>5. QED
    BY <2>1, <2>2, <2>3, <2>4
<1>2. CASE InitMissing
  <2>1. Flags'
    BY <1>2 DEF InitMissing
  <2>2. Counters'
    BY <1>2 DEF InitMissing
  <2>3. RunsAlone' /\ CancelInCall' /\ EndIsEnd'
    BY <1>2 DEF InitMissing
  <2>4. CallOf' /\ CallRelies'
    BY <1>2 DEF InitMissing
  <2>5. QED
    BY <2>1, <2>2, <2>3, <2>4
<1>3. ASSUME NEW t \in Timeouts, SetTimeout(t) PROVE State'
  <2>1. Flags'
    BY <1>3 DEF SetTimeout
  <2>2. Counters'
    BY <1>3 DEF SetTimeout
  <2>3. RunsAlone' /\ CancelInCall' /\ EndIsEnd'
    BY <1>3 DEF SetTimeout
  <2>4. CallOf' /\ CallRelies'
    BY <1>3 DEF SetTimeout
  <2>5. QED
    BY <2>1, <2>2, <2>3, <2>4
<1>4. ASSUME NEW n \in InputSizes, NEW m \in OutputSizes, CompressStream(n, m) PROVE State'
  BY <1>4, ZenonT(40) DEF CompressStream
<1>5. ASSUME NEW m \in OutputSizes, FlushStream(m) PROVE State'
  BY <1>5, ZenonT(40) DEF FlushStream
<1>6. ASSUME NEW m \in OutputSizes, EndStream(m) PROVE State'
  BY <1>6, ZenonT(40) DEF EndStream
<1>7. ASSUME NEW m \in OutputSizes, CopyCStreamOutput(m) PROVE State'
  BY <1>7, ZenonT(40) DEF CopyCStreamOutput
<1>8. CASE GetDictionaryBuffer
  BY <1>8, ZenonT(40) DEF GetDictionaryBuffer
<1>9. ASSUME NEW n \in InputSizes, UpdateDictionary(n) PROVE State'
  BY <1>9, ZenonT(40) DEF UpdateDictionary, Put
<1>10. CASE GetNextCompressedBuffer
  BY <1>10, ZenonT(40) DEF GetNextCompressedBuffer
<1>11. CASE WaitCStream
  BY <1>11, ZenonT(40) DEF WaitCStream
<1>12. CASE CancelCStream
  BY <1>12, ZenonT(40) DEF CancelCStream
<1>13. QED
  BY <1>1, <1>2, <1>3, <1>4, <1>5, <1>6, <1>7, <1>8, <1>9, <1>10, <1>11, <1>12 DEF UserCalls

LEMMA WrittenStays ==
  ASSUME Written, UNCHANGED <<out, outThread, outPos, jobs, threadCount>>
  PROVE  Written' /\ Stream' = Stream
<1>1. Written'
  BY DEF Written, Slice
<1>2. Stream' = Stream
  BY DEF Stream, Unwritten, Pending, Rest, Slice
<1>3. QED
  BY <1>1, <1>2

(* What was left of the output and the room for it.                        *)
LEMMA CopyKeeps ==
  ASSUME CInv, CopyIfAny, UNCHANGED <<jobs, threadCount>>
  PROVE  /\ room' \in Nat \cup {NoOutput} /\ moved' \in BOOLEAN
         /\ room # NoOutput <=> room' # NoOutput
         /\ Written' /\ Stream' = Stream
         /\ moved => moved'
         /\ outThread <= outThread'
         /\ Running \/ outThread = threadCount => UNCHANGED <<outVars, room, moved>>
         /\ ~Running /\ room # NoOutput => room' = 0 \/ outThread' = threadCount
         /\ ~Running /\ room # NoOutput /\ room > 0 /\ outThread < threadCount => moved'
<1>1. /\ room \in Nat \cup {NoOutput} /\ moved \in BOOLEAN /\ Written
      /\ NoOutput \notin Nat
  BY DEF CInv, Flags, Counters, NoOutput
<1>2. outThread \in Nat /\ threadCount \in Nat /\ outThread <= threadCount
  BY <1>1 DEF Written
<1>3. CASE room # NoOutput /\ HasOutput
  <2>1. room \in Nat /\ CopyOutput(room)
    BY <1>1, <1>3, Zenon DEF CopyIfAny
  <2>2. /\ Written' /\ room' \in Nat
        /\ Stream' = Stream
        /\ room' = 0 \/ outThread' = threadCount
        /\ outThread <= outThread'
        /\ moved' = (moved \/ (room > 0 /\ outThread < threadCount))
    BY <1>1, <2>1, CopyTakes
  <2>3. ~Running /\ outThread < threadCount
    BY <1>3 DEF HasOutput
  <2>4. outThread # threadCount
    BY <1>2, <2>3
  <2>5. moved' \in BOOLEAN /\ (moved => moved') /\ (room > 0 => moved')
    BY <2>2, <2>3, Zenon
  <2>6. QED
    BY <1>1, <2>1, <2>2, <2>3, <2>4, <2>5
<1>4. CASE ~(room # NoOutput /\ HasOutput)
  <2>1. UNCHANGED <<outVars, room, moved>>
    BY <1>4 DEF CopyIfAny
  <2>2. out' = out /\ outThread' = outThread /\ outPos' = outPos /\ room' = room /\ moved' = moved
    BY <2>1 DEF outVars
  <2>3. Written' /\ Stream' = Stream
    BY <1>1, <2>2, WrittenStays
  <2>4. ~Running /\ room # NoOutput => ~(outThread < threadCount)
    BY <1>4 DEF HasOutput
  <2>5. QED
    BY <1>1, <1>2, <2>1, <2>2, <2>3, <2>4
<1>5. QED
  BY <1>3, <1>4

(* Slices that are all there is: what they hold comes after what was read. *)
LEMMA NewSlices ==
  ASSUME Written, outThread = threadCount, out' = out,
         jobs' \in Seq(Seq(Piece)), \A u \in 1 .. Len(jobs') : jobs'[u] # <<>>,
         threadCount' = Len(jobs'), outThread' = 0, outPos' = 0
  PROVE  Written' /\ Stream = out /\ Stream' = out \o FlattenSeq(jobs')
<1>1. Len(jobs') \in Nat /\ out \in Seq(Piece) /\ outThread \in Nat
  BY LenProperties DEF Written
<1>2. \A u \in 0 .. threadCount' - 1 : Slice(u)' # <<>>
  BY <1>1 DEF Slice
<1>3. outThread' < threadCount' => 0 < Len(Slice(outThread)')
  <2> SUFFICES ASSUME 0 < Len(jobs') PROVE 0 < Len(jobs'[0 + 1])
    BY DEF Slice
  <2>1. 0 + 1 = 1 /\ 1 \in 1 .. Len(jobs')
    BY <1>1
  <2>2. jobs'[1] \in Seq(Piece) /\ jobs'[1] # <<>>
    BY <2>1, ElementOfSeq
  <2>3. QED
    BY <2>1, <2>2, EmptySeq
<1>4. Written'
  BY <1>1, <1>2, <1>3 DEF Written
<1>5. (outPos = 0)'
  OBVIOUS
<1>6. (Unwritten = After(outThread))'
  BY <1>4, <1>5, UnwrittenAfresh, PTL
<1>7. After(outThread)' = FlattenSeq(jobs')
  <2>1. After(outThread)' = FlattenSeq([i \in 1 .. Len(jobs') - 0 |-> jobs'[(0 + i - 1) + 1]])
    BY Zenon DEF After, Slice
  <2>2. [i \in 1 .. Len(jobs') - 0 |-> jobs'[(0 + i - 1) + 1]] = jobs'
    <3> DEFINE j == jobs'
    <3>1. j \in Seq(Seq(Piece)) /\ Len(j) \in Nat
      BY <1>1
    <3> HIDE DEF j
    <3>2. j = [i \in 1 .. Len(j) |-> j[i]]
      BY <3>1
    <3>3. \A i \in 1 .. Len(j) : (0 + i - 1) + 1 = i
      BY <3>1
    <3>4. Len(j) - 0 = Len(j)
      BY <3>1
    <3>5. QED
      BY <3>2, <3>3, <3>4 DEF j
  <2>3. QED
    BY <2>1, <2>2
<1>8. Stream = out
  BY <1>1, UnwrittenType, ConcatEmptySeq DEF Stream
<1>9. QED
  BY <1>4, <1>6, <1>7, <1>8 DEF Stream

LEMMA BlockPublished ==
  ASSUME Written, DictTypeOK, NEW b, BlockOK(b), NEW prop \in Seq(Piece),
         outThread = threadCount, out' = out, jobs' = Slices(b, prop),
         threadCount' = Len(jobs'), outThread' = 0, outPos' = 0
  PROVE  Written' /\ Stream' = Stream \o (prop \o Bytes(b, b.end - b.start))
<1>1. /\ jobs' \in Seq(Seq(Piece))
      /\ \A u \in 1 .. Len(jobs') : jobs'[u] # <<>>
      /\ FlattenSeq(jobs') = prop \o Bytes(b, b.end - b.start)
  BY SlicesOfBlock
<1>2. QED
  BY <1>1, NewSlices

LEMMA AllWritten == Written /\ outThread = threadCount => Unwritten = <<>>
  BY UnwrittenType

LEMMA NothingPublished ==
  ASSUME Written, outThread = threadCount, out' = out,
         jobs' \in Seq(Seq(Piece)), threadCount' = 0, outThread' = 0, outPos' = 0
  PROVE  Written' /\ Stream' = Stream
<1>1. Written'
  BY LenProperties DEF Written
<1>2. (outThread = threadCount)'
  OBVIOUS
<1>3. (Unwritten = <<>>)'
  BY <1>1, <1>2, AllWritten, PTL
<1>4. Unwritten = <<>>
  BY UnwrittenType
<1>5. QED
  BY <1>1, <1>3, <1>4 DEF Stream

LEMMA UnwrittenToLast ==
  Written /\ outThread < threadCount =>
    Unwritten = Pending(threadCount - 1) \o Rest(threadCount - 1)
<1> SUFFICES ASSUME Written, outThread < threadCount
             PROVE  Unwritten = Pending(threadCount - 1) \o Rest(threadCount - 1)
  OBVIOUS
<1> DEFINE u == threadCount - 1
<1>1. /\ u \in Nat /\ outThread <= u /\ u < threadCount /\ u + 1 = threadCount
  BY DEF Written
<1> HIDE DEF u
<1>2. Pending(u + 1) = Pending(u) \o Rest(u)
  BY <1>1, Split
<1>3. QED
  BY <1>1, <1>2 DEF Unwritten, u

(* UF2_writeEnd: the tail comes after all that was compressed.             *)
LEMMA TailWritten ==
  ASSUME Written, WriteEnd, UNCHANGED <<out, outPos>>
  PROVE  Written' /\ Stream' = Stream \o StreamTail
<1>1. /\ outThread \in Nat /\ threadCount \in Nat /\ outThread <= threadCount
      /\ out \in Seq(Piece) /\ jobs \in Seq(Seq(Piece)) /\ threadCount <= Len(jobs)
      /\ outThread = threadCount => outPos = 0
      /\ outPos \in Nat
  BY DEF Written
<1>2. StreamTail \in Seq(Piece) /\ StreamTail # <<>>
  <2>1. Prop(0) \in Piece /\ EndMark \in Piece
    BY DEF Piece, Prop
  <2>2. StreamTail = IF wroteProp THEN <<>> \o <<EndMark>> ELSE <<Prop(0)>> \o <<EndMark>>
    BY DEF StreamTail
  <2> HIDE DEF EndMark
  <2>3. QED
    BY <2>1, <2>2
<1> DEFINE tail == StreamTail
<1>3. CASE outThread = threadCount
  <2>1. jobs' = <<tail>> /\ threadCount' = 1 /\ outThread' = 0 /\ outPos' = 0
    BY <1>1, <1>3 DEF WriteEnd
  <2> HIDE DEF tail
  <2>2. <<tail>> \in Seq(Seq(Piece)) /\ Len(<<tail>>) = 1 /\ <<tail>>[1] = tail
    BY <1>2 DEF tail
  <2>3. jobs' \in Seq(Seq(Piece)) /\ \A u \in 1 .. Len(jobs') : jobs'[u] # <<>>
    BY <1>2, <2>1, <2>2 DEF tail
  <2>4. Written' /\ Stream = out /\ Stream' = out \o FlattenSeq(jobs')
    BY <1>3, <2>1, <2>2, <2>3, NewSlices
  <2>5. FlattenSeq(jobs') = tail
    BY <1>2, <2>1, FlattenOne DEF tail
  <2>6. QED
    BY <2>4, <2>5 DEF tail
<1>4. CASE outThread < threadCount
  <2>1. /\ jobs' = [jobs EXCEPT ![threadCount] = jobs[threadCount] \o tail]
        /\ threadCount' = threadCount /\ outThread' = outThread
    BY <1>1, <1>4 DEF WriteEnd
  <2>2. threadCount \in 1 .. Len(jobs) /\ threadCount - 1 \in 0 .. threadCount - 1
    BY <1>1, <1>4
  <2>3. jobs[threadCount] \in Seq(Piece)
    BY <1>1, <2>2, ElementOfSeq
  <2> DEFINE last == jobs[threadCount] \o tail
  <2>4. last \in Seq(Piece) /\ Len(last) = Len(jobs[threadCount]) + Len(tail) /\ last # <<>>
    BY <1>2, <2>3
  <2> HIDE DEF last
  <2>5. /\ jobs' \in Seq(Seq(Piece)) /\ Len(jobs') = Len(jobs)
        /\ \A u \in 1 .. Len(jobs) : jobs'[u] = IF u = threadCount THEN last ELSE jobs[u]
    BY <1>1, <2>1, <2>2, <2>4, ExceptSeq DEF last
  <2>6. Written'
    <3>1. \A u \in 0 .. threadCount - 1 : jobs[u + 1] # <<>>
      BY DEF Written, Slice
    <3>2. \A u \in 0 .. threadCount - 1 : jobs'[u + 1] # <<>>
      <4> SUFFICES ASSUME NEW u \in 0 .. threadCount - 1 PROVE jobs'[u + 1] # <<>>
        OBVIOUS
      <4>1. u + 1 \in 1 .. Len(jobs)
        BY <1>1
      <4>2. QED
        BY <2>4, <2>5, <3>1, <4>1
    <3>3. outPos < Len(jobs'[outThread + 1])
      <4>1. outPos < Len(jobs[outThread + 1])
        BY <1>4 DEF Written, Slice
      <4>2. outThread + 1 \in 1 .. Len(jobs)
        BY <1>1, <1>4
      <4>3. CASE outThread + 1 = threadCount
        <5>1. Len(jobs'[outThread + 1]) = Len(jobs[outThread + 1]) + Len(tail)
          BY <2>4, <2>5, <4>2, <4>3
        <5>2. Len(jobs[outThread + 1]) \in Nat /\ Len(tail) \in Nat
          BY <1>2, <2>3, <4>3, LenProperties
        <5>3. QED
          BY <1>1, <4>1, <5>1, <5>2
      <4>4. CASE outThread + 1 # threadCount
        BY <2>5, <4>1, <4>2, <4>4
      <4>5. QED
        BY <4>3, <4>4
    <3>4. outThread' # threadCount'
      BY <1>1, <1>4, <2>1
    <3>5. QED
      BY <1>1, <2>1, <2>5, <3>2, <3>3, <3>4 DEF Written, Slice
  <2> DEFINE u == threadCount - 1
             p == Pending(u)
             r == Rest(u)
  <2>7. u \in Nat /\ outThread <= u /\ u < threadCount /\ u + 1 = threadCount
    BY <1>1, <1>4
  <2>8. p \in Seq(Piece) /\ r \in Seq(Piece)
    BY <2>7, Split, RestType
  <2>9. Unwritten = p \o r
    BY <1>4, UnwrittenToLast
  <2>10. (outThread < threadCount)'
    BY <1>4, <2>1
  <2>11. (Unwritten = Pending(threadCount - 1) \o Rest(threadCount - 1))'
    BY <2>6, <2>10, UnwrittenToLast, PTL
  <2>12. Pending(threadCount - 1)' = p
    <3>1. \A i \in 1 .. u - outThread : Rest(outThread + i - 1)' = Rest(outThread + i - 1)
      <4> SUFFICES ASSUME NEW i \in 1 .. u - outThread
                   PROVE  Rest(outThread + i - 1)' = Rest(outThread + i - 1)
        OBVIOUS
      <4>1. (outThread + i - 1) + 1 \in 1 .. Len(jobs) /\ (outThread + i - 1) + 1 # threadCount
        BY <1>1, <2>7
      <4>2. jobs'[(outThread + i - 1) + 1] = jobs[(outThread + i - 1) + 1]
        BY <2>5, <4>1
      <4> DEFINE v == outThread + i - 1
      <4>3. v' = v /\ Slice(v)' = Slice(v)
        BY <2>1, <4>2 DEF Slice
      <4>4. (v = outThread)' <=> v = outThread
        BY <2>1
      <4>5. QED
        BY <2>1, <4>3, <4>4 DEF Rest
    <3>2. [i \in 1 .. u - outThread |-> Rest(outThread + i - 1)']
            = [i \in 1 .. u - outThread |-> Rest(outThread + i - 1)]
      BY <3>1
    <3>3. Pending(threadCount - 1)'
            = FlattenSeq([i \in 1 .. u - outThread |-> Rest(outThread + i - 1)'])
      BY <2>1 DEF Pending
    <3>4. QED
      BY <3>2, <3>3 DEF Pending
  <2>13. Rest(threadCount - 1)' = r \o tail
    <3> DEFINE s == jobs[threadCount]
    <3>1. s \in Seq(Piece) /\ tail \in Seq(Piece) /\ Slice(u) = s /\ jobs'[threadCount] = s \o tail
      BY <1>2, <2>2, <2>3, <2>5, <2>7 DEF Slice, last
    <3>2. Slice(threadCount - 1)' = s \o tail
      BY <2>1, <2>7, <3>1 DEF Slice
    <3> HIDE DEF s, tail
    <3>3. CASE u = outThread
      <4>1. outPos <= Len(s)
        <5>1. outPos < Len(s) /\ Len(s) \in Nat
          BY <2>7, <3>1, <3>3, LenProperties DEF Written
        <5>2. QED
          BY <1>1, <5>1
      <4>2. r = SubSeq(s, outPos + 1, Len(s))
        BY <3>1, <3>3 DEF Rest
      <4>3. Rest(threadCount - 1)' = SubSeq(s \o tail, outPos + 1, Len(s \o tail))
        BY <2>1, <3>2, <3>3 DEF Rest
      <4>4. SubSeq(s \o tail, outPos + 1, Len(s \o tail)) = SubSeq(s, outPos + 1, Len(s)) \o tail
        BY <1>1, <3>1, <4>1, RestOfCat, ZenonT(40)
      <4>5. QED
        BY <4>2, <4>3, <4>4
    <3>4. CASE u # outThread
      <4>1. r = s
        BY <3>1, <3>4 DEF Rest
      <4>2. Rest(threadCount - 1)' = Slice(threadCount - 1)'
        BY <2>1, <3>4 DEF Rest
      <4>3. QED
        BY <3>2, <4>1, <4>2
    <3>5. QED
      BY <3>3, <3>4
  <2>14. Stream' = Stream \o tail
    <3>1. Stream = out \o (p \o r) /\ Stream' = out \o (p \o (r \o tail))
      BY <2>9, <2>11, <2>12, <2>13 DEF Stream
    <3> HIDE DEF p, r, tail
    <3> DEFINE w == p \o r
               x == r \o tail
               y == p \o x
    <3>2. w \in Seq(Piece) /\ tail \in Seq(Piece)
      BY <1>2, <2>8, ConcatProperties DEF tail
    <3>3. y = w \o tail
      BY <2>8, <3>2, JoinInOrder
    <3> HIDE DEF w, y
    <3>4. out \in Seq(Piece)
      BY <1>1
    <3>5. (out \o w) \o tail = out \o y
      BY <3>2, <3>3, <3>4, JoinInOrder
    <3>6. QED
      BY <3>1, <3>5 DEF w, x, y
  <2>15. QED
    BY <2>6, <2>14
<1>5. QED
  BY <1>1, <1>3, <1>4
LEMMA PropType == ASSUME CInv, NEW final PROVE PropFor(final) \in Seq(Piece)
<1> DEFINE e == IF dictMax > end THEN dictMax ELSE end
<1>1. dictMax \in Int /\ end \in Int /\ Size \in Int
  BY DEF CInv, Counters, IInv, DictTypeOK
<1>2. Prop(e) \in Piece /\ Prop(Size) \in Piece
  BY <1>1 DEF Prop, Piece
<1>3. <<Prop(e)>> \in Seq(Piece) /\ <<Prop(Size)>> \in Seq(Piece) /\ <<>> \in Seq(Piece)
  BY <1>2, SMTT(30)
<1>4. QED
  BY <1>3 DEF PropFor

LEMMA InternalsKeepState == ASSUME CInv, InCall \/ Work PROVE State'
<1> USE DEF CInv, State, Flags, Counters, Control, RunsAlone, CancelInCall, EndIsEnd, CallOf,
            CallRelies, TakesInput, Results, PC, Return, NoOutput,
            innerVars, dictVars, workVars, blockVars, outVars, frameVars, userVars, callVars
<1>1. CASE CopyIn
  <2>0. /\ room' \in Nat \cup {NoOutput} /\ moved' \in BOOLEAN
        /\ Running => UNCHANGED outVars
    BY <1>1, CopyKeeps DEF CopyIn
  <2>1. Flags'
    BY <1>1, <2>0 DEF CopyIn, Running
  <2>2. Counters'
    BY <1>1, <2>0 DEF CopyIn, Running
  <2>3. RunsAlone'
    BY <1>1, <2>0 DEF CopyIn, Running
  <2>4. CancelInCall' /\ EndIsEnd'
    BY <1>1, <2>0 DEF CopyIn, Running
  <2>5. CallOf'
    BY <1>1, <2>0 DEF CopyIn, Running
  <2>6. CallRelies'
    BY <1>1, <2>0 DEF CopyIn, Running
  <2>7. QED
    BY <2>1, <2>2, <2>3, <2>4, <2>5, <2>6
<1>2. CASE Check
  <2>1. Flags'
    BY <1>2 DEF Check, AsyncResult, Running, HasUnprocessed
  <2>2. Counters'
    BY <1>2 DEF Check, AsyncResult, Running, HasUnprocessed
  <2>3. RunsAlone'
    BY <1>2 DEF Check, AsyncResult, Running, HasUnprocessed
  <2>4. CancelInCall' /\ EndIsEnd'
    BY <1>2 DEF Check, AsyncResult, Running, HasUnprocessed
  <2>5. CallOf'
    BY <1>2, SMTT(30) DEF Check, AsyncResult, Running, HasUnprocessed
  <2>6. CallRelies'
    BY <1>2 DEF Check, AsyncResult, Running, HasUnprocessed
  <2>7. QED
    BY <2>1, <2>2, <2>3, <2>4, <2>5, <2>6
<1>3. CASE StopWaiting
  <2>1. Flags'
    BY <1>3 DEF StopWaiting, WaitStops, MustWait
  <2>2. Counters'
    BY <1>3 DEF StopWaiting, WaitStops, MustWait
  <2>3. RunsAlone'
    BY <1>3 DEF StopWaiting, WaitStops, MustWait
  <2>4. CancelInCall' /\ EndIsEnd'
    BY <1>3 DEF StopWaiting, WaitStops, MustWait
  <2>5. CallOf'
    BY <1>3 DEF StopWaiting, WaitStops, MustWait
  <2>6. CallRelies'
    BY <1>3 DEF StopWaiting, WaitStops, MustWait
  <2>7. QED
    BY <2>1, <2>2, <2>3, <2>4, <2>5, <2>6
<1>4. CASE Input
  <2>1. Flags'
    BY <1>4 DEF Input, Waited, WaitSets, MustWait
  <2>2. Counters'
    BY <1>4 DEF Input, Waited, WaitSets, MustWait
  <2>3. RunsAlone'
    BY <1>4 DEF Input, Waited, WaitSets, MustWait
  <2>4. CancelInCall' /\ EndIsEnd'
    BY <1>4 DEF Input, Waited, WaitSets, MustWait
  <2>5. CallOf'
    BY <1>4 DEF Input, Waited, WaitSets, MustWait
  <2>6. CallRelies'
    BY <1>4 DEF Input, Waited, WaitSets, MustWait
  <2>7. QED
    BY <2>1, <2>2, <2>3, <2>4, <2>5, <2>6
<1>5. CASE PutInput
  <2>1. Flags'
    BY <1>5 DEF PutInput, AsyncResult, Running, Put
  <2>2. Counters'
    BY <1>5, PutSome DEF PutInput, AsyncResult, Running
  <2>3. RunsAlone'
    BY <1>5 DEF PutInput, AsyncResult, Running, Put
  <2>4. CancelInCall' /\ EndIsEnd'
    BY <1>5 DEF PutInput, AsyncResult, Running, Put
  <2>5. CallOf'
    BY <1>5 DEF PutInput, AsyncResult, Running, Put
  <2>6. CallRelies'
    BY <1>5 DEF PutInput, AsyncResult, Running, Put
  <2>7. QED
    BY <2>1, <2>2, <2>3, <2>4, <2>5, <2>6
<1>6. CASE Full
  <2>1. Flags'
    BY <1>6 DEF Full
  <2>2. Counters'
    BY <1>6 DEF Full
  <2>3. RunsAlone'
    BY <1>6 DEF Full
  <2>4. CancelInCall' /\ EndIsEnd'
    BY <1>6 DEF Full
  <2>5. CallOf'
    BY <1>6 DEF Full
  <2>6. CallRelies'
    BY <1>6 DEF Full
  <2>7. QED
    BY <2>1, <2>2, <2>3, <2>4, <2>5, <2>6
<1>7. CASE BlockStep
  <2>1. work = "idle" /\ asyncRes = "ok" /\ pc = "block"
    BY <1>7 DEF BlockStep, Waited, MustWait
  <2>2. CASE outThread = threadCount /\ HasUnprocessed
    <3> DEFINE final == call = "endStream"
               prop  == PropFor(final)
    <3>1. /\ curBlock' = Block /\ wroteProp' = TRUE /\ GetBlock
          /\ CompressCurBlock(Block, prop)
      BY <1>7, <2>2 DEF BlockStep, CompressInternal
    <3>2. BlockOK(Block)
      BY <2>2 DEF BlockOK, Block, HasUnprocessed, IInv, DictTypeOK
    <3>3. prop \in Seq(Piece)
      BY PropType
    <3>4. Block.end \in Nat /\ Block \in [buffer : 0 .. 1, start : Nat, end : Nat]
          /\ Block.start < Block.end /\ Block.end <= Size
      BY <3>2 DEF BlockOK
    <3> HIDE DEF prop, final
    <3>5. /\ canceled' = FALSE /\ dictMax' \in Nat /\ outThread' = 0 /\ outPos' = 0
          /\ streamProp' \in Seq(Piece) /\ asyncRes' \in {"ok", "failed"}
          /\ asyncPending' = thread
          /\ work' \in {"idle", "queued"}
          /\ work' # "idle" => thread /\ threadCount' = 0 /\ asyncRes' = "ok"
      BY <2>1, <3>1, <3>3, <3>4 DEF CompressCurBlock
    <3>6. UNCHANGED <<frameVars, callVars, userVars>> /\ pc' \in PC
      BY <1>7 DEF BlockStep
    <3>7. Flags'
      BY <3>1, <3>5, <3>6
    <3>8. Counters'
      BY <2>1, <3>1, <3>4, <3>5, <3>6
    <3>9. lockParams
      <4>1. endMarked => start = end
        OBVIOUS
      <4>2. ~(start = end)
        BY <2>2 DEF HasUnprocessed, IInv, DictTypeOK
      <4>3. QED
        BY <2>1, <4>1, <4>2
    <3>10. RunsAlone'
      BY <3>1, <3>4, <3>5, <3>6, <3>9
    <3>11. CancelInCall'
      BY <3>5
    <3>12. EndIsEnd'
      BY <3>6, <3>9
    <3>13. CallOf' /\ CallRelies'
      BY <1>7, <2>1, <3>5, <3>6, SMTT(30) DEF BlockStep
    <3>14. QED
      BY <3>7, <3>8, <3>10, <3>11, <3>12, <3>13
  <2>3. CASE ~(outThread = threadCount /\ HasUnprocessed)
    <3>1. /\ asyncPending' = FALSE
          /\ UNCHANGED <<dictVars, workVars, blockVars, outVars, frameVars, callVars, userVars>>
      BY <1>7, <2>3 DEF BlockStep, CompressInternal
    <3>2. Flags' /\ Counters'
      BY <1>7, <2>1, <3>1, ZenonT(40) DEF BlockStep
    <3>3. RunsAlone' /\ CancelInCall' /\ EndIsEnd'
      BY <2>1, <3>1
    <3>4. CallOf' /\ CallRelies'
      BY <1>7, <2>1, <3>1, SMTT(30) DEF BlockStep
    <3>5. QED
      BY <3>2, <3>3, <3>4
  <2>4. QED
    BY <2>2, <2>3
<1>8. CASE Grant
  <2>1. Flags'
    BY <1>8 DEF Grant, Waited, WaitSets, MustWait
  <2>2. Counters'
    BY <1>8 DEF Grant, Waited, WaitSets, MustWait
  <2>3. RunsAlone'
    BY <1>8 DEF Grant, Waited, WaitSets, MustWait
  <2>4. CancelInCall' /\ EndIsEnd'
    BY <1>8 DEF Grant, Waited, WaitSets, MustWait
  <2>5. CallOf'
    BY <1>8 DEF Grant, Waited, WaitSets, MustWait
  <2>6. CallRelies'
    BY <1>8 DEF Grant, Waited, WaitSets, MustWait
  <2>7. QED
    BY <2>1, <2>2, <2>3, <2>4, <2>5, <2>6
<1>9. CASE CopyOut
  <2>0. /\ room' \in Nat \cup {NoOutput} /\ moved' \in BOOLEAN
        /\ Running => UNCHANGED outVars
    BY <1>9, CopyKeeps DEF CopyOut
  <2>1. Flags'
    BY <1>9, <2>0 DEF CopyOut, LoopCheck, Running
  <2>2. Counters'
    BY <1>9, <2>0 DEF CopyOut, LoopCheck, Running
  <2>3. RunsAlone'
    BY <1>9, <2>0 DEF CopyOut, LoopCheck, Running
  <2>4. CancelInCall' /\ EndIsEnd'
    BY <1>9, <2>0 DEF CopyOut, LoopCheck, Running
  <2>5. CallOf'
    BY <1>9, <2>0 DEF CopyOut, LoopCheck, Running
  <2>6. CallRelies'
    BY <1>9, <2>0 DEF CopyOut, LoopCheck, Running
  <2>7. QED
    BY <2>1, <2>2, <2>3, <2>4, <2>5, <2>6
<1>10. CASE Report
  <2>1. Flags'
    BY <1>10 DEF Report
  <2>2. Counters'
    BY <1>10 DEF Report
  <2>3. RunsAlone'
    BY <1>10 DEF Report
  <2>4. CancelInCall' /\ EndIsEnd'
    BY <1>10 DEF Report
  <2>5. CallOf'
    BY <1>10 DEF Report
  <2>6. CallRelies'
    BY <1>10 DEF Report
  <2>7. QED
    BY <2>1, <2>2, <2>3, <2>4, <2>5, <2>6
<1>11. CASE Flush
  <2>0. /\ room' \in Nat \cup {NoOutput} /\ moved' \in BOOLEAN
        /\ Running => UNCHANGED outVars
    BY <1>11, CopyKeeps DEF Flush
  <2>1. Flags'
    BY <1>11, <2>0 DEF Flush, LoopCheck, Running
  <2>2. Counters'
    BY <1>11, <2>0 DEF Flush, LoopCheck, Running
  <2>3. RunsAlone'
    BY <1>11, <2>0 DEF Flush, LoopCheck, Running
  <2>4. CancelInCall' /\ EndIsEnd'
    BY <1>11, <2>0 DEF Flush, LoopCheck, Running
  <2>5. CallOf'
    BY <1>11, <2>0 DEF Flush, LoopCheck, Running
  <2>6. CallRelies'
    BY <1>11, <2>0 DEF Flush, LoopCheck, Running
  <2>7. QED
    BY <2>1, <2>2, <2>3, <2>4, <2>5, <2>6
<1>12. CASE EndWritten
  <2>1. Flags'
    BY <1>12 DEF EndWritten, WriteEnd, EndFrame, Waited, MustWait, HasUnprocessed
  <2>2. Counters'
    BY <1>12 DEF EndWritten, WriteEnd, EndFrame, Waited, MustWait, HasUnprocessed
  <2>3. RunsAlone'
    BY <1>12 DEF EndWritten, WriteEnd, EndFrame, Waited, MustWait, HasUnprocessed
  <2>4. CancelInCall' /\ EndIsEnd'
    BY <1>12 DEF IInv, DictTypeOK, EndWritten, WriteEnd, EndFrame, Waited, MustWait, HasUnprocessed
  <2>5. CallOf'
    BY <1>12 DEF EndWritten, WriteEnd, EndFrame, Waited, MustWait, HasUnprocessed
  <2>6. CallRelies'
    BY <1>12 DEF EndWritten, WriteEnd, EndFrame, Waited, MustWait, HasUnprocessed
  <2>7. QED
    BY <2>1, <2>2, <2>3, <2>4, <2>5, <2>6
<1>13. CASE EndLater
  <2>1. Flags'
    BY <1>13 DEF EndLater, Waited, MustWait
  <2>2. Counters'
    BY <1>13 DEF EndLater, Waited, MustWait
  <2>3. RunsAlone'
    BY <1>13 DEF EndLater, Waited, MustWait
  <2>4. CancelInCall' /\ EndIsEnd'
    BY <1>13 DEF EndLater, Waited, MustWait
  <2>5. CallOf'
    BY <1>13 DEF EndLater, Waited, MustWait
  <2>6. CallRelies'
    BY <1>13 DEF EndLater, Waited, MustWait
  <2>7. QED
    BY <2>1, <2>2, <2>3, <2>4, <2>5, <2>6
<1>14. CASE EndCopy
  <2>0. /\ room' \in Nat \cup {NoOutput} /\ moved' \in BOOLEAN
        /\ Running => UNCHANGED outVars
    BY <1>14, CopyKeeps DEF EndCopy
  <2>1. Flags'
    BY <1>14, <2>0 DEF EndCopy, LoopCheck, Running
  <2>2. Counters'
    BY <1>14, <2>0 DEF EndCopy, LoopCheck, Running
  <2>3. RunsAlone'
    BY <1>14, <2>0 DEF EndCopy, LoopCheck, Running
  <2>4. CancelInCall' /\ EndIsEnd'
    BY <1>14, <2>0 DEF EndCopy, LoopCheck, Running
  <2>5. CallOf'
    BY <1>14, <2>0 DEF EndCopy, LoopCheck, Running
  <2>6. CallRelies'
    BY <1>14, <2>0 DEF EndCopy, LoopCheck, Running
  <2>7. QED
    BY <2>1, <2>2, <2>3, <2>4, <2>5, <2>6
<1>15. CASE HandOut
  <2>1. Flags'
    BY <1>15 DEF HandOut, Waited, MustWait
  <2>2. Counters'
    BY <1>15 DEF HandOut, Waited, MustWait
  <2>3. RunsAlone'
    BY <1>15 DEF HandOut, Waited, MustWait
  <2>4. CancelInCall' /\ EndIsEnd'
    BY <1>15 DEF HandOut, Waited, MustWait
  <2>5. CallOf'
    BY <1>15 DEF HandOut, Waited, MustWait
  <2>6. CallRelies'
    BY <1>15 DEF HandOut, Waited, MustWait
  <2>7. QED
    BY <2>1, <2>2, <2>3, <2>4, <2>5, <2>6
<1>16. CASE Copy
  <2>0. /\ room' \in Nat \cup {NoOutput} /\ moved' \in BOOLEAN
        /\ Running => UNCHANGED outVars
    BY <1>16, CopyKeeps DEF Copy
  <2>1. Flags'
    BY <1>16, <2>0 DEF Copy, Running
  <2>2. Counters'
    BY <1>16, <2>0 DEF Copy, Running
  <2>3. RunsAlone'
    BY <1>16, <2>0 DEF Copy, Running
  <2>4. CancelInCall' /\ EndIsEnd'
    BY <1>16, <2>0 DEF Copy, Running
  <2>5. CallOf'
    BY <1>16, <2>0 DEF Copy, Running
  <2>6. CallRelies'
    BY <1>16, <2>0 DEF Copy, Running
  <2>7. QED
    BY <2>1, <2>2, <2>3, <2>4, <2>5, <2>6
<1>17. CASE WaitEnds
  <2>1. Flags'
    BY <1>17 DEF WaitEnds, Waited, MustWait
  <2>2. Counters'
    BY <1>17 DEF WaitEnds, Waited, MustWait
  <2>3. RunsAlone'
    BY <1>17 DEF WaitEnds, Waited, MustWait
  <2>4. CancelInCall' /\ EndIsEnd'
    BY <1>17 DEF WaitEnds, Waited, MustWait
  <2>5. CallOf'
    BY <1>17 DEF WaitEnds, Waited, MustWait
  <2>6. CallRelies'
    BY <1>17 DEF WaitEnds, Waited, MustWait
  <2>7. QED
    BY <2>1, <2>2, <2>3, <2>4, <2>5, <2>6
<1>18. CASE CancelBegins
  <2>1. Flags'
    BY <1>18 DEF CancelBegins
  <2>2. Counters'
    BY <1>18 DEF CancelBegins
  <2>3. RunsAlone'
    BY <1>18 DEF CancelBegins
  <2>4. CancelInCall' /\ EndIsEnd'
    BY <1>18 DEF CancelBegins
  <2>5. CallOf'
    BY <1>18 DEF CancelBegins
  <2>6. CallRelies'
    BY <1>18 DEF CancelBegins
  <2>7. QED
    BY <2>1, <2>2, <2>3, <2>4, <2>5, <2>6
<1>19. CASE CancelEnds
  <2>1. Flags'
    BY <1>19 DEF CancelEnds, EndFrame
  <2>2. Counters'
    BY <1>19 DEF CancelEnds, EndFrame
  <2>3. RunsAlone'
    BY <1>19 DEF CancelEnds, EndFrame
  <2>4. CancelInCall' /\ EndIsEnd'
    BY <1>19 DEF CancelEnds, EndFrame
  <2>5. CallOf'
    BY <1>19 DEF CancelEnds, EndFrame
  <2>6. CallRelies'
    BY <1>19 DEF CancelEnds, EndFrame
  <2>7. QED
    BY <2>1, <2>2, <2>3, <2>4, <2>5, <2>6
<1>20. CASE Work
  <2>1. Flags'
    BY <1>20 DEF Work, WorkBuilds, WorkEncodes, WorkPublishes, WorkReturns
  <2>2. Counters'
    BY <1>20 DEF Work, WorkBuilds, WorkEncodes, WorkPublishes, WorkReturns
  <2>3. RunsAlone'
    BY <1>20 DEF Work, WorkBuilds, WorkEncodes, WorkPublishes, WorkReturns
  <2>4. CancelInCall' /\ EndIsEnd'
    BY <1>20 DEF Work, WorkBuilds, WorkEncodes, WorkPublishes, WorkReturns
  <2>5. CallOf'
    BY <1>20 DEF Work, WorkBuilds, WorkEncodes, WorkPublishes, WorkReturns
  <2>6. CallRelies'
    BY <1>20 DEF Work, WorkBuilds, WorkEncodes, WorkPublishes, WorkReturns
  <2>7. QED
    BY <2>1, <2>2, <2>3, <2>4, <2>5, <2>6
<1>21. QED
  BY <1>1, <1>2, <1>3, <1>4, <1>5, <1>6, <1>7, <1>8, <1>9, <1>10, <1>11, <1>12, <1>13, <1>14, <1>15, <1>16, <1>17, <1>18, <1>19, <1>20 DEF InCall

-----------------------------------------------------------------------------
(* How the compressed stream grows.                                        *)
Publishes(b, prop) == Stream' = Stream \o (prop \o Bytes(b, b.end - b.start))

LEMMA InitEmptiesStream == ASSUME CInv, InitCStream PROVE Written' /\ Stream' = <<>>
<1>1. /\ out' = <<>> /\ outThread' = 0 /\ threadCount' = 0 /\ outPos' = 0 /\ jobs' = jobs
  BY DEF InitCStream
<1>2. jobs \in Seq(Seq(Piece)) /\ Len(jobs) \in Nat
  BY LenProperties DEF CInv, Written
<1>3. <<>> \in Seq(Piece)
  OBVIOUS
<1>4. Written'
  BY <1>1, <1>2, <1>3 DEF Written
<1>5. (outThread = threadCount)'
  BY <1>1
<1>6. (Unwritten = <<>>)'
  BY <1>4, <1>5, AllWritten, PTL
<1>7. QED
  BY <1>1, <1>3, <1>4, <1>6, ConcatEmptySeq DEF Stream

LEMMA CallsKeepWritten ==
  ASSUME CInv, UserCalls PROVE Written' /\ (InitCStream \/ Stream' = Stream)
<1> USE DEF CInv, innerVars, outVars, workVars
<1>1. CASE InitCStream
  BY <1>1, InitEmptiesStream
<1>2. CASE InitMissing
  BY <1>2, WrittenStays DEF InitMissing
<1>3. ASSUME NEW t \in Timeouts, SetTimeout(t) PROVE Written' /\ Stream' = Stream
  BY <1>3, WrittenStays DEF SetTimeout
<1>4. ASSUME NEW n \in InputSizes, NEW m \in OutputSizes, CompressStream(n, m)
      PROVE  Written' /\ Stream' = Stream
  BY <1>4, WrittenStays DEF CompressStream
<1>5. ASSUME NEW m \in OutputSizes, FlushStream(m) \/ EndStream(m) \/ CopyCStreamOutput(m)
      PROVE  Written' /\ Stream' = Stream
  BY <1>5, WrittenStays DEF FlushStream, EndStream, CopyCStreamOutput
<1>6. CASE GetDictionaryBuffer
  BY <1>6, WrittenStays DEF GetDictionaryBuffer
<1>7. ASSUME NEW n \in InputSizes, UpdateDictionary(n) PROVE Written' /\ Stream' = Stream
  BY <1>7, WrittenStays DEF UpdateDictionary
<1>8. CASE GetNextCompressedBuffer \/ WaitCStream \/ CancelCStream
  BY <1>8, WrittenStays DEF GetNextCompressedBuffer, WaitCStream, CancelCStream
<1>9. QED
  BY <1>1, <1>2, <1>3, <1>4, <1>5, <1>6, <1>7, <1>8 DEF UserCalls

(* A block compressed in the call is added to the stream, or an encoder    *)
(* failed and nothing is.                                                  *)
LEMMA BlockStepWrites ==
  ASSUME CInv, BlockStep
  PROVE  /\ Written'
         /\ \/ /\ Stream' = Stream
               /\ outThread = threadCount /\ HasUnprocessed => thread \/ asyncRes' = "failed"
            \/ /\ outThread = threadCount /\ HasUnprocessed /\ ~thread /\ asyncRes' = "ok"
               /\ Publishes(Block, PropFor(call = "endStream"))
<1> DEFINE prop == PropFor(call = "endStream")
<1>1. Written /\ DictTypeOK /\ jobs \in Seq(Seq(Piece))
  BY DEF CInv, IInv, Written
<1>2. CASE outThread = threadCount /\ HasUnprocessed
  <2>1. CompressCurBlock(Block, prop) /\ out' = out
    BY <1>2 DEF BlockStep, CompressInternal
  <2>2. BlockOK(Block) /\ prop \in Seq(Piece)
    BY <1>1, <1>2, PropType DEF BlockOK, Block, HasUnprocessed, DictTypeOK
  <2> HIDE DEF prop
  <2>3. outThread' = 0 /\ outPos' = 0
    BY <2>1 DEF CompressCurBlock
  <2>4. CASE (thread \/ asyncRes' = "failed") /\ threadCount' = 0 /\ jobs' = jobs
    BY <1>1, <1>2, <2>1, <2>3, <2>4, NothingPublished
  <2>5. CASE /\ ~thread /\ asyncRes' = "ok"
             /\ jobs' = Slices(Block, prop) /\ threadCount' = Len(jobs')
    BY <1>1, <1>2, <2>1, <2>2, <2>3, <2>5, BlockPublished DEF Publishes, prop
  <2>6. QED
    BY <2>1, <2>4, <2>5 DEF CompressCurBlock
<1>3. CASE ~(outThread = threadCount /\ HasUnprocessed)
  BY <1>1, <1>3, WrittenStays DEF BlockStep, CompressInternal, outVars, workVars
<1>4. QED
  BY <1>2, <1>3

(* The same on compressThread.                                             *)
LEMMA WorkWrites ==
  ASSUME CInv, Work
  PROVE  /\ Written'
         /\ \/ Stream' = Stream /\ (work = "encoding" => asyncRes' # "ok")
            \/ work = "encoding" /\ asyncRes' = "ok" /\ Publishes(curBlock, streamProp)
<1>1. Written /\ DictTypeOK /\ jobs \in Seq(Seq(Piece))
  BY DEF CInv, IInv, Written
<1>2. out' = out /\ outThread' = outThread /\ outPos' = outPos
  BY DEF Work, outVars
<1>3. CASE WorkPublishes /\ asyncRes' = "ok"
  <2>1. /\ work = "encoding" /\ asyncRes' = "ok"
        /\ jobs' = Slices(curBlock, streamProp) /\ threadCount' = Len(jobs')
    BY <1>3 DEF WorkPublishes
  <2>2. /\ outThread = 0 /\ outPos = 0 /\ threadCount = 0
        /\ BlockOK(curBlock) /\ streamProp \in Seq(Piece)
    BY <2>1 DEF CInv, Control, RunsAlone, Counters, BlockOK
  <2>3. QED
    BY <1>1, <1>2, <2>1, <2>2, BlockPublished DEF Publishes
<1>4. CASE WorkPublishes /\ asyncRes' # "ok"
  <2>1. UNCHANGED <<jobs, threadCount>>
    BY <1>4 DEF WorkPublishes
  <2>2. QED
    BY <1>1, <1>2, <1>4, <2>1, WrittenStays
<1>5. CASE WorkBuilds \/ WorkEncodes \/ WorkReturns
  <2>1. UNCHANGED <<jobs, threadCount>> /\ work # "encoding"
    BY <1>5 DEF WorkBuilds, WorkEncodes, WorkReturns
  <2>2. QED
    BY <1>1, <1>2, <2>1, WrittenStays
<1>6. QED
  BY <1>3, <1>4, <1>5 DEF Work

LEMMA EndWrites == ASSUME CInv, EndWritten PROVE Written' /\ Stream' = Stream \o StreamTail
<1>1. Written /\ WriteEnd /\ UNCHANGED <<out, outPos>>
  BY DEF EndWritten, CInv
<1>2. QED
  BY <1>1, TailWritten

LEMMA CopiesKeepStream ==
  ASSUME CInv, CopyIn \/ CopyOut \/ Flush \/ EndCopy \/ Copy
  PROVE  Written' /\ Stream' = Stream
<1>1. CopyIfAny /\ UNCHANGED <<jobs, threadCount>>
  BY DEF CopyIn, CopyOut, Flush, EndCopy, Copy, workVars
<1>2. QED
  BY <1>1, CopyKeeps

LEMMA HandOutKeepsStream == ASSUME CInv, HandOut PROVE Written' /\ Stream' = Stream
<1>1. Written /\ UNCHANGED <<jobs, threadCount>>
  BY DEF HandOut, CInv, workVars
<1>2. CASE outThread < threadCount
  BY <1>1, <1>2, HandOutTakes DEF HandOut
<1>3. CASE ~(outThread < threadCount)
  BY <1>1, <1>3, WrittenStays DEF HandOut, outVars
<1>4. QED
  BY <1>2, <1>3

LEMMA QuietKeepsStream ==
  ASSUME CInv,
         \/ Check \/ StopWaiting \/ Input \/ PutInput \/ Full \/ Grant \/ Report
         \/ EndLater \/ WaitEnds \/ CancelBegins \/ CancelEnds
  PROVE  Written' /\ Stream' = Stream
<1>1. Written /\ UNCHANGED <<out, outThread, outPos, jobs, threadCount>>
  BY DEF CInv, Check, StopWaiting, WaitStops, Input, PutInput, Full, Grant, Report, EndLater,
         WaitEnds, CancelBegins, CancelEnds, innerVars, outVars, workVars
<1>2. QED
  BY <1>1, WrittenStays

(* Only four kinds of step change the stream.                              *)
LEMMA StreamSteps ==
  ASSUME CInv, Next
  PROVE  /\ Written'
         /\ Stream' = Stream \/ InitCStream \/ BlockStep \/ EndWritten \/ Work
<1>1. CASE UserCalls
  BY <1>1, CallsKeepWritten
<1>2. CASE InCall
  BY <1>2, BlockStepWrites, EndWrites, CopiesKeepStream, HandOutKeepsStream, QuietKeepsStream
     DEF InCall
<1>3. CASE Work
  BY <1>3, WorkWrites
<1>4. QED
  BY <1>1, <1>2, <1>3 DEF Next
-----------------------------------------------------------------------------
(* The block in compression is out of the reach of the caller.             *)

LEMMA OutOfReachStays ==
  ASSUME OutOfReach, UNCHANGED <<dictVars, curBlock>>, work' # "idle" => work # "idle",
         granted => granted', pc # "put"
  PROVE  OutOfReach'
<1>1. NeedShift' = NeedShift
  BY DEF NeedShift, KeepsOverlap, MustReset, dictVars
<1>2. QED
  BY <1>1 DEF OutOfReach, dictVars

LEMMA CallsKeepOutOfReach == ASSUME CInv, NoEmptyUpdate, UserCalls PROVE OutOfReach'
<1> USE DEF CInv, innerVars, workVars, blockVars, Begins, Simple
<1>1. CASE InitCStream
  BY <1>1 DEF InitCStream, OutOfReach
<1>2. CASE InitMissing
  BY <1>2, OutOfReachStays DEF InitMissing, userVars
<1>3. ASSUME NEW t \in Timeouts, SetTimeout(t) PROVE OutOfReach'
  BY <1>3, OutOfReachStays DEF SetTimeout, userVars
<1>4. ASSUME NEW n \in InputSizes, NEW m \in OutputSizes, CompressStream(n, m) PROVE OutOfReach'
  BY <1>4, OutOfReachStays DEF CompressStream, userVars
<1>5. ASSUME NEW m \in OutputSizes, FlushStream(m) \/ EndStream(m) \/ CopyCStreamOutput(m)
      PROVE  OutOfReach'
  BY <1>5, OutOfReachStays DEF FlushStream, EndStream, CopyCStreamOutput, userVars
<1>6. CASE GetDictionaryBuffer
  BY <1>6, OutOfReachStays DEF GetDictionaryBuffer, userVars
<1>7. ASSUME NEW n \in InputSizes, UpdateDictionary(n) PROVE OutOfReach'
  <2>1. n \in Nat /\ (n = 0 => Overlap # 0)
    BY CallAssumption DEF NoEmptyUpdate
  <2>2. /\ UNCHANGED <<async, index, start, total, curBlock, work>>
        /\ end' = end + n
    BY <1>7 DEF UpdateDictionary, Put
  <2>3. start \in Nat /\ end \in Nat /\ start <= end
    BY DEF IInv, DictTypeOK
  <2>4. CASE n = 0
    <3>1. end' = end
      BY <2>2, <2>3, <2>4
    <3>2. NeedShift' = NeedShift
      BY <2>2, <3>1 DEF NeedShift, KeepsOverlap, MustReset
    <3>3. QED
      BY <2>1, <2>2, <2>4, <3>1, <3>2 DEF OutOfReach
  <2>5. CASE n > 0
    <3> DEFINE s == start'
               e == end'
    <3>1. s # e
      BY <2>1, <2>2, <2>3, <2>5
    <3> HIDE DEF s, e
    <3>2. ~NeedShift'
      BY <3>1 DEF NeedShift, s, e
    <3>3. QED
      BY <2>2, <3>2 DEF OutOfReach
  <2>6. QED
    BY <2>1, <2>4, <2>5
<1>8. CASE GetNextCompressedBuffer \/ WaitCStream \/ CancelCStream
  BY <1>8, OutOfReachStays DEF GetNextCompressedBuffer, WaitCStream, CancelCStream, userVars
<1>9. QED
  BY <1>1, <1>2, <1>3, <1>4, <1>5, <1>6, <1>7, <1>8 DEF UserCalls

LEMMA ShiftKeepsOutOfReach ==
  ASSUME CInv, NoEmptyUpdate, Shift, UNCHANGED <<work, curBlock>>, ~async /\ NeedShift => work = "idle",
         pc # "put", ~granted, granted' \/ pc' = "put"
  PROVE  OutOfReach'
<1>1. DictTypeOK /\ OutOfReach /\ curBlock.buffer \in 0 .. 1
  BY DEF CInv, IInv, Counters
<1> SUFFICES ASSUME work # "idle" PROVE OutOfReach'
  BY DEF OutOfReach
<1>2. /\ curBlock.end <= Size
      /\ index = curBlock.buffer => curBlock.end <= start
      /\ index # curBlock.buffer => async /\ ~NeedShift
  BY <1>1 DEF OutOfReach
<1>3. CASE ~NeedShift /\ UNCHANGED dictVars
  <2>1. ~NeedShift'
    BY <1>3 DEF dictVars, NeedShift, KeepsOverlap, MustReset
  <2>2. QED
    BY <1>2, <1>3, <2>1 DEF OutOfReach, dictVars
<1>4. CASE /\ NeedShift /\ index' = Other(index) /\ async' = async
           /\ ~NeedShift' \/ (Overlap = 0 /\ end' = 0)
  <2>1. async /\ index = curBlock.buffer
    BY <1>1, <1>2, <1>4 DEF DictTypeOK
  <2>2. index' # curBlock.buffer
    BY <1>1, <1>4, <2>1 DEF Other, DictTypeOK
  <2>3. end' = 0 => AvailSpace' > 0
    BY DEF AvailSpace
  <2>4. QED
    BY <1>2, <1>4, <2>1, <2>2, <2>3 DEF OutOfReach
<1>5. QED
  BY <1>3, <1>4, ShiftOnce DEF CInv

LEMMA InternalsKeepOutOfReach == ASSUME CInv, NoEmptyUpdate, InCall \/ Work PROVE OutOfReach'
<1> USE DEF CInv, innerVars, workVars, blockVars, userVars
<1>1. CASE CopyIn \/ Check \/ Full \/ CopyOut \/ Report \/ Flush \/ EndCopy
  BY <1>1, OutOfReachStays DEF CopyIn, Check, Full, CopyOut, Report, Flush, EndCopy
<1>2. CASE HandOut \/ Copy \/ WaitEnds \/ CancelBegins
  BY <1>2, OutOfReachStays DEF HandOut, Copy, WaitEnds, CancelBegins
<1>3. CASE EndWritten \/ CancelEnds
  BY <1>3 DEF EndWritten, CancelEnds, Waited, MustWait, OutOfReach
<1>4. CASE EndLater \/ StopWaiting
  BY <1>4, OutOfReachStays DEF EndLater, StopWaiting, WaitStops, MustWait
<1>5. CASE Work
  <2>1. work # "idle" /\ UNCHANGED <<dictVars, curBlock, granted, pc>>
    BY <1>5 DEF Work, WorkBuilds, WorkEncodes, WorkPublishes, WorkReturns
  <2>2. NeedShift' = NeedShift /\ AvailSpace' = AvailSpace
    BY <2>1 DEF NeedShift, KeepsOverlap, MustReset, AvailSpace, dictVars
  <2>3. QED
    BY <2>1, <2>2 DEF OutOfReach, dictVars
<1>6. CASE Input
  <2>1. Shift \/ (~NeedShift /\ UNCHANGED dictVars)
    BY <1>6 DEF Input
  <2>2. CASE Shift
    BY <1>6, <2>2, ShiftKeepsOutOfReach
       DEF Input, Waited, MustWait, Control, CallOf, CallRelies, TakesInput
  <2>3. CASE ~NeedShift /\ UNCHANGED dictVars
    BY <1>6, <2>3, OutOfReachStays DEF Input
  <2>4. QED
    BY <2>1, <2>2, <2>3
<1>7. CASE Grant
  BY <1>7, ShiftKeepsOutOfReach
     DEF Grant, Waited, MustWait, Control, CallOf, CallRelies, TakesInput
<1>8. CASE BlockStep
  <2>1. work = "idle"
    BY <1>8 DEF BlockStep, Waited, MustWait
  <2>2. CASE outThread = threadCount /\ HasUnprocessed
    <3>1. curBlock' = Block /\ start' = end /\ UNCHANGED <<index, end, async>>
      BY <1>8, <2>2 DEF BlockStep, CompressInternal, GetBlock
    <3>2. QED
      BY <3>1 DEF OutOfReach, Block, IInv, DictTypeOK
  <2>3. CASE ~(outThread = threadCount /\ HasUnprocessed)
    BY <1>8, <2>1, <2>3 DEF BlockStep, CompressInternal, OutOfReach
  <2>4. QED
    BY <2>2, <2>3
<1>9. CASE PutInput
  <2>1. pc = "put" /\ UNCHANGED <<work, curBlock, granted>> /\ ~granted
    BY <1>9 DEF PutInput, Control, CallOf, CallRelies, TakesInput
  <2> SUFFICES ASSUME work # "idle" PROVE OutOfReach'
    BY <2>1 DEF OutOfReach
  <2>2. AsyncResult = "ok"
    BY DEF AsyncResult, Running, Control, RunsAlone
  <2> DEFINE n == Min({moreIn, AvailSpace})
  <2>3. n \in Nat /\ (AvailSpace > 0 => n > 0)
    BY <2>1, PutSome
  <2>4. Put(n)
    BY <1>9, <2>2 DEF PutInput
  <2> HIDE DEF n
  <2>5. end' = end + n /\ UNCHANGED <<async, index, start, total>>
    BY <2>4 DEF Put
  <2>6. start \in Nat /\ end \in Nat /\ start <= end
    BY DEF IInv, DictTypeOK
  <2>7. CASE n > 0
    <3> DEFINE s == start'
               e == end'
    <3>1. s # e
      BY <2>3, <2>5, <2>6, <2>7
    <3> HIDE DEF s, e
    <3>2. ~NeedShift'
      BY <3>1 DEF NeedShift, s, e
    <3>3. QED
      BY <2>1, <2>5, <3>2 DEF OutOfReach
  <2>8. CASE n = 0
    <3>1. end' = end
      BY <2>5, <2>6, <2>8
    <3>2. NeedShift' = NeedShift
      BY <2>5, <3>1 DEF NeedShift, KeepsOverlap, MustReset
    <3>3. QED
      BY <2>1, <2>3, <2>5, <2>8, <3>2 DEF OutOfReach
  <2>9. QED
    BY <2>3, <2>7, <2>8
<1>10. QED
  BY <1>1, <1>2, <1>3, <1>4, <1>5, <1>6, <1>7, <1>8, <1>9 DEF InCall
-----------------------------------------------------------------------------
(* The invariant.                                                          *)

LEMMA InitCInv == ASSUME Init PROVE CInv
<1>1. IInv
  BY InitIInv DEF Init
<1>2. async \in BOOLEAN
  BY <1>1 DEF IInv, DictTypeOK
<1>3. Block = [buffer |-> 0, start |-> 0, end |-> 0]
  BY DEF Init, DictInit, Block
<1>4. Flags /\ Counters
  <2>1. Flags
    BY <1>2, Zenon DEF Init, Flags
  <2>2. Counters
    BY <1>3 DEF Init, Counters, NoOutput, PC, Results
  <2>3. QED
    BY <2>1, <2>2
<1>5. Written
  BY DEF Init, Written
<1>6. Control
  BY DEF Init, DictInit, Control, RunsAlone, CancelInCall, EndIsEnd, CallOf, CallRelies, TakesInput
<1>7. OutOfReach
  BY DEF Init, OutOfReach
<1>8. QED
  BY <1>1, <1>4, <1>5, <1>6, <1>7 DEF CInv

LEMMA NextKeepsCInv == ASSUME CInv, Next PROVE CInv'
<1>1. IInv'
  BY StepBuffer, DictStepKeepsIInv DEF CInv
<1>2. State'
  BY CallsKeepState, InternalsKeepState DEF Next
<1>3. Written'
  BY StreamSteps
<1>4. NoEmptyUpdate => OutOfReach'
  BY CallsKeepOutOfReach, InternalsKeepOutOfReach DEF Next
<1>5. QED
  BY <1>1, <1>2, <1>3, <1>4 DEF CInv, State, NoEmptyUpdate

LEMMA StutterKeepsCInv == ASSUME CInv, UNCHANGED vars PROVE CInv'
<1>1. UNCHANGED dictVars
  BY DEF vars, innerVars
<1>2. IInv'
  BY <1>1, DictStepKeepsIInv DEF CInv, DictStep
<1>3. State'
  BY DEF CInv, State, Flags, Counters, Control, RunsAlone, CancelInCall, EndIsEnd, CallOf,
         CallRelies, TakesInput, vars, innerVars, dictVars, workVars, blockVars, outVars,
         frameVars, callVars, userVars
<1>4. Written'
  BY WrittenStays DEF CInv, vars, innerVars, workVars, outVars
<1>5. OutOfReach => OutOfReach'
  BY DEF OutOfReach, NeedShift, KeepsOverlap, MustReset, AvailSpace, vars, innerVars,
         dictVars, workVars, blockVars, userVars
<1>6. QED
  BY <1>2, <1>3, <1>4, <1>5 DEF CInv, State, NoEmptyUpdate

LEMMA CInvariance == Spec => []CInv
<1>1. Init => CInv
  BY InitCInv
<1>2. CInv /\ [Next]_vars => CInv'
  BY NextKeepsCInv, StutterKeepsCInv
<1>3. QED
  BY <1>1, <1>2, PTL DEF Spec
-----------------------------------------------------------------------------
(* What follows from it.                                                   *)

LEMMA ReadersWait == ASSUME CInv, Next, work # "idle" PROVE UNCHANGED outVars
<1> USE DEF innerVars
<1>1. asyncPending /\ Running
  BY DEF CInv, Control, RunsAlone, Running
<1>2. CASE UserCalls
  BY <1>2 DEF UserCalls, InitCStream, InitMissing, SetTimeout, CompressStream, FlushStream,
              EndStream, CopyCStreamOutput, GetDictionaryBuffer, UpdateDictionary,
              GetNextCompressedBuffer, WaitCStream, CancelCStream
<1>3. CASE CopyIn \/ CopyOut \/ Flush \/ EndCopy \/ Copy
  BY <1>1, <1>3 DEF CopyIn, CopyOut, Flush, EndCopy, Copy, CopyIfAny, HasOutput
<1>4. CASE BlockStep \/ EndWritten \/ HandOut
  BY <1>4 DEF BlockStep, EndWritten, HandOut, Waited, MustWait
<1>5. CASE Check \/ StopWaiting \/ Input \/ PutInput \/ Full \/ Grant \/ Report
  BY <1>5 DEF Check, StopWaiting, WaitStops, Input, PutInput, Full, Grant, Report
<1>6. CASE EndLater \/ WaitEnds \/ CancelBegins \/ CancelEnds \/ Work
  BY <1>6 DEF EndLater, WaitEnds, CancelBegins, CancelEnds, Work
<1>7. QED
  BY <1>2, <1>3, <1>4, <1>5, <1>6 DEF Next, InCall

(* What the compression writes is read only after it has ended, whatever   *)
(* the calls and the space they give: UF2_hasOutput asks the pool first.   *)
THEOREM ReadsPublished == Spec => ReadsOnlyPublished
<1>1. CInv /\ [Next]_vars => (work # "idle" => UNCHANGED <<out, outThread, outPos>>)
  BY ReadersWait DEF vars, innerVars, outVars
<1>2. QED
  <2>1. CInv /\ [Next]_vars => [work # "idle" => UNCHANGED <<out, outThread, outPos>>]_vars
    BY <1>1
  <2>2. QED
    BY <2>1, CInvariance, PTL DEF Spec, ReadsOnlyPublished

(* A call that changes the buffers while a block is compressed changes     *)
(* other bytes than those of the block.                                    *)
LEMMA WindowStays ==
  ASSUME CInv, NoEmptyUpdate, Next, work # "idle", work' # "idle"
  PROVE  /\ UNCHANGED curBlock
         /\ \A i \in 0 .. curBlock.end - 1 : data'[curBlock.buffer][i] = data[curBlock.buffer][i]
<1> USE DEF innerVars
<1>1. /\ DictTypeOK /\ curBlock \in [buffer : 0 .. 1, start : Nat, end : Nat]
      /\ OutOfReach /\ asyncPending
  BY DEF CInv, IInv, Counters, Control, RunsAlone
<1>2. /\ curBlock.end <= Size
      /\ index = curBlock.buffer => curBlock.end <= start
      /\ index # curBlock.buffer => async /\ (~NeedShift \/ granted \/ pc = "put")
  BY <1>1 DEF OutOfReach
<1> DEFINE Same == \A i \in 0 .. curBlock.end - 1 :
                     data'[curBlock.buffer][i] = data[curBlock.buffer][i]
<1>3. ASSUME NEW n \in Nat, Put(n) PROVE Same
  <2>1. data' = [data EXCEPT ![index] =
                  [i \in 0 .. Size - 1 |->
                     IF end <= i /\ i < end + n THEN taken + (i - end) ELSE data[index][i]]]
    BY <1>1, <1>3 DEF Put, DictTypeOK
  <2>2. CASE index # curBlock.buffer
    BY <1>1, <2>1, <2>2 DEF DictTypeOK
  <2>3. CASE index = curBlock.buffer
    <3> SUFFICES ASSUME NEW i \in 0 .. curBlock.end - 1
                 PROVE  data'[curBlock.buffer][i] = data[curBlock.buffer][i]
      OBVIOUS
    <3>1. i \in 0 .. Size - 1 /\ ~(end <= i)
      BY <1>1, <1>2, <2>3 DEF DictTypeOK
    <3>2. data'[index][i] = data[index][i]
      BY <1>1, <2>1, <3>1 DEF DictTypeOK
    <3>3. QED
      BY <2>3, <3>2
  <2>4. QED
    BY <2>2, <2>3
<1>4. ASSUME Shift, ~async => ~NeedShift, ~granted, pc # "put" PROVE Same
  <2>1. CASE data' = data
    BY <2>1
  <2>2. CASE KeepHistory /\ ~(start < end)
    <3>1. NeedShift
      BY <1>1, <2>2 DEF KeepHistory, NeedShift, DictTypeOK
    <3>2. async /\ index = curBlock.buffer
      BY <1>2, <1>4, <3>1
    <3>3. curBlock.buffer # 1 - index
      BY <1>1, <3>2 DEF DictTypeOK
    <3>4. data'[curBlock.buffer] = data[curBlock.buffer]
      BY <1>1, <2>2, <3>2, <3>3 DEF KeepHistory, Other, DictTypeOK
    <3>5. QED
      BY <3>4
  <2>3. QED
    BY <1>4, <2>1, <2>2 DEF Shift, DropHistory, dictVars
<1>5. CASE UserCalls
  <2>1. CASE InitCStream
    BY <2>1 DEF InitCStream
  <2>2. ASSUME NEW n \in InputSizes, UpdateDictionary(n) PROVE Same /\ UNCHANGED curBlock
    <3>1. n \in Nat /\ Put(n) /\ UNCHANGED curBlock
      BY <2>2, CallAssumption DEF UpdateDictionary, blockVars
    <3>2. QED
      BY <1>3, <3>1
  <2>3. QED
    BY <1>5, <2>1, <2>2
       DEF UserCalls, InitMissing, SetTimeout, CompressStream, FlushStream,
           EndStream, CopyCStreamOutput, GetDictionaryBuffer, GetNextCompressedBuffer,
           WaitCStream, CancelCStream, blockVars, dictVars
<1>6. CASE Input \/ Grant
  <2>1. UNCHANGED curBlock /\ (Shift \/ data' = data)
    BY <1>6 DEF Input, Grant, blockVars, dictVars
  <2>2. pc # "put" /\ ~granted /\ (~async => ~NeedShift)
    BY <1>6 DEF Input, Grant, Waited, MustWait, CInv, Control, CallOf, CallRelies, TakesInput
  <2>3. QED
    BY <1>4, <2>1, <2>2
<1>7. CASE PutInput
  <2>1. pc = "put" /\ UNCHANGED curBlock
    BY <1>7 DEF PutInput, blockVars
  <2>2. data' = data \/ Put(Min({moreIn, AvailSpace}))
    BY <1>7 DEF PutInput, dictVars
  <2>3. Min({moreIn, AvailSpace}) \in Nat
    BY <2>1, PutSome
  <2>4. QED
    BY <1>3, <2>1, <2>2, <2>3
<1>8. CASE BlockStep \/ EndWritten \/ CancelEnds
  BY <1>8 DEF BlockStep, EndWritten, CancelEnds, Waited, MustWait
<1>9. CASE Work \/ CopyIn \/ Check \/ Full \/ CopyOut \/ Report \/ Flush \/ EndCopy
  BY <1>9 DEF Work, CopyIn, Check, Full, CopyOut, Report, Flush, EndCopy, blockVars, dictVars
<1>10. CASE HandOut \/ Copy \/ WaitEnds \/ CancelBegins \/ EndLater \/ StopWaiting
  BY <1>10 DEF HandOut, Copy, WaitEnds, CancelBegins, EndLater, StopWaiting, WaitStops,
               blockVars, dictVars
<1>11. QED
  BY <1>5, <1>6, <1>7, <1>8, <1>9, <1>10 DEF Next, InCall

(* The caller fills the dictionary buffers while a block in them is        *)
(* compressed, and no byte that the encoders read is changed under them.   *)
THEOREM StableBlock == NoEmptyUpdate => (Spec => BlockIsStable)
<1> DEFINE Stays ==
             work # "idle" /\ work' # "idle" =>
               /\ UNCHANGED curBlock
               /\ \A i \in 0 .. curBlock.end - 1 :
                    data'[curBlock.buffer][i] = data[curBlock.buffer][i]
<1>1. CInv /\ NoEmptyUpdate /\ Next => Stays
  BY WindowStays
<1>2. UNCHANGED vars => Stays
  BY DEF vars, innerVars, blockVars, dictVars
<1>3. CInv /\ NoEmptyUpdate /\ [Next]_vars => [Stays]_vars
  BY <1>1, <1>2
<1>4. NoEmptyUpdate => NoEmptyUpdate'
  BY DEF NoEmptyUpdate
<1>5. QED
  BY <1>3, <1>4, CInvariance, PTL DEF Spec, BlockIsStable

(* When a cancel has returned nothing runs, and no cancel is left over for *)
(* the next compression: UF2_cancelCStream waits before it clears the flag.*)
THEOREM CancelIsOver == Spec => []CancelLeavesQuiet
<1>1. CInv => CancelLeavesQuiet
  BY DEF CInv, Control, RunsAlone, CancelInCall, CancelLeavesQuiet
<1>2. QED
  BY <1>1, CInvariance, PTL
-----------------------------------------------------------------------------
(* The end of a stream.                                                    *)

LEMMA CallsKeepEnding == ASSUME CInv, EndingLater, UserCalls PROVE EndingLater'
<1> USE DEF EndingLater, Begins, Simple, Return
<1>1. CASE InitCStream
  BY <1>1 DEF InitCStream
<1>2. CASE InitMissing
  BY <1>2 DEF InitMissing
<1>3. ASSUME NEW t \in Timeouts, SetTimeout(t) PROVE EndingLater'
  BY <1>3 DEF SetTimeout
<1>4. ASSUME NEW n \in InputSizes, NEW m \in OutputSizes, CompressStream(n, m)
      PROVE  EndingLater'
  BY <1>4 DEF CompressStream
<1>5. ASSUME NEW m \in OutputSizes, FlushStream(m) \/ EndStream(m) \/ CopyCStreamOutput(m)
      PROVE  EndingLater'
  BY <1>5 DEF FlushStream, EndStream, CopyCStreamOutput
<1>6. CASE GetDictionaryBuffer
  BY <1>6 DEF GetDictionaryBuffer
<1>7. ASSUME NEW n \in InputSizes, UpdateDictionary(n) PROVE EndingLater'
  BY <1>7 DEF UpdateDictionary
<1>8. CASE GetNextCompressedBuffer \/ WaitCStream \/ CancelCStream
  BY <1>8 DEF GetNextCompressedBuffer, WaitCStream, CancelCStream
<1>9. QED
  BY <1>1, <1>2, <1>3, <1>4, <1>5, <1>6, <1>7, <1>8 DEF UserCalls

LEMMA InternalsKeepEnding == ASSUME CInv, EndingLater, InCall \/ Work PROVE EndingLater'
<1> USE DEF EndingLater, Return, innerVars, callVars
<1>1. /\ CallOf /\ (endMarked => ~lockParams)
      /\ work # "idle" => lockParams /\ asyncPending
      /\ outThread \in Nat /\ threadCount \in Nat /\ outThread <= threadCount
  BY DEF CInv, Control, RunsAlone, EndIsEnd, Written
<1>2. CASE CopyIn \/ Full \/ Grant \/ Report \/ CopyOut \/ Input \/ CancelBegins \/ Flush
  BY <1>1, <1>2
     DEF CopyIn, Full, Grant, Report, CopyOut, LoopCheck, Input, CancelBegins, Flush, CallOf
<1>3. CASE Check \/ PutInput
  BY <1>1, <1>3 DEF Check, PutInput, AsyncResult, CallOf, CInv, Counters, Results
<1>4. CASE StopWaiting
  <2>1. call' = call /\ pc' = "idle" /\ (ret' = "timedOut" \/ (ret' = asyncRes /\ asyncRes # "ok"))
    BY <1>4 DEF StopWaiting, WaitStops
  <2>2. ret' # "done"
    BY <2>1 DEF CInv, Counters, Results
  <2>3. QED
    BY <2>1, <2>2
<1>5. CASE BlockStep
  <2>1. work = "idle" /\ asyncRes = "ok" /\ call' = call
    BY <1>5 DEF BlockStep, Waited, MustWait
  <2>2. CASE outThread = threadCount /\ HasUnprocessed
    <3>1. ~HasUnprocessed'
      <4>1. start' = end /\ end' = end /\ end \in Nat
        BY <1>5, <2>2
           DEF BlockStep, CompressInternal, GetBlock, CInv, IInv, DictTypeOK
      <4>2. ~(end < end)
        BY <4>1
      <4>3. QED
        BY <4>1, <4>2 DEF HasUnprocessed
    <3>2. asyncRes' \in {"ok", "failed"}
      BY <1>5, <2>1, <2>2 DEF BlockStep, CompressInternal, CompressCurBlock
    <3>3. pc' # "endCopy" /\ (pc' = "idle" => ret' # "done")
      BY <1>1, <1>5, <3>2 DEF BlockStep, CallOf
    <3>4. QED
      BY <3>1, <3>3
  <2>3. CASE ~(outThread = threadCount /\ HasUnprocessed)
    <3>1. UNCHANGED <<dictVars, workVars, outVars>>
      BY <1>5, <2>3 DEF BlockStep, CompressInternal
    <3>2. /\ HasUnprocessed' = HasUnprocessed /\ work' = "idle" /\ asyncRes' = "ok"
          /\ outThread' = outThread /\ threadCount' = threadCount
      BY <2>1, <3>1 DEF HasUnprocessed, dictVars, workVars, outVars
    <3>3. pc' # "endCopy" /\ pc' # "idle"
      BY <1>1, <1>5, <2>1, <3>2 DEF BlockStep, CallOf
    <3>4. HasUnprocessed => outThread < threadCount
      BY <1>1, <2>3
    <3>5. QED
      BY <3>2, <3>3, <3>4
  <2>4. QED
    BY <2>2, <2>3
<1>6. CASE EndWritten
  BY <1>6 DEF EndWritten, WriteEnd
<1>7. CASE EndLater
  BY <1>7 DEF EndLater, HasUnprocessed, dictVars, outVars, workVars, frameVars
<1>8. CASE EndCopy
  <2>1. endMarked \/ (HasUnprocessed /\ outThread < threadCount)
    BY <1>8 DEF EndCopy
  <2>2. /\ CopyIfAny /\ UNCHANGED <<jobs, threadCount, endMarked>>
        /\ pc' \in {"cancel", "idle"}
        /\ ret' = IF outThread' < threadCount
                     \/ (room # NoOutput /\ outThread < threadCount /\ HasUnprocessed)
                  THEN "more" ELSE "done"
    BY <1>8 DEF EndCopy, LoopCheck, workVars
  <2>3. Written' /\ (room = NoOutput => outThread' = outThread)
    BY <2>2, CopyKeeps DEF CopyIfAny, outVars
  <2>4. outThread' \in Nat /\ outThread' <= threadCount
    BY <2>2, <2>3 DEF Written
  <2>5. ret' = "done" => endMarked' /\ outThread' = threadCount'
    BY <1>1, <2>1, <2>2, <2>3, <2>4
  <2>6. QED
    BY <2>2, <2>5
<1>9. CASE HandOut \/ Copy \/ WaitEnds
  BY <1>1, <1>9 DEF HandOut, Copy, WaitEnds, CallOf
<1>10. CASE CancelEnds
  BY <1>10 DEF CancelEnds
<1>11. CASE Work
  <2>1. /\ work # "idle" /\ UNCHANGED <<pc, call, ret, endMarked, start, end, outThread>>
    BY <1>11 DEF Work, WorkBuilds, WorkEncodes, WorkPublishes, WorkReturns, dictVars, outVars,
                 frameVars
  <2>2. ~endMarked
    BY <1>1, <2>1
  <2>3. pc # "endCopy" /\ (pc = "end" => ~HasUnprocessed)
    BY <1>1, <2>1, <2>2 DEF CInv, Control, CallRelies
  <2>4. HasUnprocessed' = HasUnprocessed
    BY <2>1 DEF HasUnprocessed
  <2>5. QED
    BY <2>1, <2>2, <2>3, <2>4
<1>12. QED
  BY <1>2, <1>3, <1>4, <1>5, <1>6, <1>7, <1>8, <1>9, <1>10, <1>11 DEF InCall

LEMMA EndingInvariance == Spec => []EndingLater
<1>1. Init => EndingLater
  BY DEF Init, EndingLater
<1>2. CInv /\ EndingLater /\ Next => EndingLater'
  BY CallsKeepEnding, InternalsKeepEnding DEF Next
<1>3. EndingLater /\ UNCHANGED vars => EndingLater'
  BY DEF EndingLater, HasUnprocessed, vars, innerVars, dictVars, workVars, outVars, frameVars,
         callVars
<1>4. CInv /\ EndingLater /\ [Next]_vars => EndingLater'
  BY <1>2, <1>3
<1>5. QED
  BY <1>1, <1>4, CInvariance, PTL DEF Spec

(* UF2_endStream returns 0 only when the end marker is in the stream and   *)
(* the caller has all of it, in whatever pieces it asked for it.           *)
THEOREM EndIsComplete == Spec => []EndMeansComplete
<1>1. CInv /\ EndingLater => EndMeansComplete
  <2> SUFFICES ASSUME CInv, EndingLater, pc = "idle", call = "endStream", ret = "done"
               PROVE  endMarked /\ Unwritten = <<>> /\ work = "idle"
    BY DEF EndMeansComplete
  <2>1. endMarked /\ outThread = threadCount
    BY DEF EndingLater
  <2>2. Unwritten = <<>>
    BY <2>1, AllWritten DEF CInv
  <2>3. work = "idle"
    BY <2>1 DEF CInv, Control, EndIsEnd, RunsAlone
  <2>4. QED
    BY <2>1, <2>2, <2>3
<1>2. QED
  BY <1>1, CInvariance, EndingInvariance, PTL

-----------------------------------------------------------------------------
(* The property byte, the bytes of the stream, and perhaps the end marker. *)
PieceAt(s, marked, i) ==
  IF i = 1 THEN Prop(s[1].dict) ELSE IF marked /\ i = Len(s) THEN EndMark ELSE LzAt(i - 2)

Framed(s, marked) ==
  /\ \A i \in 1 .. Len(s) : s[i] = PieceAt(s, marked, i)
  /\ marked => Len(s) >= 2

Got(s, marked) == IF Len(s) = 0 THEN 0 ELSE Len(s) - 1 - (IF marked THEN 1 ELSE 0)

LEMMA KindsDiffer ==
  /\ \A d : Prop(d).kind = "prop" /\ Prop(d).dict = d
  /\ \A n : LzAt(n).kind = "lz"
  /\ EndMark.kind = "end"
  BY DEF Prop, LzAt, EndMark

(* A framed stream is in order and complete up to its length.              *)
LEMMA FramedInOrder ==
  ASSUME NEW s \in Seq(Piece), NEW marked \in BOOLEAN, Framed(s, marked)
  PROVE  /\ InOrder(s) /\ Covered(s) = Got(s, marked)
         /\ \A i \in 1 .. Len(s) :
              (s[i].kind = "prop") = (i = 1) /\ (s[i].kind = "end" => i = Len(s))
         /\ marked => s # <<>> /\ Last(s) = EndMark
<1>1. Len(s) \in Nat /\ (Len(s) = 0 <=> s = <<>>)
  BY EmptySeq, LenProperties
<1>2. \A i \in 1 .. Len(s) :
        /\ i = 1 => s[i].kind = "prop"
        /\ i # 1 /\ marked /\ i = Len(s) => s[i] = EndMark /\ s[i].kind = "end"
        /\ i # 1 /\ ~(marked /\ i = Len(s)) => s[i] = LzAt(i - 2) /\ s[i].kind = "lz"
  BY KindsDiffer DEF Framed, PieceAt
<1>3. \A i \in 1 .. Len(s) :
        (s[i].kind = "prop") = (i = 1) /\ (s[i].kind = "end" => i = Len(s))
  BY <1>2
<1>4. CASE s = <<>>
  <2>1. Pieces(s) = <<>>
    BY <1>4 DEF Pieces
  <2>2. QED
    BY <1>1, <1>3, <1>4, <2>1 DEF InOrder, Covered, Got, Framed
<1>5. CASE s # <<>>
  <2> DEFINE n == Got(s, marked)
             p == Pieces(s)
  <2>1. Len(s) \in Nat \ {0} /\ (marked => Len(s) >= 2)
    BY <1>1, <1>5 DEF Framed
  <2>2. n = Len(s) - 1 - (IF marked THEN 1 ELSE 0) /\ n \in Nat
    BY <2>1 DEF Got
  <2>3. Last(s) = s[Len(s)]
    BY DEF Last
  <2>4. s[1].kind = "prop"
    BY <1>2, <2>1
  <2>5. Last(s).kind = "end" <=> marked
    BY <1>2, <2>1, <2>3
  <2>6. p = SubSeq(s, 2, n + 1)
    <3>1. p = SubSeq(s, 2, IF marked THEN Len(s) - 1 ELSE Len(s))
      BY <1>5, <2>4, <2>5 DEF Pieces
    <3>2. (IF marked THEN Len(s) - 1 ELSE Len(s)) = n + 1
      BY <2>1, <2>2
    <3>3. QED
      BY <3>1, <3>2
  <2> HIDE DEF n, p
  <2>7. Len(p) = n /\ \A i \in 1 .. n : p[i] = s[i + 1]
    <3>1. n \in Nat /\ 2 \in 1 .. Len(s) + 1 /\ n + 1 \in 2 - 1 .. Len(s)
      BY <2>1, <2>2
    <3>2. /\ Len(SubSeq(s, 2, n + 1)) = (n + 1) - 2 + 1
          /\ \A i \in 1 .. (n + 1) - 2 + 1 : SubSeq(s, 2, n + 1)[i] = s[2 + i - 1]
      BY <3>1, SubSeqProperties
    <3>3. (n + 1) - 2 + 1 = n /\ \A i \in 1 .. n : 2 + i - 1 = i + 1
      BY <3>1
    <3>4. QED
      BY <2>6, <3>2, <3>3
  <2>8. \A i \in 1 .. n : p[i] = [kind |-> "lz", at |-> i - 1]
    <3> SUFFICES ASSUME NEW i \in 1 .. n PROVE p[i] = [kind |-> "lz", at |-> i - 1]
      OBVIOUS
    <3>1. i + 1 \in 1 .. Len(s) /\ i + 1 # 1 /\ ~(marked /\ i + 1 = Len(s)) /\ (i + 1) - 2 = i - 1
      BY <2>1, <2>2
    <3>2. s[i + 1] = LzAt(i - 1)
      BY <1>2, <3>1
    <3>3. QED
      BY <2>7, <3>2 DEF LzAt
  <2>9. InOrder(s) /\ Covered(s) = n
    BY <2>7, <2>8 DEF InOrder, Covered, p
  <2>10. marked => Last(s) = EndMark
    BY <1>2, <2>1, <2>3
  <2>11. QED
    BY <1>3, <1>5, <2>9, <2>10 DEF n
<1>6. QED
  BY <1>4, <1>5

LEMMA FramedProp ==
  ASSUME NEW d \in Int
  PROVE  <<Prop(d)>> \in Seq(Piece) /\ Framed(<<Prop(d)>>, FALSE) /\ Got(<<Prop(d)>>, FALSE) = 0
<1>1. Prop(d) \in Piece /\ Prop(d).dict = d
  BY DEF Prop, Piece
<1> DEFINE x == Prop(d)
<1>2. x \in Piece /\ x = Prop(x.dict)
  BY <1>1
<1> HIDE DEF x
<1>3. <<x>> \in Seq(Piece) /\ Len(<<x>>) = 1 /\ <<x>>[1] = x
  BY <1>2
<1>4. Framed(<<x>>, FALSE) /\ Got(<<x>>, FALSE) = 0
  BY <1>2, <1>3 DEF Framed, PieceAt, Got
<1>5. QED
  BY <1>3, <1>4 DEF x

(* More bytes after a header that is there.                                *)
LEMMA FramedMore ==
  ASSUME NEW s \in Seq(Piece), Framed(s, FALSE), s # <<>>, NEW w \in Seq(Piece),
         \A i \in 1 .. Len(w) : w[i] = LzAt(Got(s, FALSE) + i - 1)
  PROVE  /\ s \o w \in Seq(Piece) /\ Framed(s \o w, FALSE) /\ s \o w # <<>>
         /\ Got(s \o w, FALSE) = Got(s, FALSE) + Len(w)
         /\ (s \o w)[1] = s[1]
<1> DEFINE m == Len(s)
           k == Len(w)
           v == s \o w
<1>1. m \in Nat \ {0} /\ k \in Nat
  BY EmptySeq, LenProperties
<1>2. /\ v \in Seq(Piece) /\ Len(v) = m + k
      /\ \A i \in 1 .. m + k : v[i] = IF i <= m THEN s[i] ELSE w[i - m]
  BY ConcatProperties, Zenon
<1>3. /\ \A i \in 1 .. m : s[i] = IF i = 1 THEN Prop(s[1].dict) ELSE LzAt(i - 2)
      /\ Got(s, FALSE) = m - 1
  BY <1>1 DEF Framed, PieceAt, Got
<1>4. \A i \in 1 .. k : w[i] = LzAt((m - 1) + i - 1)
  BY <1>3
<1> HIDE DEF m, k, v
<1>5. v[1] = s[1]
  BY <1>1, <1>2
<1>6. ASSUME NEW i \in 1 .. m + k PROVE v[i] = IF i = 1 THEN Prop(v[1].dict) ELSE LzAt(i - 2)
  <2>1. CASE i <= m
    BY <1>1, <1>2, <1>3, <1>5, <2>1
  <2>2. CASE ~(i <= m)
    <3>1. i - m \in 1 .. k /\ (m - 1) + (i - m) - 1 = i - 2 /\ i # 1
      BY <1>1, <2>2
    <3>2. w[i - m] = LzAt(i - 2)
      BY <1>4, <3>1
    <3>3. QED
      BY <1>2, <2>2, <3>1, <3>2
  <2>3. QED
    BY <2>1, <2>2
<1>7. Framed(v, FALSE)
  BY <1>2, <1>6 DEF Framed, PieceAt
<1>8. Got(v, FALSE) = Got(s, FALSE) + k /\ Len(v) # 0
  <2>1. Len(v) # 0 /\ Len(v) \in Nat
    BY <1>1, <1>2
  <2>2. Got(v, FALSE) = Len(v) - 1
    BY <2>1 DEF Got
  <2> DEFINE g == Got(s, FALSE)
             h == Got(v, FALSE)
  <2>3. m \in Nat /\ k \in Nat /\ Len(v) = m + k /\ g = m - 1 /\ h = Len(v) - 1
    BY <1>1, <1>2, <1>3, <2>2
  <2> HIDE DEF g, h
  <2>4. h = g + k
    BY <2>3
  <2>5. QED
    BY <2>1, <2>4 DEF g, h
<1>9. v # <<>>
  BY <1>2, <1>8, EmptySeq
<1>10. QED
  BY <1>2, <1>5, <1>7, <1>8, <1>9 DEF v, k

LEMMA FramedEnd ==
  ASSUME NEW s \in Seq(Piece), Framed(s, FALSE), s # <<>>
  PROVE  /\ Framed(s \o <<EndMark>>, TRUE) /\ (s \o <<EndMark>>)[1] = s[1]
         /\ Got(s \o <<EndMark>>, TRUE) = Got(s, FALSE)
         /\ s \o <<EndMark>> # <<>>
<1> DEFINE m == Len(s)
           w == <<EndMark>>
           v == s \o w
<1>1. m \in Nat \ {0}
  BY EmptySeq, LenProperties
<1>2. EndMark \in Piece
  BY DEF Piece
<1>3. w \in Seq(Piece) /\ Len(w) = 1 /\ w[1] = EndMark
  <2> DEFINE e == EndMark
  <2>1. e \in Piece
    BY <1>2
  <2> HIDE DEF e
  <2>2. <<e>> \in Seq(Piece) /\ Len(<<e>>) = 1 /\ <<e>>[1] = e
    BY <2>1
  <2>3. QED
    BY <2>2 DEF e
<1> HIDE DEF w
<1>4. /\ v \in Seq(Piece) /\ Len(v) = m + 1
      /\ \A i \in 1 .. m + 1 : v[i] = IF i <= m THEN s[i] ELSE w[i - m]
  <2>1. /\ v \in Seq(Piece) /\ Len(v) = m + Len(w)
        /\ \A i \in 1 .. m + Len(w) : v[i] = IF i <= m THEN s[i] ELSE w[i - m]
    BY <1>3, ConcatProperties, Zenon
  <2>2. QED
    BY <1>3, <2>1
<1>5. /\ \A i \in 1 .. m : s[i] = IF i = 1 THEN Prop(s[1].dict) ELSE LzAt(i - 2)
      /\ Got(s, FALSE) = m - 1
  BY <1>1 DEF Framed, PieceAt, Got
<1> HIDE DEF m, v, EndMark
<1>6. v[1] = s[1]
  BY <1>1, <1>4
<1>7. ASSUME NEW i \in 1 .. m + 1
      PROVE  v[i] = IF i = 1 THEN Prop(v[1].dict) ELSE IF i = m + 1 THEN EndMark ELSE LzAt(i - 2)
  <2>1. CASE i <= m
    BY <1>1, <1>4, <1>5, <1>6, <2>1
  <2>2. CASE ~(i <= m)
    <3>1. i - m = 1 /\ i = m + 1 /\ i # 1
      BY <1>1, <2>2
    <3>2. QED
      BY <1>3, <1>4, <2>2, <3>1
  <2>3. QED
    BY <2>1, <2>2
<1>8. Framed(v, TRUE)
  BY <1>1, <1>4, <1>7 DEF Framed, PieceAt
<1>9. Got(v, TRUE) = m - 1 /\ Len(v) # 0
  BY <1>1, <1>4 DEF Got
<1>10. v # <<>>
  BY <1>4, <1>9, EmptySeq
<1>11. QED
  BY <1>5, <1>6, <1>8, <1>9, <1>10 DEF v, w
(* A block that is added to the stream, with the header before the first.  *)
LEMMA FramedBlock ==
  ASSUME DictTypeOK, NEW b, BlockOK(b), NEW s \in Seq(Piece), Framed(s, FALSE),
         NEW d \in Int, NEW prop \in {<<>>, <<Prop(d)>>}, prop = <<>> <=> s # <<>>,
         \A i \in b.start .. b.end - 1 : data[b.buffer][i] = Got(s, FALSE) + (i - b.start)
  PROVE  /\ Framed(s \o (prop \o Bytes(b, b.end - b.start)), FALSE)
         /\ s \o (prop \o Bytes(b, b.end - b.start)) # <<>>
         /\ Got(s \o (prop \o Bytes(b, b.end - b.start)), FALSE)
              = Got(s, FALSE) + (b.end - b.start)
         /\ s # <<>> => (s \o (prop \o Bytes(b, b.end - b.start)))[1] = s[1]
         /\ prop # <<>> => (s \o (prop \o Bytes(b, b.end - b.start)))[1] = Prop(d)
<1> DEFINE n == b.end - b.start
           w == Bytes(b, n)
           g == Got(s, FALSE)
<1>1. b.start \in Nat /\ b.end \in Nat /\ b.end <= Size /\ n \in Nat /\ b.start + n <= Size
  BY DEF BlockOK
<1>2. w \in Seq(Piece) /\ Len(w) = n
  BY <1>1, BytesType
<1>3. g \in Int
  BY LenProperties DEF Got
<1>4. \A i \in 1 .. n : w[i] = LzAt(g + i - 1)
  <2> SUFFICES ASSUME NEW i \in 1 .. n PROVE w[i] = LzAt(g + i - 1)
    OBVIOUS
  <2>1. b.start + i - 1 \in b.start .. b.end - 1 /\ g + ((b.start + i - 1) - b.start) = g + i - 1
    <3> DEFINE from == b.start
               to == b.end
    <3>1. from \in Nat /\ to \in Nat /\ i \in 1 .. to - from /\ g \in Int
      BY <1>1, <1>3 DEF n
    <3> HIDE DEF from, to, g
    <3>2. from + i - 1 \in from .. to - 1 /\ g + ((from + i - 1) - from) = g + i - 1
      BY <3>1
    <3>3. QED
      BY <3>2 DEF from, to
  <2>2. data[b.buffer][b.start + i - 1] = g + ((b.start + i - 1) - b.start)
    BY <2>1
  <2>3. w[i] = LzAt(data[b.buffer][b.start + i - 1])
    BY DEF Bytes
  <2>4. QED
    BY <2>1, <2>2, <2>3
<1> HIDE DEF w, n
<1>5. CASE s # <<>>
  <2>1. /\ Framed(s \o w, FALSE) /\ s \o w # <<>>
        /\ Got(s \o w, FALSE) = g + Len(w) /\ (s \o w)[1] = s[1]
    BY <1>2, <1>4, <1>5, FramedMore
  <2>2. prop \o w = w
    BY <1>2, <1>5, ConcatEmptySeq
  <2>3. QED
    BY <1>2, <1>5, <2>1, <2>2 DEF n, w
<1>6. CASE s = <<>>
  <2> DEFINE h == <<Prop(d)>>
  <2>1. prop = h
    BY <1>6
  <2>2. h \in Seq(Piece) /\ Framed(h, FALSE) /\ Got(h, FALSE) = 0 /\ h[1] = Prop(d)
    BY FramedProp
  <2>3. h # <<>> /\ g = 0
    BY <1>6 DEF Got
  <2>4. /\ h \o w \in Seq(Piece) /\ Framed(h \o w, FALSE) /\ h \o w # <<>>
        /\ Got(h \o w, FALSE) = 0 + Len(w) /\ (h \o w)[1] = Prop(d)
    <3>1. \A i \in 1 .. Len(w) : w[i] = LzAt(Got(h, FALSE) + i - 1)
      BY <1>2, <1>4, <2>2, <2>3
    <3>2. QED
      BY <1>2, <2>2, <2>3, <3>1, FramedMore, ZenonT(40)
  <2> HIDE DEF h
  <2>5. s \o (prop \o w) = h \o w
    BY <1>6, <2>1, <2>4, ConcatEmptySeq
  <2>6. QED
    BY <1>2, <1>6, <2>1, <2>3, <2>4, <2>5 DEF n, w
<1>7. QED
  BY <1>5, <1>6

-----------------------------------------------------------------------------
Flying == work \in {"queued", "building", "encoding"}

(* No error has made a hole in the stream, and it was not given up.        *)
Good == (lockParams \/ endMarked) /\ asyncRes = "ok"

(* Nothing more can come.                                                  *)
Done == start = end /\ ~granted /\ (ending \/ ~lockParams)

(* A dictionary that is announced covers all blocks there are and will be. *)
Announced(d) == curBlock.end <= d /\ (d < Size => Done)

(* The bytes of a block in compression come next in the stream.            *)
InTurn(b) == \A i \in b.start .. b.end - 1 :
               data[b.buffer][i] = Got(Stream, FALSE) + (i - b.start)

InCompression ==
  /\ streamProp = <<>> <=> Stream # <<>>
  /\ streamProp # <<>> => \E d \in Int : streamProp = <<Prop(d)>> /\ Announced(d)
  /\ InTurn(curBlock)

StreamInv ==
  /\ Framed(Stream, endMarked)
  /\ Good => Got(Stream, endMarked) + InFlight + (end - start) = taken
  /\ Flying => InCompression
  /\ Stream # <<>> => Announced(Stream[1].dict)
  /\ ~wroteProp => Stream = <<>> /\ curBlock.end = 0
  /\ Good /\ ~Flying => (wroteProp <=> Stream # <<>>)

LEMMA StreamType == ASSUME Written PROVE Stream \in Seq(Piece)
<1>1. out \in Seq(Piece) /\ Unwritten \in Seq(Piece)
  BY UnwrittenType DEF Written
<1>2. QED
  BY <1>1, ConcatProperties DEF Stream

LEMMA HeaderType ==
  ASSUME NEW s \in Seq(Piece), NEW marked, Framed(s, marked), s # <<>> PROVE s[1].dict \in Int
<1>1. 1 \in 1 .. Len(s)
  BY EmptySeq, LenProperties
<1>2. s[1] \in Piece /\ s[1] = Prop(s[1].dict)
  BY <1>1, ElementOfSeq DEF Framed, PieceAt
<1>3. s[1].kind = "prop"
  BY <1>2, KindsDiffer
<1>4. QED
  BY <1>2, <1>3 DEF Piece, EndMark
-----------------------------------------------------------------------------
(* Steps that leave the stream as it is.                                   *)

LEMMA Balance ==
  ASSUME IInv, UNCHANGED dictVars \/ Shift \/ \E n \in Nat : Put(n)
  PROVE  taken' - (end' - start') = taken - (end - start)
<1>1. start \in Nat /\ end \in Nat /\ taken \in Nat /\ start <= end
  BY DEF IInv, DictTypeOK
<1>2. CASE UNCHANGED dictVars
  BY <1>2 DEF dictVars
<1>3. CASE Shift /\ ~UNCHANGED dictVars
  <2>1. taken' = taken /\ start' = end' /\ ~(start < end)
    BY <1>3 DEF Shift, DropHistory, KeepHistory
  <2>2. end' \in Int
    <3>1. CASE DropHistory
      BY <3>1 DEF DropHistory
    <3>2. CASE KeepHistory
      BY <3>2, KeptBounds DEF KeepHistory, IInv
    <3>3. QED
      BY <1>3, <3>1, <3>2 DEF Shift
  <2> DEFINE e == end'
  <2>3. end' - start' = 0 /\ end - start = 0
    <3>1. e \in Int /\ start' = e
      BY <2>1, <2>2
    <3> HIDE DEF e
    <3>2. e - e = 0
      BY <3>1
    <3>3. end' - start' = 0
      BY <3>1, <3>2, Zenon DEF e
    <3>4. end - start = 0
      BY <1>1, <2>1
    <3>5. QED
      BY <3>3, <3>4
  <2>4. QED
    BY <2>1, <2>3
<1>4. ASSUME NEW n \in Nat, Put(n) PROVE taken' - (end' - start') = taken - (end - start)
  <2>1. taken' = taken + n /\ end' = end + n /\ start' = start
    BY <1>4 DEF Put
  <2> DEFINE a == taken'
             b == end'
             c == start'
  <2>2. a = taken + n /\ b = end + n /\ c = start
    BY <2>1
  <2> HIDE DEF a, b, c
  <2>3. a - (b - c) = taken - (end - start)
    BY <1>1, <2>2
  <2>4. QED
    BY <2>3 DEF a, b, c
<1>5. QED
  BY <1>2, <1>3, <1>4

(* Once the stream ends or was given up, no more input is taken.           *)
LEMMA DoneStays == ASSUME CInv, EndingLater, Next, ~InitCStream, Done PROVE Done'
<1> USE DEF Done, innerVars, dictVars, frameVars, userVars
<1>1. /\ granted => lockParams /\ ~ending
      /\ pc # "idle" /\ TakesInput => lockParams /\ ~ending /\ ~granted
      /\ CallOf /\ (endMarked => ~lockParams)
  BY DEF CInv, Control, CallRelies, EndIsEnd
<1>2. CASE UserCalls
  BY <1>1, <1>2
     DEF UserCalls, InitMissing, SetTimeout, CompressStream, FlushStream, EndStream,
         CopyCStreamOutput, GetDictionaryBuffer, UpdateDictionary, GetNextCompressedBuffer,
         WaitCStream, CancelCStream, Begins, Simple
<1>3. CASE Input \/ PutInput \/ Grant
  BY <1>1, <1>3 DEF Input, PutInput, Grant, CallOf, TakesInput
<1>4. CASE BlockStep
  <2>1. ~HasUnprocessed
    BY DEF HasUnprocessed, CInv, IInv, DictTypeOK
  <2>2. QED
    BY <1>4, <2>1 DEF BlockStep, CompressInternal
<1>5. CASE EndCopy
  <2>1. /\ UNCHANGED <<start, end, granted, lockParams>>
        /\ ending' = (ret' = "more") /\ ret' \in {"more", "done"}
    BY <1>5 DEF EndCopy, LoopCheck
  <2>2. ~ending' => ~lockParams
    <3>1. SUFFICES ASSUME ret' = "done" PROVE endMarked
      BY <1>1, <2>1
    <3>2. EndingLater' /\ endMarked' = endMarked
      BY <1>5, InternalsKeepEnding DEF InCall, EndCopy, workVars, blockVars, CopyIfAny, LoopCheck
    <3>3. endMarked \/ (HasUnprocessed /\ outThread < threadCount)
      BY <1>5 DEF EndingLater, EndCopy
    <3>4. ~HasUnprocessed
      BY DEF HasUnprocessed, CInv, IInv, DictTypeOK
    <3>5. QED
      BY <3>3, <3>4
  <2>3. QED
    BY <2>1, <2>2
<1>6. CASE CancelEnds
  BY <1>6 DEF CancelEnds, EndFrame
<1>7. CASE EndWritten
  BY <1>7 DEF EndWritten, WriteEnd, EndFrame
<1>8. CASE Work \/ CopyIn \/ Check \/ Full \/ CopyOut \/ Report \/ Flush
  BY <1>8 DEF Work, CopyIn, Check, Full, CopyOut, Report, Flush, LoopCheck
<1>9. CASE HandOut \/ Copy \/ WaitEnds \/ CancelBegins \/ EndLater \/ StopWaiting
  BY <1>9 DEF HandOut, Copy, WaitEnds, CancelBegins, EndLater, StopWaiting, WaitStops
<1>10. QED
  BY <1>2, <1>3, <1>4, <1>5, <1>6, <1>7, <1>8, <1>9 DEF Next, InCall

LEMMA AnnouncedStays ==
  ASSUME CInv, EndingLater, Next, ~InitCStream, curBlock' = curBlock, NEW d, Announced(d)
  PROVE  Announced(d)'
  BY DoneStays DEF Announced

Quiet == Next /\ ~InitCStream /\ ~BlockStep /\ ~EndWritten /\ ~Work

LEMMA QuietSteps ==
  ASSUME CInv, Quiet
  PROVE  /\ UNCHANGED <<Stream, endMarked, curBlock, wroteProp, streamProp, work>>
         /\ taken' - (end' - start') = taken - (end - start)
         /\ Good' => Good
<1> USE DEF innerVars, frameVars
<1>1. Stream' = Stream
  BY StreamSteps DEF Quiet
<1>2. /\ UNCHANGED <<endMarked, curBlock, wroteProp, streamProp, work>>
      /\ Good' => Good
  <2>1. CASE UserCalls
    BY <2>1 DEF Quiet, Good, UserCalls, InitMissing, SetTimeout, CompressStream, FlushStream,
                EndStream, CopyCStreamOutput, GetDictionaryBuffer, UpdateDictionary,
                GetNextCompressedBuffer, WaitCStream, CancelCStream, workVars, blockVars
  <2>2. CASE Input \/ PutInput \/ Grant
    BY <2>2 DEF Input, PutInput, Grant, Good, workVars, blockVars
  <2>3. CASE CancelEnds
    BY <2>3 DEF CancelEnds, EndFrame, Good, CInv, Control, EndIsEnd
  <2>4. CASE CopyIn \/ Check \/ Full \/ CopyOut \/ Report \/ Flush \/ EndCopy
    BY <2>4 DEF CopyIn, Check, Full, CopyOut, Report, Flush, EndCopy, LoopCheck, Good,
                workVars, blockVars
  <2>5. CASE HandOut \/ Copy \/ WaitEnds \/ CancelBegins \/ EndLater \/ StopWaiting
    BY <2>5 DEF HandOut, Copy, WaitEnds, CancelBegins, EndLater, StopWaiting, WaitStops, Good,
                workVars, blockVars
  <2>6. QED
    BY <2>1, <2>2, <2>3, <2>4, <2>5 DEF Quiet, Next, InCall
<1>3. UNCHANGED dictVars \/ Shift \/ \E n \in Nat : Put(n)
  <2>1. CASE UserCalls
    <3>1. ASSUME NEW n \in InputSizes, UpdateDictionary(n) PROVE \E k \in Nat : Put(k)
      BY <3>1, CallAssumption DEF UpdateDictionary
    <3>2. QED
      BY <2>1, <3>1
         DEF Quiet, UserCalls, InitMissing, SetTimeout, CompressStream, FlushStream, EndStream,
             CopyCStreamOutput, GetDictionaryBuffer, GetNextCompressedBuffer, WaitCStream,
             CancelCStream
  <2>2. CASE Input \/ Grant
    BY <2>2 DEF Input, Grant
  <2>3. CASE PutInput
    BY <2>3, PutSome DEF PutInput
  <2>4. CASE CopyIn \/ Check \/ Full \/ CopyOut \/ Report \/ Flush \/ EndCopy
    BY <2>4 DEF CopyIn, Check, Full, CopyOut, Report, Flush, EndCopy
  <2>5. CASE HandOut \/ Copy \/ WaitEnds \/ CancelBegins \/ CancelEnds \/ EndLater \/ StopWaiting
    BY <2>5 DEF HandOut, Copy, WaitEnds, CancelBegins, CancelEnds, EndLater, StopWaiting, WaitStops
  <2>6. QED
    BY <2>1, <2>2, <2>3, <2>4, <2>5 DEF Quiet, Next, InCall
<1>4. taken' - (end' - start') = taken - (end - start)
  BY <1>3, Balance DEF CInv
<1>5. QED
  BY <1>1, <1>2, <1>4
-----------------------------------------------------------------------------
(* The stream, step by step.                                               *)

LEMMA EmptyFramed == Framed(<<>>, FALSE) /\ Got(<<>>, FALSE) = 0
  BY DEF Framed, Got

LEMMA InitStreamInv == ASSUME Init PROVE StreamInv
<1>1. CInv
  BY InitCInv
<1>2. Stream = <<>>
  <2>1. out = <<>> /\ Unwritten = <<>>
    BY <1>1, AllWritten DEF CInv, Init
  <2>2. QED
    BY <2>1 DEF Stream
<1>3. /\ endMarked = FALSE /\ start = 0 /\ end = 0 /\ taken = 0 /\ work = "idle"
      /\ wroteProp = FALSE /\ curBlock.end = 0
  BY DEF Init, DictInit, Block
<1>4. InFlight = 0 /\ ~Flying
  BY <1>3 DEF InFlight, Flying
<1>5. Framed(Stream, endMarked) /\ Got(Stream, endMarked) = 0
  BY <1>2, <1>3, EmptyFramed
<1>6. Got(Stream, endMarked) + InFlight + (end - start) = taken
  BY <1>3, <1>4, <1>5
<1>7. QED
  BY <1>2, <1>3, <1>4, <1>5, <1>6 DEF StreamInv

LEMMA InitCStreamKeepsStreamInv == ASSUME CInv, InitCStream PROVE StreamInv'
<1>1. Stream' = <<>>
  BY InitEmptiesStream
<1>2. /\ endMarked' = FALSE /\ start' = 0 /\ end' = 0 /\ taken' = 0 /\ work' = "idle"
      /\ wroteProp' = FALSE /\ curBlock'.end = 0
  BY DEF InitCStream, DictReinit
<1>3. InFlight' = 0 /\ ~Flying'
  BY <1>2 DEF InFlight, Flying
<1>4. Framed(Stream, endMarked)' /\ Got(Stream, endMarked)' = 0
  BY <1>1, <1>2, EmptyFramed DEF Framed, PieceAt, Got
<1>5. (Got(Stream, endMarked) + InFlight + (end - start) = taken)'
  BY <1>2, <1>3, <1>4
<1>6. QED
  BY <1>1, <1>2, <1>3, <1>4, <1>5 DEF StreamInv

LEMMA QuietKeepsStreamInv ==
  ASSUME CInv, NoEmptyUpdate, EndingLater, StreamInv, Quiet
  PROVE  StreamInv'
<1>1. /\ UNCHANGED <<Stream, endMarked, curBlock, wroteProp, streamProp, work>>
      /\ taken' - (end' - start') = taken - (end - start)
      /\ Good' => Good
  BY QuietSteps
<1>2. Flying' = Flying /\ InFlight' = InFlight
  BY <1>1 DEF Flying, InFlight
<1>3. ASSUME NEW d, Announced(d) PROVE Announced(d)'
  BY <1>1, <1>3, AnnouncedStays DEF Quiet
<1>4. Framed(Stream, endMarked)'
  BY <1>1 DEF StreamInv, Framed, PieceAt
<1>5. (Stream # <<>> => Announced(Stream[1].dict))'
  BY <1>1, <1>3 DEF StreamInv
<1>6. (~wroteProp => Stream = <<>> /\ curBlock.end = 0)'
  BY <1>1 DEF StreamInv
<1>7. (Good /\ ~Flying => (wroteProp <=> Stream # <<>>))'
  BY <1>1, <1>2 DEF StreamInv
<1>8. (Good => Got(Stream, endMarked) + InFlight + (end - start) = taken)'
  <2> SUFFICES ASSUME Good' PROVE (Got(Stream, endMarked) + InFlight + (end - start) = taken)'
    OBVIOUS
  <2> DEFINE g == Got(Stream, endMarked) + InFlight
             t == taken'
             n == end' - start'
  <2>1. g + (end - start) = taken /\ g' = g
    BY <1>1, <1>2 DEF StreamInv
  <2>2. t \in Int /\ n \in Int /\ t - n = taken - (end - start)
    <3>1. IInv'
      BY NextKeepsCInv DEF Quiet, CInv
    <3>2. QED
      BY <1>1, <3>1 DEF IInv, DictTypeOK
  <2>3. g \in Int /\ taken \in Int /\ end - start \in Int
    <3>1. Stream \in Seq(Piece) /\ Len(Stream) \in Nat
      BY StreamType, LenProperties DEF CInv
    <3>2. Got(Stream, endMarked) \in Int
      BY <3>1 DEF Got
    <3>3. InFlight \in Int
      BY DEF InFlight, CInv, Counters
    <3>4. QED
      BY <3>2, <3>3 DEF CInv, IInv, DictTypeOK
  <2> HIDE DEF g, t, n
  <2>4. g + n = t
    BY <2>1, <2>2, <2>3
  <2>5. QED
    BY <2>1, <2>4 DEF g, t, n
<1>9. ASSUME Flying PROVE InCompression'
  <2>1. InCompression /\ work # "idle" /\ work' # "idle"
    BY <1>1, <1>9 DEF StreamInv, Flying
  <2>2. /\ curBlock \in [buffer : 0 .. 1, start : Nat, end : Nat]
        /\ \A i \in 0 .. curBlock.end - 1 : data'[curBlock.buffer][i] = data[curBlock.buffer][i]
    BY <2>1, WindowStays DEF Quiet, CInv, Counters
  <2>3. InTurn(curBlock)'
    <3> DEFINE b == curBlock
               g == Got(Stream, FALSE)
    <3>1. b' = b /\ g' = g
      BY <1>1
    <3>2. \A i \in b.start .. b.end - 1 : data[b.buffer][i] = g + (i - b.start)
      BY <2>1 DEF InCompression, InTurn
    <3>3. b.start \in Nat /\ b.end \in Nat
      BY <2>2
    <3>4. \A i \in b.start .. b.end - 1 : data'[b.buffer][i] = g + (i - b.start)
      <4>1. \A i \in b.start .. b.end - 1 : i \in 0 .. b.end - 1
        BY <3>3
      <4>2. \A i \in 0 .. b.end - 1 : data'[b.buffer][i] = data[b.buffer][i]
        BY <2>2
      <4> HIDE DEF b, g
      <4>3. QED
        BY <3>2, <4>1, <4>2, Zenon
    <3>5. QED
      BY <3>1, <3>4 DEF InTurn
  <2>4. QED
    BY <1>1, <1>3, <2>1, <2>3 DEF InCompression
<1>10. QED
  BY <1>2, <1>4, <1>5, <1>6, <1>7, <1>8, <1>9 DEF StreamInv
LEMMA GotType == ASSUME CInv PROVE Got(Stream, endMarked) \in Int /\ Got(Stream, FALSE) \in Int
<1>1. Stream \in Seq(Piece) /\ Len(Stream) \in Nat
  BY StreamType, LenProperties DEF CInv
<1>2. QED
  BY <1>1 DEF Got

LEMMA WorkKeepsStreamInv == ASSUME CInv, StreamInv, Work PROVE StreamInv'
<1>1. /\ UNCHANGED <<curBlock, wroteProp, streamProp, data, start, end, taken, endMarked,
                     lockParams, granted, ending>>
      /\ work # "idle"
  BY DEF Work, WorkBuilds, WorkEncodes, WorkPublishes, WorkReturns, dictVars, blockVars,
         frameVars, userVars
<1>2. lockParams /\ endMarked = FALSE
  BY <1>1 DEF CInv, Flags, Control, RunsAlone, EndIsEnd
<1>3. \A d : Announced(d) => Announced(d)'
  BY <1>1 DEF Announced, Done
<1>4. CASE Stream' = Stream /\ (work = "encoding" => asyncRes' # "ok")
  <2>1. /\ Flying' => Flying
        /\ Good' => Good /\ Flying' = Flying
    BY <1>1, <1>2, <1>4
       DEF Work, WorkBuilds, WorkEncodes, WorkPublishes, WorkReturns, Flying, Good
  <2>2. Good' => InFlight' = InFlight
    BY <1>1, <2>1 DEF InFlight, Flying
  <2>3. Framed(Stream, endMarked)'
    BY <1>1, <1>4 DEF StreamInv, Framed, PieceAt
  <2>4. (Good => Got(Stream, endMarked) + InFlight + (end - start) = taken)'
    BY <1>1, <1>4, <2>1, <2>2 DEF StreamInv, Got
  <2>5. Flying => InCompression'
    BY <1>1, <1>3, <1>4 DEF StreamInv, InCompression, InTurn
  <2>6. (Stream # <<>> => Announced(Stream[1].dict))'
    BY <1>3, <1>4 DEF StreamInv
  <2>7. (~wroteProp => Stream = <<>> /\ curBlock.end = 0)'
    BY <1>1, <1>4 DEF StreamInv
  <2>8. (Good /\ ~Flying => (wroteProp <=> Stream # <<>>))'
    BY <1>1, <1>4, <2>1 DEF StreamInv
  <2>9. QED
    BY <2>1, <2>3, <2>4, <2>5, <2>6, <2>7, <2>8 DEF StreamInv
<1>5. CASE work = "encoding" /\ asyncRes' = "ok" /\ Publishes(curBlock, streamProp)
  <2> DEFINE s == Stream
             n == curBlock.end - curBlock.start
             v == s \o (streamProp \o Bytes(curBlock, n))
  <2>1. Flying /\ Good /\ InFlight = n
    BY <1>2, <1>5 DEF Flying, Good, CInv, Control, RunsAlone, InFlight
  <2>2. InCompression /\ Framed(s, FALSE) /\ s \in Seq(Piece) /\ DictTypeOK /\ BlockOK(curBlock)
    BY <1>2, <2>1, StreamType
       DEF StreamInv, CInv, IInv, Control, RunsAlone, Flying, BlockOK, Counters
  <2>3. PICK d \in Int : streamProp \in {<<>>, <<Prop(d)>>} /\ (streamProp # <<>> => Announced(d))
    <3>1. CASE streamProp = <<>>
      BY <3>1
    <3>2. CASE streamProp # <<>>
      BY <2>2, <3>2 DEF InCompression
    <3>3. QED
      BY <3>1, <3>2
  <2>4. /\ Framed(v, FALSE) /\ v # <<>>
        /\ Got(v, FALSE) = Got(s, FALSE) + n
        /\ s # <<>> => v[1] = s[1]
        /\ streamProp # <<>> => v[1] = Prop(d)
    <3> DEFINE b == curBlock
               p == streamProp
    <3>1. /\ DictTypeOK /\ BlockOK(b) /\ s \in Seq(Piece) /\ Framed(s, FALSE)
          /\ p \in {<<>>, <<Prop(d)>>} /\ (p = <<>> <=> s # <<>>)
          /\ \A i \in b.start .. b.end - 1 : data[b.buffer][i] = Got(s, FALSE) + (i - b.start)
      BY <2>2, <2>3 DEF InCompression, InTurn
    <3>2. v = s \o (p \o Bytes(b, b.end - b.start)) /\ n = b.end - b.start
      OBVIOUS
    <3> HIDE DEF b, p, s, v, n
    <3>3. QED
      BY <3>1, <3>2, FramedBlock, ZenonT(40) DEF p
  <2>5. Stream' = v /\ endMarked' = FALSE /\ work' = "returning" /\ ~Flying' /\ InFlight' = 0
    <3>1. work' = "returning"
      BY <1>5 DEF Work, WorkBuilds, WorkEncodes, WorkPublishes, WorkReturns
    <3>2. QED
      BY <1>1, <1>2, <1>5, <3>1 DEF Publishes, Flying, InFlight
  <2> HIDE DEF v
  <2>6. \A e : e = v[1].dict => Announced(e)'
    <3>1. CASE s # <<>>
      BY <1>3, <2>4, <3>1 DEF StreamInv
    <3>2. CASE streamProp # <<>>
      BY <1>3, <2>3, <2>4, <3>2, KindsDiffer
    <3>3. QED
      BY <2>2, <3>1, <3>2 DEF InCompression
  <2>7. wroteProp
    <3>1. curBlock.end # 0
      BY <2>1 DEF CInv, Control, RunsAlone, Flying, Counters
    <3>2. QED
      BY <3>1 DEF StreamInv
  <2>8. Got(v, FALSE) + 0 + (end - start) = taken
    <3> DEFINE g == Got(s, FALSE)
    <3>1. g + n + (end - start) = taken
      BY <1>2, <2>1 DEF StreamInv
    <3>2. g \in Int /\ n \in Int /\ end - start \in Int
      <4>1. curBlock.start \in Nat /\ curBlock.end \in Nat /\ start \in Nat /\ end \in Nat
        BY DEF CInv, Counters, IInv, DictTypeOK
      <4>2. g \in Int
        BY GotType
      <4> HIDE DEF g
      <4>3. QED
        BY <4>1, <4>2
    <3> HIDE DEF g, n
    <3>3. (g + n) + 0 = g + n
      BY <3>2
    <3>4. QED
      BY <2>4, <3>1, <3>3 DEF g
  <2>9. Framed(Stream, endMarked)'
    BY <2>4, <2>5 DEF Framed, PieceAt
  <2>10. (Got(Stream, endMarked) + InFlight + (end - start) = taken)'
    BY <1>1, <2>5, <2>8 DEF Got
  <2>11. (Stream # <<>> => Announced(Stream[1].dict))'
    BY <2>5, <2>6 DEF Announced
  <2>12. QED
    BY <1>1, <2>4, <2>5, <2>7, <2>9, <2>10, <2>11 DEF StreamInv
<1>6. QED
  BY <1>4, <1>5, WorkWrites

LEMMA EndWrittenKeepsStreamInv == ASSUME CInv, StreamInv, EndWritten PROVE StreamInv'
<1> DEFINE s == Stream
           v == s \o StreamTail
<1>1. /\ work = "idle" /\ asyncRes = "ok" /\ ~endMarked /\ ~HasUnprocessed
      /\ pc = "end" /\ call = "endStream"
  BY DEF EndWritten, Waited, MustWait, CInv, Control, CallOf
<1>2. /\ Stream' = v
      /\ UNCHANGED <<curBlock, start, end, taken, work, granted, ending>>
      /\ endMarked' = TRUE /\ lockParams' = FALSE /\ asyncRes' = "ok" /\ wroteProp' = TRUE
  BY EndWrites DEF EndWritten, WriteEnd, EndFrame, dictVars, userVars
<1>3. lockParams /\ ~granted /\ start = end /\ endMarked = FALSE
  BY <1>1 DEF CInv, Flags, Control, CallRelies, HasUnprocessed, IInv, DictTypeOK
<1>4. Done' /\ Good /\ ~Flying /\ ~Flying' /\ InFlight = 0 /\ InFlight' = 0
  BY <1>1, <1>2, <1>3 DEF Done, Good, Flying, InFlight
<1>5. s \in Seq(Piece) /\ Framed(s, FALSE) /\ (wroteProp <=> s # <<>>)
  BY <1>3, <1>4, StreamType DEF StreamInv, CInv
<1>6. /\ Framed(v, TRUE) /\ Got(v, TRUE) = Got(s, FALSE) /\ v # <<>>
      /\ \A e : e = v[1].dict => curBlock.end <= e
  <2>1. CASE s # <<>>
    <3>1. v = s \o <<EndMark>>
      <4> DEFINE y == EndMark
      <4>1. StreamTail = <<>> \o <<y>>
        BY <1>5, <2>1 DEF StreamTail
      <4> HIDE DEF y
      <4>2. <<>> \o <<y>> = <<y>>
        OBVIOUS
      <4>3. QED
        BY <4>1, <4>2 DEF y
    <3>2. curBlock.end <= s[1].dict
      BY <2>1 DEF StreamInv, Announced
    <3>3. QED
      BY <1>5, <2>1, <3>1, <3>2, FramedEnd
  <2>2. CASE s = <<>>
    <3> DEFINE h == <<Prop(0)>>
    <3>1. h \in Seq(Piece) /\ Framed(h, FALSE) /\ Got(h, FALSE) = 0 /\ h # <<>>
          /\ h[1] = Prop(0)
      <4> DEFINE x == Prop(0)
      <4>1. <<x>> \in Seq(Piece) /\ Framed(<<x>>, FALSE) /\ Got(<<x>>, FALSE) = 0
        <5>1. 0 \in Int
          OBVIOUS
        <5>2. QED
          BY <5>1, FramedProp, Zenon
      <4> HIDE DEF x
      <4>2. <<x>> # <<>> /\ <<x>>[1] = x
        OBVIOUS
      <4>3. QED
        BY <4>1, <4>2 DEF x
    <3> HIDE DEF h
    <3>2. /\ Framed(h \o <<EndMark>>, TRUE) /\ (h \o <<EndMark>>)[1] = h[1]
          /\ Got(h \o <<EndMark>>, TRUE) = Got(h, FALSE) /\ h \o <<EndMark>> # <<>>
      BY <3>1, FramedEnd
    <3>3. v = h \o <<EndMark>>
      <4>1. StreamTail = h \o <<EndMark>>
        BY <1>5, <2>2 DEF StreamTail, h
      <4>2. StreamTail \in Seq(Piece)
        <5>1. Prop(0) \in Piece /\ EndMark \in Piece
          BY DEF Piece, Prop
        <5> DEFINE x == Prop(0)
                   y == EndMark
        <5>2. x \in Piece /\ y \in Piece
          BY <5>1
        <5> HIDE DEF x, y
        <5>3. <<x>> \o <<y>> \in Seq(Piece)
          BY <5>2
        <5>4. QED
          BY <4>1, <5>3 DEF h, x, y
      <4>3. QED
        BY <2>2, <4>1, <4>2, ConcatEmptySeq
    <3>4. curBlock.end = 0 /\ Got(s, FALSE) = 0
      BY <1>5, <2>2, EmptyFramed DEF StreamInv
    <3>5. v[1].dict = 0
      BY <3>1, <3>2, <3>3, KindsDiffer
    <3> DEFINE w == h \o <<EndMark>>
    <3> HIDE DEF w, v
    <3>6. v = w /\ Framed(w, TRUE) /\ w # <<>> /\ Got(w, TRUE) = Got(h, FALSE)
      BY <3>2, <3>3 DEF w
    <3>7. Framed(v, TRUE) /\ v # <<>> /\ Got(v, TRUE) = Got(s, FALSE)
      BY <3>1, <3>4, <3>6
    <3>8. \A e : e = v[1].dict => curBlock.end <= e
      BY <3>4, <3>5
    <3>9. QED
      BY <3>7, <3>8
  <2>3. QED
    BY <2>1, <2>2
<1>7. Got(s, FALSE) + 0 + (end - start) = taken
  BY <1>3, <1>4 DEF StreamInv
<1> HIDE DEF v
<1>8. Framed(Stream, endMarked)'
  BY <1>2, <1>6 DEF Framed, PieceAt
<1>9. (Got(Stream, endMarked) + InFlight + (end - start) = taken)'
  BY <1>2, <1>4, <1>6, <1>7 DEF Got
<1>10. Announced(Stream[1].dict)'
  BY <1>2, <1>4, <1>6 DEF Announced
<1>11. QED
  BY <1>2, <1>4, <1>6, <1>8, <1>9, <1>10 DEF StreamInv

LEMMA BlockStepKeepsStreamInv == ASSUME CInv, StreamInv, BlockStep PROVE StreamInv'
<1>1. work = "idle" /\ asyncRes = "ok" /\ ~Flying /\ InFlight = 0 /\ pc = "block"
  BY DEF BlockStep, Waited, MustWait, Flying, InFlight
<1>2. UNCHANGED <<taken, endMarked, lockParams, granted, ending, data, index, end>>
  BY DEF BlockStep, CompressInternal, GetBlock, dictVars, frameVars, userVars
<1>3. CASE ~(outThread = threadCount /\ HasUnprocessed)
  <2>1. /\ UNCHANGED <<start, work, asyncRes, curBlock, wroteProp, streamProp>>
        /\ Stream' = Stream
    BY <1>3, BlockStepWrites DEF BlockStep, CompressInternal, dictVars, workVars, blockVars
  <2>2. ~Flying' /\ Good' = Good /\ InFlight' = 0
    BY <1>1, <1>2, <2>1 DEF Flying, Good, InFlight
  <2>3. \A d : Announced(d) => Announced(d)'
    BY <1>2, <2>1 DEF Announced, Done
  <2>4. Framed(Stream, endMarked)'
    BY <1>2, <2>1 DEF StreamInv, Framed, PieceAt
  <2>5. (Good => Got(Stream, endMarked) + InFlight + (end - start) = taken)'
    BY <1>1, <1>2, <2>1, <2>2 DEF StreamInv, Got
  <2>6. (Stream # <<>> => Announced(Stream[1].dict))'
    BY <2>1, <2>3 DEF StreamInv
  <2>7. QED
    BY <1>1, <1>2, <2>1, <2>2, <2>4, <2>5, <2>6 DEF StreamInv
<1>4. CASE outThread = threadCount /\ HasUnprocessed
  <2> DEFINE s == Stream
             b == Block
             n == end - start
             prop == PropFor(call = "endStream")
             v == s \o (prop \o Bytes(b, b.end - b.start))
             g == Got(s, FALSE)
  <2>1. CompressCurBlock(b, prop) /\ curBlock' = b /\ wroteProp' = TRUE /\ start' = end
    BY <1>4 DEF BlockStep, CompressInternal, GetBlock
  <2>2. /\ DictTypeOK /\ WindowIsHistory /\ start < end /\ end <= Size
        /\ start \in Nat /\ end \in Nat /\ BlockOK(b)
        /\ b.start = start /\ b.end = end /\ b.buffer = index
    BY <1>4 DEF CInv, IInv, DictTypeOK, HasUnprocessed, Block, BlockOK
  <2>3. endMarked = FALSE /\ lockParams /\ Good
    <3>1. start # end
      BY <2>2
    <3>2. QED
      BY <1>1, <3>1 DEF CInv, Flags, Control, EndIsEnd, CallOf, CallRelies, TakesInput, Good
  <2>4. s \in Seq(Piece) /\ Framed(s, FALSE) /\ (wroteProp <=> s # <<>>)
    BY <1>1, <2>3, StreamType DEF StreamInv, CInv
  <2>5. g \in Int /\ g + n = taken
    <3>1. g + 0 + (end - start) = taken /\ g \in Int
      BY <1>1, <2>3, GotType DEF StreamInv
    <3>2. n \in Int
      BY <2>2
    <3> HIDE DEF g
    <3>3. g + 0 = g
      BY <3>1
    <3>4. QED
      BY <3>1, <3>3
  <2>6. s # <<>> => /\ \A e : e = s[1].dict => Announced(e)'
                    /\ prop = <<>>
    <3> SUFFICES ASSUME s # <<>>, NEW e, e = s[1].dict PROVE Announced(e)' /\ prop = <<>>
      BY <2>4 DEF PropFor
    <3>1. e \in Int
      BY <2>4, HeaderType
    <3>2. ~(e < Size)
      BY <2>2 DEF StreamInv, Announced, Done
    <3>3. QED
      BY <2>1, <2>2, <2>4, <3>1, <3>2 DEF Announced, PropFor
  <2>7. s = <<>> => \E d \in Int : prop = <<Prop(d)>> /\ Announced(d)'
    <3> SUFFICES ASSUME ~wroteProp PROVE \E d \in Int : prop = <<Prop(d)>> /\ Announced(d)'
      BY <2>4
    <3> DEFINE m == IF dictMax > end THEN dictMax ELSE end
    <3>1. m \in Int /\ end <= m /\ Size \in Int
      BY <2>2 DEF CInv, Counters
    <3>2. CASE call = "endStream"
      <4>1. ending /\ ~granted
        BY <1>1, <3>2 DEF CInv, Control, CallRelies
      <4>2. Done'
        BY <1>2, <2>1, <4>1 DEF Done
      <4>3. PICK d \in Int : d = m
        BY <3>1
      <4>4. prop = <<Prop(d)>>
        BY <3>2, <4>3 DEF PropFor
      <4> HIDE DEF m, prop
      <4>5. Announced(d)'
        BY <2>1, <2>2, <3>1, <4>2, <4>3 DEF Announced
      <4>6. QED
        BY <4>4, <4>5
    <3>3. CASE call # "endStream"
      <4>1. prop = <<Prop(Size)>>
        BY <3>3 DEF PropFor
      <4> HIDE DEF prop
      <4>2. Announced(Size)'
        BY <2>1, <2>2, <3>1 DEF Announced
      <4>3. QED
        BY <3>1, <4>1, <4>2
    <3>4. QED
      BY <3>2, <3>3
  <2> HIDE DEF prop
  <2>8. PICK d \in Int : /\ prop \in {<<>>, <<Prop(d)>>} /\ (prop = <<>> <=> s # <<>>)
                         /\ prop # <<>> => Announced(d)'
    <3>1. CASE s # <<>>
      BY <2>6, <3>1
    <3>2. CASE s = <<>>
      <4>1. PICK d \in Int : prop = <<Prop(d)>> /\ Announced(d)'
        BY <2>7, <3>2
      <4> DEFINE x == Prop(d)
      <4>2. prop = <<x>>
        BY <4>1
      <4> HIDE DEF x
      <4>3. prop # <<>>
        BY <4>2
      <4>4. QED
        BY <3>2, <4>1, <4>3
    <3>3. QED
      BY <3>1, <3>2
  <2>9. \A i \in b.start .. b.end - 1 : data[b.buffer][i] = g + (i - b.start)
    <3> SUFFICES ASSUME NEW i \in start .. end - 1 PROVE data[index][i] = g + (i - start)
      BY <2>2
    <3>1. data[index][i] = taken - end + i
      BY <2>2 DEF WindowIsHistory
    <3>2. taken \in Nat
      BY <2>2 DEF DictTypeOK
    <3> HIDE DEF g
    <3>3. QED
      BY <2>2, <2>5, <3>1, <3>2
  <2>10. end' - start' = 0 /\ taken' = taken /\ endMarked' = FALSE
    BY <1>2, <2>1, <2>2, <2>3
  <2>11. CASE thread
    <3>1. /\ work' = "queued" /\ streamProp' = prop /\ Flying'
          /\ Stream' = s
      <4>1. work' = "queued" /\ streamProp' = prop
        BY <2>1, <2>11 DEF CompressCurBlock
      <4>2. QED
        BY <2>11, <4>1, BlockStepWrites DEF Flying
    <3>2. InFlight' = n
      BY <2>1, <2>2, <3>1 DEF InFlight
    <3>3. Framed(Stream, endMarked)'
      BY <2>4, <2>10, <3>1 DEF Framed, PieceAt
    <3>4. (Got(Stream, endMarked) + InFlight + (end - start) = taken)'
      <4>1. Got(Stream, endMarked)' = g
        BY <2>10, <3>1 DEF Got
      <4>2. n \in Int
        BY <2>2
      <4> HIDE DEF g, n
      <4>3. g + n + 0 = taken
        BY <2>5, <4>2
      <4>4. QED
        BY <2>10, <3>2, <4>1, <4>3
    <3>5. (Stream # <<>> => Announced(Stream[1].dict))'
      BY <2>6, <3>1 DEF Announced
    <3>6. InTurn(curBlock)'
      <4>1. Got(Stream, FALSE)' = g /\ data' = data /\ curBlock' = b
        BY <1>2, <2>1, <3>1 DEF Got
      <4> HIDE DEF b, g
      <4>2. QED
        BY <2>9, <4>1 DEF InTurn
    <3>7. InCompression'
      BY <2>8, <3>1, <3>6 DEF InCompression
    <3>8. QED
      BY <2>1, <3>1, <3>3, <3>4, <3>5, <3>7 DEF StreamInv
  <2>12. CASE ~thread /\ asyncRes' = "failed"
    <3>1. ~Good' /\ ~Flying' /\ Stream' = s
      BY <1>1, <2>1, <2>12, BlockStepWrites DEF CompressCurBlock, Good, Flying
    <3>2. Framed(Stream, endMarked)'
      BY <2>4, <2>10, <3>1 DEF Framed, PieceAt
    <3>3. (Stream # <<>> => Announced(Stream[1].dict))'
      BY <2>6, <3>1 DEF Announced
    <3>4. QED
      BY <2>1, <3>1, <3>2, <3>3 DEF StreamInv
  <2>13. CASE ~thread /\ asyncRes' = "ok"
    <3>1. ~Flying' /\ InFlight' = 0 /\ Stream' = v
      <4>1. work' = "idle"
        BY <1>1, <2>1, <2>13 DEF CompressCurBlock
      <4>2. ~Flying' /\ InFlight' = 0
        BY <4>1 DEF Flying, InFlight
      <4>3. Publishes(b, prop)
        BY <2>13, <1>4, BlockStepWrites DEF prop
      <4>4. QED
        BY <4>2, <4>3 DEF Publishes
    <3>2. /\ Framed(v, FALSE) /\ v # <<>>
          /\ Got(v, FALSE) = g + n
          /\ s # <<>> => v[1] = s[1]
          /\ prop # <<>> => v[1] = Prop(d)
      <4>1. n = b.end - b.start
        BY <2>2
      <4> HIDE DEF b, n, s
      <4>2. QED
        BY <2>2, <2>4, <2>8, <2>9, <4>1, FramedBlock, ZenonT(40)
    <3> HIDE DEF v
    <3>3. \A e : e = v[1].dict => Announced(e)'
      <4>1. CASE s # <<>>
        BY <2>6, <3>2, <4>1
      <4>2. CASE prop # <<>>
        BY <2>8, <3>2, <4>2, KindsDiffer
      <4>3. QED
        BY <2>8, <4>1, <4>2
    <3>4. Framed(Stream, endMarked)'
      BY <2>10, <3>1, <3>2 DEF Framed, PieceAt
    <3>5. (Got(Stream, endMarked) + InFlight + (end - start) = taken)'
      <4>1. Got(Stream, endMarked)' = g + n
        BY <2>10, <3>1, <3>2 DEF Got
      <4>2. taken \in Nat
        BY <2>2 DEF DictTypeOK
      <4> HIDE DEF g, n
      <4>3. (g + n) + 0 + 0 = taken
        BY <2>5, <4>2
      <4>4. QED
        BY <2>10, <3>1, <4>1, <4>3
    <3>6. Announced(Stream[1].dict)'
      BY <3>1, <3>3 DEF Announced
    <3>7. QED
      BY <2>1, <3>1, <3>2, <3>4, <3>5, <3>6 DEF StreamInv
  <2>14. QED
    <3>1. ~thread => asyncRes' \in {"ok", "failed"}
      BY <2>1 DEF CompressCurBlock
    <3>2. QED
      BY <2>11, <2>12, <2>13, <3>1
<1>5. QED
  BY <1>3, <1>4

LEMMA NextKeepsStreamInv ==
  ASSUME CInv, NoEmptyUpdate, EndingLater, StreamInv, Next
  PROVE  StreamInv'
  BY InitCStreamKeepsStreamInv, QuietKeepsStreamInv, WorkKeepsStreamInv,
     EndWrittenKeepsStreamInv, BlockStepKeepsStreamInv DEF Quiet

LEMMA StutterKeepsStreamInv == ASSUME CInv, StreamInv, UNCHANGED vars PROVE StreamInv'
<1>1. /\ UNCHANGED <<curBlock, wroteProp, streamProp, data, start, end, taken, endMarked,
                     lockParams, granted, ending, work, asyncRes>>
      /\ UNCHANGED <<out, outThread, outPos, jobs, threadCount>>
  BY DEF vars, innerVars, dictVars, workVars, blockVars, outVars, frameVars, userVars
<1>2. Stream' = Stream
  BY <1>1, WrittenStays DEF CInv
<1>3. Flying' = Flying /\ Good' = Good /\ InFlight' = InFlight
  BY <1>1 DEF Flying, Good, InFlight
<1>4. \A d : Announced(d) => Announced(d)'
  BY <1>1 DEF Announced, Done
<1>5. Framed(Stream, endMarked)'
  BY <1>1, <1>2 DEF StreamInv, Framed, PieceAt
<1>6. (Good => Got(Stream, endMarked) + InFlight + (end - start) = taken)'
  BY <1>1, <1>2, <1>3 DEF StreamInv, Got
<1>7. Flying => InCompression'
  BY <1>1, <1>2, <1>4 DEF StreamInv, InCompression, InTurn
<1>8. (Stream # <<>> => Announced(Stream[1].dict))'
  BY <1>2, <1>4 DEF StreamInv
<1>9. QED
  BY <1>1, <1>2, <1>3, <1>5, <1>6, <1>7, <1>8 DEF StreamInv

LEMMA StreamInvariance == NoEmptyUpdate => (Spec => []StreamInv)
<1>1. Init => StreamInv
  BY InitStreamInv
<1>2. CInv /\ NoEmptyUpdate /\ EndingLater /\ StreamInv /\ [Next]_vars => StreamInv'
  BY NextKeepsStreamInv, StutterKeepsStreamInv
<1>3. NoEmptyUpdate => NoEmptyUpdate'
  BY DEF NoEmptyUpdate
<1>4. QED
  BY <1>1, <1>2, <1>3, CInvariance, EndingInvariance, PTL DEF Spec

-----------------------------------------------------------------------------
(* What follows from it.                                                   *)

(* No byte is lost, repeated or moved on its way through the dictionary    *)
(* buffers, the block in compression, the slices and the copies to the     *)
(* caller, for buffers, slices and calls of any size.                      *)
THEOREM NothingLost == NoEmptyUpdate => (Spec => []NothingLostOrRepeated)
<1>1. CInv /\ StreamInv => NothingLostOrRepeated
  <2> SUFFICES ASSUME CInv, StreamInv, Good
               PROVE  InOrder(Stream) /\ Covered(Stream) + InFlight + (end - start) = taken
    BY DEF NothingLostOrRepeated, Good
  <2>1. Stream \in Seq(Piece) /\ endMarked \in BOOLEAN /\ Framed(Stream, endMarked)
    BY StreamType DEF CInv, Flags, StreamInv
  <2>2. InOrder(Stream) /\ Covered(Stream) = Got(Stream, endMarked)
    BY <2>1, FramedInOrder
  <2>3. Got(Stream, endMarked) + InFlight + (end - start) = taken
    BY DEF StreamInv
  <2>4. QED
    BY <2>2, <2>3
<1>2. QED
  BY <1>1, CInvariance, StreamInvariance, PTL

(* The header is first and once, the end marker last and once, and the     *)
(* dictionary announced at the start of the stream covers every block that *)
(* comes later: a smaller one is announced only when nothing more can come.*)
THEOREM StreamIsWellFormed == NoEmptyUpdate => (Spec => []WellFormed)
<1>1. CInv /\ StreamInv => WellFormed
  <2> SUFFICES ASSUME CInv, StreamInv PROVE WellFormed
    OBVIOUS
  <2>1. Stream \in Seq(Piece) /\ endMarked \in BOOLEAN /\ Framed(Stream, endMarked)
    BY StreamType DEF CInv, Flags, StreamInv
  <2>2. \A i \in 1 .. Len(Stream) :
          (Stream[i].kind = "prop") = (i = 1) /\ (Stream[i].kind = "end" => i = Len(Stream))
    BY <2>1, FramedInOrder
  <2>3. Stream # <<>> => curBlock.end <= Stream[1].dict
    BY DEF StreamInv, Announced
  <2>4. QED
    BY <2>2, <2>3, Zenon DEF WellFormed
<1>2. QED
  BY <1>1, CInvariance, StreamInvariance, PTL

(* A stream that has its end marker holds all of the input, whatever       *)
(* failed, timed out or was canceled on the way.                           *)
THEOREM EndIsLast == NoEmptyUpdate => (Spec => []EndFollowsAll)
<1>1. CInv /\ StreamInv => EndFollowsAll
  <2> SUFFICES ASSUME CInv, StreamInv, endMarked
               PROVE  /\ Stream # <<>> /\ Last(Stream) = EndMark
                      /\ InOrder(Stream) /\ Covered(Stream) = taken
    BY DEF EndFollowsAll
  <2>1. Stream \in Seq(Piece) /\ endMarked \in BOOLEAN /\ Framed(Stream, endMarked)
    BY StreamType DEF CInv, Flags, StreamInv
  <2>2. /\ InOrder(Stream) /\ Covered(Stream) = Got(Stream, endMarked)
        /\ Stream # <<>> /\ Last(Stream) = EndMark
    BY <2>1, FramedInOrder
  <2>3. /\ start = end /\ asyncRes = "ok" /\ ~lockParams /\ work = "idle"
        /\ end \in Nat
    BY DEF CInv, Control, EndIsEnd, RunsAlone, IInv, DictTypeOK
  <2>4. Got(Stream, endMarked) + InFlight + (end - start) = taken
    BY <2>3 DEF StreamInv, Good
  <2>5. InFlight = 0 /\ end - start = 0
    BY <2>3 DEF InFlight
  <2> DEFINE g == Got(Stream, endMarked)
  <2>6. g \in Int
    BY GotType
  <2> HIDE DEF g
  <2>7. g + 0 + 0 = g
    BY <2>6
  <2>8. QED
    BY <2>2, <2>4, <2>5, <2>7 DEF g
<1>2. QED
  BY <1>1, CInvariance, StreamInvariance, PTL

-----------------------------------------------------------------------------
(* Every call does something, or says why it did not.                      *)

(* What a call that has done nothing yet has found.                        *)
Stuck ==
  /\ pc = "full" /\ ~moved => AvailSpace = 0
  /\ pc = "copyOut" /\ ~moved => moreIn = 0 \/ HasOutput
  /\ pc = "report" /\ call = "compressStream" /\ ~moved =>
       moreIn = 0 \/ (HasOutput /\ room \in {NoOutput, 0})

Progress == Stuck /\ CallsMakeProgress

(* With no room nothing is copied, and the output stays.                   *)
LEMMA CopyNothing ==
  ASSUME CInv, CopyIfAny, UNCHANGED <<jobs, threadCount>>, room \in {NoOutput, 0}
  PROVE  room' = room /\ (outThread' < threadCount' <=> outThread < threadCount)
<1>1. Written /\ Stream' = Stream /\ Written'
  BY CopyKeeps DEF CInv
<1>2. CASE UNCHANGED <<outVars, room, moved>>
  BY <1>2 DEF outVars
<1>3. CASE room # NoOutput /\ HasOutput /\ CopyOutput(room)
  <2>1. room = 0
    BY <1>3
  <2>2. Unwritten \in Seq(Piece) /\ Len(Unwritten) \in Nat
    BY <1>1, UnwrittenType, LenProperties
  <2>3. Min({0, Len(Unwritten)}) = 0
    <3>1. Min({0, Len(Unwritten)}) = IF 0 <= Len(Unwritten) THEN 0 ELSE Len(Unwritten)
      BY <2>2, SmallerOfTwo
    <3>2. QED
      BY <2>2, <3>1
  <2>4. room' = 0 /\ out' = out \o SubSeq(Unwritten, 1, 0)
    BY <1>3, <2>1, <2>3 DEF CopyOutput
  <2>5. out' = out
    <3>1. out \in Seq(Piece) /\ SubSeq(Unwritten, 1, 0) = <<>>
      BY <1>1 DEF Written
    <3>2. QED
      BY <2>4, <3>1, ConcatEmptySeq
  <2>6. outThread < threadCount /\ Len(Unwritten) > 0
    BY <1>1, <1>3, UnwrittenType DEF HasOutput
  <2>7. outThread' # threadCount'
    <3> SUFFICES ASSUME outThread' = threadCount' PROVE FALSE
      OBVIOUS
    <3>1. (outThread = threadCount)'
      OBVIOUS
    <3>2. (Unwritten = <<>>)'
      BY <1>1, <3>1, AllWritten, PTL
    <3>3. out \in Seq(Piece) /\ Stream = out \o Unwritten /\ Stream' = out \o <<>>
      BY <1>1, <2>5, <3>2 DEF Written, Stream
    <3> DEFINE w == Unwritten
    <3>4. w \in Seq(Piece) /\ Len(w) > 0 /\ out \in Seq(Piece) /\ out \o w = out \o <<>>
      BY <1>1, <2>2, <2>6, <3>3
    <3> HIDE DEF w
    <3>5. Len(out \o w) = Len(out) + Len(w) /\ Len(out \o <<>>) = Len(out) /\ Len(out) \in Nat
      BY <3>4, ConcatProperties, ConcatEmptySeq, LenProperties
    <3>6. QED
      BY <3>4, <3>5, LenProperties
  <2>8. outThread' < threadCount'
    BY <1>1, <2>7 DEF Written
  <2>9. QED
    BY <2>1, <2>4, <2>6, <2>8
<1>4. QED
  BY <1>2, <1>3 DEF CopyIfAny

LEMMA CallsKeepProgress == ASSUME CInv, Progress, UserCalls PROVE Progress'
  BY DEF Progress, Stuck, CallsMakeProgress, UserCalls, InitCStream, InitMissing, SetTimeout,
         CompressStream, FlushStream, EndStream, CopyCStreamOutput, GetDictionaryBuffer,
         UpdateDictionary, GetNextCompressedBuffer, WaitCStream, CancelCStream, Begins, Simple,
         Return

LEMMA InternalsKeepProgress == ASSUME CInv, Progress, InCall \/ Work PROVE Progress'
<1> USE DEF Progress, Stuck, CallsMakeProgress, Return, innerVars, callVars
<1>1. /\ CallOf /\ asyncRes \in Results /\ moved \in BOOLEAN
      /\ room \in Nat \cup {NoOutput}
  BY DEF CInv, Control, Counters, Flags
<1>2. CASE CopyIn \/ Input \/ Grant \/ CancelBegins \/ EndWritten \/ EndLater
  BY <1>1, <1>2 DEF CopyIn, Input, Grant, CancelBegins, EndWritten, EndLater, CallOf
<1>3. CASE Check
  BY <1>3 DEF Check, AsyncResult, Running, CInv, Counters, Results
<1>4. CASE StopWaiting
  BY <1>1, <1>4 DEF StopWaiting, WaitStops, Results
<1>5. CASE PutInput
  <2>1. call = "compressStream" /\ call' = call
    BY <1>1, <1>5 DEF PutInput, CallOf
  <2>2. CASE AsyncResult # "ok"
    BY <1>1, <1>5, <2>2 DEF PutInput, AsyncResult, Results
  <2>3. CASE AsyncResult = "ok"
    <3> DEFINE n == Min({moreIn, AvailSpace})
    <3>1. /\ Put(n) /\ moved' = (moved \/ n > 0)
          /\ pc' = IF n = AvailSpace THEN "full" ELSE "check"
      BY <1>5, <2>3 DEF PutInput
    <3>2. n \in Nat
      BY <1>5, PutSome DEF PutInput
    <3>3. Size \in Nat /\ end \in Nat /\ AvailSpace = Size - end
      BY DEF CInv, IInv, DictTypeOK, AvailSpace
    <3> HIDE DEF n
    <3>4. pc' = "full" /\ ~moved' => AvailSpace' = 0
      <4> SUFFICES ASSUME n = AvailSpace, ~(n > 0) PROVE AvailSpace' = 0
        BY <3>1
      <4>1. n = 0 /\ end' = end + n
        BY <3>1, <3>2 DEF Put
      <4>2. end' = end /\ Size - end = 0
        BY <3>3, <4>1
      <4>3. QED
        BY <4>2 DEF AvailSpace
    <3>5. pc' \in {"full", "check"}
      BY <3>1
    <3>6. QED
      BY <3>4, <3>5
  <2>4. QED
    BY <2>2, <2>3
<1>6. CASE Full
  <2>1. /\ HasOutput' = HasOutput /\ moved' = moved
        /\ pc' = IF HasOutput THEN "copyOut" ELSE "block"
    BY <1>6 DEF Full, HasOutput, Running, workVars, outVars
  <2>2. QED
    BY <2>1
<1>7. CASE BlockStep
  <2>1. asyncRes' \in {"ok", "failed"}
    BY <1>7 DEF BlockStep, Waited, MustWait, CompressInternal, CompressCurBlock, workVars
  <2>2. /\ UNCHANGED <<call, room, moreIn, moved>>
        /\ IF asyncRes' # "ok" THEN pc' = "idle" /\ ret' = asyncRes'
           ELSE pc' \in {"check", "grant", "report", "flush", "end"}
        /\ asyncRes' = "ok" /\ pc' = "report" => call # "compressStream"
    BY <1>1, <1>7 DEF BlockStep, CallOf
  <2>3. QED
    BY <2>1, <2>2
<1>8. CASE CopyOut
  <2>1. /\ CopyIfAny /\ UNCHANGED <<jobs, threadCount, work, asyncPending, call, moreIn>>
        /\ pc = "copyOut" /\ pc' \in {"cancel", "report"}
    BY <1>8 DEF CopyOut, LoopCheck, workVars
  <2> SUFFICES ASSUME ~moved' PROVE moreIn' = 0 \/ (HasOutput' /\ room' \in {NoOutput, 0})
    BY <2>1
  <2>2. ~moved
    BY <2>1, CopyKeeps
  <2>3. CASE moreIn = 0
    BY <2>1, <2>3
  <2>4. CASE HasOutput
    <3>1. ~Running /\ outThread < threadCount
      BY <2>4 DEF HasOutput
    <3>2. room \in {NoOutput, 0}
      <4>1. ~(room # NoOutput /\ room > 0)
        BY <2>1, <3>1, CopyKeeps
      <4>2. QED
        BY <1>1, <4>1
    <3>3. room' = room /\ outThread' < threadCount'
      BY <2>1, <3>1, <3>2, CopyNothing
    <3>4. ~Running'
      BY <2>1, <3>1 DEF Running
    <3>5. QED
      BY <3>2, <3>3, <3>4 DEF HasOutput
  <2>5. QED
    BY <2>1, <2>2, <2>3, <2>4
<1>9. CASE Report
  <2>1. UNCHANGED <<call, room, moreIn, moved>> /\ pc = "report" /\ pc' = "idle"
        /\ ret' = IF HasOutput THEN "more" ELSE "done"
    BY <1>9 DEF Report
  <2>2. call # "endStream"
    BY <1>1, <2>1 DEF CallOf
  <2>3. QED
    BY <2>1, <2>2
<1>10. CASE Flush
  <2>1. pc' \in {"cancel", "idle"} /\ call' = "flushStream"
    BY <1>1, <1>10 DEF Flush, LoopCheck, CallOf
  <2>2. QED
    BY <2>1
<1>11. CASE EndCopy
  <2>1. /\ CopyIfAny /\ UNCHANGED <<jobs, threadCount>> /\ call' = "endStream"
        /\ pc' \in {"cancel", "idle"}
        /\ ret' = "more" => outThread' < threadCount \/ outThread < threadCount
    BY <1>1, <1>11 DEF EndCopy, LoopCheck, CallOf, workVars
  <2>2. ~Running
    BY <1>11 DEF EndCopy, CInv, Control, CallRelies, Running
  <2> SUFFICES ASSUME ret' = "more", ~moved' PROVE room' \in {NoOutput, 0}
    BY <2>1
  <2>3. outThread < threadCount
    <3>1. outThread <= outThread' /\ Written /\ Written'
      BY <2>1, CopyKeeps DEF CInv
    <3>2. QED
      BY <2>1, <3>1 DEF Written
  <2>4. ~(room # NoOutput /\ room > 0)
    BY <2>1, <2>2, <2>3, CopyKeeps
  <2>5. room \in {NoOutput, 0}
    BY <1>1, <2>4
  <2>6. QED
    BY <2>1, <2>5, CopyNothing
<1>12. CASE HandOut \/ Copy \/ WaitEnds
  <2>1. pc' = "idle" /\ call' \in {"getNextCompressedBuffer", "copyCStreamOutput", "waitCStream"}
    BY <1>1, <1>12 DEF HandOut, Copy, WaitEnds, CallOf
  <2>2. QED
    BY <2>1
<1>13. CASE CancelEnds
  BY <1>13 DEF CancelEnds
<1>14. CASE Work
  <2>1. /\ UNCHANGED <<pc, call, ret, room, moreIn, moved, end>> /\ work # "idle"
    BY <1>14 DEF Work, WorkBuilds, WorkEncodes, WorkPublishes, WorkReturns, dictVars
  <2>2. ~HasOutput /\ AvailSpace' = AvailSpace
    BY <2>1 DEF HasOutput, Running, CInv, Control, RunsAlone, AvailSpace
  <2>3. QED
    BY <2>1, <2>2
<1>15. QED
  BY <1>2, <1>3, <1>4, <1>5, <1>6, <1>7, <1>8, <1>9, <1>10, <1>11, <1>12, <1>13, <1>14 DEF InCall

(* A call that takes input or ends the stream does something, unless it    *)
(* had nothing to do or no room: UF2_loopCheck's limit is for callers that *)
(* give none, and never stops one that does its part.                      *)
THEOREM CallsProgress == Spec => []CallsMakeProgress
<1>1. Init => Progress
  BY DEF Init, Progress, Stuck, CallsMakeProgress
<1>2. CInv /\ Progress /\ Next => Progress'
  BY CallsKeepProgress, InternalsKeepProgress DEF Next
<1>3. Progress /\ UNCHANGED vars => Progress'
  BY DEF Progress, Stuck, CallsMakeProgress, HasOutput, Running, AvailSpace, vars, innerVars,
         dictVars, workVars, outVars, callVars
<1>4. CInv /\ Progress /\ [Next]_vars => Progress'
  BY <1>2, <1>3
<1>5. Spec => []Progress
  BY <1>1, <1>4, CInvariance, PTL DEF Spec
<1>6. QED
  BY <1>5, PTL DEF Progress
=============================================================================
