------------------------------ MODULE XzStream ------------------------------
(***************************************************************************)
(* The .xz framing of streaming compression (uf2_compress.c): a Stream     *)
(* Header, blocks that begin where the dictionary is reset, and the index. *)
(* Framing waits in two small buffers, `head` before the compressed slices *)
(* and `tail` after them; with sized headers a block is held back until    *)
(* both of its sizes are known.                                            *)
(*                                                                         *)
(* An output byte is a record that says what it is part of; a block header *)
(* or trailer, an index and its footer are one each.  A function of the    *)
(* code that can run out of memory at several points is the set of its     *)
(* outcomes: the stream's output state, and whether it succeeded.  How the *)
(* calls of the interface string these functions together is the subject   *)
(* of CStream; here the caller makes them in any order the calls allow.    *)
(***************************************************************************)
EXTENDS DictBuffer, Sequences, SequencesExt, TLC

CONSTANTS
  JobCount,     \* cctx->jobCount
  Holds,        \* the values UF2_p_xzSizedHeaders may have
  MayFail,      \* an allocation may fail
  Retries,      \* the caller goes on after an error that framing reported
  InputSizes,   \* bound: bytes put at a time
  OutputSizes   \* bound: output->size - output->pos

ASSUME JobsAssumption   == JobCount \in Nat \ {0}
ASSUME HoldsAssumption  == Holds \subseteq BOOLEAN
ASSUME CallerAssumption == MayFail \in BOOLEAN /\ Retries \in BOOLEAN
ASSUME SizesAssumption  == InputSizes \subseteq Nat /\ OutputSizes \subseteq Nat

VARIABLES
  fcs,          \* the output state: xz.head, xz.tail, xz.block, ..., outThread, outPos
  jobs,         \* the slices compressed last; threadCount is their number
  running,      \* UF2_asyncRunning
  curBlock,
  ending, endMarked,
  ended,        \* UF2_endStream returned 0
  failed,       \* framing reported an error
  out           \* history: what the caller received

userVars == <<ending, endMarked, ended, failed>>
vars     == <<dictVars, fcs, jobs, running, curBlock, userVars, out>>

-----------------------------------------------------------------------------
(* What a file is made of.                                                 *)
FileHeader             == [kind |-> "header"]
BlockHeader(c, u, dict) == [kind |-> "block", compressed |-> c, uncompressed |-> u, dict |-> dict]
BlockEnd(check)        == [kind |-> "blockEnd", check |-> check]
Index(records)         == [kind |-> "index", records |-> records]
Unknown                == -1                              \* XZ_SIZE_UNKNOWN

(* Outcomes of a function, and f after one that succeeded.                 *)
Ok(s)          == {[fcs |-> s, res |-> "ok"]}
OutOfMemory(s) == IF MayFail THEN {[fcs |-> s, res |-> "memory"]} ELSE {}
Then(os, f(_)) == UNION {IF o.res = "ok" THEN f(o.fcs) ELSE {o} : o \in os}

(* What is left to be written of the slices below u.                       *)
Rest(s, u)    == IF u = s.outThread THEN SubSeq(jobs[u + 1], s.outPos + 1, Len(jobs[u + 1]))
                 ELSE jobs[u + 1]
Pending(s, u) == FlattenSeq([i \in 1 .. u - s.outThread |-> Rest(s, s.outThread + i - 1)])
HasSlices(s)  == ~running /\ s.outThread < Len(jobs)

(* Mutant of HasOutput: what follows the slices is forgotten.              *)
HasOutputNoTail(s) == HasSlices(s) \/ s.head # <<>>

HasOutput(s) == HasSlices(s) \/ s.head # <<>> \/ s.tail # <<>>    \* UF2_hasOutput

-----------------------------------------------------------------------------
(* The compressed size of the slices, added to the open block once.        *)
Account(s) ==
  IF s.unaccounted
  THEN [s EXCEPT !.cSize = @ + Len(FlattenSeq(jobs)), !.unaccounted = FALSE]
  ELSE s

AddRecord(s, unpadded, uncompressed) ==
  Ok([s EXCEPT !.records = Append(@, [unpadded |-> unpadded, uncompressed |-> uncompressed])])
    \cup OutOfMemory(s)

(* Mutant of CloseBlock: the last slices are not accounted first.          *)
CloseUnaccounted(s, dst) ==
  LET b == [s EXCEPT ![dst] = Append(@, BlockEnd(s.check)), !.cSize = @ + 1]
  IN  OutOfMemory(s) \cup Then(AddRecord(b, b.cSize, b.uSize),
                               LAMBDA x : Ok([x EXCEPT !.open = FALSE]))

CloseBlock(s, dst) ==
  LET a == Account(s)
      b == [a EXCEPT ![dst] = Append(@, BlockEnd(a.check)), !.cSize = @ + 1]
  IN  OutOfMemory(a) \cup Then(AddRecord(b, b.cSize, b.uSize),
                               LAMBDA x : Ok([x EXCEPT !.open = FALSE]))

(* Mutant of AbsorbTo: the slices that were absorbed are not marked so.    *)
AbsorbAgain(s, u) == [s EXCEPT !.block = @ \o Pending(s, u),
                               !.outThread = IF u = Len(jobs) THEN u ELSE @]

(* Held slices go into the open block, as far as there is memory.          *)
AbsorbTo(s, u) ==
  [s EXCEPT !.block = @ \o Pending(s, u),
            !.outThread = u,
            !.outPos = IF u = s.outThread THEN @ ELSE 0]

Absorb(s) ==
  IF s.hold /\ HasSlices(s)
  THEN Ok([AbsorbTo(s, Len(jobs)) EXCEPT !.unaccounted = FALSE])
         \cup UNION {OutOfMemory(AbsorbTo(s, u)) : u \in s.outThread .. Len(jobs) - 1}
  ELSE Ok(s)

CloseHeldBlock(s) ==
  LET c     == Len(s.block) + 1
      trail == BlockEnd(s.check)
      hdr   == BlockHeader(c, s.uSize, IF s.uSize < Size THEN s.uSize ELSE Size)
      moved == [s EXCEPT !.head = @ \o <<hdr>> \o s.block \o <<trail>>, !.block = <<>>]
  IN  OutOfMemory(s)
        \cup (IF s.head # <<>> THEN OutOfMemory([s EXCEPT !.block = Append(@, trail)]) ELSE {})
        \cup Then(AddRecord(moved, c, s.uSize), LAMBDA x : Ok([x EXCEPT !.open = FALSE]))

CloseIfOpen(s, dst) ==
  IF ~s.open THEN Ok(s)
  ELSE IF s.hold THEN Then(Absorb(s), CloseHeldBlock)
  ELSE CloseBlock(s, dst)

OpenBlock(s, dict) ==
  LET header == IF s.hold THEN <<>> ELSE <<BlockHeader(Unknown, Unknown, dict)>>
  IN  Ok([s EXCEPT !.head = @ \o header, !.check = <<>>, !.uSize = 0, !.cSize = 0, !.open = TRUE])
        \cup OutOfMemory(s)

BlockBytes(b) == [i \in 1 .. b.end - b.start |-> data[b.buffer][b.start + i - 1]]

(* Mutant of BeginCompression: the file is one block.                      *)
BeginOnlyOnce(s, b, final) ==
  LET a      == Account(s)
      framed == IF ~a.open THEN OpenBlock(a, IF final THEN b.end ELSE Size) ELSE Ok(a)
  IN  Then(framed, LAMBDA x : Ok([x EXCEPT !.check = @ \o BlockBytes(b),
                                           !.uSize = @ + (b.end - b.start)]))

(* A block with no history begins with a dictionary reset, and there a     *)
(* block of the file begins.                                               *)
BeginCompression(s, b, final) ==
  LET a      == Account(s)
      framed == IF b.start = 0
                THEN Then(CloseIfOpen(a, "head"),
                          LAMBDA x : OpenBlock(x, IF final THEN b.end ELSE Size))
                ELSE Ok(a)
  IN  Then(framed, LAMBDA x : Ok([x EXCEPT !.check = @ \o BlockBytes(b),
                                           !.uSize = @ + (b.end - b.start)]))

XzEnd(s, dst) ==
  Then(CloseIfOpen(s, dst),
       LAMBDA x : Ok([x EXCEPT ![dst] = Append(@, Index(x.records))]) \cup OutOfMemory(x))

-----------------------------------------------------------------------------
(* A block's slices; only the first byte of a block without history resets *)
(* the dictionary.                                                         *)
Encoded(b, first, last) ==
  [i \in 1 .. last - first |->
     [kind |-> "lz", at |-> data[b.buffer][first + i - 1], window |-> b.end,
      reset |-> first + i = 1]]

Slices(b) ==
  LET size == b.end - b.start
      nb   == IF size < JobCount THEN size ELSE JobCount
      From(u) == IF u = nb THEN b.end ELSE b.start + u * (size \div nb)
  IN  [u \in 1 .. nb |-> Encoded(b, From(u - 1), From(u))]

Start(h) ==
  [hold |-> h, head |-> <<FileHeader>>, tail |-> <<>>, block |-> <<>>, records |-> <<>>,
   check |-> <<>>, uSize |-> 0, cSize |-> 0, open |-> FALSE,
   unaccounted |-> FALSE, outThread |-> 0, outPos |-> 0]

Init ==
  /\ DictInit
  /\ fcs \in {Start(h) : h \in Holds} /\ jobs = <<>> /\ running = FALSE
  /\ curBlock = Block
  /\ ending = FALSE /\ endMarked = FALSE /\ ended = FALSE /\ failed = FALSE
  /\ out = <<>>

(* A caller that is told of an error gives the stream up, or does not.     *)
Goes == failed => Retries

(* UF2_initCStream on a stream that was used.  What belongs to an open     *)
(* block keeps its value.                                                  *)
InitCStream ==
  /\ ~running
  /\ DictReinit
  /\ \E h \in Holds : fcs' = [Start(h) EXCEPT !.check = fcs.check, !.uSize = fcs.uSize, !.cSize = fcs.cSize]
  /\ jobs' = <<>>
  /\ curBlock' = [buffer |-> 0, start |-> 0, end |-> 0]
  /\ ending' = FALSE /\ endMarked' = FALSE /\ ended' = FALSE /\ failed' = FALSE
  /\ out' = <<>>
  /\ UNCHANGED running

(* The input loop; a single buffer is not shifted during compression, and  *)
(* one that was just emptied takes input though DICT_needShift holds.      *)
MakeRoom ==
  /\ Goes /\ ~ending
  /\ NeedShift /\ (running => async)
  /\ Shift
  /\ UNCHANGED <<fcs, jobs, running, curBlock, userVars, out>>

Input(n) ==
  /\ Goes /\ ~ending
  /\ (NeedShift => end = 0) /\ taken + n <= MaxTaken
  /\ Put(IF n < AvailSpace THEN n ELSE AvailSpace)
  /\ UNCHANGED <<fcs, jobs, running, curBlock, userVars, out>>

(* Mutant of BeginBlock: the slices of the last block still count as read. *)
BeginKeepsOutThread(s) ==
  /\ GetBlock
  /\ curBlock' = Block
  /\ \E o \in BeginCompression(s, Block, ending) :
       IF o.res = "ok"
       THEN /\ fcs' = [o.fcs EXCEPT !.unaccounted = TRUE]
            /\ running' = async
            /\ jobs' = IF async THEN <<>> ELSE Slices(Block)
            /\ UNCHANGED failed
       ELSE /\ fcs' = o.fcs
            /\ failed' = TRUE
            /\ UNCHANGED <<running, jobs>>

(* UF2_compressStream_internal, its wait over.  The block is taken from    *)
(* the dictionary buffer before its framing can fail.                      *)
BeginBlock(s) ==
  /\ GetBlock
  /\ curBlock' = Block
  /\ \E o \in BeginCompression(s, Block, ending) :
       IF o.res = "ok"
       THEN /\ fcs' = [o.fcs EXCEPT !.outThread = 0, !.outPos = 0, !.unaccounted = TRUE]
            /\ running' = async
            /\ jobs' = IF async THEN <<>> ELSE Slices(Block)
            /\ UNCHANGED failed
       ELSE /\ fcs' = o.fcs
            /\ failed' = TRUE
            /\ UNCHANGED <<running, jobs>>

Compress ==
  /\ Goes /\ ~running
  /\ \E a \in Absorb(fcs) :
       IF a.res = "ok" /\ ~HasSlices(a.fcs) /\ HasUnprocessed
       THEN BeginBlock(a.fcs)
       ELSE fcs' = a.fcs /\ UNCHANGED <<dictVars, jobs, running, curBlock, failed>>
  /\ UNCHANGED <<ending, endMarked, ended, out>>

(* compressThread publishes the slices.                                    *)
CompressionEnds ==
  /\ running
  /\ running' = FALSE
  /\ jobs' = Slices(curBlock)
  /\ UNCHANGED <<dictVars, fcs, curBlock, userVars, out>>

(* Room for n more is filled from head, the slices and tail; held slices   *)
(* never go straight to the output, and nothing after a running one does.  *)
Available(s) == IF s.hold \/ running THEN <<>> ELSE Pending(s, Len(jobs))

Written(s, n) ==
  LET slices == Available(s)
      tail == IF running /\ ~s.hold THEN <<>> ELSE s.tail
      h == Min({n, Len(s.head)})
      p == Min({n - h, Len(slices)})
      t == Min({n - h - p, Len(tail)})
      next == IF slices = <<>> THEN s.outThread
              ELSE Max({u \in s.outThread .. Len(jobs) : Len(Pending(s, u)) <= p})
  IN  [bytes |-> SubSeq(s.head, 1, h) \o SubSeq(slices, 1, p) \o SubSeq(tail, 1, t),
       fcs   |-> [s EXCEPT !.head = SubSeq(@, h + 1, Len(@)),
                           !.tail = SubSeq(@, t + 1, Len(@)),
                           !.outThread = next,
                           !.outPos = IF slices = <<>> THEN @
                                      ELSE (IF next = s.outThread THEN @ ELSE 0)
                                             + p - Len(Pending(s, next))]]

CopyOutput(n) ==
  /\ Goes /\ HasOutput(fcs)
  /\ \E a \in Absorb(fcs) :
       /\ fcs' = Written(a.fcs, n).fcs
       /\ out' = out \o Written(a.fcs, n).bytes
  /\ UNCHANGED <<dictVars, jobs, running, curBlock, userVars>>

(* UF2_getNextCompressedBuffer: one buffer or slice at a time.             *)
NextBuffer ==
  /\ Goes /\ ~running
  /\ \E a \in Absorb(fcs) :
       LET s == a.fcs
           n == CASE a.res # "ok"      -> 0
                  [] s.head # <<>>     -> Len(s.head)
                  [] HasSlices(s)      -> Len(Rest(s, s.outThread))
                  [] OTHER             -> Len(s.tail)
       IN  fcs' = Written(s, n).fcs /\ out' = out \o Written(s, n).bytes
  /\ UNCHANGED <<dictVars, jobs, running, curBlock, userVars>>

BeginEnd ==
  /\ Goes /\ ~ending
  /\ ending' = TRUE
  /\ UNCHANGED <<dictVars, fcs, jobs, running, curBlock, endMarked, ended, failed, out>>

(* Mutant of WriteEnd: the end is written before the slices.               *)
WriteEndToHead ==
  /\ Goes /\ ending /\ ~running /\ ~endMarked /\ ~HasUnprocessed
  /\ \E a \in Absorb(fcs) :
       IF a.res # "ok" THEN fcs' = a.fcs /\ UNCHANGED <<endMarked, failed>>
       ELSE \E o \in XzEnd(a.fcs, "head") :
              /\ fcs' = o.fcs
              /\ endMarked' = (o.res = "ok")
              /\ failed' = (failed \/ o.res # "ok")
  /\ UNCHANGED <<dictVars, jobs, running, curBlock, ending, ended, out>>

(* UF2_writeEnd, in UF2_endStream after its wait.                          *)
WriteEnd ==
  /\ Goes /\ ending /\ ~running /\ ~endMarked /\ ~HasUnprocessed
  /\ \E a \in Absorb(fcs) :
       IF a.res # "ok" THEN fcs' = a.fcs /\ UNCHANGED <<endMarked, failed>>
       ELSE \E o \in XzEnd(a.fcs, IF HasSlices(a.fcs) THEN "tail" ELSE "head") :
              /\ fcs' = o.fcs
              /\ endMarked' = (o.res = "ok")
              /\ failed' = (failed \/ o.res # "ok")
  /\ UNCHANGED <<dictVars, jobs, running, curBlock, ending, ended, out>>

(* UF2_endStream finds nothing left to do and returns 0.                   *)
EndReturns ==
  /\ Goes /\ endMarked /\ ~running /\ ~HasOutput(fcs) /\ ~HasUnprocessed
  /\ ended' = TRUE
  /\ UNCHANGED <<dictVars, fcs, jobs, running, curBlock, ending, endMarked, failed, out>>

Next ==
  \/ InitCStream \/ MakeRoom \/ \E n \in InputSizes : Input(n)
  \/ Compress \/ CompressionEnds
  \/ \E n \in OutputSizes : CopyOutput(n)
  \/ NextBuffer \/ BeginEnd \/ WriteEnd \/ EndReturns

Spec == Init /\ [][Next]_vars

-----------------------------------------------------------------------------
(* The file, as far as it is compressed.                                   *)
Unwritten   == IF running THEN <<>> ELSE Pending(fcs, Len(jobs))
File        == out \o fcs.head \o (IF fcs.hold THEN <<>> ELSE Unwritten) \o fcs.tail
Held        == fcs.block \o (IF fcs.hold THEN Unwritten ELSE <<>>)
At(k)       == {i \in 1 .. Len(File) : File[i].kind = k}
Before(k, i) == Cardinality({j \in At(k) : j < i})
Opening(i)  == Max({j \in At("block") : j <= i})        \* the block that i is in
Content(i)  == [k \in 1 .. i - Opening(i) - 1 |-> File[Opening(i) + k].at]
Sized(i)    == [unpadded |-> i - Opening(i), uncompressed |-> Len(Content(i))]

XzTypeOK ==
  /\ DictTypeOK
  /\ fcs.outThread \in 0 .. Len(jobs) /\ Len(jobs) <= JobCount
  /\ ~running /\ fcs.outThread < Len(jobs) => fcs.outPos < Len(jobs[fcs.outThread + 1])
  /\ fcs.open \in BOOLEAN /\ fcs.unaccounted \in BOOLEAN
  /\ ~fcs.hold => fcs.block = <<>>

(* The file is a sequence of blocks between a header and an index: framing *)
(* that waits in two buffers, and slices that wait in the table, come out  *)
(* in the order they belong in, wherever the copies of output are cut.     *)
WellFramed ==
  /\ At("header") = {1}
  /\ \A i \in At("block") \cup At("index") : Before("block", i) = Before("blockEnd", i)
  /\ \A i \in At("lz") \cup At("blockEnd") : Before("block", i) = Before("blockEnd", i) + 1
  /\ At("index") \subseteq {Len(File)}

(* A block can be decoded by itself: it begins with a dictionary reset,    *)
(* has no other, and its header announces a dictionary that covers what    *)
(* every match in it can reach, though the header was written before them. *)
BlocksStandAlone ==
  \A i \in At("lz") :
    /\ File[i].reset <=> i - 1 \in At("block")
    /\ File[i].window <= File[Opening(i)].dict

(* The check of a block is that of the bytes in it, and the sizes that its *)
(* header states and those the index records are those of its data.        *)
ChecksAndSizesMatch ==
  /\ \A i \in At("blockEnd") :
       LET h == File[Opening(i)]
       IN  /\ File[i].check = Content(i)
           /\ h.uncompressed # Unknown => h.uncompressed = Len(Content(i))
           /\ h.compressed # Unknown => h.compressed = i - Opening(i)
  /\ \A i \in At("index") :
       /\ Len(File[i].records) = Cardinality(At("blockEnd"))
       /\ \A j \in At("blockEnd") : File[i].records[Before("blockEnd", j) + 1] = Sized(j)

InHand == IF running THEN curBlock.end - curBlock.start ELSE 0

(* Every byte is in the file, in the block that is held, in the block that *)
(* is compressed or still in the dictionary buffer, once and in order.     *)
NothingLostOrRepeated ==
  ~failed =>
    /\ \A i \in At("lz") : File[i].at = Before("lz", i)
    /\ \A i \in 1 .. Len(Held) : Held[i].kind = "lz" /\ Held[i].at = Cardinality(At("lz")) + i - 1
    /\ Cardinality(At("lz")) + Len(Held) + InHand + (end - start) = taken

(* UF2_endStream returns "0 when compression is complete and all output    *)
(* has been flushed": the caller then has all of the input, and the index. *)
EndMeansComplete ==
  ended =>
    /\ out # <<>> /\ Last(out).kind = "index"
    /\ \A i \in 1 .. taken : \E j \in 1 .. Len(out) : out[j].kind = "lz" /\ out[j].at = i - 1
=============================================================================
