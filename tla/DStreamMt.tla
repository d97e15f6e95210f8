------------------------------ MODULE DStreamMt ------------------------------
(***************************************************************************)
(* Streaming decompression with several threads (uf2_decompress.c).  Input *)
(* is read into a chain of buffers whose chunk headers are parsed; a run   *)
(* of chunks that begins with a dictionary reset is a block, decoded by a  *)
(* thread of its own, straight from the chain.  When memory runs out the   *)
(* decoder goes on with one thread, first from the chain and then from the *)
(* caller's input, with what neither of them can give in one piece kept in *)
(* an overlap buffer.                                                      *)
(*                                                                         *)
(* With a timeout a call runs on decompressThread and the caller may       *)
(* return before it ended.  A call is a sequence of steps (pc); the caller *)
(* is in a call, waiting for decompressThread, canceling it, or free.      *)
(***************************************************************************)
EXTENDS Lzma2Stream

CONSTANTS
  Threads,      \* maxThreads; more than one, or there is no UF2_decMt
  NodeSize,     \* LZMA2_MT_INPUT_SIZE
  HashSize,     \* XXHASH_SIZEOF, or 0 for streams without a hash
  MemLimit, MemWrap,   \* memLimit, and the range of size_t
  MayFail,      \* an allocation may fail
  Streams,      \* the streams considered, each with what follows it
  InputSizes, OutputSizes,   \* bounds: what a call is offered beyond what was taken
  Timeouts,     \* values of UF2_setDStreamTimeout, as "is not 0"
  MaxAbandoned  \* bound: how often a stream is begun anew before it ended

ASSUME DStreamAssumption ==
  /\ Threads \in Nat /\ Threads > 1
  /\ NodeSize \in Nat /\ NodeSize >= 2 * Required
  /\ HashSize \in Nat
  /\ InputSizes \subseteq Nat /\ OutputSizes \subseteq Nat

(* After the end mark of a stream comes its hash, if there is one.         *)
ASSUME StreamsAssumption ==
  \A s \in Streams :
    /\ IsStream(s)
    /\ \A p \in 1 .. Len(s) : s[p].kind = "end" =>
         \A q \in p + 1 .. Len(s) :
           s[q].kind \in IF q <= p + HashSize THEN {"hash", "bad"} ELSE {"after"}

VARIABLES
  stream,
  input,        \* the caller's buffer: its stream positions, base .. size, and pos
  room,         \* output->size - output->pos
  out,          \* history: what was written to the caller's output
  decmt, fds,   \* UF2_decMt and the decoder's own part of UF2_DStream
  pc, parsed,   \* the step a call is at; `res` of UF2_loadInputMt
  prev,         \* prevIn, prevOut
  ret,          \* asyncRes, or what the last call returned
  canceled,
  thread, timeout, wait,   \* decompressThread exists; fds->timeout, fds->wait
  busy,         \* decompressThread's pool has a job
  user,
  status,       \* history: how the stream ended
  abandoned     \* history: how many streams were given up for a new one

callVars == <<thread, timeout, wait, busy, user>>
vars == <<stream, input, room, out, decmt, fds, pc, parsed, prev, ret, canceled,
          callVars, status, abandoned>>

Thread == 0 .. Threads - 1

-----------------------------------------------------------------------------
(* The chain of input nodes and the accounting of memory.                  *)
Plus(a, b)  == (a + b) % MemWrap
Minus(a, b) == (a - b) % MemWrap

BufferSum(m, ts) == MapThenSumSet(LAMBDA t : m.threads[t].bufSize, ts)
HeldBy(m)        == {t \in Thread : m.threads[t].allocated}

FreeOutputBuffers(m) ==
  [m EXCEPT !.memTotal = Minus(@, BufferSum(m, HeldBy(m))),
            !.threads = [t \in Thread |-> [@[t] EXCEPT !.allocated = FALSE]],
            !.numThreads = 0]

FreeExtraInbufNodes(m) ==
  [m EXCEPT !.memTotal = Minus(@, (Len(m.chain) - 1) * NodeSize), !.chain = << <<>> >>]

Cleanup(m) == FreeExtraInbufNodes(FreeOutputBuffers(m))

NewBlock(th, node, pos) ==
  [th EXCEPT !.first = node, !.last = node, !.startPos = pos, !.endPos = pos, !.unpackSize = 0]

(* UF2_lzma2DecMt_init, and UF2_lzma2DecMt_initProp's verdict on the limit. *)
InitMt(m, low) ==
  LET freed == Cleanup([m EXCEPT !.memTotal = 0])
  IN  [freed EXCEPT !.cur = 0, !.isFinal = FALSE, !.failState = low,
                    !.threads[0] = NewBlock(@, 1, 0)]

(* The block being parsed, and the node it ends in.                        *)
InBlock(m)  == m.threads[m.numThreads]
LastNode(m) == m.chain[InBlock(m).last]

Given(n) == [i \in 1 .. n |-> input.pos + i]        \* the next n bytes of input
Left     == input.size - input.pos

(* What was read beyond the end of block t goes back to the caller, as far *)
(* as the caller's buffer has it.                                          *)
Rewind(m, t) ==
  LET b    == m.threads[t]
      len  == Len(m.chain[b.last])
      back == Min({input.pos - input.base, len - b.endPos})
  IN  /\ decmt' = [m EXCEPT !.chain[b.last] = SubSeq(@, 1, len - back)]
      /\ input' = [input EXCEPT !.pos = @ - back]

-----------------------------------------------------------------------------
(* UF2_loadInputMt.                                                        *)
Load ==
  /\ pc = "load"
  /\ pc' = CASE InBlock(decmt).endPos < Len(LastNode(decmt))              -> "parse"
             [] InBlock(decmt).endPos >= Len(LastNode(decmt)) /\ Left > 0 -> "read"
             [] OTHER                                                     -> "hash"
  /\ UNCHANGED <<stream, input, room, out, decmt, fds, parsed, prev, ret, canceled,
                 callVars, status, abandoned>>

(* UF2_handleFinalChunkMt: a block is complete; its outcomes.              *)
HandleFinalChunk(m, final) ==
  LET n       == m.numThreads
      b       == m.threads[n]
      counted == [m EXCEPT !.numThreads = n + 1,
                           !.threads[n].bufSize = b.unpackSize,
                           !.memTotal = Plus(@, b.unpackSize)]
      held    == [counted EXCEPT !.threads[n].allocated = TRUE, !.isFinal = final]
      failure == {[decmt |-> counted, res |-> "memory"]}
  IN  IF counted.memTotal > MemLimit THEN failure
      ELSE (IF MayFail THEN failure ELSE {}) \cup
           {IF n + 1 = Threads \/ final THEN [decmt |-> held, res |-> "ready"]
            ELSE [decmt |-> [held EXCEPT !.threads[n + 1] = NewBlock(@, b.last, b.endPos)],
                  res   |-> "next"]}

(* Every thread's decoder is initialised and the blocks go to the pool.    *)
Started(m) ==
  [m EXCEPT !.threads = [t \in Thread |->
     IF t < m.numThreads
     THEN [m.threads[t] EXCEPT !.cur = m.threads[t].first, !.inPos = m.threads[t].startPos,
                               !.dec = InitDecoder, !.outBuf = <<>>, !.res = "running"]
     ELSE m.threads[t]]]

(* Mutant of Chunks: a dictionary reset inside a block does not end it.    *)
ChunksNoReset ==
  LET b   == InBlock(decmt)
      p   == LastNode(decmt)[b.endPos + 1]
      res == ParseInput(stream[p], Len(LastNode(decmt)) - b.endPos)
  IN  [res  |-> IF res = "dictReset" THEN "continue" ELSE res,
       size |-> IF stream[p].kind = "control" THEN stream[p].size ELSE 0]

(* The chunk at endPos.                                                    *)
Chunks ==
  LET b   == InBlock(decmt)
      p   == LastNode(decmt)[b.endPos + 1]
      res == ParseInput(stream[p], Len(LastNode(decmt)) - b.endPos)
  IN  [res  |-> IF res = "dictReset" /\ b.unpackSize = 0 THEN "continue" ELSE res,
       size |-> IF stream[p].kind = "control" THEN stream[p].size ELSE 0]

(* UF2_parseMt goes to the next chunk, or stops at this one.               *)
NextChunk ==
  /\ pc = "parse" /\ Chunks.res = "continue"
  /\ decmt' = [decmt EXCEPT !.threads[decmt.numThreads].endPos = @ + HeaderSize + Chunks.size,
                            !.threads[decmt.numThreads].unpackSize = @ + Chunks.size]
  /\ parsed' = "continue"
  /\ pc' = IF InBlock(decmt').endPos < Len(LastNode(decmt)) THEN "parse" ELSE "read"
  /\ UNCHANGED <<stream, input, room, out, fds, prev, ret, canceled, callVars, status, abandoned>>

ParseStops ==
  /\ pc = "parse" /\ Chunks.res \in {"moreData", "error"}
  /\ parsed' = Chunks.res
  /\ pc' = IF Chunks.res = "error" THEN "error" ELSE "read"
  /\ ret' = IF Chunks.res = "error" THEN "corrupt" ELSE ret
  /\ UNCHANGED <<stream, input, room, out, decmt, fds, prev, canceled, callVars, status, abandoned>>

BlockComplete ==
  /\ pc = "parse" /\ Chunks.res \in {"dictReset", "final"}
  /\ parsed' = Chunks.res
  /\ LET final == Chunks.res = "final"
         m     == [decmt EXCEPT !.threads[decmt.numThreads].endPos = IF final THEN @ + 1 ELSE @]
     IN  \E o \in HandleFinalChunk(m, final) :
           CASE o.res = "next"   -> decmt' = o.decmt /\ pc' = "read" /\ UNCHANGED input
             [] o.res = "ready"  -> Rewind(Started(o.decmt), decmt.numThreads) /\ pc' = "blocks"
             [] o.res = "memory" -> Rewind(o.decmt, decmt.numThreads) /\ pc' = "failed"
  /\ UNCHANGED <<stream, room, out, fds, prev, ret, canceled, callVars, status, abandoned>>

(* Mutant of Fill: a read fills the node to its end whatever it holds.     *)
FillOver(m) ==
  LET toread == Min({Left, NodeSize})
  IN  /\ decmt' = [m EXCEPT !.chain[InBlock(m).last] = @ \o Given(toread)]
      /\ input' = [input EXCEPT !.pos = @ + toread]
      /\ pc' = IF parsed = "moreData" /\ toread = 0 THEN "hash" ELSE "load"

(* As much input as the last node has room for.  An incomplete header with *)
(* no more input ends the call.                                            *)
Fill(m) ==
  LET toread == Min({Left, NodeSize - Len(LastNode(m))})
  IN  /\ decmt' = [m EXCEPT !.chain[InBlock(m).last] = @ \o Given(toread)]
      /\ input' = [input EXCEPT !.pos = @ + toread]
      /\ pc' = IF parsed = "moreData" /\ toread = 0 THEN "hash" ELSE "load"

(* Mutant of WithNode: the overlap with the last node is not copied.       *)
WithNodeNoOverlap(m) ==
  [m EXCEPT !.memTotal = Plus(@, NodeSize),
            !.chain = Append(@, <<>>),
            !.threads[m.numThreads].last = Len(m.chain) + 1,
            !.threads[m.numThreads].endPos = @ - (NodeSize - Required)]

(* UF2_createInbufNode: nodes overlap, so that no symbol is cut in two.    *)
WithNode(m) ==
  [m EXCEPT !.memTotal = Plus(@, NodeSize),
            !.chain = Append(@, SubSeq(LastNode(m), NodeSize - Required + 1, NodeSize)),
            !.threads[m.numThreads].last = Len(m.chain) + 1,
            !.threads[m.numThreads].endPos = @ - (NodeSize - Required)]

NeedsNode ==
  Len(LastNode(decmt)) = NodeSize /\ InBlock(decmt).endPos + Required >= NodeSize

ReadInput ==
  /\ pc = "read" /\ ~NeedsNode
  /\ Fill(decmt)
  /\ UNCHANGED <<stream, room, out, fds, parsed, prev, ret, canceled, callVars, status, abandoned>>

AddNode ==
  /\ pc = "read" /\ NeedsNode
  /\ Plus(decmt.memTotal, NodeSize) <= MemLimit
  /\ Fill(WithNode(decmt))
  /\ UNCHANGED <<stream, room, out, fds, parsed, prev, ret, canceled, callVars, status, abandoned>>

AddNodeFails ==
  /\ pc = "read" /\ NeedsNode
  /\ MayFail \/ Plus(decmt.memTotal, NodeSize) > MemLimit
  /\ LET m == [decmt EXCEPT !.memTotal = Plus(@, NodeSize)]
     IN  IF InBlock(m).endPos < NodeSize THEN Rewind(m, m.numThreads)
         ELSE decmt' = m /\ UNCHANGED input
  /\ pc' = "failed"
  /\ UNCHANGED <<stream, room, out, fds, parsed, prev, ret, canceled, callVars, status, abandoned>>

-----------------------------------------------------------------------------
(* What a thread has decoded of a node goes to its output buffer.          *)
Decoded(th, node, o) ==
  LET pos   == th.inPos + o.used
      moves == pos + Required >= Len(node)
  IN  [th EXCEPT !.dec = o.dec,
                 !.outBuf = @ \o o.out,
                 !.res = CASE o.res = "corrupt"  -> "corrupt"
                           [] o.res # "corrupt" /\ th.cur = th.last -> "ok"
                           [] OTHER -> "running",
                 !.inPos = IF moves THEN pos - (Len(node) - Required) ELSE pos,
                 !.cur = IF moves /\ th.cur # th.last THEN th.cur + 1 ELSE @]

(* UF2_decompressBlockMt, one node of the chain at a time, in thread t.  A *)
(* tiny block may end in one node and have its decoder beyond the end of   *)
(* the next, which is cut: its dictionary is full then, and the decoder    *)
(* returns before it looks at the size.                                    *)
BlockStep(t) ==
  LET th   == decmt.threads[t]
      node == decmt.chain[th.cur]
  IN
  /\ pc = "blocks" /\ t < decmt.numThreads /\ th.res = "running"
  /\ IF canceled
     THEN decmt' = [decmt EXCEPT !.threads[t].res = "canceled"]
     ELSE \E o \in Decode(stream, th.dec, SubSeq(node, th.inPos + 1, Len(node)),
                          th.bufSize - Len(th.outBuf)) :
            decmt' = [decmt EXCEPT !.threads[t] = Decoded(th, node, o)]
  /\ UNCHANGED <<stream, input, room, out, fds, pc, parsed, prev, ret, canceled, callVars,
                 status, abandoned>>

(* All nodes but the last are freed, and what it holds after the blocks is *)
(* the beginning of the next one.                                          *)
Rest(m) ==
  LET done == m.threads[m.numThreads - 1]
  IN  [m EXCEPT !.chain = <<m.chain[done.last]>>,
                !.memTotal = Minus(@, (Len(m.chain) - 1) * NodeSize),
                !.threads[0] = NewBlock(@, 1, done.endPos)]

(* UF2_decompressBlocksMt has waited for the threads.                      *)
BlocksDone ==
  LET results == {t \in Thread : t < decmt.numThreads /\ decmt.threads[t].res # "ok"}
  IN
  /\ pc = "blocks"
  /\ \A t \in Thread : t < decmt.numThreads => decmt.threads[t].res # "running"
  /\ decmt' = [Rest(decmt) EXCEPT !.srcThread = 0, !.srcPos = 0]
  /\ IF results # {}
     THEN pc' = "error" /\ ret' = decmt.threads[Min(results)].res /\ UNCHANGED fds
     ELSE pc' = "write" /\ fds' = [fds EXCEPT !.stage = "mtWrite"] /\ UNCHANGED ret
  /\ UNCHANGED <<stream, input, room, out, parsed, prev, canceled, callVars, status, abandoned>>

(* After the end mark.                                                     *)
AfterEnd == IF HashSize = 0 THEN "finished" ELSE "hash"

(* UF2_writeStreamBlocks, one block at a time.  The whole of outBuf is     *)
(* written, also what no decoder may have filled.                          *)
WriteBlock ==
  LET th   == decmt.threads[decmt.srcThread]
      n    == Min({th.bufSize - decmt.srcPos, room})
      more == decmt.srcPos + n < th.bufSize
      last == decmt.srcThread + 1 = decmt.numThreads
      next == [decmt EXCEPT !.srcThread = IF more THEN @ ELSE @ + 1,
                            !.srcPos = IF more THEN @ + n ELSE 0]
  IN
  /\ pc = "write"
  /\ out' = out \o [i \in 1 .. n |-> IF decmt.srcPos + i <= Len(th.outBuf)
                                     THEN th.outBuf[decmt.srcPos + i] ELSE 0]
  /\ room' = room - n
  /\ decmt' = IF ~more /\ last THEN FreeOutputBuffers(next) ELSE next
  /\ fds' = IF ~more /\ last
            THEN [fds EXCEPT !.stage = IF decmt.isFinal THEN AfterEnd ELSE "decomp"] ELSE fds
  /\ pc' = IF more \/ last THEN "hash" ELSE "write"
  /\ UNCHANGED <<stream, input, parsed, prev, ret, canceled, callVars, status, abandoned>>

-----------------------------------------------------------------------------
(* One thread: UF2_decompressInput does nothing once the end was found.    *)
DecompressInput(d, bytes) ==
  IF fds.stage = "decomp" THEN Decode(stream, d, bytes, room)
  ELSE {[dec |-> d, used |-> 0, out |-> <<>>, res |-> "ok"]}

StageAfter(o) == IF o.res = "finished" THEN AfterEnd ELSE fds.stage

Emits(o) == out' = out \o o.out /\ room' = room - Len(o.out)

(* Corrupt data.  What was decoded before the error in the same call is    *)
(* written too; it is left out, nobody may use it.                         *)
Rejected == pc' = "error" /\ ret' = "corrupt"

(* Mutant of SwitchToSt: decoding goes on where parsing was.               *)
SwitchAtParsed ==
  [FreeOutputBuffers(decmt) EXCEPT !.cur = decmt.threads[0].last,
                                   !.curPos = decmt.threads[0].startPos,
                                   !.failState = TRUE]

(* The first call of UF2_decompressFailedMt: blocks that were prepared are *)
(* given up and decoded again from where the first of them begins.         *)
SwitchToSt ==
  [FreeOutputBuffers(decmt) EXCEPT !.cur = decmt.threads[0].first,
                                   !.curPos = decmt.threads[0].startPos,
                                   !.failState = TRUE]

(* A node cut below where decoding goes on: temp.size - temp.pos wraps.     *)
(* For a header the decoder takes the size as negative and reads nothing;  *)
(* within a chunk it reads what memory holds behind the cut, which it may  *)
(* reject.  If it does not, as many bytes are copied to the overlap, over  *)
(* all there is.                                                           *)
Overrun(m, d) ==
  /\ decmt' = m /\ UNCHANGED <<room, out, fds>>
  /\ \/ fds.stage = "decomp" /\ d.left > 0 /\ Rejected
     \/ pc' = "overrun" /\ UNCHANGED ret

(* A node of the chain.  What is left of the last one goes to the overlap. *)
DecompressNode(m, d) ==
  LET node == m.chain[m.cur]
  IN  IF m.curPos > Len(node) THEN Overrun(m, d)
      ELSE \E o \in DecompressInput(d, SubSeq(node, m.curPos + 1, Len(node))) :
        LET pos   == m.curPos + o.used
            moves == pos + Required >= Len(node)
            last  == m.cur = Len(m.chain)
        IN  IF o.res = "corrupt"
            THEN decmt' = m /\ Rejected /\ UNCHANGED <<room, out, fds>>
            ELSE
            /\ Emits(o)
            /\ decmt' = CASE moves /\ last  -> FreeExtraInbufNodes([m EXCEPT !.cur = 0])
                          [] moves /\ ~last -> [m EXCEPT !.cur = @ + 1,
                                                         !.curPos = pos - (Len(node) - Required)]
                          [] ~moves         -> [m EXCEPT !.curPos = pos]
            /\ fds' = [fds EXCEPT !.dec = o.dec, !.stage = StageAfter(o),
                         !.overlap = IF moves /\ last THEN SubSeq(node, pos + 1, Len(node)) ELSE @]
            /\ pc' = "hash" /\ UNCHANGED ret

(* UF2_decompressFailedMt, until the chain is used up.                     *)
DecompressFailed ==
  /\ pc = "failed" /\ decmt.chain[1] # <<>>
  /\ IF decmt.failState THEN DecompressNode(decmt, fds.dec)
     ELSE DecompressNode(SwitchToSt, InitDecoder)
  /\ UNCHANGED <<stream, input, parsed, prev, canceled, callVars, status, abandoned>>

(* There is no memory for one dictionary either.                           *)
SwitchFails ==
  /\ pc = "failed" /\ decmt.chain[1] # <<>> /\ ~decmt.failState /\ MayFail
  /\ decmt' = SwitchToSt
  /\ pc' = "error" /\ ret' = "memory"
  /\ UNCHANGED <<stream, input, room, out, fds, parsed, prev, canceled, callVars, status, abandoned>>

(* UF2_decompressOverlappedInput: the overlap with some of the input added. *)
DecompressOverlap ==
  LET had    == fds.overlap
      toRead == Min({Left, 2 * Required - Len(had)})
      bytes  == had \o Given(toRead)
  IN
  /\ pc = "failed" /\ decmt.chain[1] = <<>>
  /\ IF had = <<>> THEN pc' = "direct" /\ UNCHANGED <<input, room, out, fds, ret>>
     ELSE \E o \in DecompressInput(fds.dec, bytes) :
       IF o.res = "corrupt" THEN Rejected /\ UNCHANGED <<input, room, out, fds>>
       ELSE
       /\ Emits(o)
       /\ input' = IF o.used >= Len(had) THEN [input EXCEPT !.pos = @ + o.used - Len(had)] ELSE input
       /\ fds' = [fds EXCEPT !.dec = o.dec, !.stage = StageAfter(o),
                             !.overlap = SubSeq(@, o.used + 1, Len(@))]
       /\ pc' = "direct" /\ UNCHANGED ret
  /\ UNCHANGED <<stream, decmt, parsed, prev, canceled, callVars, status, abandoned>>

(* Then the input itself, whose last bytes may have to wait for more.      *)
DecompressDirect ==
  /\ pc = "direct"
  /\ \E o \in (IF fds.overlap = <<>> /\ Left > 0 THEN DecompressInput(fds.dec, Given(Left))
               ELSE {[dec |-> fds.dec, used |-> 0, out |-> <<>>, res |-> "ok"]}) :
       LET pos    == input.pos + o.used
           stage  == StageAfter(o)
           waits  == /\ Left > 0 /\ stage = "decomp" /\ Len(o.out) < room
                     /\ input.size - pos <= Required
           toRead == IF waits THEN Min({input.size - pos, 2 * Required - Len(fds.overlap)}) ELSE 0
       IN  IF o.res = "corrupt" THEN Rejected /\ UNCHANGED <<input, room, out, fds>>
           ELSE
           /\ Emits(o)
           /\ input' = [input EXCEPT !.pos = pos + toRead]
           /\ fds' = [fds EXCEPT !.dec = o.dec, !.stage = stage,
                        !.overlap = @ \o [i \in 1 .. toRead |-> pos + i]]
           /\ pc' = "hash" /\ UNCHANGED ret
  /\ UNCHANGED <<stream, decmt, parsed, prev, canceled, callVars, status, abandoned>>

-----------------------------------------------------------------------------
(* The end of a call.                                                      *)
StatusAfter(r) ==
  CASE status # "going"              -> status
    [] status = "going" /\ r = "more" -> "going"
    [] status = "going" /\ r = "done" -> "finished"
    [] status = "going" /\ r \in {"corrupt", "checksum"} -> "corrupt"
    [] OTHER -> "dropped"

(* Mutant of EndCall: wait is not reset.                                   *)
EndCallKeepsWait(r) ==
  /\ ret' = r /\ pc' = "idle" /\ status' = StatusAfter(r)
  /\ user' = IF busy THEN user ELSE "free"
  /\ UNCHANGED <<thread, timeout, busy, wait>>

(* The result of UF2_decompressStream_blocking; on decompressThread it is  *)
(* asyncRes, and wait is reset before the job has returned.                *)
EndCall(r) ==
  /\ ret' = r /\ pc' = "idle" /\ status' = StatusAfter(r)
  /\ wait' = FALSE
  /\ user' = IF busy THEN user ELSE "free"
  /\ UNCHANGED <<thread, timeout, busy>>

Error ==
  /\ pc = "error"
  /\ decmt' = Cleanup(decmt)
  /\ EndCall(ret)
  /\ UNCHANGED <<stream, input, room, out, fds, parsed, prev, canceled, abandoned>>

(* The digest is first taken from what was read too far, then from input.  *)
HashBytes ==
  LET a == Min({HashSize - Len(fds.hash), Len(fds.overlap)})
      b == Min({HashSize - Len(fds.hash) - a, Left})
  IN  [hash |-> fds.hash \o SubSeq(fds.overlap, 1, a) \o Given(b), used |-> b]

HashMatches(h) == (\A i \in 1 .. Len(h) : stream[h[i]].kind = "hash") /\ out = Units(stream)

Hash ==
  /\ pc = "hash"
  /\ IF fds.stage # "hash" THEN pc' = "report" /\ UNCHANGED <<input, fds, ret, callVars, status>>
     ELSE LET h == HashBytes IN
       /\ input' = [input EXCEPT !.pos = @ + h.used]
       /\ fds' = [fds EXCEPT !.overlap = <<>>, !.hash = h.hash,
                    !.stage = IF Len(h.hash) = HashSize /\ HashMatches(h.hash)
                              THEN "finished" ELSE @]
       /\ IF Len(h.hash) = HashSize /\ ~HashMatches(h.hash) THEN EndCall("checksum")
          ELSE pc' = "report" /\ UNCHANGED <<ret, callVars, status>>
  /\ UNCHANGED <<stream, room, out, decmt, parsed, prev, canceled, abandoned>>

Moved == input.pos # prev.pos \/ Len(out) # prev.out

(* Mutant of Report: a call that read nothing but wrote counts as stuck.   *)
ReportInputOnly ==
  LET stuck == fds.stage # "finished" /\ input.pos = prev.pos
      loops == IF stuck THEN fds.loopCount + 1 ELSE 0
  IN
  /\ pc = "report"
  /\ fds' = [fds EXCEPT !.loopCount = loops]
  /\ canceled' = (canceled \/ (loops > 2 /\ thread))
  /\ IF loops > 2 /\ thread
     THEN pc' = "canceling" /\ UNCHANGED <<ret, status, callVars>>
     ELSE EndCall(CASE loops > 2 -> "buffer" [] fds.stage = "finished" -> "done" [] OTHER -> "more")
  /\ decmt' = IF fds.stage = "finished" \/ (loops > 2 /\ ~thread) THEN Cleanup(decmt) ELSE decmt
  /\ UNCHANGED <<stream, input, room, out, parsed, prev, abandoned>>

(* Three calls in a row that did nothing are an error, and what was        *)
(* allocated is freed by UF2_cancelDStream, which a call that runs on      *)
(* decompressThread makes too: it waits there for itself.                  *)
Report ==
  LET stuck == fds.stage # "finished" /\ ~Moved
      loops == IF stuck THEN fds.loopCount + 1 ELSE 0
  IN
  /\ pc = "report"
  /\ fds' = [fds EXCEPT !.loopCount = loops]
  /\ canceled' = (canceled \/ (loops > 2 /\ thread))
  /\ IF loops > 2 /\ thread
     THEN pc' = "canceling" /\ UNCHANGED <<ret, status, callVars>>
     ELSE EndCall(CASE loops > 2 -> "buffer" [] fds.stage = "finished" -> "done" [] OTHER -> "more")
  /\ decmt' = IF fds.stage = "finished" \/ (loops > 2 /\ ~thread) THEN Cleanup(decmt) ELSE decmt
  /\ UNCHANGED <<stream, input, room, out, parsed, prev, abandoned>>

(* The pool's thread returns from the job.                                 *)
JobReturns ==
  /\ busy /\ pc = "idle"
  /\ busy' = FALSE
  /\ UNCHANGED <<stream, input, room, out, decmt, fds, pc, parsed, prev, ret, canceled,
                 thread, timeout, wait, user, status, abandoned>>

-----------------------------------------------------------------------------
(* The caller.  It gives up a stream that ended in an error, and after a   *)
(* timeout it waits until decompression has ended before it calls again.   *)
Fields == [first |-> 1, last |-> 1, startPos |-> 0, endPos |-> 0, unpackSize |-> 0,
           bufSize |-> 0, allocated |-> FALSE, outBuf |-> <<>>, res |-> "ok",
           cur |-> 1, inPos |-> 0, dec |-> InitDecoder]

Reset == [stage |-> "decomp", dec |-> InitDecoder, overlap |-> <<>>, hash |-> <<>>, loopCount |-> 0]

Init ==
  /\ stream \in Streams
  /\ input = [base |-> 0, pos |-> 0, size |-> 0] /\ room = 0 /\ out = <<>>
  /\ \E low \in BOOLEAN :
       decmt = [chain |-> << <<>> >>, threads |-> [t \in Thread |-> Fields], numThreads |-> 0,
                srcThread |-> 0, srcPos |-> 0, memTotal |-> 0, isFinal |-> FALSE,
                failState |-> low, cur |-> 0, curPos |-> 0]
  /\ fds = Reset
  /\ pc = "idle" /\ parsed = "continue" /\ prev = [pos |-> 0, out |-> 0] /\ ret = "more"
  /\ canceled = FALSE
  /\ thread = FALSE /\ timeout = FALSE /\ wait = FALSE /\ busy = FALSE /\ user = "free"
  /\ status = "going" /\ abandoned = 0

InitDStream(low) ==
  /\ user = "free" /\ ~wait
  /\ status = "going" => abandoned < MaxAbandoned
  /\ abandoned' = IF status = "going" THEN abandoned + 1 ELSE abandoned
  /\ input' = [base |-> 0, pos |-> 0, size |-> 0] /\ out' = <<>> /\ status' = "going"
  /\ decmt' = InitMt(decmt, low)
  /\ fds' = Reset
  /\ ret' = "more"
  /\ UNCHANGED <<stream, room, pc, parsed, prev, canceled, callVars>>

(* In the buffer of the last call or a new one, n bytes are not taken yet; *)
(* there is room for m units.                                              *)
DecompressStream(n, m) ==
  /\ user = "free" /\ ~wait /\ ~busy /\ status = "going"
  /\ \E base \in {input.base, input.pos} :
       input' = [input EXCEPT !.base = base, !.size = Min({Len(stream), input.pos + n})]
  /\ room' = m
  /\ prev' = [pos |-> input.pos, out |-> Len(out)]
  /\ parsed' = "continue"
  /\ pc' = CASE decmt.failState                               -> "failed"
             [] ~decmt.failState /\ fds.stage = "decomp"      -> "load"
             [] ~decmt.failState /\ fds.stage = "mtWrite"     -> "write"
             [] OTHER                                         -> "hash"
  /\ wait' = thread /\ busy' = thread
  /\ user' = IF thread THEN "waiting" ELSE "calling"
  /\ UNCHANGED <<stream, out, decmt, fds, ret, canceled, thread, timeout, status, abandoned>>

OnlyUser(u) ==
  /\ user' = u
  /\ UNCHANGED <<stream, input, room, out, decmt, fds, pc, parsed, prev, ret, canceled,
                 thread, timeout, wait, busy, status, abandoned>>

(* UF2_waitDStream, and the wait in UF2_decompressStream.                  *)
WaitDStream == user = "free" /\ wait /\ OnlyUser("waiting")
TimesOut    == user = "waiting" /\ timeout /\ OnlyUser("free")
WaitEnds    == user = "waiting" /\ ~busy /\ OnlyUser("free")

(* The thread is freed when it is not needed, which joins it.              *)
SetDStreamTimeout(t) ==
  /\ user = "free" /\ t # timeout
  /\ ~t /\ ~wait => ~busy
  /\ timeout' = t
  /\ thread' = (t \/ (thread /\ wait))
  /\ UNCHANGED <<stream, input, room, out, decmt, fds, pc, parsed, prev, ret, canceled,
                 wait, busy, user, status, abandoned>>

CancelDStream ==
  /\ user = "free" /\ status = "going"
  /\ IF thread
     THEN canceled' = TRUE /\ user' = "canceling" /\ UNCHANGED <<decmt, status>>
     ELSE decmt' = Cleanup(decmt) /\ status' = "dropped" /\ UNCHANGED <<canceled, user>>
  /\ UNCHANGED <<stream, input, room, out, fds, pc, parsed, prev, ret, thread, timeout,
                 wait, busy, abandoned>>

(* UF2POOL_waitAll(decompressThread, 0), whoever called it.                *)
CancelEnds ==
  /\ "canceling" \in {user, pc} /\ ~busy
  /\ canceled' = FALSE
  /\ decmt' = Cleanup(decmt)
  /\ user' = "free"
  /\ status' = "dropped"
  /\ UNCHANGED <<stream, input, room, out, fds, pc, parsed, prev, ret, thread, timeout,
                 wait, busy, abandoned>>

-----------------------------------------------------------------------------
Call ==
  \/ Load \/ NextChunk \/ ParseStops \/ BlockComplete \/ ReadInput \/ AddNode \/ AddNodeFails
  \/ \E t \in Thread : BlockStep(t)
  \/ BlocksDone \/ WriteBlock
  \/ DecompressFailed \/ SwitchFails \/ DecompressOverlap \/ DecompressDirect
  \/ Hash \/ Report \/ Error \/ JobReturns

Continue == \E n \in InputSizes, m \in OutputSizes : DecompressStream(n, m)

(* Nothing is known of what follows when memory was overrun: no step.      *)
Next ==
  /\ pc # "overrun"
  /\ \/ Call \/ Continue
     \/ \E low \in BOOLEAN : InitDStream(low)
     \/ \E t \in Timeouts : SetDStreamTimeout(t)
     \/ WaitDStream \/ TimesOut \/ WaitEnds \/ CancelDStream \/ CancelEnds

Spec == Init /\ [][Next]_vars

(* A step of a call can be taken: what ENABLED Call says.                  *)
InCall == pc \notin {"idle", "canceling", "overrun"} \/ (pc = "idle" /\ busy)

(* A call goes on, whatever thread it is in (weak fairness of Call), and so *)
(* does a wait that has nothing to wait for; the caller goes on with a     *)
(* stream it did not drop.                                                 *)
Fairness ==
  /\ <>[]InCall => []<><<Call>>_vars
  /\ WF_vars(WaitEnds \/ CancelEnds)
  /\ SF_vars(Continue)

FairSpec == Spec /\ Fairness

-----------------------------------------------------------------------------
(* The bytes in nodes first .. last of the chain, without the overlaps.    *)
Bytes(m, first, last) ==
  FlattenSeq([i \in 1 .. last - first |->
                SubSeq(m.chain[first + i - 1], 1, Len(m.chain[first + i - 1]) - Required)])
    \o m.chain[last]

Chain(m) == Bytes(m, 1, Len(m.chain))

(* The type invariant: no node is filled beyond its size, and the overlap  *)
(* holds what its buffer can, with nothing written behind it ("overrun").  *)
DStreamTypeOK ==
  /\ pc \in {"idle", "load", "parse", "read", "blocks", "write", "failed", "direct", "hash",
             "report", "error", "canceling"}
  /\ fds.stage \in {"decomp", "mtWrite", "hash", "finished"}
  /\ input.base <= input.pos /\ input.pos <= input.size
  /\ room >= 0
  /\ decmt.numThreads \in 0 .. Threads
  /\ \A i \in 1 .. Len(decmt.chain) : Len(decmt.chain[i]) <= NodeSize
  /\ Len(fds.overlap) <= 2 * Required
  /\ user \in {"free", "calling", "waiting", "canceling"}
  /\ wait => busy

(* Where UF2_decompressFailedMt goes on is in the node it goes on with, or *)
(* at its end: it is to "Decompress input from the MT buffer chain", and no *)
(* bytes that were given back.                                             *)
ReadsInChain ==
  pc = "failed" /\ decmt.failState /\ decmt.chain[1] # <<>> =>
    decmt.curPos <= Len(decmt.chain[decmt.cur])

(* Two dictionary resets are so far apart that no two nodes have in common *)
(* the first and the whole of the second one's header.                     *)
LongBlocks(s) ==
  \A p, q \in 1 .. Len(s) :
    /\ p < q
    /\ s[p].kind = "control" /\ s[p].reset
    /\ s[q].kind = "control" /\ s[q].reset
    => q - p > Required - HeaderSize

(* What was taken and is not decoded yet is in the chain, less what each   *)
(* node has in common with the next, or in the overlap once the chain is   *)
(* used up, in order and up to where the input is: reads, input that is    *)
(* given back and the change to one thread lose nothing, and what a node   *)
(* still holds of input given back is not read.  After the end mark it is  *)
(* the digest, however many calls it comes in.                             *)
Consecutive(s) == \A i \in 1 .. Len(s) - 1 : s[i + 1] = s[i] + 1

Kept ==
  CASE fds.stage = "hash"                            -> fds.hash
    [] fds.stage # "hash" /\ Chain(decmt) # <<>>     -> Chain(decmt)
    [] OTHER                                         -> fds.overlap

InputAccounted ==
  status = "going" /\ fds.stage # "finished" /\ pc # "overrun" =>
    /\ ReadsInChain
    /\ \A i \in 1 .. Len(decmt.chain) : Consecutive(decmt.chain[i])
    /\ Consecutive(Chain(decmt)) /\ Consecutive(fds.overlap) /\ Consecutive(fds.hash)
    /\ Kept # <<>> => Last(Kept) = input.pos

(* A thread decodes with a dictionary of its own, so what it is given      *)
(* begins with a dictionary reset, unless it is the stream's beginning or  *)
(* its end mark, and has no other; and blocks follow one another without a *)
(* gap.                                                                    *)
BlockInput(t) ==
  LET b   == decmt.threads[t]
      all == Bytes(decmt, b.first, b.last)
  IN  SubSeq(all, b.startPos + 1, Len(all) - (Len(decmt.chain[b.last]) - b.endPos))

BlocksAreIndependent ==
  pc = "blocks" =>
    \A t \in 0 .. decmt.numThreads - 1 :
      LET b == BlockInput(t)
          resets == {i \in 1 .. Len(b) : stream[b[i]].kind = "control" /\ stream[b[i]].reset}
      IN  /\ resets = {1} \/ (resets = {} /\ (b[1] = 1 \/ Len(b) = 1))
          /\ t > 0 => b[1] = Last(BlockInput(t - 1)) + 1

(* The limit of calls that do nothing is never the end of a caller that    *)
(* offers more input and some room in each of them.                        *)
CallsMakeProgress == ret # "buffer"

(* A caller sees a decoder with one thread: StreamDecoder.                 *)
Decoder == INSTANCE StreamDecoder WITH taken <- input.pos
ImplementsDecoder == Decoder!AbsSpec

(* Decoding comes to an end for a caller that goes on with it: no change   *)
(* of stage, failure of memory, timeout or cancel leaves it stuck.         *)
DecodingEnds == status = "going" ~> status # "going"

(* The memory that is held, which memTotal should be.                      *)
Held(m) == (Len(m.chain) - 1) * NodeSize + BufferSum(m, HeldBy(m))

(* What uf-lzma2.h says of the memory limit: "If the limit is exceeded,    *)
(* the decoder switches to using a single thread" - and not otherwise.     *)
SwitchesAtLimit ==
  pc = "failed" /\ ~decmt.failState /\ ~MayFail =>
    \/ Held(decmt) + NodeSize > MemLimit
    \/ \E t \in Thread : Held(decmt) + decmt.threads[t].bufSize > MemLimit

(* What uf-lzma2.h says of UF2_waitDStream: it "returns after the timeout" *)
(* or "when decompression of available input is complete", which it some   *)
(* time is.                                                                *)
WaitEndsSomeTime == wait ~> ~wait

=============================================================================
