-------------------------- MODULE DStreamMtProofs --------------------------
(***************************************************************************)
(* What is proved of DStreamMt, for every stream, number of threads, size  *)
(* of a node, memory limit and size of a call: IInv, of every stream, from *)
(* which the blocks given to threads are independent (...Keeps is a lemma  *)
(* of an action); and Within, of the streams whose blocks are longer than  *)
(* what two nodes have in common (LongBlocks), with which nothing is       *)
(* written behind the overlap and the input is kept (...Within).           *)
(***************************************************************************)
EXTENDS DStreamLemmas

-----------------------------------------------------------------------------
(* Steps of a call.                                                        *)
Steps == {"load", "parse", "read", "blocks", "write", "failed", "direct", "hash", "report", "error",
          "overrun"}

LEMMA InACall ==
  ASSUME IInv, pc # "idle"
  PROVE  /\ status = "going" /\ stream \in Streams /\ Len(stream) \in Nat
         /\ Mt(stream, decmt) /\ Own(stream, fds) /\ Buffer(stream, input)
         /\ room \in Nat /\ out \in Seq(Nat)
         /\ pc # "overrun" =>
              \E o \in 0 .. Len(stream) : Core(stream, decmt, fds, input, pc, parsed, o)
<1>1. Types /\ Places /\ Somewhere
  BY DEF IInv
<1>2. status = "going"
  BY <1>1 DEF Places
<1>3. pc # "overrun" =>
        \E o \in 0 .. Len(stream) : Core(stream, decmt, fds, input, pc, parsed, o)
  BY <1>1, <1>2 DEF Somewhere
<1>4. /\ stream \in Streams /\ Mt(stream, decmt) /\ Own(stream, fds) /\ Buffer(stream, input)
      /\ room \in Nat /\ out \in Seq(Nat)
  BY <1>1 DEF Types
<1>5. Len(stream) \in Nat
  BY <1>4, StreamIs
<1>6. QED
  BY <1>2, <1>3, <1>4, <1>5

Parses(o) == ParseContext(stream, decmt, fds, input, o)
Here(o)   == Core(stream, decmt, fds, input, pc, parsed, o)
Next1(o)  == Core(stream, decmt', fds', input', pc', parsed', o)

LEMMA InParse ==
  ASSUME IInv, pc \in {"load", "parse", "read", "blocks"}
  PROVE  \E o \in 0 .. Len(stream) : Parses(o) /\ Here(o)
<1>1. pc # "idle" /\ pc # "overrun"
  OBVIOUS
<1>2. /\ stream \in Streams /\ Len(stream) \in Nat
      /\ Mt(stream, decmt) /\ Own(stream, fds) /\ Buffer(stream, input)
      /\ \E o \in 0 .. Len(stream) : Core(stream, decmt, fds, input, pc, parsed, o)
  BY <1>1, InACall
<1>3. PICK o \in 0 .. Len(stream) : Core(stream, decmt, fds, input, pc, parsed, o)
  BY <1>2
<1>4. fds.stage = "decomp" /\ ~decmt.failState
  BY DEF IInv, Phases
<1>5. ParseContext(stream, decmt, fds, input, o)
  BY <1>2, <1>4 DEF ParseContext
<1>6. QED
  BY <1>3, <1>5 DEF Parses, Here

Typed ==
  /\ Mt(stream, decmt') /\ Own(stream, fds') /\ Buffer(stream, input')
  /\ room' \in Nat /\ out' \in Seq(Nat)

LEMMA StepEnds ==
  ASSUME IInv, pc # "idle", pc' \in Steps, stream' = stream, callVars' = callVars, status' = status,
         Typed, Phases', pc' # "overrun" => \E o \in 0 .. Len(stream) : Next1(o)
  PROVE  IInv'
<1>1. /\ thread' = thread /\ timeout' = timeout /\ wait' = wait /\ busy' = busy /\ user' = user
  BY DEF callVars
<1>2. Types /\ Places
  BY DEF IInv
<1>3. Types'
  <2>1. /\ stream \in Streams /\ thread \in BOOLEAN /\ wait \in BOOLEAN /\ busy \in BOOLEAN
    BY <1>2 DEF Types
  <2>2. /\ stream' \in Streams /\ thread' \in BOOLEAN /\ wait' \in BOOLEAN /\ busy' \in BOOLEAN
    BY <1>1, <2>1, Zenon
  <2>3. /\ Mt(stream', decmt') /\ Own(stream', fds') /\ Buffer(stream', input')
        /\ room' \in Nat /\ out' \in Seq(Nat)
    BY DEF Typed
  <2>4. QED
    BY <2>2, <2>3 DEF Types
<1>4. Places'
  BY <1>1, <1>2, Zenon DEF Places, Steps
<1>5. Somewhere'
  BY DEF Somewhere, Next1
<1>6. QED
  BY <1>3, <1>4, <1>5 DEF IInv

LEMMA TypedBefore ==
  ASSUME IInv, pc # "idle"
  PROVE  /\ status = "going" /\ stream \in Streams
         /\ Mt(stream, decmt) /\ Own(stream, fds) /\ Buffer(stream, input)
         /\ room \in Nat /\ out \in Seq(Nat)
  BY InACall

LEMMA LoadKeeps ==
  ASSUME IInv, Load
  PROVE  IInv'
<1> DEFINE e == InBlock(decmt).endPos
           l == Len(LastNode(decmt))
<1>1. /\ pc = "load"
      /\ pc' = CASE e < l              -> "parse"
                 [] e >= l /\ Left > 0 -> "read"
                 [] OTHER              -> "hash"
      /\ stream' = stream /\ input' = input /\ room' = room /\ out' = out /\ decmt' = decmt /\ fds' = fds
      /\ parsed' = parsed /\ callVars' = callVars /\ status' = status
  BY DEF Load
<1>2. pc # "idle" /\ pc \in {"load", "parse", "read", "blocks"}
  BY <1>1
<1>3. PICK o \in 0 .. Len(stream) : Parses(o) /\ Here(o)
  BY <1>2, InParse
<1>4. Core(stream, decmt, fds, input, "load", parsed, o)
  BY <1>1, <1>3 DEF Here
<1>5. e \in Nat /\ l \in Nat
  <2>1. ParseContext(stream, decmt, fds, input, o)
    BY <1>3 DEF Parses
  <2>2. "load" \notin {"blocks", "failed", "error"}
    OBVIOUS
  <2>3. decmt.threads[decmt.numThreads].endPos \in Nat /\ Len(LastNode(decmt)) \in Nat
    BY <1>4, <2>1, <2>2, ParseContextIs
  <2>4. QED
    BY <2>3 DEF InBlock
<1> HIDE DEF e, l
<1>6. pc' \in {"parse", "read", "hash"} /\ (pc' = "parse" => e < l) /\ (pc' # "parse" => e >= l)
  BY <1>1, <1>5
<1>7. Core(stream, decmt, fds, input, pc', parsed, o)
  <2> DEFINE q == pc'
  <2>1. /\ q \in {"parse", "read", "hash"}
        /\ q = "parse" => decmt.threads[decmt.numThreads].endPos < Len(LastNode(decmt))
        /\ q # "parse" => decmt.threads[decmt.numThreads].endPos >= Len(LastNode(decmt))
    BY <1>6 DEF e, l, InBlock
  <2>2. ParseContext(stream, decmt, fds, input, o)
    BY <1>3 DEF Parses
  <2> HIDE DEF q
  <2>3. Core(stream, decmt, fds, input, q, parsed, o)
    BY <1>4, <2>1, <2>2, CoreLoad
  <2>4. QED
    BY <2>3 DEF q
<1>8. Next1(o)
  BY <1>1, <1>7, Zenon DEF Next1
<1>9. Typed
  BY <1>1, <1>2, TypedBefore, Zenon DEF Typed
<1>10. Phases'
  BY <1>1, <1>6, Zenon DEF IInv, Phases
<1>11. pc' \in Steps
  BY <1>6 DEF Steps
<1>12. \E q \in 0 .. Len(stream) : Next1(q)
  BY <1>3, <1>8
<1>13. QED
  BY <1>1, <1>2, <1>9, <1>10, <1>11, <1>12, StepEnds

(* The chunk at the end of what was parsed.                                *)
Size(b) == IF b.kind = "control" THEN b.size ELSE 0

LEMMA ChunksIs ==
  ASSUME NEW o, Parses(o), Core(stream, decmt, fds, input, "parse", parsed, o),
         NEW n, n = decmt.numThreads, NEW b, b = stream[End(decmt, o, n) + 1]
  PROVE  /\ b \in Byte
         /\ Chunks.size = Size(b)
         /\ Chunks.res = "continue" => b.kind = "control" /\ (~b.reset \/ decmt.threads[n].unpackSize = 0)
         /\ Chunks.res = "moreData" =>
              b.kind # "end" /\ Len(LastNode(decmt)) - decmt.threads[n].endPos < HeaderSize
         /\ Chunks.res = "dictReset" => IsReset(stream, End(decmt, o, n) + 1) /\ decmt.threads[n].unpackSize # 0
         /\ Chunks.res = "final" => b.kind = "end"
<1> DEFINE th == decmt.threads[n]
           e == End(decmt, o, n)
           avail == Len(LastNode(decmt)) - th.endPos
           res == ParseInput(b, avail)
<1>1. /\ LastNode(decmt)[th.endPos + 1] = e + 1 /\ e + 1 \in 1 .. Len(stream)
      /\ b \in Byte
  <2>1. ParseContext(stream, decmt, fds, input, o)
    BY DEF Parses
  <2>2. QED
    BY <2>1, ChunkHere
<1>2. Chunks = [res  |-> IF res = "dictReset" /\ th.unpackSize = 0 THEN "continue" ELSE res,
                size |-> Size(b)]
  BY <1>1 DEF Chunks, InBlock, Size
<1> HIDE DEF th, e, avail
<1>3. /\ res = "final" => b.kind = "end"
      /\ res = "moreData" => b.kind # "end" /\ avail < HeaderSize
      /\ res \in {"dictReset", "continue"} => b.kind = "control"
      /\ res = "dictReset" => b.reset
      /\ res = "continue" => ~b.reset
      /\ res \in {"final", "moreData", "dictReset", "continue", "error"}
  BY DEF ParseInput
<1> HIDE DEF res
<1>4. Chunks.size = Size(b) /\ Chunks.res = IF res = "dictReset" /\ th.unpackSize = 0 THEN "continue" ELSE res
  BY <1>2
<1>5. Chunks.res = "continue" => b.kind = "control" /\ (~b.reset \/ th.unpackSize = 0)
  BY <1>3, <1>4, Zenon
<1>6. Chunks.res = "dictReset" => b.kind = "control" /\ b.reset /\ th.unpackSize # 0
  BY <1>3, <1>4, Zenon
<1>7. Chunks.res = "dictReset" => IsReset(stream, e + 1)
  BY <1>1, <1>6 DEF IsReset, KindAt, e
<1>8. (Chunks.res = "moreData" => b.kind # "end" /\ avail < HeaderSize) /\ (Chunks.res = "final" => b.kind = "end")
  BY <1>3, <1>4
<1>9. QED
  BY <1>1, <1>4, <1>5, <1>6, <1>7, <1>8 DEF th, e, avail

LEMMA ParseStopsKeeps ==
  ASSUME IInv, ParseStops
  PROVE  IInv'
<1>1. /\ pc = "parse" /\ Chunks.res \in {"moreData", "error"} /\ parsed' = Chunks.res
      /\ pc' = (IF Chunks.res = "error" THEN "error" ELSE "read")
      /\ ret' = (IF Chunks.res = "error" THEN "corrupt" ELSE ret)
      /\ stream' = stream /\ input' = input /\ room' = room /\ out' = out /\ decmt' = decmt /\ fds' = fds
      /\ callVars' = callVars /\ status' = status
  BY DEF ParseStops
<1>2. pc # "idle" /\ pc \in {"load", "parse", "read", "blocks"}
  BY <1>1
<1>3. PICK o \in 0 .. Len(stream) : Parses(o) /\ Here(o)
  BY <1>2, InParse
<1>4. Core(stream, decmt, fds, input, "parse", parsed, o) /\ ParseContext(stream, decmt, fds, input, o)
  BY <1>1, <1>3 DEF Here, Parses
<1>5. Core(stream, decmt, fds, input, pc', parsed', o)
  <2>1. CASE Chunks.res = "error"
    <3>1. pc' = "error"
      BY <1>1, <2>1
    <3>2. Core(stream, decmt, fds, input, "error", parsed', o)
      BY <1>4, CoreError
    <3>3. QED
      BY <3>1, <3>2
  <2>2. CASE Chunks.res = "moreData"
    <3> DEFINE n == decmt.numThreads
               b == stream[End(decmt, o, n) + 1]
    <3>1. b.kind # "end" /\ Len(LastNode(decmt)) - decmt.threads[n].endPos < HeaderSize
      BY <1>3, <1>4, <2>2, ChunksIs
    <3>2. Core(stream, decmt, fds, input, "read", "moreData", o)
      BY <1>4, <3>1, CoreMoreData
    <3>3. pc' = "read" /\ parsed' = "moreData"
      BY <1>1, <2>2
    <3>4. QED
      BY <3>2, <3>3
  <2>3. QED
    BY <1>1, <2>1, <2>2
<1>6. Next1(o)
  BY <1>1, <1>5, Zenon DEF Next1
<1>7. Typed
  BY <1>1, <1>2, TypedBefore, Zenon DEF Typed
<1>8. pc' \in {"error", "read"} /\ (pc' = "error" => ret' = "corrupt")
  BY <1>1
<1>9. Phases'
  BY <1>1, <1>8, Zenon DEF IInv, Phases
<1>10. pc' \in Steps
  BY <1>8 DEF Steps
<1>11. \E q \in 0 .. Len(stream) : Next1(q)
  BY <1>3, <1>6
<1>12. QED
  BY <1>1, <1>2, <1>7, <1>9, <1>10, <1>11, StepEnds

LongerBy(m, m2, n, k) ==
  m2 = [m EXCEPT !.threads[n].endPos = @ + HeaderSize + k, !.threads[n].unpackSize = @ + k]

Longer(s, m, m2, n, k) ==
  /\ Mt(s, m2) /\ GrowsBlock(m, m2, n)
  /\ m2.threads[n].endPos = m.threads[n].endPos + HeaderSize + k
  /\ m2.threads[n].unpackSize = m.threads[n].unpackSize + k

LEMMA LongerIs ==
  ASSUME NEW s, NEW m, Mt(s, m), NEW n \in Thread, NEW k \in Nat, NEW m2, LongerBy(m, m2, n, k)
  PROVE  Longer(s, m, m2, n, k)
<1> DEFINE th == m.threads[n]
           e == th.endPos + HeaderSize + k
           u == th.unpackSize + k
           x == [th EXCEPT !.endPos = e, !.unpackSize = u]
           ts == [m.threads EXCEPT ![n] = x]
<1>1. m.threads \in [Thread -> ThreadState] /\ th \in ThreadState
  BY MtFields
<1>2. e \in Nat /\ u \in Nat
  <2>1. th.endPos \in Nat /\ th.unpackSize \in Nat
    BY <1>1, ThreadFields
  <2> HIDE DEF th
  <2>2. QED
    BY <2>1, StepPositive
<1>3. m2 = [m EXCEPT !.threads = ts]
  BY <1>1 DEF LongerBy, Mt
<1> HIDE DEF e, u
<1>4. /\ x \in ThreadState /\ x.first = th.first /\ x.last = th.last /\ x.startPos = th.startPos
      /\ x.endPos = e /\ x.unpackSize = u
  <2> HIDE DEF th
  <2>1. QED
    BY <1>1, <1>2 DEF ThreadState
<1> HIDE DEF x, th
<1>5. Replaces(ts, m.threads, n, x)
  BY <1>1, <1>4, OneChanged
<1> HIDE DEF ts
<1>6. /\ m2.chain = m.chain /\ m2.threads = ts /\ m2.numThreads = m.numThreads
      /\ m2.isFinal = m.isFinal /\ m2.failState = m.failState /\ m2.srcThread = m.srcThread
      /\ m2.srcPos = m.srcPos /\ m2.cur = m.cur /\ m2.curPos = m.curPos /\ WithFields(m2)
  BY <1>3 DEF Mt, WithFields
<1>7. Mt(s, m2)
  <2>1. m.isFinal \in BOOLEAN /\ m.numThreads \in 0 .. Threads
    BY MtFields
  <2>2. m2.isFinal \in BOOLEAN /\ m2.numThreads \in 0 .. Threads /\ m2.threads \in [Thread -> ThreadState]
    BY <1>5, <1>6, <2>1, Zenon DEF Replaces
  <2>3. QED
    BY <1>6, <2>2, MtThreads
<1>8. m2.threads[n] = x /\ \A t \in Thread : t # n => m2.threads[t] = m.threads[t]
  BY <1>5, <1>6 DEF Replaces
<1>9. GrowsBlock(m, m2, n)
  <2>1. \A t \in Thread : t # n => SameBlock(m.threads[t], m2.threads[t])
    BY <1>8 DEF SameBlock
  <2>2. QED
    BY <1>4, <1>6, <1>8, <2>1 DEF GrowsBlock, th
<1>10. QED
  BY <1>4, <1>7, <1>8, <1>9 DEF Longer, e, u, th

LEMMA NextChunkKeeps ==
  ASSUME IInv, NextChunk
  PROVE  IInv'
<1> DEFINE n == decmt.numThreads
           k == Chunks.size
<1>1. /\ pc = "parse" /\ Chunks.res = "continue" /\ parsed' = "continue"
      /\ LongerBy(decmt, decmt', n, k)
      /\ pc' = (IF InBlock(decmt').endPos < Len(LastNode(decmt)) THEN "parse" ELSE "read")
      /\ stream' = stream /\ input' = input /\ room' = room /\ out' = out /\ fds' = fds
      /\ callVars' = callVars /\ status' = status
  BY DEF NextChunk, LongerBy
<1>2. pc # "idle" /\ pc \in {"load", "parse", "read", "blocks"}
  BY <1>1
<1>3. PICK o \in 0 .. Len(stream) : Parses(o) /\ Here(o)
  BY <1>2, InParse
<1>4. Core(stream, decmt, fds, input, "parse", parsed, o) /\ ParseContext(stream, decmt, fds, input, o)
  BY <1>1, <1>3 DEF Here, Parses
<1> DEFINE b == stream[End(decmt, o, n) + 1]
<1>5. b \in Byte /\ k = Size(b) /\ b.kind = "control" /\ (~b.reset \/ decmt.threads[n].unpackSize = 0)
  BY <1>1, <1>3, <1>4, ChunksIs
<1>6. k = b.size /\ k \in Nat
  <2> HIDE DEF b, k
  <2>1. QED
    BY <1>5 DEF Size, Byte
<1>7. n \in Thread /\ Mt(stream, decmt)
  <2>1. "parse" \notin {"blocks", "failed", "error"}
    OBVIOUS
  <2>2. n \in Thread
    BY <1>4, <2>1, ParseContextIs
  <2>3. QED
    BY <1>4, <2>2 DEF ParseContext
<1> HIDE DEF k
<1>8. Longer(stream, decmt, decmt', n, k)
  BY <1>1, <1>6, <1>7, LongerIs
<1>9. /\ Mt(stream, decmt') /\ GrowsBlock(decmt, decmt', n)
      /\ decmt'.threads[n].endPos = decmt.threads[n].endPos + HeaderSize + b.size
      /\ decmt'.threads[n].unpackSize = decmt.threads[n].unpackSize + b.size
  BY <1>6, <1>8 DEF Longer
<1>10. decmt'.numThreads = n /\ decmt'.failState = decmt.failState
  BY <1>9 DEF GrowsBlock
<1> DEFINE q == pc'
<1>11. q \in {"parse", "read"} /\ (q = "parse" => decmt'.threads[n].endPos < Len(LastNode(decmt)))
  BY <1>1, <1>10 DEF InBlock
<1>12. Core(stream, decmt', fds, input, q, "continue", o)
  <2> HIDE DEF q
  <2>1. QED
    BY <1>4, <1>5, <1>9, <1>11, CoreNextChunk
<1>13. Next1(o)
  BY <1>1, <1>12, Zenon DEF Next1
<1>14. Typed
  BY <1>1, <1>2, <1>9, TypedBefore, Zenon DEF Typed
<1>15. Phases'
  BY <1>1, <1>10, <1>11, Zenon DEF IInv, Phases
<1>16. pc' \in Steps
  BY <1>11 DEF Steps
<1>17. \E y \in 0 .. Len(stream) : Next1(y)
  BY <1>3, <1>13
<1>18. QED
  BY <1>1, <1>2, <1>14, <1>15, <1>16, <1>17, StepEnds

LEMMA NotMoved ==
  ASSUME NEW s, NEW m, Mt(s, m), NEW n \in Thread, NEW fin, ~fin
  PROVE  /\ EndMovedBy(m, n, fin).threads[n].last = m.threads[n].last
         /\ EndMovedBy(m, n, fin).threads[n].endPos = m.threads[n].endPos
<1> DEFINE th == m.threads[n]
           x == [th EXCEPT !.endPos = th.endPos]
           ts == [m.threads EXCEPT ![n] = x]
<1>1. m.threads \in [Thread -> ThreadState] /\ th \in ThreadState
  BY MtFields
<1>2. EndMovedBy(m, n, fin) = [m EXCEPT !.threads = ts]
  BY <1>1 DEF EndMovedBy, Mt
<1>3. EndMovedBy(m, n, fin).threads = ts
  <2> HIDE DEF ts
  <2>1. QED
    BY <1>2 DEF Mt
<1>4. x.last = th.last /\ x.endPos = th.endPos
  <2> HIDE DEF th
  <2>1. QED
    BY <1>1 DEF ThreadState
<1>5. ts[n] = x
  <2> HIDE DEF x
  <2>1. QED
    BY <1>1
<1>6. QED
  BY <1>3, <1>4, <1>5

LEMMA HeldCounted ==
  ASSUME NEW s, NEW m, NEW n \in Thread, NEW fin \in BOOLEAN, NEW tot,
         Counted(s, m, CountedBlock(m, fin, tot), n, fin)
  PROVE  /\ Counted(s, m, HeldBlock(m, n, fin, tot), n, fin)
         /\ HeldBlock(m, n, fin, tot).isFinal = fin
<1> DEFINE c == CountedBlock(m, fin, tot)
           h == HeldBlock(m, n, fin, tot)
<1>1. HeldOf(c, h, n, fin)
  BY DEF HeldBlock, HeldOf
<1>2. Counted(s, m, c, n, fin)
  OBVIOUS
<1> HIDE DEF c, h
<1>3. Counted(s, m, h, n, fin) /\ h.isFinal = fin
  BY <1>1, <1>2, HeldIs
<1>4. QED
  BY <1>3 DEF h

LEMMA BlockCompleteKeeps ==
  ASSUME IInv, BlockComplete
  PROVE  IInv'
<1> DEFINE n == decmt.numThreads
           fin == Chunks.res = "final"
           mm == EndMovedBy(decmt, n, fin)
<1>1. /\ pc = "parse" /\ Chunks.res \in {"dictReset", "final"} /\ parsed' = Chunks.res
      /\ stream' = stream /\ room' = room /\ out' = out /\ fds' = fds
      /\ callVars' = callVars /\ status' = status
  BY SMTT(30) DEF BlockComplete
<1>2. \E z \in HandleFinalChunk(mm, fin) :
        CASE z.res = "next"   -> decmt' = z.decmt /\ pc' = "read" /\ input' = input
          [] z.res = "ready"  -> GivesBack(input, n, Started(z.decmt), decmt', input') /\ pc' = "blocks"
          [] z.res = "memory" -> GivesBack(input, n, z.decmt, decmt', input') /\ pc' = "failed"
  BY ZenonT(40) DEF BlockComplete, EndMovedBy, Rewind, GivesBack
<1>3. PICK z \in HandleFinalChunk(mm, fin) :
        CASE z.res = "next"   -> decmt' = z.decmt /\ pc' = "read" /\ input' = input
          [] z.res = "ready"  -> GivesBack(input, n, Started(z.decmt), decmt', input') /\ pc' = "blocks"
          [] z.res = "memory" -> GivesBack(input, n, z.decmt, decmt', input') /\ pc' = "failed"
  BY <1>2
<1>4. pc # "idle" /\ pc \in {"load", "parse", "read", "blocks"}
  BY <1>1
<1>5. PICK o \in 0 .. Len(stream) : Parses(o) /\ Here(o)
  BY <1>4, InParse
<1>6. Core(stream, decmt, fds, input, "parse", parsed, o) /\ ParseContext(stream, decmt, fds, input, o)
  BY <1>1, <1>5 DEF Here, Parses
<1> DEFINE b == stream[End(decmt, o, n) + 1]
<1>7. n \in Thread /\ Mt(stream, decmt) /\ n \in Nat
  <2>1. "parse" \notin {"blocks", "failed", "error"}
    OBVIOUS
  <2>2. n \in Thread
    BY <1>6, <2>1, ParseContextIs
  <2>3. QED
    BY <1>6, <2>2, ThreadIs DEF ParseContext
<1>8. /\ fin => b.kind = "end"
      /\ ~fin => IsReset(stream, End(decmt, o, n) + 1) /\ decmt.threads[n].unpackSize # 0
      /\ ~fin => Chunks.res = "dictReset"
  <2>1. /\ Chunks.res = "final" => b.kind = "end"
        /\ Chunks.res = "dictReset" => IsReset(stream, End(decmt, o, n) + 1) /\ decmt.threads[n].unpackSize # 0
    BY <1>5, <1>6, ChunksIs
  <2>2. QED
    BY <1>1, <2>1
<1>9. fin \in BOOLEAN
  OBVIOUS
<1> HIDE DEF fin
<1>10. Ends(stream, decmt, o, n, fin)
  BY <1>8, Zenon DEF Ends
<1>11. PICK tot : Outcome(decmt, n, fin, tot, z)
  <2> HIDE DEF mm, n
  <2>1. mm = EndMovedBy(decmt, n, fin) /\ n = decmt.numThreads
    BY DEF mm, n
  <2>2. z \in HandleFinalChunk(mm, fin)
    BY <1>3
  <2>3. QED
    BY <1>7, <1>9, <2>1, <2>2, HandleIs
<1> DEFINE c == CountedBlock(decmt, fin, tot)
           h == HeldBlock(decmt, n, fin, tot)
<1>12. Counted(stream, decmt, c, n, fin)
  BY <1>7, <1>9, CountedIs
<1>13. Counted(stream, decmt, h, n, fin) /\ h.isFinal = fin
  <2> HIDE DEF n
  <2>1. QED
    BY <1>7, <1>9, <1>12, HeldCounted
<1>14. /\ Mt(stream, decmt') /\ Buffer(stream, input') /\ ~decmt'.failState
       /\ pc' \in {"read", "blocks", "failed"}
       /\ Core(stream, decmt', fds, input', pc', parsed', o)
  <2>1. CASE z.res = "memory"
    <3>1. z.decmt = c
      BY <1>11, <2>1 DEF Outcome
    <3>2. GivesBack(input, n, c, decmt', input') /\ pc' = "failed"
      BY <1>3, <2>1, <3>1
    <3> HIDE DEF c
    <3>3. AfterBlock(stream, decmt, fds, input, o, "failed", decmt', input')
      BY <1>6, <1>9, <1>10, <1>12, <3>2, CompleteFails
    <3>4. /\ Mt(stream, decmt') /\ Buffer(stream, input') /\ ~decmt'.failState
          /\ Core(stream, decmt', fds, input', "failed", parsed', o)
      BY <3>3, Zenon DEF AfterBlock
    <3>5. QED
      BY <3>2, <3>4
  <2>2. CASE z.res = "ready"
    <3>1. z.decmt = h
      BY <1>11, <2>2 DEF Outcome
    <3>2. GivesBack(input, n, Started(h), decmt', input') /\ pc' = "blocks"
      BY <1>3, <2>2, <3>1
    <3> HIDE DEF h
    <3>3. AfterBlock(stream, decmt, fds, input, o, "blocks", decmt', input')
      BY <1>6, <1>9, <1>10, <1>13, <3>2, CompleteStarts
    <3>4. /\ Mt(stream, decmt') /\ Buffer(stream, input') /\ ~decmt'.failState
          /\ Core(stream, decmt', fds, input', "blocks", parsed', o)
      BY <3>3, Zenon DEF AfterBlock
    <3>5. QED
      BY <3>2, <3>4
  <2>3. CASE z.res = "next"
    <3>1. /\ ~fin /\ n + 1 # Threads
          /\ z.decmt = [h EXCEPT !.threads[n + 1] = NewBlock(@, mm.threads[n].last, mm.threads[n].endPos)]
      BY <1>11, <2>3 DEF Outcome
    <3>2. mm.threads[n].last = decmt.threads[n].last /\ mm.threads[n].endPos = decmt.threads[n].endPos
      BY <1>7, <3>1, NotMoved
    <3> HIDE DEF h, mm
    <3>3. BeginsNext(decmt, h, n, z.decmt)
      BY <3>1, <3>2 DEF BeginsNext
    <3>4. decmt' = z.decmt /\ pc' = "read" /\ input' = input
      BY <1>3, <2>3
    <3>5. BeginsNext(decmt, h, n, decmt')
      BY <3>3, <3>4
    <3>6. Mt(stream, decmt') /\ ~decmt'.failState /\ Core(stream, decmt', fds, input, "read", "dictReset", o)
      BY <1>6, <1>9, <1>10, <1>13, <3>1, <3>5, CompleteGoesOn
    <3>7. parsed' = "dictReset" /\ Buffer(stream, input)
      BY <1>1, <1>6, <1>8, <3>1 DEF ParseContext
    <3>8. QED
      BY <3>4, <3>6, <3>7
  <2>4. QED
    BY <1>11, <2>1, <2>2, <2>3 DEF Outcome
<1>15. Next1(o)
  BY <1>1, <1>14, Zenon DEF Next1
<1>16. Typed
  BY <1>1, <1>4, <1>14, TypedBefore, Zenon DEF Typed
<1>17. fds.stage = "decomp"
  BY <1>6 DEF ParseContext
<1>18. Phases'
  BY <1>1, <1>14, <1>17, Zenon DEF Phases
<1>19. pc' \in Steps
  BY <1>14 DEF Steps
<1>20. \E y \in 0 .. Len(stream) : Next1(y)
  BY <1>5, <1>15
<1>21. QED
  BY <1>1, <1>4, <1>16, <1>18, <1>19, <1>20, StepEnds

InRead(o) ==
  /\ Parses(o) /\ o \in 0 .. Len(stream)
  /\ Core(stream, decmt, fds, input, "read", parsed, o)
  /\ decmt.numThreads \in Thread /\ InBlock(decmt).last = Len(decmt.chain)
  /\ LastNode(decmt) = decmt.chain[Len(decmt.chain)]
  /\ InBlock(decmt).endPos \in Nat

LEMMA ReadingIs ==
  ASSUME IInv, pc = "read"
  PROVE  \E o : InRead(o)
<1>1. pc \in {"load", "parse", "read", "blocks"}
  OBVIOUS
<1>2. PICK o \in 0 .. Len(stream) : Parses(o) /\ Here(o)
  BY <1>1, InParse
<1>3. ParseContext(stream, decmt, fds, input, o) /\ Core(stream, decmt, fds, input, "read", parsed, o)
  BY <1>2 DEF Parses, Here
<1>4. "read" \notin {"blocks", "failed", "error"}
  OBVIOUS
<1>5. /\ decmt.numThreads \in Thread
      /\ decmt.threads[decmt.numThreads].last = Len(decmt.chain)
      /\ decmt.threads[decmt.numThreads].endPos \in Nat
      /\ LastNode(decmt) = decmt.chain[Len(decmt.chain)]
  BY <1>3, <1>4, ParseContextIs
<1>6. InRead(o)
  BY <1>2, <1>3, <1>5 DEF InRead, InBlock
<1>7. QED
  BY <1>6

LEMMA FillKeeps ==
  ASSUME IInv, pc = "read", NEW m, NEW o, o \in 0 .. Len(stream),
         ParseContext(stream, m, fds, input, o), Core(stream, m, fds, input, "read", parsed, o),
         Fill(m), stream' = stream, room' = room, out' = out, fds' = fds, parsed' = parsed,
         callVars' = callVars, status' = status
  PROVE  IInv'
<1> DEFINE l == Len(m.chain)
           k == Min({Left, NodeSize - Len(LastNode(m))})
           p == IF parsed = "moreData" /\ k = 0 THEN "hash" ELSE "load"
<1>1. InBlock(m).last = l /\ LastNode(m) = m.chain[l]
  <2>1. "read" \notin {"blocks", "failed", "error"}
    OBVIOUS
  <2>2. m.threads[m.numThreads].last = Len(m.chain) /\ LastNode(m) = m.chain[Len(m.chain)]
    BY <2>1, ParseContextIs
  <2>3. QED
    BY <2>2 DEF InBlock
<1>2. Reads(m, decmt', l, input, k) /\ Takes(input, input', k) /\ pc' = p
  BY <1>1 DEF Fill, Reads, Takes, Given, Run
<1>3. ReadsMost(input, m.chain[l], k)
  BY <1>1 DEF ReadsMost, Left
<1>4. AfterReading(p, parsed, k)
  BY DEF AfterReading
<1>5. p \in {"hash", "load"}
  OBVIOUS
<1>6. l = Len(m.chain)
  OBVIOUS
<1> HIDE DEF l, k, p
<1>7. Filled(stream, decmt', input', fds, p, parsed, o)
  BY <1>2, <1>3, <1>4, <1>6, CoreFill
<1>8. /\ Mt(stream, decmt') /\ Buffer(stream, input') /\ ~decmt'.failState
      /\ Core(stream, decmt', fds, input', p, parsed, o)
  BY <1>7 DEF Filled
<1>9. Next1(o)
  BY <1>2, <1>8, Zenon DEF Next1
<1>10. pc # "idle"
  OBVIOUS
<1>11. Typed
  BY <1>8, <1>10, TypedBefore, Zenon DEF Typed
<1>12. fds.stage = "decomp"
  BY DEF ParseContext
<1>13. Phases'
  BY <1>2, <1>5, <1>8, <1>12, Zenon DEF Phases
<1>14. pc' \in Steps
  BY <1>2, <1>5 DEF Steps
<1>15. \E y \in 0 .. Len(stream) : Next1(y)
  BY <1>9
<1>16. QED
  BY <1>10, <1>11, <1>13, <1>14, <1>15, StepEnds

LEMMA ReadInputKeeps ==
  ASSUME IInv, ReadInput
  PROVE  IInv'
<1>1. /\ pc = "read" /\ Fill(decmt)
      /\ stream' = stream /\ room' = room /\ out' = out /\ fds' = fds /\ parsed' = parsed
      /\ callVars' = callVars /\ status' = status
  BY DEF ReadInput
<1>2. PICK o : InRead(o)
  BY <1>1, ReadingIs
<1>3. /\ ParseContext(stream, decmt, fds, input, o) /\ o \in 0 .. Len(stream)
      /\ Core(stream, decmt, fds, input, "read", parsed, o)
  BY <1>2 DEF InRead, Parses
<1>4. QED
  BY <1>1, <1>3, FillKeeps

LEMMA AddNodeKeeps ==
  ASSUME IInv, AddNode
  PROVE  IInv'
<1> DEFINE m == WithNode(decmt)
           n == decmt.numThreads
           l == Len(decmt.chain)
<1>1. /\ pc = "read" /\ NeedsNode /\ Fill(m)
      /\ stream' = stream /\ room' = room /\ out' = out /\ fds' = fds /\ parsed' = parsed
      /\ callVars' = callVars /\ status' = status
  BY DEF AddNode
<1>2. PICK o : InRead(o)
  BY <1>1, ReadingIs
<1>3. /\ ParseContext(stream, decmt, fds, input, o) /\ o \in 0 .. Len(stream)
      /\ Core(stream, decmt, fds, input, "read", parsed, o)
      /\ n \in Thread /\ InBlock(decmt).last = l /\ LastNode(decmt) = decmt.chain[l]
  BY <1>2 DEF InRead, Parses
<1>4. decmt.threads[n].last = l /\ Len(decmt.chain[l]) = NodeSize
      /\ decmt.threads[n].endPos + Required >= NodeSize
  BY <1>1, <1>3 DEF NeedsNode, InBlock
<1>5. Mt(stream, decmt)
  BY <1>3 DEF ParseContext
<1>6. n = decmt.numThreads /\ l = Len(decmt.chain) /\ m = WithNode(decmt)
  OBVIOUS
<1> HIDE DEF m, n, l
<1>7. HasNode(stream, decmt, m, n, l)
  BY <1>3, <1>4, <1>5, <1>6, WithNodeIs
<1>8. ParseContext(stream, m, fds, input, o) /\ Core(stream, m, fds, input, "read", parsed, o)
  BY <1>3, <1>4, <1>6, <1>7, CoreWithNode
<1>9. QED
  BY <1>1, <1>3, <1>8, FillKeeps

LEMMA TotalOnly ==
  ASSUME NEW s, NEW m, Mt(s, m), NEW tot, NEW m2, m2 = [m EXCEPT !.memTotal = tot]
  PROVE  Mt(s, m2) /\ m2.chain = m.chain /\ m2.threads = m.threads /\ m2.failState = m.failState
         /\ m2.numThreads = m.numThreads
<1>1. /\ m2.chain = m.chain /\ m2.threads = m.threads /\ m2.numThreads = m.numThreads
      /\ m2.isFinal = m.isFinal /\ m2.failState = m.failState /\ m2.srcThread = m.srcThread
      /\ m2.srcPos = m.srcPos /\ m2.cur = m.cur /\ m2.curPos = m.curPos /\ WithFields(m2)
  BY DEF Mt, WithFields
<1>2. m.isFinal \in BOOLEAN /\ m.numThreads \in 0 .. Threads /\ m.threads \in [Thread -> ThreadState]
  BY MtFields
<1>3. m2.isFinal \in BOOLEAN /\ m2.numThreads \in 0 .. Threads /\ m2.threads \in [Thread -> ThreadState]
  BY <1>1, <1>2
<1>4. Mt(s, m2)
  BY <1>1, <1>3, MtThreads
<1>5. QED
  BY <1>1, <1>4

LEMMA AddNodeFailsKeeps ==
  ASSUME IInv, AddNodeFails
  PROVE  IInv'
<1> DEFINE m == [decmt EXCEPT !.memTotal = Plus(decmt.memTotal, NodeSize)]
           n == decmt.numThreads
           l == Len(decmt.chain)
<1>1. /\ pc = "read" /\ NeedsNode /\ pc' = "failed"
      /\ stream' = stream /\ room' = room /\ out' = out /\ fds' = fds /\ parsed' = parsed
      /\ callVars' = callVars /\ status' = status
  BY DEF AddNodeFails
<1>2. IF InBlock(m).endPos < NodeSize THEN Rewind(m, m.numThreads)
      ELSE decmt' = m /\ input' = input
  BY DEF AddNodeFails
<1>3. PICK o : InRead(o)
  BY <1>1, ReadingIs
<1>4. /\ ParseContext(stream, decmt, fds, input, o) /\ o \in 0 .. Len(stream)
      /\ Core(stream, decmt, fds, input, "read", parsed, o)
      /\ n \in Thread /\ InBlock(decmt).last = l /\ LastNode(decmt) = decmt.chain[l]
      /\ InBlock(decmt).endPos \in Nat
  BY <1>3 DEF InRead, Parses
<1>5. decmt.threads[n].last = l /\ Len(decmt.chain[l]) = NodeSize /\ Len(LastNode(decmt)) = NodeSize
      /\ decmt.threads[n].endPos + Required >= NodeSize /\ decmt.threads[n].endPos \in Nat
  BY <1>1, <1>4 DEF NeedsNode, InBlock
<1>6. Mt(stream, decmt) /\ Buffer(stream, input) /\ ~decmt.failState /\ fds.stage = "decomp"
  BY <1>4 DEF ParseContext
<1>7. Mt(stream, m) /\ m.chain = decmt.chain /\ m.threads = decmt.threads /\ m.failState = decmt.failState
      /\ m.numThreads = n
  <2> DEFINE tot == Plus(decmt.memTotal, NodeSize)
  <2>1. m = [decmt EXCEPT !.memTotal = tot]
    OBVIOUS
  <2> HIDE DEF m, tot
  <2>2. QED
    BY <1>6, <2>1, TotalOnly
<1>8. InBlock(m) = decmt.threads[n]
  BY <1>7 DEF InBlock
<1> HIDE DEF m
<1>9. Mt(stream, decmt') /\ Buffer(stream, input') /\ Core(stream, decmt', fds, input', "failed", parsed, o)
  <2>1. CASE decmt.threads[n].endPos < NodeSize
    <3>1. Rewind(m, n)
      BY <1>2, <1>7, <1>8, <2>1
    <3>2. LET b == m.threads[n]
              len == Len(m.chain[b.last])
              back == Min({input.pos - input.base, len - b.endPos})
          IN  /\ decmt' = [m EXCEPT !.chain[b.last] = SubSeq(@, 1, len - back)]
              /\ input' = [input EXCEPT !.pos = @ - back]
      BY <3>1 DEF Rewind
    <3>3. n = decmt.numThreads
      OBVIOUS
    <3> HIDE DEF n
    <3>4. QED
      BY <1>4, <1>5, <1>7, <2>1, <3>2, <3>3, CoreNodeFailsBack, ZenonT(60)
  <2>2. CASE ~(decmt.threads[n].endPos < NodeSize)
    <3>1. decmt' = m /\ input' = input
      BY <1>2, <1>8, <2>2
    <3>2. decmt.threads[n].endPos >= NodeSize
      BY <1>5, <2>2, StepPositive
    <3>3. n = decmt.numThreads /\ l = Len(decmt.chain)
      OBVIOUS
    <3> HIDE DEF n, l
    <3>4. Core(stream, m, fds, input, "failed", parsed, o)
      BY <1>4, <1>5, <1>7, <3>2, <3>3, CoreNodeFails
    <3>5. QED
      BY <1>6, <1>7, <3>1, <3>4
  <2>3. QED
    BY <2>1, <2>2
<1>10. Next1(o)
  BY <1>1, <1>9, Zenon DEF Next1
<1>11. pc # "idle"
  BY <1>1
<1>12. Typed
  BY <1>1, <1>9, <1>11, TypedBefore, Zenon DEF Typed
<1>13. Phases'
  BY <1>1, <1>6, Zenon DEF Phases
<1>14. pc' \in Steps
  BY <1>1 DEF Steps
<1>15. \E y \in 0 .. Len(stream) : Next1(y)
  BY <1>4, <1>10
<1>16. QED
  BY <1>1, <1>11, <1>12, <1>13, <1>14, <1>15, StepEnds

LEMMA InBlocks ==
  ASSUME IInv, pc = "blocks"
  PROVE  \E o \in 0 .. Len(stream) :
           /\ Core(stream, decmt, fds, input, "blocks", parsed, o)
           /\ ParseContext(stream, decmt, fds, input, o)
           /\ Blocks(stream, decmt, o, input.pos)
<1>1. pc \in {"load", "parse", "read", "blocks"}
  OBVIOUS
<1>2. PICK o \in 0 .. Len(stream) : Parses(o) /\ Here(o)
  BY <1>1, InParse
<1>3. ParseContext(stream, decmt, fds, input, o) /\ Core(stream, decmt, fds, input, "blocks", parsed, o)
  BY <1>2 DEF Parses, Here
<1>4. ~decmt.failState /\ fds.stage = "decomp"
  BY <1>3 DEF ParseContext
<1>5. SeveralThreads(stream, decmt, fds, input, "blocks", parsed, o)
  BY <1>3, <1>4 DEF Core
<1>6. Blocks(stream, decmt, o, input.pos)
  BY <1>4, <1>5 DEF SeveralThreads
<1>7. QED
  BY <1>3, <1>6

LEMMA CanceledBlock ==
  ASSUME NEW th \in ThreadState, NEW x, x = [th EXCEPT !.res = "canceled"]
  PROVE  x \in ThreadState /\ SameBlock(th, x) /\ Runs(x)
  BY DEF ThreadState, SameBlock, Runs

LEMMA BlockStepKeeps ==
  ASSUME IInv, NEW t \in Thread, BlockStep(t)
  PROVE  IInv'
<1> DEFINE th == decmt.threads[t]
           node == decmt.chain[th.cur]
           bytes == SubSeq(node, th.inPos + 1, Len(node))
           left == th.bufSize - Len(th.outBuf)
<1>1. /\ pc = "blocks" /\ t < decmt.numThreads /\ th.res = "running"
      /\ stream' = stream /\ input' = input /\ room' = room /\ out' = out /\ fds' = fds /\ pc' = pc
      /\ parsed' = parsed /\ ret' = ret /\ callVars' = callVars /\ status' = status
  BY DEF BlockStep
<1>2. PICK o \in 0 .. Len(stream) :
        /\ Core(stream, decmt, fds, input, "blocks", parsed, o)
        /\ ParseContext(stream, decmt, fds, input, o)
        /\ Blocks(stream, decmt, o, input.pos)
  BY <1>1, InBlocks
<1>3. Mt(stream, decmt) /\ ~decmt.failState /\ fds.stage = "decomp" /\ stream \in Streams /\ o \in Nat
  BY <1>2, StreamIs DEF ParseContext
<1>4. decmt.threads \in [Thread -> ThreadState] /\ th \in ThreadState
  BY <1>3, MtFields
<1>5. Complete(stream, decmt, o, t) /\ Runs(th)
  <2>1. t \in 0 .. decmt.numThreads - 1
    <3>1. t \in Nat /\ decmt.numThreads \in Nat
      BY <1>3, MtFields, ThreadIs
    <3>2. QED
      BY <1>1, <3>1
  <2>2. Complete(stream, decmt, o, t) /\ Decoding(decmt, t)
    BY <1>2, <2>1 DEF Blocks
  <2>3. QED
    BY <2>2 DEF Decoding, Runs
<1>6. node \in Seq(1 .. Len(stream))
  <2>1. Block(stream, decmt, o, t) /\ th.cur \in th.first .. th.last
    BY <1>1, <1>5 DEF Complete, Runs
  <2>2. /\ th.first \in Nat /\ th.last \in Nat /\ 1 <= th.first /\ th.last <= Len(decmt.chain)
    BY <1>3, <2>1, BlockPlace
  <2>3. Len(decmt.chain) \in Nat
    BY <1>3, MtFields
  <2>4. th.cur \in 1 .. Len(decmt.chain)
    <3> HIDE DEF th
    <3>1. QED
      BY <2>1, <2>2, <2>3
  <2>5. QED
    BY <1>3, <2>4, MtFields
<1>7. \E th2 : OneDecodes(decmt, t, th2, decmt') /\ th2 \in ThreadState /\ SameBlock(th, th2) /\ Runs(th2)
  <2>1. CASE canceled
    <3> DEFINE x == [th EXCEPT !.res = "canceled"]
    <3>1. decmt' = [decmt EXCEPT !.threads[t] = x]
      BY <2>1 DEF BlockStep
    <3>2. OneDecodes(decmt, t, x, decmt')
      BY <3>1 DEF OneDecodes
    <3>3. x \in ThreadState /\ SameBlock(th, x) /\ Runs(x)
      <4> HIDE DEF th
      <4>1. QED
        BY <1>4, CanceledBlock
    <3>4. QED
      BY <3>2, <3>3
  <2>2. CASE ~canceled
    <3>1. \E z \in Decode(stream, th.dec, bytes, left) : \E th2 :
            StepsTo(stream, th, node, th2, z) /\ OneDecodes(decmt, t, th2, decmt')
      <4>1. PICK z \in Decode(stream, th.dec, bytes, left) :
              decmt' = [decmt EXCEPT !.threads[t] = Decoded(th, node, z)]
        BY <2>2 DEF BlockStep
      <4> DEFINE x == Decoded(th, node, z)
      <4>2. StepsTo(stream, th, node, x, z)
        BY DEF StepsTo
      <4>3. OneDecodes(decmt, t, x, decmt')
        BY <4>1 DEF OneDecodes
      <4>4. QED
        BY <4>2, <4>3
    <3>2. PICK z \in Decode(stream, th.dec, bytes, left) :
            \E th2 : StepsTo(stream, th, node, th2, z) /\ OneDecodes(decmt, t, th2, decmt')
      BY <3>1
    <3>3. PICK th2 : StepsTo(stream, th, node, th2, z) /\ OneDecodes(decmt, t, th2, decmt')
      BY <3>2
    <3>4. th2 \in ThreadState /\ SameBlock(th, th2) /\ Runs(th2)
      <4>1. z \in Decode(stream, th.dec, SubSeq(node, th.inPos + 1, Len(node)), th.bufSize - Len(th.outBuf))
        BY <3>2
      <4>2. th.res = "running"
        BY <1>1
      <4> HIDE DEF th, node
      <4>3. QED
        BY <1>3, <1>4, <1>5, <1>6, <3>3, <4>1, <4>2, StepIs
    <3>5. QED
      BY <3>4, <3>3, SMTT(30)
  <2>3. QED
    BY <2>1, <2>2
<1>8. PICK th2 : OneDecodes(decmt, t, th2, decmt') /\ th2 \in ThreadState /\ SameBlock(th, th2) /\ Runs(th2)
  BY <1>7
<1>9. Mt(stream, decmt') /\ ~decmt'.failState /\ Core(stream, decmt', fds, input, "blocks", parsed, o)
  BY <1>2, <1>3, <1>8, CoreBlockStep
<1>10. Next1(o)
  BY <1>1, <1>9, Zenon DEF Next1
<1>11. pc # "idle"
  BY <1>1
<1>12. Typed
  BY <1>1, <1>9, <1>11, TypedBefore, Zenon DEF Typed
<1>13. Phases'
  BY <1>1, <1>3, <1>9, Zenon DEF Phases
<1>14. pc' \in Steps
  BY <1>1 DEF Steps
<1>15. \E y \in 0 .. Len(stream) : Next1(y)
  BY <1>2, <1>10
<1>16. QED
  BY <1>1, <1>11, <1>12, <1>13, <1>14, <1>15, StepEnds

-----------------------------------------------------------------------------
(* The blocks are decoded and written.                                     *)
LEMMA LeastIn ==
  ASSUME NEW N, N \subseteq Nat, N # {}
  PROVE  Min(N) \in N
<1>1. \E x \in N : \A y \in N : x <= y
  BY LeastElement
<1>2. QED
  BY <1>1 DEF Min

LEMMA StageIs ==
  ASSUME NEW s, NEW f, Own(s, f), NEW st \in {"decomp", "mtWrite", "hash", "finished"},
         NEW g, g = [f EXCEPT !.stage = st]
  PROVE  /\ Own(s, g) /\ g.stage = st /\ g.overlap = f.overlap /\ g.hash = f.hash /\ g.dec = f.dec
BY DEF Own

LEMMA FailedBlock ==
  ASSUME NEW m, m.threads \in [Thread -> ThreadState],
         \A t \in Thread : t < m.numThreads => m.threads[t].res # "running",
         NEW results, results = {t \in Thread : t < m.numThreads /\ m.threads[t].res # "ok"},
         results # {}
  PROVE  m.threads[Min(results)].res \in {"corrupt", "memory", "canceled"}
<1>1. results \subseteq Nat
  BY ThreadIs
<1>2. Min(results) \in results
  BY <1>1, LeastIn
<1> DEFINE t == Min(results)
<1>3. t \in Thread /\ t < m.numThreads /\ m.threads[t].res # "ok"
  BY <1>2
<1> HIDE DEF t
<1>4. m.threads[t].res # "running" /\ m.threads[t] \in ThreadState
  BY <1>3
<1>5. m.threads[t].res \in {"ok", "running", "canceled", "corrupt"}
  BY <1>4 DEF ThreadState
<1>6. m.threads[t].res \in {"corrupt", "memory", "canceled"}
  BY <1>3, <1>4, <1>5
<1>7. QED
  BY <1>6 DEF t

LEMMA BlocksDoneKeeps ==
  ASSUME IInv, BlocksDone
  PROVE  IInv'
<1> DEFINE results == {t \in Thread : t < decmt.numThreads /\ decmt.threads[t].res # "ok"}
           g == [fds EXCEPT !.stage = "mtWrite"]
<1>1. /\ pc = "blocks"
      /\ \A t \in Thread : t < decmt.numThreads => decmt.threads[t].res # "running"
      /\ decmt' = [Rest(decmt) EXCEPT !.srcThread = 0, !.srcPos = 0]
      /\ stream' = stream /\ input' = input /\ room' = room /\ out' = out
      /\ parsed' = parsed /\ callVars' = callVars /\ status' = status
      /\ IF results # {}
         THEN pc' = "error" /\ ret' = decmt.threads[Min(results)].res /\ fds' = fds
         ELSE pc' = "write" /\ fds' = g /\ ret' = ret
  BY DEF BlocksDone
<1>2. PICK o \in 0 .. Len(stream) :
        /\ Core(stream, decmt, fds, input, "blocks", parsed, o)
        /\ ParseContext(stream, decmt, fds, input, o)
        /\ Blocks(stream, decmt, o, input.pos)
  BY <1>1, InBlocks
<1>3. /\ Mt(stream, decmt) /\ Own(stream, fds) /\ Buffer(stream, input)
      /\ ~decmt.failState /\ fds.stage = "decomp" /\ stream \in Streams /\ o \in Nat
  BY <1>2, StreamIs DEF ParseContext
<1>4. RestFrom(decmt, decmt')
  BY <1>1 DEF RestFrom
<1>5. Own(stream, g) /\ g.stage = "mtWrite" /\ g.overlap = fds.overlap /\ g.hash = fds.hash
  <2> HIDE DEF g
  <2>1. g = [fds EXCEPT !.stage = "mtWrite"]
    BY DEF g
  <2>2. QED
    BY <1>3, <2>1, StageIs
<1> HIDE DEF g
<1>6. /\ Mt(stream, decmt') /\ ~decmt'.failState
      /\ \E a \in 0 .. Len(stream) : Core(stream, decmt', g, input, "write", parsed, a)
      /\ \E a \in 0 .. Len(stream) : Core(stream, decmt', fds, input, "error", parsed, a)
  <2>1. "write" \notin {"error"}
    OBVIOUS
  <2>2. QED
    BY <1>2, <1>3, <1>4, <1>5, <2>1, CoreBlocksDone
<1>7. \E a \in 0 .. Len(stream) : Next1(a)
  BY <1>1, <1>6 DEF Next1
<1>8. pc # "idle"
  BY <1>1
<1>9. Own(stream, fds')
  BY <1>1, <1>3, <1>5
<1>10. Typed
  BY <1>1, <1>6, <1>8, <1>9, TypedBefore, Zenon DEF Typed
<1>11. Phases'
  <2>1. CASE results # {}
    <3>1. pc' = "error" /\ ret' = decmt.threads[Min(results)].res
      BY <1>1, <2>1
    <3>2. decmt.threads \in [Thread -> ThreadState]
      BY <1>3, MtFields
    <3>3. ret' \in {"corrupt", "memory", "canceled"}
      <4>1. results = {t \in Thread : t < decmt.numThreads /\ decmt.threads[t].res # "ok"}
        OBVIOUS
      <4> HIDE DEF results
      <4>2. QED
        BY <1>1, <2>1, <3>1, <3>2, <4>1, FailedBlock
    <3>4. QED
      BY <3>1, <3>3 DEF Phases
  <2>2. CASE results = {}
    <3>1. pc' = "write" /\ fds' = g
      BY <1>1, <2>2
    <3>2. QED
      BY <1>5, <1>6, <3>1 DEF Phases
  <2>3. QED
    BY <2>1, <2>2
<1>12. pc' \in Steps
  BY <1>1 DEF Steps
<1>13. QED
  BY <1>1, <1>7, <1>8, <1>10, <1>11, <1>12, StepEnds

InWrite(o) ==
  /\ o \in 0 .. Len(stream)
  /\ Core(stream, decmt, fds, input, "write", parsed, o)
  /\ Mt(stream, decmt) /\ Own(stream, fds) /\ Buffer(stream, input)
  /\ fds.stage = "mtWrite" /\ ~decmt.failState
  /\ stream \in Streams /\ room \in Nat /\ out \in Seq(Nat)

LEMMA WritingIs ==
  ASSUME IInv, pc = "write"
  PROVE  \E o : InWrite(o)
<1>1. pc # "idle"
  OBVIOUS
<1>2. fds.stage = "mtWrite" /\ ~decmt.failState
  BY DEF IInv, Phases
<1>3. PICK o \in 0 .. Len(stream) : Core(stream, decmt, fds, input, pc, parsed, o)
  BY <1>1, InACall
<1>4. /\ stream \in Streams /\ Mt(stream, decmt) /\ Own(stream, fds) /\ Buffer(stream, input)
      /\ room \in Nat /\ out \in Seq(Nat)
  BY <1>1, InACall
<1>5. QED
  BY <1>2, <1>3, <1>4 DEF InWrite

LEMMA WrittenIs ==
  ASSUME NEW o \in Seq(Nat), NEW b \in Seq(Nat), NEW p \in Nat, NEW n \in Nat,
         NEW w, w = o \o [i \in 1 .. n |-> IF p + i <= Len(b) THEN b[p + i] ELSE 0]
  PROVE  w \in Seq(Nat)
<1> DEFINE x == [i \in 1 .. n |-> IF p + i <= Len(b) THEN b[p + i] ELSE 0]
<1>1. \A i \in 1 .. n : (IF p + i <= Len(b) THEN b[p + i] ELSE 0) \in Nat
  OBVIOUS
<1>2. x \in [1 .. n -> Nat]
  BY <1>1
<1>3. x \in Seq(Nat)
  BY <1>2
<1> HIDE DEF x
<1>4. o \o x \in Seq(Nat)
  BY <1>3
<1>5. QED
  BY <1>4 DEF x

LEMMA WriteBlockKeeps ==
  ASSUME IInv, WriteBlock
  PROVE  IInv'
<1> DEFINE t == decmt.srcThread
           p == decmt.srcPos
           th == decmt.threads[t]
           n == Min({th.bufSize - p, room})
           more == p + n < th.bufSize
           last == t + 1 = decmt.numThreads
           t2 == IF more THEN t ELSE t + 1
           p2 == IF more THEN p + n ELSE 0
           next == [decmt EXCEPT !.srcThread = t2, !.srcPos = p2]
           st == IF decmt.isFinal THEN AfterEnd ELSE "decomp"
           g == [fds EXCEPT !.stage = st]
<1>1. /\ pc = "write"
      /\ stream' = stream /\ input' = input /\ parsed' = parsed /\ ret' = ret
      /\ callVars' = callVars /\ status' = status
      /\ out' = out \o [i \in 1 .. n |-> IF p + i <= Len(th.outBuf) THEN th.outBuf[p + i] ELSE 0]
      /\ room' = room - n
      /\ pc' = IF more \/ last THEN "hash" ELSE "write"
  BY ZenonT(60) DEF WriteBlock
<1>2. /\ decmt' = IF ~more /\ last THEN FreeOutputBuffers(next) ELSE next
      /\ fds' = IF ~more /\ last THEN g ELSE fds
  <2>1. next = [decmt EXCEPT !.srcThread = IF more THEN @ ELSE @ + 1,
                             !.srcPos = IF more THEN @ + n ELSE 0]
    BY SMTT(30)
  <2>2. QED
    BY <2>1 DEF WriteBlock
<1>3. PICK o : InWrite(o)
  BY <1>1, WritingIs
<1>4. /\ Core(stream, decmt, fds, input, "write", parsed, o) /\ o \in 0 .. Len(stream)
      /\ Mt(stream, decmt) /\ Own(stream, fds) /\ Buffer(stream, input)
      /\ fds.stage = "mtWrite" /\ ~decmt.failState
      /\ room \in Nat /\ out \in Seq(Nat)
  BY <1>3 DEF InWrite
<1>5. Writing(stream, decmt, o, input.pos)
  BY <1>4, WritingAt
<1>6. /\ t \in Thread /\ th.bufSize \in Nat /\ p \in Nat
      /\ p <= th.bufSize /\ decmt.numThreads \in 0 .. Threads
      /\ th.outBuf \in Seq(Nat) /\ t < decmt.numThreads
  BY <1>4, <1>5, SourceInRange
<1>7. t \in Nat /\ decmt.numThreads \in Nat
  BY <1>6, ThreadIs
<1> HIDE DEF th
<1>8. n \in Nat /\ n <= th.bufSize - p /\ n <= room
  <2>1. th.bufSize - p \in Nat
    BY <1>6
  <2> DEFINE left == th.bufSize - p
  <2> HIDE DEF left
  <2>2. left \in Nat
    BY <2>1 DEF left
  <2>3. n = Min({left, room})
    BY DEF left
  <2> HIDE DEF n
  <2>4. n \in Nat /\ n <= left /\ n <= room
    BY <1>4, <2>2, <2>3, LeastOf
  <2>5. QED
    BY <2>4 DEF left
<1> HIDE DEF t, p, n
<1>9. room' \in Nat
  BY <1>1, <1>4, <1>8
<1>10. out' \in Seq(Nat)
  BY <1>1, <1>4, <1>6, <1>8, WrittenIs
<1>11. SourceAt(decmt, next, t2, p2)
  BY DEF SourceAt
<1>12. t2 \in Nat /\ p2 \in Nat
  BY <1>6, <1>7, <1>8
<1>13. /\ Mt(stream, decmt') /\ ~decmt'.failState /\ Own(stream, fds')
       /\ Core(stream, decmt', fds', input, pc', parsed, o)
       /\ pc' = "write" => fds'.stage = "mtWrite"
       /\ pc' \in {"write", "hash"}
  <2>1. CASE ~more /\ last
    <3>1. decmt' = FreeOutputBuffers(next) /\ fds' = g /\ pc' = "hash"
      BY <1>1, <1>2, <2>1
    <3>2. st \in {"decomp", "hash", "finished"} /\ st \in {"decomp", "mtWrite", "hash", "finished"}
          /\ IF decmt.isFinal THEN st \in {"hash", "finished"} ELSE st = "decomp"
      BY DEF AfterEnd
    <3>3. g = [fds EXCEPT !.stage = st]
      OBVIOUS
    <3> HIDE DEF st, g, next, t2, p2, more, last
    <3>4. Own(stream, g) /\ g.stage = st /\ g.overlap = fds.overlap /\ g.hash = fds.hash
      BY <1>4, <3>2, <3>3, StageIs
    <3>5. IF decmt.isFinal THEN g.stage \in {"hash", "finished"} ELSE g.stage = "decomp"
      BY <3>2, <3>4
    <3>6. Mt(stream, decmt') /\ ~decmt'.failState /\ Core(stream, decmt', g, input, "hash", parsed, o)
      BY <1>4, <1>11, <1>12, <3>1, <3>4, <3>5, CoreWritesLast, ZenonT(60)
    <3>7. QED
      BY <3>1, <3>4, <3>6
  <2>2. CASE more \/ ~last
    <3>1. decmt' = next /\ fds' = fds /\ pc' \in {"write", "hash"}
      BY <1>1, <1>2, <2>2
    <3>2. t2 < decmt.numThreads /\ p2 <= decmt.threads[t2].bufSize
      <4>1. CASE more
        <5>1. t2 = t /\ p2 = p + n /\ decmt.threads[t2] = th
          BY <4>1 DEF th, t
        <5>2. p + n <= th.bufSize
          BY <1>6, <1>8
        <5>3. QED
          BY <1>6, <5>1, <5>2
      <4>2. CASE ~more
        <5>1. t2 = t + 1 /\ p2 = 0 /\ t + 1 # decmt.numThreads
          BY <2>2, <4>2
        <5>2. t + 1 < decmt.numThreads
          BY <1>6, <1>7, <5>1
        <5>3. t2 \in Thread
          BY <1>6, <1>7, <5>1, <5>2, ThreadIs
        <5>4. decmt.threads[t2].bufSize \in Nat
          BY <1>4, <5>3, MtFields, ThreadFields
        <5>5. QED
          BY <5>1, <5>2, <5>4
      <4>3. QED
        BY <4>1, <4>2
    <3> HIDE DEF st, g, next, t2, p2, more, last
    <3>3. Mt(stream, decmt') /\ ~decmt'.failState /\ Core(stream, decmt', fds, input, pc', parsed, o)
      BY <1>4, <1>11, <1>12, <3>1, <3>2, CoreWritesMore, ZenonT(60)
    <3>4. QED
      BY <1>4, <3>1, <3>3
  <2>3. QED
    BY <2>1, <2>2
<1>14. Next1(o)
  BY <1>1, <1>13, Zenon DEF Next1
<1>15. pc # "idle"
  BY <1>1
<1>16. Buffer(stream, input')
  BY <1>1, <1>4
<1>17. Typed
  BY <1>9, <1>10, <1>13, <1>16, Zenon DEF Typed
<1>18. Phases'
  <2>1. pc' \notin {"load", "parse", "read", "blocks", "failed", "direct", "error"}
    BY <1>13
  <2>2. QED
    BY <1>13, <2>1, Zenon DEF Phases
<1>19. pc' \in Steps
  BY <1>13 DEF Steps
<1>20. \E a \in 0 .. Len(stream) : Next1(a)
  BY <1>4, <1>14
<1>21. QED
  BY <1>1, <1>15, <1>17, <1>18, <1>19, <1>20, StepEnds, SMTT(30)

-----------------------------------------------------------------------------
(* One thread goes on.                                                     *)
LEMMA NodeStepKeeps ==
  ASSUME IInv, pc = "failed", NEW m, NEW d, NEW o, o \in 0 .. Len(stream),
         Going(stream, m, d, fds, input, o), DecompressNode(m, d),
         stream' = stream, input' = input, parsed' = parsed, callVars' = callVars, status' = status
  PROVE  IInv'
<1> DEFINE node == m.chain[m.cur]
           bytes == SubSeq(node, m.curPos + 1, Len(node))
<1>1. pc # "idle"
  OBVIOUS
<1>2. /\ stream \in Streams /\ Own(stream, fds) /\ Buffer(stream, input)
      /\ room \in Nat /\ out \in Seq(Nat) /\ Len(stream) \in Nat /\ o \in Nat
  BY <1>1, InACall
<1>3. Mt(stream, m) /\ m.failState
  BY SMTT(30) DEF Going
<1>4. CASE m.curPos > Len(node)
  <2>1. Overrun(m, d)
    BY <1>4 DEF DecompressNode
  <2>2. /\ decmt' = m /\ room' = room /\ out' = out /\ fds' = fds
        /\ (pc' = "error" /\ ret' = "corrupt") \/ pc' = "overrun"
    BY <2>1 DEF Overrun, Rejected
  <2>3. Typed
    BY <1>2, <1>3, <2>2, Zenon DEF Typed
  <2>4. pc' \in Steps /\ Phases'
    BY <2>2 DEF Steps, Phases
  <2>5. ASSUME pc' # "overrun"
        PROVE  \E a \in 0 .. Len(stream) : Next1(a)
    <3>1. pc' = "error"
      BY <2>2, <2>5
    <3>2. Core(stream, m, fds, input, "error", parsed, o)
      BY GoingError
    <3>3. Next1(o)
      BY <2>2, <3>1, <3>2, Zenon DEF Next1
    <3>4. QED
      BY <3>3
  <2>6. QED
    BY <1>1, <2>3, <2>4, <2>5, StepEnds
<1>5. CASE ~(m.curPos > Len(node))
  <2>1. PICK z \in DecompressInput(d, bytes) :
          LET pos   == m.curPos + z.used
              moves == pos + Required >= Len(node)
              last  == m.cur = Len(m.chain)
          IN  IF z.res = "corrupt"
              THEN decmt' = m /\ Rejected /\ UNCHANGED <<room, out, fds>>
              ELSE
              /\ Emits(z)
              /\ decmt' = CASE moves /\ last  -> FreeExtraInbufNodes([m EXCEPT !.cur = 0])
                            [] moves /\ ~last -> [m EXCEPT !.cur = @ + 1,
                                                           !.curPos = pos - (Len(node) - Required)]
                            [] ~moves         -> [m EXCEPT !.curPos = pos]
              /\ fds' = [fds EXCEPT !.dec = z.dec, !.stage = StageAfter(z),
                           !.overlap = IF moves /\ last THEN SubSeq(node, pos + 1, Len(node)) ELSE @]
              /\ pc' = "hash" /\ UNCHANGED ret
    BY <1>5 DEF DecompressNode
  <2>2. z \in Input(stream, fds, d, bytes, room)
    BY <2>1 DEF DecompressInput, Input
  <2>3. CASE z.res = "corrupt"
    <3>1. decmt' = m /\ pc' = "error" /\ ret' = "corrupt" /\ room' = room /\ out' = out /\ fds' = fds
      BY <2>1, <2>3 DEF Rejected
    <3>2. Core(stream, m, fds, input, "error", parsed, o)
      BY GoingError
    <3>3. Next1(o)
      BY <3>1, <3>2, Zenon DEF Next1
    <3>4. Typed
      BY <1>2, <1>3, <3>1, Zenon DEF Typed
    <3>5. Phases'
      BY <3>1 DEF Phases
    <3>6. pc' \in Steps
      BY <3>1 DEF Steps
    <3>7. \E a \in 0 .. Len(stream) : Next1(a)
      BY <3>3
    <3>8. QED
      BY <1>1, <3>4, <3>5, <3>6, <3>7, StepEnds
  <2>4. CASE z.res # "corrupt"
    <3> DEFINE pos == m.curPos + z.used
               ov == IF pos + Required >= Len(node) /\ m.cur = Len(m.chain)
                     THEN SubSeq(node, pos + 1, Len(node)) ELSE fds.overlap
    <3>1. /\ out' = out \o z.out /\ room' = room - Len(z.out) /\ pc' = "hash" /\ ret' = ret
      BY <2>1, <2>4 DEF Emits
    <3>2. NodeTaken(m, decmt', node, pos)
      BY <2>1, <2>4 DEF NodeTaken
    <3>3. NodeLeft(m, fds, node, pos, ov)
      BY DEF NodeLeft
    <3>4. StageAfter(z) = After(fds, z)
      BY DEF StageAfter, After
    <3>5. Gets(fds, fds', z.dec, After(fds, z), ov)
      <4>1. fds' = [fds EXCEPT !.dec = z.dec, !.stage = StageAfter(z), !.overlap = ov]
        BY <2>1, <2>4
      <4> HIDE DEF ov
      <4>2. QED
        BY <3>4, <4>1 DEF Gets
    <3> HIDE DEF ov
    <3>6. z \in Input(stream, fds, d, SubSeq(node, m.curPos + 1, Len(node)), room)
      BY <2>2
    <3>7. pos = m.curPos + z.used /\ node = m.chain[m.cur]
      OBVIOUS
    <3> HIDE DEF pos, node, bytes
    <3>8. /\ Mt(stream, decmt') /\ decmt'.failState /\ Own(stream, fds')
          /\ Core(stream, decmt', fds', input, "hash", parsed, o)
          /\ z.out \in Seq(Nat) /\ Len(z.out) <= room
      BY <1>2, <2>4, <3>2, <3>3, <3>5, <3>6, <3>7, CoreNode, ZenonT(60)
    <3>9. room' \in Nat /\ out' \in Seq(Nat)
      <4>1. Len(z.out) \in Nat
        BY <3>8
      <4>2. out \o z.out \in Seq(Nat)
        BY <1>2, <3>8
      <4>3. QED
        BY <1>2, <3>1, <3>8, <4>1, <4>2
    <3>10. Next1(o)
      BY <3>1, <3>8, Zenon DEF Next1
    <3>11. Typed
      BY <1>2, <3>8, <3>9, Zenon DEF Typed
    <3>12. Phases'
      BY <3>1 DEF Phases
    <3>13. pc' \in Steps
      BY <3>1 DEF Steps
    <3>14. \E a \in 0 .. Len(stream) : Next1(a)
      BY <3>10
    <3>15. QED
      BY <1>1, <3>11, <3>12, <3>13, <3>14, StepEnds
  <2>5. QED
    BY <2>3, <2>4
<1>6. QED
  BY <1>4, <1>5

InFailed(o) ==
  /\ o \in 0 .. Len(stream)
  /\ Core(stream, decmt, fds, input, "failed", parsed, o)
  /\ Mt(stream, decmt) /\ Own(stream, fds) /\ Buffer(stream, input)
  /\ ~decmt.failState => fds.stage = "decomp"
  /\ stream \in Streams /\ room \in Nat /\ out \in Seq(Nat)

LEMMA FailedIs ==
  ASSUME IInv, pc = "failed"
  PROVE  \E o : InFailed(o)
<1>1. pc # "idle"
  OBVIOUS
<1>2. ~decmt.failState => fds.stage = "decomp"
  BY DEF IInv, Phases
<1>3. PICK o \in 0 .. Len(stream) : Core(stream, decmt, fds, input, pc, parsed, o)
  BY <1>1, InACall
<1>4. /\ stream \in Streams /\ Mt(stream, decmt) /\ Own(stream, fds) /\ Buffer(stream, input)
      /\ room \in Nat /\ out \in Seq(Nat)
  BY <1>1, InACall
<1>5. QED
  BY <1>2, <1>3, <1>4 DEF InFailed

LEMMA DecompressFailedKeeps ==
  ASSUME IInv, DecompressFailed
  PROVE  IInv'
<1>1. /\ pc = "failed" /\ decmt.chain[1] # <<>>
      /\ stream' = stream /\ input' = input /\ parsed' = parsed /\ callVars' = callVars /\ status' = status
      /\ IF decmt.failState THEN DecompressNode(decmt, fds.dec)
         ELSE DecompressNode(SwitchToSt, InitDecoder)
  BY DEF DecompressFailed
<1>2. PICK o : InFailed(o)
  BY <1>1, FailedIs
<1>3. /\ o \in 0 .. Len(stream) /\ Core(stream, decmt, fds, input, "failed", parsed, o)
      /\ Mt(stream, decmt) /\ Own(stream, fds) /\ (~decmt.failState => fds.stage = "decomp")
  BY <1>2 DEF InFailed
<1>4. CASE decmt.failState
  <2>1. Going(stream, decmt, fds.dec, fds, input, o)
    BY <1>1, <1>3, <1>4, GoesOnAlone
  <2>2. DecompressNode(decmt, fds.dec)
    BY <1>1, <1>4
  <2>3. QED
    BY <1>1, <1>3, <2>1, <2>2, NodeStepKeeps
<1>5. CASE ~decmt.failState
  <2>1. SwitchedFrom(decmt, SwitchToSt)
    BY DEF SwitchedFrom, SwitchToSt
  <2>2. Going(stream, SwitchToSt, InitDecoder, fds, input, o)
    BY <1>3, <1>5, <2>1, SwitchGoes
  <2>3. DecompressNode(SwitchToSt, InitDecoder)
    BY <1>1, <1>5
  <2>4. QED
    BY <1>1, <1>3, <2>2, <2>3, NodeStepKeeps
<1>6. QED
  BY <1>4, <1>5

LEMMA SwitchFailsKeeps ==
  ASSUME IInv, SwitchFails
  PROVE  IInv'
<1>1. /\ pc = "failed" /\ ~decmt.failState /\ decmt' = SwitchToSt /\ pc' = "error" /\ ret' = "memory"
      /\ stream' = stream /\ input' = input /\ room' = room /\ out' = out /\ fds' = fds
      /\ parsed' = parsed /\ callVars' = callVars /\ status' = status
  BY DEF SwitchFails
<1>2. PICK o : InFailed(o)
  BY <1>1, FailedIs
<1>3. /\ o \in 0 .. Len(stream) /\ Core(stream, decmt, fds, input, "failed", parsed, o)
      /\ Mt(stream, decmt) /\ Own(stream, fds) /\ fds.stage = "decomp"
  BY <1>1, <1>2 DEF InFailed
<1>4. SwitchedFrom(decmt, SwitchToSt)
  BY DEF SwitchedFrom, SwitchToSt
<1>5. Going(stream, SwitchToSt, InitDecoder, fds, input, o)
  BY <1>1, <1>3, <1>4, SwitchGoes
<1>6. Core(stream, SwitchToSt, fds, input, "error", parsed, o) /\ Mt(stream, SwitchToSt)
  BY <1>5, GoingError DEF Going
<1>7. Next1(o)
  BY <1>1, <1>6, Zenon DEF Next1
<1>8. pc # "idle"
  BY <1>1
<1>9. Typed
  BY <1>1, <1>6, <1>8, TypedBefore, Zenon DEF Typed
<1>10. Phases'
  BY <1>1 DEF Phases
<1>11. pc' \in Steps
  BY <1>1 DEF Steps
<1>12. \E a \in 0 .. Len(stream) : Next1(a)
  BY <1>3, <1>7
<1>13. QED
  BY <1>1, <1>8, <1>9, <1>10, <1>11, <1>12, StepEnds

(* A step of one thread that emits what was decoded.                       *)
Emitted(z) == z.out \in Seq(Nat) /\ Len(z.out) <= room

LEMMA EmitsIs ==
  ASSUME room \in Nat, out \in Seq(Nat), NEW z, Emitted(z), Emits(z)
  PROVE  room' \in Nat /\ out' \in Seq(Nat)
<1>1. out' = out \o z.out /\ room' = room - Len(z.out)
  BY DEF Emits
<1>2. z.out \in Seq(Nat) /\ Len(z.out) <= room /\ Len(z.out) \in Nat
  BY DEF Emitted
<1>3. out \o z.out \in Seq(Nat)
  BY <1>2
<1>4. QED
  BY <1>1, <1>2, <1>3

LEMMA AloneStepEnds ==
  ASSUME IInv, pc # "idle", NEW o \in 0 .. Len(stream), pc' \in {"direct", "hash", "error"},
         stream' = stream, decmt' = decmt, callVars' = callVars, status' = status,
         Own(stream, fds'), Buffer(stream, input'), room' \in Nat, out' \in Seq(Nat), Next1(o),
         pc' = "direct" => decmt.failState /\ decmt.chain[1] = <<>>,
         pc' = "error" => ret' = "corrupt"
  PROVE  IInv'
<1>1. Mt(stream, decmt)
  BY InACall
<1>2. Typed
  BY <1>1, Zenon DEF Typed
<1>3. Phases'
  BY DEF Phases
<1>4. pc' \in Steps
  BY DEF Steps
<1>5. QED
  BY <1>2, <1>3, <1>4, StepEnds

LEMMA DecompressOverlapKeeps ==
  ASSUME IInv, DecompressOverlap
  PROVE  IInv'
<1> DEFINE h == Len(fds.overlap)
           k == Min({Left, 2 * Required - h})
           bytes == fds.overlap \o Given(k)
<1>1. /\ pc = "failed" /\ decmt.chain[1] = <<>>
      /\ stream' = stream /\ decmt' = decmt /\ parsed' = parsed /\ callVars' = callVars
      /\ status' = status
      /\ IF fds.overlap = <<>> THEN pc' = "direct" /\ UNCHANGED <<input, room, out, fds, ret>>
         ELSE \E z \in DecompressInput(fds.dec, bytes) :
           IF z.res = "corrupt" THEN Rejected /\ UNCHANGED <<input, room, out, fds>>
           ELSE
           /\ Emits(z)
           /\ input' = IF z.used >= h THEN [input EXCEPT !.pos = @ + z.used - h] ELSE input
           /\ fds' = [fds EXCEPT !.dec = z.dec, !.stage = StageAfter(z),
                                 !.overlap = SubSeq(@, z.used + 1, Len(@))]
           /\ pc' = "direct" /\ UNCHANGED ret
  BY DEF DecompressOverlap
<1>2. PICK o : InFailed(o)
  BY <1>1, FailedIs
<1>3. /\ o \in 0 .. Len(stream) /\ Core(stream, decmt, fds, input, "failed", parsed, o)
      /\ Mt(stream, decmt) /\ Own(stream, fds) /\ Buffer(stream, input)
      /\ (~decmt.failState => fds.stage = "decomp")
      /\ stream \in Streams /\ room \in Nat /\ out \in Seq(Nat)
  BY <1>2 DEF InFailed
<1>4. pc # "idle"
  BY <1>1
<1>5. decmt.failState
  <2>1. SUFFICES ASSUME ~decmt.failState PROVE FALSE
    OBVIOUS
  <2>2. SeveralThreads(stream, decmt, fds, input, "failed", parsed, o) /\ fds.stage = "decomp"
    BY <1>3, <2>1 DEF Core
  <2>3. FailPending(stream, decmt, input.pos)
    BY <2>2 DEF SeveralThreads
  <2>4. QED
    BY <1>1, <2>3 DEF FailPending
<1>6. CASE fds.overlap = <<>>
  <2>1. pc' = "direct" /\ input' = input /\ room' = room /\ out' = out /\ fds' = fds
    BY <1>1, <1>6
  <2>2. Alone(stream, decmt, fds, input, o)
    BY <1>1, <1>3, <1>5, AloneIs
  <2>3. Keeps(fds, input)
    <3>1. Own(stream, fds) /\ fds.stage # "mtWrite"
      BY <1>3, <2>2, AloneHas
    <3>2. fds.stage \in {"decomp", "hash", "finished"}
      BY <3>1, OwnFields DEF OwnIs
    <3>3. QED
      BY <2>2, <3>2, AloneHas DEF Keeps
  <2>4. Core(stream, decmt, fds, input, "direct", parsed, o)
    BY <2>2, <2>3, AloneKeeps
  <2>5. Next1(o)
    BY <1>1, <2>1, <2>4, Zenon DEF Next1
  <2>6. Own(stream, fds') /\ Buffer(stream, input') /\ room' \in Nat /\ out' \in Seq(Nat)
    BY <1>3, <2>1
  <2>7. QED
    BY <1>1, <1>3, <1>4, <1>5, <2>1, <2>5, <2>6, AloneStepEnds
<1>7. CASE fds.overlap # <<>>
  <2>1. PICK z \in DecompressInput(fds.dec, bytes) :
           IF z.res = "corrupt" THEN Rejected /\ UNCHANGED <<input, room, out, fds>>
           ELSE
           /\ Emits(z)
           /\ input' = IF z.used >= h THEN [input EXCEPT !.pos = @ + z.used - h] ELSE input
           /\ fds' = [fds EXCEPT !.dec = z.dec, !.stage = StageAfter(z),
                                 !.overlap = SubSeq(@, z.used + 1, Len(@))]
           /\ pc' = "direct" /\ UNCHANGED ret
    BY <1>1, <1>7
  <2>2. CASE z.res = "corrupt"
    <3>1. pc' = "error" /\ ret' = "corrupt" /\ input' = input /\ room' = room /\ out' = out /\ fds' = fds
      BY <2>1, <2>2 DEF Rejected
    <3>2. Core(stream, decmt, fds, input, "error", parsed, o)
      BY <1>3, CoreError
    <3>3. Next1(o)
      BY <1>1, <3>1, <3>2, Zenon DEF Next1
    <3>4. Own(stream, fds') /\ Buffer(stream, input') /\ room' \in Nat /\ out' \in Seq(Nat)
      BY <1>3, <3>1
    <3>5. QED
      BY <1>1, <1>3, <1>4, <3>1, <3>3, <3>4, AloneStepEnds
  <2>3. CASE z.res # "corrupt"
    <3>1. Emits(z) /\ pc' = "direct"
      BY <2>1, <2>3
    <3>2. OverlapReads(input, h, k)
      BY DEF OverlapReads, Left
    <3>3. OverlapTakes(input, input', z.used, h)
      BY <2>1, <2>3 DEF OverlapTakes
    <3>4. Gets(fds, fds', z.dec, After(fds, z), SubSeq(fds.overlap, z.used + 1, h))
      BY <2>1, <2>3 DEF Gets, StageAfter, After
    <3>5. Given(k) = Run(input.pos, k)
      BY DEF Given, Run
    <3>6. z \in Input(stream, fds, fds.dec, fds.overlap \o Run(input.pos, k), room)
      BY <2>1, <3>5 DEF DecompressInput, Input
    <3>7. h = Len(fds.overlap)
      OBVIOUS
    <3> HIDE DEF h, k, bytes
    <3>8. /\ Own(stream, fds') /\ Buffer(stream, input')
          /\ Core(stream, decmt, fds', input', "direct", parsed, o)
          /\ z.out \in Seq(Nat) /\ Len(z.out) <= room
      BY <1>1, <1>3, <1>5, <1>7, <2>3, <3>2, <3>3, <3>4, <3>6, <3>7, CoreOverlap, ZenonT(60)
    <3>9. room' \in Nat /\ out' \in Seq(Nat)
      <4>1. Emitted(z)
        BY <3>8 DEF Emitted
      <4>2. QED
        BY <1>3, <3>1, <4>1, EmitsIs
    <3>10. Next1(o)
      BY <1>1, <3>1, <3>8, Zenon DEF Next1
    <3>11. QED
      BY <1>1, <1>3, <1>4, <1>5, <3>1, <3>8, <3>9, <3>10, AloneStepEnds
  <2>4. QED
    BY <2>2, <2>3
<1>8. QED
  BY <1>6, <1>7

LEMMA DecompressDirectKeeps ==
  ASSUME IInv, DecompressDirect
  PROVE  IInv'
<1> DEFINE inputs == IF fds.overlap = <<>> /\ Left > 0 THEN DecompressInput(fds.dec, Given(Left))
                     ELSE {[dec |-> fds.dec, used |-> 0, out |-> <<>>, res |-> "ok"]}
<1>1. /\ pc = "direct"
      /\ stream' = stream /\ decmt' = decmt /\ parsed' = parsed /\ callVars' = callVars
      /\ status' = status
  BY DEF DecompressDirect
<1>2. PICK z \in inputs :
       LET pos    == input.pos + z.used
           stage  == StageAfter(z)
           waits  == /\ Left > 0 /\ stage = "decomp" /\ Len(z.out) < room
                     /\ input.size - pos <= Required
           toRead == IF waits THEN Min({input.size - pos, 2 * Required - Len(fds.overlap)}) ELSE 0
       IN  IF z.res = "corrupt" THEN Rejected /\ UNCHANGED <<input, room, out, fds>>
           ELSE
           /\ Emits(z)
           /\ input' = [input EXCEPT !.pos = pos + toRead]
           /\ fds' = [fds EXCEPT !.dec = z.dec, !.stage = stage,
                        !.overlap = @ \o [i \in 1 .. toRead |-> pos + i]]
           /\ pc' = "hash" /\ UNCHANGED ret
  BY DEF DecompressDirect
<1>3. pc # "idle"
  BY <1>1
<1>4. PICK o \in 0 .. Len(stream) : Core(stream, decmt, fds, input, "direct", parsed, o)
  BY <1>1, <1>3, InACall
<1>5. /\ stream \in Streams /\ Own(stream, fds) /\ Buffer(stream, input)
      /\ room \in Nat /\ out \in Seq(Nat)
  BY <1>3, InACall
<1>6. decmt.failState /\ decmt.chain[1] = <<>>
  BY <1>1 DEF IInv, Phases
<1>7. CASE z.res = "corrupt"
  <2>1. pc' = "error" /\ ret' = "corrupt" /\ input' = input /\ room' = room /\ out' = out /\ fds' = fds
    BY <1>2, <1>7 DEF Rejected
  <2>2. Core(stream, decmt, fds, input, "error", parsed, o)
    BY <1>4, CoreError
  <2>3. Next1(o)
    BY <1>1, <2>1, <2>2, Zenon DEF Next1
  <2>4. Own(stream, fds') /\ Buffer(stream, input') /\ room' \in Nat /\ out' \in Seq(Nat)
    BY <1>5, <2>1
  <2>5. QED
    BY <1>1, <1>3, <1>4, <2>1, <2>3, <2>4, AloneStepEnds
<1>8. CASE z.res # "corrupt"
  <2> DEFINE p == input.pos + z.used
             waits == /\ Left > 0 /\ StageAfter(z) = "decomp" /\ Len(z.out) < room
                      /\ input.size - p <= Required
             t == IF waits THEN Min({input.size - p, 2 * Required - Len(fds.overlap)}) ELSE 0
  <2>1. /\ Emits(z) /\ pc' = "hash" /\ input' = [input EXCEPT !.pos = p + t]
        /\ fds' = [fds EXCEPT !.dec = z.dec, !.stage = StageAfter(z),
                     !.overlap = @ \o [i \in 1 .. t |-> p + i]]
    BY <1>2, <1>8
  <2>2. StageAfter(z) = After(fds, z)
    BY DEF StageAfter, After
  <2>3. DirectReads(fds, input, room, z, p, t)
    BY <2>2 DEF DirectReads, Left
  <2>4. MovesTo(input, input', p + t)
    BY <2>1 DEF MovesTo
  <2>5. Gets(fds, fds', z.dec, After(fds, z), fds.overlap \o Run(p, t))
    <3> HIDE DEF p, t
    <3>1. [i \in 1 .. t |-> p + i] = Run(p, t)
      BY DEF Run
    <3>2. QED
      BY <2>1, <2>2, <3>1 DEF Gets
  <2>6. z \in DirectInput(stream, fds, input, room)
    <3>1. Given(Left) = Run(input.pos, input.size - input.pos)
      BY DEF Given, Run, Left
    <3>2. DecompressInput(fds.dec, Given(Left)) =
            Input(stream, fds, fds.dec, Run(input.pos, input.size - input.pos), room)
      BY <3>1 DEF DecompressInput, Input
    <3>3. Left = input.size - input.pos
      BY DEF Left
    <3>4. QED
      BY <3>2, <3>3 DEF DirectInput
  <2>7. p = input.pos + z.used
    OBVIOUS
  <2> HIDE DEF p, t, waits, inputs
  <2>8. /\ Own(stream, fds') /\ Buffer(stream, input')
        /\ Core(stream, decmt, fds', input', "hash", parsed, o)
        /\ z.out \in Seq(Nat) /\ Len(z.out) <= room
    BY <1>4, <1>5, <1>6, <1>8, <2>3, <2>4, <2>5, <2>6, <2>7, CoreDirect, ZenonT(60)
  <2>9. room' \in Nat /\ out' \in Seq(Nat)
    <3>1. Emitted(z)
      BY <2>8 DEF Emitted
    <3>2. QED
      BY <1>5, <2>1, <3>1, EmitsIs
  <2>10. Next1(o)
    BY <1>1, <2>1, <2>8, Zenon DEF Next1
  <2>11. QED
    BY <1>1, <1>3, <1>4, <2>1, <2>8, <2>9, <2>10, AloneStepEnds
<1>9. QED
  BY <1>7, <1>8

-----------------------------------------------------------------------------
(* The end of a call.                                                      *)
LEMMA CallEnds ==
  ASSUME IInv, pc # "idle", NEW r, EndCall(r), stream' = stream, Typed,
         status' = "going" => \E o \in 0 .. Len(stream) : Next1(o)
  PROVE  IInv'
<1>1. /\ pc' = "idle" /\ wait' = FALSE /\ user' = IF busy THEN user ELSE "free"
      /\ thread' = thread /\ timeout' = timeout /\ busy' = busy
  BY DEF EndCall
<1>2. Types /\ Places
  BY DEF IInv
<1>3. stream \in Streams /\ thread \in BOOLEAN /\ busy \in BOOLEAN
  BY <1>2 DEF Types
<1>4. Types'
  <2>1. stream' \in Streams /\ thread' \in BOOLEAN /\ wait' \in BOOLEAN /\ busy' \in BOOLEAN
    BY <1>1, <1>3, Zenon
  <2>2. /\ Mt(stream', decmt') /\ Own(stream', fds') /\ Buffer(stream', input')
        /\ room' \in Nat /\ out' \in Seq(Nat)
    BY DEF Typed
  <2>3. QED
    BY <2>1, <2>2 DEF Types
<1>5. Places'
  <2>1. user' \in {"free", "calling", "waiting", "canceling"}
    BY <1>1, <1>2 DEF Places
  <2>2. QED
    BY <1>1, <2>1, Zenon DEF Places
<1>6. Phases'
  BY <1>1 DEF Phases
<1>7. Somewhere'
  BY DEF Somewhere, Next1
<1>8. QED
  BY <1>4, <1>5, <1>6, <1>7 DEF IInv

LEMMA ErrorKeeps ==
  ASSUME IInv, Error
  PROVE  IInv'
<1>1. /\ pc = "error" /\ decmt' = Cleanup(decmt) /\ EndCall(ret) /\ stream' = stream
      /\ input' = input /\ room' = room /\ out' = out /\ fds' = fds
  BY DEF Error
<1>2. pc # "idle"
  BY <1>1
<1>3. status = "going" /\ Mt(stream, decmt)
  BY <1>2, InACall
<1>4. Mt(stream, decmt')
  BY <1>1, <1>3, CleanedIs
<1>5. Typed
  BY <1>1, <1>2, <1>4, TypedBefore, Zenon DEF Typed
<1>6. ret \in {"corrupt", "memory", "canceled"}
  BY <1>1 DEF IInv, Phases
<1>7. status' # "going"
  <2>1. status' = StatusAfter(ret)
    BY <1>1 DEF EndCall
  <2>2. QED
    BY <1>3, <1>6, <2>1 DEF StatusAfter
<1>8. QED
  BY <1>1, <1>2, <1>5, <1>7, CallEnds

DigestSet(f, g, hh, st) == g = [f EXCEPT !.overlap = <<>>, !.hash = hh, !.stage = st]

LEMMA DigestOwn ==
  ASSUME NEW s, NEW f, Own(s, f), NEW hh \in Seq(1 .. Len(s)), Len(hh) <= HashSize,
         NEW st \in {"hash", "finished"}, NEW g, DigestSet(f, g, hh, st)
  PROVE  Own(s, g) /\ HashGoes(f, g, hh, st)
<1>1. Required \in Nat
  BY StepPositive
<1> DEFINE e == <<>>
<1>2. e \in Seq(1 .. Len(s)) /\ Len(e) <= 2 * Required
  BY <1>1
<1>3. g = [f EXCEPT !.overlap = e, !.hash = hh, !.stage = st]
  BY DEF DigestSet
<1>4. e = <<>>
  OBVIOUS
<1> HIDE DEF e
<1>5. f \in [stage : {"decomp", "mtWrite", "hash", "finished"}, dec : DecState,
             overlap : Seq(1 .. Len(s)), hash : Seq(1 .. Len(s)), loopCount : Nat]
  BY DEF Own
<1>6. /\ g \in [stage : {"decomp", "mtWrite", "hash", "finished"}, dec : DecState,
                overlap : Seq(1 .. Len(s)), hash : Seq(1 .. Len(s)), loopCount : Nat]
      /\ g.stage = st /\ g.dec = f.dec /\ g.overlap = e /\ g.hash = hh
  BY <1>2, <1>3, <1>5
<1>7. QED
  BY <1>2, <1>4, <1>6 DEF Own, HashGoes

LEMMA HashKeeps ==
  ASSUME IInv, Hash
  PROVE  IInv'
<1>1. /\ pc = "hash" /\ stream' = stream /\ room' = room /\ out' = out /\ decmt' = decmt
      /\ parsed' = parsed
  BY DEF Hash
<1>2. pc # "idle"
  BY <1>1
<1>3. PICK o \in 0 .. Len(stream) : Core(stream, decmt, fds, input, "hash", parsed, o)
  BY <1>1, <1>2, InACall
<1>4. /\ stream \in Streams /\ Mt(stream, decmt) /\ Own(stream, fds) /\ Buffer(stream, input)
      /\ room \in Nat /\ out \in Seq(Nat) /\ status = "going"
  BY <1>2, InACall
<1>5. CASE fds.stage # "hash"
  <2>1. pc' = "report" /\ input' = input /\ fds' = fds /\ callVars' = callVars /\ status' = status
    BY <1>5 DEF Hash
  <2>2. Core(stream, decmt, fds, input, "report", parsed, o)
    <3>1. "hash" \in Between /\ "report" \in Between
      BY DEF Between
    <3>2. QED
      BY <1>3, <3>1, CoreBetween
  <2>3. Next1(o)
    BY <1>1, <2>1, <2>2, Zenon DEF Next1
  <2>4. Typed
    BY <1>1, <1>4, <2>1, Zenon DEF Typed
  <2>5. Phases'
    BY <2>1 DEF Phases
  <2>6. pc' \in Steps
    BY <2>1 DEF Steps
  <2>7. \E y \in 0 .. Len(stream) : Next1(y)
    BY <2>3
  <2>8. QED
    BY <1>1, <1>2, <2>1, <2>4, <2>5, <2>6, <2>7, StepEnds
<1>6. CASE fds.stage = "hash"
  <2> DEFINE a == Min({HashSize - Len(fds.hash), Len(fds.overlap)})
             b == Min({HashSize - Len(fds.hash) - a, Left})
             hh == fds.hash \o SubSeq(fds.overlap, 1, a) \o Given(b)
             good == Len(hh) = HashSize /\ HashMatches(hh)
             st == IF good THEN "finished" ELSE fds.stage
  <2>1. HashBytes = [hash |-> hh, used |-> b]
    BY DEF HashBytes
  <2>2. HashBytes.hash = hh /\ HashBytes.used = b
    <3> HIDE DEF hh, b
    <3>1. QED
      BY <2>1
  <2>3. /\ input' = [input EXCEPT !.pos = @ + b]
        /\ fds' = [fds EXCEPT !.overlap = <<>>, !.hash = hh, !.stage = st]
        /\ IF Len(hh) = HashSize /\ ~HashMatches(hh) THEN EndCall("checksum")
           ELSE pc' = "report" /\ ret' = ret /\ callVars' = callVars /\ status' = status
    <3> HIDE DEF hh, b
    <3>1. QED
      BY <1>6, <2>2 DEF Hash
  <2>4. DigestTakes(fds, input, a, b)
    BY DEF DigestTakes, Left
  <2>5. Given(b) = Run(input.pos, b)
    BY DEF Given, Run
  <2>6. DigestIs(fds, input, a, b, hh)
    <3> HIDE DEF b, a
    <3>1. QED
      BY <2>5 DEF DigestIs
  <2>7. MovesTo(input, input', input.pos + b)
    <3> HIDE DEF b
    <3>1. QED
      BY <2>3 DEF MovesTo
  <2> HIDE DEF a, b, hh
  <2>8. /\ b \in Nat /\ hh \in Seq(1 .. Len(stream)) /\ Len(hh) <= HashSize
    BY <1>4, <2>4, <2>6, DigestGives
  <2>9. st \in {"hash", "finished"}
    BY <1>6
  <2>10. Own(stream, fds') /\ HashGoes(fds, fds', hh, st)
    <3> HIDE DEF st, good
    <3>1. DigestSet(fds, fds', hh, st)
      BY <2>3 DEF DigestSet
    <3>2. QED
      BY <1>4, <2>8, <2>9, <3>1, DigestOwn
  <2>11. CASE Len(hh) = HashSize /\ ~HashMatches(hh)
    <3>1. EndCall("checksum")
      BY <2>3, <2>11
    <3>2. status' # "going"
      <4>1. status' = StatusAfter("checksum")
        BY <3>1 DEF EndCall
      <4>2. QED
        BY <1>4, <4>1 DEF StatusAfter
    <3>3. Buffer(stream, input')
      <4>1. b \in Nat /\ input.pos + b <= input.size
        BY <1>4, <2>4, <2>6, DigestGives
      <4>2. input.pos \in Nat /\ input.size \in Nat
        BY <1>4, BufferFields DEF BufferIs
      <4>3. input.pos + b \in Nat /\ input.pos <= input.pos + b
        BY <4>1, <4>2
      <4>4. QED
        BY <1>4, <2>7, <4>1, <4>3, BufferMoved
    <3>4. Typed
      BY <1>1, <1>4, <2>10, <3>3, Zenon DEF Typed
    <3>5. QED
      BY <1>1, <1>2, <3>1, <3>2, <3>4, CallEnds
  <2>12. CASE ~(Len(hh) = HashSize /\ ~HashMatches(hh))
    <3>1. pc' = "report" /\ callVars' = callVars /\ status' = status
      BY <2>3, <2>12
    <3>2. st = "hash" => Len(hh) # HashSize
      BY <1>6, <2>12
    <3> HIDE DEF st, good
    <3>3. Buffer(stream, input') /\ Core(stream, decmt, fds', input', "report", parsed, o)
      BY <1>3, <1>4, <1>6, <2>4, <2>6, <2>7, <2>9, <2>10, <3>2, CoreHash, ZenonT(60)
    <3>4. Next1(o)
      BY <1>1, <3>1, <3>3, Zenon DEF Next1
    <3>5. Typed
      BY <1>1, <1>4, <2>10, <3>3, Zenon DEF Typed
    <3>6. Phases'
      BY <3>1 DEF Phases
    <3>7. pc' \in Steps
      BY <3>1 DEF Steps
    <3>8. \E y \in 0 .. Len(stream) : Next1(y)
      BY <3>4
    <3>9. QED
      BY <1>1, <1>2, <3>1, <3>5, <3>6, <3>7, <3>8, StepEnds
  <2>13. QED
    BY <2>11, <2>12
<1>7. QED
  BY <1>5, <1>6

LoopsSet(f, g, l) == g = [f EXCEPT !.loopCount = l]
LoopsOnly(f, g)   == g.stage = f.stage /\ g.dec = f.dec /\ g.overlap = f.overlap /\ g.hash = f.hash

LEMMA LoopsIs ==
  ASSUME NEW s, NEW f, Own(s, f), NEW l \in Nat, NEW g, LoopsSet(f, g, l)
  PROVE  Own(s, g) /\ LoopsOnly(f, g)
BY DEF Own, LoopsSet, LoopsOnly

LEMMA CoreReport ==
  ASSUME NEW s, NEW m, NEW f, NEW g, LoopsOnly(f, g), NEW in, NEW r, NEW o,
         Core(s, m, f, in, "report", r, o), NEW q, q \in {"idle", "canceling"}
  PROVE  Core(s, m, g, in, q, r, o)
<1>1. g.stage = f.stage /\ g.dec = f.dec /\ g.overlap = f.overlap /\ g.hash = f.hash
  BY DEF LoopsOnly
<1>2. Core(s, m, g, in, "report", r, o)
  BY <1>1, CoreLoops
<1>3. q \in Between /\ "report" \in Between
  BY DEF Between
<1>4. QED
  BY <1>2, <1>3, CoreBetween

LEMMA ReportKeeps ==
  ASSUME IInv, Report
  PROVE  IInv'
<1> DEFINE stuck == fds.stage # "finished" /\ ~Moved
           loops == IF stuck THEN fds.loopCount + 1 ELSE 0
           r == CASE loops > 2 -> "buffer" [] fds.stage = "finished" -> "done" [] OTHER -> "more"
<1>1. /\ pc = "report" /\ stream' = stream /\ input' = input /\ room' = room /\ out' = out
      /\ parsed' = parsed
      /\ fds' = [fds EXCEPT !.loopCount = loops]
      /\ IF loops > 2 /\ thread
         THEN pc' = "canceling" /\ ret' = ret /\ status' = status /\ callVars' = callVars
         ELSE EndCall(r)
      /\ decmt' = IF fds.stage = "finished" \/ (loops > 2 /\ ~thread) THEN Cleanup(decmt) ELSE decmt
  BY DEF Report
<1>2. pc # "idle"
  BY <1>1
<1>3. PICK o \in 0 .. Len(stream) : Core(stream, decmt, fds, input, "report", parsed, o)
  BY <1>1, <1>2, InACall
<1>4. /\ stream \in Streams /\ Mt(stream, decmt) /\ Own(stream, fds) /\ Buffer(stream, input)
      /\ room \in Nat /\ out \in Seq(Nat) /\ status = "going"
  BY <1>2, InACall
<1>5. loops \in Nat /\ (fds.stage = "finished" => loops = 0)
  BY <1>4, OwnFields DEF OwnIs
<1>6. Own(stream, fds') /\ LoopsOnly(fds, fds')
  <2> HIDE DEF loops
  <2>1. LoopsSet(fds, fds', loops)
    BY <1>1 DEF LoopsSet
  <2>2. QED
    BY <1>4, <1>5, <2>1, LoopsIs
<1>7. Mt(stream, decmt')
  <2>1. Mt(stream, Cleanup(decmt))
    BY <1>4, CleanedIs
  <2>2. QED
    BY <1>1, <1>4, <2>1
<1>8. Typed
  BY <1>1, <1>4, <1>6, <1>7, Zenon DEF Typed
<1>9. CASE loops > 2 /\ thread
  <2>1. pc' = "canceling" /\ status' = status /\ callVars' = callVars
    BY <1>1, <1>9
  <2>2. fds.stage # "finished"
    BY <1>5, <1>9
  <2>3. thread \in BOOLEAN
    BY DEF IInv, Types
  <2>4. decmt' = decmt
    BY <1>1, <1>9, <2>2, <2>3
  <2>5. Core(stream, decmt, fds', input, "canceling", parsed, o)
    BY <1>3, <1>6, CoreReport
  <2>6. Next1(o)
    BY <1>1, <2>1, <2>4, <2>5, Zenon DEF Next1
  <2>7. thread' = thread /\ wait' = wait /\ busy' = busy /\ user' = user
    BY <2>1 DEF callVars
  <2>8. Types'
    <3>1. thread \in BOOLEAN /\ wait \in BOOLEAN /\ busy \in BOOLEAN
      BY DEF IInv, Types
    <3>2. stream' \in Streams /\ thread' \in BOOLEAN /\ wait' \in BOOLEAN /\ busy' \in BOOLEAN
      BY <1>1, <1>4, <2>7, <3>1, Zenon
    <3>3. /\ Mt(stream', decmt') /\ Own(stream', fds') /\ Buffer(stream', input')
          /\ room' \in Nat /\ out' \in Seq(Nat)
      BY <1>1, <1>8 DEF Typed
    <3>4. QED
      BY <3>2, <3>3 DEF Types
  <2>9. Places'
    <3>1. Places
      BY DEF IInv
    <3>2. /\ user \in {"free", "calling", "waiting", "canceling"} /\ (wait => busy)
          /\ \/ user = "calling" /\ ~thread /\ ~busy /\ ~wait
             \/ thread /\ busy /\ wait /\ user # "calling"
      BY <1>2, <3>1, Zenon DEF Places
    <3>3. thread
      BY <1>9
    <3>4. QED
      BY <1>4, <2>1, <2>7, <3>2, <3>3, Zenon DEF Places
  <2>10. Phases'
    BY <2>1 DEF Phases
  <2>11. Somewhere'
    BY <1>1, <2>6 DEF Somewhere, Next1
  <2>12. QED
    BY <2>8, <2>9, <2>10, <2>11 DEF IInv
<1>10. CASE ~(loops > 2 /\ thread)
  <2>1. EndCall(r)
    BY <1>1, <1>10
  <2>2. status' = "going" => Next1(o)
    <3>1. SUFFICES ASSUME status' = "going" PROVE Next1(o)
      OBVIOUS
    <3>2. status' = StatusAfter(r) /\ pc' = "idle"
      BY <2>1 DEF EndCall
    <3>3. r = "more"
      <4>1. r \in {"buffer", "done", "more"}
        OBVIOUS
      <4> HIDE DEF r
      <4>2. QED
        BY <1>4, <3>1, <3>2, <4>1 DEF StatusAfter
    <3>4. ~(loops > 2) /\ fds.stage # "finished"
      <4>1. loops > 2 => r = "buffer"
        BY <1>5
      <4>2. fds.stage = "finished" => r = "done"
        BY <1>5
      <4> HIDE DEF r, loops
      <4>3. QED
        BY <3>3, <4>1, <4>2
    <3>5. decmt' = decmt
      BY <1>1, <3>4
    <3>6. Core(stream, decmt, fds', input, "idle", parsed, o)
      BY <1>3, <1>6, CoreReport
    <3>7. QED
      BY <1>1, <3>2, <3>5, <3>6, Zenon DEF Next1
  <2>3. status' = "going" => \E y \in 0 .. Len(stream) : Next1(y)
    BY <2>2
  <2> HIDE DEF r
  <2>4. QED
    BY <1>1, <1>2, <1>8, <2>1, <2>3, CallEnds
<1>11. QED
  BY <1>9, <1>10

-----------------------------------------------------------------------------
(* The caller.                                                             *)
Flags == thread \in BOOLEAN /\ wait \in BOOLEAN /\ busy \in BOOLEAN

SameCall ==
  /\ stream' = stream /\ input' = input /\ room' = room /\ out' = out /\ decmt' = decmt
  /\ fds' = fds /\ pc' = pc /\ parsed' = parsed /\ ret' = ret /\ status' = status

LEMMA CallerEnds ==
  ASSUME IInv, SameCall, Flags', Places'
  PROVE  IInv'
<1>1. Types /\ Phases /\ Somewhere
  BY DEF IInv
<1>2. Types'
  <2>1. /\ stream' \in Streams /\ Mt(stream', decmt') /\ Own(stream', fds') /\ Buffer(stream', input')
        /\ room' \in Nat /\ out' \in Seq(Nat)
    BY <1>1, Zenon DEF SameCall, Types
  <2>2. QED
    BY <2>1, Zenon DEF Types, Flags
<1>3. Phases'
  BY <1>1, Zenon DEF SameCall, Phases
<1>4. Somewhere'
  BY <1>1, Zenon DEF SameCall, Somewhere
<1>5. QED
  BY <1>2, <1>3, <1>4 DEF IInv

LEMMA FlagsIs ==
  ASSUME IInv
  PROVE  Flags /\ Places /\ stream \in Streams /\ (user = "free" /\ ~wait => pc = "idle")
         /\ (user = "waiting" /\ ~busy => pc = "idle")
<1>1. Types /\ Places
  BY DEF IInv
<1>2. Flags /\ stream \in Streams
  BY <1>1 DEF Types, Flags
<1>3. (user = "free" /\ ~wait => pc = "idle") /\ (user = "waiting" /\ ~busy => pc = "idle")
  BY <1>1 DEF Places
<1>4. QED
  BY <1>1, <1>2, <1>3

LEMMA OnlyUserKeeps ==
  ASSUME IInv, NEW u, u \in {"waiting", "free"}, user # "calling",
         u = "free" => user \in {"free", "waiting"}, OnlyUser(u)
  PROVE  IInv'
<1>1. SameCall /\ user' = u /\ thread' = thread /\ wait' = wait /\ busy' = busy
  BY DEF OnlyUser, SameCall
<1>2. Flags /\ Places
  BY FlagsIs
<1>3. Flags'
  BY <1>1, <1>2, Zenon DEF Flags
<1>4. Places'
  <2>1. user' \in {"free", "calling", "waiting", "canceling"} /\ user' # "calling"
    BY <1>1
  <2>2. QED
    BY <1>1, <1>2, <2>1, Zenon DEF Places, SameCall
<1>5. QED
  BY <1>1, <1>3, <1>4, CallerEnds

LEMMA JobReturnsKeeps ==
  ASSUME IInv, JobReturns
  PROVE  IInv'
<1>1. /\ SameCall /\ pc = "idle" /\ busy' = FALSE
      /\ thread' = thread /\ wait' = wait /\ user' = user
  BY DEF JobReturns, SameCall
<1>2. Flags /\ Places
  BY FlagsIs
<1>3. Flags'
  BY <1>1, <1>2, Zenon DEF Flags
<1>4. ~wait
  BY <1>1, <1>2 DEF Places
<1>5. pc' = "idle"
  BY <1>1 DEF SameCall
<1>6. Places'
  BY <1>1, <1>2, <1>4, <1>5, Zenon DEF Places
<1>7. QED
  BY <1>1, <1>3, <1>6, CallerEnds

LEMMA SetDStreamTimeoutKeeps ==
  ASSUME IInv, NEW t, SetDStreamTimeout(t)
  PROVE  IInv'
<1>1. /\ SameCall /\ user = "free" /\ thread' = (t \/ (thread /\ wait))
      /\ wait' = wait /\ busy' = busy /\ user' = user
  BY DEF SetDStreamTimeout, SameCall
<1>2. Flags /\ Places
  BY FlagsIs
<1>3. Flags'
  <2>1. thread' \in BOOLEAN
    BY <1>1, Zenon
  <2>2. QED
    BY <1>1, <1>2, <2>1, Zenon DEF Flags
<1>4. Places'
  <2>1. pc # "idle" => status = "going" /\ thread /\ busy /\ wait
    BY <1>1, <1>2 DEF Places
  <2>2. pc = "canceling" => pc # "idle"
    OBVIOUS
  <2>3. user' = "free" /\ user' # "calling" /\ user' \in {"free", "calling", "waiting", "canceling"}
    BY <1>1
  <2>4. QED
    BY <1>1, <1>2, <2>1, <2>2, <2>3, Zenon DEF Places, SameCall
<1>5. QED
  BY <1>1, <1>3, <1>4, CallerEnds

LEMMA IdleEnds ==
  ASSUME IInv, pc = "idle", pc' = "idle", stream' = stream, thread' = thread, wait' = wait, busy' = busy,
         Typed, user' \in {"free", "calling", "waiting", "canceling"},
         status' = "going" => \E o \in 0 .. Len(stream) : Next1(o)
  PROVE  IInv'
<1>1. Flags /\ Places /\ stream \in Streams
  BY FlagsIs
<1>2. Types'
  <2>1. stream' \in Streams /\ thread' \in BOOLEAN /\ wait' \in BOOLEAN /\ busy' \in BOOLEAN
    BY <1>1, Zenon DEF Flags
  <2>2. /\ Mt(stream', decmt') /\ Own(stream', fds') /\ Buffer(stream', input')
        /\ room' \in Nat /\ out' \in Seq(Nat)
    BY DEF Typed
  <2>3. QED
    BY <2>1, <2>2 DEF Types
<1>3. Places'
  <2>1. wait' => busy'
    BY <1>1, Zenon DEF Places
  <2>2. ~wait'
    BY <1>1, Zenon DEF Places
  <2>3. pc' # "canceling"
    OBVIOUS
  <2>4. pc' \in {"idle", "load", "parse", "read", "blocks", "write", "failed", "direct", "hash",
                 "report", "error", "canceling", "overrun"}
    OBVIOUS
  <2>5. QED
    BY <2>1, <2>2, <2>3, <2>4, Zenon DEF Places
<1>4. Phases'
  BY DEF Phases
<1>5. Somewhere'
  BY DEF Somewhere, Next1
<1>6. QED
  BY <1>2, <1>3, <1>4, <1>5 DEF IInv

LEMMA TypedHere ==
  ASSUME IInv
  PROVE  /\ stream \in Streams /\ Mt(stream, decmt) /\ Own(stream, fds) /\ Buffer(stream, input)
         /\ room \in Nat /\ out \in Seq(Nat)
BY DEF IInv, Types

LEMMA CancelDStreamKeeps ==
  ASSUME IInv, CancelDStream
  PROVE  IInv'
<1>1. user = "free" /\ status = "going"
  BY DEF CancelDStream
<1>2. Flags /\ Places
  BY FlagsIs
<1>3. CASE thread
  <2>1. SameCall /\ user' = "canceling" /\ thread' = thread /\ wait' = wait /\ busy' = busy
    BY <1>3 DEF CancelDStream, SameCall
  <2>2. Flags'
    BY <1>2, <2>1, Zenon DEF Flags
  <2>3. Places'
    <3>1. user # "calling" /\ user' # "calling" /\ user' \in {"free", "calling", "waiting", "canceling"}
      BY <1>1, <2>1
    <3>2. QED
      BY <1>2, <2>1, <3>1, Zenon DEF Places, SameCall
  <2>4. QED
    BY <2>1, <2>2, <2>3, CallerEnds
<1>4. CASE ~thread
  <2>1. /\ decmt' = Cleanup(decmt) /\ status' = "dropped" /\ user' = user
        /\ stream' = stream /\ input' = input /\ room' = room /\ out' = out /\ fds' = fds /\ pc' = pc
        /\ thread' = thread /\ wait' = wait /\ busy' = busy
    BY <1>4 DEF CancelDStream
  <2>2. pc = "idle"
    BY <1>1, <1>2, <1>4 DEF Places
  <2>3. Mt(stream, decmt')
    BY <2>1, TypedHere, CleanedIs
  <2>4. Typed
    BY <2>1, <2>3, TypedHere, Zenon DEF Typed
  <2>5. user' \in {"free", "calling", "waiting", "canceling"} /\ pc' = "idle" /\ status' # "going"
    BY <1>1, <2>1, <2>2
  <2>6. QED
    BY <2>1, <2>2, <2>4, <2>5, IdleEnds
<1>5. QED
  BY <1>3, <1>4

LEMMA CancelEndsKeeps ==
  ASSUME IInv, CancelEnds
  PROVE  IInv'
<1>1. /\ "canceling" \in {user, pc} /\ ~busy
      /\ decmt' = Cleanup(decmt) /\ status' = "dropped" /\ user' = "free"
      /\ stream' = stream /\ input' = input /\ room' = room /\ out' = out /\ fds' = fds /\ pc' = pc
      /\ thread' = thread /\ wait' = wait /\ busy' = busy
  BY DEF CancelEnds
<1>2. Flags /\ Places
  BY FlagsIs
<1>3. pc = "idle"
  BY <1>1, <1>2 DEF Places
<1>4. Mt(stream, decmt')
  BY <1>1, TypedHere, CleanedIs
<1>5. Typed
  BY <1>1, <1>4, TypedHere, Zenon DEF Typed
<1>6. user' \in {"free", "calling", "waiting", "canceling"} /\ pc' = "idle" /\ status' # "going"
  BY <1>1, <1>3
<1>7. QED
  BY <1>1, <1>3, <1>5, <1>6, IdleEnds

LEMMA ResetOwn ==
  ASSUME NEW s PROVE Own(s, Reset)
<1>1. InitDecoder \in DecState
  BY DEF InitDecoder, DecState
<1>2. Required \in Nat /\ HashSize \in Nat
  BY StepPositive, DStreamAssumption
<1> DEFINE e == <<>>
<1>3. e \in Seq(1 .. Len(s)) /\ Len(e) <= 2 * Required /\ Len(e) <= HashSize
  BY <1>2
<1>4. Reset = [stage |-> "decomp", dec |-> InitDecoder, overlap |-> e, hash |-> e, loopCount |-> 0]
  BY DEF Reset
<1> HIDE DEF e
<1>5. QED
  BY <1>1, <1>3, <1>4 DEF Own

LEMMA EmptyBuffer ==
  ASSUME NEW s, Len(s) \in Nat PROVE Buffer(s, [base |-> 0, pos |-> 0, size |-> 0])
BY DEF Buffer

LEMMA InitMtFresh ==
  ASSUME NEW s, NEW m, Mt(s, m), NEW low \in BOOLEAN
  PROVE  Fresh(s, InitMt(m, low))
<1> DEFINE r == InitMt(m, low)
<1>1. r = InitMt(m, low)
  OBVIOUS
<1> HIDE DEF r
<1>2. Fresh(s, r)
  BY <1>1, InitMtIs
<1>3. QED
  BY <1>2 DEF r

LEMMA InitDStreamKeeps ==
  ASSUME IInv, NEW low \in BOOLEAN, InitDStream(low)
  PROVE  IInv'
<1>1. /\ user = "free" /\ ~wait
      /\ input' = [base |-> 0, pos |-> 0, size |-> 0] /\ out' = <<>> /\ status' = "going"
      /\ decmt' = InitMt(decmt, low) /\ fds' = Reset
      /\ stream' = stream /\ room' = room /\ pc' = pc /\ parsed' = parsed
      /\ callVars' = callVars
  BY DEF InitDStream
<1>2. thread' = thread /\ wait' = wait /\ busy' = busy /\ user' = user
  BY <1>1 DEF callVars
<1>3. pc = "idle"
  BY <1>1, FlagsIs
<1>4. stream \in Streams /\ Len(stream) \in Nat /\ Mt(stream, decmt) /\ room \in Nat
  BY TypedHere, StreamIs
<1>5. /\ Mt(stream, decmt') /\ decmt'.chain = << <<>> >> /\ decmt'.numThreads = 0
      /\ decmt'.threads[0].first = 1 /\ decmt'.threads[0].last = 1
      /\ decmt'.threads[0].startPos = 0 /\ decmt'.threads[0].endPos = 0
      /\ decmt'.threads[0].unpackSize = 0
  <2>1. Fresh(stream, InitMt(decmt, low))
    BY <1>4, InitMtFresh
  <2>2. QED
    BY <1>1, <2>1 DEF Fresh
<1>6. Core(stream, decmt', Reset, [base |-> 0, pos |-> 0, size |-> 0], "idle", parsed, 0)
  BY <1>4, <1>5, CoreAtStart
<1>7. Next1(0)
  BY <1>1, <1>3, <1>6 DEF Next1
<1>8. Typed
  <2>1. out' \in Seq(Nat) /\ room' \in Nat
    BY <1>1, <1>4
  <2>2. Own(stream, fds')
    BY <1>1, ResetOwn
  <2>3. Buffer(stream, input')
    BY <1>1, <1>4, EmptyBuffer
  <2>4. QED
    BY <1>5, <2>1, <2>2, <2>3 DEF Typed
<1>9. user' \in {"free", "calling", "waiting", "canceling"} /\ pc' = "idle"
  BY <1>1, <1>2, <1>3
<1>10. \E o \in 0 .. Len(stream) : Next1(o)
  BY <1>4, <1>7
<1>11. QED
  BY <1>1, <1>2, <1>3, <1>8, <1>9, <1>10, IdleEnds

Offered(s, in, in2, n) ==
  \E base \in {in.base, in.pos} :
    in2 = [in EXCEPT !.base = base, !.size = Min({Len(s), in.pos + n})]

LEMMA OfferedIs ==
  ASSUME NEW s, Len(s) \in Nat, NEW in, Buffer(s, in), NEW n \in Nat, NEW in2, Offered(s, in, in2, n)
  PROVE  Buffer(s, in2) /\ in2.pos = in.pos /\ in2.base \in {in.base, in.pos}
<1> DEFINE z == Min({Len(s), in.pos + n})
<1>1. /\ in.base \in Nat /\ in.pos \in Nat /\ in.size \in Nat
      /\ in.base <= in.pos /\ in.pos <= in.size /\ in.size <= Len(s)
  BY BufferFields DEF BufferIs
<1>2. z \in {Len(s), in.pos + n} /\ z \in Nat /\ z <= Len(s)
  <2>1. in.pos + n \in Nat
    BY <1>1
  <2>2. {Len(s), in.pos + n} \subseteq Nat /\ {Len(s), in.pos + n} # {}
    BY <2>1
  <2>3. z \in {Len(s), in.pos + n}
    BY <2>2, LeastIn
  <2> DEFINE b == in.pos + n
  <2>4. b \in Nat /\ z = Min({Len(s), b})
    BY <2>1
  <2> HIDE DEF b, z
  <2>5. z \in Nat /\ z <= Len(s)
    BY <2>4, LeastOf
  <2>6. QED
    BY <2>3, <2>5 DEF z
<1>3. in.pos <= z
  <2> HIDE DEF z
  <2>1. QED
    BY <1>1, <1>2
<1>4. PICK base \in {in.base, in.pos} : in2 = [in EXCEPT !.base = base, !.size = z]
  BY DEF Offered
<1> HIDE DEF z
<1>5. base \in Nat /\ base <= in.pos
  BY <1>1
<1>6. in \in [base : Nat, pos : Nat, size : Nat]
  BY DEF Buffer
<1>7. in2 \in [base : Nat, pos : Nat, size : Nat] /\ in2.base = base /\ in2.pos = in.pos /\ in2.size = z
  BY <1>2, <1>4, <1>5, <1>6
<1>8. QED
  BY <1>2, <1>3, <1>5, <1>7 DEF Buffer

LEMMA DecompressStreamKeeps ==
  ASSUME IInv, NEW n \in Nat, NEW m \in Nat, DecompressStream(n, m)
  PROVE  IInv'
<1>1. /\ user = "free" /\ ~wait /\ ~busy /\ status = "going"
      /\ room' = m /\ parsed' = "continue" /\ stream' = stream /\ out' = out /\ decmt' = decmt
      /\ fds' = fds /\ thread' = thread /\ status' = status
      /\ wait' = thread /\ busy' = thread
      /\ user' = IF thread THEN "waiting" ELSE "calling"
  BY DEF DecompressStream
<1>2. Offered(stream, input, input', n)
  BY DEF DecompressStream, Offered
<1>3. pc' = StepFor(decmt, fds)
  BY DEF DecompressStream, StepFor
<1>4. pc = "idle" /\ Flags
  BY <1>1, FlagsIs
<1>5. /\ stream \in Streams /\ Len(stream) \in Nat /\ Mt(stream, decmt) /\ Own(stream, fds)
      /\ Buffer(stream, input) /\ out \in Seq(Nat)
  BY TypedHere, StreamIs
<1>6. Buffer(stream, input') /\ input'.pos = input.pos /\ input'.base \in {input.base, input.pos}
  BY <1>2, <1>5, OfferedIs
<1>7. PICK o \in 0 .. Len(stream) : Core(stream, decmt, fds, input, "idle", parsed, o)
  BY <1>1, <1>4 DEF IInv, Somewhere
<1>8. decmt.failState \in BOOLEAN
  BY <1>5, MtFields
<1>9. Core(stream, decmt, fds, input', StepFor(decmt, fds), "continue", o)
  BY <1>6, <1>7, <1>8, CoreCall
<1>10. Types'
  <2>1. stream' \in Streams /\ thread' \in BOOLEAN /\ wait' \in BOOLEAN /\ busy' \in BOOLEAN
    BY <1>1, <1>4, <1>5, Zenon DEF Flags
  <2>2. /\ Mt(stream', decmt') /\ Own(stream', fds') /\ Buffer(stream', input')
        /\ room' \in Nat /\ out' \in Seq(Nat)
    BY <1>1, <1>5, <1>6
  <2>3. QED
    BY <2>1, <2>2 DEF Types
<1>11. Places'
  <2>1. pc' \in {"failed", "load", "write", "hash"}
    BY <1>3, <1>8 DEF StepFor
  <2>2. user' \in {"free", "calling", "waiting", "canceling"}
        /\ (thread => user' # "calling") /\ (~thread => user' = "calling")
    BY <1>1
  <2>3. pc' # "idle" /\ pc' # "canceling"
        /\ pc' \in {"idle", "load", "parse", "read", "blocks", "write", "failed", "direct", "hash",
                    "report", "error", "canceling", "overrun"}
    BY <2>1
  <2>4. status' = "going"
    BY <1>1
  <2>5. QED
    BY <1>1, <2>2, <2>3, <2>4, Zenon DEF Places
<1>12. Phases'
  <2>1. /\ pc' \in {"failed", "load", "write", "hash"}
        /\ pc' = "load" => fds.stage = "decomp" /\ ~decmt.failState
        /\ pc' = "write" => fds.stage = "mtWrite" /\ ~decmt.failState
        /\ pc' = "failed" => decmt.failState
    BY <1>3, <1>8 DEF StepFor
  <2>2. QED
    BY <1>1, <2>1 DEF Phases
<1>13. Somewhere'
  <2>1. Core(stream', decmt', fds', input', pc', parsed', o)
    BY <1>1, <1>3, <1>9
  <2>2. QED
    BY <1>1, <2>1 DEF Somewhere
<1>14. QED
  BY <1>10, <1>11, <1>12, <1>13 DEF IInv

-----------------------------------------------------------------------------
(* The invariant holds in every reachable state.                           *)
LEMMA InitMtState ==
  ASSUME NEW s, NEW low \in BOOLEAN, NEW m,
         m = [chain |-> << <<>> >>, threads |-> [t \in Thread |-> Fields], numThreads |-> 0,
              srcThread |-> 0, srcPos |-> 0, memTotal |-> 0, isFinal |-> FALSE,
              failState |-> low, cur |-> 0, curPos |-> 0]
  PROVE  Fresh(s, m)
<1>1. Fields \in ThreadState
  <2>1. InitDecoder \in DecState
    BY DEF InitDecoder, DecState
  <2>2. <<>> \in Seq(Nat)
    OBVIOUS
  <2>3. QED
    BY <2>1, <2>2 DEF Fields, ThreadState
<1>2. m.threads \in [Thread -> ThreadState] /\ m.threads[0] = Fields
  BY <1>1, ThreadIs
<1>3. /\ Fields.first = 1 /\ Fields.last = 1 /\ Fields.startPos = 0 /\ Fields.endPos = 0
      /\ Fields.unpackSize = 0
  BY DEF Fields
<1>4. /\ m.chain = << <<>> >> /\ m.numThreads = 0 /\ m.srcThread = 0 /\ m.srcPos = 0
      /\ m.isFinal = FALSE /\ m.failState = low /\ m.cur = 0 /\ m.curPos = 0 /\ m.memTotal = 0
      /\ WithFields(m)
  BY DEF WithFields
<1>5. /\ m.chain \in Seq(Seq(1 .. Len(s))) /\ Len(m.chain) > 0
      /\ \A i \in 1 .. Len(m.chain) : Len(m.chain[i]) <= NodeSize
  <2>1. Len(m.chain) = 1
    BY <1>4, OneNode
  <2>2. Len(m.chain) > 0
    BY <2>1
  <2>3. QED
    BY <1>4, <2>2, OneNode
<1>6. Mt(s, m)
  <2>1. /\ m.numThreads \in 0 .. Threads /\ m.srcThread \in Nat /\ m.srcPos \in Nat
        /\ m.isFinal \in BOOLEAN /\ m.failState \in BOOLEAN /\ m.cur \in Nat /\ m.curPos \in Nat
    BY <1>4, ThreadIs
  <2>2. QED
    BY <1>2, <1>4, <1>5, <2>1, MtOf, Zenon
<1>7. QED
  BY <1>2, <1>3, <1>4, <1>6 DEF Fresh

LEMMA InitHolds == Init => IInv
<1> SUFFICES ASSUME Init PROVE IInv
  OBVIOUS
<1>1. /\ stream \in Streams
      /\ input = [base |-> 0, pos |-> 0, size |-> 0] /\ room = 0 /\ out = <<>>
      /\ fds = Reset /\ pc = "idle" /\ parsed = "continue"
      /\ thread = FALSE /\ timeout = FALSE /\ wait = FALSE /\ busy = FALSE /\ user = "free"
      /\ status = "going"
  BY DEF Init
<1>2. Len(stream) \in Nat
  BY <1>1, StreamIs
<1>3. Fresh(stream, decmt)
  <2>1. PICK low \in BOOLEAN :
          decmt = [chain |-> << <<>> >>, threads |-> [t \in Thread |-> Fields], numThreads |-> 0,
                   srcThread |-> 0, srcPos |-> 0, memTotal |-> 0, isFinal |-> FALSE,
                   failState |-> low, cur |-> 0, curPos |-> 0]
    BY DEF Init
  <2>2. QED
    BY <2>1, InitMtState
<1>4. Mt(stream, decmt)
  BY <1>3 DEF Fresh
<1>5. Types
  <2>1. Own(stream, fds) /\ Buffer(stream, input)
    BY <1>1, <1>2, ResetOwn, EmptyBuffer
  <2>2. room \in Nat /\ out \in Seq(Nat)
    BY <1>1
  <2>3. thread \in BOOLEAN /\ wait \in BOOLEAN /\ busy \in BOOLEAN
    BY <1>1
  <2>4. QED
    BY <1>1, <1>4, <2>1, <2>2, <2>3 DEF Types
<1>6. Places
  BY <1>1 DEF Places
<1>7. Phases
  BY <1>1 DEF Phases
<1>8. Somewhere
  <2>1. Core(stream, decmt, Reset, [base |-> 0, pos |-> 0, size |-> 0], "idle", parsed, 0)
    BY <1>1, <1>3, CoreAtStart DEF Fresh
  <2>2. Core(stream, decmt, fds, input, pc, parsed, 0) /\ 0 \in 0 .. Len(stream)
    BY <1>1, <1>2, <2>1
  <2>3. QED
    BY <2>2 DEF Somewhere
<1>9. QED
  BY <1>5, <1>6, <1>7, <1>8 DEF IInv

LEMMA StepKeeps == IInv /\ [Next]_vars => IInv'
<1> SUFFICES ASSUME IInv, [Next]_vars PROVE IInv'
  OBVIOUS
<1>1. CASE UNCHANGED vars
  <2>1. SameCall /\ thread' = thread /\ wait' = wait /\ busy' = busy /\ user' = user
    BY <1>1 DEF vars, callVars, SameCall
  <2>2. Flags /\ Places
    BY FlagsIs
  <2>3. Flags' /\ Places'
    BY <2>1, <2>2, Zenon DEF Flags, Places, SameCall
  <2>4. QED
    BY <2>1, <2>3, CallerEnds
<1>2. CASE Call
  <2>1. CASE Load
    BY <2>1, LoadKeeps
  <2>2. CASE NextChunk
    BY <2>2, NextChunkKeeps
  <2>3. CASE ParseStops
    BY <2>3, ParseStopsKeeps
  <2>4. CASE BlockComplete
    BY <2>4, BlockCompleteKeeps
  <2>5. CASE ReadInput
    BY <2>5, ReadInputKeeps
  <2>6. CASE AddNode
    BY <2>6, AddNodeKeeps
  <2>7. CASE AddNodeFails
    BY <2>7, AddNodeFailsKeeps
  <2>8. CASE \E t \in Thread : BlockStep(t)
    BY <2>8, BlockStepKeeps
  <2>9. CASE BlocksDone
    BY <2>9, BlocksDoneKeeps
  <2>10. CASE WriteBlock
    BY <2>10, WriteBlockKeeps
  <2>11. CASE DecompressFailed
    BY <2>11, DecompressFailedKeeps
  <2>12. CASE SwitchFails
    BY <2>12, SwitchFailsKeeps
  <2>13. CASE DecompressOverlap
    BY <2>13, DecompressOverlapKeeps
  <2>14. CASE DecompressDirect
    BY <2>14, DecompressDirectKeeps
  <2>15. CASE Hash
    BY <2>15, HashKeeps
  <2>16. CASE Report
    BY <2>16, ReportKeeps
  <2>17. CASE Error
    BY <2>17, ErrorKeeps
  <2>18. CASE JobReturns
    BY <2>18, JobReturnsKeeps
  <2>19. QED
    BY <1>2, <2>1, <2>2, <2>3, <2>4, <2>5, <2>6, <2>7, <2>8, <2>9, <2>10, <2>11, <2>12, <2>13,
       <2>14, <2>15, <2>16, <2>17, <2>18, Zenon DEF Call
<1>3. CASE Continue
  <2>1. PICK n \in InputSizes, m \in OutputSizes : DecompressStream(n, m)
    BY <1>3 DEF Continue
  <2>2. n \in Nat /\ m \in Nat
    BY DStreamAssumption
  <2>3. QED
    BY <2>1, <2>2, DecompressStreamKeeps
<1>4. CASE \E low \in BOOLEAN : InitDStream(low)
  BY <1>4, InitDStreamKeeps
<1>5. CASE \E t \in Timeouts : SetDStreamTimeout(t)
  BY <1>5, SetDStreamTimeoutKeeps
<1>6. CASE WaitDStream
  <2>1. user = "free" /\ OnlyUser("waiting")
    BY <1>6 DEF WaitDStream
  <2>2. QED
    BY <2>1, OnlyUserKeeps
<1>7. CASE TimesOut
  <2>1. user = "waiting" /\ OnlyUser("free")
    BY <1>7 DEF TimesOut
  <2>2. QED
    BY <2>1, OnlyUserKeeps
<1>8. CASE WaitEnds
  <2>1. user = "waiting" /\ OnlyUser("free")
    BY <1>8 DEF WaitEnds
  <2>2. QED
    BY <2>1, OnlyUserKeeps
<1>9. CASE CancelDStream
  BY <1>9, CancelDStreamKeeps
<1>10. CASE CancelEnds
  BY <1>10, CancelEndsKeeps
<1>11. QED
  BY <1>1, <1>2, <1>3, <1>4, <1>5, <1>6, <1>7, <1>8, <1>9, <1>10, Zenon DEF Next

(* The invariant holds in every reachable state: nodes, blocks, overlap   *)
(* and digest are where IInv says, whatever the caller does.               *)
THEOREM Inductive == Spec => []IInv
<1>1. Init => IInv
  BY InitHolds
<1>2. IInv /\ [Next]_vars => IInv'
  BY StepKeeps
<1>3. QED
  BY <1>1, <1>2, PTL DEF Spec

LEMMA TypeOKHolds == IInv /\ pc # "overrun" => DStreamTypeOK
<1> SUFFICES ASSUME IInv, pc # "overrun" PROVE DStreamTypeOK
  OBVIOUS
<1>1. /\ Mt(stream, decmt) /\ Own(stream, fds) /\ Buffer(stream, input) /\ room \in Nat
  BY TypedHere
<1>2. Places
  BY DEF IInv
<1>3. fds.stage \in {"decomp", "mtWrite", "hash", "finished"} /\ Len(fds.overlap) <= 2 * Required
  BY <1>1, OwnFields DEF OwnIs
<1>4. input.base <= input.pos /\ input.pos <= input.size
  BY <1>1, BufferFields DEF BufferIs
<1>5. /\ decmt.numThreads \in 0 .. Threads
      /\ \A i \in 1 .. Len(decmt.chain) : Len(decmt.chain[i]) <= NodeSize
  BY <1>1, MtFields
<1>6. room >= 0
  BY <1>1
<1>7. QED
  BY <1>2, <1>3, <1>4, <1>5, <1>6 DEF DStreamTypeOK, Places

-----------------------------------------------------------------------------
(* The bytes of the chain, without the overlaps of its nodes, are a run.   *)
Slices(o, first, k) == [i \in 1 .. k |-> Run(At(o, first + i - 1), Step)]

LEMMA SlicesAppend ==
  ASSUME NEW o \in Nat, NEW first \in Nat, first >= 1, NEW k \in Nat
  PROVE  /\ Slices(o, first, k) \in Seq(Seq(Int))
         /\ Slices(o, first, k + 1) = Append(Slices(o, first, k), Run(At(o, first + k), Step))
<1>1. \A i \in Nat : Run(At(o, first + i), Step) \in Seq(Int)
  <2> SUFFICES ASSUME NEW i \in Nat PROVE Run(At(o, first + i), Step) \in Seq(Int)
    OBVIOUS
  <2>1. At(o, first + i) \in Int /\ Step \in Nat
    BY StepPositive, AtNat
  <2> DEFINE a == At(o, first + i)
  <2> HIDE DEF a
  <2>2. a \in Int
    BY <2>1 DEF a
  <2>3. Run(a, Step) \in Seq(Int)
    BY <2>1, <2>2, RunIs
  <2>4. QED
    BY <2>3 DEF a
<1> DEFINE E(i) == Run(At(o, first + i - 1), Step)
<1>2. \A i \in 1 .. k + 1 : E(i) \in Seq(Int)
  <2> SUFFICES ASSUME NEW i \in 1 .. k + 1 PROVE E(i) \in Seq(Int)
    OBVIOUS
  <2>1. i - 1 \in Nat /\ first + (i - 1) = first + i - 1
    OBVIOUS
  <2>2. Run(At(o, first + (i - 1)), Step) \in Seq(Int)
    BY <1>1, <2>1
  <2>3. QED
    BY <2>1, <2>2
<1>3. E(k + 1) = Run(At(o, first + k), Step)
  <2>1. first + (k + 1) - 1 = first + k
    OBVIOUS
  <2>2. QED
    BY <2>1
<1> HIDE DEF E
<1>4. Slices(o, first, k) = [i \in 1 .. k |-> E(i)] /\ Slices(o, first, k + 1) = [i \in 1 .. k + 1 |-> E(i)]
  BY DEF Slices, E
<1>5. [i \in 1 .. k |-> E(i)] \in Seq(Seq(Int))
  <2>1. \A i \in 1 .. k : E(i) \in Seq(Int)
    BY <1>2
  <2>2. QED
    BY <2>1, IsASeq
<1>6. [i \in 1 .. k + 1 |-> E(i)] = Append([i \in 1 .. k |-> E(i)], E(k + 1))
  BY <1>2, <1>5
<1>7. QED
  BY <1>3, <1>4, <1>5, <1>6

LEMMA AtLeast ==
  ASSUME NEW o \in Nat, NEW i \in Nat, i >= 1, NEW k \in Nat
  PROVE  At(o, i + k) - At(o, i) \in Nat /\ At(o, i) \in Nat /\ At(o, i + k) \in Nat
<1>1. At(o, i) \in Nat /\ At(o, i + k) \in Nat
  BY AtNat
<1>2. At(o, i) <= At(o, i + k)
  BY AtGrows
<1>3. QED
  BY <1>1, <1>2

(* b is n after a.                                                         *)
Spans(a, b, n) == a \in Int /\ n \in Nat /\ b \in Int /\ b = a + n

LEMMA SpanJoin ==
  ASSUME NEW a, NEW b, NEW n, Spans(a, b, n), NEW k \in Nat
  PROVE  Run(a, n) \o Run(b, k) = Run(a, n + k)
<1>1. a \in Int /\ n \in Nat /\ b \in Int /\ b = a + n
  BY DEF Spans
<1>2. QED
  BY <1>1, RunJoin

LEMMA SliceSpans ==
  ASSUME NEW o \in Nat, NEW first \in Nat, first >= 1, NEW j \in Nat
  PROVE  Spans(At(o, first), At(o, first + j), At(o, first + j) - At(o, first))
<1> DEFINE a == At(o, first)
           b == At(o, first + j)
<1>1. b - a \in Nat /\ a \in Nat /\ b \in Nat
  BY AtLeast
<1> HIDE DEF a, b
<1>2. Spans(a, b, b - a)
  BY <1>1 DEF Spans
<1>3. QED
  BY <1>2 DEF a, b

LEMMA SlicesGrow ==
  ASSUME NEW o \in Nat, NEW first \in Nat, first >= 1, NEW j \in Nat, NEW n,
         Spans(At(o, first), At(o, first + j), n),
         FlattenSeq(Slices(o, first, j)) = Run(At(o, first), n)
  PROVE  FlattenSeq(Slices(o, first, j + 1)) =
           Run(At(o, first), At(o, first + (j + 1)) - At(o, first))
<1> DEFINE a == At(o, first)
           b == At(o, first + j)
           c == At(o, first + (j + 1))
<1>1. Spans(a, b, n)
  OBVIOUS
<1>2. a \in Int /\ n \in Nat /\ b \in Int /\ Step \in Nat /\ b = a + n
  BY <1>1, StepPositive DEF Spans
<1>3. c = b + Step
  <2>1. first + (j + 1) = (first + j) + 1
    OBVIOUS
  <2>2. At(o, (first + j) + 1) = At(o, first + j) + Step
    BY AtNext
  <2>3. QED
    BY <2>1, <2>2
<1>4. /\ Slices(o, first, j) \in Seq(Seq(Int))
      /\ Slices(o, first, j + 1) = Append(Slices(o, first, j), Run(b, Step))
  BY SlicesAppend
<1>5. FlattenSeq(Slices(o, first, j)) = Run(a, n)
  OBVIOUS
<1> HIDE DEF a, b, c
<1>6. c - a = n + Step
  BY <1>2, <1>3
<1>7. Run(b, Step) \in Seq(Int)
  BY <1>2, RunIs
<1>8. FlattenSeq(Slices(o, first, j + 1)) = Run(a, n) \o Run(b, Step)
  BY <1>4, <1>5, <1>7, FlattenAppend
<1>9. Run(a, n) \o Run(b, Step) = Run(a, n + Step)
  <2> DEFINE st == Step
  <2>1. st \in Nat
    BY <1>2
  <2> HIDE DEF st
  <2>2. Run(a, n) \o Run(b, st) = Run(a, n + st)
    <3>1. \A x, y, z : Spans(x, y, z) => \A k \in Nat : Run(x, z) \o Run(y, k) = Run(x, z + k)
      BY SpanJoin
    <3>2. \A k \in Nat : Run(a, n) \o Run(b, k) = Run(a, n + k)
      BY <1>1, <3>1
    <3>3. QED
      BY <2>1, <3>2
  <2>3. QED
    BY <2>2 DEF st
<1>10. FlattenSeq(Slices(o, first, j + 1)) = Run(a, c - a)
  BY <1>6, <1>8, <1>9
<1>11. QED
  BY <1>10 DEF a, c

LEMMA SlicesFlatten ==
  ASSUME NEW o \in Nat, NEW first \in Nat, first >= 1, NEW k \in Nat
  PROVE  FlattenSeq(Slices(o, first, k)) = Run(At(o, first), At(o, first + k) - At(o, first))
<1> DEFINE Upto(j) == FlattenSeq(Slices(o, first, j)) = Run(At(o, first), At(o, first + j) - At(o, first))
           N == {j \in Nat : Upto(j)}
<1>1. 0 \in N
  <2>1. Slices(o, first, 0) = <<>>
    BY DEF Slices
  <2>2. At(o, first + 0) - At(o, first) = 0
    <3>1. first + 0 = first /\ At(o, first) \in Nat
      BY AtNat
    <3>2. QED
      BY <3>1
  <2>3. Run(At(o, first), 0) = <<>>
    BY RunEmpty
  <2>4. FlattenSeq(Slices(o, first, 0)) = Run(At(o, first), At(o, first + 0) - At(o, first))
    BY <2>1, <2>2, <2>3, FlattenEmpty
  <2>5. QED
    BY <2>4
<1>2. \A j \in Nat : j \in N => j + 1 \in N
  <2> SUFFICES ASSUME NEW j \in Nat, Upto(j) PROVE Upto(j + 1)
    OBVIOUS
  <2> DEFINE n == At(o, first + j) - At(o, first)
  <2>1. FlattenSeq(Slices(o, first, j)) = Run(At(o, first), n)
    OBVIOUS
  <2>2. Spans(At(o, first), At(o, first + j), n)
    BY SliceSpans
  <2>3. FlattenSeq(Slices(o, first, j + 1)) =
          Run(At(o, first), At(o, first + (j + 1)) - At(o, first))
    <3> HIDE DEF n
    <3>1. QED
      BY <2>1, <2>2, SlicesGrow
  <2>4. QED
    BY <2>3
<1>3. k \in N
  <2> HIDE DEF N
  <2>1. Nat \subseteq N
    BY <1>1, <1>2, Induction
  <2>2. QED
    BY <2>1
<1>4. QED
  BY <1>3

Ahead(m, o, first, last) == (At(o, last) + Len(m.chain[last])) - At(o, first)

LEMMA BytesAre ==
  ASSUME NEW s, NEW m, Mt(s, m), NEW o \in Nat, Nodes(m, o), NEW first \in Nat, NEW last \in Nat,
         1 <= first, first <= last, last <= Len(m.chain)
  PROVE  /\ Bytes(m, first, last) = Run(At(o, first), Ahead(m, o, first, last))
         /\ Ahead(m, o, first, last) \in Nat
<1> DEFINE k == last - first
           E(i) == SubSeq(m.chain[first + i - 1], 1, Len(m.chain[first + i - 1]) - Required)
           n == At(o, last) - At(o, first)
           c == Len(m.chain[last])
<1>1. k \in Nat /\ first + k = last
  OBVIOUS
<1>2. \A i \in 1 .. k : E(i) = Run(At(o, first + i - 1), Step)
  <2> SUFFICES ASSUME NEW i \in 1 .. k PROVE E(i) = Run(At(o, first + i - 1), Step)
    OBVIOUS
  <2> DEFINE j == first + i - 1
  <2>1. Len(m.chain) \in Nat
    BY MtFields
  <2>2. j \in Nat /\ 1 <= j /\ j < Len(m.chain) /\ j \in 1 .. Len(m.chain)
    BY <1>1, <2>1
  <2> HIDE DEF j
  <2>3. m.chain[j] = Run(At(o, j), Len(m.chain[j])) /\ Len(m.chain[j]) = NodeSize
    BY <2>2 DEF Nodes
  <2>4. NodeSize \in Nat /\ Step \in Nat /\ Step <= NodeSize /\ NodeSize - Required = Step
    BY StepPositive
  <2>5. At(o, j) \in Int
    BY <2>2, AtNat
  <2> DEFINE a == At(o, j)
  <2> HIDE DEF a
  <2>6. SubSeq(Run(a, NodeSize), 1, Step) = Run(a, Step)
    BY <2>4, <2>5, RunFirst DEF a
  <2>7. SubSeq(m.chain[j], 1, Len(m.chain[j]) - Required) = Run(a, Step)
    BY <2>3, <2>4, <2>6 DEF a
  <2>8. QED
    BY <2>7 DEF a, j
<1>3. [i \in 1 .. k |-> E(i)] = Slices(o, first, k)
  <2> HIDE DEF E, k
  <2>1. QED
    BY <1>2 DEF Slices
<1>4. FlattenSeq([i \in 1 .. k |-> E(i)]) = Run(At(o, first), n)
  <2>1. FlattenSeq(Slices(o, first, k)) = Run(At(o, first), At(o, first + k) - At(o, first))
    BY <1>1, SlicesFlatten
  <2>2. QED
    BY <1>1, <1>3, <2>1
<1>5. /\ m.chain[last] = Run(At(o, last), c) /\ c \in Nat
  <2>1. last \in 1 .. Len(m.chain)
    BY MtFields
  <2>2. QED
    BY <2>1, MtFields DEF Nodes
<1>6. At(o, first) \in Nat /\ At(o, last) \in Nat /\ n \in Nat /\ At(o, last) = At(o, first) + n
  <2>1. At(o, first + k) - At(o, first) \in Nat /\ At(o, first) \in Nat /\ At(o, first + k) \in Nat
    BY <1>1, AtLeast
  <2>2. QED
    BY <1>1, <2>1
<1>7. Ahead(m, o, first, last) = n + c
  BY <1>5, <1>6, SMTT(30) DEF Ahead
<1>8. Bytes(m, first, last) = FlattenSeq([i \in 1 .. k |-> E(i)]) \o m.chain[last]
  BY DEF Bytes
<1> DEFINE a == At(o, first)
           b == At(o, last)
<1> HIDE DEF k, E, n, c, a, b
<1>9. a \in Nat /\ b \in Nat /\ n \in Nat /\ c \in Nat /\ b = a + n
  BY <1>5, <1>6 DEF a, b
<1>10. Run(a, n) \o Run(b, c) = Run(a, n + c)
  <2>1. a \in Int /\ n \in Nat /\ b \in Int /\ c \in Nat /\ b = a + n
    BY <1>9
  <2>2. QED
    BY <2>1, RunJoin, ZenonT(40)
<1>11. Bytes(m, first, last) = Run(a, n + c)
  <2>1. FlattenSeq([i \in 1 .. k |-> E(i)]) = Run(a, n)
    BY <1>4 DEF a
  <2>2. m.chain[last] = Run(b, c)
    BY <1>5 DEF b
  <2>3. QED
    BY <1>8, <1>10, <2>1, <2>2
<1>12. Ahead(m, o, first, last) = n + c /\ n + c \in Nat
  BY <1>7, <1>9
<1>13. QED
  BY <1>11, <1>12 DEF a

LEMMA UpToIs ==
  ASSUME NEW T, NEW x \in Seq(T), NEW p \in Nat, UpTo(x, p)
  PROVE  Consecutive(x) /\ (x # <<>> => Last(x) = p)
<1> DEFINE n == Len(x)
           a == p - n
<1>1. n \in Nat /\ a \in Int /\ a + n = p
  OBVIOUS
<1>2. x = Run(a, n)
  BY DEF UpTo
<1>3. n = 0 => x = <<>>
  OBVIOUS
<1> HIDE DEF n, a
<1>4. Consecutive(Run(a, n)) /\ (n > 0 => Run(a, n) # <<>> /\ Last(Run(a, n)) = a + n)
  BY <1>1, RunConsecutive
<1>5. x # <<>> => n > 0
  BY <1>1, <1>3
<1>6. QED
  BY <1>1, <1>2, <1>4, <1>5

ChainIs(m, o) ==
  /\ Chain(m) = Run(o, Tip(m, o) - o) /\ Tip(m, o) - o \in Nat /\ Tip(m, o) \in Nat
  /\ \A i \in 1 .. Len(m.chain) : Consecutive(m.chain[i])
  /\ m.chain[1] = <<>> => Chain(m) = <<>>

LEMMA ChainRun ==
  ASSUME NEW s, NEW m, Mt(s, m), NEW o \in Nat, Nodes(m, o)
  PROVE  ChainIs(m, o)
<1> DEFINE l == Len(m.chain)
<1>1. l \in Nat /\ 1 <= l /\ l <= Len(m.chain) /\ 1 \in Nat /\ 1 <= 1
  BY MtFields
<1>2. At(o, 1) = o
  BY AtFirst
<1>3. /\ Bytes(m, 1, l) = Run(At(o, 1), Ahead(m, o, 1, l)) /\ Ahead(m, o, 1, l) \in Nat
  <2> HIDE DEF l
  <2>1. QED
    BY <1>1, BytesAre
<1>4. Ahead(m, o, 1, l) = Tip(m, o) - o
  BY <1>2 DEF Ahead, Tip
<1>5. Tip(m, o) \in Nat
  BY TipIs
<1>6. Chain(m) = Run(o, Tip(m, o) - o) /\ Tip(m, o) - o \in Nat
  <2>1. Chain(m) = Bytes(m, 1, l)
    BY DEF Chain
  <2>2. QED
    BY <1>2, <1>3, <1>4, <2>1
<1>7. \A i \in 1 .. l : Consecutive(m.chain[i])
  <2> SUFFICES ASSUME NEW i \in 1 .. l PROVE Consecutive(m.chain[i])
    OBVIOUS
  <2> DEFINE a == At(o, i)
             n == Len(m.chain[i])
  <2>1. m.chain[i] = Run(a, n)
    BY DEF Nodes
  <2>2. a \in Int /\ n \in Nat
    <3>1. i \in Nat /\ i >= 1 /\ i \in 1 .. Len(m.chain)
      BY <1>1
    <3>2. At(o, i) \in Nat
      BY <3>1, AtNat
    <3>3. Len(m.chain[i]) \in Nat
      BY <3>1, MtFields
    <3>4. QED
      BY <3>2, <3>3
  <2> HIDE DEF a, n
  <2>3. Consecutive(Run(a, n))
    BY <2>2, RunConsecutive
  <2>4. QED
    BY <2>1, <2>3
<1>8. m.chain[1] = <<>> => Chain(m) = <<>>
  <2>1. SUFFICES ASSUME m.chain[1] = <<>> PROVE Chain(m) = <<>>
    OBVIOUS
  <2>2. l = 1
    <3>1. 1 < l => Len(m.chain[1]) = NodeSize
      BY <1>1 DEF Nodes
    <3>2. Len(m.chain[1]) = 0
      BY <2>1
    <3>3. NodeSize > 0
      BY StepPositive, DStreamAssumption
    <3>4. NodeSize # 0
      BY <3>3, StepPositive
    <3>5. ~(1 < l)
      BY <3>1, <3>2, <3>4
    <3> HIDE DEF l
    <3>6. QED
      BY <1>1, <3>5
  <2>3. Tip(m, o) = o
    BY <1>2, <2>1, <2>2 DEF Tip
  <2>4. QED
    BY <1>6, <2>3, RunEmpty
<1>9. QED
  BY <1>5, <1>6, <1>7, <1>8 DEF ChainIs

LEMMA InputIsAccounted == IInv /\ ReadsInChain => InputAccounted
<1> SUFFICES ASSUME IInv, status = "going", fds.stage # "finished", pc # "overrun"
             PROVE  /\ \A i \in 1 .. Len(decmt.chain) : Consecutive(decmt.chain[i])
                    /\ Consecutive(Chain(decmt)) /\ Consecutive(fds.overlap)
                    /\ Consecutive(fds.hash)
                    /\ Kept # <<>> => Last(Kept) = input.pos
  BY DEF InputAccounted
<1>1. PICK o \in 0 .. Len(stream) : Core(stream, decmt, fds, input, pc, parsed, o)
  BY DEF IInv, Somewhere
<1>2. /\ stream \in Streams /\ Mt(stream, decmt) /\ Own(stream, fds) /\ Buffer(stream, input)
  BY TypedHere
<1>3. o \in Nat
  BY <1>2, StreamIs
<1>4. Accounted(decmt, fds, input, o)
  BY <1>1 DEF Core
<1>5. ChainIs(decmt, o)
  BY <1>2, <1>3, <1>4, ChainRun DEF Accounted
<1>6. /\ UpTo(fds.overlap, input.pos) /\ UpTo(fds.hash, input.pos)
  BY <1>4 DEF Accounted
<1>7. input.pos \in Nat /\ fds.overlap \in Seq(1 .. Len(stream)) /\ fds.hash \in Seq(1 .. Len(stream))
      /\ fds.stage \in {"decomp", "mtWrite", "hash", "finished"}
  BY <1>2, BufferFields, OwnFields DEF BufferIs, OwnIs
<1>8. /\ Consecutive(fds.overlap) /\ (fds.overlap # <<>> => Last(fds.overlap) = input.pos)
      /\ Consecutive(fds.hash) /\ (fds.hash # <<>> => Last(fds.hash) = input.pos)
  BY <1>6, <1>7, UpToIs
<1> DEFINE tip == Tip(decmt, o)
           n == tip - o
<1>9. /\ n \in Nat /\ o \in Int /\ o + n = tip /\ Chain(decmt) = Run(o, n)
  BY <1>3, <1>5 DEF ChainIs
<1>10. fds.stage \in {"decomp", "mtWrite"} /\ Chain(decmt) # <<>> => tip = input.pos
  BY <1>4, <1>5 DEF Accounted, ChainIs
<1> HIDE DEF n, tip
<1>11. Consecutive(Run(o, n)) /\ (n > 0 => Run(o, n) # <<>> /\ Last(Run(o, n)) = o + n)
  BY <1>9, RunConsecutive
<1>12. Chain(decmt) # <<>> => n > 0
  BY <1>9, RunEmpty
<1>13. Chain(decmt) # <<>> => Last(Chain(decmt)) = tip
  BY <1>9, <1>11, <1>12
<1>14. Kept # <<>> => Last(Kept) = input.pos
  <2>1. CASE fds.stage = "hash"
    BY <1>8, <2>1 DEF Kept
  <2>2. CASE fds.stage # "hash" /\ Chain(decmt) # <<>>
    <3>1. fds.stage \in {"decomp", "mtWrite"}
      BY <1>7, <2>2
    <3>2. Kept = Chain(decmt)
      BY <2>2 DEF Kept
    <3>3. QED
      BY <1>10, <1>13, <2>2, <3>1, <3>2
  <2>3. CASE fds.stage # "hash" /\ Chain(decmt) = <<>>
    <3>1. Kept = fds.overlap
      BY <2>3 DEF Kept
    <3>2. QED
      BY <1>8, <3>1
  <2>4. QED
    BY <2>1, <2>2, <2>3
<1>15. QED
  BY <1>5, <1>8, <1>9, <1>11, <1>14 DEF ChainIs

-----------------------------------------------------------------------------
(* What a thread is given.                                                 *)
GivenBlock(s, m, o, t) ==
  SubSeq(Bytes(m, m.threads[t].first, m.threads[t].last), m.threads[t].startPos + 1,
         Len(Bytes(m, m.threads[t].first, m.threads[t].last))
           - (Len(m.chain[m.threads[t].last]) - m.threads[t].endPos))

Spanned(m, o, t) ==
  /\ Begin(m, o, t) \in Nat /\ End(m, o, t) \in Nat
  /\ End(m, o, t) - Begin(m, o, t) \in Nat /\ End(m, o, t) - Begin(m, o, t) > 0

LEMMA BlockIsRun ==
  ASSUME NEW s, NEW m, Mt(s, m), NEW o \in Nat, Nodes(m, o), NEW t \in Thread, Complete(s, m, o, t)
  PROVE  /\ GivenBlock(s, m, o, t) = Run(Begin(m, o, t), End(m, o, t) - Begin(m, o, t))
         /\ Spanned(m, o, t)
<1> DEFINE first == m.threads[t].first
           last == m.threads[t].last
           sp == m.threads[t].startPos
           ep == m.threads[t].endPos
           a == At(o, first)
           z == At(o, last)
           c == Len(m.chain[last])
           n == Ahead(m, o, first, last)
           k == End(m, o, t) - Begin(m, o, t)
<1>1. /\ Begin(m, o, t) \in Nat /\ End(m, o, t) \in Nat
      /\ first \in Nat /\ last \in Nat /\ 1 <= first /\ first <= last /\ last <= Len(m.chain)
      /\ sp \in Nat /\ ep \in Nat /\ a \in Nat /\ z \in Nat
  BY BlockPlace DEF Complete
<1>2. c \in Nat
  <2>1. last \in 1 .. Len(m.chain)
    BY <1>1, MtFields
  <2>2. QED
    BY <2>1, MtFields
<1>3. ep <= c /\ Begin(m, o, t) < End(m, o, t)
  BY DEF Complete
<1>4. Begin(m, o, t) = a + sp /\ End(m, o, t) = z + ep
  BY DEF Begin, End
<1>5. Bytes(m, first, last) = Run(a, n) /\ n \in Nat
  <2> HIDE DEF first, last
  <2>1. QED
    BY <1>1, BytesAre
<1>6. n = (z + c) - a
  BY DEF Ahead
<1>7. GivenBlock(s, m, o, t) = SubSeq(Run(a, n), sp + 1, Len(Run(a, n)) - (c - ep))
  BY <1>5 DEF GivenBlock
<1> HIDE DEF a, z, c, n, sp, ep
<1>8. k \in Nat /\ k > 0 /\ sp + k <= n /\ n - (c - ep) = sp + k
  BY <1>1, <1>2, <1>3, <1>4, <1>5, <1>6
<1>9. Len(Run(a, n)) = n
  BY <1>1, <1>5, RunIs
<1>10. SubSeq(Run(a, n), sp + 1, sp + k) = Run(a + sp, k)
  <2> HIDE DEF k, first, last
  <2>1. a \in Int /\ n \in Nat /\ sp \in Nat /\ k \in Nat /\ sp + k <= n
    BY <1>1, <1>5, <1>8
  <2>2. \A x \in Int : \A v \in Nat : \A i \in Nat : \A j \in Nat :
          i + j <= v => SubSeq(Run(x, v), i + 1, i + j) = Run(x + i, j)
    BY RunCut
  <2>3. QED
    BY <2>1, <2>2
<1>11. GivenBlock(s, m, o, t) = Run(Begin(m, o, t), k)
  BY <1>4, <1>7, <1>8, <1>9, <1>10
<1>12. Spanned(m, o, t)
  BY <1>1, <1>8 DEF Spanned
<1>13. QED
  BY <1>11, <1>12

LEMMA EndInStream ==
  ASSUME NEW s, Len(s) \in Nat, NEW m, Mt(s, m), NEW o \in Nat, Nodes(m, o), Tip(m, o) <= Len(s),
         NEW t \in Thread, Complete(s, m, o, t)
  PROVE  End(m, o, t) <= Len(s)
<1> DEFINE last == m.threads[t].last
           ep == m.threads[t].endPos
           z == At(o, last)
           c == Len(m.chain[last])
<1>1. last \in Nat /\ 1 <= last /\ last <= Len(m.chain) /\ ep \in Nat /\ z \in Nat
  BY BlockPlace, SMTT(30) DEF Complete
<1>2. last \in 1 .. Len(m.chain) /\ c \in Nat /\ m.chain[last] \in Seq(1 .. Len(s))
  <2>1. last \in 1 .. Len(m.chain)
    BY <1>1, MtFields
  <2>2. QED
    BY <2>1, MtFields
<1>3. ep <= c /\ End(m, o, t) = z + ep
  BY DEF Complete, End
<1>4. z + c <= Len(s)
  <2>1. CASE last = Len(m.chain)
    BY <2>1 DEF Tip
  <2>2. CASE last # Len(m.chain)
    <3>1. m.chain[last] = Run(z, c) /\ c = NodeSize
      <4>1. Len(m.chain) \in Nat
        BY MtFields
      <4>2. last < Len(m.chain)
        BY <1>1, <2>2, <4>1
      <4>3. QED
        BY <1>2, <4>2 DEF Nodes
    <3>2. c > 0
      BY <3>1, StepPositive, DStreamAssumption
    <3> DEFINE x == m.chain[last]
    <3>3. x = Run(z, c) /\ x \in Seq(1 .. Len(s)) /\ Len(x) = c
      BY <1>2, <3>1
    <3> HIDE DEF x, z, c
    <3>4. c \in 1 .. c
      BY <1>2, <3>2
    <3>5. x[c] \in 1 .. Len(s)
      BY <3>3, <3>4, ElementOfSeq
    <3>6. Run(z, c)[c] = z + c
      BY <1>1, <1>2, <3>4, RunIs
    <3>7. QED
      BY <3>3, <3>5, <3>6
  <2>3. QED
    BY <2>1, <2>2
<1> HIDE DEF z, c, ep
<1>5. QED
  BY <1>1, <1>2, <1>3, <1>4

(* The resets in bytes a + 1 .. a + k of a stream.                         *)
Resets(s, b) == {i \in 1 .. Len(b) : s[b[i]].kind = "control" /\ s[b[i]].reset}

AreBytes(b, a, k) == Len(b) = k /\ (\A i \in 1 .. k : b[i] = a + i) /\ Last(b) = a + k
StartsWell(s, b)  ==
  Resets(s, b) = {1} \/ (Resets(s, b) = {} /\ (b[1] = 1 \/ Len(b) = 1))

LEMMA RunIsBytes ==
  ASSUME NEW a \in Nat, NEW k \in Nat, k > 0
  PROVE  AreBytes(Run(a, k), a, k)
<1>1. a \in Int
  OBVIOUS
<1>2. Len(Run(a, k)) = k /\ \A i \in 1 .. k : Run(a, k)[i] = a + i
  BY <1>1, RunIs
<1>3. Last(Run(a, k)) = a + k
  BY <1>1, RunConsecutive
<1>4. QED
  BY <1>2, <1>3 DEF AreBytes

LEMMA ResetsOfRun ==
  ASSUME NEW s, Len(s) \in Nat, NEW a \in Nat, NEW k \in Nat, k > 0, a + k <= Len(s),
         Independent(s, a, a + k), NEW b, AreBytes(b, a, k)
  PROVE  StartsWell(s, b) /\ b[1] = a + 1 /\ Last(b) = a + k
<1>1. Len(b) = k /\ \A i \in 1 .. k : b[i] = a + i
  BY DEF AreBytes
<1>2. 1 \in 1 .. k /\ b[1] = a + 1
  BY <1>1
<1>3. Last(b) = a + k
  BY DEF AreBytes
<1>4. \A i \in 1 .. k : i \in Resets(s, b) <=> IsReset(s, a + i)
  <2> SUFFICES ASSUME NEW i \in 1 .. k PROVE i \in Resets(s, b) <=> IsReset(s, a + i)
    OBVIOUS
  <2>1. b[i] = a + i /\ a + i \in 1 .. Len(s)
    BY <1>1
  <2>2. QED
    BY <1>1, <2>1 DEF Resets, IsReset, KindAt
<1>5. \A i \in 1 .. k : i # 1 => i \notin Resets(s, b)
  <2> SUFFICES ASSUME NEW i \in 1 .. k, i # 1 PROVE i \notin Resets(s, b)
    OBVIOUS
  <2>1. a + i \in a + 2 .. a + k
    OBVIOUS
  <2>2. ~IsReset(s, a + i)
    BY <2>1 DEF Independent
  <2>3. QED
    BY <1>4, <2>2
<1>6. Resets(s, b) \subseteq 1 .. k
  BY <1>1 DEF Resets
<1>7. CASE IsReset(s, a + 1)
  <2>1. 1 \in Resets(s, b)
    BY <1>2, <1>4, <1>7
  <2>2. Resets(s, b) = {1}
    BY <1>5, <1>6, <2>1
  <2>3. QED
    BY <1>2, <1>3, <2>2 DEF StartsWell
<1>8. CASE ~IsReset(s, a + 1)
  <2>1. Resets(s, b) = {}
    BY <1>2, <1>4, <1>5, <1>6, <1>8
  <2>2. a = 0 \/ ~(a + k > a + 1)
    BY <1>8 DEF Independent
  <2>3. b[1] = 1 \/ Len(b) = 1
    BY <1>1, <1>2, <2>2
  <2>4. QED
    BY <1>2, <1>3, <2>1, <2>3 DEF StartsWell
<1>9. QED
  BY <1>7, <1>8

GoodBlock(t) ==
  LET b == BlockInput(t)
  IN  /\ StartsWell(stream, b)
      /\ t > 0 => b[1] = Last(BlockInput(t - 1)) + 1

LEMMA BlockInputIs ==
  ASSUME NEW o, NEW t
  PROVE  BlockInput(t) = GivenBlock(stream, decmt, o, t)
BY DEF BlockInput, GivenBlock

InputOf(o, t) ==
  LET b == BlockInput(t)
  IN  /\ StartsWell(stream, b)
      /\ b[1] = Begin(decmt, o, t) + 1 /\ Last(b) = End(decmt, o, t)

LEMMA InputOfBlock ==
  ASSUME IInv, NEW o \in 0 .. Len(stream), Core(stream, decmt, fds, input, "blocks", parsed, o),
         fds.stage = "decomp", ~decmt.failState, NEW t \in Thread, Complete(stream, decmt, o, t)
  PROVE  InputOf(o, t)
<1>1. /\ stream \in Streams /\ Mt(stream, decmt) /\ Buffer(stream, input)
      /\ Len(stream) \in Nat /\ o \in Nat
  BY TypedHere, StreamIs
<1>2. Nodes(decmt, o) /\ Tip(decmt, o) = input.pos
  BY DEF Core, Accounted
<1>3. Tip(decmt, o) <= Len(stream)
  <2>1. input.pos \in Nat /\ input.size \in Nat /\ input.pos <= input.size /\ input.size <= Len(stream)
    BY <1>1, BufferFields DEF BufferIs
  <2>2. QED
    BY <1>1, <1>2, <2>1
<1> DEFINE a == Begin(decmt, o, t)
           e == End(decmt, o, t)
           k == e - a
           b == BlockInput(t)
<1>4. GivenBlock(stream, decmt, o, t) = Run(a, k) /\ Spanned(decmt, o, t)
  BY <1>1, <1>2, BlockIsRun
<1>5. b = Run(a, k)
  BY <1>4, BlockInputIs
<1>6. a \in Nat /\ e \in Nat /\ k \in Nat /\ k > 0 /\ a + k = e
  BY <1>4 DEF Spanned
<1>7. e <= Len(stream)
  BY <1>1, <1>2, <1>3, EndInStream
<1>8. Independent(stream, a, e)
  BY DEF Complete, Block
<1> HIDE DEF a, e, k, b
<1>9. StartsWell(stream, b) /\ b[1] = a + 1 /\ Last(b) = a + k
  <2>1. AreBytes(b, a, k)
    BY <1>5, <1>6, RunIsBytes
  <2>2. Independent(stream, a, a + k) /\ a + k <= Len(stream)
    BY <1>6, <1>7, <1>8
  <2>3. QED
    BY <1>1, <1>6, <2>1, <2>2, ResetsOfRun
<1>10. QED
  BY <1>6, <1>9 DEF InputOf, a, e, b

LEMMA BlocksOfIInv == IInv => BlocksAreIndependent
<1> SUFFICES ASSUME IInv, pc = "blocks", NEW t \in 0 .. decmt.numThreads - 1 PROVE GoodBlock(t)
  BY DEF BlocksAreIndependent, GoodBlock, StartsWell, Resets
<1>1. PICK o \in 0 .. Len(stream) :
        /\ Core(stream, decmt, fds, input, "blocks", parsed, o)
        /\ ParseContext(stream, decmt, fds, input, o)
        /\ Blocks(stream, decmt, o, input.pos)
  BY InBlocks
<1>2. Mt(stream, decmt) /\ ~decmt.failState /\ fds.stage = "decomp"
  BY <1>1 DEF ParseContext
<1>3. decmt.numThreads \in 0 .. Threads /\ Thread = 0 .. Threads - 1 /\ Threads \in Nat
  BY <1>2, MtFields, ThreadIs
<1>4. t \in Thread /\ Complete(stream, decmt, o, t)
  BY <1>1, <1>3 DEF Blocks
<1>5. InputOf(o, t)
  BY <1>1, <1>2, <1>4, InputOfBlock
<1>6. ASSUME t > 0 PROVE BlockInput(t)[1] = Last(BlockInput(t - 1)) + 1
  <2>1. t - 1 \in 0 .. decmt.numThreads - 1 /\ t - 1 \in Thread
    BY <1>3, <1>6
  <2>2. Complete(stream, decmt, o, t - 1)
    BY <1>1, <2>1 DEF Blocks
  <2>3. InputOf(o, t - 1)
    BY <1>1, <1>2, <2>1, <2>2, InputOfBlock
  <2>4. Begin(decmt, o, t) = End(decmt, o, t - 1)
    BY <1>4, <1>6 DEF Complete
  <2>5. QED
    BY <1>5, <2>3, <2>4 DEF InputOf
<1>7. QED
  BY <1>5, <1>6 DEF GoodBlock, InputOf

(* What a thread is given begins with a dictionary reset and has no other, *)
(* and the next thread's block begins where it ends.                       *)
THEOREM BlocksIndependent == Spec => []BlocksAreIndependent
<1>1. IInv => BlocksAreIndependent
  BY BlocksOfIInv
<1>2. QED
  BY <1>1, Inductive, PTL

-----------------------------------------------------------------------------
(* Where the decoder stops: not inside a header, and not after a byte that *)
(* is wrong.                                                               *)
Feeds(s, ds, bytes) ==
  /\ ds \in Seq(DecState) /\ Len(ds) = Len(bytes) + 1
  /\ \A i \in 1 .. Len(bytes) : ds[i + 1] = Fed(ds[i], s[bytes[i]])

(* A decoder that ended, or failed, stays so.                              *)
LEMMA StaysSo ==
  ASSUME NEW s, NEW ds, NEW bytes, Len(bytes) \in Nat, Feeds(s, ds, bytes),
         NEW k \in 1 .. Len(bytes) + 1, ds[k].state # "ok", NEW i \in k .. Len(bytes) + 1
  PROVE  ds[i] = ds[k]
<1> DEFINE Good == {d \in Nat : k + d <= Len(bytes) + 1 => ds[k + d] = ds[k]}
<1>1. 0 \in Good
  OBVIOUS
<1>2. ASSUME NEW d \in Nat, d \in Good PROVE d + 1 \in Good
  <2> SUFFICES ASSUME k + (d + 1) <= Len(bytes) + 1 PROVE ds[k + (d + 1)] = ds[k]
    OBVIOUS
  <2>1. ds[k + d] = ds[k] /\ k + d \in 1 .. Len(bytes) /\ (k + d) + 1 = k + (d + 1)
    BY <1>2
  <2>2. ds[k + (d + 1)] = Fed(ds[k], s[bytes[k + d]])
    BY <2>1 DEF Feeds
  <2>3. QED
    BY <2>2 DEF Fed
<1>3. Nat \subseteq Good
  <2> HIDE DEF Good
  <2>1. QED
    BY <1>1, <1>2, Induction
<1>4. i - k \in Good /\ k + (i - k) = i /\ i <= Len(bytes) + 1
  BY <1>3
<1>5. QED
  BY <1>4

(* After a chunk's first byte its header is taken whole.                   *)
LEMMA HeaderLacks ==
  ASSUME NEW s, NEW ds, NEW bytes, Len(bytes) \in Nat, Feeds(s, ds, bytes),
         NEW k \in 1 .. Len(bytes), ds[k].state = "ok", s[bytes[k]].kind = "control",
         NEW i \in k .. Len(bytes), i - k < HeaderSize - 1
  PROVE  ds[i + 1].state = "bad" \/ ds[i + 1].header > 0
<1> DEFINE Here1(e, d) == e.state = "bad" \/ (e.state = "ok" /\ e.header = HeaderSize - 1 - d)
           Good == {d \in Nat : k + d <= Len(bytes) /\ d < HeaderSize - 1 => Here1(ds[(k + d) + 1], d)}
<1>1. HeaderSize \in Nat
  BY StepPositive
<1>2. \A j \in 1 .. Len(bytes) : ds[j] \in DecState /\ ds[j + 1] = Fed(ds[j], s[bytes[j]])
  BY DEF Feeds
<1>3. 0 \in Good
  <2>1. k \in 1 .. Len(bytes) /\ k + 0 = k
    OBVIOUS
  <2>2. ds[k + 1] = Fed(ds[k], s[bytes[k]]) /\ ds[k] \in DecState
    BY <1>2
  <2>3. Here1(Fed(ds[k], s[bytes[k]]), 0)
    BY <1>1, <2>2 DEF Fed, DecState
  <2>4. QED
    BY <2>1, <2>2, <2>3
<1>4. ASSUME NEW d \in Nat, d \in Good PROVE d + 1 \in Good
  <2> SUFFICES ASSUME k + (d + 1) <= Len(bytes), d + 1 < HeaderSize - 1
               PROVE  Here1(ds[(k + (d + 1)) + 1], d + 1)
    OBVIOUS
  <2>1. k + (d + 1) \in 1 .. Len(bytes) /\ k + (d + 1) = (k + d) + 1 /\ d < HeaderSize - 1
        /\ k + d <= Len(bytes)
    BY <1>1
  <2> DEFINE e == ds[(k + d) + 1]
             b == s[bytes[(k + d) + 1]]
  <2>2. Here1(e, d) /\ e \in DecState /\ ds[(k + (d + 1)) + 1] = Fed(e, b)
    BY <1>2, <1>4, <2>1
  <2> HIDE DEF e, b
  <2>3. Here1(Fed(e, b), d + 1)
    BY <1>1, <2>1, <2>2, SMTT(40) DEF Fed, DecState
  <2>4. QED
    BY <2>2, <2>3
<1>5. Nat \subseteq Good
  <2> HIDE DEF Good
  <2>1. QED
    BY <1>3, <1>4, Induction
<1> DEFINE g == i - k
<1>6. g \in Nat /\ k + g = i /\ k + g <= Len(bytes) /\ g < HeaderSize - 1
  OBVIOUS
<1> HIDE DEF g
<1>7. Here1(ds[(k + g) + 1], g)
  BY <1>5, <1>6
<1>8. (k + g) + 1 = i + 1 /\ HeaderSize - 1 - g > 0
  BY <1>1, <1>6
<1> DEFINE e == ds[i + 1]
<1>9. e.state = "bad" \/ (e.state = "ok" /\ e.header = HeaderSize - 1 - g)
  BY <1>7, <1>8
<1> HIDE DEF e, Good
<1>10. e.state = "bad" \/ e.header > 0
  BY <1>8, <1>9
<1>11. QED
  BY <1>10 DEF e

(* A decoder that is at p, or reaches c, where a chunk begins whose header *)
(* is not all there, or the end mark: it stops there or before, or at the  *)
(* end mark, with all decoded.                                             *)
LEMMA StopsHere ==
  ASSUME NEW s \in Seq(Byte), NEW d \in DecState, d.state = "ok", NEW p \in Nat, NEW n \in Nat,
         p + n <= Len(s), NEW space \in Nat, NEW z \in Decode(s, d, Run(p, n), space),
         z.res # "corrupt", NEW c \in Nat, p <= c,
         \/ KindAt(s, c + 1, "control") /\ p + n < c + HeaderSize
         \/ KindAt(s, c + 1, "end")
  PROVE  \/ p + z.used <= c
         \/ p + z.used = c + 1 /\ z.res = "finished" /\ KindAt(s, c + 1, "end")
<1> DEFINE bytes == Run(p, n)
           ds == Along(s, d, bytes)
           k == c + 1 - p
<1>1. bytes \in Seq(1 .. Len(s)) /\ Len(bytes) = n /\ \A i \in 1 .. n : bytes[i] = p + i
  <2>1. Len(s) \in Nat
    OBVIOUS
  <2>2. QED
    BY <2>1, RunIs, RunWithin
<1> HIDE DEF bytes
<1>2. /\ ds \in Seq(DecState) /\ Len(ds) = n + 1 /\ ds[1] = d
      /\ \A i \in 1 .. n : ds[i + 1] = Fed(ds[i], s[bytes[i]])
  BY <1>1, AlongSteps, SMTT(40)
<1>3. Feeds(s, ds, bytes)
  BY <1>1, <1>2 DEF Feeds
<1>4. DecodedTo(s, d, bytes, space, z)
  <2>1. z \in Decode(s, d, bytes, space) /\ space \in Int
    BY DEF bytes
  <2>2. QED
    BY <1>1, <2>1, DecodeGives
<1>5. /\ z.used \in 0 .. n /\ z.dec = ds[z.used + 1] /\ z.dec.header = 0
      /\ z.dec.state \in {"ok", "finished"}
      /\ z.res = (IF z.dec.state = "finished" THEN "finished" ELSE "ok")
      /\ z.dec.state = "finished" => z.used = 0 \/ ds[z.used].state = "ok"
  BY <1>1, <1>4 DEF DecodedTo
<1> HIDE DEF ds
<1>6. SUFFICES ASSUME z.used >= k
      PROVE  p + z.used = c + 1 /\ z.res = "finished" /\ KindAt(s, c + 1, "end")
  BY <1>5
<1>7. k \in 1 .. n /\ k \in 1 .. n + 1 /\ p + k = c + 1 /\ bytes[k] = c + 1
  BY <1>1, <1>5, <1>6
<1> HIDE DEF k
<1>8. ds[k + 1] = Fed(ds[k], s[c + 1]) /\ ds[k] \in DecState
  BY <1>2, <1>7
<1>9. ASSUME NEW j \in 1 .. z.used, ds[j].state # "ok"
      PROVE  FALSE
  <2>1. z.used \in j .. Len(bytes) + 1 /\ z.used + 1 \in j .. Len(bytes) + 1 /\ j \in 1 .. Len(bytes) + 1
    BY <1>1, <1>5, SMTT(40)
  <2>2. Len(bytes) \in Nat /\ z.used # 0
    BY <1>1, <1>5
  <2>3. ds[z.used] = ds[j] /\ ds[z.used + 1] = ds[j]
    BY <1>3, <1>9, <2>1, <2>2, StaysSo
  <2>4. QED
    BY <1>5, <1>9, <2>2, <2>3
<1>10. ds[k].state = "ok"
  BY <1>5, <1>6, <1>7, <1>9
<1>11. CASE KindAt(s, c + 1, "control") /\ p + n < c + HeaderSize
  <2>1. z.used \in k .. Len(bytes) /\ z.used - k < HeaderSize - 1 /\ k \in 1 .. Len(bytes)
    BY <1>1, <1>5, <1>6, <1>7, <1>11, StepPositive
  <2>2. ds[z.used + 1].state = "bad" \/ ds[z.used + 1].header > 0
    BY <1>1, <1>3, <1>7, <1>10, <1>11, <2>1, HeaderLacks DEF KindAt
  <2>3. QED
    BY <1>5, <2>2
<1>12. CASE KindAt(s, c + 1, "end")
  <2>1. ds[k + 1].state \in {"bad", "finished"}
    BY <1>8, <1>10, <1>12 DEF KindAt, Fed, DecState
  <2>2. z.used = k
    <3>1. SUFFICES ASSUME z.used > k PROVE FALSE
      BY <1>5, <1>6, <1>7
    <3>2. k + 1 \in 1 .. z.used
      BY <1>5, <1>7, <3>1
    <3>3. QED
      BY <1>9, <2>1, <3>2
  <2>3. z.res = "finished"
    BY <1>5, <2>1, <2>2
  <2>4. QED
    BY <1>7, <1>12, <2>2, <2>3
<1>13. QED
  BY <1>11, <1>12

-----------------------------------------------------------------------------
(* The second invariant: one thread goes on within the chain.  c is a      *)
(* place that the decoder does not pass before the last node, which then    *)
(* holds it: the last node was not cut there, or no header is whole up to   *)
(* where it can be cut, or there is the end mark.                          *)
Bound(s, m, o, c) ==
  LET l == Len(m.chain) IN
  /\ At(o, l) <= c /\ c <= Tip(m, o)
  /\ \/ At(o, l) + Required <= c
     \/ KindAt(s, c + 1, "control") /\ At(o, l) + Required < c + HeaderSize
     \/ KindAt(s, c + 1, "end") /\ c < Tip(m, o)

InChain(s, m, o, i, a, stage) ==
  /\ a <= Len(m.chain[i]) /\ At(o, i) + a <= Tip(m, o)
  /\ stage = "decomp" /\ i < Len(m.chain) => \E c \in Nat : Bound(s, m, o, c) /\ At(o, i) + a <= c

Inside(s, m, i, a, stage) ==
  m.chain[1] # <<>> => \A o \in Nat : Nodes(m, o) => InChain(s, m, o, i, a, stage)

(* What a block that is parsed has in the last node: a whole header after  *)
(* what the node before has too, or its beginning.                         *)
Far(m) ==
  LET th == m.threads[m.numThreads]
      l  == Len(m.chain)
  IN  l > 1 =>
        \/ th.endPos + HeaderSize > Required
        \/ th.first = l
        \/ th.first + 1 = l /\ th.startPos >= Step

ToRead(m, r) ==
  LET th == m.threads[m.numThreads]
  IN  r # "moreData" =>
        th.endPos >= Len(LastNode(m)) \/ (th.first = Len(m.chain) /\ th.startPos = th.endPos)

WithinAt(s, m, f, p, r, st) ==
  /\ p # "overrun" /\ m.threads[0].startPos <= NodeSize
  /\ st = "going" /\ p # "error" =>
       IF m.failState THEN Inside(s, m, m.cur, m.curPos, f.stage)
       ELSE f.stage = "decomp" =>
              /\ p = "failed" => Inside(s, m, m.threads[0].first, m.threads[0].startPos, "decomp")
              /\ p \notin {"blocks", "failed"} => Far(m)
              /\ p = "read" => ToRead(m, r)

Within == LongBlocks(stream) => WithinAt(stream, decmt, fds, pc, parsed, status)

(* A chain that is not empty is at one place.                              *)
LEMMA OneOrigin ==
  ASSUME NEW s, NEW m, Mt(s, m), m.chain[1] # <<>>, NEW o \in Nat, Nodes(m, o), NEW q \in Nat, Nodes(m, q)
  PROVE  q = o
<1>1. Len(m.chain) \in Nat /\ Len(m.chain) > 0
  BY MtFields
<1> DEFINE node == m.chain[1]
<1>2. 1 \in 1 .. Len(m.chain)
  BY <1>1
<1>3. node \in Seq(1 .. Len(s)) /\ Len(node) \in Nat
  BY <1>2, MtFields
<1>4. node = Run(At(o, 1), Len(node)) /\ node = Run(At(q, 1), Len(node))
  BY <1>2 DEF Nodes
<1>5. At(o, 1) = o /\ At(q, 1) = q
  BY AtFirst
<1> HIDE DEF node
<1>6. node # <<>>
  BY DEF node
<1>7. Len(node) > 0
  BY <1>3, <1>6
<1>8. Run(o, Len(node))[1] = o + 1 /\ Run(q, Len(node))[1] = q + 1
  BY <1>3, <1>7, RunIs
<1>9. QED
  BY <1>4, <1>5, <1>8

LEMMA InsideOf ==
  ASSUME NEW s, NEW m, Mt(s, m), NEW o \in Nat, Nodes(m, o), NEW i, NEW a, NEW stage,
         m.chain[1] # <<>> => InChain(s, m, o, i, a, stage)
  PROVE  Inside(s, m, i, a, stage)
<1> SUFFICES ASSUME m.chain[1] # <<>>, NEW q \in Nat, Nodes(m, q) PROVE InChain(s, m, q, i, a, stage)
  BY DEF Inside
<1>1. q = o
  BY OneOrigin
<1>2. QED
  BY <1>1

-----------------------------------------------------------------------------
(* Steps that leave it as it is.                                           *)
LEMMA WithinSame ==
  ASSUME NEW s, NEW m, NEW f, NEW p, NEW r, NEW st, WithinAt(s, m, f, p, r, st), st = "going",
         p \notin {"blocks", "failed", "error"},
         NEW g, g.stage = f.stage, NEW q, NEW r2,
         q \notin {"overrun", "blocks"}, q = "failed" => m.failState, q = "read" => ToRead(m, r2), NEW st2
  PROVE  WithinAt(s, m, g, q, r2, st2)
  BY DEF WithinAt

(* Steps after which there is nothing to say.                              *)
Idle(m, f, p, st) ==
  \/ st # "going" \/ p = "error"
  \/ m.failState /\ m.chain[1] = <<>>
  \/ ~m.failState /\ (f.stage # "decomp" \/ p = "blocks")
  \/ ~m.failState /\ Len(m.chain) = 1 /\ p \notin {"read", "failed"}

LEMMA WithinIdle ==
  ASSUME NEW s, NEW m, NEW f, NEW p, NEW r, NEW st, Idle(m, f, p, st), p # "overrun",
         m.threads[0].startPos <= NodeSize
  PROVE  WithinAt(s, m, f, p, r, st)
<1>1. CASE ~m.failState /\ Len(m.chain) = 1 /\ p \notin {"read", "failed"}
  <2>1. Far(m)
    BY <1>1 DEF Far
  <2>2. QED
    BY <1>1, <2>1 DEF WithinAt
<1>2. CASE m.failState /\ m.chain[1] = <<>>
  BY <1>2 DEF WithinAt, Inside
<1>3. CASE ~m.failState /\ (f.stage # "decomp" \/ p = "blocks")
  BY <1>3 DEF WithinAt
<1>4. CASE st # "going" \/ p = "error"
  BY <1>4 DEF WithinAt
<1>5. QED
  BY <1>1, <1>2, <1>3, <1>4 DEF Idle

-----------------------------------------------------------------------------
(* Parsing.                                                                *)
LEMMA WithinNextChunk ==
  ASSUME NEW s, NEW m, NEW f, NEW r, NEW st, WithinAt(s, m, f, "parse", r, st), st = "going",
         NEW in, NEW o, ParseContext(s, m, f, in, o), Core(s, m, f, in, "parse", r, o),
         NEW m2, Mt(s, m2), NEW n, n = m.numThreads, GrowsBlock(m, m2, n), NEW k \in Nat,
         m2.threads[n].endPos = m.threads[n].endPos + HeaderSize + k,
         NEW q, q \in {"parse", "read"}, q = "read" => m2.threads[n].endPos >= Len(LastNode(m)),
         m2.threads[0].startPos = m.threads[0].startPos, NEW r2, NEW st2
  PROVE  WithinAt(s, m2, f, q, r2, st2)
<1>1. Far(m) /\ m.threads[0].startPos <= NodeSize /\ ~m.failState /\ f.stage = "decomp"
  BY DEF WithinAt, ParseContext
<1>2. /\ m2.chain = m.chain /\ m2.numThreads = n /\ m2.failState = m.failState
      /\ m2.threads[n].first = m.threads[n].first /\ m2.threads[n].last = m.threads[n].last
      /\ m2.threads[n].startPos = m.threads[n].startPos
  BY DEF GrowsBlock
<1>3. m.threads[n].endPos \in Nat /\ HeaderSize \in Nat /\ Required \in Nat
  <2>1. "parse" \notin {"blocks", "failed", "error"}
    OBVIOUS
  <2>2. QED
    BY <2>1, ParseContextIs, StepPositive
<1>4. Far(m2)
  <2> DEFINE e  == m.threads[n].endPos
             e2 == m2.threads[n].endPos
             l  == Len(m.chain)
             fst == m.threads[n].first
             sp  == m.threads[n].startPos
  <2>1. e2 = (e + HeaderSize) + k /\ e \in Nat
    BY <1>3
  <2>2. l > 1 => e + HeaderSize > Required \/ fst = l \/ (fst + 1 = l /\ sp >= Step)
    BY <1>1 DEF Far
  <2> HIDE DEF e, e2, l, fst, sp
  <2>3. l > 1 => e2 + HeaderSize > Required \/ fst = l \/ (fst + 1 = l /\ sp >= Step)
    BY <1>3, <2>1, <2>2
  <2>4. Far(m2)
    BY <1>2, <2>3, Zenon DEF Far, e2, l, fst, sp
  <2>5. QED
    BY <2>4
<1>5. LastNode(m2) = LastNode(m)
  BY <1>2 DEF LastNode, InBlock
<1>6. ASSUME q = "read" PROVE ToRead(m2, r2)
  <2>1. m2.threads[m2.numThreads].endPos >= Len(LastNode(m2))
    <3>1. m2.threads[n].endPos >= Len(LastNode(m))
      BY <1>6, Zenon
    <3>2. QED
      BY <1>2, <1>5, <3>1, Zenon
  <2>2. QED
    BY <2>1, Zenon DEF ToRead
<1>7. QED
  BY <1>1, <1>2, <1>4, <1>6 DEF WithinAt

(* The next block begins in the last node.                                 *)
LEMMA WithinNextBlock ==
  ASSUME NEW s, NEW m2, NEW n, m2.numThreads = n, m2.threads[n].first = Len(m2.chain),
         m2.threads[n].startPos = m2.threads[n].endPos, m2.threads[0].startPos <= NodeSize,
         ~m2.failState, NEW f, NEW r2, NEW st2
  PROVE  WithinAt(s, m2, f, "read", r2, st2)
<1>1. Far(m2) /\ ToRead(m2, r2)
  BY DEF Far, ToRead
<1>2. QED
  BY <1>1 DEF WithinAt

-----------------------------------------------------------------------------
(* Reading.                                                                *)
LEMMA WithinFill ==
  ASSUME NEW s, NEW m, Far(m), m.threads[0].startPos <= NodeSize,
         NEW m2, m2.threads = m.threads, m2.numThreads = m.numThreads, Len(m2.chain) = Len(m.chain),
         ~m2.failState, NEW f, NEW q, q \in {"load", "hash"}, NEW r2, NEW st2
  PROVE  WithinAt(s, m2, f, q, r2, st2)
<1>1. Far(m2)
  BY DEF Far
<1>2. QED
  BY <1>1 DEF WithinAt

(* A node is added when what was parsed ends near its end.                 *)
LEMMA WithinNode ==
  ASSUME NEW s, NEW m, NEW f, NEW r, NEW st, WithinAt(s, m, f, "read", r, st), st = "going",
         NEW in, NEW o, ParseContext(s, m, f, in, o), Core(s, m, f, in, "read", r, o),
         NEW n, n = m.numThreads, NEW l, l = Len(m.chain),
         Len(m.chain[l]) = NodeSize, m.threads[n].endPos + Required >= NodeSize,
         NEW m2, HasNode(s, m, m2, n, l)
  PROVE  Far(m2) /\ m2.threads[0].startPos <= NodeSize
<1> DEFINE e == m.threads[n].endPos
           b == m.threads[n].startPos
<1>1. ToRead(m, r) /\ m.threads[0].startPos <= NodeSize /\ ~m.failState /\ f.stage = "decomp"
  BY DEF WithinAt, ParseContext
<1>2. "read" \notin {"blocks", "failed", "error"}
  OBVIOUS
<1>3. /\ n \in Thread /\ o \in Nat /\ e \in Nat /\ LastNode(m) = m.chain[l] /\ Tip(m, o) = in.pos
      /\ Parsing(s, m, o, "read", r, in.pos) /\ End(m, o, n) = At(o, l) + e /\ At(o, l) \in Nat
  BY <1>2, ParseContextIs
<1>4. m.threads[n] \in ThreadState /\ b \in Nat
  <2>1. m.threads[n] \in ThreadState
    BY <1>2, ParseContextIs
  <2>2. QED
    BY <2>1, ThreadFields
<1>5. /\ m2.numThreads = n /\ Len(m2.chain) = l + 1 /\ l \in Nat
      /\ m2.threads[n].first = m.threads[n].first /\ m2.threads[n].startPos = b
      /\ m2.threads[n].endPos = e - Step
  <2>1. Mt(s, m) /\ Mt(s, m2)
    BY DEF ParseContext, HasNode
  <2>2. m.chain \in Seq(Seq(1 .. Len(s))) /\ l \in Nat
    BY <2>1, MtFields
  <2>3. m2.chain = Append(m.chain, SubSeq(m.chain[l], Step + 1, Step + Required))
    BY DEF HasNode
  <2>4. Len(m2.chain) = l + 1
    <3> DEFINE x == SubSeq(m.chain[l], Step + 1, Step + Required)
    <3> HIDE DEF x
    <3>1. m2.chain = Append(m.chain, x)
      BY <2>3 DEF x
    <3>2. Len(Append(m.chain, x)) = Len(m.chain) + 1
      BY <2>2
    <3>3. QED
      BY <3>1, <3>2
  <2>5. QED
    BY <2>2, <2>4 DEF HasNode
<1> HIDE DEF e, b
<1>6. Step \in Nat /\ NodeSize = Step + Required /\ HeaderSize \in Nat /\ Required \in Nat /\ NodeSize \in Nat
  BY StepPositive, DStreamAssumption DEF Step
<1>7. \/ (e - Step) + HeaderSize > Required
      \/ m.threads[n].first = l /\ b >= Step
  <2>1. CASE r = "moreData"
    <3>1. in.pos < End(m, o, n) + HeaderSize
      BY <1>3, <2>1 DEF Parsing
    <3>2. in.pos = At(o, l) + NodeSize
      BY <1>3 DEF Tip
    <3>3. QED
      BY <1>3, <1>6, <3>1, <3>2
  <2>2. CASE r # "moreData"
    <3>1. e >= NodeSize \/ (m.threads[n].first = l /\ b = e)
      BY <1>1, <1>3, <2>2 DEF ToRead, e, b
    <3>2. e + Required >= NodeSize
      BY DEF e
    <3>3. HeaderSize > 0
      BY StepPositive
    <3>4. QED
      BY <1>3, <1>6, <3>1, <3>2, <3>3
  <2>3. QED
    BY <2>1, <2>2
<1>8. Far(m2)
  BY <1>5, <1>7 DEF Far
<1>9. m2.threads[0].startPos = m.threads[0].startPos
  <2>1. \A t \in Thread : t # n => SameBlock(m.threads[t], m2.threads[t])
    BY DEF HasNode
  <2>2. CASE n = 0
    BY <1>5, <2>2 DEF b
  <2>3. CASE n # 0
    BY <2>1, <2>3, ThreadIs DEF SameBlock
  <2>4. QED
    BY <2>2, <2>3
<1>10. QED
  BY <1>1, <1>8, <1>9

-----------------------------------------------------------------------------
(* Memory runs out: one thread will go on where the first block begins.    *)
LEMMA AtInChain ==
  ASSUME NEW o \in Nat, NEW l \in Nat, NEW i \in 1 .. l
  PROVE  At(o, i + 1) = At(o, i) + Step /\ At(o, i) \in Nat
<1>1. i \in Nat /\ i >= 1 /\ i \in Int /\ o \in Int
  OBVIOUS
<1>2. QED
  BY <1>1, AtNext, AtNat, Zenon

LEMMA FirstPlace ==
  ASSUME NEW s, NEW m, Mt(s, m), NEW o \in Nat, NEW n \in Nat, InProgress(s, m, o, n)
  PROVE  /\ Begin(m, o, 0) \in Nat /\ End(m, o, n) \in Nat /\ Begin(m, o, 0) <= End(m, o, n)
         /\ Begin(m, o, n) \in Nat /\ Begin(m, o, n) <= End(m, o, n)
         /\ m.threads[0].first \in 1 .. Len(m.chain) /\ m.threads[0].startPos \in Nat
         /\ m.threads[n].first \in 1 .. Len(m.chain) /\ m.threads[n].startPos \in Nat
         /\ n \in Thread
<1>1. n \in Thread /\ 0 \in Thread /\ Len(m.chain) \in Nat
  <2>1. n < Threads
    BY DEF InProgress
  <2>2. QED
    BY <2>1, ThreadIs, MtFields
<1>2. Block(s, m, o, n) /\ m.threads[n].last = Len(m.chain)
  BY DEF InProgress
<1>3. Begin(m, o, n) \in Nat /\ End(m, o, n) \in Nat /\ Begin(m, o, n) <= End(m, o, n)
  BY <1>1, <1>2, BlockPlace DEF Block
<1>4. m.threads[n].first \in 1 .. Len(m.chain) /\ m.threads[n].startPos \in Nat
  BY <1>1, <1>2, BlockPlace
<1>5. CASE n = 0
  BY <1>1, <1>3, <1>4, <1>5
<1>6. CASE n # 0
  <2>1. 0 \in 0 .. n - 1
    BY <1>6
  <2>2. Complete(s, m, o, 0) /\ End(m, o, 0) <= Begin(m, o, n)
    BY <2>1 DEF InProgress
  <2>3. Block(s, m, o, 0) /\ Begin(m, o, 0) < End(m, o, 0)
    BY <2>2 DEF Complete
  <2>4. /\ Begin(m, o, 0) \in Nat /\ End(m, o, 0) \in Nat
        /\ m.threads[0].first \in 1 .. Len(m.chain) /\ m.threads[0].startPos \in Nat
    <3>1. /\ Begin(m, o, 0) \in Nat /\ End(m, o, 0) \in Nat
          /\ m.threads[0].first \in Nat /\ m.threads[0].last \in Nat
          /\ 1 <= m.threads[0].first /\ m.threads[0].first <= m.threads[0].last
          /\ m.threads[0].last <= Len(m.chain) /\ m.threads[0].startPos \in Nat
      BY <1>1, <2>3, BlockPlace, Zenon
    <3>2. QED
      BY <1>1, <3>1
  <2>5. QED
    BY <1>1, <1>3, <1>4, <2>2, <2>3, <2>4
<1>7. QED
  BY <1>5, <1>6

LEMMA InsideFirst ==
  ASSUME NEW s, NEW q, Mt(s, q), NEW o \in Nat, Nodes(q, o), NEW l, l = Len(q.chain),
         NEW i \in 1 .. l, NEW a \in Nat, a <= NodeSize,
         i = l => a <= Len(q.chain[l]),
         i < l => \E c \in Nat : Bound(s, q, o, c) /\ At(o, i) + a <= c
  PROVE  Inside(s, q, i, a, "decomp")
<1>1. l \in Nat /\ Tip(q, o) = At(o, l) + Len(q.chain[l]) /\ Tip(q, o) \in Nat /\ At(o, l) \in Nat
      /\ Len(q.chain[l]) \in Nat
  BY TipIs, MtFields DEF Tip
<1>2. CASE i = l
  <2>1. InChain(s, q, o, i, a, "decomp")
    BY <1>1, <1>2 DEF InChain
  <2>2. QED
    BY <2>1, InsideOf
<1>3. CASE i < l
  <2>1. Len(q.chain[i]) = NodeSize
    BY <1>1, <1>3 DEF Nodes
  <2>2. PICK c \in Nat : Bound(s, q, o, c) /\ At(o, i) + a <= c
    BY <1>3
  <2>3. c <= Tip(q, o)
    BY <2>2 DEF Bound
  <2>4. At(o, i) \in Nat
    BY AtNat
  <2>5. At(o, i) + a <= Tip(q, o)
    BY <1>1, <2>2, <2>3, <2>4
  <2>6. InChain(s, q, o, i, a, "decomp")
    BY <2>1, <2>2, <2>5 DEF InChain
  <2>7. QED
    BY <2>6, InsideOf
<1>4. QED
  BY <1>1, <1>2, <1>3

LEMMA WithinFailed ==
  ASSUME NEW s, NEW q, ~q.failState, q.threads[0].startPos <= NodeSize,
         Inside(s, q, q.threads[0].first, q.threads[0].startPos, "decomp"), NEW f, NEW r, NEW st
  PROVE  WithinAt(s, q, f, "failed", r, st)
  BY DEF WithinAt

(* There is no memory for one more node.                                   *)
LEMMA NodeLimit ==
  ASSUME NEW s, NEW q, Mt(s, q), NEW o \in Nat, NEW l, l = Len(q.chain), Len(q.chain[l]) >= Step
  PROVE  Bound(s, q, o, Tip(q, o)) /\ At(o, l) + Required <= Tip(q, o) /\ Tip(q, o) \in Nat
<1>1. /\ Tip(q, o) = At(o, l) + Len(q.chain[l]) /\ Tip(q, o) \in Nat /\ At(o, l) \in Nat
      /\ Len(q.chain[l]) \in Nat
  BY TipIs DEF Tip
<1>2. Step \in Nat /\ Required \in Nat /\ Step >= Required
  BY StepPositive, DStreamAssumption
<1>3. QED
  BY <1>1, <1>2 DEF Bound

LEMMA WithinNodeFailsBack ==
  ASSUME NEW s, NEW m, NEW f, NEW r, m.threads[0].startPos <= NodeSize,
         NEW in, NEW o, ParseContext(s, m, f, in, o), Core(s, m, f, in, "read", r, o),
         NEW n, n = m.numThreads, Len(LastNode(m)) = NodeSize, m.threads[n].endPos < NodeSize,
         m.threads[n].endPos + Required >= NodeSize,
         NEW m1, Mt(s, m1), m1.chain = m.chain, m1.threads = m.threads, m1.failState = m.failState,
         NEW q, NEW in2, GivesBack(in, n, m1, q, in2), NEW r2, NEW st2
  PROVE  WithinAt(s, q, f, "failed", r2, st2)
<1> DEFINE l == Len(m.chain)
           i == m.threads[0].first
           a == m.threads[0].startPos
           e == m.threads[n].endPos
<1>1. "read" \notin {"blocks", "failed", "error"}
  OBVIOUS
<1>2. /\ Mt(s, m) /\ ~m.failState /\ o \in Nat /\ n \in Thread /\ n \in Nat /\ InProgress(s, m, o, n)
      /\ m.threads[n].last = l /\ e \in Nat /\ End(m, o, n) = At(o, l) + e /\ l \in Nat /\ At(o, l) \in Nat
  <2>1. Mt(s, m) /\ ~m.failState
    BY DEF ParseContext
  <2>2. l \in Nat
    BY <2>1, MtFields
  <2>3. QED
    BY <1>1, <2>1, <2>2, ParseContextIs
<1>3. m1.threads[n].last = Len(m.chain) /\ m1.threads[n].endPos \in Nat /\ m1.threads[n].endPos <= Len(LastNode(m))
  BY <1>2, StepPositive
<1>4. LET b == m1.threads[n]
          len == Len(m1.chain[b.last])
          back == Min({in.pos - in.base, len - b.endPos})
      IN  /\ q = [m1 EXCEPT !.chain[b.last] = SubSeq(@, 1, len - back)]
          /\ in2 = [in EXCEPT !.pos = @ - back]
  BY DEF GivesBack
<1>5. Rewound(s, m, q, in, in2, o, m1.threads[n].endPos) /\ SameButChain(m1, q)
  BY <1>1, <1>3, <1>4, RewindGives, ZenonT(60)
<1>6. /\ Mt(s, q) /\ Len(q.chain) = l /\ Nodes(q, o) /\ e <= Len(q.chain[l]) /\ Len(q.chain[l]) \in Nat
      /\ q.threads = m.threads /\ ~q.failState
  BY <1>2, <1>5 DEF Rewound, SameButChain
<1>7. /\ Begin(m, o, 0) <= End(m, o, n) /\ i \in 1 .. l /\ a \in Nat /\ Begin(m, o, 0) = At(o, i) + a
  BY <1>2, FirstPlace DEF Begin
<1> HIDE DEF l, i, a, e
<1>8. At(o, i) \in Nat
  BY <1>2, <1>7, AtInChain
<1>9. Len(q.chain[l]) >= Step
  <2>1. e + Required >= NodeSize
    BY DEF e
  <2>2. QED
    BY <1>2, <1>6, <2>1, StepPositive
<1>10. Bound(s, q, o, Tip(q, o)) /\ Tip(q, o) \in Nat
  BY <1>2, <1>6, <1>9, NodeLimit
<1>11. Tip(q, o) = At(o, l) + Len(q.chain[l])
  BY <1>6 DEF Tip
<1>12. At(o, i) + a <= Tip(q, o)
  BY <1>2, <1>6, <1>7, <1>8, <1>11
<1>13. i = l => a <= Len(q.chain[l])
  BY <1>2, <1>6, <1>7, <1>8
<1>14. Inside(s, q, i, a, "decomp")
  <2>1. a <= NodeSize
    BY DEF a
  <2>2. QED
    BY <1>2, <1>6, <1>7, <1>10, <1>12, <1>13, <2>1, InsideFirst
<1>15. QED
  BY <1>6, <1>14, WithinFailed DEF i, a

LEMMA WithinNodeFails ==
  ASSUME NEW s, NEW m, NEW f, NEW r, m.threads[0].startPos <= NodeSize,
         NEW in, NEW o, ParseContext(s, m, f, in, o), Core(s, m, f, in, "read", r, o),
         NEW n, n = m.numThreads, Len(LastNode(m)) = NodeSize,
         NEW q, Mt(s, q), q.chain = m.chain, q.threads = m.threads, q.failState = m.failState,
         NEW r2, NEW st2
  PROVE  WithinAt(s, q, f, "failed", r2, st2)
<1> DEFINE l == Len(m.chain)
           i == m.threads[0].first
           a == m.threads[0].startPos
<1>1. "read" \notin {"blocks", "failed", "error"}
  OBVIOUS
<1>2. /\ Mt(s, m) /\ ~m.failState /\ o \in Nat /\ n \in Nat /\ InProgress(s, m, o, n) /\ Nodes(m, o)
      /\ l \in Nat /\ At(o, l) \in Nat /\ Len(m.chain[l]) = NodeSize
  <2>1. Mt(s, m) /\ ~m.failState
    BY DEF ParseContext
  <2>2. l \in Nat
    BY <2>1, MtFields
  <2>3. QED
    BY <1>1, <2>1, <2>2, ParseContextIs
<1>3. i \in 1 .. l /\ a \in Nat
  BY <1>2, FirstPlace
<1>4. a <= NodeSize /\ q.threads[0].first = i /\ q.threads[0].startPos = a /\ ~q.failState
      /\ l = Len(q.chain) /\ Len(q.chain[l]) = NodeSize
  BY <1>2
<1>5. Nodes(q, o)
  BY <1>2, SameNodes
<1> HIDE DEF l, i, a
<1>6. Bound(s, q, o, Tip(q, o)) /\ At(o, l) + Required <= Tip(q, o) /\ Tip(q, o) \in Nat
  <2>1. Len(q.chain[l]) >= Step
    BY <1>4, StepPositive
  <2>2. QED
    BY <1>2, <1>4, <2>1, NodeLimit
<1>7. i < l => At(o, i) + a <= Tip(q, o)
  <2> SUFFICES ASSUME i < l PROVE At(o, i) + a <= Tip(q, o)
    OBVIOUS
  <2>1. At(o, i + 1) = At(o, i) + Step /\ At(o, i) \in Nat
    BY <1>2, <1>3, AtInChain
  <2>2. At(o, i + 1) <= At(o, l)
    BY <1>2, <1>3, AtGrows
  <2>3. QED
    BY <1>2, <1>3, <1>4, <1>6, <2>1, <2>2, StepPositive
<1>8. Inside(s, q, i, a, "decomp")
  BY <1>2, <1>3, <1>4, <1>5, <1>6, <1>7, InsideFirst
<1>9. QED
  BY <1>4, <1>8, WithinFailed

(* There is no memory for the output of a block that is complete.          *)
LEMMA WithinCut ==
  ASSUME NEW s, LongBlocks(s), NEW m, NEW f, NEW r, m.threads[0].startPos <= NodeSize, Far(m),
         NEW in, NEW o, ParseContext(s, m, f, in, o), Core(s, m, f, in, "parse", r, o),
         NEW n, n = m.numThreads, NEW fin \in BOOLEAN, Ends(s, m, o, n, fin),
         NEW m1, Counted(s, m, m1, n, fin), NEW q, NEW in2, GivesBack(in, n, m1, q, in2), NEW r2, NEW st2
  PROVE  WithinAt(s, q, f, "failed", r2, st2)
<1> DEFINE l == Len(m.chain)
           i == m.threads[0].first
           a == m.threads[0].startPos
           e == m.threads[n].endPos
           c == End(m, o, n)
<1>1. "parse" \notin {"blocks", "failed", "error"}
  OBVIOUS
<1>2. /\ Mt(s, m) /\ ~m.failState /\ o \in Nat /\ n \in Thread /\ n \in Nat /\ InProgress(s, m, o, n)
      /\ m.threads[n].last = l /\ e \in Nat /\ c = At(o, l) + e /\ l \in Nat /\ At(o, l) \in Nat
  <2>1. Mt(s, m) /\ ~m.failState
    BY DEF ParseContext
  <2>2. l \in Nat
    BY <2>1, MtFields
  <2>3. QED
    BY <1>1, <2>1, <2>2, ParseContextIs
<1>3. /\ m1.threads[n].last = Len(m.chain) /\ m1.threads[n].endPos \in Nat
      /\ m1.threads[n].endPos <= Len(LastNode(m)) /\ Mt(s, m1) /\ m1.chain = m.chain /\ ~m1.failState
  BY BlockCompletes
<1>4. LET b == m1.threads[n]
          len == Len(m1.chain[b.last])
          back == Min({in.pos - in.base, len - b.endPos})
      IN  /\ q = [m1 EXCEPT !.chain[b.last] = SubSeq(@, 1, len - back)]
          /\ in2 = [in EXCEPT !.pos = @ - back]
  BY DEF GivesBack
<1>5. Rewound(s, m, q, in, in2, o, m1.threads[n].endPos) /\ SameButChain(m1, q)
  BY <1>1, <1>3, <1>4, RewindGives, ZenonT(60)
<1>6. m1.threads[n].endPos = e + (IF fin THEN 1 ELSE 0)
  BY DEF Counted
<1>7. /\ Mt(s, q) /\ Len(q.chain) = l /\ Nodes(q, o) /\ m1.threads[n].endPos <= Len(q.chain[l])
      /\ Len(q.chain[l]) \in Nat /\ q.threads = m1.threads /\ ~q.failState
  BY <1>3, <1>5 DEF Rewound, SameButChain
<1>8. q.threads[0].first = i /\ q.threads[0].startPos = a
  <2>1. CASE n = 0
    BY <1>7, <2>1 DEF Counted
  <2>2. CASE n # 0
    BY <1>7, <2>2, ThreadIs DEF Counted
  <2>3. QED
    BY <2>1, <2>2
<1>9. /\ Begin(m, o, 0) <= c /\ i \in 1 .. l /\ a \in Nat /\ Begin(m, o, 0) = At(o, i) + a /\ c \in Nat
      /\ Begin(m, o, n) \in Nat
  BY <1>2, FirstPlace DEF Begin
<1>10. At(o, i) \in Nat
  BY <1>2, <1>9, AtInChain
<1>11. c + 1 \in 1 .. Len(s) /\ (fin => KindAt(s, c + 1, "end")) /\ (~fin => IsReset(s, c + 1))
       /\ (~fin => m.threads[n].unpackSize # 0)
  <2>1. c + 1 \in 1 .. Len(s)
    BY ChunkHere
  <2>2. QED
    BY <2>1 DEF Ends, KindAt
<1>12. ~fin /\ l > 1 => At(o, l) + Required < c + HeaderSize
  <2> SUFFICES ASSUME ~fin, l > 1 PROVE At(o, l) + Required < c + HeaderSize
    OBVIOUS
  <2>1. CASE e + HeaderSize > Required
    <3> HIDE DEF c, e, l
    <3>1. QED
      BY <1>2, <2>1, StepPositive
  <2>2. ASSUME Begin(m, o, n) >= At(o, l)
        PROVE  At(o, l) + Required < c + HeaderSize
    <3> DEFINE b == Begin(m, o, n)
    <3>1. At(o, l) > 0
      <4>1. At(o, 1 + 1) = At(o, 1) + Step /\ At(o, 1) = o
        BY <1>2, AtFirst, AtNext
      <4>2. At(o, 1 + 1) <= At(o, l)
        BY <1>2, AtGrows
      <4>3. QED
        BY <1>2, <4>1, <4>2, StepPositive
    <3>2. b # 0 /\ c > b + 1
      BY <1>2, <1>9, <1>11, <2>2, <3>1 DEF InProgress
    <3>3. IsReset(s, b + 1)
      <4>1. Independent(s, b, c)
        BY <1>2 DEF InProgress, Block
      <4> HIDE DEF b, c
      <4>2. QED
        BY <3>2, <4>1 DEF Independent
    <3> HIDE DEF b, c
    <3>4. /\ b + 1 \in 1 .. Len(s) /\ c + 1 \in 1 .. Len(s) /\ b + 1 < c + 1
          /\ s[b + 1].kind = "control" /\ s[b + 1].reset /\ s[c + 1].kind = "control" /\ s[c + 1].reset
      BY <1>9, <1>11, <3>2, <3>3 DEF IsReset, KindAt, b
    <3>5. (c + 1) - (b + 1) > Required - HeaderSize
      BY <3>4 DEF LongBlocks
    <3>6. QED
      BY <1>2, <1>9, <2>2, <3>5, StepPositive DEF b
  <2>3. CASE m.threads[n].first = l
    <3>1. Begin(m, o, n) = At(o, l) + m.threads[n].startPos /\ m.threads[n].startPos \in Nat
      BY <1>2, <2>3, FirstPlace DEF Begin
    <3>2. QED
      BY <1>2, <2>2, <3>1
  <2>4. CASE m.threads[n].first + 1 = l /\ m.threads[n].startPos >= Step
    <3> DEFINE j == m.threads[n].first
    <3>1. j \in 1 .. l /\ m.threads[n].startPos \in Nat /\ Begin(m, o, n) = At(o, j) + m.threads[n].startPos
      BY <1>2, FirstPlace DEF Begin
    <3>2. At(o, j + 1) = At(o, j) + Step /\ At(o, j) \in Nat
      BY <1>2, <3>1, AtInChain
    <3>3. QED
      BY <1>2, <2>2, <2>4, <3>1, <3>2, StepPositive, SMTT(40)
  <2>5. QED
    BY <2>1, <2>2, <2>3, <2>4 DEF Far
<1>13. Tip(q, o) = At(o, l) + Len(q.chain[l])
  BY <1>7 DEF Tip
<1> HIDE DEF l, i, a, e, c
<1>14. c <= Tip(q, o) /\ (fin => c < Tip(q, o)) /\ e <= Len(q.chain[l])
  BY <1>2, <1>6, <1>7, <1>13
<1>15. i < l => Bound(s, q, o, c)
  <2> SUFFICES ASSUME i < l PROVE Bound(s, q, o, c)
    OBVIOUS
  <2>1. l > 1 /\ At(o, l) <= c
    BY <1>2, <1>9
  <2>2. CASE fin
    BY <1>7, <1>11, <1>14, <2>1, <2>2 DEF Bound
  <2>3. CASE ~fin
    BY <1>7, <1>11, <1>12, <1>14, <2>1, <2>3 DEF Bound, IsReset
  <2>4. QED
    BY <2>2, <2>3
<1>16. i = l => a <= Len(q.chain[l])
  BY <1>2, <1>7, <1>9, <1>10, <1>14
<1>17. Inside(s, q, i, a, "decomp")
  <2>1. a <= NodeSize
    BY DEF a
  <2>2. QED
    BY <1>2, <1>7, <1>9, <1>15, <1>16, <2>1, InsideFirst
<1>18. QED
  <2>1. a <= NodeSize
    BY DEF a
  <2>2. QED
    BY <1>7, <1>8, <1>17, <2>1, WithinFailed

-----------------------------------------------------------------------------
(* One thread decodes a node: it goes on within the chain.                 *)
LEMMA NodeTakenThreads ==
  ASSUME NEW s, NEW m, Mt(s, m), NEW node, NEW pos, NEW m2, NodeTaken(m, m2, node, pos)
  PROVE  m2.threads = m.threads
<1> DEFINE x == [m EXCEPT !.cur = 0]
<1>1. Mt(s, x) /\ x.threads = m.threads
  BY DEF Mt
<1>2. FreeExtraInbufNodes(x).threads = x.threads
  <2> HIDE DEF x
  <2>1. QED
    BY <1>1, FreedExtraIs
<1>3. m2 \in {FreeExtraInbufNodes(x), [m EXCEPT !.cur = @ + 1, !.curPos = pos - (Len(node) - Required)],
              [m EXCEPT !.curPos = pos]}
  BY DEF NodeTaken
<1>4. /\ [m EXCEPT !.cur = @ + 1, !.curPos = pos - (Len(node) - Required)].threads = m.threads
      /\ [m EXCEPT !.curPos = pos].threads = m.threads
  BY DEF Mt
<1> HIDE DEF x
<1>5. QED
  BY <1>1, <1>2, <1>3, <1>4

(* What is left of a node that is full.                                    *)
LEMMA RestOfNode ==
  ASSUME NEW k \in Nat, NEW node \in Seq(1 .. k), NEW a \in Nat, node = Run(a, NodeSize),
         NEW j \in Nat, j <= NodeSize
  PROVE  /\ SubSeq(node, j + 1, NodeSize) = Run(a + j, NodeSize - j)
         /\ a + j \in Nat /\ NodeSize - j \in Nat
         /\ (a + j) + (NodeSize - j) = a + NodeSize /\ a + NodeSize <= k
<1> DEFINE n == NodeSize - j
<1>1. NodeSize \in Nat /\ NodeSize > 0
  BY StepPositive
<1>2. n \in Nat /\ j + n = NodeSize /\ (a + j) + n = a + NodeSize
  BY <1>1
<1>3. SubSeq(Run(a, NodeSize), j + 1, j + n) = Run(a + j, n)
  <2> HIDE DEF n
  <2>1. j + n <= NodeSize /\ a \in Int /\ j \in Nat /\ n \in Nat /\ NodeSize \in Nat
    BY <1>1, <1>2
  <2>2. QED
    BY <2>1, RunCut
<1>4. node[NodeSize] = a + NodeSize /\ Len(node) = NodeSize
  <2>1. a \in Int /\ NodeSize \in 1 .. NodeSize
    BY <1>1
  <2>2. QED
    BY <1>1, <2>1, RunIs, Zenon
<1>5. node[NodeSize] \in 1 .. k
  <2>1. NodeSize \in 1 .. Len(node)
    BY <1>1, <1>4
  <2>2. QED
    BY <2>1
<1>6. a + NodeSize <= k
  BY <1>4, <1>5
<1>7. QED
  BY <1>2, <1>3, <1>6

LEMMA NextIn == \A v, w \in Nat : v + 1 < w => v + 1 \in 1 .. w
OBVIOUS

(* Where the decoder stops in node i, which is not the last one.           *)
LEMMA StopsBefore ==
  ASSUME NEW s \in Streams, NEW m, NEW d, NEW f, Own(s, f), NEW in, Buffer(s, in), NEW o \in Nat,
         Going(s, m, d, f, in, o), f.stage = "decomp",
         NEW i, i = m.cur, NEW node, node = m.chain[i], NEW a, NodeAt(s, m, o, i, node, a),
         NEW l, l = Len(m.chain), i < l, m.curPos <= Len(node), NEW space \in Nat,
         NEW z \in Decode(s, d, SubSeq(node, m.curPos + 1, Len(node)), space), z.res # "corrupt",
         z.used \in 0 .. Len(node) - m.curPos,
         NEW c \in Nat, Bound(s, m, o, c), a + m.curPos <= c
  PROVE  \/ a + (m.curPos + z.used) <= c
         \/ a + (m.curPos + z.used) = c + 1 /\ z.res = "finished" /\ c + 1 <= Tip(m, o)
<1> DEFINE p == a + m.curPos
           n == Len(node) - m.curPos
<1>1. /\ i \in Nat /\ i \in 1 .. l /\ l \in Nat /\ node \in Seq(1 .. Len(s)) /\ Len(node) = NodeSize
      /\ a \in Nat /\ node = Run(a, Len(node)) /\ a = At(o, i) /\ m.curPos \in Nat /\ Len(node) \in Nat
  BY DEF NodeAt
<1>2. Mt(s, m) /\ d \in DecState /\ d.state = "ok"
  BY SMTT(30) DEF Going, FromChain
<1>3. Tip(m, o) \in Nat /\ At(o, l) \in Nat /\ At(o, i + 1) = At(o, i) + Step
  <2>1. Tip(m, o) \in Nat /\ At(o, l) \in Nat
    BY <1>2, TipIs
  <2>2. At(o, i + 1) = At(o, i) + Step
    BY <1>1, AtInChain, Zenon
  <2>3. QED
    BY <2>1, <2>2
<1>4. At(o, l) <= c /\ c <= Tip(m, o)
  BY DEF Bound
<1>5. z.used \in Nat /\ m.curPos + z.used <= NodeSize
  BY <1>1
<1> DEFINE u == m.curPos + z.used
<1>6. u \in Nat /\ u <= NodeSize
  BY <1>1, <1>5
<1>7. CASE i + 1 < l
  <2>1. At(o, (i + 1) + 1) = At(o, i + 1) + Step
    <3>1. i + 1 \in 1 .. l
      BY <1>1, <1>7, NextIn, Zenon
    <3>2. QED
      BY <1>1, <3>1, AtInChain, ZenonT(60)
  <2>2. At(o, (i + 1) + 1) <= At(o, l)
    BY <1>1, <1>7, AtGrows
  <2>3. Step >= Required
    BY StepPositive, DStreamAssumption
  <2> HIDE DEF u
  <2>4. a + u <= c
    BY <1>1, <1>3, <1>4, <1>6, <2>1, <2>2, <2>3, StepPositive
  <2>5. QED
    BY <2>4 DEF u
<1>8. CASE i + 1 = l
  <2>1. a + NodeSize = At(o, l) + Required
    <3>1. At(o, l) = a + Step
      BY <1>1, <1>3, <1>8, Zenon
    <3>2. QED
      BY <1>1, <3>1, StepPositive
  <2>2. CASE At(o, l) + Required <= c
    <3> HIDE DEF u
    <3>1. a + u <= c
      BY <1>1, <1>3, <1>6, <2>1, <2>2, StepPositive
    <3>2. QED
      BY <3>1 DEF u
  <2>3. CASE \/ KindAt(s, c + 1, "control") /\ At(o, l) + Required < c + HeaderSize
             \/ KindAt(s, c + 1, "end") /\ c < Tip(m, o)
    <3>1. /\ SubSeq(node, m.curPos + 1, NodeSize) = Run(p, n) /\ p \in Nat /\ n \in Nat
          /\ p + n = a + NodeSize /\ a + NodeSize <= Len(s)
      <4>1. Len(s) \in Nat
        BY StreamIs, Zenon
      <4>2. node = Run(a, NodeSize)
        BY <1>1
      <4>3. n = NodeSize - m.curPos /\ m.curPos <= NodeSize
        BY <1>1
      <4>4. /\ Len(s) \in Nat /\ node \in Seq(1 .. Len(s)) /\ a \in Nat /\ node = Run(a, NodeSize)
            /\ m.curPos \in Nat /\ m.curPos <= NodeSize
        BY <1>1, <4>1, <4>2, <4>3
      <4>5. /\ SubSeq(node, m.curPos + 1, NodeSize) = Run(a + m.curPos, NodeSize - m.curPos)
            /\ a + m.curPos \in Nat /\ NodeSize - m.curPos \in Nat
            /\ (a + m.curPos) + (NodeSize - m.curPos) = a + NodeSize /\ a + NodeSize <= Len(s)
        BY <4>4, RestOfNode, Zenon
      <4> HIDE DEF n
      <4>6. QED
        BY <4>3, <4>5, Zenon DEF p
    <3>2. SubSeq(node, m.curPos + 1, Len(node)) = Run(p, n)
      BY <1>1, <3>1, Zenon
    <3>3. p + n <= Len(s) /\ p <= c
      BY <3>1
    <3>4. s \in Seq(Byte)
      BY StreamIs
    <3>5. z \in Decode(s, d, Run(p, n), space)
      BY <3>2
    <3>6. \/ KindAt(s, c + 1, "control") /\ p + n < c + HeaderSize
          \/ KindAt(s, c + 1, "end")
      BY <2>1, <2>3, <3>1, Zenon
    <3> HIDE DEF p, n
    <3>7. p + z.used <= c \/ (p + z.used = c + 1 /\ z.res = "finished" /\ KindAt(s, c + 1, "end"))
      BY <1>2, <3>1, <3>3, <3>4, <3>5, <3>6, StopsHere
    <3>8. KindAt(s, c + 1, "end") => c + 1 <= Tip(m, o)
      <4>1. SUFFICES ASSUME KindAt(s, c + 1, "end") PROVE c + 1 <= Tip(m, o)
        OBVIOUS
      <4>2. ~KindAt(s, c + 1, "control")
        BY <4>1 DEF KindAt
      <4>3. c < Tip(m, o)
        BY <2>3, <4>2
      <4>4. QED
        BY <1>3, <4>3
    <3>9. p + z.used = a + (m.curPos + z.used)
      BY <1>1, <1>5 DEF p
    <3>10. QED
      BY <3>7, <3>8, <3>9
  <2>4. QED
    BY <2>2, <2>3 DEF Bound
<1>9. QED
  BY <1>1, <1>7, <1>8

(* The place in the chain after a node was decoded.                        *)
LEMMA GoesOnInside ==
  ASSUME NEW s, NEW m, Mt(s, m), m.chain[1] # <<>>, NEW o \in Nat, Nodes(m, o), NEW i,
         NEW node, node = m.chain[i],
         NEW a, NodeAt(s, m, o, i, node, a), NEW l, l = Len(m.chain),
         NEW pos \in Nat, pos <= Len(node), a + pos <= Tip(m, o), NEW stage,
         stage = "decomp" /\ i < l => \E c \in Nat : Bound(s, m, o, c) /\ a + pos <= c,
         NEW m2, TakenOf(s, m, m2, i, node, pos), m2.chain = m.chain
  PROVE  InChain(s, m2, o, m2.cur, m2.curPos, stage)
<1>1. /\ i \in Nat /\ i \in 1 .. l /\ l \in Nat /\ Len(node) \in Nat
      /\ a \in Nat /\ a = At(o, i) /\ (i # l => Len(node) = NodeSize)
  BY DEF NodeAt
<1>2. Tip(m2, o) = Tip(m, o) /\ Tip(m, o) = At(o, l) + Len(m.chain[l]) /\ Tip(m, o) \in Nat
      /\ At(o, l) \in Nat /\ Len(m.chain[l]) \in Nat
  BY TipIs DEF Tip
<1>3. \A c : Bound(s, m, o, c) => Bound(s, m2, o, c)
  BY <1>2 DEF Bound
<1>4. Len(m2.chain) = l
  OBVIOUS
<1>5. CASE m2.cur = i /\ m2.curPos = pos
  BY <1>1, <1>2, <1>3, <1>4, <1>5 DEF InChain
<1>6. CASE i < l /\ m2.cur = i + 1 /\ m2.curPos = pos - (Len(node) - Required)
  <2>1. Len(node) = NodeSize /\ At(o, i + 1) = At(o, i) + Step
    <3>1. At(o, i + 1) = At(o, i) + Step
      BY <1>1, AtInChain, Zenon
    <3>2. QED
      BY <1>1, <1>6, <3>1
  <2>2. At(o, m2.cur) + m2.curPos = a + pos /\ m2.curPos \in Int /\ m2.curPos <= Required
    BY <1>1, <1>6, <2>1, StepPositive
  <2>3. m2.curPos <= Len(m2.chain[m2.cur])
    <3>1. CASE i + 1 = l
      <4>1. At(o, l) + m2.curPos <= At(o, l) + Len(m.chain[l]) /\ m2.cur = l
        BY <1>2, <1>6, <2>2, <3>1
      <4>2. QED
        BY <1>2, <2>2, <4>1
    <3>2. CASE i + 1 # l
      <4>1. i + 1 \in 1 .. l /\ i + 1 < l
        BY <1>1, <1>6, <3>2
      <4>2. Len(m.chain[i + 1]) = NodeSize
        BY <4>1 DEF Nodes
      <4>3. QED
        BY <1>6, <2>2, <4>2, StepPositive
    <3>3. QED
      BY <3>1, <3>2
  <2>4. QED
    BY <1>2, <1>3, <1>4, <1>6, <2>2, <2>3 DEF InChain
<1>7. QED
  <2>1. CASE pos + Required >= Len(node) /\ i # l
    BY <1>1, <1>6, <2>1 DEF TakenOf
  <2>2. CASE ~(pos + Required >= Len(node))
    BY <1>5, <2>2 DEF TakenOf
  <2>3. CASE pos + Required >= Len(node) /\ i = l
    <3>1. m.chain[1] = <<>>
      BY <2>3 DEF TakenOf
    <3>2. QED
      BY <3>1
  <2>4. QED
    BY <2>1, <2>2, <2>3

LEMMA TakenSum ==
  ASSUME NEW a \in Nat, NEW x \in Nat, NEW u \in Nat, NEW n \in Nat, x <= n, u <= n - x
  PROVE  x + u \in Nat /\ x + u <= n /\ a + (x + u) \in Nat /\ a + (x + u) <= a + n
  OBVIOUS

LEMMA WithinTaken ==
  ASSUME NEW s \in Streams, NEW m, NEW d, NEW f, Own(s, f), NEW in, Buffer(s, in), NEW o \in Nat,
         Going(s, m, d, f, in, o), NEW i, i = m.cur, NEW node, node = m.chain[i],
         InChain(s, m, o, i, m.curPos, f.stage), m.threads[0].startPos <= NodeSize, NEW space \in Nat,
         NEW z \in Input(s, f, d, SubSeq(node, m.curPos + 1, Len(node)), space), z.res # "corrupt",
         NEW pos, pos = m.curPos + z.used, NEW m2, NodeTaken(m, m2, node, pos),
         NEW g, g.stage = After(f, z), NEW r, NEW st
  PROVE  WithinAt(s, m2, g, "hash", r, st)
<1> DEFINE a == At(o, i)
           l == Len(m.chain)
<1>1. Mt(s, m) /\ m.failState /\ m.chain[1] # <<>> /\ Nodes(m, o) /\ d \in DecState
  BY SMTT(30) DEF Going, Accounted
<1>2. NodeAt(s, m, o, i, node, a)
  BY NodeIs
<1>3. /\ Given1(s, f, SubSeq(node, m.curPos + 1, Len(node)), space, z) /\ z.used \in Nat
  BY PlaceIs, ZenonT(60)
<1>4. /\ i \in Nat /\ i \in 1 .. l /\ l \in Nat /\ Len(node) \in Nat /\ node \in Seq(1 .. Len(s))
      /\ a \in Nat /\ m.curPos \in Nat
  BY <1>2 DEF NodeAt
<1>5. m.curPos <= Len(node) /\ a + m.curPos <= Tip(m, o)
      /\ (f.stage = "decomp" /\ i < l => \E c \in Nat : Bound(s, m, o, c) /\ a + m.curPos <= c)
  BY DEF InChain
<1>6. z.used <= Len(node) - m.curPos
  <2>1. Len(SubSeq(node, m.curPos + 1, Len(node))) = Len(node) - m.curPos
    BY <1>4, <1>5, RestIs
  <2>2. z.used <= Len(SubSeq(node, m.curPos + 1, Len(node)))
    BY <1>3, <2>1, <1>4, <1>5 DEF Given1
  <2>3. QED
    BY <2>1, <2>2
<1> DEFINE P == a + (m.curPos + z.used)
<1>6a. /\ m.curPos + z.used \in Nat /\ m.curPos + z.used <= Len(node) /\ P \in Nat
       /\ P <= a + Len(node)
  <2> HIDE DEF a, l
  <2>1. QED
    BY <1>3, <1>4, <1>5, <1>6, TakenSum, Zenon DEF P
<1>7. Tip(m, o) \in Nat /\ Tip(m, o) = At(o, l) + Len(m.chain[l]) /\ At(o, l) \in Nat
  BY <1>1, TipIs DEF Tip
<1>8. /\ P <= Tip(m, o)
      /\ g.stage = "decomp" /\ i < l => \E c \in Nat : Bound(s, m, o, c) /\ P <= c
  <2>1. CASE i = l
    <3>1. a = At(o, l) /\ Len(m.chain[l]) = Len(node)
      BY <2>1
    <3> HIDE DEF a, l, P
    <3>2. P <= Tip(m, o)
      BY <1>7, <1>6a, <3>1
    <3>3. QED
      BY <1>4, <2>1, <3>2
  <2>2. CASE i # l /\ f.stage # "decomp"
    <3>1. z.used = 0 /\ z.res # "finished"
      BY <2>2, <1>3 DEF Given1
    <3>2. P = a + m.curPos
      BY <1>4, <3>1
    <3>3. g.stage # "decomp"
      BY <2>2, <3>1 DEF After
    <3>4. QED
      BY <1>5, <3>2, <3>3, Zenon
  <2>3. CASE i # l /\ f.stage = "decomp"
    <3>1. i < l
      BY <1>4, <2>3
    <3>2. PICK c \in Nat : Bound(s, m, o, c) /\ a + m.curPos <= c
      BY <1>5, <2>3, <3>1
    <3>3. z \in Decode(s, d, SubSeq(node, m.curPos + 1, Len(node)), space)
      BY <2>3 DEF Input
    <3>4. z.used \in 0 .. Len(node) - m.curPos
      <4>1. Len(node) - m.curPos \in Int
        BY <1>4
      <4> DEFINE k == Len(node) - m.curPos
      <4> HIDE DEF k
      <4>2. k \in Int /\ z.used <= k /\ z.used \in Nat
        BY <1>3, <1>6, <4>1 DEF k
      <4>3. z.used \in 0 .. k
        BY <4>2
      <4>4. QED
        BY <4>3 DEF k
    <3>5. l = Len(m.chain)
      OBVIOUS
    <3> HIDE DEF a, l
    <3>6. \/ P <= c
          \/ P = c + 1 /\ z.res = "finished" /\ c + 1 <= Tip(m, o)
      BY <1>2, <1>5, <2>3, <3>1, <3>2, <3>3, <3>4, <3>5, StopsBefore, ZenonT(120)
    <3>7. c <= Tip(m, o)
      BY <3>2 DEF Bound
    <3> HIDE DEF P
    <3>8. P <= Tip(m, o)
      BY <1>7, <1>6a, <3>6, <3>7
    <3>9. z.res = "finished" => g.stage # "decomp"
      BY DEF After, AfterEnd
    <3>10. g.stage = "decomp" => P <= c
      BY <3>6, <3>9
    <3>11. QED
      BY <3>2, <3>8, <3>10
  <2>4. QED
    BY <2>1, <2>2, <2>3
<1>9. m2.threads = m.threads
  BY <1>1, NodeTakenThreads
<1>10. TakenOf(s, m, m2, i, node, pos)
  <2>1. Len(node) \in Nat /\ pos \in Nat /\ i \in Nat /\ Mt(s, m)
    BY <1>1, <1>3, <1>4, SMTT(40)
  <2>2. QED
    BY <2>1, TakenIs, Zenon
<1>11. m2.failState /\ Mt(s, m2)
  BY <1>1, <1>10 DEF TakenOf
<1>12. CASE m2.chain = m.chain
  <2>1. pos \in Nat /\ pos <= Len(node) /\ a + pos <= Tip(m, o)
    BY <1>8, <1>6a
  <2>2. g.stage = "decomp" /\ i < l => \E c \in Nat : Bound(s, m, o, c) /\ a + pos <= c
    BY <1>8
  <2>3. InChain(s, m2, o, m2.cur, m2.curPos, g.stage)
    <3>1. l = Len(m.chain)
      OBVIOUS
    <3> HIDE DEF a, l, P
    <3>2. QED
      BY <1>1, <1>2, <1>10, <1>12, <2>1, <2>2, <3>1, GoesOnInside, ZenonT(60)
  <2>4. Nodes(m2, o)
    BY <1>1, <1>12, SameNodes
  <2>5. Inside(s, m2, m2.cur, m2.curPos, g.stage)
    BY <1>11, <2>3, <2>4, InsideOf
  <2>6. QED
    BY <1>9, <1>11, <2>5 DEF WithinAt
<1>13. CASE m2.chain # m.chain
  <2>1. m2.chain = << <<>> >>
    BY <1>10, <1>13 DEF TakenOf
  <2>2. m2.chain[1] = <<>>
    BY <2>1
  <2>3. QED
    BY <1>9, <1>11, <2>2 DEF WithinAt, Inside
<1>14. QED
  BY <1>12, <1>13

-----------------------------------------------------------------------------
(* The steps keep it.                                                      *)
Was   == WithinAt(stream, decmt, fds, pc, parsed, status)
Stays == WithinAt(stream, decmt', fds', pc', parsed', status')

LEMMA WasIs ==
  ASSUME Was PROVE pc # "overrun" /\ decmt.threads[0].startPos <= NodeSize
  BY DEF Was, WithinAt

LEMMA WithinNothing ==
  ASSUME Was, decmt' = decmt, fds' = fds, pc' = pc, parsed' = parsed, status' = status
  PROVE  Stays
  BY Zenon DEF Was, Stays

LEMMA LoadWithin ==
  ASSUME IInv, Was, Load
  PROVE  Stays
<1> DEFINE e == InBlock(decmt).endPos
           l == Len(LastNode(decmt))
<1>1. /\ pc = "load"
      /\ pc' = CASE e < l              -> "parse"
                 [] e >= l /\ Left > 0 -> "read"
                 [] OTHER              -> "hash"
      /\ decmt' = decmt /\ fds' = fds /\ parsed' = parsed /\ status' = status
  BY DEF Load
<1>2. pc # "idle" /\ pc \in {"load", "parse", "read", "blocks"}
  BY <1>1
<1>3. PICK o \in 0 .. Len(stream) : Parses(o) /\ Here(o)
  BY <1>2, InParse
<1>4. e \in Nat /\ l \in Nat
  <2>1. ParseContext(stream, decmt, fds, input, o) /\ Core(stream, decmt, fds, input, "load", parsed, o)
    BY <1>1, <1>3 DEF Parses, Here
  <2>2. "load" \notin {"blocks", "failed", "error"}
    OBVIOUS
  <2>3. decmt.threads[decmt.numThreads].endPos \in Nat /\ Len(LastNode(decmt)) \in Nat
    BY <2>1, <2>2, ParseContextIs
  <2>4. QED
    BY <2>3 DEF InBlock
<1> HIDE DEF e, l
<1>5. pc' \in {"parse", "read", "hash"} /\ (pc' = "read" => e >= l)
  BY <1>1, <1>4
<1>6. pc' = "read" => ToRead(decmt, parsed)
  BY <1>5 DEF e, l, ToRead, InBlock
<1>7. pc' \notin {"overrun", "blocks"} /\ (pc' = "failed" => decmt.failState)
      /\ pc \notin {"blocks", "failed", "error"}
  BY <1>1, <1>5
<1>8. status = "going"
  BY <1>2, InACall
<1> DEFINE q == pc'
<1>9. q \notin {"overrun", "blocks"} /\ (q = "failed" => decmt.failState)
      /\ (q = "read" => ToRead(decmt, parsed))
  BY <1>6, <1>7
<1> HIDE DEF q
<1>10. WithinAt(stream, decmt, fds, q, parsed, status)
  BY <1>7, <1>8, <1>9, WithinSame DEF Was
<1>11. QED
  BY <1>1, <1>10, Zenon DEF Stays, q

LEMMA ParseStopsWithin ==
  ASSUME IInv, Was, ParseStops
  PROVE  Stays
<1>1. /\ pc = "parse" /\ Chunks.res \in {"moreData", "error"} /\ parsed' = Chunks.res
      /\ pc' = (IF Chunks.res = "error" THEN "error" ELSE "read")
      /\ decmt' = decmt /\ fds' = fds /\ status' = status
  BY DEF ParseStops
<1>2. status = "going"
  BY <1>1, InACall
<1>3. CASE Chunks.res = "error"
  <2>1. pc' = "error"
    BY <1>1, <1>3
  <2>2. decmt.threads[0].startPos <= NodeSize
    BY WasIs
  <2>3. WithinAt(stream, decmt, fds, "error", parsed', status)
    BY <2>2 DEF WithinAt
  <2>4. QED
    BY <1>1, <2>1, <2>3, Zenon DEF Stays
<1>4. CASE Chunks.res = "moreData"
  <2>1. pc' = "read" /\ parsed' = "moreData"
    BY <1>1, <1>4
  <2>2. ToRead(decmt, "moreData")
    BY DEF ToRead
  <2>3. "read" \notin {"overrun", "blocks"} /\ "read" # "failed" /\ pc \notin {"blocks", "failed", "error"}
    BY <1>1
  <2>4. WithinAt(stream, decmt, fds, "read", "moreData", status)
    BY <1>2, <2>2, <2>3, WithinSame DEF Was
  <2>5. QED
    BY <1>1, <2>1, <2>4, Zenon DEF Stays
<1>5. QED
  BY <1>1, <1>3, <1>4

LEMMA NextChunkWithin ==
  ASSUME IInv, Was, NextChunk
  PROVE  Stays
<1> DEFINE n == decmt.numThreads
           k == Chunks.size
<1>1. /\ pc = "parse" /\ Chunks.res = "continue" /\ parsed' = "continue"
      /\ LongerBy(decmt, decmt', n, k)
      /\ pc' = (IF InBlock(decmt').endPos < Len(LastNode(decmt)) THEN "parse" ELSE "read")
      /\ fds' = fds /\ status' = status
  BY DEF NextChunk, LongerBy
<1>2. pc # "idle" /\ pc \in {"load", "parse", "read", "blocks"}
  BY <1>1
<1>3. PICK o \in 0 .. Len(stream) : Parses(o) /\ Here(o)
  BY <1>2, InParse
<1>4. Core(stream, decmt, fds, input, "parse", parsed, o) /\ ParseContext(stream, decmt, fds, input, o)
  BY <1>1, <1>3 DEF Here, Parses
<1> DEFINE b == stream[End(decmt, o, n) + 1]
<1>5. b \in Byte /\ k = Size(b) /\ b.kind = "control"
  BY <1>1, <1>3, <1>4, ChunksIs
<1>6. k \in Nat
  <2> HIDE DEF b, k
  <2>1. QED
    BY <1>5 DEF Size, Byte
<1>7. /\ n \in Thread /\ n = decmt.numThreads /\ Mt(stream, decmt)
      /\ decmt.threads[n].endPos \in Nat /\ Len(LastNode(decmt)) \in Nat
  <2>1. "parse" \notin {"blocks", "failed", "error"}
    OBVIOUS
  <2>2. /\ n \in Thread
        /\ decmt.threads[n].endPos \in Nat /\ Len(LastNode(decmt)) \in Nat
    BY <1>4, <2>1, ParseContextIs
  <2>3. QED
    BY <1>4, <2>2 DEF ParseContext
<1> HIDE DEF k, b
<1>8. Longer(stream, decmt, decmt', n, k)
  BY <1>1, <1>6, <1>7, LongerIs
<1>9. /\ Mt(stream, decmt') /\ GrowsBlock(decmt, decmt', n)
      /\ decmt'.threads[n].endPos = decmt.threads[n].endPos + HeaderSize + k
  BY <1>8 DEF Longer
<1>10. decmt'.numThreads = n /\ decmt'.threads[n].startPos = decmt.threads[n].startPos
  BY <1>9 DEF GrowsBlock
<1>11. decmt'.threads[0].startPos = decmt.threads[0].startPos
  <2>1. CASE n = 0
    BY <1>10, <2>1
  <2>2. CASE n # 0
    <3>1. SameBlock(decmt.threads[0], decmt'.threads[0])
      BY <1>9, <2>2, ThreadIs DEF GrowsBlock
    <3>2. QED
      BY <3>1 DEF SameBlock
  <2>3. QED
    BY <2>1, <2>2
<1> DEFINE q == pc'
           e2 == decmt'.threads[n].endPos
<1>12. q \in {"parse", "read"} /\ (q = "read" => ~(e2 < Len(LastNode(decmt))))
  BY <1>1, <1>10 DEF InBlock
<1>13. e2 \in Nat
  <2>1. HeaderSize \in Nat
    BY StepPositive
  <2>2. QED
    BY <1>6, <1>7, <1>9, <2>1, SMTT(40)
<1>14. q = "read" => decmt'.threads[n].endPos >= Len(LastNode(decmt))
  BY <1>7, <1>12, <1>13
<1>15. status = "going" /\ WithinAt(stream, decmt, fds, "parse", parsed, status)
  BY <1>1, <1>2, InACall DEF Was
<1> HIDE DEF q, n
<1>16. WithinAt(stream, decmt', fds, q, parsed', status)
  BY <1>4, <1>6, <1>7, <1>9, <1>11, <1>12, <1>14, <1>15, WithinNextChunk
<1>17. QED
  BY <1>1, <1>16, Zenon DEF Stays, q

LEMMA FillWithin ==
  ASSUME NEW m, Mt(stream, m), InBlock(m).last = Len(m.chain), Fill(m), ~m.failState,
         Far(m), m.threads[0].startPos <= NodeSize
  PROVE  WithinAt(stream, decmt', fds, pc', parsed, status)
<1> DEFINE l == Len(m.chain)
           x == m.chain[l] \o Given(Min({Left, NodeSize - Len(LastNode(m))}))
<1>1. decmt' = [m EXCEPT !.chain[l] = x]
  BY DEF Fill
<1>2. pc' \in {"hash", "load"}
  BY DEF Fill
<1> HIDE DEF x
<1>3. decmt'.chain = [m.chain EXCEPT ![l] = x] /\ decmt'.threads = m.threads
      /\ decmt'.numThreads = m.numThreads /\ decmt'.failState = m.failState
  BY <1>1 DEF Mt
<1>4. m.chain \in Seq(Seq(1 .. Len(stream))) /\ l \in Nat
  BY MtFields
<1>5. Len(decmt'.chain) = l
  <2> DEFINE c == m.chain
             c2 == [c EXCEPT ![l] = x]
  <2>1. c \in Seq(Seq(1 .. Len(stream)))
    BY <1>4
  <2> HIDE DEF c
  <2> DEFINE T == Seq(1 .. Len(stream)) \cup {x}
  <2>2. c \in Seq(T) /\ x \in T
    <3>1. \A i \in 1 .. Len(c) : c[i] \in T
      BY <2>1
    <3>2. c \in [1 .. Len(c) -> T] /\ Len(c) \in Nat
      BY <2>1, <3>1
    <3>3. QED
      BY <3>2
  <2>3. Len(c2) = Len(c)
    <3>1. l \in 1 .. Len(c)
      BY <1>4, MtFields DEF c
    <3> HIDE DEF T
    <3>2. QED
      BY <2>2, <3>1, ExceptSeq
  <2>4. QED
    BY <1>3, <2>3 DEF c
<1> DEFINE q == pc'
           m2 == decmt'
<1>6. m2.threads = m.threads /\ m2.numThreads = m.numThreads /\ Len(m2.chain) = Len(m.chain)
      /\ ~m2.failState /\ q \in {"load", "hash"}
  BY <1>2, <1>3, <1>5
<1> HIDE DEF q, m2
<1>7. WithinAt(stream, m2, fds, q, parsed, status)
  BY <1>6, WithinFill
<1>8. QED
  BY <1>7 DEF q, m2

LEMMA ReadInputWithin ==
  ASSUME IInv, Was, ReadInput
  PROVE  Stays
<1>1. pc = "read" /\ Fill(decmt) /\ fds' = fds /\ parsed' = parsed /\ status' = status
  BY DEF ReadInput
<1>2. PICK o : InRead(o)
  BY <1>1, ReadingIs
<1>3. Mt(stream, decmt) /\ ~decmt.failState /\ fds.stage = "decomp" /\ InBlock(decmt).last = Len(decmt.chain)
  BY <1>2 DEF InRead, Parses, ParseContext
<1>4. status = "going"
  BY <1>1, InACall
<1>5. Far(decmt) /\ decmt.threads[0].startPos <= NodeSize
  BY <1>1, <1>3, <1>4 DEF Was, WithinAt
<1>6. WithinAt(stream, decmt', fds, pc', parsed, status)
  BY <1>1, <1>3, <1>5, FillWithin
<1>7. QED
  BY <1>1, <1>6, Zenon DEF Stays

LEMMA AddNodeWithin ==
  ASSUME IInv, Was, AddNode
  PROVE  Stays
<1> DEFINE m == WithNode(decmt)
           n == decmt.numThreads
           l == Len(decmt.chain)
<1>1. pc = "read" /\ NeedsNode /\ Fill(m) /\ fds' = fds /\ parsed' = parsed /\ status' = status
  BY DEF AddNode
<1>2. PICK o : InRead(o)
  BY <1>1, ReadingIs
<1>3. /\ ParseContext(stream, decmt, fds, input, o)
      /\ Core(stream, decmt, fds, input, "read", parsed, o)
      /\ n \in Thread /\ InBlock(decmt).last = l /\ LastNode(decmt) = decmt.chain[l]
  BY <1>2 DEF InRead, Parses
<1>4. decmt.threads[n].last = l /\ Len(decmt.chain[l]) = NodeSize
      /\ decmt.threads[n].endPos + Required >= NodeSize
  BY <1>1, <1>3 DEF NeedsNode, InBlock
<1>5. Mt(stream, decmt) /\ ~decmt.failState
  BY <1>3 DEF ParseContext
<1>6. n = decmt.numThreads /\ l = Len(decmt.chain) /\ m = WithNode(decmt) /\ l \in Nat
  BY <1>5, MtFields
<1>7. status = "going" /\ WithinAt(stream, decmt, fds, "read", parsed, status)
  BY <1>1, InACall DEF Was
<1> HIDE DEF m, n, l
<1>8. HasNode(stream, decmt, m, n, l)
  BY <1>3, <1>4, <1>5, <1>6, WithNodeIs
<1>9. Far(m) /\ m.threads[0].startPos <= NodeSize
  BY <1>3, <1>4, <1>6, <1>7, <1>8, WithinNode
<1>10. /\ Mt(stream, m) /\ ~m.failState /\ m.numThreads = n /\ m.threads[n].last = l + 1
  BY <1>5, <1>8 DEF HasNode
<1>11. Len(m.chain) = l + 1
  BY <1>3, <1>4, <1>6, <1>8, CoreWithNode
<1>12. InBlock(m).last = Len(m.chain)
  BY <1>10, <1>11 DEF InBlock
<1>13. WithinAt(stream, decmt', fds, pc', parsed, status)
  BY <1>1, <1>9, <1>10, <1>12, FillWithin
<1>14. QED
  BY <1>1, <1>13, Zenon DEF Stays

LEMMA AddNodeFailsWithin ==
  ASSUME IInv, Was, AddNodeFails
  PROVE  Stays
<1> DEFINE m == [decmt EXCEPT !.memTotal = Plus(decmt.memTotal, NodeSize)]
           n == decmt.numThreads
           l == Len(decmt.chain)
<1>1. /\ pc = "read" /\ NeedsNode /\ pc' = "failed"
      /\ fds' = fds /\ parsed' = parsed /\ status' = status
  BY DEF AddNodeFails
<1>2. IF InBlock(m).endPos < NodeSize THEN Rewind(m, m.numThreads)
      ELSE decmt' = m /\ input' = input
  BY DEF AddNodeFails
<1>3. PICK o : InRead(o)
  BY <1>1, ReadingIs
<1>4. /\ ParseContext(stream, decmt, fds, input, o)
      /\ Core(stream, decmt, fds, input, "read", parsed, o)
      /\ n \in Thread /\ InBlock(decmt).last = l /\ LastNode(decmt) = decmt.chain[l]
  BY <1>3 DEF InRead, Parses
<1>5. Len(LastNode(decmt)) = NodeSize /\ decmt.threads[n].endPos + Required >= NodeSize
  BY <1>1, <1>4 DEF NeedsNode, InBlock
<1>6. Mt(stream, decmt)
  BY <1>4 DEF ParseContext
<1>7. Mt(stream, m) /\ m.chain = decmt.chain /\ m.threads = decmt.threads /\ m.failState = decmt.failState
      /\ m.numThreads = n
  <2> DEFINE tot == Plus(decmt.memTotal, NodeSize)
  <2>1. m = [decmt EXCEPT !.memTotal = tot]
    OBVIOUS
  <2> HIDE DEF m, tot
  <2>2. QED
    BY <1>6, <2>1, TotalOnly
<1>8. InBlock(m) = decmt.threads[n] /\ n = decmt.numThreads
  BY <1>7 DEF InBlock
<1>9. decmt.threads[0].startPos <= NodeSize
  BY WasIs
<1> HIDE DEF m, n
<1>10. WithinAt(stream, decmt', fds, "failed", parsed, status)
  <2>1. CASE decmt.threads[n].endPos < NodeSize
    <3>1. Rewind(m, n)
      BY <1>2, <1>7, <1>8, <2>1
    <3>2. GivesBack(input, n, m, decmt', input')
      BY <3>1, ZenonT(30) DEF Rewind, GivesBack
    <3>3. QED
      BY <1>4, <1>5, <1>7, <1>8, <1>9, <2>1, <3>2, WithinNodeFailsBack
  <2>2. CASE ~(decmt.threads[n].endPos < NodeSize)
    <3>1. decmt' = m
      BY <1>2, <1>8, <2>2
    <3>2. WithinAt(stream, m, fds, "failed", parsed, status)
      BY <1>4, <1>5, <1>7, <1>8, <1>9, WithinNodeFails
    <3>3. QED
      BY <3>1, <3>2
  <2>3. QED
    BY <2>1, <2>2
<1>11. QED
  BY <1>1, <1>10, Zenon DEF Stays

LEMMA BlockCompleteWithin ==
  ASSUME IInv, LongBlocks(stream), Was, BlockComplete
  PROVE  Stays
<1> DEFINE n == decmt.numThreads
           fin == Chunks.res = "final"
           mm == EndMovedBy(decmt, n, fin)
<1>1. /\ pc = "parse" /\ Chunks.res \in {"dictReset", "final"}
      /\ fds' = fds /\ status' = status
  BY SMTT(30) DEF BlockComplete
<1>2. \E z \in HandleFinalChunk(mm, fin) :
        CASE z.res = "next"   -> decmt' = z.decmt /\ pc' = "read" /\ input' = input
          [] z.res = "ready"  -> GivesBack(input, n, Started(z.decmt), decmt', input') /\ pc' = "blocks"
          [] z.res = "memory" -> GivesBack(input, n, z.decmt, decmt', input') /\ pc' = "failed"
  BY ZenonT(40) DEF BlockComplete, EndMovedBy, Rewind, GivesBack
<1>3. PICK z \in HandleFinalChunk(mm, fin) :
        CASE z.res = "next"   -> decmt' = z.decmt /\ pc' = "read" /\ input' = input
          [] z.res = "ready"  -> GivesBack(input, n, Started(z.decmt), decmt', input') /\ pc' = "blocks"
          [] z.res = "memory" -> GivesBack(input, n, z.decmt, decmt', input') /\ pc' = "failed"
  BY <1>2
<1>4. pc # "idle" /\ pc \in {"load", "parse", "read", "blocks"}
  BY <1>1
<1>5. PICK o \in 0 .. Len(stream) : Parses(o) /\ Here(o)
  BY <1>4, InParse
<1>6. Core(stream, decmt, fds, input, "parse", parsed, o) /\ ParseContext(stream, decmt, fds, input, o)
  BY <1>1, <1>5 DEF Here, Parses
<1> DEFINE b == stream[End(decmt, o, n) + 1]
<1>7. n \in Thread /\ n = decmt.numThreads /\ Mt(stream, decmt) /\ n \in Nat /\ Len(decmt.chain) \in Nat
      /\ ~decmt.failState /\ fds.stage = "decomp" /\ decmt.threads[n].last = Len(decmt.chain)
  <2>1. "parse" \notin {"blocks", "failed", "error"}
    OBVIOUS
  <2>2. n \in Thread /\ decmt.threads[n].last = Len(decmt.chain)
    BY <1>6, <2>1, ParseContextIs
  <2>3. QED
    BY <1>6, <2>2, ThreadIs, MtFields DEF ParseContext
<1>8. /\ fin => b.kind = "end"
      /\ ~fin => IsReset(stream, End(decmt, o, n) + 1) /\ decmt.threads[n].unpackSize # 0
  <2>1. /\ Chunks.res = "final" => b.kind = "end"
        /\ Chunks.res = "dictReset" => IsReset(stream, End(decmt, o, n) + 1) /\ decmt.threads[n].unpackSize # 0
    BY <1>5, <1>6, ChunksIs
  <2>2. QED
    BY <1>1, <2>1
<1>9. fin \in BOOLEAN
  OBVIOUS
<1>10. status = "going" /\ Far(decmt) /\ decmt.threads[0].startPos <= NodeSize
  BY <1>1, <1>4, <1>7, InACall DEF Was, WithinAt
<1> HIDE DEF fin
<1>11. Ends(stream, decmt, o, n, fin)
  BY <1>8, Zenon DEF Ends
<1>12. PICK tot : Outcome(decmt, n, fin, tot, z)
  <2> HIDE DEF mm, n
  <2>1. mm = EndMovedBy(decmt, n, fin)
    BY DEF mm
  <2>2. z \in HandleFinalChunk(mm, fin)
    BY <1>3
  <2>3. QED
    BY <1>7, <1>9, <2>1, <2>2, HandleIs
<1> DEFINE c == CountedBlock(decmt, fin, tot)
           h == HeldBlock(decmt, n, fin, tot)
<1>13. Counted(stream, decmt, c, n, fin)
  BY <1>7, <1>9, CountedIs
<1>14. Counted(stream, decmt, h, n, fin)
  <2> HIDE DEF n
  <2>1. QED
    BY <1>7, <1>9, <1>13, HeldCounted
<1>15. h.threads[0].startPos <= NodeSize
  <2> HIDE DEF h
  <2>1. CASE n = 0
    BY <1>10, <1>14, <2>1 DEF Counted
  <2>2. CASE n # 0
    <3>1. h.threads[0] = decmt.threads[0]
      BY <1>14, <2>2, ThreadIs DEF Counted
    <3>2. QED
      BY <1>10, <3>1
  <2>3. QED
    BY <2>1, <2>2
<1>16. CASE z.res = "memory"
  <2>1. z.decmt = c
    BY <1>12, <1>16 DEF Outcome
  <2>2. GivesBack(input, n, c, decmt', input') /\ pc' = "failed"
    BY <1>3, <1>16, <2>1
  <2> HIDE DEF c, n
  <2>3. WithinAt(stream, decmt', fds, "failed", parsed', status')
    BY <1>6, <1>7, <1>9, <1>10, <1>11, <1>13, <2>2, WithinCut
  <2>4. QED
    BY <1>1, <2>2, <2>3, Zenon DEF Stays
<1>17. CASE z.res = "ready"
  <2>1. z.decmt = h
    BY <1>12, <1>17 DEF Outcome
  <2>2. GivesBack(input, n, Started(h), decmt', input') /\ pc' = "blocks"
    BY <1>3, <1>17, <2>1
  <2> DEFINE g == Started(h)
  <2>3. Mt(stream, g) /\ SameBlocks(h, g) /\ g.failState = h.failState
    <3>1. Mt(stream, h)
      BY <1>14 DEF Counted
    <3> HIDE DEF h
    <3>2. QED
      BY <3>1, StartedIs
  <2>4. g.threads[0].startPos <= NodeSize /\ ~g.failState
    <3>1. g.threads[0].startPos = h.threads[0].startPos
      BY <2>3, ThreadIs DEF SameBlocks, SameBlock
    <3>2. h.failState = decmt.failState
      BY <1>14 DEF Counted
    <3> HIDE DEF g, h
    <3>3. QED
      BY <1>7, <1>15, <2>3, <3>1, <3>2
  <2> HIDE DEF g
  <2>5. decmt'.threads = g.threads /\ decmt'.failState = g.failState
    <3>1. GivesBack(input, n, g, decmt', input')
      BY <2>2 DEF g
    <3>2. PICK i, x : decmt' = [g EXCEPT !.chain[i] = x]
      BY <3>1 DEF GivesBack
    <3>3. QED
      BY <2>3, <3>2 DEF Mt
  <2>6. decmt'.threads[0].startPos <= NodeSize /\ ~decmt'.failState
    BY <2>4, <2>5
  <2>7. Idle(decmt', fds, "blocks", status')
    BY <2>6 DEF Idle
  <2>8. WithinAt(stream, decmt', fds, "blocks", parsed', status')
    BY <2>6, <2>7, WithinIdle
  <2>9. QED
    BY <1>1, <2>2, <2>8, Zenon DEF Stays
<1>18. CASE z.res = "next"
  <2>1. /\ ~fin /\ n + 1 # Threads
        /\ z.decmt = [h EXCEPT !.threads[n + 1] = NewBlock(@, mm.threads[n].last, mm.threads[n].endPos)]
    BY <1>12, <1>18 DEF Outcome
  <2>2. decmt' = z.decmt /\ pc' = "read"
    BY <1>3, <1>18
  <2>3. mm.threads[n].last = decmt.threads[n].last /\ mm.threads[n].endPos = decmt.threads[n].endPos
    BY <1>7, <2>1, NotMoved
  <2>4. /\ Mt(stream, h) /\ h.numThreads = n + 1 /\ h.chain = decmt.chain
        /\ h.failState = decmt.failState
        /\ h.threads[n].last = decmt.threads[n].last
        /\ h.threads[n].endPos = decmt.threads[n].endPos + 0
    BY <1>14, <2>1 DEF Counted
  <2>5. h.threads[n].endPos = decmt.threads[n].endPos
    <3>1. decmt.threads[n].endPos \in Nat
      BY <1>7, MtFields, ThreadFields
    <3>2. QED
      BY <2>4, <3>1
  <2> DEFINE node == mm.threads[n].last
             pos == mm.threads[n].endPos
  <2>6. decmt' = [h EXCEPT !.threads[n + 1] = NewBlock(@, node, pos)]
    BY <2>1, <2>2
  <2>7. node = h.threads[n].last /\ pos = h.threads[n].endPos /\ node = Len(decmt.chain)
    BY <1>7, <2>3, <2>4, <2>5
  <2>8. n + 1 < Threads
    BY <1>7, <2>1, ThreadIs
  <2> HIDE DEF h, node, pos, mm, n
  <2>9. NextBlock(stream, h, decmt', n)
    BY <1>7, <2>4, <2>6, <2>7, <2>8, NextIs
  <2>10. /\ decmt'.numThreads = n + 1 /\ decmt'.threads[n + 1].first = Len(decmt'.chain)
         /\ decmt'.threads[n + 1].startPos = decmt'.threads[n + 1].endPos
         /\ ~decmt'.failState
    BY <1>7, <2>4, <2>7, <2>9 DEF NextBlock
  <2>11. decmt'.threads[0].startPos <= NodeSize
    <3>1. 0 \in 0 .. n
      BY <1>7
    <3>2. SameBlock(h.threads[0], decmt'.threads[0])
      BY <2>9, <3>1 DEF NextBlock
    <3>3. QED
      BY <1>15, <3>2 DEF SameBlock
  <2>12. WithinAt(stream, decmt', fds, "read", parsed', status')
    BY <2>10, <2>11, WithinNextBlock
  <2>13. QED
    BY <1>1, <2>2, <2>12, Zenon DEF Stays
<1>19. QED
  BY <1>12, <1>16, <1>17, <1>18 DEF Outcome

LEMMA OneDecodesStart ==
  ASSUME NEW s, NEW m, Mt(s, m), NEW t \in Thread, NEW th2, th2.startPos = m.threads[t].startPos,
         NEW m2, OneDecodes(m, t, th2, m2)
  PROVE  m2.threads[0].startPos = m.threads[0].startPos /\ m2.failState = m.failState
<1>1. m2.threads = [m.threads EXCEPT ![t] = th2] /\ m2.failState = m.failState
  BY DEF OneDecodes, Mt
<1>2. m.threads \in [Thread -> ThreadState] /\ 0 \in Thread
  BY MtFields, ThreadIs
<1>3. m2.threads[0] = IF t = 0 THEN th2 ELSE m.threads[0]
  BY <1>1, <1>2
<1>4. QED
  BY <1>1, <1>3

LEMMA BlockStepWithin ==
  ASSUME IInv, Was, NEW t \in Thread, BlockStep(t)
  PROVE  Stays
<1> DEFINE th == decmt.threads[t]
<1>1. /\ pc = "blocks" /\ fds' = fds /\ pc' = pc /\ parsed' = parsed /\ status' = status
  BY DEF BlockStep
<1>2. Mt(stream, decmt) /\ ~decmt.failState
  BY <1>1, TypedHere DEF IInv, Phases
<1>3. th \in ThreadState
  BY <1>2, MtFields
<1>4. \E th2 : OneDecodes(decmt, t, th2, decmt') /\ th2.startPos = th.startPos
  <2>1. CASE canceled
    <3> DEFINE x == [th EXCEPT !.res = "canceled"]
    <3>1. OneDecodes(decmt, t, x, decmt')
      BY <2>1 DEF BlockStep, OneDecodes
    <3>2. x.startPos = th.startPos
      <4> HIDE DEF th
      <4>1. QED
        BY <1>3 DEF ThreadState
    <3>3. QED
      BY <3>1, <3>2
  <2>2. CASE ~canceled
    <3>1. PICK z : decmt' = [decmt EXCEPT !.threads[t] = Decoded(th, decmt.chain[th.cur], z)]
      BY <2>2 DEF BlockStep
    <3> DEFINE x == Decoded(th, decmt.chain[th.cur], z)
    <3>2. OneDecodes(decmt, t, x, decmt')
      BY <3>1 DEF OneDecodes
    <3>3. x.startPos = th.startPos
      <4> HIDE DEF th
      <4>1. QED
        BY <1>3 DEF ThreadState, Decoded
    <3>4. QED
      BY <3>2, <3>3
  <2>3. QED
    BY <2>1, <2>2
<1>5. decmt'.threads[0].startPos <= NodeSize /\ ~decmt'.failState
  <2>1. PICK th2 : OneDecodes(decmt, t, th2, decmt') /\ th2.startPos = th.startPos
    BY <1>4
  <2>2. decmt'.threads[0].startPos = decmt.threads[0].startPos /\ decmt'.failState = decmt.failState
    BY <1>2, <2>1, OneDecodesStart
  <2>3. QED
    BY <1>2, <2>2, WasIs
<1>6. Idle(decmt', fds, "blocks", status)
  BY <1>5 DEF Idle
<1>7. WithinAt(stream, decmt', fds, "blocks", parsed, status)
  BY <1>5, <1>6, WithinIdle
<1>8. QED
  BY <1>1, <1>7, Zenon DEF Stays

LEMMA BlocksDoneWithin ==
  ASSUME IInv, Was, BlocksDone
  PROVE  Stays
<1> DEFINE n == decmt.numThreads
           l == Len(decmt.chain)
           v == decmt.threads[n - 1].endPos
<1>1. /\ pc = "blocks" /\ decmt' = [Rest(decmt) EXCEPT !.srcThread = 0, !.srcPos = 0]
      /\ status' = status
      /\ pc' = "error" \/ (pc' = "write" /\ fds' = [fds EXCEPT !.stage = "mtWrite"])
  BY DEF BlocksDone
<1>2. PICK o \in 0 .. Len(stream) :
        ParseContext(stream, decmt, fds, input, o) /\ Blocks(stream, decmt, o, input.pos)
  BY <1>1, InBlocks
<1>3. Mt(stream, decmt) /\ ~decmt.failState /\ Own(stream, fds)
  BY <1>2 DEF ParseContext
<1>4. n > 0 /\ decmt.threads[n - 1].last = l /\ Complete(stream, decmt, o, n - 1)
  <2>1. n \in Nat
    BY <1>3, MtFields, ThreadIs
  <2>2. n > 0 /\ decmt.threads[n - 1].last = l
    BY <1>2 DEF Blocks
  <2>3. n - 1 \in 0 .. n - 1
    BY <2>1, <2>2
  <2>4. QED
    BY <1>2, <2>2, <2>3 DEF Blocks
<1>5. v <= NodeSize
  <2>1. v <= Len(decmt.chain[l])
    BY <1>4 DEF Complete
  <2>2. l \in 1 .. l /\ Len(decmt.chain[l]) <= NodeSize
    <3>1. l \in Nat /\ l > 0 /\ \A i \in 1 .. l : Len(decmt.chain[i]) <= NodeSize
      BY <1>3, MtFields
    <3>2. QED
      BY <3>1
  <2>3. v \in Nat /\ Len(decmt.chain[l]) \in Nat /\ NodeSize \in Nat
    <3>1. n - 1 \in Thread
      <4>1. n \in 0 .. Threads
        BY <1>3, MtFields
      <4>2. QED
        BY <1>4, <4>1, ThreadIs
    <3>2. v \in Nat
      BY <1>3, <3>1, MtFields, ThreadFields
    <3>3. Len(decmt.chain[l]) \in Nat
      BY <1>3, <2>2, MtFields
    <3>4. QED
      BY <3>2, <3>3, StepPositive
  <2> HIDE DEF v
  <2>4. QED
    BY <2>1, <2>2, <2>3
<1>6. OneLeft(stream, decmt, decmt', l, v)
  <2>1. RestFrom(decmt, decmt')
    BY <1>1 DEF RestFrom
  <2>2. n = decmt.numThreads /\ l = Len(decmt.chain)
    OBVIOUS
  <2>3. v = decmt.threads[n - 1].endPos
    OBVIOUS
  <2> HIDE DEF n, l, v
  <2>4. OneLeft(stream, decmt, decmt', l, decmt.threads[n - 1].endPos)
    BY <1>3, <1>4, <2>1, <2>2, RestIsOne
  <2>5. QED
    BY <2>3, <2>4
<1>7. decmt'.threads[0].startPos <= NodeSize /\ ~decmt'.failState
  <2> HIDE DEF v
  <2>1. QED
    BY <1>3, <1>5, <1>6 DEF OneLeft
<1>8. Idle(decmt', fds', pc', status') /\ pc' # "overrun"
  <2>1. CASE pc' = "error"
    BY <2>1 DEF Idle
  <2>2. CASE pc' = "write" /\ fds' = [fds EXCEPT !.stage = "mtWrite"]
    <3>1. fds'.stage = "mtWrite"
      BY <1>3, <2>2 DEF Own
    <3>2. QED
      BY <1>7, <2>2, <3>1 DEF Idle
  <2>3. QED
    BY <1>1, <2>1, <2>2
<1>9. QED
  BY <1>7, <1>8, WithinIdle DEF Stays

LEMMA WriteBlockWithin ==
  ASSUME IInv, Was, WriteBlock
  PROVE  Stays
<1> DEFINE th == decmt.threads[decmt.srcThread]
           n == Min({th.bufSize - decmt.srcPos, room})
           more == decmt.srcPos + n < th.bufSize
           last == decmt.srcThread + 1 = decmt.numThreads
           t2 == IF more THEN decmt.srcThread ELSE decmt.srcThread + 1
           p2 == IF more THEN decmt.srcPos + n ELSE 0
           next == [decmt EXCEPT !.srcThread = t2, !.srcPos = p2]
<1>1. /\ pc = "write" /\ parsed' = parsed /\ status' = status
      /\ pc' = IF more \/ last THEN "hash" ELSE "write"
  BY ZenonT(60) DEF WriteBlock
<1>2. /\ decmt' = IF ~more /\ last THEN FreeOutputBuffers(next) ELSE next
      /\ ~(~more /\ last) => fds' = fds
  <2>1. next = [decmt EXCEPT !.srcThread = IF more THEN @ ELSE @ + 1,
                             !.srcPos = IF more THEN @ + n ELSE 0]
    BY SMTT(30)
  <2>2. QED
    BY <2>1 DEF WriteBlock
<1>3. PICK o : InWrite(o)
  BY <1>1, WritingIs
<1>4. /\ Core(stream, decmt, fds, input, "write", parsed, o)
      /\ Mt(stream, decmt) /\ fds.stage = "mtWrite" /\ ~decmt.failState /\ room \in Nat
  BY <1>3 DEF InWrite
<1>5. Writing(stream, decmt, o, input.pos)
  BY <1>4, WritingAt
<1>6. Len(decmt.chain) = 1 /\ decmt.threads[0].startPos <= NodeSize
  BY <1>5, WasIs DEF Writing
<1> HIDE DEF more, last, t2, p2
<1>7. next.chain = decmt.chain /\ next.threads = decmt.threads /\ next.failState = decmt.failState
  BY <1>4 DEF Mt
<1>8. CASE ~more /\ last
  <2>1. decmt' = FreeOutputBuffers(next) /\ pc' = "hash"
    BY <1>1, <1>2, <1>8
  <2>2. Mt(stream, next)
    <3>1. SourceAt(decmt, next, t2, p2)
      BY DEF SourceAt
    <3>2. t2 \in Nat /\ p2 \in Nat
      <4>1. decmt.srcThread \in Nat /\ decmt.srcPos \in Nat
        BY <1>4, MtFields
      <4>2. t2 = decmt.srcThread + 1 /\ p2 = 0
        BY <1>8 DEF t2, p2
      <4>3. QED
        BY <4>1, <4>2
    <3> HIDE DEF next
    <3>3. QED
      BY <1>4, <3>1, <3>2, SourceIs
  <2> HIDE DEF next
  <2>3. decmt'.chain = next.chain /\ decmt'.failState = next.failState /\ SameBlocks(next, decmt')
    BY <2>1, <2>2, FreedIs
  <2>4. Len(decmt'.chain) = 1 /\ ~decmt'.failState
    BY <1>4, <1>6, <1>7, <2>3
  <2>5. decmt'.threads[0].startPos <= NodeSize
    <3>1. SameBlock(next.threads[0], decmt'.threads[0])
      BY <2>3, ThreadIs DEF SameBlocks
    <3>2. QED
      BY <1>6, <1>7, <3>1 DEF SameBlock
  <2>6. Idle(decmt', fds', pc', status') /\ pc' # "overrun"
    BY <2>1, <2>4 DEF Idle
  <2>7. QED
    BY <2>5, <2>6, WithinIdle DEF Stays
<1>9. CASE ~(~more /\ last)
  <2>1. decmt' = next /\ fds' = fds /\ pc' \in {"hash", "write"}
    BY <1>1, <1>2, <1>9
  <2>2. decmt'.threads[0].startPos <= NodeSize /\ ~decmt'.failState /\ fds'.stage # "decomp"
    BY <1>4, <1>6, <1>7, <2>1
  <2>3. Idle(decmt', fds', pc', status') /\ pc' # "overrun"
    BY <2>1, <2>2 DEF Idle
  <2>4. QED
    BY <2>2, <2>3, WithinIdle DEF Stays
<1>10. QED
  BY <1>8, <1>9

(* One thread goes on from a place within the chain.                       *)
LEMMA NodeWithin ==
  ASSUME IInv, pc = "failed", NEW m, NEW d, NEW o, o \in 0 .. Len(stream),
         Going(stream, m, d, fds, input, o), DecompressNode(m, d),
         Inside(stream, m, m.cur, m.curPos, fds.stage), m.threads[0].startPos <= NodeSize
  PROVE  WithinAt(stream, decmt', fds', pc', parsed', status')
<1> DEFINE node == m.chain[m.cur]
           bytes == SubSeq(node, m.curPos + 1, Len(node))
<1>1. /\ stream \in Streams /\ Own(stream, fds) /\ Buffer(stream, input) /\ room \in Nat /\ o \in Nat
  BY InACall
<1>2. InChain(stream, m, o, m.cur, m.curPos, fds.stage)
  <2>1. m.chain[1] # <<>> /\ Nodes(m, o)
    BY SMTT(30) DEF Going, Accounted
  <2>2. QED
    BY <1>1, <2>1 DEF Inside
<1>3. ~(m.curPos > Len(node))
  <2>1. m.curPos <= Len(node)
    BY <1>2 DEF InChain
  <2>2. NodeAt(stream, m, o, m.cur, node, At(o, m.cur)) /\ Mt(stream, m)
    <3>1. Mt(stream, m) /\ m.failState /\ m.chain[1] # <<>>
      BY SMTT(30) DEF Going
    <3> DEFINE i == m.cur
               a == At(o, i)
    <3>2. i = m.cur /\ node = m.chain[i] /\ a = At(o, i)
      OBVIOUS
    <3> HIDE DEF i, node, a
    <3>3. NodeAt(stream, m, o, i, node, a)
      BY <1>1, <3>2, NodeIs
    <3>4. QED
      BY <3>1, <3>2, <3>3
  <2>3. Len(node) \in Nat /\ m.curPos \in Nat
    BY <2>2, MtFields DEF NodeAt
  <2> HIDE DEF node
  <2>4. QED
    BY <2>1, <2>3
<1>4. PICK z \in DecompressInput(d, bytes) :
        LET pos   == m.curPos + z.used
            moves == pos + Required >= Len(node)
            last  == m.cur = Len(m.chain)
        IN  IF z.res = "corrupt"
            THEN decmt' = m /\ Rejected /\ UNCHANGED <<room, out, fds>>
            ELSE
            /\ Emits(z)
            /\ decmt' = CASE moves /\ last  -> FreeExtraInbufNodes([m EXCEPT !.cur = 0])
                          [] moves /\ ~last -> [m EXCEPT !.cur = @ + 1,
                                                         !.curPos = pos - (Len(node) - Required)]
                          [] ~moves         -> [m EXCEPT !.curPos = pos]
            /\ fds' = [fds EXCEPT !.dec = z.dec, !.stage = StageAfter(z),
                         !.overlap = IF moves /\ last THEN SubSeq(node, pos + 1, Len(node)) ELSE @]
            /\ pc' = "hash" /\ UNCHANGED ret
  BY <1>3 DEF DecompressNode
<1>5. z \in Input(stream, fds, d, bytes, room)
  BY <1>4 DEF DecompressInput, Input
<1>6. CASE z.res = "corrupt"
  <2>1. decmt' = m /\ pc' = "error"
    BY <1>4, <1>6 DEF Rejected
  <2>2. Idle(decmt', fds', pc', status') /\ pc' # "overrun" /\ decmt'.threads[0].startPos <= NodeSize
    BY <2>1 DEF Idle
  <2>3. QED
    BY <2>2, WithinIdle
<1>7. CASE z.res # "corrupt"
  <2> DEFINE pos == m.curPos + z.used
  <2>1. pc' = "hash"
    BY <1>4, <1>7
  <2>2. NodeTaken(m, decmt', node, pos)
    BY <1>4, <1>7 DEF NodeTaken
  <2>3. fds'.stage = After(fds, z)
    <3>1. StageAfter(z) = After(fds, z)
      BY DEF StageAfter, After
    <3>2. PICK ov : fds' = [fds EXCEPT !.dec = z.dec, !.stage = StageAfter(z), !.overlap = ov]
      BY <1>4, <1>7
    <3>3. QED
      BY <1>1, <3>1, <3>2 DEF Own
  <2>4. z \in Input(stream, fds, d, SubSeq(node, m.curPos + 1, Len(node)), room)
    BY <1>5
  <2> DEFINE i == m.cur
  <2>5. pos = m.curPos + z.used /\ node = m.chain[i] /\ i = m.cur
    OBVIOUS
  <2>6. InChain(stream, m, o, i, m.curPos, fds.stage)
    BY <1>2
  <2> HIDE DEF pos, node, bytes, i
  <2>7. WithinAt(stream, decmt', fds', "hash", parsed', status')
    BY <1>1, <1>7, <2>2, <2>3, <2>4, <2>5, <2>6, WithinTaken, ZenonT(60)
  <2>8. QED
    BY <2>1, <2>7
<1>8. QED
  BY <1>6, <1>7

LEMMA SwitchedIs ==
  ASSUME NEW s, NEW m, Mt(s, m), NEW m2, SwitchedFrom(m, m2)
  PROVE  /\ m2.chain = m.chain /\ m2.threads[0].startPos = m.threads[0].startPos
         /\ m2.cur = m.threads[0].first /\ m2.curPos = m.threads[0].startPos
<1> DEFINE x == FreeOutputBuffers(m)
<1>1. Mt(s, x) /\ x.chain = m.chain /\ SameBlocks(m, x)
  BY FreedIs
<1>2. m2 = [x EXCEPT !.cur = m.threads[0].first, !.curPos = m.threads[0].startPos, !.failState = TRUE]
  BY DEF SwitchedFrom
<1> HIDE DEF x
<1>3. m2.chain = x.chain /\ m2.threads = x.threads /\ m2.cur = m.threads[0].first
      /\ m2.curPos = m.threads[0].startPos
  BY <1>1, <1>2 DEF Mt
<1>4. x.threads[0].startPos = m.threads[0].startPos
  BY <1>1, ThreadIs DEF SameBlocks, SameBlock
<1>5. QED
  BY <1>1, <1>3, <1>4

LEMMA DecompressFailedWithin ==
  ASSUME IInv, Was, DecompressFailed
  PROVE  Stays
<1>1. /\ pc = "failed" /\ decmt.chain[1] # <<>>
      /\ IF decmt.failState THEN DecompressNode(decmt, fds.dec)
         ELSE DecompressNode(SwitchToSt, InitDecoder)
  BY DEF DecompressFailed
<1>2. PICK o : InFailed(o)
  BY <1>1, FailedIs
<1>3. /\ o \in 0 .. Len(stream) /\ Core(stream, decmt, fds, input, "failed", parsed, o)
      /\ Mt(stream, decmt) /\ Own(stream, fds) /\ (~decmt.failState => fds.stage = "decomp")
  BY <1>2 DEF InFailed
<1>4. status = "going" /\ decmt.threads[0].startPos <= NodeSize
  BY <1>1, InACall, WasIs
<1>5. CASE decmt.failState
  <2>1. Going(stream, decmt, fds.dec, fds, input, o)
    BY <1>1, <1>3, <1>5, GoesOnAlone
  <2>2. DecompressNode(decmt, fds.dec)
    BY <1>1, <1>5
  <2>3. Inside(stream, decmt, decmt.cur, decmt.curPos, fds.stage)
    BY <1>1, <1>4, <1>5 DEF Was, WithinAt
  <2>4. QED
    BY <1>1, <1>3, <1>4, <2>1, <2>2, <2>3, NodeWithin DEF Stays
<1>6. CASE ~decmt.failState
  <2> DEFINE m2 == SwitchToSt
  <2>1. SwitchedFrom(decmt, m2)
    BY DEF SwitchedFrom, SwitchToSt
  <2>2. DecompressNode(m2, InitDecoder)
    BY <1>1, <1>6
  <2> HIDE DEF m2
  <2>3. Going(stream, m2, InitDecoder, fds, input, o)
    BY <1>3, <1>6, <2>1, SwitchGoes
  <2>4. Inside(stream, decmt, decmt.threads[0].first, decmt.threads[0].startPos, fds.stage)
    BY <1>1, <1>3, <1>4, <1>6 DEF Was, WithinAt
  <2>5. /\ m2.chain = decmt.chain /\ m2.threads[0].startPos = decmt.threads[0].startPos
        /\ m2.cur = decmt.threads[0].first /\ m2.curPos = decmt.threads[0].startPos
    BY <1>3, <2>1, SwitchedIs
  <2>6. Inside(stream, m2, m2.cur, m2.curPos, fds.stage)
    <3> DEFINE i == decmt.threads[0].first
               a == decmt.threads[0].startPos
    <3>1. m2.cur = i /\ m2.curPos = a /\ Inside(stream, decmt, i, a, fds.stage)
      BY <2>4, <2>5
    <3> HIDE DEF i, a
    <3>2. \A q : Nodes(m2, q) => Nodes(decmt, q)
      BY <2>5 DEF Nodes
    <3>3. \A q : Tip(m2, q) = Tip(decmt, q)
      BY <2>5 DEF Tip
    <3>4. \A q, c : Bound(stream, decmt, q, c) => Bound(stream, m2, q, c)
      BY <2>5, <3>3 DEF Bound
    <3>5. \A q : InChain(stream, decmt, q, i, a, fds.stage) => InChain(stream, m2, q, i, a, fds.stage)
      BY <2>5, <3>3, <3>4 DEF InChain
    <3>6. Inside(stream, m2, i, a, fds.stage)
      BY <2>5, <3>1, <3>2, <3>5 DEF Inside
    <3>7. QED
      BY <3>1, <3>6
  <2>7. QED
    BY <1>1, <1>3, <1>4, <2>2, <2>3, <2>5, <2>6, NodeWithin DEF Stays
<1>7. QED
  BY <1>5, <1>6

LEMMA SwitchFailsWithin ==
  ASSUME IInv, Was, SwitchFails
  PROVE  Stays
<1>1. pc' = "error" /\ decmt' = SwitchToSt
  BY DEF SwitchFails
<1>2. SwitchedFrom(decmt, decmt') /\ Mt(stream, decmt)
  BY <1>1, TypedHere DEF SwitchedFrom, SwitchToSt
<1>3. decmt'.threads[0].startPos <= NodeSize
  <2>1. decmt'.threads[0].startPos = decmt.threads[0].startPos
    BY <1>2, SwitchedIs
  <2>2. QED
    BY <2>1, WasIs
<1>4. Idle(decmt', fds', pc', status') /\ pc' # "overrun"
  BY <1>1 DEF Idle
<1>5. QED
  BY <1>3, <1>4, WithinIdle DEF Stays

(* The chain is used up.                                                   *)
LEMMA AloneWithin ==
  ASSUME Was, decmt' = decmt, decmt.failState, decmt.chain[1] = <<>>, pc' # "overrun"
  PROVE  Stays
<1>1. Idle(decmt', fds', pc', status') /\ decmt'.threads[0].startPos <= NodeSize
  BY WasIs DEF Idle
<1>2. QED
  BY <1>1, WithinIdle DEF Stays

LEMMA DecompressOverlapWithin ==
  ASSUME IInv, Was, DecompressOverlap
  PROVE  Stays
<1>1. pc = "failed" /\ decmt.chain[1] = <<>> /\ decmt' = decmt
  BY DEF DecompressOverlap
<1>2. pc' \in {"direct", "error"}
  BY DEF DecompressOverlap, Rejected
<1>3. PICK o : InFailed(o)
  BY <1>1, FailedIs
<1>4. decmt.failState
  <2>1. SUFFICES ASSUME ~decmt.failState PROVE FALSE
    OBVIOUS
  <2>2. SeveralThreads(stream, decmt, fds, input, "failed", parsed, o) /\ fds.stage = "decomp"
    BY <1>3, <2>1 DEF Core, InFailed
  <2>3. FailPending(stream, decmt, input.pos)
    BY <2>2 DEF SeveralThreads
  <2>4. QED
    BY <1>1, <2>3 DEF FailPending
<1>5. pc' # "overrun"
  BY <1>2
<1>6. QED
  BY <1>1, <1>4, <1>5, AloneWithin

LEMMA DecompressDirectWithin ==
  ASSUME IInv, Was, DecompressDirect
  PROVE  Stays
<1>1. pc = "direct" /\ decmt' = decmt
  BY DEF DecompressDirect
<1>2. pc' \in {"hash", "error"}
  BY DEF DecompressDirect, Rejected
<1>3. decmt.failState /\ decmt.chain[1] = <<>>
  BY <1>1 DEF IInv, Phases
<1>4. pc' # "overrun"
  BY <1>2
<1>5. QED
  BY <1>1, <1>3, <1>4, AloneWithin

-----------------------------------------------------------------------------
(* The end of a call, and the caller.                                      *)
LEMMA AfterDecoding ==
  ASSUME NEW s, NEW m, NEW f, NEW p, NEW r, NEW st, WithinAt(s, m, f, p, r, st), st = "going",
         p # "error", f.stage # "decomp", NEW g, g.stage # "decomp", NEW q, q # "overrun", NEW r2, NEW st2
  PROVE  WithinAt(s, m, g, q, r2, st2)
<1>1. m.failState => Inside(s, m, m.cur, m.curPos, g.stage)
  BY DEF WithinAt, Inside, InChain
<1>2. QED
  BY <1>1 DEF WithinAt

LEMMA HashWithin ==
  ASSUME IInv, Was, Hash
  PROVE  Stays
<1>1. pc = "hash" /\ decmt' = decmt /\ pc' \in {"report", "idle"}
  BY DEF Hash, EndCall
<1>2. status = "going" /\ Own(stream, fds)
  BY <1>1, InACall
<1> DEFINE q == pc'
<1>3. q \notin {"overrun", "blocks", "failed", "read"} /\ pc \notin {"blocks", "failed", "error"}
  BY <1>1
<1>4. CASE fds.stage # "hash"
  <2>1. fds' = fds
    BY <1>4 DEF Hash
  <2> HIDE DEF q
  <2>2. WithinAt(stream, decmt, fds, q, parsed', status')
    BY <1>2, <1>3, WithinSame DEF Was
  <2>3. QED
    BY <1>1, <2>1, <2>2, Zenon DEF Stays, q
<1>5. CASE fds.stage = "hash"
  <2>1. fds' = [fds EXCEPT !.overlap = <<>>, !.hash = HashBytes.hash,
                  !.stage = IF Len(HashBytes.hash) = HashSize /\ HashMatches(HashBytes.hash)
                            THEN "finished" ELSE @]
    BY <1>5 DEF Hash
  <2>2. fds'.stage # "decomp"
    BY <1>2, <1>5, <2>1 DEF Own
  <2>3. fds.stage # "decomp" /\ q # "overrun" /\ pc # "error"
    BY <1>3, <1>5
  <2> DEFINE g == fds'
  <2> HIDE DEF q
  <2>4. g.stage # "decomp"
    BY <2>2
  <2> HIDE DEF g
  <2>5. WithinAt(stream, decmt, g, q, parsed', status')
    BY <1>2, <2>3, <2>4, AfterDecoding DEF Was
  <2>6. QED
    BY <1>1, <2>5, Zenon DEF Stays, q, g
<1>6. QED
  BY <1>4, <1>5

(* What was allocated is freed.                                            *)
LEMMA CleanWithin ==
  ASSUME IInv, Was, decmt' = Cleanup(decmt), pc' \notin {"overrun", "read", "failed"}
  PROVE  Stays
<1>1. Mt(stream, decmt)
  BY TypedHere
<1>2. decmt'.chain = << <<>> >> /\ decmt'.failState = decmt.failState /\ SameBlocks(decmt, decmt')
  BY <1>1, CleanedIs
<1>3. decmt'.threads[0].startPos <= NodeSize
  <2>1. SameBlock(decmt.threads[0], decmt'.threads[0])
    BY <1>2, ThreadIs DEF SameBlocks
  <2>2. QED
    BY <2>1, WasIs DEF SameBlock
<1>4. Len(decmt'.chain) = 1 /\ decmt'.chain[1] = <<>>
  BY <1>2
<1>5. Idle(decmt', fds', pc', status')
  BY <1>4 DEF Idle
<1>6. QED
  BY <1>3, <1>5, WithinIdle DEF Stays

LEMMA ReportWithin ==
  ASSUME IInv, Was, Report
  PROVE  Stays
<1>1. pc = "report" /\ pc' \in {"canceling", "idle"} /\ (decmt' = decmt \/ decmt' = Cleanup(decmt))
  BY DEF Report, EndCall
<1>2. CASE decmt' = Cleanup(decmt)
  <2>1. pc' \notin {"overrun", "read", "failed"}
    BY <1>1
  <2>2. QED
    BY <1>2, <2>1, CleanWithin
<1>3. CASE decmt' = decmt
  <2>1. status = "going" /\ Own(stream, fds)
    BY <1>1, InACall
  <2>2. fds'.stage = fds.stage
    <3>1. PICK k : fds' = [fds EXCEPT !.loopCount = k]
      BY DEF Report
    <3>2. QED
      BY <2>1, <3>1 DEF Own
  <2> DEFINE q == pc'
             g == fds'
  <2>3. q \notin {"overrun", "blocks", "failed", "read"} /\ pc \notin {"blocks", "failed", "error"}
        /\ g.stage = fds.stage
    BY <1>1, <2>2
  <2> HIDE DEF q, g
  <2>4. WithinAt(stream, decmt, g, q, parsed', status')
    BY <2>1, <2>3, WithinSame DEF Was
  <2>5. QED
    BY <1>3, <2>4, Zenon DEF Stays, q, g
<1>4. QED
  BY <1>1, <1>2, <1>3

LEMMA ErrorWithin ==
  ASSUME IInv, Was, Error
  PROVE  Stays
<1>1. decmt' = Cleanup(decmt) /\ pc' = "idle"
  BY DEF Error, EndCall
<1>2. pc' \notin {"overrun", "read", "failed"}
  BY <1>1
<1>3. QED
  BY <1>1, <1>2, CleanWithin

LEMMA CancelDStreamWithin ==
  ASSUME IInv, Was, CancelDStream
  PROVE  Stays
<1>1. user = "free" /\ fds' = fds /\ pc' = pc /\ parsed' = parsed
  BY DEF CancelDStream
<1>2. CASE thread
  <2>1. decmt' = decmt /\ status' = status
    BY <1>2 DEF CancelDStream
  <2>2. QED
    BY <1>1, <2>1, WithinNothing
<1>3. CASE ~thread
  <2>1. decmt' = Cleanup(decmt)
    BY <1>3 DEF CancelDStream
  <2>2. pc = "idle"
    BY <1>1, <1>3, FlagsIs DEF Places
  <2>3. pc' \notin {"overrun", "read", "failed"}
    BY <1>1, <2>2
  <2>4. QED
    BY <2>1, <2>3, CleanWithin
<1>4. QED
  BY <1>2, <1>3

LEMMA CancelEndsWithin ==
  ASSUME IInv, Was, CancelEnds
  PROVE  Stays
<1>1. /\ "canceling" \in {user, pc} /\ ~busy /\ decmt' = Cleanup(decmt) /\ pc' = pc
  BY DEF CancelEnds
<1>2. pc = "idle"
  BY <1>1, FlagsIs DEF Places
<1>3. pc' \notin {"overrun", "read", "failed"}
  BY <1>1, <1>2
<1>4. QED
  BY <1>1, <1>3, CleanWithin

LEMMA InitDStreamWithin ==
  ASSUME IInv, Was, NEW low \in BOOLEAN, InitDStream(low)
  PROVE  Stays
<1>1. user = "free" /\ ~wait /\ decmt' = InitMt(decmt, low) /\ pc' = pc
  BY DEF InitDStream
<1>2. pc = "idle" /\ Mt(stream, decmt)
  BY <1>1, FlagsIs, TypedHere
<1>3. decmt'.chain = << <<>> >> /\ decmt'.threads[0].startPos = 0
  <2>1. Fresh(stream, InitMt(decmt, low))
    BY <1>2, InitMtFresh
  <2>2. QED
    BY <1>1, <2>1 DEF Fresh
<1>4. Len(decmt'.chain) = 1 /\ decmt'.chain[1] = <<>> /\ 0 <= NodeSize
  BY <1>3, StepPositive
<1>5. Idle(decmt', fds', pc', status') /\ pc' # "overrun" /\ decmt'.threads[0].startPos <= NodeSize
  BY <1>1, <1>2, <1>3, <1>4 DEF Idle
<1>6. QED
  BY <1>5, WithinIdle DEF Stays

LEMMA DecompressStreamWithin ==
  ASSUME IInv, Was, NEW n, NEW m, DecompressStream(n, m)
  PROVE  Stays
<1>1. /\ user = "free" /\ ~wait /\ status = "going" /\ decmt' = decmt /\ fds' = fds /\ status' = status
      /\ pc' = StepFor(decmt, fds)
  BY DEF DecompressStream, StepFor
<1>2. pc = "idle" /\ decmt.failState \in BOOLEAN
  BY <1>1, FlagsIs, TypedHere, MtFields
<1> DEFINE q == pc'
<1>3. q \in {"failed", "load", "write", "hash"} /\ (q = "failed" => decmt.failState)
  BY <1>1, <1>2 DEF StepFor
<1>4. q \notin {"overrun", "blocks", "read"} /\ pc \notin {"blocks", "failed", "error"}
  BY <1>2, <1>3
<1> HIDE DEF q
<1>5. WithinAt(stream, decmt, fds, q, parsed', status)
  BY <1>1, <1>3, <1>4, WithinSame DEF Was
<1>6. QED
  BY <1>1, <1>5, Zenon DEF Stays, q

-----------------------------------------------------------------------------
(* The second invariant holds in every reachable state.                    *)
LEMMA InitWithin == Init => Within
<1> SUFFICES ASSUME Init PROVE WithinAt(stream, decmt, fds, pc, parsed, status)
  BY DEF Within
<1>1. /\ stream \in Streams /\ fds = Reset /\ pc = "idle" /\ status = "going"
  BY DEF Init
<1>2. Fresh(stream, decmt)
  <2>1. PICK low \in BOOLEAN :
          decmt = [chain |-> << <<>> >>, threads |-> [t \in Thread |-> Fields], numThreads |-> 0,
                   srcThread |-> 0, srcPos |-> 0, memTotal |-> 0, isFinal |-> FALSE,
                   failState |-> low, cur |-> 0, curPos |-> 0]
    BY DEF Init
  <2>2. QED
    BY <2>1, InitMtState
<1>3. decmt.chain = << <<>> >> /\ decmt.threads[0].startPos = 0
  BY <1>2 DEF Fresh
<1>4. Len(decmt.chain) = 1 /\ decmt.chain[1] = <<>> /\ 0 <= NodeSize
  BY <1>3, StepPositive
<1>5. Idle(decmt, fds, pc, status) /\ pc # "overrun" /\ decmt.threads[0].startPos <= NodeSize
  BY <1>1, <1>3, <1>4 DEF Idle
<1>6. QED
  BY <1>5, WithinIdle

LEMMA StreamStays == [Next]_vars => stream' = stream
<1> SUFFICES ASSUME [Next]_vars PROVE stream' = stream
  OBVIOUS
<1>1. CASE UNCHANGED vars
  BY <1>1 DEF vars
<1>2. CASE Call
  <2>1. CASE Load \/ NextChunk \/ ParseStops \/ BlockComplete \/ ReadInput \/ AddNode \/ AddNodeFails
    BY <2>1 DEF Load, NextChunk, ParseStops, BlockComplete, ReadInput, AddNode, AddNodeFails
  <2>2. CASE \E t \in Thread : BlockStep(t)
    BY <2>2 DEF BlockStep
  <2>3. CASE BlocksDone \/ WriteBlock \/ DecompressFailed \/ SwitchFails
    BY <2>3 DEF BlocksDone, WriteBlock, DecompressFailed, SwitchFails
  <2>4. CASE DecompressOverlap \/ DecompressDirect \/ Hash \/ Report \/ Error \/ JobReturns
    BY <2>4 DEF DecompressOverlap, DecompressDirect, Hash, Report, Error, JobReturns
  <2>5. QED
    BY <1>2, <2>1, <2>2, <2>3, <2>4, Zenon DEF Call
<1>3. CASE Continue \/ (\E low \in BOOLEAN : InitDStream(low))
           \/ (\E t \in Timeouts : SetDStreamTimeout(t))
  BY <1>3 DEF Continue, DecompressStream, InitDStream, SetDStreamTimeout
<1>4. CASE WaitDStream \/ TimesOut \/ WaitEnds \/ CancelDStream \/ CancelEnds
  BY <1>4 DEF WaitDStream, TimesOut, WaitEnds, CancelDStream, CancelEnds, OnlyUser
<1>5. QED
  BY <1>1, <1>2, <1>3, <1>4, Zenon DEF Next

LEMMA StepStays ==
  ASSUME IInv, Was, LongBlocks(stream), [Next]_vars
  PROVE  Stays
<1>1. CASE UNCHANGED vars
  BY <1>1, WithinNothing DEF vars
<1>2. CASE Call
  <2>1. CASE Load
    BY <2>1, LoadWithin
  <2>2. CASE NextChunk
    BY <2>2, NextChunkWithin
  <2>3. CASE ParseStops
    BY <2>3, ParseStopsWithin
  <2>4. CASE BlockComplete
    BY <2>4, BlockCompleteWithin
  <2>5. CASE ReadInput
    BY <2>5, ReadInputWithin
  <2>6. CASE AddNode
    BY <2>6, AddNodeWithin
  <2>7. CASE AddNodeFails
    BY <2>7, AddNodeFailsWithin
  <2>8. CASE \E t \in Thread : BlockStep(t)
    BY <2>8, BlockStepWithin
  <2>9. CASE BlocksDone
    BY <2>9, BlocksDoneWithin
  <2>10. CASE WriteBlock
    BY <2>10, WriteBlockWithin
  <2>11. CASE DecompressFailed
    BY <2>11, DecompressFailedWithin
  <2>12. CASE SwitchFails
    BY <2>12, SwitchFailsWithin
  <2>13. CASE DecompressOverlap
    BY <2>13, DecompressOverlapWithin
  <2>14. CASE DecompressDirect
    BY <2>14, DecompressDirectWithin
  <2>15. CASE Hash
    BY <2>15, HashWithin
  <2>16. CASE Report
    BY <2>16, ReportWithin
  <2>17. CASE Error
    BY <2>17, ErrorWithin
  <2>18. CASE JobReturns
    BY <2>18, WithinNothing DEF JobReturns
  <2>19. QED
    BY <1>2, <2>1, <2>2, <2>3, <2>4, <2>5, <2>6, <2>7, <2>8, <2>9, <2>10, <2>11, <2>12, <2>13,
       <2>14, <2>15, <2>16, <2>17, <2>18, Zenon DEF Call
<1>3. CASE Continue
  BY <1>3, DecompressStreamWithin DEF Continue
<1>4. CASE \E low \in BOOLEAN : InitDStream(low)
  BY <1>4, InitDStreamWithin
<1>5. CASE \E t \in Timeouts : SetDStreamTimeout(t)
  BY <1>5, WithinNothing DEF SetDStreamTimeout
<1>6. CASE WaitDStream \/ TimesOut \/ WaitEnds
  BY <1>6, WithinNothing DEF WaitDStream, TimesOut, WaitEnds, OnlyUser
<1>7. CASE CancelDStream
  BY <1>7, CancelDStreamWithin
<1>8. CASE CancelEnds
  BY <1>8, CancelEndsWithin
<1>9. QED
  BY <1>1, <1>2, <1>3, <1>4, <1>5, <1>6, <1>7, <1>8, Zenon DEF Next

LEMMA StepWithin == IInv /\ Within /\ [Next]_vars => Within'
<1> SUFFICES ASSUME IInv, Within, [Next]_vars, LongBlocks(stream')
             PROVE  WithinAt(stream', decmt', fds', pc', parsed', status')
  BY DEF Within
<1>1. stream' = stream
  BY StreamStays
<1>2. LongBlocks(stream)
  BY <1>1
<1>3. Was
  BY <1>2 DEF Was, Within
<1>4. Stays
  BY <1>2, <1>3, StepStays
<1>5. QED
  BY <1>1, <1>4 DEF Stays

(* Of a stream without tiny blocks: one thread goes on within the chain,   *)
(* in every reachable state.                                               *)
THEOREM InductiveWithin == Spec => []Within
<1>1. Init => Within
  BY InitWithin
<1>2. IInv /\ Within /\ [Next]_vars => Within'
  BY StepWithin
<1>3. QED
  BY <1>1, <1>2, Inductive, PTL DEF Spec

LEMMA ReadsWithin ==
  ASSUME IInv, Within, LongBlocks(stream)
  PROVE  pc # "overrun" /\ ReadsInChain
<1>1. WithinAt(stream, decmt, fds, pc, parsed, status)
  BY DEF Within
<1>2. pc # "overrun"
  BY <1>1 DEF WithinAt
<1>3. ASSUME pc = "failed", decmt.failState, decmt.chain[1] # <<>>
      PROVE  decmt.curPos <= Len(decmt.chain[decmt.cur])
  <2>1. /\ status = "going"
        /\ \E o \in 0 .. Len(stream) : Core(stream, decmt, fds, input, pc, parsed, o)
    BY <1>3, InACall
  <2>2. PICK o \in 0 .. Len(stream) : Core(stream, decmt, fds, input, pc, parsed, o)
    BY <2>1
  <2>3. o \in Nat /\ Nodes(decmt, o)
    BY <2>2, TypedHere, StreamIs DEF Core, Accounted
  <2>4. Inside(stream, decmt, decmt.cur, decmt.curPos, fds.stage)
    BY <1>1, <1>3, <2>1 DEF WithinAt
  <2>5. InChain(stream, decmt, o, decmt.cur, decmt.curPos, fds.stage)
    BY <1>3, <2>3, <2>4 DEF Inside
  <2>6. QED
    BY <2>5 DEF InChain
<1>4. QED
  BY <1>2, <1>3 DEF ReadsInChain

(* Of every stream without tiny blocks, and nodes at least twice as long   *)
(* as what they have in common: no node is filled beyond its size, the     *)
(* overlap never outgrows its buffer and nothing is written behind it      *)
(* (UF2_decompressInbufNode).  Run dstream_tiny shows what a tiny block    *)
(* does.                                                                   *)
THEOREM TypeCorrect == Spec => [](LongBlocks(stream) => DStreamTypeOK)
<1>1. IInv /\ Within => (LongBlocks(stream) => DStreamTypeOK)
  BY TypeOKHolds, ReadsWithin
<1>2. QED
  BY <1>1, Inductive, InductiveWithin, PTL

(* Of every stream without tiny blocks: what was taken and is not decoded  *)
(* yet is there, in order and up to where the input is, through reads, the *)
(* overlaps of nodes, input given back and the change to one thread; and   *)
(* one thread goes on within a node, never in what is left of bytes that   *)
(* were given back.                                                        *)
THEOREM InputIsKept == Spec => [](LongBlocks(stream) => InputAccounted)
<1>1. IInv /\ Within => (LongBlocks(stream) => InputAccounted)
  BY InputIsAccounted, ReadsWithin
<1>2. QED
  BY <1>1, Inductive, InductiveWithin, PTL

=============================================================================
