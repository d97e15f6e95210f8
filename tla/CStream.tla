------------------------------ MODULE CStream ------------------------------
(***************************************************************************)
(* Streaming compression to the native format (uf2_compress.c): the calls  *)
(* of one caller, the dictionary buffer they fill, and the compression of  *)
(* a block, which runs in the call itself or, with two buffers or a        *)
(* timeout, on compressThread while the caller goes on.                    *)
(*                                                                         *)
(* A call is a sequence of steps; between two of them the compression can  *)
(* advance.  compressThread is a pool of one worker; ThreadPool.tla shows  *)
(* what its waitAll and isIdle promise, and `work` stands for its job.     *)
(* What a slice compresses to is a sequence of pieces that name the bytes  *)
(* of input they stand for.                                                *)
(***************************************************************************)
EXTENDS DictBuffer, Sequences, SequencesExt, TLC

CONSTANTS
  JobCount,     \* cctx->jobCount
  MinSlice,     \* ENC_MIN_BYTES_PER_THREAD
  MaxLoops,     \* UF2_MAX_LOOPS
  InputSizes,   \* bound: input->size - input->pos a call is given
  OutputSizes,  \* bound: output->size - output->pos a call is given
  Timeouts,     \* the values the caller may give to setCStreamTimeout
                \* (bound: a timeout is set only with one buffer)
  MayFail       \* an encoder may run out of memory

NoOutput == -1  \* output == NULL

ASSUME ThreadsAssumption == JobCount \in Nat \ {0} /\ MinSlice \in Nat \ {0}
ASSUME LoopsAssumption   == MaxLoops \in Nat
ASSUME CallAssumption    ==
  /\ InputSizes \subseteq Nat /\ OutputSizes \subseteq Nat \cup {NoOutput}
  /\ Timeouts \subseteq BOOLEAN /\ MayFail \in BOOLEAN

VARIABLES
  lockParams, endMarked, wroteProp, loopCount,
  thread,                     \* compressThread # NULL
  timeout,                    \* fcs->timeout # 0
  asyncPending, asyncRes, canceled,
  curBlock, dictMax,
  jobs,                       \* jobs[u]: the compressed slice
  threadCount, outThread, outPos,
  work,                       \* where compressThread's job is
  streamProp,                 \* the argument of that job
  pc, call, ret,              \* the caller's place, call, and its result
  room, moreIn, moved,        \* of the call: space left, input left, any progress
  granted,                    \* the caller holds a dictionary buffer
  ending,                     \* the caller has begun to end the stream, and not yet
                              \* been told that it is ended
  out                         \* history: what the caller received

callVars  == <<call, room, moreIn, moved>>
userVars  == <<granted, ending>>
frameVars == <<lockParams, endMarked, loopCount, thread, timeout>>
workVars  == <<asyncRes, canceled, work, jobs, threadCount>>
blockVars == <<curBlock, dictMax, wroteProp, streamProp>>
outVars   == <<outThread, outPos, out>>
innerVars == <<dictVars, workVars, blockVars, outVars>>
vars      == <<innerVars, asyncPending, frameVars, callVars, userVars, pc, ret>>

-----------------------------------------------------------------------------
Running     == asyncPending /\ work # "idle"             \* UF2_asyncRunning
AsyncResult == IF Running THEN "ok" ELSE asyncRes        \* UF2_asyncResult

(* Mutant of HasOutput: slices are read while they are written.            *)
HasOutputTooEarly == outThread < threadCount

HasOutput   == ~Running /\ outThread < threadCount       \* UF2_hasOutput

(* Slices are numbered from 0 in the code and here.  Pending(u) is what is *)
(* yet to be written of the slices below u.                                *)
Slice(u)   == jobs[u + 1]
Rest(u)    == IF u = outThread THEN SubSeq(Slice(u), outPos + 1, Len(Slice(u))) ELSE Slice(u)
Pending(u) == FlattenSeq([i \in 1 .. u - outThread |-> Rest(outThread + i - 1)])
Unwritten  == Pending(threadCount)

(* Mutant of CopyOutput: the position is not reset with the slice.         *)
CopyOutputKeepsPos(n) ==
  LET given == Min({n, Len(Unwritten)})
      next  == Max({u \in outThread .. threadCount : Len(Pending(u)) <= given})
  IN  /\ out' = out \o SubSeq(Unwritten, 1, given)
      /\ outThread' = next
      /\ outPos' = outPos + given - Len(Pending(next))
      /\ room' = n - given
      /\ moved' = (moved \/ given > 0)

(* UF2_copyCStreamOutput with space n: slice after slice while there is    *)
(* room.                                                                   *)
CopyOutput(n) ==
  LET given == Min({n, Len(Unwritten)})
      next  == Max({u \in outThread .. threadCount : Len(Pending(u)) <= given})
  IN  /\ out' = out \o SubSeq(Unwritten, 1, given)
      /\ outThread' = next
      /\ outPos' = (IF next = outThread THEN outPos ELSE 0) + given - Len(Pending(next))
      /\ room' = n - given
      /\ moved' = (moved \/ given > 0)

CopyIfAny ==
  IF room # NoOutput /\ HasOutput THEN CopyOutput(room)
  ELSE UNCHANGED <<outVars, room, moved>>

-----------------------------------------------------------------------------
(* Compression of a block.                                                 *)

NbThreads(size) ==                                       \* UF2_enc_threadCount
  LET n == size \div MinSlice
  IN  IF n = 0 THEN 1 ELSE IF n < JobCount THEN n ELSE JobCount

(* Slice u of a block goes from offset SliceStart(b, u) to that of u + 1.  *)
SliceStart(b, u) ==
  LET nb == NbThreads(b.end - b.start)
  IN  IF u = nb THEN b.end ELSE b.start + u * ((b.end - b.start) \div nb)

(* Each byte of a slice compresses to a piece of output of its own.        *)
Encoded(b, u) ==
  [i \in 1 .. SliceStart(b, u + 1) - SliceStart(b, u) |->
     [kind |-> "lz", at |-> data[b.buffer][SliceStart(b, u) + i - 1]]]

Prop(dict) == [kind |-> "prop", dict |-> dict]
EndMark    == [kind |-> "end"]

(* The slices a block compresses to, the property byte first.              *)
Slices(b, prop) ==
  [u \in 1 .. NbThreads(b.end - b.start) |->
     (IF u = 1 THEN prop ELSE <<>>) \o Encoded(b, u - 1)]

(* UF2_compressCurBlock: begin on compressThread, or do it here.           *)
CompressCurBlock(b, prop) ==
  /\ canceled' = FALSE
  /\ dictMax' = IF b.end > dictMax THEN b.end ELSE dictMax
  /\ outThread' = 0 /\ outPos' = 0
  /\ IF thread
     THEN /\ asyncPending' = TRUE
          /\ work' = "queued"
          /\ streamProp' = prop
          /\ threadCount' = 0
          /\ UNCHANGED <<asyncRes, jobs>>
     ELSE /\ \/ /\ jobs' = Slices(b, prop) /\ threadCount' = Len(jobs')
                /\ asyncRes' = "ok"
             \/ /\ MayFail
                /\ threadCount' = 0
                /\ asyncRes' = "failed"
                /\ UNCHANGED jobs
          /\ UNCHANGED <<work, streamProp>>
          /\ asyncPending' = FALSE

(* Mutant of PropFor: the first block is taken for the largest.            *)
PropForFirst(final) == IF wroteProp THEN <<>> ELSE <<Prop(end)>>

(* The property byte: the dictionary a decoder needs, known to be smaller  *)
(* when all of the input is in the buffer.                                 *)
PropFor(final) ==
  IF wroteProp THEN <<>>
  ELSE IF final THEN <<Prop(IF dictMax > end THEN dictMax ELSE end)>>
  ELSE <<Prop(Size)>>

(* UF2_compressStream_internal, once its wait is over.  No compression     *)
(* begins while compressed output exists: it would overwrite it.           *)
CompressInternal(final) ==
  IF outThread = threadCount /\ HasUnprocessed
  THEN /\ GetBlock
       /\ curBlock' = Block
       /\ wroteProp' = TRUE
       /\ CompressCurBlock(Block, PropFor(final))
       /\ UNCHANGED out
  ELSE /\ asyncPending' = FALSE
       /\ UNCHANGED <<dictVars, workVars, blockVars, outVars>>

(* UF2_compressCurBlock_blocking on compressThread.                        *)
WorkBuilds ==              \* RMF_initTable, then the first look at `canceled`
  /\ work = "queued"
  /\ \/ ~canceled /\ work' = "building" /\ UNCHANGED asyncRes
     \/ canceled /\ work' = "returning" /\ asyncRes' = "canceled"
  /\ UNCHANGED <<canceled, jobs, threadCount>>

WorkEncodes ==             \* RMF_buildTable: done, or stopped by RMF_cancelBuild
  /\ work = "building"
  /\ \/ work' = "encoding" /\ UNCHANGED asyncRes
     \/ canceled /\ work' = "returning" /\ asyncRes' = "canceled"
  /\ UNCHANGED <<canceled, jobs, threadCount>>

WorkPublishes ==           \* LZMA2_encode in every thread
  /\ work = "encoding"
  /\ work' = "returning"
  /\ \/ /\ jobs' = Slices(curBlock, streamProp) /\ threadCount' = Len(jobs')
        /\ asyncRes' = "ok"
     \/ /\ canceled /\ asyncRes' = "canceled" /\ UNCHANGED <<jobs, threadCount>>
     \/ /\ MayFail /\ asyncRes' = "failed" /\ UNCHANGED <<jobs, threadCount>>
  /\ UNCHANGED canceled

WorkReturns ==
  /\ work = "returning"
  /\ work' = "idle"
  /\ UNCHANGED <<asyncRes, canceled, jobs, threadCount>>

Work ==
  /\ WorkBuilds \/ WorkEncodes \/ WorkPublishes \/ WorkReturns
  /\ UNCHANGED <<dictVars, blockVars, outVars, asyncPending, frameVars,
                 callVars, userVars, pc, ret>>

-----------------------------------------------------------------------------
(* The calls.  Only `Work` can happen between two steps of a call.         *)

Init ==
  /\ DictInit
  /\ lockParams = FALSE /\ endMarked = FALSE /\ wroteProp = FALSE /\ loopCount = 0
  /\ thread = async /\ timeout = FALSE
  /\ asyncPending = FALSE /\ asyncRes = "ok" /\ canceled = FALSE
  /\ curBlock = Block /\ dictMax = 0
  /\ jobs = <<>> /\ threadCount = 0 /\ outThread = 0 /\ outPos = 0
  /\ work = "idle" /\ streamProp = <<>>
  /\ pc = "idle" /\ call = "none" /\ ret = "done"
  /\ room = NoOutput /\ moreIn = 0 /\ moved = FALSE
  /\ granted = FALSE /\ ending = FALSE
  /\ out = <<>>

(* What a call returns: "done" is 0, "more" is 1.                          *)
Return(r) == pc' = "idle" /\ ret' = r

Begins(name, input, output, first) ==
  /\ pc = "idle" /\ call' = name
  /\ moreIn' = input /\ room' = output /\ moved' = FALSE
  /\ pc' = first
  /\ UNCHANGED ret

(* A call that is over in one step and gives or takes no data.             *)
Simple(name, r) ==
  /\ pc = "idle" /\ call' = name /\ Return(r)
  /\ moreIn' = 0 /\ room' = NoOutput /\ moved' = FALSE

(* UF2_initCStream.  It does not ask whether a compression still runs: the *)
(* caller has to have waited for it or canceled it.                        *)
InitCStream ==
  /\ work = "idle"
  /\ Simple("initCStream", "done")
  /\ DictReinit
  /\ endMarked' = FALSE /\ wroteProp' = FALSE /\ loopCount' = 0
  /\ dictMax' = 0 /\ asyncRes' = "ok"
  /\ outThread' = 0 /\ threadCount' = 0 /\ outPos' = 0
  /\ curBlock' = [buffer |-> 0, start |-> 0, end |-> 0]
  /\ lockParams' = TRUE
  /\ out' = <<>> /\ granted' = FALSE /\ ending' = FALSE
  /\ UNCHANGED <<thread, timeout, asyncPending, canceled, work, jobs, streamProp>>

(* UF2_setCStreamTimeout: the thread is freed only when no compression can *)
(* be underway; freeing it joins it.                                       *)
SetTimeout(t) ==
  /\ LET frees == ~t /\ ~async /\ dictMax = 0
     IN  /\ frees => work = "idle"
         /\ thread' = (t \/ (thread /\ ~frees))
  /\ timeout' = t
  /\ Simple("setCStreamTimeout", "done")
  /\ UNCHANGED <<innerVars, asyncPending, lockParams, endMarked, loopCount, userVars>>

(* The stream was not initialized, or was canceled.                        *)
InitMissing ==
  /\ ~lockParams
  /\ \/ Simple("compressStream", "init_missing")
     \/ Simple("getDictionaryBuffer", "init_missing")
     \/ Simple("flushStream", "init_missing")
     \/ ~endMarked /\ Simple("endStream", "init_missing")
  /\ UNCHANGED <<innerVars, asyncPending, frameVars, userVars>>

(* UF2_compressStream; output == NULL only when all output has been read.  *)
CompressStream(input, output) ==
  /\ lockParams /\ ~granted /\ ~ending
  /\ taken + input <= MaxTaken
  /\ output = NoOutput => ~HasOutput
  /\ Begins("compressStream", input, output, "copyIn")
  /\ UNCHANGED <<innerVars, asyncPending, frameVars, userVars>>

FlushStream(output) ==
  /\ lockParams /\ ~granted /\ ~ending
  /\ Begins("flushStream", 0, output, "copyIn")
  /\ UNCHANGED <<innerVars, asyncPending, frameVars, userVars>>

EndStream(output) ==
  /\ endMarked \/ lockParams
  /\ ~granted
  /\ Begins("endStream", 0, output, "copyIn")
  /\ ending' = TRUE
  /\ UNCHANGED <<innerVars, asyncPending, frameVars, granted>>

GetDictionaryBuffer ==
  /\ lockParams /\ ~granted /\ ~ending
  /\ Begins("getDictionaryBuffer", 0, NoOutput, "check")
  /\ UNCHANGED <<innerVars, asyncPending, frameVars, userVars>>

(* The caller has put n bytes in the buffer it was given.                  *)
UpdateDictionary(n) ==
  /\ granted /\ taken + n <= MaxTaken
  /\ Put(n)
  /\ granted' = FALSE
  /\ Begins("updateDictionary", 0, NoOutput, IF end + n = Size THEN "block" ELSE "report")
  /\ UNCHANGED <<asyncPending, frameVars, workVars, blockVars, outVars, ending>>

(* What the calls that compress do first.                                  *)
CopyIn ==
  /\ pc = "copyIn"
  /\ CopyIfAny
  /\ pc' = "check"
  /\ UNCHANGED <<dictVars, workVars, blockVars, asyncPending, frameVars, userVars,
                 call, moreIn, ret>>

(* CHECK_F(UF2_asyncResult(fcs))                                           *)
Check ==
  /\ pc = "check"
  /\ IF AsyncResult # "ok" THEN Return(AsyncResult)
     ELSE /\ pc' = CASE call = "compressStream" -> IF moreIn = 0 THEN "copyOut" ELSE "input"
                      [] call = "getDictionaryBuffer" ->
                           IF AvailSpace = 0 /\ HasUnprocessed THEN "block" ELSE "grant"
                      [] OTHER -> "block"
          /\ UNCHANGED ret
  /\ UNCHANGED <<innerVars, asyncPending, frameVars, callVars, userVars>>

(* Mutant of MustWait: a compression is begun while the last one runs.     *)
MustWaitNotForBlock ==
  \/ pc \in {"input", "grant"} /\ NeedShift /\ ~async
  \/ pc \in {"end", "next", "wait"}

(* UF2_waitCStream in a call: a single buffer cannot be shifted during     *)
(* compression, and no compression is begun before the last has ended.     *)
MustWait ==
  \/ pc = "input" /\ NeedShift /\ ~async
  \/ pc = "grant" /\ NeedShift /\ ~async
  \/ pc \in {"block", "end", "next", "wait"}

WaitStops ==
  /\ \/ timeout /\ work # "idle" /\ Return("timedOut") /\ UNCHANGED asyncPending
     \/ work = "idle" /\ asyncRes # "ok" /\ Return(asyncRes) /\ asyncPending' = FALSE
  /\ UNCHANGED <<innerVars, frameVars, userVars>>

(* Mutant of Waited: the result of the compression is not looked at.       *)
WaitedForgives == MustWait => work = "idle"

Waited == MustWait => work = "idle" /\ asyncRes = "ok"
WaitSets == asyncPending' = (asyncPending /\ ~MustWait)

StopWaiting == MustWait /\ WaitStops /\ UNCHANGED callVars

(* The loop of UF2_compressStream_input.                                   *)
Input ==
  /\ pc = "input" /\ Waited /\ WaitSets
  /\ IF NeedShift THEN Shift ELSE UNCHANGED dictVars
  /\ pc' = "put"
  /\ UNCHANGED <<workVars, blockVars, outVars, frameVars, callVars, userVars, ret>>

PutInput ==
  /\ pc = "put"
  /\ IF AsyncResult # "ok" THEN Return(AsyncResult) /\ UNCHANGED <<dictVars, callVars>>
     ELSE LET n == Min({moreIn, AvailSpace})
          IN  /\ Put(n)
              /\ moreIn' = moreIn - n
              /\ moved' = (moved \/ n > 0)
              /\ pc' = IF n = AvailSpace THEN "full" ELSE "check"
              /\ UNCHANGED <<call, room, ret>>
  /\ UNCHANGED <<workVars, blockVars, outVars, asyncPending, frameVars, userVars>>

(* Mutant of Full: the caller is to come back when the compressor is free. *)
FullGivesUp ==
  /\ pc = "full"
  /\ pc' = IF HasOutput \/ Running \/ ~async THEN "copyOut" ELSE "block"
  /\ UNCHANGED <<innerVars, asyncPending, frameVars, callVars, userVars, ret>>

Full ==
  /\ pc = "full"
  /\ pc' = IF HasOutput THEN "copyOut" ELSE "block"
  /\ UNCHANGED <<innerVars, asyncPending, frameVars, callVars, userVars, ret>>

(* UF2_compressStream_internal within each of the calls.                   *)
BlockStep ==
  /\ pc = "block" /\ Waited
  /\ CompressInternal(call = "endStream")
  /\ IF asyncRes' # "ok" THEN Return(asyncRes')
     ELSE /\ pc' = CASE call = "compressStream"      -> "check"
                      [] call = "getDictionaryBuffer" -> "grant"
                      [] call = "updateDictionary"    -> "report"
                      [] call = "flushStream"         -> "flush"
                      [] call = "endStream"           -> "end"
          /\ UNCHANGED ret
  /\ UNCHANGED <<frameVars, callVars, userVars>>

(* DICT_get                                                                *)
Grant ==
  /\ pc = "grant" /\ Waited /\ WaitSets
  /\ Shift
  /\ granted' = TRUE
  /\ Return("done")
  /\ UNCHANGED <<workVars, blockVars, outVars, frameVars, callVars, ending>>

(* Mutant of LoopCheck: every call counts.                                 *)
LoopCheckAlways(unchanged, next) ==
  /\ loopCount' = Min({loopCount + 1, MaxLoops + 1})
  /\ pc' = IF loopCount >= MaxLoops THEN "cancel" ELSE next
  /\ UNCHANGED <<lockParams, endMarked, thread, timeout>>

(* UF2_loopCheck: too many calls in a row changed nothing.  The count is   *)
(* capped one above the limit, where more makes no difference.             *)
LoopCheck(unchanged, next) ==
  /\ loopCount' = IF unchanged THEN Min({loopCount + 1, MaxLoops + 1}) ELSE 0
  /\ pc' = IF unchanged /\ loopCount >= MaxLoops THEN "cancel" ELSE next
  /\ UNCHANGED <<lockParams, endMarked, thread, timeout>>

CopyOut ==
  /\ pc = "copyOut"
  /\ CopyIfAny
  /\ LoopCheck(~moved', "report")
  /\ UNCHANGED <<dictVars, workVars, blockVars, asyncPending, userVars, call, moreIn, ret>>

Report ==
  /\ pc = "report"
  /\ Return(IF HasOutput THEN "more" ELSE "done")
  /\ UNCHANGED <<innerVars, asyncPending, frameVars, callVars, userVars>>

Flush ==
  /\ pc = "flush"
  /\ CopyIfAny
  /\ ret' = IF ~Running /\ outThread' < threadCount THEN "more" ELSE "done"
  /\ LoopCheck(room # NoOutput /\ ~moved', "idle")
  /\ UNCHANGED <<dictVars, workVars, blockVars, asyncPending, userVars, call, moreIn>>

EndFrame == dictMax' = 0 /\ asyncRes' = "ok" /\ lockParams' = FALSE

(* UF2_writeEnd: after the last slice, or by itself, with the property     *)
(* byte if nothing was compressed.                                         *)
StreamTail == (IF wroteProp THEN <<>> ELSE <<Prop(0)>>) \o <<EndMark>>

WriteEnd ==
  /\ IF outThread = threadCount
     THEN jobs' = <<StreamTail>> /\ threadCount' = 1 /\ outThread' = 0
     ELSE jobs' = [jobs EXCEPT ![threadCount] = @ \o StreamTail]
          /\ UNCHANGED <<threadCount, outThread>>
  /\ wroteProp' = TRUE
  /\ endMarked' = TRUE
  /\ EndFrame

EndWritten ==
  /\ pc = "end" /\ Waited
  /\ ~endMarked /\ ~HasUnprocessed
  /\ WriteEnd
  /\ asyncPending' = FALSE
  /\ pc' = "endCopy"
  /\ UNCHANGED <<dictVars, canceled, work, curBlock, streamProp, outPos, out,
                 loopCount, thread, timeout, callVars, userVars, ret>>

EndLater ==
  /\ pc = "end" /\ Waited
  /\ endMarked \/ HasUnprocessed
  /\ asyncPending' = FALSE
  /\ pc' = "endCopy"
  /\ UNCHANGED <<innerVars, frameVars, callVars, userVars, ret>>

(* Mutant of EndCopy: output there was no room for is forgotten.           *)
EndCopyForgetsOutput ==
  /\ pc = "endCopy"
  /\ CopyIfAny
  /\ ret' = IF room # NoOutput /\ outThread < threadCount /\ HasUnprocessed THEN "more" ELSE "done"
  /\ LoopCheck(room # NoOutput /\ ~moved', "idle")
  /\ ending' = (ret' = "more")
  /\ UNCHANGED <<dictVars, workVars, blockVars, asyncPending, granted, call, moreIn>>

EndCopy ==
  /\ pc = "endCopy"
  /\ CopyIfAny
  /\ ret' = IF outThread' < threadCount \/ (room # NoOutput /\ outThread < threadCount /\ HasUnprocessed)
             THEN "more" ELSE "done"
  /\ LoopCheck(room # NoOutput /\ ~moved', "idle")
  /\ ending' = (ret' = "more")
  /\ UNCHANGED <<dictVars, workVars, blockVars, asyncPending, granted, call, moreIn>>

(* UF2_getNextCompressedBuffer: the rest of one slice.                     *)
GetNextCompressedBuffer ==
  /\ Begins("getNextCompressedBuffer", 0, NoOutput, "next")
  /\ UNCHANGED <<innerVars, asyncPending, frameVars, userVars>>

HandOut ==
  /\ pc = "next" /\ Waited
  /\ asyncPending' = FALSE
  /\ IF outThread < threadCount
     THEN /\ out' = out \o Rest(outThread)
          /\ outThread' = outThread + 1 /\ outPos' = 0
          /\ Return("more")
     ELSE Return("done") /\ UNCHANGED outVars
  /\ UNCHANGED <<dictVars, workVars, blockVars, frameVars, callVars, userVars>>

(* UF2_copyCStreamOutput, called by the user.                              *)
CopyCStreamOutput(output) ==
  /\ output # NoOutput
  /\ Begins("copyCStreamOutput", 0, output, "copy")
  /\ UNCHANGED <<innerVars, asyncPending, frameVars, userVars>>

Copy ==
  /\ pc = "copy"
  /\ CopyIfAny
  /\ Return(IF ~Running /\ outThread' < threadCount THEN "more" ELSE "done")
  /\ UNCHANGED <<dictVars, workVars, blockVars, asyncPending, frameVars, userVars, call, moreIn>>

WaitCStream ==
  /\ Begins("waitCStream", 0, NoOutput, "wait")
  /\ UNCHANGED <<innerVars, asyncPending, frameVars, userVars>>

WaitEnds ==
  /\ pc = "wait" /\ Waited
  /\ asyncPending' = FALSE
  /\ Return(IF outThread < threadCount THEN "more" ELSE "done")
  /\ UNCHANGED <<innerVars, frameVars, callVars, userVars>>

(* UF2_cancelCStream, by the user or by UF2_loopCheck.                     *)
CancelCStream ==
  /\ Begins("cancelCStream", 0, NoOutput, "cancel")
  /\ UNCHANGED <<innerVars, asyncPending, frameVars, userVars>>

CancelBegins ==            \* canceled = 1; RMF_cancelBuild
  /\ pc = "cancel"
  /\ canceled' = thread
  /\ pc' = "canceling"
  /\ UNCHANGED <<dictVars, asyncRes, work, jobs, threadCount, blockVars, outVars,
                 asyncPending, frameVars, callVars, userVars, ret>>

(* Mutant of CancelEnds: the compression is not waited for.                *)
CancelEndsAtOnce ==
  /\ pc = "canceling"
  /\ canceled' = FALSE
  /\ EndFrame
  /\ Return(IF call = "cancelCStream" THEN "done" ELSE "buffer")
  /\ granted' = FALSE
  /\ ending' = (ending /\ call # "cancelCStream")
  /\ UNCHANGED <<dictVars, work, jobs, threadCount, curBlock, wroteProp, streamProp,
                 outVars, asyncPending, endMarked, loopCount, thread, timeout, callVars>>

CancelEnds ==              \* UF2POOL_waitAll; canceled = 0; UF2_endFrame
  /\ pc = "canceling" /\ work = "idle"
  /\ canceled' = FALSE
  /\ EndFrame
  /\ Return(IF call = "cancelCStream" THEN "done" ELSE "buffer")
  /\ granted' = FALSE
  /\ ending' = (ending /\ call # "cancelCStream")
  /\ UNCHANGED <<dictVars, work, jobs, threadCount, curBlock, wroteProp, streamProp,
                 outVars, asyncPending, endMarked, loopCount, thread, timeout, callVars>>

-----------------------------------------------------------------------------
UserCalls ==
  \/ InitCStream \/ InitMissing
  \/ \E t \in Timeouts : (t => ~async) /\ SetTimeout(t)
  \/ \E n \in InputSizes, m \in OutputSizes : CompressStream(n, m)
  \/ \E m \in OutputSizes : FlushStream(m) \/ EndStream(m) \/ CopyCStreamOutput(m)
  \/ GetDictionaryBuffer
  \/ \E n \in InputSizes : UpdateDictionary(n)
  \/ GetNextCompressedBuffer \/ WaitCStream \/ CancelCStream

InCall ==
  \/ CopyIn \/ Check \/ StopWaiting \/ Input \/ PutInput \/ Full \/ BlockStep
  \/ Grant \/ CopyOut \/ Report \/ Flush \/ EndWritten \/ EndLater \/ EndCopy
  \/ HandOut \/ Copy \/ WaitEnds \/ CancelBegins \/ CancelEnds

Next == UserCalls \/ InCall \/ Work

Spec == Init /\ [][Next]_vars

(* A call that was made goes on, the compression goes on, and a caller that *)
(* began to end the stream calls UF2_endStream again until it returns 0.   *)
EndAgain == ending /\ \E m \in OutputSizes : m > 0 /\ EndStream(m)

Fairness == WF_vars(InCall) /\ WF_vars(Work) /\ SF_vars(EndAgain)

FairSpec == Spec /\ Fairness

-----------------------------------------------------------------------------
(* The compressed stream so far: what the caller has and what it has yet   *)
(* to be given.                                                            *)
Stream    == out \o Unwritten

(* What is between the property byte and the end marker.                   *)
Pieces(s) ==
  SubSeq(s, IF s # <<>> /\ s[1].kind = "prop" THEN 2 ELSE 1,
            IF s # <<>> /\ Last(s).kind = "end" THEN Len(s) - 1 ELSE Len(s))
Covered(s) == Len(Pieces(s))

(* The pieces are the stream's bytes in order, each of them once.          *)
InOrder(s) == \A i \in 1 .. Len(Pieces(s)) : Pieces(s)[i] = [kind |-> "lz", at |-> i - 1]

InFlight == IF work \in {"queued", "building", "encoding"} THEN curBlock.end - curBlock.start ELSE 0

(* No byte of input is lost, repeated or moved on its way through the      *)
(* dictionary buffers, the block being compressed and the slices, whatever *)
(* the order of calls and however the copies of output are cut, until an   *)
(* error or a cancel.                                                      *)
NothingLostOrRepeated ==
  (lockParams \/ endMarked) /\ asyncRes = "ok" /\ ~canceled =>
    /\ InOrder(Stream)
    /\ Covered(Stream) + InFlight + (end - start) = taken

(* The property byte comes first and once, the end marker last and once,   *)
(* and the dictionary the byte announces covers the window of every block, *)
(* though it is written before the later blocks are known.                 *)
WellFormed ==
  /\ \A i \in 1 .. Len(Stream) :
       /\ (Stream[i].kind = "prop") = (i = 1)
       /\ Stream[i].kind = "end" => i = Len(Stream)
  /\ Stream # <<>> => curBlock.end <= Stream[1].dict

(* The end marker follows all of the input, errors and cancels included:   *)
(* no error is forgotten so that a stream with a hole is ended.            *)
EndFollowsAll ==
  endMarked => Stream # <<>> /\ Last(Stream) = EndMark /\ InOrder(Stream) /\ Covered(Stream) = taken

(* UF2_endStream returns 0 only when the caller has all of the stream.     *)
EndMeansComplete ==
  pc = "idle" /\ call = "endStream" /\ ret = "done" =>
    endMarked /\ Unwritten = <<>> /\ work = "idle"

(* A call that takes input or ends the stream, and returns no error, does  *)
(* something unless the caller gave it no room or nothing to do: the limit *)
(* of UF2_loopCheck never ends a stream whose caller does its part.        *)
CallsMakeProgress ==
  pc = "idle" /\ ret \in {"done", "more"} /\ ~moved =>
    /\ call = "compressStream" => moreIn = 0 \/ (room \in {NoOutput, 0} /\ ret = "more")
    /\ call = "endStream" /\ ret = "more" => room \in {NoOutput, 0}

(* When a cancel has returned, nothing runs that could write to the stream *)
(* object, and the next compression is not canceled by it.                 *)
CancelLeavesQuiet == ~lockParams /\ pc = "idle" => work = "idle" /\ ~canceled

(* The window of a block stays as it is while the block is compressed,     *)
(* though the caller goes on filling the dictionary buffers.               *)
BlockIsStable ==
  [][work # "idle" /\ work' # "idle" =>
       /\ UNCHANGED curBlock
       /\ \A i \in 0 .. curBlock.end - 1 :
            data'[curBlock.buffer][i] = data[curBlock.buffer][i]]_vars

(* What the compression writes - the slices, their number, its result - is *)
(* read only when its end was seen under the pool's mutex.                 *)
ReadsOnlyPublished == [][work # "idle" => UNCHANGED <<out, outThread, outPos>>]_vars

(* Ending a stream ends: UF2_endStream, called again until it returns 0,   *)
(* does return 0 unless a compression failed or the caller gave it up.     *)
EndCompletes == ending ~> ~ending \/ asyncRes = "failed"
=============================================================================
