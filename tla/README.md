# Ultra Fast LZMA2: specifications and proofs

TLA+ models of the parts of the Ultra Fast LZMA2 library (`UF2_`, a C library)
whose correctness depends on order, interleaving, partial failure and
boundaries rather than on compression itself; TLC configurations that check
them on small instances; and TLAPS proofs for every value of the constants.

## 1. The system

| Component | Code | State it keeps | Operations | Interacts by |
|---|---|---|---|---|
| Thread pool | `uf2_pool.c` | one range of job numbers, busy count, shutdown flag, two condition variables | create, addRange, waitAll (timed or not), isIdle, free | used by both contexts for the slices of a block, and with one thread as `compressThread` / `decompressThread` |
| Dictionary buffers | `dict_buffer.c` | one or two buffers, `index`, `start`, `end`, `total` since the last reset | get, update, put, getBlock, needShift, shift | filled by the stream calls, read by the compression of a block |
| Compression stream | `uf2_compress.c` | frame flags, `curBlock`, slices `jobs[0 .. threadCount-1]`, `outThread`/`outPos`, `asyncPending`, `asyncRes`, `canceled` | initCStream, compressStream, getDictionaryBuffer/updateDictionary, copyCStreamOutput/getNextCompressedBuffer, flushStream, endStream, waitCStream, cancelCStream, setCStreamTimeout | hands blocks to `compressThread`, reads its results when the pool says it is idle |
| Streamed .xz writer | `uf2_compress.c:1250-1515` | framing buffers head and tail, the held block, the open block's sizes and check, the index records | begin, close, absorb, end | runs inside the compression stream's calls |
| One-shot compression, parameters | `uf2_compress.c` | the context | compressCCtx in native and .xz form, setParameter | pool |
| Match finder | `radix_mf.c`, `radix_engine.h` | the table, the shared list index `st_index`, per-thread builders | initTable, buildTable, cancelBuild | worker threads take lists by an atomic increment |
| LZMA2 encoder | `lzma2_enc.c`, `range_enc.c` | encoder state per thread | LZMA2_encode: chunks, resets | reads the match table, writes over the part already consumed |
| LZMA2 decoder | `lzma2_dec.c`, assembler | chunk automaton, dictionary position | decodeToBuf, decodeToDic, parseInput | driven by every decompressor |
| Streaming decompression, MT | `uf2_decompress.c:1490-2330` | chain of input nodes, per-thread block extents and output buffers, memory total, failover state, the `wait` flag | decompressStream, waitDStream, cancelDStream, initDStream | pool for the blocks, `decompressThread` for timeouts |
| Streaming decompression, one thread and .xz | `uf2_decompress.c:1010-1487` | container automaton, index summary, overlapped input | decompressStream | LZMA2 decoder |
| One-shot decompression | `uf2_decompress.c:1-1010` | block extents per thread | decompressDCtx, .xz with or without sized headers | pool |
| .xz primitives | `uf2_xz.c` | none | variable length integers, headers, index, checks | used by both .xz sides |
| Support | `uf2_common.c`, `uf2_threading.c`, `util.c`, `xxhash.c` | none that matters | allocation, thread wrappers, hash | everywhere |

What is hard here:

* **Concurrency.** Workers share a queue and results published only by a mutex;
  the caller fills one buffer while `compressThread` reads the other; a cancel
  or a timeout can fall between any two steps of a job.
* **Ordering.** Every byte of input passes through a dictionary buffer, a block,
  a slice and a copy that can be cut anywhere, and must come out once and in
  order; the property byte goes out before the later blocks are known.
* **Boundaries.** The overlap is aligned, kept or dropped by a rule evaluated
  before the next block's size is known; output can end anywhere in a slice.
* **Failure.** Allocation can fail in the middle of framing; an encoder can
  fail after its input was counted as processed.
* **Two sides.** The encoder's arrays of probabilities and the decoder's are
  laid out differently and must divide the bits alike; four readers of .xz
  files, which see the file in four different orders, must agree.
* **No second look.** Nothing compares the match table with the text: a wrong
  length is compressed like a right one.

`PROJECT.json` lists each hazard at its line with the properties that would
catch it.

## 2. Modules

```
JobPool                abstract: submitted work is done, once, and the owner is told
  ^ implements
ThreadPool             uf2_pool.c            ThreadPoolProofs

DictBuffer             dict_buffer.c         DictBufferProofs
  ^ extends
  |-- CStream          uf2_compress.c, the native streaming interface (MCCStream)
  |                                          CStreamProofs
  `-- XzStream         uf2_compress.c, the .xz framing of a stream
                                             XzStreamProofs

TableBuild             radix_mf.c, how threads share the lists   TableBuildProofs
  ^ extends                                  RadixTable: what is done with a list
  `-- MatchTable       the two, the blocks of UF2_compressBuffer (MCMatchTable)

RangeCoder <- Lzma <- Lzma2Decoder <- Lzma2Codec      (each extends the one before)
range_enc.c   symbols  lzma2_dec.c     LZMA2_encode and back (MCLzma2Codec)

Lzma2Stream            LZMA2 bytes, LZMA2_parseInput, what a run of the decoder does
  ^ extends
  |-- StreamDecoder    abstract: output in order, success when all of it is there
  |     ^ implements
  |-- DStreamMt        uf2_decompress.c, multithreaded streams (MCDStreamMt)
  |                                          DStreamLemmas, DStreamMtProofs
  `-- XzFormat         uf2_xz.c, the container
        ^ extends
        XzDecoder      uf2_decompress.c, the readers of .xz files (MCXzDecoder)

SequenceLemmas         facts about sequences that the proofs about streams use

DStreamInput           uf2_decompress.c, the overlapped input of a decoder with one
                       thread; used by Lzma2Codec and XzDecoder
```

**ThreadPool.** Variables are the fields of `UF2POOL_ctx_s`, the place of each
worker (`wpc`) and of the owner (`cpc`). A critical section is a step; reading
`ctx->function` and running the job, which the code does with the mutex
released, are steps of their own. `Check`, `Call`, `Return` are the parts of
`UF2POOL_thread`; `Create` ... `CreateFails`, `AddRange`, `WaitAll`,
`WaitAllTimed`, `IsIdle`, `Free`, `Joined` the functions of those names. The
owner adds a range only after it was told that the last one is done, which is
what the assertion in `UF2POOL_addRange` says of the callers.
`JobPool` is what callers rely on: jobs are outstanding, running or finished,
"told" is true only when all of them finished, and submitted jobs are finished
unless the pool is shut down.

**DictBuffer.** `data`, `index`, `start`, `end`, `total` are the fields of
`DICT_buffer`, `async` says whether there is a second buffer; a byte is its
position in the stream, so that "the window is the end of the stream" is an
equation. `Shift` is DICT_shift with its three
outcomes, `NeedShift` is DICT_needShift, translated separately since the code
writes the decision twice.

**CStream** extends DictBuffer with the context's stream state. A call is a
sequence of steps (`pc`): copy what output there is, check for an error, take
input or compress a block, copy again, test the loop limit, report. The block
compression on `compressThread` (`work`) advances between any two of them:
`WorkBuilds`, `WorkEncodes`, `WorkPublishes`, `WorkReturns`, each looking at
`canceled` where the code does. Without a thread the block is compressed inside
the call. A slice compresses to a sequence of pieces that name the bytes of
input they stand for, so what the caller has received (`out`) can be compared
with what was put. `Waited`/`StopWaiting` stand for UF2_waitCStream: what
ThreadPool proves of waitAll and isIdle is what `work = "idle"` assumes.
The caller is any caller that keeps to the rules of `uf-lzma2.h`: it does not
put data while it holds a dictionary buffer, does not take input after it began
to end the stream, passes no NULL output while output waits, and does not
initialise while a compression runs.

**XzStream** extends DictBuffer with the framing: `fcs` is the output state a
framing function reads and writes (`head`, `tail`, the held `block`, the index
`records`, the open block's `check`, `uSize`, `cSize`, and the copying position
`outThread`/`outPos`). Each allocation may fail, and a function is the set of
its outcomes, so `CloseHeldBlock` has one for each point it can stop at, with
the state it leaves there. An output byte is a record that says what it is part
of. Where CStream follows a call step by step, here the functions that calls
are made of are the actions, in any order the calls allow. The caller stops
after an error that framing reported, except in the run that asks what happens
if it does not.

**Lzma2Stream** has no state. A byte of a stream is a record that says what it
is: a chunk's control byte, another byte of its header, of its data, the end
mark, part of the digest, or a byte that cannot be what it should. One byte of
data decodes to one unit of output, named by the byte's position, so output can
be compared with the stream. `Decode` is a run of the decoder with the input
and the room it is given. It can stop at more than one place, since how much of
an incomplete chunk the LZMA decoder takes depends on the data: it is the set of
the results, where at most `Required` (LZMA_REQUIRED_INPUT_MAX) bytes are left.

**DStreamMt** has two records: `decmt` is `UF2_decMt` (the chain of nodes, each
the sequence of the positions it holds, the threads' blocks and buffers,
`memTotal` in the arithmetic of `size_t`), `fds` the decoder's own fields. A
call is a sequence of steps (`pc`): UF2_loadInputMt chunk by chunk and read by
read (`Load`, `NextChunk`, `BlockComplete`, `ReadInput`, `AddNode`,
`AddNodeFails`), the blocks of all threads one node at a time and interleaved
(`BlockStep`), then writing, the failover (`DecompressFailed`,
`DecompressOverlap`, `DecompressDirect`, and `Overrun` for a node cut below
where decoding goes on), the hash, and the test for progress
with which a call ends (`Report`). With a timeout these steps run in
`decompressThread`, between those of a caller who waits, times out, or cancels.
The caller gives as many bytes as it likes from where the last call stopped, in
the same buffer or a new one (how far input can be given back depends on it), is
any caller that after a timeout waits as `uf-lzma2.h` asks, and begins a stream
anew after an error or, a bounded number of times, in the middle of one. The
decoder's property, which the first call may read from the stream, is given when
the stream is begun.
`StreamDecoder` is what a caller sees of any of this: output grows by the
stream's units in order and never ahead of the input taken, success means that
all is there and that exactly the stream has been taken, and only corrupt
streams are rejected.

**DStreamInput** is UF2_decompressInput and UF2_decompressOverlappedInput, and
takes the decoder as a parameter: `Lzma2Codec` gives it the one that decodes
bits, `XzDecoder` the one of `Lzma2Stream`.

**RangeCoder, Lzma, Lzma2Decoder.** What is coded is a sequence of bits, each in
a context, and a model is a function of the contexts used since the last reset:
the encoder's contexts are named after the indices of its arrays, the decoder's
after its own, and that the two classify alike is checked. Numbers are
scaled: a byte has `ByteBits` bits, `low` and `range` four bytes, a probability
`ModelBits`. The encoder is range_enc.c with its carry, cache and count of
pending bytes, the decoder the macros of lzma2_dec.c. `Lzma2Decoder` follows
LZMA2_decodeToDic and LZMA2_decodeToBuf, early return by early return: the header
state by state, the dictionary circular or linear, a match cut off by a full
dictionary, and near the end of the input the copy of what is left, padded,
that LZMA_decodeReal reads instead. Reading beyond the input or a byte of
the dictionary that was never written is recorded.

**Lzma2Codec** is LZMA2_encode: chunks, what is reset for each, the output first
in a buffer of its own and then over the match table, the test for
incompressible data, storing a chunk and going back to the probabilities before
it. Which symbols are best is left open, since any that stand for the data are
right: `Symbols` are all of them, `Usual` the longest match, and a behaviour
departs from it `Detours` times. A chunk's end is the one of UF2_fast, where a
match may pass it; the other strategies end by the size of a buffer. One byte of
the result may then be changed, and it is decoded whole or in calls.

**XzFormat, XzDecoder.** A byte of a file is a record. A CRC is the record of what
it was taken of, so different contents never have the same; integers have
`VliBits` bits to a byte. The file's data is what `Lzma2Stream` has: what the
decoder of bits does with it is not repeated. `OneShot` is the reader in memory,
with one thread or with several (`SplitAtResets`: the parts of a block are
decoded all at once, where the code takes as many as it has threads at a time);
`FindSize` finds the size from the end of the file; the rest is the automaton that
is fed in pieces, state by state, and is what the steps are about. A file is right, has one thing wrong
that a writer might get wrong, or has one byte changed or an end missing.

**TableBuild.** `list_heads`, `stack` and `st_index` are the fields of
`UF2_matchTable_s` of those names, `pc`, `pos` and `taken` the place of each job in
RMF_buildTable. A job that is alone increments the index with a load and a
store; a list's count is read before its head, as the compiled code has it,
with other jobs and the clearing after a cancel between; the work on a list is
one step, for no other job touches its positions. Cancel is
the flag, RMF_cancelBuild and the wait. The lists of a block and the work on a
list are constants of the module; in `MatchTable` they are the operators of
`RadixTable`.

**RadixTable.** RMF_initTable for both table formats; the division of a list:
buffered (RMF_recurseListsBuffered), near the end of a block
(RMF_recurseListsBound), unbuffered (RMF_recurseLists16), by comparison for
short lists; the two functions that handle repeats; and how the encoder reads
length and distance. Loops whose iterations do not disturb each other are
functions of the list's positions. The memory behind the block holds `Unknown`.

**MatchTable** takes an input through the blocks of UF2_compressBuffer, with
overlap and dictionary resets, one table after the other, and says what the
encoder of each slice reads.

## 3. What is checked

| Run | Question | Instance |
|---|---|---|
| `pool` | is waitAll sound, are jobs run once, is a wakeup ever lost; do waits and the free return; is JobPool implemented | 2 workers, 2 functions, ranges within 0..3, so more jobs than workers |
| `cstream` | is the stream complete, in order and well formed, is a block left alone while it is compressed, does a cancel leave anything running, does a caller that repeats UF2_endStream get to the end | one and two buffers, timeouts set and cleared, size 4, overlap 3, interval 5, 9 bytes, two slices per block, output of 1 unit or NULL, encoders that may fail |
| `xz` | do head, slices and tail come out as a well formed file, whatever fails; do the dictionary buffers stay decodable and the resets in time | plain and with sized headers, two buffers, size 3, overlap 1, 7 bytes, two slices |
| `dstream` | is input lost or kept twice, does one thread go on where the chain has input, are blocks independent, is the whole a decoder with one thread, does decoding end | 2 threads, nodes of 6 bytes that overlap by 3, headers of 2, up to three blocks and 5 nodes, sound, empty and corrupt streams |
| `codec` | does what went in come out, does the output fit where it is written, is a byte read that is not there | 2 streams of 32 and 39 bytes, blocks of 29 with an overlap of 6, one or two slices, 3 bits to a byte, one symbol that is not the usual, 4 ways to decode, one byte changed to 3 values |
| `xz_read` | do the readers agree, are right files read and wrong ones rejected | 17 files; 4 of them right, with each byte changed to 3 values and cut at each place; calls of 1, 3, 30 bytes with room for 1 or 100 |
| `match_table` | is every match that is read real, is anything read behind the block, does a cancel leave lists, is a cancel reported that nobody asked for | all 256 inputs of 8 letters, and the sequences of three out of five pieces (runs, periods of 2 and 5, and no pattern) with four sets of parameters; one or two threads and a cancel anywhere on two more |
| `xz_retry` | *violated:* UF2_endStream returns 0 only when complete, after an error | one buffer |
| `dstream_wait` | *violated:* UF2_waitDStream some time returns the result | one chunk, and no end mark |
| `dstream_memory` | *violated:* only a limit that is exceeded makes the decoder go over to one thread | no allocation fails |
| `dstream_tiny` | *violated:* where one thread goes on in the chain is within the node it goes on with | 3 threads, nodes of 12 bytes that overlap by 6, a block of 3 bytes in the overlap |
| `match_repeat` | *violated:* every match that is read is real, when two letters in turn go from the overlap into new data | one text, both formats |

The sizes of the streaming runs are the smallest at which every branch is taken:
a buffer fills twice, so one shift keeps history and a later one drops it; a
block has two slices, so a copy can end inside the first, between them or inside
the second; `UF2_MAX_LOOPS`, 10 in the code, is 1, so the limit is reached. A stream's
length (`MaxTaken`) bounds the runs; nothing in the code depends on it.

For multithreaded decompression a block spans several nodes, a node holds several blocks, a
header is cut by the end of a node or of the input, and there are more blocks
than threads; room for 4 units ends in the middle of a block. Any allocation may
fail, which includes what a limit does; the limit itself is reached only in
`dstream_memory`. `MaxAbandoned` bounds how often a stream is given up in the
middle without a cancel.

In `codec` words have 12 bits, so that carries run through several bytes; chunks are
ended by their target, by their uncompressed limit and by the slice; some are
stored; the second block has history, and its dictionary is circular when it is
decoded in calls. A distance reaches every class of slots, the aligned ones
included. In `match_table` a list longer than the buffer is divided in pieces,
lists are shorter and longer than the one below which they are compared
(`MaxBrute`, 5 here and in the code), a run passes `MaxRepeat`, and chains reach
the greatest depth. Plans that `RepeatCrosses` describes are left out there and
are the subject of `match_repeat`.

The violations, each a finding in `PROJECT.json` with the line it contradicts:

* UF2_endStream after an error meets an error that is not kept: a block is
  taken from the dictionary buffer before its framing is allocated, the call
  reports the failure, and later calls know nothing of it.
* UF2_waitDStream meets a job that waits for itself: the third call without
  progress cancels the stream, and a cancel waits for `decompressThread`, which
  is the thread it runs on.
* The memory limit meets a count that is set to 0 before what it counts is
  freed, when a stream is begun before the last one ended.
* UF2_loadInputMt, when memory is refused as a block is complete, gives input
  back and cuts the last node to the block's end. If the block before it ended
  in the same overlap (the block has no more than 14 bytes), the node
  before still holds what comes after the cut: UF2_decompressFailedMt reads it
  there and comes to the last node at a position beyond its end. The sizes
  `temp.size - temp.pos` (lines 1161 and 1927) wrap around: within a chunk the
  decoder reads what the buffer holds behind the cut, and may reject a sound
  stream for it; otherwise line 1928 copies over the end of `fds->overlap` and of
  everything behind it. In the model that is `Overrun`: the call ends in an
  error, or `pc` is "overrun", of which there is no next step. What the model
  says of the decoder's results (the types, the account of the input, the
  refinement of StreamDecoder) holds of streams without such blocks, `LongBlocks`,
  as those of `dstream` are; the theorems have it as a hypothesis.
* RMF_handleRepeat2 means to do nothing for a run inside the overlap, but tests
  the run's first position where RMF_handleRepeat tests its last. A run that
  begins in the overlap and ends in new data is cut from the list, and its
  entries there are never given lengths.

More remarks that no run depends on: UF2_flushStream (`uf2_compress.c:1894`)
computes its result just after the block was handed to `compressThread`, when
UF2_hasOutput is false because the compression runs, and returns 0, for which
`uf-lzma2.h:368` has "complete", although the input's output is still to come,
and it does so as well when the block before ends during the call, whose output
is copied, while the rest of the input still waits in the dictionary buffer; a decoder with several threads that is
called first without input reads the property byte that is not there, and
leaves `pos` beyond `size` (`uf2_decompress.c:2214-2222`; one with one thread waits);
UF2_cancelDStream (`uf2_decompress.c:2008`) takes a `decompressThread` to mean that
there is a `decmt`, which a decoder with one thread and a timeout does not have;
UF2_remainingOutputSize
(`uf2_compress.c:1809`) counts a slice whole after part of it was copied;
`dict_buffer.h` says of `end` that it is never below `overlap`,
which does not hold for the first block; and after UF2_cancelCStream of a
stream whose end was already marked the rest of its output can still be read
and UF2_endStream does not ask for an initialisation. With two buffers and an
overlap fraction of 0, DICT_shift of a buffer with nothing in it switches again
(`dict_buffer.c`, called from `uf2_compress.c:1733`): a caller that gets a
dictionary buffer, updates it by 0 bytes and gets the next is given the one that
is in compression, and what it writes there corrupts the stream. TLC finds it in
CStream with `Overlap = 0` and `InputSizes = {0, 4}` as a violation of
`BlockIsStable`; the `cstream` run has an overlap.

**Fairness.** The pool: each worker's step is weakly fair (jobs return, the
scheduler starves nobody) and so is the continuation of a call the owner is
in; nothing obliges the owner to call. The stream: the steps inside a call and
the compression are weakly fair, the first because they run in the caller's
thread, the second by the pool's promise; the caller is strongly fair about one
thing, that having begun to end the stream it calls UF2_endStream again, with
room for output, until it is told 0. Decompression: the steps of a call and the
end of a wait are weakly fair, and the caller is strongly fair about calling
UF2_decompressStream whenever it may, with more input if there is any. (The
weak fairness of a call's steps is written with `InCall`, the condition under
which one can be taken, in place of ENABLED.)

The codec, the readers of files and the match table have no liveness properties:
their behaviours are a bounded number of steps of one caller, and that they do
not stop early is part of the safety properties (`pc = "ended"` with all the
data, in `RoundTrip`) and of TLC's test for deadlock.

## 4. What is proved

With TLAPS, for every value of the constants that satisfies the assumptions
named in the modules (a finite non-empty set of workers; a buffer in which the
overlap and an alignment unit fit, an interval of at least one buffer; blocks
whose lists, when the heads are null to begin with, are all on the stack, and
one thread at least; streams whose chunks follow one another, with the hash
after the end mark):

* `ThreadPoolProofs`: `TypeCorrect`, `WaitAllIsSound`, `EachJobOnce`,
  `WakeupsArrive`, `ShutdownDrops` (an action property) and `ImplementsPromise`,
  that every step of the pool is one of JobPool or a stutter. The argument is one inductive invariant: the busy count is
  the number of workers between popping a job and returning; every job of the
  range is still queued, with exactly one active worker, or finished; blocked
  threads imply the condition they wait for is false. The first part is what
  the code's counter stands for, and the other properties fail to be inductive
  without it: `told` follows from a count of zero only if zero means that no
  worker is active.
* `DictBufferProofs`: `OffsetsInBounds`, `ResetsInTime`, `DecodableWindow`,
  `FullBufferShifts`. `ResetInTime` is not inductive alone: a byte put raises
  `end`, so one needs that the space left in the buffer always fits in what is
  left of the interval, which holds because DICT_shift counts a whole buffer
  less the overlap before it decides.
* `TableBuildProofs`: `ListsInvariant`, `HeadsAreClear`,
  `CanceledOnlyByCaller`, for any number of threads and whatever is done with a
  list. That no head is left when a block is done is not inductive: a thread may
  still be between taking a list's head and clearing it when another finds the
  index at its end. `HInv` says where each list is: every list below the index is
  null or has a job that is on its way to clear it, unless a cancel moved the
  index; and job 0 leaves its loop only with the index at the end or beyond, so
  that when it is done every list is handled, or it has cleared them all. For the
  cancel, `CInv` counts: without one the index is beyond the end by at most the
  number of jobs that have left their loop, and there are no more lists than
  pairs of bytes, which stays below RADIX_CANCEL_INDEX; in the job that is alone
  the value it has read and not yet written back is counted, too. `TableAssumption` is what RMF_initTable
  has to do for this; TLC evaluates it for the plans of `match_table`, where the
  lists are those of `RadixTable`.

* `CStreamProofs`, for any buffers, overlap, interval, number of slices and
  sizes of input and output, and any sequence of calls: `ReadsPublished`,
  `StableBlock` (action properties), `CancelIsOver`, `EndIsComplete`. They follow
  from one inductive invariant, `CInv`, with six parts: that of `DictBuffer`,
  whose every step in a stream is a step of its own or leaves it alone
  (`DictStep`); types (`Flags`, `Counters`); `Written`, that the position
  in the slices is a position in a slice that is there; `Control`, which says at
  each step of a call what the earlier steps have established, above all that
  a step that touches a slice has seen `work` idle; and `OutOfReach`, why the
  caller's buffer is not the one in compression. The last is the
  heart of `StableBlock`: after a switch of buffers no other switch may be due
  until the compression has ended. It follows from DICT_shift, which leaves a
  buffer that needs no shift - unless there is no overlap, when the buffer it
  leaves is empty and needs a shift again. Then it holds only for a caller
  that puts something in before it asks for a buffer again, which is the
  hypothesis `NoEmptyUpdate` (see the remarks in section 3).
  `EndIsComplete` needs `EndingLater`, inductive relative to `CInv`: the
  end mark is put off only when output was left that kept the rest of the input
  from being compressed.
* `CStreamProofs` goes on with `NothingLost`, `StreamIsWellFormed`, `EndIsLast`,
  `CallsProgress`, about what is in the stream. `StreamInv` says that what was
  handed out and what waits in the slices, read as one sequence, is the
  property byte, the bytes from 0 on, and the end mark if it was put
  (`Framed`); that their number with the block in compression and what is
  in the dictionary buffer is what was taken, unless a compression failed; and
  that a slice that is compressed continues the sequence, for which the block's
  window must be the end of what was taken (`InTurn`) and not change meanwhile,
  which is where `StableBlock`'s argument comes in. The dictionary
  announced covers blocks that are not known yet, because a smaller one than the
  buffer is announced only when the stream is ending and its rest
  fits (`Announced`, `Done`). `CallsProgress` has its own invariant, what a call
  that has moved nothing has found at each of its steps (`Progress`).
* `XzStreamProofs`, for any number of slices and any sizes: `SlicesAreInReach`,
  and that the framing does to the dictionary buffer no more than `DictBuffer`
  allows (`FramedResetsInTime`, `FramedWindow`, `FramedFullShifts`), with blocks
  that are taken from it before the framing fails. `XInv` holds the type of the
  output state, for which each function of the framing has a lemma about every
  one of its outcomes, and that while a block is compressed there are no slices
  and the position in those to come is their start. `WrittenCut` says of any copy
  that what it hands out and what it leaves is what there was, in order.
* `XzStreamProofs` goes on with `FileWellFramed`, `BlocksDecodeAlone`, `SizesAreRight`,
  `BytesInOrder`, `EndIsReached`, everything the `xz` run says of the file. The
  properties speak of the whole file, by counting its pieces, and none is
  inductive. The proof therefore has a reader of the file, which takes a piece at
  a time and knows whether a block is open, how many bytes it has read, where the
  block began, its header and the sizes of those it has closed (`Reads`).
  A file that it accepts has the properties (`FileIsFramed`, `FileBlocksAlone`,
  `FileSizesMatch`, `FileKnown`), and `DInv` says that it accepts what
  the caller has followed by what waits in head, slices and tail, and comes to a
  state that the accounts of the stream agree with: `Accounts` (records, the
  sizes and the check of the open block, slices not yet accounted), `HeldRun`
  (what is held continues what was read), `InCompression` (a block that is
  compressed is counted already, its data still where it was),
  `InDictionary` (a block is open as long as there is history, and a header
  that announced less than the buffer was the last) and `AtEnd`. A failure leaves a file that is accepted
  so far and the accounts possibly wrong, for
  `CloseHeldBlock` and the like stop in the middle: hence the hypothesis
  `CallerGivesUp` of all five, that after a reported error the caller calls no more than
  UF2_initCStream. That `EndMeansComplete` needs it is what `xz_retry` shows. The
  last three have `OverlapWhenTwo`, too: with two buffers and no overlap
  the buffer in compression can be overwritten (see the remarks in section 3);
  TLC finds `NothingLostOrRepeated` violated with `Overlap = 0`.
* `DStreamMtProofs`, for sound, corrupt and cut streams, any number of
  threads above one, sizes of nodes (at least twice what two of them have in
  common), memory limit and sizes of calls, whatever the caller does, with and
  without a timeout: `BlocksIndependent` of every stream; `TypeCorrect` (so no
  node is filled beyond its size, and nothing is written behind the overlap's
  buffer) and `InputIsKept` (the input is accounted for, and one thread
  goes on within the chain) of every stream that is `LongBlocks`, that is, whose
  dictionary resets are farther apart than two nodes' common bytes less a
  header. None of them is inductive: that the chain
  continues the overlap says nothing of where in the stream it begins, which one
  must know when a node is shifted, and a block is independent only if the
  parser was at the first byte of a chunk when it began. The first invariant is
  `IInv`, with `Somewhere` as its core: there is one place o in the
  stream such that node i of the chain holds the bytes after o + (i - 1) *
  Step, each full but the last, which ends at the input's position (`Accounted`);
  complete blocks begin where the one before them ends, at a reset that has no
  other after it, and the block that is parsed so far ends where a chunk begins
  (`InProgress`, `Parsing`); and what was read beyond the parser goes no further
  than the end mark, except for bytes that are in the caller's buffer still and
  can be given back (`EndAfter`). A thread that decodes
  does so in a block that is complete (`Blocks`); after the change to one thread the rest
  of the chain, then the overlap, is what that thread goes on with
  (`OneThread`); and the digest is collected up to the input's position.
  `IInv` holds of every stream, tiny blocks or not, up to the step that overruns.
  The second invariant, `Within`, is why that step is never taken in a stream
  that is `LongBlocks`. After the change to one thread there is a place in the
  stream that the decoder does not pass before the last node and that the last
  node still holds (`Bound`): the end of the common bytes, if the node was not
  cut below it; a header that is not whole in them; or the end mark. To
  have that at the change, the block that is parsed has to end late enough in
  the last node, or begin in it, or late enough in the one before (`Far`), and
  more is read only where the parser stopped (`ToRead`). `LongBlocks` is used
  once, in `BlockCompleteWithin`: of a block that begins where the last ended,
  two resets close together would break `Far`.
  `DStreamLemmas` has the invariant and a lemma for each part of a call
  (a load, a parse, the shift of a chain, blocks that end, the
  failure of one), over streams and chains as values; `DStreamMtProofs` has one
  for each action and each invariant (...`Keeps`, ...`Within`). In an earlier form
  `InputAccounted` forgot a digest that comes in several calls; it was the proof
  that showed it not to be invariant.
* `SequenceLemmas` proves what flattening a sequence of slices does when one is
  appended, taken from the front or cut, by a least element of the set of
  counterexamples, in place of induction over an operator.

The assumptions on CStream's constants are that there is a slice, that sizes are
numbers, that the overlap and an alignment unit fit in the buffer, and that
the interval is at least a buffer. What a compression takes and fails at,
when the pool's thread runs, and whether a wait times out are open in each proof.

Only model-checked: liveness (`EndCompletes`, `CallsReturn`, `DecodingEnds`) and
the liveness of the refinements, which need ENABLED and fairness. Of DStreamMt,
`CallsMakeProgress`, which a stream that stops short does not have and which is
a matter of what a call began with, and the refinement of StreamDecoder: it does
not hold of every stream (`dstream_tiny`), and for the others its invariant has
to say what each thread has decoded of its block, for which `IInv` is only where
to begin. The codec and the readers, whose content is what recursive operators
compute; `MatchesAreReal` and
`ReadsInBlock`, for the same reason.

## 5. What is not modelled

* Which symbols the encoder chooses: prices, the optimal parser, the hash of
  three bytes. Any choice is in the model of the codec.
* The decoder's loop in assembler; it is to do what the C version does.
* The arithmetic of check sums (CRC, SHA-256, the combination of CRCs, the
  generated tables of `uf2_xz_tables.h`) and xxHash: a check is equal to what it
  was taken of.
* RMF_REFERENCE and the integrity check of the table, both for debugging.
* The progress estimate, parameter setting and the presets, which are
  tables, and the sizes of contexts and tables.
* The life of a context: no run frees one that works. UF2_freeCCtx frees
  buffers before it joins `compressThread` (hazard at `uf2_compress.c:395`).
* A decoder with one thread and a timeout, whose calls run on `decompressThread`
  (hazard at `uf2_decompress.c:2008`).
* The property byte that a streaming decoder's first call may read.
* `src/fast-lzma2`, the upstream library this one began as: more than two fifths
  of the C code in the tree. Fuzzers, tests, benchmarks and tools are programs
  that use the library.

Of the tree's lines of C, therefore, the model covers a small part, near a fifth;
of the files where the library's own logic is (`uf2_pool.c`, `dict_buffer.c`,
`uf2_compress.c`, `uf2_decompress.c`, `lzma2_enc.c`, `lzma2_dec.c`, `radix_mf.c`,
`radix_engine.h`, `range_enc.c`) it covers between half and three quarters. What
is missing there are the items above, comments and declarations.

## 6. What is left

1. The life of a context: allocation of all its parts with one of them failing,
   and freeing while a job runs.
2. The one-thread decoder on `decompressThread`, in DStreamMt.
3. Proofs: the safety part of the refinement of StreamDecoder by DStreamMt, for
   streams without a block that lies in an overlap as a whole, and DStreamMt's
   account of memory.
4. The decoder of `Lzma2Stream` as an abstraction of the one that decodes bits,
   checked by a refinement rather than by the two being used for different
   questions.
