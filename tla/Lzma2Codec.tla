----------------------------- MODULE Lzma2Codec -----------------------------
(***************************************************************************)
(* A stream through the LZMA2 encoder and back: the chunks LZMA2_encode    *)
(* makes of the slices of each block (lzma2_enc.c), and the decoder, which *)
(* is given the stream whole or in calls of any size.                      *)
(*                                                                         *)
(* Which symbols the parser finds best is left open: any that stands for   *)
(* the data can be encoded.  Control bytes and the properties have the     *)
(* values they have in the code, other bytes are scaled as RangeCoder says.*)
(***************************************************************************)
EXTENDS Lzma2Decoder, FiniteSets

CONSTANTS
  Streams,          \* the data: sequences of bytes
  Props,            \* [lc, lp, pb]
  BlockSizes,       \* bound: how much of the stream a block takes
  JobCounts,        \* bound: jobCount
  MinSlice,         \* ENC_MIN_BYTES_PER_THREAD
  Overlap, Align,   \* as in DictBuffer
  Lengths,          \* bound: match lengths tried besides the longest
  Detours,          \* bound: symbols of a stream that are not the longest
  TempMin,          \* kTempMinOutput
  TempSize,         \* kTempBufferSize
  ChunkSize,        \* kChunkSize
  MaxCompressed,    \* kMaxChunkCompressedSize
  MaxUncompressed,  \* kMaxChunkUncompressedSize
  LimitMargin,      \* kMaxMatchEncodeSize * 2
  EntrySize,        \* bytes of the match table for a byte of data
  MinTest,          \* kMinTestChunkSize
  FilterBits,       \* kRandomFilterMarginBits
  CallSizes,        \* bound: [input, room] of the decoder's calls
  Capacities,       \* bound: room for the whole, beyond what it takes
  Damages           \* bound: values a damaged byte takes

VARIABLES
  bytes,    \* the data
  block,    \* [origin, start, end]: the buffer starts at byte `origin`
  slices,   \* the slices of the block still to be encoded: [start, end]
  enc,      \* the encoder of a slice
  pc,       \* "block", "chunk", "symbols", "decode", "ended", "internal"
  out,      \* the compressed stream
  damaged,  \* one byte of it was changed
  inPos,    \* what the decoder has taken of it
  st,       \* the decoder: UF2_DStream, and the sizes of its calls
  got       \* what it has put out

vars == <<bytes, block, slices, enc, pc, out, damaged, inPos, st, got>>
decoding == <<damaged, inPos, st, got>>

Feed == INSTANCE DStreamInput WITH Needed <- Required, DecodeBuf <- DecodeToBuf

-----------------------------------------------------------------------------
(* Blocks and slices.                                                      *)
Data == [i \in 0 .. block.end - 1 |-> bytes[block.origin + i + 1]]   \* the buffer

(* Where the overlap that DICT_shift keeps begins.                         *)
KeptFrom == (block.end - Overlap) - ((block.end - Overlap) % Align)

(* The block after the last: without history, with the overlap before it,  *)
(* or behind the last where that is too short for a shift.                 *)
NextBlocks ==
  LET taken   == block.origin + block.end
      origins == {taken, block.origin + (IF block.end >= Overlap + Align THEN KeptFrom ELSE 0)}
  IN  {[origin |-> o, start |-> taken - o,
        end |-> Minimum(taken - o + n, Minimum(DictSize, Len(bytes) - o))] :
           o \in origins, n \in BlockSizes}

(* UF2_enc_threadCount and UF2_compressCurBlock_blocking: equal slices, and *)
(* the rest in the last.                                                   *)
SlicesOf(b, jobs) ==
  LET size    == b.end - b.start
      nb      == Max({1, Minimum(jobs, size \div MinSlice)})
      From(u) == IF u = nb THEN b.end ELSE b.start + u * (size \div nb)
  IN  [u \in 1 .. nb |-> [start |-> From(u - 1), end |-> From(u)]]

BeginBlock ==
  /\ pc = "block" /\ slices = <<>> /\ block.origin + block.end < Len(bytes)
  /\ block' \in NextBlocks
  /\ \E jobs \in JobCounts : slices' = SlicesOf(block', jobs)
  /\ UNCHANGED <<bytes, enc, pc, out, decoding>>

(* LZMA2_encode, up to its loop.  The first slice of a stream begins with  *)
(* the property byte.                                                      *)
BeginSlice ==
  /\ pc = "block" /\ slices # <<>>
  /\ \E p \in Props :
       enc' = [p |-> p, state |-> 0, reps |-> <<0, 0, 0, 0>>, model |-> NewModel, rc |-> RcReset,
               start |-> Head(slices).start, end |-> Head(slices).end, pos |-> Head(slices).start,
               cur |-> Head(slices).start, saved |-> <<>>, temp |-> TRUE, written |-> 0,
               properties |-> TRUE, incompressible |-> FALSE, streamProp |-> out = <<>>,
               detours |-> enc.detours]
  /\ slices' = Tail(slices)
  /\ pc' = "chunk"
  /\ UNCHANGED <<bytes, block, out, decoding>>

-----------------------------------------------------------------------------
(* Chunks.                                                                 *)
HeaderSize == (IF enc.streamProp THEN 1 ELSE 0) + (IF enc.properties THEN 6 ELSE 5)

States(e) == [state |-> e.state, reps |-> e.reps, model |-> e.model]

BeginChunk ==
  /\ pc = "chunk" /\ enc.pos < enc.end
  /\ LET e == [enc EXCEPT !.rc = RcReset, !.saved = IF enc.incompressible THEN @ ELSE States(enc)]
     IN  enc' = IF enc.pos = 0 /\ ~enc.incompressible
                THEN [EncodeLiteral(e, Data, 0) EXCEPT !.cur = 1] ELSE e
  /\ pc' = "symbols"
  /\ UNCHANGED <<bytes, block, slices, out, decoding>>

(* Mutant of UncompressedEnd: a match can pass the limit.                  *)
UncompressedEndExact == Minimum(enc.end, enc.pos + MaxUncompressed)

(* The last match of a chunk may begin before this and end after it.       *)
UncompressedEnd == Minimum(enc.end, enc.pos + MaxUncompressed - MatchLenMax + 1)

Target == IF enc.temp THEN TempMin ELSE ChunkSize
Limit  == (IF enc.temp THEN TempSize ELSE MaxCompressed) - LimitMargin

(* No match passes the end of the slice (RMF_limitLengths).                *)
Longest(dist) ==
  Max({n \in 0 .. Minimum(MatchLenMax, enc.end - enc.cur) : Repeats(Data, enc.cur, dist, n)} \cup {0})

LengthsAt(dist) ==
  {n \in Lengths \cup {Longest(dist)} : MatchLenMin <= n /\ n <= Longest(dist)}

(* Bound: the matches tried are the nearest of their length.               *)
Nearest(dist) == \A d \in 0 .. dist - 1 : Longest(d) < Longest(dist)

Symbols ==
  {Literal}
    \cup {s \in {ShortRep} : Repeats(Data, enc.cur, enc.reps[1], 1)}
    \cup UNION {{Rep(i, n) : n \in LengthsAt(enc.reps[i + 1])} : i \in 0 .. 3}
    \cup UNION {{Match(d, n) : n \in LengthsAt(d)} : d \in {e \in 0 .. enc.cur - 1 : Nearest(e)}}

(* Bound: a parse takes the longest, and something else up to Detours times.*)
Usual == CHOOSE s \in Symbols : \A t \in Symbols : SymbolLength(t) <= SymbolLength(s)

(* One symbol of LZMA2_encodeChunk.  A sequence that was begun is carried  *)
(* on beyond the target, but not beyond the limit.                         *)
EncodeNext ==
  /\ pc = "symbols" /\ ~enc.incompressible
  /\ enc.cur < UncompressedEnd /\ Len(enc.rc.out) < Limit
  /\ \E s \in Symbols :
       /\ s = Usual \/ enc.detours < Detours
       /\ enc' = [EncodeSymbol(enc, Data, enc.cur, s)
                    EXCEPT !.cur = @ + SymbolLength(s), !.detours = IF s = Usual THEN @ ELSE @ + 1]
  /\ UNCHANGED <<bytes, block, slices, pc, out, decoding>>

ChunkDone == enc.incompressible \/ enc.cur >= UncompressedEnd \/ Len(enc.rc.out) >= Target

(* After enough output the match table is the output buffer.               *)
SwitchToTable ==
  /\ pc = "symbols" /\ enc.temp /\ ChunkDone /\ ~enc.incompressible
  /\ enc' = [enc EXCEPT !.temp = FALSE]
  /\ pc' = IF HeaderSize + Len(enc.rc.out) > TempSize THEN "internal" ELSE "symbols"
  /\ UNCHANGED <<bytes, block, slices, out, decoding>>

(* The bytes of a chunk's header; control bytes as lzma2_dec.c lists them. *)
Size2(n)      == <<((n - 1) \div Base) % Base, (n - 1) % Base>>
StoredHeader(n) == <<IF enc.pos = 0 THEN 1 ELSE 2>> \o Size2(n)
PropsByte(p)  == (p.pb * 5 + p.lp) * 9 + p.lc

LzmaHeader(u, c) ==
  LET mode == IF enc.pos = 0 THEN 3 ELSE IF enc.properties THEN 2 ELSE 0
  IN  <<128 + 32 * mode + (u - 1) \div (Base * Base)>> \o Size2(u) \o Size2(c)
        \o (IF enc.properties THEN <<PropsByte(enc.p)>> ELSE <<>>)

(* Mutant of AfterStored: the states are those of the bytes thrown away.   *)
AfterStoredKeeps(e) == e

AfterStored(e) ==                          \* the states are restored
  IF e.incompressible THEN e
  ELSE [e EXCEPT !.state = e.saved.state, !.reps = e.saved.reps, !.model = e.saved.model]

(* The result of LZMA2_isChunkIncompressible depends on the data.          *)
TestNext(next) == IF enc.end - next >= MinTest THEN BOOLEAN ELSE {FALSE}

EndChunk ==
  /\ pc = "symbols" /\ ChunkDone /\ (enc.temp => enc.incompressible)
  /\ LET rc     == IF enc.incompressible THEN enc.rc ELSE Flush(enc.rc)
         next   == IF enc.incompressible THEN Minimum(enc.pos + ChunkSize, enc.end) ELSE enc.cur
         c      == Len(rc.out)
         u      == next - enc.pos
         stored == enc.incompressible \/ u + 3 <= c + HeaderSize
         chunk  == (IF enc.streamProp THEN <<DictSize>> ELSE <<>>)
                     \o (IF stored THEN StoredHeader(u) \o [i \in 1 .. u |-> Data[enc.pos + i - 1]]
                         ELSE LzmaHeader(u, c) \o rc.out)
         left   == IF stored THEN u ELSE c
         tests  == enc.incompressible
                     \/ u + 3 <= left + left \div 2 ^ FilterBits + (Len(chunk) - left)
         e      == IF stored THEN AfterStored(enc) ELSE [enc EXCEPT !.properties = FALSE]
     IN  IF c > MaxCompressed \/ u > MaxUncompressed
         THEN pc' = "internal" /\ UNCHANGED <<enc, out>>
         ELSE /\ \E i \in (IF tests THEN TestNext(next) ELSE {enc.incompressible}) :
                   enc' = [e EXCEPT !.pos = next, !.cur = next, !.incompressible = i,
                                    !.written = @ + Len(chunk), !.streamProp = FALSE,
                                    !.saved = <<>>, !.rc = RcReset]
              /\ out' = out \o chunk
              /\ pc' = "chunk"
  /\ UNCHANGED <<bytes, block, slices, decoding>>

EndSlice ==
  /\ pc = "chunk" /\ enc.pos >= enc.end
  /\ pc' = "block"
  /\ UNCHANGED <<bytes, block, slices, enc, out, decoding>>

(* The end mark; the encoder is done with.                                 *)
EndStream ==
  /\ pc = "block" /\ slices = <<>> /\ block.origin + block.end = Len(bytes)
  /\ out' = Append(out, 0)
  /\ pc' = "decode"
  /\ \E c \in CallSizes : st' = [st EXCEPT !.input = c.input, !.room = c.room]
  /\ block' = [origin |-> 0, start |-> 0, end |-> 0]
  /\ enc' = [detours |-> enc.detours]
  /\ UNCHANGED <<bytes, slices, damaged, inPos, got>>

-----------------------------------------------------------------------------
(* Decoding.                                                               *)

(* One byte of the compressed stream was changed on its way.  (Bound: only *)
(* in a stream without detours, decoded in large pieces.)                  *)
Damage ==
  /\ pc = "decode" /\ inPos = 0 /\ ~damaged /\ enc.detours = 0 /\ st.input > Required
  /\ \E i \in 2 .. Len(out), v \in Damages : v # out[i] /\ out' = [out EXCEPT ![i] = v]
  /\ damaged' = TRUE
  /\ UNCHANGED <<bytes, block, slices, enc, pc, inPos, st, got>>

(* UF2_decompressLzma2: the destination is the dictionary.                 *)
DecodeWhole ==
  /\ pc = "decode" /\ inPos = 0
  /\ \E n \in {Len(bytes) + extra : extra \in Capacities} :
       \E r \in {DecodeToDic([InitDecoder(n) EXCEPT !.src = Tail(out)], n, "end")} :
           /\ got' = [i \in 1 .. r.dicPos |-> r.dic[i - 1]]
           /\ st' = [st EXCEPT !.dec = Between(r), !.room = n,
                               !.res = IF r.status = "more" THEN "srcSize" ELSE r.status]
           /\ inPos' = 1 + r.taken
  /\ pc' = "ended"
  /\ UNCHANGED <<bytes, block, slices, enc, out, damaged>>

(* UF2_decompressStream_blocking, one thread and no hash.  The first byte  *)
(* is the property.  Three calls in a row that do nothing are an error.    *)
DecompressStream ==
  /\ pc = "decode"
  /\ LET src    == SubSeq(out, inPos + 1, Minimum(inPos + st.input, Len(out)))
         first  == IF st.stage = "init" THEN 1 ELSE 0
         opened == IF first = 1 THEN [st EXCEPT !.stage = "decomp", !.dec = InitDecoder(DicBufSize)] ELSE st
         results == IF src = <<>> THEN {Feed!Idle(st)}
                    ELSE {[r EXCEPT !.used = @ + first] :
                            r \in Feed!DecompressOverlappedInput(opened, SubSeq(src, first + 1, Len(src)), st.room)}
     IN  \E r \in results :
           LET idle  == r.s.stage # "finished" /\ r.used = 0 /\ r.out = <<>>
               loops == IF idle THEN st.loops + 1 ELSE 0
               res   == IF r.res = "ok" /\ loops > 2 THEN "buffer"
                        ELSE IF r.res = "ok" /\ r.s.stage = "finished" THEN "finished" ELSE r.res
           IN  /\ st' = [r.s EXCEPT !.loops = loops, !.res = res]
               /\ got' = got \o r.out
               /\ inPos' = inPos + r.used
               /\ pc' = IF res = "ok" THEN "decode" ELSE "ended"
  /\ UNCHANGED <<bytes, block, slices, enc, out, damaged>>

Init ==
  /\ bytes \in Streams
  /\ block = [origin |-> 0, start |-> 0, end |-> 0] /\ slices = <<>>
  /\ enc = [detours |-> 0]
  /\ pc = "block" /\ out = <<>> /\ damaged = FALSE /\ inPos = 0 /\ got = <<>>
  /\ st = [stage |-> "init", dec |-> Between(InitDecoder(0)), overlap |-> <<>>, loops |-> 0,
           res |-> "ok", input |-> 0, room |-> 0]

Encoding == BeginBlock \/ BeginSlice \/ BeginChunk \/ EncodeNext \/ SwitchToTable \/ EndChunk
              \/ EndSlice \/ EndStream
Decoding == Damage \/ DecodeWhole \/ DecompressStream

Done == pc \in {"ended", "internal"} /\ UNCHANGED vars

Next == Encoding \/ Decoding \/ Done
Spec == Init /\ [][Next]_vars

-----------------------------------------------------------------------------
(* What the encoder makes of the data is decoded to the data, wherever the *)
(* blocks, slices and chunks end, whatever the parser chose and whether    *)
(* chunks were stored, and wherever the decoder's input and output were    *)
(* cut: contexts, states, reps and the carries of the range coder are the  *)
(* same on both sides.  Neither a call that could use what it was given    *)
(* nor a header is ever refused, and a destination is too small only if it *)
(* is.                                                                     *)
RoundTrip ==
  ~damaged =>
    /\ Len(got) <= Len(bytes) /\ got = SubSeq(bytes, 1, Len(got))
    /\ pc = "ended" =>
         \/ st.res = "finished" /\ got = bytes /\ inPos = Len(out)
         \/ st.res = "tooSmall" /\ inPos > 0 /\ st.room < Len(bytes)

(* No byte is read beyond the input or the padded copy of its end, and no  *)
(* byte of the dictionary that was not written, whatever the input holds.  *)
ReadsInBounds == ~st.dec.over /\ ~st.dec.unset

(* What a slice is compressed to fits: no chunk is more than its header    *)
(* can say, and the output, which goes over the match table that was built *)
(* for the data, reaches neither an entry that is still to be read, nor the *)
(* next slice's, nor the end of the table.                                 *)
OutputFits ==
  /\ pc # "internal"
  /\ pc \in {"chunk", "symbols"} /\ ~enc.temp =>
       enc.written + HeaderSize + Len(enc.rc.out) <=
         EntrySize * ((IF enc.cur < enc.end THEN enc.cur
                       ELSE IF slices # <<>> THEN enc.end ELSE DictSize) - enc.start)
=============================================================================
