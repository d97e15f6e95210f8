---------------------------- MODULE Lzma2Decoder ----------------------------
(***************************************************************************)
(* The LZMA2 decoder: how lzma2_dec.c takes a stream that comes in pieces  *)
(* and writes a dictionary that may be circular and may be full.           *)
(*                                                                         *)
(* Each function of the code that returns early is an operator on the      *)
(* decoder d: d.src is the input of the call, d.taken how much of it is    *)
(* used, d.status the result.  A chunk's header has the form it has in the *)
(* code; its sizes are written in bytes of ByteBits bits.                  *)
(***************************************************************************)
EXTENDS Lzma

CONSTANTS
  DictSize,      \* prop.dic_size, what the property byte announces
  DicBufSize,    \* LZMA2_dictBufSize of that
  Required       \* LZMA_REQUIRED_INPUT_MAX

ASSUME DecoderAssumption ==
  /\ DictSize \in Nat \ {0} /\ DicBufSize \in Nat /\ DictSize <= DicBufSize
  /\ Required \in Nat

InitSize == 5                              \* RC_INIT_SIZE

(* kBadRepCode: the first bits of a stream are a match with a rep.         *)
Bound0     == ((Word - 1) \div ModelTotal) * (ModelTotal \div 2)
BadRepCode == Bound0 + ((Word - 1 - Bound0) \div ModelTotal) * (ModelTotal \div 2)

(* LZMA2_initDecoder with a dictionary of n bytes.                         *)
InitDecoder(n) ==
  [range |-> 0, code |-> 0, model |-> NewModel, state |-> 0, reps |-> <<1, 1, 1, 1>>,
   p |-> [lc |-> 3, lp |-> 0, pb |-> 2], dic |-> [i \in 0 .. n - 1 |-> Unset], size |-> n,
   dicPos |-> 0, processed |-> 0, checkDic |-> 0, len |-> 0,
   state2 |-> "control", control |-> 0, unpack |-> 0, pack |-> 0,
   needDic |-> TRUE, needState2 |-> TRUE, needProp |-> TRUE,
   needFlush |-> TRUE, needInitState |-> TRUE,
   src |-> <<>>, taken |-> 0, buf |-> 0, status |-> "", put |-> <<>>,
   bit |-> 0, symbol |-> 0, kind |-> "", offs |-> 0, matchByte |-> 0,
   corrupt |-> FALSE, unset |-> FALSE, over |-> FALSE]

Rest(d)    == Len(d.src) - d.taken
Byte(d, i) == d.src[d.taken + i]
Take(d, n) == [d EXCEPT !.taken = @ + n]
Returns(d, status) == [d EXCEPT !.status = status]
Corrupt(d) == [d EXCEPT !.status = "corrupt", !.corrupt = TRUE]

-----------------------------------------------------------------------------
(* LZMA data.                                                              *)

(* Mutant of Checked: the whole dictionary is in use at once.              *)
CheckedAtOnce(d, len) == [d EXCEPT !.checkDic = DictSize]

(* The whole dictionary is in use once dic_size bytes have been written.   *)
Checked(d, len) ==
  IF d.checkDic = 0 /\ DictSize - d.processed <= len THEN [d EXCEPT !.checkDic = DictSize] ELSE d

(* Mutant of WriteRem: what is left over is forgotten.                     *)
WriteRemForgets(d, limit) == [d EXCEPT !.len = 0]

(* LZMA_writeRem: the rest of a match that the last limit cut.             *)
WriteRem(d, limit) ==
  LET n == IF limit - d.dicPos < d.len THEN limit - d.dicPos ELSE d.len
  IN  IF d.len = 0 THEN d
      ELSE [CopyMatch(Checked(d, n), n) EXCEPT !.processed = @ + n, !.len = @ - n]

(* LZMA_decodeReal_3: symbols until the limit, or while buf is in bounds.  *)
RECURSIVE DecodeReal3(_, _, _)

AfterSymbol(s, limit, bufLimit) ==
  CASE s.corrupt -> s
    [] ~s.corrupt /\ s.dicPos < limit /\ s.buf < bufLimit -> DecodeReal3(s, limit, bufLimit)
    [] OTHER -> Normalize(s)

DecodeReal3(d, limit, bufLimit) == AfterSymbol(DecodeSymbol(d, limit), limit, bufLimit)

(* More symbols that need no more bytes.                                   *)
RECURSIVE DecodeFree(_, _, _)

AfterReal3(s, limit, bufLimit) ==
  IF ~s.corrupt /\ s.dicPos < limit /\ s.buf = bufLimit /\ TryDummy(s)
  THEN DecodeFree(s, limit, bufLimit) ELSE s

DecodeFree(d, limit, bufLimit) == AfterReal3(DecodeReal3(d, limit, bufLimit), limit, bufLimit)

(* The loop of LZMA_decodeReal2.  Until the dictionary has been filled     *)
(* once, a match stops where it becomes full.                              *)
RECURSIVE DecodeUntil(_, _, _)

AfterRem(w, limit, bufLimit) ==
  IF w.dicPos < limit /\ w.buf < bufLimit THEN DecodeUntil(w, limit, bufLimit) ELSE w

AfterFree(s, limit, bufLimit) ==
  IF s.corrupt THEN Corrupt(s) ELSE AfterRem(WriteRem(Checked(s, 0), limit), limit, bufLimit)

DecodeUntil(d, limit, bufLimit) ==
  LET rem    == DictSize - d.processed
      limit2 == IF d.checkDic = 0 /\ limit - d.dicPos > rem THEN d.dicPos + rem ELSE limit
  IN  IF d.checkDic = 0 /\ d.processed = 0 /\ d.code >= BadRepCode THEN Corrupt(d)
      ELSE AfterFree(DecodeFree(d, limit2, bufLimit), limit, bufLimit)

DecodeReal2(d, limit, bufLimit) ==
  IF d.buf = bufLimit /\ ~TryDummy(d) THEN Corrupt(d) ELSE DecodeUntil(d, limit, bufLimit)

InitStateReal(d) ==
  IF d.needInitState
  THEN [d EXCEPT !.model = NewModel, !.reps = <<1, 1, 1, 1>>, !.state = 0, !.needInitState = FALSE]
  ELSE d

(* Where the last symbol to be decoded in place may begin.                 *)
LimitOf(d) == Len(d.src) - Required

(* The loop of LZMA_decodeToDic.  The last bytes are decoded from a copy   *)
(* that is followed by zeros.                                              *)
RECURSIVE LzmaSteps(_, _, _)

AfterReal2(s, room, limit, finish) ==
  LET seen == [s EXCEPT !.over = @ \/ s.buf > room]
  IN  IF s.corrupt THEN seen ELSE LzmaSteps([seen EXCEPT !.taken = s.buf], limit, finish)

LzmaSteps(d, limit, finish) ==
  LET inPlace  == Rest(d) > Required
      bufLimit == IF inPlace THEN LimitOf(d) ELSE Len(d.src)
      room     == IF inPlace THEN Len(d.src) ELSE d.taken + 2 * Required
      Checks(s) == IF ~inPlace /\ ~s.corrupt /\ s.buf > Len(d.src) THEN Corrupt(s) ELSE s
  IN  CASE d.dicPos >= limit ->
             Returns(d, IF d.len = 0 /\ d.code = 0 THEN "finished" ELSE "notFinished")
        [] d.dicPos < limit /\ ~inPlace /\ finish = "any" -> Returns(d, "more")
        [] OTHER ->
             AfterReal2(Checks(DecodeReal2([InitStateReal(d) EXCEPT !.buf = d.taken], limit, bufLimit)),
                        room, limit, finish)

AfterWriteRem(w, limit, finish) ==
  LET code == FoldLeft(LAMBDA c, i : c * Base + Byte(w, i), 0, <<2, 3, 4, 5>>)
  IN  CASE w.needFlush /\ Rest(w) < InitSize -> Returns(w, "more")
        [] w.needFlush /\ Rest(w) >= InitSize /\ Byte(w, 1) # 0 -> Corrupt(w)
        [] OTHER ->
             LzmaSteps(IF ~w.needFlush THEN w
                       ELSE [Take(w, InitSize) EXCEPT !.code = code, !.range = Word - 1, !.needFlush = FALSE],
                       limit, finish)

LzmaToDic(d, limit, finish) == AfterWriteRem(WriteRem(d, limit), limit, finish)   \* LZMA_decodeToDic

-----------------------------------------------------------------------------
(* Chunks.                                                                 *)
IsStored(control) == control < 128
Mode(control)     == (control \div 32) % 4
HasProp(control)  == ~IsStored(control) /\ Mode(control) >= 2

(* LZMA_initDicAndState.                                                   *)
InitDicAndState(d, dic, state) ==
  [d EXCEPT !.needFlush = TRUE, !.len = 0,
            !.processed = IF dic THEN 0 ELSE @, !.checkDic = IF dic THEN 0 ELSE @,
            !.needInitState = @ \/ dic \/ state]

(* The sizes and properties LZMA2_nextChunkInfo finds in a header.         *)
ChunkInfo(d) ==
  LET control == Byte(d, 1)
      low(i)  == Byte(d, i) * Base + Byte(d, i + 1) + 1
      b       == Byte(d, 6)
  IN  IF IsStored(control)
      THEN [Take(d, 3) EXCEPT !.control = control, !.unpack = low(2), !.state2 = "data"]
      ELSE [Take(d, IF HasProp(control) THEN 6 ELSE 5)
             EXCEPT !.control = control, !.state2 = "data",
                    !.unpack = (control % 32) * Base * Base + low(2), !.pack = low(4),
                    !.p = IF HasProp(control)
                          THEN [lc |-> b % 9, lp |-> (b \div 9) % 5, pb |-> b \div 45] ELSE @]

BadProp(b) == b >= 9 * 5 * 5 \/ (b % 9) + ((b \div 9) % 5) > 4

(* What a chunk needs to have come before it, and what it resets.          *)
BeginStored(d) ==
  IF d.control # 1 /\ d.needDic THEN Corrupt(d)
  ELSE InitDicAndState([d EXCEPT !.needDic = FALSE, !.needProp = @ \/ d.control = 1,
                                 !.needState2 = @ \/ d.control = 1], d.control = 1, FALSE)

BeginLzma(d) ==
  LET mode == Mode(d.control)
  IN  IF (mode # 3 /\ d.needDic) \/ (mode = 0 /\ d.needState2) \/ (d.needProp /\ mode < 2)
      THEN Corrupt(d)
      ELSE InitDicAndState([d EXCEPT !.needProp = @ /\ mode < 2, !.needDic = FALSE,
                                     !.needState2 = FALSE], mode = 3, mode # 0)

(* Control state of LZMA2_decodeChunkToDic: it returns, or the state2 of   *)
(* the result is "data".                                                   *)
ReadHeader(d) ==
  LET n     == Rest(d)
      enough == IF IsStored(Byte(d, 1)) THEN 3 ELSE IF HasProp(Byte(d, 1)) THEN 6 ELSE 5
      begun == ChunkInfo(d)
  IN  CASE n = 0 -> Returns(d, "more")
        [] n > 0 /\ Byte(d, 1) = 0 -> Returns([Take(d, 1) EXCEPT !.state2 = "finished"], "finished")
        [] n > 0 /\ Byte(d, 1) # 0 /\ (n < 3 \/ (~IsStored(Byte(d, 1)) /\ n < enough)) -> Returns(d, "more")
        [] OTHER ->
             IF IsStored(begun.control)
             THEN IF begun.control > 2 THEN Corrupt(d) ELSE BeginStored(begun)
             ELSE IF HasProp(begun.control) /\ BadProp(Byte(d, 6)) THEN Corrupt(d)
             ELSE BeginLzma(begun)

(* LZMA_updateWithUncompressed.                                            *)
CopyStored(d, n) ==
  LET c == Checked(d, n)
  IN  [Take(c, n) EXCEPT !.dic = [i \in 0 .. d.size - 1 |->
                                   IF d.dicPos <= i /\ i < d.dicPos + n
                                   THEN Byte(d, i - d.dicPos + 1) ELSE c.dic[i]],
                         !.dicPos = @ + n, !.processed = @ + n]

Minimum(a, b) == IF a < b THEN a ELSE b

EndOfChunk(d) == [d EXCEPT !.status = "notFinished",
                           !.state2 = IF d.unpack = 0 THEN "control" ELSE @]

(* The packed bytes there are; all of them, or as many as are safe.        *)
LzmaChunkDone(d, s) ==
  CASE s.corrupt -> s
    [] ~s.corrupt /\ s.unpack = 0 /\ (s.status # "finished" \/ s.pack # 0) -> Corrupt(s)
    [] ~s.corrupt /\ s.unpack # 0 /\ s.status = "more" -> IF s.pack = 0 THEN Corrupt(s) ELSE s
    [] ~s.corrupt /\ s.status # "more" /\ s.taken = d.taken /\ s.dicPos = d.dicPos -> Corrupt(s)
    [] OTHER -> EndOfChunk(s)

Counted(d, r) ==
  [r EXCEPT !.src = d.src, !.pack = @ - (r.taken - d.taken), !.unpack = @ - (r.dicPos - d.dicPos)]

LzmaChunk(d, room) ==
  LET all == Rest(d) >= d.pack
      cut == [d EXCEPT !.src = SubSeq(@, 1, d.taken + Minimum(Rest(d), d.pack))]
  IN  IF ~all /\ Rest(d) < Required THEN Returns(d, "more")
      ELSE LzmaChunkDone(d, Counted(d, LzmaToDic(cut, d.dicPos + room, IF all THEN "end" ELSE "any")))

(* Data state of LZMA2_decodeChunkToDic.                                   *)
ReadData(d, limit, finish) ==
  LET room == Minimum(limit - d.dicPos, d.unpack)
      n    == Minimum(Rest(d), room)
  IN  CASE limit = d.dicPos -> Returns(d, IF finish = "any" THEN "full" ELSE "tooSmall")
        [] limit # d.dicPos /\ ~IsStored(d.control) -> LzmaChunk(d, room)
        [] limit # d.dicPos /\ IsStored(d.control) /\ Rest(d) = 0 -> Returns(d, "more")
        [] OTHER -> EndOfChunk([CopyStored(d, n) EXCEPT !.unpack = @ - n])

AfterHeader(h, limit, finish) ==
  CASE h.state2 = "finished" -> Returns(h, "finished")
    [] h.state2 = "data" /\ ~h.corrupt -> ReadData(h, limit, finish)
    [] OTHER -> h

DecodeChunkToDic(d, limit, finish) ==
  AfterHeader(IF d.state2 = "control" THEN ReadHeader(d) ELSE d, limit, finish)

IsError(status) == status \in {"corrupt", "tooSmall"}

(* LZMA2_decodeToDic.                                                      *)
RECURSIVE DecodeToDic(_, _, _)

AfterChunk(r, limit, finish) ==
  CASE IsError(r.status) -> [r EXCEPT !.state2 = "error"]
    [] r.status \in {"finished", "more", "full"} -> r
    [] OTHER -> DecodeToDic(r, limit, finish)

DecodeToDic(d, limit, finish) ==
  IF d.state2 = "error" THEN Corrupt(d)
  ELSE AfterChunk(DecodeChunkToDic(d, limit, finish), limit, finish)

(* The loop of LZMA2_decodeToBuf.                                          *)
RECURSIVE FillBuf(_, _)

AfterFill(r, from, room) ==
  LET n == r.dicPos - from
      e == [r EXCEPT !.put = @ \o [i \in 1 .. n |-> r.dic[from + i - 1]]]
  IN  CASE IsError(r.status) \/ r.status = "finished" -> e
        [] r.status \in {"more", "full"} /\ n \in {0, room} -> Returns(e, "ok")
        [] OTHER -> FillBuf(e, room - n)

FillFrom(d, room) ==
  AfterFill(DecodeToDic(d, d.dicPos + Minimum(d.size - d.dicPos, room), "any"), d.dicPos, room)

FillBuf(d, room) == FillFrom(IF d.dicPos = d.size THEN [d EXCEPT !.dicPos = 0] ELSE d, room)

(* What remains of a decoder between calls.                                *)
Between(d) == [d EXCEPT !.src = <<>>, !.taken = 0, !.buf = 0, !.put = <<>>, !.status = "", !.bit = 0,
                        !.symbol = 0, !.kind = "", !.offs = 0, !.matchByte = 0]

DecodeToBuf(d, src, room) ==
  {[dec |-> Between(r), used |-> r.taken, out |-> r.put, res |-> r.status] :
     r \in {FillBuf([d EXCEPT !.src = src], room)}}
=============================================================================
