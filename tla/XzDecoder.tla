------------------------------ MODULE XzDecoder ------------------------------
(***************************************************************************)
(* The readers of .xz files in uf2_decompress.c: the decoder of a file in  *)
(* memory, on one thread and on several, the one that is fed the file in   *)
(* pieces, and the one that only looks for the uncompressed size.  The     *)
(* first hold what they compare; the third sees each byte once, keeps      *)
(* running CRCs and sums, and finds the end of a block by decoding it; the *)
(* fourth begins at the end.                                               *)
(*                                                                         *)
(* Output is the positions its units were decoded from (Lzma2Stream).      *)
(***************************************************************************)
EXTENDS XzFormat

CONSTANTS
  Files,       \* what is written: see FileOf
  Damages,     \* what a byte of framing is changed to
  CallSizes,   \* bytes given to a call
  Rooms,       \* room given to a call
  CheckStep    \* XZ_CHECK_STEP

VARIABLES
  made,    \* the member of Files
  file,    \* its bytes
  fault,   \* "none", or what has become of them
  pos,     \* how many of them the streaming decoder has taken
  st,      \* the streaming decoder
  got      \* what it has put out

vars == <<made, file, fault, pos, st, got>>

Least(a, b) == IF a < b THEN a ELSE b

-----------------------------------------------------------------------------
(* What is written.  A stream has a check, blocks, Stream Padding after it *)
(* and `wrong`, what its Index or Footer has wrong; a block has the sizes  *)
(* its header states, chunks, and `wrong`, a stated size that is one more. *)
Lzma2Data(b) ==
  FoldLeft(LAMBDA s, c : s \o Chunk(c.reset, c.size, "no"), <<>>, b.chunks) \o Terminator

Decoded(data) == SelectSeq(data, LAMBDA x : x.kind = "data")

MoreIf(wrong, what) == IF wrong = what THEN 1 ELSE 0

HeaderFor(b, cSize, uSize) ==
  WriteBlockHeader(IF "c" \in b.sizes THEN <<cSize + MoreIf(b.wrong, "cSize")>> ELSE <<>>,
                   IF "u" \in b.sizes THEN <<uSize + MoreIf(b.wrong, "uSize")>> ELSE <<>>, 24)

BlockWith(header, data, content, check) ==
  [bytes  |-> header \o Padded(data, 0) \o Crc(content, CheckSize(check)),
   record |-> <<Len(header) + Len(data) + CheckSize(check), Len(content)>>]

BlockFrom(b, data, content, check) ==
  BlockWith(HeaderFor(b, Len(data), Len(content)), data, content, check)

BlockOn(b, data, check) == BlockFrom(b, data, Decoded(data), check)

BlockOf(b, check) == BlockOn(b, Lzma2Data(b), check)

IndexFor(wrong, records) ==
  WriteIndex(IF wrong = "vli" THEN Fs(<<VliBase + Len(records), 0>>)
             ELSE VliEncode(Len(records) + MoreIf(wrong, "count")),
             CASE wrong = "swapped"  -> Reverse(records)
               [] wrong = "size"     -> [records EXCEPT ![1][2] = @ + 1]
               [] wrong = "unpadded" -> [records EXCEPT ![1][1] = @ + 1]
               [] OTHER -> records)

StreamEndFor(s, index) ==
  index \o WriteStreamFooter(Len(index) + 4 * MoreIf(s.wrong, "backward"),
                             IF s.wrong = "flags" THEN CheckNone ELSE s.check)
        \o [i \in 1 .. s.padding |-> F(0)]

StreamWith(s, blocks) ==
  WriteStreamHeader(s.check) \o FoldLeft(LAMBDA x, b : x \o b.bytes, <<>>, blocks)
    \o StreamEndFor(s, IndexFor(s.wrong, [i \in 1 .. Len(blocks) |-> blocks[i].record]))

StreamOf(s) == StreamWith(s, [i \in 1 .. Len(s.blocks) |-> BlockOf(s.blocks[i], s.check)])

FileOf(m) == FoldLeft(LAMBDA x, s : x \o StreamOf(s), <<>>, m)

RightlyMade(m) ==
  \A i \in 1 .. Len(m) :
    /\ m[i].wrong = "no" /\ m[i].padding % 4 = 0
    /\ \A j \in 1 .. Len(m[i].blocks) : m[i].blocks[j].wrong = "no"

-----------------------------------------------------------------------------
(* The file in memory.                                                     *)
At(p, n) == SubSeq(file, p, p + n - 1)
Rest(p)  == Len(file) - p + 1
Positions(p, n) == [i \in 1 .. n |-> p + i - 1]
HeaderSizeAt(p) == (Value(file[p]) + 1) * 4

DecodeFile(d, src, room) == Decode(AsLzma2(file), d, src, room)

(* XZ_decodeChecked: in steps, with the check of what was put out.         *)
RECURSIVE DecodeChecked(_, _, _)
DecodeChecked(d, src, room) ==
  UNION {IF r.res = "ok" /\ Len(r.out) = CheckStep /\ CheckStep < room
         THEN {[s EXCEPT !.out = r.out \o @, !.used = r.used + @] :
                 s \in DecodeChecked(r.dec, SubSeq(src, r.used + 1, Len(src)), room - CheckStep)}
         ELSE {r} : r \in DecodeFile(d, src, Least(room, CheckStep))}

(* LZMA2 data of at most n bytes at p, to its end mark.                    *)
Ending(ended) ==
  IF ended = {} THEN Invalid
  ELSE LET r == CHOOSE x \in ended : TRUE IN [ok |-> TRUE, used |-> r.used, out |-> r.out]

OnOneThread(p, n, room) ==
  Ending({r \in DecodeChecked(InitDecoder, Positions(p, n), room) : r.res = "finished"})

(* UF2_decompressDCtxMt: the chunks between dictionary resets are one part, *)
(* and each part is decoded on its own, to the size its headers give.      *)
RECURSIVE Parts(_, _, _)
Parts(p, n, parts) ==
  LET b    == AsLzma2(file)[p]
      type == ParseInput(b, n)
      last == Len(parts)
      more == [parts EXCEPT ![last].pack = @ + HeaderSize + b.size, ![last].unpack = @ + b.size]
      size == HeaderSize + b.size
      next == Append(parts, [from |-> p, pack |-> size, unpack |-> b.size])
  IN  IF n <= 0 THEN <<>>
      ELSE CASE type \in {"error", "moreData"} -> <<>>
             [] type = "final"     -> [parts EXCEPT ![last].pack = @ + 1]
             [] type = "continue"  -> Parts(p + size, n - size, more)
             [] type = "dictReset" -> Parts(p + size, n - size,
                                            IF parts[last].pack = 0 THEN more ELSE next)

PartResults(part) ==
  DecodeChecked(InitDecoder, Positions(part.from, Least(part.pack, Rest(part.from))), part.unpack)

WithPart(x, part, good) ==
  IF ~x.ok \/ good = {} THEN Invalid
  ELSE [ok |-> TRUE, used |-> x.used + part.pack, out |-> x.out \o (CHOOSE r \in good : TRUE).out]

PartsDecoded(parts, room) ==
  IF parts = <<>> \/ FoldLeft(LAMBDA n, part : n + part.unpack, 0, parts) > room THEN Invalid
  ELSE FoldLeft(LAMBDA x, part : WithPart(x, part, {r \in PartResults(part) : r.res # "corrupt"}),
                [ok |-> TRUE, used |-> 0, out |-> <<>>], parts)

SplitAtResets(p, n, room) ==
  PartsDecoded(Parts(p, n, <<[from |-> p, pack |-> 0, unpack |-> 0]>>), room)

Content(out) == [i \in 1 .. Len(out) |-> file[out[i]]]

(* A place in a stream: what was put out of it, and a record of each block. *)
Place(p) == [ok |-> TRUE, p |-> p, out |-> <<>>, records |-> <<>>]

(* A block that ends at e, before its padding.                             *)
EndBlock(x, h, used, out, check) ==
  LET e   == x.p + h.size + used
      pad == PadSize(used)
  IN  IF /\ h.hasC => used = h.cSize
         /\ h.hasU => Len(out) = h.uSize
         /\ pad + CheckSize(check) <= Rest(e)
         /\ IsZero(At(e, pad))
         /\ At(e + pad, CheckSize(check)) = Crc(Content(out), CheckSize(check))
      THEN [ok |-> TRUE, p |-> e + pad + CheckSize(check), out |-> x.out \o out,
            records |-> Append(x.records, <<h.size + used + CheckSize(check), Len(out)>>)]
      ELSE Invalid

HeaderAt(p) == IF Rest(p) < HeaderSizeAt(p) THEN Invalid ELSE ParseBlockHeader(At(p, HeaderSizeAt(p)))

(* The blocks of a stream, one after the other.                            *)
RECURSIVE BlocksInOrder(_, _, _, _)

NextBlock(end, check, room, threads) ==
  IF ~end.ok THEN Invalid ELSE BlocksInOrder(end, check, room, threads)

BlockDecoded(x, h, r, check, room, threads) ==
  IF ~r.ok THEN Invalid ELSE NextBlock(EndBlock(x, h, r.used, r.out, check), check, room, threads)

BlockParsed(x, h, check, room, threads) ==
  LET d     == x.p + h.size
      avail == IF h.hasC THEN h.cSize ELSE Rest(d)
      left  == room - Len(x.out)
  IN  IF ~h.ok THEN Invalid
      ELSE IF avail > Rest(d) \/ (h.hasU /\ h.uSize > left) THEN Invalid
      ELSE BlockDecoded(x, h, IF threads > 1 THEN SplitAtResets(d, avail, left)
                              ELSE OnOneThread(d, avail, left), check, room, threads)

BlocksInOrder(x, check, room, threads) ==
  IF Rest(x.p) <= 0 THEN Invalid
  ELSE IF Value(file[x.p]) = 0 THEN x
  ELSE BlockParsed(x, HeaderAt(x.p), check, room, threads)

(* UF2_decompressXzBlocksMt: where every header states both sizes, their   *)
(* places come first (`jobs`) and they are decoded at the same time.       *)
RECURSIVE WalkHeaders(_, _, _, _)          \* [ok, jobs], or `lone` for one after the other

Before(job, walk) == IF walk.ok THEN [walk EXCEPT !.jobs = <<job>> \o @] ELSE Invalid

HeaderWalked(p, h, o, check, room) ==
  LET d   == p + h.size
      pad == PadSize(h.cSize)
  IN  IF ~h.ok THEN Invalid
      ELSE IF ~(h.hasC /\ h.hasU) THEN [ok |-> TRUE, lone |-> TRUE, jobs |-> <<>>]
      ELSE IF \/ h.cSize > Rest(d) \/ h.uSize > room - o
              \/ pad + CheckSize(check) > Rest(d + h.cSize)
      THEN Invalid
      ELSE IF ~IsZero(At(d + h.cSize, pad)) THEN Invalid
      ELSE Before([h |-> h, p |-> p],
                  WalkHeaders(d + h.cSize + pad + CheckSize(check), o + h.uSize, check, room))

WalkHeaders(p, o, check, room) ==
  IF Rest(p) <= 0 THEN Invalid
  ELSE IF Value(file[p]) = 0 THEN [ok |-> TRUE, lone |-> FALSE, jobs |-> <<>>]
  ELSE HeaderWalked(p, HeaderAt(p), o, check, room)

RunBlock(job) == OnOneThread(job.p + job.h.size, job.h.cSize, job.h.uSize)

(* Thread n takes each nb-th job.                                          *)
ByThreads(jobs, nb) == UNION {{j \in 1 .. Len(jobs) : j % nb = n} : n \in 0 .. nb - 1}

BlockRun(x, h, r, check) == IF r.ok THEN EndBlock(x, h, r.used, r.out, check) ELSE Invalid

BlocksWalked(walk, p, check, room, threads) ==
  LET run == ByThreads(walk.jobs, Least(threads, Len(walk.jobs)))
      End(x, j) == IF ~x.ok \/ j \notin run THEN Invalid
                   ELSE BlockRun(x, walk.jobs[j].h, RunBlock(walk.jobs[j]), check)
  IN  IF ~walk.ok THEN Invalid
      ELSE IF walk.lone \/ Len(walk.jobs) < 2 THEN BlocksInOrder(Place(p), check, room, threads)
      ELSE FoldLeft(End, Place(p), [j \in 1 .. Len(walk.jobs) |-> j])

BlocksAtOnce(p, check, room, threads) ==
  BlocksWalked(WalkHeaders(p, 0, check, room), p, check, room, threads)

(* The Index, compared record by record as it is read, to its padding.     *)
ReadIndex(x) ==
  LET Field(q, value) ==                   \* the place after an integer, 0 if it is another
        LET v == VliDecode(SubSeq(file, q, Len(file)))
        IN  IF q = 0 \/ v.n = 0 \/ v.value # value THEN 0 ELSE q + v.n
      End == FoldLeft(LAMBDA q, r : Field(Field(q, r[1]), r[2]),
                      Field(x.p + 1, Len(x.records)), x.records)
  IN  IF End = 0 THEN 0
      ELSE LET pad == PadSize(End - x.p)
           IN  IF pad > Rest(End) \/ ~IsZero(At(End, pad)) THEN 0 ELSE End + pad

(* UF2_decompressXzStream.                                                 *)
IndexRead(x, q, check) ==
  IF /\ q # 0 /\ Rest(q) >= 4 + StreamFooterSize
     /\ At(q, 4) = Crc32(At(x.p, q - x.p))
     /\ IsStreamFooter(At(q + 4, StreamFooterSize), q + 4 - x.p, check)
  THEN [ok |-> TRUE, p |-> q + 4 + StreamFooterSize, out |-> x.out]
  ELSE Invalid

BlocksRead(x, check) == IF ~x.ok THEN Invalid ELSE IndexRead(x, ReadIndex(x), check)

HeaderRead(first, check, room, threads) ==
  IF check = -1 THEN Invalid
  ELSE BlocksRead(IF threads > 1 THEN BlocksAtOnce(first, check, room, threads)
                  ELSE BlocksInOrder(Place(first), check, room, threads), check)

StreamAt(p, room, threads) ==
  IF Rest(p) < StreamHeaderSize + StreamFooterSize THEN Invalid
  ELSE HeaderRead(p + StreamHeaderSize, ParseStreamHeader(At(p, StreamHeaderSize)), room, threads)

(* UF2_decompressXz: streams, and between them zeros in fours.             *)
RECURSIVE StreamsFrom(_, _, _)

ZerosAt(p) == CHOOSE n \in 0 .. Rest(p) : IsZero(At(p, n)) /\ (n = Rest(p) \/ Value(file[p + n]) # 0)

WithMore(out, more) == IF more.ok THEN [ok |-> TRUE, out |-> out \o more.out] ELSE Invalid

StreamRead(s, room, threads) ==
  LET next == s.p + ZerosAt(s.p)
  IN  IF ~s.ok THEN Invalid
      ELSE IF (next - s.p) % 4 # 0 THEN Invalid
      ELSE IF Rest(next) = 0 THEN [ok |-> TRUE, out |-> s.out]
      ELSE IF ~IsXz(At(next, Least(6, Rest(next)))) THEN Invalid
      ELSE WithMore(s.out, StreamsFrom(next, room - Len(s.out), threads))

StreamsFrom(p, room, threads) == StreamRead(StreamAt(p, room, threads), room, threads)

OneShot(room, threads) ==
  IF IsXz(At(1, Least(6, Len(file)))) THEN StreamsFrom(1, room, threads) ELSE Invalid

(* The records of an index that has been found by its size.                *)
RECURSIVE SumRecords(_, _, _)

SumRecord(q, n, sum, u, v) ==
  IF u.n = 0 \/ v.n = 0 THEN sum
  ELSE SumRecords(SubSeq(q, u.n + v.n + 1, Len(q)), n - 1,
                  [sum EXCEPT !.blocks = @ + u.value + PadSize(u.value), !.size = @ + v.value])

SumUnpadded(q, n, sum, u) == SumRecord(q, n, sum, u, VliDecode(SubSeq(q, u.n + 1, Len(q))))

SumRecords(q, n, sum) ==
  IF n = 0 THEN [sum EXCEPT !.ok = TRUE] ELSE SumUnpadded(q, n, sum, VliDecode(q))

(* UF2_xzFindDecompressedSize of the first `end` bytes, -1 for an error.   *)
RECURSIVE FindSize(_)

AndBefore(size, before) == IF before = -1 THEN -1 ELSE before + size

(* The Stream Header, found by the sum of the blocks' sizes.               *)
RecordsSummed(f, idx, sum) ==
  LET h == idx - sum.blocks - StreamHeaderSize
  IN  IF ~sum.ok THEN -1
      ELSE IF sum.blocks > idx - 1 - StreamHeaderSize THEN -1
      ELSE IF ~(/\ IsXz(At(h, StreamHeaderSize))
                /\ Value(file[h + 6]) = Value(f[9]) /\ Value(file[h + 7]) = Value(f[10])) THEN -1
      ELSE AndBefore(sum.size, FindSize(h - 1))

RecordsCounted(f, idx, size, count) ==
  IF count.n = 0 THEN -1
  ELSE RecordsSummed(f, idx, SumRecords(SubSeq(file, idx + 1 + count.n, idx + size - 5), count.value,
                                        [ok |-> FALSE, blocks |-> 0, size |-> 0]))

IndexFound(f, e, idx, size) ==
  IF size > e - StreamFooterSize - StreamHeaderSize THEN -1
  ELSE IF /\ Value(file[idx]) = 0
          /\ SubSeq(file, idx + size - 4, idx + size - 1) = Crc32(SubSeq(file, idx, idx + size - 5))
  THEN RecordsCounted(f, idx, size, VliDecode(SubSeq(file, idx + 1, idx + size - 5)))
  ELSE -1

FooterFound(f, e) ==
  LET size == (LE32(SubSeq(f, 5, 8)) + 1) * 4
  IN  IF Value(f[11]) = 89 /\ Value(f[12]) = 90 /\ SubSeq(f, 1, 4) = Crc32(SubSeq(f, 5, 10))
      THEN IndexFound(f, e, e - StreamFooterSize - size + 1, size) ELSE -1

FindSize(end) ==
  LET pad == CHOOSE n \in 0 .. end : IsZero(SubSeq(file, end - n + 1, end))
                                      /\ (n = end \/ Value(file[end - n]) # 0)
      e   == end - pad
  IN  CASE pad % 4 # 0 -> -1
        [] pad % 4 = 0 /\ e = 0 -> 0
        [] pad % 4 = 0 /\ e \in 1 .. StreamHeaderSize + StreamFooterSize - 1 -> -1
        [] OTHER -> FooterFound(SubSeq(file, e - 11, e), e)

-----------------------------------------------------------------------------
(* The file in pieces.  m is a call under way: the decoder s, the input    *)
(* src and the output of the call, and ret when it returns.  s.xz is       *)
(* XZ_dec; its buf holds what has been collected of the next s.xz.need     *)
(* bytes, and a running CRC is what it is the CRC of.                      *)
Feed == INSTANCE DStreamInput WITH Needed <- Required, DecodeBuf <- DecodeFile

NoSummary == [count |-> 0, unpadded |-> 0, uncompressed |-> 0, crc |-> <<>>]

(* Mutant of SummaryAdd: sizes are summed up, and their order is lost.     *)
SummaryAddSums(sum, unpadded, uncompressed) ==
  [sum EXCEPT !.count = @ + 1, !.unpadded = @ + unpadded, !.uncompressed = @ + uncompressed]

SummaryAdd(sum, unpadded, uncompressed) ==                 \* XZ_summaryAdd
  [count |-> sum.count + 1, unpadded |-> sum.unpadded + unpadded,
   uncompressed |-> sum.uncompressed + uncompressed,
   crc |-> Append(sum.crc, <<unpadded, uncompressed>>)]

StartStream ==                             \* UF2_xzStartStream
  [state |-> "streamHeader", buf |-> <<>>, need |-> StreamHeaderSize, check |-> 0, h |-> Invalid,
   blockCheck |-> <<>>, uSize |-> 0, cSize |-> 0, blocks |-> NoSummary, index |-> NoSummary,
   indexCount |-> 0, indexBytes |-> <<>>, indexSize |-> 0, vli |-> 0, vliBytes |-> 0,
   field |-> 0, unpadded |-> 0, padding |-> 0]

Error(m) == [m EXCEPT !.ret = "error"]
Return(m) == [m EXCEPT !.ret = "ok"]
To(m, state) == [m EXCEPT !.s.xz.state = state]

(* Bytes come from what the LZMA2 stage buffered first (UF2_xzNextByte).   *)
Buffered(m) == m.s.overlap \o m.src
Drop(m, n) ==
  LET k == Least(n, Len(m.s.overlap))
  IN  [m EXCEPT !.s.overlap = SubSeq(@, k + 1, Len(@)), !.src = SubSeq(@, n - k + 1, Len(@))]

Collect(m) ==                              \* UF2_xzCollect
  LET n == Least(m.s.xz.need - Len(m.s.xz.buf), Len(Buffered(m)))
  IN  [Drop(m, n) EXCEPT !.s.xz.buf = @ \o [i \in 1 .. n |-> file[Buffered(m)[i]]]]

Collecting(m, Then(_)) ==
  LET c == Collect(m) IN IF Len(c.s.xz.buf) = c.s.xz.need THEN Then(c) ELSE Return(c)

ReadByte(m, Then(_, _)) ==
  IF Buffered(m) = <<>> THEN Return(m) ELSE Then(Drop(m, 1), file[Buffered(m)[1]])

StreamHeader(m) ==
  LET check == ParseStreamHeader(m.s.xz.buf)
  IN  IF check = -1 THEN Error(m) ELSE [To(m, "blockStart") EXCEPT !.s.xz.check = check]

BlockStart(m, b) ==
  IF Value(b) = 0
  THEN [To(m, "index") EXCEPT !.s.xz.buf = <<b>>, !.s.xz.indexBytes = <<b>>, !.s.xz.indexSize = 1,
                              !.s.xz.field = 0, !.s.xz.vli = 0, !.s.xz.vliBytes = 0]
  ELSE [To(m, "blockHeader") EXCEPT !.s.xz.buf = <<b>>, !.s.xz.need = (Value(b) + 1) * 4]

BlockHeader(m) ==
  LET h == ParseBlockHeader(m.s.xz.buf)
  IN  IF ~h.ok THEN Error(m)
      ELSE [To(m, "data") EXCEPT !.s.xz.h = h, !.s.xz.blockCheck = <<>>, !.s.xz.uSize = 0,
                                 !.s.xz.cSize = 0, !.s.dec = InitDecoder, !.s.stage = "decomp"]

(* Mutant of CountData: what was buffered before is not counted.           *)
CountDataLess(xz, r, before) ==
  [xz EXCEPT !.cSize = @ + r.used - Len(r.s.overlap), !.uSize = @ + Len(r.out),
             !.blockCheck = @ \o Content(r.out)]

(* Input that was moved into the overlap is not consumed until decoded.    *)
CountData(xz, r, before) ==
  [xz EXCEPT !.cSize = @ + r.used + before - Len(r.s.overlap), !.uSize = @ + Len(r.out),
             !.blockCheck = @ \o Content(r.out)]

Data(m, room) ==
  {LET xz   == CountData(m.s.xz, r, Len(m.s.overlap))
       next == [m EXCEPT !.s = [r.s EXCEPT !.xz = xz], !.src = SubSeq(@, r.used + 1, Len(@)),
                         !.out = @ \o r.out]
       done == [next EXCEPT !.s.stage = "xz", !.s.xz.buf = <<>>, !.s.xz.need = PadSize(xz.cSize),
                            !.s.xz.state = "padding"]
   IN  IF r.res # "ok" THEN Error(m)
       ELSE IF (xz.h.hasU /\ xz.uSize > xz.h.uSize) \/ (xz.h.hasC /\ xz.cSize > xz.h.cSize)
       THEN Error(next)
       ELSE IF next.s.stage = "decomp" THEN Return(next)
       ELSE IF (xz.h.hasU /\ xz.uSize # xz.h.uSize) \/ (xz.h.hasC /\ xz.cSize # xz.h.cSize)
       THEN Error(next) ELSE done :
     r \in Feed!DecompressOverlappedInput(m.s, m.src, room - Len(m.out))}

Padding(m) ==
  IF ~IsZero(m.s.xz.buf) THEN Error(m)
  ELSE [To(m, "check") EXCEPT !.s.xz.buf = <<>>, !.s.xz.need = CheckSize(m.s.xz.check)]

Check(m) ==
  LET xz == m.s.xz
  IN  IF xz.buf # Crc(xz.blockCheck, CheckSize(xz.check)) THEN Error(m)
      ELSE [To(m, "blockStart") EXCEPT
              !.s.xz.blocks = SummaryAdd(@, xz.h.size + xz.cSize + CheckSize(xz.check), xz.uSize)]

(* An integer of the Index: the record count, or a field of a record.      *)
IndexInteger(m, value) ==
  LET xz == m.s.xz
      index == SummaryAdd(xz.index, xz.unpadded, value)
  IN  CASE xz.field = 0 ->
             IF value # xz.blocks.count THEN Error(m)
             ELSE [m EXCEPT !.s.xz.indexCount = value, !.s.xz.field = 1]
        [] xz.field = 1 ->
             IF value = 0 THEN Error(m)
             ELSE [m EXCEPT !.s.xz.unpadded = value, !.s.xz.field = 2]
        [] xz.field = 2 ->
             IF index.unpadded > xz.blocks.unpadded \/ index.uncompressed > xz.blocks.uncompressed
             THEN Error(m)
             ELSE [m EXCEPT !.s.xz.index = index, !.s.xz.field = 1]

IndexByte(m, b) ==
  LET n     == m.s.xz.vliBytes + 1
      value == m.s.xz.vli + (Value(b) % VliBase) * VliBase ^ (n - 1)
      read  == [m EXCEPT !.s.xz.indexBytes = Append(@, b), !.s.xz.indexSize = @ + 1]
      whole == [read EXCEPT !.s.xz.vli = 0, !.s.xz.vliBytes = 0]
  IN  IF (Value(b) \div VliBase) % 2 = 1
      THEN IF n = VliBytesMax THEN Error(read)
           ELSE [read EXCEPT !.s.xz.vli = value, !.s.xz.vliBytes = n]
      ELSE IF n > 1 /\ Value(b) = 0 THEN Error(read) ELSE IndexInteger(whole, value)

Index(m) ==
  IF m.s.xz.field # 0 /\ m.s.xz.index.count = m.s.xz.indexCount THEN To(m, "indexPadding")
  ELSE ReadByte(m, IndexByte)

IndexPaddingByte(m, b) ==
  IF Value(b) # 0 THEN Error(m)
  ELSE [m EXCEPT !.s.xz.indexBytes = Append(@, b), !.s.xz.indexSize = @ + 1]

IndexPadding(m) ==
  IF m.s.xz.indexSize % 4 # 0 THEN ReadByte(m, IndexPaddingByte)
  ELSE IF m.s.xz.index # m.s.xz.blocks THEN Error(m)
  ELSE [To(m, "indexCrc") EXCEPT !.s.xz.buf = <<>>, !.s.xz.need = 4]

IndexCrc(m) ==
  IF m.s.xz.buf # Crc32(m.s.xz.indexBytes) THEN Error(m)
  ELSE [To(m, "footer") EXCEPT !.s.xz.buf = <<>>, !.s.xz.need = StreamFooterSize,
                               !.s.xz.indexSize = @ + 4]

Footer(m) ==
  IF ~IsStreamFooter(m.s.xz.buf, m.s.xz.indexSize, m.s.xz.check) THEN Error(m)
  ELSE [To(m, "between") EXCEPT !.s.xz.padding = 0, !.s.stage = "finished"]

(* After a stream: padding, or the first byte of another.                  *)
Between(m, b) ==
  LET n == m.s.xz.padding + 1
  IN  CASE Value(b) = 0 ->
             [m EXCEPT !.s.xz.padding = n, !.s.stage = IF n % 4 # 0 THEN "xz" ELSE "finished"]
        [] Value(b) # 0 /\ (Value(b) # Magic[1] \/ m.s.xz.padding % 4 # 0) -> Error(m)
        [] OTHER -> [m EXCEPT !.s.xz = [StartStream EXCEPT !.buf = <<b>>], !.s.stage = "xz"]

Step(m, room) ==
  LET state == m.s.xz.state
  IN  CASE state = "streamHeader" -> {Collecting(m, StreamHeader)}
        [] state = "blockStart"   -> {ReadByte(m, BlockStart)}
        [] state = "blockHeader"  -> {Collecting(m, BlockHeader)}
        [] state = "data"         -> Data(m, room)
        [] state = "padding"      -> {Collecting(m, Padding)}
        [] state = "check"        -> {Collecting(m, Check)}
        [] state = "index"        -> {Index(m)}
        [] state = "indexPadding" -> {IndexPadding(m)}
        [] state = "indexCrc"     -> {Collecting(m, IndexCrc)}
        [] state = "footer"       -> {Collecting(m, Footer)}
        [] state = "between"      -> {ReadByte(m, Between)}

(* UF2_decompressXzInput: steps, until one returns.                        *)
RECURSIVE DecompressXzInput(_, _)
DecompressXzInput(m, room) ==
  IF m.ret # "" THEN {m} ELSE UNION {DecompressXzInput(n, room) : n \in Step(m, room)}

(* UF2_decompressStream_blocking.  The first byte says that it is .xz; the *)
(* third call in a row that does nothing is an error.                      *)
DecompressStream ==
  /\ st.res \in {"more", "finished"} /\ (st.res = "finished" => pos < Len(file))
  /\ \E n \in CallSizes, room \in Rooms :
       LET src    == SubSeq(Positions(1, Len(file)), pos + 1, Least(pos + n, Len(file)))
           opened == IF st.stage = "init" /\ src # <<>> THEN [st EXCEPT !.stage = "xz", !.xz = StartStream]
                     ELSE st
       IN  /\ src = <<>> => n = Max(CallSizes) /\ room = Max(Rooms)
           /\ \E m \in DecompressXzInput([s |-> opened, src |-> src, out |-> <<>>, ret |-> ""], room) :
                LET used  == Len(src) - Len(m.src)
                    idle  == m.s.stage # "finished" /\ used = 0 /\ m.out = <<>>
                    loops == IF idle THEN st.loops + 1 ELSE 0
                IN  /\ pos' = pos + used
                    /\ got' = got \o m.out
                    /\ st' = [m.s EXCEPT !.loops = loops,
                                         !.res = CASE m.ret = "error" -> "error"
                                                   [] m.ret = "ok" /\ loops > 2 -> "buffer"
                                                   [] m.ret = "ok" /\ m.s.stage = "finished" -> "finished"
                                                   [] OTHER -> "more"]
  /\ UNCHANGED <<made, file, fault>>

-----------------------------------------------------------------------------
(* What happens to a file on its way: a byte of it changes, or the rest of *)
(* it is lost.  Data can change to data, which only a check can tell, or   *)
(* to what is no LZMA2.  (Bound: one fault, of a rightly made file.)       *)
Altered(b) ==
  CASE b.kind = "frame" -> {F(v) : v \in Damages \ {b.v}}
    [] b.kind = "crc"   -> {F(v) : v \in Damages}
    [] b.kind = "data"  -> {[kind |-> "bad"], [kind |-> "data", changed |-> TRUE]}
    [] OTHER            -> {[kind |-> "bad"]}

Untouched == fault = "none" /\ st.stage = "init" /\ RightlyMade(made)

Damage ==
  /\ Untouched
  /\ \E p \in 2 .. Len(file) : \E b \in Altered(file[p]) :
       /\ file' = [file EXCEPT ![p] = b]
       /\ fault' = IF b.kind = "data" THEN "data" ELSE "damaged"
  /\ UNCHANGED <<made, pos, st, got>>

Truncate ==
  /\ Untouched
  /\ \E n \in 1 .. Len(file) - 1 : file' = SubSeq(file, 1, n)
  /\ fault' = "truncated"
  /\ UNCHANGED <<made, pos, st, got>>

Init ==
  /\ made \in Files
  /\ file = FileOf(made) /\ fault = "none" /\ pos = 0 /\ got = <<>>
  /\ st = [stage |-> "init", dec |-> InitDecoder, overlap |-> <<>>, xz |-> StartStream,
           loops |-> 0, res |-> "more"]

Ended == st.res \in {"error", "buffer"} \/ (st.res = "finished" /\ pos = Len(file))

Done == Ended /\ UNCHANGED vars

Next == DecompressStream \/ Damage \/ Truncate \/ Done
Spec == Init /\ [][Next]_vars

-----------------------------------------------------------------------------
(* All the readers agree on a file, right or wrong, however it is cut for  *)
(* the one that gets it in pieces: they accept the same files and put out  *)
(* the same, and the size found from the end is that of what they put out, *)
(* into a buffer of exactly that size.                                     *)
ReadersAgree ==
  Ended =>
    \A size \in {FindSize(Len(file))} : \A threads \in {1, 2} :
      \A r \in {OneShot(IF size = -1 THEN Len(file) ELSE size, threads)} :
        /\ r.ok <=> st.res = "finished"
        /\ r.ok => r.out = got /\ size = Len(got)

(* A rightly made file is read to its end and gives its data.  One that    *)
(* was not, or that was damaged or cut on its way, is never taken for      *)
(* right, except where nothing tells: data that no check covers, and the   *)
(* end of a file between streams.                                          *)
DamageIsFound ==
  LET right == RightlyMade(made)
      ends  == UNION {{Len(FileOf(SubSeq(made, 1, i))) - 4 * k : k \in 0 .. made[i].padding \div 4} :
                        i \in 1 .. Len(made)}
  IN  /\ fault = "none" /\ right =>
           /\ st.res \notin {"error", "buffer"}
           /\ Ended => got = Units(AsLzma2(file))
      /\ Ended /\ st.res = "finished" =>
           \/ fault = "none" /\ right
           \/ fault = "data" /\ \E i \in 1 .. Len(made) : made[i].check = CheckNone
           \/ fault = "truncated" /\ Len(file) \in ends
=============================================================================
