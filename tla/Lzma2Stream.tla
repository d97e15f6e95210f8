----------------------------- MODULE Lzma2Stream -----------------------------
(***************************************************************************)
(* LZMA2 data and the two things that read it: LZMA2_parseInput, which     *)
(* walks over chunks by their headers, and the decoder (lzma2_dec.c), which *)
(* can stop anywhere and go on with the next input it is given.            *)
(*                                                                         *)
(* A byte of a stream is a record that says what it is.  A unit of output  *)
(* is what one byte of a chunk's data decodes to and is named by that      *)
(* byte's position, so an output is the sequence of the positions it was   *)
(* decoded from.                                                           *)
(***************************************************************************)
EXTENDS Integers, Sequences, FiniteSets, SequencesExt

CONSTANTS
  HeaderSize,   \* bytes of a chunk header: 3, 5 or 6 in the code
  Required      \* LZMA_REQUIRED_INPUT_MAX

ASSUME Lzma2Assumption ==
  HeaderSize \in Nat /\ Required \in Nat /\ 2 <= HeaderSize /\ HeaderSize <= Required

-----------------------------------------------------------------------------
(* A chunk with `size` bytes of data; reset says that it is an LZMA chunk  *)
(* that resets the dictionary (a stored one that does is no end of a block *)
(* to the parser), bad where it is corrupt: "no", "header" or "data".      *)
Chunk(reset, size, bad) ==
  <<IF bad = "header" THEN [kind |-> "bad"]
    ELSE [kind |-> "control", reset |-> reset, size |-> size]>>
  \o [i \in 1 .. HeaderSize - 1 |-> [kind |-> "header"]]
  \o [i \in 1 .. size |-> [kind |-> IF bad = "data" /\ i = size THEN "bad" ELSE "data"]]

Terminator == <<[kind |-> "end"]>>

Byte == [kind : {"header", "data", "bad", "end", "hash", "after"}]
          \cup [kind : {"control"}, reset : BOOLEAN, size : Nat \ {0}]

(* A stream, or as much of one as there is.  Where a chunk or the end mark *)
(* begins, a corrupt header is corrupt in its first byte.                  *)
BeginsChunk(s, p) ==
  p \in 1 .. Len(s) =>
    /\ s[p].kind \in {"control", "end", "bad"}
    /\ s[p].kind # "end" =>
         \A q \in p + 1 .. p + HeaderSize - 1 : q <= Len(s) => s[q].kind = "header"

IsStream(s) ==
  /\ s \in Seq(Byte)
  /\ BeginsChunk(s, 1)
  /\ \A p \in 1 .. Len(s) : s[p].kind = "control" =>
       LET next == p + HeaderSize + s[p].size
       IN  /\ BeginsChunk(s, p) /\ BeginsChunk(s, next)
           /\ \A q \in p + HeaderSize .. next - 1 : q <= Len(s) => s[q].kind \in {"data", "bad"}
  /\ \A p, q \in 1 .. Len(s) : s[p].kind = "end" /\ s[q].kind = "end" => p = q

(* The result of LZMA2_parseInput on byte b with avail bytes from there on. *)
(* A reset is the end of a block unless it is what begins it.              *)
ParseInput(b, avail) ==
  CASE b.kind = "end"     -> "final"
    [] b.kind # "end" /\ avail < HeaderSize -> "moreData"
    [] b.kind = "control" /\ avail >= HeaderSize -> IF b.reset THEN "dictReset" ELSE "continue"
    [] OTHER -> "error"

-----------------------------------------------------------------------------
(* The decoder: header bytes and data bytes that its chunk still lacks.    *)
InitDecoder == [header |-> 0, left |-> 0, state |-> "ok"]

Fed(d, b) ==
  CASE d.state # "ok"                 -> d
    [] d.state = "ok" /\ d.header > 0 ->
         IF b.kind = "header" THEN [d EXCEPT !.header = @ - 1] ELSE [d EXCEPT !.state = "bad"]
    [] d.state = "ok" /\ d.header = 0 /\ d.left > 0 ->
         IF b.kind = "data" THEN [d EXCEPT !.left = @ - 1] ELSE [d EXCEPT !.state = "bad"]
    [] OTHER ->
         CASE b.kind = "control" -> [d EXCEPT !.header = HeaderSize - 1, !.left = b.size]
           [] b.kind = "end"     -> [d EXCEPT !.state = "finished"]
           [] OTHER              -> [d EXCEPT !.state = "bad"]

(* LZMA2_decodeToBuf and LZMA2_decodeToDic on `bytes`, positions in the    *)
(* stream `s`, with room for `room` units: the set of results.  Headers    *)
(* are taken whole.  A chunk that is all there is decoded to its end; of   *)
(* one that is not, at most Required bytes are left, and none are taken if *)
(* no more than that were there, unless the chunk is stored.               *)

(* The decoder before the first byte, and after each.                      *)
Along(s, d, bytes) == FoldLeft(LAMBDA acc, p : Append(acc, Fed(Last(acc), s[p])), <<d>>, bytes)

DataBytes(ds) ==
  {j \in 1 .. Len(ds) - 1 : ds[j].header = 0 /\ ds[j].left > 0 /\ ds[j + 1].state = "ok"}

StopsAt(s, bytes, ds, data, room) ==
  LET n  == Len(bytes)
      At(i)      == ds[i + 1]                      \* the decoder after i bytes
      DataTo(i)  == Cardinality({j \in data : j <= i})
      Begins(i)  == Max({0} \cup ((1 .. i) \ data))          \* where this chunk's data begins
      Short(i)   == At(i).left > n - i /\ n - i <= Required
                      /\ (n - Begins(i) < Required => i \in {Begins(i), n})
      NoHeader(i) == /\ At(i).left = 0 /\ n - i < HeaderSize
                     /\ i = n \/ s[bytes[i + 1]].kind # "end"
      Finished(i) == At(i).state = "finished" /\ (i = 0 \/ At(i - 1).state = "ok")
      Full(i)     == At(i).left > 0 /\ DataTo(i) = room
  IN  {i \in 0 .. n :
         /\ At(i).state # "bad" /\ At(i).header = 0 /\ DataTo(i) <= room
         /\ Finished(i) \/ (At(i).state = "ok" /\ (NoHeader(i) \/ Short(i) \/ Full(i)))}

ResultsAt(bytes, ds, data, stops) ==
  IF stops = {}
  THEN {[dec |-> [ds[1] EXCEPT !.state = "bad"], used |-> 0, out |-> <<>>, res |-> "corrupt"]}
  ELSE {[dec  |-> ds[i + 1], used |-> i,
         out  |-> FlattenSeq([j \in 1 .. i |-> IF j \in data THEN <<bytes[j]>> ELSE <<>>]),
         res  |-> IF ds[i + 1].state = "finished" THEN "finished" ELSE "ok"] : i \in stops}

DecodedBy(s, bytes, ds, data, room) == ResultsAt(bytes, ds, data, StopsAt(s, bytes, ds, data, room))

DecodedAlong(s, bytes, ds, room) == DecodedBy(s, bytes, ds, DataBytes(ds), room)

Decode(s, d, bytes, room) == DecodedAlong(s, bytes, Along(s, d, bytes), room)

(* What a stream decodes to.                                               *)
Units(s) == FlattenSeq([p \in 1 .. Len(s) |-> IF s[p].kind = "data" THEN <<p>> ELSE <<>>])
=============================================================================
