-------------------------------- MODULE Lzma --------------------------------
(***************************************************************************)
(* LZMA symbols: how lzma2_enc.c writes a literal or a match as bits, each *)
(* in the context of what went before, and how lzma2_dec.c reads it back.  *)
(* The encoder's contexts are the indices of its arrays, the decoder's     *)
(* those of its own; both must cut the bits into the same classes.         *)
(*                                                                         *)
(* A distance is what the encoder calls it, one less than the offset; the  *)
(* decoder's reps are offsets.                                             *)
(***************************************************************************)
EXTENDS RangeCoder

CONSTANTS
  LenLowBits,      \* kLenNumLowBits
  LenHighBits,     \* kLenNumHighBits
  PosSlotBits,     \* kNumPosSlotBits
  EndPosModel,     \* kEndPosModelIndex
  AlignBits        \* kNumAlignBits

StartPosModel   == 4
LenLowSymbols   == 2 ^ LenLowBits
MatchLenMin     == 2
MatchLenMax     == MatchLenMin + 2 * LenLowSymbols + 2 ^ LenHighBits - 1
NumLenToPosStates == 4

(* kLiteralNextStates, ...: what the last symbols were.                    *)
LitStates        == 0 .. 6
LitNextState     == [s \in 0 .. 11 |-> CASE s < 4 -> 0 [] s < 10 -> s - 3 [] OTHER -> s - 6]
MatchNextState   == [s \in 0 .. 11 |-> IF s \in LitStates THEN 7 ELSE 10]
RepNextState     == [s \in 0 .. 11 |-> IF s \in LitStates THEN 8 ELSE 11]
ShortNextState   == [s \in 0 .. 11 |-> IF s \in LitStates THEN 9 ELSE 11]

Literal       == [kind |-> "literal"]
ShortRep      == [kind |-> "short"]
Rep(rep, len) == [kind |-> "rep", rep |-> rep, len |-> len]
Match(dist, len) == [kind |-> "match", dist |-> dist, len |-> len]

(* The table of a literal: low bits of the position, high bits of the byte *)
(* before; lp and lc of them.                                              *)
LiteralTable(p, pos, prev) == (pos % 2 ^ p.lp) * 2 ^ p.lc + prev \div 2 ^ (ByteBits - p.lc)

PosState(p, pos) == pos % 2 ^ p.pb

-----------------------------------------------------------------------------
(* The encoder: e has rc, model, state, reps and the properties e.p.       *)
LiteralPairs(table, symbol) == TreePairs(<<"literal", table>>, ByteBits, symbol)

(* As long as the bits agree with those of the byte at rep 0, that byte's  *)
(* next bit is part of the context.                                        *)
MatchedPairs(table, symbol, match) ==
  LET top(x, i)  == x \div 2 ^ (ByteBits - i)
      offset(i)  == IF top(symbol, i - 1) = top(match, i - 1)
                    THEN Base * (1 + (top(match, i) % 2)) ELSE 0
  IN  [i \in 1 .. ByteBits |->
         <<<<"literal", table, offset(i) + 2 ^ (i - 1) + top(symbol, i - 1)>>, top(symbol, i) % 2>>]

LengthPairs(which, length, ps) ==          \* LZMA_encodeLength
  LET len == length - MatchLenMin
  IN  IF len < LenLowSymbols
      THEN <<<<<<"choice", which>>, 0>>>> \o TreePairs(<<"low", which, ps>>, LenLowBits, len)
      ELSE IF len < 2 * LenLowSymbols
      THEN <<<<<<"choice", which>>, 1>>, <<<<"choice2", which>>, 0>>>>
             \o TreePairs(<<"mid", which, ps>>, LenLowBits, len - LenLowSymbols)
      ELSE <<<<<<"choice", which>>, 1>>, <<<<"choice2", which>>, 1>>>>
             \o TreePairs(<<"high", which>>, LenHighBits, len - 2 * LenLowSymbols)

SlotBase(slot) == IF slot < StartPosModel THEN slot
                  ELSE (2 + (slot % 2)) * 2 ^ (slot \div 2 - 1)

(* LZMA_getDistSlot: the table looked up holds the answer.                 *)
DistSlot(dist) == Max({s \in 0 .. 2 ^ PosSlotBits - 1 : SlotBase(s) <= dist})

LenToDistState(len) == IF len < NumLenToPosStates + 1 THEN len - 2 ELSE NumLenToPosStates - 1

(* Mutant of DistancePairs: the align bits are coded by the tree's own     *)
(* order.                                                                  *)
DistancePairsForwards(len, dist) ==
  LET slot    == DistSlot(dist)
      footer  == slot \div 2 - 1
      reduced == dist - SlotBase(slot)
  IN  TreePairs(<<"slot", LenToDistState(len)>>, PosSlotBits, slot)
        \o (IF slot < StartPosModel THEN <<>>
            ELSE IF slot < EndPosModel
            THEN ReversePairs(<<"special">>, SlotBase(slot) - slot - 1, footer, reduced)
            ELSE DirectPairs(footer - AlignBits, reduced \div 2 ^ AlignBits)
                   \o TreePairs(<<"align">>, AlignBits, reduced % 2 ^ AlignBits))

DistancePairs(len, dist) ==                \* in LZMA_encodeNormalMatch
  LET slot    == DistSlot(dist)
      footer  == slot \div 2 - 1
      reduced == dist - SlotBase(slot)
  IN  TreePairs(<<"slot", LenToDistState(len)>>, PosSlotBits, slot)
        \o (IF slot < StartPosModel THEN <<>>
            ELSE IF slot < EndPosModel
            THEN ReversePairs(<<"special">>, SlotBase(slot) - slot - 1, footer, reduced)
            ELSE DirectPairs(footer - AlignBits, reduced \div 2 ^ AlignBits)
                   \o ReversePairs(<<"align">>, 0, AlignBits, reduced % 2 ^ AlignBits))

EncodeLiteral(e, data, pos) ==             \* LZMA_encodeLiteralBuf
  LET prev  == IF pos = 0 THEN 0 ELSE data[pos - 1]
      table == LiteralTable(e.p, pos, prev)
      bits  == IF e.state \in LitStates THEN LiteralPairs(table, data[pos])
               ELSE MatchedPairs(table, data[pos], data[pos - e.reps[1] - 1])
  IN  [Encode(e, <<<<<<"match", e.state, PosState(e.p, pos)>>, 0>>>> \o bits)
         EXCEPT !.state = LitNextState[@]]

EncodeRepMatchShort(e, ps) ==
  [Encode(e, <<<<<<"match", e.state, ps>>, 1>>, <<<<"rep", e.state>>, 1>>,
               <<<<"repG0", e.state>>, 0>>, <<<<"rep0Long", e.state, ps>>, 0>>>>)
     EXCEPT !.state = ShortNextState[@]]

(* The rep used moves to the front; the ones before it move up.            *)
Fronted(reps, rep) == <<reps[rep + 1]>> \o SubSeq(reps, 1, rep) \o SubSeq(reps, rep + 2, 4)

EncodeRepMatchLong(e, len, rep, ps) ==
  LET which == CASE rep = 0 -> <<<<<<"repG0", e.state>>, 0>>, <<<<"rep0Long", e.state, ps>>, 1>>>>
                 [] rep = 1 -> <<<<<<"repG0", e.state>>, 1>>, <<<<"repG1", e.state>>, 0>>>>
                 [] OTHER   -> <<<<<<"repG0", e.state>>, 1>>, <<<<"repG1", e.state>>, 1>>,
                                 <<<<"repG2", e.state>>, rep - 2>>>>
  IN  [Encode(e, <<<<<<"match", e.state, ps>>, 1>>, <<<<"rep", e.state>>, 1>>>>
                 \o which \o LengthPairs("reps", len, ps))
         EXCEPT !.state = RepNextState[@], !.reps = Fronted(@, rep)]

EncodeNormalMatch(e, len, dist, ps) ==
  [Encode(e, <<<<<<"match", e.state, ps>>, 1>>, <<<<"rep", e.state>>, 0>>>>
             \o LengthPairs("matches", len, ps) \o DistancePairs(len, dist))
     EXCEPT !.state = MatchNextState[@], !.reps = <<dist>> \o SubSeq(@, 1, 3)]

EncodeSymbol(e, data, pos, s) ==
  LET ps == PosState(e.p, pos)
  IN  CASE s.kind = "literal" -> EncodeLiteral(e, data, pos)
        [] s.kind = "short"   -> EncodeRepMatchShort(e, ps)
        [] s.kind = "rep"     -> EncodeRepMatchLong(e, s.len, s.rep, ps)
        [] s.kind = "match"   -> EncodeNormalMatch(e, s.len, s.dist, ps)

SymbolLength(s) == IF s.kind \in {"literal", "short"} THEN 1 ELSE s.len

(* The bytes of data that s stands for at pos are the ones at its distance.*)
Repeats(data, pos, dist, len) ==
  dist < pos /\ \A i \in 0 .. len - 1 : data[pos + i] = data[pos + i - dist - 1]

IsMatch(e, data, pos, s) ==
  CASE s.kind = "literal" -> TRUE
    [] s.kind = "short"   -> Repeats(data, pos, e.reps[1], 1)
    [] s.kind = "rep"     -> Repeats(data, pos, e.reps[s.rep + 1], s.len)
    [] s.kind = "match"   -> Repeats(data, pos, s.dist, s.len)

-----------------------------------------------------------------------------
(* The decoder: d has what RangeCoder's operators use, and state, reps, p, *)
(* dic, size (dic_buf_size), dicPos, processed (processed_pos), checkDic   *)
(* (check_dic_size).  A byte of dic that was never written is Unset, and   *)
(* d.unset remembers that one was read.                                    *)
Unset == -1

AtOffset(d, offset) == d.dic[(d.dicPos - offset) + (IF d.dicPos < offset THEN d.size ELSE 0)]

ReadLiteral(d) ==
  LET fresh == d.processed = 0 /\ d.checkDic = 0
      prev  == IF fresh THEN 0 ELSE AtOffset(d, 1)
      match == IF d.state \in LitStates THEN 0 ELSE AtOffset(d, d.reps[1])
      table == IF fresh THEN 0 ELSE LiteralTable(d.p, d.processed, prev)
      plain(x, i) == LET g == GetBit(x, <<"literal", table, x.symbol>>)
                     IN  [g EXCEPT !.symbol = 2 * @ + g.bit]
      matched(x, i) ==                     \* MATCHED_LITER_DEC
        LET byte == 2 * x.matchByte
            offs == IF (byte \div Base) % 2 = 1 THEN x.offs ELSE 0
            g    == GetBit(x, <<"literal", table, offs + x.offs + x.symbol>>)
        IN  [g EXCEPT !.symbol = 2 * @ + g.bit, !.matchByte = byte,
                      !.offs = IF g.bit = 0 THEN x.offs - offs ELSE offs]
      first == [d EXCEPT !.symbol = 1, !.offs = Base, !.matchByte = match,
                         !.unset = @ \/ prev = Unset \/ match = Unset]
      eight == [i \in 1 .. ByteBits |-> i]
      read  == IF d.state \in LitStates THEN FoldLeft(plain, first, eight)
               ELSE FoldLeft(matched, first, eight)
  IN  [read EXCEPT !.kind = "literal", !.symbol = @ % Base, !.state = LitNextState[@]]

(* A length, of which `choice`, and if that is 1 `choice2`, has been read. *)
WithLength(d, base) == [d EXCEPT !.len = d.symbol + base]

LengthAfter2(d, which, ps) ==
  IF d.bit = 0 THEN WithLength(GetTree(d, <<"mid", which, ps>>, LenLowBits), LenLowSymbols)
  ELSE WithLength(GetTree(d, <<"high", which>>, LenHighBits), 2 * LenLowSymbols)

LengthAfter(d, which, ps) ==
  IF d.bit = 0 THEN WithLength(GetTree(d, <<"low", which, ps>>, LenLowBits), 0)
  ELSE LengthAfter2(GetBit(d, <<"choice2", which>>), which, ps)

ReadLength(d, which, ps) == LengthAfter(GetBit(d, <<"choice", which>>), which, ps)

(* A distance: its slot, the footer or its upper part, the lowest bits.    *)
AlignAfter(d) ==
  [GetReverse(d, <<"align">>, 1, AlignBits) EXCEPT !.symbol = d.symbol * 2 ^ AlignBits + @]

FooterAfter(d, slot) ==
  LET footer == slot \div 2 - 1
      top    == 2 + (slot % 2)
  IN  CASE slot < StartPosModel -> d
        [] slot >= StartPosModel /\ slot < EndPosModel ->
             GetReverse(d, <<"special">>, top * 2 ^ footer + 1, footer)
        [] OTHER -> AlignAfter(GetDirects(d, top, footer - AlignBits))

DistanceAfter(d) == FooterAfter(d, d.symbol)

ReadDistance(d) ==
  DistanceAfter(GetTree(d, <<"slot", IF d.len < NumLenToPosStates THEN d.len
                                     ELSE NumLenToPosStates - 1>>, PosSlotBits))

ReadMatch(d) ==
  [d EXCEPT !.kind = "match", !.state = MatchNextState[@],
            !.reps = <<d.symbol + 1>> \o SubSeq(@, 1, 3)]

(* A rep, of which the first bits have been read.                          *)
LongRep(d, rep, ps) ==
  ReadLength([d EXCEPT !.reps = Fronted(@, rep), !.state = RepNextState[@], !.kind = "rep"],
             "reps", ps)

RepAfterLong(d, ps) ==
  IF d.bit = 0 THEN [d EXCEPT !.kind = "short", !.state = ShortNextState[@]] ELSE LongRep(d, 0, ps)

RepAfterG2(d, ps) == LongRep(d, 2 + d.bit, ps)

RepAfterG1(d, ps) ==
  IF d.bit = 0 THEN LongRep(d, 1, ps) ELSE RepAfterG2(GetBit(d, <<"repG2", d.state>>), ps)

RepAfterG0(d, ps) ==
  IF d.bit = 0 THEN RepAfterLong(GetBit(d, <<"rep0Long", d.state, ps>>), ps)
  ELSE RepAfterG1(GetBit(d, <<"repG1", d.state>>), ps)

ReadRep(d, ps) == RepAfterG0(GetBit(d, <<"repG0", d.state>>), ps)

(* The bits of one symbol: what LZMA_decodeReal_3 reads before it writes.  *)
MatchAfter(d, ps) ==
  IF d.bit = 1 THEN ReadRep(d, ps) ELSE ReadMatch(ReadDistance(ReadLength(d, "matches", ps)))

SymbolAfter(d, ps) ==
  IF d.bit = 0 THEN ReadLiteral(d) ELSE MatchAfter(GetBit(d, <<"rep", d.state>>), ps)

ReadSymbol(d) ==
  LET ps == PosState(d.p, d.processed)
  IN  SymbolAfter(GetBit(d, <<"match", d.state, ps>>), ps)

(* LZMA_tryDummy: is the next symbol all there, without another byte?      *)
TryDummy(d) == Normalize(ReadSymbol(d)).buf = d.buf

(* n bytes are repeated in the circular dictionary.                        *)
CopyMatch(d, n) ==
  FoldLeft(LAMBDA x, i : LET byte == AtOffset(x, x.reps[1])
                         IN  [x EXCEPT !.dic[x.dicPos] = byte, !.dicPos = @ + 1,
                                       !.unset = @ \/ byte = Unset],
           d, [i \in 1 .. n |-> i])

(* A symbol, written as far as limit allows: the rest is left in d.len.    *)
WriteSymbol(s, limit) ==
  LET len == s.len + MatchLenMin
      n   == IF limit - s.dicPos < len THEN limit - s.dicPos ELSE len
      far == s.kind = "match"
               /\ s.symbol >= (IF s.checkDic = 0 THEN s.processed ELSE s.checkDic)
  IN  CASE s.kind = "literal" ->
             [s EXCEPT !.dic[s.dicPos] = s.symbol, !.dicPos = @ + 1, !.processed = @ + 1]
        [] s.kind = "short" -> [CopyMatch(s, 1) EXCEPT !.processed = @ + 1]
        [] OTHER ->
             IF far \/ n = 0 THEN [s EXCEPT !.corrupt = TRUE]
             ELSE [CopyMatch(s, n) EXCEPT !.processed = @ + n, !.len = len - n]

DecodeSymbol(d, limit) == WriteSymbol(ReadSymbol(d), limit)
=============================================================================
