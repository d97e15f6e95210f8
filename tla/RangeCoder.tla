----------------------------- MODULE RangeCoder -----------------------------
(***************************************************************************)
(* The range coder (range_enc.c, range_enc.h) and its inverse, the macros  *)
(* of lzma2_dec.c.  Its numbers are scaled: a byte has ByteBits bits where *)
(* the code has 8, so a U32 has 4 * ByteBits, and a probability ModelBits  *)
(* where it has 11.                                                        *)
(*                                                                         *)
(* What is coded is a sequence of pairs <<context, bit>>.  A context names *)
(* a probability of the model; Direct has none.  A model is a function of  *)
(* the contexts used since it was reset.                                   *)
(***************************************************************************)
EXTENDS Integers, Sequences, SequencesExt, TLC

CONSTANTS
  ByteBits,    \* 8
  ModelBits,   \* kNumBitModelTotalBits
  MoveBits     \* kNumMoveBits

Base       == 2 ^ ByteBits
Word       == 2 ^ (4 * ByteBits)           \* the values of a U32
TopValue   == 2 ^ (3 * ByteBits)           \* kTopValue
ModelTotal == 2 ^ ModelBits                \* kBitModelTotal

(* A bit narrows the range to one part in ModelTotal at worst, and is      *)
(* followed by one byte at most.                                           *)
ASSUME CoderAssumption ==
  /\ ByteBits \in Nat \ {0} /\ MoveBits \in Nat \ {0}
  /\ ModelBits \in 2 .. ByteBits + MoveBits

Direct   == <<"direct">>
NewModel == [c \in {} |-> 0]

Prob(model, c) ==                          \* kProbInitValue at first
  IF c \in DOMAIN model THEN model[c] ELSE ModelTotal \div 2

Adapted(p, bit) ==
  IF bit = 0 THEN p + (ModelTotal - p) \div 2 ^ MoveBits ELSE p - p \div 2 ^ MoveBits

Learn(model, c, bit) == (c :> Adapted(Prob(model, c), bit)) @@ model

-----------------------------------------------------------------------------
(* RC_encoder.  `low` has one bit more than a U32, the carry.              *)
RcReset == [low |-> 0, range |-> Word - 1, cache |-> 0, cacheSize |-> 0, out |-> <<>>]

(* Mutant of ShiftLow: the carry is left out where no byte waits.          *)
ShiftLowNoCarry(rc) ==
  LET high == rc.low \div Word
      next == (rc.low \div TopValue) % Base
      rest == [rc EXCEPT !.low = (@ % TopValue) * Base]
  IN  IF next < Base - 1 \/ high # 0
      THEN [rest EXCEPT !.out = @ \o <<rc.cache>>
                                  \o [i \in 1 .. rc.cacheSize |-> (Base - 1 + high) % Base],
                        !.cache = next, !.cacheSize = 0]
      ELSE [rest EXCEPT !.cacheSize = @ + 1]

(* RC_shiftLow: a byte goes out when no carry can change it; bytes of all  *)
(* ones are counted until then.                                            *)
ShiftLow(rc) ==
  LET high == rc.low \div Word
      next == (rc.low \div TopValue) % Base
      rest == [rc EXCEPT !.low = (@ % TopValue) * Base]
  IN  IF next < Base - 1 \/ high # 0
      THEN [rest EXCEPT !.out = @ \o <<(rc.cache + high) % Base>>
                                  \o [i \in 1 .. rc.cacheSize |-> (Base - 1 + high) % Base],
                        !.cache = next, !.cacheSize = 0]
      ELSE [rest EXCEPT !.cacheSize = @ + 1]

Shifted(rc) ==
  IF rc.range < TopValue THEN ShiftLow([rc EXCEPT !.range = @ * Base]) ELSE rc

(* RC_encodeBit, and one bit of RC_encodeDirect.                           *)
EncodeBit(rc, model, c, bit) ==
  LET bound == IF c = Direct THEN rc.range \div 2
               ELSE (rc.range \div ModelTotal) * Prob(model, c)
      low   == IF c = Direct THEN rc.range \div 2 ELSE rc.range - bound
  IN  Shifted(IF bit = 0 THEN [rc EXCEPT !.range = bound]
              ELSE [rc EXCEPT !.low = @ + bound, !.range = low])

(* The pairs of a symbol, one after the other; e has the coder and model.  *)
Encode(e, pairs) ==
  FoldLeft(LAMBDA x, p :
             [x EXCEPT !.rc = EncodeBit(@, x.model, p[1], p[2]),
                       !.model = IF p[1] = Direct THEN @ ELSE Learn(@, p[1], p[2])],
           e, pairs)

Flush(rc) == ShiftLow(ShiftLow(ShiftLow(ShiftLow(ShiftLow(rc)))))    \* RC_flush

(* RC_encodeBitTree: the path from the root is the index of a probability. *)
TreePairs(name, bits, symbol) ==
  [i \in 1 .. bits |->
     <<Append(name, 2 ^ (i - 1) + symbol \div 2 ^ (bits - i + 1)),
       (symbol \div 2 ^ (bits - i)) % 2>>]

(* RC_encodeBitTreeReverse with probs + offset.                            *)
Backwards(symbol, bits) ==
  FoldLeft(LAMBDA t, i : 2 * t + ((symbol \div 2 ^ (i - 1)) % 2), 1, [i \in 1 .. bits |-> i])

ReversePairs(name, offset, bits, symbol) ==
  [i \in 1 .. bits |->
     <<Append(name, offset + Backwards(symbol, i - 1)), (symbol \div 2 ^ (i - 1)) % 2>>]

DirectPairs(bits, value) ==
  [i \in 1 .. bits |-> <<Direct, (value \div 2 ^ (bits - i)) % 2>>]

-----------------------------------------------------------------------------
(* Decoding.  d has the range, the code and the model; d.buf is the offset *)
(* of the next byte in d.src, beyond whose end there are zeros.            *)
NextByte(d) == IF d.buf < Len(d.src) THEN d.src[d.buf + 1] ELSE 0

Normalize(d) ==                            \* NORMALIZE
  IF d.range < TopValue
  THEN [d EXCEPT !.range = @ * Base, !.code = (@ * Base + NextByte(d)) % Word, !.buf = @ + 1]
  ELSE d

(* IF_BIT_0 with UPDATE_0 or UPDATE_1; the bit is left in d.bit.           *)
BitAt(n, c, bound) ==
  IF n.code < bound
  THEN [n EXCEPT !.range = bound, !.model = Learn(@, c, 0), !.bit = 0]
  ELSE [n EXCEPT !.range = @ - bound, !.code = @ - bound, !.model = Learn(@, c, 1), !.bit = 1]

BitOf(n, c) == BitAt(n, c, (n.range \div ModelTotal) * Prob(n.model, c))

GetBit(d, c) == BitOf(Normalize(d), c)

(* A direct bit: the code less the range, and its sign.                    *)
GetDirect(d) ==
  LET n    == Normalize(d)
      half == n.range \div 2
  IN  IF n.code < half THEN [n EXCEPT !.range = half, !.bit = 0]
      ELSE [n EXCEPT !.range = half, !.code = @ - half, !.bit = 1]

(* TREE_DECODE: the symbol is left in d.symbol.                            *)
GetTree(d, name, bits) ==
  LET end == FoldLeft(LAMBDA x, i : LET g == GetBit(x, Append(name, x.symbol))
                                    IN  [g EXCEPT !.symbol = 2 * @ + g.bit],
                      [d EXCEPT !.symbol = 1], [i \in 1 .. bits |-> i])
  IN  [end EXCEPT !.symbol = @ - 2 ^ bits]

(* REV_BIT_VAR, from index `first` on: m is 1, 2, 4, ...                   *)
GetReverse(d, name, first, bits) ==
  LET end == FoldLeft(LAMBDA x, i : LET g == GetBit(x, Append(name, x.symbol))
                                    IN  [g EXCEPT !.symbol = @ + 2 ^ (i - 1) * (1 + g.bit)],
                      [d EXCEPT !.symbol = first], [i \in 1 .. bits |-> i])
  IN  [end EXCEPT !.symbol = @ - 2 ^ bits]

GetDirects(d, value, bits) ==
  FoldLeft(LAMBDA x, i : LET g == GetDirect(x) IN [g EXCEPT !.symbol = 2 * @ + g.bit],
           [d EXCEPT !.symbol = value], [i \in 1 .. bits |-> i])
=============================================================================
