----------------------------- MODULE DStreamInput -----------------------------
(***************************************************************************)
(* How a decoder with one thread is fed (UF2_decompressInput and           *)
(* UF2_decompressOverlappedInput, uf2_decompress.c).  The decoder does not *)
(* take the last bytes of a chunk that is not all there; what it leaves of *)
(* a caller's input is kept in `overlap` and put before the next.          *)
(*                                                                         *)
(* s has the stage, the decoder dec and overlap.  A result has s, how much *)
(* of the input was used, the output, and res: "ok" or an error.           *)
(***************************************************************************)
EXTENDS Integers, Sequences

CONSTANTS
  Needed,                \* LZMA_REQUIRED_INPUT_MAX
  DecodeBuf(_, _, _)     \* LZMA2_decodeToBuf: the results on an input, with room for output

OverlapSize == 2 * Needed                  \* LZMA_OVERLAP_SIZE

LOCAL Least(a, b) == IF a < b THEN a ELSE b

Idle(s) == [s |-> s, used |-> 0, out |-> <<>>, res |-> "ok"]

DecompressInput(s, src, room) ==
  IF s.stage # "decomp" THEN {Idle(s)}
  ELSE {[s    |-> [s EXCEPT !.dec = r.dec, !.stage = IF r.res = "finished" THEN "finished" ELSE @],
         used |-> r.used, out |-> r.out,
         res  |-> IF r.res = "finished" THEN "ok" ELSE r.res] : r \in DecodeBuf(s.dec, src, room)}

(* First what was kept, with as much of the input as fits behind it.       *)
FromOverlap(s, src, room) ==
  LET n == Least(Len(src), OverlapSize - Len(s.overlap))
      Kept(r) == Len(s.overlap) - r.used
  IN  IF s.overlap = <<>> THEN {Idle(s)}
      ELSE {[r EXCEPT !.s.overlap = IF Kept(r) > 0 THEN SubSeq(@, r.used + 1, Len(@)) ELSE <<>>,
                      !.used = IF Kept(r) > 0 THEN 0 ELSE -Kept(r)] :
              r \in DecompressInput(s, s.overlap \o SubSeq(src, 1, n), room)}

Direct(r, src, room) ==
  IF r.s.overlap # <<>> THEN {r}
  ELSE {[d EXCEPT !.used = r.used + @, !.out = r.out \o @] :
          d \in DecompressInput(r.s, SubSeq(src, r.used + 1, Len(src)), room - Len(r.out))}

(* Mutant of Save: bytes are taken when it was room that was missing.      *)
SaveAlways(r, src, room) ==
  LET left == Len(src) - r.used
      n    == Least(left, OverlapSize - Len(r.s.overlap))
  IN  IF r.s.stage = "decomp" /\ left <= Needed
      THEN [r EXCEPT !.s.overlap = @ \o SubSeq(src, r.used + 1, r.used + n), !.used = @ + n]
      ELSE r

(* What is left is taken when only input is missing.                       *)
Save(r, src, room) ==
  LET left == Len(src) - r.used
      n    == Least(left, OverlapSize - Len(r.s.overlap))
  IN  IF r.s.stage = "decomp" /\ Len(r.out) < room /\ left <= Needed
      THEN [r EXCEPT !.s.overlap = @ \o SubSeq(src, r.used + 1, r.used + n), !.used = @ + n]
      ELSE r

DecompressOverlappedInput(s, src, room) ==
  UNION {IF f.res # "ok" \/ f.used = Len(src) THEN {f}
         ELSE {IF d.res # "ok" THEN d ELSE Save(d, src, room) : d \in Direct(f, src, room)} :
           f \in FromOverlap(s, src, room)}
=============================================================================
