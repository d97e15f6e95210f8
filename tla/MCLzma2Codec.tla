---------------------------- MODULE MCLzma2Codec ----------------------------
EXTENDS Lzma2Codec

Run(b, n) == [i \in 1 .. n |-> b]

(* A long run and a period; noise that is repeated after a run.            *)
MCStreams ==
  {Run(7, 26) \o <<1, 2, 3, 1, 2, 3>>,
   <<1, 6, 0, 5, 2, 7, 3>> \o Run(0, 16) \o <<6, 0, 5, 2, 7, 3>> \o Run(0, 8)}
MCCapacities == {-1, 2}
MCCallSizes == {[input |-> 1, room |-> 40], [input |-> 12, room |-> 3]}
MCProps == {[lc |-> 1, lp |-> 1, pb |-> 1]}
=============================================================================
