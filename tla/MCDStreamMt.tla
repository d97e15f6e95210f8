---------------------------- MODULE MCDStreamMt ----------------------------
(* Instances of DStreamMt for TLC.                                         *)
EXTENDS DStreamMt

After(n) == [i \in 1 .. HashSize |-> [kind |-> "hash"]] \o [i \in 1 .. n |-> [kind |-> "after"]]

(* Three blocks, the first of them of two chunks, and what follows them.   *)
Sound   == Chunk(TRUE, 3, "no") \o Chunk(FALSE, 1, "no") \o Chunk(TRUE, 2, "no")
             \o Chunk(TRUE, 1, "no") \o Terminator \o After(1)
Empty   == Terminator \o After(1)
BadData == Chunk(TRUE, 2, "no") \o Chunk(TRUE, 2, "data") \o Terminator \o After(0)
BadHead == Chunk(FALSE, 2, "no") \o Chunk(TRUE, 2, "header") \o Terminator \o After(0)

(* Two resets in what two nodes have in common.                            *)
Tiny    == Chunk(TRUE, 5, "no") \o Chunk(TRUE, 1, "no") \o Chunk(TRUE, 2, "no")
             \o Terminator \o After(1)

MCStreams == {Sound, Empty, BadData, BadHead}
MCShort   == {Chunk(TRUE, 2, "no")}
MCSound   == {Sound}
MCTiny    == {Tiny}
=============================================================================
