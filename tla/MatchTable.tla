----------------------------- MODULE MatchTable -----------------------------
(***************************************************************************)
(* TableBuild with the lists of RadixTable: the blocks that                *)
(* UF2_compressBuffer makes of its input, the tables the threads build of  *)
(* them, and what the encoders then read.                                  *)
(***************************************************************************)
EXTENDS TableBuild, SequencesExt

CONSTANTS
  Letters, MaxRepeat, MaxBrute, StackSize, MatchLenMax,   \* as in RadixTable
  MinTableBytes,   \* RMF_MIN_BYTES_PER_THREAD
  MinSlice         \* ENC_MIN_BYTES_PER_THREAD

Finder == INSTANCE RadixTable

LOCAL Least(a, b) == IF a < b THEN a ELSE b
LOCAL Most(a, b)  == IF a > b THEN a ELSE b

(* Where new data begins in the block after one that ends with `total`     *)
(* bytes since the last reset: the dictionary is reset before more than    *)
(* the interval has been written.                                          *)
NextStart(c, left, total) ==
  IF c.reset # 0 /\ total + Least(c.dict - c.overlap, left) > c.dict * c.reset THEN 0 ELSE c.overlap

(* The loop of UF2_compressBuffer for a case c: its text is a sequence, of *)
(* which a block begins behind `origin`.                                   *)
RECURSIVE BlocksFrom(_, _, _, _)
BlocksFrom(c, origin, start, total) ==
  LET left  == Len(c.text) - origin - start
      end   == start + Least(left, c.dict - start)
      after == NextStart(c, left - (end - start), total + end - start)
      made  == [text |-> [i \in 0 .. end - 1 |-> c.text[origin + i + 1]], start |-> start, end |-> end,
                depth |-> c.depth, limit |-> c.limit, size |-> c.size, best |-> c.best,
                maxLen |-> c.maxLen, struct |-> c.struct, threads |-> c.threads]
  IN  IF left = 0 THEN <<>>
      ELSE <<made>> \o (IF left = end - start THEN <<>>
                         ELSE BlocksFrom(c, origin + end - after, after,
                                         IF after = 0 THEN 0 ELSE total + end - start))

PlanOf(c) == [blocks |-> BlocksFrom(c, 0, 0, 0), async |-> c.async]

(* What TableBuild leaves open.                                            *)
TableThreads(b)  == Most(1, Least(b.threads, b.end \div MinTableBytes))
Fresh(heads, b)  == Finder!InitTable(heads, b)
Worked(t, b, l)  == Finder!Worked(t, b, l).t

(* UF2_compressCurBlock_blocking: the slices of a block.                   *)
SliceEnds(b) ==
  LET size == b.end - b.start
      nb   == Most(1, Least(b.threads, size \div MinSlice))
  IN  [u \in 1 .. nb |-> IF u = nb THEN b.end ELSE b.start + u * (size \div nb)]

Limited(t, b) == FoldLeft(LAMBDA r, end : Finder!LimitLengths(r, b, end), t, SliceEnds(b))

(* RMF_handleRepeat2 leaves entries without a length when a run of two     *)
(* letters in turn begins in the overlap and ends beyond it.               *)
RepeatCrosses(b) ==
  LET n == 2 * MaxRepeat - 4
  IN  \E s \in 0 .. b.start - 1 :
        /\ s + n \in b.start + 1 .. b.end
        /\ b.text[s] # b.text[s + 1]
        /\ \A i \in s .. s + n - 3 : b.text[i] = b.text[i + 2]

-----------------------------------------------------------------------------
(* Whatever the parameters, the threads and the order they take the lists  *)
(* in, and however much was done for a block that was canceled before it:  *)
(* every match the encoder of a slice reads is there, byte for byte, and   *)
(* ends with the slice.  Lengths are raised by one byte, by two, by runs   *)
(* and by comparison, in chains that are cut by the buffer's size and by   *)
(* the overlap, and no test compares the table with the text.              *)
MatchIsReal(b, end, at) ==
  LET e == table[at]
      m == Finder!GetMatch(table, b, end, at)
  IN  e.link = NullLink
        \/ /\ e.link < at
           /\ m.length \in 2 .. end - at
           /\ Finder!Common(b, at, at - m.dist - 1, m.length) = m.length

MatchesAreReal ==
  owner = "encode" =>
    \A u \in DOMAIN SliceEnds(block) :
      LET ends  == SliceEnds(block)
          first == IF u = 1 THEN block.start ELSE ends[u - 1]
      IN  \A at \in first .. ends[u] - 1 : MatchIsReal(block, ends[u], at)

(* Four bytes are read at a time, and one more is compared than counts:    *)
(* what RMF_recurseListsBound leaves of a list never reads past the block. *)
ReadsInBlock ==
  \A j \in Jobs :
    pc[j] = "list" /\ ~Skipped(block, taken[j]) /\ taken[j].head # NullLink =>
      Finder!Worked(table, block, taken[j]).reach < block.end
=============================================================================
