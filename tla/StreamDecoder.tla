---------------------------- MODULE StreamDecoder ----------------------------
(***************************************************************************)
(* What a caller of streaming decompression relies on, however many        *)
(* threads decode and however its calls are cut: the output grows by the   *)
(* stream's units in order, none comes from input that was not taken yet,  *)
(* and success is reported when all of it was output and the input taken   *)
(* is the stream and nothing that follows it.                              *)
(***************************************************************************)
EXTENDS Lzma2Stream

CONSTANT HashSize   \* XXHASH_SIZEOF, or 0 for a stream without a hash

VARIABLES
  stream,   \* the bytes the caller has: a stream, and what follows it
  taken,    \* how many of them are consumed; may go back
  out,      \* the output so far
  status    \* "going", "finished", "corrupt", or "dropped" after any other end

absVars == <<stream, taken, out, status>>

StreamEnd(s) == (CHOOSE p \in 1 .. Len(s) : s[p].kind = "end") + HashSize
Corrupt(s)   == \E p \in 1 .. Len(s) : s[p].kind = "bad"

AbsInit == taken = 0 /\ out = <<>> /\ status = "going"

(* Input is taken, or given back.                                          *)
Take ==
  /\ status = "going"
  /\ taken' \in 0 .. Len(stream)
  /\ UNCHANGED <<stream, out, status>>

Emit ==
  /\ status = "going"
  /\ \E n \in Len(out) + 1 .. Len(Units(stream)) :
       out' = SubSeq(Units(stream), 1, n) /\ Units(stream)[n] <= taken'
  /\ taken' \in 0 .. Len(stream)
  /\ UNCHANGED <<stream, status>>

Finish ==
  /\ status = "going"
  /\ out = Units(stream)
  /\ taken' = StreamEnd(stream)
  /\ status' = "finished"
  /\ UNCHANGED <<stream, out>>

(* The stream is rejected, which only a corrupt one is.                    *)
Reject ==
  /\ status = "going" /\ Corrupt(stream)
  /\ status' = "corrupt"
  /\ taken' \in 0 .. Len(stream)
  /\ UNCHANGED <<stream, out>>

(* Memory is exhausted, or the caller cancels.                             *)
Drop ==
  /\ status' = "dropped"
  /\ taken' \in 0 .. Len(stream)
  /\ UNCHANGED <<stream, out>>

Restart == taken' = 0 /\ out' = <<>> /\ status' = "going" /\ UNCHANGED stream

AbsNext == Take \/ Emit \/ Finish \/ Reject \/ Drop \/ Restart

AbsSpec == AbsInit /\ [][AbsNext]_absVars
=============================================================================
