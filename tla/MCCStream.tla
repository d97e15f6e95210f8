----------------------------- MODULE MCCStream -----------------------------
(* Instances of CStream for TLC.                                           *)
EXTENDS CStream

MCOutput == {NoOutput, 1}
=============================================================================
