------------------------------ MODULE JobPool ------------------------------
(***************************************************************************)
(* What a pool of worker threads promises to the one thread that uses it,  *)
(* said without threads, locks or condition variables: jobs that were      *)
(* submitted together are each run once, and the submitter is told that    *)
(* the pool is quiet only when none of them is waiting or running.         *)
(* ThreadPool.tla is shown to implement this.                              *)
(***************************************************************************)
EXTENDS Integers

CONSTANT Job     \* what a job is: the function it calls and its number

VARIABLES
  todo,          \* submitted and not yet begun
  active,        \* begun and not yet ended
  finished,      \* ended since the last submission
  told,          \* the submitter knows that the pool is quiet
  up             \* the pool takes jobs

vars == <<todo, active, finished, told, up>>

Init ==
  /\ todo = {} /\ active = {} /\ finished = {}
  /\ told = FALSE
  /\ up = FALSE

(* A new set of jobs comes only after the previous one is known to be over. *)
Submit(batch) ==
  /\ up /\ told
  /\ todo' = batch
  /\ finished' = {}
  /\ told' = FALSE
  /\ UNCHANGED <<active, up>>

(* Some active jobs end and some waiting ones begin, at least one of them.  *)
Work(ended, begun) ==
  /\ ended \cup begun # {}
  /\ todo' = todo \ begun
  /\ active' = (active \ ended) \cup begun
  /\ finished' = finished \cup ended
  /\ UNCHANGED <<told, up>>

(* The only way to learn that the pool is quiet is that it is.              *)
Learn ==
  /\ todo = {} /\ active = {}
  /\ told' = TRUE
  /\ UNCHANGED <<todo, active, finished, up>>

Start ==
  /\ ~up /\ active = {}
  /\ up' = TRUE
  /\ told' = TRUE
  /\ finished' = {}
  /\ UNCHANGED <<todo, active>>

(* Shutting down drops what has not begun; what runs is allowed to end.     *)
Stop ==
  /\ up' = FALSE
  /\ told' = FALSE
  /\ todo' = {}
  /\ UNCHANGED <<active, finished>>

SomeWork == \E ended \in SUBSET active, begun \in SUBSET todo : Work(ended, begun)

Next ==
  \/ \E batch \in SUBSET Job : Submit(batch)
  \/ SomeWork
  \/ Learn \/ Start \/ Stop

(* Whatever was submitted is begun and ended, or dropped.                   *)
Spec == Init /\ [][Next]_vars /\ WF_vars(SomeWork)

Safety == Init /\ [][Next]_vars
=============================================================================
