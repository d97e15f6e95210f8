----------------------------- MODULE TableBuild -----------------------------
(***************************************************************************)
(* How the threads of a compression share the building of the match table  *)
(* (radix_mf.c, radix_engine.h, UF2_compressCurBlock_blocking), and how    *)
(* the caller cancels it.                                                  *)
(*                                                                         *)
(* RMF_initTable sorts the positions of a block into lists, one for each   *)
(* pair of bytes that occurs, and puts the pairs on `stack`.  The threads  *)
(* take lists from it through a shared index, and work on the positions of *)
(* a list alone: a list is one step.  A cancel adds so much to the index   *)
(* that no list is left, and job 0 then clears the lists nobody took,      *)
(* because RMF_initTable expects every head to be null.                    *)
(*                                                                         *)
(* What the lists of a block are, and what a list turns the table into, are*)
(* constants here; RadixTable.tla defines them.                            *)
(***************************************************************************)
EXTENDS Integers, Sequences, FiniteSets

CONSTANTS
  Plans,               \* what may be compressed: the blocks, and whether by compressThread
  Radixes,             \* the pairs of bytes: RADIX16_TABLE_SIZE of them
  NullLink,            \* RADIX_NULL_LINK
  MaxThreads,          \* UF2_MAXTHREADS
  ThreadsOf(_),        \* UF2_mf_threadCount for a block
  FreshTable(_, _),    \* RMF_initTable: from the heads and a block to heads, stack, table
  BuildList(_, _, _),  \* a list's work: from the table, a block and a head to the table
  LimitTable(_, _)     \* RMF_limitLengths at the end of each slice of a block

Jobs        == 0 .. MaxThreads - 1

(* Mutant of CancelIndex: beyond the last list, but not by much.           *)
CancelIndexTight == Cardinality(Radixes)

CancelIndex == Cardinality(Radixes) + MaxThreads + 2      \* RADIX_CANCEL_INDEX
NoList      == [head |-> NullLink, count |-> 0]
NoBlock     == [none |-> TRUE]
NoTable     == <<>>        \* the table holds compressed data, or what was left behind

(* What the proofs use: the blocks of every plan come out as lists that    *)
(* `stack` names, all of them, if the heads are null to begin with.        *)
AllNull == [r \in Radixes |-> NoList]
ASSUME TableAssumption ==
  /\ IsFiniteSet(Radixes) /\ MaxThreads \in Nat \ {0} /\ NullLink \in Nat
  /\ \A p \in Plans :
       /\ p.async \in BOOLEAN
       /\ DOMAIN p.blocks = 1 .. Len(p.blocks) /\ Len(p.blocks) \in Nat
       /\ \A i \in DOMAIN p.blocks :
            LET fresh == FreshTable(AllNull, p.blocks[i])
            IN  /\ ThreadsOf(p.blocks[i]) \in 1 .. MaxThreads
                /\ fresh.heads \in [Radixes -> [head : Nat, count : Nat]]
                /\ fresh.stack \in Seq(Radixes)
                /\ Len(fresh.stack) <= Cardinality(Radixes)
                /\ \A r \in Radixes :
                     \/ fresh.heads[r].head = NullLink
                     \/ \E k \in 1 .. Len(fresh.stack) : fresh.stack[k] = r

VARIABLES
  plan,            \* what is compressed
  next,            \* the number of the block that comes next
  block,           \* cctx->curBlock
  canceled,        \* cctx->canceled
  cancel,          \* where UF2_cancelCStream_async is
  owner,           \* where UF2_compressCurBlock_blocking is
  result,          \* what it returned
  list_heads, stack, st_index, table,                     \* UF2_matchTable
  pc,              \* pc[j]: where job j of RMF_buildTable is
  pos,             \* pos[j]: what it read from st_index
  taken            \* taken[j]: its copy of a list head

tableVars  == <<list_heads, stack, st_index, table>>
jobVars    == <<pc, pos, taken>>
ownerVars  == <<block, next, owner, result>>
cancelVars == <<plan, canceled, cancel>>
vars       == <<tableVars, jobVars, ownerVars, cancelVars>>

end_index == Len(stack)

(* What RMF_initTable reads of the heads: not the count of a null one.     *)
Heads == [r \in Radixes |-> IF list_heads[r].head = NullLink THEN NoList ELSE list_heads[r]]

-----------------------------------------------------------------------------
(* The thread that compresses.                                             *)

(* UF2_compressCurBlock: the progress is reset, and with it `canceled`; a  *)
(* caller in the middle of a cancel does not come here.                    *)
Begin ==
  /\ owner = "idle" /\ result # "canceled" /\ cancel \in {"no", "done"}
  /\ next \in DOMAIN plan.blocks
  /\ block' = plan.blocks[next]
  /\ next' = next + 1
  /\ canceled' = FALSE
  /\ owner' = "init"
  /\ result' = "none"
  /\ UNCHANGED <<tableVars, jobVars, plan, cancel>>

(* RMF_initTable.                                                          *)
InitTable ==
  /\ owner = "init"
  /\ LET fresh == FreshTable(Heads, block)
     IN  /\ list_heads' = fresh.heads
         /\ stack' = fresh.stack
         /\ table' = fresh.table
  /\ st_index' = 0
  /\ owner' = "check"
  /\ UNCHANGED <<jobVars, block, next, result, cancelVars>>

(* Canceled since: RMF_resetIncompleteBuild.                               *)
ResetIncompleteBuild ==
  /\ owner = "check" /\ canceled
  /\ list_heads' = [r \in Radixes |-> NoList]
  /\ table' = NoTable
  /\ owner' = "idle"
  /\ result' = "canceled"
  /\ UNCHANGED <<stack, st_index, jobVars, block, next, cancelVars>>

(* Else the jobs 1 .. mfThreads - 1 are given to the pool, and job 0 is    *)
(* done here.                                                              *)
AddRange ==
  /\ owner = "check" /\ ~canceled
  /\ pc' = [j \in Jobs |-> IF j < ThreadsOf(block) THEN "load" ELSE "done"]
  /\ owner' = "build"
  /\ UNCHANGED <<tableVars, pos, taken, block, next, result, cancelVars>>

(* UF2POOL_waitAll returns.  Only job 0 says whether the build is complete.*)
WaitAll ==
  /\ owner = "build" /\ \A j \in Jobs : pc[j] = "done"
  /\ IF result = "canceled"
     THEN owner' = "idle" /\ table' = NoTable
     ELSE owner' = "encode" /\ table' = LimitTable(table, block)
  /\ UNCHANGED <<list_heads, stack, st_index, jobVars, block, next, result, cancelVars>>

(* The encoders have read the table and written over it; each looks at     *)
(* `canceled` when it is done.                                             *)
Encode ==
  /\ owner = "encode"
  /\ owner' = "idle"
  /\ result' = IF canceled THEN "canceled" ELSE "ok"
  /\ table' = NoTable
  /\ UNCHANGED <<list_heads, stack, st_index, jobVars, block, next, cancelVars>>

-----------------------------------------------------------------------------
(* Job j of RMF_buildTable.                                                *)

Alone  == ThreadsOf(block) = 1        \* multi_thread is 0
Go(j, where) == pc' = [pc EXCEPT ![j] = where]

Leave(j) == Go(j, IF j = 0 THEN "last" ELSE "done")

(* RMF_getNextList_mt and _st: a look at the index,                        *)
Load(j) ==
  /\ pc[j] = "load"
  /\ IF st_index < end_index THEN Go(j, "increment") ELSE Leave(j)
  /\ UNCHANGED <<tableVars, pos, taken, ownerVars, cancelVars>>

(* then an atomic increment, which decides; or, if there is no other       *)
(* thread, one that is not atomic.                                         *)
Increment(j) ==
  /\ pc[j] = "increment"
  /\ pos' = [pos EXCEPT ![j] = st_index]
  /\ IF Alone
     THEN Go(j, "store") /\ UNCHANGED st_index
     ELSE /\ st_index' = st_index + 1
          /\ IF st_index < end_index THEN Go(j, "count") ELSE Leave(j)
  /\ UNCHANGED <<list_heads, stack, table, taken, ownerVars, cancelVars>>

(* A cancel that falls between the two is lost: the build goes on, and the *)
(* encoders notice.                                                        *)
Store(j) ==
  /\ pc[j] = "store"
  /\ st_index' = pos[j] + 1
  /\ IF pos[j] < end_index THEN Go(j, "count") ELSE Leave(j)
  /\ UNCHANGED <<list_heads, stack, table, pos, taken, ownerVars, cancelVars>>

Radix(j) == stack[pos[j] + 1]

(* RMF_tableHead list_head = tbl->list_heads[pos]: two words, of which the *)
(* library as it is built, with gcc -O2, reads `count` first.              *)
TakeCount(j) ==
  /\ pc[j] = "count"
  /\ taken' = [taken EXCEPT ![j].count = list_heads[Radix(j)].count]
  /\ Go(j, "head")
  /\ UNCHANGED <<tableVars, pos, ownerVars, cancelVars>>

(* Mutant of TakeHead: the head stays.                                     *)
TakeHeadLeaves(j) ==
  /\ pc[j] = "head"
  /\ taken' = [taken EXCEPT ![j].head = list_heads[Radix(j)].head]
  /\ list_heads' = list_heads
  /\ Go(j, "list")
  /\ UNCHANGED <<stack, st_index, table, pos, ownerVars, cancelVars>>

TakeHead(j) ==
  /\ pc[j] = "head"
  /\ taken' = [taken EXCEPT ![j].head = list_heads[Radix(j)].head]
  /\ list_heads' = [list_heads EXCEPT ![Radix(j)].head = NullLink]
  /\ Go(j, "list")
  /\ UNCHANGED <<stack, st_index, table, pos, ownerVars, cancelVars>>

(* Short lists, and those that end in the overlap, are left as they are.   *)
(* What following a null head does is undefined; here, nothing.            *)
Skipped(b, l) == l.count < 2 \/ l.head < b.start

RecurseList(j) ==
  /\ pc[j] = "list"
  /\ table' = IF Skipped(block, taken[j]) \/ taken[j].head = NullLink THEN table
              ELSE BuildList(table, block, taken[j])
  /\ taken' = [taken EXCEPT ![j] = NoList]
  /\ Go(j, "load")
  /\ UNCHANGED <<list_heads, stack, st_index, pos, ownerVars, cancelVars>>

(* Mutant of LookForCancel: the lists are left to whoever comes next.      *)
LookForCancelLeaves ==
  /\ pc[0] = "last"
  /\ IF st_index >= CancelIndex
     THEN /\ result' = "canceled"
          /\ UNCHANGED list_heads
     ELSE UNCHANGED <<list_heads, result>>
  /\ Go(0, "done")
  /\ UNCHANGED <<stack, st_index, table, pos, taken, block, next, owner, cancelVars>>

(* The end of RMF_buildTable for job 0: has the index been moved by a      *)
(* cancel, the lists are cleared.  The other jobs may still be at theirs.  *)
LookForCancel ==
  /\ pc[0] = "last"
  /\ IF st_index >= CancelIndex
     THEN /\ result' = "canceled"
          /\ list_heads' = [r \in Radixes |-> NoList]
     ELSE UNCHANGED <<list_heads, result>>
  /\ Go(0, "done")
  /\ UNCHANGED <<stack, st_index, table, pos, taken, block, next, owner, cancelVars>>

Job(j) ==
  \/ Load(j) \/ Increment(j) \/ Store(j)
  \/ TakeCount(j) \/ TakeHead(j) \/ RecurseList(j)

-----------------------------------------------------------------------------
(* UF2_cancelCStream_async, by the caller, while compressThread works: the *)
(* flag, RMF_cancelBuild, and a wait for the job to return.  A new stream  *)
(* is begun after that.  One cancel in a behaviour.                        *)
Cancel ==
  /\ plan.async /\ cancel = "no"
  /\ canceled' = TRUE
  /\ cancel' = "flagged"
  /\ UNCHANGED <<tableVars, jobVars, ownerVars, plan>>

CancelBuild ==
  /\ cancel = "flagged"
  /\ st_index' = st_index + CancelIndex
  /\ cancel' = "moved"
  /\ UNCHANGED <<list_heads, stack, table, jobVars, ownerVars, plan, canceled>>

CancelEnds ==
  /\ cancel = "moved" /\ owner = "idle"
  /\ canceled' = FALSE
  /\ cancel' = "done"
  /\ next' = 1
  /\ result' = "none"
  /\ UNCHANGED <<tableVars, jobVars, block, owner, plan>>

Compressed ==
  /\ owner = "idle" /\ next \notin DOMAIN plan.blocks /\ cancel \in {"no", "done"}
  /\ UNCHANGED vars

Init ==
  /\ plan \in Plans
  /\ next = 1 /\ block = NoBlock
  /\ canceled = FALSE /\ cancel = "no"
  /\ owner = "idle" /\ result = "none"
  /\ list_heads = [r \in Radixes |-> NoList]
  /\ stack = <<>> /\ st_index = 0 /\ table = NoTable
  /\ pc = [j \in Jobs |-> "done"]
  /\ pos = [j \in Jobs |-> 0]
  /\ taken = [j \in Jobs |-> NoList]

Next ==
  \/ Begin \/ InitTable \/ ResetIncompleteBuild \/ AddRange \/ WaitAll \/ Encode
  \/ \E j \in Jobs : Job(j)
  \/ LookForCancel
  \/ Cancel \/ CancelBuild \/ CancelEnds
  \/ Compressed

Spec == Init /\ [][Next]_vars

-----------------------------------------------------------------------------
(* No block is begun with a list left over from the one before, however    *)
(* its build ended: a stale head would become a link of the next block to  *)
(* a position that has nothing to do with it, and its pair of bytes would  *)
(* never come on the stack.  (RMF_buildTable, RMF_cancelBuild.)            *)
HeadsClear == owner \in {"idle", "init"} => \A r \in Radixes : list_heads[r].head = NullLink

(* Compression says it was canceled only if the caller has canceled it:    *)
(* RADIX_CANCEL_INDEX is beyond what the threads' last, vain increments    *)
(* reach.  (radix_internal.h.)                                             *)
CanceledByCaller == result = "canceled" => cancel \in {"flagged", "moved"}
=============================================================================
