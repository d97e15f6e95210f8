-------------------------- MODULE TableBuildProofs --------------------------
(***************************************************************************)
(* Proofs about TableBuild, for any blocks, any number of threads and any  *)
(* size of the table of list heads.                                        *)
(***************************************************************************)
EXTENDS TableBuild, FiniteSetTheorems, TLAPS

HeadType == [head : Nat, count : Nat]
JobPC == {"load", "increment", "store", "count", "head", "list", "last", "done"}

TableTypeOK ==
  /\ list_heads \in [Radixes -> HeadType]
  /\ stack \in Seq(Radixes) /\ st_index \in Nat
  /\ pc \in [Jobs -> JobPC] /\ pos \in [Jobs -> Nat]
  /\ owner \in {"idle", "init", "check", "build", "encode"}
  /\ plan \in Plans /\ next \in Nat
  /\ owner # "idle" => \E i \in DOMAIN plan.blocks : block = plan.blocks[i]

(* The jobs run while the owner waits for them, and a job that is alone is *)
(* the owner's.                                                            *)
Quiet ==
  /\ owner # "build" => \A j \in Jobs : pc[j] = "done"
  /\ \A j \in Jobs : pc[j] = "last" => j = 0
  /\ \A j \in Jobs : pc[j] = "store" => Alone /\ j = 0
  /\ owner = "build" /\ Alone => \A j \in Jobs : j # 0 => pc[j] = "done"

Building == owner \in {"check", "build"}

NullAt(r) == list_heads[r].head = NullLink

(* Before and after the build there are no lists.                          *)
ClearOutside == ~Building => \A r \in Radixes : NullAt(r)

(* During the build the lists there are have their pairs on the stack.     *)
Listed == Building => \A r \in Radixes : NullAt(r) \/ \E k \in 1 .. Len(stack) : stack[k] = r

(* Job j is about to take the head at pos[j].                              *)
Taking(j) == pc[j] \in {"count", "head"}

InFlight == \A j \in Jobs : Taking(j) => pos[j] < Len(stack)

(* The k-th list has been taken, or is being taken.                        *)
Handled(k) == NullAt(stack[k]) \/ \E j \in Jobs : Taking(j) /\ pos[j] = k - 1

(* The lists below the index are, unless the index was moved by a cancel;  *)
(* for the job alone the same holds of the index as it read it.            *)
BelowIndex ==
  Building => \/ st_index >= CancelIndex
              \/ \A k \in 1 .. Len(stack) : k <= st_index => Handled(k)
BelowRead ==
  \A j \in Jobs :
    pc[j] = "store" => \/ pos[j] >= CancelIndex
                       \/ \A k \in 1 .. Len(stack) : k <= pos[j] => NullAt(stack[k])

(* Job 0 leaves its loop when no list is left below the index, and when it *)
(* is done no list is left at all.                                         *)
LeftLoop ==
  owner = "build" =>
    /\ pc[0] = "last" => st_index >= Len(stack)
    /\ pc[0] = "done" => \A k \in 1 .. Len(stack) : Handled(k)

HInv == TableTypeOK /\ Quiet /\ ClearOutside /\ Listed /\ InFlight /\ BelowIndex /\ BelowRead /\ LeftLoop

-----------------------------------------------------------------------------
(* The jobs that have seen the end of the lists.                           *)
Left == {j \in Jobs : pc[j] \in {"last", "done"}}

(* Without a cancel the index passes the end once for each job that left.  *)
IndexBound ==
  cancel # "moved" =>
    /\ owner = "check" => st_index = 0
    /\ owner = "build" =>
         /\ st_index <= Len(stack) + Cardinality(Left)
         /\ \A j \in Jobs : pc[j] = "store" => pos[j] <= Len(stack) + Cardinality(Left)

StackBound == Building => Len(stack) <= Cardinality(Radixes)

FlagByCaller == canceled => cancel \in {"flagged", "moved"}

CInv == StackBound /\ IndexBound /\ FlagByCaller /\ CanceledByCaller

-----------------------------------------------------------------------------
(* What RMF_initTable makes of heads that are all null.                    *)
LEMMA FreshFacts ==
  ASSUME TableTypeOK, owner = "init", \A r \in Radixes : NullAt(r)
  PROVE  LET fresh == FreshTable(Heads, block)
         IN  /\ fresh.heads \in [Radixes -> HeadType]
             /\ fresh.stack \in Seq(Radixes)
             /\ Len(fresh.stack) <= Cardinality(Radixes)
             /\ \A r \in Radixes : \/ fresh.heads[r].head = NullLink
                                   \/ \E k \in 1 .. Len(fresh.stack) : fresh.stack[k] = r
<1>1. Heads = AllNull
  BY DEF Heads, AllNull, NullAt
<1>2. PICK i \in DOMAIN plan.blocks : block = plan.blocks[i]
  BY DEF TableTypeOK
<1>3. plan \in Plans
  BY DEF TableTypeOK
<1>4. QED
  BY <1>1, <1>2, <1>3, TableAssumption DEF HeadType

(* A block has a thread or more, and job 0 is one of the jobs.             *)
LEMMA JobZero == 0 \in Jobs /\ Jobs \subseteq Nat
BY TableAssumption DEF Jobs

LEMMA CancelIndexBeyond ==
  /\ Cardinality(Radixes) \in Nat
  /\ CancelIndex \in Nat
  /\ CancelIndex = Cardinality(Radixes) + MaxThreads + 2
BY TableAssumption, FS_CardinalityType DEF CancelIndex

(* A job that takes a list finds its pair on the stack.                    *)
LEMMA TakenRadix ==
  ASSUME TableTypeOK, InFlight, NEW j \in Jobs, Taking(j)
  PROVE  /\ Radix(j) \in Radixes
         /\ pos[j] + 1 \in 1 .. Len(stack)
         /\ Radix(j) = stack[pos[j] + 1]
<1>1. pos[j] \in Nat /\ pos[j] < Len(stack) /\ Len(stack) \in Nat
  BY DEF TableTypeOK, InFlight
<1>2. QED
  BY <1>1 DEF TableTypeOK, Radix

-----------------------------------------------------------------------------
LEMMA TypeStep ==
  ASSUME HInv, [Next]_vars
  PROVE  TableTypeOK'
<1> USE DEF HInv
<1> USE DEF tableVars, jobVars, ownerVars, cancelVars
<1>1. CASE Begin
  <2>1. next \in DOMAIN plan.blocks /\ block' = plan.blocks[next] /\ plan' = plan
    BY <1>1 DEF Begin
  <2>2. \E i \in DOMAIN plan'.blocks : block' = plan'.blocks[i]
    BY <2>1
  <2>3. QED
    BY <1>1, <2>2 DEF Begin, TableTypeOK
<1>2. CASE InitTable
  <2>1. \A r \in Radixes : NullAt(r)
    BY <1>2 DEF InitTable, ClearOutside, Building
  <2>2. list_heads' \in [Radixes -> HeadType] /\ stack' \in Seq(Radixes) /\ st_index' = 0
    BY <1>2, <2>1, FreshFacts DEF InitTable
  <2>3. QED
    BY <1>2, <2>2 DEF InitTable, TableTypeOK
<1>3. CASE ResetIncompleteBuild \/ LookForCancel
  <2>1. NoList \in HeadType
    BY TableAssumption DEF NoList, HeadType
  <2>2. list_heads' \in [Radixes -> HeadType]
    BY <1>3, <2>1 DEF ResetIncompleteBuild, LookForCancel, TableTypeOK
  <2>3. pc' \in [Jobs -> JobPC]
    BY <1>3, JobZero DEF ResetIncompleteBuild, LookForCancel, TableTypeOK, JobPC, Go
  <2>4. QED
    BY <1>3, <2>2, <2>3 DEF ResetIncompleteBuild, LookForCancel, TableTypeOK
<1>4. CASE AddRange \/ WaitAll \/ Encode
  <2>1. pc' \in [Jobs -> JobPC]
    BY <1>4 DEF AddRange, WaitAll, Encode, TableTypeOK, JobPC
  <2>2. QED
    BY <1>4, <2>1 DEF AddRange, WaitAll, Encode, TableTypeOK
<1>5. ASSUME NEW j \in Jobs, Load(j) \/ TakeCount(j) \/ RecurseList(j)
      PROVE  TableTypeOK'
  <2>1. pc' \in [Jobs -> JobPC]
    BY <1>5 DEF Load, TakeCount, RecurseList, TableTypeOK, JobPC, Go, Leave
  <2>2. QED
    BY <1>5, <2>1 DEF Load, TakeCount, RecurseList, TableTypeOK
<1>6. ASSUME NEW j \in Jobs, Increment(j) \/ Store(j)
      PROVE  TableTypeOK'
  <2>1. CASE Increment(j)
    <3>1. pc' \in [Jobs -> JobPC]
      BY <2>1 DEF Increment, TableTypeOK, JobPC, Go, Leave
    <3>2. st_index' \in Nat
      BY <2>1 DEF Increment, TableTypeOK
    <3>3. pos' \in [Jobs -> Nat]
      BY <2>1 DEF Increment, TableTypeOK
    <3>4. QED
      BY <2>1, <3>1, <3>2, <3>3 DEF Increment, TableTypeOK
  <2>2. CASE Store(j)
    <3>1. pc' \in [Jobs -> JobPC]
      BY <2>2 DEF Store, TableTypeOK, JobPC, Go, Leave
    <3>2. pos[j] \in Nat
      BY DEF TableTypeOK
    <3>3. QED
      BY <2>2, <3>1, <3>2 DEF Store, TableTypeOK
  <2>3. QED
    BY <1>6, <2>1, <2>2
<1>7. ASSUME NEW j \in Jobs, TakeHead(j)
      PROVE  TableTypeOK'
  <2>1. Radix(j) \in Radixes
    BY <1>7, TakenRadix DEF TakeHead, Taking
  <2>2. list_heads' \in [Radixes -> HeadType]
    <3>1. list_heads[Radix(j)] \in HeadType /\ NullLink \in Nat
      BY <2>1, TableAssumption DEF TableTypeOK
    <3>2. [list_heads[Radix(j)] EXCEPT !.head = NullLink] \in HeadType
      BY <3>1 DEF HeadType
    <3>3. list_heads' = [list_heads EXCEPT ![Radix(j)] = [list_heads[Radix(j)] EXCEPT !.head = NullLink]]
      BY <1>7 DEF TakeHead
    <3>4. QED
      BY <2>1, <3>2, <3>3 DEF TableTypeOK
  <2>3. pc' \in [Jobs -> JobPC]
    BY <1>7 DEF TakeHead, TableTypeOK, JobPC, Go
  <2>4. QED
    BY <1>7, <2>2, <2>3 DEF TakeHead, TableTypeOK
<1>8. CASE Cancel \/ CancelBuild \/ CancelEnds
  BY <1>8, CancelIndexBeyond DEF Cancel, CancelBuild, CancelEnds, TableTypeOK
<1>9. CASE Compressed \/ UNCHANGED vars
  BY <1>9 DEF Compressed, vars, TableTypeOK
<1>10. QED
  BY <1>1, <1>2, <1>3, <1>4, <1>5, <1>6, <1>7, <1>8, <1>9 DEF Next, Job

LEMMA QuietStep ==
  ASSUME HInv, [Next]_vars
  PROVE  Quiet'
<1> USE DEF HInv, Quiet, Alone
<1> USE DEF tableVars, jobVars, ownerVars, cancelVars
<1>1. CASE Begin \/ InitTable \/ ResetIncompleteBuild
  BY <1>1 DEF Begin, InitTable, ResetIncompleteBuild
<1>2. CASE WaitAll \/ Encode
  BY <1>2 DEF WaitAll, Encode
<1>3. CASE AddRange
  BY <1>3 DEF AddRange, Jobs
<1>4. ASSUME NEW j \in Jobs, Job(j)
      PROVE  Quiet'
  <2>1. pc[j] # "done" /\ owner = "build" /\ (Alone => j = 0)
    BY <1>4 DEF Job, Load, Increment, Store, TakeCount, TakeHead, RecurseList
  <2>2. UNCHANGED <<owner, block>>
    BY <1>4 DEF Job, Load, Increment, Store, TakeCount, TakeHead, RecurseList
  <2>3. \A i \in Jobs : i # j => pc'[i] = pc[i]
    BY <1>4 DEF Job, Load, Increment, Store, TakeCount, TakeHead, RecurseList, Go, Leave, TableTypeOK
  <2>4. (pc'[j] = "last" => j = 0) /\ (pc'[j] = "store" => Alone)
    BY <1>4 DEF Job, Load, Increment, Store, TakeCount, TakeHead, RecurseList, Go, Leave, TableTypeOK
  <2>5. QED
    BY <2>1, <2>2, <2>3, <2>4
<1>5. CASE LookForCancel
  BY <1>5, JobZero DEF LookForCancel, Go, TableTypeOK
<1>6. CASE Cancel \/ CancelBuild \/ CancelEnds
  BY <1>6 DEF Cancel, CancelBuild, CancelEnds
<1>7. CASE Compressed \/ UNCHANGED vars
  BY <1>7 DEF Compressed, vars
<1>8. QED
  BY <1>1, <1>2, <1>3, <1>4, <1>5, <1>6, <1>7 DEF Next

(* The job that is no longer at its list when the step is over.            *)
LEMMA JobFrame ==
  ASSUME HInv, NEW j \in Jobs, Job(j)
  PROVE  /\ owner = "build" /\ UNCHANGED <<owner, block, stack, result, cancelVars>>
         /\ \A i \in Jobs : i # j => pc'[i] = pc[i] /\ pos'[i] = pos[i]
         /\ \A r \in Radixes : NullAt(r) => NullAt(r)'
<1> USE DEF HInv, tableVars, jobVars, ownerVars, cancelVars
<1>1. owner = "build" /\ UNCHANGED <<owner, block, stack, result, cancelVars>>
  BY DEF Job, Load, Increment, Store, TakeCount, TakeHead, RecurseList, Quiet
<1>2. \A i \in Jobs : i # j => pc'[i] = pc[i] /\ pos'[i] = pos[i]
  BY DEF Job, Load, Increment, Store, TakeCount, TakeHead, RecurseList, Go, Leave, TableTypeOK
<1>3. CASE TakeHead(j)
  BY <1>1, <1>2, <1>3 DEF TakeHead, NullAt, TableTypeOK, HeadType
<1>4. CASE ~TakeHead(j)
  <2>1. list_heads' = list_heads
    BY <1>4 DEF Job, Load, Increment, Store, TakeCount, RecurseList
  <2>2. QED
    BY <1>1, <1>2, <2>1 DEF NullAt
<1>5. QED
  BY <1>3, <1>4

LEMMA ListsStep ==
  ASSUME HInv, [Next]_vars
  PROVE  ClearOutside' /\ Listed' /\ InFlight'
<1> USE DEF HInv, ClearOutside, Listed, InFlight, Building, Taking, NullAt
<1> USE DEF tableVars, jobVars, ownerVars, cancelVars
<1>1. CASE Begin
  BY <1>1 DEF Begin
<1>2. CASE InitTable
  BY <1>2, FreshFacts DEF InitTable, Quiet
<1>3. CASE ResetIncompleteBuild
  BY <1>3 DEF ResetIncompleteBuild, NoList, Quiet
<1>4. CASE AddRange
  BY <1>4 DEF AddRange
<1>5. CASE WaitAll
  <2>1. \A k \in 1 .. Len(stack) : NullAt(stack[k])
    BY <1>5, JobZero DEF WaitAll, LeftLoop, Handled
  <2>2. \A r \in Radixes : NullAt(r)
    BY <1>5, <2>1 DEF WaitAll
  <2>3. QED
    BY <1>5, <2>2 DEF WaitAll
<1>6. CASE Encode
  BY <1>6 DEF Encode, Quiet
<1>7. ASSUME NEW j \in Jobs, Job(j)
      PROVE  ClearOutside' /\ Listed' /\ InFlight'
  <2>1. ClearOutside' /\ Listed'
    BY <1>7, JobFrame
  <2>2. Taking(j)' => pos'[j] < Len(stack)
    <3>1. CASE Load(j) \/ RecurseList(j) \/ TakeHead(j)
      BY <3>1 DEF Load, RecurseList, TakeHead, Go, Leave, TableTypeOK
    <3>2. CASE Increment(j)
      BY <3>2 DEF Increment, Go, Leave, TableTypeOK, end_index
    <3>3. CASE Store(j)
      BY <3>3 DEF Store, Go, Leave, TableTypeOK, end_index
    <3>4. CASE TakeCount(j)
      BY <3>4 DEF TakeCount, Go, TableTypeOK
    <3>5. QED
      BY <1>7, <3>1, <3>2, <3>3, <3>4 DEF Job
  <2>3. QED
    BY <1>7, <2>1, <2>2, JobFrame
<1>8. CASE LookForCancel
  <2>1. \A i \in Jobs : Taking(i)' => Taking(i)
    BY <1>8, JobZero DEF LookForCancel, Go, TableTypeOK
  <2>2. \A r \in Radixes : NullAt(r) => NullAt(r)'
    BY <1>8 DEF LookForCancel, NoList
  <2>3. owner = "build"
    BY <1>8, JobZero DEF LookForCancel, Quiet
  <2>4. QED
    BY <1>8, <2>1, <2>2, <2>3 DEF LookForCancel
<1>9. CASE Cancel \/ CancelBuild \/ CancelEnds
  BY <1>9 DEF Cancel, CancelBuild, CancelEnds
<1>10. CASE Compressed \/ UNCHANGED vars
  BY <1>10 DEF Compressed, vars
<1>11. QED
  BY <1>1, <1>2, <1>3, <1>4, <1>5, <1>6, <1>7, <1>8, <1>9, <1>10 DEF Next

-----------------------------------------------------------------------------
(* A list that is handled stays so.                                        *)
LEMMA HandledStays ==
  ASSUME HInv, NEW j \in Jobs, Job(j), NEW k \in 1 .. Len(stack), Handled(k)
  PROVE  Handled(k)'
<1> USE DEF HInv
<1>1. stack' = stack /\ stack[k] \in Radixes
  BY JobFrame DEF TableTypeOK
<1>2. CASE NullAt(stack[k])
  <2>1. NullAt(stack[k])'
    BY <1>1, <1>2, JobFrame DEF NullAt
  <2>2. QED
    BY <2>1 DEF Handled
<1>3. ASSUME NEW i \in Jobs, i # j, Taking(i), pos[i] = k - 1
      PROVE  Handled(k)'
  <2>1. Taking(i)' /\ pos'[i] = k - 1
    BY <1>3, JobFrame DEF Taking
  <2>2. QED
    BY <2>1 DEF Handled
<1>4. CASE Taking(j) /\ pos[j] = k - 1
  <2>1. CASE TakeCount(j)
    <3>1. Taking(j)' /\ pos'[j] = k - 1
      BY <2>1, <1>4 DEF TakeCount, Taking, Go, TableTypeOK, tableVars
    <3>2. QED
      BY <3>1 DEF Handled
  <2>2. CASE TakeHead(j)
    <3>1. Radix(j) = stack[k]
      BY <1>4 DEF Radix
    <3>2. list_heads'[stack[k]].head = NullLink
      BY <2>2, <3>1, <1>1 DEF TakeHead, TableTypeOK, HeadType
    <3>3. NullAt(stack[k])'
      BY <3>2, <1>1 DEF NullAt
    <3>4. QED
      BY <3>3 DEF Handled
  <2>3. TakeCount(j) \/ TakeHead(j)
    BY <1>4 DEF Job, Load, Increment, Store, RecurseList, Taking
  <2>4. QED
    BY <2>1, <2>2, <2>3
<1>5. QED
  BY <1>2, <1>3, <1>4 DEF Handled

(* A job that has just got its index is on its way to that list.           *)
LEMMA NowTaking ==
  ASSUME HInv, NEW j \in Jobs, NEW k \in 1 .. Len(stack), Job(j),
         pc'[j] = "count", pos'[j] = k - 1
  PROVE  Handled(k)'
BY DEF Handled, Taking

(* The steps of a job that do not touch the index.                         *)
LEMMA OtherIndexStep ==
  ASSUME HInv, NEW j \in Jobs, Load(j) \/ TakeCount(j) \/ TakeHead(j) \/ RecurseList(j)
  PROVE  BelowIndex' /\ BelowRead' /\ LeftLoop'
<1> USE DEF HInv, tableVars, jobVars, ownerVars, cancelVars
<1>1. Job(j)
  BY DEF Job
<1>2. /\ owner = "build" /\ owner' = owner /\ stack' = stack
      /\ st_index' = st_index /\ pos' = pos
  BY <1>1, JobFrame DEF Load, TakeCount, TakeHead, RecurseList
<1>3. \A k \in 1 .. Len(stack) : Handled(k) => Handled(k)'
  BY <1>1, HandledStays
<1>4. \A k \in 1 .. Len(stack) : NullAt(stack[k]) => NullAt(stack[k])'
  <2>1. \A k \in 1 .. Len(stack) : stack[k] \in Radixes
    BY DEF TableTypeOK
  <2>2. QED
    BY <1>1, <1>2, <2>1, JobFrame DEF NullAt
<1>5. /\ pc'[j] # "store"
      /\ pc'[j] = "done" => j # 0
      /\ pc'[j] = "last" => st_index >= Len(stack)
  BY DEF Load, TakeCount, TakeHead, RecurseList, Go, Leave, TableTypeOK, end_index
<1>6. \A i \in Jobs : i # j => pc'[i] = pc[i]
  BY <1>1, JobFrame
<1>7. BelowIndex'
  BY <1>2, <1>3 DEF BelowIndex, Building
<1>8. BelowRead'
  BY <1>2, <1>4, <1>5, <1>6 DEF BelowRead
<1>9. LeftLoop'
  BY <1>2, <1>3, <1>5, <1>6, JobZero DEF LeftLoop
<1>10. QED
  BY <1>7, <1>8, <1>9

(* What one job does to the index, when there are others.                  *)
LEMMA SharedIndexStep ==
  ASSUME HInv, NEW j \in Jobs, Increment(j), ~Alone
  PROVE  BelowIndex' /\ BelowRead' /\ LeftLoop'
<1> USE DEF HInv, tableVars, jobVars, ownerVars, cancelVars
<1>1. Job(j)
  BY DEF Job
<1>2. owner = "build" /\ owner' = owner /\ stack' = stack /\ block' = block
  BY <1>1, JobFrame
<1>3. \A k \in 1 .. Len(stack) : Handled(k) => Handled(k)'
  BY <1>1, HandledStays
<1>4. st_index' = st_index + 1 /\ pos'[j] = st_index /\ st_index \in Nat /\ Len(stack) \in Nat
  BY DEF Increment, TableTypeOK
<1>5. /\ pc'[j] = IF st_index < Len(stack) THEN "count" ELSE IF j = 0 THEN "last" ELSE "done"
  BY DEF Increment, Go, Leave, TableTypeOK, end_index
<1>6. \A i \in Jobs : i # j => pc'[i] = pc[i]
  BY <1>1, JobFrame
<1>7. BelowIndex'
  <2>1. CASE st_index >= CancelIndex
    BY <2>1, <1>4, CancelIndexBeyond DEF BelowIndex
  <2>2. CASE \A k \in 1 .. Len(stack) : k <= st_index => Handled(k)
    <3>1. \A k \in 1 .. Len(stack) : k = st_index + 1 => Handled(k)'
      BY <1>1, <1>4, <1>5, NowTaking
    <3>2. \A k \in 1 .. Len(stack) : k <= st_index + 1 => Handled(k)'
      BY <2>2, <3>1, <1>3, <1>4
    <3>3. QED
      BY <3>2, <1>2, <1>4 DEF BelowIndex
  <2>3. QED
    BY <2>1, <2>2, <1>2 DEF BelowIndex, Building
<1>8. BelowRead'
  <2>1. \A i \in Jobs : pc'[i] # "store"
    BY <1>5, <1>6 DEF Quiet
  <2>2. QED
    BY <2>1 DEF BelowRead
<1>9. LeftLoop'
  BY <1>2, <1>3, <1>4, <1>5, <1>6, JobZero DEF LeftLoop
<1>10. QED
  BY <1>7, <1>8, <1>9

(* The job that is alone reads the index,                                  *)
LEMMA AloneIncrementStep ==
  ASSUME HInv, NEW j \in Jobs, Increment(j), Alone
  PROVE  BelowIndex' /\ BelowRead' /\ LeftLoop'
<1> USE DEF HInv, tableVars, jobVars, ownerVars, cancelVars
<1>1. Job(j)
  BY DEF Job
<1>2. owner = "build" /\ owner' = owner /\ stack' = stack
  BY <1>1, JobFrame
<1>3. \A k \in 1 .. Len(stack) : Handled(k) => Handled(k)'
  BY <1>1, HandledStays
<1>4. /\ st_index' = st_index /\ pos'[j] = st_index /\ pc'[j] = "store"
      /\ list_heads' = list_heads
  BY DEF Increment, Go, TableTypeOK
<1>5. j = 0 /\ \A i \in Jobs : i # j => pc[i] = "done" /\ pc'[i] = "done"
  BY <1>1, <1>2, JobFrame DEF Increment, Quiet
<1>6. BelowIndex'
  BY <1>2, <1>3, <1>4 DEF BelowIndex, Building
<1>7. BelowRead'
  <2>1. \A i \in Jobs : ~Taking(i)
    BY <1>5 DEF Increment, Taking
  <2>2. \/ st_index >= CancelIndex
        \/ \A k \in 1 .. Len(stack) : k <= st_index => NullAt(stack[k])
    BY <2>1, <1>2 DEF BelowIndex, Building, Handled
  <2>3. QED
    BY <2>2, <1>2, <1>4, <1>5 DEF BelowRead, NullAt
<1>8. LeftLoop'
  BY <1>4, <1>5 DEF LeftLoop
<1>9. QED
  BY <1>6, <1>7, <1>8

(* and writes it back, one higher.                                         *)
LEMMA StoreStep ==
  ASSUME HInv, NEW j \in Jobs, Store(j)
  PROVE  BelowIndex' /\ BelowRead' /\ LeftLoop'
<1> USE DEF HInv, tableVars, jobVars, ownerVars, cancelVars
<1>1. Job(j)
  BY DEF Job
<1>2. owner = "build" /\ owner' = owner /\ stack' = stack
  BY <1>1, JobFrame
<1>3. /\ st_index' = pos[j] + 1 /\ pos' = pos /\ list_heads' = list_heads
      /\ pos[j] \in Nat /\ Len(stack) \in Nat
  BY DEF Store, TableTypeOK
<1>4. /\ j = 0
      /\ pc'[j] = IF pos[j] < Len(stack) THEN "count" ELSE "last"
      /\ \A i \in Jobs : i # j => pc'[i] = "done"
  <2>1. j = 0 /\ Alone
    BY DEF Store, Quiet
  <2>2. QED
    BY <2>1, <1>1, <1>2, JobFrame DEF Store, Go, Leave, TableTypeOK, end_index, Quiet
<1>5. BelowIndex'
  <2>1. CASE pos[j] >= CancelIndex
    BY <2>1, <1>3, CancelIndexBeyond DEF BelowIndex
  <2>2. CASE \A k \in 1 .. Len(stack) : k <= pos[j] => NullAt(stack[k])
    <3>1. \A k \in 1 .. Len(stack) : k <= pos[j] => Handled(k)'
      BY <2>2, <1>2, <1>3 DEF Handled, NullAt
    <3>2. \A k \in 1 .. Len(stack) : k = pos[j] + 1 => Handled(k)'
      BY <1>1, <1>3, <1>4, NowTaking
    <3>3. \A k \in 1 .. Len(stack) : k <= pos[j] + 1 => Handled(k)'
      BY <3>1, <3>2, <1>3
    <3>4. QED
      BY <3>3, <1>2, <1>3 DEF BelowIndex
  <2>3. QED
    BY <2>1, <2>2 DEF Store, BelowRead
<1>6. BelowRead'
  BY <1>4 DEF BelowRead
<1>7. LeftLoop'
  BY <1>2, <1>3, <1>4 DEF LeftLoop
<1>8. QED
  BY <1>5, <1>6, <1>7

LEMMA IndexStep ==
  ASSUME HInv, [Next]_vars
  PROVE  BelowIndex' /\ BelowRead' /\ LeftLoop'
<1> USE DEF HInv, Building
<1> USE DEF tableVars, jobVars, ownerVars, cancelVars
<1>1. CASE Begin \/ ResetIncompleteBuild \/ Encode
  BY <1>1 DEF Begin, ResetIncompleteBuild, Encode, BelowIndex, BelowRead, LeftLoop, Quiet
<1>2. CASE InitTable
  <2>1. \A k \in 1 .. Len(stack') : ~(k <= st_index')
    BY <1>2 DEF InitTable
  <2>2. QED
    BY <1>2, <2>1 DEF InitTable, BelowIndex, BelowRead, LeftLoop, Quiet
<1>3. CASE AddRange
  <2>1. ThreadsOf(block) \in 1 .. MaxThreads
    BY <1>3, TableAssumption DEF AddRange, TableTypeOK
  <2>2. pc'[0] = "load" /\ \A j \in Jobs : pc'[j] \in {"load", "done"}
    BY <1>3, <2>1, JobZero DEF AddRange
  <2>3. \A k \in 1 .. Len(stack) : Handled(k) => Handled(k)'
    BY <1>3 DEF AddRange, Handled, NullAt, Quiet, Taking
  <2>4. QED
    BY <1>3, <2>2, <2>3 DEF AddRange, BelowIndex, BelowRead, LeftLoop
<1>4. CASE WaitAll
  BY <1>4 DEF WaitAll, BelowIndex, BelowRead, LeftLoop
<1>5. ASSUME NEW j \in Jobs, Job(j)
      PROVE  BelowIndex' /\ BelowRead' /\ LeftLoop'
  BY <1>5, OtherIndexStep, SharedIndexStep, AloneIncrementStep, StoreStep DEF Job
<1>6. CASE LookForCancel
  <2>1. owner = "build" /\ owner' = owner /\ stack' = stack /\ st_index' = st_index /\ pos' = pos
    BY <1>6, JobZero DEF LookForCancel, Quiet
  <2>2. /\ \A i \in Jobs : Taking(i) => Taking(i)'
        /\ \A i \in Jobs : pc'[i] = "store" => pc[i] = "store"
        /\ pc'[0] = "done"
    BY <1>6, JobZero DEF LookForCancel, Go, TableTypeOK, Taking
  <2>3. \A k \in 1 .. Len(stack) : stack[k] \in Radixes
    BY DEF TableTypeOK
  <2>4. \A k \in 1 .. Len(stack) : NullAt(stack[k]) => NullAt(stack[k])'
    BY <1>6, <2>1, <2>3 DEF LookForCancel, NullAt, NoList
  <2>5. \A k \in 1 .. Len(stack) : Handled(k) => Handled(k)'
    BY <2>1, <2>2, <2>4 DEF Handled
  <2>6. BelowIndex' /\ BelowRead'
    BY <2>1, <2>2, <2>4, <2>5 DEF BelowIndex, BelowRead
  <2>7. \A k \in 1 .. Len(stack) : Handled(k)'
    <3>1. CASE st_index >= CancelIndex
      <4>1. \A k \in 1 .. Len(stack) : NullAt(stack[k])'
        BY <1>6, <3>1, <2>1, <2>3 DEF LookForCancel, NullAt, NoList
      <4>2. QED
        BY <4>1 DEF Handled
    <3>2. CASE \A k \in 1 .. Len(stack) : k <= st_index => Handled(k)
      <4>1. st_index >= Len(stack) /\ st_index \in Nat /\ Len(stack) \in Nat
        BY <1>6, <2>1 DEF LookForCancel, LeftLoop, TableTypeOK
      <4>2. QED
        BY <3>2, <4>1, <2>5
    <3>3. QED
      BY <3>1, <3>2, <2>1 DEF BelowIndex
  <2>8. QED
    BY <2>1, <2>2, <2>6, <2>7 DEF LeftLoop
<1>7. CASE Cancel \/ CancelEnds
  BY <1>7 DEF Cancel, CancelEnds, BelowIndex, BelowRead, LeftLoop, Handled, NullAt, Taking
<1>8. CASE CancelBuild
  <2>1. st_index' >= CancelIndex /\ st_index' >= st_index
    BY <1>8, CancelIndexBeyond DEF CancelBuild, TableTypeOK
  <2>2. st_index \in Nat /\ st_index' \in Nat /\ Len(stack) \in Nat
    BY <1>8, CancelIndexBeyond DEF CancelBuild, TableTypeOK
  <2>3. BelowIndex' /\ BelowRead'
    BY <1>8, <2>1 DEF CancelBuild, BelowIndex, BelowRead, NullAt
  <2>4. LeftLoop'
    BY <1>8, <2>1, <2>2 DEF CancelBuild, LeftLoop, Handled, NullAt, Taking
  <2>5. QED
    BY <2>3, <2>4
<1>9. CASE Compressed \/ UNCHANGED vars
  BY <1>9 DEF Compressed, vars, BelowIndex, BelowRead, LeftLoop, Handled, NullAt, Taking
<1>10. QED
  BY <1>1, <1>2, <1>3, <1>4, <1>5, <1>6, <1>7, <1>8, <1>9 DEF Next

LEMMA InitHInv == ASSUME Init PROVE HInv
<1>1. TableTypeOK
  BY TableAssumption DEF Init, TableTypeOK, JobPC, HeadType, NoList
<1>2. Quiet /\ ClearOutside /\ Listed /\ InFlight /\ BelowIndex /\ BelowRead /\ LeftLoop
  BY DEF Init, Quiet, ClearOutside, Listed, InFlight, BelowIndex, BelowRead, LeftLoop,
         Building, NullAt, NoList, Taking
<1>3. QED
  BY <1>1, <1>2 DEF HInv

(* All the parts together are an inductive invariant.                      *)
THEOREM ListsInvariant == Spec => []HInv
<1>1. Init => HInv
  BY InitHInv
<1>2. HInv /\ [Next]_vars => HInv'
  BY TypeStep, QuietStep, ListsStep, IndexStep DEF HInv
<1>3. QED
  BY <1>1, <1>2, PTL DEF Spec

(* No block is begun with a list left over from the one before, whether    *)
(* its build came to its end or was canceled, however many threads took    *)
(* the lists and wherever the cancel fell among their steps.               *)
THEOREM HeadsAreClear == Spec => []HeadsClear
<1>1. HInv => HeadsClear
  BY DEF HInv, ClearOutside, HeadsClear, Building, NullAt
<1>2. QED
  BY <1>1, ListsInvariant, PTL

-----------------------------------------------------------------------------
(* The jobs that left are at most MaxThreads, and one more when another    *)
(* leaves.                                                                 *)
LEMMA LeftBounds ==
  /\ IsFiniteSet(Left)
  /\ Cardinality(Left) \in Nat
  /\ Cardinality(Left) <= MaxThreads
<1>1. IsFiniteSet(Jobs) /\ Cardinality(Jobs) = MaxThreads
  BY TableAssumption, FS_Interval DEF Jobs
<1>2. Left \subseteq Jobs
  BY DEF Left
<1>3. QED
  BY <1>1, <1>2, FS_Subset, FS_CardinalityType

LEMMA LeftGrows ==
  ASSUME HInv, NEW j \in Jobs, Job(j)
  PROVE  /\ Cardinality(Left') \in Nat
         /\ Cardinality(Left') >= Cardinality(Left)
         /\ pc'[j] \in {"last", "done"} => Cardinality(Left') = Cardinality(Left) + 1
<1> USE DEF HInv
<1>1. j \notin Left
  BY DEF Left, Job, Load, Increment, Store, TakeCount, TakeHead, RecurseList
<1>2. \A i \in Jobs : i # j => pc'[i] = pc[i]
  BY JobFrame
<1>3. CASE pc'[j] \in {"last", "done"}
  <2>1. Left' = Left \cup {j}
    BY <1>1, <1>2, <1>3 DEF Left
  <2>2. QED
    BY <1>1, <1>3, <2>1, LeftBounds, FS_AddElement
<1>4. CASE pc'[j] \notin {"last", "done"}
  <2>1. Left' = Left
    BY <1>1, <1>2, <1>4 DEF Left
  <2>2. QED
    BY <1>4, <2>1, LeftBounds
<1>5. QED
  BY <1>3, <1>4

LEMMA JobBoundStep ==
  ASSUME HInv, IndexBound, NEW j \in Jobs, Job(j)
  PROVE  IndexBound'
<1> USE DEF HInv, tableVars, jobVars, ownerVars, cancelVars
<1>1. owner = "build" /\ owner' = owner /\ stack' = stack /\ cancel' = cancel
  BY JobFrame
<1>2. \A i \in Jobs : i # j => pc'[i] = pc[i] /\ pos'[i] = pos[i]
  BY JobFrame
<1>3. /\ st_index \in Nat /\ Len(stack) \in Nat /\ Cardinality(Left) \in Nat
      /\ \A i \in Jobs : pos[i] \in Nat
  BY LeftBounds DEF TableTypeOK
<1>4. SUFFICES ASSUME cancel # "moved"
               PROVE  /\ st_index' <= Len(stack) + Cardinality(Left')
                      /\ \A i \in Jobs : pc'[i] = "store" => pos'[i] <= Len(stack) + Cardinality(Left')
  BY <1>1 DEF IndexBound
<1>5. /\ st_index <= Len(stack) + Cardinality(Left)
      /\ \A i \in Jobs : pc[i] = "store" => pos[i] <= Len(stack) + Cardinality(Left)
  BY <1>1, <1>4 DEF IndexBound
<1>6. /\ Cardinality(Left') \in Nat
      /\ Cardinality(Left') >= Cardinality(Left)
      /\ pc'[j] \in {"last", "done"} => Cardinality(Left') = Cardinality(Left) + 1
  BY LeftGrows
<1>7. \A i \in Jobs : i # j /\ pc'[i] = "store" => pos'[i] <= Len(stack) + Cardinality(Left')
  BY <1>2, <1>3, <1>5, <1>6
<1>8. CASE Load(j) \/ TakeCount(j) \/ TakeHead(j) \/ RecurseList(j)
  <2>1. st_index' = st_index /\ pc'[j] # "store"
    BY <1>8 DEF Load, TakeCount, TakeHead, RecurseList, Go, Leave, TableTypeOK
  <2>2. QED
    BY <2>1, <1>3, <1>5, <1>6, <1>7
<1>9. CASE Increment(j) /\ Alone
  <2>1. st_index' = st_index /\ pos'[j] = st_index
    BY <1>9 DEF Increment, TableTypeOK
  <2>2. QED
    BY <2>1, <1>3, <1>5, <1>6, <1>7
<1>10. CASE Increment(j) /\ ~Alone
  <2>1. st_index' = st_index + 1
    BY <1>10 DEF Increment
  <2>2. pc'[j] = IF st_index < Len(stack) THEN "count" ELSE IF j = 0 THEN "last" ELSE "done"
    BY <1>10 DEF Increment, Go, Leave, TableTypeOK, end_index
  <2>3. st_index' <= Len(stack) + Cardinality(Left')
    BY <2>1, <2>2, <1>3, <1>5, <1>6
  <2>4. QED
    BY <2>2, <2>3, <1>7
<1>11. CASE Store(j)
  <2>1. st_index' = pos[j] + 1 /\ pos[j] <= Len(stack) + Cardinality(Left)
    BY <1>11, <1>5 DEF Store
  <2>2. pc'[j] = IF pos[j] < Len(stack) THEN "count" ELSE IF j = 0 THEN "last" ELSE "done"
    BY <1>11 DEF Store, Go, Leave, TableTypeOK, end_index
  <2>3. st_index' <= Len(stack) + Cardinality(Left')
    BY <2>1, <2>2, <1>3, <1>5, <1>6
  <2>4. QED
    BY <2>2, <2>3, <1>7
<1>12. QED
  BY <1>8, <1>9, <1>10, <1>11 DEF Job

LEMMA CanceledStep ==
  ASSUME HInv, CInv, [Next]_vars
  PROVE  CInv'
<1> USE DEF CInv, HInv, Building
<1> USE DEF tableVars, jobVars, ownerVars, cancelVars
<1>1. CASE Begin \/ WaitAll \/ Encode \/ ResetIncompleteBuild
  BY <1>1 DEF Begin, WaitAll, Encode, ResetIncompleteBuild, StackBound, IndexBound,
              FlagByCaller, CanceledByCaller
<1>2. CASE InitTable
  <2>1. \A r \in Radixes : NullAt(r)
    BY <1>2 DEF InitTable, ClearOutside
  <2>2. Len(stack') <= Cardinality(Radixes)
    BY <1>2, <2>1, FreshFacts DEF InitTable
  <2>3. QED
    BY <1>2, <2>2 DEF InitTable, StackBound, IndexBound, FlagByCaller, CanceledByCaller
<1>3. CASE AddRange
  <2>1. \A j \in Jobs : pc'[j] # "store"
    BY <1>3 DEF AddRange
  <2>2. Len(stack) \in Nat /\ Cardinality(Left') \in Nat
    <3>1. Left' \subseteq Jobs /\ IsFiniteSet(Jobs)
      BY TableAssumption, FS_Interval DEF Left, Jobs
    <3>2. QED
      BY <3>1, FS_Subset, FS_CardinalityType DEF TableTypeOK
  <2>3. QED
    BY <1>3, <2>1, <2>2 DEF AddRange, StackBound, IndexBound, FlagByCaller, CanceledByCaller
<1>4. ASSUME NEW j \in Jobs, Job(j)
      PROVE  CInv'
  <2>1. IndexBound'
    BY <1>4, JobBoundStep
  <2>2. QED
    BY <1>4, <2>1, JobFrame DEF StackBound, FlagByCaller, CanceledByCaller
<1>5. CASE LookForCancel
  <2>1. owner = "build"
    BY <1>5, JobZero DEF LookForCancel, Quiet
  <2>2. Left' = Left
    BY <1>5, JobZero DEF LookForCancel, Go, TableTypeOK, Left
  <2>3. CanceledByCaller'
    <3>1. CASE st_index >= CancelIndex
      <4>1. /\ Len(stack) <= Cardinality(Radixes) /\ Cardinality(Left) <= MaxThreads
            /\ Len(stack) \in Nat /\ Cardinality(Left) \in Nat /\ st_index \in Nat
            /\ MaxThreads \in Nat
        BY <2>1, LeftBounds, TableAssumption DEF StackBound, TableTypeOK
      <4>2. ~(st_index <= Len(stack) + Cardinality(Left))
        BY <3>1, <4>1, CancelIndexBeyond
      <4>3. cancel = "moved"
        BY <4>2, <2>1 DEF IndexBound
      <4>4. QED
        BY <1>5, <4>3 DEF LookForCancel, CanceledByCaller
    <3>2. QED
      BY <1>5, <3>1 DEF LookForCancel, CanceledByCaller
  <2>4. \A j \in Jobs : pc'[j] = "store" => pc[j] = "store"
    BY <1>5, JobZero DEF LookForCancel, Go, TableTypeOK
  <2>5. IndexBound'
    BY <1>5, <2>1, <2>2, <2>4 DEF LookForCancel, IndexBound
  <2>6. QED
    BY <1>5, <2>3, <2>5 DEF LookForCancel, StackBound, FlagByCaller
<1>6. CASE Cancel
  BY <1>6 DEF Cancel, StackBound, IndexBound, FlagByCaller, CanceledByCaller, Left
<1>7. CASE CancelBuild \/ CancelEnds
  BY <1>7 DEF CancelBuild, CancelEnds, StackBound, IndexBound, FlagByCaller, CanceledByCaller
<1>8. CASE Compressed \/ UNCHANGED vars
  BY <1>8 DEF Compressed, vars, StackBound, IndexBound, FlagByCaller, CanceledByCaller, Left
<1>9. QED
  BY <1>1, <1>2, <1>3, <1>4, <1>5, <1>6, <1>7, <1>8 DEF Next

(* Compression says it was canceled only if the caller canceled it: with   *)
(* the index of each thread that found no list counted,                    *)
(* RADIX_CANCEL_INDEX is out of reach of any number of threads.            *)
THEOREM CanceledOnlyByCaller == Spec => []CanceledByCaller
<1>1. Init => CInv
  BY DEF Init, CInv, StackBound, IndexBound, FlagByCaller, CanceledByCaller, Building
<1>2. HInv /\ CInv /\ [Next]_vars => CInv'
  BY CanceledStep
<1>3. CInv => CanceledByCaller
  BY DEF CInv
<1>4. QED
  BY <1>1, <1>2, <1>3, ListsInvariant, PTL DEF Spec
=============================================================================
