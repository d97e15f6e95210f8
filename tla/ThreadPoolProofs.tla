-------------------------- MODULE ThreadPoolProofs --------------------------
(***************************************************************************)
(* Proofs about ThreadPool, for any set of workers, any functions and any  *)
(* job ranges.                                                             *)
(***************************************************************************)
EXTENDS ThreadPool, FiniteSetTheorems, TLAPS

Up == cpc \in {"ready", "waiting", "woken", "timedWait", "timedWoken"}

(* numThreadsBusy counts the workers between popping a job and returning.  *)
BusyCount == numThreadsBusy = Cardinality(Active)

(* What an active worker holds is a job of the range, popped and not over. *)
ActiveJobs ==
  \A w \in Active :
    /\ <<function, job[w]>> \in batch
    /\ wpc[w] = "running" => ran[w] = function

(* While the pool is up, a job of the range has ended, runs or is queued.  *)
Accounted ==
  Up => /\ \A x \in batch : \/ x \in finished
                            \/ \E w \in Active : x = <<function, job[w]>>
                            \/ \E n \in queueIndex .. queueEnd - 1 : x = <<function, n>>
        /\ \A n \in queueIndex .. queueEnd - 1 : <<function, n>> \in batch
        /\ finished \subseteq batch
        /\ \A x \in finished : x[2] < queueIndex

(* Where the owner is tells whether the pool is shutting down.             *)
Phases ==
  /\ Up => ~shutdown
  /\ cpc = "joining" => shutdown
  /\ cpc = "creating" => ~shutdown /\ queueIndex = 0 /\ queueEnd = 0 /\ Active = {}
  /\ cpc = "none" => threads = {}
  /\ \A w \in Worker : wpc[w] # "none" => w \in threads

(* What the owner was told still holds: nobody else can queue a job.       *)
ToldIdle == told => cpc = "ready" /\ Active = {} /\ QueueEmpty

IInv ==
  /\ TypeOK
  /\ BusyCount /\ ActiveJobs /\ Accounted /\ Phases /\ ToldIdle
  /\ JobsRunOnce /\ NoLostWakeup


-----------------------------------------------------------------------------
LEMMA InitTypeOK == ASSUME Init PROVE TypeOK
<1>1. /\ wpc \in [Worker -> WorkerPC]
      /\ job \in [Worker -> Nat]
      /\ ran \in [Worker -> Function \cup {NoFunction}]
  BY DEF Init, WorkerPC
<1>2. /\ threads \in SUBSET Worker
      /\ function \in Function \cup {NoFunction}
      /\ queueIndex \in Nat /\ queueEnd \in Nat /\ numThreadsBusy \in Int
  BY DEF Init
<1>3. shutdown \in BOOLEAN /\ cpc \in OwnerPC /\ told \in BOOLEAN
  BY DEF Init, OwnerPC
<1>4. batch = {} /\ finished = {}
  BY DEF Init
<1>5. QED
  BY <1>1, <1>2, <1>3, <1>4 DEF TypeOK

(* Every variable keeps its type.                                          *)
THEOREM TypeCorrect == Spec => []TypeOK
<1>1. Init => TypeOK
  BY InitTypeOK
<1>2. TypeOK /\ [Next]_vars => TypeOK'
  <2> SUFFICES ASSUME TypeOK, [Next]_vars PROVE TypeOK'
    OBVIOUS
  <2> USE DEF TypeOK, WorkerPC, OwnerPC
  <2> USE DEF poolVars, workerVars, ownerVars, history
  <2>1. ASSUME NEW w \in Worker, Check(w) PROVE TypeOK'
    BY <2>1 DEF Check, TakeOrWait
  <2>2. ASSUME NEW w \in Worker, Call(w) PROVE TypeOK'
    BY <2>2 DEF Call
  <2>3. ASSUME NEW w \in Worker, Return(w) PROVE TypeOK'
    <3>1. finished' \subseteq (Function \cup {NoFunction}) \X Nat
      BY <2>3 DEF Return
    <3>2. cpc' \in OwnerPC
      BY <2>3 DEF Return, SignalOwner
    <3>3. QED
      BY <2>3, <3>1, <3>2 DEF Return, TakeOrWait
  <2>4. ASSUME NEW w \in Worker, SpuriousWakeWorker(w) PROVE TypeOK'
    BY <2>4 DEF SpuriousWakeWorker
  <2>5. ASSUME NEW w \in Worker, CreateThread(w) PROVE TypeOK'
    BY <2>5 DEF CreateThread
  <2>6. CASE Create
    <3>1. shutdown' \in BOOLEAN /\ told' \in BOOLEAN /\ cpc' \in OwnerPC
      BY <2>6 DEF Create
    <3>2. /\ queueIndex' \in Nat /\ queueEnd' \in Nat /\ numThreadsBusy' \in Int
          /\ function' \in Function \cup {NoFunction}
      BY <2>6 DEF Create
    <3>3. UNCHANGED <<threads, wpc, job, ran, batch, finished>>
      BY <2>6 DEF Create
    <3>4. QED
      BY <3>1, <3>2, <3>3
  <2>7. CASE CreateDone
    BY <2>7 DEF CreateDone
  <2>8. CASE CreateFails \/ Free
    BY <2>8 DEF CreateFails, Free, BeginJoin, WakeWorkers
  <2>9. CASE Joined
    BY <2>9 DEF Joined
  <2>10. ASSUME NEW f \in Function, NEW first \in 0 .. MaxEnd, NEW end \in 0 .. MaxEnd,
                first <= end, AddRange(f, first, end)
         PROVE  TypeOK'
    <3>1. first \in Nat /\ end \in Nat /\ first .. end - 1 \subseteq Nat
      BY MaxEndAssumption
    <3>2. batch' \subseteq (Function \cup {NoFunction}) \X Nat
      BY <2>10, <3>1 DEF AddRange
    <3>3. QED
      BY <2>10, <3>1, <3>2 DEF AddRange, WakeWorkers
  <2>11. CASE \/ WaitAll \/ WaitAllTimed \/ WaitAllTimedReturn
              \/ TimeoutExpires \/ SpuriousWakeOwner \/ IsIdle
    BY <2>11 DEF WaitAll, WaitAllTimed, WaitAllTimedReturn, TimeoutExpires,
                 SpuriousWakeOwner, IsIdle, Busy
  <2>12. CASE UNCHANGED vars
    BY <2>12 DEF vars
  <2>13. QED
    BY <2>1, <2>2, <2>3, <2>4, <2>5, <2>6, <2>7, <2>8, <2>9, <2>10, <2>11, <2>12
       DEF Next, WorkerStep
<1>3. QED
  BY <1>1, <1>2, PTL DEF Spec


-----------------------------------------------------------------------------
(* The workers in a job are finitely many, so the count of them says       *)
(* whether there are any.                                                  *)
LEMMA ActiveFinite ==
  ASSUME TypeOK
  PROVE  /\ IsFiniteSet(Active)
         /\ Cardinality(Active) \in Nat
         /\ Cardinality(Active) = 0 <=> Active = {}
<1>1. Active \subseteq Worker
  BY DEF Active
<1>2. IsFiniteSet(Active)
  BY <1>1, WorkerAssumption, FS_Subset
<1>3. QED
  BY <1>2, FS_CardinalityType, FS_EmptySet

(* A pool that is not busy, and not shutting down, has no worker in a job. *)
LEMMA NotBusyIsQuiet ==
  ASSUME TypeOK, BusyCount, ~shutdown, ~Busy
  PROVE  Active = {} /\ QueueEmpty
<1>1. numThreadsBusy = 0 /\ QueueEmpty
  BY ActiveFinite DEF Busy, BusyCount
<1>2. QED
  BY <1>1, ActiveFinite DEF BusyCount

(* What the head of the loop does to the set of active workers, and what   *)
(* the worker itself holds afterwards.                                     *)
LEMMA TakeOrWaitActive ==
  ASSUME TypeOK, NEW w \in Worker, NEW busy \in Int, TakeOrWait(w, busy),
         busy = Cardinality(Active \ {w})
  PROVE  /\ BusyCount'
         /\ \A v \in Worker : v # w => wpc'[v] = wpc[v] /\ job'[v] = job[v]
         /\ wpc'[w] \in {"exited", "blocked", "popped"}
<1>1. \A v \in Worker : v # w => wpc'[v] = wpc[v] /\ job'[v] = job[v]
  BY DEF TakeOrWait, TypeOK
<1>2. wpc'[w] \in {"exited", "blocked", "popped"}
  BY DEF TakeOrWait, TypeOK
<1>3. IsFiniteSet(Active \ {w})
  BY ActiveFinite, FS_Subset
<1>4. CASE wpc'[w] = "popped"
  <2>1. Active' = (Active \ {w}) \cup {w}
    BY <1>1, <1>4 DEF Active
  <2>2. numThreadsBusy' = busy + 1
    BY <1>4 DEF TakeOrWait, TypeOK
  <2>3. Cardinality(Active') = Cardinality(Active \ {w}) + 1
    BY <2>1, <1>3, FS_AddElement
  <2>4. QED
    BY <1>1, <1>2, <2>2, <2>3 DEF BusyCount
<1>5. CASE wpc'[w] # "popped"
  <2>1. Active' = Active \ {w}
    BY <1>1, <1>2, <1>5 DEF Active
  <2>2. numThreadsBusy' = busy
    BY <1>5 DEF TakeOrWait, TypeOK
  <2>3. QED
    BY <1>1, <1>2, <2>1, <2>2 DEF BusyCount
<1>6. QED
  BY <1>4, <1>5


(* A step that leaves the workers, the queue and the history alone and     *)
(* only moves the owner.                                                   *)
OwnerMoves ==
  /\ UNCHANGED <<function, queueIndex, queueEnd, numThreadsBusy, shutdown,
                 wpc, job, ran, batch, finished, threads>>
  /\ Up /\ Up'
  /\ told' => cpc' = "ready" /\ ~Busy
  /\ cpc' \in {"waiting", "timedWait"} => Busy

LEMMA OwnerMovesKeepsIInv ==
  ASSUME IInv, TypeOK', OwnerMoves
  PROVE  IInv'
<1> USE DEF OwnerMoves
<1>1. Active' = Active
  BY DEF Active
<1>2. BusyCount'
  BY <1>1 DEF IInv, BusyCount
<1>3. ActiveJobs' /\ JobsRunOnce'
  BY <1>1 DEF IInv, ActiveJobs, JobsRunOnce
<1>4. Accounted'
  BY <1>1 DEF IInv, Accounted
<1>5. Phases'
  BY <1>1 DEF IInv, Phases, Up
<1>6. ToldIdle'
  <2>1. ~shutdown
    BY DEF IInv, Phases
  <2>2. told' => Active = {} /\ QueueEmpty
    BY <2>1, NotBusyIsQuiet DEF IInv
  <2>3. QED
    BY <1>1, <2>2 DEF ToldIdle, QueueEmpty
<1>7. NoLostWakeup'
  BY DEF IInv, NoLostWakeup, QueueEmpty, Busy
<1>8. QED
  BY <1>2, <1>3, <1>4, <1>5, <1>6, <1>7 DEF IInv

(* The head of the loop, after the worker's own part of the state is known *)
(* to be out of the way: `ended` is the job it just finished, if any.      *)
LEMMA LoopHeadKeepsIInv ==
  ASSUME IInv, TypeOK', NEW w \in Worker, NEW busy \in Int,
         wpc[w] \in {"check", "running"},
         busy = Cardinality(Active \ {w}),
         TakeOrWait(w, busy),
         UNCHANGED <<threads, function, queueEnd, shutdown, ran, told, batch>>,
         \/ wpc[w] = "check" /\ finished' = finished /\ cpc' = cpc
         \/ /\ wpc[w] = "running"
            /\ finished' = finished \cup {<<ran[w], job[w]>>}
            /\ SignalOwner
  PROVE  IInv'
<1> USE DEF IInv
<1>1. /\ BusyCount'
      /\ \A v \in Worker : v # w => wpc'[v] = wpc[v] /\ job'[v] = job[v]
      /\ wpc'[w] \in {"exited", "blocked", "popped"}
  BY TakeOrWaitActive
<1>2. \/ Active' = Active \ {w} /\ queueIndex' = queueIndex /\ wpc'[w] # "popped"
      \/ /\ Active' = (Active \ {w}) \cup {w} /\ ~shutdown /\ ~QueueEmpty
         /\ wpc'[w] = "popped"
         /\ job'[w] = queueIndex /\ queueIndex' = queueIndex + 1
  BY <1>1 DEF TakeOrWait, Active, TypeOK
<1>3. wpc[w] = "running" => w \in Active /\ <<ran[w], job[w]>> = <<function, job[w]>>
  BY DEF ActiveJobs, Active
<1>4. Up' <=> Up
  BY DEF SignalOwner, Up, TypeOK, OwnerPC
<1>5. \A v \in Active \ {w} : <<function, job[v]>> \notin finished'
  BY <1>3 DEF JobsRunOnce, Active
<1>6. wpc'[w] = "popped" => Up
  <2>1. wpc[w] # "none" /\ threads # {}
    BY DEF Phases
  <2>2. QED
    BY <1>2, <2>1 DEF Phases, QueueEmpty, Up, TypeOK, OwnerPC
<1>7. wpc'[w] = "popped" => /\ <<function, queueIndex>> \in batch
                            /\ <<function, queueIndex>> \notin finished'
  <2> SUFFICES ASSUME wpc'[w] = "popped"
               PROVE  /\ <<function, queueIndex>> \in batch
                      /\ <<function, queueIndex>> \notin finished'
    OBVIOUS
  <2>1. queueIndex \in queueIndex .. queueEnd - 1
    BY <1>2 DEF QueueEmpty, TypeOK
  <2>2. <<function, queueIndex>> \in batch
    BY <1>6, <2>1 DEF Accounted
  <2>3. <<function, queueIndex>> \notin finished
    <3>1. SUFFICES ASSUME <<function, queueIndex>> \in finished PROVE FALSE
      OBVIOUS
    <3>2. <<function, queueIndex>>[2] < queueIndex
      BY <1>6, <3>1 DEF Accounted
    <3>3. QED
      BY <3>2 DEF TypeOK
  <2>4. wpc[w] = "running" => job[w] < queueIndex
    BY <1>3 DEF JobsRunOnce
  <2>5. QED
    BY <1>3, <2>2, <2>3, <2>4 DEF TypeOK
<1>8. ActiveJobs'
  BY <1>1, <1>2, <1>7 DEF ActiveJobs, Active
<1>9. JobsRunOnce'
  <2> SUFFICES ASSUME NEW v \in Active'
               PROVE  /\ <<function, job'[v]>> \notin finished'
                      /\ job'[v] < queueIndex'
                      /\ \A u \in Active' : u # v => job'[u] # job'[v]
    BY DEF JobsRunOnce
  <2>1. \A u \in Active \ {w} : job'[u] = job[u] /\ job[u] < queueIndex /\ job[u] \in Nat
    BY <1>1 DEF JobsRunOnce, Active, TypeOK
  <2>2. v = w => wpc'[w] = "popped" /\ job'[w] = queueIndex
    BY <1>2
  <2>3. v # w => v \in Active \ {w}
    BY <1>2
  <2>4. <<function, job'[v]>> \notin finished'
    BY <2>1, <2>2, <2>3, <1>5, <1>7
  <2>5. job'[v] < queueIndex'
    BY <2>1, <2>2, <2>3, <1>2 DEF TypeOK
  <2>6. ASSUME NEW u \in Active', u # v PROVE job'[u] # job'[v]
    <3>1. u # w => u \in Active \ {w}
      BY <1>2
    <3>2. u = w => job'[u] = queueIndex
      BY <1>2
    <3>3. CASE u # w /\ v # w
      BY <2>1, <2>3, <2>6, <3>1, <3>3 DEF JobsRunOnce
    <3>4. CASE u = w \/ v = w
      BY <2>1, <2>2, <2>3, <2>6, <3>1, <3>2, <3>4 DEF TypeOK
    <3>5. QED
      BY <3>3, <3>4
  <2>7. QED
    BY <2>4, <2>5, <2>6
<1>10. Accounted'
  <2> SUFFICES ASSUME Up
               PROVE  /\ \A x \in batch :
                            \/ x \in finished'
                            \/ \E v \in Active' : x = <<function, job'[v]>>
                            \/ \E n \in queueIndex' .. queueEnd - 1 : x = <<function, n>>
                      /\ \A n \in queueIndex' .. queueEnd - 1 : <<function, n>> \in batch
                      /\ finished' \subseteq batch
                      /\ \A x \in finished' : x[2] < queueIndex'
    BY <1>4 DEF Accounted
  <2>1. ASSUME NEW x \in batch
        PROVE  \/ x \in finished'
               \/ \E v \in Active' : x = <<function, job'[v]>>
               \/ \E n \in queueIndex' .. queueEnd - 1 : x = <<function, n>>
    <3>1. CASE x \in finished
      BY <3>1
    <3>2. CASE \E v \in Active : x = <<function, job[v]>>
      <4>1. PICK v \in Active : x = <<function, job[v]>>
        BY <3>2
      <4>2. v = w => wpc[w] = "running"
        BY DEF Active
      <4>3. v = w => x \in finished'
        BY <4>1, <4>2, <1>3
      <4>4. v # w => v \in Active' /\ job'[v] = job[v]
        BY <1>1, <1>2 DEF Active
      <4>5. QED
        BY <4>1, <4>3, <4>4
    <3>3. CASE \E n \in queueIndex .. queueEnd - 1 : x = <<function, n>>
      <4>1. PICK n \in queueIndex .. queueEnd - 1 : x = <<function, n>>
        BY <3>3
      <4>2. CASE n = queueIndex /\ wpc'[w] = "popped"
        BY <4>1, <4>2, <1>2
      <4>3. CASE ~(n = queueIndex /\ wpc'[w] = "popped")
        <5>1. n \in queueIndex' .. queueEnd - 1
          BY <4>1, <4>3, <1>2 DEF TypeOK
        <5>2. QED
          BY <4>1, <5>1
      <4>4. QED
        BY <4>2, <4>3
    <3>4. QED
      BY <3>1, <3>2, <3>3 DEF Accounted
  <2>2. \A n \in queueIndex' .. queueEnd - 1 : n \in queueIndex .. queueEnd - 1
    BY <1>2 DEF TypeOK
  <2>3. \A n \in queueIndex' .. queueEnd - 1 : <<function, n>> \in batch
    BY <2>2 DEF Accounted
  <2>4. finished' \subseteq batch
    BY <1>3 DEF Accounted, ActiveJobs
  <2>5. \A x \in finished' : x[2] < queueIndex'
    <3>1. \A x \in finished : x[2] \in Nat /\ x[2] < queueIndex
      BY DEF Accounted, TypeOK
    <3>2. wpc[w] = "running" => job[w] < queueIndex /\ job[w] \in Nat
      BY <1>3 DEF JobsRunOnce, TypeOK
    <3>3. <<ran[w], job[w]>>[2] = job[w]
      OBVIOUS
    <3>4. queueIndex' >= queueIndex
      BY <1>2 DEF TypeOK
    <3>5. QED
      BY <3>1, <3>2, <3>3, <3>4 DEF TypeOK
  <2>6. QED
    BY <2>1, <2>3, <2>4, <2>5
<1>11. Phases'
  <2>1. Up' => ~shutdown'
    BY <1>4 DEF Phases
  <2>2. cpc \notin {"waiting", "timedWait"} => cpc' = cpc
    BY DEF SignalOwner, TypeOK, OwnerPC
  <2>3. cpc \in {"waiting", "timedWait"} => Up'
    BY <1>4 DEF Up
  <2>4. cpc' = "joining" => shutdown'
    BY <2>2, <2>3 DEF Phases, Up
  <2>5. cpc' = "creating" =>
          ~shutdown' /\ queueIndex' = 0 /\ queueEnd' = 0 /\ Active' = {}
    <3> SUFFICES ASSUME cpc' = "creating"
                 PROVE  ~shutdown' /\ queueIndex' = 0 /\ queueEnd' = 0 /\ Active' = {}
      OBVIOUS
    <3>1. cpc = "creating"
      BY <2>2, <2>3 DEF Up
    <3>2. wpc'[w] # "popped"
      BY <3>1, <1>6 DEF Up
    <3>3. QED
      BY <3>1, <3>2, <1>2 DEF Phases
  <2>6. cpc' = "none" => threads' = {}
    BY <2>2, <2>3 DEF Phases, Up
  <2>7. \A v \in Worker : wpc'[v] # "none" => v \in threads'
    BY <1>1 DEF Phases
  <2>8. QED
    BY <2>1, <2>4, <2>5, <2>6, <2>7 DEF Phases
<1>12. ToldIdle'
  <2> SUFFICES ASSUME told
               PROVE  cpc' = "ready" /\ Active' = {} /\ QueueEmpty'
    BY DEF ToldIdle
  <2>1. cpc = "ready" /\ Active = {} /\ QueueEmpty
    BY DEF ToldIdle
  <2>2. cpc' = "ready"
    BY <2>1 DEF SignalOwner
  <2>3. wpc'[w] # "popped"
    BY <2>1, <1>2
  <2>4. QED
    BY <2>1, <2>2, <2>3, <1>2 DEF QueueEmpty
<1>13. NoLostWakeup'
  <2>1. ASSUME NEW v \in Worker, wpc'[v] = "blocked" PROVE QueueEmpty' /\ ~shutdown'
    <3>1. CASE v = w
      BY <3>1, <2>1, <1>1 DEF TakeOrWait, QueueEmpty, TypeOK
    <3>2. CASE v # w
      <4>1. wpc[v] = "blocked"
        BY <3>2, <2>1, <1>1
      <4>2. QueueEmpty /\ ~shutdown
        BY <4>1 DEF NoLostWakeup
      <4>3. QED
        BY <4>2, <1>2 DEF QueueEmpty
    <3>3. QED
      BY <3>1, <3>2
  <2>2. ASSUME cpc' \in {"waiting", "timedWait"} PROVE Busy'
    <3>1. wpc[w] = "check" /\ cpc' = cpc
      BY <2>2 DEF SignalOwner, TypeOK, OwnerPC
    <3>2. Busy
      BY <2>2, <3>1 DEF NoLostWakeup
    <3>3. Active \ {w} = Active
      BY <3>1 DEF Active
    <3>4. numThreadsBusy' = numThreadsBusy \/ numThreadsBusy' = numThreadsBusy + 1
      BY <3>3 DEF TakeOrWait, BusyCount
    <3>5. numThreadsBusy >= 0
      BY ActiveFinite DEF BusyCount
    <3>6. ~shutdown /\ ~shutdown'
      BY <3>2 DEF Busy
    <3>7. CASE wpc'[w] = "popped"
      <4>1. numThreadsBusy' = numThreadsBusy + 1
        BY <3>3, <3>7 DEF TakeOrWait, BusyCount, TypeOK
      <4>2. QED
        BY <4>1, <3>5, <3>6 DEF Busy, TypeOK
    <3>8. CASE wpc'[w] # "popped"
      <4>1. queueIndex' = queueIndex
        BY <3>8, <1>2
      <4>2. QueueEmpty' <=> QueueEmpty
        BY <4>1 DEF QueueEmpty
      <4>3. QED
        BY <3>2, <3>4, <3>5, <3>6, <4>2 DEF Busy, TypeOK
    <3>9. QED
      BY <3>7, <3>8
  <2>3. QED
    BY <2>1, <2>2 DEF NoLostWakeup
<1>14. QED
  BY <1>1, <1>8, <1>9, <1>10, <1>11, <1>12, <1>13


(* A worker that wakes up spuriously only goes back to its test.           *)
LEMMA WakeKeepsIInv ==
  ASSUME IInv, TypeOK', NEW w \in Worker, SpuriousWakeWorker(w)
  PROVE  IInv'
<1> USE DEF poolVars, ownerVars, history, SpuriousWakeWorker
<1>1. Active' = Active
  BY DEF Active, IInv, TypeOK
<1>2. BusyCount' /\ ActiveJobs' /\ JobsRunOnce' /\ Accounted'
  BY <1>1 DEF IInv, BusyCount, ActiveJobs, JobsRunOnce, Accounted, Up, TypeOK, Active
<1>3. Phases' /\ ToldIdle'
  BY <1>1 DEF IInv, Phases, ToldIdle, QueueEmpty, Up, TypeOK
<1>4. NoLostWakeup'
  BY DEF IInv, NoLostWakeup, QueueEmpty, Busy, TypeOK
<1>5. QED
  BY <1>2, <1>3, <1>4 DEF IInv

(* The strengthened invariant is inductive.                                *)
LEMMA Invariance == Spec => []IInv
<1>1. Init => IInv
  <2> SUFFICES ASSUME Init PROVE IInv
    OBVIOUS
  <2>1. TypeOK
    BY InitTypeOK
  <2>2. Active = {}
    BY DEF Init, Active
  <2>3. BusyCount
    BY <2>2, FS_EmptySet DEF Init, BusyCount
  <2>4. cpc = "none" /\ told = FALSE /\ shutdown = FALSE
    BY DEF Init
  <2>5. Phases /\ ToldIdle /\ Accounted
    BY <2>2, <2>4 DEF Init, Phases, ToldIdle, Accounted, Up
  <2>6. NoLostWakeup
    BY <2>4 DEF Init, NoLostWakeup
  <2>7. ActiveJobs /\ JobsRunOnce
    BY <2>2 DEF ActiveJobs, JobsRunOnce
  <2>8. QED
    BY <2>1, <2>3, <2>5, <2>6, <2>7 DEF IInv
<1>2. IInv /\ TypeOK' /\ [Next]_vars => IInv'
  <2> SUFFICES ASSUME IInv, TypeOK', [Next]_vars PROVE IInv'
    OBVIOUS
  <2> USE DEF poolVars, workerVars, ownerVars, history
  <2>1. ASSUME NEW w \in Worker, Check(w) PROVE IInv'
    <3>1. Active \ {w} = Active
      BY <2>1 DEF Check, Active
    <3>2. numThreadsBusy = Cardinality(Active \ {w})
      BY <3>1 DEF IInv, BusyCount
    <3>3. numThreadsBusy \in Int
      BY DEF IInv, TypeOK
    <3>4. QED
      BY <2>1, <3>2, <3>3, LoopHeadKeepsIInv DEF Check
  <2>2. ASSUME NEW w \in Worker, Call(w) PROVE IInv'
    <3>1. /\ wpc[w] = "popped"
          /\ wpc' = [wpc EXCEPT ![w] = "running"]
          /\ ran' = [ran EXCEPT ![w] = function]
          /\ UNCHANGED <<threads, function, queueIndex, queueEnd, numThreadsBusy,
                         shutdown, job, cpc, told, batch, finished>>
      BY <2>2 DEF Call
    <3>2. Active' = Active
      BY <3>1 DEF Active, IInv, TypeOK
    <3>3. BusyCount' /\ JobsRunOnce' /\ Accounted'
      BY <3>1, <3>2 DEF IInv, BusyCount, JobsRunOnce, Accounted, Up
    <3>4. ActiveJobs'
      BY <3>1, <3>2 DEF IInv, ActiveJobs, TypeOK
    <3>5. Phases' /\ ToldIdle'
      BY <3>1, <3>2 DEF IInv, Phases, ToldIdle, QueueEmpty, Up, TypeOK
    <3>6. NoLostWakeup'
      BY <3>1 DEF IInv, NoLostWakeup, QueueEmpty, Busy, TypeOK
    <3>7. QED
      BY <3>3, <3>4, <3>5, <3>6 DEF IInv
  <2>3. ASSUME NEW w \in Worker, Return(w) PROVE IInv'
    <3>1. w \in Active
      BY <2>3 DEF Return, Active
    <3>2. Cardinality(Active \ {w}) = numThreadsBusy - 1
      BY <3>1, ActiveFinite, FS_RemoveElement DEF IInv, BusyCount
    <3>3. numThreadsBusy - 1 \in Int
      BY DEF IInv, TypeOK
    <3>4. QED
      BY <2>3, <3>2, <3>3, LoopHeadKeepsIInv DEF Return
  <2>4. ASSUME NEW w \in Worker, SpuriousWakeWorker(w) PROVE IInv'
    BY <2>4, WakeKeepsIInv
  <2>5. ASSUME NEW w \in Worker, CreateThread(w) PROVE IInv'
    <3>1. Active' = Active
      BY <2>5 DEF CreateThread, Active, IInv, TypeOK, Phases
    <3>2. BusyCount' /\ ActiveJobs' /\ JobsRunOnce' /\ Accounted'
      BY <2>5, <3>1 DEF CreateThread, IInv, BusyCount, ActiveJobs, JobsRunOnce,
                        Accounted, Up, Phases
    <3>3. Phases' /\ ToldIdle'
      BY <2>5, <3>1 DEF CreateThread, IInv, Phases, ToldIdle, QueueEmpty, Up, TypeOK
    <3>4. NoLostWakeup'
      BY <2>5 DEF CreateThread, IInv, NoLostWakeup, QueueEmpty, Busy, TypeOK
    <3>5. QED
      BY <3>2, <3>3, <3>4 DEF IInv
  <2>6. CASE Create
    <3>1. Active = {} /\ Active' = {} /\ wpc' = wpc
      BY <2>6 DEF Create, Active, IInv, Phases
    <3>2. BusyCount' /\ ActiveJobs' /\ JobsRunOnce'
      BY <2>6, <3>1, FS_EmptySet DEF Create, BusyCount, ActiveJobs, JobsRunOnce
    <3>3. cpc' = "creating" /\ told' = FALSE /\ shutdown' = FALSE
      BY <2>6 DEF Create, IInv, ToldIdle, TypeOK
    <3>4. Phases' /\ ToldIdle' /\ Accounted'
      BY <2>6, <3>1, <3>3 DEF Create, IInv, Phases, ToldIdle, Accounted, Up
    <3>5. NoLostWakeup'
      BY <2>6, <3>1, <3>3 DEF Create, IInv, NoLostWakeup, Phases
    <3>6. QED
      BY <3>2, <3>4, <3>5 DEF IInv
  <2>7. CASE CreateDone
    <3>1. Active = {} /\ Active' = {} /\ ~shutdown /\ queueIndex = 0 /\ queueEnd = 0
      BY <2>7 DEF CreateDone, Active, IInv, Phases
    <3>2. BusyCount' /\ ActiveJobs' /\ JobsRunOnce'
      BY <2>7, <3>1, FS_EmptySet DEF CreateDone, IInv, BusyCount, ActiveJobs, JobsRunOnce
    <3>3. Accounted'
      BY <2>7, <3>1 DEF CreateDone, Accounted, Up
    <3>4. Phases' /\ ToldIdle'
      BY <2>7, <3>1 DEF CreateDone, IInv, Phases, ToldIdle, QueueEmpty, Up
    <3>5. NoLostWakeup'
      BY <2>7, <3>1 DEF CreateDone, IInv, NoLostWakeup, QueueEmpty, Busy
    <3>6. QED
      BY <3>2, <3>3, <3>4, <3>5 DEF IInv
  <2>8. CASE CreateFails \/ Free
    <3>1. BeginJoin
      BY <2>8 DEF CreateFails, Free
    <3>2. Active' = Active
      BY <3>1 DEF BeginJoin, WakeWorkers, Active
    <3>3. BusyCount' /\ JobsRunOnce' /\ Accounted'
      BY <3>1, <3>2 DEF BeginJoin, IInv, BusyCount, JobsRunOnce, Accounted, Up
    <3>4. ActiveJobs'
      BY <3>1, <3>2 DEF BeginJoin, WakeWorkers, IInv, ActiveJobs, Active
    <3>5. Phases' /\ ToldIdle'
      BY <3>1 DEF BeginJoin, WakeWorkers, IInv, Phases, ToldIdle, Up
    <3>6. NoLostWakeup'
      BY <3>1 DEF BeginJoin, WakeWorkers, NoLostWakeup
    <3>7. QED
      BY <3>3, <3>4, <3>5, <3>6 DEF IInv
  <2>9. CASE Joined
    <3>1. Active = {} /\ Active' = {}
      BY <2>9 DEF Joined, Active, IInv, Phases
    <3>2. BusyCount' /\ ActiveJobs' /\ JobsRunOnce'
      BY <2>9, <3>1 DEF Joined, IInv, BusyCount, ActiveJobs, JobsRunOnce
    <3>3. Phases' /\ ToldIdle' /\ Accounted'
      BY <2>9, <3>1 DEF Joined, IInv, Phases, ToldIdle, Accounted, Up
    <3>4. NoLostWakeup'
      BY <2>9 DEF Joined, NoLostWakeup
    <3>5. QED
      BY <3>2, <3>3, <3>4 DEF IInv
  <2>10. ASSUME NEW f \in Function, NEW first \in 0 .. MaxEnd, NEW end \in 0 .. MaxEnd,
                first <= end, AddRange(f, first, end)
         PROVE  IInv'
    <3>1. Active = {} /\ Active' = {} /\ ~shutdown /\ cpc = "ready" /\ cpc' = "ready"
      BY <2>10 DEF AddRange, WakeWorkers, Active, IInv, ToldIdle, Phases, Up
    <3>2. BusyCount' /\ ActiveJobs' /\ JobsRunOnce'
      BY <2>10, <3>1 DEF AddRange, IInv, BusyCount, ActiveJobs, JobsRunOnce
    <3>3. Accounted'
      BY <2>10 DEF AddRange, Accounted
    <3>4. Phases' /\ ToldIdle'
      BY <2>10, <3>1 DEF AddRange, WakeWorkers, IInv, Phases, ToldIdle, Up
    <3>5. NoLostWakeup'
      BY <2>10, <3>1 DEF AddRange, WakeWorkers, NoLostWakeup
    <3>6. QED
      BY <3>2, <3>3, <3>4, <3>5 DEF IInv
  <2>11. CASE WaitAll \/ WaitAllTimed \/ WaitAllTimedReturn
    <3>1. OwnerMoves
      BY <2>11 DEF WaitAll, WaitAllTimed, WaitAllTimedReturn, OwnerMoves, Up
    <3>2. QED
      BY <3>1, OwnerMovesKeepsIInv
  <2>12. CASE TimeoutExpires \/ SpuriousWakeOwner
    <3>1. told' = FALSE
      BY <2>12 DEF TimeoutExpires, SpuriousWakeOwner, IInv, ToldIdle, TypeOK
    <3>2. OwnerMoves
      BY <2>12, <3>1 DEF TimeoutExpires, SpuriousWakeOwner, OwnerMoves, Up
    <3>3. QED
      BY <3>2, OwnerMovesKeepsIInv
  <2>13. CASE IsIdle
    <3>1. told' => numThreadsBusy = 0 /\ QueueEmpty
      BY <2>13, Zenon DEF IsIdle
    <3>2. numThreadsBusy = 0 /\ QueueEmpty => ~Busy
      BY DEF Busy
    <3>3. /\ UNCHANGED <<function, queueIndex, queueEnd, numThreadsBusy, shutdown,
                         wpc, job, ran, batch, finished, threads>>
          /\ cpc = "ready" /\ cpc' = "ready"
      BY <2>13 DEF IsIdle
    <3>4. OwnerMoves
      BY <3>1, <3>2, <3>3 DEF OwnerMoves, Up
    <3>5. QED
      BY <3>4, OwnerMovesKeepsIInv
  <2>14. CASE UNCHANGED vars
    <3>1. Active' = Active
      BY <2>14 DEF vars, Active
    <3>2. BusyCount' /\ ActiveJobs' /\ JobsRunOnce' /\ Accounted'
      BY <2>14, <3>1 DEF vars, IInv, BusyCount, ActiveJobs, JobsRunOnce, Accounted, Up
    <3>3. Phases' /\ ToldIdle' /\ NoLostWakeup'
      BY <2>14, <3>1 DEF vars, IInv, Phases, ToldIdle, NoLostWakeup, QueueEmpty, Busy, Up
    <3>4. QED
      BY <3>2, <3>3 DEF IInv
  <2>15. QED
    BY <2>1, <2>2, <2>3, <2>4, <2>5, <2>6, <2>7, <2>8, <2>9, <2>10, <2>11, <2>12,
       <2>13, <2>14 DEF Next, WorkerStep
<1>3. QED
  BY <1>1, <1>2, TypeCorrect, PTL DEF Spec

(* A caller that was told the pool is quiet can read what the jobs wrote:  *)
(* they have all ended.                                                    *)
THEOREM WaitAllIsSound == Spec => []WaitAllSound
<1>1. IInv => WaitAllSound
  <2> SUFFICES ASSUME IInv, told PROVE Active = {} /\ finished = batch
    BY DEF WaitAllSound
  <2>1. cpc = "ready" /\ Active = {} /\ QueueEmpty
    BY DEF IInv, ToldIdle
  <2>2. queueIndex .. queueEnd - 1 = {}
    BY <2>1 DEF QueueEmpty, IInv, TypeOK
  <2>3. QED
    BY <2>1, <2>2 DEF IInv, Accounted, Up
<1>2. QED
  BY <1>1, Invariance, PTL

(* Each job is run by one worker, once, and with its own function.         *)
THEOREM EachJobOnce == Spec => []JobsRunAsQueued
<1>1. IInv => JobsRunAsQueued
  BY DEF IInv, ActiveJobs, JobsRunAsQueued, RightFunction, Active
<1>2. QED
  BY <1>1, Invariance, PTL

(* Nobody sleeps on a condition variable that nobody will signal.          *)
THEOREM WakeupsArrive == Spec => []NoLostWakeup
<1>1. IInv => NoLostWakeup
  BY DEF IInv
<1>2. QED
  BY <1>1, Invariance, PTL

-----------------------------------------------------------------------------
(* Once shutdown is announced nothing is taken from the queue any more: of *)
(* the jobs only those that run are let end, and the context is freed when *)
(* none of them is left.                                                   *)
THEOREM ShutdownDrops == Spec => ShutdownDropsQueue
<1> DEFINE Drops == shutdown /\ cpc # "none" =>
                      /\ UNCHANGED <<queueIndex, function>>
                      /\ Active' \subseteq Active
                      /\ cpc' = "none" => Active = {}
<1>1. IInv /\ [Next]_vars => [Drops]_vars
  <2> SUFFICES ASSUME IInv, Next, shutdown, cpc # "none"
               PROVE  /\ UNCHANGED <<queueIndex, function>>
                      /\ Active' \subseteq Active
                      /\ cpc' = "none" => Active = {}
    OBVIOUS
  <2> USE DEF poolVars, workerVars, ownerVars, history
  <2>1. cpc \notin {"ready", "waiting", "woken", "timedWait", "timedWoken", "creating"}
    BY DEF IInv, Phases, Up
  <2>2. cpc = "joining"
    BY <2>1 DEF IInv, TypeOK, OwnerPC
  <2>3. ASSUME NEW w \in Worker, Check(w) \/ Return(w)
        PROVE  UNCHANGED <<queueIndex, function, cpc>> /\ Active' \subseteq Active
    <3>1. wpc' = [wpc EXCEPT ![w] = "exited"] /\ queueIndex' = queueIndex
      BY <2>3 DEF Check, Return, TakeOrWait
    <3>2. UNCHANGED <<function, cpc>>
      BY <2>2, <2>3 DEF Check, Return, SignalOwner
    <3>3. Active' \subseteq Active
      BY <3>1 DEF Active, IInv, TypeOK
    <3>4. QED
      BY <3>1, <3>2, <3>3
  <2>4. ASSUME NEW w \in Worker, Call(w) \/ SpuriousWakeWorker(w)
        PROVE  UNCHANGED <<queueIndex, function, cpc>> /\ Active' \subseteq Active
    BY <2>4 DEF Call, SpuriousWakeWorker, Active, IInv, TypeOK
  <2>5. CASE Joined
    BY <2>5 DEF Joined, Active, IInv, Phases
  <2>6. \/ \E w \in Worker : Check(w) \/ Return(w) \/ Call(w) \/ SpuriousWakeWorker(w)
        \/ Joined
    BY <2>2 DEF Next, WorkerStep, CreateThread, Create, CreateDone, CreateFails, Free,
                AddRange, WaitAll, WaitAllTimed, WaitAllTimedReturn, TimeoutExpires,
                SpuriousWakeOwner, IsIdle
  <2>7. QED
    BY <2>2, <2>3, <2>4, <2>5, <2>6
<1>2. QED
  BY <1>1, Invariance, PTL DEF Spec, ShutdownDropsQueue

-----------------------------------------------------------------------------
(* The pool implements JobPool: the safety part of the promise, step by    *)
(* step.                                                                   *)
todoBar   == IF shutdown THEN {} ELSE {function} \X (queueIndex .. queueEnd - 1)
activeBar == {<<function, job[w]>> : w \in Active}
upBar     == cpc \notin {"none", "creating", "joining"}

(* A pool that is gone has no job left in the queue.                       *)
GoneIsEmpty == cpc = "none" => shutdown \/ QueueEmpty

LEMMA GoneInvariance == Spec => []GoneIsEmpty
<1>1. Init => GoneIsEmpty
  BY DEF Init, GoneIsEmpty, QueueEmpty
<1>2. GoneIsEmpty /\ IInv /\ [Next]_vars => GoneIsEmpty'
  <2> SUFFICES ASSUME GoneIsEmpty, IInv, [Next]_vars, cpc' = "none"
               PROVE  shutdown' \/ QueueEmpty'
    BY DEF GoneIsEmpty
  <2> USE DEF poolVars, workerVars, ownerVars, history
  <2>1. CASE cpc = "none"
    <3>1. QueueEmpty \/ shutdown
      BY <2>1 DEF GoneIsEmpty
    <3>2. Active = {} /\ \A w \in Worker : wpc[w] = "none"
      BY <2>1 DEF IInv, Phases, Active
    <3>3. UNCHANGED <<queueIndex, queueEnd, shutdown>>
      BY <2>1, <3>2 DEF Next, vars, WorkerStep, Check, Call, Return, SpuriousWakeWorker,
           CreateThread, Create, CreateDone, CreateFails, Free, BeginJoin, Joined, AddRange,
           WaitAll, WaitAllTimed, WaitAllTimedReturn, TimeoutExpires, SpuriousWakeOwner, IsIdle
    <3>4. QED
      BY <3>1, <3>3 DEF QueueEmpty
  <2>2. CASE cpc # "none"
    <3>1. Joined
      BY <2>2 DEF Next, vars, WorkerStep, Check, Call, Return, SignalOwner, SpuriousWakeWorker,
           CreateThread, Create, CreateDone, CreateFails, Free, BeginJoin, AddRange,
           WaitAll, WaitAllTimed, WaitAllTimedReturn, TimeoutExpires, SpuriousWakeOwner, IsIdle
    <3>2. QED
      BY <3>1 DEF Joined, IInv, Phases
  <2>3. QED
    BY <2>1, <2>2
<1>3. QED
  BY <1>1, <1>2, Invariance, PTL DEF Spec

(* What a worker at the head of the loop does to the promise: the job it   *)
(* ended, if any, and the one it begins, if any.                           *)
LEMMA LoopHeadIsWork ==
  ASSUME IInv, IInv', NEW w \in Worker, Check(w) \/ Return(w)
  PROVE  \E ended \in SUBSET activeBar, begun \in SUBSET todoBar :
           /\ todoBar' = todoBar \ begun
           /\ activeBar' = (activeBar \ ended) \cup begun
           /\ finished' = finished \cup ended
           /\ UNCHANGED <<told, upBar>>
<1> USE DEF poolVars, workerVars, ownerVars, history
<1> DEFINE mine  == {<<function, job[v]>> : v \in {x \in {w} : wpc[x] = "running"}}
           taken == {<<function, n>> : n \in {k \in {queueIndex} : wpc'[w] = "popped"}}
<1>1. \E busy \in Int : TakeOrWait(w, busy)
  BY DEF Check, Return, IInv, TypeOK
<1>2. /\ wpc[w] \in {"check", "running"}
      /\ UNCHANGED <<function, queueEnd, shutdown, told>>
      /\ upBar' = upBar
  BY DEF Check, Return, SignalOwner, upBar, IInv, TypeOK, OwnerPC
<1>3. /\ \A v \in Worker : v # w => wpc'[v] = wpc[v] /\ job'[v] = job[v]
      /\ wpc'[w] \in {"exited", "blocked", "popped"}
      /\ wpc'[w] = "popped" => /\ ~shutdown /\ ~QueueEmpty
                               /\ job'[w] = queueIndex /\ queueIndex' = queueIndex + 1
      /\ wpc'[w] # "popped" => queueIndex' = queueIndex
  BY <1>1 DEF TakeOrWait, IInv, TypeOK
<1>4. mine \in SUBSET activeBar
  BY DEF activeBar, Active
<1>5. taken \in SUBSET todoBar
  <2>1. CASE wpc'[w] = "popped"
    <3>1. queueIndex \in queueIndex .. queueEnd - 1
      BY <1>3, <2>1 DEF QueueEmpty, IInv, TypeOK
    <3>2. QED
      BY <1>3, <2>1, <3>1 DEF todoBar
  <2>2. CASE wpc'[w] # "popped"
    BY <2>2
  <2>3. QED
    BY <2>1, <2>2
<1>6. todoBar' = todoBar \ taken
  <2>1. CASE wpc'[w] = "popped"
    <3>1. queueIndex' .. queueEnd - 1 = (queueIndex .. queueEnd - 1) \ {queueIndex}
      BY <1>3, <2>1 DEF IInv, TypeOK
    <3>2. taken = {<<function, queueIndex>>}
      BY <2>1
    <3>3. QED
      BY <1>2, <1>3, <2>1, <3>1, <3>2 DEF todoBar
  <2>2. CASE wpc'[w] # "popped"
    BY <1>2, <1>3, <2>2 DEF todoBar
  <2>3. QED
    BY <2>1, <2>2
<1>7. finished' = finished \cup mine
  <2>1. CASE Check(w)
    BY <2>1 DEF Check
  <2>2. CASE Return(w)
    <3>1. wpc[w] = "running" /\ ran[w] = function
      BY <2>2 DEF Return, IInv, ActiveJobs, Active
    <3>2. QED
      BY <2>2, <3>1 DEF Return
  <2>3. QED
    BY <2>1, <2>2
<1>8. activeBar' = (activeBar \ mine) \cup taken
  <2>1. \A v \in Worker : v # w => (v \in Active' <=> v \in Active)
    BY <1>3 DEF Active
  <2>2. w \in Active' <=> wpc'[w] = "popped"
    BY <1>3 DEF Active
  <2>3. w \in Active <=> wpc[w] = "running"
    BY <1>2 DEF Active
  <2>4. \A v \in Active : v # w /\ w \in Active => job[v] # job[w]
    BY DEF IInv, JobsRunOnce
  <2>5. ASSUME NEW x \in activeBar' PROVE x \in (activeBar \ mine) \cup taken
    <3>1. PICK v \in Active' : x = <<function, job'[v]>>
      BY <1>2 DEF activeBar
    <3>2. v \in Worker
      BY DEF Active
    <3>3. CASE v = w
      BY <1>3, <2>2, <3>1, <3>3
    <3>4. CASE v # w
      <4>1. v \in Active /\ x = <<function, job[v]>>
        BY <1>3, <2>1, <3>1, <3>2, <3>4
      <4>2. x \notin mine
        BY <2>3, <2>4, <3>4, <4>1
      <4>3. QED
        BY <4>1, <4>2 DEF activeBar
    <3>5. QED
      BY <3>3, <3>4
  <2>6. ASSUME NEW x \in activeBar, x \notin mine PROVE x \in activeBar'
    <3>1. PICK v \in Active : x = <<function, job[v]>>
      BY <2>6 DEF activeBar
    <3>2. v # w
      BY <2>3, <2>6, <3>1
    <3>3. v \in Active' /\ job'[v] = job[v]
      BY <1>3, <2>1, <3>2 DEF Active
    <3>4. QED
      BY <1>2, <3>1, <3>3 DEF activeBar
  <2>7. taken \subseteq activeBar'
    BY <1>2, <1>3, <2>2 DEF activeBar
  <2>8. QED
    BY <2>5, <2>6, <2>7
<1> HIDE DEF mine, taken
<1>9. QED
  BY <1>2, <1>4, <1>5, <1>6, <1>7, <1>8

(* Every step of the pool is a step of JobPool under the mapping Promise,  *)
(* or changes nothing that JobPool has: the mutex, the condition variables *)
(* and the function that is read late are not to be seen from outside.     *)
THEOREM ImplementsPromise == Spec => Promise!Safety
<1> USE DEF poolVars, workerVars, ownerVars, history
<1> DEFINE Stutters == UNCHANGED <<todoBar, activeBar, finished, told, upBar>>
<1>1. Init => Promise!Init
  <2> SUFFICES ASSUME Init PROVE Promise!Init
    OBVIOUS
  <2>1. queueIndex .. queueEnd - 1 = {} /\ Active = {}
    BY DEF Init, Active
  <2>2. QED
    BY <2>1 DEF Init, Promise!Init
<1>2. IInv /\ IInv' /\ GoneIsEmpty /\ [Next]_vars => [Promise!Next]_(Promise!vars)
  <2> SUFFICES ASSUME IInv, IInv', GoneIsEmpty, [Next]_vars, ~ Stutters
               PROVE  Promise!Next
    BY DEF Promise!vars, todoBar, activeBar, upBar
  <2>1. ASSUME NEW w \in Worker, Check(w) \/ Return(w) PROVE Promise!Next
    <3>1. PICK ended \in SUBSET activeBar, begun \in SUBSET todoBar :
            /\ todoBar' = todoBar \ begun
            /\ activeBar' = (activeBar \ ended) \cup begun
            /\ finished' = finished \cup ended
            /\ UNCHANGED <<told, upBar>>
      BY <2>1, LoopHeadIsWork
    <3>2. ended \cup begun # {}
      BY <3>1
    <3>3. QED
      BY <3>1, <3>2
         DEF Promise!Next, Promise!SomeWork, Promise!Work, todoBar, activeBar, upBar
  <2>2. ASSUME NEW w \in Worker, Call(w) \/ SpuriousWakeWorker(w) PROVE FALSE
    <3>1. Active' = Active
      BY <2>2 DEF Call, SpuriousWakeWorker, Active, IInv, TypeOK
    <3>2. UNCHANGED <<function, queueIndex, queueEnd, shutdown, job, cpc, told, finished>>
      BY <2>2 DEF Call, SpuriousWakeWorker
    <3>3. todoBar' = todoBar /\ activeBar' = activeBar /\ upBar' = upBar
      BY <3>1, <3>2 DEF todoBar, activeBar, upBar
    <3>4. QED
      BY <3>2, <3>3
  <2>3. ASSUME NEW w \in Worker, CreateThread(w) PROVE FALSE
    <3>1. Active' = Active
      BY <2>3 DEF CreateThread, Active, IInv, TypeOK, Phases
    <3>2. UNCHANGED <<function, queueIndex, queueEnd, shutdown, job, cpc, told, finished>>
      BY <2>3 DEF CreateThread
    <3>3. todoBar' = todoBar /\ activeBar' = activeBar /\ upBar' = upBar
      BY <3>1, <3>2 DEF todoBar, activeBar, upBar
    <3>4. QED
      BY <3>2, <3>3
  <2>4. CASE Create
    <3>1. Active = {} /\ Active' = {} /\ told = FALSE
      BY <2>4 DEF Create, Active, IInv, Phases, ToldIdle, TypeOK
    <3>2. todoBar = {} /\ todoBar' = {}
      BY <2>4 DEF Create, todoBar, GoneIsEmpty, QueueEmpty, IInv, TypeOK
    <3>3. QED
      BY <2>4, <3>1, <3>2 DEF Create, activeBar, upBar
  <2>5. CASE CreateDone
    <3>1. Active = {} /\ Active' = {} /\ todoBar = {} /\ todoBar' = {}
      BY <2>5 DEF CreateDone, Active, IInv, Phases, todoBar
    <3>2. QED
      BY <2>5, <3>1 DEF CreateDone, Promise!Next, Promise!Start, todoBar
  <2>6. CASE CreateFails \/ Free
    <3>1. BeginJoin
      BY <2>6 DEF CreateFails, Free
    <3>2. Active' = Active
      BY <3>1 DEF BeginJoin, WakeWorkers, Active
    <3>3. QED
      BY <3>1, <3>2 DEF BeginJoin, Promise!Next, Promise!Stop
  <2>7. CASE Joined
    <3>1. Active = {} /\ Active' = {} /\ shutdown
      BY <2>7 DEF Joined, Active, IInv, Phases
    <3>2. QED
      BY <2>7, <3>1 DEF Joined, todoBar, activeBar, upBar
  <2>8. ASSUME NEW f \in Function, NEW first \in 0 .. MaxEnd, NEW end \in 0 .. MaxEnd,
               AddRange(f, first, end)
        PROVE  Promise!Next
    <3>1. Active = {} /\ Active' = {} /\ ~shutdown /\ ~shutdown'
      BY <2>8 DEF AddRange, WakeWorkers, Active, IInv, ToldIdle, Phases, Up
    <3>2. {f} \X (first .. end - 1) \in SUBSET (Function \X (0 .. MaxEnd - 1))
      BY MaxEndAssumption
    <3>3. Promise!Submit({f} \X (first .. end - 1))
      BY <2>8, <3>1 DEF AddRange, Promise!Submit
    <3>4. QED
      BY <3>2, <3>3 DEF Promise!Next
  <2>9. CASE WaitAll \/ WaitAllTimed \/ WaitAllTimedReturn \/ IsIdle
    <3>1. UNCHANGED <<function, queueIndex, queueEnd, shutdown, wpc, job, finished, numThreadsBusy>>
      BY <2>9 DEF WaitAll, WaitAllTimed, WaitAllTimedReturn, IsIdle
    <3>2. todoBar' = todoBar /\ activeBar' = activeBar /\ upBar' = upBar
      BY <2>9, <3>1 DEF WaitAll, WaitAllTimed, WaitAllTimedReturn, IsIdle,
                        todoBar, activeBar, upBar, Active
    <3>3. ~shutdown
      BY <2>9 DEF WaitAll, WaitAllTimed, WaitAllTimedReturn, IsIdle, IInv, Phases, Up
    <3>4. CASE told'
      <4>1. Active = {} /\ QueueEmpty
        <5>1. Active' = {} /\ QueueEmpty'
          BY <3>4 DEF IInv, ToldIdle
        <5>2. QED
          BY <3>1, <5>1 DEF Active, QueueEmpty
      <4>2. todoBar = {} /\ activeBar = {}
        BY <4>1 DEF todoBar, activeBar, QueueEmpty, IInv, TypeOK
      <4>3. told' = TRUE
        BY <3>4 DEF IInv, TypeOK
      <4>4. QED
        BY <3>1, <3>2, <4>2, <4>3
           DEF Promise!Next, Promise!Learn, todoBar, activeBar, upBar
    <3>5. CASE ~told'
      <4>1. told
        BY <3>1, <3>2, <3>5 DEF IInv, TypeOK
      <4>2. cpc = "ready" /\ Active = {} /\ QueueEmpty
        BY <4>1 DEF IInv, ToldIdle
      <4>3. numThreadsBusy = 0
        BY <4>2, FS_EmptySet DEF IInv, BusyCount
      <4>4. ~Busy /\ (numThreadsBusy = 0 /\ QueueEmpty)
        BY <4>2, <4>3 DEF Busy
      <4>5. told'
        BY <2>9, <4>4, Zenon DEF WaitAll, WaitAllTimed, WaitAllTimedReturn, IsIdle
      <4>6. QED
        BY <3>5, <4>5
    <3>6. QED
      BY <3>4, <3>5
  <2>10. CASE TimeoutExpires \/ SpuriousWakeOwner \/ UNCHANGED vars
    BY <2>10 DEF TimeoutExpires, SpuriousWakeOwner, vars, todoBar, activeBar, upBar, Active
  <2>11. QED
    BY <2>1, <2>2, <2>3, <2>4, <2>5, <2>6, <2>7, <2>8, <2>9, <2>10 DEF Next, WorkerStep
<1>3. QED
  BY <1>1, <1>2, Invariance, GoneInvariance, PTL DEF Spec, Promise!Safety
=============================================================================
