----------------------------- MODULE ThreadPool -----------------------------
(***************************************************************************)
(* uf2_pool.c: one range of numbered jobs, handed out to worker threads    *)
(* under a mutex, with a condition variable for the workers (newJobsCond)  *)
(* and one for the thread that submitted the jobs (busyCond).              *)
(*                                                                         *)
(* Each critical section is one step.  What the code does with the mutex   *)
(* released - reading ctx->function and running the job - is a step of its *)
(* own.  A blocked thread leaves its wait by a signal, by a timeout or     *)
(* spuriously, and then competes for the mutex like any other.             *)
(***************************************************************************)
EXTENDS Integers, FiniteSets

CONSTANTS
  Worker,     \* the threads UF2POOL_create is asked for
  Function,   \* the (function, opaque) pairs callers submit
  NoFunction, \* ctx->function before the first submission
  MaxEnd      \* bound: job ranges are within 0 .. MaxEnd - 1

ASSUME WorkerAssumption   == IsFiniteSet(Worker) /\ Worker # {}
ASSUME FunctionAssumption == NoFunction \notin Function
ASSUME MaxEndAssumption   == MaxEnd \in Nat

VARIABLES
  threads,        \* workers created so far (ctx->threads[0 .. numThreads - 1])
  function,       \* ctx->function and ctx->opaque
  queueIndex, queueEnd, numThreadsBusy, shutdown,
  wpc,            \* where each worker is
  job,            \* the job number a worker popped
  ran,            \* the function a worker read after releasing the mutex
  cpc,            \* where the thread that owns the pool is
  told,           \* the owner saw waitAll return 0 (or isIdle return 1) last
  batch, finished \* history: the jobs of the last range, and those that ended

poolVars   == <<threads, function, queueIndex, queueEnd, numThreadsBusy, shutdown>>
workerVars == <<wpc, job, ran>>
ownerVars  == <<cpc, told>>
history    == <<batch, finished>>
vars       == <<poolVars, workerVars, ownerVars, history>>

(* "check" is at the test of the while loop, about to take the mutex;      *)
(* "popped" has released it with a job; "running" is inside function().    *)
WorkerPC == {"none", "check", "blocked", "popped", "running", "exited"}
OwnerPC  == {"none", "creating", "ready", "waiting", "woken",
             "timedWait", "timedWoken", "joining"}

Active     == {w \in Worker : wpc[w] \in {"popped", "running"}}
QueueEmpty == queueIndex >= queueEnd

(* Mutant of Busy: what numThreadsBusy counts is forgotten.                *)
BusyIfQueued == ~QueueEmpty /\ ~shutdown

Busy       == (numThreadsBusy > 0 \/ ~QueueEmpty) /\ ~shutdown

Init ==
  /\ threads = {}
  /\ function = NoFunction
  /\ queueIndex = 0 /\ queueEnd = 0 /\ numThreadsBusy = 0
  /\ shutdown = FALSE
  /\ wpc = [w \in Worker |-> "none"]
  /\ job = [w \in Worker |-> 0]
  /\ ran = [w \in Worker |-> NoFunction]
  /\ cpc = "none"
  /\ told = FALSE
  /\ batch = {} /\ finished = {}

-----------------------------------------------------------------------------
(* The workers: UF2POOL_thread.                                            *)

(* Mutant of TakeOrWait: the queue is emptied before shutdown is looked at. *)
TakeBeforeExit(w, busy) ==
  \/ /\ QueueEmpty
     /\ wpc' = [wpc EXCEPT ![w] = IF shutdown THEN "exited" ELSE "blocked"]
     /\ numThreadsBusy' = busy
     /\ UNCHANGED <<queueIndex, job>>
  \/ /\ ~QueueEmpty
     /\ wpc' = [wpc EXCEPT ![w] = "popped"]
     /\ job' = [job EXCEPT ![w] = queueIndex]
     /\ queueIndex' = queueIndex + 1
     /\ numThreadsBusy' = busy + 1

(* The head of the loop, with the mutex held and `busy` threads busy.      *)
TakeOrWait(w, busy) ==
  \/ /\ shutdown
     /\ wpc' = [wpc EXCEPT ![w] = "exited"]
     /\ numThreadsBusy' = busy
     /\ UNCHANGED <<queueIndex, job>>
  \/ /\ ~shutdown /\ QueueEmpty
     /\ wpc' = [wpc EXCEPT ![w] = "blocked"]
     /\ numThreadsBusy' = busy
     /\ UNCHANGED <<queueIndex, job>>
  \/ /\ ~shutdown /\ ~QueueEmpty
     /\ wpc' = [wpc EXCEPT ![w] = "popped"]
     /\ job' = [job EXCEPT ![w] = queueIndex]
     /\ queueIndex' = queueIndex + 1
     /\ numThreadsBusy' = busy + 1

Check(w) ==
  /\ wpc[w] = "check"
  /\ TakeOrWait(w, numThreadsBusy)
  /\ UNCHANGED <<threads, function, queueEnd, shutdown, ran, ownerVars, history>>

(* ctx->function and ctx->opaque are read without the mutex.               *)
Call(w) ==
  /\ wpc[w] = "popped"
  /\ wpc' = [wpc EXCEPT ![w] = "running"]
  /\ ran' = [ran EXCEPT ![w] = function]
  /\ UNCHANGED <<poolVars, job, ownerVars, history>>

(* Mutant of SignalOwner: the signal is forgotten.                         *)
SignalNobody == UNCHANGED cpc

(* UF2_pthread_cond_signal(&ctx->busyCond): the owner is the only waiter.  *)
SignalOwner ==
  cpc' = CASE cpc = "waiting"   -> "woken"
           [] cpc = "timedWait" -> "timedWoken"
           [] OTHER             -> cpc

(* The job returns; the worker decrements, signals and, still holding the  *)
(* mutex, goes round the loop.                                             *)
Return(w) ==
  /\ wpc[w] = "running"
  /\ finished' = finished \cup {<<ran[w], job[w]>>}
  /\ SignalOwner
  /\ TakeOrWait(w, numThreadsBusy - 1)
  /\ UNCHANGED <<threads, function, queueEnd, shutdown, ran, told, batch>>

SpuriousWakeWorker(w) ==
  /\ wpc[w] = "blocked"
  /\ wpc' = [wpc EXCEPT ![w] = "check"]
  /\ UNCHANGED <<poolVars, job, ran, ownerVars, history>>

(* Mutant of WakeWorkers: a signal in place of the broadcast.              *)
WakeOneWorker ==
  wpc' = LET asleep == {w \in Worker : wpc[w] = "blocked"}
         IN  IF asleep = {} THEN wpc
             ELSE [wpc EXCEPT ![CHOOSE w \in asleep : TRUE] = "check"]

(* UF2_pthread_cond_broadcast(&ctx->newJobsCond)                           *)
WakeWorkers ==
  wpc' = [w \in Worker |-> IF wpc[w] = "blocked" THEN "check" ELSE wpc[w]]

-----------------------------------------------------------------------------
(* The owner.                                                              *)

Create ==
  /\ cpc = "none"
  /\ cpc' = "creating"
  /\ function' = NoFunction
  /\ queueIndex' = 0 /\ queueEnd' = 0 /\ numThreadsBusy' = 0
  /\ shutdown' = FALSE
  /\ UNCHANGED <<threads, workerVars, told, history>>

(* A new thread may run before the next one is created.                    *)
CreateThread(w) ==
  /\ cpc = "creating" /\ w \notin threads
  /\ threads' = threads \cup {w}
  /\ wpc' = [wpc EXCEPT ![w] = "check"]
  /\ UNCHANGED <<function, queueIndex, queueEnd, numThreadsBusy, shutdown,
                 job, ran, ownerVars, history>>

CreateDone ==
  /\ cpc = "creating" /\ threads = Worker
  /\ cpc' = "ready"
  /\ told' = TRUE
  /\ batch' = {} /\ finished' = {}
  /\ UNCHANGED <<poolVars, workerVars>>

(* UF2POOL_join, up to the pthread_join loop.                              *)
BeginJoin ==
  /\ shutdown' = TRUE
  /\ WakeWorkers
  /\ cpc' = "joining"
  /\ told' = FALSE
  /\ UNCHANGED <<threads, function, queueIndex, queueEnd, numThreadsBusy,
                 job, ran, history>>

CreateFails == cpc = "creating" /\ threads # Worker /\ BeginJoin

Free == cpc = "ready" /\ BeginJoin

Joined ==
  /\ cpc = "joining"
  /\ \A w \in threads : wpc[w] = "exited"
  /\ cpc' = "none"
  /\ threads' = {}
  /\ wpc' = [w \in Worker |-> "none"]
  /\ UNCHANGED <<function, queueIndex, queueEnd, numThreadsBusy, shutdown,
                 job, ran, told, history>>

(* Mutant of AddRange: the index starts one too low.                       *)
AddRangeFromBefore(f, first, end) ==
  /\ cpc = "ready" /\ told
  /\ first # end
  /\ function' = f
  /\ queueIndex' = first - 1
  /\ queueEnd' = end
  /\ WakeWorkers
  /\ told' = FALSE
  /\ batch' = {f} \X (first .. end - 1)
  /\ finished' = {}
  /\ UNCHANGED <<threads, numThreadsBusy, shutdown, job, ran, cpc>>

(* "Callers always wait for jobs to complete before adding a new set": the *)
(* guard `told`.  An empty range returns before it changes anything.       *)
AddRange(f, first, end) ==
  /\ cpc = "ready" /\ told
  /\ first # end
  /\ function' = f
  /\ queueIndex' = first
  /\ queueEnd' = end
  /\ WakeWorkers
  /\ told' = FALSE
  /\ batch' = {f} \X (first .. end - 1)
  /\ finished' = {}
  /\ UNCHANGED <<threads, numThreadsBusy, shutdown, job, ran, cpc>>

(* UF2POOL_waitAll(ctx, 0): test, and wait while the pool is busy.         *)
WaitAll ==
  /\ cpc \in {"ready", "woken"}
  /\ cpc' = IF Busy THEN "waiting" ELSE "ready"
  /\ told' = ~Busy
  /\ UNCHANGED <<poolVars, workerVars, history>>

(* UF2POOL_waitAll(ctx, timeout): wait at most once, then report what is.  *)
WaitAllTimed ==
  /\ cpc = "ready"
  /\ cpc' = IF Busy THEN "timedWait" ELSE "ready"
  /\ told' = ~Busy
  /\ UNCHANGED <<poolVars, workerVars, history>>

(* Mutant of WaitAllTimedReturn: a timeout is taken for the end.           *)
WaitAllTimedReturnsIdle ==
  /\ cpc = "timedWoken"
  /\ cpc' = "ready"
  /\ told' = TRUE
  /\ UNCHANGED <<poolVars, workerVars, history>>

WaitAllTimedReturn ==
  /\ cpc = "timedWoken"
  /\ cpc' = "ready"
  /\ told' = ~Busy
  /\ UNCHANGED <<poolVars, workerVars, history>>

(* The wait ends without a signal: its time is up, or spuriously.          *)
TimeoutExpires ==
  /\ cpc = "timedWait"
  /\ cpc' = "timedWoken"
  /\ UNCHANGED <<poolVars, workerVars, told, history>>

SpuriousWakeOwner ==
  /\ cpc = "waiting"
  /\ cpc' = "woken"
  /\ UNCHANGED <<poolVars, workerVars, told, history>>

(* Mutant of IsIdle: the queue is looked at, not the busy threads.         *)
IsIdleIfEmpty ==
  /\ cpc = "ready"
  /\ told' = QueueEmpty
  /\ UNCHANGED <<poolVars, workerVars, cpc, history>>

IsIdle ==
  /\ cpc = "ready"
  /\ told' = (numThreadsBusy = 0 /\ QueueEmpty)
  /\ UNCHANGED <<poolVars, workerVars, cpc, history>>

-----------------------------------------------------------------------------
WorkerStep(w) == Check(w) \/ Call(w) \/ Return(w)

OwnerResumes ==
  \/ (cpc = "woken" /\ WaitAll)
  \/ WaitAllTimedReturn \/ TimeoutExpires
  \/ Joined
  \/ CreateDone \/ \E w \in Worker : CreateThread(w)

Next ==
  \/ \E w \in Worker : WorkerStep(w) \/ SpuriousWakeWorker(w) \/ CreateThread(w)
  \/ Create \/ CreateDone \/ CreateFails \/ Free \/ Joined
  \/ \E f \in Function, first \in 0 .. MaxEnd, end \in 0 .. MaxEnd :
       first <= end /\ AddRange(f, first, end)
  \/ WaitAll \/ WaitAllTimed \/ WaitAllTimedReturn
  \/ TimeoutExpires \/ SpuriousWakeOwner \/ IsIdle

Spec == Init /\ [][Next]_vars

(* Every job returns, no thread starves on the mutex, and a call the owner *)
(* is inside of goes on; the owner is never obliged to make a call.        *)
Fairness ==
  /\ \A w \in Worker : WF_vars(WorkerStep(w))
  /\ WF_vars(OwnerResumes)

FairSpec == Spec /\ Fairness

-----------------------------------------------------------------------------
TypeOK ==
  /\ threads \in SUBSET Worker
  /\ function \in Function \cup {NoFunction}
  /\ queueIndex \in Nat /\ queueEnd \in Nat /\ numThreadsBusy \in Int
  /\ shutdown \in BOOLEAN
  /\ wpc \in [Worker -> WorkerPC]
  /\ job \in [Worker -> Nat]
  /\ ran \in [Worker -> Function \cup {NoFunction}]
  /\ cpc \in OwnerPC
  /\ told \in BOOLEAN
  /\ batch \subseteq (Function \cup {NoFunction}) \X Nat
  /\ finished \subseteq (Function \cup {NoFunction}) \X Nat

(* When waitAll has returned 0, or isIdle 1, every job of the range has    *)
(* ended and no worker is inside a job: the caller may read what the jobs  *)
(* wrote.  This is what the comment in UF2POOL_waitAll says an earlier     *)
(* unlocked check broke.                                                   *)
WaitAllSound == told => Active = {} /\ finished = batch

(* A job is run once: not again after it ended, and by one worker.         *)
JobsRunOnce ==
  \A w \in Active :
    /\ <<function, job[w]>> \notin finished
    /\ job[w] < queueIndex
    /\ \A v \in Active : v # w => job[v] # job[w]

(* The function is read after the mutex is released, yet a worker always   *)
(* runs its job number with the function it was queued with.               *)
RightFunction ==
  \A w \in Worker : wpc[w] = "running" => <<ran[w], job[w]>> \in batch

(* Both: every job is run once and as it was queued.                       *)
JobsRunAsQueued == JobsRunOnce /\ RightFunction

(* No wakeup is lost: no worker sleeps while a job waits or after shutdown *)
(* was announced, and the owner sleeps in waitAll only while a worker that *)
(* will signal busyCond is in a job or has yet to take one.                *)
NoLostWakeup ==
  /\ (\E w \in Worker : wpc[w] = "blocked") => QueueEmpty /\ ~shutdown
  /\ cpc \in {"waiting", "timedWait"} => Busy

(* The context is freed with no thread left in it, and until then shutdown *)
(* starts no job: what was queued is dropped.                              *)
ShutdownDropsQueue ==
  [][shutdown /\ cpc # "none" => /\ UNCHANGED <<queueIndex, function>>
                                 /\ Active' \subseteq Active
                                 /\ cpc' = "none" => Active = {}]_vars

(* UF2POOL_waitAll returns, and so does UF2POOL_free.                      *)
CallsReturn ==
  /\ cpc \in {"waiting", "timedWait"} ~> cpc = "ready"
  /\ cpc = "joining" ~> cpc = "none"

(* The pool keeps the promise of JobPool.                                  *)
Promise == INSTANCE JobPool WITH
  Job      <- Function \X (0 .. MaxEnd - 1),
  todo     <- IF shutdown THEN {} ELSE {function} \X (queueIndex .. queueEnd - 1),
  active   <- {<<function, job[w]>> : w \in Active},
  finished <- finished,
  told     <- told,
  up       <- cpc \notin {"none", "creating", "joining"}

ImplementsJobPool == Promise!Spec
=============================================================================
