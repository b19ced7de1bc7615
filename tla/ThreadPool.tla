----------------------------- MODULE ThreadPool -----------------------------
(***************************************************************************)
(* The CPU thread pool and the CPURuntimes that share it.                  *)
(*                                                                         *)
(* A runtime brackets its work by onConcurrencyBegin and onConcurrencyEnd: *)
(* it takes one of a few task slots and keeps the pool active.  A parallel *)
(* loop is put into the slot with one flag per worker; the caller runs its *)
(* own share and spins until the workers have cleared their flags.         *)
(* Without a slot it runs the loop alone.  Workers scan the flags while    *)
(* the pool is active and sleep on a condition variable otherwise.         *)
(*                                                                         *)
(* The sections under mQueueMutex are single steps: they exclude each      *)
(* other, and what runs outside the lock at the same time, deactive() and  *)
(* the flags, cannot turn the sleepers' predicate true.                    *)
(***************************************************************************)
EXTENDS Integers, FiniteSets

CONSTANTS
  Runtime,      \* the CPURuntimes of one pool, each driven by one thread
  NumberThread, \* mNumberThread
  MaxTasks,     \* MNN_THREAD_POOL_MAX_TASKS
  NoWork,       \* no task
  Sizes,        \* bound of the model: the sizes of the parallel loops
  MaxDepth      \* bound of the model: nested onConcurrencyBegin

ASSUME ThreadPoolAssumption ==
  /\ NumberThread \in Nat \ {0}
  /\ MaxTasks \in Nat \ {0}
  /\ Sizes \subseteq Nat \ {0}
  /\ MaxDepth \in Nat \ {0}
  /\ NoWork \notin [ of : Runtime, size : Nat ]

VARIABLES
  stop,        \* mStop
  activeCount, \* mActiveCount
  available,   \* mTaskAvailable
  task,        \* the tasks of mTasks
  flag,        \* the flags of mTasks: per slot, per worker
  worker,      \* what every worker is doing
  runtime,     \* what every runtime is doing
  runs,        \* history variable: how often each index of a loop was run
  owner        \* where destroy() is

vars == << stop, activeCount, available, task, flag, worker, runtime, runs, owner >>

Worker == 1 .. NumberThread - 1
Slot == 0 .. MaxTasks - 1
Items(size) == 0 .. size - 1

Init ==
  /\ stop = FALSE
  /\ activeCount = 0
  /\ available = [k \in Slot |-> TRUE]
  /\ task = [k \in Slot |-> NoWork]
  /\ flag = [k \in Slot |-> [w \in Worker |-> FALSE]]
  /\ worker = [w \in Worker |-> [pc |-> "top", slot |-> 0, work |-> NoWork]]
  /\ runtime = [r \in Runtime |->
       [pc |-> "closed", index |-> -1, open |-> 0, depth |-> 0,
        size |-> 0, next |-> 0, bind |-> FALSE]]
  /\ runs = [r \in Runtime |-> [v \in {} |-> 0]]
  /\ owner = "using"

-----------------------------------------------------------------------------
(* Helpers.                                                                *)

(* The threads that take part in a loop, the caller being thread 0.        *)
WorkSize(size) == IF size > NumberThread THEN NumberThread ELSE size

(* The indices thread t runs: the wrapped task strides over them.          *)
ShareUnwrapped(size, t) == {t} \cap Items(size)

Share(size, t) == { v \in Items(size) : v % NumberThread = t }

Run(r, S) ==
  runs' = [ runs EXCEPT ![r] = [ v \in DOMAIN @ |->
              @[v] + IF v \in S THEN 1 ELSE 0 ] ]

(* mCondition.notify_all()                                                 *)
NotifyForgotten == UNCHANGED worker

NotifyAll ==
  worker' = [ w \in Worker |->
    IF worker[w].pc = "waiting" THEN [ worker[w] EXCEPT !.pc = "lock" ]
                                ELSE worker[w] ]

-----------------------------------------------------------------------------
(* A runtime.  pc names what it does next.                                 *)

At(r, pc) == runtime[r].pc = pc

Goto(r, pc) == runtime' = [ runtime EXCEPT ![r].pc = pc ]

(* onConcurrencyBegin, up to acquireWorkIndex: the first free slot, if the  *)
(* runtime has none.                                                       *)
FreeSlots == { k \in Slot : available[k] }

FirstFree == CHOOSE k \in FreeSlots : \A l \in FreeSlots : k <= l

AcquireUnmarked(k) == UNCHANGED available

Acquire(k) == available' = [ available EXCEPT ![k] = FALSE ]

Begin(r) ==
  LET needs == runtime[r].index < 0 /\ FreeSlots # {}
  IN /\ At(r, "closed") \/ At(r, "ready")
     /\ owner = "using"
     /\ runtime[r].depth < MaxDepth
     /\ IF needs THEN Acquire(FirstFree) ELSE UNCHANGED available
     /\ runtime' = [ runtime EXCEPT
          ![r].pc = "activate",
          ![r].depth = @ + 1,
          ![r].index = IF needs THEN FirstFree ELSE @ ]
     /\ UNCHANGED << stop, activeCount, task, flag, worker, runs, owner >>

(* active(), by the first onConcurrencyBegin that has a slot.              *)
Activate(r) ==
  /\ At(r, "activate")
  /\ LET first == runtime[r].index >= 0 /\ runtime[r].open = 0
     IN /\ activeCount' = activeCount + (IF first THEN 1 ELSE 0)
        /\ runtime' = [ runtime EXCEPT
             ![r].pc = IF first THEN "notify" ELSE "bound?",
             ![r].open = @ + (IF runtime[r].index >= 0 THEN 1 ELSE 0) ]
  /\ UNCHANGED << stop, available, task, flag, worker, runs, owner >>

Notify(r) ==
  /\ At(r, "notify")
  /\ NotifyAll
  /\ Goto(r, "bound?")
  /\ UNCHANGED << stop, activeCount, available, task, flag, runs, owner >>

(* _bindCPUCore: nothing for a thread that is bound, or a loop over the    *)
(* threads inside an active() of its own.                                  *)
SkipBind(r) ==
  /\ At(r, "bound?")
  /\ Goto(r, "ready")
  /\ UNCHANGED << stop, activeCount, available, task, flag, worker, runs, owner >>

Bind(r) ==
  /\ At(r, "bound?")
  /\ activeCount' = activeCount + 1
  /\ Goto(r, "notifyBind")
  /\ UNCHANGED << stop, available, task, flag, worker, runs, owner >>

NotifyBind(r) ==
  /\ At(r, "notifyBind")
  /\ NotifyAll
  /\ runtime' = [ runtime EXCEPT ![r].pc = "enqueue", ![r].bind = TRUE,
                                 ![r].size = NumberThread ]
  /\ UNCHANGED << stop, activeCount, available, task, flag, runs, owner >>

(* An operator runs a parallel loop.                                       *)
Loop(r, size) ==
  /\ At(r, "ready")
  /\ runtime' = [ runtime EXCEPT ![r].pc = "enqueue", ![r].size = size ]
  /\ UNCHANGED << stop, activeCount, available, task, flag, worker, runs, owner >>

(* enqueue: a loop of one, or without a slot, or in an idle pool, is run   *)
(* by the caller alone.                                                    *)
Inline(r) ==
  /\ At(r, "enqueue")
  /\ runtime[r].size <= 1 \/ runtime[r].index < 0 \/ activeCount = 0
  /\ runs' = [ runs EXCEPT ![r] = [ v \in Items(runtime[r].size) |-> 1 ] ]
  /\ Goto(r, "return")
  /\ UNCHANGED << stop, activeCount, available, task, flag, worker, owner >>

(* enqueueInternal                                                         *)
Install(r) ==
  /\ At(r, "enqueue")
  /\ runtime[r].size > 1 /\ runtime[r].index >= 0 /\ activeCount # 0
  /\ task' = [ task EXCEPT ![runtime[r].index] = [ of |-> r, size |-> runtime[r].size ] ]
  /\ runs' = [ runs EXCEPT ![r] = [ v \in Items(runtime[r].size) |-> 0 ] ]
  /\ runtime' = [ runtime EXCEPT ![r].pc = "flags", ![r].next = 1 ]
  /\ UNCHANGED << stop, activeCount, available, flag, worker, owner >>

SetFlag(r) ==
  /\ At(r, "flags")
  /\ runtime[r].next < WorkSize(runtime[r].size)
  /\ flag' = [ flag EXCEPT ![runtime[r].index][runtime[r].next] = TRUE ]
  /\ runtime' = [ runtime EXCEPT ![r].next = @ + 1 ]
  /\ UNCHANGED << stop, activeCount, available, task, worker, runs, owner >>

RunOwn(r) ==
  /\ At(r, "flags")
  /\ runtime[r].next = WorkSize(runtime[r].size)
  /\ Run(r, Share(runtime[r].size, 0))
  /\ Goto(r, "spin")
  /\ UNCHANGED << stop, activeCount, available, task, flag, worker, owner >>

(* Flags are only cleared while the caller spins, so the scan that finds   *)
(* them all clear is one step.                                             *)
Spin(r) ==
  /\ At(r, "spin")
  /\ \A w \in Worker : ~flag[runtime[r].index][w]
  /\ Goto(r, "return")
  /\ UNCHANGED << stop, activeCount, available, task, flag, worker, runs, owner >>

(* enqueue returns; _bindCPUCore then calls deactive().                    *)
DeactiveForgotten(n) == UNCHANGED activeCount

DeactiveTwice(n) == activeCount' = activeCount - 2 * n

Deactive(n) == activeCount' = activeCount - n

Return(r) ==
  /\ At(r, "return")
  /\ IF runtime[r].bind THEN Deactive(1) ELSE UNCHANGED activeCount
  /\ runtime' = [ runtime EXCEPT ![r].pc = "ready", ![r].bind = FALSE,
                                 ![r].size = 0, ![r].next = 0 ]
  /\ runs' = [ runs EXCEPT ![r] = [v \in {} |-> 0] ]
  /\ UNCHANGED << stop, available, task, flag, worker, owner >>

(* onConcurrencyEnd: the last one that counts returns the slot, and leaves  *)
(* the pool afterwards.                                                    *)
End(r) ==
  LET depth == runtime[r].depth - 1
      open == IF runtime[r].open > 0 THEN runtime[r].open - 1 ELSE 0
      last == runtime[r].index >= 0 /\ open = 0
  IN /\ At(r, "ready")
     /\ available' = IF last THEN [ available EXCEPT ![runtime[r].index] = TRUE ]
                             ELSE available
     /\ runtime' = [ runtime EXCEPT
          ![r].depth = depth,
          ![r].open = open,
          ![r].pc = IF last THEN "deactive" ELSE IF depth = 0 THEN "closed" ELSE "ready" ]
     /\ UNCHANGED << stop, activeCount, task, flag, worker, runs, owner >>

Leave(r) ==
  /\ At(r, "deactive")
  /\ Deactive(1)
  /\ runtime' = [ runtime EXCEPT
       ![r].index = -1,
       ![r].pc = IF runtime[r].depth = 0 THEN "closed" ELSE "ready" ]
  /\ UNCHANGED << stop, available, task, flag, worker, runs, owner >>

-----------------------------------------------------------------------------
(* A worker.                                                               *)

Doing(w, pc) == worker[w].pc = pc

Continue(w, pc) == worker' = [ worker EXCEPT ![w].pc = pc ]

(* while (!mStop)                                                          *)
Top(w) ==
  /\ Doing(w, "top")
  /\ Continue(w, IF stop THEN "exit" ELSE "loop")
  /\ UNCHANGED << stop, activeCount, available, task, flag, runtime, runs, owner >>

(* while (mActiveCount > 0)                                                *)
CheckActive(w) ==
  /\ Doing(w, "loop")
  /\ worker' = [ worker EXCEPT ![w].pc = IF activeCount > 0 THEN "scan" ELSE "lock",
                               ![w].slot = 0 ]
  /\ UNCHANGED << stop, activeCount, available, task, flag, runtime, runs, owner >>

(* The scan over the slots, again and again.                               *)
SkipSlot(w) ==
  LET k == worker[w].slot
  IN /\ Doing(w, "scan")
     /\ k < MaxTasks => ~flag[k][w]
     /\ worker' = [ worker EXCEPT ![w].pc = IF k = MaxTasks THEN "loop" ELSE "scan",
                                  ![w].slot = IF k = MaxTasks THEN 0 ELSE k + 1 ]
     /\ UNCHANGED << stop, activeCount, available, task, flag, runtime, runs, owner >>

Flagged(w) == Doing(w, "scan") /\ worker[w].slot < MaxTasks /\ flag[worker[w].slot][w]

StartTaskCleared(w) ==
  /\ Flagged(w)
  /\ worker' = [ worker EXCEPT ![w].pc = "run", ![w].work = task[worker[w].slot] ]
  /\ flag' = [ flag EXCEPT ![worker[w].slot][w] = FALSE ]
  /\ UNCHANGED << stop, activeCount, available, task, runtime, runs, owner >>

StartTask(w) ==
  /\ Flagged(w)
  /\ worker' = [ worker EXCEPT ![w].pc = "run", ![w].work = task[worker[w].slot] ]
  /\ UNCHANGED << stop, activeCount, available, task, flag, runtime, runs, owner >>

RunShare(w) ==
  /\ Doing(w, "run")
  /\ Run(worker[w].work.of, Share(worker[w].work.size, w))
  /\ worker' = [ worker EXCEPT ![w].pc = "clear", ![w].work = NoWork ]
  /\ UNCHANGED << stop, activeCount, available, task, flag, runtime, owner >>

ClearFlag(w) ==
  /\ Doing(w, "clear")
  /\ flag' = [ flag EXCEPT ![worker[w].slot][w] = FALSE ]
  /\ worker' = [ worker EXCEPT ![w].pc = "scan", ![w].slot = @ + 1 ]
  /\ UNCHANGED << stop, activeCount, available, task, runtime, runs, owner >>

(* mCondition.wait: the predicate is evaluated under the lock.             *)
AwakeIgnoringStop == activeCount > 0

Awake == stop \/ activeCount > 0

Wait(w) ==
  /\ Doing(w, "lock")
  /\ Continue(w, IF Awake THEN "top" ELSE "waiting")
  /\ UNCHANGED << stop, activeCount, available, task, flag, runtime, runs, owner >>

(* A wake-up nobody asked for, which condition variables allow.            *)
Spurious(w) ==
  /\ Doing(w, "waiting")
  /\ Continue(w, "lock")
  /\ UNCHANGED << stop, activeCount, available, task, flag, runtime, runs, owner >>

-----------------------------------------------------------------------------
(* destroy(), when no runtime uses the pool: stop, wake, join.             *)
Destroy ==
  /\ owner = "using"
  /\ \A r \in Runtime : At(r, "closed")
  /\ stop' = TRUE
  /\ owner' = "notify"
  /\ UNCHANGED << activeCount, available, task, flag, worker, runtime, runs >>

DestroyNotify ==
  /\ owner = "notify"
  /\ NotifyAll
  /\ owner' = "join"
  /\ UNCHANGED << stop, activeCount, available, task, flag, runtime, runs >>

Join ==
  /\ owner = "join"
  /\ \A w \in Worker : Doing(w, "exit")
  /\ owner' = "destroyed"
  /\ UNCHANGED << stop, activeCount, available, task, flag, worker, runtime, runs >>

-----------------------------------------------------------------------------
(* What a runtime chooses to do, and what it then has to do.               *)
Choose(r) == Begin(r) \/ End(r) \/ \E size \in Sizes : Loop(r, size)

Proceed(r) ==
  \/ Activate(r) \/ Notify(r)
  \/ SkipBind(r) \/ Bind(r) \/ NotifyBind(r)
  \/ Inline(r) \/ Install(r) \/ SetFlag(r) \/ RunOwn(r) \/ Spin(r) \/ Return(r)
  \/ Leave(r)

Work(w) ==
  \/ Top(w) \/ CheckActive(w) \/ Wait(w)
  \/ SkipSlot(w) \/ StartTask(w) \/ RunShare(w) \/ ClearFlag(w)

Owner == Destroy \/ DestroyNotify \/ Join

Next ==
  \/ \E r \in Runtime : Choose(r) \/ Proceed(r)
  \/ \E w \in Worker : Work(w) \/ Spurious(w)
  \/ Owner

(* Every thread is scheduled; nobody has to begin, to loop or to destroy.  *)
Spec ==
  /\ Init /\ [][Next]_vars
  /\ \A r \in Runtime : WF_vars(Proceed(r))
  /\ \A w \in Worker : WF_vars(Work(w))
  /\ WF_vars(DestroyNotify \/ Join)

-----------------------------------------------------------------------------
(* Properties.                                                             *)

(* Every variable keeps its type; in particular the count of users is      *)
(* never negative, which would put the workers to sleep for good.          *)
TypeOK ==
  /\ stop \in BOOLEAN
  /\ activeCount \in Nat
  /\ available \in [Slot -> BOOLEAN]
  /\ flag \in [Slot -> [Worker -> BOOLEAN]]
  /\ \A k \in Slot : task[k] # NoWork =>
       task[k].of \in Runtime /\ task[k].size \in Nat
  /\ \A r \in Runtime : /\ runtime[r].index \in Slot \cup {-1}
                        /\ runtime[r].open \in 0 .. MaxDepth
                        /\ runtime[r].depth \in 0 .. MaxDepth
  /\ \A w \in Worker : worker[w].slot \in 0 .. MaxTasks
  /\ owner \in {"using", "notify", "join", "destroyed"}

(* When a parallel loop returns, every index of it was run exactly once,   *)
(* by whichever mix of workers and caller, with a loop of another runtime  *)
(* at the same time.                                                       *)
EachIndexOnce ==
  \A r \in Runtime : At(r, "return") =>
    /\ DOMAIN runs[r] = Items(runtime[r].size)
    /\ \A v \in DOMAIN runs[r] : runs[r][v] = 1

(* A worker runs a task only while its loop waits: the task is a local of  *)
(* the caller (and the wrapper is deleted) once enqueue returns.           *)
NoTaskAfterReturn ==
  \A w \in Worker : Doing(w, "run") =>
    /\ worker[w].work # NoWork
    /\ LET r == worker[w].work.of
       IN /\ runtime[r].pc \in {"flags", "spin"}
          /\ runtime[r].index = worker[w].slot

(* Two runtimes never share a slot, and a slot nobody holds is available,  *)
(* also when begin and end are nested and the first begin found no slot.   *)
SlotsExclusive ==
  LET holders(k) == { r \in Runtime : runtime[r].index = k /\ ~At(r, "deactive") }
  IN \A k \in Slot : /\ Cardinality(holders(k)) <= 1
                     /\ available[k] <=> holders(k) = {}

(* A parallel loop ends: no worker sleeps through its flag.                *)
LoopsReturn ==
  \A r \in Runtime : At(r, "enqueue") ~> At(r, "ready")

(* Workers do not spin for nothing: once every runtime has left for good,  *)
(* every one goes to sleep.                                                *)
QuietWhenUnused ==
  \A w \in Worker :
    (<>[](\A r \in Runtime : At(r, "closed")) /\ []<>(owner = "using"))
      => []<>Doing(w, "waiting")

(* destroy() gets to its end: every worker leaves its loop.                *)
DestroyEnds == owner = "notify" ~> owner = "destroyed"
=============================================================================
