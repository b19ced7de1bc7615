-------------------------- MODULE ThreadPoolProofs --------------------------
(***************************************************************************)
(* Proofs about ThreadPool, for any runtimes, any number of threads and of *)
(* slots and loops of any size.                                            *)
(*                                                                         *)
(* Inv is inductive; TypeOK, EachIndexOnce, NoTaskAfterReturn and          *)
(* SlotsExclusive follow from it.                                          *)
(***************************************************************************)
EXTENDS ThreadPool, FiniteSetTheorems, WellFoundedInduction, TLAPS

-----------------------------------------------------------------------------
(* The inductive invariant.                                                *)

Tasks == [ of : Runtime, size : Nat ]

RuntimeState ==
  [ pc : { "closed", "activate", "notify", "bound?", "notifyBind", "ready",
           "enqueue", "flags", "spin", "return", "deactive" },
    index : Slot \cup {-1}, open : 0 .. MaxDepth, depth : 0 .. MaxDepth,
    size : Nat, next : Nat, bind : BOOLEAN ]

WorkerState ==
  [ pc : { "top", "loop", "scan", "run", "clear", "lock", "waiting", "exit" },
    slot : 0 .. MaxTasks, work : Tasks \cup {NoWork} ]

Types ==
  /\ stop \in BOOLEAN
  /\ available \in [ Slot -> BOOLEAN ]
  /\ task \in [ Slot -> Tasks \cup {NoWork} ]
  /\ flag \in [ Slot -> [ Worker -> BOOLEAN ] ]
  /\ worker \in [ Worker -> WorkerState ]
  /\ runtime \in [ Runtime -> RuntimeState ]
  /\ DOMAIN runs = Runtime
  /\ owner \in { "using", "notify", "join", "destroyed" }

(* The runtimes that keep the pool active: from the first begin with a     *)
(* slot to deactive(), and while they bind the threads to their cores.     *)
Holding == { r \in Runtime : runtime[r].open > 0 \/ At(r, "deactive") }

Binding == { r \in Runtime : runtime[r].bind \/ At(r, "notifyBind") }

UsersCounted ==
  /\ IsFiniteSet(Holding) /\ IsFiniteSet(Binding)
  /\ activeCount = Cardinality(Holding) + Cardinality(Binding)

InLoop(r) == runtime[r].pc \in {"flags", "spin"}

(* Begins and ends are counted only while there is a slot.                 *)
SectionOK(r) ==
  /\ runtime[r].open <= runtime[r].depth
  /\ At(r, "activate") => runtime[r].open < runtime[r].depth
  /\ At(r, "closed") => runtime[r].index = -1
  /\ runtime[r].pc \in {"closed", "deactive"} \/ runtime[r].depth > 0
  /\ runtime[r].index = -1 => runtime[r].open = 0
  /\ At(r, "deactive") => runtime[r].index # -1 /\ runtime[r].open = 0
  /\ runtime[r].index # -1 => runtime[r].open > 0
                                \/ runtime[r].pc \in {"activate", "deactive"}
  /\ runtime[r].bind => runtime[r].pc \in {"enqueue", "flags", "spin", "return"}

Sections == \A r \in Runtime : SectionOK(r)

(* Only a runtime that is about to leave shares its slot with another.     *)
SlotsHeld ==
  /\ \A r, s \in Runtime :
       (r # s /\ runtime[r].index = runtime[s].index /\ runtime[r].index # -1)
         => At(r, "deactive") \/ At(s, "deactive")
  /\ \A k \in Slot :
       available[k] <=> \A r \in Runtime : runtime[r].index = k => At(r, "deactive")

(* A loop in progress owns the task of its slot.                           *)
TaskInstalled ==
  \A r \in Runtime : InLoop(r) =>
    /\ runtime[r].index # -1
    /\ runtime[r].next \in 1 .. WorkSize(runtime[r].size)
    /\ At(r, "spin") => runtime[r].next = WorkSize(runtime[r].size)
    /\ task[runtime[r].index] = [ of |-> r, size |-> runtime[r].size ]
    /\ DOMAIN runs[r] = Items(runtime[r].size)

(* A flag belongs to a loop that is in progress and has set it.            *)
FlagsOwned ==
  \A k \in Slot, w \in Worker : flag[k][w] =>
    \E r \in Runtime : InLoop(r) /\ runtime[r].index = k /\ w < runtime[r].next

(* A worker runs the task of a slot whose flag it has not cleared yet.     *)
WorkersBusy ==
  \A w \in Worker :
    /\ worker[w].pc \in {"run", "clear"} =>
         worker[w].slot \in Slot /\ flag[worker[w].slot][w]
    /\ Doing(w, "run") => worker[w].work = task[worker[w].slot]

(* Thread t has run its share of r's loop: the caller on its way to spin,  *)
(* a worker between running it and clearing its flag, or afterwards.       *)
Cleared(r, t) == flag[runtime[r].index][t] =>
                   Doing(t, "clear") /\ worker[t].slot = runtime[r].index

Finished(r, t) ==
  IF t = 0 THEN At(r, "spin") ELSE t < runtime[r].next /\ Cleared(r, t)

SharesCounted ==
  \A r \in Runtime : InLoop(r) =>
    \A v \in Items(runtime[r].size) :
      runs[r][v] = IF Finished(r, v % NumberThread) THEN 1 ELSE 0

Inv ==
  /\ Types /\ UsersCounted
  /\ Sections /\ SlotsHeld
  /\ TaskInstalled /\ FlagsOwned /\ WorkersBusy
  /\ SharesCounted /\ EachIndexOnce

-----------------------------------------------------------------------------
(* What a step leaves alone.                                               *)

(* The pool keeps its users when every runtime stays one or not.           *)
LEMMA UsersKept ==
  ASSUME UsersCounted, UNCHANGED activeCount,
         \A s \in Runtime :
           /\ (runtime'[s].open > 0 \/ At(s, "deactive")')
                <=> (runtime[s].open > 0 \/ At(s, "deactive"))
           /\ (runtime'[s].bind \/ At(s, "notifyBind")')
                <=> (runtime[s].bind \/ At(s, "notifyBind"))
  PROVE  UsersCounted'
<1>1. Holding' = Holding
  BY DEF Holding
<1>2. Binding' = Binding
  BY DEF Binding
<1>3. QED
  BY <1>1, <1>2 DEF UsersCounted

(* Slots keep their holders.                                               *)
LEMMA SlotsKept ==
  ASSUME SlotsHeld, UNCHANGED available,
         \A s \in Runtime : /\ runtime'[s].index = runtime[s].index
                            /\ At(s, "deactive")' <=> At(s, "deactive")
  PROVE  SlotsHeld'
BY DEF SlotsHeld

(* A worker that neither is nor gets busy.                                 *)
Unoccupied(w) ==
  worker[w].pc \notin {"run", "clear"} /\ worker'[w].pc \notin {"run", "clear"}

(* A runtime that is in no loop, before and after.                         *)
Outside(r) == ~InLoop(r) /\ ~InLoop(r)'

Loops == TaskInstalled /\ FlagsOwned /\ WorkersBusy /\ SharesCounted

(* Steps of idle workers and of runtimes outside a loop do not disturb the *)
(* loops in progress.                                                      *)
LEMMA LoopsKept ==
  ASSUME Types, Loops, UNCHANGED << task, flag >>,
         \A w \in Worker : worker'[w] = worker[w] \/ Unoccupied(w),
         \A s \in Runtime : \/ runtime'[s] = runtime[s] /\ runs'[s] = runs[s]
                            \/ Outside(s)
  PROVE  Loops'
<1>1. TaskInstalled'
  BY DEF Loops, TaskInstalled, InLoop, At, Outside
<1>2. FlagsOwned'
  BY DEF Loops, FlagsOwned, InLoop, Outside
<1>3. WorkersBusy'
  BY DEF Loops, WorkersBusy, Unoccupied, Doing
<1>4. SharesCounted'
  <2> SUFFICES ASSUME NEW r \in Runtime, InLoop(r)',
                      NEW v \in Items(runtime'[r].size)
               PROVE  runs'[r][v] = IF Finished(r, v % NumberThread)' THEN 1 ELSE 0
    BY DEF SharesCounted
  <2>1. runtime'[r] = runtime[r] /\ runs'[r] = runs[r]
    BY DEF Outside
  <2>2. InLoop(r) /\ v \in Items(runtime[r].size)
    BY <2>1 DEF InLoop
  <2> DEFINE t == v % NumberThread
  <2>3. v \in Nat /\ t \in 0 .. NumberThread - 1
    BY <2>2, ThreadPoolAssumption DEF Types, RuntimeState, Items
  <2>4. ASSUME t # 0
        PROVE  Cleared(r, t)' <=> Cleared(r, t)
    <3>1. t \in Worker
      BY <2>3, <2>4, ThreadPoolAssumption DEF Worker
    <3>2. worker'[t] = worker[t] \/ Unoccupied(t)
      BY <3>1
    <3>3. QED
      BY <2>1, <3>2 DEF Cleared, Doing, Unoccupied
  <2>5. Finished(r, t)' <=> Finished(r, t)
    BY <2>1, <2>4 DEF Finished, At
  <2>6. runs[r][v] = IF Finished(r, t) THEN 1 ELSE 0
    BY <2>2 DEF Loops, SharesCounted
  <2>7. QED
    BY <2>1, <2>5, <2>6
<1>5. QED
  BY <1>1, <1>2, <1>3, <1>4 DEF Loops

(* A step of workers that are not busy, of a runtime on its way through a  *)
(* section but in no loop, or of destroy().                                *)
LEMMA QuietStep ==
  ASSUME Inv, Types', Sections', EachIndexOnce',
         UNCHANGED << activeCount, available, task, flag >>,
         \A w \in Worker : worker'[w] = worker[w] \/ Unoccupied(w),
         \A s \in Runtime :
           \/ runtime'[s] = runtime[s] /\ runs'[s] = runs[s]
           \/ /\ Outside(s) /\ ~At(s, "deactive") /\ ~At(s, "deactive")'
              /\ runtime'[s].index = runtime[s].index
              /\ runtime'[s].open = runtime[s].open
              /\ (runtime'[s].bind \/ At(s, "notifyBind")')
                   <=> (runtime[s].bind \/ At(s, "notifyBind"))
  PROVE  Inv'
<1>1. UsersCounted'
  BY UsersKept DEF Inv, At
<1>2. SlotsHeld'
  BY SlotsKept DEF Inv, At
<1>3. Loops'
  BY LoopsKept DEF Inv, Loops
<1>4. QED
  BY <1>1, <1>2, <1>3 DEF Inv, Loops

-----------------------------------------------------------------------------
(* Steps of a worker that is not busy, and of destroy().                   *)

(* A worker between two tasks changes no task.                             *)
LEMMA WorkerIdles ==
  ASSUME Inv, NEW w \in Worker,
         Top(w) \/ CheckActive(w) \/ SkipSlot(w) \/ Wait(w) \/ Spurious(w)
  PROVE  Inv'
<1>1. Types'
  <2>1. worker \in [ Worker -> WorkerState ] /\ MaxTasks \in Nat
    BY ThreadPoolAssumption DEF Inv, Types
  <2> 0 \in 0 .. MaxTasks
    BY <2>1
  <2>2. worker' \in [ Worker -> WorkerState ]
    <3>1. ASSUME NEW pc \in {"loop", "scan", "lock"}, NEW k \in 0 .. MaxTasks,
                 worker' = [ worker EXCEPT ![w].pc = pc, ![w].slot = k ]
          PROVE  worker' \in [ Worker -> WorkerState ]
      BY <2>1, <3>1, ZenonT(30) DEF WorkerState
    <3>2. CASE SkipSlot(w)
      <4>1. worker[w].slot \in 0 .. MaxTasks
        BY <2>1 DEF WorkerState
      <4>2. CASE worker[w].slot = MaxTasks
        <5>1. worker' = [ worker EXCEPT ![w].pc = "loop", ![w].slot = 0 ]
          BY <3>2, <4>2 DEF SkipSlot
        <5>2. QED
          BY <3>1, <5>1
      <4>3. CASE worker[w].slot # MaxTasks
        <5>1. worker[w].slot + 1 \in 0 .. MaxTasks
          BY <2>1, <4>1, <4>3
        <5>2. worker' = [ worker EXCEPT ![w].pc = "scan",
                                        ![w].slot = worker[w].slot + 1 ]
          BY <3>2, <4>3 DEF SkipSlot
        <5>3. QED
          BY <3>1, <5>1, <5>2
      <4>4. QED
        BY <4>2, <4>3
    <3>3. CASE CheckActive(w)
      <4>1. PICK pc \in {"scan", "lock"} :
              worker' = [ worker EXCEPT ![w].pc = pc, ![w].slot = 0 ]
        BY <3>3 DEF CheckActive
      <4>2. QED
        BY <3>1, <4>1
    <3>4. CASE Top(w) \/ Wait(w) \/ Spurious(w)
      BY <2>1, <3>4 DEF Top, Wait, Spurious, Continue, WorkerState
    <3>5. QED
      BY <3>2, <3>3, <3>4
  <2>3. QED
    BY <2>2 DEF Inv, Types, Top, CheckActive, SkipSlot, Wait, Spurious
<1>2. \A v \in Worker : worker'[v] = worker[v] \/ Unoccupied(v)
  BY DEF Inv, Types, WorkerState, Top, CheckActive, SkipSlot, Wait, Spurious,
         Continue, Doing, Unoccupied
<1>3. UNCHANGED << activeCount, available, task, flag, runtime, runs >>
  BY DEF Top, CheckActive, SkipSlot, Wait, Spurious
<1>4. Sections' /\ EachIndexOnce'
  BY <1>3 DEF Inv, Sections, SectionOK, EachIndexOnce, At
<1>5. QED
  BY <1>1, <1>2, <1>3, <1>4, QuietStep

(* notify_all() wakes workers; those are not busy.                         *)
LEMMA NotifyAllKeeps ==
  ASSUME Types, NotifyAll
  PROVE  /\ worker' \in [ Worker -> WorkerState ]
         /\ \A w \in Worker : worker'[w] = worker[w] \/ Unoccupied(w)
BY DEF Types, WorkerState, NotifyAll, Unoccupied

(* destroy(), and a step that changes nothing.                             *)
LEMMA OwnerSteps ==
  ASSUME Inv, Owner \/ UNCHANGED vars
  PROVE  Inv'
<1>1. UNCHANGED << activeCount, available, task, flag, runtime, runs >>
  BY DEF Owner, Destroy, DestroyNotify, Join, vars
<1>2. /\ worker' \in [ Worker -> WorkerState ]
      /\ \A w \in Worker : worker'[w] = worker[w] \/ Unoccupied(w)
  BY NotifyAllKeeps DEF Inv, Types, Owner, Destroy, DestroyNotify, Join, vars
<1>3. Types'
  BY <1>1, <1>2 DEF Inv, Types, Owner, Destroy, DestroyNotify, Join, vars
<1>4. Sections' /\ EachIndexOnce'
  BY <1>1 DEF Inv, Sections, SectionOK, EachIndexOnce, At
<1>5. QED
  BY <1>1, <1>2, <1>3, <1>4, QuietStep

-----------------------------------------------------------------------------
(* Steps of a runtime outside a loop.                                      *)

(* A runtime changes its own state only.                                   *)
LEMMA RuntimeTyped ==
  ASSUME Types, NEW r \in Runtime, NEW state \in RuntimeState,
         runtime' = [ runtime EXCEPT ![r] = state ]
  PROVE  /\ runtime' \in [ Runtime -> RuntimeState ]
         /\ runtime'[r] = state
         /\ \A s \in Runtime : s # r => runtime'[s] = runtime[s]
BY DEF Types

(* Those between begin and a loop.                                         *)
LEMMA RuntimeMoves ==
  ASSUME Inv, NEW r \in Runtime,
         \/ Notify(r) \/ SkipBind(r) \/ NotifyBind(r)
         \/ \E size \in Sizes : Loop(r, size)
  PROVE  Inv'
<1>1. /\ worker' \in [ Worker -> WorkerState ]
      /\ \A w \in Worker : worker'[w] = worker[w] \/ Unoccupied(w)
  BY NotifyAllKeeps DEF Inv, Types, Notify, SkipBind, NotifyBind, Loop
<1>2. UNCHANGED << activeCount, available, task, flag, runs >>
  BY DEF Notify, SkipBind, NotifyBind, Loop
<1>3. runtime' \in [ Runtime -> RuntimeState ]
  <2>1. runtime \in [ Runtime -> RuntimeState ]
    BY DEF Inv, Types
  <2>2. CASE Notify(r) \/ SkipBind(r)
    BY <2>1, <2>2 DEF Notify, SkipBind, Goto, RuntimeState
  <2>3. CASE NotifyBind(r)
    <3>1. NumberThread \in Nat
      BY ThreadPoolAssumption
    <3>2. [ runtime[r] EXCEPT !.pc = "enqueue", !.bind = TRUE, !.size = NumberThread ]
            \in RuntimeState
      BY <2>1, <3>1 DEF RuntimeState
    <3>3. QED
      BY <2>1, <2>3, <3>2 DEF NotifyBind
  <2>4. ASSUME NEW size \in Sizes, Loop(r, size)
        PROVE  runtime' \in [ Runtime -> RuntimeState ]
    <3>1. size \in Nat
      BY ThreadPoolAssumption
    <3>2. [ runtime[r] EXCEPT !.pc = "enqueue", !.size = size ] \in RuntimeState
      BY <2>1, <3>1 DEF RuntimeState
    <3>3. QED
      BY <2>1, <2>4, <3>2 DEF Loop
  <2>5. QED
    BY <2>2, <2>3, <2>4
<1>4. Types'
  BY <1>1, <1>2, <1>3 DEF Inv, Types, Notify, SkipBind, NotifyBind, Loop
<1>5. \A s \in Runtime : s # r => runtime'[s] = runtime[s]
  BY DEF Inv, Types, Notify, SkipBind, NotifyBind, Loop, Goto
<1>6. /\ Outside(r) /\ ~At(r, "deactive") /\ ~At(r, "deactive")'
      /\ runtime'[r].index = runtime[r].index
      /\ runtime'[r].open = runtime[r].open
      /\ runtime'[r].depth = runtime[r].depth
      /\ (runtime'[r].bind \/ At(r, "notifyBind")')
           <=> (runtime[r].bind \/ At(r, "notifyBind"))
      /\ runtime[r].pc \in {"notify", "bound?", "notifyBind", "ready"}
      /\ runtime'[r].pc \in {"bound?", "ready", "enqueue"}
      /\ runtime'[r].bind => At(r, "enqueue")'
  BY DEF Inv, Types, RuntimeState, Sections, SectionOK, Notify, SkipBind,
         NotifyBind, Loop, Goto, At, Outside, InLoop
<1>7. Sections'
  <2> SUFFICES ASSUME NEW s \in Runtime
               PROVE  SectionOK(s)'
    BY DEF Sections
  <2>1. SectionOK(s)
    BY DEF Inv, Sections
  <2>2. CASE s = r
    BY <1>6, <2>1, <2>2 DEF SectionOK, At
  <2>3. CASE s # r
    BY <1>5, <2>1, <2>3 DEF SectionOK, At
  <2>4. QED
    BY <2>2, <2>3
<1>8. EachIndexOnce'
  BY <1>2, <1>5, <1>6 DEF Inv, EachIndexOnce, At
<1>9. QED
  BY <1>1, <1>2, <1>4, <1>5, <1>6, <1>7, <1>8, QuietStep

(* A section that changes, among sections that do not.                     *)
LEMMA SectionsKept ==
  ASSUME Sections, NEW r \in Runtime, SectionOK(r)',
         \A s \in Runtime : s # r => runtime'[s] = runtime[s]
  PROVE  Sections'
<1> SUFFICES ASSUME NEW s \in Runtime
             PROVE  SectionOK(s)'
  BY DEF Sections
<1>1. CASE s = r
  BY <1>1
<1>2. CASE s # r
  <2>1. SectionOK(s) /\ runtime'[s] = runtime[s]
    BY <1>2 DEF Sections
  <2>2. QED
    BY <2>1 DEF SectionOK, At
<1>3. QED
  BY <1>1, <1>2

(* A loop the caller runs alone.                                           *)
LEMMA InlineInv ==
  ASSUME Inv, NEW r \in Runtime, Inline(r)
  PROVE  Inv'
<1> DEFINE state == [ runtime[r] EXCEPT !.pc = "return" ]
<1>1. state \in RuntimeState
  BY ZenonT(30) DEF Inv, Types, RuntimeState
<1>2. /\ runtime' \in [ Runtime -> RuntimeState ]
      /\ runtime'[r] = state
      /\ \A s \in Runtime : s # r => runtime'[s] = runtime[s]
  <2> HIDE DEF state
  <2>1. runtime' = [ runtime EXCEPT ![r] = state ]
    BY DEF Inline, Goto, state
  <2>2. QED
    BY <1>1, <2>1, RuntimeTyped DEF Inv
<1>3. /\ runs'[r] = [ v \in Items(runtime[r].size) |-> 1 ]
      /\ \A s \in Runtime : s # r => runs'[s] = runs[s]
      /\ DOMAIN runs' = Runtime
  BY DEF Inv, Types, Inline
<1>4. Types'
  BY <1>2, <1>3 DEF Inv, Types, Inline
<1>5. SectionOK(r)'
  BY <1>2 DEF Inv, Types, RuntimeState, Sections, SectionOK, Inline, At
<1>6. Sections'
  BY <1>2, <1>5, SectionsKept DEF Inv
<1>7. EachIndexOnce'
  <2> SUFFICES ASSUME NEW s \in Runtime, At(s, "return")'
               PROVE  /\ DOMAIN runs'[s] = Items(runtime'[s].size)
                      /\ \A v \in DOMAIN runs'[s] : runs'[s][v] = 1
    BY DEF EachIndexOnce
  <2>1. CASE s = r
    BY <1>2, <1>3, <2>1 DEF Inv, Types, RuntimeState
  <2>2. CASE s # r
    BY <1>2, <1>3, <2>2 DEF Inv, EachIndexOnce, At
  <2>3. QED
    BY <2>1, <2>2
<1>8. /\ Outside(r) /\ ~At(r, "deactive") /\ ~At(r, "deactive")'
      /\ runtime'[r].index = runtime[r].index
      /\ runtime'[r].open = runtime[r].open
      /\ (runtime'[r].bind \/ At(r, "notifyBind")')
           <=> (runtime[r].bind \/ At(r, "notifyBind"))
  BY <1>2 DEF Inv, Types, RuntimeState, Inline, At, Outside, InLoop
<1>9. UNCHANGED << activeCount, available, task, flag, worker >>
  BY DEF Inline
<1>10. QED
  BY <1>2, <1>3, <1>4, <1>6, <1>7, <1>8, <1>9, QuietStep

-----------------------------------------------------------------------------
(* Users of the pool come and go.                                          *)

(* A runtime that takes a slot is counted.                                 *)
LEMMA HolderJoins ==
  ASSUME UsersCounted, NEW r \in Runtime, r \notin Holding,
         Holding' = Holding \cup {r}, Binding' = Binding,
         activeCount' = activeCount + 1
  PROVE  UsersCounted'
<1>1. /\ IsFiniteSet(Holding')
      /\ Cardinality(Holding') = Cardinality(Holding) + 1
  BY FS_AddElement DEF UsersCounted
<1>2. Cardinality(Holding) \in Nat /\ Cardinality(Binding) \in Nat
  BY FS_CardinalityType DEF UsersCounted
<1>3. QED
  BY <1>1, <1>2 DEF UsersCounted

(* A runtime gives its slot back.                                          *)
LEMMA HolderLeaves ==
  ASSUME UsersCounted, NEW r \in Runtime, r \in Holding,
         Holding' = Holding \ {r}, Binding' = Binding,
         activeCount' = activeCount - 1
  PROVE  UsersCounted'
<1>1. /\ IsFiniteSet(Holding')
      /\ Cardinality(Holding') = Cardinality(Holding) - 1
  BY FS_RemoveElement DEF UsersCounted
<1>2. Cardinality(Holding) \in Nat /\ Cardinality(Binding) \in Nat
  BY FS_CardinalityType DEF UsersCounted
<1>3. QED
  BY <1>1, <1>2 DEF UsersCounted

(* A runtime begins to bind its threads.                                   *)
LEMMA BinderJoins ==
  ASSUME UsersCounted, NEW r \in Runtime, r \notin Binding,
         Binding' = Binding \cup {r}, Holding' = Holding,
         activeCount' = activeCount + 1
  PROVE  UsersCounted'
<1>1. /\ IsFiniteSet(Binding')
      /\ Cardinality(Binding') = Cardinality(Binding) + 1
  BY FS_AddElement DEF UsersCounted
<1>2. Cardinality(Holding) \in Nat /\ Cardinality(Binding) \in Nat
  BY FS_CardinalityType DEF UsersCounted
<1>3. QED
  BY <1>1, <1>2 DEF UsersCounted

(* It has bound them.                                                      *)
LEMMA BinderLeaves ==
  ASSUME UsersCounted, NEW r \in Runtime, r \in Binding,
         Binding' = Binding \ {r}, Holding' = Holding,
         activeCount' = activeCount - 1
  PROVE  UsersCounted'
<1>1. /\ IsFiniteSet(Binding')
      /\ Cardinality(Binding') = Cardinality(Binding) - 1
  BY FS_RemoveElement DEF UsersCounted
<1>2. Cardinality(Holding) \in Nat /\ Cardinality(Binding) \in Nat
  BY FS_CardinalityType DEF UsersCounted
<1>3. QED
  BY <1>1, <1>2 DEF UsersCounted

(* What is left to show of a step of a runtime outside a loop that moves   *)
(* users or slots.                                                         *)
LEMMA OutsideStep ==
  ASSUME Inv, NEW r \in Runtime, NEW state \in RuntimeState,
         runtime' = [ runtime EXCEPT ![r] = state ],
         ~InLoop(r), state.pc \notin {"flags", "spin", "return"},
         UNCHANGED << stop, task, flag, worker, owner >>,
         available' \in [ Slot -> BOOLEAN ],
         DOMAIN runs' = Runtime,
         \A s \in Runtime : s # r => runs'[s] = runs[s],
         SectionOK(r)', UsersCounted', SlotsHeld'
  PROVE  Inv'
<1>1. /\ runtime' \in [ Runtime -> RuntimeState ]
      /\ runtime'[r] = state
      /\ \A s \in Runtime : s # r => runtime'[s] = runtime[s]
  BY RuntimeTyped DEF Inv
<1>2. Types'
  BY <1>1 DEF Inv, Types
<1>3. Sections'
  BY <1>1, SectionsKept DEF Inv
<1>4. Outside(r)
  BY <1>1 DEF Outside, InLoop
<1>5. Loops'
  BY <1>1, <1>4, LoopsKept DEF Inv, Loops
<1>6. EachIndexOnce'
  BY <1>1 DEF Inv, EachIndexOnce, At
<1>7. QED
  BY <1>2, <1>3, <1>5, <1>6 DEF Inv, Loops

(* A set of natural numbers has a least element.                           *)
LEMMA Least ==
  ASSUME NEW S \in SUBSET Nat, S # {}
  PROVE  \E k \in S : \A l \in S : k <= l
<1> DEFINE Less == { p \in Nat \X Nat : p[1] < p[2] }
<1>1. IsWellFoundedOn(Less, Nat)
  BY NatLessThanWellFounded DEF OpToRel
<1>2. PICK k \in S : \A l \in S : << l, k >> \notin Less
  <2> HIDE DEF Less
  <2>1. QED
    BY <1>1, WFMin
<1>3. ASSUME NEW l \in S
      PROVE  k <= l
  <2>1. k \in Nat /\ l \in Nat
    OBVIOUS
  <2>2. l < k => << l, k >> \in Less
    BY <2>1
  <2>3. QED
    BY <1>2, <2>1, <2>2
<1>4. QED
  BY <1>3

(* The slot acquireWorkIndex takes is a free one.                          *)
LEMMA FirstFreeIsFree ==
  ASSUME FreeSlots # {}
  PROVE  FirstFree \in Slot /\ available[FirstFree]
<1>1. FreeSlots \in SUBSET Nat /\ FreeSlots \subseteq Slot
  BY ThreadPoolAssumption DEF FreeSlots, Slot
<1>2. \E k \in FreeSlots : \A l \in FreeSlots : k <= l
  BY <1>1, Least
<1>3. FirstFree \in FreeSlots
  BY <1>2 DEF FirstFree
<1>4. QED
  BY <1>1, <1>3 DEF FreeSlots

(* onConcurrencyBegin takes a slot nobody holds.                           *)
LEMMA BeginInv ==
  ASSUME Inv, NEW r \in Runtime, Begin(r)
  PROVE  Inv'
<1> DEFINE needs == runtime[r].index < 0 /\ FreeSlots # {}
           index == IF needs THEN FirstFree ELSE runtime[r].index
           state == [ runtime[r] EXCEPT !.pc = "activate",
                                        !.depth = runtime[r].depth + 1,
                                        !.index = index ]
<1>1. runtime[r] \in RuntimeState /\ MaxTasks \in Nat /\ MaxDepth \in Nat
  BY ThreadPoolAssumption DEF Inv, Types
<1>2. index \in Slot \cup {-1}
  BY <1>1, FirstFreeIsFree DEF RuntimeState
<1>3. state \in RuntimeState
  <2>1. runtime[r].depth + 1 \in 0 .. MaxDepth
    BY <1>1 DEF RuntimeState, Begin
  <2> HIDE DEF index
  <2>2. QED
    BY <1>1, <1>2, <2>1 DEF RuntimeState
<1>4. runtime' = [ runtime EXCEPT ![r] = state ]
  BY DEF Begin
<1>5. /\ runtime'[r] = state
      /\ \A s \in Runtime : s # r => runtime'[s] = runtime[s]
  BY <1>3, <1>4, RuntimeTyped DEF Inv
<1>6. /\ runtime[r].pc \in {"closed", "ready"}
      /\ runtime'[r].pc = "activate"
      /\ runtime'[r].depth = runtime[r].depth + 1
      /\ runtime'[r].index = index
      /\ runtime'[r].open = runtime[r].open
      /\ runtime'[r].bind = runtime[r].bind
  <2>1. runtime[r].pc \in {"closed", "ready"}
    BY DEF Begin, At
  <2> HIDE DEF index
  <2>2. QED
    BY <1>1, <1>5, <2>1 DEF RuntimeState
<1> HIDE DEF state
<1>7. SectionOK(r) /\ ~runtime[r].bind
  BY <1>6 DEF Inv, Sections, SectionOK
<1>8. SectionOK(r)'
  <2>1. /\ runtime[r].open \in Nat /\ runtime[r].depth \in Nat
        /\ runtime[r].index = -1 \/ runtime[r].index \in Nat
    BY <1>1 DEF RuntimeState, Slot
  <2>2. runtime[r].index # -1 => index = runtime[r].index
    BY <2>1
  <2> HIDE DEF index
  <2>3. QED
    BY <1>6, <1>7, <2>1, <2>2 DEF SectionOK, At
<1>9. UsersCounted'
  BY <1>5, <1>6, <1>7, UsersKept DEF Inv, Begin, At
<1>10. available' \in [ Slot -> BOOLEAN ]
  BY DEF Inv, Types, Begin, Acquire
<1>11. SlotsHeld'
  <2>1. CASE needs
    <3>1. index \in Slot /\ available[index] /\ runtime[r].index = -1
      BY <1>1, <2>1, FirstFreeIsFree DEF RuntimeState, Slot
    <3>2. available' = [ available EXCEPT ![index] = FALSE ]
      BY <2>1 DEF Begin, Acquire
    <3>3. \A s \in Runtime : runtime[s].index = index => At(s, "deactive")
      BY <3>1 DEF Inv, SlotsHeld
    <3>4. index # -1
      BY <3>1 DEF Slot
    <3> HIDE DEF index, needs
    <3>5. ASSUME NEW s \in Runtime, s # r, runtime'[s].index = index
          PROVE  At(s, "deactive")'
      BY <1>5, <3>3, <3>5 DEF At
    <3>6. \A s, t \in Runtime :
            (s # t /\ runtime'[s].index = runtime'[t].index /\ runtime'[s].index # -1)
              => At(s, "deactive")' \/ At(t, "deactive")'
      BY <1>5, <1>6, <3>5 DEF Inv, SlotsHeld, At
    <3>7. ASSUME NEW k \in Slot
          PROVE  available'[k] <=>
                   \A s \in Runtime : runtime'[s].index = k => At(s, "deactive")'
      <4>1. CASE k = index
        BY <1>6, <3>1, <3>2, <4>1 DEF Inv, Types, At
      <4>2. CASE k # index
        <5>1. k # -1 /\ available'[k] = available[k]
          BY <3>2, <4>2 DEF Inv, Types, Slot
        <5>2. available[k] <=> \A s \in Runtime : runtime[s].index = k => At(s, "deactive")
          BY DEF Inv, SlotsHeld
        <5>3. QED
          BY <1>5, <1>6, <3>1, <4>2, <5>1, <5>2 DEF At
      <4>3. QED
        BY <4>1, <4>2
    <3>8. QED
      BY <3>6, <3>7 DEF SlotsHeld
  <2>2. CASE ~needs
    <3>1. available' = available /\ index = runtime[r].index
      BY <2>2 DEF Begin
    <3> HIDE DEF index, needs
    <3>2. QED
      BY <1>5, <1>6, <3>1, SlotsKept DEF Inv, At
  <2>3. QED
    BY <2>1, <2>2
<1>12. /\ UNCHANGED << stop, task, flag, worker, owner >>
       /\ DOMAIN runs' = Runtime
       /\ \A s \in Runtime : s # r => runs'[s] = runs[s]
  BY DEF Inv, Types, Begin
<1>13. ~InLoop(r) /\ state.pc \notin {"flags", "spin", "return"}
  BY <1>5, <1>6 DEF InLoop
<1>14. QED
  BY <1>3, <1>4, <1>8, <1>9, <1>10, <1>11, <1>12, <1>13, OutsideStep

(* The first begin with a slot makes the runtime a user of the pool.       *)
LEMMA ActivateInv ==
  ASSUME Inv, NEW r \in Runtime, Activate(r)
  PROVE  Inv'
<1> DEFINE first == runtime[r].index >= 0 /\ runtime[r].open = 0
           pc == IF first THEN "notify" ELSE "bound?"
           open == runtime[r].open + (IF runtime[r].index >= 0 THEN 1 ELSE 0)
           state == [ runtime[r] EXCEPT !.pc = pc, !.open = open ]
<1>1. /\ runtime[r] \in RuntimeState /\ MaxTasks \in Nat /\ MaxDepth \in Nat
      /\ SectionOK(r) /\ At(r, "activate")
  BY ThreadPoolAssumption DEF Inv, Types, Sections, Activate
<1>2. /\ runtime[r].open \in Nat /\ runtime[r].depth \in Nat
      /\ runtime[r].depth <= MaxDepth /\ runtime[r].open < runtime[r].depth
      /\ runtime[r].index = -1 \/ runtime[r].index \in Nat
      /\ ~runtime[r].bind
  BY <1>1 DEF RuntimeState, SectionOK, At, Slot
<1>3. open \in 0 .. MaxDepth /\ open <= runtime[r].depth
  BY <1>1, <1>2
<1>4. pc \in {"notify", "bound?"}
  OBVIOUS
<1>5. runtime' = [ runtime EXCEPT ![r] = state ]
  BY DEF Activate
<1>6. /\ first <=> (runtime[r].index # -1 /\ runtime[r].open = 0)
      /\ runtime[r].index # -1 => open > 0
      /\ runtime[r].index = -1 => open = 0 /\ runtime[r].open = 0
  BY <1>1, <1>2 DEF SectionOK
<1>7. activeCount' = activeCount + (IF first THEN 1 ELSE 0)
  BY DEF Activate
<1> HIDE DEF pc, open, first
<1>8. state \in RuntimeState
  BY <1>1, <1>3, <1>4 DEF RuntimeState
<1>9. /\ runtime'[r] = state
      /\ \A s \in Runtime : s # r => runtime'[s] = runtime[s]
  BY <1>5, <1>8, RuntimeTyped DEF Inv
<1>10. /\ runtime'[r].pc = pc /\ runtime'[r].open = open
       /\ runtime'[r].index = runtime[r].index
       /\ runtime'[r].depth = runtime[r].depth
       /\ runtime'[r].bind = runtime[r].bind
       /\ state.pc = pc
  BY <1>1, <1>9 DEF RuntimeState
<1> HIDE DEF state
<1>11. SectionOK(r)'
  BY <1>1, <1>2, <1>3, <1>4, <1>6, <1>10 DEF SectionOK, At
<1>12. UsersCounted'
  <2>1. Binding' = Binding
    BY <1>1, <1>4, <1>9, <1>10 DEF Binding, At
  <2>2. CASE first
    <3>1. r \notin Holding /\ Holding' = Holding \cup {r}
      BY <1>1, <1>4, <1>6, <1>9, <1>10, <2>2 DEF Holding, At
    <3>2. QED
      BY <1>7, <2>1, <2>2, <3>1, HolderJoins DEF Inv
  <2>3. CASE ~first
    <3>1. Holding' = Holding
      BY <1>1, <1>2, <1>4, <1>6, <1>9, <1>10, <2>3 DEF Holding, At
    <3>2. activeCount \in Int
      BY FS_CardinalityType DEF Inv, UsersCounted
    <3>3. QED
      BY <1>7, <2>1, <2>3, <3>1, <3>2 DEF Inv, UsersCounted
  <2>4. QED
    BY <2>2, <2>3
<1>13. SlotsHeld'
  BY <1>1, <1>4, <1>9, <1>10, SlotsKept DEF Inv, At, Activate
<1>14. /\ UNCHANGED << stop, task, flag, worker, owner >>
       /\ available' \in [ Slot -> BOOLEAN ] /\ DOMAIN runs' = Runtime
       /\ \A s \in Runtime : s # r => runs'[s] = runs[s]
       /\ ~InLoop(r) /\ state.pc \notin {"flags", "spin", "return"}
  BY <1>4, <1>10 DEF Inv, Types, Activate, InLoop, At
<1>15. QED
  BY <1>5, <1>8, <1>11, <1>12, <1>13, <1>14, OutsideStep

(* _bindCPUCore keeps the pool active for a loop of its own.               *)
LEMMA BindInv ==
  ASSUME Inv, NEW r \in Runtime, Bind(r)
  PROVE  Inv'
<1> DEFINE state == [ runtime[r] EXCEPT !.pc = "notifyBind" ]
<1>1. runtime[r] \in RuntimeState /\ SectionOK(r) /\ At(r, "bound?")
  BY DEF Inv, Types, Sections, Bind
<1>2. state \in RuntimeState
  BY <1>1 DEF RuntimeState
<1>3. runtime' = [ runtime EXCEPT ![r] = state ]
  BY DEF Bind, Goto
<1>4. /\ runtime'[r] = state
      /\ \A s \in Runtime : s # r => runtime'[s] = runtime[s]
  BY <1>2, <1>3, RuntimeTyped DEF Inv
<1>5. /\ runtime'[r].pc = "notifyBind" /\ runtime'[r].open = runtime[r].open
      /\ runtime'[r].index = runtime[r].index
      /\ runtime'[r].depth = runtime[r].depth
      /\ runtime'[r].bind = runtime[r].bind
      /\ state.pc = "notifyBind"
  BY <1>1, <1>4 DEF RuntimeState
<1> HIDE DEF state
<1>6. SectionOK(r)'
  BY <1>1, <1>5 DEF SectionOK, At
<1>7. UsersCounted'
  <2>1. Holding' = Holding
    BY <1>1, <1>4, <1>5 DEF Holding, At
  <2>2. r \notin Binding /\ Binding' = Binding \cup {r}
    BY <1>1, <1>4, <1>5 DEF Binding, At, SectionOK
  <2>3. QED
    BY <2>1, <2>2, BinderJoins DEF Inv, Bind
<1>8. SlotsHeld'
  BY <1>1, <1>4, <1>5, SlotsKept DEF Inv, At, Bind
<1>9. /\ UNCHANGED << stop, task, flag, worker, owner >>
      /\ available' \in [ Slot -> BOOLEAN ] /\ DOMAIN runs' = Runtime
      /\ \A s \in Runtime : s # r => runs'[s] = runs[s]
      /\ ~InLoop(r) /\ state.pc \notin {"flags", "spin", "return"}
  BY <1>5 DEF Inv, Types, Bind, InLoop, At
<1>10. QED
  BY <1>2, <1>3, <1>6, <1>7, <1>8, <1>9, OutsideStep

(* enqueue returns, and _bindCPUCore leaves.                               *)
LEMMA ReturnInv ==
  ASSUME Inv, NEW r \in Runtime, Return(r)
  PROVE  Inv'
<1> DEFINE state == [ runtime[r] EXCEPT !.pc = "ready", !.bind = FALSE,
                                        !.size = 0, !.next = 0 ]
<1>1. runtime[r] \in RuntimeState /\ SectionOK(r) /\ At(r, "return")
  BY DEF Inv, Types, Sections, Return
<1>2. state \in RuntimeState
  BY <1>1 DEF RuntimeState
<1>3. runtime' = [ runtime EXCEPT ![r] = state ]
  BY DEF Return
<1>4. /\ runtime'[r] = state
      /\ \A s \in Runtime : s # r => runtime'[s] = runtime[s]
  BY <1>2, <1>3, RuntimeTyped DEF Inv
<1>5. /\ runtime'[r].pc = "ready" /\ runtime'[r].open = runtime[r].open
      /\ runtime'[r].index = runtime[r].index
      /\ runtime'[r].depth = runtime[r].depth
      /\ runtime'[r].bind = FALSE
      /\ state.pc = "ready"
  BY <1>1, <1>4 DEF RuntimeState
<1> HIDE DEF state
<1>6. SectionOK(r)'
  BY <1>1, <1>5 DEF SectionOK, At
<1>7. UsersCounted'
  <2>1. Holding' = Holding
    BY <1>1, <1>4, <1>5 DEF Holding, At
  <2>2. CASE runtime[r].bind
    <3>1. r \in Binding /\ Binding' = Binding \ {r}
      BY <1>1, <1>4, <1>5, <2>2 DEF Binding, At
    <3>2. activeCount' = activeCount - 1
      BY <2>2 DEF Return, Deactive
    <3>3. QED
      BY <2>1, <3>1, <3>2, BinderLeaves DEF Inv
  <2>3. CASE ~runtime[r].bind
    <3>1. Binding' = Binding
      BY <1>1, <1>4, <1>5, <2>3 DEF Binding, At
    <3>2. activeCount' = activeCount
      BY <2>3 DEF Return
    <3>3. QED
      BY <2>1, <3>1, <3>2 DEF Inv, UsersCounted
  <2>4. QED
    BY <2>2, <2>3
<1>8. SlotsHeld'
  BY <1>1, <1>4, <1>5, SlotsKept DEF Inv, At, Return
<1>9. /\ UNCHANGED << stop, task, flag, worker, owner >>
      /\ available' \in [ Slot -> BOOLEAN ] /\ DOMAIN runs' = Runtime
      /\ \A s \in Runtime : s # r => runs'[s] = runs[s]
      /\ ~InLoop(r) /\ state.pc \notin {"flags", "spin", "return"}
  BY <1>5 DEF Inv, Types, Return, InLoop, At
<1>10. QED
  BY <1>2, <1>3, <1>6, <1>7, <1>8, <1>9, OutsideStep

(* onConcurrencyEnd: the end of the first begin that had a slot gives the  *)
(* slot back; the runtime stays a user until it has left the pool.         *)
LEMMA EndInv ==
  ASSUME Inv, NEW r \in Runtime, End(r)
  PROVE  Inv'
<1> DEFINE depth == runtime[r].depth - 1
           open == IF runtime[r].open > 0 THEN runtime[r].open - 1 ELSE 0
           last == runtime[r].index >= 0 /\ open = 0
           pc == IF last THEN "deactive" ELSE IF depth = 0 THEN "closed" ELSE "ready"
           state == [ runtime[r] EXCEPT !.depth = depth, !.open = open, !.pc = pc ]
<1>1. /\ runtime[r] \in RuntimeState /\ MaxTasks \in Nat /\ MaxDepth \in Nat
      /\ SectionOK(r) /\ At(r, "ready")
  BY ThreadPoolAssumption DEF Inv, Types, Sections, End
<1>2. /\ runtime[r].open \in Nat /\ runtime[r].depth \in Nat \ {0}
      /\ runtime[r].depth <= MaxDepth /\ runtime[r].open <= runtime[r].depth
      /\ runtime[r].index = -1 \/ runtime[r].index \in Nat
      /\ runtime[r].index = -1 <=> runtime[r].open = 0
      /\ ~runtime[r].bind
  BY <1>1 DEF RuntimeState, SectionOK, At, Slot
<1>3. open \in 0 .. MaxDepth /\ depth \in 0 .. MaxDepth /\ open <= depth
  BY <1>1, <1>2
<1>4. /\ last => runtime[r].index # -1 /\ open = 0 /\ runtime[r].open > 0
      /\ ~last => (open > 0 <=> runtime[r].open > 0)
      /\ ~last /\ depth = 0 => runtime[r].index = -1
      /\ runtime[r].index = -1 => open = 0
      /\ runtime[r].index # -1 => open > 0 \/ last
      /\ pc \in {"deactive", "closed", "ready"}
      /\ pc = "deactive" <=> last
      /\ pc = "closed" <=> ~last /\ depth = 0
  BY <1>2
<1>5. runtime' = [ runtime EXCEPT ![r] = state ]
  BY DEF End
<1>6. available' = IF last THEN [ available EXCEPT ![runtime[r].index] = TRUE ]
                           ELSE available
  BY DEF End
<1> HIDE DEF pc, open, last, depth
<1>7. state \in RuntimeState
  BY <1>1, <1>3, <1>4 DEF RuntimeState
<1>8. /\ runtime'[r] = state
      /\ \A s \in Runtime : s # r => runtime'[s] = runtime[s]
  BY <1>5, <1>7, RuntimeTyped DEF Inv
<1>9. /\ runtime'[r].pc = pc /\ runtime'[r].open = open
      /\ runtime'[r].index = runtime[r].index
      /\ runtime'[r].depth = depth
      /\ runtime'[r].bind = runtime[r].bind
      /\ state.pc = pc
  BY <1>1, <1>8 DEF RuntimeState
<1> HIDE DEF state
<1>10. SectionOK(r)'
  BY <1>2, <1>3, <1>4, <1>9 DEF SectionOK, At
<1>11. UsersCounted'
  <2>1. (runtime'[r].open > 0 \/ At(r, "deactive")')
          <=> (runtime[r].open > 0 \/ At(r, "deactive"))
    BY <1>1, <1>3, <1>4, <1>9 DEF At
  <2>2. (runtime'[r].bind \/ At(r, "notifyBind")')
          <=> (runtime[r].bind \/ At(r, "notifyBind"))
    BY <1>1, <1>4, <1>9 DEF At
  <2>3. QED
    BY <1>8, <2>1, <2>2, UsersKept DEF Inv, End, At
<1>12. SlotsHeld'
  <2>1. CASE ~last
    <3>1. available' = available
      BY <1>6, <2>1
    <3>2. QED
      BY <1>1, <1>4, <1>8, <1>9, <2>1, <3>1, SlotsKept DEF Inv, At
  <2>2. CASE last
    <3> DEFINE index == runtime[r].index
    <3>1. index \in Slot /\ available' = [ available EXCEPT ![index] = TRUE ]
      BY <1>1, <1>4, <1>6, <2>2 DEF RuntimeState
    <3>2. At(r, "deactive")' /\ ~At(r, "deactive")
      BY <1>1, <1>4, <1>9, <2>2 DEF At
    <3>3. \A s, t \in Runtime :
            (s # t /\ runtime'[s].index = runtime'[t].index /\ runtime'[s].index # -1)
              => At(s, "deactive")' \/ At(t, "deactive")'
      BY <1>8, <1>9, <3>2 DEF Inv, SlotsHeld, At
    <3>4. ASSUME NEW k \in Slot
          PROVE  available'[k] <=>
                   \A s \in Runtime : runtime'[s].index = k => At(s, "deactive")'
      <4>1. CASE k = index
        <5>1. available'[k]
          BY <3>1, <4>1 DEF Inv, Types
        <5>2. ASSUME NEW s \in Runtime, s # r, runtime[s].index = k
              PROVE  At(s, "deactive")
          <6>1. index # -1
            BY <1>4, <2>2
          <6>2. QED
            BY <3>2, <4>1, <5>2, <6>1 DEF Inv, SlotsHeld
        <5>3. QED
          BY <1>8, <3>2, <5>1, <5>2 DEF At
      <4>2. CASE k # index
        <5>1. available'[k] = available[k]
          BY <3>1, <4>2 DEF Inv, Types
        <5>2. available[k] <=> \A s \in Runtime : runtime[s].index = k => At(s, "deactive")
          BY DEF Inv, SlotsHeld
        <5>3. QED
          BY <1>8, <1>9, <4>2, <5>1, <5>2 DEF At
      <4>3. QED
        BY <4>1, <4>2
    <3>5. QED
      BY <3>3, <3>4 DEF SlotsHeld
  <2>3. QED
    BY <2>1, <2>2
<1>13. /\ UNCHANGED << stop, task, flag, worker, owner >>
       /\ available' \in [ Slot -> BOOLEAN ] /\ DOMAIN runs' = Runtime
       /\ \A s \in Runtime : s # r => runs'[s] = runs[s]
       /\ ~InLoop(r) /\ state.pc \notin {"flags", "spin", "return"}
  BY <1>1, <1>4, <1>6, <1>9 DEF Inv, Types, End, InLoop, At
<1>14. QED
  BY <1>5, <1>7, <1>10, <1>11, <1>12, <1>13, OutsideStep

(* ... and has left it: the slot may have a new holder by then.            *)
LEMMA LeaveInv ==
  ASSUME Inv, NEW r \in Runtime, Leave(r)
  PROVE  Inv'
<1> DEFINE pc == IF runtime[r].depth = 0 THEN "closed" ELSE "ready"
           state == [ runtime[r] EXCEPT !.index = -1, !.pc = pc ]
<1>1. runtime[r] \in RuntimeState /\ SectionOK(r) /\ At(r, "deactive")
  BY DEF Inv, Types, Sections, Leave
<1>2. pc \in {"closed", "ready"} /\ (pc = "closed" <=> runtime[r].depth = 0)
  OBVIOUS
<1>3. runtime' = [ runtime EXCEPT ![r] = state ]
  BY DEF Leave
<1> HIDE DEF pc
<1>4. state \in RuntimeState
  BY <1>1, <1>2 DEF RuntimeState
<1>5. /\ runtime'[r] = state
      /\ \A s \in Runtime : s # r => runtime'[s] = runtime[s]
  BY <1>3, <1>4, RuntimeTyped DEF Inv
<1>6. /\ runtime'[r].pc = pc /\ runtime'[r].open = runtime[r].open
      /\ runtime'[r].index = -1
      /\ runtime'[r].depth = runtime[r].depth
      /\ runtime'[r].bind = runtime[r].bind
      /\ state.pc = pc
  BY <1>1, <1>5 DEF RuntimeState
<1> HIDE DEF state
<1>7. runtime[r].open = 0 /\ ~runtime[r].bind /\ runtime[r].depth \in Nat
  BY <1>1 DEF SectionOK, At, RuntimeState
<1>8. SectionOK(r)'
  BY <1>2, <1>6, <1>7 DEF SectionOK, At
<1>9. UsersCounted'
  <2>1. r \in Holding /\ Holding' = Holding \ {r}
    BY <1>1, <1>2, <1>5, <1>6, <1>7 DEF Holding, At
  <2>2. Binding' = Binding
    BY <1>1, <1>2, <1>5, <1>6, <1>7 DEF Binding, At
  <2>3. QED
    BY <2>1, <2>2, HolderLeaves DEF Inv, Leave, Deactive
<1>10. SlotsHeld'
  <2>1. \A s, t \in Runtime :
          (s # t /\ runtime'[s].index = runtime'[t].index /\ runtime'[s].index # -1)
            => At(s, "deactive")' \/ At(t, "deactive")'
    BY <1>5, <1>6 DEF Inv, SlotsHeld, At
  <2>2. ASSUME NEW k \in Slot
        PROVE  available'[k] <=>
                 \A s \in Runtime : runtime'[s].index = k => At(s, "deactive")'
    <3>1. k # -1 /\ available'[k] = available[k]
      BY DEF Slot, Leave
    <3>2. available[k] <=> \A s \in Runtime : runtime[s].index = k => At(s, "deactive")
      BY DEF Inv, SlotsHeld
    <3>3. QED
      BY <1>1, <1>5, <1>6, <3>1, <3>2 DEF At
  <2>3. QED
    BY <2>1, <2>2 DEF SlotsHeld
<1>11. /\ UNCHANGED << stop, task, flag, worker, owner >>
       /\ available' \in [ Slot -> BOOLEAN ] /\ DOMAIN runs' = Runtime
       /\ \A s \in Runtime : s # r => runs'[s] = runs[s]
       /\ ~InLoop(r) /\ state.pc \notin {"flags", "spin", "return"}
  BY <1>1, <1>2, <1>6 DEF Inv, Types, Leave, InLoop, At
<1>12. QED
  BY <1>3, <1>4, <1>8, <1>9, <1>10, <1>11, OutsideStep

-----------------------------------------------------------------------------
(* The steps of a loop.                                                    *)

(* The thread that runs an index.                                          *)
LEMMA ThreadOf ==
  ASSUME NEW size \in Nat, NEW v \in Items(size)
  PROVE  /\ v % NumberThread \in Nat
         /\ v % NumberThread < WorkSize(size)
         /\ v % NumberThread # 0 => v % NumberThread \in Worker
<1>1. v \in Nat /\ v < size /\ NumberThread \in Nat \ {0}
  BY ThreadPoolAssumption DEF Items
<1>2. v % NumberThread \in 0 .. NumberThread - 1 /\ (v < NumberThread => v % NumberThread = v)
  BY <1>1
<1>3. QED
  BY <1>1, <1>2 DEF WorkSize, Worker

(* A loop that is being put into a slot, or is in progress, has the slot   *)
(* for itself.                                                             *)
LEMMA OwnSlot ==
  ASSUME Inv, NEW r \in Runtime, InLoop(r) \/ At(r, "enqueue"),
         NEW s \in Runtime, InLoop(s), s # r
  PROVE  runtime[s].index # runtime[r].index
<1>1. runtime[s].index # -1
  BY DEF Inv, TaskInstalled
<1>2. ~At(r, "deactive") /\ ~At(s, "deactive")
  BY DEF InLoop, At
<1>3. QED
  BY <1>1, <1>2 DEF Inv, SlotsHeld

(* Flags, tasks and counts are all a step of a loop changes.               *)
LEMMA LoopStep ==
  ASSUME Inv, NEW r \in Runtime, NEW state \in RuntimeState,
         runtime' = [ runtime EXCEPT ![r] = state ],
         runtime[r].pc \in {"enqueue", "flags", "spin"},
         state.pc \in {"flags", "spin", "return"},
         state.index = runtime[r].index, state.open = runtime[r].open,
         state.depth = runtime[r].depth, state.bind = runtime[r].bind,
         UNCHANGED << stop, activeCount, available, worker, owner >>,
         task' \in [ Slot -> Tasks \cup {NoWork} ],
         flag' \in [ Slot -> [ Worker -> BOOLEAN ] ],
         DOMAIN runs' = Runtime,
         TaskInstalled', FlagsOwned', WorkersBusy', SharesCounted', EachIndexOnce'
  PROVE  Inv'
<1>1. /\ runtime' \in [ Runtime -> RuntimeState ]
      /\ runtime'[r] = state
      /\ \A s \in Runtime : s # r => runtime'[s] = runtime[s]
  BY RuntimeTyped DEF Inv
<1>2. Types'
  BY <1>1 DEF Inv, Types
<1>3. SectionOK(r)'
  BY <1>1 DEF Inv, Sections, SectionOK, At
<1>4. Sections'
  BY <1>1, <1>3, SectionsKept DEF Inv
<1>5. UsersCounted'
  BY <1>1, UsersKept DEF Inv, At
<1>6. SlotsHeld'
  BY <1>1, SlotsKept DEF Inv, At
<1>7. QED
  BY <1>2, <1>4, <1>5, <1>6 DEF Inv

(* A loop stands as before for a step that leaves its slot alone.          *)
LEMMA FinishedKept ==
  ASSUME Types, NEW s \in Runtime, NEW t \in Worker \cup {0},
         runtime'[s] = runtime[s],
         t # 0 => flag'[runtime[s].index][t] = flag[runtime[s].index][t],
         t # 0 => \/ worker'[t] = worker[t]
                  \/ /\ ~(Doing(t, "clear") /\ worker[t].slot = runtime[s].index)
                     /\ ~(Doing(t, "clear") /\ worker[t].slot = runtime[s].index)'
  PROVE  Finished(s, t)' <=> Finished(s, t)
BY DEF Finished, Cleared, Doing, At

(* enqueueInternal stores the task.  No worker is still in the slot: its   *)
(* flag would belong to another loop there.                                *)
LEMMA InstallInv ==
  ASSUME Inv, NEW r \in Runtime, Install(r)
  PROVE  Inv'
<1> DEFINE index == runtime[r].index
           size == runtime[r].size
           state == [ runtime[r] EXCEPT !.pc = "flags", !.next = 1 ]
<1>1. /\ runtime[r] \in RuntimeState /\ At(r, "enqueue") /\ ~InLoop(r)
      /\ size \in Nat /\ size > 1 /\ index \in Slot /\ index # -1
  <2>1. runtime[r] \in RuntimeState /\ At(r, "enqueue") /\ ~InLoop(r)
    BY DEF Inv, Types, Install, InLoop, At
  <2>2. size \in Nat /\ size > 1 /\ index \in Slot /\ index # -1
    BY <2>1, ThreadPoolAssumption DEF Install, RuntimeState
  <2>3. QED
    BY <2>1, <2>2
<1>2. state \in RuntimeState
  BY <1>1 DEF RuntimeState
<1>3. runtime' = [ runtime EXCEPT ![r] = state ]
  BY DEF Install
<1>4. /\ runtime'[r] = state
      /\ \A s \in Runtime : s # r => runtime'[s] = runtime[s]
  BY <1>2, <1>3, RuntimeTyped DEF Inv
<1>5. /\ state.pc = "flags" /\ state.next = 1 /\ state.index = index
      /\ state.open = runtime[r].open /\ state.depth = runtime[r].depth
      /\ state.size = size /\ state.bind = runtime[r].bind
  BY <1>1 DEF RuntimeState
<1> HIDE DEF state
<1>6. /\ task' = [ task EXCEPT ![index] = [ of |-> r, size |-> size ] ]
      /\ runs' = [ runs EXCEPT ![r] = [ v \in Items(size) |-> 0 ] ]
      /\ UNCHANGED << stop, activeCount, available, flag, worker, owner >>
  BY DEF Install
<1>7. /\ runs'[r] = [ v \in Items(size) |-> 0 ]
      /\ \A s \in Runtime : s # r => runs'[s] = runs[s]
      /\ DOMAIN runs' = Runtime
      /\ task'[index] = [ of |-> r, size |-> size ]
      /\ \A k \in Slot : k # index => task'[k] = task[k]
  BY <1>1, <1>6 DEF Inv, Types
<1>8. task' \in [ Slot -> Tasks \cup {NoWork} ]
  BY <1>1, <1>6 DEF Inv, Types, Tasks
<1>9. /\ InLoop(r)' /\ ~At(r, "spin")'
      /\ \A s \in Runtime : s # r => (InLoop(s)' <=> InLoop(s))
  BY <1>4, <1>5 DEF InLoop, At
<1>10. 1 \in 1 .. WorkSize(size)
  BY <1>1, ThreadPoolAssumption DEF WorkSize
<1>11. TaskInstalled'
  <2> SUFFICES ASSUME NEW s \in Runtime, InLoop(s)'
               PROVE  /\ runtime'[s].index # -1
                      /\ runtime'[s].next \in 1 .. WorkSize(runtime'[s].size)
                      /\ At(s, "spin")' => runtime'[s].next = WorkSize(runtime'[s].size)
                      /\ task'[runtime'[s].index] = [ of |-> s, size |-> runtime'[s].size ]
                      /\ DOMAIN runs'[s] = Items(runtime'[s].size)
    BY DEF TaskInstalled
  <2>1. CASE s = r
    BY <1>1, <1>4, <1>5, <1>7, <1>9, <1>10, <2>1
  <2>2. CASE s # r
    <3>1. runtime'[s] = runtime[s] /\ runs'[s] = runs[s] /\ InLoop(s)
      BY <1>4, <1>7, <1>9, <2>2
    <3>2. runtime[s].index # index
      BY <1>1, <2>2, <3>1, OwnSlot
    <3>3. runtime[s].index \in Slot
      BY <3>1 DEF Inv, Types, RuntimeState, TaskInstalled
    <3>4. QED
      BY <1>7, <3>1, <3>2, <3>3 DEF Inv, TaskInstalled, At
  <2>3. QED
    BY <2>1, <2>2
<1>12. FlagsOwned'
  BY <1>1, <1>4, <1>6, <1>9 DEF Inv, FlagsOwned
<1>13. WorkersBusy'
  <2> SUFFICES ASSUME NEW w \in Worker, worker[w].pc \in {"run", "clear"}
               PROVE  /\ worker[w].slot \in Slot /\ flag[worker[w].slot][w]
                      /\ Doing(w, "run") => worker[w].work = task'[worker[w].slot]
    BY <1>6 DEF WorkersBusy, Doing
  <2>1. worker[w].slot \in Slot /\ flag[worker[w].slot][w]
    BY DEF Inv, WorkersBusy
  <2>2. PICK s \in Runtime : InLoop(s) /\ runtime[s].index = worker[w].slot
    BY <2>1 DEF Inv, FlagsOwned
  <2>3. worker[w].slot # index
    BY <1>1, <2>2, OwnSlot
  <2>4. QED
    BY <1>7, <2>1, <2>3 DEF Inv, WorkersBusy
<1>14. SharesCounted'
  <2> SUFFICES ASSUME NEW s \in Runtime, InLoop(s)',
                      NEW v \in Items(runtime'[s].size)
               PROVE  runs'[s][v] = IF Finished(s, v % NumberThread)' THEN 1 ELSE 0
    BY DEF SharesCounted
  <2> DEFINE t == v % NumberThread
  <2>1. CASE s = r
    <3>1. t \in Nat
      BY <1>1, <1>4, <1>5, <2>1, ThreadOf
    <3>2. ~Finished(r, t)'
      BY <1>4, <1>5, <1>9, <3>1 DEF Finished
    <3>3. runs'[r][v] = 0
      BY <1>4, <1>5, <1>7, <2>1
    <3>4. QED
      BY <2>1, <3>2, <3>3
  <2>2. CASE s # r
    <3>1. runtime'[s] = runtime[s] /\ runs'[s] = runs[s] /\ InLoop(s)
      BY <1>4, <1>7, <1>9, <2>2
    <3>2. t \in Worker \cup {0}
      BY <3>1, ThreadOf DEF Inv, Types, RuntimeState
    <3>3. Finished(s, t)' <=> Finished(s, t)
      BY <1>6, <3>1, <3>2, FinishedKept DEF Inv
    <3>4. QED
      BY <3>1, <3>3 DEF Inv, SharesCounted
  <2>3. QED
    BY <2>1, <2>2
<1>15. EachIndexOnce'
  BY <1>4, <1>5, <1>7 DEF Inv, EachIndexOnce, At
<1>16. flag' \in [ Slot -> [ Worker -> BOOLEAN ] ] /\ runtime[r].pc = "enqueue"
  BY <1>1, <1>6 DEF Inv, Types, At
<1>17. QED
  BY <1>2, <1>3, <1>5, <1>6, <1>7, <1>8, <1>11, <1>12, <1>13, <1>14, <1>15, <1>16, LoopStep

(* The caller sets the next flag.  That worker cannot be on its way out of *)
(* this slot.                                                              *)
LEMMA SetFlagInv ==
  ASSUME Inv, NEW r \in Runtime, SetFlag(r)
  PROVE  Inv'
<1> DEFINE index == runtime[r].index
           size == runtime[r].size
           next == runtime[r].next
           state == [ runtime[r] EXCEPT !.next = next + 1 ]
<1>1. /\ runtime[r] \in RuntimeState /\ At(r, "flags") /\ InLoop(r)
      /\ size \in Nat /\ index \in Slot /\ next \in Nat
  BY DEF Inv, Types, RuntimeState, TaskInstalled, SetFlag, InLoop, At
<1>2. next + 1 \in 1 .. WorkSize(size) /\ next \in Worker
  <2>1. next \in 1 .. WorkSize(size) /\ next < WorkSize(size)
    BY <1>1 DEF Inv, TaskInstalled, SetFlag
  <2>2. NumberThread \in Nat
    BY ThreadPoolAssumption
  <2>3. WorkSize(size) \in Nat /\ WorkSize(size) <= NumberThread
    BY <1>1, <2>2 DEF WorkSize
  <2>4. QED
    BY <1>1, <2>1, <2>2, <2>3 DEF Worker
<1>3. state \in RuntimeState
  BY <1>1 DEF RuntimeState
<1>4. runtime' = [ runtime EXCEPT ![r] = state ]
  BY DEF SetFlag
<1>5. /\ runtime'[r] = state
      /\ \A s \in Runtime : s # r => runtime'[s] = runtime[s]
  BY <1>3, <1>4, RuntimeTyped DEF Inv
<1>6. /\ state.pc = "flags" /\ state.next = next + 1 /\ state.index = index
      /\ state.open = runtime[r].open /\ state.depth = runtime[r].depth
      /\ state.size = size /\ state.bind = runtime[r].bind
  BY <1>1 DEF RuntimeState, At
<1> HIDE DEF state
<1>7. UNCHANGED << stop, activeCount, available, task, worker, runs, owner >>
  BY DEF SetFlag
<1>8. flag' = [ flag EXCEPT ![index][next] = TRUE ]
  BY DEF SetFlag
<1>9. /\ flag' \in [ Slot -> [ Worker -> BOOLEAN ] ]
      /\ flag'[index][next]
      /\ \A k \in Slot, w \in Worker :
           k # index \/ w # next => flag'[k][w] = flag[k][w]
  BY <1>1, <1>2, <1>8 DEF Inv, Types
<1>10. \A s \in Runtime : InLoop(s)' <=> InLoop(s)
  BY <1>1, <1>5, <1>6 DEF InLoop
<1>11. TaskInstalled'
  <2>1. next + 1 \in 1 .. WorkSize(state.size) /\ ~At(r, "spin")'
    BY <1>2, <1>5, <1>6 DEF At
  <2>2. QED
    BY <1>5, <1>6, <1>7, <1>10, <2>1 DEF Inv, TaskInstalled, At
<1>12. FlagsOwned'
  <2> SUFFICES ASSUME NEW k \in Slot, NEW w \in Worker, flag'[k][w]
               PROVE  \E s \in Runtime : /\ InLoop(s) /\ runtime'[s].index = k
                                         /\ w < runtime'[s].next
    BY <1>10 DEF FlagsOwned
  <2>1. CASE k = index /\ w = next
    BY <1>1, <1>5, <1>6, <2>1
  <2>2. CASE k # index \/ w # next
    <3>1. PICK s \in Runtime : InLoop(s) /\ runtime[s].index = k /\ w < runtime[s].next
      BY <1>9, <2>2 DEF Inv, FlagsOwned
    <3>2. w \in Nat
      BY ThreadPoolAssumption DEF Worker
    <3>3. QED
      BY <1>1, <1>5, <1>6, <3>1, <3>2
  <2>3. QED
    BY <2>1, <2>2
<1>13. WorkersBusy'
  BY <1>7, <1>9 DEF Inv, WorkersBusy, Doing
<1>14. ~(Doing(next, "clear") /\ worker[next].slot = index)
  <2> SUFFICES ASSUME Doing(next, "clear"), worker[next].slot = index
               PROVE  FALSE
    OBVIOUS
  <2>1. flag[index][next]
    BY <1>2 DEF Inv, WorkersBusy, Doing
  <2>2. PICK s \in Runtime : InLoop(s) /\ runtime[s].index = index /\ next < runtime[s].next
    BY <1>1, <1>2, <2>1 DEF Inv, FlagsOwned
  <2>3. s = r
    BY <1>1, <2>2, OwnSlot
  <2>4. QED
    BY <1>1, <2>2, <2>3
<1>15. SharesCounted'
  <2> SUFFICES ASSUME NEW s \in Runtime, InLoop(s),
                      NEW v \in Items(runtime'[s].size)
               PROVE  runs'[s][v] = IF Finished(s, v % NumberThread)' THEN 1 ELSE 0
    BY <1>10 DEF SharesCounted
  <2> DEFINE t == v % NumberThread
  <2>1. v \in Items(runtime[s].size) /\ runtime[s].size \in Nat /\ runtime[s].index \in Slot
    BY <1>5, <1>6 DEF Inv, Types, RuntimeState, TaskInstalled
  <2>2. t \in Worker \cup {0} /\ t \in Nat
    BY <2>1, ThreadOf
  <2>3. runs[s][v] = IF Finished(s, t) THEN 1 ELSE 0
    BY <2>1 DEF Inv, SharesCounted
  <2> HIDE DEF t
  <2>4. Finished(s, t)' <=> Finished(s, t)
    <3>1. CASE s # r
      <4>1. runtime[s].index # index
        BY <1>1, <3>1, OwnSlot
      <4>2. QED
        BY <1>5, <1>7, <1>9, <2>1, <2>2, <3>1, <4>1, FinishedKept DEF Inv
    <3>2. CASE s = r /\ t = 0
      BY <1>1, <1>5, <1>6, <3>2 DEF Finished, At
    <3>3. CASE s = r /\ t # 0 /\ t = next
      <4>1. ~Finished(r, t)
        BY <1>1, <3>3 DEF Finished
      <4>2. ~Cleared(r, t)'
        BY <1>5, <1>6, <1>7, <1>9, <1>14, <3>3 DEF Cleared, Doing
      <4>3. QED
        BY <3>3, <4>1, <4>2 DEF Finished
    <3>4. CASE s = r /\ t # 0 /\ t # next
      <4>1. t < next + 1 <=> t < next
        BY <1>1, <2>2, <3>4
      <4>2. Cleared(r, t)' <=> Cleared(r, t)
        BY <1>1, <1>5, <1>6, <1>7, <1>9, <2>2, <3>4 DEF Cleared, Doing
      <4>3. QED
        BY <1>5, <1>6, <3>4, <4>1, <4>2 DEF Finished
    <3>5. QED
      BY <3>1, <3>2, <3>3, <3>4
  <2>5. QED
    BY <1>7, <2>3, <2>4 DEF t
<1>16. EachIndexOnce'
  BY <1>1, <1>5, <1>6, <1>7 DEF Inv, EachIndexOnce, At
<1>17. /\ task' \in [ Slot -> Tasks \cup {NoWork} ] /\ DOMAIN runs' = Runtime
       /\ runtime[r].pc = "flags"
  BY <1>1, <1>7 DEF Inv, Types, At
<1>18. QED
  BY <1>3, <1>4, <1>6, <1>7, <1>9, <1>11, <1>12, <1>13, <1>15, <1>16, <1>17, LoopStep

(* The caller runs its own share.                                          *)
LEMMA RunOwnInv ==
  ASSUME Inv, NEW r \in Runtime, RunOwn(r)
  PROVE  Inv'
<1> DEFINE size == runtime[r].size
           state == [ runtime[r] EXCEPT !.pc = "spin" ]
<1>1. /\ runtime[r] \in RuntimeState /\ At(r, "flags") /\ InLoop(r)
      /\ size \in Nat /\ runtime[r].next = WorkSize(size)
      /\ DOMAIN runs[r] = Items(size)
  BY DEF Inv, Types, RuntimeState, TaskInstalled, RunOwn, InLoop, At
<1>2. state \in RuntimeState
  BY <1>1 DEF RuntimeState
<1>3. runtime' = [ runtime EXCEPT ![r] = state ]
  BY DEF RunOwn, Goto
<1>4. /\ runtime'[r] = state
      /\ \A s \in Runtime : s # r => runtime'[s] = runtime[s]
  BY <1>2, <1>3, RuntimeTyped DEF Inv
<1>5. /\ state.pc = "spin" /\ state.next = runtime[r].next
      /\ state.index = runtime[r].index /\ state.open = runtime[r].open
      /\ state.depth = runtime[r].depth /\ state.size = size
      /\ state.bind = runtime[r].bind
  BY <1>1 DEF RuntimeState
<1> HIDE DEF state
<1>6. /\ UNCHANGED << stop, activeCount, available, task, flag, worker, owner >>
      /\ DOMAIN runs' = Runtime
      /\ \A s \in Runtime : s # r => runs'[s] = runs[s]
      /\ runs'[r] = [ v \in Items(size) |->
                        runs[r][v] + IF v \in Share(size, 0) THEN 1 ELSE 0 ]
  BY <1>1 DEF Inv, Types, RunOwn, Run
<1>7. \A s \in Runtime : InLoop(s)' <=> InLoop(s)
  BY <1>1, <1>4, <1>5 DEF InLoop
<1>8. TaskInstalled'
  BY <1>1, <1>4, <1>5, <1>6, <1>7 DEF Inv, TaskInstalled, At
<1>9. FlagsOwned'
  BY <1>4, <1>5, <1>6, <1>7 DEF Inv, FlagsOwned
<1>10. WorkersBusy'
  BY <1>6 DEF Inv, WorkersBusy, Doing
<1>11. SharesCounted'
  <2> SUFFICES ASSUME NEW s \in Runtime, InLoop(s),
                      NEW v \in Items(runtime'[s].size)
               PROVE  runs'[s][v] = IF Finished(s, v % NumberThread)' THEN 1 ELSE 0
    BY <1>7 DEF SharesCounted
  <2> DEFINE t == v % NumberThread
  <2>1. v \in Items(runtime[s].size) /\ runtime[s].size \in Nat
    BY <1>4, <1>5 DEF Inv, Types, RuntimeState
  <2>2. t \in Worker \cup {0}
    BY <2>1, ThreadOf
  <2>3. runs[s][v] = IF Finished(s, t) THEN 1 ELSE 0
    BY <2>1 DEF Inv, SharesCounted
  <2>4. CASE s # r
    BY <1>4, <1>6, <2>2, <2>3, <2>4, FinishedKept DEF Inv
  <2>5. CASE s = r
    <3>1. runs'[r][v] = runs[r][v] + IF t = 0 THEN 1 ELSE 0
      BY <1>6, <2>1, <2>5 DEF Share
    <3> HIDE DEF t
    <3>2. CASE t = 0
      BY <1>1, <1>4, <1>5, <2>3, <2>5, <3>1, <3>2 DEF Finished, At, t
    <3>3. CASE t # 0
      <4>1. Finished(r, t)' <=> Finished(r, t)
        BY <1>4, <1>5, <1>6, <3>3 DEF Finished, Cleared, Doing
      <4>2. QED
        BY <2>3, <2>5, <3>1, <3>3, <4>1 DEF t
    <3>4. QED
      BY <3>2, <3>3
  <2>6. QED
    BY <2>4, <2>5
<1>12. EachIndexOnce'
  BY <1>1, <1>4, <1>5, <1>6 DEF Inv, EachIndexOnce, At
<1>13. /\ task' \in [ Slot -> Tasks \cup {NoWork} ]
       /\ flag' \in [ Slot -> [ Worker -> BOOLEAN ] ]
       /\ runtime[r].pc = "flags"
  BY <1>1, <1>6 DEF Inv, Types, At
<1>14. QED
  BY <1>2, <1>3, <1>5, <1>6, <1>8, <1>9, <1>10, <1>11, <1>12, <1>13, LoopStep

(* The caller finds all flags clear: every share has been run.             *)
LEMMA SpinInv ==
  ASSUME Inv, NEW r \in Runtime, Spin(r)
  PROVE  Inv'
<1> DEFINE size == runtime[r].size
           state == [ runtime[r] EXCEPT !.pc = "return" ]
<1>1. /\ runtime[r] \in RuntimeState /\ At(r, "spin") /\ InLoop(r)
      /\ size \in Nat /\ runtime[r].next = WorkSize(size)
      /\ DOMAIN runs[r] = Items(size)
  BY DEF Inv, Types, RuntimeState, TaskInstalled, Spin, InLoop, At
<1>2. state \in RuntimeState
  BY <1>1 DEF RuntimeState
<1>3. runtime' = [ runtime EXCEPT ![r] = state ]
  BY DEF Spin, Goto
<1>4. /\ runtime'[r] = state
      /\ \A s \in Runtime : s # r => runtime'[s] = runtime[s]
  BY <1>2, <1>3, RuntimeTyped DEF Inv
<1>5. /\ state.pc = "return" /\ state.index = runtime[r].index
      /\ state.open = runtime[r].open /\ state.depth = runtime[r].depth
      /\ state.size = size /\ state.bind = runtime[r].bind
  BY <1>1 DEF RuntimeState
<1> HIDE DEF state
<1>6. /\ UNCHANGED << stop, activeCount, available, task, flag, worker, runs, owner >>
      /\ \A w \in Worker : ~flag[runtime[r].index][w]
  BY DEF Spin
<1>7. /\ ~InLoop(r)'
      /\ \A s \in Runtime : s # r => (InLoop(s)' <=> InLoop(s))
  BY <1>4, <1>5 DEF InLoop
<1>8. TaskInstalled'
  BY <1>4, <1>6, <1>7 DEF Inv, TaskInstalled, At
<1>9. FlagsOwned'
  BY <1>4, <1>6, <1>7 DEF Inv, FlagsOwned
<1>10. WorkersBusy'
  BY <1>6 DEF Inv, WorkersBusy, Doing
<1>11. SharesCounted'
  <2> SUFFICES ASSUME NEW s \in Runtime, InLoop(s), s # r,
                      NEW v \in Items(runtime[s].size)
               PROVE  runs[s][v] = IF Finished(s, v % NumberThread)' THEN 1 ELSE 0
    BY <1>4, <1>6, <1>7 DEF SharesCounted
  <2>1. v % NumberThread \in Worker \cup {0}
    BY ThreadOf DEF Inv, Types, RuntimeState
  <2>2. Finished(s, v % NumberThread)' <=> Finished(s, v % NumberThread)
    BY <1>4, <1>6, <2>1, FinishedKept DEF Inv
  <2>3. QED
    BY <2>2 DEF Inv, SharesCounted
<1>12. EachIndexOnce'
  <2>1. ASSUME NEW v \in Items(size)
        PROVE  runs[r][v] = 1
    <3> DEFINE t == v % NumberThread
    <3>1. t < WorkSize(size) /\ (t # 0 => t \in Worker)
      BY <1>1, ThreadOf
    <3>2. Finished(r, t)
      BY <1>1, <1>6, <3>1 DEF Finished, Cleared
    <3>3. QED
      BY <1>1, <3>2 DEF Inv, SharesCounted
  <2>2. QED
    BY <1>1, <1>4, <1>5, <1>6, <2>1 DEF Inv, EachIndexOnce, At
<1>13. /\ task' \in [ Slot -> Tasks \cup {NoWork} ] /\ DOMAIN runs' = Runtime
       /\ flag' \in [ Slot -> [ Worker -> BOOLEAN ] ]
       /\ runtime[r].pc = "spin"
  BY <1>1, <1>6 DEF Inv, Types, At
<1>14. QED
  BY <1>2, <1>3, <1>5, <1>6, <1>8, <1>9, <1>10, <1>11, <1>12, <1>13, LoopStep

-----------------------------------------------------------------------------
(* The steps of a busy worker.                                             *)

(* They leave the runtimes alone.                                          *)
LEMMA WorkerStep ==
  ASSUME Inv, UNCHANGED << stop, activeCount, available, task, runtime, owner >>,
         worker' \in [ Worker -> WorkerState ],
         flag' \in [ Slot -> [ Worker -> BOOLEAN ] ],
         DOMAIN runs' = Runtime,
         TaskInstalled', FlagsOwned', WorkersBusy', SharesCounted', EachIndexOnce'
  PROVE  Inv'
<1>1. Types'
  BY DEF Inv, Types
<1>2. Sections'
  BY DEF Inv, Sections, SectionOK, At
<1>3. UsersCounted'
  BY UsersKept DEF Inv, At
<1>4. SlotsHeld'
  BY SlotsKept DEF Inv, At
<1>5. QED
  BY <1>1, <1>2, <1>3, <1>4 DEF Inv

(* A worker finds its flag and takes the task.                             *)
LEMMA StartTaskInv ==
  ASSUME Inv, NEW w \in Worker, StartTask(w)
  PROVE  Inv'
<1> DEFINE slot == worker[w].slot
<1>1. /\ worker[w] \in WorkerState /\ Doing(w, "scan")
      /\ slot \in Slot /\ flag[slot][w] /\ task[slot] \in Tasks \cup {NoWork}
  <2>1. worker[w] \in WorkerState /\ Doing(w, "scan") /\ slot < MaxTasks /\ flag[slot][w]
    BY DEF Inv, Types, StartTask, Flagged
  <2>2. slot \in Slot
    BY <2>1, ThreadPoolAssumption DEF WorkerState, Slot
  <2>3. QED
    BY <2>1, <2>2 DEF Inv, Types
<1> DEFINE state == [ worker[w] EXCEPT !.pc = "run", !.work = task[slot] ]
<1>2. state \in WorkerState
  BY <1>1 DEF WorkerState
<1>3. state.pc = "run" /\ state.work = task[slot] /\ state.slot = slot
  BY <1>1 DEF WorkerState
<1>4. worker' = [ worker EXCEPT ![w] = state ]
  BY DEF StartTask
<1> HIDE DEF state
<1>5. /\ worker' \in [ Worker -> WorkerState ]
      /\ worker'[w] = state
      /\ \A v \in Worker : v # w => worker'[v] = worker[v]
  BY <1>2, <1>4 DEF Inv, Types
<1>6. UNCHANGED << stop, activeCount, available, task, flag, runtime, runs, owner >>
  BY DEF StartTask
<1>7. TaskInstalled' /\ FlagsOwned' /\ EachIndexOnce'
  BY <1>6 DEF Inv, TaskInstalled, FlagsOwned, EachIndexOnce, InLoop, At
<1>8. WorkersBusy'
  BY <1>1, <1>3, <1>5, <1>6 DEF Inv, WorkersBusy, Doing
<1>9. SharesCounted'
  <2> SUFFICES ASSUME NEW r \in Runtime, InLoop(r), NEW v \in Items(runtime[r].size)
               PROVE  runs[r][v] = IF Finished(r, v % NumberThread)' THEN 1 ELSE 0
    BY <1>6 DEF SharesCounted, InLoop
  <2> DEFINE t == v % NumberThread
  <2>1. t \in Worker \cup {0}
    BY ThreadOf DEF Inv, Types, RuntimeState
  <2>2. t # 0 => \/ worker'[t] = worker[t]
                 \/ ~Doing(t, "clear") /\ ~Doing(t, "clear")'
    BY <1>1, <1>3, <1>5, <2>1 DEF Doing
  <2>3. Finished(r, t)' <=> Finished(r, t)
    BY <1>6, <2>1, <2>2, FinishedKept DEF Inv
  <2>4. QED
    BY <2>3 DEF Inv, SharesCounted
<1>10. DOMAIN runs' = Runtime /\ flag' \in [ Slot -> [ Worker -> BOOLEAN ] ]
  BY <1>6 DEF Inv, Types
<1>11. QED
  BY <1>5, <1>6, <1>7, <1>8, <1>9, <1>10, WorkerStep

(* The loop a running worker takes part in.                                *)
LEMMA RunningFor ==
  ASSUME Inv, NEW w \in Worker, Doing(w, "run")
  PROVE  \E r \in Runtime :
           /\ InLoop(r)
           /\ worker[w].slot \in Slot /\ flag[worker[w].slot][w]
           /\ runtime[r].index = worker[w].slot
           /\ w < runtime[r].next
           /\ worker[w].work = [ of |-> r, size |-> runtime[r].size ]
<1>1. worker[w].slot \in Slot /\ flag[worker[w].slot][w]
  BY DEF Inv, WorkersBusy, Doing
<1>2. worker[w].work = task[worker[w].slot]
  BY DEF Inv, WorkersBusy
<1>3. PICK r \in Runtime :
        InLoop(r) /\ runtime[r].index = worker[w].slot /\ w < runtime[r].next
  BY <1>1 DEF Inv, FlagsOwned
<1>4. task[runtime[r].index] = [ of |-> r, size |-> runtime[r].size ]
  BY <1>3 DEF Inv, TaskInstalled
<1>5. QED
  BY <1>1, <1>2, <1>3, <1>4

(* A worker runs its share.                                                *)
LEMMA RunShareInv ==
  ASSUME Inv, NEW w \in Worker, RunShare(w)
  PROVE  Inv'
<1> DEFINE slot == worker[w].slot
<1>1. worker[w] \in WorkerState /\ Doing(w, "run")
  BY DEF Inv, Types, RunShare
<1>2. PICK r \in Runtime :
        /\ InLoop(r)
        /\ slot \in Slot /\ flag[slot][w]
        /\ runtime[r].index = slot
        /\ w < runtime[r].next
        /\ worker[w].work = [ of |-> r, size |-> runtime[r].size ]
  BY <1>1, RunningFor
<1> DEFINE size == runtime[r].size
           state == [ worker[w] EXCEPT !.pc = "clear", !.work = NoWork ]
<1>3. worker[w].work.of = r /\ worker[w].work.size = size
  BY <1>2
<1>4. state \in WorkerState
  BY <1>1 DEF WorkerState
<1>5. state.pc = "clear" /\ state.slot = slot
  BY <1>1 DEF WorkerState
<1>6. worker' = [ worker EXCEPT ![w] = state ]
  BY DEF RunShare
<1> HIDE DEF state
<1>7. /\ worker' \in [ Worker -> WorkerState ]
      /\ worker'[w] = state
      /\ \A v \in Worker : v # w => worker'[v] = worker[v]
  BY <1>4, <1>6 DEF Inv, Types
<1>8. UNCHANGED << stop, activeCount, available, task, flag, runtime, owner >>
  BY DEF RunShare
<1>9. /\ DOMAIN runs' = Runtime /\ DOMAIN runs[r] = Items(size)
      /\ \A s \in Runtime : s # r => runs'[s] = runs[s]
      /\ runs'[r] = [ v \in Items(size) |->
                        runs[r][v] + IF v \in Share(size, w) THEN 1 ELSE 0 ]
  <2>1. DOMAIN runs[r] = Items(size)
    BY <1>2 DEF Inv, TaskInstalled
  <2>2. runs' = [ runs EXCEPT ![r] = [ v \in DOMAIN @ |->
                    @[v] + IF v \in Share(size, w) THEN 1 ELSE 0 ] ]
    BY <1>3 DEF RunShare, Run
  <2>3. QED
    BY <2>1, <2>2 DEF Inv, Types
<1>10. TaskInstalled'
  BY <1>8, <1>9 DEF Inv, TaskInstalled, InLoop, At
<1>11. FlagsOwned'
  BY <1>8 DEF Inv, FlagsOwned, InLoop
<1>12. EachIndexOnce'
  BY <1>2, <1>8, <1>9 DEF Inv, EachIndexOnce, InLoop, At
<1>13. WorkersBusy'
  BY <1>2, <1>5, <1>7, <1>8 DEF Inv, WorkersBusy, Doing
<1>14. SharesCounted'
  <2> SUFFICES ASSUME NEW s \in Runtime, InLoop(s), NEW v \in Items(runtime[s].size)
               PROVE  runs'[s][v] = IF Finished(s, v % NumberThread)' THEN 1 ELSE 0
    BY <1>8 DEF SharesCounted, InLoop
  <2> DEFINE t == v % NumberThread
  <2>1. t \in Worker \cup {0}
    BY ThreadOf DEF Inv, Types, RuntimeState
  <2>2. runs[s][v] = IF Finished(s, t) THEN 1 ELSE 0
    BY DEF Inv, SharesCounted
  <2>3. w # 0
    BY ThreadPoolAssumption DEF Worker
  <2>4. CASE s # r
    <3>1. runtime[s].index # slot
      BY <1>2, <2>4, OwnSlot
    <3>2. Finished(s, t)' <=> Finished(s, t)
      BY <1>1, <1>5, <1>7, <1>8, <2>1, <3>1, FinishedKept DEF Inv, Doing
    <3>3. QED
      BY <1>9, <2>2, <2>4, <3>2
  <2>5. CASE s = r
    <3>1. runs'[r][v] = runs[r][v] + IF t = w THEN 1 ELSE 0
      BY <1>9, <2>5 DEF Share
    <3> HIDE DEF t
    <3>2. CASE t = w
      <4>1. ~Finished(r, t)
        BY <1>1, <1>2, <2>3, <3>2 DEF Finished, Cleared, Doing
      <4>2. Finished(r, t)'
        BY <1>2, <1>5, <1>7, <1>8, <2>3, <3>2 DEF Finished, Cleared, Doing
      <4>3. QED
        BY <2>2, <2>5, <3>1, <3>2, <4>1, <4>2 DEF t
    <3>3. CASE t # w
      <4>1. Finished(r, t)' <=> Finished(r, t)
        BY <1>7, <1>8, <2>1, <3>3, FinishedKept DEF Inv
      <4>2. QED
        BY <2>2, <2>5, <3>1, <3>3, <4>1 DEF t
    <3>4. QED
      BY <3>2, <3>3
  <2>6. QED
    BY <2>4, <2>5
<1>15. flag' \in [ Slot -> [ Worker -> BOOLEAN ] ]
  BY <1>8 DEF Inv, Types
<1>16. QED
  BY <1>7, <1>8, <1>9, <1>10, <1>11, <1>12, <1>13, <1>14, <1>15, WorkerStep

(* ... and clears its flag.                                                *)
LEMMA ClearFlagInv ==
  ASSUME Inv, NEW w \in Worker, ClearFlag(w)
  PROVE  Inv'
<1> DEFINE slot == worker[w].slot
<1>1. worker[w] \in WorkerState /\ Doing(w, "clear") /\ slot \in Slot /\ flag[slot][w]
  BY DEF Inv, Types, WorkersBusy, ClearFlag, Doing
<1>2. slot + 1 \in 0 .. MaxTasks
  BY <1>1, ThreadPoolAssumption DEF Slot
<1> DEFINE state == [ worker[w] EXCEPT !.pc = "scan", !.slot = slot + 1 ]
<1>3. state \in WorkerState /\ state.pc = "scan"
  BY <1>1, <1>2 DEF WorkerState
<1>4. worker' = [ worker EXCEPT ![w] = state ]
  BY DEF ClearFlag
<1> HIDE DEF state
<1>5. /\ worker' \in [ Worker -> WorkerState ]
      /\ worker'[w] = state
      /\ \A v \in Worker : v # w => worker'[v] = worker[v]
  BY <1>3, <1>4 DEF Inv, Types
<1>6. UNCHANGED << stop, activeCount, available, task, runtime, runs, owner >>
  BY DEF ClearFlag
<1>7. flag' = [ flag EXCEPT ![slot][w] = FALSE ]
  BY DEF ClearFlag
<1>8. /\ flag' \in [ Slot -> [ Worker -> BOOLEAN ] ]
      /\ ~flag'[slot][w]
      /\ \A k \in Slot, v \in Worker : k # slot \/ v # w => flag'[k][v] = flag[k][v]
  BY <1>1, <1>7 DEF Inv, Types
<1>9. TaskInstalled' /\ EachIndexOnce'
  BY <1>6 DEF Inv, TaskInstalled, EachIndexOnce, InLoop, At
<1>10. FlagsOwned'
  BY <1>6, <1>8 DEF Inv, FlagsOwned, InLoop
<1>11. WorkersBusy'
  <2> SUFFICES ASSUME NEW v \in Worker, worker'[v].pc \in {"run", "clear"}
               PROVE  /\ worker'[v].slot \in Slot /\ flag'[worker'[v].slot][v]
                      /\ Doing(v, "run")' => worker'[v].work = task[worker'[v].slot]
    BY <1>6 DEF WorkersBusy, Doing
  <2>1. v # w
    BY <1>3, <1>5
  <2>2. QED
    BY <1>5, <1>8, <2>1 DEF Inv, WorkersBusy, Doing
<1>12. SharesCounted'
  <2> SUFFICES ASSUME NEW r \in Runtime, InLoop(r), NEW v \in Items(runtime[r].size)
               PROVE  runs[r][v] = IF Finished(r, v % NumberThread)' THEN 1 ELSE 0
    BY <1>6 DEF SharesCounted, InLoop
  <2> DEFINE t == v % NumberThread
             index == runtime[r].index
  <2>1. t \in Worker \cup {0} /\ index \in Slot
    BY ThreadOf DEF Inv, Types, RuntimeState, TaskInstalled
  <2>2. runs[r][v] = IF Finished(r, t) THEN 1 ELSE 0
    BY DEF Inv, SharesCounted
  <2> HIDE DEF t
  <2>3. Finished(r, t)' <=> Finished(r, t)
    <3>1. CASE t = w /\ index = slot
      <4>1. Cleared(r, t) /\ Cleared(r, t)'
        BY <1>1, <1>6, <1>8, <3>1 DEF Cleared
      <4>2. QED
        BY <1>6, <4>1 DEF Finished, At
    <3>2. CASE t = w /\ index # slot
      BY <1>1, <1>3, <1>5, <1>6, <1>8, <2>1, <3>2, FinishedKept DEF Inv, Doing
    <3>3. CASE t # w
      BY <1>5, <1>6, <1>8, <2>1, <3>3, FinishedKept DEF Inv
    <3>4. QED
      BY <3>1, <3>2, <3>3
  <2>4. QED
    BY <2>2, <2>3 DEF t
<1>13. DOMAIN runs' = Runtime
  BY <1>6 DEF Inv, Types
<1>14. QED
  BY <1>5, <1>6, <1>8, <1>9, <1>10, <1>11, <1>12, <1>13, WorkerStep

-----------------------------------------------------------------------------
(* The theorems.                                                           *)

(* No runtime and no task at the start.                                    *)
LEMMA InvInit == Init => Inv
<1> SUFFICES ASSUME Init
             PROVE  Inv
  OBVIOUS
<1>1. Types
  <2>1. 0 \in 0 .. MaxTasks /\ 0 \in 0 .. MaxDepth
    BY ThreadPoolAssumption
  <2>2. QED
    BY <2>1 DEF Init, Types, RuntimeState, WorkerState
<1>2. Holding = {} /\ Binding = {}
  BY DEF Init, Holding, Binding, At
<1>3. UsersCounted
  BY <1>2, FS_EmptySet DEF Init, UsersCounted
<1>4. Sections
  BY DEF Init, Sections, SectionOK, At
<1>5. SlotsHeld
  <2>1. -1 \notin Slot
    BY DEF Slot
  <2>2. QED
    BY <2>1 DEF Init, SlotsHeld
<1>6. TaskInstalled /\ SharesCounted /\ EachIndexOnce
  BY DEF Init, TaskInstalled, SharesCounted, EachIndexOnce, InLoop, At
<1>7. FlagsOwned /\ WorkersBusy
  BY DEF Init, FlagsOwned, WorkersBusy, Doing
<1>8. QED
  BY <1>1, <1>3, <1>4, <1>5, <1>6, <1>7 DEF Inv

(* Every step keeps tasks and slots owned.                                 *)
LEMMA InvNext == Inv /\ [Next]_vars => Inv'
<1> SUFFICES ASSUME Inv, [Next]_vars
             PROVE  Inv'
  OBVIOUS
<1>1. ASSUME NEW r \in Runtime, Choose(r)
      PROVE  Inv'
  BY <1>1, BeginInv, EndInv, RuntimeMoves DEF Choose
<1>2. ASSUME NEW r \in Runtime, Proceed(r)
      PROVE  Inv'
  BY <1>2, ActivateInv, RuntimeMoves, BindInv, InlineInv, InstallInv, SetFlagInv,
     RunOwnInv, SpinInv, ReturnInv, LeaveInv DEF Proceed
<1>3. ASSUME NEW w \in Worker, Work(w) \/ Spurious(w)
      PROVE  Inv'
  BY <1>3, WorkerIdles, StartTaskInv, RunShareInv, ClearFlagInv DEF Work
<1>4. CASE Owner \/ UNCHANGED vars
  BY <1>4, OwnerSteps
<1>5. QED
  BY <1>1, <1>2, <1>3, <1>4 DEF Next

(* Inv holds in every state the pool and its runtimes reach.               *)
THEOREM InvCorrect == Spec => []Inv
BY InvInit, InvNext, PTL DEF Spec

(* Every variable keeps its type.  In particular the count of users, to    *)
(* which every active() adds and from which every deactive() subtracts, is *)
(* the number of those that are using the pool and never negative.         *)
THEOREM TypeCorrect == Spec => []TypeOK
<1>1. Inv => TypeOK
  <2> SUFFICES ASSUME Inv
               PROVE  TypeOK
    OBVIOUS
  <2>1. Types
    BY DEF Inv
  <2>2. activeCount \in Nat
    BY FS_CardinalityType DEF Inv, UsersCounted
  <2>3. \A k \in Slot : task[k] # NoWork =>
          task[k].of \in Runtime /\ task[k].size \in Nat
    BY <2>1 DEF Types, Tasks
  <2>4. \A r \in Runtime : /\ runtime[r].index \in Slot \cup {-1}
                           /\ runtime[r].open \in 0 .. MaxDepth
                           /\ runtime[r].depth \in 0 .. MaxDepth
    BY <2>1 DEF Types, RuntimeState
  <2>5. \A w \in Worker : worker[w].slot \in 0 .. MaxTasks
    BY <2>1 DEF Types, WorkerState
  <2>6. QED
    BY <2>1, <2>2, <2>3, <2>4, <2>5 DEF Types, TypeOK
<1>2. QED
  BY <1>1, InvCorrect, PTL

(* A parallel loop runs every index exactly once, however its shares are   *)
(* spread over workers that wake, sleep and scan at any pace, and whatever *)
(* the other runtimes do in the other slots.                               *)
THEOREM EachIndexOnceCorrect == Spec => []EachIndexOnce
<1>1. Inv => EachIndexOnce
  BY DEF Inv
<1>2. QED
  BY <1>1, InvCorrect, PTL

(* No worker holds a task whose loop has returned.                         *)
THEOREM NoTaskAfterReturnCorrect == Spec => []NoTaskAfterReturn
<1>1. Inv => NoTaskAfterReturn
  <2> SUFFICES ASSUME Inv, NEW w \in Worker, Doing(w, "run")
               PROVE  /\ worker[w].work # NoWork
                      /\ runtime[worker[w].work.of].pc \in {"flags", "spin"}
                      /\ runtime[worker[w].work.of].index = worker[w].slot
    BY DEF NoTaskAfterReturn
  <2>1. PICK r \in Runtime :
          /\ InLoop(r) /\ runtime[r].index = worker[w].slot
          /\ worker[w].work = [ of |-> r, size |-> runtime[r].size ]
    BY RunningFor
  <2>2. worker[w].work \in Tasks
    BY <2>1 DEF Inv, Types, RuntimeState, Tasks
  <2>3. QED
    BY <2>1, <2>2, ThreadPoolAssumption DEF InLoop, Tasks
<1>2. QED
  BY <1>1, InvCorrect, PTL

(* Two runtimes never share a slot, and slots are not lost.                *)
THEOREM SlotsExclusiveCorrect == Spec => []SlotsExclusive
<1>1. Inv => SlotsExclusive
  <2> SUFFICES ASSUME Inv, NEW k \in Slot
               PROVE  LET holders == { r \in Runtime : runtime[r].index = k /\ ~At(r, "deactive") }
                      IN Cardinality(holders) <= 1 /\ (available[k] <=> holders = {})
    BY DEF SlotsExclusive
  <2> DEFINE holders == { r \in Runtime : runtime[r].index = k /\ ~At(r, "deactive") }
  <2>1. k # -1
    BY DEF Slot
  <2>2. \A r, s \in holders : r = s
    BY <2>1 DEF Inv, SlotsHeld
  <2>3. Cardinality(holders) <= 1
    <3>1. CASE holders = {}
      BY <3>1, FS_EmptySet
    <3>2. ASSUME NEW r \in holders
          PROVE  Cardinality(holders) <= 1
      <4>1. holders = {r}
        BY <2>2
      <4> HIDE DEF holders
      <4>2. QED
        BY <4>1, FS_Singleton
    <3>3. QED
      BY <3>1, <3>2
  <2>4. available[k] <=> holders = {}
    BY DEF Inv, SlotsHeld
  <2>5. QED
    BY <2>3, <2>4
<1>2. QED
  BY <1>1, InvCorrect, PTL

=============================================================================
