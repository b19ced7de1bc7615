-------------------------- MODULE BufferAllocator --------------------------
(***************************************************************************)
(* The backend's dynamic memory.  A resize asks for the buffers of every   *)
(* tensor in the order in which the operators run and gives each one back  *)
(* when its last reader has been planned; the memory is used later, when   *)
(* the operators execute.  Two tensors planned for the same time must not  *)
(* meet in memory, and neither may two that belong to different groups of  *)
(* one barrier: their threads run at the same time.                        *)
(*                                                                         *)
(* createDynamicBufferAlloctor picks one of two allocators; here the same  *)
(* requests drive both.                                                    *)
(***************************************************************************)
EXTENDS Integers, Sequences, FiniteSets

CONSTANTS
  Align,      \* mAlign
  MinAllocs,  \* the values of mMinAllocSize: 0, or that of the mapped weights
  Sizes,      \* bound of the model: the sizes asked for
  MaxTensors, \* bound of the model: tensors of one resize
  MaxAllocs,  \* bound of the model: requests in all
  MaxGroups   \* bound of the model: groups of one barrier

ASSUME BufferAllocatorAssumption ==
  /\ Align \in Nat \ {0}
  /\ MinAllocs \subseteq {n \in Nat : n % Align = 0}
  /\ Sizes \subseteq Nat \ {0}
  /\ MaxTensors \in Nat
  /\ MaxAllocs \in Nat
  /\ MaxGroups \in Nat

VARIABLES
  minAlloc, \* mMinAllocSize of the eager allocator
  defer,    \* the DeferBufferAllocator
  eager,    \* the EagerBufferAllocator
  stage,    \* the resize: planning, planned (compute() was called)
  barrier,  \* the barrier: none, open, or in a group
  tensors,  \* the tensors planned since the resize began
  clash,    \* history variable: the pairs that must not share memory
  asked     \* requests so far

vars == << minAlloc, defer, eager, stage, barrier, tensors, clash, asked >>

Defer == INSTANCE DeferAllocator
Eager == INSTANCE EagerAllocator

Live == {t \in DOMAIN tensors : tensors[t].live}
Group == eager.current

Init ==
  /\ minAlloc \in MinAllocs
  /\ defer = Defer!Empty
  /\ eager = Eager!Empty
  /\ stage = "planning"
  /\ barrier = "none"
  /\ tensors = <<>>
  /\ clash = {}
  /\ asked = 0

(* Tensors of one barrier that belong to another group than the current.   *)
OtherGroups == {t \in DOMAIN tensors : tensors[t].group \notin {0, Group}}

(* onAcquireBuffer, DYNAMIC or DYNAMIC_SEPERATE.  Inside a barrier all     *)
(* requests are a group's.                                                 *)
Acquire(size, separate) ==
  /\ stage = "planning"
  /\ barrier # "open"
  /\ Len(tensors) < MaxTensors
  /\ asked < MaxAllocs
  /\ separate => minAlloc = 0
  /\ defer' = Defer!Alloc(defer, size, separate)
  /\ eager' = Eager!Alloc(eager, size, separate, minAlloc)
  /\ LET e == eager'.node[eager'.last]
     IN  tensors' = Append(tensors,
           [size |-> size, live |-> TRUE, group |-> Group,
            chunk |-> defer'.last, node |-> eager'.last,
            block |-> e.block, off |-> e.off])
  /\ clash' = clash \cup ((Live \cup OtherGroups) \X {Len(tensors) + 1})
  /\ asked' = asked + 1
  /\ UNCHANGED << minAlloc, stage, barrier >>

(* A group gives back only what it took itself.                            *)
GiveBack(t) ==
  /\ stage = "planning"
  /\ barrier # "open"
  /\ tensors[t].live
  /\ tensors[t].group = Group
  /\ defer' = Defer!Free(defer, tensors[t].chunk)
  /\ eager' = Eager!Free(eager, tensors[t].node)
  /\ tensors' = [tensors EXCEPT ![t].live = FALSE]
  /\ UNCHANGED << minAlloc, stage, barrier, clash, asked >>

BarrierBegin ==
  /\ stage = "planning"
  /\ barrier = "none"
  /\ minAlloc = 0
  /\ barrier' = "open"
  /\ defer' = Defer!BarrierBegin(defer)
  /\ UNCHANGED << minAlloc, eager, stage, tensors, clash, asked >>

BeginGroup ==
  /\ barrier = "open"
  /\ Cardinality(DOMAIN eager.list) <= MaxGroups
  /\ barrier' = "group"
  /\ eager' = Eager!BeginGroup(eager)
  /\ UNCHANGED << minAlloc, defer, stage, tensors, clash, asked >>

EndGroup ==
  /\ barrier = "group"
  /\ barrier' = "open"
  /\ eager' = Eager!EndGroup(eager)
  /\ UNCHANGED << minAlloc, defer, stage, tensors, clash, asked >>

(* The units are done: what a group has kept belongs to its operator.      *)
BarrierEnd ==
  /\ barrier = "open"
  /\ barrier' = "none"
  /\ defer' = Defer!BarrierEnd(defer)
  /\ eager' = Eager!BarrierEnd(eager)
  /\ tensors' = [t \in DOMAIN tensors |-> [tensors[t] EXCEPT !.group = 0]]
  /\ UNCHANGED << minAlloc, stage, clash, asked >>

(* onResizeEnd, when the last tensor has been given back.                  *)
ResizeEnd ==
  /\ stage = "planning"
  /\ barrier = "none"
  /\ Live = {}
  /\ stage' = "planned"
  /\ defer' = Defer!Compute(defer)
  /\ UNCHANGED << minAlloc, eager, barrier, tensors, clash, asked >>

(* onResizeBegin: the eager allocator keeps its memory.                    *)
ResizeBegin ==
  /\ stage = "planned"
  /\ stage' = "planning"
  /\ defer' = Defer!Reset(defer)
  /\ tensors' = <<>>
  /\ clash' = {}
  /\ UNCHANGED << minAlloc, eager, barrier, asked >>

(* onGabageCollect *)
GabageCollect ==
  /\ barrier = "none"
  /\ eager' = Eager!Collect(eager)
  /\ UNCHANGED << minAlloc, defer, stage, barrier, tensors, clash, asked >>

(* onClearBuffer, of a backend whose tensors are gone.                     *)
ClearBuffer ==
  /\ barrier = "none"
  /\ Live = {}
  /\ eager' = Eager!Release(eager)
  /\ defer' = Defer!Reset(defer)
  /\ stage' = "planning"
  /\ tensors' = <<>>
  /\ clash' = {}
  /\ UNCHANGED << minAlloc, barrier, asked >>

Next ==
  \/ \E size \in Sizes, separate \in BOOLEAN : Acquire(size, separate)
  \/ \E t \in DOMAIN tensors : GiveBack(t)
  \/ BarrierBegin
  \/ BeginGroup
  \/ EndGroup
  \/ BarrierEnd
  \/ ResizeEnd
  \/ ResizeBegin
  \/ GabageCollect
  \/ ClearBuffer

Spec == Init /\ [][Next]_vars

-----------------------------------------------------------------------------

Apart(from, size, otherFrom, otherSize) ==
  from + size <= otherFrom \/ otherFrom + otherSize <= from

Address(t) == defer.node[tensors[t].chunk].offset

(* Once a resize is planned, tensors that are needed at the same time lie  *)
(* in different places of the one buffer, and inside of it, although the   *)
(* chunks they were planned in have since been fused, split and enlarged:  *)
(* compute() and the offsets fuse_to_left() left behind.                   *)
DeferDisjoint ==
  stage = "planned" /\ tensors # <<>> =>
    /\ \A t \in DOMAIN tensors : Address(t) + tensors[t].size <= defer.total
    /\ \A p \in clash :
         Apart(Address(p[1]), tensors[p[1]].size, Address(p[2]), tensors[p[2]].size)

(* A plan always works out: when every tensor has been given back, in      *)
(* whatever order and across barriers, the chain is one free chunk and     *)
(* compute() never answers INVALID_VALUE.                                  *)
DeferComputes ==
  /\ defer.code = "NO_ERROR"
  /\ stage = "planning" /\ barrier = "none" /\ Live = {} /\ tensors # <<>> =>
       defer.free = defer.chain /\ Len(defer.chain) = 1

(* The eager allocator never lends memory twice: of two tensors that are   *)
(* needed at the same time, or by two threads of one barrier, neither lies *)
(* in the other, and both lie in their blocks.                             *)
EagerDisjoint ==
  /\ \A t \in DOMAIN tensors :
       tensors[t].off + tensors[t].size <= eager.node[tensors[t].block].size
  /\ \A p \in clash :
       LET a == tensors[p[1]]
           b == tensors[p[2]]
       IN  a.block = b.block => Apart(a.off, a.size, b.off, b.size)

Sum(nodes) ==
  LET from[k \in 0 .. Len(nodes)] ==
        IF k = 0 THEN 0 ELSE from[k - 1] + eager.node[nodes[k]].size
  IN  from[Len(nodes)]

(* Use counts balance: when nothing is lent and no barrier is open, every  *)
(* block is whole in the free list, so that onGabageCollect can return it, *)
(* and mTotalSize is what they add up to.                                  *)
EagerReclaims ==
  barrier = "none" /\ Live = {} =>
    /\ \A i \in DOMAIN eager.list[0] : eager.node[eager.list[0][i]].parent = 0
    /\ eager.total = Sum(eager.list[0])
=============================================================================
