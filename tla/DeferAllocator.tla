--------------------------- MODULE DeferAllocator ---------------------------
(***************************************************************************)
(* DeferBufferAllocator: plans the buffers of a resize before any memory   *)
(* exists.  It keeps a chain of chunks in address order.  A request takes  *)
(* a free chunk and splits it, or makes it larger when it is too small; a  *)
(* chunk given back fuses with its free neighbours and becomes a child of  *)
(* the chunk on its left, at the offset where that one ended.  At the end  *)
(* everything has been given back, one chunk is left, and compute() walks  *)
(* down its children to turn the relative offsets into addresses.          *)
(*                                                                         *)
(* The operators map one state of the allocator to the next one.           *)
(***************************************************************************)
EXTENDS Integers, Sequences, FiniteSets, SequencesExt

CONSTANT Align \* mAlign

RoundUp(n) == ((n + Align - 1) \div Align) * Align

NoNode == 0

MemNode(size, usage) == [size |-> size, offset |-> 0, usage |-> usage, into |-> NoNode]

(* node: mChunks, "into" is the node it was fused into; chain: the nodes   *)
(* between mHead and mTail; free: mFreeList, smallest first; last: the     *)
(* node alloc() returned.                                                  *)
Empty ==
  [node |-> <<>>, chain |-> <<>>, free |-> <<>>, barrier |-> FALSE,
   deferred |-> <<>>, total |-> 0, code |-> "NO_ERROR", last |-> NoNode]

Position(d, n) == CHOOSE k \in DOMAIN d.chain : d.chain[k] = n

InsertFree(d, n) ==
  LET smaller == {i \in DOMAIN d.free : d.node[d.free[i]].size <= d.node[n].size}
  IN  [d EXCEPT !.free = InsertAt(@, Cardinality(smaller) + 1, n)]

EraseFree(d, n) ==
  [d EXCEPT !.free = RemoveAt(@, CHOOSE i \in DOMAIN d.free : d.free[i] = n)]

(* The rest of a split goes behind the chunk it was cut from.              *)
Split(d, n, size) ==
  LET rest == Len(d.node) + 1
      cut  == [d EXCEPT !.node  = Append(@, MemNode(d.node[n].size - size, FALSE)),
                        !.chain = InsertAt(@, Position(d, n) + 1, rest)]
  IN  InsertFree(cut, rest)

(* The smallest free chunk that is large enough, or else the largest.      *)
Selected(d, size) ==
  LET fits == {i \in DOMAIN d.free : d.node[d.free[i]].size >= size}
  IN  IF fits = {} THEN Last(d.free)
      ELSE d.free[CHOOSE i \in fits : \A j \in fits : i <= j]

Reuse(d, size) ==
  LET n     == Selected(d, size)
      taken == [EraseFree(d, n) EXCEPT !.node[n].usage = TRUE, !.last = n]
      cut   == IF d.node[n].size > size THEN Split(taken, n, size) ELSE taken
  IN  [cut EXCEPT !.node[n].size = size]

Alloc(d, asked, separate) ==
  LET size == RoundUp(asked)
      new  == Len(d.node) + 1
  IN  IF d.free = <<>> \/ separate
      THEN [d EXCEPT !.node  = Append(@, MemNode(size, TRUE)),
                     !.chain = Append(@, new),
                     !.last  = new]
      ELSE Reuse(d, size)

(* Mutant of FuseToLeft: the chunk on the left grows before its end is     *)
(* read.                                                                   *)
FuseAfterGrowing(d, left, right) ==
  [d EXCEPT !.node[right].offset = d.node[left].size + d.node[right].size,
            !.node[right].into   = left,
            !.node[left].size    = @ + d.node[right].size,
            !.chain              = RemoveAt(@, Position(d, right))]

FuseToLeft(d, left, right) ==
  [d EXCEPT !.node[right].offset = d.node[left].size,
            !.node[right].into   = left,
            !.node[left].size    = @ + d.node[right].size,
            !.chain              = RemoveAt(@, Position(d, right))]

Fuse(d, n) ==
  LET k     == Position(d, n)
      left  == IF k > 1 THEN d.chain[k - 1] ELSE NoNode
      right == IF k < Len(d.chain) THEN d.chain[k + 1] ELSE NoNode
      joinsLeft  == left # NoNode /\ ~d.node[left].usage
      joinsRight == right # NoNode /\ ~d.node[right].usage
      one == IF joinsLeft THEN FuseToLeft(EraseFree(d, left), left, n) ELSE d
      at  == IF joinsLeft THEN left ELSE n
      two == IF joinsRight THEN FuseToLeft(EraseFree(one, right), at, right) ELSE one
  IN  InsertFree([two EXCEPT !.node[at].usage = FALSE], at)

Free(d, n) ==
  IF d.barrier THEN [d EXCEPT !.deferred = Append(@, n)] ELSE Fuse(d, n)

BarrierBegin(d) == [d EXCEPT !.barrier = TRUE]

(* Mutant of BarrierEnd: what was given back inside the barrier is         *)
(* forgotten.                                                              *)
BarrierDrops(d) == [d EXCEPT !.barrier = FALSE, !.deferred = <<>>]

BarrierEnd(d) ==
  LET back[k \in 0 .. Len(d.deferred)] ==
        IF k = 0 THEN [d EXCEPT !.barrier = FALSE, !.deferred = <<>>]
        ELSE Free(back[k - 1], d.deferred[k])
  IN  back[Len(d.deferred)]

Reset(d) == [Empty EXCEPT !.code = d.code]

(* visiChildren: the distance of a node from the start of the one chunk    *)
(* that is left.  A node may have been made before or after its parent.    *)
Placed(d) ==
  LET into[k \in 0 .. Len(d.node)] ==
        [n \in DOMAIN d.node |->
           IF k = 0 \/ d.node[n].into = NoNode THEN 0
           ELSE d.node[n].offset + into[k - 1][d.node[n].into]]
  IN  [n \in DOMAIN d.node |-> [d.node[n] EXCEPT !.offset = into[Len(d.node)][n]]]

Compute(d) ==
  IF d.total > 0 \/ d.free = <<>> THEN [d EXCEPT !.code = "NO_ERROR"]
  ELSE IF Len(d.free) # 1 \/ Len(d.chain) # 1
  THEN [d EXCEPT !.code = "INVALID_VALUE"]
  ELSE [d EXCEPT !.node  = Placed(d),
                 !.total = d.node[Head(d.chain)].size,
                 !.code  = "NO_ERROR"]
=============================================================================
