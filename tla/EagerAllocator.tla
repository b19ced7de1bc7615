--------------------------- MODULE EagerAllocator ---------------------------
(***************************************************************************)
(* EagerBufferAllocator: hands out memory at once.  A node is a block or   *)
(* the part of one; a free node that is larger than the request is split   *)
(* in two children, and is whole again when its use count, the number of   *)
(* its children in use, is back at zero.  Between barrierBegin and         *)
(* barrierEnd a group stands for a thread: it keeps what it gives back in  *)
(* a list of its own, unmerged, until the barrier ends.                    *)
(*                                                                         *)
(* No caller asks for an alignment other than the allocator's own, so a    *)
(* node's pointer is where the node starts.                                *)
(***************************************************************************)
EXTENDS Integers, Sequences, FiniteSets, SequencesExt

CONSTANT Align \* mAlign

RoundUp(n) == ((n + Align - 1) \div Align) * Align

Root == 0    \* the parent of a block
Shared == 0  \* no group: mCurrentFreeList is null

(* node: every Node made so far; list[Shared]: mFreeList, list[g]: the     *)
(* list of group g, smallest first; last: the node alloc() returned.       *)
Empty ==
  [node |-> <<>>, list |-> [g \in {Shared} |-> <<>>], current |-> Shared,
   used |-> {}, total |-> 0, last |-> 0]

Node(block, off, size, parent, use) ==
  [block |-> block, off |-> off, size |-> size, parent |-> parent, use |-> use]

InsertNode(e, g, n) ==
  LET smaller == {i \in DOMAIN e.list[g] : e.node[e.list[g][i]].size <= e.node[n].size}
  IN  [e EXCEPT !.list[g] = InsertAt(@, Cardinality(smaller) + 1, n)]

(* A list but for some of its nodes.                                       *)
Without(list, some) ==
  LET left[k \in 0 .. Len(list)] ==
        IF k = 0 THEN <<>>
        ELSE IF list[k] \in some THEN left[k - 1] ELSE Append(left[k - 1], list[k])
  IN  left[Len(list)]

Fits(e, g, size) == {i \in DOMAIN e.list[g] : e.node[e.list[g][i]].size >= size}

(* lower_bound: the place in the list of the smallest node that fits.      *)
LowerBound(e, g, size) ==
  CHOOSE i \in Fits(e, g, size) : \A j \in Fits(e, g, size) : i <= j

(* Nodes one more of whose halves is in use, and nodes one less.           *)
Raised(node, p) == [node EXCEPT ![p].use = @ + 1]
Lowered(node, some) ==
  [m \in DOMAIN node |-> IF m \in some THEN [node[m] EXCEPT !.use = @ - 1] ELSE node[m]]

(* Cut x in two: the first part is used, the second is free in list g.     *)
Halve(e, g, x, size) ==
  LET first  == Len(e.node) + 1
      second == first + 1
      whole  == e.node[x]
      made   == << Node(whole.block, whole.off, size, x, 0),
                   Node(whole.block, whole.off + size, whole.size - size, x, 0) >>
  IN  InsertNode([e EXCEPT !.node = Raised(@, x) \o made,
                           !.used = @ \cup {first},
                           !.last = first], g, second)

(* Mutant of GetFromFreeList: the part's parent does not count it.         *)
GetUncounted(e, g, size, permitSplit) ==
  LET i    == LowerBound(e, g, size)
      x    == e.list[g][i]
      held == [e EXCEPT !.list[g] = RemoveAt(@, i)]
      part == RoundUp(size)
  IN  IF part >= e.node[x].size \/ ~permitSplit
      THEN [held EXCEPT !.used = @ \cup {x}, !.last = x]
      ELSE Halve(held, g, x, part)

GetFromFreeList(e, g, size, permitSplit) ==
  LET i    == LowerBound(e, g, size)
      x    == e.list[g][i]
      p    == e.node[x].parent
      held == [e EXCEPT !.list[g] = RemoveAt(@, i),
                        !.node = IF permitSplit /\ p # Root THEN Raised(@, p) ELSE @]
      part == RoundUp(size)
  IN  IF part >= e.node[x].size \/ ~permitSplit
      THEN [held EXCEPT !.used = @ \cup {x}, !.last = x]
      ELSE Halve(held, g, x, part)

NewBlock(e, size, minAlloc) ==
  LET block == Len(e.node) + 1
      asked == IF size > minAlloc THEN size ELSE minAlloc
      grown == [e EXCEPT !.node  = Append(@, Node(block, 0, asked, Root, 0)),
                         !.total = @ + asked]
  IN  IF asked > size THEN Halve(grown, e.current, block, RoundUp(size))
      ELSE [grown EXCEPT !.used = @ \cup {block}, !.last = block]

Alloc(e, size, separate, minAlloc) ==
  IF ~separate /\ e.current # Shared /\ Fits(e, e.current, size) # {}
  THEN GetFromFreeList(e, e.current, size, FALSE)
  ELSE IF ~separate /\ Fits(e, Shared, size) # {}
  THEN GetFromFreeList(e, Shared, size, TRUE)
  ELSE NewBlock(e, size, minAlloc)

(* A node, its parent, and so on up to the block.                          *)
Lineage(e) ==
  LET line[m \in 0 .. Len(e.node)] ==
        IF m = Root THEN <<>> ELSE << m >> \o line[e.node[m].parent]
  IN  line

(* How many of a node's parents have no other half in use.                 *)
Merges(node, up) ==
  Cardinality({i \in DOMAIN up : \A j \in 1 .. i : node[up[j]].use = 1})

(* k parents become whole, and the next one above has a half in use less.  *)
Merge(e, n, up, k) ==
  LET merged  == {up[i] : i \in 1 .. k}
      touched == {up[i] : i \in DOMAIN up \cap (1 .. k + 1)}
      counted == [e EXCEPT !.node = Lowered(@, touched)]
      halves  == {m \in DOMAIN e.node : e.node[m].parent \in merged}
  IN  InsertNode([counted EXCEPT !.list[Shared] = Without(@, halves)], Shared,
                 IF k = 0 THEN n ELSE up[k])

(* returnMemory into mFreeList                                             *)
ReturnMemory(e, n) ==
  LET up == Lineage(e)[e.node[n].parent]
  IN  Merge(e, n, up, Merges(e.node, up))

(* Mutant of Free: a group gives back to the list every group takes from.  *)
FreeToAll(e, n) == ReturnMemory([e EXCEPT !.used = @ \ {n}], n)

Free(e, n) ==
  LET taken == [e EXCEPT !.used = @ \ {n}]
  IN  IF e.current # Shared THEN InsertNode(taken, e.current, n)
      ELSE ReturnMemory(taken, n)

BeginGroup(e) ==
  LET g == Cardinality(DOMAIN e.list)
  IN  [e EXCEPT !.list = [h \in 0 .. g |-> IF h = g THEN <<>> ELSE @[h]],
                !.current = g]

EndGroup(e) == [e EXCEPT !.current = Shared]

ReturnAll(e, nodes) ==
  LET back[k \in 0 .. Len(nodes)] ==
        IF k = 0 THEN e ELSE ReturnMemory(back[k - 1], nodes[k])
  IN  back[Len(nodes)]

BarrierEnd(e) ==
  LET groups == Cardinality(DOMAIN e.list) - 1
      ended[g \in 0 .. groups] ==
        IF g = 0 THEN [e EXCEPT !.list = [h \in {Shared} |-> @[Shared]]]
        ELSE ReturnAll(ended[g - 1], e.list[g])
  IN  ended[groups]

(* release(false): the blocks that are wholly free go back.                *)
Collect(e) ==
  LET blocks == {n \in DOMAIN e.node : e.node[n].parent = Root}
      list   == e.list[Shared]
      total[k \in 0 .. Len(list)] ==
        IF k = 0 THEN e.total
        ELSE total[k - 1] - (IF list[k] \in blocks THEN e.node[list[k]].size ELSE 0)
  IN  [e EXCEPT !.list[Shared] = Without(list, blocks), !.total = total[Len(list)]]

(* release(true): no node is left.                                         *)
Release(e) == Empty
=============================================================================
