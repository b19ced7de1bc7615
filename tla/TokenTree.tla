----------------------------- MODULE TokenTree -----------------------------
(***************************************************************************)
(* The tree of drafts of the Eagle strategy: class TokenTree of            *)
(* tokentree.hpp, as operators.                                            *)
(*                                                                         *)
(* A tree is the sequence of its nodes in the order they were created; a   *)
(* node knows its parent (0 for the children of the root), its depth and   *)
(* its cumulative log probability.  The actives are the nodes the draft    *)
(* model is asked to continue; the mask of an active is the set of columns *)
(* it may attend to, where every round of the draft model adds TopK.       *)
(*                                                                         *)
(* std::sort leaves the order of equal scores open: where the code sorts,  *)
(* every outcome is admitted.                                              *)
(***************************************************************************)
EXTENDS Integers, Sequences, FiniteSets

CONSTANT TopK

(* One answer of the draft model: its best tokens and their scores, for    *)
(* every row that asked.                                                   *)
Node(tree, parent, token, score) ==
  IF parent = 0
  THEN [token |-> token, parent |-> 0, depth |-> 0, cum |-> score]
  ELSE [token |-> token, parent |-> parent, depth |-> tree[parent].depth + 1,
        cum |-> tree[parent].cum + score]

(* init()                                                                  *)
FirstNodes(answer) ==
  [j \in 1 .. TopK |-> Node(<<>>, 0, answer.tokens[j], answer.scores[j])]
FirstActives == [i \in 1 .. TopK |-> i]
FirstMask == [i \in 1 .. TopK |-> {i}]

(* grow(), step 1: TopK children for every active.                         *)
WithChildren(tree, actives, answers) ==
  tree \o [k \in 1 .. Len(actives) * TopK |->
             LET i == ((k - 1) \div TopK) + 1
                 j == ((k - 1) % TopK) + 1
             IN  Node(tree, actives[i], answers[i].tokens[j], answers[i].scores[j])]

(* Steps 2 and 3: the next actives, best first.                            *)
NextActives(tree, old) ==
  LET new == old + 1 .. Len(tree)
  IN  { s \in [1 .. TopK -> new] :
          /\ \A i, j \in 1 .. TopK : i < j => s[i] # s[j] /\ tree[s[i]].cum >= tree[s[j]].cum
          /\ \A n \in new : \/ \E i \in 1 .. TopK : s[i] = n
                            \/ \A i \in 1 .. TopK : tree[s[i]].cum >= tree[n].cum }

(* Mutant of GrownMask: the mask of the slot, not of the parent.           *)
GrownMaskBySlot(mask, tree, actives, next) ==
  [i \in 1 .. TopK |-> mask[i] \cup { TopK * (tree[next[i]].depth) + i }]

(* Step 4: the mask of the parent and a column of one's own.               *)
GrownMask(mask, tree, actives, next) ==
  [i \in 1 .. TopK |->
     LET slot == CHOOSE k \in DOMAIN actives : actives[k] = tree[next[i]].parent
     IN  mask[slot] \cup { TopK * (tree[next[i]].depth) + i }]

(* The members of a set of numbers, in ascending order.                    *)
Ascending(S) ==
  [k \in 1 .. Cardinality(S) |->
     CHOOSE c \in S : Cardinality({ d \in S : d <= c }) = k]

(* finalize(), step 1: the best nodes of the whole tree.                   *)
BestNodes(tree, max) ==
  LET size == IF Len(tree) > max THEN max ELSE Len(tree)
  IN  { best \in SUBSET DOMAIN tree :
          /\ Cardinality(best) = size
          /\ \A n \in best, m \in DOMAIN tree \ best : tree[n].cum >= tree[m].cum }

(* What the base model verifies is the sampled token and the best nodes in *)
(* the order of their creation; the place of a node among these.           *)
Place(best, n) == Cardinality({ m \in best : m <= n }) + 1

(* Step 4: a node attends to what its parent attends to, and to itself.    *)
Masks(tree, best) ==
  LET mask[n \in 0 .. Len(tree)] ==
        IF n \in best THEN mask[tree[n].parent] \cup { Place(best, n) } ELSE {1}
  IN  mask

(* Step 5: the way to a node from the sampled token.  The place of a node  *)
(* that was not chosen is what std::map creates for it, that of the first. *)
Paths(tree, best) ==
  LET path[n \in 0 .. Len(tree)] ==
        IF n = 0 THEN <<1>>
        ELSE Append(path[tree[n].parent], IF n \in best THEN Place(best, n) ELSE 2)
  IN  path

(* Steps 2 to 5: what the base model verifies, with a path to every leaf.  *)
TreeOutputs(tree, best, sampled) ==
  LET order  == Ascending(best)
      leaves == Ascending({ n \in best : \A m \in best : tree[m].parent # n })
  IN  [tokens    |-> <<sampled>> \o [i \in DOMAIN order |-> tree[order[i]].token],
       positions |-> <<0>> \o [i \in DOMAIN order |-> tree[order[i]].depth + 1],
       mask      |-> <<{1}>> \o [i \in DOMAIN order |-> Masks(tree, best)[order[i]]],
       paths     |-> [k \in DOMAIN leaves |-> Paths(tree, best)[leaves[k]]]]
=============================================================================
