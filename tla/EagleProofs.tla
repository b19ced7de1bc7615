----------------------------- MODULE EagleProofs -----------------------------
(***************************************************************************)
(* Proofs about Eagle, for any vocabulary, prompts, network, answers of    *)
(* the draft model, size of the trees and bounds.  What a situation        *)
(* (Situations) does to a property is in the assumptions of its theorem:   *)
(* types need only scores below 0, the printed text that no response goes  *)
(* on from the rows of another, and the rows of both models all three.     *)
(***************************************************************************)
EXTENDS Eagle, SequenceTheorems, FiniteSetTheorems, WellFoundedInduction, TLAPS

-----------------------------------------------------------------------------
(* Numbers in ascending order.                                             *)

(* A set of naturals that is not empty has a least member.                 *)
LEMMA Least ==
  ASSUME NEW S \in SUBSET Nat, S # {}
  PROVE  \E k \in S : \A l \in S : k <= l
<1> DEFINE Less == { p \in Nat \X Nat : p[1] < p[2] }
<1>1. IsWellFoundedOn(Less, Nat)
  BY NatLessThanWellFounded DEF OpToRel
<1>2. PICK k \in S : \A l \in S : << l, k >> \notin Less
  <2> HIDE DEF Less
  <2>1. QED
    BY <1>1, WFMin
<1>3. ASSUME NEW l \in S
      PROVE  k <= l
  <2>1. k \in Nat /\ l \in Nat
    OBVIOUS
  <2>2. l < k => << l, k >> \in Less
    BY <2>1
  <2>3. QED
    BY <1>2, <2>1, <2>2
<1>4. QED
  BY <1>3

UpTo(S, c) == { d \in S : d <= c }

(* Numbers up to a limit are finitely many.                                *)
LEMMA FiniteBelow ==
  ASSUME NEW n \in Nat, NEW S \in SUBSET (1 .. n)
  PROVE  IsFiniteSet(S)
<1>1. IsFiniteSet(1 .. n)
  BY FS_Interval
<1>2. QED
  BY <1>1, FS_Subset

(* The rank of a member counts up with the members.                        *)
LEMMA Ranks ==
  ASSUME NEW S \in SUBSET Nat, IsFiniteSet(S)
  PROVE  /\ Cardinality(S) \in Nat
         /\ \A c \in S : Cardinality(UpTo(S, c)) \in 1 .. Cardinality(S)
         /\ \A c, d \in S : c < d => Cardinality(UpTo(S, c)) < Cardinality(UpTo(S, d))
<1>1. Cardinality(S) \in Nat
  BY FS_CardinalityType
<1>2. ASSUME NEW c \in S
      PROVE  /\ IsFiniteSet(UpTo(S, c))
             /\ Cardinality(UpTo(S, c)) \in 1 .. Cardinality(S)
  <2>1. UpTo(S, c) \in SUBSET S
    BY DEF UpTo
  <2>2. IsFiniteSet(UpTo(S, c)) /\ Cardinality(UpTo(S, c)) <= Cardinality(S)
    BY <2>1, FS_Subset
  <2>3. Cardinality(UpTo(S, c)) \in Nat
    BY <2>2, FS_CardinalityType
  <2>4. c \in UpTo(S, c)
    BY DEF UpTo
  <2>5. Cardinality(UpTo(S, c)) # 0
    BY <2>2, <2>4, FS_EmptySet
  <2>6. QED
    BY <1>1, <2>2, <2>3, <2>5
<1>3. ASSUME NEW c \in S, NEW d \in S, c < d
      PROVE  Cardinality(UpTo(S, c)) < Cardinality(UpTo(S, d))
  <2>1. UpTo(S, c) \in SUBSET UpTo(S, d)
    <3>1. ASSUME NEW x \in S, x <= c
          PROVE  x <= d
      BY <1>3, <3>1
    <3>2. QED
      BY <3>1 DEF UpTo
  <2>2. d \in UpTo(S, d) /\ d \notin UpTo(S, c)
    BY <1>3 DEF UpTo
  <2>3. Cardinality(UpTo(S, c)) <= Cardinality(UpTo(S, d))
        /\ Cardinality(UpTo(S, c)) # Cardinality(UpTo(S, d))
    BY <1>2, <2>1, <2>2, FS_Subset
  <2>4. QED
    BY <1>2, <2>3
<1>4. QED
  BY <1>1, <1>2, <1>3

(* Ascending(S) lists the members of S, each at its rank.                  *)
LEMMA AscendingLists ==
  ASSUME NEW S \in SUBSET Nat, IsFiniteSet(S)
  PROVE  /\ Cardinality(S) \in Nat
         /\ Ascending(S) \in [1 .. Cardinality(S) -> S]
         /\ \A k, l \in 1 .. Cardinality(S) : k < l => Ascending(S)[k] < Ascending(S)[l]
         /\ \A c \in S : /\ Cardinality(UpTo(S, c)) \in 1 .. Cardinality(S)
                         /\ Ascending(S)[Cardinality(UpTo(S, c))] = c
<1> DEFINE n == Cardinality(S)
           f == [c \in S |-> Cardinality(UpTo(S, c))]
<1>1. /\ n \in Nat
      /\ \A c \in S : Cardinality(UpTo(S, c)) \in 1 .. n
      /\ \A c, d \in S : c < d => Cardinality(UpTo(S, c)) < Cardinality(UpTo(S, d))
  BY Ranks
<1>2. \A c, d \in S : Cardinality(UpTo(S, c)) = Cardinality(UpTo(S, d)) => c = d
  <2> SUFFICES ASSUME NEW c \in S, NEW d \in S, c # d
               PROVE  Cardinality(UpTo(S, c)) # Cardinality(UpTo(S, d))
    OBVIOUS
  <2>1. c < d \/ d < c
    OBVIOUS
  <2>2. QED
    BY <1>1, <2>1
<1>3. f \in Injection(S, 1 .. n)
  BY <1>1, <1>2 DEF Injection, IsInjective
<1>4. IsFiniteSet(1 .. n) /\ Cardinality(1 .. n) = n
  BY <1>1, FS_Interval
<1>5. f \in Surjection(S, 1 .. n)
  BY <1>3, <1>4, FS_Injection
<1>6. \A k \in 1 .. n : \E c \in S : Cardinality(UpTo(S, c)) = k
  BY <1>5 DEF Surjection
<1>7. Ascending(S) = [k \in 1 .. n |-> CHOOSE c \in S : Cardinality(UpTo(S, c)) = k]
  BY DEF Ascending, UpTo
<1>8. ASSUME NEW k \in 1 .. n
      PROVE  Ascending(S)[k] \in S /\ Cardinality(UpTo(S, Ascending(S)[k])) = k
  BY <1>6, <1>7
<1>9. ASSUME NEW c \in S
      PROVE  Ascending(S)[Cardinality(UpTo(S, c))] = c
  BY <1>1, <1>2, <1>8
<1>10. ASSUME NEW k \in 1 .. n, NEW l \in 1 .. n, k < l
       PROVE  Ascending(S)[k] < Ascending(S)[l]
  <2>1. /\ Ascending(S)[k] \in Nat /\ Ascending(S)[l] \in Nat
        /\ Ascending(S)[k] # Ascending(S)[l]
    <3>1. k # l
      BY <1>1, <1>10
    <3>2. QED
      BY <1>8, <3>1
  <2>2. ~(Ascending(S)[l] < Ascending(S)[k])
    <3> SUFFICES ASSUME Ascending(S)[l] < Ascending(S)[k] PROVE FALSE
      OBVIOUS
    <3>1. l < k
      BY <1>1, <1>8
    <3>2. QED
      BY <1>10, <3>1
  <2>3. QED
    BY <2>1, <2>2
<1>11. Ascending(S) \in [1 .. n -> S]
  BY <1>7, <1>8
<1>12. QED
  BY <1>1, <1>9, <1>10, <1>11

(* A number above all others comes last.                                   *)
LEMMA AscendingAdd ==
  ASSUME NEW S \in SUBSET Nat, IsFiniteSet(S), NEW m \in Nat, \A c \in S : c < m
  PROVE  /\ IsFiniteSet(S \cup {m}) /\ S \cup {m} \in SUBSET Nat
         /\ Cardinality(S) \in Nat /\ Cardinality(S \cup {m}) = Cardinality(S) + 1
         /\ \A k \in 1 .. Cardinality(S) : Ascending(S \cup {m})[k] = Ascending(S)[k]
         /\ Ascending(S \cup {m})[Cardinality(S) + 1] = m
<1> DEFINE T == S \cup {m}
<1>1. m \notin S
  OBVIOUS
<1>2. IsFiniteSet(T) /\ Cardinality(T) = Cardinality(S) + 1
  BY <1>1, FS_AddElement
<1>3. T \in SUBSET Nat
  OBVIOUS
<1>4. /\ Cardinality(S) \in Nat
      /\ Ascending(S) \in [1 .. Cardinality(S) -> S]
      /\ \A c \in S : /\ Cardinality(UpTo(S, c)) \in 1 .. Cardinality(S)
                      /\ Ascending(S)[Cardinality(UpTo(S, c))] = c
      /\ \A k, l \in 1 .. Cardinality(S) : k < l => Ascending(S)[k] < Ascending(S)[l]
  BY AscendingLists
<1>5. \A c \in T : Ascending(T)[Cardinality(UpTo(T, c))] = c
  BY <1>2, <1>3, AscendingLists
<1>6. ASSUME NEW c \in S
      PROVE  UpTo(T, c) = UpTo(S, c)
  <2>1. c \in Nat /\ ~(m <= c)
    OBVIOUS
  <2>2. QED
    BY <2>1 DEF UpTo
<1>7. UpTo(T, m) = T
  <2>1. \A c \in T : c <= m
    OBVIOUS
  <2>2. QED
    BY <2>1 DEF UpTo
<1>8. ASSUME NEW k \in 1 .. Cardinality(S)
      PROVE  Ascending(T)[k] = Ascending(S)[k]
  <2>1. PICK c \in S : c = Ascending(S)[k]
    BY <1>4
  <2>2. Cardinality(UpTo(S, c)) = k
    <3> DEFINE r == Cardinality(UpTo(S, c))
    <3>1. r \in 1 .. Cardinality(S) /\ Ascending(S)[r] = Ascending(S)[k]
      BY <1>4, <2>1
    <3>2. ~(r < k) /\ ~(k < r)
      BY <1>4, <3>1
    <3>3. QED
      BY <1>4, <3>1, <3>2
  <2>3. QED
    BY <1>5, <1>6, <2>1, <2>2
<1>9. Ascending(T)[Cardinality(S) + 1] = m
  BY <1>2, <1>5, <1>7
<1>10. QED
  BY <1>2, <1>3, <1>4, <1>8, <1>9

-----------------------------------------------------------------------------
(* Recursion.                                                              *)

(* Every number up to N comes from a smaller one, and 0 from none.         *)
Descends(from, N) == from \in [1 .. N -> Nat] /\ \A n \in 1 .. N : from[n] < n

(* What a number has when the one it comes from has it.                    *)
Inherited(good, from, N) == 0 \in good /\ \A n \in 1 .. N : from[n] \in good => n \in good

(* Steps that make the value of a number from that of the one it comes from.*)
Steps(step, V, N) == step \in [1 .. N -> [V -> V]]

Solves(g, V, N, a, step, from) ==
  g \in [0 .. N -> V] /\ g[0] = a /\ \A n \in 1 .. N : g[n] = step[n][g[from[n]]]

(* Induction, for a property that is a set of numbers.                     *)
LEMMA Induction ==
  ASSUME NEW N \in Nat, NEW from, Descends(from, N), NEW good, Inherited(good, from, N)
  PROVE  \A n \in 0 .. N : n \in good
<1> USE DEF Descends, Inherited
<1> DEFINE Bad == { n \in 0 .. N : n \notin good }
<1>1. Bad = {}
  <2> SUFFICES ASSUME Bad # {} PROVE FALSE
    OBVIOUS
  <2>1. Bad \in SUBSET Nat
    OBVIOUS
  <2>2. PICK m \in Bad : \A l \in Bad : m <= l
    <3> HIDE DEF Bad
    <3>1. QED
      BY <2>1, Least
  <2>3. m \in 1 .. N /\ m \notin good
    OBVIOUS
  <2>4. from[m] \in 0 .. N /\ from[m] < m
    BY <2>3
  <2>5. from[m] \notin Bad
    BY <2>2, <2>3, <2>4
  <2>6. QED
    BY <2>3, <2>4, <2>5
<1>2. QED
  BY <1>1

(* A recursive function is defined when every value is made from that of a *)
(* smaller argument, and has the type its steps keep.                      *)
LEMMA Recursion ==
  ASSUME NEW V, NEW N \in Nat, NEW a \in V, NEW step, Steps(step, V, N),
         NEW from, Descends(from, N)
  PROVE  \E g : Solves(g, V, N, a, step, from)
<1> DEFINE Up(g, m) == Solves(g, V, m, a, step, from)
           Bad == { m \in 0 .. N : ~\E g : Up(g, m) }
<1> USE DEF Descends, Steps, Solves
<1>1. Bad = {}
  <2> SUFFICES ASSUME Bad # {} PROVE FALSE
    OBVIOUS
  <2>1. Bad \in SUBSET Nat
    OBVIOUS
  <2>2. PICK m \in Bad : \A l \in Bad : m <= l
    <3> HIDE DEF Bad
    <3>1. QED
      BY <2>1, Least
  <2>3. m \in 0 .. N /\ ~\E g : Up(g, m)
    OBVIOUS
  <2>4. CASE m = 0
    <3>1. Up([n \in 0 .. 0 |-> a], 0)
      OBVIOUS
    <3>2. QED
      BY <2>3, <2>4, <3>1
  <2>5. CASE m # 0
    <3>1. m - 1 \in 0 .. N /\ ~(m <= m - 1)
      BY <2>3, <2>5
    <3>2. PICK g : Up(g, m - 1)
      BY <2>2, <3>1
    <3> DEFINE h == [n \in 0 .. m |-> IF n < m THEN g[n] ELSE step[m][g[from[m]]]]
    <3>3. from[m] \in 0 .. m - 1 /\ m \in 1 .. N
      BY <2>3, <2>5
    <3>4. g[from[m]] \in V /\ step[m] \in [V -> V]
      BY <3>2, <3>3
    <3>5. h \in [0 .. m -> V] /\ h[0] = a
      <4>1. step[m][g[from[m]]] \in V
        BY <3>4
      <4>2. \A n \in 0 .. m : n < m => n \in 0 .. m - 1
        BY <2>3
      <4>3. 0 \in 0 .. m /\ 0 < m
        BY <2>3, <2>5
      <4>4. QED
        BY <3>2, <4>1, <4>2, <4>3
    <3>6. ASSUME NEW n \in 1 .. m
          PROVE  h[n] = step[n][h[from[n]]]
      <4>1. from[n] \in 0 .. n - 1 /\ n \in 1 .. N
        BY <2>3
      <4>2. from[n] \in 0 .. m /\ from[n] < m /\ n \in 0 .. m
        BY <2>3, <4>1
      <4>3. h[from[n]] = g[from[n]]
        BY <4>2
      <4>4. CASE n < m
        <5>1. n \in 1 .. m - 1
          BY <2>3, <4>4
        <5>2. QED
          BY <3>2, <4>2, <4>3, <4>4, <5>1
      <4>5. CASE n = m
        BY <2>3, <4>2, <4>3, <4>5
      <4>6. QED
        BY <2>3, <4>4, <4>5
    <3>7. Up(h, m)
      <4> HIDE DEF h
      <4>1. QED
        BY <3>5, <3>6
    <3>8. QED
      BY <2>3, <3>7
  <2>6. QED
    BY <2>4, <2>5
<1>2. N \in 0 .. N
  OBVIOUS
<1>3. PICK g : Up(g, N)
  BY <1>1, <1>2
<1>4. QED
  BY <1>3

-----------------------------------------------------------------------------
(* The tree of drafts.                                                     *)

TreeNode == [token : Token, parent : Nat, depth : Nat, cum : Int]

(* Every node is newer than its parent, and less probable.                 *)
Grown(t) ==
  /\ t \in Seq(TreeNode) /\ t # <<>>
  /\ \A n \in 1 .. Len(t) :
       /\ t[n].parent < n
       /\ t[n].parent = 0 => t[n].depth = 0
       /\ t[n].parent # 0 =>
            /\ t[n].depth = t[t[n].parent].depth + 1
            /\ t[n].cum < t[t[n].parent].cum

(* The places of the nodes, and what the recursive definitions say.        *)
LEMMA PathsDefined ==
  ASSUME NEW t, Grown(t), NEW best \in SUBSET (1 .. Len(t)),
         \A n \in best : Place(best, n) \in Nat
  PROVE  /\ Paths(t, best) \in [0 .. Len(t) -> Seq(Nat)]
         /\ Paths(t, best)[0] = <<1>>
         /\ \A n \in 1 .. Len(t) :
              Paths(t, best)[n] = Append(Paths(t, best)[t[n].parent],
                                         IF n \in best THEN Place(best, n) ELSE 2)
<1> DEFINE N == Len(t)
           V == Seq(Nat)
           next(n) == IF n \in best THEN Place(best, n) ELSE 2
           from == [n \in 1 .. N |-> t[n].parent]
           step == [n \in 1 .. N |-> [v \in V |-> Append(v, next(n))]]
<1>1. N \in Nat /\ \A n \in 1 .. N : t[n].parent \in Nat /\ t[n].parent < n
  <2>1. N \in Nat /\ \A n \in 1 .. N : t[n] \in TreeNode
    BY ElementOfSeq, LenProperties DEF Grown
  <2>2. QED
    BY <2>1 DEF Grown, TreeNode
<1>2. Descends(from, N)
  BY <1>1 DEF Descends
<1>3. ASSUME NEW n \in 1 .. N
      PROVE  [v \in V |-> Append(v, next(n))] \in [V -> V]
  <2>1. next(n) \in Nat
    OBVIOUS
  <2>2. QED
    BY <2>1, AppendProperties
<1>4. Steps(step, V, N)
  BY <1>3 DEF Steps
<1>5. <<1>> \in V
  OBVIOUS
<1>6. PICK g : Solves(g, V, N, <<1>>, step, from)
  <2> HIDE DEF V, from, step, N
  <2>1. QED
    BY <1>1, <1>2, <1>4, <1>5, Recursion
<1>7. ASSUME NEW n \in 1 .. N
      PROVE  g[n] = Append(g[t[n].parent], next(n))
  <2>1. t[n].parent \in 0 .. N
    BY <1>1
  <2>2. g[t[n].parent] \in V /\ g[n] = step[n][g[from[n]]]
    BY <1>6, <2>1 DEF Solves
  <2>3. QED
    BY <2>2
<1>8. g = [n \in 0 .. N |-> IF n = 0 THEN <<1>> ELSE Append(g[t[n].parent], next(n))]
  <2> DEFINE h == [n \in 0 .. N |-> IF n = 0 THEN <<1>> ELSE Append(g[t[n].parent], next(n))]
  <2>1. \A n \in 0 .. N : g[n] = h[n]
    <3>1. ASSUME NEW n \in 0 .. N PROVE g[n] = h[n]
      <4>1. CASE n = 0
        BY <1>6, <4>1 DEF Solves
      <4>2. CASE n # 0
        <5>1. n \in 1 .. N
          BY <1>1, <4>2
        <5>2. QED
          BY <1>7, <4>2, <5>1
      <4>3. QED
        BY <4>1, <4>2
    <3>2. QED
      BY <3>1
  <2>2. g \in [0 .. N -> V]
    BY <1>6 DEF Solves
  <2> HIDE DEF next, V
  <2>3. QED
    BY <2>1, <2>2
<1> DEFINE p == Paths(t, best)
           good == { n \in 0 .. N : p[n] = g[n] }
<1>9. p = [n \in 0 .. Len(t) |-> IF n = 0 THEN <<1>>
             ELSE Append(p[t[n].parent], IF n \in best THEN Place(best, n) ELSE 2)]
  BY <1>8, Zenon DEF Paths
<1>10. /\ DOMAIN p = 0 .. N /\ p[0] = <<1>>
       /\ \A n \in 1 .. N : p[n] = Append(p[t[n].parent], next(n))
  <2> HIDE DEF p
  <2>1. DOMAIN p = 0 .. N
    BY <1>9
  <2>2. 0 \in 0 .. Len(t) /\ \A n \in 1 .. N : n \in 0 .. Len(t) /\ n # 0
    BY <1>1
  <2>3. p[0] = <<1>>
    BY <1>9, <2>2
  <2>4. ASSUME NEW n \in 1 .. N
        PROVE  p[n] = Append(p[t[n].parent], next(n))
    BY <1>9, <2>2
  <2>5. QED
    BY <2>1, <2>3, <2>4
<1>11. \A n \in 0 .. N : p[n] = g[n]
  <2> HIDE DEF p
  <2>1. 0 \in good
    <3>1. p[0] = g[0]
      <4> HIDE DEF from, step
      <4>1. QED
        BY <1>6, <1>10 DEF Solves
    <3>2. 0 \in 0 .. N
      BY <1>1
    <3>3. QED
      BY <3>1, <3>2
  <2>2. ASSUME NEW n \in 1 .. N, from[n] \in good
        PROVE  n \in good
    <3>1. from[n] = t[n].parent /\ p[t[n].parent] = g[t[n].parent] /\ n \in 0 .. N
      BY <1>1, <2>2
    <3>2. QED
      BY <1>7, <1>10, <3>1
  <2>3. Inherited(good, from, N)
    BY <2>1, <2>2 DEF Inherited
  <2>4. \A n \in 0 .. N : n \in good
    <3> HIDE DEF good, from, N
    <3>1. QED
      BY <1>1, <1>2, <2>3, Induction
  <2>5. QED
    BY <2>4
<1>12. p \in [0 .. N -> Seq(Nat)]
  <2> HIDE DEF p
  <2>1. p = [n \in 0 .. N |-> p[n]]
    <3> DEFINE e(n) == IF n = 0 THEN <<1>> ELSE Append(p[t[n].parent], next(n))
    <3>1. p = [n \in 0 .. N |-> e(n)]
      BY <1>9
    <3> HIDE DEF e
    <3>2. QED
      BY <3>1
  <2>2. g \in [0 .. N -> Seq(Nat)]
    BY <1>6 DEF Solves
  <2>3. QED
    BY <1>11, <2>1, <2>2
<1>13. QED
  BY <1>10, <1>12

(* The masks, likewise.                                                    *)
LEMMA MasksDefined ==
  ASSUME NEW t, Grown(t), NEW best \in SUBSET (1 .. Len(t)),
         \A n \in best : Place(best, n) \in Nat
  PROVE  /\ Masks(t, best)[0] = {1}
         /\ \A n \in best :
              Masks(t, best)[n] = Masks(t, best)[t[n].parent] \cup { Place(best, n) }
<1> DEFINE N == Len(t)
           V == SUBSET Nat
           next(n) == Place(best, n)
           from == [n \in 1 .. N |-> t[n].parent]
           step == [n \in 1 .. N |->
                      [v \in V |-> IF n \in best THEN v \cup { next(n) } ELSE {1}]]
<1>1. N \in Nat /\ \A n \in 1 .. N : t[n].parent \in Nat /\ t[n].parent < n
  <2>1. N \in Nat /\ \A n \in 1 .. N : t[n] \in TreeNode
    BY ElementOfSeq, LenProperties DEF Grown
  <2>2. QED
    BY <2>1 DEF Grown, TreeNode
<1>2. Descends(from, N)
  BY <1>1 DEF Descends
<1>3. ASSUME NEW n \in 1 .. N
      PROVE  [v \in V |-> IF n \in best THEN v \cup { next(n) } ELSE {1}] \in [V -> V]
  <2> DEFINE e(v) == IF n \in best THEN v \cup { next(n) } ELSE {1}
  <2>1. ASSUME NEW v \in V
        PROVE  e(v) \in V
    <3>1. n \in best => v \cup { next(n) } \in V
      OBVIOUS
    <3>2. {1} \in V
      OBVIOUS
    <3> HIDE DEF V, next
    <3>3. QED
      BY <3>1, <3>2
  <2>2. [v \in V |-> e(v)] \in [V -> V]
    <3> HIDE DEF V, e
    <3>1. QED
      BY <2>1
  <2>3. QED
    BY <2>2
<1>4. Steps(step, V, N)
  BY <1>3 DEF Steps
<1>5. {1} \in V
  OBVIOUS
<1>6. PICK g : Solves(g, V, N, {1}, step, from)
  <2> HIDE DEF V, from, step, N
  <2>1. QED
    BY <1>1, <1>2, <1>4, <1>5, Recursion
<1>7. ASSUME NEW n \in 1 .. N
      PROVE  g[n] = IF n \in best THEN g[t[n].parent] \cup { next(n) } ELSE {1}
  <2>1. t[n].parent \in 0 .. N
    BY <1>1
  <2>2. g[t[n].parent] \in V /\ g[n] = step[n][g[from[n]]]
    BY <1>6, <2>1 DEF Solves
  <2> HIDE DEF V, next
  <2>3. QED
    BY <2>2
<1>8. g = [n \in 0 .. N |-> IF n \in best THEN g[t[n].parent] \cup { next(n) } ELSE {1}]
  <2> DEFINE h == [n \in 0 .. N |->
                     IF n \in best THEN g[t[n].parent] \cup { next(n) } ELSE {1}]
  <2>1. \A n \in 0 .. N : g[n] = h[n]
    <3>1. ASSUME NEW n \in 0 .. N PROVE g[n] = h[n]
      <4>1. CASE n = 0
        BY <1>6, <4>1 DEF Solves
      <4>2. CASE n # 0
        <5>1. n \in 1 .. N
          BY <1>1, <4>2
        <5>2. QED
          BY <1>7, <4>2, <5>1
      <4>3. QED
        BY <4>1, <4>2
    <3>2. QED
      BY <3>1
  <2>2. g \in [0 .. N -> V]
    BY <1>6 DEF Solves
  <2> HIDE DEF next, V
  <2>3. QED
    BY <2>1, <2>2
<1> DEFINE p == Masks(t, best)
<1>9. p = [n \in 0 .. Len(t) |-> IF n \in best THEN p[t[n].parent] \cup { Place(best, n) } ELSE {1}]
  BY <1>8, Zenon DEF Masks
<1>10. p[0] = {1}
  <2>1. 0 \in 0 .. Len(t) /\ 0 \notin best
    BY <1>1
  <2> HIDE DEF p
  <2>2. QED
    BY <1>9, <2>1
<1>11. ASSUME NEW n \in best
       PROVE  p[n] = p[t[n].parent] \cup { Place(best, n) }
  <2>1. n \in 0 .. Len(t)
    BY <1>1
  <2> HIDE DEF p
  <2>2. QED
    BY <1>9, <2>1
<1>12. QED
  BY <1>10, <1>11

(* And the tokens on the way to a node.                                    *)
LEMMA PathTokensDefined ==
  ASSUME NEW t, Grown(t)
  PROVE  /\ PathTokens(t) \in [0 .. Len(t) -> Seq(Token)]
         /\ PathTokens(t)[0] = <<>>
         /\ \A n \in 1 .. Len(t) :
              PathTokens(t)[n] = Append(PathTokens(t)[t[n].parent], t[n].token)
<1> DEFINE N == Len(t)
           V == Seq(Token)
           next(n) == t[n].token
           from == [n \in 1 .. N |-> t[n].parent]
           step == [n \in 1 .. N |-> [v \in V |-> Append(v, next(n))]]
<1>1. N \in Nat /\ \A n \in 1 .. N : t[n].parent \in Nat /\ t[n].parent < n /\ t[n].token \in Token
  <2>1. N \in Nat /\ \A n \in 1 .. N : t[n] \in TreeNode
    BY ElementOfSeq, LenProperties DEF Grown
  <2>2. QED
    BY <2>1 DEF Grown, TreeNode
<1>2. Descends(from, N)
  BY <1>1 DEF Descends
<1>3. ASSUME NEW n \in 1 .. N
      PROVE  [v \in V |-> Append(v, next(n))] \in [V -> V]
  BY <1>1, AppendProperties
<1>4. Steps(step, V, N)
  BY <1>3 DEF Steps
<1>5. <<>> \in V
  OBVIOUS
<1>6. PICK g : Solves(g, V, N, <<>>, step, from)
  <2> HIDE DEF V, from, step, N
  <2>1. QED
    BY <1>1, <1>2, <1>4, <1>5, Recursion
<1>7. ASSUME NEW n \in 1 .. N
      PROVE  g[n] = Append(g[t[n].parent], next(n))
  <2>1. t[n].parent \in 0 .. N
    BY <1>1
  <2>2. g[t[n].parent] \in V /\ g[n] = step[n][g[from[n]]]
    BY <1>6, <2>1 DEF Solves
  <2>3. QED
    BY <2>2
<1>8. g = [n \in 0 .. N |-> IF n = 0 THEN <<>> ELSE Append(g[t[n].parent], next(n))]
  <2> DEFINE h == [n \in 0 .. N |-> IF n = 0 THEN <<>> ELSE Append(g[t[n].parent], next(n))]
  <2>1. \A n \in 0 .. N : g[n] = h[n]
    <3>1. ASSUME NEW n \in 0 .. N PROVE g[n] = h[n]
      <4>1. CASE n = 0
        BY <1>6, <4>1 DEF Solves
      <4>2. CASE n # 0
        <5>1. n \in 1 .. N
          BY <1>1, <4>2
        <5>2. QED
          BY <1>7, <4>2, <5>1
      <4>3. QED
        BY <4>1, <4>2
    <3>2. QED
      BY <3>1
  <2>2. g \in [0 .. N -> V]
    BY <1>6 DEF Solves
  <2> HIDE DEF next, V
  <2>3. QED
    BY <2>1, <2>2
<1> DEFINE p == PathTokens(t)
           good == { n \in 0 .. N : p[n] = g[n] }
<1>9. p = [n \in 0 .. Len(t) |-> IF n = 0 THEN <<>> ELSE Append(p[t[n].parent], t[n].token)]
  BY <1>8, Zenon DEF PathTokens
<1>10. /\ p[0] = <<>>
       /\ \A n \in 1 .. N : p[n] = Append(p[t[n].parent], next(n))
  <2> HIDE DEF p
  <2>1. 0 \in 0 .. Len(t) /\ \A n \in 1 .. N : n \in 0 .. Len(t) /\ n # 0
    BY <1>1
  <2>2. p[0] = <<>>
    BY <1>9, <2>1
  <2>3. ASSUME NEW n \in 1 .. N
        PROVE  p[n] = Append(p[t[n].parent], next(n))
    BY <1>9, <2>1
  <2>4. QED
    BY <2>2, <2>3
<1>11. \A n \in 0 .. N : p[n] = g[n]
  <2> HIDE DEF p
  <2>1. 0 \in good
    <3>1. p[0] = g[0]
      <4> HIDE DEF from, step
      <4>1. QED
        BY <1>6, <1>10 DEF Solves
    <3>2. 0 \in 0 .. N
      BY <1>1
    <3>3. QED
      BY <3>1, <3>2
  <2>2. ASSUME NEW n \in 1 .. N, from[n] \in good
        PROVE  n \in good
    <3>1. from[n] = t[n].parent /\ p[t[n].parent] = g[t[n].parent] /\ n \in 0 .. N
      BY <1>1, <2>2
    <3>2. QED
      BY <1>7, <1>10, <3>1
  <2>3. Inherited(good, from, N)
    BY <2>1, <2>2 DEF Inherited
  <2>4. \A n \in 0 .. N : n \in good
    <3> HIDE DEF good, from, N
    <3>1. QED
      BY <1>1, <1>2, <2>3, Induction
  <2>5. QED
    BY <2>4
<1>12. p \in [0 .. N -> V]
  <2> HIDE DEF p
  <2>1. p = [n \in 0 .. N |-> p[n]]
    <3> DEFINE e(n) == IF n = 0 THEN <<>> ELSE Append(p[t[n].parent], next(n))
    <3>1. p = [n \in 0 .. N |-> e(n)]
      BY <1>9
    <3> HIDE DEF e
    <3>2. QED
      BY <3>1
  <2>2. g \in [0 .. N -> V]
    BY <1>6 DEF Solves
  <2> HIDE DEF V
  <2>3. QED
    BY <1>11, <2>1, <2>2
<1>13. QED
  BY <1>10, <1>12

-----------------------------------------------------------------------------
(* The history of the base model.                                          *)

(* A function on the first numbers is a sequence.                          *)
LEMMA FunctionSeq ==
  ASSUME NEW S, NEW n \in Nat, NEW f \in [1 .. n -> S]
  PROVE  f \in Seq(S) /\ Len(f) = n /\ DOMAIN f = 1 .. n
<1>1. f \in Seq(S) /\ DOMAIN f = 1 .. n
  OBVIOUS
<1>2. Len(f) \in Nat /\ DOMAIN f = 1 .. Len(f)
  BY <1>1, LenProperties
<1>3. QED
  BY <1>1, <1>2

(* What the spans keep moves down, row after row; when every row comes     *)
(* from its own place or behind it, none is overwritten before it is read. *)
LEMMA MovedRows ==
  ASSUME NEW S, NEW rs \in Seq(S), NEW start \in Nat, NEW source \in Seq(1 .. Len(rs)),
         start + Len(source) <= Len(rs)
  PROVE  /\ Moved(rs, start, source) \in Seq(S)
         /\ Len(Moved(rs, start, source)) = start + Len(source)
         /\ \A i \in 1 .. start : Moved(rs, start, source)[i] = rs[i]
         /\ (\A k \in 1 .. Len(source) : start + k <= source[k]) =>
              \A k \in 1 .. Len(source) : Moved(rs, start, source)[start + k] = rs[source[k]]
<1> DEFINE N == Len(source)
           L == Len(rs)
           V == [1 .. L -> S]
           after(v, k) == [v EXCEPT ![start + k] = v[source[k]]]
           from == [n \in 1 .. N |-> n - 1]
           step == [n \in 1 .. N |-> [v \in V |-> after(v, n)]]
<1>1. /\ N \in Nat /\ L \in Nat /\ source \in [1 .. N -> 1 .. L]
      /\ rs \in V
  BY LenProperties
<1>2. Descends(from, N)
  BY <1>1 DEF Descends
<1>3. ASSUME NEW n \in 1 .. N, NEW v \in V
      PROVE  after(v, n) \in V
  BY <1>1
<1>4. Steps(step, V, N)
  <2>1. \A n \in 1 .. N : [v \in V |-> after(v, n)] \in [V -> V]
    <3> HIDE DEF V, after
    <3>1. QED
      BY <1>3
  <2> HIDE DEF V, after
  <2>2. QED
    BY <2>1 DEF Steps
<1>5. PICK g : Solves(g, V, N, rs, step, from)
  <2> HIDE DEF V, from, step, N
  <2>1. QED
    BY <1>1, <1>2, <1>4, Recursion
<1>6. ASSUME NEW n \in 1 .. N
      PROVE  n - 1 \in 0 .. N /\ g[n - 1] \in V /\ g[n] = after(g[n - 1], n)
  <2>1. n - 1 \in 0 .. N
    BY <1>1
  <2>2. g[n - 1] \in V /\ g[n] = step[n][g[from[n]]]
    BY <1>5, <2>1 DEF Solves
  <2> HIDE DEF V, after
  <2>3. QED
    BY <2>1, <2>2
<1>7. g = [k \in 0 .. N |-> IF k = 0 THEN rs ELSE after(g[k - 1], k)]
  <2> DEFINE h == [k \in 0 .. N |-> IF k = 0 THEN rs ELSE after(g[k - 1], k)]
  <2>1. \A n \in 0 .. N : g[n] = h[n]
    <3>1. ASSUME NEW n \in 0 .. N PROVE g[n] = h[n]
      <4>1. CASE n = 0
        BY <1>5, <4>1 DEF Solves
      <4>2. CASE n # 0
        <5>1. n \in 1 .. N
          BY <1>1, <4>2
        <5> HIDE DEF after
        <5>2. QED
          BY <1>6, <4>2, <5>1
      <4>3. QED
        BY <4>1, <4>2
    <3>2. QED
      BY <3>1
  <2>2. g \in [0 .. N -> V]
    BY <1>5 DEF Solves
  <2> HIDE DEF after, V
  <2>3. QED
    BY <2>1, <2>2
<1> DEFINE M == CHOOSE moved : moved = [k \in 0 .. Len(source) |->
                  IF k = 0 THEN rs
                  ELSE [moved[k - 1] EXCEPT ![start + k] = moved[k - 1][source[k]]]]
<1>8. M = [k \in 0 .. Len(source) |->
             IF k = 0 THEN rs ELSE [M[k - 1] EXCEPT ![start + k] = M[k - 1][source[k]]]]
  BY <1>7, Zenon
<1>9. Moved(rs, start, source) = SubSeq(M[N], 1, start + N)
  BY DEF Moved
<1>10. /\ M[0] = rs
       /\ \A n \in 1 .. N : M[n] = after(M[n - 1], n)
  <2> HIDE DEF M
  <2>1. 0 \in 0 .. N /\ \A n \in 1 .. N : n \in 0 .. N /\ n # 0
    BY <1>1
  <2>2. M[0] = rs
    BY <1>8, <2>1
  <2>3. ASSUME NEW n \in 1 .. N
        PROVE  M[n] = after(M[n - 1], n)
    BY <1>8, <2>1
  <2>4. QED
    BY <2>2, <2>3
<1> HIDE DEF M
<1> DEFINE plain(m, n) == \A i \in 1 .. L : (i <= start \/ start + n < i) => m[i] = rs[i]
           kept(m, n) == \A k \in 1 .. n : m[start + k] = rs[source[k]]
           sorted == \A k \in 1 .. N : start + k <= source[k]
           good == { n \in 0 .. N : /\ M[n] \in V /\ plain(M[n], n)
                                    /\ sorted => kept(M[n], n) }
<1>11. 0 \in good
  BY <1>1, <1>10
<1>12. ASSUME NEW n \in 1 .. N, from[n] \in good
       PROVE  n \in good
  <2>1. n - 1 \in 0 .. N /\ n \in 0 .. N /\ from[n] = n - 1
    BY <1>1
  <2>2. M[n - 1] \in V /\ plain(M[n - 1], n - 1) /\ (sorted => kept(M[n - 1], n - 1))
    BY <1>12, <2>1
  <2>3. M[n] = after(M[n - 1], n)
    BY <1>10
  <2>4. M[n] \in V
    <3> HIDE DEF V, after
    <3>1. QED
      BY <1>3, <2>2, <2>3
  <2>5. /\ start + n \in 1 .. L /\ source[n] \in 1 .. L
    BY <1>1
  <2>6. /\ M[n][start + n] = M[n - 1][source[n]]
        /\ \A i \in 1 .. L : i # start + n => M[n][i] = M[n - 1][i]
    BY <2>2, <2>3, <2>5
  <2>7. plain(M[n], n)
    <3> SUFFICES ASSUME NEW i \in 1 .. L, i <= start \/ start + n < i
                 PROVE  M[n][i] = rs[i]
      OBVIOUS
    <3>1. i # start + n /\ (i <= start \/ start + (n - 1) < i)
      BY <1>1
    <3>2. QED
      BY <2>2, <2>6, <3>1
  <2>8. ASSUME sorted
        PROVE  kept(M[n], n)
    <3> SUFFICES ASSUME NEW k \in 1 .. n
                 PROVE  M[n][start + k] = rs[source[k]]
      OBVIOUS
    <3>1. CASE k = n
      <4>1. start + n <= source[n]
        BY <2>8
      <4>2. start + (n - 1) < source[n]
        BY <1>1, <2>5, <4>1
      <4>3. QED
        BY <2>2, <2>5, <2>6, <3>1, <4>2
    <3>2. CASE k # n
      <4>1. k \in 1 .. n - 1 /\ start + k \in 1 .. L /\ start + k # start + n
        BY <1>1, <2>5, <3>2
      <4>2. QED
        BY <2>2, <2>6, <2>8, <4>1
    <3>3. QED
      BY <3>1, <3>2
  <2>9. QED
    BY <2>1, <2>4, <2>7, <2>8
<1>13. N \in good
  <2>1. Inherited(good, from, N)
    <3> HIDE DEF good, from
    <3>1. QED
      BY <1>11, <1>12 DEF Inherited
  <2>2. N \in 0 .. N
    BY <1>1
  <2> HIDE DEF good, from, N
  <2>3. QED
    BY <1>1, <1>2, <2>1, <2>2, Induction
<1>14. M[N] \in V /\ plain(M[N], N) /\ (sorted => kept(M[N], N))
  BY <1>13
<1>15. M[N] \in Seq(S) /\ Len(M[N]) = L
  BY <1>1, <1>14, FunctionSeq
<1>16. /\ SubSeq(M[N], 1, start + N) \in Seq(S)
       /\ Len(SubSeq(M[N], 1, start + N)) = start + N
       /\ \A i \in 1 .. start + N : SubSeq(M[N], 1, start + N)[i] = M[N][i]
  BY <1>1, <1>15, SubSeqProperties
<1>17. \A i \in 1 .. start : SubSeq(M[N], 1, start + N)[i] = rs[i]
  <2>1. \A i \in 1 .. start : i \in 1 .. start + N /\ i \in 1 .. L
    BY <1>1
  <2>2. QED
    BY <1>14, <1>16, <2>1
<1>18. ASSUME sorted, NEW k \in 1 .. N
       PROVE  SubSeq(M[N], 1, start + N)[start + k] = rs[source[k]]
  <2>1. start + k \in 1 .. start + N
    BY <1>1
  <2>2. QED
    BY <1>14, <1>16, <1>18, <2>1
<1>19. QED
  BY <1>9, <1>16, <1>17, <1>18

-----------------------------------------------------------------------------
(* What the base model verifies.                                           *)

(* A path leads down the rows of the drafts: every row has the position of *)
(* its depth and attends to the rows of the path before it and itself.     *)
GoodPath(d, p) ==
  /\ p \in Seq(1 .. Len(d.tokens)) /\ p # <<>> /\ p[1] = 1
  /\ \A j, k \in 1 .. Len(p) : j < k => p[j] < p[k]
  /\ \A j \in 1 .. Len(p) :
       /\ d.positions[p[j]] = j - 1
       /\ Cardinality(d.mask[p[j]]) = j
       /\ \A k \in 1 .. j : Ascending(d.mask[p[j]])[k] = p[k]

GoodDraft(d) ==
  /\ d.tokens \in Seq(Token) /\ d.tokens # <<>>
  /\ d.positions \in Seq(Nat) /\ Len(d.positions) = Len(d.tokens)
  /\ d.mask \in Seq((SUBSET (1 .. Len(d.tokens))) \ {{}}) /\ Len(d.mask) = Len(d.tokens)
  /\ d.paths \in Seq(Seq(1 .. Len(d.tokens))) /\ d.paths # <<>>
  /\ \A k \in DOMAIN d.paths : GoodPath(d, d.paths[k])

(* One more element in front of a sequence.                                *)
LEMMA InFront ==
  ASSUME NEW S, NEW x \in S, NEW n \in Nat, NEW f \in [1 .. n -> S]
  PROVE  /\ <<x>> \o f \in Seq(S) /\ Len(<<x>> \o f) = n + 1
         /\ (<<x>> \o f)[1] = x
         /\ \A i \in 1 .. n : (<<x>> \o f)[i + 1] = f[i]
<1>1. f \in Seq(S) /\ Len(f) = n
  BY FunctionSeq
<1>2. <<x>> \in Seq(S) /\ Len(<<x>>) = 1 /\ <<x>>[1] = x
  OBVIOUS
<1>3. QED
  BY <1>1, <1>2, ConcatProperties

(* The nodes are newer than their parents; a chosen node's parent is       *)
(* chosen, since it is more probable.                                      *)
LEMMA ChosenNodes ==
  ASSUME NEW t, Grown(t), NEW best \in BestNodes(t, DraftLen)
  PROVE  /\ Len(t) \in Nat \ {0} /\ \A n \in 1 .. Len(t) : t[n] \in TreeNode
         /\ best \in SUBSET (1 .. Len(t)) /\ IsFiniteSet(best)
         /\ Cardinality(best) \in Nat \ {0}
         /\ \A n \in best : t[n].parent = 0 \/ t[n].parent \in best
<1> USE EagleAssumption DEF EagleAssumption
<1>1. Len(t) \in Nat \ {0} /\ DOMAIN t = 1 .. Len(t) /\ \A n \in 1 .. Len(t) : t[n] \in TreeNode
  BY ElementOfSeq, LenProperties, EmptySeq DEF Grown
<1>2. /\ best \in SUBSET (1 .. Len(t))
      /\ Cardinality(best) = IF Len(t) > DraftLen THEN DraftLen ELSE Len(t)
      /\ \A n \in best, m \in (1 .. Len(t)) \ best : t[n].cum >= t[m].cum
  BY <1>1 DEF BestNodes
<1>3. IsFiniteSet(best)
  BY <1>1, <1>2, FiniteBelow
<1>4. Cardinality(best) \in Nat \ {0}
  BY <1>1, <1>2
<1>5. ASSUME NEW n \in best, t[n].parent # 0
      PROVE  t[n].parent \in best
  <2>1. n \in 1 .. Len(t)
    BY <1>2
  <2>2. t[n].parent \in 1 .. Len(t) /\ t[n].cum < t[t[n].parent].cum
    BY <1>1, <1>5, <2>1 DEF Grown, TreeNode
  <2>3. t[n].cum \in Int /\ t[t[n].parent].cum \in Int
    BY <1>1, <2>1, <2>2 DEF TreeNode
  <2>4. QED
    BY <1>2, <2>2, <2>3
<1>6. QED
  BY <1>1, <1>2, <1>3, <1>4, <1>5

(* Every path of finalize is good, and there is one: the chosen nodes form *)
(* a tree below the sampled token, with a leaf.                            *)
LEMMA TreeOutputsGood ==
  ASSUME NEW t, Grown(t), NEW best \in BestNodes(t, DraftLen), NEW sampled \in Token
  PROVE  /\ GoodDraft(TreeOutputs(t, best, sampled))
         /\ TreeOutputs(t, best, sampled).tokens[1] = sampled
<1> DEFINE N == Len(t)
           C == Cardinality(best)
           order == Ascending(best)
           rank(n) == Cardinality(UpTo(best, n))
           at(n) == IF n = 0 THEN 1 ELSE Place(best, n)
           dep(n) == IF n = 0 THEN 0 ELSE t[n].depth + 1
           known == best \cup {0}
           from == [n \in 1 .. N |-> t[n].parent]
           masks == Masks(t, best)
           paths == Paths(t, best)
           d == TreeOutputs(t, best, sampled)
<1>1. /\ N \in Nat \ {0} /\ \A n \in 1 .. N : t[n] \in TreeNode
      /\ best \in SUBSET (1 .. N) /\ IsFiniteSet(best) /\ C \in Nat \ {0}
      /\ \A n \in best : t[n].parent \in known
  BY ChosenNodes
<1>2. best \in SUBSET Nat
  BY <1>1
<1>3. /\ order \in [1 .. C -> best]
      /\ \A n \in best : rank(n) \in 1 .. C /\ order[rank(n)] = n
      /\ \A k, l \in 1 .. C : k < l => order[k] < order[l]
  BY <1>1, <1>2, AscendingLists
<1>4. \A n, m \in best : n < m => rank(n) < rank(m)
  BY <1>1, <1>2, Ranks
<1>5. \A n \in best : Place(best, n) = rank(n) + 1
  BY DEF Place, UpTo
<1>6. /\ \A n \in known : at(n) \in 1 .. C + 1
      /\ \A n \in best : at(n) = rank(n) + 1 /\ at(t[n].parent) < at(n)
      /\ \A n \in best : t[n].parent \in Nat /\ t[n].parent < n /\ dep(n) = dep(t[n].parent) + 1
  <2>1. ASSUME NEW n \in best
        PROVE  /\ n \in 1 .. N /\ n # 0 /\ at(n) = rank(n) + 1
               /\ t[n].parent \in Nat /\ t[n].parent < n /\ dep(n) = dep(t[n].parent) + 1
    <3>1. n \in 1 .. N /\ n # 0
      BY <1>1
    <3>2. t[n].parent \in Nat /\ t[n].depth \in Nat /\ t[n].parent < n
      BY <1>1, <3>1 DEF TreeNode, Grown
    <3>3. dep(n) = dep(t[n].parent) + 1
      BY <3>1, <3>2 DEF Grown
    <3>4. QED
      BY <1>5, <3>1, <3>2, <3>3
  <2>2. \A n \in known : at(n) \in 1 .. C + 1
    BY <1>1, <1>3, <2>1
  <2>3. ASSUME NEW n \in best
        PROVE  at(t[n].parent) < at(n)
    <3>1. CASE t[n].parent = 0
      BY <1>1, <1>3, <2>1, <3>1
    <3>2. CASE t[n].parent # 0
      <4>1. t[n].parent \in best
        BY <1>1, <3>2
      <4>2. rank(t[n].parent) < rank(n) /\ rank(n) \in 1 .. C /\ rank(t[n].parent) \in 1 .. C
        BY <1>3, <1>4, <2>1, <4>1
      <4> HIDE DEF rank
      <4>3. QED
        BY <2>1, <4>1, <4>2
    <3>3. QED
      BY <3>1, <3>2
  <2>4. QED
    BY <2>1, <2>2, <2>3
<1>7. Descends(from, N)
  <2>1. \A n \in 1 .. N : t[n].parent \in Nat /\ t[n].parent < n
    BY <1>1 DEF TreeNode, Grown
  <2>2. QED
    BY <2>1 DEF Descends
<1>8. \A n \in best : Place(best, n) \in Nat
  BY <1>1, <1>3, <1>5
<1>9. /\ masks[0] = {1}
      /\ \A n \in best : masks[n] = masks[t[n].parent] \cup { at(n) }
  <2>1. \A n \in best : at(n) = Place(best, n)
    BY <1>1
  <2>2. QED
    BY <1>1, <1>8, <2>1, MasksDefined
<1>10. /\ paths[0] = <<1>>
       /\ \A n \in best : paths[n] = Append(paths[t[n].parent], at(n))
  <2>1. \A n \in best : at(n) = Place(best, n) /\ n \in 1 .. N
    BY <1>1
  <2>2. QED
    BY <1>1, <1>8, <2>1, PathsDefined
<1> HIDE DEF masks, paths, at, dep, rank, order, C, N
<1>11. \A n \in known : masks[n] \in SUBSET (1 .. at(n))
  <2> DEFINE good == { n \in 0 .. N : n \in known => masks[n] \in SUBSET (1 .. at(n)) }
  <2>1. 0 \in good
    <3>1. at(0) = 1
      BY DEF at
    <3>2. QED
      BY <1>1, <1>9, <3>1
  <2>2. ASSUME NEW n \in 1 .. N, from[n] \in good
        PROVE  n \in good
    <3> SUFFICES ASSUME n \in known PROVE masks[n] \in SUBSET (1 .. at(n))
      BY <1>1
    <3>1. n \in best /\ from[n] = t[n].parent
      BY <1>1
    <3>2. /\ t[n].parent \in known /\ masks[n] = masks[t[n].parent] \cup { at(n) }
          /\ at(t[n].parent) \in 1 .. C + 1 /\ at(n) \in 1 .. C + 1
          /\ at(t[n].parent) < at(n)
      BY <1>1, <1>6, <1>9, <3>1
    <3>3. masks[t[n].parent] \in SUBSET (1 .. at(t[n].parent))
      BY <2>2, <3>1, <3>2
    <3>4. QED
      BY <1>1, <3>2, <3>3
  <2>3. Inherited(good, from, N)
    BY <2>1, <2>2 DEF Inherited
  <2>4. \A n \in 0 .. N : n \in good
    <3> HIDE DEF good, from
    <3>1. QED
      BY <1>1, <1>7, <2>3, Induction
  <2>5. \A n \in known : n \in 0 .. N
    BY <1>1
  <2>6. QED
    BY <2>4, <2>5
<1>12. /\ d.tokens = <<sampled>> \o [i \in 1 .. C |-> t[order[i]].token]
       /\ d.positions = <<0>> \o [i \in 1 .. C |-> t[order[i]].depth + 1]
       /\ d.mask = <<{1}>> \o [i \in 1 .. C |-> masks[order[i]]]
  <2>1. DOMAIN order = 1 .. C
    BY <1>3
  <2>2. QED
    BY <2>1 DEF TreeOutputs, order, masks
<1>13. \A i \in 1 .. C : /\ order[i] \in best /\ order[i] \in 1 .. N
                         /\ t[order[i]].token \in Token /\ t[order[i]].depth \in Nat
                         /\ masks[order[i]] \in (SUBSET (1 .. C + 1)) \ {{}}
  <2> SUFFICES ASSUME NEW i \in 1 .. C
               PROVE  /\ order[i] \in best /\ order[i] \in 1 .. N
                      /\ t[order[i]].token \in Token /\ t[order[i]].depth \in Nat
                      /\ masks[order[i]] \in (SUBSET (1 .. C + 1)) \ {{}}
    OBVIOUS
  <2>1. order[i] \in best /\ order[i] \in 1 .. N
    BY <1>1, <1>3
  <2>2. t[order[i]].token \in Token /\ t[order[i]].depth \in Nat
    BY <1>1, <2>1 DEF TreeNode
  <2>3. /\ masks[order[i]] \in SUBSET (1 .. at(order[i])) /\ at(order[i]) \in 1 .. C + 1
        /\ at(order[i]) \in masks[order[i]]
    BY <1>6, <1>9, <1>11, <2>1
  <2>4. QED
    BY <1>1, <2>1, <2>2, <2>3
<1>14. /\ d.tokens \in Seq(Token) /\ Len(d.tokens) = C + 1 /\ d.tokens[1] = sampled
  <2> DEFINE f == [i \in 1 .. C |-> t[order[i]].token]
  <2>1. f \in [1 .. C -> Token]
    BY <1>13
  <2> HIDE DEF f
  <2>2. <<sampled>> \o f \in Seq(Token) /\ Len(<<sampled>> \o f) = C + 1 /\ (<<sampled>> \o f)[1] = sampled
    BY <1>1, <2>1, InFront
  <2>3. QED
    BY <1>12, <2>2 DEF f
<1>15. /\ d.positions \in Seq(Nat) /\ Len(d.positions) = C + 1
       /\ d.positions[1] = 0
       /\ \A i \in 1 .. C : d.positions[i + 1] = t[order[i]].depth + 1
  <2> DEFINE f == [i \in 1 .. C |-> t[order[i]].depth + 1]
  <2>1. f \in [1 .. C -> Nat] /\ \A i \in 1 .. C : f[i] = t[order[i]].depth + 1
    BY <1>13
  <2> HIDE DEF f
  <2>2. /\ <<0>> \o f \in Seq(Nat) /\ Len(<<0>> \o f) = C + 1 /\ (<<0>> \o f)[1] = 0
        /\ \A i \in 1 .. C : (<<0>> \o f)[i + 1] = f[i]
    <3>1. 0 \in Nat
      OBVIOUS
    <3>2. QED
      BY <1>1, <2>1, <3>1, InFront
  <2>3. QED
    BY <1>12, <2>1, <2>2 DEF f
<1>16. /\ d.mask \in Seq((SUBSET (1 .. C + 1)) \ {{}}) /\ Len(d.mask) = C + 1
       /\ d.mask[1] = {1}
       /\ \A i \in 1 .. C : d.mask[i + 1] = masks[order[i]]
  <2> DEFINE f == [i \in 1 .. C |-> masks[order[i]]]
             V == (SUBSET (1 .. C + 1)) \ {{}}
  <2>1. f \in [1 .. C -> V] /\ \A i \in 1 .. C : f[i] = masks[order[i]]
    BY <1>13
  <2>2. {1} \in V
    BY <1>1
  <2> HIDE DEF f, V
  <2>3. /\ <<{1}>> \o f \in Seq(V) /\ Len(<<{1}>> \o f) = C + 1 /\ (<<{1}>> \o f)[1] = {1}
        /\ \A i \in 1 .. C : (<<{1}>> \o f)[i + 1] = f[i]
    BY <1>1, <2>1, <2>2, InFront
  <2>4. QED
    BY <1>12, <2>1, <2>3 DEF f, V
<1> HIDE DEF d
<1>17. \A n \in known : d.positions[at(n)] = dep(n) /\ d.mask[at(n)] = masks[n]
  <2>1. d.positions[at(0)] = dep(0) /\ d.mask[at(0)] = masks[0]
    BY <1>9, <1>15, <1>16 DEF at, dep
  <2>2. ASSUME NEW n \in best
        PROVE  d.positions[at(n)] = dep(n) /\ d.mask[at(n)] = masks[n]
    <3>1. rank(n) \in 1 .. C /\ order[rank(n)] = n /\ at(n) = rank(n) + 1
      BY <1>3, <1>6
    <3>2. n # 0
      BY <1>1
    <3>3. dep(n) = t[n].depth + 1
      BY <3>2 DEF dep
    <3>4. QED
      BY <1>15, <1>16, <3>1, <3>3
  <2>3. QED
    BY <2>1, <2>2
<1>18. ASSUME NEW n \in best, GoodPath(d, paths[t[n].parent]),
              Len(paths[t[n].parent]) = dep(t[n].parent) + 1,
              paths[t[n].parent][Len(paths[t[n].parent])] = at(t[n].parent)
       PROVE  /\ GoodPath(d, paths[n]) /\ Len(paths[n]) = dep(n) + 1
              /\ paths[n][Len(paths[n])] = at(n)
  <2> DEFINE u == t[n].parent
             p == paths[u]
             q == paths[n]
             L == Len(p)
             R == 1 .. C + 1
  <2>1. /\ u \in known /\ at(u) \in R /\ at(n) \in R /\ at(u) < at(n)
        /\ dep(n) = dep(u) + 1 /\ q = Append(p, at(n))
    BY <1>1, <1>6, <1>10
  <2>2. p \in Seq(R) /\ p # <<>> /\ p[1] = 1
    BY <1>14, <1>18 DEF GoodPath
  <2>3. L \in Nat \ {0} /\ L = dep(u) + 1 /\ p[L] = at(u)
    BY <1>18, <2>2, EmptySeq
  <2>4. \A k \in 1 .. L : p[k] \in R
    BY <2>2, ElementOfSeq
  <2>5. /\ \A j, k \in 1 .. L : j < k => p[j] < p[k]
        /\ \A j \in 1 .. L :
             /\ d.positions[p[j]] = j - 1
             /\ Cardinality(d.mask[p[j]]) = j
             /\ \A k \in 1 .. j : Ascending(d.mask[p[j]])[k] = p[k]
    BY <1>18 DEF GoodPath
  <2>6. masks[n] = masks[u] \cup { at(n) } /\ masks[u] \in SUBSET (1 .. at(u))
    BY <1>9, <1>11, <2>1
  <2> HIDE DEF p, q, u
  <2>7. q \in Seq(R) /\ Len(q) = L + 1 /\ q[L + 1] = at(n) /\ \A k \in 1 .. L : q[k] = p[k]
    BY <2>1, <2>2, AppendProperties
  <2> HIDE DEF L
  <2>8. d.mask[p[L]] = masks[u] /\ d.mask[q[L + 1]] = masks[n] /\ d.positions[q[L + 1]] = L
    BY <1>17, <2>1, <2>3, <2>7
  <2>9. /\ Cardinality(masks[u]) = L
        /\ \A k \in 1 .. L : Ascending(masks[u])[k] = p[k]
    <3>1. L \in 1 .. L
      BY <2>3
    <3>2. QED
      BY <2>5, <2>8, <3>1
  <2>10. /\ masks[u] \in SUBSET Nat /\ IsFiniteSet(masks[u])
         /\ at(n) \in Nat /\ \A c \in masks[u] : c < at(n)
    <3>1. at(u) \in Nat /\ at(n) \in Nat
      BY <1>1, <2>1
    <3>2. IsFiniteSet(masks[u])
      BY <2>6, <3>1, FiniteBelow
    <3>3. QED
      BY <2>1, <2>6, <3>1, <3>2
  <2>11. /\ Cardinality(masks[n]) = L + 1
         /\ \A k \in 1 .. L : Ascending(masks[n])[k] = p[k]
         /\ Ascending(masks[n])[L + 1] = at(n)
    <3>1. /\ Cardinality(masks[u] \cup { at(n) }) = Cardinality(masks[u]) + 1
          /\ \A k \in 1 .. Cardinality(masks[u]) :
               Ascending(masks[u] \cup { at(n) })[k] = Ascending(masks[u])[k]
          /\ Ascending(masks[u] \cup { at(n) })[Cardinality(masks[u]) + 1] = at(n)
      BY <2>10, AscendingAdd
    <3>2. QED
      BY <2>6, <2>9, <3>1
  <2>12. ASSUME NEW j \in 1 .. L + 1, NEW k \in 1 .. L + 1, j < k
         PROVE  q[j] < q[k]
    <3>1. CASE k # L + 1
      <4>1. j \in 1 .. L /\ k \in 1 .. L
        BY <2>3, <2>12, <3>1
      <4>2. QED
        BY <2>5, <2>7, <2>12, <4>1
    <3>2. CASE k = L + 1
      <4>1. j \in 1 .. L
        BY <2>3, <2>12, <3>2
      <4>2. p[j] = at(u) \/ p[j] < at(u)
        <5>1. j = L \/ j < L
          BY <2>3, <4>1
        <5>2. L \in 1 .. L
          BY <2>3
        <5>3. QED
          BY <2>3, <2>5, <4>1, <5>1, <5>2
      <4>3. p[j] \in Nat /\ at(u) \in Nat /\ at(n) \in Nat
        BY <1>1, <2>1, <2>4, <4>1
      <4>4. p[j] < at(n)
        BY <2>1, <4>2, <4>3
      <4>5. QED
        BY <2>7, <3>2, <4>1, <4>4
    <3>3. QED
      BY <3>1, <3>2
  <2>13. ASSUME NEW j \in 1 .. L + 1
         PROVE  /\ d.positions[q[j]] = j - 1
                /\ Cardinality(d.mask[q[j]]) = j
                /\ \A k \in 1 .. j : Ascending(d.mask[q[j]])[k] = q[k]
    <3>1. CASE j # L + 1
      <4>1. j \in 1 .. L /\ \A k \in 1 .. j : k \in 1 .. L
        BY <2>3, <3>1
      <4>2. QED
        BY <2>5, <2>7, <4>1
    <3>2. CASE j = L + 1
      <4>1. d.mask[q[j]] = masks[n] /\ d.positions[q[j]] = L
        BY <2>8, <3>2
      <4>2. ASSUME NEW k \in 1 .. j
            PROVE  Ascending(masks[n])[k] = q[k]
        <5>1. k \in 1 .. L \/ k = L + 1
          BY <2>3, <3>2
        <5>2. QED
          BY <2>7, <2>11, <5>1
      <4>3. QED
        BY <2>3, <2>11, <3>2, <4>1, <4>2
    <3>3. QED
      BY <3>1, <3>2
  <2>14. q # <<>> /\ q[1] = 1
    <3>1. 1 \in 1 .. L
      BY <2>3
    <3>2. Len(q) # 0
      BY <2>3, <2>7
    <3>3. QED
      BY <2>2, <2>7, <3>1, <3>2, EmptySeq
  <2>15. GoodPath(d, q)
    BY <1>14, <2>7, <2>12, <2>13, <2>14 DEF GoodPath
  <2>16. QED
    BY <2>1, <2>3, <2>7, <2>15 DEF q, u, L
<1>19. \A n \in known : GoodPath(d, paths[n])
  <2> DEFINE good == { n \in 0 .. N :
                         n \in known => /\ GoodPath(d, paths[n]) /\ Len(paths[n]) = dep(n) + 1
                                        /\ paths[n][Len(paths[n])] = at(n) }
  <2>1. 0 \in good
    <3>1. at(0) = 1 /\ dep(0) = 0 /\ 0 \in known
      BY DEF at, dep
    <3>2. d.positions[1] = 0 /\ d.mask[1] = {1}
      BY <1>15, <1>16
    <3>3. Cardinality({1}) = 1 /\ Ascending({1})[1] = 1
      <4> SUFFICES ASSUME NEW S, S = {}
                   PROVE  Cardinality(S \cup {1}) = 1 /\ Ascending(S \cup {1})[1] = 1
        <5>1. {} \cup {1} = {1}
          OBVIOUS
        <5>2. QED
          BY <5>1
      <4>1. S \in SUBSET Nat /\ IsFiniteSet(S) /\ Cardinality(S) = 0 /\ \A c \in S : c < 1
        BY FS_EmptySet
      <4>2. /\ Cardinality(S \cup {1}) = Cardinality(S) + 1
            /\ Ascending(S \cup {1})[Cardinality(S) + 1] = 1
        BY <4>1, AscendingAdd
      <4>3. QED
        BY <4>1, <4>2
    <3>4. paths[0] = <<1>> /\ paths[0] \in Seq(1 .. Len(d.tokens)) /\ Len(paths[0]) = 1
          /\ paths[0][1] = 1 /\ paths[0] # <<>>
      <4>1. 1 \in 1 .. Len(d.tokens)
        BY <1>1, <1>14
      <4>2. QED
        BY <1>10, <4>1
    <3>5. GoodPath(d, paths[0])
      <4> DEFINE p == paths[0]
      <4>1. p \in Seq(1 .. Len(d.tokens)) /\ p # <<>> /\ p[1] = 1 /\ Len(p) = 1
        BY <3>4
      <4> HIDE DEF p
      <4>2. \A j \in 1 .. Len(p) : j = 1
        BY <4>1
      <4>3. \A j, k \in 1 .. Len(p) : j < k => p[j] < p[k]
        BY <4>2
      <4>4. \A j \in 1 .. Len(p) :
              /\ d.positions[p[j]] = j - 1
              /\ Cardinality(d.mask[p[j]]) = j
              /\ \A k \in 1 .. j : Ascending(d.mask[p[j]])[k] = p[k]
        <5> SUFFICES /\ d.positions[p[1]] = 1 - 1
                     /\ Cardinality(d.mask[p[1]]) = 1
                     /\ \A k \in 1 .. 1 : Ascending(d.mask[p[1]])[k] = p[k]
          BY <4>2
        <5>1. p[1] = 1 /\ \A k \in 1 .. 1 : k = 1
          BY <4>1
        <5>2. d.positions[p[1]] = 0 /\ d.mask[p[1]] = {1}
          BY <3>2, <5>1
        <5>3. QED
          BY <3>3, <5>1, <5>2
      <4>5. QED
        BY <4>1, <4>3, <4>4 DEF GoodPath, p
    <3>6. Len(paths[0]) = dep(0) + 1 /\ paths[0][Len(paths[0])] = at(0) /\ 0 \in 0 .. N
      BY <1>1, <3>1, <3>4
    <3>7. QED
      BY <3>5, <3>6
  <2>2. ASSUME NEW n \in 1 .. N, from[n] \in good
        PROVE  n \in good
    <3> SUFFICES ASSUME n \in known
                 PROVE  /\ GoodPath(d, paths[n]) /\ Len(paths[n]) = dep(n) + 1
                        /\ paths[n][Len(paths[n])] = at(n)
      BY <1>1
    <3>1. n \in best /\ from[n] = t[n].parent /\ t[n].parent \in known
      BY <1>1
    <3>2. QED
      BY <1>18, <2>2, <3>1
  <2>3. Inherited(good, from, N)
    <3> HIDE DEF good
    <3>1. QED
      BY <2>1, <2>2 DEF Inherited
  <2>4. \A n \in 0 .. N : n \in good
    <3> HIDE DEF good, from
    <3>1. QED
      BY <1>1, <1>7, <2>3, Induction
  <2>5. \A n \in known : n \in 0 .. N
    BY <1>1
  <2>6. QED
    BY <2>4, <2>5
<1>20. /\ d.paths \in Seq(Seq(1 .. C + 1)) /\ d.paths # <<>>
       /\ \A k \in DOMAIN d.paths : GoodPath(d, d.paths[k])
  <2> DEFINE leaves == { n \in best : \A m \in best : t[m].parent # n }
             K == Cardinality(leaves)
  <2>1. leaves \in SUBSET Nat /\ IsFiniteSet(leaves)
    BY <1>1, <1>2, FS_Subset
  <2>2. order[C] \in leaves
    <3>1. C \in 1 .. C
      BY <1>1
    <3>2. order[C] \in best
      BY <1>3, <3>1
    <3>3. ASSUME NEW m \in best, t[m].parent = order[C]
          PROVE  FALSE
      <4>1. rank(m) \in 1 .. C /\ order[rank(m)] = m
        BY <1>3
      <4>2. order[C] < m
        BY <1>6, <3>3
      <4>3. m \in Nat /\ order[C] \in Nat
        BY <1>2, <3>2
      <4>4. rank(m) = C \/ rank(m) < C
        BY <1>1, <4>1
      <4>5. CASE rank(m) = C
        BY <4>1, <4>2, <4>3, <4>5
      <4>6. CASE rank(m) < C
        <5>1. order[rank(m)] < order[C]
          BY <1>3, <3>1, <4>1, <4>6
        <5>2. QED
          BY <4>1, <4>2, <4>3, <5>1
      <4>7. QED
        BY <4>4, <4>5, <4>6
    <3>4. QED
      BY <3>2, <3>3
  <2>3. /\ K \in Nat /\ Ascending(leaves) \in [1 .. K -> leaves]
        /\ \A c \in leaves : Cardinality(UpTo(leaves, c)) \in 1 .. K
    <3> HIDE DEF leaves
    <3>1. QED
      BY <2>1, AscendingLists
  <2>4. K # 0
    <3> HIDE DEF leaves
    <3>1. QED
      BY <2>2, <2>3
  <2>5. d.paths = [k \in 1 .. K |-> paths[Ascending(leaves)[k]]]
    <3>1. DOMAIN Ascending(leaves) = 1 .. K
      <4> HIDE DEF leaves
      <4>1. QED
        BY <2>3
    <3>2. QED
      BY <3>1 DEF d, TreeOutputs, paths
  <2>6. DOMAIN d.paths = 1 .. K /\ 1 \in 1 .. K
    BY <2>3, <2>4, <2>5
  <2>7. d.paths # <<>>
    <3> HIDE DEF K
    <3>1. DOMAIN <<>> = {}
      OBVIOUS
    <3>2. QED
      BY <2>6, <3>1
  <2>8. \A k \in 1 .. K : Ascending(leaves)[k] \in known
    BY <2>3
  <2>9. d.paths \in Seq(Seq(1 .. C + 1))
    <3>1. \A k \in 1 .. K : paths[Ascending(leaves)[k]] \in Seq(1 .. C + 1)
      BY <1>14, <1>19, <2>8 DEF GoodPath
    <3> HIDE DEF leaves, K
    <3>2. d.paths \in [1 .. K -> Seq(1 .. C + 1)]
      BY <2>5, <3>1
    <3>3. QED
      BY <2>3, <3>2, FunctionSeq
  <2>10. QED
    <3> HIDE DEF leaves
    <3>1. QED
      BY <1>19, <2>5, <2>6, <2>7, <2>8, <2>9
<1>21. d.tokens # <<>>
  BY <1>1, <1>14
<1>22. QED
  BY <1>14, <1>15, <1>16, <1>20, <1>21 DEF GoodDraft, d

-----------------------------------------------------------------------------
(* How a tree grows.                                                       *)

(* The children of the actives, row by row.                                *)
LEMMA RowOfChild ==
  ASSUME NEW K \in Nat \ {0}, NEW k \in 1 .. K * K
  PROVE  /\ ((k - 1) \div K) + 1 \in 1 .. K
         /\ ((k - 1) % K) + 1 \in 1 .. K
<1> DEFINE q == (k - 1) \div K
           r == (k - 1) % K
<1>1. K * K \in Nat /\ k - 1 \in Nat /\ k - 1 < K * K
  OBVIOUS
<1>2. q \in Nat /\ r \in 0 .. K - 1 /\ k - 1 = K * q + r
  BY <1>1
<1>3. q < K
  <2> HIDE DEF q, r
  <2> SUFFICES ASSUME K <= q PROVE FALSE
    BY <1>2
  <2>1. K * K <= K * q
    BY <1>2
  <2>2. QED
    BY <1>1, <1>2, <2>1
<1>4. QED
  BY <1>2, <1>3

(* The first level of a tree: TopK roots of depth 0, all of them active.   *)
LEMMA RootGrown ==
  ASSUME NEW answer \in Answers
  PROVE  /\ Grown(FirstNodes(answer)) /\ Len(FirstNodes(answer)) = TopK
         /\ \A n \in 1 .. TopK : /\ FirstNodes(answer)[n].parent = 0
                                 /\ FirstNodes(answer)[n].depth = 0
         /\ FirstActives \in [1 .. TopK -> 1 .. TopK]
<1> USE EagleAssumption DEF EagleAssumption
<1> DEFINE t == FirstNodes(answer)
<1>1. ASSUME NEW n \in 1 .. TopK
      PROVE  t[n] \in TreeNode /\ t[n].parent = 0 /\ t[n].depth = 0
  <2>1. answer.tokens[n] \in Token /\ answer.scores[n] \in Int
    OBVIOUS
  <2>2. t[n] = [token |-> answer.tokens[n], parent |-> 0, depth |-> 0, cum |-> answer.scores[n]]
    BY DEF FirstNodes, Node
  <2> HIDE DEF t
  <2>3. QED
    BY <2>1, <2>2 DEF TreeNode
<1>2. t \in [1 .. TopK -> TreeNode]
  <2>1. \A n \in 1 .. TopK : t[n] \in TreeNode
    BY <1>1
  <2>2. t = [n \in 1 .. TopK |-> t[n]]
    BY DEF FirstNodes
  <2> HIDE DEF t
  <2>3. QED
    BY <2>1, <2>2
<1>3. t \in Seq(TreeNode) /\ Len(t) = TopK
  <2> HIDE DEF t
  <2>1. QED
    BY <1>2, FunctionSeq
<1>4. \A n \in 1 .. TopK : t[n].parent = 0 /\ t[n].depth = 0
  BY <1>1
<1>5. Grown(t)
  <2> HIDE DEF t
  <2>1. t # <<>>
    BY <1>3
  <2>2. QED
    BY <1>3, <1>4, <2>1 DEF Grown
<1>6. FirstActives \in [1 .. TopK -> 1 .. TopK]
  BY DEF FirstActives
<1>7. QED
  BY <1>3, <1>4, <1>5, <1>6

(* A node one level below one of the actives.                              *)
ChildOfActive(node, t, act) ==
  \E i \in 1 .. TopK : node.parent = act[i] /\ node.depth = t[act[i]].depth + 1

(* A further level keeps the nodes there are and appends to them.          *)
LEMMA ChildrenGrown ==
  ASSUME "certain" \notin Situations,
         NEW t, Grown(t), NEW act \in [1 .. TopK -> 1 .. Len(t)],
         NEW answers \in [1 .. TopK -> Answers]
  PROVE  /\ Grown(WithChildren(t, act, answers))
         /\ Len(t) \in Nat \ {0} /\ \A n \in 1 .. Len(t) : t[n] \in TreeNode
         /\ Len(WithChildren(t, act, answers)) \in Nat
         /\ Len(t) < Len(WithChildren(t, act, answers))
         /\ \A n \in 1 .. Len(t) : WithChildren(t, act, answers)[n] = t[n]
         /\ \A n \in Len(t) + 1 .. Len(WithChildren(t, act, answers)) :
              /\ WithChildren(t, act, answers)[n] \in TreeNode
              /\ ChildOfActive(WithChildren(t, act, answers)[n], t, act)
<1> USE EagleAssumption DEF EagleAssumption
<1> DEFINE N == Len(t)
           row(k) == ((k - 1) \div TopK) + 1
           col(k) == ((k - 1) % TopK) + 1
           child(k) == Node(t, act[row(k)], answers[row(k)].tokens[col(k)],
                            answers[row(k)].scores[col(k)])
           C == TopK * TopK
           new == [k \in 1 .. C |-> child(k)]
           u == WithChildren(t, act, answers)
<1>1. N \in Nat \ {0} /\ t \in Seq(TreeNode) /\ \A n \in 1 .. N : t[n] \in TreeNode
  BY ElementOfSeq, LenProperties, EmptySeq DEF Grown
<1>2. C \in Nat \ {0} /\ \A k \in 1 .. C : row(k) \in 1 .. TopK /\ col(k) \in 1 .. TopK
  <2>1. C \in Nat \ {0}
    OBVIOUS
  <2>2. QED
    BY <2>1, RowOfChild
<1> HIDE DEF row, col
<1>3. u = t \o new
  <2>1. Len(act) = TopK
    BY FunctionSeq
  <2>2. u = t \o [k \in 1 .. Len(act) * TopK |-> child(k)]
    BY DEF WithChildren, row, col
  <2>3. QED
    BY <2>1, <2>2
<1>4. ASSUME NEW k \in 1 .. C
      PROVE  /\ child(k) \in TreeNode
             /\ child(k).parent = act[row(k)] /\ act[row(k)] \in 1 .. N
             /\ child(k).depth = t[act[row(k)]].depth + 1
             /\ child(k).cum < t[act[row(k)]].cum
  <2> DEFINE a == act[row(k)]
             b == answers[row(k)]
  <2>1. a \in 1 .. N /\ a # 0 /\ b \in Answers /\ col(k) \in 1 .. TopK
    BY <1>1, <1>2
  <2> HIDE DEF a, b
  <2>2. /\ b.tokens[col(k)] \in Token /\ b.scores[col(k)] \in Int
        /\ b.scores[col(k)] <= 0 /\ b.scores[col(k)] # 0
    BY <2>1
  <2>3. t[a].cum \in Int /\ t[a].depth \in Nat
    <3>1. t[a] \in TreeNode
      BY <1>1, <2>1
    <3>2. QED
      BY <3>1 DEF TreeNode
  <2>4. Node(t, a, b.tokens[col(k)], b.scores[col(k)]) =
          [token |-> b.tokens[col(k)], parent |-> a, depth |-> t[a].depth + 1,
           cum |-> t[a].cum + b.scores[col(k)]]
    BY <2>1 DEF Node
  <2>5. t[a].cum + b.scores[col(k)] \in Int /\ t[a].cum + b.scores[col(k)] < t[a].cum
        /\ t[a].depth + 1 \in Nat
    BY <2>2, <2>3
  <2>6. child(k) = Node(t, a, b.tokens[col(k)], b.scores[col(k)])
    BY DEF a, b
  <2> HIDE DEF child
  <2>7. child(k) \in TreeNode
    BY <1>1, <2>1, <2>2, <2>4, <2>5, <2>6 DEF TreeNode
  <2>8. QED
    BY <2>1, <2>4, <2>5, <2>6, <2>7 DEF a
<1> HIDE DEF child, C
<1>5. new \in [1 .. C -> TreeNode]
  BY <1>4
<1>6. new \in Seq(TreeNode) /\ Len(new) = C
  <2> HIDE DEF new
  <2>1. QED
    BY <1>2, <1>5, FunctionSeq
<1>7. \A k \in 1 .. C : new[k] = child(k)
  OBVIOUS
<1> HIDE DEF new, u
<1>8. /\ u \in Seq(TreeNode) /\ Len(u) = N + C
      /\ \A n \in 1 .. N : u[n] = t[n]
      /\ \A k \in 1 .. C : u[N + k] = child(k)
  <2>1. u \in Seq(TreeNode) /\ Len(u) = N + C
    BY <1>1, <1>3, <1>6, ConcatProperties
  <2>2. \A n \in 1 .. N : u[n] = t[n]
    BY <1>1, <1>2, <1>3, <1>6, ConcatProperties
  <2>3. \A k \in 1 .. C : u[N + k] = child(k)
    BY <1>1, <1>2, <1>3, <1>6, <1>7, ConcatProperties
  <2>4. QED
    BY <2>1, <2>2, <2>3
<1>9. ASSUME NEW n \in N + 1 .. Len(u)
      PROVE  \E k \in 1 .. C : n = N + k /\ u[n] = child(k)
  <2>1. n - N \in 1 .. C /\ n = N + (n - N)
    BY <1>1, <1>2, <1>8
  <2>2. QED
    BY <1>8, <2>1
<1>10. ASSUME NEW n \in 1 .. Len(u)
       PROVE  /\ u[n].parent < n
              /\ u[n].parent = 0 => u[n].depth = 0
              /\ u[n].parent # 0 =>
                   /\ u[n].depth = u[u[n].parent].depth + 1
                   /\ u[n].cum < u[u[n].parent].cum
  <2>1. CASE n \in 1 .. N
    <3>1. u[n] = t[n] /\ t[n].parent \in Nat /\ t[n].parent < n
      BY <1>1, <1>8, <2>1 DEF Grown, TreeNode
    <3>2. t[n].parent # 0 => t[n].parent \in 1 .. N /\ u[t[n].parent] = t[t[n].parent]
      BY <1>1, <1>8, <2>1, <3>1
    <3>3. QED
      BY <2>1, <3>1, <3>2 DEF Grown
  <2>2. CASE n \notin 1 .. N
    <3>1. n \in N + 1 .. Len(u)
      BY <1>1, <1>2, <1>8, <2>2
    <3>2. PICK k \in 1 .. C : n = N + k /\ u[n] = child(k)
      BY <1>9, <3>1
    <3>3. /\ u[n].parent = act[row(k)] /\ act[row(k)] \in 1 .. N
          /\ u[n].depth = t[act[row(k)]].depth + 1
          /\ u[n].cum < t[act[row(k)]].cum
      BY <1>4, <3>2
    <3>4. u[act[row(k)]] = t[act[row(k)]] /\ act[row(k)] # 0 /\ act[row(k)] < n
      BY <1>1, <1>8, <3>1, <3>3
    <3>5. QED
      BY <3>3, <3>4
  <2>3. QED
    BY <2>1, <2>2
<1>11. Grown(u)
  <2>1. u # <<>>
    BY <1>1, <1>2, <1>8
  <2>2. QED
    BY <1>8, <1>10, <2>1 DEF Grown
<1>12. ASSUME NEW n \in N + 1 .. Len(u)
       PROVE  u[n] \in TreeNode /\ ChildOfActive(u[n], t, act)
  <2>1. PICK k \in 1 .. C : n = N + k /\ u[n] = child(k)
    BY <1>9
  <2>2. /\ u[n] \in TreeNode /\ row(k) \in 1 .. TopK
        /\ u[n].parent = act[row(k)] /\ u[n].depth = t[act[row(k)]].depth + 1
    BY <1>2, <1>4, <2>1
  <2>3. QED
    BY <2>2 DEF ChildOfActive
<1>13. QED
  BY <1>1, <1>2, <1>8, <1>11, <1>12 DEF u

-----------------------------------------------------------------------------
(* What is kept of the history.                                            *)

(* Ascending numbers are at least their places.                            *)
LEMMA AscendingBound ==
  ASSUME NEW n \in Nat, NEW s, \A i \in 1 .. n : s[i] \in Nat,
         \A i, j \in 1 .. n : i < j => s[i] < s[j]
  PROVE  \A i \in 1 .. n : i - 1 <= s[i]
<1> DEFINE from == [i \in 1 .. n |-> i - 1]
           good == { i \in 0 .. n : i # 0 => i - 1 <= s[i] }
<1>1. Descends(from, n)
  BY DEF Descends
<1>2. 0 \in good
  OBVIOUS
<1>3. ASSUME NEW i \in 1 .. n, from[i] \in good
      PROVE  i \in good
  <2>1. CASE i = 1
    BY <2>1
  <2>2. CASE i # 1
    <3>1. i - 1 \in 1 .. n /\ from[i] = i - 1
      BY <2>2
    <3>2. (i - 1) - 1 <= s[i - 1] /\ s[i - 1] < s[i]
      BY <1>3, <3>1
    <3>3. QED
      BY <3>1, <3>2
  <2>3. QED
    BY <2>1, <2>2
<1>4. Inherited(good, from, n)
  <2> HIDE DEF good, from
  <2>1. QED
    BY <1>2, <1>3 DEF Inherited
<1>5. \A i \in 0 .. n : i \in good
  <2> HIDE DEF good, from
  <2>1. QED
    BY <1>1, <1>4, Induction
<1>6. QED
  BY <1>5

(* A plan keeps ascending rows among those it removes.                     *)
Planned(rs, m) ==
  /\ m \in [previous : Nat, remove : Nat, spans : Seq(Nat)]
  /\ m.remove <= Len(rs) /\ Len(rs) <= m.previous
  /\ \A i \in DOMAIN m.spans : m.spans[i] < m.remove
  /\ \A i, j \in DOMAIN m.spans : i < j => m.spans[i] < m.spans[j]

(* The kept rows are the rows before those removed, then those of the      *)
(* spans.                                                                  *)
LEMMA KeptRows ==
  ASSUME NEW S, NEW rs \in Seq(S), NEW m, Planned(rs, m)
  PROVE  /\ Kept(rs, m) \in Seq(S)
         /\ Len(m.spans) <= m.remove
         /\ Len(Kept(rs, m)) <= m.previous - m.remove + Len(m.spans)
         /\ m.previous # m.remove =>
              /\ Len(Kept(rs, m)) = Len(rs) - m.remove + Len(m.spans)
              /\ \A i \in 1 .. Len(rs) - m.remove : Kept(rs, m)[i] = rs[i]
              /\ \A k \in 1 .. Len(m.spans) :
                   Kept(rs, m)[Len(rs) - m.remove + k] =
                     rs[Len(rs) - m.remove + m.spans[k] + 1]
<1> DEFINE sp == m.spans
           n == Len(sp)
           start == Len(rs) - m.remove
           source == [k \in DOMAIN sp |-> start + sp[k] + 1]
<1>1. /\ m.previous \in Nat /\ m.remove \in Nat /\ sp \in Seq(Nat)
      /\ m.remove <= Len(rs) /\ Len(rs) <= m.previous
      /\ \A i \in DOMAIN sp : sp[i] < m.remove
      /\ \A i, j \in DOMAIN sp : i < j => sp[i] < sp[j]
  BY DEF Planned
<1> HIDE DEF sp
<1>2. /\ n \in Nat /\ DOMAIN sp = 1 .. n /\ \A i \in 1 .. n : sp[i] \in Nat
      /\ Len(rs) \in Nat
  BY <1>1, ElementOfSeq, LenProperties
<1>3. start \in Nat
  BY <1>1, <1>2
<1> HIDE DEF n
<1>4. \A i \in 1 .. n : i - 1 <= sp[i]
  BY <1>1, <1>2, AscendingBound
<1>5. n <= m.remove
  <2>1. CASE n = 0
    BY <1>1, <2>1
  <2>2. CASE n # 0
    <3>1. n \in 1 .. n
      BY <1>2, <2>2
    <3>2. n - 1 <= sp[n] /\ sp[n] < m.remove /\ sp[n] \in Nat
      BY <1>1, <1>2, <1>4, <3>1
    <3>3. QED
      BY <1>1, <1>2, <3>2
  <2>3. QED
    BY <2>1, <2>2
<1>6. \A k \in 1 .. n : /\ start + sp[k] + 1 \in 1 .. Len(rs)
                        /\ start + k <= start + sp[k] + 1
  <2> SUFFICES ASSUME NEW k \in 1 .. n
               PROVE  /\ start + sp[k] + 1 \in 1 .. Len(rs)
                      /\ start + k <= start + sp[k] + 1
    OBVIOUS
  <2> DEFINE a == Len(rs)
             b == m.remove
             c == sp[k]
  <2>1. c \in Nat /\ c < b
    BY <1>1, <1>2
  <2>2. a \in Nat /\ b \in Nat /\ b <= a
    BY <1>1, <1>2
  <2>3. k \in Nat /\ k - 1 <= c
    BY <1>2, <1>4
  <2> HIDE DEF a, b, c
  <2>4. a - b + c + 1 \in 1 .. a /\ a - b + k <= a - b + c + 1
    BY <2>1, <2>2, <2>3
  <2>5. QED
    BY <2>4 DEF a, b, c
<1>7. /\ source \in Seq(1 .. Len(rs)) /\ Len(source) = n
      /\ \A k \in 1 .. n : source[k] = start + sp[k] + 1
  <2>1. source = [k \in 1 .. n |-> start + sp[k] + 1]
    BY <1>2
  <2> HIDE DEF source, start
  <2>2. source \in [1 .. n -> 1 .. Len(rs)] /\ \A k \in 1 .. n : source[k] = start + sp[k] + 1
    BY <1>6, <2>1
  <2>3. QED
    BY <1>2, <2>2, FunctionSeq
<1>8. Kept(rs, m) = IF m.previous = m.remove THEN <<>> ELSE Moved(rs, start, source)
  BY DEF Kept, sp
<1> HIDE DEF source
<1> DEFINE w == Moved(rs, start, source)
<1>9. /\ w \in Seq(S) /\ Len(w) = start + n
      /\ \A i \in 1 .. start : w[i] = rs[i]
      /\ \A k \in 1 .. n : w[start + k] = rs[source[k]]
  <2>1. start + Len(source) <= Len(rs)
    BY <1>1, <1>2, <1>5, <1>7
  <2>2. \A k \in 1 .. Len(source) : start + k <= source[k]
    BY <1>6, <1>7
  <2> HIDE DEF start
  <2>3. /\ w \in Seq(S) /\ Len(w) = start + Len(source)
        /\ \A i \in 1 .. start : w[i] = rs[i]
        /\ \A k \in 1 .. Len(source) : w[start + k] = rs[source[k]]
    <3>1. /\ w \in Seq(S) /\ Len(w) = start + Len(source)
          /\ \A i \in 1 .. start : w[i] = rs[i]
          /\ (\A k \in 1 .. Len(source) : start + k <= source[k]) =>
               \A k \in 1 .. Len(source) : w[start + k] = rs[source[k]]
      <4>1. rs \in Seq(S) /\ start \in Nat /\ source \in Seq(1 .. Len(rs))
        BY <1>3, <1>7
      <4>2. QED
        BY <2>1, <4>1, MovedRows, Zenon
    <3> HIDE DEF w
    <3>2. QED
      BY <2>2, <3>1
  <2>4. QED
    BY <1>7, <2>3
<1> HIDE DEF w
<1>10. CASE m.previous = m.remove
  <2>1. Kept(rs, m) = <<>>
    BY <1>8, <1>10
  <2>2. Len(<<>>) = 0 /\ <<>> \in Seq(S)
    OBVIOUS
  <2>3. QED
    BY <1>1, <1>2, <1>5, <1>10, <2>1, <2>2 DEF n, sp
<1>11. CASE m.previous # m.remove
  <2>1. Kept(rs, m) = w
    BY <1>8, <1>11 DEF w
  <2>2. start + n <= m.previous - m.remove + n
    BY <1>1, <1>2
  <2>3. \A k \in 1 .. n : w[start + k] = rs[start + sp[k] + 1]
    BY <1>7, <1>9
  <2>4. QED
    BY <1>5, <1>9, <1>11, <2>1, <2>2, <2>3 DEF n, sp, start
<1>12. QED
  BY <1>10, <1>11

-----------------------------------------------------------------------------
(* How far the drafts go.                                                  *)

(* What a run of good numbers from 1 ends with.                            *)
LEMMA LongestRun ==
  ASSUME NEW L \in Nat, NEW ok
  PROVE  \E n \in 0 .. L : (\A i \in 1 .. n : i \in ok) /\ (n < L => n + 1 \notin ok)
<1> DEFINE Ends == { n \in 0 .. L : n < L => n + 1 \notin ok }
<1>1. L \in Ends /\ Ends \in SUBSET Nat
  OBVIOUS
<1>2. PICK n \in Ends : \A l \in Ends : n <= l
  <2> HIDE DEF Ends
  <2>1. QED
    BY <1>1, Least
<1>3. ASSUME NEW i \in 1 .. n
      PROVE  i \in ok
  <2>1. i - 1 \in 0 .. L /\ i - 1 < n /\ i - 1 < L
    OBVIOUS
  <2>2. i - 1 \notin Ends
    BY <1>2, <2>1
  <2>3. QED
    BY <2>1, <2>2
<1>4. QED
  BY <1>2, <1>3

(* Agreed is how many drafts of the path are what the base model samples.  *)
LEMMA AgreedDrafts ==
  ASSUME NEW path, Len(path) \in Nat \ {0}
  PROVE  /\ Agreed(path) \in 0 .. Len(path) - 1
         /\ \A j \in 1 .. Agreed(path) : Sampled(path[j]) = draft.tokens[path[j + 1]]
<1> DEFINE good(i) == \A j \in 1 .. i : Sampled(path[j]) = draft.tokens[path[j + 1]]
           ok == { j \in Nat : Sampled(path[j]) = draft.tokens[path[j + 1]] }
           M == Len(path) - 1
<1>1. PICK n \in 0 .. M : (\A i \in 1 .. n : i \in ok) /\ (n < M => n + 1 \notin ok)
  <2> HIDE DEF ok
  <2>1. M \in Nat
    OBVIOUS
  <2> HIDE DEF M
  <2>2. QED
    BY <2>1, LongestRun
<1>2. good(n)
  BY <1>1
<1>3. n < M => ~good(n + 1)
  <2>1. n + 1 \in 1 .. n + 1 /\ n + 1 \in Nat
    OBVIOUS
  <2>2. QED
    BY <1>1, <2>1
<1>4. Agreed(path) = CHOOSE k \in 0 .. M : good(k) /\ (k < M => ~good(k + 1))
  BY DEF Agreed
<1> HIDE DEF good
<1>5. Agreed(path) \in 0 .. M /\ good(Agreed(path))
  BY <1>2, <1>3, <1>4
<1>6. QED
  BY <1>5 DEF good

(* What is accepted is the beginning of a path, one row more than agreed.  *)
LEMMA AcceptedPath ==
  ASSUME GoodDraft(draft)
  PROVE  \E k \in DOMAIN draft.paths :
           /\ GoodPath(draft, draft.paths[k])
           /\ Agreed(draft.paths[k]) \in 0 .. Len(draft.paths[k]) - 1
           /\ \A j \in 1 .. Agreed(draft.paths[k]) :
                Sampled(draft.paths[k][j]) = draft.tokens[draft.paths[k][j + 1]]
           /\ Accepted = SubSeq(draft.paths[k], 1, Agreed(draft.paths[k]) + 1)
<1> DEFINE T == Len(draft.tokens)
           P == draft.paths
           K == Len(P)
           far(k) == Agreed(P[k])
<1>1. /\ T \in Nat /\ K \in Nat \ {0} /\ DOMAIN P = 1 .. K
      /\ \A k \in 1 .. K : GoodPath(draft, P[k]) /\ P[k] \in Seq(1 .. T)
  BY LenProperties, EmptySeq, ElementOfSeq DEF GoodDraft
<1> HIDE DEF T, P, K
<1>2. ASSUME NEW k \in 1 .. K
      PROVE  /\ Len(P[k]) \in 1 .. T
             /\ far(k) \in 0 .. Len(P[k]) - 1
             /\ \A j \in 1 .. far(k) : Sampled(P[k][j]) = draft.tokens[P[k][j + 1]]
  <2> DEFINE p == P[k]
  <2>1. p \in Seq(1 .. T) /\ p # <<>> /\ \A i, j \in 1 .. Len(p) : i < j => p[i] < p[j]
    BY <1>1 DEF GoodPath
  <2> HIDE DEF p
  <2>2. Len(p) \in Nat \ {0} /\ \A i \in 1 .. Len(p) : p[i] \in 1 .. T
    BY <2>1, EmptySeq, ElementOfSeq
  <2>3. \A i \in 1 .. Len(p) : p[i] - 1 \in Nat
    BY <1>1, <2>2
  <2>4. Len(p) <= T
    <3> DEFINE s == [i \in 1 .. Len(p) |-> p[i] - 1]
    <3>1. \A i \in 1 .. Len(p) : s[i] \in Nat
      BY <2>3
    <3>2. ASSUME NEW i \in 1 .. Len(p), NEW j \in 1 .. Len(p), i < j
          PROVE  s[i] < s[j]
      <4>1. p[i] \in 1 .. T /\ p[j] \in 1 .. T
        BY <2>2
      <4>2. p[i] < p[j]
        BY <2>1, <3>2
      <4>3. p[i] \in Int /\ p[j] \in Int
        BY <1>1, <4>1
      <4>4. s[i] = p[i] - 1 /\ s[j] = p[j] - 1
        OBVIOUS
      <4> HIDE DEF s
      <4>5. QED
        BY <4>2, <4>3, <4>4
    <3>3. \A i \in 1 .. Len(p) : i - 1 <= s[i]
      <4> HIDE DEF s
      <4>1. QED
        BY <2>2, <3>1, <3>2, AscendingBound
    <3>4. Len(p) \in 1 .. Len(p) /\ p[Len(p)] \in 1 .. T
      BY <2>2
    <3>5. Len(p) - 1 <= p[Len(p)] - 1
      BY <3>3, <3>4
    <3>6. QED
      BY <1>1, <2>2, <3>4, <3>5
  <2>5. /\ Agreed(p) \in 0 .. Len(p) - 1
        /\ \A j \in 1 .. Agreed(p) : Sampled(p[j]) = draft.tokens[p[j + 1]]
    BY <2>2, AgreedDrafts
  <2>6. Len(p) \in 1 .. T
    BY <1>1, <2>2, <2>4
  <2>7. QED
    BY <2>5, <2>6 DEF p
<1> HIDE DEF far
<1>3. PICK b \in 1 .. K : \A k \in 1 .. K : far(k) <= far(b)
  <2> DEFINE Short == { T - far(k) : k \in 1 .. K }
  <2>1. \A k \in 1 .. K : far(k) \in Nat /\ T - far(k) \in Nat
    BY <1>1, <1>2
  <2>2. 1 \in 1 .. K
    BY <1>1
  <2>3. Short \in SUBSET Nat /\ Short # {}
    BY <2>1, <2>2
  <2>4. PICK v \in Short : \A w \in Short : v <= w
    <3> HIDE DEF Short
    <3>1. QED
      BY <2>3, Least
  <2>5. PICK b \in 1 .. K : v = T - far(b)
    BY <2>4
  <2>6. ASSUME NEW k \in 1 .. K
        PROVE  far(k) <= far(b)
    <3>1. T - far(b) <= T - far(k)
      BY <2>4, <2>5
    <3>2. far(b) \in Nat /\ far(k) \in Nat /\ T \in Nat
      BY <1>1, <2>1
    <3>3. QED
      BY <3>1, <3>2
  <2>7. QED
    BY <2>6
<1>4. PICK c \in 1 .. K : far(c) = far(b) /\ \A k \in 1 .. K : far(k) = far(b) => c <= k
  <2> DEFINE Best == { k \in 1 .. K : far(k) = far(b) }
  <2>1. b \in Best /\ Best \in SUBSET Nat
    OBVIOUS
  <2>2. PICK c \in Best : \A w \in Best : c <= w
    <3> HIDE DEF Best
    <3>1. QED
      BY <2>1, Least
  <2>3. QED
    BY <2>2
<1>5. \A j \in 1 .. K : far(j) < far(c) \/ (far(j) = far(c) /\ c <= j)
  <2> SUFFICES ASSUME NEW j \in 1 .. K, ~(far(j) < far(c))
               PROVE  far(j) = far(c) /\ c <= j
    OBVIOUS
  <2>1. far(j) \in Int /\ far(c) \in Int /\ far(j) <= far(c)
    BY <1>1, <1>2, <1>3, <1>4
  <2>2. far(j) = far(c)
    BY <2>1
  <2>3. QED
    BY <1>4, <2>2
<1> DEFINE first == CHOOSE k \in 1 .. K : \A j \in 1 .. K : far(j) < far(k) \/ (far(j) = far(k) /\ k <= j)
<1>6. first \in 1 .. K
  BY <1>5
<1>7. Accepted = SubSeq(P[first], 1, far(first) + 1)
  BY <1>1 DEF Accepted, far, P
<1> HIDE DEF first
<1>8. QED
  BY <1>1, <1>2, <1>6, <1>7 DEF far, P, K

-----------------------------------------------------------------------------
(* The rows that a forward adds.                                           *)

Row == [ctx : Seq(Token) \ {<<>>}, pos : Nat]
DraftRow == [token : Token, pos : Nat]

(* The model predicts tokens.                                              *)
PredictsTokens == \A tokens \in Seq(Token) : Predict(tokens) \in Token

(* The tokens row i of the verified tree attends to, behind the kept rows. *)
Branch(d, i) == [k \in 1 .. Cardinality(d.mask[i]) |-> d.tokens[Ascending(d.mask[i])[k]]]

(* A row is computed from some token, its own being the last.              *)
LEMMA TokensOfRows ==
  ASSUME NEW before \in Seq(Row)
  PROVE  /\ TokensOf(before) \in Seq(Token) /\ Len(TokensOf(before)) = Len(before)
         /\ Len(before) \in Nat
         /\ \A i \in 1 .. Len(before) :
              /\ TokensOf(before)[i] = before[i].ctx[Len(before[i].ctx)]
              /\ before[i].ctx \in Seq(Token)
<1>1. Len(before) \in Nat /\ DOMAIN before = 1 .. Len(before)
      /\ \A i \in 1 .. Len(before) : before[i] \in Row
  BY ElementOfSeq, LenProperties
<1>2. ASSUME NEW i \in 1 .. Len(before)
      PROVE  TokenOf(before[i]) \in Token /\ before[i].ctx \in Seq(Token)
  <2> DEFINE c == before[i].ctx
  <2>1. c \in Seq(Token) /\ c # <<>>
    BY <1>1 DEF Row
  <2> HIDE DEF c
  <2>2. Len(c) \in 1 .. Len(c)
    BY <2>1, EmptySeq
  <2>3. c[Len(c)] \in Token
    BY <2>1, <2>2, ElementOfSeq
  <2>4. QED
    BY <2>1, <2>3 DEF c, TokenOf
<1>3. TokensOf(before) = [i \in 1 .. Len(before) |-> TokenOf(before[i])]
  BY <1>1 DEF TokensOf
<1> DEFINE e(i) == TokenOf(before[i])
<1>4. TokensOf(before) = [i \in 1 .. Len(before) |-> e(i)]
  BY <1>3
<1>5. \A i \in 1 .. Len(before) : e(i) \in Token
  BY <1>2
<1> HIDE DEF e
<1>6. TokensOf(before) \in [1 .. Len(before) -> Token]
      /\ \A i \in 1 .. Len(before) : TokensOf(before)[i] = e(i)
  BY <1>4, <1>5
<1>7. QED
  BY <1>1, <1>2, <1>6, FunctionSeq DEF e, TokenOf

(* Rows of a plain forward: one for each token, which sees the rows        *)
(* before it and the tokens up to its own.                                 *)
LEMMA CausalRowsFit ==
  ASSUME NEW before \in Seq(Row), NEW ids \in Seq(Token), NEW position \in Nat
  PROVE  /\ CausalRows(before, ids, position) \in Seq(Row)
         /\ Len(CausalRows(before, ids, position)) = Len(ids)
         /\ Len(ids) \in Nat
         /\ \A i \in 1 .. Len(ids) :
              CausalRows(before, ids, position)[i] =
                [ctx |-> TokensOf(before) \o SubSeq(ids, 1, i), pos |-> position + i - 1]
<1>1. Len(ids) \in Nat /\ DOMAIN ids = 1 .. Len(ids)
      /\ \A i \in 1 .. Len(ids) : ids[i] \in Token
  BY ElementOfSeq, LenProperties
<1>2. TokensOf(before) \in Seq(Token)
  BY TokensOfRows
<1> DEFINE row(i) == [ctx |-> TokensOf(before) \o SubSeq(ids, 1, i), pos |-> position + i - 1]
<1>3. ASSUME NEW i \in 1 .. Len(ids)
      PROVE  row(i) \in Row
  <2>1. SubSeq(ids, 1, i) \in Seq(Token) /\ Len(SubSeq(ids, 1, i)) = i
    BY <1>1, SubSeqProperties
  <2> DEFINE c == TokensOf(before) \o SubSeq(ids, 1, i)
  <2>2. c \in Seq(Token) /\ Len(c) = Len(TokensOf(before)) + i
    BY <1>2, <2>1, ConcatProperties
  <2>3. Len(TokensOf(before)) \in Nat /\ i \in Nat /\ i # 0
    BY <1>1, <1>2, LenProperties
  <2>4. position + i - 1 \in Nat
    BY <2>3
  <2> HIDE DEF c
  <2>5. c # <<>>
    BY <2>2, <2>3
  <2>6. [ctx |-> c, pos |-> position + i - 1] \in Row
    BY <2>2, <2>4, <2>5 DEF Row
  <2>7. QED
    BY <2>6 DEF c
<1>4. CausalRows(before, ids, position) = [i \in 1 .. Len(ids) |-> row(i)]
  BY <1>1 DEF CausalRows
<1>5. /\ CausalRows(before, ids, position) \in [1 .. Len(ids) -> Row]
      /\ \A i \in 1 .. Len(ids) : CausalRows(before, ids, position)[i] = row(i)
  <2> HIDE DEF row
  <2>1. QED
    BY <1>3, <1>4
<1>6. QED
  BY <1>1, <1>5, FunctionSeq

(* Rows of a verification: one for each token of the draft, which sees     *)
(* the rows before it and its branch.                                      *)
LEMMA TreeRowsFit ==
  ASSUME NEW before \in Seq(Row), pastLen \in Nat, GoodDraft(draft)
  PROVE  /\ TreeRows(before) \in Seq(Row)
         /\ Len(TreeRows(before)) = Len(draft.tokens)
         /\ Len(draft.tokens) \in Nat \ {0}
         /\ \A i \in 1 .. Len(draft.tokens) :
              TreeRows(before)[i] = [ctx |-> TokensOf(before) \o Branch(draft, i),
                                     pos |-> pastLen + draft.positions[i]]
<1> DEFINE T == Len(draft.tokens)
           row(i) == [ctx |-> TokensOf(before) \o Branch(draft, i),
                      pos |-> pastLen + draft.positions[i]]
<1>1. T \in Nat \ {0} /\ DOMAIN draft.tokens = 1 .. T
      /\ \A i \in 1 .. T : draft.tokens[i] \in Token
  BY EmptySeq, ElementOfSeq, LenProperties DEF GoodDraft
<1>2. \A i \in 1 .. T : draft.positions[i] \in Nat
  BY ElementOfSeq DEF GoodDraft
<1>3. \A i \in 1 .. T : draft.mask[i] \in (SUBSET (1 .. T)) \ {{}}
  BY ElementOfSeq DEF GoodDraft
<1>4. TokensOf(before) \in Seq(Token) /\ Len(TokensOf(before)) \in Nat
  BY TokensOfRows
<1> HIDE DEF T
<1>5. ASSUME NEW i \in 1 .. T
      PROVE  row(i) \in Row
  <2> DEFINE M == draft.mask[i]
             c == TokensOf(before) \o Branch(draft, i)
  <2>1. M \in SUBSET (1 .. T) /\ M # {}
    BY <1>3
  <2> HIDE DEF M
  <2>2. IsFiniteSet(M) /\ M \in SUBSET Nat
    <3>1. IsFiniteSet(M)
      BY <1>1, <2>1, FiniteBelow
    <3>2. QED
      BY <1>1, <2>1, <3>1
  <2>3. Cardinality(M) \in Nat /\ Ascending(M) \in [1 .. Cardinality(M) -> M]
    BY <2>2, AscendingLists
  <2>4. Cardinality(M) # 0
    BY <2>1, <2>2, FS_EmptySet
  <2>5. Branch(draft, i) = [k \in 1 .. Cardinality(M) |-> draft.tokens[Ascending(M)[k]]]
    BY DEF Branch, M
  <2>6. Branch(draft, i) \in [1 .. Cardinality(M) -> Token]
    <3>1. \A k \in 1 .. Cardinality(M) : draft.tokens[Ascending(M)[k]] \in Token
      BY <1>1, <2>1, <2>3
    <3>2. QED
      BY <2>5, <3>1
  <2>7. Branch(draft, i) \in Seq(Token) /\ Len(Branch(draft, i)) = Cardinality(M)
    BY <2>3, <2>6, FunctionSeq
  <2>8. c \in Seq(Token) /\ Len(c) = Len(TokensOf(before)) + Cardinality(M)
    BY <1>4, <2>7, ConcatProperties
  <2> HIDE DEF c
  <2>9. c # <<>>
    BY <1>4, <2>3, <2>4, <2>8
  <2>10. pastLen + draft.positions[i] \in Nat
    BY <1>2
  <2>11. [ctx |-> c, pos |-> pastLen + draft.positions[i]] \in Row
    BY <2>8, <2>9, <2>10 DEF Row
  <2>12. QED
    BY <2>11 DEF c
<1>6. TreeRows(before) = [i \in 1 .. T |-> row(i)]
  BY <1>1 DEF TreeRows, Branch
<1>7. /\ TreeRows(before) \in [1 .. T -> Row]
      /\ \A i \in 1 .. T : TreeRows(before)[i] = row(i)
  <2> HIDE DEF row
  <2>1. QED
    BY <1>5, <1>6
<1>8. QED
  BY <1>1, <1>7, FunctionSeq DEF T

-----------------------------------------------------------------------------
(* The parts of the state fit together.                                    *)

RowsFit == rows \in Seq(Row) /\ Planned(rows, meta) /\ allSeqLen \in Nat

TextFits ==
  /\ prompt \in Seq(Token) /\ said \in Seq(Token) /\ genSeqLen \in 0 .. Len(said)
  /\ status \in {"RUNNING", "TIMEOUT", "INTERNAL_ERROR",
                 "NORMAL_FINISHED", "MAX_TOKENS_FINISHED"}

DraftsFit ==
  /\ draftRows \in Seq(DraftRow) /\ remove \in Nat /\ pastLen \in Nat
  /\ pc \in {"idle", "draft", "grow", "finalize", "tree", "verify"}
  /\ input \in Seq(Token)
  /\ pc \in {"draft", "grow", "finalize"} => input # <<>>

TreeFits ==
  /\ pc \in {"grow", "finalize"} => Grown(tree)
  /\ pc = "grow" => actives \in [1 .. TopK -> 1 .. Len(tree)]
  /\ pc \in {"tree", "verify"} => GoodDraft(draft)
  /\ pc = "verify" => Len(draft.tokens) <= Len(rows) /\ meta.remove = 0 /\ meta.spans = <<>>

Fits == RowsFit /\ TextFits /\ DraftsFit /\ TreeFits

(* The plan that sync() leaves counts at least the rows that are there.    *)
LEMMA SyncedPlan ==
  ASSUME NEW S, NEW rs \in Seq(S), NEW m, NEW more \in Seq(S),
         m \in [previous : Nat, remove : Nat, spans : Seq(Nat)],
         m.previous = m.remove \/ Planned(rs, m)
  PROVE  /\ Kept(rs, m) \o more \in Seq(S)
         /\ Kept(rs, m) \in Seq(S)
         /\ Len(Kept(rs, m) \o more) = Len(Kept(rs, m)) + Len(more)
         /\ Planned(Kept(rs, m) \o more, Synced(m, Len(more)))
         /\ Synced(m, Len(more)).remove = 0 /\ Synced(m, Len(more)).spans = <<>>
<1> DEFINE b == Kept(rs, m)
           n == Len(more)
           w == Synced(m, n)
<1>1. m.previous \in Nat /\ m.remove \in Nat /\ m.spans \in Seq(Nat) /\ Len(m.spans) \in Nat
  BY LenProperties
<1>2. n \in Nat
  BY LenProperties
<1>3. /\ b \in Seq(S) /\ Len(b) <= m.previous - m.remove + Len(m.spans)
      /\ m.remove <= m.previous
  <2>1. CASE m.previous = m.remove
    <3>1. b = <<>>
      BY <2>1 DEF Kept
    <3>2. <<>> \in Seq(S) /\ Len(<<>>) = 0
      OBVIOUS
    <3>3. QED
      BY <1>1, <2>1, <3>1, <3>2
  <2>2. CASE m.previous # m.remove
    <3>1. Planned(rs, m)
      BY <2>2
    <3>2. m.remove <= m.previous
      <4>1. m.remove <= Len(rs) /\ Len(rs) <= m.previous /\ Len(rs) \in Nat
        BY <3>1, LenProperties DEF Planned
      <4>2. QED
        BY <1>1, <4>1
    <3>3. QED
      BY <3>1, <3>2, KeptRows
  <2>3. QED
    BY <2>1, <2>2
<1>4. Len(b) \in Nat
  BY <1>3, LenProperties
<1> HIDE DEF b, n
<1>5. b \o more \in Seq(S) /\ Len(b \o more) = Len(b) + n
  BY <1>3, ConcatProperties DEF n
<1>6. w = [previous |-> m.previous - m.remove + n + Len(m.spans), remove |-> 0, spans |-> <<>>]
  BY DEF Synced
<1>7. m.previous - m.remove + n + Len(m.spans) \in Nat
      /\ Len(b) + n <= m.previous - m.remove + n + Len(m.spans)
  <2> DEFINE c == Len(m.spans)
             u == m.previous
             v == m.remove
             l == Len(b)
  <2>1. c \in Nat /\ u \in Nat /\ v \in Nat /\ v <= u /\ l \in Nat /\ l <= u - v + c
    BY <1>1, <1>3, <1>4
  <2> HIDE DEF c, u, v, l
  <2>2. u - v + n + c \in Nat /\ l + n <= u - v + n + c
    BY <1>2, <2>1
  <2>3. QED
    BY <2>2 DEF c, u, v, l
<1> HIDE DEF w
<1>8. w \in [previous : Nat, remove : Nat, spans : Seq(Nat)]
  <2>1. <<>> \in Seq(Nat)
    OBVIOUS
  <2>2. QED
    BY <1>6, <1>7, <2>1
<1>9. w.remove = 0 /\ w.spans = <<>> /\ w.previous = m.previous - m.remove + n + Len(m.spans)
  BY <1>6
<1>10. Planned(b \o more, w)
  <2>1. w.remove <= Len(b \o more) /\ Len(b \o more) <= w.previous
    BY <1>2, <1>4, <1>5, <1>7, <1>9
  <2>2. DOMAIN w.spans = {}
    BY <1>9
  <2>3. QED
    BY <1>8, <2>1, <2>2 DEF Planned
<1>11. QED
  BY <1>3, <1>5, <1>9, <1>10 DEF b, n, w

(* The prefill of a response keeps the types and counts.                   *)
LEMMA RespondFits ==
  ASSUME PredictsTokens, Fits, NEW ids \in Prompts, NEW max \in Nat, NEW reuse \in BOOLEAN,
         Respond(ids, max, reuse)
  PROVE  Fits'
<1> USE EagleAssumption DEF EagleAssumption
<1> DEFINE plan == IF reuse THEN meta ELSE [meta EXCEPT !.remove = meta.previous]
           before == Kept(rows, plan)
           begin == ((Len(ids) - 1) \div Block) * Block + 1
           last == SubSeq(ids, begin, Len(ids))
           at == IF reuse THEN allSeqLen ELSE 0
           sampled == Predict(TokensOf(rows'))
<1>1. /\ rows' = before \o CausalRows(before, ids, at)
      /\ meta' = Synced(plan, Len(ids))
      /\ allSeqLen' = at + Len(ids)
      /\ said' = <<sampled>> /\ genSeqLen' = 1 /\ status' = "RUNNING"
      /\ input' = Tail(last) \o <<sampled>>
      /\ prompt' = (IF reuse THEN Text ELSE <<>>) \o ids
      /\ pastLen' = 0 /\ remove' = Len(draftRows) /\ draftRows' = draftRows
      /\ pc' = "draft"
  BY DEF Respond
<1>2. ids \in Seq(Token) /\ ids # <<>> /\ Len(ids) \in Nat \ {0}
      /\ \A i \in 1 .. Len(ids) : ids[i] \in Token
  <2>1. ids \in Seq(Token) /\ ids # <<>>
    OBVIOUS
  <2>2. QED
    BY <2>1, EmptySeq, ElementOfSeq
<1>3. /\ plan \in [previous : Nat, remove : Nat, spans : Seq(Nat)]
      /\ plan.previous = plan.remove \/ Planned(rows, plan)
      /\ rows \in Seq(Row) /\ at \in Nat
  <2>1. meta \in [previous : Nat, remove : Nat, spans : Seq(Nat)] /\ Planned(rows, meta)
        /\ rows \in Seq(Row) /\ allSeqLen \in Nat
    BY DEF Fits, RowsFit, Planned
  <2>2. CASE reuse
    BY <2>1, <2>2
  <2>3. CASE ~reuse
    <3>1. plan = [meta EXCEPT !.remove = meta.previous] /\ at = 0
      BY <2>3
    <3>2. QED
      BY <2>1, <3>1
  <2>4. QED
    BY <2>2, <2>3
<1> HIDE DEF plan, at
<1>4. before \in Seq(Row)
  <2>1. CASE plan.previous = plan.remove
    BY <2>1 DEF Kept
  <2>2. CASE plan.previous # plan.remove
    <3>1. Planned(rows, plan)
      BY <1>3, <2>2
    <3>2. QED
      BY <1>3, <3>1, KeptRows
  <2>3. QED
    BY <2>1, <2>2
<1> DEFINE more == CausalRows(before, ids, at)
<1>5. more \in Seq(Row) /\ Len(more) = Len(ids)
  BY <1>2, <1>3, <1>4, CausalRowsFit
<1> HIDE DEF more
<1>6. /\ rows' \in Seq(Row) /\ Planned(rows', meta')
  <2>1. Kept(rows, plan) \o more \in Seq(Row)
        /\ Planned(Kept(rows, plan) \o more, Synced(plan, Len(more)))
    BY <1>3, <1>5, SyncedPlan
  <2>2. QED
    BY <1>1, <1>5, <2>1 DEF more
<1>7. RowsFit'
  <2>1. allSeqLen' \in Nat
    BY <1>1, <1>2, <1>3
  <2>2. QED
    BY <1>6, <2>1 DEF RowsFit
<1>8. sampled \in Token
  <2>1. TokensOf(rows') \in Seq(Token)
    BY <1>6, TokensOfRows
  <2>2. QED
    BY <2>1 DEF PredictsTokens
<1> HIDE DEF sampled, last, begin
<1>9. TextFits'
  <2>1. prompt' \in Seq(Token)
    <3>1. Text \in Seq(Token) /\ <<>> \in Seq(Token)
      BY ConcatProperties DEF Text, Fits, TextFits
    <3>2. QED
      BY <1>1, <1>2, <3>1, ConcatProperties
  <2>2. said' \in Seq(Token) /\ Len(said') = 1
    BY <1>1, <1>8
  <2>3. QED
    BY <1>1, <2>1, <2>2 DEF TextFits
<1>10. last \in Seq(Token) /\ last # <<>>
  <2>1. begin \in 1 .. Len(ids)
    <3> DEFINE q == (Len(ids) - 1) \div Block
    <3>1. Len(ids) - 1 \in Nat /\ Block \in Nat \ {0}
      BY <1>2
    <3>2. q \in Nat /\ q * Block <= Len(ids) - 1 /\ q * Block \in Nat
      BY <3>1
    <3> HIDE DEF q
    <3>3. begin = q * Block + 1
      BY DEF begin, q
    <3>4. QED
      BY <1>2, <3>2, <3>3
  <2>2. \A i \in begin .. Len(ids) : ids[i] \in Token
    BY <1>2, <2>1
  <2>3. last \in Seq(Token) /\ Len(last) = Len(ids) - begin + 1
    BY <1>2, <2>1, <2>2, SubSeqProperties DEF last
  <2>4. Len(last) # 0
    BY <1>2, <2>1, <2>3
  <2>5. QED
    BY <2>3, <2>4
<1>11. input' \in Seq(Token) /\ input' # <<>>
  <2>1. Tail(last) \in Seq(Token)
    BY <1>10, HeadTailProperties
  <2>2. <<sampled>> \in Seq(Token) /\ Len(<<sampled>>) = 1
    BY <1>8
  <2>3. Len(Tail(last)) \in Nat
    BY <2>1, LenProperties
  <2>4. Tail(last) \o <<sampled>> \in Seq(Token)
        /\ Len(Tail(last) \o <<sampled>>) = Len(Tail(last)) + 1
    BY <2>1, <2>2, ConcatProperties
  <2>5. QED
    BY <1>1, <2>3, <2>4
<1>12. DraftsFit'
  <2>1. draftRows \in Seq(DraftRow) /\ Len(draftRows) \in Nat
    BY LenProperties DEF Fits, DraftsFit
  <2>2. QED
    BY <1>1, <1>11, <2>1 DEF DraftsFit
<1>13. TreeFits'
  BY <1>1 DEF TreeFits
<1>14. QED
  BY <1>7, <1>9, <1>12, <1>13 DEF Fits

(* The first forward of the draft model in a round keeps them.             *)
LEMMA DraftRootFits ==
  ASSUME Fits, NEW answer \in Answers, DraftRoot(answer)
  PROVE  Fits'
<1> USE EagleAssumption DEF EagleAssumption
<1> DEFINE kept == SubSeq(draftRows, 1, Len(draftRows) - remove)
           more == [i \in DOMAIN input |-> [token |-> input[i], pos |-> pastLen + i - 1]]
<1>1. /\ pc = "draft" /\ draftRows' = kept \o more
      /\ pastLen' = pastLen + Len(input) /\ remove' = DraftRemove
      /\ tree' = FirstNodes(answer) /\ actives' = FirstActives
      /\ pc' \in {"grow", "finalize"}
      /\ UNCHANGED << base, result, status, input, draft, call, spoken >>
  BY DEF DraftRoot, DraftDone
<1>2. /\ draftRows \in Seq(DraftRow) /\ remove \in Nat /\ pastLen \in Nat
      /\ input \in Seq(Token) /\ input # <<>>
  BY <1>1 DEF Fits, DraftsFit
<1>3. /\ Len(input) \in Nat \ {0} /\ DOMAIN input = 1 .. Len(input)
      /\ \A i \in 1 .. Len(input) : input[i] \in Token
      /\ Len(draftRows) \in Nat /\ \A i \in 1 .. Len(draftRows) : draftRows[i] \in DraftRow
  BY <1>2, ElementOfSeq, LenProperties, EmptySeq
<1>4. kept \in Seq(DraftRow)
  <2>1. \A i \in 1 .. Len(draftRows) - remove : draftRows[i] \in DraftRow
    BY <1>2, <1>3
  <2>2. QED
    BY <1>2, <1>3, <2>1, SubSeqProperties
<1>5. more \in Seq(DraftRow)
  <2> DEFINE row(i) == [token |-> input[i], pos |-> pastLen + i - 1]
  <2>1. ASSUME NEW i \in 1 .. Len(input)
        PROVE  row(i) \in DraftRow
    <3>1. pastLen + i - 1 \in Nat /\ input[i] \in Token
      BY <1>2, <1>3
    <3>2. QED
      BY <3>1 DEF DraftRow
  <2>2. more = [i \in 1 .. Len(input) |-> row(i)]
    BY <1>3
  <2> HIDE DEF more, row
  <2>3. more \in [1 .. Len(input) -> DraftRow]
    BY <2>1, <2>2
  <2>4. QED
    BY <1>3, <2>3, FunctionSeq
<1> HIDE DEF kept, more
<1>6. DraftsFit'
  <2>1. draftRows' \in Seq(DraftRow)
    BY <1>1, <1>4, <1>5, ConcatProperties
  <2>2. DraftRemove \in Nat
    <3>1. Depth - 1 \in Nat /\ TopK \in Nat
      OBVIOUS
    <3>2. QED
      BY <3>1 DEF DraftRemove
  <2>3. QED
    BY <1>1, <1>2, <1>3, <2>1, <2>2 DEF DraftsFit
<1>7. TreeFits'
  <2>1. /\ Grown(FirstNodes(answer)) /\ Len(FirstNodes(answer)) = TopK
        /\ FirstActives \in [1 .. TopK -> 1 .. TopK]
    BY RootGrown
  <2>2. QED
    BY <1>1, <2>1 DEF TreeFits
<1>8. RowsFit' /\ TextFits'
  BY <1>1 DEF Fits, RowsFit, TextFits, base, result, spoken, Planned
<1>9. QED
  BY <1>6, <1>7, <1>8 DEF Fits

(* The next actives are among the children of this round.                  *)
LEMMA NextActivesNew ==
  ASSUME NEW u, NEW old, NEW next \in NextActives(u, old)
  PROVE  /\ next \in [1 .. TopK -> old + 1 .. Len(u)]
         /\ \A i, j \in 1 .. TopK : i < j => next[i] # next[j]
BY DEF NextActives

(* A further level keeps them, when scores are below 0.                    *)
LEMMA GrowDraftFits ==
  ASSUME "certain" \notin Situations,
         Fits, NEW answers \in [1 .. TopK -> Answers], GrowDraft(answers)
  PROVE  Fits'
<1> USE EagleAssumption DEF EagleAssumption
<1> DEFINE more == [i \in DOMAIN actives |-> [token |-> tree[actives[i]].token,
                                              pos |-> pastLen + tree[actives[i]].depth]]
           u == WithChildren(tree, actives, answers)
<1>1. /\ pc = "grow" /\ draftRows' = draftRows \o more
      /\ tree' = u /\ actives' \in NextActives(u, Len(tree))
      /\ pc' \in {"grow", "finalize"}
      /\ UNCHANGED << base, result, status, remove, pastLen, input, draft, call, spoken >>
  BY DEF GrowDraft, DraftDone
<1>2. /\ draftRows \in Seq(DraftRow) /\ remove \in Nat /\ pastLen \in Nat
      /\ input \in Seq(Token) /\ input # <<>>
      /\ Grown(tree) /\ actives \in [1 .. TopK -> 1 .. Len(tree)]
  BY <1>1 DEF Fits, DraftsFit, TreeFits
<1>3. /\ Grown(u) /\ Len(tree) \in Nat \ {0} /\ \A n \in 1 .. Len(tree) : tree[n] \in TreeNode
      /\ Len(u) \in Nat
  BY <1>2, ChildrenGrown
<1>4. more \in Seq(DraftRow)
  <2> DEFINE row(i) == [token |-> tree[actives[i]].token,
                        pos |-> pastLen + tree[actives[i]].depth]
  <2>1. ASSUME NEW i \in 1 .. TopK
        PROVE  row(i) \in DraftRow
    <3>1. tree[actives[i]] \in TreeNode
      BY <1>2, <1>3
    <3>2. tree[actives[i]].token \in Token /\ tree[actives[i]].depth \in Nat
      BY <3>1 DEF TreeNode
    <3>3. pastLen + tree[actives[i]].depth \in Nat
      BY <1>2, <3>2
    <3>4. QED
      BY <3>2, <3>3 DEF DraftRow
  <2>2. more = [i \in 1 .. TopK |-> row(i)]
    BY <1>2
  <2> HIDE DEF more, row
  <2>3. more \in [1 .. TopK -> DraftRow]
    BY <2>1, <2>2
  <2>4. QED
    BY <2>3, FunctionSeq
<1> HIDE DEF more, u
<1>5. DraftsFit'
  <2>1. draftRows' \in Seq(DraftRow)
    BY <1>1, <1>2, <1>4, ConcatProperties
  <2>2. QED
    BY <1>1, <1>2, <2>1 DEF DraftsFit
<1>6. TreeFits'
  <2>1. actives' \in [1 .. TopK -> Len(tree) + 1 .. Len(u)]
    BY <1>1, NextActivesNew
  <2>2. actives' \in [1 .. TopK -> 1 .. Len(u)]
    BY <1>3, <2>1
  <2>3. QED
    BY <1>1, <1>3, <2>2 DEF TreeFits
<1>7. RowsFit' /\ TextFits'
  BY <1>1 DEF Fits, RowsFit, TextFits, base, result, spoken, Planned
<1>8. QED
  BY <1>5, <1>6, <1>7 DEF Fits

(* Choosing the tree keeps them; its first token is the last one of the    *)
(* input.                                                                  *)
LEMMA FinalizeFits ==
  ASSUME Fits, Finalize
  PROVE  Fits' /\ draft'.tokens[1] = input[Len(input)]
<1>1. /\ pc = "finalize" /\ pc' = "tree"
      /\ UNCHANGED << base, result, status, eagle, input, growing, call, spoken >>
  BY DEF Finalize
<1>2. PICK best \in BestNodes(tree, DraftLen) :
        draft' = TreeOutputs(tree, best, input[Len(input)])
  BY DEF Finalize
<1>3. input \in Seq(Token) /\ input # <<>> /\ Grown(tree)
  BY <1>1 DEF Fits, DraftsFit, TreeFits
<1>4. input[Len(input)] \in Token
  <2>1. Len(input) \in 1 .. Len(input)
    BY <1>3, EmptySeq
  <2>2. QED
    BY <1>3, <2>1, ElementOfSeq
<1>5. GoodDraft(draft') /\ draft'.tokens[1] = input[Len(input)]
  BY <1>2, <1>3, <1>4, TreeOutputsGood
<1>6. TreeFits'
  BY <1>1, <1>5 DEF TreeFits
<1>7. RowsFit' /\ TextFits' /\ DraftsFit'
  BY <1>1 DEF Fits, RowsFit, TextFits, DraftsFit, base, result, spoken, eagle, Planned
<1>8. QED
  BY <1>5, <1>6, <1>7 DEF Fits

(* The verifying forward keeps them.                                       *)
LEMMA DecodeTreeFits ==
  ASSUME Fits, DecodeTree
  PROVE  Fits'
<1> DEFINE before == Kept(rows, meta)
           more == TreeRows(before)
<1>1. /\ pc = "tree" /\ pc' = "verify"
      /\ rows' = before \o more
      /\ meta' = Synced(meta, Len(draft.tokens))
      /\ UNCHANGED << allSeqLen, result, status, eagle, input, draft, spoken >>
  BY DEF DecodeTree
<1>2. rows \in Seq(Row) /\ Planned(rows, meta) /\ GoodDraft(draft) /\ pastLen \in Nat
  BY <1>1 DEF Fits, RowsFit, TreeFits, DraftsFit
<1>3. meta \in [previous : Nat, remove : Nat, spans : Seq(Nat)]
  BY <1>2 DEF Planned
<1>4. before \in Seq(Row)
  BY <1>2, KeptRows
<1> HIDE DEF before
<1>5. more \in Seq(Row) /\ Len(more) = Len(draft.tokens)
  BY <1>2, <1>4, TreeRowsFit
<1> HIDE DEF more
<1>6. /\ rows' \in Seq(Row) /\ Planned(rows', meta')
      /\ Len(rows') = Len(before) + Len(draft.tokens)
      /\ meta'.remove = 0 /\ meta'.spans = <<>>
  <2>1. /\ Kept(rows, meta) \o more \in Seq(Row)
        /\ Len(Kept(rows, meta) \o more) = Len(Kept(rows, meta)) + Len(more)
        /\ Planned(Kept(rows, meta) \o more, Synced(meta, Len(more)))
        /\ Synced(meta, Len(more)).remove = 0 /\ Synced(meta, Len(more)).spans = <<>>
    <3>1. meta.previous = meta.remove \/ Planned(rows, meta)
      BY <1>2
    <3>2. rows \in Seq(Row) /\ more \in Seq(Row)
      BY <1>2, <1>5
    <3>3. /\ Kept(rows, meta) \o more \in Seq(Row)
          /\ Planned(Kept(rows, meta) \o more, Synced(meta, Len(more)))
      BY <1>3, <3>1, <3>2, SyncedPlan
    <3>4. Len(Kept(rows, meta) \o more) = Len(Kept(rows, meta)) + Len(more)
      BY <1>3, <3>1, <3>2, SyncedPlan
    <3>5. Synced(meta, Len(more)).remove = 0 /\ Synced(meta, Len(more)).spans = <<>>
      BY <1>3, <3>1, <3>2, SyncedPlan
    <3>6. QED
      BY <3>3, <3>4, <3>5
  <2>2. QED
    BY <1>1, <1>5, <2>1 DEF before
<1>7. RowsFit'
  BY <1>1, <1>6 DEF Fits, RowsFit
<1>8. TreeFits'
  <2>1. Len(before) \in Nat /\ Len(draft.tokens) \in Nat
    BY <1>2, <1>4, LenProperties DEF GoodDraft
  <2>2. Len(draft.tokens) <= Len(rows')
    BY <1>6, <2>1
  <2>3. QED
    BY <1>1, <1>2, <1>6, <2>2 DEF TreeFits
<1>9. TextFits' /\ DraftsFit'
  BY <1>1 DEF Fits, TextFits, DraftsFit, result, spoken, eagle
<1>10. QED
  BY <1>7, <1>8, <1>9 DEF Fits

(* A response that ends before its limit keeps them.                       *)
LEMMA EndEarlyFits ==
  ASSUME Fits, NEW why \in {"TIMEOUT", "INTERNAL_ERROR"}, EndEarly(why)
  PROVE  Fits'
<1>1. /\ pc' = "idle" /\ status' = why
      /\ UNCHANGED << base, result, eagle, input, growing, draft, call, spoken >>
  BY DEF EndEarly
<1>2. RowsFit' /\ TextFits'
  BY <1>1 DEF Fits, RowsFit, TextFits, base, result, spoken, Planned
<1>3. DraftsFit' /\ TreeFits'
  BY <1>1 DEF Fits, DraftsFit, TreeFits, eagle
<1>4. QED
  BY <1>2, <1>3 DEF Fits

(* What a round accepts: rows of a good path, and a token for each.        *)
LEMMA AcceptedFits ==
  ASSUME PredictsTokens, Fits, pc = "verify"
  PROVE  /\ Accepted \in Seq(1 .. Len(draft.tokens)) /\ Len(Accepted) \in Nat \ {0}
         /\ DOMAIN Accepted = 1 .. Len(Accepted)
         /\ \A i, j \in 1 .. Len(Accepted) : i < j => Accepted[i] < Accepted[j]
         /\ \A i \in 1 .. Len(Accepted) : Accepted[i] \in 1 .. Len(draft.tokens)
         /\ \A i \in 1 .. Len(Accepted) : Sampled(Accepted[i]) \in Token
<1> DEFINE T == Len(draft.tokens)
<1>1. /\ rows \in Seq(Row) /\ GoodDraft(draft) /\ T <= Len(rows)
      /\ T \in Nat /\ Len(rows) \in Nat
  <2>1. rows \in Seq(Row) /\ GoodDraft(draft) /\ T <= Len(rows)
    BY DEF Fits, RowsFit, TreeFits
  <2>2. QED
    BY <2>1, LenProperties DEF GoodDraft
<1>2. PICK k \in DOMAIN draft.paths :
        /\ GoodPath(draft, draft.paths[k])
        /\ Agreed(draft.paths[k]) \in 0 .. Len(draft.paths[k]) - 1
        /\ Accepted = SubSeq(draft.paths[k], 1, Agreed(draft.paths[k]) + 1)
  BY <1>1, AcceptedPath
<1> DEFINE p == draft.paths[k]
           n == Agreed(p) + 1
<1>3. /\ p \in Seq(1 .. T) /\ Len(p) \in Nat \ {0} /\ n \in 1 .. Len(p)
      /\ Accepted = SubSeq(p, 1, n)
      /\ \A i \in 1 .. Len(p) : p[i] \in 1 .. T
      /\ \A i, j \in 1 .. Len(p) : i < j => p[i] < p[j]
  <2>1. p \in Seq(1 .. T) /\ p # <<>> /\ \A i, j \in 1 .. Len(p) : i < j => p[i] < p[j]
    BY <1>2 DEF GoodPath
  <2>2. Len(p) \in Nat \ {0} /\ \A i \in 1 .. Len(p) : p[i] \in 1 .. T
    BY <2>1, EmptySeq, ElementOfSeq
  <2>3. QED
    BY <1>2, <2>1, <2>2
<1> HIDE DEF p, n, T
<1>4. \A i \in 1 .. n : p[i] \in 1 .. T
  BY <1>3
<1>5. /\ Accepted \in Seq(1 .. T) /\ Len(Accepted) = n
      /\ \A i \in 1 .. n : Accepted[i] = p[i]
  BY <1>3, <1>4, SubSeqProperties
<1>6. DOMAIN Accepted = 1 .. n
  BY <1>5, LenProperties
<1>7. ASSUME NEW i \in 1 .. n
      PROVE  Sampled(Accepted[i]) \in Token
  <2>1. Accepted[i] \in 1 .. T
    BY <1>4, <1>5
  <2>2. Len(rows) - T + Accepted[i] \in 1 .. Len(rows)
    <3> DEFINE a == Accepted[i]
               l == Len(rows)
    <3>1. T \in Nat /\ l \in Nat /\ T <= l /\ a \in 1 .. T
      BY <1>1, <2>1 DEF T
    <3> HIDE DEF a, l
    <3>2. l - T + a \in 1 .. l
      BY <3>1
    <3>3. QED
      BY <3>2 DEF a, l
  <2>3. rows[Len(rows) - T + Accepted[i]] \in Row
    BY <1>1, <2>2, ElementOfSeq
  <2>4. rows[Len(rows) - T + Accepted[i]].ctx \in Seq(Token)
    BY <2>3 DEF Row
  <2>5. QED
    BY <2>4 DEF Sampled, PredictsTokens, T
<1>8. \A i, j \in 1 .. n : i < j => Accepted[i] < Accepted[j]
  BY <1>3, <1>5
<1>9. QED
  BY <1>3, <1>4, <1>5, <1>6, <1>7, <1>8 DEF T

(* The acceptance and the spans it plans keep them.                        *)
LEMMA VerifyFits ==
  ASSUME PredictsTokens, Fits, Verify
  PROVE  Fits'
<1> DEFINE kept == Accepted
           tokens == [i \in DOMAIN kept |-> Sampled(kept[i])]
           new == call.new + Len(tokens)
           T == Len(draft.tokens)
<1>1. /\ pc = "verify" /\ said' = said \o tokens
      /\ UNCHANGED << eagle, growing, prompt >>
      /\ \/ /\ status' \in {"MAX_TOKENS_FINISHED", "NORMAL_FINISHED"}
            /\ pc' = "idle"
            /\ UNCHANGED << base, genSeqLen, input >>
         \/ /\ allSeqLen' = allSeqLen + Len(tokens)
            /\ genSeqLen' = genSeqLen + Len(tokens)
            /\ meta' = [meta EXCEPT !.remove = T, !.spans = Spans(kept)]
            /\ input' = tokens
            /\ pc' = "draft"
            /\ UNCHANGED << rows, status >>
  BY DEF Verify
<1>2. /\ kept \in Seq(1 .. T) /\ Len(kept) \in Nat \ {0}
      /\ DOMAIN kept = 1 .. Len(kept)
      /\ \A i, j \in 1 .. Len(kept) : i < j => kept[i] < kept[j]
      /\ \A i \in 1 .. Len(kept) : kept[i] \in 1 .. T
      /\ \A i \in 1 .. Len(kept) : Sampled(kept[i]) \in Token
  BY <1>1, AcceptedFits
<1>3. T \in Nat /\ T <= Len(rows) /\ Len(rows) \in Nat /\ rows \in Seq(Row)
      /\ Planned(rows, meta) /\ allSeqLen \in Nat
  <2>1. rows \in Seq(Row) /\ GoodDraft(draft) /\ T <= Len(rows)
        /\ Planned(rows, meta) /\ allSeqLen \in Nat
    BY <1>1 DEF Fits, RowsFit, TreeFits
  <2>2. QED
    BY <2>1, LenProperties DEF GoodDraft
<1> HIDE DEF kept, T
<1>4. tokens \in Seq(Token) /\ Len(tokens) = Len(kept)
  <2>1. tokens \in [1 .. Len(kept) -> Token]
    BY <1>2
  <2> HIDE DEF tokens
  <2>2. QED
    BY <1>2, <2>1, FunctionSeq
<1> HIDE DEF tokens
<1>5. TextFits'
  <2>1. /\ prompt \in Seq(Token) /\ said \in Seq(Token) /\ genSeqLen \in 0 .. Len(said)
        /\ status \in {"RUNNING", "TIMEOUT", "INTERNAL_ERROR",
                       "NORMAL_FINISHED", "MAX_TOKENS_FINISHED"}
    BY DEF Fits, TextFits
  <2>2. said' \in Seq(Token) /\ Len(said') = Len(said) + Len(tokens)
    BY <1>1, <1>4, <2>1, ConcatProperties
  <2>3. Len(said) \in Nat /\ Len(tokens) \in Nat
    BY <1>2, <1>4, <2>1, LenProperties
  <2>4. genSeqLen' \in 0 .. Len(said')
    BY <1>1, <2>1, <2>2, <2>3
  <2>5. QED
    BY <1>1, <2>1, <2>2, <2>4 DEF TextFits
<1>6. DraftsFit'
  <2>1. tokens # <<>>
    BY <1>2, <1>4
  <2>2. QED
    BY <1>1, <1>4, <2>1 DEF Fits, DraftsFit, eagle
<1>7. TreeFits'
  BY <1>1 DEF TreeFits
<1>8. RowsFit'
  <2>1. CASE UNCHANGED base
    BY <2>1 DEF Fits, RowsFit, Planned, base
  <2>2. CASE /\ allSeqLen' = allSeqLen + Len(tokens)
             /\ meta' = [meta EXCEPT !.remove = T, !.spans = Spans(kept)]
             /\ rows' = rows
    <3> DEFINE sp == Spans(kept)
    <3>1. sp = [i \in 1 .. Len(kept) |-> kept[i] - 1]
      BY <1>2 DEF Spans
    <3>2. \A i \in 1 .. Len(kept) : kept[i] - 1 \in Nat /\ kept[i] - 1 < T
      BY <1>2, <1>3
    <3> HIDE DEF sp
    <3>3. sp \in [1 .. Len(kept) -> Nat] /\ \A i \in 1 .. Len(kept) : sp[i] = kept[i] - 1
      BY <3>1, <3>2
    <3>4. sp \in Seq(Nat) /\ DOMAIN sp = 1 .. Len(kept)
      BY <1>2, <3>3, FunctionSeq
    <3>5. \A i \in DOMAIN sp : sp[i] < T
      BY <3>2, <3>3, <3>4
    <3>6. ASSUME NEW i \in DOMAIN sp, NEW j \in DOMAIN sp, i < j
          PROVE  sp[i] < sp[j]
      <4>1. kept[i] < kept[j] /\ kept[i] \in 1 .. T /\ kept[j] \in 1 .. T
        BY <1>2, <3>4, <3>6
      <4>2. sp[i] = kept[i] - 1 /\ sp[j] = kept[j] - 1
        BY <3>3, <3>4
      <4>3. QED
        BY <1>3, <4>1, <4>2
    <3>7. meta \in [previous : Nat, remove : Nat, spans : Seq(Nat)] /\ Len(rows) <= meta.previous
      BY <1>3 DEF Planned
    <3>8. meta' = [meta EXCEPT !.remove = T, !.spans = sp]
      BY <2>2 DEF sp
    <3>9. /\ meta' \in [previous : Nat, remove : Nat, spans : Seq(Nat)]
          /\ meta'.previous = meta.previous /\ meta'.remove = T /\ meta'.spans = sp
      BY <1>3, <3>4, <3>7, <3>8
    <3>10. Planned(rows', meta')
      BY <1>3, <2>2, <3>5, <3>6, <3>7, <3>9 DEF Planned
    <3>11. allSeqLen' \in Nat
      BY <1>2, <1>3, <1>4, <2>2
    <3>12. QED
      BY <1>3, <2>2, <3>10, <3>11 DEF RowsFit
  <2>3. QED
    BY <1>1, <2>1, <2>2
<1>9. QED
  BY <1>5, <1>6, <1>7, <1>8 DEF Fits

(* They hold at the start.                                                 *)
LEMMA FitsInit == Init => Fits
<1> SUFFICES ASSUME Init PROVE Fits
  OBVIOUS
<1> USE DEF Init
<1>1. Len(<<>>) = 0 /\ DOMAIN <<>> = {}
  OBVIOUS
<1>2. RowsFit
  <2>1. <<>> \in Seq(Row) /\ <<>> \in Seq(Nat)
    OBVIOUS
  <2>2. NoMeta \in [previous : Nat, remove : Nat, spans : Seq(Nat)]
    BY <2>1 DEF NoMeta
  <2>3. NoMeta.previous = 0 /\ NoMeta.remove = 0 /\ NoMeta.spans = <<>>
    BY DEF NoMeta
  <2>4. Planned(rows, meta)
    BY <1>1, <2>2, <2>3 DEF Planned
  <2>5. QED
    BY <2>1, <2>4 DEF RowsFit
<1>3. TextFits /\ DraftsFit /\ TreeFits
  BY <1>1 DEF TextFits, DraftsFit, TreeFits
<1>4. QED
  BY <1>2, <1>3 DEF Fits

(* Every step keeps them.                                                  *)
LEMMA FitsNext ==
  ASSUME PredictsTokens, "certain" \notin Situations, Fits, [Next]_vars
  PROVE  Fits'
<1>1. ASSUME NEW ids \in Prompts, NEW max \in 1 .. MaxNew, NEW reuse \in BOOLEAN,
             Respond(ids, max, reuse)
      PROVE  Fits'
  BY <1>1, RespondFits
<1>2. ASSUME NEW answer \in Answers, DraftRoot(answer)
      PROVE  Fits'
  BY <1>2, DraftRootFits
<1>3. ASSUME NEW answers \in [1 .. TopK -> Answers], GrowDraft(answers)
      PROVE  Fits'
  BY <1>3, GrowDraftFits
<1>4. CASE Finalize
  BY <1>4, FinalizeFits
<1>5. CASE DecodeTree
  BY <1>5, DecodeTreeFits
<1>6. ASSUME NEW why \in {"TIMEOUT", "INTERNAL_ERROR"}, EndEarly(why)
      PROVE  Fits'
  BY <1>6, EndEarlyFits
<1>7. CASE Verify
  BY <1>7, VerifyFits
<1>8. CASE UNCHANGED vars
  <2> USE <1>8 DEF vars, base, result, eagle, growing, spoken
  <2>1. RowsFit' /\ TextFits'
    BY DEF Fits, RowsFit, TextFits, Planned
  <2>2. DraftsFit' /\ TreeFits'
    BY DEF Fits, DraftsFit, TreeFits
  <2>3. QED
    BY <2>1, <2>2 DEF Fits
<1>9. QED
  BY <1>1, <1>2, <1>3, <1>4, <1>5, <1>6, <1>7, <1>8 DEF Next

(* The parts of the state fit together, unless a score of the draft model  *)
(* is exactly 0: a plan keeps ascending rows among those it removes, and   *)
(* every tree offers the base model a path.                                *)
THEOREM EagleTypes ==
  ASSUME PredictsTokens, "certain" \notin Situations
  PROVE  Spec => []TypeOK
<1>1. Fits => TypeOK
  <2> SUFFICES ASSUME Fits PROVE TypeOK
    OBVIOUS
  <2>1. \A i \in DOMAIN rows : rows[i].ctx \in Seq(Token) /\ rows[i].pos \in Nat
    <3>1. rows \in Seq(Row)
      BY DEF Fits, RowsFit
    <3>2. ASSUME NEW i \in DOMAIN rows
          PROVE  rows[i].ctx \in Seq(Token) /\ rows[i].pos \in Nat
      <4>1. rows[i] \in Row
        BY <3>1
      <4>2. QED
        BY <4>1 DEF Row
    <3>3. QED
      BY <3>2
  <2>2. /\ meta.remove \in 0 .. meta.previous
        /\ \A i \in DOMAIN meta.spans : meta.spans[i] \in 0 .. meta.remove - 1
        /\ \A i, j \in DOMAIN meta.spans : i < j => meta.spans[i] < meta.spans[j]
    <3>1. /\ Planned(rows, meta) /\ Len(rows) \in Nat
      BY LenProperties DEF Fits, RowsFit
    <3>2. meta.remove \in Nat /\ meta.previous \in Nat /\ meta.spans \in Seq(Nat)
      BY <3>1 DEF Planned
    <3>3. \A i \in DOMAIN meta.spans : meta.spans[i] \in Nat
      BY <3>2
    <3>4. QED
      BY <3>1, <3>2, <3>3 DEF Planned
  <2>3. Text \in Seq(Token) /\ genSeqLen \in 0 .. Len(said)
    BY ConcatProperties DEF Fits, TextFits, Text
  <2>4. \A i \in DOMAIN draftRows : draftRows[i].token \in Token
    <3>1. draftRows \in Seq(DraftRow)
      BY DEF Fits, DraftsFit
    <3>2. ASSUME NEW i \in DOMAIN draftRows
          PROVE  draftRows[i].token \in Token
      <4>1. draftRows[i] \in DraftRow
        BY <3>1
      <4>2. QED
        BY <4>1 DEF DraftRow
    <3>3. QED
      BY <3>2
  <2>5. pc = "tree" => draft.paths # <<>>
    BY DEF Fits, TreeFits, GoodDraft
  <2>6. QED
    BY <2>1, <2>2, <2>3, <2>4, <2>5 DEF TypeOK, Fits, TextFits
<1>2. Fits /\ [Next]_vars => Fits'
  BY FitsNext
<1>3. QED
  BY <1>1, <1>2, FitsInit, PTL DEF Spec

-----------------------------------------------------------------------------
(* The rows the base model starts from follow the text.                    *)

(* The rows of a text without its last token, each computed from the       *)
(* tokens up to its own.                                                   *)
Follows(rs, text) ==
  /\ Len(rs) = Len(text) - 1
  /\ \A i \in 1 .. Len(text) - 1 : rs[i].ctx = SubSeq(text, 1, i)

(* The first m members of a sequence.                                      *)
LEMMA Prefix ==
  ASSUME NEW S, NEW s \in Seq(S), NEW m \in 0 .. Len(s)
  PROVE  /\ SubSeq(s, 1, m) \in Seq(S) /\ Len(SubSeq(s, 1, m)) = m
         /\ \A i \in 1 .. m : SubSeq(s, 1, m)[i] = s[i]
<1>1. Len(s) \in Nat /\ \A i \in 1 .. Len(s) : s[i] \in S
  BY ElementOfSeq, LenProperties
<1>2. m \in Nat /\ \A i \in 1 .. m : s[i] \in S
  BY <1>1
<1>3. /\ SubSeq(s, 1, m) \in Seq(S)
      /\ Len(SubSeq(s, 1, m)) = IF 1 <= m THEN m - 1 + 1 ELSE 0
      /\ \A i \in 1 .. m - 1 + 1 : SubSeq(s, 1, m)[i] = s[1 + i - 1]
  BY <1>2, SubSeqProperties
<1>4. Len(SubSeq(s, 1, m)) = m
  BY <1>2, <1>3
<1>5. ASSUME NEW i \in 1 .. m
      PROVE  SubSeq(s, 1, m)[i] = s[i]
  <2>1. i \in 1 .. m - 1 + 1 /\ 1 + i - 1 = i
    BY <1>2
  <2>2. QED
    BY <1>3, <2>1
<1>6. QED
  BY <1>3, <1>4, <1>5

(* What follows a text does not change its prefixes.                       *)
LEMMA PrefixOfConcat ==
  ASSUME NEW S, NEW s \in Seq(S), NEW t \in Seq(S), NEW m \in 0 .. Len(s)
  PROVE  SubSeq(s \o t, 1, m) = SubSeq(s, 1, m)
<1>1. /\ s \o t \in Seq(S) /\ Len(s \o t) = Len(s) + Len(t)
      /\ \A i \in 1 .. Len(s) : (s \o t)[i] = s[i]
      /\ Len(s) \in Nat /\ Len(t) \in Nat
  BY ConcatProperties, LenProperties
<1>2. m \in 0 .. Len(s \o t)
  BY <1>1
<1>3. /\ SubSeq(s \o t, 1, m) \in Seq(S) /\ Len(SubSeq(s \o t, 1, m)) = m
      /\ \A i \in 1 .. m : SubSeq(s \o t, 1, m)[i] = (s \o t)[i]
  BY <1>1, <1>2, Prefix
<1>4. /\ SubSeq(s, 1, m) \in Seq(S) /\ Len(SubSeq(s, 1, m)) = m
      /\ \A i \in 1 .. m : SubSeq(s, 1, m)[i] = s[i]
  BY Prefix
<1>5. \A i \in 1 .. m : SubSeq(s \o t, 1, m)[i] = SubSeq(s, 1, m)[i]
  BY <1>1, <1>3, <1>4
<1>6. QED
  BY <1>3, <1>4, <1>5, SeqEqual

(* Longer prefixes end within what follows.                                *)
LEMMA PrefixPastConcat ==
  ASSUME NEW S, NEW s \in Seq(S), NEW t \in Seq(S), NEW m \in 0 .. Len(t)
  PROVE  SubSeq(s \o t, 1, Len(s) + m) = s \o SubSeq(t, 1, m)
<1>1. /\ s \o t \in Seq(S) /\ Len(s \o t) = Len(s) + Len(t)
      /\ \A i \in 1 .. Len(s) : (s \o t)[i] = s[i]
      /\ \A i \in 1 .. Len(t) : (s \o t)[Len(s) + i] = t[i]
      /\ Len(s) \in Nat /\ Len(t) \in Nat
  <2>1. Len(s) \in Nat /\ Len(t) \in Nat
    BY LenProperties
  <2>2. ASSUME NEW i \in 1 .. Len(t)
        PROVE  (s \o t)[Len(s) + i] = t[i]
    <3>1. Len(s) + i \in 1 .. Len(s) + Len(t) /\ ~(Len(s) + i <= Len(s))
          /\ Len(s) + i - Len(s) = i
      BY <2>1
    <3>2. QED
      BY <3>1, ConcatProperties
  <2>3. QED
    BY <2>1, <2>2, ConcatProperties
<1>2. Len(s) + m \in 0 .. Len(s \o t)
  BY <1>1
<1> DEFINE w == SubSeq(t, 1, m)
           a == SubSeq(s \o t, 1, Len(s) + m)
<1>3. w \in Seq(S) /\ Len(w) = m /\ \A i \in 1 .. m : w[i] = t[i]
  BY Prefix
<1>4. /\ a \in Seq(S) /\ Len(a) = Len(s) + m
      /\ \A i \in 1 .. Len(s) + m : a[i] = (s \o t)[i]
  BY <1>1, <1>2, Prefix
<1> HIDE DEF w, a
<1>5. /\ s \o w \in Seq(S) /\ Len(s \o w) = Len(s) + m
  BY <1>3, ConcatProperties
<1>6. ASSUME NEW i \in 1 .. Len(s) + m
      PROVE  a[i] = (s \o w)[i]
  <2>1. CASE i <= Len(s)
    <3>1. i \in 1 .. Len(s)
      BY <1>1, <2>1
    <3>2. (s \o w)[i] = s[i]
      BY <1>3, <3>1, ConcatProperties
    <3>3. QED
      BY <1>1, <1>4, <3>1, <3>2
  <2>2. CASE ~(i <= Len(s))
    <3>1. i - Len(s) \in 1 .. m /\ i - Len(s) \in 1 .. Len(t) /\ Len(s) + (i - Len(s)) = i
          /\ i \in 1 .. Len(s) + Len(w)
      BY <1>1, <1>3, <2>2
    <3>2. (s \o w)[i] = w[i - Len(s)]
      BY <1>3, <2>2, <3>1, ConcatProperties
    <3>3. (s \o t)[i] = t[i - Len(s)]
      BY <1>1, <3>1
    <3>4. QED
      BY <1>3, <1>4, <3>1, <3>2, <3>3
  <2>3. QED
    BY <2>1, <2>2
<1>7. QED
  BY <1>4, <1>5, <1>6, SeqEqual DEF a, w

(* The tokens of rows that follow a text are the text but for its last     *)
(* token.                                                                  *)
LEMMA TokensOfFollowing ==
  ASSUME NEW rs \in Seq(Row), NEW text \in Seq(Token), text # <<>>, Follows(rs, text)
  PROVE  TokensOf(rs) = SubSeq(text, 1, Len(text) - 1)
<1> DEFINE n == Len(text) - 1
<1>1. n \in Nat /\ n \in 0 .. Len(text) /\ Len(rs) = n
  BY EmptySeq DEF Follows
<1>2. /\ TokensOf(rs) \in Seq(Token) /\ Len(TokensOf(rs)) = n
      /\ \A i \in 1 .. n : TokensOf(rs)[i] = rs[i].ctx[Len(rs[i].ctx)]
  BY <1>1, TokensOfRows
<1>3. /\ SubSeq(text, 1, n) \in Seq(Token) /\ Len(SubSeq(text, 1, n)) = n
      /\ \A i \in 1 .. n : SubSeq(text, 1, n)[i] = text[i]
  BY <1>1, Prefix
<1>4. ASSUME NEW i \in 1 .. n
      PROVE  TokensOf(rs)[i] = SubSeq(text, 1, n)[i]
  <2>1. i \in 0 .. Len(text) /\ i \in 1 .. i
    BY <1>1
  <2>2. rs[i].ctx = SubSeq(text, 1, i)
    BY DEF Follows
  <2>3. Len(SubSeq(text, 1, i)) = i /\ SubSeq(text, 1, i)[i] = text[i]
    BY <2>1, Prefix
  <2>4. QED
    BY <1>2, <1>3, <2>2, <2>3
<1> HIDE DEF n
<1>5. QED
  BY <1>2, <1>3, <1>4, SeqEqual DEF n

(* The next tree is verified against the text: the rows before it follow   *)
(* the text, its first row is the last token, and each of its rows is      *)
(* computed from the text before it and its own branch.                    *)
Verifying ==
  /\ Len(rows) = Len(Text) - 1 + Len(draft.tokens)
  /\ \A i \in 1 .. Len(Text) - 1 : rows[i].ctx = SubSeq(Text, 1, i)
  /\ \A i \in 1 .. Len(draft.tokens) :
       rows[Len(Text) - 1 + i].ctx = SubSeq(Text, 1, Len(Text) - 1) \o Branch(draft, i)

Heard ==
  /\ rows = <<>> => /\ pc = "idle" /\ prompt = <<>> /\ said = <<>>
                    /\ allSeqLen = 0 /\ meta = NoMeta
  /\ pc # "idle" => prompt # <<>> /\ said # <<>> /\ printed = said
  /\ pc \in {"draft", "grow", "finalize", "tree"} => Follows(Kept(rows, meta), Text)
  /\ pc \in {"draft", "grow", "finalize"} => input[Len(input)] = Text[Len(Text)]
  /\ pc \in {"tree", "verify"} => draft.tokens[1] = Text[Len(Text)]
  /\ pc = "verify" => Verifying
  /\ PrintedIsGreedy

(* The accepted rows lie on a path whose drafts are what was sampled.      *)
LEMMA AcceptedRows ==
  ASSUME PredictsTokens, Fits, pc = "verify"
  PROVE  /\ Accepted[1] = 1
         /\ \A i \in 1 .. Len(Accepted) :
              /\ draft.positions[Accepted[i]] = i - 1
              /\ Branch(draft, Accepted[i]) = [k \in 1 .. i |-> draft.tokens[Accepted[k]]]
         /\ \A i \in 1 .. Len(Accepted) - 1 :
              Sampled(Accepted[i]) = draft.tokens[Accepted[i + 1]]
<1>1. GoodDraft(draft)
  BY DEF Fits, TreeFits
<1>2. PICK j \in DOMAIN draft.paths :
        /\ GoodPath(draft, draft.paths[j])
        /\ Agreed(draft.paths[j]) \in 0 .. Len(draft.paths[j]) - 1
        /\ \A i \in 1 .. Agreed(draft.paths[j]) :
             Sampled(draft.paths[j][i]) = draft.tokens[draft.paths[j][i + 1]]
        /\ Accepted = SubSeq(draft.paths[j], 1, Agreed(draft.paths[j]) + 1)
  BY <1>1, AcceptedPath
<1> DEFINE p == draft.paths[j]
           n == Agreed(p) + 1
           R == 1 .. Len(draft.tokens)
<1>3. /\ p \in Seq(R) /\ p # <<>> /\ p[1] = 1
      /\ \A i \in 1 .. Len(p) :
           /\ draft.positions[p[i]] = i - 1
           /\ Cardinality(draft.mask[p[i]]) = i
           /\ \A k \in 1 .. i : Ascending(draft.mask[p[i]])[k] = p[k]
  BY <1>2 DEF GoodPath
<1>4. /\ n - 1 \in 0 .. Len(p) - 1
      /\ \A i \in 1 .. n - 1 : Sampled(p[i]) = draft.tokens[p[i + 1]]
      /\ Accepted = SubSeq(p, 1, n)
  <2>1. Agreed(p) \in 0 .. Len(p) - 1 /\ n - 1 = Agreed(p)
    BY <1>2
  <2>2. QED
    BY <1>2, <2>1
<1> HIDE DEF p, n, R
<1>5. Len(p) \in Nat \ {0} /\ n \in 1 .. Len(p) /\ n \in 0 .. Len(p)
  <2>1. Len(p) \in Nat \ {0}
    BY <1>3, EmptySeq
  <2>2. Agreed(p) \in 0 .. Len(p) - 1
    BY <1>2 DEF p
  <2>3. QED
    BY <2>1, <2>2 DEF n
<1>6. Len(Accepted) = n /\ \A i \in 1 .. n : Accepted[i] = p[i]
  BY <1>3, <1>4, <1>5, Prefix
<1>7. Accepted[1] = 1
  <2>1. 1 \in 1 .. n
    BY <1>5
  <2>2. QED
    BY <1>3, <1>6, <2>1
<1>8. ASSUME NEW i \in 1 .. n
      PROVE  /\ draft.positions[Accepted[i]] = i - 1
             /\ Branch(draft, Accepted[i]) = [k \in 1 .. i |-> draft.tokens[Accepted[k]]]
  <2>1. i \in 1 .. Len(p) /\ \A k \in 1 .. i : k \in 1 .. n
    BY <1>5
  <2> DEFINE M == draft.mask[p[i]]
  <2>2. Cardinality(M) = i /\ \A k \in 1 .. i : Ascending(M)[k] = p[k]
    BY <1>3, <2>1
  <2>3. Branch(draft, Accepted[i]) = [k \in 1 .. Cardinality(M) |-> draft.tokens[Ascending(M)[k]]]
    BY <1>6 DEF Branch
  <2> HIDE DEF M
  <2>4. [k \in 1 .. Cardinality(M) |-> draft.tokens[Ascending(M)[k]]] =
        [k \in 1 .. i |-> draft.tokens[Accepted[k]]]
    BY <1>6, <2>1, <2>2
  <2>5. QED
    BY <1>3, <1>6, <2>1, <2>3, <2>4
<1>9. ASSUME NEW i \in 1 .. n - 1
      PROVE  Sampled(Accepted[i]) = draft.tokens[Accepted[i + 1]]
  <2>1. i \in 1 .. n /\ i + 1 \in 1 .. n
    BY <1>5
  <2>2. QED
    BY <1>4, <1>6, <2>1
<1>10. QED
  BY <1>6, <1>7, <1>8, <1>9

(* The tokens of a round.                                                  *)
Round == [i \in DOMAIN Accepted |-> Sampled(Accepted[i])]

(* What a round samples: one token for each accepted node.                 *)
LEMMA RoundFits ==
  ASSUME PredictsTokens, Fits, pc = "verify"
  PROVE  /\ Round \in Seq(Token) /\ Len(Round) = Len(Accepted)
         /\ Len(Round) \in Nat \ {0} /\ DOMAIN Round = 1 .. Len(Round)
         /\ \A i \in 1 .. Len(Round) : Round[i] = Sampled(Accepted[i])
<1> DEFINE n == Len(Accepted)
<1>1. /\ n \in Nat \ {0} /\ DOMAIN Accepted = 1 .. n
      /\ \A i \in 1 .. n : Sampled(Accepted[i]) \in Token
  BY AcceptedFits
<1> DEFINE e(i) == Sampled(Accepted[i])
<1>2. Round = [i \in 1 .. n |-> e(i)]
  BY <1>1 DEF Round
<1> HIDE DEF n, e
<1>3. \A i \in 1 .. n : e(i) \in Token
  BY <1>1 DEF e
<1>4. Round \in [1 .. n -> Token] /\ \A i \in 1 .. n : Round[i] = e(i)
  BY <1>2, <1>3
<1>5. QED
  BY <1>1, <1>4, FunctionSeq DEF e, n

(* Every token of a round is what the base model predicts after the text   *)
(* and the tokens of the round before it.                                  *)
LEMMA RoundIsGreedy ==
  ASSUME PredictsTokens, Fits, Heard, pc = "verify"
  PROVE  \A i \in 1 .. Len(Round) :
           /\ rows[Len(Text) - 1 + Accepted[i]].ctx = Text \o SubSeq(Round, 1, i - 1)
           /\ Round[i] = Predict(Text \o SubSeq(Round, 1, i - 1))
<1> DEFINE L == Len(Text)
           T == Len(draft.tokens)
           n == Len(Round)
           front == SubSeq(Text, 1, L - 1)
<1>1. Text \in Seq(Token) /\ L \in Nat \ {0}
  <2>1. prompt \in Seq(Token) /\ said \in Seq(Token) /\ prompt # <<>>
    BY DEF Fits, TextFits, Heard
  <2>2. Text \in Seq(Token) /\ L = Len(prompt) + Len(said)
    BY <2>1, ConcatProperties DEF Text
  <2>3. Len(prompt) \in Nat \ {0} /\ Len(said) \in Nat
    BY <2>1, EmptySeq, LenProperties
  <2>4. QED
    BY <2>2, <2>3
<1>2. /\ Round \in Seq(Token) /\ n \in Nat \ {0} /\ n = Len(Accepted)
      /\ \A i \in 1 .. n : Round[i] = Sampled(Accepted[i]) /\ Round[i] \in Token
  BY RoundFits, ElementOfSeq
<1>3. /\ Len(rows) = L - 1 + T /\ draft.tokens[1] = Text[L]
      /\ \A i \in 1 .. T : rows[L - 1 + i].ctx = front \o Branch(draft, i)
      /\ T \in Nat
  BY LenProperties DEF Heard, Verifying, Fits, TreeFits, GoodDraft
<1>4. front \in Seq(Token) /\ Len(front) = L - 1 /\ \A i \in 1 .. L - 1 : front[i] = Text[i]
  <2>1. L - 1 \in 0 .. Len(Text)
    BY <1>1
  <2>2. QED
    BY <1>1, <2>1, Prefix
<1> HIDE DEF L, T, n, front
<1>5. ASSUME NEW i \in 1 .. n
      PROVE  rows[L - 1 + Accepted[i]].ctx = Text \o SubSeq(Round, 1, i - 1)
  <2> DEFINE b == Branch(draft, Accepted[i])
             w == SubSeq(Round, 1, i - 1)
  <2>1. Accepted[i] \in 1 .. T
    BY <1>2, AcceptedFits DEF T
  <2>2. rows[L - 1 + Accepted[i]].ctx = front \o b
    BY <1>3, <2>1
  <2>3. b = [k \in 1 .. i |-> draft.tokens[Accepted[k]]]
    BY <1>2, AcceptedRows
  <2>4. ASSUME NEW k \in 1 .. i
        PROVE  /\ k = 1 => b[k] = Text[L]
               /\ k # 1 => k - 1 \in 1 .. n /\ b[k] = Round[k - 1]
               /\ b[k] \in Token
    <3>1. b[k] = draft.tokens[Accepted[k]]
      BY <2>3
    <3>2. CASE k = 1
      <4>1. b[k] = Text[L]
        BY <1>3, <3>1, <3>2, AcceptedRows
      <4>2. L \in 1 .. Len(Text)
        BY <1>1 DEF L
      <4>3. Text[L] \in Token
        BY <1>1, <4>2, ElementOfSeq
      <4>4. QED
        BY <3>2, <4>1, <4>3
    <3>3. CASE k # 1
      <4>1. k - 1 \in 1 .. n - 1 /\ k - 1 \in 1 .. n /\ (k - 1) + 1 = k
        BY <1>2, <3>3
      <4>2. Sampled(Accepted[k - 1]) = draft.tokens[Accepted[(k - 1) + 1]]
        BY <1>2, <4>1, AcceptedRows
      <4>3. QED
        BY <1>2, <3>1, <3>3, <4>1, <4>2
    <3>4. QED
      BY <3>2, <3>3
  <2>5. b \in Seq(Token) /\ Len(b) = i
    <3>1. \A k \in 1 .. i : draft.tokens[Accepted[k]] \in Token
      <4>1. \A k \in 1 .. i : b[k] = draft.tokens[Accepted[k]]
        BY <2>3
      <4>2. QED
        BY <2>4, <4>1
    <3>2. b \in [1 .. i -> Token]
      BY <2>3, <3>1
    <3> HIDE DEF b
    <3>3. QED
      BY <3>2, FunctionSeq
  <2>6. w \in Seq(Token) /\ Len(w) = i - 1 /\ \A k \in 1 .. i - 1 : w[k] = Round[k]
    <3>1. i - 1 \in 0 .. Len(Round)
      BY <1>2 DEF n
    <3>2. QED
      BY <1>2, <3>1, Prefix
  <2> HIDE DEF b, w
  <2>7. /\ front \o b \in Seq(Token) /\ Len(front \o b) = (L - 1) + i
        /\ Text \o w \in Seq(Token) /\ Len(Text \o w) = L + (i - 1)
    BY <1>1, <1>4, <2>5, <2>6, ConcatProperties DEF L
  <2>8. ASSUME NEW x \in 1 .. (L - 1) + i
        PROVE  (front \o b)[x] = (Text \o w)[x]
    <3>1. x \in 1 .. Len(front) + Len(b) /\ x \in 1 .. Len(Text) + Len(w)
      BY <1>1, <1>4, <2>5, <2>6 DEF L
    <3>2. (front \o b)[x] = IF x <= L - 1 THEN front[x] ELSE b[x - (L - 1)]
      BY <1>4, <2>5, <3>1, ConcatProperties
    <3>3. (Text \o w)[x] = IF x <= L THEN Text[x] ELSE w[x - L]
      BY <1>1, <2>6, <3>1, ConcatProperties DEF L
    <3>4. CASE x <= L - 1
      <4>1. x \in 1 .. L - 1 /\ x <= L
        BY <1>1, <3>4
      <4>2. QED
        BY <1>4, <3>2, <3>3, <4>1
    <3>5. CASE x = L
      <4>1. ~(x <= L - 1) /\ x - (L - 1) = 1 /\ x <= L /\ 1 \in 1 .. i
        BY <1>1, <3>5
      <4>2. QED
        BY <2>4, <3>2, <3>3, <3>5, <4>1
    <3>6. CASE x > L
      <4> DEFINE k == x - (L - 1)
      <4>1. /\ ~(x <= L - 1) /\ ~(x <= L) /\ k \in 1 .. i /\ k # 1
            /\ k - 1 = x - L /\ k - 1 \in 1 .. i - 1
        BY <1>1, <3>6
      <4> HIDE DEF k
      <4>2. b[k] = Round[k - 1] /\ w[k - 1] = Round[k - 1]
        BY <2>4, <2>6, <4>1
      <4>3. QED
        BY <3>2, <3>3, <4>1, <4>2 DEF k
    <3>7. x <= L - 1 \/ x = L \/ x > L
      BY <1>1
    <3>8. QED
      BY <3>4, <3>5, <3>6, <3>7
  <2>9. front \o b = Text \o w
    <3>1. Len(front \o b) = Len(Text \o w)
      BY <1>1, <2>7
    <3>2. QED
      BY <2>7, <2>8, <3>1, SeqEqual
  <2>10. QED
    BY <2>2, <2>9 DEF b, w
<1>6. ASSUME NEW i \in 1 .. n
      PROVE  Round[i] = Predict(Text \o SubSeq(Round, 1, i - 1))
  <2>1. Len(rows) - Len(draft.tokens) + Accepted[i] = L - 1 + Accepted[i]
    <3>1. Accepted[i] \in 1 .. T
      BY <1>2, AcceptedFits DEF T
    <3> DEFINE a == Accepted[i]
    <3>2. a \in Int
      BY <1>3, <3>1
    <3> HIDE DEF a
    <3>3. Len(rows) - T + a = L - 1 + a
      BY <1>1, <1>3, <3>2
    <3>4. QED
      BY <3>3 DEF a, T
  <2>2. Sampled(Accepted[i]) = Predict(rows[L - 1 + Accepted[i]].ctx)
    BY <2>1 DEF Sampled
  <2>3. QED
    BY <1>2, <1>5, <2>2
<1>7. QED
  BY <1>5, <1>6 DEF L, n

(* The first token answers the rows of the prompt.                         *)
LEMMA RespondHeard ==
  ASSUME PredictsTokens, "reuse" \notin Situations, Fits, Fits', Heard,
         NEW ids \in Prompts, NEW max \in Nat, NEW reuse \in BOOLEAN,
         Respond(ids, max, reuse)
  PROVE  /\ Heard' /\ prompt' = ids /\ Len(said') = 1
         /\ Len(rows') = Len(ids) /\ \A i \in 1 .. Len(ids) : rows'[i].pos = i - 1
         /\ allSeqLen' = Len(ids)
         /\ Kept(rows', meta') = rows'
<1> USE EagleAssumption DEF EagleAssumption
<1> DEFINE plan == IF reuse THEN meta ELSE [meta EXCEPT !.remove = meta.previous]
           before == Kept(rows, plan)
           last == SubSeq(ids, ((Len(ids) - 1) \div Block) * Block + 1, Len(ids))
           at == IF reuse THEN allSeqLen ELSE 0
           sampled == Predict(TokensOf(rows'))
           n == Len(ids)
<1>1. /\ rows' = before \o CausalRows(before, ids, at)
      /\ meta' = Synced(plan, n)
      /\ allSeqLen' = at + n
      /\ said' = <<sampled>> /\ printed' = <<sampled>>
      /\ input' = Tail(last) \o <<sampled>>
      /\ prompt' = (IF reuse THEN Text ELSE <<>>) \o ids
      /\ pc' = "draft"
      /\ reuse => rows = <<>>
  BY DEF Respond
<1>2. ids \in Seq(Token) /\ ids # <<>> /\ n \in Nat \ {0}
  <2>1. ids \in Seq(Token) /\ ids # <<>>
    OBVIOUS
  <2>2. QED
    BY <2>1, EmptySeq
<1>3. meta \in [previous : Nat, remove : Nat, spans : Seq(Nat)]
  BY DEF Fits, RowsFit, Planned
<1>4. /\ plan.previous = plan.remove /\ at = 0 /\ prompt' = ids
      /\ plan.spans = meta.spans
  <2>1. CASE reuse
    <3>1. prompt = <<>> /\ said = <<>> /\ allSeqLen = 0 /\ meta = NoMeta
      BY <1>1, <2>1 DEF Heard
    <3>2. prompt' = (<<>> \o <<>>) \o ids
      BY <1>1, <2>1, <3>1 DEF Text
    <3>3. (<<>> \o <<>>) \o ids = ids
      <4>1. <<>> \o <<>> = <<>>
        OBVIOUS
      <4>2. <<>> \o ids = ids
        BY <1>2, ConcatEmptySeq
      <4>3. QED
        BY <4>1, <4>2
    <3>4. QED
      BY <2>1, <3>1, <3>2, <3>3 DEF NoMeta
  <2>2. CASE ~reuse
    <3>1. plan = [meta EXCEPT !.remove = meta.previous] /\ at = 0
      BY <2>2
    <3>2. plan.previous = plan.remove /\ plan.spans = meta.spans
      BY <1>3, <3>1
    <3>3. prompt' = <<>> \o ids
      BY <1>1, <2>2
    <3>4. <<>> \o ids = ids
      BY <1>2, ConcatEmptySeq
    <3>5. QED
      BY <3>1, <3>2, <3>3, <3>4
  <2>3. QED
    BY <2>1, <2>2
<1> HIDE DEF plan, at, sampled
<1>5. before = <<>>
  BY <1>4 DEF Kept
<1> HIDE DEF before
<1> DEFINE new == CausalRows(<<>>, ids, 0)
<1>6. PICK none \in Seq(Row) : none = <<>> /\ TokensOf(none) = <<>>
  <2>1. <<>> \in Seq(Row) /\ TokensOf(<<>>) = <<>>
    BY DEF TokensOf
  <2>2. QED
    BY <2>1
<1>7. PICK zero \in Nat : zero = 0
  OBVIOUS
<1> DEFINE more == CausalRows(none, ids, zero)
<1>7a. /\ more \in Seq(Row) /\ Len(more) = n
       /\ \A i \in 1 .. n :
            more[i] = [ctx |-> TokensOf(none) \o SubSeq(ids, 1, i), pos |-> zero + i - 1]
  BY <1>2, CausalRowsFit
<1>7b. new = more
  BY <1>6, <1>7
<1> HIDE DEF more
<1>7c. new \in Seq(Row) /\ Len(new) = n
  <2> HIDE DEF new
  <2>1. QED
    BY <1>7a, <1>7b
<1>8. ASSUME NEW i \in 1 .. n
      PROVE  new[i].ctx = SubSeq(ids, 1, i) /\ new[i].pos = i - 1
  <2>1. SubSeq(ids, 1, i) \in Seq(Token)
    <3>1. i \in 0 .. Len(ids)
      BY <1>2
    <3>2. QED
      BY <1>2, <3>1, Prefix
  <2>2. <<>> \o SubSeq(ids, 1, i) = SubSeq(ids, 1, i)
    BY <2>1, ConcatEmptySeq
  <2>3. more[i] = [ctx |-> TokensOf(none) \o SubSeq(ids, 1, i), pos |-> zero + i - 1]
    BY <1>7a
  <2>4. more[i].ctx = TokensOf(none) \o SubSeq(ids, 1, i) /\ more[i].pos = zero + i - 1
    BY <2>3
  <2>5. zero + i - 1 = i - 1
    BY <1>7
  <2> HIDE DEF new
  <2>6. QED
    BY <1>6, <1>7b, <2>2, <2>4, <2>5
<1> HIDE DEF new
<1>9. rows' = new
  <2>1. rows' = <<>> \o new
    BY <1>1, <1>4, <1>5 DEF new
  <2>2. <<>> \o new = new
    BY <1>7c, ConcatEmptySeq
  <2>3. QED
    BY <2>1, <2>2
<1>10. sampled \in Token
  <2>1. TokensOf(new) \in Seq(Token)
    BY <1>7c, TokensOfRows
  <2>2. QED
    BY <1>9, <2>1 DEF PredictsTokens, sampled
<1> HIDE DEF n
<1>11. /\ Text' = ids \o <<sampled>> /\ Text' \in Seq(Token) /\ Len(Text') = n + 1
       /\ Text'[n + 1] = sampled
       /\ \A i \in 1 .. n : SubSeq(Text', 1, i) = SubSeq(ids, 1, i)
       /\ SubSeq(Text', 1, n) = ids
  <2>1. Text' = ids \o <<sampled>>
    BY <1>1, <1>4 DEF Text
  <2>2. <<sampled>> \in Seq(Token) /\ Len(<<sampled>>) = 1 /\ <<sampled>>[1] = sampled
    BY <1>10
  <2>3. ids \o <<sampled>> \in Seq(Token) /\ Len(ids \o <<sampled>>) = n + 1
    BY <1>2, <2>2, ConcatProperties DEF n
  <2>4. (ids \o <<sampled>>)[n + 1] = sampled
    <3>1. n + 1 \in 1 .. Len(ids) + 1 /\ ~(n + 1 <= Len(ids)) /\ n + 1 - Len(ids) = 1
      BY <1>2 DEF n
    <3>2. QED
      BY <1>2, <2>2, <3>1, ConcatProperties
  <2>5. \A i \in 0 .. n : SubSeq(ids \o <<sampled>>, 1, i) = SubSeq(ids, 1, i)
    BY <1>2, <2>2, PrefixOfConcat DEF n
  <2>6. SubSeq(ids, 1, n) = ids
    BY <1>2, SubSeqFull DEF n
  <2>7. QED
    BY <1>2, <2>1, <2>3, <2>4, <2>5, <2>6
<1>12. Follows(new, Text')
  <2>1. Len(Text') - 1 = n
    BY <1>2, <1>11
  <2>2. \A i \in 1 .. n : new[i].ctx = SubSeq(Text', 1, i)
    BY <1>8, <1>11
  <2>3. QED
    BY <1>7c, <2>1, <2>2 DEF Follows
<1>13. meta'.previous # meta'.remove /\ meta'.remove = 0 /\ meta'.spans = <<>>
  <2>1. meta.spans \in Seq(Nat) /\ Len(meta.spans) \in Nat
    BY <1>3, LenProperties
  <2>2. plan.previous - plan.remove = 0 /\ plan.previous \in Int
    <3>1. plan.previous \in Int
      BY <1>3 DEF plan
    <3>2. QED
      BY <1>4, <3>1
  <2>3. meta' = [previous |-> plan.previous - plan.remove + n + Len(plan.spans),
                 remove |-> 0, spans |-> <<>>]
    BY <1>1 DEF Synced, n
  <2> DEFINE c == Len(plan.spans)
  <2>4. c \in Nat
    BY <1>4, <2>1
  <2> HIDE DEF c
  <2>5. 0 + n + c # 0
    BY <1>2, <2>4 DEF n
  <2>6. QED
    BY <2>2, <2>3, <2>5 DEF c
<1>14. Kept(rows', meta') = rows'
  <2> DEFINE k == Kept(rows', meta')
  <2>1. Planned(rows', meta') /\ rows' \in Seq(Row)
    BY DEF Fits, RowsFit
  <2>2. /\ k \in Seq(Row)
        /\ Len(k) = Len(rows') - meta'.remove + Len(meta'.spans)
        /\ \A i \in 1 .. Len(rows') - meta'.remove : k[i] = rows'[i]
    BY <1>13, <2>1, KeptRows
  <2>3. Len(rows') \in Nat /\ Len(<<>>) = 0
    BY <2>1, LenProperties
  <2> HIDE DEF k
  <2>4. Len(k) = Len(rows') /\ \A i \in 1 .. Len(rows') : k[i] = rows'[i]
    BY <1>13, <2>2, <2>3
  <2>5. QED
    BY <2>1, <2>2, <2>4, SeqEqual DEF k
<1>15. sampled = Predict(ids)
  <2>1. Text' # <<>>
    BY <1>2, <1>11 DEF n
  <2>2. TokensOf(new) = SubSeq(Text', 1, Len(Text') - 1)
    BY <1>7c, <1>11, <1>12, <2>1, TokensOfFollowing
  <2>3. Len(Text') - 1 = n
    BY <1>2, <1>11 DEF n
  <2>4. QED
    BY <1>9, <1>11, <2>2, <2>3 DEF sampled
<1>16. input'[Len(input')] = sampled
  <2>1. last \in Seq(Token) /\ last # <<>>
    <3> DEFINE q == (Len(ids) - 1) \div Block
    <3>1. Len(ids) - 1 \in Nat /\ Block \in Nat \ {0}
      BY <1>2 DEF n
    <3>2. q \in Nat /\ q * Block <= Len(ids) - 1 /\ q * Block \in Nat
      BY <3>1
    <3> HIDE DEF q
    <3> DEFINE b == q * Block + 1
    <3>3. b \in 1 .. Len(ids)
      BY <1>2, <3>2 DEF n
    <3>4. last = SubSeq(ids, b, Len(ids))
      BY DEF q
    <3> HIDE DEF b, last
    <3>5. \A i \in b .. Len(ids) : ids[i] \in Token
      BY <1>2, <3>3, ElementOfSeq
    <3>6. last \in Seq(Token) /\ Len(last) = Len(ids) - b + 1
      BY <1>2, <3>3, <3>4, <3>5, SubSeqProperties DEF n
    <3>7. Len(last) # 0
      BY <1>2, <3>3, <3>6 DEF n
    <3>8. last # <<>>
      BY <3>7
    <3>9. QED
      BY <3>6, <3>8 DEF last
  <2> HIDE DEF last
  <2> DEFINE w == Tail(last)
  <2>2. w \in Seq(Token) /\ Len(w) \in Nat
    BY <2>1, HeadTailProperties, LenProperties
  <2> HIDE DEF w
  <2>3. <<sampled>> \in Seq(Token) /\ Len(<<sampled>>) = 1 /\ <<sampled>>[1] = sampled
    BY <1>10
  <2>4. Len(w \o <<sampled>>) = Len(w) + 1
    BY <2>2, <2>3, ConcatProperties
  <2>5. (w \o <<sampled>>)[Len(w) + 1] = sampled
    <3>1. Len(w) + 1 \in 1 .. Len(w) + 1 /\ ~(Len(w) + 1 <= Len(w)) /\ Len(w) + 1 - Len(w) = 1
      BY <2>2
    <3>2. QED
      BY <2>2, <2>3, <3>1, ConcatProperties
  <2>6. QED
    BY <1>1, <2>4, <2>5 DEF w
<1>17. PrintedIsGreedy'
  <2>1. Len(<<sampled>>) = 1 /\ DOMAIN <<sampled>> = 1 .. 1 /\ <<sampled>>[1] = sampled
    OBVIOUS
  <2>2. ASSUME NEW i \in DOMAIN said'
        PROVE  said'[i] = Predict(prompt' \o SubSeq(said', 1, i - 1))
    <3>1. i = 1
      BY <1>1, <2>1
    <3>2. SubSeq(said', 1, 0) = <<>>
      BY SubSeqEmpty
    <3>3. ids \o <<>> = ids
      BY <1>2, ConcatEmptySeq
    <3>4. i - 1 = 0 /\ said'[i] = sampled
      BY <1>1, <2>1, <3>1
    <3>5. prompt' \o SubSeq(said', 1, i - 1) = ids
      BY <1>4, <3>2, <3>3, <3>4
    <3>6. QED
      BY <1>15, <3>4, <3>5
  <2>3. printed' = SubSeq(said', 1, Len(printed'))
    <3>1. <<sampled>> \in Seq(Token)
      BY <1>10
    <3>2. SubSeq(<<sampled>>, 1, Len(<<sampled>>)) = <<sampled>>
      BY <3>1, SubSeqFull
    <3>3. QED
      BY <1>1, <3>2
  <2>4. QED
    BY <2>2, <2>3 DEF PrintedIsGreedy
<1>18. Heard'
  <2>1. rows' # <<>>
    BY <1>2, <1>7c, <1>9 DEF n
  <2>2. said' # <<>> /\ printed' = said' /\ prompt' # <<>>
    BY <1>1, <1>2, <1>4
  <2>3. Follows(Kept(rows', meta'), Text')
    BY <1>9, <1>12, <1>14
  <2>4. input'[Len(input')] = Text'[Len(Text')]
    BY <1>11, <1>16
  <2>5. QED
    BY <1>1, <1>17, <2>1, <2>2, <2>3, <2>4 DEF Heard
<1>19. Len(said') = 1
  BY <1>1
<1>20. Len(rows') = Len(ids) /\ \A i \in 1 .. Len(ids) : rows'[i].pos = i - 1
  BY <1>7c, <1>8, <1>9 DEF n
<1>21. allSeqLen' = Len(ids)
  BY <1>1, <1>2, <1>4 DEF n
<1>22. QED
  BY <1>4, <1>14, <1>18, <1>19, <1>20, <1>21

(* While the tree is drafted neither the text nor the history changes.     *)
LEMMA DraftingHeard ==
  ASSUME Heard, pc \in {"draft", "grow"}, pc' \in {"grow", "finalize"},
         UNCHANGED << base, result, input, spoken >>
  PROVE  Heard'
<1> USE DEF base, result, spoken
<1>1. /\ pc # "idle" /\ rows # <<>> /\ prompt # <<>> /\ said # <<>> /\ printed = said
      /\ Follows(Kept(rows, meta), Text) /\ input[Len(input)] = Text[Len(Text)]
      /\ PrintedIsGreedy
  BY DEF Heard
<1>2. /\ rows' # <<>> /\ prompt' # <<>> /\ said' # <<>> /\ printed' = said'
      /\ input'[Len(input')] = Text'[Len(Text')]
  BY <1>1 DEF Text
<1>3. Follows(Kept(rows', meta'), Text')
  BY <1>1 DEF Text
<1>4. PrintedIsGreedy'
  BY <1>1 DEF PrintedIsGreedy
<1>5. pc' # "verify" /\ pc' # "tree" /\ pc' # "idle"
  OBVIOUS
<1>6. QED
  BY <1>2, <1>3, <1>4, <1>5 DEF Heard

(* The tree starts with the last token of the text.                        *)
LEMMA FinalizeHeard ==
  ASSUME Fits, Heard, Finalize
  PROVE  Heard'
<1>1. /\ pc = "finalize" /\ pc' = "tree"
      /\ UNCHANGED << base, result, input, spoken >>
  BY DEF Finalize
<1> USE DEF base, result, spoken
<1>2. /\ rows # <<>> /\ prompt # <<>> /\ said # <<>> /\ printed = said
      /\ Follows(Kept(rows, meta), Text) /\ input[Len(input)] = Text[Len(Text)]
      /\ PrintedIsGreedy
  BY <1>1 DEF Heard
<1>3. draft'.tokens[1] = Text'[Len(Text')]
  BY <1>1, <1>2, FinalizeFits DEF Text
<1>4. Follows(Kept(rows', meta'), Text')
  BY <1>1, <1>2 DEF Text
<1>5. PrintedIsGreedy'
  BY <1>1, <1>2 DEF PrintedIsGreedy
<1>6. QED
  BY <1>1, <1>2, <1>3, <1>4, <1>5 DEF Heard

(* The rows of the tree are computed from the text before them.            *)
LEMMA DecodeTreeHeard ==
  ASSUME Fits, Heard, DecodeTree
  PROVE  Heard'
<1> DEFINE before == Kept(rows, meta)
           more == TreeRows(before)
           L == Len(Text)
           T == Len(draft.tokens)
<1>1. /\ pc = "tree" /\ pc' = "verify"
      /\ rows' = before \o more
      /\ UNCHANGED << result, input, draft, spoken >>
  BY DEF DecodeTree
<1>2. rows \in Seq(Row) /\ Planned(rows, meta) /\ GoodDraft(draft) /\ pastLen \in Nat
  BY <1>1 DEF Fits, RowsFit, TreeFits, DraftsFit
<1>3. /\ prompt # <<>> /\ said # <<>> /\ printed = said
      /\ Follows(before, Text) /\ draft.tokens[1] = Text[L]
      /\ PrintedIsGreedy
  BY <1>1 DEF Heard
<1>4. before \in Seq(Row) /\ Len(before) \in Nat
  BY <1>2, KeptRows, LenProperties
<1> HIDE DEF before, more
<1>5. Text \in Seq(Token) /\ L \in Nat \ {0} /\ Text # <<>>
  <2>1. prompt \in Seq(Token) /\ said \in Seq(Token)
    BY DEF Fits, TextFits
  <2>2. Text \in Seq(Token) /\ L = Len(prompt) + Len(said)
    BY <2>1, ConcatProperties DEF Text
  <2>3. Len(prompt) \in Nat \ {0} /\ Len(said) \in Nat
    BY <1>3, <2>1, EmptySeq, LenProperties
  <2>4. L \in Nat \ {0}
    BY <2>2, <2>3
  <2>5. QED
    BY <2>2, <2>4, EmptySeq
<1>6. /\ Len(before) = L - 1
      /\ \A i \in 1 .. L - 1 : before[i].ctx = SubSeq(Text, 1, i)
      /\ TokensOf(before) = SubSeq(Text, 1, L - 1)
  BY <1>3, <1>4, <1>5, TokensOfFollowing DEF Follows
<1>7. /\ more \in Seq(Row) /\ Len(more) = T /\ T \in Nat \ {0}
      /\ \A i \in 1 .. T :
           more[i] = [ctx |-> TokensOf(before) \o Branch(draft, i),
                      pos |-> pastLen + draft.positions[i]]
  BY <1>2, <1>4, TreeRowsFit DEF more
<1> HIDE DEF L, T
<1>8. Len(rows') = L - 1 + T
  BY <1>1, <1>4, <1>6, <1>7, ConcatProperties
<1>9. ASSUME NEW i \in 1 .. L - 1
      PROVE  rows'[i].ctx = SubSeq(Text, 1, i)
  <2>1. i \in 1 .. Len(before) + Len(more) /\ i <= Len(before)
    BY <1>5, <1>6, <1>7
  <2>2. rows'[i] = before[i]
    BY <1>1, <1>4, <1>7, <2>1, ConcatProperties
  <2>3. QED
    BY <1>6, <2>2
<1>10. ASSUME NEW i \in 1 .. T
       PROVE  rows'[L - 1 + i].ctx = SubSeq(Text, 1, L - 1) \o Branch(draft, i)
  <2>1. /\ L - 1 + i \in 1 .. Len(before) + Len(more) /\ ~(L - 1 + i <= Len(before))
        /\ (L - 1 + i) - Len(before) = i
    BY <1>5, <1>6, <1>7
  <2>2. rows'[L - 1 + i] = more[i]
    BY <1>1, <1>4, <1>7, <2>1, ConcatProperties
  <2>3. more[i] = [ctx |-> TokensOf(before) \o Branch(draft, i),
                   pos |-> pastLen + draft.positions[i]]
    BY <1>7
  <2>4. more[i].ctx = TokensOf(before) \o Branch(draft, i)
    BY <2>3
  <2>5. QED
    BY <1>6, <2>2, <2>4
<1>11. Text' = Text /\ draft' = draft /\ said' = said /\ prompt' = prompt /\ printed' = printed
  BY <1>1 DEF Text, result, spoken
<1>12. Verifying'
  <2>1. Len(rows') = Len(Text') - 1 + Len(draft'.tokens)
    BY <1>8, <1>11 DEF L, T
  <2>2. \A i \in 1 .. Len(Text') - 1 : rows'[i].ctx = SubSeq(Text', 1, i)
    BY <1>9, <1>11 DEF L
  <2>3. ASSUME NEW i \in 1 .. Len(draft'.tokens)
        PROVE  rows'[Len(Text') - 1 + i].ctx = SubSeq(Text', 1, Len(Text') - 1) \o Branch(draft', i)
    BY <1>10, <1>11 DEF L, T
  <2>4. QED
    BY <2>1, <2>2, <2>3 DEF Verifying
<1>13. rows' # <<>>
  <2>1. Len(rows') # 0
    BY <1>5, <1>7, <1>8
  <2>2. QED
    BY <2>1
<1>14. PrintedIsGreedy'
  BY <1>3, <1>11 DEF PrintedIsGreedy
<1>15. QED
  BY <1>1, <1>3, <1>11, <1>12, <1>13, <1>14 DEF Heard, L

(* A response that ends early leaves the text as it is.                    *)
LEMMA EndEarlyHeard ==
  ASSUME Heard, NEW why \in {"TIMEOUT", "INTERNAL_ERROR"}, EndEarly(why)
  PROVE  Heard'
<1>1. /\ pc = "tree" /\ pc' = "idle"
      /\ UNCHANGED << base, result, spoken >>
  BY DEF EndEarly
<1>2. rows' # <<>>
  BY <1>1 DEF Heard, base
<1>3. PrintedIsGreedy'
  BY <1>1 DEF Heard, PrintedIsGreedy, result, spoken
<1>4. QED
  BY <1>1, <1>2, <1>3 DEF Heard

(* What is printed of a round is its beginning, all of it without a stop.  *)
LEMMA PrintedBegins ==
  ASSUME NEW tokens \in Seq(Token)
  PROVE  \E m \in 0 .. Len(tokens) :
           /\ Printed(tokens) = SubSeq(tokens, 1, m)
           /\ (\A i \in DOMAIN tokens : ~IsStop(tokens[i])) => Printed(tokens) = tokens
<1> DEFINE L == Len(tokens)
           ok == { i \in Nat : ~IsStop(tokens[i]) }
           good(n) == /\ \A i \in 1 .. n : ~IsStop(tokens[i])
                      /\ n < L => IsStop(tokens[n + 1])
           m == CHOOSE n \in 0 .. L : good(n)
<1>1. L \in Nat /\ DOMAIN tokens = 1 .. L
  BY LenProperties
<1>2. Printed(tokens) = SubSeq(tokens, 1, m)
  BY DEF Printed
<1> HIDE DEF L
<1>3. PICK n \in 0 .. L : (\A i \in 1 .. n : i \in ok) /\ (n < L => n + 1 \notin ok)
  <2> HIDE DEF ok
  <2>1. QED
    BY <1>1, LongestRun
<1>4. good(n)
  BY <1>1, <1>3
<1> HIDE DEF good
<1>5. m \in 0 .. L /\ good(m)
  BY <1>3, <1>4
<1> HIDE DEF m
<1>6. ASSUME \A i \in DOMAIN tokens : ~IsStop(tokens[i])
      PROVE  Printed(tokens) = tokens
  <2>1. ~(m < L)
    <3>1. m < L => IsStop(tokens[m + 1])
      BY <1>5 DEF good
    <3>2. m < L => m + 1 \in DOMAIN tokens
      BY <1>1, <1>5
    <3>3. QED
      BY <1>6, <3>1, <3>2
  <2>2. m = L
    BY <1>1, <1>5, <2>1
  <2>3. QED
    BY <1>2, <2>2, SubSeqFull DEF L
<1>7. QED
  BY <1>2, <1>5, <1>6 DEF L

(* A round is appended to the text.                                        *)
LEMMA RoundSaid ==
  ASSUME PredictsTokens, Fits, Heard, Verify
  PROVE  /\ said' = said \o Round /\ prompt' = prompt
         /\ said \in Seq(Token) /\ prompt \in Seq(Token) /\ Round \in Seq(Token)
         /\ Text' = Text \o Round /\ Text \in Seq(Token)
         /\ Len(said) \in Nat \ {0} /\ Len(prompt) \in Nat \ {0} /\ Len(Round) \in Nat \ {0}
         /\ Len(Text) = Len(prompt) + Len(said) /\ Len(Text') = Len(Text) + Len(Round)
         /\ printed' = said \o Printed(Round)
         /\ rows # <<>> /\ rows' = rows
<1>1. pc = "verify" /\ said' = said \o Round /\ prompt' = prompt
      /\ printed' = printed \o Printed(Round)
  BY DEF Verify, Round
<1>2. rows' = rows
  BY DEF Verify, base
<1>3. prompt # <<>> /\ said # <<>> /\ printed = said /\ rows # <<>>
  BY <1>1 DEF Heard
<1>4. said \in Seq(Token) /\ prompt \in Seq(Token)
  BY DEF Fits, TextFits
<1>5. Round \in Seq(Token) /\ Len(Round) \in Nat \ {0}
  BY <1>1, RoundFits
<1>6. Len(said) \in Nat \ {0} /\ Len(prompt) \in Nat \ {0}
  BY <1>3, <1>4, EmptySeq
<1>7. Text \in Seq(Token) /\ Len(Text) = Len(prompt) + Len(said)
  BY <1>4, ConcatProperties DEF Text
<1>8. Text' = Text \o Round
  <2>1. prompt \o (said \o Round) = (prompt \o said) \o Round
    BY <1>4, <1>5, ConcatAssociative
  <2>2. QED
    BY <1>1, <2>1 DEF Text
<1>9. Len(Text') = Len(Text) + Len(Round)
  BY <1>5, <1>7, <1>8, ConcatProperties
<1>10. printed' = said \o Printed(Round)
  BY <1>1, <1>3
<1>11. QED
  BY <1>1, <1>2, <1>3, <1>4, <1>5, <1>6, <1>7, <1>8, <1>9, <1>10

(* Every token of the longer text is what the model predicts after those   *)
(* before it.                                                              *)
LEMMA VerifyIsGreedy ==
  ASSUME PredictsTokens, Fits, Heard, Verify
  PROVE  PrintedIsGreedy'
<1> DEFINE S == Len(said)
           n == Len(Round)
<1>1. /\ said' = said \o Round /\ prompt' = prompt
      /\ said \in Seq(Token) /\ prompt \in Seq(Token) /\ Round \in Seq(Token)
      /\ S \in Nat /\ n \in Nat
      /\ printed' = said \o Printed(Round)
  BY RoundSaid
<1>2. \A i \in 1 .. n : Round[i] = Predict(Text \o SubSeq(Round, 1, i - 1))
  BY RoundIsGreedy DEF Verify
<1>3. \A i \in DOMAIN said : said[i] = Predict(prompt \o SubSeq(said, 1, i - 1))
  BY DEF Heard, PrintedIsGreedy
<1>4. DOMAIN said = 1 .. S /\ DOMAIN said' = 1 .. S + n
  <2>1. said' \in Seq(Token) /\ Len(said') = S + n
    BY <1>1, ConcatProperties
  <2>2. QED
    BY <1>1, <2>1, LenProperties
<1> HIDE DEF S, n
<1>5. ASSUME NEW i \in 1 .. S + n
      PROVE  said'[i] = Predict(prompt' \o SubSeq(said', 1, i - 1))
  <2>1. CASE i <= S
    <3>1. i \in 1 .. S /\ i - 1 \in 0 .. S /\ i \in 1 .. Len(said) + Len(Round) /\ i <= Len(said)
      BY <1>1, <2>1 DEF S, n
    <3>2. said'[i] = said[i]
      BY <1>1, <3>1, ConcatProperties
    <3>3. SubSeq(said', 1, i - 1) = SubSeq(said, 1, i - 1)
      BY <1>1, <3>1, PrefixOfConcat DEF S
    <3>4. QED
      BY <1>1, <1>3, <1>4, <3>1, <3>2, <3>3
  <2>2. CASE ~(i <= S)
    <3> DEFINE j == i - S
    <3>1. j \in 1 .. n /\ j - 1 \in 0 .. n /\ i - 1 = S + (j - 1)
          /\ i \in 1 .. Len(said) + Len(Round) /\ ~(i <= Len(said)) /\ j = i - Len(said)
      BY <1>1, <2>2 DEF S, n
    <3> HIDE DEF j
    <3>2. said'[i] = Round[j]
      BY <1>1, <3>1, ConcatProperties
    <3> DEFINE w == SubSeq(Round, 1, j - 1)
    <3>3. w \in Seq(Token)
      BY <1>1, <3>1, Prefix DEF n
    <3>4. SubSeq(said', 1, i - 1) = said \o w
      BY <1>1, <3>1, PrefixPastConcat DEF S, n
    <3>5. Round[j] = Predict(Text \o w)
      BY <1>2, <3>1
    <3> HIDE DEF w
    <3>6. prompt \o (said \o w) = Text \o w
      <4>1. prompt \in Seq(Token) /\ said \in Seq(Token)
        BY <1>1
      <4>2. prompt \o (said \o w) = (prompt \o said) \o w
        BY <3>3, <4>1, ConcatAssociative
      <4>3. QED
        BY <4>2 DEF Text
    <3>7. QED
      BY <1>1, <3>2, <3>4, <3>5, <3>6
  <2>3. QED
    BY <2>1, <2>2
<1>6. printed' = SubSeq(said', 1, Len(printed'))
  <2>1. PICK m \in 0 .. Len(Round) : Printed(Round) = SubSeq(Round, 1, m)
    BY <1>1, PrintedBegins
  <2> DEFINE w == SubSeq(Round, 1, m)
  <2>2. w \in Seq(Token) /\ Len(w) = m
    BY <1>1, Prefix
  <2>3. SubSeq(said', 1, S + m) = said \o w
    BY <1>1, PrefixPastConcat DEF S
  <2> HIDE DEF w
  <2>4. Len(said \o w) = S + m
    BY <1>1, <2>2, ConcatProperties DEF S
  <2>5. QED
    BY <1>1, <2>1, <2>3, <2>4 DEF w
<1>7. QED
  BY <1>4, <1>5, <1>6 DEF PrintedIsGreedy

(* The rows of the accepted path follow the text that they made longer.    *)
LEMMA KeptFollows ==
  ASSUME PredictsTokens, Fits, Fits', Heard, Verify, pc' = "draft"
  PROVE  /\ Follows(Kept(rows', meta'), Text')
         /\ \A i \in 1 .. Len(Text) - 1 : Kept(rows', meta')[i] = rows[i]
         /\ \A k \in 1 .. Len(Round) :
              Kept(rows', meta')[Len(Text) - 1 + k] = rows[Len(Text) - 1 + Accepted[k]]
<1> DEFINE L == Len(Text)
           T == Len(draft.tokens)
           n == Len(Round)
           w == Kept(rows', meta')
           sp == Spans(Accepted)
<1>1. pc = "verify" /\ meta' = [meta EXCEPT !.remove = T, !.spans = sp]
  BY DEF Verify
<1>2. /\ Len(rows) = L - 1 + T
      /\ \A i \in 1 .. L - 1 : rows[i].ctx = SubSeq(Text, 1, i)
      /\ rows \in Seq(Row) /\ T \in Nat /\ Planned(rows, meta)
  BY <1>1, LenProperties DEF Heard, Verifying, Fits, TreeFits, RowsFit, GoodDraft
<1>3. /\ Text \in Seq(Token) /\ Round \in Seq(Token) /\ Text' = Text \o Round
      /\ L \in Nat /\ n \in Nat \ {0} /\ L > 1 /\ Len(Text') = L + n /\ rows' = rows
  <2>1. /\ Text \in Seq(Token) /\ Round \in Seq(Token) /\ Text' = Text \o Round
        /\ n \in Nat \ {0} /\ Len(Text') = L + n /\ rows' = rows
        /\ Len(said) \in Nat \ {0} /\ Len(prompt) \in Nat \ {0} /\ L = Len(prompt) + Len(said)
    BY RoundSaid
  <2>2. L \in Nat /\ L > 1
    BY <2>1
  <2>3. QED
    BY <2>1, <2>2
<1>4. /\ n = Len(Accepted) /\ DOMAIN Accepted = 1 .. n
      /\ \A k \in 1 .. n : Accepted[k] \in 1 .. T
  <2>1. n = Len(Accepted)
    BY <1>1, RoundFits
  <2>2. DOMAIN Accepted = 1 .. Len(Accepted) /\ \A k \in 1 .. Len(Accepted) : Accepted[k] \in 1 .. T
    BY <1>1, AcceptedFits
  <2> HIDE DEF n, T
  <2>3. QED
    BY <2>1, <2>2
<1>5. \A k \in 1 .. n : rows[L - 1 + Accepted[k]].ctx = Text \o SubSeq(Round, 1, k - 1)
  BY <1>1, RoundIsGreedy
<1> HIDE DEF L, T, n
<1>6. /\ sp = [k \in 1 .. n |-> Accepted[k] - 1]
      /\ \A k \in 1 .. n : Accepted[k] - 1 \in Nat
  BY <1>2, <1>4 DEF Spans
<1> HIDE DEF sp
<1>7. sp \in [1 .. n -> Nat] /\ \A k \in 1 .. n : sp[k] = Accepted[k] - 1
  BY <1>6
<1>8. sp \in Seq(Nat) /\ Len(sp) = n
  BY <1>3, <1>7, FunctionSeq
<1>9. meta'.remove = T /\ meta'.spans = sp /\ meta'.previous = meta.previous
      /\ meta.previous \in Nat /\ Len(rows) <= meta.previous
  <2>1. meta \in [previous : Nat, remove : Nat, spans : Seq(Nat)] /\ Len(rows) <= meta.previous
    BY <1>2 DEF Planned
  <2>2. QED
    BY <1>1, <2>1
<1>10. meta'.previous # meta'.remove
  BY <1>2, <1>3, <1>9
<1>11. /\ w \in Seq(Row)
       /\ Len(w) = Len(rows) - T + n
       /\ \A i \in 1 .. Len(rows) - T : w[i] = rows[i]
       /\ \A k \in 1 .. n : w[Len(rows) - T + k] = rows[Len(rows) - T + sp[k] + 1]
  <2>1. Planned(rows', meta') /\ rows' \in Seq(Row)
    BY DEF Fits, RowsFit
  <2>2. /\ w \in Seq(Row)
        /\ Len(w) = Len(rows') - meta'.remove + Len(meta'.spans)
        /\ \A i \in 1 .. Len(rows') - meta'.remove : w[i] = rows'[i]
        /\ \A k \in 1 .. Len(meta'.spans) :
             w[Len(rows') - meta'.remove + k] =
               rows'[Len(rows') - meta'.remove + meta'.spans[k] + 1]
    BY <1>10, <2>1, KeptRows
  <2> HIDE DEF w
  <2>3. QED
    BY <1>3, <1>8, <1>9, <2>2
<1> HIDE DEF w
<1>12. Len(rows) - T = L - 1
  BY <1>2, <1>3
<1>13. ASSUME NEW k \in 1 .. n
       PROVE  w[L - 1 + k] = rows[L - 1 + Accepted[k]]
  <2>1. sp[k] = Accepted[k] - 1 /\ Accepted[k] \in 1 .. T
    BY <1>4, <1>7
  <2> DEFINE a == Accepted[k]
  <2>2. sp[k] = a - 1 /\ a \in Int
    BY <1>2, <2>1
  <2> HIDE DEF a
  <2>3. L - 1 + sp[k] + 1 = L - 1 + a
    BY <1>3, <2>2
  <2>4. w[L - 1 + k] = rows[L - 1 + sp[k] + 1]
    BY <1>11, <1>12
  <2>5. QED
    BY <2>3, <2>4 DEF a
<1>14. Len(w) = Len(Text') - 1
  BY <1>3, <1>11, <1>12
<1>15. ASSUME NEW i \in 1 .. Len(Text') - 1
       PROVE  w[i].ctx = SubSeq(Text', 1, i)
  <2>1. CASE i <= L - 1
    <3>1. i \in 1 .. L - 1 /\ i \in 0 .. Len(Text)
      BY <1>3, <2>1 DEF L
    <3>2. SubSeq(Text', 1, i) = SubSeq(Text, 1, i)
      BY <1>3, <3>1, PrefixOfConcat
    <3>3. w[i] = rows[i]
      BY <1>11, <1>12, <3>1
    <3>4. QED
      BY <1>2, <3>1, <3>2, <3>3
  <2>2. CASE ~(i <= L - 1)
    <3> DEFINE k == i - (L - 1)
    <3>1. k \in 1 .. n /\ k - 1 \in 0 .. Len(Round) /\ i = L - 1 + k /\ i = L + (k - 1)
      BY <1>3, <2>2 DEF n
    <3> HIDE DEF k
    <3>2. SubSeq(Text', 1, i) = Text \o SubSeq(Round, 1, k - 1)
      BY <1>3, <3>1, PrefixPastConcat DEF L
    <3>3. w[i] = rows[L - 1 + Accepted[k]]
      BY <1>13, <3>1
    <3>4. QED
      BY <1>5, <3>1, <3>2, <3>3
  <2>3. QED
    BY <2>1, <2>2
<1>16. Follows(w, Text')
  BY <1>14, <1>15 DEF Follows
<1>17. QED
  BY <1>11, <1>12, <1>13, <1>16 DEF w, L, n

(* A round that goes on leaves what the next tree needs.                   *)
LEMMA VerifyHeard ==
  ASSUME PredictsTokens, Fits, Fits', Heard, Verify
  PROVE  Heard'
<1>1. PrintedIsGreedy'
  BY VerifyIsGreedy
<1>2. rows' # <<>> /\ prompt' # <<>> /\ said' # <<>>
  <2>1. /\ rows # <<>> /\ rows' = rows /\ prompt' = prompt
        /\ said' = said \o Round /\ said \in Seq(Token) /\ Round \in Seq(Token)
        /\ Len(said) \in Nat \ {0} /\ Len(Round) \in Nat \ {0} /\ Len(prompt) \in Nat \ {0}
    BY RoundSaid
  <2>2. Len(said') = Len(said) + Len(Round)
    BY <2>1, ConcatProperties
  <2>3. Len(said') # 0
    BY <2>1, <2>2
  <2>4. QED
    BY <2>1, <2>3
<1>3. CASE pc' = "idle"
  BY <1>1, <1>2, <1>3 DEF Heard
<1>4. CASE pc' = "draft"
  <2>1. Follows(Kept(rows', meta'), Text')
    BY <1>4, KeptFollows
  <2>2. /\ said' = said \o Round /\ printed' = said \o Printed(Round)
        /\ Text' = Text \o Round /\ Text \in Seq(Token) /\ Round \in Seq(Token)
        /\ Len(Round) \in Nat \ {0} /\ Len(Text') = Len(Text) + Len(Round) /\ Len(Text) \in Nat
    BY RoundSaid, LenProperties
  <2>3. input' = Round /\ \A i \in DOMAIN Round : ~IsStop(Round[i])
    BY <1>4 DEF Verify, Round
  <2>4. printed' = said'
    BY <2>2, <2>3, PrintedBegins
  <2>5. input'[Len(input')] = Text'[Len(Text')]
    <3>1. /\ Len(Text') \in 1 .. Len(Text) + Len(Round) /\ ~(Len(Text') <= Len(Text))
          /\ Len(Text') - Len(Text) = Len(Round)
      BY <2>2
    <3>2. Text'[Len(Text')] = Round[Len(Round)]
      BY <2>2, <3>1, ConcatProperties
    <3>3. QED
      BY <2>3, <3>2
  <2>6. QED
    BY <1>1, <1>2, <1>4, <2>1, <2>4, <2>5 DEF Heard
<1>5. pc' = "idle" \/ pc' = "draft"
  BY DEF Verify
<1>6. QED
  BY <1>3, <1>4, <1>5

(* What is printed is greedy at the start.                                 *)
LEMMA HeardInit == Init => Heard
<1> SUFFICES ASSUME Init PROVE Heard
  OBVIOUS
<1> USE DEF Init
<1>1. DOMAIN <<>> = {} /\ Len(<<>>) = 0 /\ SubSeq(<<>>, 1, 0) = <<>>
  BY SubSeqEmpty
<1>2. PrintedIsGreedy
  BY <1>1 DEF PrintedIsGreedy
<1>3. QED
  BY <1>2 DEF Heard

(* Every step keeps it so, when no response goes on from the rows of the   *)
(* one before.                                                             *)
LEMMA HeardNext ==
  ASSUME PredictsTokens, "reuse" \notin Situations, Fits, Fits', Heard, [Next]_vars
  PROVE  Heard'
<1> USE EagleAssumption DEF EagleAssumption
<1>1. ASSUME NEW ids \in Prompts, NEW max \in 1 .. MaxNew, NEW reuse \in BOOLEAN,
             Respond(ids, max, reuse)
      PROVE  Heard'
  BY <1>1, RespondHeard
<1>2. ASSUME NEW answer \in Answers, DraftRoot(answer)
      PROVE  Heard'
  BY <1>2, DraftingHeard DEF DraftRoot, DraftDone, base, result, spoken
<1>3. ASSUME NEW answers \in [1 .. TopK -> Answers], GrowDraft(answers)
      PROVE  Heard'
  BY <1>3, DraftingHeard DEF GrowDraft, DraftDone
<1>4. CASE Finalize
  BY <1>4, FinalizeHeard
<1>5. CASE DecodeTree
  BY <1>5, DecodeTreeHeard
<1>6. ASSUME NEW why \in {"TIMEOUT", "INTERNAL_ERROR"}, EndEarly(why)
      PROVE  Heard'
  BY <1>6, EndEarlyHeard
<1>7. CASE Verify
  BY <1>7, VerifyHeard
<1>8. CASE UNCHANGED vars
  <2> USE <1>8 DEF vars, base, result, eagle, growing, spoken
  <2>1. Text' = Text
    BY DEF Text
  <2>2. Kept(rows', meta') = Kept(rows, meta)
    OBVIOUS
  <2>3. PrintedIsGreedy' = PrintedIsGreedy
    BY DEF PrintedIsGreedy
  <2>4. Verifying' = Verifying
    BY <2>1 DEF Verifying
  <2>5. QED
    BY <2>1, <2>2, <2>3, <2>4 DEF Heard
<1>9. QED
  BY <1>1, <1>2, <1>3, <1>4, <1>5, <1>6, <1>7, <1>8 DEF Next

(* Whatever the draft model proposes, the text is the one the base model   *)
(* would have generated token by token, and what is printed begins it:     *)
(* for every prompt, chunked or not, after a response that was cut short   *)
(* or not, unless the rows of an earlier response are reused or a score of *)
(* the draft model is exactly 0.                                           *)
THEOREM EaglePrintedIsGreedy ==
  ASSUME PredictsTokens, "certain" \notin Situations, "reuse" \notin Situations
  PROVE  Spec => []PrintedIsGreedy
<1> DEFINE I == Fits /\ Heard
<1>1. Init => I
  BY FitsInit, HeardInit
<1>2. I /\ [Next]_vars => I'
  BY FitsNext, HeardNext
<1>3. I => PrintedIsGreedy
  BY DEF Heard
<1>4. QED
  BY <1>1, <1>2, <1>3, PTL DEF Spec

-----------------------------------------------------------------------------
(* The rows of both models follow the text, when callers do what the code  *)
(* survives.                                                               *)

(* The rows of the base model, counted and at the positions of the text.   *)
Placed ==
  /\ meta.previous = Len(rows)
  /\ pc # "idle" => allSeqLen = Len(Text) - 1
  /\ pc \in {"draft", "grow", "finalize", "tree"} =>
       \A i \in 1 .. Len(Text) - 1 : Kept(rows, meta)[i].pos = i - 1
  /\ pc = "verify" =>
       /\ \A i \in 1 .. Len(Text) - 1 : rows[i].pos = i - 1
       /\ \A i \in 1 .. Len(draft.tokens) :
            rows[Len(Text) - 1 + i].pos = Len(Text) - 1 + draft.positions[i]

Level == tree[actives[1]].depth

(* The rows of the draft model: those of the text but for its first token, *)
(* and behind them those of the drafts, level by level.                    *)
Drafted ==
  /\ pc # "idle" =>
       /\ pastLen = Len(Text) - 1 - (IF pc = "draft" THEN Len(input) ELSE 0)
       /\ pastLen <= Len(draftRows)
       /\ remove = IF pc = "draft" THEN Len(draftRows) - pastLen ELSE DraftRemove
       /\ \A i \in 1 .. pastLen :
            draftRows[i].token = Text[i + 1] /\ draftRows[i].pos = i - 1
  /\ pc = "draft" =>
       /\ \A i \in 1 .. Len(input) : input[i] = Text[pastLen + 1 + i]
       /\ Len(said) = 1 => pastLen = 0
  /\ pc = "grow" =>
       /\ Level \in 0 .. Depth - 2 /\ \A i \in 1 .. TopK : tree[actives[i]].depth = Level
       /\ Len(draftRows) = pastLen + TopK * Level
  /\ pc \in {"finalize", "tree", "verify"} => Len(draftRows) = pastLen + DraftRemove

(* A prompt that fits into a block is its own last block.                  *)
LEMMA FirstBlock ==
  ASSUME NEW size \in Nat \ {0}, NEW m \in 0 .. size - 1
  PROVE  (m \div size) * size + 1 = 1
<1>1. m \div size = 0
  OBVIOUS
<1>2. QED
  BY <1>1

(* The prefill leaves rows in the order of the text, in both models.       *)
LEMMA RespondPlaced ==
  ASSUME PredictsTokens, Situations = {}, Fits, Fits', Heard,
         NEW ids \in Prompts, NEW max \in Nat, NEW reuse \in BOOLEAN,
         Respond(ids, max, reuse)
  PROVE  Placed' /\ Drafted'
<1> USE EagleAssumption DEF EagleAssumption
<1> DEFINE plan == IF reuse THEN meta ELSE [meta EXCEPT !.remove = meta.previous]
           last == SubSeq(ids, ((Len(ids) - 1) \div Block) * Block + 1, Len(ids))
           n == Len(ids)
<1>1. /\ meta' = Synced(plan, n)
      /\ \E sampled : said' = <<sampled>> /\ input' = Tail(last) \o <<sampled>>
      /\ pc' = "draft" /\ pastLen' = 0 /\ remove' = Len(draftRows) /\ draftRows' = draftRows
      /\ meta.spans = <<>> /\ ~(n > Block)
      /\ reuse => rows = <<>>
  <2>1. \E sampled : said' = <<sampled>> /\ input' = Tail(last) \o <<sampled>>
    BY DEF Respond
  <2>2. /\ meta.spans # <<>> => "after_timeout" \in Situations
        /\ reuse /\ rows # <<>> => "reuse" \in Situations
        /\ n > Block => "chunked" \in Situations
    BY DEF Respond
  <2>3. /\ meta' = Synced(plan, n)
        /\ pc' = "draft" /\ pastLen' = 0 /\ remove' = Len(draftRows) /\ draftRows' = draftRows
    BY DEF Respond
  <2> HIDE DEF n
  <2>4. QED
    BY <2>1, <2>2, <2>3
<1>2. ids \in Seq(Token) /\ ids # <<>> /\ n \in Nat \ {0} /\ n <= Block
  <2>1. ids \in Seq(Token) /\ ids # <<>>
    OBVIOUS
  <2>2. n \in Nat \ {0}
    BY <2>1, EmptySeq
  <2> HIDE DEF n
  <2>3. n <= Block
    BY <1>1, <2>2
  <2>4. QED
    BY <2>1, <2>2, <2>3
<1>3. /\ prompt' = ids /\ Len(said') = 1
      /\ Len(rows') = n /\ \A i \in 1 .. n : rows'[i].pos = i - 1
      /\ allSeqLen' = n
      /\ Kept(rows', meta') = rows'
  BY RespondHeard
<1>4. meta'.previous = n
  <2>1. meta \in [previous : Nat, remove : Nat, spans : Seq(Nat)]
    BY DEF Fits, RowsFit, Planned
  <2>2. plan.previous = plan.remove /\ plan.previous \in Nat /\ plan.spans = <<>>
    <3>1. CASE reuse
      <4>1. meta = NoMeta
        BY <1>1, <3>1 DEF Heard
      <4>2. QED
        BY <3>1, <4>1 DEF NoMeta
    <3>2. CASE ~reuse
      <4>1. plan = [meta EXCEPT !.remove = meta.previous]
        BY <3>2
      <4>2. QED
        BY <1>1, <2>1, <4>1
    <3>3. QED
      BY <3>1, <3>2
  <2>3. meta'.previous = plan.previous - plan.remove + n + Len(plan.spans)
    BY <1>1 DEF Synced
  <2> HIDE DEF plan, n
  <2>4. Len(plan.spans) = 0
    BY <2>2
  <2>5. QED
    BY <1>2, <2>2, <2>3, <2>4
<1>5. PICK sampled : said' = <<sampled>> /\ input' = Tail(last) \o <<sampled>>
  BY <1>1
<1>6. last = ids
  <2>1. n - 1 \in 0 .. Block - 1
    <3> HIDE DEF n
    <3>1. QED
      BY <1>2
  <2>2. ((n - 1) \div Block) * Block + 1 = 1
    BY <2>1, FirstBlock
  <2>3. last = SubSeq(ids, 1, Len(ids))
    BY <2>2
  <2>4. QED
    BY <1>2, <2>3, SubSeqFull
<1> HIDE DEF plan, last
<1> DEFINE w == <<sampled>>
<1>7. w \in Seq(Token) /\ Len(w) = 1 /\ w[1] = sampled
  <2>1. said' \in Seq(Token)
    BY DEF Fits, TextFits
  <2>2. QED
    BY <1>5, <2>1
<1> DEFINE t == Tail(ids)
<1>8. t \in Seq(Token) /\ Len(t) = n - 1 /\ \A i \in 1 .. n - 1 : t[i] = ids[i + 1]
  BY <1>2, HeadTailProperties
<1> HIDE DEF w, t, n
<1>9. Text' = ids \o w /\ input' = t \o w
  BY <1>3, <1>5, <1>6 DEF Text, w, t
<1>10. Len(Text') = n + 1 /\ Len(input') = n
  <2>1. Len(ids \o w) = n + Len(w)
    BY <1>2, <1>7, ConcatProperties DEF n
  <2>2. Len(t \o w) = Len(t) + Len(w)
    BY <1>7, <1>8, ConcatProperties
  <2>3. Len(Text') = n + 1
    BY <1>7, <1>9, <2>1
  <2>4. Len(t) + Len(w) = n
    BY <1>2, <1>7, <1>8
  <2>5. QED
    BY <1>9, <2>2, <2>3, <2>4
<1>11. ASSUME NEW i \in 1 .. n
       PROVE  input'[i] = Text'[i + 1]
  <2>1. i \in 1 .. Len(t) + Len(w) /\ i + 1 \in 1 .. Len(ids) + Len(w)
    BY <1>2, <1>7, <1>8 DEF n
  <2>2. input'[i] = IF i <= Len(t) THEN t[i] ELSE w[i - Len(t)]
    BY <1>7, <1>8, <1>9, <2>1, ConcatProperties
  <2>3. Text'[i + 1] = IF i + 1 <= n THEN ids[i + 1] ELSE w[i + 1 - n]
    <3> DEFINE x == i + 1
    <3>1. x \in 1 .. Len(ids) + Len(w)
      BY <2>1
    <3> HIDE DEF x
    <3>2. (ids \o w)[x] = IF x <= Len(ids) THEN ids[x] ELSE w[x - Len(ids)]
      BY <1>2, <1>7, <3>1, ConcatProperties
    <3>3. QED
      BY <1>9, <3>2 DEF x, n
  <2>4. CASE i <= n - 1
    <3>1. i \in 1 .. n - 1 /\ i <= Len(t) /\ i + 1 <= n
      BY <1>2, <1>8, <2>4
    <3>2. QED
      BY <1>8, <2>2, <2>3, <3>1
  <2>5. CASE i = n
    <3>1. ~(i <= Len(t)) /\ i - Len(t) = 1 /\ ~(i + 1 <= n) /\ i + 1 - n = 1
      BY <1>2, <1>8, <2>5
    <3>2. QED
      BY <2>2, <2>3, <3>1
  <2>6. QED
    BY <1>2, <2>4, <2>5
<1>12. Placed'
  <2>1. meta'.previous = Len(rows') /\ allSeqLen' = Len(Text') - 1
    BY <1>2, <1>3, <1>4, <1>10
  <2>2. \A i \in 1 .. Len(Text') - 1 : Kept(rows', meta')[i].pos = i - 1
    BY <1>2, <1>3, <1>10
  <2>3. QED
    BY <1>1, <2>1, <2>2 DEF Placed
<1>13. Drafted'
  <2>1. pastLen' = Len(Text') - 1 - Len(input')
    BY <1>1, <1>2, <1>10
  <2>2. Len(draftRows) \in Nat
    BY LenProperties DEF Fits, DraftsFit
  <2>3. pastLen' <= Len(draftRows') /\ remove' = Len(draftRows') - pastLen'
    BY <1>1, <2>2
  <2>4. \A i \in 1 .. Len(input') : input'[i] = Text'[pastLen' + 1 + i]
    <3> SUFFICES ASSUME NEW i \in 1 .. Len(input')
                 PROVE  input'[i] = Text'[pastLen' + 1 + i]
      OBVIOUS
    <3>1. i \in 1 .. n /\ pastLen' + 1 + i = i + 1
      BY <1>1, <1>10
    <3>2. QED
      BY <1>11, <3>1
  <2>5. 1 .. pastLen' = {}
    BY <1>1
  <2>6. QED
    BY <1>1, <2>1, <2>3, <2>4, <2>5 DEF Drafted
<1>14. QED
  BY <1>12, <1>13

(* While the tree is drafted the rows of the base model stay.              *)
LEMMA DraftingPlaced ==
  ASSUME Placed, pc \in {"draft", "grow", "finalize", "tree"},
         pc' \in {"grow", "finalize", "tree"} \/ pc' = "idle",
         UNCHANGED << base, spoken >>
  PROVE  Placed'
<1> USE DEF base, spoken
<1>1. Text' = Text /\ rows' = rows /\ meta' = meta /\ allSeqLen' = allSeqLen
  BY DEF Text
<1>2. Kept(rows', meta') = Kept(rows, meta)
  BY <1>1
<1>3. /\ meta.previous = Len(rows) /\ allSeqLen = Len(Text) - 1
      /\ \A i \in 1 .. Len(Text) - 1 : Kept(rows, meta)[i].pos = i - 1
  BY DEF Placed
<1>4. QED
  BY <1>1, <1>2, <1>3 DEF Placed

(* The draft model is given the tokens that became text.                   *)
LEMMA DraftRootDrafted ==
  ASSUME Fits, Heard, Drafted, NEW answer \in Answers, DraftRoot(answer)
  PROVE  Drafted'
<1> USE EagleAssumption DEF EagleAssumption
<1> DEFINE kept == SubSeq(draftRows, 1, Len(draftRows) - remove)
           m == Len(input)
           L == Len(Text)
           row(i) == [token |-> input[i], pos |-> pastLen + i - 1]
           more == [i \in DOMAIN input |-> row(i)]
<1>1. /\ pc = "draft" /\ draftRows' = kept \o more
      /\ pastLen' = pastLen + m /\ remove' = DraftRemove
      /\ tree' = FirstNodes(answer) /\ actives' = FirstActives
      /\ pc' = IF 0 = Depth - 1 THEN "finalize" ELSE "grow"
      /\ UNCHANGED << base, result, status, input, draft, call, spoken >>
  BY DEF DraftRoot, DraftDone
<1>2. /\ draftRows \in Seq(DraftRow) /\ remove \in Nat /\ pastLen \in Nat
      /\ input \in Seq(Token) /\ m \in Nat /\ DOMAIN input = 1 .. m
      /\ \A i \in 1 .. m : input[i] \in Token
      /\ Len(draftRows) \in Nat
  <2>1. /\ draftRows \in Seq(DraftRow) /\ remove \in Nat /\ pastLen \in Nat
        /\ input \in Seq(Token)
    BY DEF Fits, DraftsFit
  <2>2. QED
    BY <2>1, LenProperties, ElementOfSeq
<1>3. L \in Nat
  BY ConcatProperties, LenProperties DEF Fits, TextFits, Text
<1>4. /\ pastLen = L - 1 - m
      /\ pastLen <= Len(draftRows) /\ remove = Len(draftRows) - pastLen
      /\ \A i \in 1 .. pastLen : draftRows[i].token = Text[i + 1] /\ draftRows[i].pos = i - 1
      /\ \A i \in 1 .. m : input[i] = Text[pastLen + 1 + i]
  BY <1>1 DEF Drafted
<1> HIDE DEF m, L
<1>5. /\ kept \in Seq(DraftRow) /\ Len(kept) = pastLen
      /\ \A i \in 1 .. pastLen : kept[i] = draftRows[i]
  <2>1. Len(draftRows) - remove = pastLen /\ pastLen \in 0 .. Len(draftRows)
    BY <1>2, <1>4
  <2>2. kept = SubSeq(draftRows, 1, pastLen)
    BY <2>1
  <2>3. QED
    BY <1>2, <2>1, <2>2, Prefix
<1>6. ASSUME NEW i \in 1 .. m
      PROVE  row(i) \in DraftRow /\ row(i).token = input[i] /\ row(i).pos = pastLen + i - 1
  <2>1. pastLen + i - 1 \in Nat /\ input[i] \in Token
    BY <1>2
  <2>2. QED
    BY <2>1 DEF DraftRow
<1>7. more = [i \in 1 .. m |-> row(i)]
  BY <1>2
<1> HIDE DEF row, kept, more
<1>8. more \in [1 .. m -> DraftRow] /\ \A i \in 1 .. m : more[i] = row(i)
  BY <1>6, <1>7
<1>9. more \in Seq(DraftRow) /\ Len(more) = m
  BY <1>2, <1>8, FunctionSeq
<1>10. Len(draftRows') = pastLen'
  BY <1>1, <1>5, <1>9, ConcatProperties
<1>11. pastLen' = L - 1
  BY <1>1, <1>2, <1>3, <1>4
<1>12. ASSUME NEW i \in 1 .. pastLen'
       PROVE  draftRows'[i].token = Text[i + 1] /\ draftRows'[i].pos = i - 1
  <2>1. i \in 1 .. Len(kept) + Len(more)
    BY <1>1, <1>5, <1>9
  <2>2. draftRows'[i] = IF i <= Len(kept) THEN kept[i] ELSE more[i - Len(kept)]
    BY <1>1, <1>5, <1>9, <2>1, ConcatProperties
  <2>3. CASE i <= pastLen
    <3>1. i \in 1 .. pastLen
      BY <1>2, <2>3
    <3>2. draftRows'[i] = draftRows[i]
      BY <1>5, <2>2, <2>3, <3>1
    <3>3. QED
      BY <1>4, <3>1, <3>2
  <2>4. CASE ~(i <= pastLen)
    <3> DEFINE j == i - pastLen
    <3>1. j \in 1 .. m /\ pastLen + j - 1 = i - 1 /\ pastLen + 1 + j = i + 1
      BY <1>1, <1>2, <2>4
    <3>2. draftRows'[i] = more[j]
      BY <1>5, <2>2, <2>4
    <3> HIDE DEF j
    <3>3. draftRows'[i] = row(j)
      BY <1>8, <3>1, <3>2
    <3>4. input[j] = Text[pastLen + 1 + j]
      BY <1>4, <3>1
    <3>5. QED
      BY <1>6, <3>1, <3>3, <3>4
  <2>5. QED
    BY <2>3, <2>4
<1>13. Text' = Text
  BY <1>1 DEF Text, spoken
<1>14. pc' # "idle" /\ pc' # "draft" /\ pc' \in {"grow", "finalize"}
  BY <1>1
<1>15. /\ pastLen' = Len(Text') - 1 - 0 /\ pastLen' <= Len(draftRows')
       /\ \A i \in 1 .. pastLen' :
            draftRows'[i].token = Text'[i + 1] /\ draftRows'[i].pos = i - 1
  <2>1. pastLen' \in Nat
    BY <1>1, <1>2
  <2>2. pastLen' = Len(Text') - 1 - 0
    BY <1>3, <1>11, <1>13 DEF L
  <2>3. QED
    BY <1>10, <1>12, <1>13, <2>1, <2>2
<1>16. ASSUME pc' = "grow"
       PROVE  /\ Level' \in 0 .. Depth - 2 /\ \A i \in 1 .. TopK : tree'[actives'[i]].depth = Level'
              /\ Len(draftRows') = pastLen' + TopK * Level'
  <2>1. Depth - 1 # 0
    BY <1>1, <1>16
  <2>2. \A i \in 1 .. TopK : tree'[actives'[i]].depth = 0
    <3>1. \A i \in 1 .. TopK : FirstActives[i] = i
      BY DEF FirstActives
    <3>2. QED
      BY <1>1, <3>1, RootGrown
  <2>3. Level' = 0
    <3>1. 1 \in 1 .. TopK
      OBVIOUS
    <3>2. QED
      BY <2>2, <3>1 DEF Level
  <2>4. pastLen' = pastLen' + TopK * 0
    BY <1>3, <1>11
  <2>5. QED
    BY <1>10, <2>1, <2>2, <2>3, <2>4
<1>17. ASSUME pc' = "finalize"
       PROVE  Len(draftRows') = pastLen' + DraftRemove
  <2>1. Depth - 1 = 0
    BY <1>1, <1>17
  <2>2. DraftRemove = 0
    BY <2>1 DEF DraftRemove
  <2>3. QED
    BY <1>3, <1>10, <1>11, <2>2
<1>18. remove' = DraftRemove
  BY <1>1
<1>19. QED
  BY <1>14, <1>15, <1>16, <1>17, <1>18 DEF Drafted

(* A round of drafts adds a level of rows, and goes one level down.        *)
LEMMA GrowDraftDrafted ==
  ASSUME "certain" \notin Situations, Fits, Drafted,
         NEW answers \in [1 .. TopK -> Answers], GrowDraft(answers)
  PROVE  /\ Drafted'
         /\ Level' = Level + 1 /\ \A i \in 1 .. TopK : tree'[actives'[i]].depth = Level + 1
         /\ \A c \in 1 .. Len(draftRows) : draftRows'[c] = draftRows[c]
         /\ \A i \in 1 .. TopK :
              draftRows'[Len(draftRows) + i].token = tree[actives[i]].token
         /\ Len(draftRows') = Len(draftRows) + TopK
<1> USE EagleAssumption DEF EagleAssumption
<1> DEFINE row(i) == [token |-> tree[actives[i]].token,
                      pos |-> pastLen + tree[actives[i]].depth]
           more == [i \in DOMAIN actives |-> row(i)]
           u == WithChildren(tree, actives, answers)
           D == Len(draftRows)
<1>1. /\ pc = "grow" /\ draftRows' = draftRows \o more
      /\ tree' = u /\ actives' \in NextActives(u, Len(tree))
      /\ pc' = IF tree'[actives'[1]].depth = Depth - 1 THEN "finalize" ELSE "grow"
      /\ UNCHANGED << base, result, status, remove, pastLen, input, draft, call, spoken >>
  BY DEF GrowDraft, DraftDone
<1>2. /\ draftRows \in Seq(DraftRow) /\ remove \in Nat /\ pastLen \in Nat
      /\ Grown(tree) /\ actives \in [1 .. TopK -> 1 .. Len(tree)] /\ D \in Nat
  BY <1>1, LenProperties DEF Fits, DraftsFit, TreeFits
<1>3. /\ \A n \in 1 .. Len(tree) : tree[n] \in TreeNode
      /\ \A n \in Len(tree) + 1 .. Len(u) :
           \E i \in 1 .. TopK : u[n].depth = tree[actives[i]].depth + 1
  <2>1. Grown(tree) /\ actives \in [1 .. TopK -> 1 .. Len(tree)]
    BY <1>2
  <2>2. \A n \in 1 .. Len(tree) : tree[n] \in TreeNode
    BY <2>1, ChildrenGrown
  <2>3. \A n \in Len(tree) + 1 .. Len(u) : ChildOfActive(u[n], tree, actives)
    BY <2>1, ChildrenGrown
  <2> HIDE DEF u
  <2>4. QED
    BY <2>2, <2>3 DEF ChildOfActive
<1>4. /\ pastLen = Len(Text) - 1 - 0 /\ pastLen <= D /\ remove = DraftRemove
      /\ \A i \in 1 .. pastLen : draftRows[i].token = Text[i + 1] /\ draftRows[i].pos = i - 1
      /\ Level \in 0 .. Depth - 2 /\ \A i \in 1 .. TopK : tree[actives[i]].depth = Level
      /\ D = pastLen + TopK * Level
  BY <1>1 DEF Drafted
<1>5. ASSUME NEW i \in 1 .. TopK
      PROVE  row(i) \in DraftRow /\ row(i).token = tree[actives[i]].token
  <2>1. tree[actives[i]] \in TreeNode
    BY <1>2, <1>3
  <2>2. tree[actives[i]].token \in Token /\ tree[actives[i]].depth \in Nat
    BY <2>1 DEF TreeNode
  <2>3. pastLen + tree[actives[i]].depth \in Nat
    BY <1>2, <2>2
  <2>4. QED
    BY <2>2, <2>3 DEF DraftRow
<1>6. more = [i \in 1 .. TopK |-> row(i)]
  BY <1>2
<1> HIDE DEF more, row, u, D
<1>7. more \in [1 .. TopK -> DraftRow] /\ \A i \in 1 .. TopK : more[i] = row(i)
  BY <1>5, <1>6
<1>8. more \in Seq(DraftRow) /\ Len(more) = TopK
  BY <1>7, FunctionSeq
<1>9. Len(draftRows') = D + TopK
  BY <1>1, <1>2, <1>8, ConcatProperties DEF D
<1>10. ASSUME NEW c \in 1 .. D
       PROVE  draftRows'[c] = draftRows[c]
  <2>1. c \in 1 .. Len(draftRows) + Len(more) /\ c <= Len(draftRows)
    BY <1>2, <1>8 DEF D
  <2>2. QED
    BY <1>1, <1>2, <1>8, <2>1, ConcatProperties
<1>11. ASSUME NEW i \in 1 .. TopK
       PROVE  draftRows'[D + i].token = tree[actives[i]].token
  <2> DEFINE c == D + i
  <2>1. c \in 1 .. Len(draftRows) + Len(more) /\ ~(c <= Len(draftRows)) /\ c - Len(draftRows) = i
    BY <1>2, <1>8 DEF D
  <2> HIDE DEF c
  <2>2. draftRows'[c] = more[i]
    BY <1>1, <1>2, <1>8, <2>1, ConcatProperties
  <2>3. QED
    BY <1>5, <1>7, <2>2 DEF c
<1>12. ASSUME NEW i \in 1 .. TopK
       PROVE  tree'[actives'[i]].depth = Level + 1
  <2>1. actives'[i] \in Len(tree) + 1 .. Len(u)
    BY <1>1, NextActivesNew
  <2>2. QED
    BY <1>1, <1>3, <1>4, <2>1
<1>13. Level' = Level + 1
  <2>1. 1 \in 1 .. TopK
    OBVIOUS
  <2>2. QED
    BY <1>12, <2>1 DEF Level
<1> DEFINE l == Level
<1>14. l \in 0 .. Depth - 2 /\ D = pastLen + TopK * l /\ Level' = l + 1
  BY <1>4, <1>13
<1> HIDE DEF l
<1>15. Len(draftRows') = pastLen + TopK * (l + 1)
  BY <1>2, <1>9, <1>14
<1>16. pc' = IF l + 1 = Depth - 1 THEN "finalize" ELSE "grow"
  BY <1>1, <1>13, <1>14 DEF Level
<1>17. Text' = Text
  BY <1>1 DEF Text, spoken
<1>18. Drafted'
  <2>1. pc' # "idle" /\ pc' # "draft" /\ pc' # "tree" /\ pc' # "verify"
    BY <1>16
  <2>2. /\ pastLen' = Len(Text') - 1 - 0 /\ pastLen' <= Len(draftRows') /\ remove' = DraftRemove
    <3>1. pastLen' = pastLen /\ remove' = remove
      BY <1>1
    <3>2. QED
      BY <1>2, <1>4, <1>9, <1>17, <3>1
  <2>3. ASSUME NEW i \in 1 .. pastLen'
        PROVE  draftRows'[i].token = Text'[i + 1] /\ draftRows'[i].pos = i - 1
    <3>1. i \in 1 .. pastLen /\ i \in 1 .. D
      BY <1>1, <1>2, <1>4
    <3>2. QED
      BY <1>4, <1>10, <1>17, <3>1
  <2>4. ASSUME pc' = "grow"
        PROVE  /\ Level' \in 0 .. Depth - 2 /\ \A i \in 1 .. TopK : tree'[actives'[i]].depth = Level'
               /\ Len(draftRows') = pastLen' + TopK * Level'
    <3>1. l + 1 \in 0 .. Depth - 2
      BY <1>14, <1>16, <2>4
    <3>2. QED
      BY <1>1, <1>12, <1>13, <1>14, <1>15, <3>1
  <2>5. ASSUME pc' = "finalize"
        PROVE  Len(draftRows') = pastLen' + DraftRemove
    <3>1. l + 1 = Depth - 1
      BY <1>16, <2>5
    <3>2. QED
      BY <1>1, <1>15, <3>1 DEF DraftRemove
  <2>6. QED
    BY <2>1, <2>2, <2>3, <2>4, <2>5 DEF Drafted
<1>19. QED
  BY <1>9, <1>10, <1>11, <1>12, <1>13, <1>18 DEF D

(* The choice of what is verified adds no rows.                            *)
LEMMA FinalizeDrafted ==
  ASSUME Drafted, Finalize
  PROVE  Drafted'
<1>1. /\ pc = "finalize" /\ pc' = "tree" /\ Text' = Text
      /\ draftRows' = draftRows /\ pastLen' = pastLen /\ remove' = remove
  BY DEF Finalize, eagle, spoken, Text
<1>2. /\ pastLen = Len(Text) - 1 - 0 /\ pastLen <= Len(draftRows) /\ remove = DraftRemove
      /\ \A i \in 1 .. pastLen : draftRows[i].token = Text[i + 1] /\ draftRows[i].pos = i - 1
      /\ Len(draftRows) = pastLen + DraftRemove
  BY <1>1 DEF Drafted
<1>3. QED
  BY <1>1, <1>2 DEF Drafted

(* The tree is verified at the positions behind the text.                  *)
LEMMA DecodeTreePlaced ==
  ASSUME Fits, Heard, Placed, Drafted, DecodeTree
  PROVE  Placed' /\ Drafted'
<1> DEFINE before == Kept(rows, meta)
           more == TreeRows(before)
           L == Len(Text)
           T == Len(draft.tokens)
<1>1. /\ pc = "tree" /\ pc' = "verify"
      /\ rows' = before \o more /\ meta' = Synced(meta, T)
      /\ UNCHANGED << allSeqLen, eagle, draft, spoken >>
  BY DEF DecodeTree
<1>2. /\ rows \in Seq(Row) /\ Planned(rows, meta) /\ GoodDraft(draft) /\ pastLen \in Nat
      /\ meta \in [previous : Nat, remove : Nat, spans : Seq(Nat)]
  BY <1>1 DEF Fits, RowsFit, TreeFits, DraftsFit, Planned
<1>3. /\ Len(before) = L - 1 /\ prompt # <<>> /\ said # <<>>
      /\ meta.previous = Len(rows) /\ allSeqLen = L - 1
      /\ \A i \in 1 .. L - 1 : before[i].pos = i - 1
      /\ pastLen = L - 1 - 0
  BY <1>1 DEF Heard, Follows, Placed, Drafted
<1>4. L \in Nat /\ L > 1
  <2>1. prompt \in Seq(Token) /\ said \in Seq(Token)
    BY DEF Fits, TextFits
  <2>2. L = Len(prompt) + Len(said)
    BY <2>1, ConcatProperties DEF Text
  <2>3. Len(prompt) \in Nat \ {0} /\ Len(said) \in Nat \ {0}
    BY <1>3, <2>1, EmptySeq
  <2>4. QED
    BY <2>2, <2>3
<1>5. before \in Seq(Row) /\ Len(before) \in Nat
  BY <1>2, KeptRows, LenProperties
<1>6. Len(before) = Len(rows) - meta.remove + Len(meta.spans)
  <2>1. meta.previous # meta.remove
    <3> SUFFICES ASSUME meta.previous = meta.remove PROVE FALSE
      OBVIOUS
    <3>1. before = <<>>
      BY DEF Kept
    <3>2. Len(before) = 0
      BY <3>1
    <3> HIDE DEF before, L
    <3>3. QED
      BY <1>3, <1>4, <3>2
  <2>2. QED
    BY <1>2, <2>1, KeptRows
<1> HIDE DEF before, more
<1>7. /\ more \in Seq(Row) /\ Len(more) = T /\ T \in Nat \ {0}
      /\ \A i \in 1 .. T :
           more[i] = [ctx |-> TokensOf(before) \o Branch(draft, i),
                      pos |-> pastLen + draft.positions[i]]
  BY <1>2, <1>5, TreeRowsFit DEF more
<1> HIDE DEF L, T
<1>8. Len(rows') = L - 1 + T
  <2>1. before \in Seq(Row) /\ more \in Seq(Row)
    BY <1>5, <1>7
  <2>2. Len(before \o more) = Len(before) + Len(more)
    BY <2>1, ConcatProperties
  <2>3. QED
    BY <1>1, <1>3, <1>7, <2>2
<1>9. ASSUME NEW i \in 1 .. L - 1
      PROVE  rows'[i].pos = i - 1
  <2>1. i \in 1 .. Len(before) + Len(more) /\ i <= Len(before)
    BY <1>3, <1>4, <1>7
  <2>2. rows'[i] = before[i]
    BY <1>1, <1>5, <1>7, <2>1, ConcatProperties
  <2>3. QED
    BY <1>3, <2>2
<1>10. ASSUME NEW i \in 1 .. T
       PROVE  rows'[L - 1 + i].pos = L - 1 + draft.positions[i]
  <2>1. /\ L - 1 + i \in 1 .. Len(before) + Len(more) /\ ~(L - 1 + i <= Len(before))
        /\ (L - 1 + i) - Len(before) = i
    BY <1>3, <1>4, <1>7
  <2>2. rows'[L - 1 + i] = more[i]
    BY <1>1, <1>5, <1>7, <2>1, ConcatProperties
  <2>3. more[i] = [ctx |-> TokensOf(before) \o Branch(draft, i),
                   pos |-> pastLen + draft.positions[i]]
    BY <1>7
  <2>4. more[i].pos = pastLen + draft.positions[i]
    BY <2>3
  <2>5. pastLen = L - 1
    BY <1>3, <1>4
  <2>6. QED
    BY <2>2, <2>4, <2>5
<1>11. meta'.previous = Len(rows')
  <2>1. meta'.previous = meta.previous - meta.remove + T + Len(meta.spans)
    BY <1>1 DEF Synced
  <2> DEFINE a == meta.previous
             b == meta.remove
             c == Len(meta.spans)
  <2>2. a \in Nat /\ b \in Nat /\ c \in Nat
    BY <1>2, LenProperties
  <2>3. L - 1 = a - b + c
    BY <1>3, <1>6
  <2> HIDE DEF a, b, c
  <2>4. a - b + T + c = L - 1 + T
    BY <1>4, <1>7, <2>2, <2>3
  <2>5. QED
    BY <1>8, <2>1, <2>4 DEF a, b, c
<1>12. Text' = Text /\ draft' = draft /\ allSeqLen' = allSeqLen
       /\ draftRows' = draftRows /\ pastLen' = pastLen /\ remove' = remove
  BY <1>1 DEF Text, spoken, eagle
<1>13. Placed'
  <2>1. allSeqLen' = Len(Text') - 1
    BY <1>3, <1>12 DEF L
  <2>2. \A i \in 1 .. Len(Text') - 1 : rows'[i].pos = i - 1
    BY <1>9, <1>12 DEF L
  <2>3. \A i \in 1 .. Len(draft'.tokens) :
          rows'[Len(Text') - 1 + i].pos = Len(Text') - 1 + draft'.positions[i]
    BY <1>10, <1>12 DEF L, T
  <2>4. QED
    BY <1>1, <1>11, <2>1, <2>2, <2>3 DEF Placed
<1>14. Drafted'
  <2>1. /\ pastLen = Len(Text) - 1 - 0 /\ pastLen <= Len(draftRows) /\ remove = DraftRemove
        /\ \A i \in 1 .. pastLen : draftRows[i].token = Text[i + 1] /\ draftRows[i].pos = i - 1
        /\ Len(draftRows) = pastLen + DraftRemove
    BY <1>1 DEF Drafted
  <2>2. QED
    BY <1>1, <1>12, <2>1 DEF Drafted
<1>15. QED
  BY <1>13, <1>14

(* The rows of the accepted path are at the positions of the new tokens,   *)
(* which are what the draft model is given next.                           *)
LEMMA VerifyPlaced ==
  ASSUME PredictsTokens, Fits, Fits', Heard, Placed, Drafted, Verify
  PROVE  Placed' /\ Drafted'
<1> DEFINE L == Len(Text)
           n == Len(Round)
           w == Kept(rows', meta')
<1>1. /\ pc = "verify" /\ pc' \in {"idle", "draft"}
      /\ draftRows' = draftRows /\ pastLen' = pastLen /\ remove' = remove
      /\ rows' = rows
  BY DEF Verify, eagle, base
<1>2. meta'.previous = meta.previous
  <2>1. CASE meta' = meta
    BY <2>1
  <2>2. CASE meta' = [meta EXCEPT !.remove = Len(draft.tokens), !.spans = Spans(Accepted)]
    <3>1. meta \in [previous : Nat, remove : Nat, spans : Seq(Nat)]
      BY DEF Fits, RowsFit, Planned
    <3>2. QED
      BY <2>2, <3>1
  <2>3. QED
    BY <2>1, <2>2 DEF Verify, base
<1>3. meta'.previous = Len(rows')
  BY <1>1, <1>2 DEF Placed
<1>4. CASE pc' = "idle"
  BY <1>3, <1>4 DEF Placed, Drafted
<1>5. CASE pc' = "draft"
  <2>1. input' = Round /\ allSeqLen' = allSeqLen + n
    BY <1>5 DEF Verify, Round
  <2>2. /\ said' = said \o Round /\ said \in Seq(Token) /\ Round \in Seq(Token)
        /\ Text' = Text \o Round /\ Text \in Seq(Token)
        /\ Len(said) \in Nat \ {0} /\ Len(prompt) \in Nat \ {0} /\ n \in Nat \ {0}
        /\ L = Len(prompt) + Len(said) /\ Len(Text') = L + n
    BY RoundSaid
  <2>3. L \in Nat /\ L > 1
    BY <2>2
  <2>4. /\ allSeqLen = L - 1 /\ \A i \in 1 .. L - 1 : rows[i].pos = i - 1
        /\ \A i \in 1 .. Len(draft.tokens) : rows[L - 1 + i].pos = L - 1 + draft.positions[i]
    BY <1>1 DEF Placed
  <2>5. /\ Len(w) = Len(Text') - 1
        /\ \A i \in 1 .. L - 1 : w[i] = rows[i]
        /\ \A k \in 1 .. n : w[L - 1 + k] = rows[L - 1 + Accepted[k]]
    BY <1>5, KeptFollows DEF Follows
  <2>6. ASSUME NEW k \in 1 .. n
        PROVE  Accepted[k] \in 1 .. Len(draft.tokens) /\ draft.positions[Accepted[k]] = k - 1
    <3>1. n = Len(Accepted)
      BY <1>1, RoundFits
    <3>2. k \in 1 .. Len(Accepted)
      BY <3>1
    <3>3. QED
      BY <1>1, <3>2, AcceptedRows, AcceptedFits
  <2> HIDE DEF L, n, w
  <2>7. ASSUME NEW i \in 1 .. L - 1 + n
        PROVE  w[i].pos = i - 1
    <3>1. CASE i <= L - 1
      <4>1. i \in 1 .. L - 1
        BY <2>3, <3>1
      <4>2. QED
        BY <2>4, <2>5, <4>1
    <3>2. CASE ~(i <= L - 1)
      <4> DEFINE k == i - (L - 1)
      <4>1. k \in 1 .. n /\ i = L - 1 + k /\ L - 1 + (k - 1) = i - 1
        BY <2>2, <2>3, <3>2
      <4> HIDE DEF k
      <4>2. w[i] = rows[L - 1 + Accepted[k]]
        BY <2>5, <4>1
      <4>3. rows[L - 1 + Accepted[k]].pos = L - 1 + (k - 1)
        BY <2>4, <2>6, <4>1
      <4>4. QED
        BY <4>1, <4>2, <4>3
    <3>3. QED
      BY <3>1, <3>2
  <2>8. Placed'
    <3>1. Len(Text') - 1 = L - 1 + n /\ allSeqLen' = Len(Text') - 1
      BY <2>1, <2>2, <2>3, <2>4
    <3>2. \A i \in 1 .. Len(Text') - 1 : w[i].pos = i - 1
      BY <2>7, <3>1
    <3>3. QED
      BY <1>3, <1>5, <3>1, <3>2 DEF Placed, w
  <2>9. Drafted'
    <3>1. /\ pastLen = L - 1 - 0 /\ pastLen <= Len(draftRows) /\ remove = DraftRemove
          /\ \A i \in 1 .. pastLen : draftRows[i].token = Text[i + 1] /\ draftRows[i].pos = i - 1
          /\ Len(draftRows) = pastLen + DraftRemove
      BY <1>1 DEF Drafted, L
    <3>2. /\ pastLen = L - 1 /\ pastLen = Len(Text') - 1 - Len(input')
      BY <2>1, <2>2, <2>3, <3>1 DEF n
    <3>3. remove = Len(draftRows) - pastLen
      <4>1. Len(draftRows) \in Int /\ DraftRemove \in Int
        <5>1. draftRows \in Seq(DraftRow) /\ remove \in Nat
          BY DEF Fits, DraftsFit
        <5>2. QED
          BY <3>1, <5>1, LenProperties
      <4>2. QED
        BY <2>3, <3>1, <3>2, <4>1
    <3>4. ASSUME NEW i \in 1 .. pastLen
          PROVE  draftRows[i].token = Text'[i + 1] /\ draftRows[i].pos = i - 1
      <4> DEFINE x == i + 1
      <4>1. x \in 1 .. Len(Text) + Len(Round) /\ x <= Len(Text)
        BY <2>2, <2>3, <3>2 DEF L, n
      <4> HIDE DEF x
      <4>2. Text'[x] = Text[x]
        BY <2>2, <4>1, ConcatProperties
      <4>3. QED
        BY <3>1, <4>2 DEF x
    <3>5. ASSUME NEW i \in 1 .. Len(input')
          PROVE  input'[i] = Text'[pastLen + 1 + i]
      <4> DEFINE x == pastLen + 1 + i
      <4>1. x \in 1 .. Len(Text) + Len(Round) /\ ~(x <= Len(Text)) /\ x - Len(Text) = i
        <5>1. i \in 1 .. n
          BY <2>1 DEF n
        <5>2. pastLen + 1 + i = L + i
          BY <2>3, <3>2, <5>1
        <5>3. L + i \in 1 .. L + n /\ ~(L + i <= L) /\ L + i - L = i
          <6>1. n \in Nat
            BY <2>2
          <6>2. QED
            BY <2>3, <5>1, <6>1
        <5>4. QED
          BY <5>2, <5>3 DEF L, n
      <4> HIDE DEF x
      <4>2. Text'[x] = Round[i]
        BY <2>2, <4>1, ConcatProperties
      <4>3. QED
        BY <2>1, <4>2 DEF x
    <3>6. Len(said') # 1
      <4>1. Len(said') = Len(said) + n
        BY <2>2, ConcatProperties DEF n
      <4>2. QED
        BY <2>2, <4>1
    <3>7. QED
      BY <1>1, <1>5, <3>1, <3>2, <3>3, <3>4, <3>5, <3>6 DEF Drafted
  <2>10. QED
    BY <2>8, <2>9
<1>6. QED
  BY <1>1, <1>4, <1>5

-----------------------------------------------------------------------------
(* The drafts see their ancestors.                                         *)

(* The token of the row in column c of a mask: the drafts before the       *)
(* actives have their rows, those of the actives come next.                *)
Column(t, act, rs, past, c) ==
  IF c <= Len(rs) - past THEN rs[past + c].token ELSE t[act[c - (Len(rs) - past)]].token

(* The actives of level l attend to the columns of their ancestors.        *)
Attends(t, act, masks, l, rs, past) ==
  \A i \in 1 .. TopK :
    /\ masks[i] \in SUBSET (1 .. TopK * (l + 1))
    /\ PathTokens(t)[act[i]] =
         [k \in 1 .. Cardinality(masks[i]) |-> Column(t, act, rs, past, Ascending(masks[i])[k])]

(* Newer nodes do not change the way to older ones.                        *)
LEMMA OlderPaths ==
  ASSUME NEW t, Grown(t), NEW u, Grown(u), Len(t) <= Len(u),
         \A n \in 1 .. Len(t) : u[n] = t[n]
  PROVE  \A n \in 0 .. Len(t) : PathTokens(u)[n] = PathTokens(t)[n]
<1> DEFINE N == Len(t)
           from == [n \in 1 .. N |-> t[n].parent]
           good == { n \in 0 .. N : PathTokens(u)[n] = PathTokens(t)[n] }
<1>1. N \in Nat /\ Len(u) \in Nat /\ \A n \in 1 .. N : t[n].parent \in 0 .. n - 1
  <2>1. t \in Seq(TreeNode) /\ N \in Nat /\ Len(u) \in Nat /\ \A n \in 1 .. N : t[n] \in TreeNode
    BY LenProperties, ElementOfSeq DEF Grown
  <2>2. ASSUME NEW n \in 1 .. N
        PROVE  t[n].parent \in 0 .. n - 1
    <3>1. t[n].parent \in Nat /\ t[n].parent < n
      BY <2>1 DEF Grown, TreeNode
    <3>2. QED
      BY <2>1, <3>1
  <2>3. QED
    BY <2>1, <2>2
<1>2. PathTokens(t)[0] = PathTokens(u)[0]
  BY PathTokensDefined
<1>3. ASSUME NEW n \in 1 .. N
      PROVE  /\ PathTokens(t)[n] = Append(PathTokens(t)[t[n].parent], t[n].token)
             /\ PathTokens(u)[n] = Append(PathTokens(u)[t[n].parent], t[n].token)
  <2>1. n \in 1 .. Len(u) /\ u[n] = t[n]
    BY <1>1
  <2>2. PathTokens(t)[n] = Append(PathTokens(t)[t[n].parent], t[n].token)
    BY PathTokensDefined
  <2>3. PathTokens(u)[n] = Append(PathTokens(u)[u[n].parent], u[n].token)
    BY <2>1, PathTokensDefined
  <2>4. QED
    BY <2>1, <2>2, <2>3
<1> HIDE DEF N
<1>4. Descends(from, N)
  BY <1>1 DEF Descends
<1>5. 0 \in good
  BY <1>1, <1>2
<1>6. ASSUME NEW n \in 1 .. N, from[n] \in good
      PROVE  n \in good
  <2>1. PathTokens(u)[t[n].parent] = PathTokens(t)[t[n].parent]
    BY <1>6
  <2>2. PathTokens(u)[n] = PathTokens(t)[n]
    BY <1>3, <2>1
  <2>3. n \in 0 .. N
    BY <1>1
  <2>4. QED
    BY <2>2, <2>3
<1>7. Inherited(good, from, N)
  <2> HIDE DEF good, from
  <2>1. QED
    BY <1>5, <1>6 DEF Inherited
<1>8. \A n \in 0 .. N : n \in good
  <2> HIDE DEF good, from
  <2>1. QED
    BY <1>1, <1>4, <1>7, Induction
<1>9. QED
  BY <1>8 DEF N

(* The first drafts see themselves.                                        *)
LEMMA RootAttends ==
  ASSUME NEW answer \in Answers, NEW past \in Nat, NEW rs, Len(rs) = past
  PROVE  Attends(FirstNodes(answer), FirstActives, FirstMask, 0, rs, past)
<1> DEFINE t == FirstNodes(answer)
           act == FirstActives
           column(c) == Column(t, act, rs, past, c)
<1>1. TopK \in Nat \ {0}
  BY EagleAssumption DEF EagleAssumption
<1>2. Grown(t) /\ Len(t) = TopK /\ \A n \in 1 .. TopK : t[n].parent = 0
  BY RootGrown
<1>3. \A i \in 1 .. TopK : FirstMask[i] = {i} /\ act[i] = i
  BY DEF FirstMask, FirstActives
<1> HIDE DEF t, act
<1>4. ASSUME NEW i \in 1 .. TopK
      PROVE  PathTokens(t)[i] = << t[i].token >>
  <2>1. /\ PathTokens(t)[0] = <<>>
        /\ PathTokens(t)[i] = Append(PathTokens(t)[t[i].parent], t[i].token)
    BY <1>2, PathTokensDefined
  <2>2. t[i].parent = 0
    BY <1>2
  <2>3. PathTokens(t)[i] = Append(<<>>, t[i].token)
    BY <2>1, <2>2
  <2> DEFINE v == t[i].token
  <2>4. Append(<<>>, v) = << v >>
    OBVIOUS
  <2>5. QED
    BY <2>3, <2>4
<1>5. ASSUME NEW i \in 1 .. TopK
      PROVE  column(i) = t[i].token
  <2>1. Len(rs) - past = 0
    OBVIOUS
  <2>2. ~(i <= 0) /\ i - 0 = i
    BY <1>1
  <2>3. act[i] = i
    BY <1>3
  <2>4. column(i) = IF i <= 0 THEN rs[past + i].token ELSE t[act[i - 0]].token
    BY <2>1 DEF Column
  <2>5. QED
    BY <2>2, <2>3, <2>4
<1> HIDE DEF column
<1>6. ASSUME NEW i \in 1 .. TopK
      PROVE  Cardinality({i}) = 1 /\ Ascending({i})[1] = i
  <2>1. IsFiniteSet({i}) /\ Cardinality({i}) = 1
    BY FS_Singleton
  <2>2. {i} \in SUBSET Nat
    BY <1>1
  <2>3. Ascending({i}) \in [1 .. Cardinality({i}) -> {i}]
    BY <2>1, <2>2, AscendingLists
  <2> DEFINE a == Ascending({i})
  <2> HIDE DEF a
  <2>4. a \in [1 .. 1 -> {i}]
    BY <2>1, <2>3 DEF a
  <2>5. a[1] = i
    BY <2>4
  <2>6. QED
    BY <2>1, <2>5 DEF a
<1>7. ASSUME NEW i \in 1 .. TopK
      PROVE  /\ FirstMask[i] \in SUBSET (1 .. TopK * (0 + 1))
             /\ PathTokens(t)[act[i]] =
                  [k \in 1 .. Cardinality(FirstMask[i]) |-> column(Ascending(FirstMask[i])[k])]
  <2> DEFINE M == FirstMask[i]
             f == [k \in 1 .. Cardinality(M) |-> column(Ascending(M)[k])]
  <2>1. M = {i} /\ act[i] = i
    BY <1>3
  <2>2. Cardinality(M) = 1 /\ Ascending(M)[1] = i
    BY <1>6, <2>1
  <2> HIDE DEF M
  <2>3. f = [k \in 1 .. 1 |-> column(Ascending(M)[k])]
    BY <2>2
  <2> DEFINE v == t[i].token
  <2>4. \A k \in 1 .. 1 : column(Ascending(M)[k]) = v
    <3>1. column(Ascending(M)[1]) = v
      BY <1>5, <2>2
    <3>2. \A k \in 1 .. 1 : k = 1
      OBVIOUS
    <3>3. QED
      BY <3>1, <3>2
  <2>5. f = [k \in 1 .. 1 |-> v]
    BY <2>3, <2>4
  <2> HIDE DEF f, v
  <2>6. f = << v >>
    BY <2>5
  <2>7. TopK * (0 + 1) = TopK
    BY <1>1
  <2>8. M \in SUBSET (1 .. TopK * (0 + 1))
    BY <2>1, <2>7
  <2>9. QED
    BY <1>4, <2>1, <2>6, <2>8 DEF M, f, v
<1>8. QED
  BY <1>7 DEF Attends, t, act, column

(* What is left of a length without its first part. *)
LEMMA WithoutPast ==
  ASSUME NEW p \in Nat, NEW x \in Nat, NEW len, len = p + x
  PROVE  len - p = x
OBVIOUS

(* A column behind those of the rows that were fed is that of an active.    *)
LEMMA BehindFed ==
  ASSUME NEW k \in Nat, NEW p \in Nat, NEW f \in Nat, NEW c \in 1 .. f + k, ~(c <= f)
  PROVE  c - f \in 1 .. k /\ p + c = (p + f) + (c - f)
OBVIOUS

(* Tree u is tree t with the children of its actives, of which next are the *)
(* drafts to go on with, and more the rows rs with those of the actives.    *)
NextLevel(t, act, l, rs, past, u, next, more) ==
  /\ Grown(t) /\ act \in [1 .. TopK -> 1 .. Len(t)]
  /\ l \in Nat /\ past \in Nat /\ Len(rs) = past + TopK * l
  /\ Grown(u) /\ Len(t) <= Len(u) /\ \A n \in 1 .. Len(t) : u[n] = t[n]
  /\ next \in [1 .. TopK -> 1 .. Len(u)]
  /\ \A i \in 1 .. TopK : u[next[i]].depth = l + 1 /\ ChildOfActive(u[next[i]], t, act)
  /\ Len(more) = Len(rs) + TopK
  /\ \A c \in 1 .. Len(rs) : more[c] = rs[c]
  /\ \A i \in 1 .. TopK : more[Len(rs) + i].token = t[act[i]].token

(* The next drafts see what their parents see, and themselves.             *)
LEMMA NextAttends ==
  ASSUME NEW t, NEW act, NEW masks, NEW l, NEW rs, NEW past, NEW u, NEW next, NEW more,
         NextLevel(t, act, l, rs, past, u, next, more),
         Attends(t, act, masks, l, rs, past)
  PROVE  Attends(u, next, GrownMask(masks, u, act, next), l + 1, more, past)
<1>a. /\ Grown(t) /\ act \in [1 .. TopK -> 1 .. Len(t)]
      /\ l \in Nat /\ past \in Nat /\ Len(rs) = past + TopK * l
  BY DEF NextLevel
<1>b. /\ Grown(u) /\ Len(t) <= Len(u) /\ \A n \in 1 .. Len(t) : u[n] = t[n]
      /\ next \in [1 .. TopK -> 1 .. Len(u)]
      /\ \A i \in 1 .. TopK : u[next[i]].depth = l + 1 /\ ChildOfActive(u[next[i]], t, act)
  BY DEF NextLevel
<1>c. /\ Len(more) = Len(rs) + TopK
      /\ \A c \in 1 .. Len(rs) : more[c] = rs[c]
      /\ \A i \in 1 .. TopK : more[Len(rs) + i].token = t[act[i]].token
  BY DEF NextLevel
<1> USE <1>a, <1>b, <1>c
<1> DEFINE R == Len(rs)
           fed == TopK * l
           C == TopK * (l + 1)
           old(c) == Column(t, act, rs, past, c)
           new(c) == Column(u, next, more, past, c)
           grown == GrownMask(masks, u, act, next)
<1>1. TopK \in Nat \ {0}
  BY EagleAssumption DEF EagleAssumption
<1>2. /\ fed \in Nat /\ C \in Nat /\ C = fed + TopK /\ TopK * (l + 1 + 1) = C + TopK
      /\ R = past + fed /\ Len(more) = R + TopK
  BY <1>1
<1>3. /\ Len(t) \in Nat /\ t \in Seq(TreeNode) /\ \A n \in 1 .. Len(t) : t[n] \in TreeNode
      /\ Len(u) \in Nat /\ \A n \in 1 .. Len(u) : u[n] \in TreeNode
  BY LenProperties, ElementOfSeq DEF Grown
<1> HIDE DEF fed, C, R
<1>4. ASSUME NEW c \in 1 .. C
      PROVE  new(c) = old(c)
  <2>1. Len(more) - past = C /\ R - past = fed /\ c <= C
    <3>1. Len(more) = past + C
      BY <1>1, <1>2
    <3>2. Len(more) - past = C
      BY <1>2, <3>1, WithoutPast
    <3>3. R - past = fed
      BY <1>2, WithoutPast
    <3>4. QED
      BY <1>2, <3>2, <3>3
  <2>2. new(c) = more[past + c].token
    BY <2>1 DEF Column
  <2>3. old(c) = IF c <= fed THEN rs[past + c].token ELSE t[act[c - fed]].token
    BY <2>1 DEF Column, R
  <2>4. CASE c <= fed
    <3>1. past + c \in 1 .. R
      BY <1>2, <2>4
    <3>2. more[past + c] = rs[past + c]
      BY <3>1 DEF R
    <3>3. QED
      BY <2>2, <2>3, <2>4, <3>2
  <2>5. CASE ~(c <= fed)
    <3>1. c - fed \in 1 .. TopK /\ past + c = R + (c - fed)
      <4>1. past \in Nat /\ fed \in Nat /\ c \in 1 .. fed + TopK
        BY <1>2
      <4>2. c - fed \in 1 .. TopK /\ past + c = (past + fed) + (c - fed)
        BY <1>1, <2>5, <4>1, BehindFed
      <4>3. QED
        BY <1>2, <4>2
    <3> DEFINE j == c - fed
    <3> HIDE DEF j
    <3>2. more[R + j].token = t[act[j]].token
      BY <3>1 DEF R, j
    <3>3. QED
      BY <2>2, <2>3, <2>5, <3>1, <3>2 DEF j
  <2>6. QED
    BY <2>4, <2>5
<1>5. ASSUME NEW i \in 1 .. TopK
      PROVE  new(C + i) = u[next[i]].token
  <2>1. Len(more) - past = C /\ ~(C + i <= C) /\ (C + i) - C = i
    <3>1. Len(more) = past + C
      BY <1>1, <1>2
    <3>2. past + C - past = C
      BY <1>2
    <3>3. C \in Nat /\ i \in Nat /\ i > 0
      BY <1>1, <1>2
    <3>4. ~(C + i <= C) /\ (C + i) - C = i
      BY <3>3
    <3>5. Len(more) - past = C
      BY <1>2, <3>1, WithoutPast
    <3>6. QED
      BY <3>4, <3>5
  <2> DEFINE c == C + i
  <2>2. new(c) = IF c <= Len(more) - past THEN more[past + c].token
                 ELSE u[next[c - (Len(more) - past)]].token
    BY DEF Column
  <2>3. QED
    BY <2>1, <2>2
<1> HIDE DEF new, old
<1>6. ASSUME NEW i \in 1 .. TopK
      PROVE  /\ grown[i] \in SUBSET (1 .. TopK * (l + 1 + 1))
             /\ PathTokens(u)[next[i]] =
                  [k \in 1 .. Cardinality(grown[i]) |-> new(Ascending(grown[i])[k])]
  <2> DEFINE n == next[i]
             slot == CHOOSE k \in DOMAIN act : act[k] = u[n].parent
             S == masks[slot]
             m == C + i
             M == grown[i]
             g == PathTokens(t)[act[slot]]
             v == u[n].token
  <2>1. n \in 1 .. Len(u) /\ u[n].depth = l + 1 /\ ChildOfActive(u[n], t, act)
    OBVIOUS
  <2>2. slot \in 1 .. TopK /\ act[slot] = u[n].parent
    <3>1. \E k \in DOMAIN act : act[k] = u[n].parent
      <4>1. DOMAIN act = 1 .. TopK
        OBVIOUS
      <4>2. QED
        BY <2>1, <4>1 DEF ChildOfActive
    <3>2. slot \in DOMAIN act /\ act[slot] = u[n].parent
      BY <3>1
    <3>3. QED
      BY <3>2
  <2>3. M = S \cup { m }
    <3>1. M = S \cup { TopK * (u[n].depth) + i }
      BY DEF GrownMask
    <3>2. QED
      BY <2>1, <3>1 DEF C
  <2> HIDE DEF slot
  <2>4. act[slot] \in 1 .. Len(t)
    BY <2>2
  <2>5. /\ S \in SUBSET (1 .. C)
        /\ g = [k \in 1 .. Cardinality(S) |-> old(Ascending(S)[k])]
    BY <2>2 DEF Attends, old, C
  <2>6. /\ PathTokens(u)[n] = Append(g, v) /\ g \in Seq(Token) /\ v \in Token
    <3>1. PathTokens(u)[n] = Append(PathTokens(u)[u[n].parent], u[n].token)
      BY <2>1, PathTokensDefined
    <3>2. PathTokens(u)[act[slot]] = PathTokens(t)[act[slot]]
      <4>1. act[slot] \in 0 .. Len(t)
        BY <1>3, <2>4
      <4>2. QED
        BY <4>1, OlderPaths
    <3>3. g \in Seq(Token)
      <4>1. PathTokens(t) \in [0 .. Len(t) -> Seq(Token)]
        BY PathTokensDefined
      <4>2. act[slot] \in 0 .. Len(t)
        BY <1>3, <2>4
      <4>3. QED
        BY <4>1, <4>2
    <3>4. v \in Token
      <4>1. u[n] \in TreeNode
        BY <1>3, <2>1
      <4>2. QED
        BY <4>1 DEF TreeNode
    <3>5. QED
      BY <2>2, <3>1, <3>2, <3>3, <3>4
  <2> HIDE DEF n, S, g, v
  <2>7. IsFiniteSet(S) /\ S \in SUBSET Nat /\ m \in Nat /\ \A c \in S : c < m
    <3>1. IsFiniteSet(S)
      BY <1>2, <2>5, FiniteBelow
    <3>2. QED
      BY <1>1, <1>2, <2>5, <3>1
  <2> DEFINE K == Cardinality(S)
  <2> HIDE DEF m, M
  <2>8. /\ K \in Nat /\ Cardinality(M) = K + 1
        /\ \A k \in 1 .. K : Ascending(M)[k] = Ascending(S)[k]
        /\ Ascending(M)[K + 1] = m
    BY <2>3, <2>7, AscendingAdd
  <2>9. Ascending(S) \in [1 .. K -> S]
    BY <2>7, AscendingLists
  <2> DEFINE f == [k \in 1 .. K + 1 |-> new(Ascending(M)[k])]
  <2>10. \A k \in 1 .. K : f[k] = old(Ascending(S)[k])
    <3> SUFFICES ASSUME NEW k \in 1 .. K
                 PROVE  f[k] = old(Ascending(S)[k])
      OBVIOUS
    <3>1. k \in 1 .. K + 1
      BY <2>8
    <3>2. Ascending(S)[k] \in 1 .. C
      BY <2>5, <2>9
    <3>3. f[k] = new(Ascending(S)[k])
      BY <2>8, <3>1
    <3>4. QED
      BY <1>4, <3>2, <3>3
  <2>11. f[K + 1] = v
    <3>1. K + 1 \in 1 .. K + 1
      BY <2>8
    <3>2. f[K + 1] = new(m)
      BY <2>8, <3>1
    <3>3. QED
      BY <1>5, <3>2 DEF m, v, n
  <2> HIDE DEF K
  <2>12. g = [k \in 1 .. K |-> old(Ascending(S)[k])]
    BY <2>5 DEF K
  <2> DEFINE a == Append(g, v)
  <2>13. DOMAIN g = 1 .. K /\ Len(g) = K /\ \A k \in 1 .. K : g[k] = old(Ascending(S)[k])
    <3>1. DOMAIN g = 1 .. K /\ \A k \in 1 .. K : g[k] = old(Ascending(S)[k])
      BY <2>12
    <3>2. Len(g) \in Nat /\ DOMAIN g = 1 .. Len(g)
      BY <2>6, LenProperties
    <3>3. QED
      BY <2>8, <3>1, <3>2
  <2>14. /\ a \in Seq(Token) /\ Len(a) = K + 1
         /\ \A k \in 1 .. K : a[k] = g[k]
         /\ a[K + 1] = v
    <3>1. /\ Append(g, v) \in Seq(Token) /\ Len(Append(g, v)) = Len(g) + 1
          /\ \A k \in 1 .. Len(g) : Append(g, v)[k] = g[k]
          /\ Append(g, v)[Len(g) + 1] = v
      BY <2>6, AppendProperties
    <3>2. QED
      BY <2>13, <3>1
  <2> HIDE DEF a, f
  <2>15. \A k \in 1 .. K + 1 : f[k] = a[k]
    <3> SUFFICES ASSUME NEW k \in 1 .. K + 1
                 PROVE  f[k] = a[k]
      OBVIOUS
    <3>1. k \in 1 .. K \/ k = K + 1
      BY <2>8
    <3>2. QED
      BY <2>10, <2>11, <2>13, <2>14, <3>1
  <2>16. f = a
    <3>1. DOMAIN a = 1 .. K + 1 /\ a = [k \in 1 .. K + 1 |-> a[k]]
      <4>1. a \in [1 .. K + 1 -> Token]
        BY <2>14, LenProperties
      <4>2. QED
        BY <4>1
    <3>2. f = [k \in 1 .. K + 1 |-> f[k]]
      BY DEF f
    <3>3. QED
      BY <2>15, <3>1, <3>2
  <2>17. M \in SUBSET (1 .. TopK * (l + 1 + 1))
    <3>1. m \in 1 .. C + TopK
      BY <1>1, <1>2 DEF m
    <3>2. S \in SUBSET (1 .. C + TopK)
      BY <1>1, <1>2, <2>5
    <3>3. QED
      BY <1>2, <2>3, <3>1, <3>2
  <2>18. f = [k \in 1 .. Cardinality(M) |-> new(Ascending(M)[k])]
    BY <2>8 DEF f, K
  <2>19. QED
    BY <2>6, <2>16, <2>17, <2>18 DEF M, n, a
<1>7. QED
  BY <1>6 DEF Attends, new

Attending ==
  pc = "grow" => Attends(tree, actives, mask, Level, draftRows, pastLen)

(* After the first forward of a round the mask of the draft model is that  *)
(* of the roots.                                                           *)
LEMMA DraftRootAttending ==
  ASSUME Fits, Drafted', NEW answer \in Answers, DraftRoot(answer)
  PROVE  Attending'
<1> SUFFICES ASSUME pc' = "grow"
             PROVE  Attends(tree', actives', mask', Level', draftRows', pastLen')
  BY DEF Attending
<1>1. TopK \in Nat \ {0}
  BY EagleAssumption DEF EagleAssumption
<1>2. /\ tree' = FirstNodes(answer) /\ actives' = FirstActives /\ mask' = FirstMask
      /\ pastLen' = pastLen + Len(input)
  BY DEF DraftRoot
<1>3. Level' = 0
  <2>1. 1 \in 1 .. TopK /\ FirstActives[1] = 1
    BY <1>1 DEF FirstActives
  <2>2. Level' = FirstNodes(answer)[1].depth
    BY <1>2, <2>1 DEF Level
  <2>3. QED
    BY <2>1, <2>2, RootGrown
<1>4. pastLen' \in Nat
  BY <1>2, LenProperties DEF Fits, DraftsFit
<1>5. Len(draftRows') = pastLen'
  <2>1. Len(draftRows') = pastLen' + TopK * Level'
    BY DEF Drafted
  <2>2. Len(draftRows') = pastLen' + TopK * 0
    BY <1>3, <2>1
  <2> DEFINE past == pastLen'
             len == Len(draftRows')
  <2>3. past \in Nat /\ len = past + TopK * 0
    BY <1>4, <2>2
  <2> HIDE DEF past, len
  <2>4. len = past
    BY <1>1, <2>3
  <2>5. QED
    BY <2>4 DEF past, len
<1>6. Attends(FirstNodes(answer), FirstActives, FirstMask, 0, draftRows', pastLen')
  BY <1>4, <1>5, RootAttends
<1>7. QED
  BY <1>2, <1>3, <1>6

(* A further level extends the mask as it extends the tree.                *)
LEMMA GrowDraftAttending ==
  ASSUME "certain" \notin Situations, Fits, Fits', Drafted, Attending,
         NEW answers \in [1 .. TopK -> Answers], GrowDraft(answers)
  PROVE  Attending'
<1> SUFFICES ASSUME pc' = "grow"
             PROVE  Attends(tree', actives', mask', Level', draftRows', pastLen')
  BY DEF Attending
<1> DEFINE u == WithChildren(tree, actives, answers)
<1>1. /\ pc = "grow" /\ tree' = u /\ actives' \in NextActives(u, Len(tree))
      /\ mask' = GrownMask(mask, u, actives, actives') /\ pastLen' = pastLen
  BY DEF GrowDraft
<1>2. /\ Grown(tree) /\ actives \in [1 .. TopK -> 1 .. Len(tree)]
      /\ draftRows \in Seq(DraftRow) /\ pastLen \in Nat
  BY <1>1 DEF Fits, DraftsFit, TreeFits
<1>3. /\ Grown(u) /\ Len(u) \in Nat /\ Len(tree) \in Nat /\ Len(tree) < Len(u)
      /\ \A n \in 1 .. Len(tree) : u[n] = tree[n]
  BY <1>2, ChildrenGrown
<1>4. \A n \in Len(tree) + 1 .. Len(u) : ChildOfActive(u[n], tree, actives)
  BY <1>2, ChildrenGrown
<1> HIDE DEF u
<1>5. actives' \in [1 .. TopK -> Len(tree) + 1 .. Len(u)]
  BY <1>1, NextActivesNew
<1>6. actives' \in [1 .. TopK -> 1 .. Len(u)]
  BY <1>3, <1>5
<1>7. /\ Level' = Level + 1 /\ \A i \in 1 .. TopK : tree'[actives'[i]].depth = Level + 1
      /\ \A c \in 1 .. Len(draftRows) : draftRows'[c] = draftRows[c]
      /\ \A i \in 1 .. TopK : draftRows'[Len(draftRows) + i].token = tree[actives[i]].token
      /\ Len(draftRows') = Len(draftRows) + TopK
  BY GrowDraftDrafted
<1>8. Level \in 0 .. Depth - 2 /\ Len(draftRows) = pastLen + TopK * Level
  BY <1>1 DEF Drafted
<1>9. Level \in Nat
  <2>1. Depth \in Int
    BY EagleAssumption DEF EagleAssumption
  <2> DEFINE l == Level
  <2>2. l \in 0 .. Depth - 2
    BY <1>8
  <2> HIDE DEF l
  <2>3. l \in Nat
    BY <2>1, <2>2
  <2>4. QED
    BY <2>3 DEF l
<1>10. \A i \in 1 .. TopK : u[actives'[i]].depth = Level + 1
                            /\ ChildOfActive(u[actives'[i]], tree, actives)
  BY <1>1, <1>4, <1>5, <1>7
<1>11. Attends(tree, actives, mask, Level, draftRows, pastLen)
  BY <1>1 DEF Attending
<1>12. Len(tree) <= Len(u)
  BY <1>3
<1>13. NextLevel(tree, actives, Level, draftRows, pastLen, u, actives', draftRows')
  BY <1>2, <1>3, <1>6, <1>7, <1>8, <1>9, <1>10, <1>12 DEF NextLevel
<1>14. Attends(u, actives', GrownMask(mask, u, actives, actives'), Level + 1, draftRows', pastLen)
  BY <1>11, <1>13, NextAttends
<1>15. QED
  BY <1>1, <1>7, <1>14

(* Rows, draft rows and mask are in place at the start.                    *)
LEMMA PlacedInit == Init => Placed /\ Drafted /\ Attending
<1> SUFFICES ASSUME Init PROVE Placed /\ Drafted /\ Attending
  OBVIOUS
<1>1. /\ pc = "idle" /\ rows = <<>> /\ meta = NoMeta
  BY DEF Init
<1>2. meta.previous = Len(rows)
  BY <1>1 DEF NoMeta
<1>3. QED
  BY <1>1, <1>2 DEF Placed, Drafted, Attending

(* Every step keeps them in place, when no situation is admitted.          *)
LEMMA PlacedNext ==
  ASSUME PredictsTokens, Situations = {}, Fits, Fits', Heard,
         Placed, Drafted, Attending, [Next]_vars
  PROVE  Placed' /\ Drafted' /\ Attending'
<1> USE EagleAssumption DEF EagleAssumption
<1>1. ASSUME NEW ids \in Prompts, NEW max \in 1 .. MaxNew, NEW reuse \in BOOLEAN,
             Respond(ids, max, reuse)
      PROVE  Placed' /\ Drafted' /\ Attending'
  <2>1. pc' # "grow"
    BY <1>1 DEF Respond
  <2>2. QED
    BY <1>1, <2>1, RespondPlaced DEF Attending
<1>2. ASSUME NEW answer \in Answers, DraftRoot(answer)
      PROVE  Placed' /\ Drafted' /\ Attending'
  <2>1. pc = "draft" /\ pc' \in {"grow", "finalize"} /\ UNCHANGED << base, spoken >>
    BY <1>2 DEF DraftRoot, DraftDone
  <2>2. QED
    BY <1>2, <2>1, DraftingPlaced, DraftRootDrafted, DraftRootAttending
<1>3. ASSUME NEW answers \in [1 .. TopK -> Answers], GrowDraft(answers)
      PROVE  Placed' /\ Drafted' /\ Attending'
  <2>1. pc = "grow" /\ pc' \in {"grow", "finalize"} /\ UNCHANGED << base, spoken >>
    BY <1>3 DEF GrowDraft, DraftDone
  <2>2. Placed'
    BY <2>1, DraftingPlaced
  <2>3. Drafted'
    BY <1>3, GrowDraftDrafted
  <2>4. Attending'
    BY <1>3, GrowDraftAttending
  <2>5. QED
    BY <2>2, <2>3, <2>4
<1>4. CASE Finalize
  <2>1. pc = "finalize" /\ pc' = "tree" /\ UNCHANGED << base, spoken >>
    BY <1>4 DEF Finalize
  <2>2. QED
    BY <1>4, <2>1, DraftingPlaced, FinalizeDrafted DEF Attending
<1>5. CASE DecodeTree
  <2>1. pc' = "verify"
    BY <1>5 DEF DecodeTree
  <2>2. QED
    BY <1>5, <2>1, DecodeTreePlaced DEF Attending
<1>6. ASSUME NEW why \in {"TIMEOUT", "INTERNAL_ERROR"}, EndEarly(why)
      PROVE  Placed' /\ Drafted' /\ Attending'
  <2>1. pc = "tree" /\ pc' = "idle" /\ UNCHANGED << base, spoken >>
    BY <1>6 DEF EndEarly
  <2>2. QED
    BY <2>1, DraftingPlaced DEF Drafted, Attending
<1>7. CASE Verify
  <2>1. pc' # "grow"
    BY <1>7 DEF Verify
  <2>2. QED
    BY <1>7, <2>1, VerifyPlaced DEF Attending
<1>8. CASE UNCHANGED vars
  <2> USE <1>8 DEF vars, base, result, eagle, growing, spoken
  <2>1. Text' = Text /\ Level' = Level /\ DraftRemove' = DraftRemove
    BY DEF Text, Level, DraftRemove
  <2>2. Kept(rows', meta') = Kept(rows, meta)
    OBVIOUS
  <2>3. Placed'
    BY <2>1, <2>2 DEF Placed
  <2>4. Drafted'
    BY <2>1 DEF Drafted
  <2>5. Attending'
    BY <2>1 DEF Attending
  <2>6. QED
    BY <2>3, <2>4, <2>5
<1>9. QED
  BY <1>1, <1>2, <1>3, <1>4, <1>5, <1>6, <1>7, <1>8 DEF Next

(* What holds in every state, when callers do what the code survives.      *)
LEMMA EagleInvariant ==
  ASSUME PredictsTokens, Situations = {}
  PROVE  Spec => [](Fits /\ Heard /\ Placed /\ Drafted /\ Attending)
<1> DEFINE I == Fits /\ Heard /\ Placed /\ Drafted /\ Attending
<1>1. Init => I
  BY FitsInit, HeardInit, PlacedInit
<1>2. I /\ [Next]_vars => I'
  <2> SUFFICES ASSUME I, [Next]_vars PROVE I'
    OBVIOUS
  <2>1. Fits'
    BY FitsNext
  <2>2. Heard'
    BY <2>1, HeardNext
  <2>3. Placed' /\ Drafted' /\ Attending'
    BY <2>1, PlacedNext
  <2>4. QED
    BY <2>1, <2>2, <2>3
<1>3. QED
  BY <1>1, <1>2, PTL DEF Spec

(* A prefix of a prefix is a prefix.                                       *)
LEMMA PrefixOfPrefix ==
  ASSUME NEW S, NEW s \in Seq(S), NEW n \in 0 .. Len(s), NEW i \in 0 .. n
  PROVE  SubSeq(SubSeq(s, 1, n), 1, i) = SubSeq(s, 1, i)
<1> DEFINE p == SubSeq(s, 1, n)
<1>1. p \in Seq(S) /\ Len(p) = n /\ \A k \in 1 .. n : p[k] = s[k]
  BY Prefix
<1>2. i \in 0 .. Len(s) /\ i \in Nat /\ n \in Nat
  BY LenProperties
<1> HIDE DEF p
<1>3. SubSeq(p, 1, i) \in Seq(S) /\ Len(SubSeq(p, 1, i)) = i
      /\ \A k \in 1 .. i : SubSeq(p, 1, i)[k] = p[k]
  BY <1>1, Prefix
<1>4. SubSeq(s, 1, i) \in Seq(S) /\ Len(SubSeq(s, 1, i)) = i
      /\ \A k \in 1 .. i : SubSeq(s, 1, i)[k] = s[k]
  BY <1>2, Prefix
<1>5. ASSUME NEW k \in 1 .. i
      PROVE  SubSeq(p, 1, i)[k] = SubSeq(s, 1, i)[k]
  <2>1. k \in 1 .. n
    BY <1>2
  <2>2. QED
    BY <1>1, <1>3, <1>4, <2>1
<1> DEFINE a == SubSeq(p, 1, i)
           b == SubSeq(s, 1, i)
<1>6. a \in Seq(S) /\ b \in Seq(S) /\ Len(a) = i /\ Len(b) = i
      /\ \A k \in 1 .. i : a[k] = b[k]
  BY <1>3, <1>4, <1>5
<1> HIDE DEF a, b
<1>7. a = b
  BY <1>6, SeqEqual
<1>8. QED
  BY <1>7 DEF a, b, p

(* Rows that follow a text, at its positions, are those a forward of the   *)
(* text without its last token would have added to an empty history.       *)
LEMMA RowsOfText ==
  ASSUME NEW rs \in Seq(Row), NEW text \in Seq(Token), text # <<>>, Follows(rs, text),
         \A i \in 1 .. Len(text) - 1 : rs[i].pos = i - 1
  PROVE  rs = CausalRows(<<>>, SubSeq(text, 1, Len(text) - 1), 0)
<1> DEFINE n == Len(text) - 1
           ids == SubSeq(text, 1, n)
<1>1. n \in Nat /\ n \in 0 .. Len(text) /\ Len(rs) = n
  BY EmptySeq DEF Follows
<1>2. ids \in Seq(Token) /\ Len(ids) = n
  BY <1>1, Prefix
<1>3. ASSUME NEW i \in 1 .. n
      PROVE  rs[i].ctx = SubSeq(ids, 1, i) /\ rs[i].pos = i - 1
  <2>1. i \in 0 .. n
    BY <1>1
  <2>2. SubSeq(ids, 1, i) = SubSeq(text, 1, i)
    BY <1>1, <2>1, PrefixOfPrefix
  <2>3. QED
    BY <2>2 DEF Follows
<1> HIDE DEF ids, n
<1>4. PICK none \in Seq(Row) : none = <<>> /\ TokensOf(none) = <<>>
  <2>1. <<>> \in Seq(Row) /\ TokensOf(<<>>) = <<>>
    BY DEF TokensOf
  <2>2. QED
    BY <2>1
<1>5. PICK zero \in Nat : zero = 0
  OBVIOUS
<1> DEFINE more == CausalRows(none, ids, zero)
<1>6. /\ more \in Seq(Row) /\ Len(more) = n
      /\ \A i \in 1 .. n :
           more[i] = [ctx |-> TokensOf(none) \o SubSeq(ids, 1, i), pos |-> zero + i - 1]
  BY <1>2, CausalRowsFit
<1> HIDE DEF more
<1>7. ASSUME NEW i \in 1 .. n
      PROVE  more[i] = rs[i]
  <2>1. i \in 0 .. Len(ids)
    BY <1>1, <1>2
  <2>2. SubSeq(ids, 1, i) \in Seq(Token)
    BY <1>2, <2>1, Prefix
  <2>3. <<>> \o SubSeq(ids, 1, i) = SubSeq(ids, 1, i)
    BY <2>2, ConcatEmptySeq
  <2>4. more[i] = [ctx |-> TokensOf(none) \o SubSeq(ids, 1, i), pos |-> zero + i - 1]
    BY <1>6
  <2>5. TokensOf(none) \o SubSeq(ids, 1, i) = rs[i].ctx
    BY <1>3, <1>4, <2>3
  <2>6. zero + i - 1 = rs[i].pos
    BY <1>3, <1>5
  <2>7. more[i] = [ctx |-> rs[i].ctx, pos |-> rs[i].pos]
    BY <2>4, <2>5, <2>6
  <2>8. rs[i] \in Row
    BY <1>1, ElementOfSeq
  <2>9. QED
    BY <2>7, <2>8 DEF Row
<1>8. more = rs
  BY <1>1, <1>6, <1>7, SeqEqual
<1>9. more = CausalRows(<<>>, ids, 0)
  BY <1>4, <1>5 DEF more
<1>10. QED
  BY <1>8, <1>9 DEF ids, n

(* When a tree is about to be drafted or verified, what the plan keeps of  *)
(* the history of the base model is the text but for its last token, each  *)
(* row computed from the rows before it and at its own position, and the   *)
(* plan counts the rows that are there: for every prompt and every draft,  *)
(* when a prompt fits into a block, nothing is reused and no response was  *)
(* cut short with a plan left behind.                                      *)
THEOREM EagleRowsFollowText ==
  ASSUME PredictsTokens, Situations = {}
  PROVE  Spec => []RowsFollowText
<1> DEFINE I == Fits /\ Heard /\ Placed /\ Drafted /\ Attending
<1>1. I => RowsFollowText
  <2> SUFFICES ASSUME Fits, Heard, Placed PROVE RowsFollowText
    OBVIOUS
  <2>1. meta.previous = Len(rows)
    BY DEF Placed
  <2>2. ASSUME pc \in {"draft", "grow", "finalize", "tree"}
        PROVE  /\ Kept(rows, meta) = CausalRows(<<>>, SubSeq(Text, 1, Len(Text) - 1), 0)
               /\ allSeqLen = Len(Text) - 1
    <3>1. Text \in Seq(Token) /\ Text # <<>>
      <4>1. prompt \in Seq(Token) /\ said \in Seq(Token) /\ prompt # <<>>
        BY <2>2 DEF Fits, TextFits, Heard
      <4>2. Text \in Seq(Token) /\ Len(Text) = Len(prompt) + Len(said)
        BY <4>1, ConcatProperties DEF Text
      <4>3. Len(prompt) \in Nat /\ Len(said) \in Nat /\ Len(prompt) # 0
        BY <4>1, EmptySeq, LenProperties
      <4>4. Len(Text) # 0
        BY <4>2, <4>3
      <4>5. QED
        BY <4>2, <4>4, EmptySeq
    <3>2. Kept(rows, meta) \in Seq(Row)
      BY KeptRows DEF Fits, RowsFit
    <3>3. Follows(Kept(rows, meta), Text)
      BY <2>2 DEF Heard
    <3>4. \A i \in 1 .. Len(Text) - 1 : Kept(rows, meta)[i].pos = i - 1
      BY <2>2 DEF Placed
    <3>5. Kept(rows, meta) = CausalRows(<<>>, SubSeq(Text, 1, Len(Text) - 1), 0)
      BY <3>1, <3>2, <3>3, <3>4, RowsOfText
    <3>6. allSeqLen = Len(Text) - 1
      BY <2>2 DEF Placed
    <3>7. QED
      BY <3>5, <3>6
  <2>3. QED
    BY <2>1, <2>2 DEF RowsFollowText
<1>2. QED
  BY <1>1, EagleInvariant, PTL

(* The draft model sees the same text without its first token, whatever    *)
(* was drafted and removed before, and an active node attends to the rows  *)
(* of its ancestors and no other draft: for every shape of the tree and    *)
(* every answer of the draft model, under the hypotheses of the theorem    *)
(* before.                                                                 *)
THEOREM EagleDraftFollowsText ==
  ASSUME PredictsTokens, Situations = {}
  PROVE  Spec => []DraftFollowsText
<1> DEFINE I == Fits /\ Heard /\ Placed /\ Drafted /\ Attending
<1>1. I => DraftFollowsText
  <2> SUFFICES ASSUME Fits, Heard, Drafted, Attending PROVE DraftFollowsText
    OBVIOUS
  <2>1. ASSUME pc = "draft"
        PROVE  Len(draftRows) - remove = IF Len(said) = 1 THEN 0 ELSE Len(Text) - 1 - Len(input)
    <3>1. /\ pastLen = Len(Text) - 1 - Len(input)
          /\ remove = Len(draftRows) - pastLen
          /\ Len(said) = 1 => pastLen = 0
      BY <2>1 DEF Drafted
    <3>2. pastLen \in Nat /\ Len(draftRows) \in Nat
      BY LenProperties DEF Fits, DraftsFit
    <3> DEFINE len == Len(draftRows)
               text == Len(Text) - 1 - Len(input)
    <3>3. remove = len - pastLen /\ pastLen = text
      BY <3>1
    <3> HIDE DEF len, text
    <3>4. len - remove = pastLen
      BY <3>2, <3>3 DEF len
    <3>5. len - remove = IF Len(said) = 1 THEN 0 ELSE text
      BY <3>1, <3>3, <3>4
    <3>6. QED
      BY <3>5 DEF len, text
  <2>2. ASSUME pc \in {"grow", "finalize", "tree"}
        PROVE  /\ pastLen = Len(Text) - 1
               /\ \A i \in 1 .. pastLen : draftRows[i] = [token |-> Text[i + 1], pos |-> i - 1]
    <3>1. /\ pastLen = Len(Text) - 1 - 0 /\ pastLen <= Len(draftRows)
          /\ \A i \in 1 .. pastLen :
               draftRows[i].token = Text[i + 1] /\ draftRows[i].pos = i - 1
      BY <2>2 DEF Drafted
    <3>2. /\ Text \in Seq(Token) /\ Len(Text) \in Nat
          /\ draftRows \in Seq(DraftRow) /\ Len(draftRows) \in Nat /\ pastLen \in Nat
      BY ConcatProperties, LenProperties DEF Fits, DraftsFit, TextFits, Text
    <3>3. ASSUME NEW i \in 1 .. pastLen
          PROVE  draftRows[i] = [token |-> Text[i + 1], pos |-> i - 1]
      <4>1. i \in 1 .. Len(draftRows)
        BY <3>1, <3>2
      <4>2. draftRows[i] \in DraftRow
        BY <3>2, <4>1, ElementOfSeq
      <4>3. draftRows[i].token = Text[i + 1] /\ draftRows[i].pos = i - 1
        BY <3>1
      <4>4. draftRows[i] = [token |-> draftRows[i].token, pos |-> draftRows[i].pos]
        BY <4>2 DEF DraftRow
      <4>5. QED
        BY <4>3, <4>4
    <3>4. pastLen = Len(Text) - 1
      BY <3>1, <3>2
    <3>5. QED
      BY <3>3, <3>4
  <2> DEFINE fed == Len(draftRows) - pastLen
             column(c) == IF c <= fed THEN draftRows[pastLen + c].token
                          ELSE tree[actives[c - fed]].token
  <2>3. ASSUME pc = "grow", NEW i \in DOMAIN actives
        PROVE  PathTokens(tree)[actives[i]] =
                 [k \in 1 .. Cardinality(mask[i]) |-> column(Ascending(mask[i])[k])]
    <3>1. i \in 1 .. TopK
      BY <2>3 DEF Fits, TreeFits
    <3>2. Attends(tree, actives, mask, Level, draftRows, pastLen)
      BY <2>3 DEF Attending
    <3>3. PathTokens(tree)[actives[i]] =
            [k \in 1 .. Cardinality(mask[i]) |->
               Column(tree, actives, draftRows, pastLen, Ascending(mask[i])[k])]
      BY <3>1, <3>2 DEF Attends
    <3>4. \A c : Column(tree, actives, draftRows, pastLen, c) = column(c)
      BY DEF Column
    <3> HIDE DEF column
    <3>5. QED
      BY <3>3, <3>4
  <2>4. QED
    BY <2>1, <2>2, <2>3 DEF DraftFollowsText
<1>2. QED
  BY <1>1, EagleInvariant, PTL
=============================================================================
