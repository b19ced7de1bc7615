-------------------------- MODULE PromptCacheProofs --------------------------
(***************************************************************************)
(* Proofs about PromptCache, for any pieces, conversations, templates and  *)
(* bounds: types and counts in every situation; that a reply is computed   *)
(* from the rows of its request, when nothing else forwards rows while a   *)
(* text is cached and the cache is not switched during a response; and     *)
(* that a conversation which goes on reuses its rows.                      *)
(***************************************************************************)
EXTENDS PromptCache, SequenceTheorems, WellFoundedInduction, TLAPS

-----------------------------------------------------------------------------
(* Induction and recursion on numbers.                                     *)

(* A set of naturals that is not empty has a least member.                 *)
LEMMA Least ==
  ASSUME NEW S \in SUBSET Nat, S # {}
  PROVE  \E k \in S : \A l \in S : k <= l
<1> DEFINE Less == { p \in Nat \X Nat : p[1] < p[2] }
<1>1. IsWellFoundedOn(Less, Nat)
  BY NatLessThanWellFounded DEF OpToRel
<1>2. PICK k \in S : \A l \in S : << l, k >> \notin Less
  <2> HIDE DEF Less
  <2>1. QED
    BY <1>1, WFMin
<1>3. ASSUME NEW l \in S
      PROVE  k <= l
  <2>1. k \in Nat /\ l \in Nat
    OBVIOUS
  <2>2. l < k => << l, k >> \in Less
    BY <2>1
  <2>3. QED
    BY <1>2, <2>1, <2>2
<1>4. QED
  BY <1>3

(* What 0 has, and every number when the one before has it.                *)
Inherited(good, N) == 0 \in good /\ \A n \in 1 .. N : n - 1 \in good => n \in good

(* Induction, for a property that is a set of numbers.                     *)
LEMMA Induction ==
  ASSUME NEW N \in Nat, NEW good, Inherited(good, N)
  PROVE  \A n \in 0 .. N : n \in good
<1> DEFINE Bad == { n \in 0 .. N : n \notin good }
<1>1. Bad = {}
  <2> SUFFICES ASSUME Bad # {} PROVE FALSE
    OBVIOUS
  <2>1. Bad \in SUBSET Nat
    OBVIOUS
  <2>2. PICK m \in Bad : \A l \in Bad : m <= l
    <3> HIDE DEF Bad
    <3>1. QED
      BY <2>1, Least
  <2>3. m \in 1 .. N /\ m \notin good
    BY DEF Inherited
  <2>4. m - 1 \in 0 .. N /\ ~(m <= m - 1)
    BY <2>3
  <2>5. m - 1 \in good
    BY <2>2, <2>4
  <2>6. QED
    BY <2>3, <2>5 DEF Inherited
<1>2. QED
  BY <1>1

(* Steps that make the next value from the one before.                     *)
StepsOf(step, V, N) == step \in [1 .. N -> [V -> V]]

Solves(g, V, N, a, step) ==
  g \in [0 .. N -> V] /\ g[0] = a /\ \A n \in 1 .. N : g[n] = step[n][g[n - 1]]

(* A recursive function is defined when every value is made from the one   *)
(* before, and has the type its steps keep.                                *)
LEMMA Recursion ==
  ASSUME NEW V, NEW N \in Nat, NEW a \in V, NEW step, StepsOf(step, V, N)
  PROVE  \E g : Solves(g, V, N, a, step)
<1> DEFINE good == { m \in 0 .. N : \E g : Solves(g, V, m, a, step) }
<1> USE DEF StepsOf, Solves
<1>1. 0 \in good
  <2>1. Solves([n \in 0 .. 0 |-> a], V, 0, a, step)
    OBVIOUS
  <2> HIDE DEF Solves
  <2>2. QED
    BY <2>1
<1>2. ASSUME NEW m \in 1 .. N, m - 1 \in good
      PROVE  m \in good
  <2>1. PICK g : Solves(g, V, m - 1, a, step)
    BY <1>2
  <2> DEFINE h == [n \in 0 .. m |-> IF n < m THEN g[n] ELSE step[m][g[m - 1]]]
  <2>2. g[m - 1] \in V /\ step[m] \in [V -> V]
    BY <2>1
  <2>3. h \in [0 .. m -> V] /\ h[0] = a
    <3>1. step[m][g[m - 1]] \in V
      BY <2>2
    <3>2. \A n \in 0 .. m : n < m => n \in 0 .. m - 1
      OBVIOUS
    <3>3. 0 \in 0 .. m /\ 0 < m
      OBVIOUS
    <3>4. QED
      BY <2>1, <3>1, <3>2, <3>3
  <2>4. ASSUME NEW n \in 1 .. m
        PROVE  h[n] = step[n][h[n - 1]]
    <3>1. n - 1 \in 0 .. m /\ n - 1 < m /\ n \in 0 .. m
      OBVIOUS
    <3>2. h[n - 1] = g[n - 1]
      BY <3>1
    <3>3. CASE n < m
      <4>1. n \in 1 .. m - 1
        BY <3>3
      <4>2. QED
        BY <2>1, <3>1, <3>2, <3>3, <4>1
    <3>4. CASE n = m
      BY <3>1, <3>2, <3>4
    <3>5. QED
      BY <3>3, <3>4
  <2>5. Solves(h, V, m, a, step)
    <3> HIDE DEF h
    <3>1. QED
      BY <2>3, <2>4
  <2> HIDE DEF Solves
  <2>6. QED
    BY <2>5
<1>3. Inherited(good, N)
  <2> HIDE DEF good
  <2>1. QED
    BY <1>1, <1>2 DEF Inherited
<1>4. N \in good
  <2> HIDE DEF good
  <2>1. QED
    BY <1>3, Induction
<1>5. QED
  BY <1>4

(* Induction on sequences, for a property that is a set of them: what the  *)
(* empty sequence has, and every sequence that grows by one element.       *)
LEMMA SnocInduction ==
  ASSUME NEW S, NEW good, << >> \in good,
         \A s \in Seq(S) : \A x \in S : s \in good => Append(s, x) \in good
  PROVE  \A s \in Seq(S) : s \in good
<1> DEFINE Bad == { n \in Nat : \E s \in Seq(S) : Len(s) = n /\ s \notin good }
<1>1. Bad = {}
  <2> SUFFICES ASSUME Bad # {} PROVE FALSE
    OBVIOUS
  <2>1. Bad \in SUBSET Nat
    OBVIOUS
  <2>2. PICK m \in Bad : \A l \in Bad : m <= l
    <3> HIDE DEF Bad
    <3>1. QED
      BY <2>1, Least
  <2>3. PICK s \in Seq(S) : Len(s) = m /\ s \notin good
    OBVIOUS
  <2>4. s # << >>
    BY <2>3
  <2>5. PICK t \in Seq(S), x \in S : s = Append(t, x)
    BY <2>4, SequenceEmptyOrAppend
  <2>6. t \notin good
    BY <2>3, <2>5
  <2>7. Len(t) \in Nat /\ Len(s) = Len(t) + 1
    BY <2>5, AppendProperties, LenProperties
  <2>8. Len(t) \in Bad
    BY <2>6, <2>7
  <2>9. QED
    BY <2>2, <2>3, <2>7, <2>8
<1>2. ASSUME NEW s \in Seq(S)
      PROVE  s \in good
  <2>1. Len(s) \in Nat
    BY LenProperties
  <2>2. QED
    BY <1>1, <2>1
<1>3. QED
  BY <1>2

-----------------------------------------------------------------------------
(* What is left of a text.                                                 *)

(* What is left, element by element.                                       *)
Left(g, s, some, S) ==
  /\ g \in [0 .. Len(s) -> Seq(S)] /\ g[0] = << >>
  /\ \A k \in 1 .. Len(s) :
       g[k] = IF s[k] \in some THEN g[k - 1] ELSE Append(g[k - 1], s[k])

(* Without is what its recursive definition says.                          *)
LEMMA WithoutDefined ==
  ASSUME NEW S, NEW s \in Seq(S), NEW some
  PROVE  \E g : Left(g, s, some, S) /\ Without(s, some) = g[Len(s)]
<1> DEFINE N == Len(s)
           V == Seq(S)
           after(v, k) == IF s[k] \in some THEN v ELSE Append(v, s[k])
           step == [k \in 1 .. N |-> [v \in V |-> after(v, k)]]
<1>1. N \in Nat /\ \A k \in 1 .. N : s[k] \in S
  BY ElementOfSeq, LenProperties
<1>2. ASSUME NEW k \in 1 .. N, NEW v \in V
      PROVE  after(v, k) \in V
  BY <1>1, AppendProperties
<1>3. StepsOf(step, V, N)
  <2> HIDE DEF V, after
  <2>1. QED
    BY <1>2 DEF StepsOf
<1>4. << >> \in V
  OBVIOUS
<1>5. PICK g : Solves(g, V, N, << >>, step)
  <2> HIDE DEF V, N, step
  <2>1. QED
    BY <1>1, <1>3, <1>4, Recursion
<1>6. g \in [0 .. N -> V] /\ g[0] = << >>
  BY <1>5 DEF Solves
<1>7. ASSUME NEW k \in 1 .. N
      PROVE  g[k] = after(g[k - 1], k)
  <2>1. k - 1 \in 0 .. N
    BY <1>1
  <2>2. g[k - 1] \in V /\ g[k] = step[k][g[k - 1]]
    BY <1>5, <1>6, <2>1 DEF Solves
  <2> HIDE DEF V, after
  <2>3. QED
    BY <2>2
<1>8. g = [k \in 0 .. N |-> IF k = 0 THEN << >> ELSE after(g[k - 1], k)]
  <2> DEFINE h == [k \in 0 .. N |-> IF k = 0 THEN << >> ELSE after(g[k - 1], k)]
  <2>1. ASSUME NEW k \in 0 .. N
        PROVE  g[k] = h[k]
    <3> HIDE DEF after
    <3>1. CASE k = 0
      BY <1>6, <3>1
    <3>2. CASE k # 0
      <4>1. k \in 1 .. N
        BY <1>1, <3>2
      <4>2. QED
        BY <1>7, <3>2, <4>1
    <3>3. QED
      BY <3>1, <3>2
  <2> HIDE DEF V, after
  <2>2. QED
    BY <1>6, <2>1
<1> DEFINE Is(f) == f = [k \in 0 .. Len(s) |-> IF k = 0 THEN << >>
                           ELSE IF s[k] \in some THEN f[k - 1] ELSE Append(f[k - 1], s[k])]
           p == CHOOSE f : Is(f)
           good == { k \in 0 .. N : p[k] = g[k] }
<1>9. Is(g)
  BY <1>8
<1>10. Is(p)
  <2> HIDE DEF Is
  <2>1. QED
    BY <1>9
<1>11. Without(s, some) = p[N]
  BY Zenon DEF Without
<1> HIDE DEF p
<1>12. /\ p[0] = << >>
       /\ \A k \in 1 .. N : p[k] = after(p[k - 1], k)
  <2>1. 0 \in 0 .. N /\ \A k \in 1 .. N : k \in 0 .. N /\ k # 0
    BY <1>1
  <2>2. p[0] = << >>
    BY <1>10, <2>1
  <2>3. ASSUME NEW k \in 1 .. N
        PROVE  p[k] = after(p[k - 1], k)
    BY <1>10, <2>1
  <2>4. QED
    BY <2>2, <2>3
<1>13. \A k \in 0 .. N : p[k] = g[k]
  <2>1. 0 \in good
    <3>1. p[0] = g[0]
      BY <1>6, <1>12
    <3>2. 0 \in 0 .. N
      BY <1>1
    <3>3. QED
      BY <3>1, <3>2
  <2>2. ASSUME NEW k \in 1 .. N, k - 1 \in good
        PROVE  k \in good
    <3> HIDE DEF after
    <3>1. p[k - 1] = g[k - 1] /\ k \in 0 .. N
      BY <1>1, <2>2
    <3>2. QED
      BY <1>7, <1>12, <3>1
  <2>3. Inherited(good, N)
    <3> HIDE DEF good
    <3>1. QED
      BY <2>1, <2>2 DEF Inherited
  <2>4. \A k \in 0 .. N : k \in good
    <3> HIDE DEF good
    <3>1. QED
      BY <1>1, <2>3, Induction
  <2>5. QED
    BY <2>4
<1>14. Without(s, some) = g[N]
  <2>1. N \in 0 .. N
    BY <1>1
  <2>2. QED
    BY <1>11, <1>13, <2>1
<1>15. Left(g, s, some, S)
  BY <1>6, <1>7 DEF Left
<1>16. QED
  BY <1>14, <1>15

(* A text of no pieces.                                                    *)
LEMMA NoText ==
  ASSUME NEW S
  PROVE  \E none \in Seq(S) : none = << >>
<1>1. << >> \in Seq(S)
  OBVIOUS
<1>2. QED
  BY <1>1, Zenon

(* Appending to the second part of a sequence.                             *)
LEMMA ConcatAppend ==
  ASSUME NEW S, NEW s \in Seq(S), NEW t \in Seq(S), NEW x \in S
  PROVE  s \o Append(t, x) = Append(s \o t, x)
<1>1. << x >> \in Seq(S) /\ s \o t \in Seq(S)
  BY ConcatProperties
<1>2. Append(t, x) = t \o << x >> /\ Append(s \o t, x) = (s \o t) \o << x >>
  BY <1>1, AppendIsConcat
<1>3. QED
  BY <1>1, <1>2, ConcatAssociative

(* Nothing is left of nothing, and of a text that grows what grows.        *)
Removes(some, S) ==
  /\ Without(<< >>, some) = << >>
  /\ \A s \in Seq(S) :
       /\ Without(s, some) \in Seq(S)
       /\ \A x \in S :
            Without(Append(s, x), some) =
              IF x \in some THEN Without(s, some) ELSE Append(Without(s, some), x)

(* Without removes pieces one by one.                                      *)
LEMMA WithoutGrows ==
  ASSUME NEW S, NEW some
  PROVE  Removes(some, S)
<1>1. Without(<< >>, some) = << >>
  <2>1. PICK none \in Seq(S) : none = << >>
    BY NoText
  <2>2. PICK g : Left(g, none, some, S) /\ Without(none, some) = g[Len(none)]
    BY WithoutDefined
  <2>3. Len(none) = 0
    BY <2>1
  <2>4. QED
    BY <2>1, <2>2, <2>3 DEF Left
<1>2. ASSUME NEW s \in Seq(S)
      PROVE  Without(s, some) \in Seq(S)
  <2>1. PICK g : Left(g, s, some, S) /\ Without(s, some) = g[Len(s)]
    BY WithoutDefined
  <2>2. Len(s) \in 0 .. Len(s)
    BY LenProperties
  <2>3. QED
    BY <2>1, <2>2 DEF Left
<1>3. ASSUME NEW s \in Seq(S), NEW x \in S
      PROVE  Without(Append(s, x), some) =
               IF x \in some THEN Without(s, some) ELSE Append(Without(s, some), x)
  <2> DEFINE t == Append(s, x)
             N == Len(s)
  <2>1. PICK g : Left(g, s, some, S) /\ Without(s, some) = g[N]
    BY WithoutDefined
  <2>2. N \in Nat /\ t \in Seq(S) /\ Len(t) = N + 1 /\ t[N + 1] = x
        /\ \A k \in 1 .. N : t[k] = s[k]
    BY AppendProperties, LenProperties
  <2> HIDE DEF t
  <2>3. PICK h : Left(h, t, some, S) /\ Without(t, some) = h[N + 1]
    BY <2>2, WithoutDefined
  <2> HIDE DEF N
  <2> DEFINE good == { k \in 0 .. N : h[k] = g[k] }
  <2>4. g[0] = << >> /\ h[0] = << >>
    BY <2>1, <2>3 DEF Left
  <2>5. ASSUME NEW k \in 1 .. N
        PROVE  /\ g[k] = IF s[k] \in some THEN g[k - 1] ELSE Append(g[k - 1], s[k])
               /\ h[k] = IF s[k] \in some THEN h[k - 1] ELSE Append(h[k - 1], s[k])
    <3>1. k \in 1 .. N + 1 /\ t[k] = s[k]
      BY <2>2
    <3>2. QED
      BY <2>1, <2>2, <2>3, <3>1 DEF Left, N
  <2>6. N \in good
    <3>1. 0 \in good
      BY <2>2, <2>4
    <3>2. ASSUME NEW k \in 1 .. N, k - 1 \in good
          PROVE  k \in good
      <4>1. h[k - 1] = g[k - 1] /\ k \in 0 .. N
        BY <2>2, <3>2
      <4>2. QED
        BY <2>5, <4>1
    <3>3. Inherited(good, N)
      <4> HIDE DEF good
      <4>1. QED
        BY <3>1, <3>2 DEF Inherited
    <3>4. N \in 0 .. N
      BY <2>2
    <3> HIDE DEF good
    <3>5. QED
      BY <2>2, <3>3, <3>4, Induction
  <2>7. h[N + 1] = IF x \in some THEN h[N] ELSE Append(h[N], x)
    <3>1. N + 1 \in 1 .. N + 1 /\ N + 1 - 1 = N
      BY <2>2
    <3>2. h[N + 1] = IF t[N + 1] \in some THEN h[N + 1 - 1] ELSE Append(h[N + 1 - 1], t[N + 1])
      BY <2>2, <2>3, <3>1 DEF Left
    <3>3. QED
      BY <2>2, <3>1, <3>2
  <2>8. h[N] = g[N]
    BY <2>6
  <2>9. QED
    BY <2>1, <2>3, <2>7, <2>8 DEF t
<1>4. QED
  BY <1>1, <1>2, <1>3 DEF Removes

(* What is left of two texts is what is left of each.                      *)
LEMMA WithoutConcat ==
  ASSUME NEW S, NEW some, NEW s \in Seq(S), NEW t \in Seq(S)
  PROVE  Without(s \o t, some) = Without(s, some) \o Without(t, some)
<1> DEFINE good == { u \in Seq(S) :
                       Without(s \o u, some) = Without(s, some) \o Without(u, some) }
           L == Without(s, some)
<1>0. Removes(some, S)
  BY WithoutGrows
<1>1. /\ Without(<< >>, some) = << >>
      /\ \A u \in Seq(S) : Without(u, some) \in Seq(S)
      /\ \A u \in Seq(S), x \in S :
           Without(Append(u, x), some) =
             IF x \in some THEN Without(u, some) ELSE Append(Without(u, some), x)
  BY <1>0 DEF Removes
<1>2. << >> \in good
  <2>1. << >> \in Seq(S) /\ s \o << >> = s
    BY ConcatEmptySeq
  <2>2. L \o << >> = L
    BY <1>1, ConcatEmptySeq
  <2>3. QED
    BY <1>1, <2>1, <2>2
<1>3. ASSUME NEW u \in Seq(S), NEW x \in S, u \in good
      PROVE  Append(u, x) \in good
  <2> DEFINE U == Without(u, some)
  <2>1. Append(u, x) \in Seq(S) /\ s \o u \in Seq(S)
    BY AppendProperties, ConcatProperties
  <2>2. s \o Append(u, x) = Append(s \o u, x)
    BY ConcatAppend
  <2>3. U \in Seq(S) /\ L \in Seq(S)
    BY <1>1
  <2>4. Without(s \o u, some) = L \o U
    BY <1>3
  <2>5. L \o Append(U, x) = Append(L \o U, x)
    <3> HIDE DEF L, U
    <3>1. QED
      BY <2>3, ConcatAppend
  <2>6. Without(Append(s \o u, x), some) = IF x \in some THEN L \o U ELSE Append(L \o U, x)
    BY <1>1, <2>1, <2>4
  <2>7. Without(Append(u, x), some) = IF x \in some THEN U ELSE Append(U, x)
    BY <1>1
  <2> HIDE DEF L, U
  <2>8. Without(s \o Append(u, x), some) = L \o Without(Append(u, x), some)
    BY <2>2, <2>5, <2>6, <2>7
  <2>9. QED
    BY <2>1, <2>8 DEF L
<1>4. \A u \in Seq(S) : u \in good
  <2> HIDE DEF good
  <2>1. QED
    BY <1>2, <1>3, SnocInduction
<1>5. QED
  BY <1>4

(* What is left of one piece.                                              *)
LEMMA WithoutOne ==
  ASSUME NEW S, NEW some, NEW x \in S
  PROVE  Without(<< x >>, some) = IF x \in some THEN << >> ELSE << x >>
<1>0. Removes(some, S)
  BY WithoutGrows
<1>1. PICK none \in Seq(S) : none = << >>
  BY NoText
<1>2. Without(Append(none, x), some) =
        IF x \in some THEN Without(none, some) ELSE Append(Without(none, some), x)
  BY <1>0 DEF Removes
<1>3. Without(none, some) = none /\ Append(none, x) = << x >>
  BY <1>0, <1>1 DEF Removes
<1>4. QED
  BY <1>1, <1>2, <1>3

(* Removing some pieces first makes no difference.                         *)
LEMMA WithoutTwice ==
  ASSUME NEW S, NEW some, NEW few \in SUBSET some, NEW s \in Seq(S)
  PROVE  Without(Without(s, few), some) = Without(s, some)
<1> DEFINE good == { u \in Seq(S) : Without(Without(u, few), some) = Without(u, some) }
<1>1. Removes(few, S) /\ Removes(some, S)
  BY WithoutGrows
<1>2. << >> \in good
  <2>1. Without(<< >>, few) = << >> /\ Without(<< >>, some) = << >>
    BY <1>1 DEF Removes
  <2>2. QED
    BY <2>1
<1>3. ASSUME NEW u \in Seq(S), NEW x \in S, u \in good
      PROVE  Append(u, x) \in good
  <2>1. Append(u, x) \in Seq(S) /\ Without(u, few) \in Seq(S)
    BY <1>1, AppendProperties DEF Removes
  <2>2. Without(Append(u, x), few) =
          IF x \in few THEN Without(u, few) ELSE Append(Without(u, few), x)
    BY <1>1 DEF Removes
  <2>3. Without(Append(u, x), some) =
          IF x \in some THEN Without(u, some) ELSE Append(Without(u, some), x)
    BY <1>1 DEF Removes
  <2>4. Without(Append(Without(u, few), x), some) =
          IF x \in some THEN Without(Without(u, few), some)
          ELSE Append(Without(Without(u, few), some), x)
    BY <1>1, <2>1 DEF Removes
  <2>5. Without(Without(u, few), some) = Without(u, some)
    BY <1>3
  <2>6. Without(Without(Append(u, x), few), some) = Without(Append(u, x), some)
    BY <2>2, <2>3, <2>4, <2>5
  <2>7. QED
    BY <2>1, <2>6
<1>4. \A u \in Seq(S) : u \in good
  <2> HIDE DEF good
  <2>1. QED
    BY <1>2, <1>3, SnocInduction
<1>5. QED
  BY <1>4

-----------------------------------------------------------------------------
(* Texts of several parts.                                                 *)

(* The parts one after the other.                                          *)
Chained(g, ss, S) ==
  /\ g \in [0 .. Len(ss) -> Seq(S)] /\ g[0] = << >>
  /\ \A k \in 1 .. Len(ss) : g[k] = g[k - 1] \o ss[k]

(* FlattenSeq is what its recursive definition says.                       *)
LEMMA FlattenDefined ==
  ASSUME NEW S, NEW ss \in Seq(Seq(S))
  PROVE  \E g : Chained(g, ss, S) /\ FlattenSeq(ss) = g[Len(ss)]
<1> DEFINE N == Len(ss)
           V == Seq(S)
           step == [k \in 1 .. N |-> [v \in V |-> v \o ss[k]]]
<1>1. N \in Nat /\ \A k \in 1 .. N : ss[k] \in V
  <2> HIDE DEF V
  <2>1. QED
    BY ElementOfSeq, LenProperties DEF V
<1>2. ASSUME NEW k \in 1 .. N, NEW v \in V
      PROVE  v \o ss[k] \in V
  BY <1>1, ConcatProperties
<1>3. StepsOf(step, V, N)
  <2> HIDE DEF V
  <2>1. QED
    BY <1>2 DEF StepsOf
<1>4. << >> \in V
  OBVIOUS
<1>5. PICK g : Solves(g, V, N, << >>, step)
  <2> HIDE DEF V, N, step
  <2>1. QED
    BY <1>1, <1>3, <1>4, Recursion
<1>6. g \in [0 .. N -> V] /\ g[0] = << >>
  BY <1>5 DEF Solves
<1>7. ASSUME NEW k \in 1 .. N
      PROVE  g[k] = g[k - 1] \o ss[k]
  <2>1. k - 1 \in 0 .. N
    BY <1>1
  <2>2. g[k - 1] \in V /\ g[k] = step[k][g[k - 1]]
    BY <1>5, <1>6, <2>1 DEF Solves
  <2> HIDE DEF V
  <2>3. QED
    BY <2>2
<1>8. Chained(g, ss, S)
  BY <1>6, <1>7 DEF Chained
<1>9. FlattenSeq(ss) = g[N]
  <2>1. CASE N = 0
    <3>1. ss = << >>
      <4> HIDE DEF V
      <4>1. QED
        BY <2>1, EmptySeq DEF V
    <3>2. QED
      BY <1>6, <2>1, <3>1 DEF FlattenSeq
  <2>2. CASE N # 0
    <3> DEFINE Is(f) == f = [i \in 1 .. Len(ss) |->
                               IF i = 1 THEN ss[i] ELSE f[i - 1] \o ss[i]]
               p == CHOOSE f : Is(f)
               h == [i \in 1 .. N |-> g[i]]
               good == { k \in 0 .. N : k = 0 \/ p[k] = g[k] }
    <3>1. g[1] = ss[1]
      <4>1. 1 \in 1 .. N /\ 1 - 1 = 0
        BY <1>1, <2>2
      <4>2. g[1] = g[0] \o ss[1] /\ ss[1] \in V
        BY <1>1, <1>7, <4>1
      <4> HIDE DEF V
      <4>3. QED
        BY <1>6, <4>2, ConcatEmptySeq DEF V
    <3>2. Is(h)
      <4> DEFINE e == [i \in 1 .. N |-> IF i = 1 THEN ss[i] ELSE h[i - 1] \o ss[i]]
      <4>1. ASSUME NEW i \in 1 .. N
            PROVE  h[i] = e[i]
        <5>1. CASE i = 1
          BY <3>1, <5>1
        <5>2. CASE i # 1
          <6>1. i - 1 \in 1 .. N
            BY <1>1, <5>2
          <6>2. h[i - 1] = g[i - 1] /\ h[i] = g[i]
            BY <6>1
          <6>3. e[i] = h[i - 1] \o ss[i]
            BY <5>2
          <6>4. QED
            BY <1>7, <6>2, <6>3
        <5>3. QED
          BY <5>1, <5>2
      <4>2. h = e
        <5> HIDE DEF V
        <5>1. QED
          BY <4>1
      <4>3. QED
        BY <4>2
    <3>3. Is(p)
      <4> HIDE DEF Is
      <4>1. QED
        BY <3>2
    <3>4. FlattenSeq(ss) = p[N]
      BY <2>2, Zenon DEF FlattenSeq
    <3> HIDE DEF p
    <3>5. ASSUME NEW k \in 1 .. N
          PROVE  p[k] = IF k = 1 THEN ss[k] ELSE p[k - 1] \o ss[k]
      BY <3>3
    <3>6. ASSUME NEW k \in 1 .. N, k - 1 \in good
          PROVE  k \in good
      <4>1. k \in 0 .. N
        BY <1>1
      <4>2. CASE k = 1
        BY <3>1, <3>5, <4>1, <4>2
      <4>3. CASE k # 1
        <5>1. p[k - 1] = g[k - 1]
          <6>1. k - 1 # 0
            BY <4>3
          <6>2. QED
            BY <3>6, <6>1
        <5>2. p[k] = p[k - 1] \o ss[k]
          BY <3>5, <4>3
        <5>3. p[k] = g[k]
          BY <1>7, <5>1, <5>2
        <5>4. QED
          BY <4>1, <5>3
      <4>4. QED
        BY <4>2, <4>3
    <3>7. Inherited(good, N)
      <4>1. 0 \in good
        BY <1>1
      <4> HIDE DEF good
      <4>2. QED
        BY <3>6, <4>1 DEF Inherited
    <3>8. N \in good
      <4>1. N \in 0 .. N
        BY <1>1
      <4> HIDE DEF good
      <4>2. QED
        BY <1>1, <3>7, <4>1, Induction
    <3>9. QED
      BY <2>2, <3>4, <3>8
  <2>3. QED
    BY <2>1, <2>2
<1>10. QED
  BY <1>8, <1>9

(* A sequence cut in two.                                                  *)
LEMMA Cut ==
  ASSUME NEW S, NEW s \in Seq(S), NEW k \in 0 .. Len(s)
  PROVE  /\ SubSeq(s, 1, k) \in Seq(S)
         /\ SubSeq(s, k + 1, Len(s)) \in Seq(S)
         /\ Len(SubSeq(s, 1, k)) = k
         /\ SubSeq(s, 1, k) \o SubSeq(s, k + 1, Len(s)) = s
<1> DEFINE n == Len(s)
           a == SubSeq(s, 1, k)
           b == SubSeq(s, k + 1, n)
<1>1. n \in Nat /\ k \in Nat /\ k <= n
  BY LenProperties
<1>2. \A i \in 1 .. n : s[i] \in S
  BY ElementOfSeq
<1>3. a \in Seq(S) /\ Len(a) = k /\ \A i \in 1 .. k : a[i] = s[i]
  BY <1>1, <1>2, SubSeqProperties
<1>4. b \in Seq(S) /\ Len(b) = n - k /\ \A i \in 1 .. n - k : b[i] = s[k + i]
  <2>1. /\ k + 1 \in Int /\ n \in Int /\ \A i \in k + 1 .. n : s[i] \in S
        /\ (IF k + 1 <= n THEN n - (k + 1) + 1 ELSE 0) = n - k
        /\ n - (k + 1) + 1 = n - k
    BY <1>1, <1>2
  <2>2. /\ b \in Seq(S) /\ Len(b) = IF k + 1 <= n THEN n - (k + 1) + 1 ELSE 0
        /\ \A i \in 1 .. n - (k + 1) + 1 : b[i] = s[k + 1 + i - 1]
    <3> DEFINE m == k + 1
    <3>1. m \in Int /\ n \in Int /\ \A i \in m .. n : s[i] \in S
      BY <2>1, Zenon
    <3> HIDE DEF m, n
    <3>2. /\ SubSeq(s, m, n) \in Seq(S)
          /\ Len(SubSeq(s, m, n)) = IF m <= n THEN n - m + 1 ELSE 0
          /\ \A i \in 1 .. n - m + 1 : SubSeq(s, m, n)[i] = s[m + i - 1]
      BY <3>1, SubSeqProperties
    <3>3. QED
      BY <3>2 DEF m
  <2> HIDE DEF b, n
  <2>3. \A i \in 1 .. n - k : k + 1 + i - 1 = k + i
    BY <1>1
  <2>4. QED
    BY <2>1, <2>2, <2>3
<1> HIDE DEF a, b
<1>5. /\ a \o b \in Seq(S) /\ Len(a \o b) = Len(a) + Len(b)
      /\ \A i \in 1 .. Len(a) + Len(b) : (a \o b)[i] = IF i <= Len(a) THEN a[i] ELSE b[i - Len(a)]
  BY <1>3, <1>4, ConcatProperties
<1>6. Len(a \o b) = n /\ Len(a) + Len(b) = n
  <2> HIDE DEF n
  <2>1. QED
    BY <1>1, <1>3, <1>4, <1>5
<1>7. ASSUME NEW i \in 1 .. n
      PROVE  (a \o b)[i] = s[i]
  <2> HIDE DEF n
  <2>1. (a \o b)[i] = IF i <= k THEN a[i] ELSE b[i - k]
    BY <1>3, <1>5, <1>6
  <2>2. CASE i <= k
    BY <1>1, <1>3, <2>1, <2>2
  <2>3. CASE ~(i <= k)
    <3>1. i - k \in 1 .. n - k /\ k + (i - k) = i
      BY <1>1, <2>3
    <3>2. QED
      BY <1>4, <2>1, <2>3, <3>1
  <2>4. QED
    BY <2>2, <2>3
<1>8. a \o b = s
  BY <1>5, <1>6, <1>7, SeqEqual
<1>9. QED
  BY <1>3, <1>4, <1>8 DEF a, b

(* A text that grows by a part.                                            *)
Flattens(S) ==
  /\ FlattenSeq(<< >>) = << >>
  /\ \A ss \in Seq(Seq(S)) :
       /\ FlattenSeq(ss) \in Seq(S)
       /\ \A x \in Seq(S) : FlattenSeq(Append(ss, x)) = FlattenSeq(ss) \o x

(* FlattenSeq appends part by part.                                        *)
LEMMA FlattenGrows ==
  ASSUME NEW S
  PROVE  Flattens(S)
<1>1. FlattenSeq(<< >>) = << >>
  BY DEF FlattenSeq
<1>2. ASSUME NEW ss \in Seq(Seq(S))
      PROVE  FlattenSeq(ss) \in Seq(S)
  <2>1. PICK g : Chained(g, ss, S) /\ FlattenSeq(ss) = g[Len(ss)]
    BY FlattenDefined
  <2>2. Len(ss) \in 0 .. Len(ss)
    BY LenProperties
  <2>3. QED
    BY <2>1, <2>2 DEF Chained
<1>3. ASSUME NEW ss \in Seq(Seq(S)), NEW x \in Seq(S)
      PROVE  FlattenSeq(Append(ss, x)) = FlattenSeq(ss) \o x
  <2> DEFINE tt == Append(ss, x)
             N == Len(ss)
             V == Seq(S)
  <2>1. PICK g : Chained(g, ss, S) /\ FlattenSeq(ss) = g[N]
    BY FlattenDefined
  <2>2. N \in Nat /\ tt \in Seq(V) /\ Len(tt) = N + 1 /\ tt[N + 1] = x
        /\ \A k \in 1 .. N : tt[k] = ss[k]
    <3>1. ss \in Seq(V) /\ x \in V
      OBVIOUS
    <3> HIDE DEF V
    <3>2. QED
      BY <3>1, AppendProperties, LenProperties
  <2> HIDE DEF tt
  <2>3. PICK h : Chained(h, tt, S) /\ FlattenSeq(tt) = h[N + 1]
    BY <2>2, FlattenDefined
  <2> HIDE DEF N
  <2> DEFINE good == { k \in 0 .. N : h[k] = g[k] }
  <2>4. g[0] = << >> /\ h[0] = << >>
    BY <2>1, <2>3 DEF Chained
  <2>5. ASSUME NEW k \in 1 .. N
        PROVE  g[k] = g[k - 1] \o ss[k] /\ h[k] = h[k - 1] \o ss[k]
    <3>1. k \in 1 .. N + 1 /\ tt[k] = ss[k]
      BY <2>2
    <3>2. QED
      BY <2>1, <2>2, <2>3, <3>1 DEF Chained, N
  <2>6. N \in good
    <3>1. 0 \in good
      BY <2>2, <2>4
    <3>2. ASSUME NEW k \in 1 .. N, k - 1 \in good
          PROVE  k \in good
      <4>1. h[k - 1] = g[k - 1] /\ k \in 0 .. N
        BY <2>2, <3>2
      <4>2. QED
        BY <2>5, <4>1
    <3>3. Inherited(good, N)
      <4> HIDE DEF good
      <4>1. QED
        BY <3>1, <3>2 DEF Inherited
    <3>4. N \in 0 .. N
      BY <2>2
    <3> HIDE DEF good
    <3>5. QED
      BY <2>2, <3>3, <3>4, Induction
  <2>7. h[N + 1] = h[N] \o x
    <3>1. PICK m \in 1 .. N + 1 : m = N + 1 /\ m - 1 = N
      BY <2>2
    <3>2. \A k \in 1 .. N + 1 : h[k] = h[k - 1] \o tt[k]
      BY <2>2, <2>3 DEF Chained
    <3>3. h[m] = h[m - 1] \o tt[m]
      BY <3>2
    <3>4. QED
      BY <2>2, <3>1, <3>3
  <2>8. h[N] = g[N]
    BY <2>6
  <2>9. QED
    BY <2>1, <2>3, <2>7, <2>8 DEF tt
<1>4. QED
  BY <1>1, <1>2, <1>3 DEF Flattens

-----------------------------------------------------------------------------
(* What a text says.                                                       *)

Markers == {Header, End, Think}

(* What a text says is again a text, and what two texts say is what each   *)
(* says.                                                                   *)
LEMMA ContentConcat ==
  ASSUME NEW s \in Seq(Piece), NEW t \in Seq(Piece)
  PROVE  /\ Content(s) \in Seq(Piece)
         /\ Content(s \o t) = Content(s) \o Content(t)
<1>1. Removes(Markers, Piece)
  BY WithoutGrows
<1>2. Without(s \o t, Markers) = Without(s, Markers) \o Without(t, Markers)
  BY WithoutConcat
<1>3. QED
  BY <1>1, <1>2 DEF Content, Removes, Markers

(* The markers of the template say nothing.                                *)
LEMMA ContentOfMarkers ==
  /\ << Header >> \in Seq(Piece) /\ Content(<< Header >>) = << >>
  /\ << End >> \in Seq(Piece) /\ Content(<< End >>) = << >>
  /\ Content(<< >>) = << >>
<1>1. Header \in Piece /\ End \in Piece /\ Header \in Markers /\ End \in Markers
  BY DEF Piece, Markers
<1>2. Without(<< Header >>, Markers) = << >> /\ Without(<< End >>, Markers) = << >>
  BY <1>1, WithoutOne
<1>3. Removes(Markers, Piece)
  BY WithoutGrows
<1>4. << Header >> \in Seq(Piece) /\ << End >> \in Seq(Piece)
  BY <1>1
<1>5. QED
  BY <1>2, <1>3, <1>4 DEF Content, Markers, Removes

(* Stripping the thinking of a text leaves what it says.                   *)
LEMMA ContentOfStripped ==
  ASSUME NEW s \in Seq(Piece)
  PROVE  /\ StripThink(s) \in Seq(Piece)
         /\ Content(StripThink(s)) = Content(s)
<1>1. {Think} \in SUBSET Markers
  BY DEF Markers
<1>2. Without(Without(s, {Think}), Markers) = Without(s, Markers)
  BY <1>1, WithoutTwice
<1>3. Removes({Think}, Piece)
  BY WithoutGrows
<1>4. QED
  BY <1>2, <1>3 DEF Content, StripThink, Removes, Markers

(* Markers around a text add nothing to what it says.                      *)
LEMMA ContentOfReply ==
  ASSUME NEW s \in Seq(Piece)
  PROVE  /\ << Header >> \o s \o << End >> \in Seq(Piece)
         /\ Content(<< Header >> \o s \o << End >>) = Content(s)
<1>1. << Header >> \in Seq(Piece) /\ << End >> \in Seq(Piece)
  BY ContentOfMarkers
<1>2. << Header >> \o s \in Seq(Piece)
  BY <1>1, ConcatProperties
<1>3. << Header >> \o s \o << End >> \in Seq(Piece)
  BY <1>1, <1>2, ConcatProperties
<1>4. Content(<< Header >> \o s) = Content(<< Header >>) \o Content(s)
  BY <1>1, ContentConcat
<1>5. Content(<< Header >> \o s \o << End >>) = Content(<< Header >> \o s) \o Content(<< End >>)
  BY <1>1, <1>2, ContentConcat
<1>6. Content(<< Header >>) = << >> /\ Content(<< End >>) = << >>
  BY ContentOfMarkers
<1>7. Content(s) \in Seq(Piece)
  BY ContentConcat
<1>8. Content(s) \o << >> = Content(s) /\ << >> \o Content(s) = Content(s)
  <2> HIDE DEF Content
  <2>1. QED
    BY <1>7, ConcatEmptySeq
<1>9. QED
  BY <1>3, <1>4, <1>5, <1>6, <1>8

(* The parts of two texts say the same, one by one.                        *)
Alike(ss, tt) ==
  /\ Len(ss) = Len(tt)
  /\ \A i \in 1 .. Len(ss) : Content(ss[i]) = Content(tt[i])

(* Texts whose parts say the same say the same.                            *)
LEMMA AlikeFlatten ==
  ASSUME NEW ss \in Seq(Seq(Piece)), NEW tt \in Seq(Seq(Piece)), Alike(ss, tt)
  PROVE  Content(FlattenSeq(ss)) = Content(FlattenSeq(tt))
<1> DEFINE V == Seq(Piece)
           good == { u \in Seq(V) : \A w \in Seq(V) :
                       Alike(u, w) => Content(FlattenSeq(u)) = Content(FlattenSeq(w)) }
<1>0. Flattens(Piece)
  BY FlattenGrows
<1>1. << >> \in good
  <2>1. << >> \in Seq(V)
    OBVIOUS
  <2>2. ASSUME NEW w \in Seq(V), Alike(<< >>, w)
        PROVE  w = << >>
    <3>1. Len(w) = 0
      BY <2>2 DEF Alike
    <3> HIDE DEF V
    <3>2. QED
      BY <3>1, EmptySeq
  <2>3. ASSUME NEW w \in Seq(V), Alike(<< >>, w)
        PROVE  Content(FlattenSeq(<< >>)) = Content(FlattenSeq(w))
    BY <2>2, <2>3
  <2> HIDE DEF V
  <2>4. QED
    BY <2>1, <2>3
<1>2. ASSUME NEW u \in Seq(V), NEW x \in V, u \in good
      PROVE  Append(u, x) \in good
  <2>1. Append(u, x) \in Seq(V) /\ Len(Append(u, x)) = Len(u) + 1
        /\ Append(u, x)[Len(u) + 1] = x
        /\ (\A i \in 1 .. Len(u) : Append(u, x)[i] = u[i])
        /\ Len(u) \in Nat
    <3> HIDE DEF V
    <3>1. QED
      BY AppendProperties, LenProperties
  <2>2. ASSUME NEW w \in Seq(V), Alike(Append(u, x), w)
        PROVE  Content(FlattenSeq(Append(u, x))) = Content(FlattenSeq(w))
    <3>1. w # << >>
      BY <2>1, <2>2 DEF Alike
    <3>2. PICK v \in Seq(V), y \in V : w = Append(v, y)
      <4> HIDE DEF V
      <4>1. QED
        BY <3>1, SequenceEmptyOrAppend
    <3>3. Len(w) = Len(v) + 1 /\ w[Len(v) + 1] = y /\ Len(v) \in Nat
          /\ \A i \in 1 .. Len(v) : w[i] = v[i]
      <4> HIDE DEF V
      <4>1. QED
        BY <3>2, AppendProperties, LenProperties
    <3>4. Len(v) = Len(u)
      BY <2>1, <2>2, <3>3 DEF Alike
    <3>5. Content(x) = Content(y)
      <4>1. Len(u) + 1 \in 1 .. Len(Append(u, x))
        BY <2>1
      <4>2. Content(Append(u, x)[Len(u) + 1]) = Content(w[Len(u) + 1])
        BY <2>2, <4>1, Zenon DEF Alike
      <4>3. QED
        BY <2>1, <3>3, <3>4, <4>2
    <3>6. Alike(u, v)
      <4>1. ASSUME NEW i \in 1 .. Len(u)
            PROVE  Content(u[i]) = Content(v[i])
        <5>1. i \in 1 .. Len(Append(u, x))
          BY <2>1
        <5>2. Content(Append(u, x)[i]) = Content(w[i])
          BY <2>2, <5>1, Zenon DEF Alike
        <5>3. QED
          BY <2>1, <3>3, <3>4, <5>2
      <4>2. QED
        BY <3>4, <4>1 DEF Alike
    <3>7. Content(FlattenSeq(u)) = Content(FlattenSeq(v))
      BY <1>2, <3>6
    <3>8. /\ FlattenSeq(u) \in Seq(Piece) /\ FlattenSeq(v) \in Seq(Piece)
          /\ FlattenSeq(Append(u, x)) = FlattenSeq(u) \o x
          /\ FlattenSeq(w) = FlattenSeq(v) \o y
      BY <1>0, <3>2 DEF Flattens
    <3>9. Content(FlattenSeq(u) \o x) = Content(FlattenSeq(u)) \o Content(x)
      BY <3>8, ContentConcat
    <3>10. Content(FlattenSeq(v) \o y) = Content(FlattenSeq(v)) \o Content(y)
      BY <3>8, ContentConcat
    <3>11. QED
      BY <3>5, <3>7, <3>8, <3>9, <3>10
  <2> HIDE DEF V
  <2>3. QED
    BY <2>1, <2>2
<1>3. \A u \in Seq(V) : u \in good
  <2> HIDE DEF good, V
  <2>1. QED
    BY <1>1, <1>2, SnocInduction
<1>4. QED
  BY <1>3

-----------------------------------------------------------------------------
(* What a conversation says.                                               *)

(* What its messages say, whatever the template makes of them.             *)
Gist(msgs) == Content(FlattenSeq([ i \in 1 .. Len(msgs) |-> msgs[i].text ]))

Opening == Content(<< Bos >>)

(* A sequence made element by element.                                     *)
LEMMA Made ==
  ASSUME NEW S, NEW n \in Nat, NEW f, f \in [1 .. n -> S]
  PROVE  f \in Seq(S) /\ Len(f) = n
OBVIOUS

(* A message has a text.                                                   *)
LEMMA MessageText ==
  ASSUME NEW msgs \in Seq(Message), NEW i \in 1 .. Len(msgs)
  PROVE  msgs[i].text \in Seq(Piece)
<1>1. msgs[i] \in Message
  BY ElementOfSeq
<1>2. QED
  BY <1>1 DEF Message

(* However the template renders a conversation, the text says what the     *)
(* messages say.                                                           *)
LEMMA TextSaysGist ==
  ASSUME NEW msgs \in Seq(Message)
  PROVE  /\ Text(msgs) \in Seq(Piece)
         /\ Content(Text(msgs)) = Gist(msgs)
         /\ Gist(msgs) \in Seq(Piece)
<1> DEFINE N == Len(msgs)
           V == Seq(Piece)
           answered(i) == \E j \in i .. Len(msgs) : msgs[j].role = "user"
           Plain(i) == IF template = "drops" /\ answered(i) THEN StripThink(msgs[i].text)
                       ELSE msgs[i].text
           Rendered(i) ==
             IF msgs[i].role = "user" THEN msgs[i].text
             ELSE << Header >> \o Plain(i) \o << End >>
           ss == [ i \in 1 .. N |-> Rendered(i) ]
           tt == [ i \in 1 .. N |-> msgs[i].text ]
<1>1. N \in Nat
  BY LenProperties
<1>2. ASSUME NEW i \in 1 .. N
      PROVE  /\ msgs[i].text \in V
             /\ Rendered(i) \in V
             /\ Content(Rendered(i)) = Content(msgs[i].text)
  <2>1. msgs[i].text \in V
    BY MessageText
  <2>2. Plain(i) \in V /\ Content(Plain(i)) = Content(msgs[i].text)
    <3> HIDE DEF answered
    <3>1. QED
      BY <2>1, ContentOfStripped
  <2> HIDE DEF Plain
  <2>3. << Header >> \o Plain(i) \o << End >> \in V
        /\ Content(<< Header >> \o Plain(i) \o << End >>) = Content(Plain(i))
    BY <2>2, ContentOfReply
  <2>4. QED
    BY <2>1, <2>2, <2>3
<1>3. ss \in Seq(V) /\ Len(ss) = N
  <2>1. ss \in [1 .. N -> V]
    <3> HIDE DEF V, Rendered
    <3>1. QED
      BY <1>2
  <2> HIDE DEF ss, V, N
  <2>2. QED
    BY <1>1, <2>1, Made
<1>4. tt \in Seq(V) /\ Len(tt) = N
  <2>1. tt \in [1 .. N -> V]
    <3> HIDE DEF V
    <3>1. QED
      BY <1>2
  <2> HIDE DEF tt, V, N
  <2>2. QED
    BY <1>1, <2>1, Made
<1>5. Alike(ss, tt)
  <2>1. ASSUME NEW i \in 1 .. N
        PROVE  Content(ss[i]) = Content(tt[i])
    <3> HIDE DEF Rendered
    <3>1. ss[i] = Rendered(i) /\ tt[i] = msgs[i].text
      OBVIOUS
    <3>2. QED
      BY <1>2, <3>1
  <2> HIDE DEF ss, tt
  <2>2. QED
    BY <1>3, <1>4, <2>1 DEF Alike
<1>6. Text(msgs) = FlattenSeq(ss)
  BY DEF Text
<1>7. Gist(msgs) = Content(FlattenSeq(tt))
  BY DEF Gist
<1> HIDE DEF ss, tt
<1>8. Content(FlattenSeq(ss)) = Content(FlattenSeq(tt))
  BY <1>3, <1>4, <1>5, AlikeFlatten
<1>9. FlattenSeq(ss) \in Seq(Piece)
  <2>1. Flattens(Piece)
    BY FlattenGrows
  <2>2. QED
    BY <1>3, <2>1 DEF Flattens
<1>10. Content(FlattenSeq(ss)) \in Seq(Piece)
  BY <1>9, ContentConcat
<1>11. QED
  BY <1>6, <1>7, <1>8, <1>9, <1>10

(* A conversation that grows by a message.                                 *)
LEMMA GistGrows ==
  ASSUME NEW msgs \in Seq(Message), NEW m \in Message
  PROVE  /\ Append(msgs, m) \in Seq(Message)
         /\ Gist(Append(msgs, m)) = Gist(msgs) \o Content(m.text)
<1> DEFINE N == Len(msgs)
           V == Seq(Piece)
           more == Append(msgs, m)
           tt == [ i \in 1 .. N |-> msgs[i].text ]
           uu == [ i \in 1 .. Len(more) |-> more[i].text ]
<1>1. /\ N \in Nat /\ more \in Seq(Message) /\ Len(more) = N + 1 /\ more[N + 1] = m
      /\ \A i \in 1 .. N : more[i] = msgs[i]
  BY AppendProperties, LenProperties
<1> HIDE DEF more
<1>2. m.text \in V
  BY DEF Message
<1>3. tt \in Seq(V) /\ Len(tt) = N
  <2>1. tt \in [1 .. N -> V]
    <3> HIDE DEF V
    <3>1. QED
      BY MessageText DEF V
  <2> HIDE DEF tt, V, N
  <2>2. QED
    BY <1>1, <2>1, Made
<1>4. uu \in Seq(V) /\ Len(uu) = N + 1
  <2>1. uu \in [1 .. N + 1 -> V]
    <3> HIDE DEF V
    <3>1. QED
      BY <1>1, MessageText DEF V
  <2> HIDE DEF uu, V, N
  <2>2. QED
    BY <1>1, <2>1, Made
<1>5. uu = Append(tt, m.text)
  <2> DEFINE vv == Append(tt, m.text)
  <2>1. /\ vv \in Seq(V) /\ Len(vv) = N + 1 /\ vv[N + 1] = m.text
        /\ \A i \in 1 .. N : vv[i] = tt[i]
    <3> HIDE DEF tt, V, N
    <3>1. QED
      BY <1>2, <1>3, AppendProperties
  <2>2. ASSUME NEW i \in 1 .. N + 1
        PROVE  uu[i] = vv[i]
    <3>1. uu[i] = more[i].text
      BY <1>1
    <3>2. CASE i = N + 1
      <4> HIDE DEF uu, vv
      <4>1. QED
        BY <1>1, <2>1, <3>1, <3>2
    <3>3. CASE i # N + 1
      <4>1. i \in 1 .. N
        BY <1>1, <3>3
      <4>2. tt[i] = msgs[i].text
        BY <4>1
      <4> HIDE DEF uu, vv, tt
      <4>3. QED
        BY <1>1, <2>1, <3>1, <4>1, <4>2
    <3>4. QED
      BY <3>2, <3>3
  <2> HIDE DEF uu, vv, V
  <2>3. uu = vv
    BY <1>4, <2>1, <2>2, SeqEqual
  <2>4. QED
    BY <2>3 DEF vv
<1>6. Gist(more) = Content(FlattenSeq(uu)) /\ Gist(msgs) = Content(FlattenSeq(tt))
  BY DEF Gist
<1> HIDE DEF uu, tt
<1>7. Flattens(Piece)
  BY FlattenGrows
<1>8. FlattenSeq(uu) = FlattenSeq(tt) \o m.text /\ FlattenSeq(tt) \in Seq(Piece)
  BY <1>2, <1>3, <1>5, <1>7 DEF Flattens
<1>9. Content(FlattenSeq(tt) \o m.text) = Content(FlattenSeq(tt)) \o Content(m.text)
  BY <1>2, <1>8, ContentConcat
<1>10. QED
  BY <1>1, <1>6, <1>8, <1>9 DEF more

(* The prompt of a request says what its messages say.                     *)
LEMMA EncodedSaysGist ==
  ASSUME NEW msgs \in Seq(Message)
  PROVE  /\ Encoded(msgs) \in Seq(Piece)
         /\ Encoded(msgs) # << >>
         /\ Opening \in Seq(Piece)
         /\ Content(Encoded(msgs)) = Opening \o Gist(msgs)
<1> DEFINE T == Text(msgs)
           G == Gist(msgs)
<1>1. << Bos >> \in Seq(Piece) /\ << Header >> \in Seq(Piece)
  BY DEF Piece
<1>2. T \in Seq(Piece) /\ Content(T) = G /\ G \in Seq(Piece)
  BY TextSaysGist
<1>3. Encoded(msgs) = << Bos >> \o T \o << Header >>
  BY DEF Encoded
<1> HIDE DEF T, G
<1>4. << Bos >> \o T \in Seq(Piece)
  BY <1>1, <1>2, ConcatProperties
<1>5. << Bos >> \o T \o << Header >> \in Seq(Piece)
  BY <1>1, <1>4, ConcatProperties
<1>6. << Bos >> \o T \o << Header >> # << >>
  <2>1. << Header >> # << >>
    OBVIOUS
  <2>2. QED
    BY <1>1, <1>4, <2>1, ConcatEqualIffEmpty
<1>7. Opening \in Seq(Piece) /\ Content(<< Bos >> \o T) = Opening \o G
  BY <1>1, <1>2, ContentConcat DEF Opening
<1>8. Content(<< Bos >> \o T \o << Header >>) = (Opening \o G) \o << >>
  BY <1>1, <1>4, <1>7, ContentConcat, ContentOfMarkers
<1>9. Opening \o G \in Seq(Piece)
  BY <1>2, <1>7, ConcatProperties
<1>10. (Opening \o G) \o << >> = Opening \o G
  BY <1>9, ConcatEmptySeq
<1>11. QED
  BY <1>3, <1>5, <1>6, <1>7, <1>8, <1>10 DEF G

(* A request that goes on from the cached text: what is cached and the     *)
(* suffix together are the prompt.                                         *)
LEMMA SuffixContinues ==
  ASSUME NEW msgs \in Seq(Message), cachedText \in Seq(Piece),
         IsPrefix(cachedText, Text(msgs))
  PROVE  /\ Suffix(msgs) \in Seq(Piece)
         /\ (Opening \o Content(cachedText)) \o Content(Suffix(msgs)) = Opening \o Gist(msgs)
<1> DEFINE T == Text(msgs)
           E == Encoded(msgs)
           C == cachedText
           c == Len(C)
           n == Len(T)
           X == SubSeq(E, c + 2, Len(E))
           P == SubSeq(E, 1, c + 1)
<1>1. T \in Seq(Piece) /\ << Bos >> \in Seq(Piece) /\ << Header >> \in Seq(Piece)
  BY TextSaysGist DEF Piece
<1>2. E = << Bos >> \o T \o << Header >> /\ E \in Seq(Piece)
  BY EncodedSaysGist DEF Encoded
<1>3. c \in Nat /\ n \in Nat /\ c <= n /\ SubSeq(C, 1, c) = SubSeq(T, 1, c)
  BY <1>1, LenProperties DEF IsPrefix
<1>4. Suffix(msgs) = X
  <2>1. Len(<< Bos >>) + c + 1 = c + 2
    BY <1>3
  <2>2. QED
    BY <2>1 DEF Suffix
<1> HIDE DEF T, E
<1>5. Len(E) = n + 2 /\ << Bos >> \o T \in Seq(Piece) /\ Len(<< Bos >> \o T) = n + 1
      /\ \A i \in 1 .. n + 1 : E[i] = IF i = 1 THEN Bos ELSE T[i - 1]
  <2>1. << Bos >> \o T \in Seq(Piece) /\ Len(<< Bos >> \o T) = n + 1
        /\ \A i \in 1 .. n + 1 : (<< Bos >> \o T)[i] = IF i <= 1 THEN << Bos >>[i] ELSE T[i - 1]
    <3>1. Len(<< Bos >>) = 1
      OBVIOUS
    <3>2. QED
      BY <1>1, <1>3, <3>1, ConcatProperties
  <2> DEFINE BT == << Bos >> \o T
  <2> HIDE DEF BT
  <2>2. Len(BT \o << Header >>) = n + 2
        /\ \A i \in 1 .. n + 2 : (BT \o << Header >>)[i] =
             IF i <= n + 1 THEN BT[i] ELSE << Header >>[i - (n + 1)]
    <3>1. Len(<< Header >>) = 1
      OBVIOUS
    <3>2. BT \in Seq(Piece) /\ Len(BT) = n + 1
      BY <2>1 DEF BT
    <3>3. QED
      BY <1>1, <1>3, <3>1, <3>2, ConcatProperties
  <2>3. E = BT \o << Header >>
    BY <1>2 DEF BT
  <2>4. ASSUME NEW i \in 1 .. n + 1
        PROVE  E[i] = IF i = 1 THEN Bos ELSE T[i - 1]
    <3>1. E[i] = BT[i]
      <4>1. i \in 1 .. n + 2 /\ i <= n + 1
        BY <1>3
      <4>2. QED
        BY <2>2, <2>3, <4>1
    <3>2. BT[i] = IF i <= 1 THEN << Bos >>[i] ELSE T[i - 1]
      BY <2>1 DEF BT
    <3>3. QED
      BY <3>1, <3>2
  <2>5. QED
    BY <2>1, <2>2, <2>3, <2>4
<1>6. P = << Bos >> \o C
  <2>1. P \in Seq(Piece) /\ Len(P) = c + 1 /\ \A i \in 1 .. c + 1 : P[i] = E[i]
    <3>1. 1 \in Int /\ c + 1 \in Int /\ \A i \in 1 .. c + 1 : E[i] \in Piece
      BY <1>2, <1>3, <1>5, ElementOfSeq
    <3>2. QED
      BY <1>3, <3>1, SubSeqProperties
  <2>2. << Bos >> \o C \in Seq(Piece) /\ Len(<< Bos >> \o C) = c + 1
        /\ \A i \in 1 .. c + 1 : (<< Bos >> \o C)[i] = IF i <= 1 THEN << Bos >>[i] ELSE C[i - 1]
    <3>1. Len(<< Bos >>) = 1
      OBVIOUS
    <3>2. QED
      BY <1>1, <1>3, <3>1, ConcatProperties
  <2>3. ASSUME NEW i \in 1 .. c
        PROVE  C[i] = T[i]
    <3>1. SubSeq(C, 1, c) = C
      BY SubSeqFull
    <3>2. SubSeq(T, 1, c)[i] = T[i]
      <4>1. \A j \in 1 .. c : T[j] \in Piece
        BY <1>1, <1>3, ElementOfSeq
      <4>2. QED
        BY <1>3, <4>1, SubSeqProperties
    <3>3. QED
      BY <1>3, <3>1, <3>2
  <2> DEFINE Q == << Bos >> \o C
  <2>4. ASSUME NEW i \in 1 .. c + 1
        PROVE  P[i] = Q[i]
    <3> HIDE DEF P, Q
    <3>1. i \in 1 .. n + 1
      BY <1>3
    <3>2. P[i] = IF i = 1 THEN Bos ELSE T[i - 1]
      BY <1>5, <2>1, <3>1
    <3>3. Q[i] = IF i <= 1 THEN << Bos >>[i] ELSE C[i - 1]
      BY <2>2 DEF Q
    <3>4. i # 1 => C[i - 1] = T[i - 1]
      <4>1. i # 1 => i - 1 \in 1 .. c
        BY <1>3
      <4>2. QED
        BY <2>3, <4>1
    <3>5. QED
      BY <3>2, <3>3, <3>4
  <2> HIDE DEF P
  <2>5. QED
    BY <1>3, <2>1, <2>2, <2>4, SeqEqual
<1>7. X \in Seq(Piece) /\ P \in Seq(Piece) /\ E = P \o X
  <2>1. c + 1 \in 0 .. Len(E) /\ (c + 1) + 1 = c + 2
    BY <1>3, <1>5
  <2> DEFINE k == c + 1
  <2>2. k \in 0 .. Len(E) /\ k + 1 = c + 2
    BY <2>1
  <2> HIDE DEF k
  <2>3. /\ SubSeq(E, 1, k) \in Seq(Piece) /\ SubSeq(E, k + 1, Len(E)) \in Seq(Piece)
        /\ SubSeq(E, 1, k) \o SubSeq(E, k + 1, Len(E)) = E
    BY <1>2, <2>2, Cut
  <2>4. P = SubSeq(E, 1, k)
    BY DEF k
  <2>5. X = SubSeq(E, k + 1, Len(E))
    BY <2>2
  <2> HIDE DEF X, P
  <2>6. QED
    BY <2>3, <2>4, <2>5
<1> HIDE DEF X, P
<1>8. Content(E) = Content(P) \o Content(X)
  BY <1>7, ContentConcat
<1>9. Content(P) = Opening \o Content(C)
  BY <1>1, <1>6, ContentConcat DEF Opening
<1>10. Content(E) = Opening \o Gist(msgs)
  BY EncodedSaysGist DEF E
<1>11. QED
  BY <1>4, <1>7, <1>8, <1>9, <1>10

-----------------------------------------------------------------------------
(* What is cached, streamed and added to the messages.                     *)

Calls ==
  [ kind : Chats \cup {"ids", "none"}, path : {"delta", "trim", "full", "ids", "none"},
    msgs : Seq(Message), input : Seq(Piece), kvBefore : Nat ]

Types ==
  /\ stored \in Seq(Piece) /\ kept \in Seq(Piece)
  /\ allSeqLen \in Nat
  /\ status \in Errors \cup {"RUNNING"}
  /\ cachedText \in Seq(Piece)
  /\ promptCache \in BOOLEAN
  /\ pc \in {"idle", "prefill", "decode", "reject", "return"}
  /\ call \in Calls
  /\ reply \in Seq(Piece)
  /\ said \in Seq(Message)

(* What is cached of a conversation says what the conversation says.       *)
LEMMA CacheableSaysGist ==
  ASSUME NEW msgs \in Seq(Message)
  PROVE  Cacheable(msgs) \in Seq(Piece) /\ Content(Cacheable(msgs)) = Gist(msgs)
<1>1. Text(msgs) \in Seq(Piece) /\ Content(Text(msgs)) = Gist(msgs)
  BY TextSaysGist
<1>2. QED
  BY <1>1, ContentOfStripped DEF Cacheable

(* What is streamed, without the thinking, is a message of the model.      *)
LEMMA StreamedTyped ==
  ASSUME Types
  PROVE  /\ Streamed \in Seq(Piece)
         /\ StripThink(Streamed) \in Seq(Piece)
         /\ Content(StripThink(Streamed)) = Content(Streamed)
<1>1. Removes({StopTok}, Piece)
  BY WithoutGrows
<1>2. reply \in Seq(Piece)
  BY DEF Types
<1>3. Streamed \in Seq(Piece)
  BY <1>1, <1>2 DEF Streamed, Removes
<1>4. QED
  BY <1>3, ContentOfStripped

(* A message of the model.                                                 *)
LEMMA FromModelTyped ==
  ASSUME NEW text \in Seq(Piece)
  PROVE  FromModel(text) \in Message /\ FromModel(text).text = text
BY DEF FromModel, Message

(* A conversation with a reply says what both say.                         *)
LEMMA AnsweredSays ==
  ASSUME NEW msgs \in Seq(Message), NEW text \in Seq(Piece)
  PROVE  /\ Append(msgs, FromModel(text)) \in Seq(Message)
         /\ Gist(Append(msgs, FromModel(text))) = Gist(msgs) \o Content(text)
<1>1. FromModel(text) \in Message /\ FromModel(text).text = text
  BY FromModelTyped
<1>2. QED
  BY <1>1, GistGrows

(* A conversation and nothing more.                                        *)
LEMMA GistAlone ==
  ASSUME NEW msgs \in Seq(Message)
  PROVE  Gist(msgs) \o Content(<< >>) = Gist(msgs)
<1>1. Gist(msgs) \in Seq(Piece) /\ Content(<< >>) = << >>
  BY TextSaysGist, ContentOfMarkers
<1>2. QED
  BY <1>1, ConcatEmptySeq

(* updateCachedPromptText stores the conversation with its reply.          *)
LEMMA UpdatedSays ==
  ASSUME Types
  PROVE  /\ Updated \in Seq(Piece)
         /\ Content(Updated) = Gist(call.msgs) \o Content(Streamed)
<1> DEFINE msgs == call.msgs
           more == IF Streamed = << >> THEN msgs ELSE Append(msgs, FromModel(Streamed))
<1>1. msgs \in Seq(Message) /\ Streamed \in Seq(Piece)
  BY StreamedTyped DEF Types, Calls
<1> HIDE DEF msgs
<1>2. more \in Seq(Message) /\ Gist(more) = Gist(msgs) \o Content(Streamed)
  <2>1. CASE Streamed = << >>
    BY <1>1, <2>1, GistAlone
  <2>2. CASE Streamed # << >>
    BY <1>1, <2>2, AnsweredSays
  <2>3. QED
    BY <2>1, <2>2
<1> HIDE DEF more
<1>3. Cacheable(more) \in Seq(Piece) /\ Content(Cacheable(more)) = Gist(more)
  BY <1>2, CacheableSaysGist
<1>4. Updated = Cacheable(more)
  BY DEF Updated, more, msgs
<1>5. QED
  BY <1>2, <1>3, <1>4 DEF msgs

(* So does what a response leaves, when it leaves anything.                *)
LEMMA AfterResponseSays ==
  ASSUME Types
  PROVE  /\ AfterResponse \in Seq(Piece)
         /\ \/ AfterResponse = << >>
            \/ /\ call.path = "delta" \/ promptCache
               /\ Content(AfterResponse) = Gist(call.msgs) \o Content(Streamed)
<1>1. Updated \in Seq(Piece) /\ Content(Updated) = Gist(call.msgs) \o Content(Streamed)
  BY UpdatedSays
<1>2. QED
  BY <1>1 DEF AfterResponse

(* syncPromptCache stores the conversation it is given.                    *)
LEMMA SyncedSays ==
  ASSUME Types, NEW msgs \in Seq(Message)
  PROVE  /\ Synced(msgs) \in Seq(Piece)
         /\ promptCache => Content(Synced(msgs)) = Gist(msgs)
         /\ ~promptCache => Synced(msgs) = cachedText
<1>1. Cacheable(msgs) \in Seq(Piece) /\ Content(Cacheable(msgs)) = Gist(msgs)
  BY CacheableSaysGist
<1>2. cachedText \in Seq(Piece)
  BY DEF Types
<1>3. QED
  BY <1>1, <1>2 DEF Synced

(* The session and the server keep the conversation with its reply.        *)
LEMMA WithReplySays ==
  ASSUME Types
  PROVE  /\ WithReply \in Seq(Message)
         /\ Gist(WithReply) = Gist(call.msgs) \o Content(Streamed)
<1> DEFINE msgs == call.msgs
           text == StripThink(Streamed)
<1>1. msgs \in Seq(Message) /\ text \in Seq(Piece) /\ Content(text) = Content(Streamed)
  BY StreamedTyped DEF Types, Calls
<1>2. WithReply = Append(msgs, FromModel(text)) \/ (text = << >> /\ WithReply = msgs)
  BY DEF WithReply
<1> HIDE DEF msgs, text
<1>3. WithReply \in Seq(Message) /\ Gist(WithReply) = Gist(msgs) \o Content(text)
  <2>1. CASE WithReply = Append(msgs, FromModel(text))
    BY <1>1, <2>1, AnsweredSays
  <2>2. CASE text = << >> /\ WithReply = msgs
    BY <1>1, <2>2, GistAlone
  <2>3. QED
    BY <1>2, <2>1, <2>2
<1>4. QED
  BY <1>1, <1>3 DEF msgs

(* The rows and their positions: the kept rows are the first stored ones;  *)
(* the positions count them, but for a draft that is still to be rejected  *)
(* and for rows an error has lost; a response leaves room for the rest of  *)
(* its tokens; a reply has no stop token before it ends.                   *)
Rows == Len(kept) <= Len(stored) /\ kept = SubSeq(stored, 1, Len(kept))

Counts ==
  /\ Rows
  /\ status = "RUNNING" /\ pc # "reject" => Len(kept) = allSeqLen
  /\ status # "RUNNING" =>
       pc \in {"idle", "return"} /\ (kept = << >> \/ Len(kept) = allSeqLen)
  /\ pc = "reject" => kept = stored /\ Len(stored) = allSeqLen + 1
  /\ allSeqLen <= MaxRows /\ call.kvBefore <= MaxRows
  /\ pc # "idle" => call.kind \in Chats \cup {"ids"}
  /\ pc = "prefill" => reply = << >>
  /\ pc \in {"decode", "reject"} =>
       /\ call.kind \in Chats
       /\ Len(reply) <= MaxNew /\ allSeqLen + MaxNew - Len(reply) <= MaxRows
       /\ Streamed = reply

-----------------------------------------------------------------------------
(* Types and counts.                                                       *)

(* The rows a range of stored rows is erased from.                         *)
LEMMA EraseTyped ==
  ASSUME NEW s \in Seq(Piece), NEW b \in 0 .. Len(s)
  PROVE  /\ SubSeq(s, 1, b) \o SubSeq(s, Len(s) + 1, Len(s)) = SubSeq(s, 1, b)
         /\ SubSeq(s, 1, b) \in Seq(Piece) /\ Len(SubSeq(s, 1, b)) = b
<1> DEFINE a == SubSeq(s, 1, b)
<1>1. a \in Seq(Piece) /\ Len(a) = b
  BY Cut
<1>2. SubSeq(s, Len(s) + 1, Len(s)) = << >>
  <2>1. Len(s) \in Int /\ Len(s) + 1 \in Int /\ Len(s) < Len(s) + 1
    BY LenProperties
  <2>2. QED
    BY <2>1, SubSeqEmpty
<1> HIDE DEF a
<1>3. a \o << >> = a
  BY <1>1, ConcatEmptySeq
<1>4. QED
  BY <1>1, <1>2, <1>3 DEF a

(* What starts a response, whatever rows it reuses.                        *)
LEMMA RespondTyped ==
  ASSUME Types, NEW kind \in Chats, NEW msgs \in Seq(Message), Respond(kind, msgs)
  PROVE  Types'
<1>1. Suffix(msgs) \in Seq(Piece) \/ ~IsPrefix(cachedText, Text(msgs))
  BY SuffixContinues DEF Types
<1>2. Encoded(msgs) \in Seq(Piece)
  BY EncodedSaysGist
<1>3. ASSUME NEW path \in {"delta", "trim", "full"}, NEW input \in Seq(Piece),
             Starts(kind, path, msgs, input)
      PROVE  call' \in Calls /\ pc' = "prefill" /\ reply' = << >>
  BY <1>3 DEF Starts, Calls
<1>4. call' \in Calls /\ pc' = "prefill" /\ reply' = << >>
  <2>1. CASE Delta(kind, msgs)
    <3>1. Suffix(msgs) \in Seq(Piece) /\ Starts(kind, "delta", msgs, Suffix(msgs))
      BY <1>1, <2>1 DEF Delta
    <3>2. QED
      BY <1>3, <3>1
  <2>2. CASE Trim(kind, msgs)
    <3>1. Starts(kind, "trim", msgs, Encoded(msgs))
      BY <2>2 DEF Trim
    <3>2. QED
      BY <1>2, <1>3, <3>1
  <2>3. CASE Full(kind, msgs)
    <3>1. Starts(kind, "full", msgs, Encoded(msgs))
      BY <2>3 DEF Full
    <3>2. QED
      BY <1>2, <1>3, <3>1
  <2>4. QED
    BY <2>1, <2>2, <2>3 DEF Respond
<1>5. /\ stored' = stored /\ kept' \in Seq(Piece) /\ allSeqLen' \in Nat
      /\ cachedText' \in Seq(Piece)
  <2>1. << >> \in Seq(Piece) /\ 0 \in Nat
    OBVIOUS
  <2>2. CASE Delta(kind, msgs)
    BY <2>2 DEF Delta, Types, history
  <2>3. CASE Trim(kind, msgs)
    BY <2>1, <2>3 DEF Trim, Types, DropAll, Conv!Clear
  <2>4. CASE Full(kind, msgs)
    <3>1. DropAll \/ UNCHANGED << history, allSeqLen >>
      BY <2>4 DEF Full, GenerateInit
    <3>2. cachedText' = cachedText
      BY <2>4 DEF Full
    <3>3. QED
      BY <2>1, <3>1, <3>2 DEF Types, DropAll, Conv!Clear, history
  <2>5. QED
    BY <2>2, <2>3, <2>4 DEF Respond
<1>6. << >> \in Seq(Piece) /\ << >> \in Seq(Message)
  OBVIOUS
<1>7. said' = << >> /\ status' = status /\ promptCache' = promptCache
  BY DEF Respond, config
<1>8. QED
  BY <1>4, <1>5, <1>6, <1>7 DEF Types

(* What the forward of a prompt changes.                                   *)
LEMMA PrefillTyped ==
  ASSUME Types, Prefill
  PROVE  Types'
<1>1. /\ stored' = kept \o call.input /\ kept' = kept \o call.input
      /\ allSeqLen' = allSeqLen + Len(call.input)
      /\ cachedText' = cachedText \/ cachedText' = AfterResponse
      /\ call' = [call EXCEPT !.kvBefore = Len(stored')]
      /\ pc' \in {"return", "decode"}
      /\ status' = status /\ promptCache' = promptCache /\ reply' = reply /\ said' = said
  BY DEF Prefill, PrefillDone, Conv!Forward, config
<1>2. call.input \in Seq(Piece) /\ kept \in Seq(Piece)
  BY DEF Types, Calls
<1>3. kept \o call.input \in Seq(Piece) /\ Len(call.input) \in Nat
  BY <1>2, ConcatProperties, LenProperties
<1>4. Len(stored') \in Nat /\ stored' \in Seq(Piece) /\ kept' \in Seq(Piece)
  BY <1>1, <1>3, LenProperties
<1>5. cachedText' \in Seq(Piece)
  BY <1>1, AfterResponseSays DEF Types
<1>6. call' \in Calls
  BY <1>1, <1>4 DEF Types, Calls
<1>7. allSeqLen' \in Nat
  BY <1>1, <1>3 DEF Types
<1>8. QED
  BY <1>1, <1>4, <1>5, <1>6, <1>7 DEF Types

(* What a failed forward changes.                                          *)
LEMMA BreaksTyped ==
  ASSUME Types, Breaks
  PROVE  /\ stored' \in Seq(Piece) /\ kept' \in Seq(Piece)
         /\ kept' = << >> \/ kept' = kept
         /\ status' = "INTERNAL_ERROR" /\ pc' = "return"
<1>1. << >> \in Seq(Piece)
  OBVIOUS
<1>2. QED
  BY <1>1 DEF Types, Breaks, Conv!Lose, history

(* What a sampled token changes.                                           *)
LEMMA SampleTyped ==
  ASSUME Types, NEW token \in Piece, Sample(token)
  PROVE  reply' \in Seq(Piece) /\ reply' = Append(reply, token)
<1>1. reply' = Append(reply, token) /\ reply \in Seq(Piece)
  BY DEF Sample, Types
<1>2. QED
  BY <1>1, AppendProperties

(* The rows of a token with its drafts.                                    *)
LEMMA DecodeTyped ==
  ASSUME Types, NEW token \in Word \cup {Think}, NEW drafts \in Drafts,
         Decode(token, drafts)
  PROVE  Types'
<1>1. token \in Piece /\ Draft \in Piece
  BY DEF Piece
<1>2. << token >> \o drafts \in Seq(Piece)
  <2>1. << >> \in Seq(Piece) /\ << Draft >> \in Seq(Piece) /\ << token >> \in Seq(Piece)
    BY <1>1
  <2>2. drafts = << >> \/ drafts = << Draft >>
    BY DEF Drafts
  <2>3. drafts \in Seq(Piece)
    BY <2>1, <2>2
  <2>4. QED
    BY <2>1, <2>3, ConcatProperties
<1>3. /\ stored' = kept \o (<< token >> \o drafts) /\ kept' = kept \o (<< token >> \o drafts)
      /\ allSeqLen' = allSeqLen + 1
      /\ pc' \in {"decode", "reject"}
      /\ status' = status /\ promptCache' = promptCache /\ cachedText' = cachedText
      /\ call' = call /\ said' = said
  BY DEF Decode, Conv!Forward, config
<1>4. kept \o (<< token >> \o drafts) \in Seq(Piece)
  BY <1>2, ConcatProperties DEF Types
<1>5. reply' \in Seq(Piece)
  BY <1>1, SampleTyped DEF Decode
<1>6. allSeqLen' \in Nat
  BY <1>3 DEF Types
<1> HIDE DEF Drafts
<1>7. QED
  BY <1>3, <1>4, <1>5, <1>6 DEF Types

(* What is kept when the rejected draft is erased.                         *)
LEMMA RejectTyped ==
  ASSUME Types, Counts, Reject
  PROVE  /\ Types'
         /\ stored' = stored
         /\ kept' = SubSeq(stored, 1, Len(stored) - 1) /\ Len(kept') = Len(stored) - 1
<1> DEFINE b == Len(stored) - 1
<1>1. /\ kept' = SubSeq(stored, 1, b) \o SubSeq(stored, Len(stored) + 1, Len(stored))
      /\ stored' = stored /\ pc' = "decode"
      /\ allSeqLen' = allSeqLen /\ status' = status /\ promptCache' = promptCache
      /\ cachedText' = cachedText /\ call' = call /\ reply' = reply /\ said' = said
      /\ pc = "reject"
  BY DEF Reject, Conv!Erase, context, config
<1>2. stored \in Seq(Piece) /\ b \in 0 .. Len(stored)
  <2>1. stored \in Seq(Piece) /\ Len(stored) \in Nat /\ allSeqLen \in Nat
    BY LenProperties DEF Types
  <2>2. Len(stored) = allSeqLen + 1
    BY <1>1 DEF Counts
  <2>3. QED
    BY <2>1, <2>2
<1> HIDE DEF b
<1>3. /\ SubSeq(stored, 1, b) \o SubSeq(stored, Len(stored) + 1, Len(stored)) = SubSeq(stored, 1, b)
      /\ SubSeq(stored, 1, b) \in Seq(Piece) /\ Len(SubSeq(stored, 1, b)) = b
  BY <1>2, EraseTyped
<1>4. Types'
  BY <1>1, <1>3 DEF Types
<1>5. QED
  BY <1>1, <1>3, <1>4 DEF b

(* No rows, and all of them, are the first stored ones.                    *)
LEMMA RowsOfStored ==
  ASSUME NEW s \in Seq(Piece)
  PROVE  /\ Len(s) \in Nat
         /\ << >> = SubSeq(s, 1, Len(<< >>)) /\ Len(<< >>) <= Len(s) /\ Len(<< >>) = 0
         /\ s = SubSeq(s, 1, Len(s)) /\ Len(s) <= Len(s)
<1>1. Len(s) \in Nat /\ Len(<< >>) = 0
  BY LenProperties
<1>2. SubSeq(s, 1, 0) = << >>
  BY SubSeqEmpty
<1>3. SubSeq(s, 1, Len(s)) = s
  BY SubSeqFull
<1>4. QED
  BY <1>1, <1>2, <1>3

(* What happens to the history when a response starts, or all is dropped.  *)
Keeps == stored' = stored /\ kept' = kept /\ allSeqLen' = allSeqLen
Drops == stored' = stored /\ kept' = << >> /\ allSeqLen' = 0

(* Either way the rows and their positions go on together.                 *)
LEMMA KeepsOrDrops ==
  ASSUME Types, Counts, Keeps \/ Drops
  PROVE  /\ Rows'
         /\ Len(kept) = allSeqLen => Len(kept') = allSeqLen'
         /\ kept = << >> => kept' = << >>
         /\ allSeqLen' <= MaxRows
<1>1. MaxRows \in Nat /\ 0 <= MaxRows
  BY PromptAssumption
<1>2. CASE Keeps
  BY <1>2 DEF Keeps, Counts, Rows
<1>3. CASE Drops
  <2>1. << >> = SubSeq(stored, 1, Len(<< >>)) /\ Len(<< >>) <= Len(stored) /\ Len(<< >>) = 0
    BY RowsOfStored DEF Types
  <2>2. QED
    BY <1>1, <1>3, <2>1 DEF Drops, Rows
<1>4. QED
  BY <1>2, <1>3

(* A response starts with the rows it reuses, or with none.                *)
LEMMA RespondCounts ==
  ASSUME Types, Counts, NEW kind \in Chats, NEW msgs \in Seq(Message), Respond(kind, msgs)
  PROVE  Counts'
<1>1. status = "RUNNING" /\ pc = "idle" /\ status' = status
  BY DEF Respond, Types
<1>2. Len(kept) = allSeqLen
  BY <1>1 DEF Counts
<1>3. Keeps \/ Drops
  BY DEF Respond, Delta, Trim, Full, GenerateInit, DropAll, Conv!Clear, Keeps, Drops, history
<1>4. /\ call'.kind = kind /\ call'.kvBefore = 0
      /\ pc' = "prefill" /\ reply' = << >>
  BY DEF Respond, Delta, Trim, Full, Starts
<1>5. MaxRows \in Nat
  BY PromptAssumption
<1>6. Rows' /\ Len(kept') = allSeqLen' /\ allSeqLen' <= MaxRows
  BY <1>2, <1>3, KeepsOrDrops
<1>7. QED
  BY <1>1, <1>4, <1>5, <1>6 DEF Counts

(* The positions count the prompt, and room is left for the reply.         *)
LEMMA PrefillCounts ==
  ASSUME Types, Counts, Prefill
  PROVE  Counts'
<1> DEFINE k == kept \o call.input
           n == Len(kept)
           m == Len(call.input)
<1>1. /\ stored' = k /\ kept' = k /\ allSeqLen' = allSeqLen + m
      /\ call' = [call EXCEPT !.kvBefore = Len(stored')]
      /\ status' = status /\ reply' = reply /\ pc = "prefill"
      /\ pc' = IF call.kind = "ids" THEN "return" ELSE "decode"
      /\ n + m + MaxNew <= MaxRows
  BY DEF Prefill, Conv!Forward, config
<1>2. status = "RUNNING" /\ n = allSeqLen /\ call.kind \in Chats \cup {"ids"} /\ reply = << >>
  BY <1>1 DEF Counts
<1>3. call.input \in Seq(Piece) /\ kept \in Seq(Piece) /\ n \in Nat /\ m \in Nat
  BY LenProperties DEF Types, Calls
<1>4. k \in Seq(Piece) /\ Len(k) = n + m
  BY <1>3, ConcatProperties
<1>5. MaxRows \in Nat /\ MaxNew \in Nat
  BY PromptAssumption
<1>6. Streamed' = reply'
  <2>1. Removes({StopTok}, Piece)
    BY WithoutGrows
  <2>2. QED
    BY <1>1, <1>2, <2>1 DEF Streamed, Removes
<1>7. Rows'
  <2> HIDE DEF k
  <2>1. QED
    BY <1>1, <1>4, RowsOfStored DEF Rows
<1>8. call'.kind = call.kind /\ call'.kvBefore = Len(k)
  BY <1>1 DEF Types, Calls
<1> HIDE DEF k, n, m
<1>9. allSeqLen' = Len(kept') /\ allSeqLen' + MaxNew <= MaxRows
  BY <1>1, <1>2, <1>4
<1>10. Len(reply') = 0
  BY <1>1, <1>2
<1>11. allSeqLen' \in Nat /\ Len(k) = allSeqLen'
  BY <1>1, <1>2, <1>3, <1>4
<1>12. allSeqLen' <= MaxRows /\ call'.kvBefore <= MaxRows
       /\ Len(reply') <= MaxNew /\ allSeqLen' + MaxNew - Len(reply') <= MaxRows
  BY <1>5, <1>8, <1>9, <1>10, <1>11
<1>13. CASE call.kind = "ids"
  BY <1>1, <1>2, <1>7, <1>8, <1>9, <1>12, <1>13 DEF Counts
<1>14. CASE call.kind \in Chats
  <2>1. pc' = "decode"
    BY <1>1, <1>14 DEF Chats
  <2>2. QED
    BY <1>1, <1>2, <1>6, <1>7, <1>8, <1>9, <1>12, <1>14, <2>1 DEF Counts
<1>15. QED
  BY <1>2, <1>13, <1>14

(* A failed forward leaves the rows or loses them.                         *)
LEMMA BreaksCounts ==
  ASSUME Types, Counts, Breaks, pc \in {"prefill", "decode"},
         UNCHANGED << allSeqLen, call >>
  PROVE  Counts'
<1>1. status' = "INTERNAL_ERROR" /\ pc' = "return" /\ allSeqLen' = allSeqLen /\ call' = call
  BY DEF Breaks
<1>2. Len(kept) = allSeqLen /\ call.kind \in Chats \cup {"ids"}
  BY DEF Counts
<1>3. Rows' /\ (kept' = << >> \/ Len(kept') = allSeqLen')
  <2>1. CASE UNCHANGED history
    BY <1>1, <1>2, <2>1 DEF history, Counts, Rows
  <2>2. CASE Conv!Lose
    <3>1. stored' = << >> /\ kept' = << >>
      BY <2>2 DEF Conv!Lose
    <3>2. PICK none \in Seq(Piece) : none = << >>
      BY NoText
    <3>3. QED
      BY <3>1, <3>2, RowsOfStored DEF Rows
  <2>3. QED
    BY <2>1, <2>2 DEF Breaks
<1>4. QED
  BY <1>1, <1>2, <1>3 DEF Counts

(* A token that is no stop token is streamed.                              *)
LEMMA StreamedGrows ==
  ASSUME NEW r \in Seq(Piece), NEW token \in Piece
  PROVE  Without(Append(r, token), {StopTok}) =
           IF token = StopTok THEN Without(r, {StopTok})
           ELSE Append(Without(r, {StopTok}), token)
<1>1. Removes({StopTok}, Piece)
  BY WithoutGrows
<1>2. QED
  BY <1>1 DEF Removes

(* Words and thinking are no stop tokens.                                  *)
LEMMA TokenTyped ==
  ASSUME NEW token \in Word \cup {Think}
  PROVE  token \in Piece /\ token # StopTok
BY PromptAssumption DEF Piece, Think, StopTok

(* A token takes a row and a position, a draft a row until it is rejected. *)
LEMMA DecodeCounts ==
  ASSUME Types, Counts, NEW token \in Word \cup {Think}, NEW drafts \in Drafts,
         Decode(token, drafts)
  PROVE  Counts'
<1> DEFINE k == kept \o (<< token >> \o drafts)
           n == Len(kept)
           r == Len(reply)
<1>1. /\ stored' = k /\ kept' = k /\ allSeqLen' = allSeqLen + 1
      /\ call' = call /\ status' = status /\ reply' = Append(reply, token)
      /\ pc = "decode" /\ r < MaxNew
      /\ pc' = IF drafts = << >> THEN "decode" ELSE "reject"
  BY DEF Decode, Sample, Conv!Forward, config
<1>2. /\ status = "RUNNING" /\ n = allSeqLen /\ call.kind \in Chats
      /\ allSeqLen + MaxNew - r <= MaxRows /\ Streamed = reply /\ call.kvBefore <= MaxRows
  BY <1>1 DEF Counts
<1>3. kept \in Seq(Piece) /\ reply \in Seq(Piece) /\ n \in Nat /\ r \in Nat
      /\ call.kvBefore \in Nat
  BY LenProperties DEF Types, Calls
<1>4. MaxRows \in Nat /\ MaxNew \in Nat
  BY PromptAssumption
<1>5. token \in Piece /\ token # StopTok /\ Draft \in Piece
  BY TokenTyped DEF Piece
<1>6. Len(reply') = r + 1
  BY <1>1, <1>3, <1>5, AppendProperties
<1>7. Streamed' = reply'
  <2>1. Without(Append(reply, token), {StopTok}) = Append(Without(reply, {StopTok}), token)
    BY <1>3, <1>5, StreamedGrows
  <2>2. QED
    BY <1>1, <1>2, <2>1 DEF Streamed
<1>8. k \in Seq(Piece) /\ Len(k) = n + 1 + Len(drafts)
  <2>1. << token >> \in Seq(Piece) /\ Len(<< token >>) = 1
    BY <1>5
  <2>2. drafts \in Seq(Piece) /\ Len(drafts) \in Nat
    <3>1. << >> \in Seq(Piece) /\ << Draft >> \in Seq(Piece)
      BY <1>5
    <3>2. drafts = << >> \/ drafts = << Draft >>
      BY DEF Drafts
    <3>3. drafts \in Seq(Piece)
      BY <3>1, <3>2
    <3>4. QED
      BY <3>3, LenProperties
  <2>3. << token >> \o drafts \in Seq(Piece) /\ Len(<< token >> \o drafts) = 1 + Len(drafts)
    BY <2>1, <2>2, ConcatProperties
  <2> DEFINE d == << token >> \o drafts
             ld == Len(drafts)
  <2>4. d \in Seq(Piece) /\ Len(d) = 1 + ld /\ ld \in Nat
    BY <2>2, <2>3
  <2> HIDE DEF d
  <2>5. kept \o d \in Seq(Piece) /\ Len(kept \o d) = n + Len(d)
    BY <1>3, <2>4, ConcatProperties
  <2> HIDE DEF n, ld
  <2>6. n + Len(d) = n + 1 + ld
    BY <1>3, <2>4
  <2>7. QED
    BY <2>5, <2>6 DEF d, ld
<1>9. Rows' /\ kept' = stored'
  <2> HIDE DEF k
  <2>1. QED
    BY <1>1, <1>8, RowsOfStored DEF Rows
<1> HIDE DEF k, n, r
<1>10. /\ allSeqLen' <= MaxRows /\ Len(reply') <= MaxNew
       /\ allSeqLen' + MaxNew - Len(reply') <= MaxRows
  BY <1>1, <1>2, <1>3, <1>4, <1>6
<1>11. (drafts = << >> /\ Len(drafts) = 0) \/ (drafts # << >> /\ Len(drafts) = 1)
  BY DEF Drafts
<1>12. CASE drafts = << >> /\ Len(drafts) = 0
  <2>1. pc' = "decode" /\ Len(kept') = allSeqLen'
    BY <1>1, <1>2, <1>3, <1>8, <1>12
  <2>2. QED
    BY <1>1, <1>2, <1>7, <1>9, <1>10, <2>1 DEF Counts
<1>13. CASE drafts # << >> /\ Len(drafts) = 1
  <2>1. pc' = "reject" /\ Len(stored') = allSeqLen' + 1
    BY <1>1, <1>2, <1>3, <1>8, <1>13
  <2>2. QED
    BY <1>1, <1>2, <1>7, <1>9, <1>10, <2>1 DEF Counts
<1>14. QED
  BY <1>11, <1>12, <1>13

(* Without the draft the positions count the rows again.                   *)
LEMMA RejectCounts ==
  ASSUME Types, Counts, Reject
  PROVE  Counts'
<1>1. /\ stored' = stored /\ kept' = SubSeq(stored, 1, Len(stored) - 1)
      /\ Len(kept') = Len(stored) - 1
  BY RejectTyped
<1>2. /\ pc = "reject" /\ pc' = "decode" /\ allSeqLen' = allSeqLen /\ status' = status
      /\ call' = call /\ reply' = reply /\ Streamed' = Streamed
  BY DEF Reject, context, Streamed
<1>3. Len(stored) = allSeqLen + 1 /\ allSeqLen \in Nat /\ status = "RUNNING"
  BY <1>2 DEF Counts, Types
<1>4. Len(kept') = allSeqLen' /\ Len(kept') <= Len(stored')
  BY <1>1, <1>2, <1>3
<1>5. Rows'
  BY <1>1, <1>4 DEF Rows
<1>6. QED
  BY <1>2, <1>3, <1>4, <1>5 DEF Counts

(* A response that ends keeps its rows.                                    *)
LEMMA EndCounts ==
  ASSUME Types, Counts, StopToken \/ \E newStatus \in {"RUNNING", "TIMEOUT"} : EndDecode(newStatus)
  PROVE  Types' /\ Counts'
<1>1. /\ stored' = stored /\ kept' = kept /\ allSeqLen' = allSeqLen /\ call' = call
      /\ cachedText' = cachedText /\ promptCache' = promptCache /\ said' = said
      /\ status' \in {status, "TIMEOUT"} /\ pc = "decode" /\ pc' = "return"
  BY DEF StopToken, Sample, EndDecode, history, context, config
<1>2. reply' \in Seq(Piece)
  <2>1. StopTok \in Piece
    BY DEF Piece
  <2>2. CASE StopToken
    BY <2>1, <2>2, SampleTyped DEF StopToken
  <2>3. CASE ~StopToken
    BY <2>3 DEF EndDecode, Types
  <2>4. QED
    BY <2>2, <2>3
<1>3. Types'
  BY <1>1, <1>2 DEF Types, Errors
<1>4. Len(kept') = allSeqLen'
  BY <1>1 DEF Counts
<1>5. QED
  BY <1>1, <1>3, <1>4 DEF Counts, Rows

(* response(ids) starts with the rows it finds, or with none.              *)
LEMMA RespondIdsCounts ==
  ASSUME Types, Counts, NEW ids \in Ids, RespondIds(ids)
  PROVE  Types' /\ Counts'
<1>1. Keeps \/ Drops
  BY DEF RespondIds, GenerateInit, DropAll, Conv!Clear, Keeps, Drops, history
<1>2. /\ call' = [ kind |-> "ids", path |-> "ids", msgs |-> << >>, input |-> ids, kvBefore |-> 0 ]
      /\ pc' = "prefill" /\ reply' = << >> /\ said' = << >>
      /\ status' = "RUNNING" /\ promptCache' = promptCache /\ cachedText' = cachedText
      /\ pc = "idle" /\ (status \in Errors => allSeqLen = 0)
  BY DEF RespondIds, Starts, config
<1>3. ids \in Seq(Piece)
  <2>1. ids \in Seq(User) /\ User \subseteq Piece
    BY PromptAssumption DEF Piece
  <2>2. QED
    BY <2>1, SeqMonotonic
<1>4. << >> \in Seq(Message) /\ << >> \in Seq(Piece) /\ MaxRows \in Nat
  BY PromptAssumption
<1>5. call' \in Calls
  BY <1>2, <1>3, <1>4 DEF Calls
<1>6. Types'
  <2>1. stored' \in Seq(Piece) /\ kept' \in Seq(Piece) /\ allSeqLen' \in Nat
    <3>1. stored \in Seq(Piece) /\ kept \in Seq(Piece) /\ allSeqLen \in Nat
      BY DEF Types
    <3>2. CASE Keeps
      BY <3>1, <3>2 DEF Keeps
    <3>3. CASE Drops
      BY <1>4, <3>1, <3>3 DEF Drops
    <3>4. QED
      BY <1>1, <3>2, <3>3
  <2>2. QED
    BY <1>2, <1>4, <1>5, <2>1 DEF Types
<1>7. Len(kept) = allSeqLen
  <2>1. CASE status = "RUNNING"
    BY <1>2, <2>1 DEF Counts
  <2>2. CASE status # "RUNNING"
    <3>1. kept = << >> \/ Len(kept) = allSeqLen
      BY <2>2 DEF Counts
    <3>2. allSeqLen = 0
      BY <1>2, <2>2 DEF Types
    <3>3. QED
      BY <3>1, <3>2
  <2>3. QED
    BY <2>1, <2>2
<1>8. Rows' /\ Len(kept') = allSeqLen' /\ allSeqLen' <= MaxRows
  BY <1>1, <1>7, KeepsOrDrops
<1>9. call'.kind = "ids" /\ call'.kvBefore = 0
  BY <1>2
<1>10. QED
  BY <1>2, <1>4, <1>6, <1>8, <1>9 DEF Counts

(* What the counts are about.                                              *)
LEMMA SameCounts ==
  ASSUME Counts, stored' = stored, kept' = kept, allSeqLen' = allSeqLen, status' = status,
         pc' = pc, call' = call, reply' = reply
  PROVE  Counts'
<1>1. Streamed' = Streamed /\ Rows'
  BY DEF Streamed, Counts, Rows
<1>2. QED
  BY <1>1 DEF Counts

(* A refused request, a reset, a switch of the cache.                      *)
LEMMA IdleCounts ==
  ASSUME Types, Counts,
         \/ \E kind \in Chats, msgs \in Seq(Message) : Refuse(kind, msgs)
         \/ Reset \/ SetConfig
  PROVE  Types' /\ Counts'
<1>1. << >> \in Seq(Piece) /\ << >> \in Seq(Message)
  OBVIOUS
<1>2. CASE \E kind \in Chats, msgs \in Seq(Message) : Refuse(kind, msgs)
  <2>1. PICK kind \in Chats, msgs \in Seq(Message) : Refuse(kind, msgs)
    BY <1>2
  <2>2. Synced(msgs) \in Seq(Piece) /\ cachedText \in Seq(Piece)
    BY SyncedSays DEF Types
  <2>3. /\ stored' = stored /\ kept' = kept /\ allSeqLen' = allSeqLen /\ status' = status
        /\ promptCache' = promptCache /\ pc' = pc /\ call' = call /\ reply' = reply
        /\ said' = << >> /\ cachedText' \in Seq(Piece) /\ pc = "idle"
    BY <2>1, <2>2 DEF Refuse, history, context, config
  <2>4. Types'
    BY <1>1, <2>3 DEF Types
  <2>5. QED
    BY <2>3, <2>4, SameCounts
<1>3. CASE Reset
  <2>1. Drops /\ pc = "idle"
    BY <1>3 DEF Reset, DropAll, Conv!Clear, Drops
  <2>2. /\ status' = status /\ promptCache' = promptCache /\ pc' = pc /\ call' = call
        /\ reply' = reply /\ said' = << >> /\ cachedText' = << >>
    BY <1>3 DEF Reset, config
  <2>3. Rows' /\ allSeqLen' <= MaxRows
    BY <2>1, KeepsOrDrops
  <2>4. stored' \in Seq(Piece) /\ kept' = << >> /\ allSeqLen' = 0 /\ Len(kept') = allSeqLen'
    BY <2>1 DEF Drops, Types
  <2>5. Types'
    BY <1>1, <2>2, <2>4 DEF Types
  <2>6. QED
    BY <2>1, <2>2, <2>3, <2>4, <2>5 DEF Counts
<1>4. CASE SetConfig
  <2>1. /\ stored' = stored /\ kept' = kept /\ allSeqLen' = allSeqLen /\ status' = status
        /\ promptCache' = ~promptCache /\ pc' = pc /\ call' = call /\ reply' = reply
        /\ said' = << >> /\ cachedText' = cachedText
    BY <1>4 DEF SetConfig, history, context
  <2>2. promptCache' \in BOOLEAN
    BY <2>1, Zenon DEF Types
  <2>3. Types'
    BY <1>1, <2>1, <2>2 DEF Types
  <2>4. QED
    BY <2>1, <2>3, SameCounts
<1>5. QED
  BY <1>2, <1>3, <1>4

(* The reply goes back to the caller, and the rows stay.                   *)
LEMMA BackCounts ==
  ASSUME Types, Counts, BackToCaller, UNCHANGED << history, context, config >>,
         cachedText' \in Seq(Piece), said' \in Seq(Message),
         status = "RUNNING" => pc # "reject"
  PROVE  Types' /\ Counts'
<1>1. /\ stored' = stored /\ kept' = kept /\ allSeqLen' = allSeqLen /\ status' = status
      /\ promptCache' = promptCache /\ pc' = "idle" /\ call' = NoCall /\ reply' = << >>
  BY DEF BackToCaller, history, context, config
<1>2. << >> \in Seq(Piece) /\ << >> \in Seq(Message) /\ MaxRows \in Nat
  BY PromptAssumption
<1>3. NoCall \in Calls /\ NoCall.kvBefore = 0
  BY <1>2 DEF NoCall, Calls
<1>4. Types'
  BY <1>1, <1>2, <1>3 DEF Types
<1>5. Rows' /\ allSeqLen' <= MaxRows /\ call'.kvBefore <= MaxRows
  BY <1>1, <1>2, <1>3 DEF Counts, Rows
<1>6. /\ status' = "RUNNING" => Len(kept') = allSeqLen'
      /\ status' # "RUNNING" => kept' = << >> \/ Len(kept') = allSeqLen'
  BY <1>1 DEF Counts
<1>7. QED
  BY <1>1, <1>4, <1>5, <1>6 DEF Counts

(* A reply that is complete.                                               *)
LEMMA ReturnCounts ==
  ASSUME Types, Counts, Return
  PROVE  Types' /\ Counts'
<1>1. cachedText' \in Seq(Piece) /\ said' \in Seq(Message)
  <2>1. AfterResponse \in Seq(Piece)
    BY AfterResponseSays
  <2>2. WithReply \in Seq(Message)
    BY WithReplySays
  <2>3. Synced(WithReply) \in Seq(Piece)
    BY <2>2, SyncedSays
  <2>4. Append(call.msgs, FromModel(Streamed)) \in Seq(Message)
    BY AnsweredSays, StreamedTyped DEF Types, Calls
  <2>5. cachedText \in Seq(Piece) /\ said \in Seq(Message)
    BY DEF Types
  <2>6. QED
    BY <2>1, <2>2, <2>3, <2>4, <2>5 DEF Return
<1>2. BackToCaller /\ UNCHANGED << history, context, config >> /\ pc = "return"
  BY DEF Return
<1>3. QED
  BY <1>1, <1>2, BackCounts

(* A reply that is cancelled: the session keeps the rows.                  *)
LEMMA CancelSessionCounts ==
  ASSUME Types, Counts, Cancel, call.kind = "session"
  PROVE  Types' /\ Counts'
<1>1. /\ cachedText' = Synced(WithReply) /\ said' = WithReply
      /\ UNCHANGED << history, allSeqLen >> /\ UNCHANGED << status, config >>
      /\ BackToCaller /\ pc \in {"decode", "return"}
  BY DEF Cancel
<1>2. WithReply \in Seq(Message) /\ Synced(WithReply) \in Seq(Piece)
  BY WithReplySays, SyncedSays
<1>3. UNCHANGED << history, context, config >>
  BY <1>1 DEF context
<1>4. QED
  BY <1>1, <1>2, <1>3, BackCounts

(* The first rows of a prefix.                                             *)
LEMMA FirstOfFirst ==
  ASSUME NEW s \in Seq(Piece), NEW n \in 0 .. Len(s), NEW b \in 0 .. n
  PROVE  SubSeq(SubSeq(s, 1, n), 1, b) = SubSeq(s, 1, b)
<1> DEFINE t == SubSeq(s, 1, n)
<1>1. Len(s) \in Nat /\ n \in Nat /\ b \in Nat /\ n <= Len(s) /\ b <= n
  BY LenProperties
<1>2. \A i \in 1 .. Len(s) : s[i] \in Piece
  BY ElementOfSeq
<1>3. t \in Seq(Piece) /\ Len(t) = n /\ \A i \in 1 .. n : t[i] = s[i]
  BY <1>1, <1>2, SubSeqProperties
<1> HIDE DEF t
<1> DEFINE u == SubSeq(t, 1, b)
           v == SubSeq(s, 1, b)
<1>4. \A i \in 1 .. n : t[i] \in Piece
  BY <1>3, ElementOfSeq
<1>5. u \in Seq(Piece) /\ Len(u) = b /\ \A i \in 1 .. b : u[i] = t[i]
  BY <1>1, <1>4, SubSeqProperties
<1>6. v \in Seq(Piece) /\ Len(v) = b /\ \A i \in 1 .. b : v[i] = s[i]
  BY <1>1, <1>2, SubSeqProperties
<1>7. \A i \in 1 .. b : u[i] = v[i]
  BY <1>1, <1>3, <1>5, <1>6
<1> HIDE DEF u, v
<1>8. u = v
  BY <1>5, <1>6, <1>7, SeqEqual
<1>9. QED
  BY <1>8 DEF t, u, v

(* The rows an app's eraseHistory leaves.                                  *)
LEMMA EraseFromRows ==
  ASSUME Types, NEW b \in Nat, EraseFrom(b)
  PROVE  /\ b < Len(stored) =>
              /\ stored' = stored /\ kept' = SubSeq(stored, 1, b) /\ allSeqLen' = b
              /\ kept' \in Seq(Piece) /\ Len(kept') = b
              /\ kept' = SubSeq(stored, 1, Len(kept')) /\ Len(kept') <= Len(stored)
         /\ ~(b < Len(stored)) =>
              stored' = stored /\ kept' = kept /\ allSeqLen' = allSeqLen
<1>1. stored \in Seq(Piece) /\ Len(stored) \in Nat
  BY LenProperties DEF Types
<1>2. CASE b < Len(stored)
  <2>1. b \in 0 .. Len(stored)
    BY <1>1, <1>2
  <2>2. /\ stored' = stored /\ allSeqLen' = b
        /\ kept' = SubSeq(stored, 1, b) \o SubSeq(stored, Len(stored) + 1, Len(stored))
    BY <1>2 DEF EraseFrom, Conv!Erase
  <2>3. /\ SubSeq(stored, 1, b) \o SubSeq(stored, Len(stored) + 1, Len(stored)) = SubSeq(stored, 1, b)
        /\ SubSeq(stored, 1, b) \in Seq(Piece) /\ Len(SubSeq(stored, 1, b)) = b
    BY <1>1, <2>1, EraseTyped
  <2>4. QED
    BY <1>2, <2>2, <2>3
<1>3. CASE ~(b < Len(stored))
  BY <1>3 DEF EraseFrom, history
<1>4. QED
  BY <1>2, <1>3

(* A reply that is cancelled: the server goes back to the prompt.          *)
LEMMA CancelServerCounts ==
  ASSUME Types, Counts, Cancel, call.kind = "server"
  PROVE  Types' /\ Counts'
<1> DEFINE b == call.kvBefore
<1>1. /\ EraseFrom(b) /\ said' = call.msgs /\ cachedText' = cachedText
      /\ UNCHANGED << status, config >> /\ BackToCaller /\ pc \in {"decode", "return"}
      /\ (pc = "return" => status \notin Errors)
  BY DEF Cancel
<1>2. b \in Nat /\ b <= MaxRows /\ call.msgs \in Seq(Message) /\ cachedText \in Seq(Piece)
  BY DEF Types, Calls, Counts
<1>3. status = "RUNNING"
  BY <1>1 DEF Counts, Types
<1>4. Len(kept) = allSeqLen
  BY <1>1, <1>3 DEF Counts
<1> HIDE DEF b
<1>5. CASE b < Len(stored)
  <2>1. /\ stored' = stored /\ allSeqLen' = b /\ kept' \in Seq(Piece) /\ Len(kept') = b
        /\ kept' = SubSeq(stored, 1, Len(kept')) /\ Len(kept') <= Len(stored)
    BY <1>1, <1>2, <1>5, EraseFromRows
  <2>2. << >> \in Seq(Piece) /\ MaxRows \in Nat /\ << >> \in Seq(Message)
    BY PromptAssumption
  <2>3. NoCall \in Calls /\ NoCall.kvBefore = 0
    BY <2>2 DEF NoCall, Calls
  <2>4. /\ status' = status /\ promptCache' = promptCache /\ pc' = "idle" /\ call' = NoCall
        /\ reply' = << >> /\ said' \in Seq(Message) /\ cachedText' \in Seq(Piece)
    BY <1>1, <1>2 DEF BackToCaller, config
  <2>5. stored' \in Seq(Piece) /\ allSeqLen' \in Nat
    BY <1>2, <2>1 DEF Types
  <2>6. Types'
    BY <2>1, <2>2, <2>3, <2>4, <2>5 DEF Types
  <2>7. Rows'
    BY <2>1 DEF Rows
  <2>8. QED
    BY <1>2, <1>3, <2>1, <2>2, <2>3, <2>4, <2>6, <2>7 DEF Counts
<1>6. CASE ~(b < Len(stored))
  <2>1. UNCHANGED << history, context, config >>
    BY <1>1, <1>2, <1>6, EraseFromRows DEF history, context
  <2>2. cachedText' \in Seq(Piece) /\ said' \in Seq(Message)
    BY <1>1, <1>2
  <2>3. pc # "reject"
    BY <1>1
  <2>4. QED
    BY <1>1, <2>1, <2>2, <2>3, BackCounts
<1>7. QED
  BY <1>5, <1>6

(* Initially nothing is held.                                              *)
LEMMA InitCounts ==
  ASSUME Init
  PROVE  Types /\ Counts
<1>1. << >> \in Seq(Piece) /\ << >> \in Seq(Message) /\ Len(<< >>) = 0
      /\ MaxRows \in Nat
  BY PromptAssumption
<1>2. NoCall \in Calls /\ NoCall.kvBefore = 0
  BY <1>1 DEF NoCall, Calls
<1>3. /\ stored = << >> /\ kept = << >> /\ allSeqLen = 0 /\ status = "RUNNING"
      /\ cachedText = << >> /\ promptCache \in BOOLEAN /\ pc = "idle" /\ call = NoCall
      /\ reply = << >> /\ said = << >>
  BY DEF Init, Conv!Init
<1>4. Types
  BY <1>1, <1>2, <1>3 DEF Types
<1>5. Rows
  <2>1. PICK none \in Seq(Piece) : none = << >>
    BY NoText
  <2>2. QED
    BY <1>3, <2>1, RowsOfStored DEF Rows
<1>6. QED
  BY <1>1, <1>2, <1>3, <1>4, <1>5 DEF Counts

(* A caller sends messages.                                                *)
LEMMA RequestsTyped ==
  ASSUME Types
  PROVE  Requests \subseteq Seq(Message) /\ Others \subseteq Seq(Message)
<1>1. Others \subseteq Seq(Message)
  BY PromptAssumption
<1>2. ASSUME NEW u \in User
      PROVE  Append(said, FromUser(<< u >>)) \in Seq(Message)
  <2>1. << u >> \in Seq(Piece)
    BY DEF Piece
  <2>2. FromUser(<< u >>) \in Message
    BY <2>1 DEF FromUser, Message
  <2>3. said \in Seq(Message)
    BY DEF Types
  <2>4. QED
    BY <2>2, <2>3, AppendProperties
<1> HIDE DEF Message
<1>3. QED
  BY <1>1, <1>2 DEF Requests

(* Every step keeps the types and the counts, in every situation.          *)
LEMMA NextCounts ==
  ASSUME Types, Counts, [Next]_vars
  PROVE  Types' /\ Counts'
<1>1. CASE \E kind \in Chats, msgs \in Requests : Respond(kind, msgs)
  <2>1. PICK kind \in Chats, msgs \in Requests : Respond(kind, msgs)
    BY <1>1
  <2>2. msgs \in Seq(Message)
    BY RequestsTyped
  <2>3. QED
    BY <2>1, <2>2, RespondTyped, RespondCounts
<1>2. CASE \E kind \in Chats, msgs \in Others : Refuse(kind, msgs)
  <2>1. \E kind \in Chats, msgs \in Seq(Message) : Refuse(kind, msgs)
    BY <1>2, RequestsTyped
  <2>2. QED
    BY <2>1, IdleCounts
<1>3. CASE \E ids \in Ids : RespondIds(ids)
  BY <1>3, RespondIdsCounts
<1>4. CASE Prefill
  BY <1>4, PrefillTyped, PrefillCounts
<1>5. CASE FailPrefill
  <2>1. Breaks /\ UNCHANGED << allSeqLen, call >> /\ pc = "prefill"
    BY <1>5 DEF FailPrefill
  <2>2. /\ allSeqLen' = allSeqLen /\ promptCache' = promptCache /\ call' = call
        /\ reply' = reply /\ said' = said
        /\ cachedText' = cachedText \/ cachedText' = AfterResponse
    BY <1>5 DEF FailPrefill, PrefillDone, config
  <2>3. cachedText' \in Seq(Piece)
    BY <2>2, AfterResponseSays DEF Types
  <2>4. /\ stored' \in Seq(Piece) /\ kept' \in Seq(Piece)
        /\ status' = "INTERNAL_ERROR" /\ pc' = "return"
    BY <2>1, BreaksTyped
  <2>5. Types'
    BY <2>2, <2>3, <2>4 DEF Types, Errors
  <2>6. QED
    BY <2>1, <2>5, BreaksCounts
<1>6. CASE \E token \in Word \cup {Think} : FailDecode(token)
  <2>1. PICK token \in Word \cup {Think} : FailDecode(token)
    BY <1>6
  <2>2. Breaks /\ UNCHANGED << allSeqLen, call >> /\ pc = "decode" /\ Sample(token)
    BY <2>1 DEF FailDecode, Sample
  <2>3. /\ allSeqLen' = allSeqLen /\ promptCache' = promptCache /\ call' = call
        /\ said' = said /\ cachedText' = cachedText
    BY <2>1 DEF FailDecode, config
  <2>4. /\ stored' \in Seq(Piece) /\ kept' \in Seq(Piece)
        /\ status' = "INTERNAL_ERROR" /\ pc' = "return"
    BY <2>2, BreaksTyped
  <2>5. reply' \in Seq(Piece)
    BY <2>2, TokenTyped, SampleTyped
  <2>6. Types'
    BY <2>3, <2>4, <2>5 DEF Types, Errors
  <2>7. QED
    BY <2>2, <2>6, BreaksCounts
<1>7. CASE \E token \in Word \cup {Think}, drafts \in Drafts : Decode(token, drafts)
  <2> HIDE DEF Drafts
  <2>1. PICK token \in Word \cup {Think}, drafts \in Drafts : Decode(token, drafts)
    BY <1>7
  <2>2. QED
    BY <2>1, DecodeTyped, DecodeCounts
<1>8. CASE Reject
  BY <1>8, RejectTyped, RejectCounts
<1>9. CASE StopToken \/ \E newStatus \in {"RUNNING", "TIMEOUT"} : EndDecode(newStatus)
  BY <1>9, EndCounts
<1>10. CASE Return
  BY <1>10, ReturnCounts
<1>11. CASE Cancel
  <2>1. call.kind = "session" \/ call.kind = "server"
    BY <1>11 DEF Cancel, Steps
  <2>2. QED
    BY <1>11, <2>1, CancelSessionCounts, CancelServerCounts
<1>12. CASE Reset \/ SetConfig
  BY <1>12, IdleCounts
<1>13. CASE UNCHANGED vars
  <2>1. /\ stored' = stored /\ kept' = kept /\ allSeqLen' = allSeqLen /\ status' = status
        /\ cachedText' = cachedText /\ promptCache' = promptCache /\ pc' = pc
        /\ call' = call /\ reply' = reply /\ said' = said
    BY <1>13 DEF vars, history, context, config
  <2>2. Types'
    BY <2>1 DEF Types
  <2>3. QED
    BY <2>1, <2>2, SameCounts
<1>14. QED
  BY <1>1, <1>2, <1>3, <1>4, <1>5, <1>6, <1>7, <1>8, <1>9, <1>10, <1>11, <1>12, <1>13
     DEF Next

(* In every situation, those the code does not cope with included, every   *)
(* variable keeps its type: the positions are not negative and no response *)
(* makes more rows than fit.                                               *)
THEOREM PromptTypes == Spec => []TypeOK
<1>1. Init => Types /\ Counts
  BY InitCounts
<1>2. Types /\ Counts /\ [Next]_vars => (Types /\ Counts)'
  BY NextCounts
<1>3. Types /\ Counts => TypeOK
  <2> SUFFICES ASSUME Types, Counts PROVE TypeOK
    OBVIOUS
  <2>1. Conv!TypeOK
    BY DEF Types, Conv!TypeOK
  <2>2. allSeqLen \in 0 .. MaxRows
    BY PromptAssumption DEF Types, Counts
  <2>3. QED
    BY <2>1, <2>2 DEF TypeOK, Types
<1>4. QED
  BY <1>1, <1>2, <1>3, PTL DEF Spec

-----------------------------------------------------------------------------
(* A reply is computed from the rows of its request.                       *)

(* The rows of the prompt and the reply so far, without a draft.           *)
Heard == IF pc = "reject" THEN SubSeq(stored, 1, Len(stored) - 1) ELSE kept

(* Between two calls the rows say what the cached text says.               *)
Settled ==
  pc = "idle" /\ status = "RUNNING" /\ cachedText # << >> =>
    Content(kept) = Opening \o Content(cachedText)

(* A call goes on from a cached text only while the cache is on, and       *)
(* response(ids) runs only when nothing is cached.                         *)
Paths ==
  pc # "idle" =>
    /\ call.path = "delta" => promptCache
    /\ call.kind = "ids" => cachedText = << >>

(* The rows that are reused and the tokens to prefill say what the request *)
(* says.                                                                   *)
Started ==
  pc = "prefill" /\ call.kind \in Chats =>
    Content(kept) \o Content(call.input) = Opening \o Gist(call.msgs)

(* The rows say the request and then the reply; those a cancelled reply is *)
(* rolled back to say the request, and so does the cached text of an app.  *)
Running ==
  pc \in {"decode", "reject", "return"} /\ status = "RUNNING" /\ call.kind \in Chats =>
    /\ Content(Heard) = (Opening \o Gist(call.msgs)) \o Content(Streamed)
    /\ call.kvBefore <= Len(Heard)
    /\ Content(SubSeq(Heard, 1, call.kvBefore)) = Opening \o Gist(call.msgs)
    /\ Steps => /\ cachedText = << >> \/ Content(cachedText) = Gist(call.msgs)
                /\ ~promptCache => cachedText = << >>

Continues == Settled /\ Paths /\ Started /\ Running

(* Nobody forwards other rows while a text is cached, and the cache is not *)
(* switched while a response runs.                                         *)
Undisturbed == "other_call" \notin Situations /\ "toggle" \notin Situations

(* Nothing is said before a text.                                          *)
LEMMA GistTyped ==
  ASSUME NEW msgs \in Seq(Message)
  PROVE  /\ Opening \in Seq(Piece) /\ Gist(msgs) \in Seq(Piece)
         /\ Opening \o Gist(msgs) \in Seq(Piece)
         /\ << >> \o (Opening \o Gist(msgs)) = Opening \o Gist(msgs)
         /\ (Opening \o Gist(msgs)) \o << >> = Opening \o Gist(msgs)
<1>1. Opening \in Seq(Piece) /\ Gist(msgs) \in Seq(Piece)
  BY TextSaysGist, EncodedSaysGist
<1>2. Opening \o Gist(msgs) \in Seq(Piece)
  BY <1>1, ConcatProperties
<1>3. QED
  BY <1>1, <1>2, ConcatEmptySeq

(* A request reuses rows that say what its conversation begins with.       *)
LEMMA RespondContinues ==
  ASSUME Types, Counts, Continues, NEW kind \in Chats, NEW msgs \in Seq(Message),
         Respond(kind, msgs)
  PROVE  Continues'
<1>1. status = "RUNNING" /\ pc = "idle" /\ status' = status /\ promptCache' = promptCache
  BY DEF Respond, Types, config
<1>2. Len(kept) = allSeqLen
  BY <1>1 DEF Counts
<1>3. Encoded(msgs) \in Seq(Piece) /\ Content(Encoded(msgs)) = Opening \o Gist(msgs)
  BY EncodedSaysGist
<1>4. pc' = "prefill" /\ call'.kind = kind /\ call'.msgs = msgs
      /\ (call'.path = "delta" => promptCache)
  BY DEF Respond, Delta, Trim, Full, Starts
<1>5. Content(kept') \o Content(call'.input) = Opening \o Gist(msgs)
  <2>1. CASE Delta(kind, msgs)
    <3>1. kept' = kept /\ call'.input = Suffix(msgs)
      BY <2>1 DEF Delta, Starts, history
    <3>2. Content(kept) = Opening \o Content(cachedText)
      BY <1>1, <2>1 DEF Delta, Continues, Settled
    <3>3. (Opening \o Content(cachedText)) \o Content(Suffix(msgs)) = Opening \o Gist(msgs)
      BY <2>1, SuffixContinues DEF Delta, Types
    <3>4. QED
      BY <3>1, <3>2, <3>3
  <2>2. CASE Trim(kind, msgs) \/ Full(kind, msgs)
    <3>1. call'.input = Encoded(msgs)
      BY <2>2 DEF Trim, Full, Starts
    <3>2. kept' = << >>
      <4>1. CASE Trim(kind, msgs)
        BY <4>1 DEF Trim, DropAll, Conv!Clear
      <4>2. CASE Full(kind, msgs)
        <5>1. CASE allSeqLen > 0
          BY <4>2, <5>1 DEF Full, DropAll, Conv!Clear
        <5>2. CASE ~(allSeqLen > 0)
          <6>1. allSeqLen = 0 /\ kept \in Seq(Piece)
            BY <5>2 DEF Types
          <6>2. kept = << >>
            BY <1>2, <6>1, EmptySeq
          <6>3. kept' = kept \/ kept' = << >>
            BY <4>2 DEF Full, GenerateInit, DropAll, Conv!Clear, history
          <6>4. QED
            BY <6>2, <6>3
        <5>3. QED
          BY <5>1, <5>2
      <4>3. QED
        BY <2>2, <4>1, <4>2
    <3>3. Content(<< >>) = << >>
      BY ContentOfMarkers
    <3>4. << >> \o (Opening \o Gist(msgs)) = Opening \o Gist(msgs)
      BY GistTyped
    <3>5. QED
      BY <1>3, <3>1, <3>2, <3>3, <3>4
  <2>3. QED
    BY <2>1, <2>2 DEF Respond
<1>6. kind # "ids"
  BY DEF Chats
<1>7. Settled' /\ Paths' /\ Started' /\ Running'
  BY <1>1, <1>4, <1>5, <1>6 DEF Settled, Paths, Started, Running
<1>8. QED
  BY <1>7 DEF Continues

(* The forward of the tokens behind them completes the prompt.             *)
LEMMA PrefillContinues ==
  ASSUME Types, Counts, Continues, Prefill
  PROVE  Continues'
<1> DEFINE k == kept \o call.input
           G == Opening \o Gist(call.msgs)
<1>1. /\ stored' = k /\ kept' = k
      /\ call' = [call EXCEPT !.kvBefore = Len(stored')]
      /\ status' = status /\ promptCache' = promptCache /\ reply' = reply /\ pc = "prefill"
      /\ pc' = IF call.kind = "ids" THEN "return" ELSE "decode"
      /\ cachedText' = IF Steps THEN AfterResponse ELSE cachedText
  BY DEF Prefill, PrefillDone, Conv!Forward, config
<1>2. call.kind \in Chats \cup {"ids"} /\ reply = << >>
  BY <1>1 DEF Counts
<1>3. call.input \in Seq(Piece) /\ kept \in Seq(Piece) /\ call.msgs \in Seq(Message)
  BY DEF Types, Calls
<1>4. k \in Seq(Piece) /\ Content(k) = Content(kept) \o Content(call.input)
  BY <1>3, ConcatProperties, ContentConcat
<1> HIDE DEF k
<1>5. /\ call'.kind = call.kind /\ call'.msgs = call.msgs /\ call'.path = call.path
      /\ call'.kvBefore = Len(k) /\ Steps' = Steps
  BY <1>1 DEF Types, Calls, Steps
<1>6. Streamed = << >> /\ Streamed' = << >> /\ Content(<< >>) = << >> /\ G \o << >> = G
  <2>1. Removes({StopTok}, Piece)
    BY WithoutGrows
  <2>2. G \o << >> = G
    BY <1>3, GistTyped
  <2>3. QED
    BY <1>1, <1>2, <2>1, <2>2, ContentOfMarkers DEF Streamed, Removes
<1>7. Settled' /\ Started'
  BY <1>1 DEF Settled, Started
<1>8. Paths'
  <2>1. call.kind = "ids" => ~Steps
    BY DEF Steps
  <2>2. QED
    BY <1>1, <1>5, <2>1 DEF Continues, Paths
<1>9. Running'
  <2>1. CASE call.kind = "ids"
    BY <1>5, <2>1 DEF Running, Chats
  <2>2. CASE call.kind \in Chats
    <3>1. pc' = "decode" /\ Heard' = k
      <4>1. pc' = "decode"
        BY <1>1, <2>2 DEF Chats
      <4>2. QED
        BY <1>1, <4>1 DEF Heard
    <3>2. Content(k) = G
      BY <1>1, <1>4, <2>2 DEF Continues, Started
    <3>3. SubSeq(k, 1, Len(k)) = k /\ Len(k) <= Len(k)
      BY <1>4, RowsOfStored
    <3>4. Steps => /\ cachedText' = << >> \/ Content(cachedText') = Gist(call.msgs)
                   /\ ~promptCache' => cachedText' = << >>
      <4> SUFFICES ASSUME Steps
                   PROVE  /\ cachedText' = << >> \/ Content(cachedText') = Gist(call.msgs)
                          /\ ~promptCache' => cachedText' = << >>
        OBVIOUS
      <4>1. \/ cachedText' = << >>
            \/ /\ call.path = "delta" \/ promptCache
               /\ Content(cachedText') = Gist(call.msgs) \o Content(<< >>)
        BY <1>1, <1>6, AfterResponseSays
      <4>2. Gist(call.msgs) \o Content(<< >>) = Gist(call.msgs)
        BY <1>3, GistAlone
      <4>3. call.path = "delta" => promptCache
        BY <1>1 DEF Continues, Paths
      <4>4. QED
        BY <1>1, <4>1, <4>2, <4>3
    <3> HIDE DEF G
    <3>5. /\ Content(Heard') = G \o Content(Streamed')
          /\ call'.kvBefore <= Len(Heard')
          /\ Content(SubSeq(Heard', 1, call'.kvBefore)) = G
      BY <1>5, <1>6, <3>1, <3>2, <3>3
    <3>6. G = Opening \o Gist(call'.msgs) /\ Gist(call'.msgs) = Gist(call.msgs)
      BY <1>5 DEF G
    <3>7. QED
      BY <1>5, <3>4, <3>5, <3>6 DEF Running
  <2>3. QED
    BY <1>2, <2>1, <2>2
<1>10. QED
  BY <1>7, <1>8, <1>9 DEF Continues

(* The first rows stay when one is added, and a row that is added can be   *)
(* taken away.                                                             *)
LEMMA FirstOfMore ==
  ASSUME NEW s \in Seq(Piece), NEW x \in Piece
  PROVE  /\ \A b \in 0 .. Len(s) : SubSeq(Append(s, x), 1, b) = SubSeq(s, 1, b)
         /\ SubSeq(Append(s, x), 1, Len(Append(s, x)) - 1) = s
<1> DEFINE t == Append(s, x)
           n == Len(s)
<1>1. /\ t \in Seq(Piece) /\ Len(t) = n + 1 /\ n \in Nat
      /\ \A i \in 1 .. n : t[i] = s[i]
  BY AppendProperties, LenProperties
<1> HIDE DEF t
<1>2. (\A i \in 1 .. n : s[i] \in Piece) /\ \A i \in 1 .. n : t[i] \in Piece
  BY <1>1, ElementOfSeq
<1>3. ASSUME NEW b \in 0 .. n
      PROVE  SubSeq(t, 1, b) = SubSeq(s, 1, b)
  <2> DEFINE u == SubSeq(t, 1, b)
             v == SubSeq(s, 1, b)
  <2> HIDE DEF n
  <2>1. b \in Int /\ b <= n /\ b >= 0
    BY <1>1
  <2>2. u \in Seq(Piece) /\ Len(u) = b /\ \A i \in 1 .. b : u[i] = t[i]
    BY <1>1, <1>2, <2>1, SubSeqProperties
  <2>3. v \in Seq(Piece) /\ Len(v) = b /\ \A i \in 1 .. b : v[i] = s[i]
    BY <1>1, <1>2, <2>1, SubSeqProperties
  <2>4. \A i \in 1 .. b : u[i] = v[i]
    BY <1>1, <2>1, <2>2, <2>3
  <2> HIDE DEF u, v
  <2>5. u = v
    BY <2>2, <2>3, <2>4, SeqEqual
  <2>6. QED
    BY <2>5 DEF u, v
<1>4. SubSeq(t, 1, n) = s
  <2>1. n \in 0 .. n
    BY <1>1
  <2>2. SubSeq(t, 1, n) = SubSeq(s, 1, n)
    BY <1>3, <2>1
  <2>3. QED
    BY <2>2, SubSeqFull
<1>5. Len(t) - 1 = n
  BY <1>1
<1>6. QED
  BY <1>3, <1>4, <1>5 DEF t

(* A token is heard, its draft is not.                                     *)
LEMMA DecodeHeard ==
  ASSUME Types, NEW token \in Word \cup {Think}, NEW drafts \in Drafts,
         Decode(token, drafts)
  PROVE  Heard' = Append(kept, token)
<1>1. /\ stored' = kept \o (<< token >> \o drafts) /\ kept' = kept \o (<< token >> \o drafts)
      /\ pc' = IF drafts = << >> THEN "decode" ELSE "reject"
  BY DEF Decode, Conv!Forward
<1>2. token \in Piece /\ Draft \in Piece /\ kept \in Seq(Piece)
  BY TokenTyped DEF Types, Piece
<1>3. << token >> \in Seq(Piece) /\ << Draft >> \in Seq(Piece)
  BY <1>2
<1>4. Append(kept, token) = kept \o << token >> /\ Append(kept, token) \in Seq(Piece)
  BY <1>2, AppendIsConcat, AppendProperties
<1>5. CASE drafts = << >>
  <2>1. << token >> \o << >> = << token >>
    BY <1>3, ConcatEmptySeq
  <2>2. Heard' = kept'
    BY <1>1, <1>5 DEF Heard
  <2>3. QED
    BY <1>1, <1>4, <1>5, <2>1, <2>2
<1>6. CASE drafts = << Draft >>
  <2> DEFINE a == Append(kept, token)
  <2>1. kept \o (<< token >> \o << Draft >>) = (kept \o << token >>) \o << Draft >>
    BY <1>2, <1>3, ConcatAssociative
  <2>2. Append(a, Draft) = a \o << Draft >>
    BY <1>2, <1>4, AppendIsConcat
  <2>3. stored' = Append(a, Draft)
    BY <1>1, <1>4, <1>6, <2>1, <2>2
  <2>4. Heard' = SubSeq(stored', 1, Len(stored') - 1)
    <3>1. << Draft >> # << >>
      OBVIOUS
    <3>2. pc' = "reject"
      BY <1>1, <1>6, <3>1
    <3>3. QED
      BY <3>2 DEF Heard
  <2>5. a \in Seq(Piece)
    BY <1>4
  <2> HIDE DEF a
  <2>6. SubSeq(Append(a, Draft), 1, Len(Append(a, Draft)) - 1) = a
    BY <1>2, <2>5, FirstOfMore
  <2>7. QED
    BY <2>3, <2>4, <2>6 DEF a
<1>7. QED
  BY <1>5, <1>6 DEF Drafts

(* The reply says what its rows say.                                       *)
LEMMA DecodeContinues ==
  ASSUME Types, Counts, Continues, NEW token \in Word \cup {Think}, NEW drafts \in Drafts,
         Decode(token, drafts)
  PROVE  Continues'
<1> DEFINE G == Opening \o Gist(call.msgs)
           b == call.kvBefore
           r == Content(Streamed)
           c == Content(<< token >>)
<1>1. /\ call' = call /\ status' = status /\ reply' = Append(reply, token)
      /\ promptCache' = promptCache /\ cachedText' = cachedText
      /\ pc = "decode" /\ pc' \in {"decode", "reject"}
  BY DEF Decode, Sample, config
<1>2. status = "RUNNING" /\ call.kind \in Chats
  BY <1>1 DEF Counts
<1>3. Heard = kept /\ Heard' = Append(kept, token)
  BY <1>1, DecodeHeard DEF Heard
<1>4. kept \in Seq(Piece) /\ reply \in Seq(Piece) /\ call.msgs \in Seq(Message)
      /\ b \in Nat /\ token \in Piece /\ token # StopTok
  BY TokenTyped DEF Types, Calls
<1>5. /\ Content(kept) = G \o r /\ b <= Len(kept) /\ Content(SubSeq(kept, 1, b)) = G
      /\ Steps => /\ cachedText = << >> \/ Content(cachedText) = Gist(call.msgs)
                  /\ ~promptCache => cachedText = << >>
  BY <1>1, <1>2, <1>3 DEF Continues, Running
<1>6. Streamed \in Seq(Piece) /\ r \in Seq(Piece) /\ << token >> \in Seq(Piece) /\ c \in Seq(Piece)
      /\ G \in Seq(Piece)
  <2>1. Streamed \in Seq(Piece) /\ << token >> \in Seq(Piece)
    BY <1>4, StreamedTyped
  <2>2. r \in Seq(Piece) /\ c \in Seq(Piece)
    BY <2>1, ContentConcat
  <2>3. G \in Seq(Piece)
    BY <1>4, GistTyped
  <2>4. QED
    BY <2>1, <2>2, <2>3
<1>7. Content(Streamed') = r \o c
  <2>1. Streamed' = Append(Streamed, token)
    BY <1>1, <1>4, StreamedGrows DEF Streamed
  <2>2. Append(Streamed, token) = Streamed \o << token >>
    BY <1>4, <1>6, AppendIsConcat
  <2>3. QED
    BY <1>6, <2>1, <2>2, ContentConcat
<1>8. Content(Heard') = G \o (r \o c)
  <2>1. Append(kept, token) = kept \o << token >>
    BY <1>4, AppendIsConcat
  <2>2. Content(kept \o << token >>) = Content(kept) \o c
    BY <1>4, <1>6, ContentConcat
  <2> HIDE DEF G, r, c
  <2>3. (G \o r) \o c = G \o (r \o c)
    BY <1>6, ConcatAssociative
  <2>4. QED
    BY <1>3, <1>5, <2>1, <2>2, <2>3
<1>9. Content(SubSeq(Heard', 1, b)) = G /\ b <= Len(Heard')
  <2>1. b \in 0 .. Len(kept) /\ Len(kept) \in Nat
    BY <1>4, <1>5, LenProperties
  <2>2. SubSeq(Append(kept, token), 1, b) = SubSeq(kept, 1, b)
    BY <1>4, <2>1, FirstOfMore
  <2>3. Len(Append(kept, token)) = Len(kept) + 1
    BY <1>4, AppendProperties
  <2> HIDE DEF b, G
  <2>4. b <= Len(kept) + 1
    BY <1>4, <1>5, <2>1
  <2>5. QED
    BY <1>3, <1>5, <2>2, <2>3, <2>4
<1>10. Steps' = Steps
  BY <1>1 DEF Steps
<1>11. Running'
  BY <1>1, <1>5, <1>7, <1>8, <1>9, <1>10 DEF Running
<1>12. Settled' /\ Started'
  BY <1>1 DEF Settled, Started
<1>13. Paths'
  BY <1>1 DEF Continues, Paths
<1>14. QED
  BY <1>11, <1>12, <1>13 DEF Continues

(* What is heard stays when a draft is rejected and when a reply ends.     *)
LEMMA SameRunning ==
  ASSUME Types, Counts, Continues, pc \in {"decode", "reject"}, pc' \in {"decode", "return"},
         Heard' = Heard, call' = call, status' \in {status, "TIMEOUT"},
         promptCache' = promptCache, cachedText' = cachedText, Streamed' = Streamed
  PROVE  Continues'
<1>1. Steps' = Steps /\ status = "RUNNING"
  BY DEF Steps, Counts
<1>2. Running'
  BY <1>1 DEF Continues, Running
<1>3. Settled' /\ Started'
  BY DEF Settled, Started
<1>4. Paths'
  BY DEF Continues, Paths
<1>5. QED
  BY <1>2, <1>3, <1>4 DEF Continues

(* A draft that is rejected was not heard.                                 *)
LEMMA RejectContinues ==
  ASSUME Types, Counts, Continues, Reject
  PROVE  Continues'
<1>1. kept' = SubSeq(stored, 1, Len(stored) - 1)
  BY RejectTyped
<1>2. /\ pc = "reject" /\ pc' = "decode" /\ status' = status /\ call' = call
      /\ promptCache' = promptCache /\ cachedText' = cachedText /\ Streamed' = Streamed
  BY DEF Reject, context, config, Streamed
<1>3. Heard' = Heard
  BY <1>1, <1>2 DEF Heard
<1>4. QED
  BY <1>2, <1>3, SameRunning

(* A stop token is not streamed.                                           *)
LEMMA EndContinues ==
  ASSUME Types, Counts, Continues,
         StopToken \/ \E newStatus \in {"RUNNING", "TIMEOUT"} : EndDecode(newStatus)
  PROVE  Continues'
<1>1. /\ pc = "decode" /\ pc' = "return" /\ status' \in {status, "TIMEOUT"} /\ call' = call
      /\ kept' = kept /\ promptCache' = promptCache /\ cachedText' = cachedText
      /\ reply' = reply \/ reply' = Append(reply, StopTok)
  BY DEF StopToken, Sample, EndDecode, history, context, config
<1>2. Streamed' = Streamed
  <2>1. reply \in Seq(Piece) /\ StopTok \in Piece
    BY DEF Types, Piece
  <2>2. Without(Append(reply, StopTok), {StopTok}) = Without(reply, {StopTok})
    BY <2>1, StreamedGrows
  <2>3. QED
    BY <1>1, <2>2 DEF Streamed
<1>3. Heard' = Heard
  BY <1>1 DEF Heard
<1>4. QED
  BY <1>1, <1>2, <1>3, SameRunning

(* An error says nothing about the rows.                                   *)
LEMMA BreaksContinues ==
  ASSUME Types, Counts, Continues,
         FailPrefill \/ \E token \in Word \cup {Think} : FailDecode(token)
  PROVE  Continues'
<1>1. /\ pc # "idle" /\ pc' = "return" /\ status' = "INTERNAL_ERROR" /\ call' = call
      /\ promptCache' = promptCache
      /\ cachedText' = IF pc = "prefill" /\ Steps THEN AfterResponse ELSE cachedText
  BY DEF FailPrefill, FailDecode, Sample, Breaks, PrefillDone, config
<1>2. Settled' /\ Started' /\ Running'
  BY <1>1 DEF Settled, Started, Running
<1>3. Paths'
  <2>1. call.kind = "ids" => ~Steps
    BY DEF Steps
  <2>2. QED
    BY <1>1, <2>1 DEF Continues, Paths
<1>4. QED
  BY <1>2, <1>3 DEF Continues

(* response(ids) runs when nothing is cached.                              *)
LEMMA RespondIdsContinues ==
  ASSUME Undisturbed, Types, Counts, Continues, NEW ids \in Ids, RespondIds(ids)
  PROVE  Continues'
<1>1. /\ pc' = "prefill" /\ call'.kind = "ids" /\ call'.path = "ids"
      /\ cachedText = << >> /\ cachedText' = cachedText
  BY DEF RespondIds, Starts, Undisturbed
<1>2. Settled' /\ Paths' /\ Started' /\ Running'
  BY <1>1 DEF Settled, Paths, Started, Running, Chats
<1>3. QED
  BY <1>2 DEF Continues

(* Between two calls nothing forwards.                                     *)
LEMMA IdleContinues ==
  ASSUME Undisturbed, Types, Counts, Continues,
         \/ \E kind \in Chats, msgs \in Seq(Message) : Refuse(kind, msgs)
         \/ Reset \/ SetConfig
  PROVE  Continues'
<1>1. pc = "idle" /\ pc' = "idle" /\ status' = status
  BY DEF Refuse, Reset, SetConfig, context, Undisturbed
<1>2. Settled'
  <2>1. CASE \E kind \in Chats, msgs \in Seq(Message) : Refuse(kind, msgs)
    <3>1. status # "RUNNING"
      BY <2>1 DEF Refuse, Errors
    <3>2. QED
      BY <1>1, <3>1 DEF Settled
  <2>2. CASE Reset
    BY <2>2 DEF Reset, Settled
  <2>3. CASE SetConfig
    BY <1>1, <2>3 DEF SetConfig, history, Continues, Settled
  <2>4. QED
    BY <2>1, <2>2, <2>3
<1>3. Paths' /\ Started' /\ Running'
  BY <1>1 DEF Paths, Started, Running
<1>4. QED
  BY <1>2, <1>3 DEF Continues

(* A call that has ended leaves what its cached text says.                 *)
LEMMA BackContinues ==
  ASSUME pc' = "idle", Settled'
  PROVE  Continues'
<1>1. Paths' /\ Started' /\ Running'
  BY DEF Paths, Started, Running
<1>2. QED
  BY <1>1 DEF Continues

(* The rows of a reply that ends, and what an app caches of it.            *)
LEMMA SyncedContinues ==
  ASSUME Types, Continues, Steps, pc \in {"decode", "return"}, status = "RUNNING"
  PROVE  /\ Content(kept) = (Opening \o Gist(call.msgs)) \o Content(Streamed)
         /\ Synced(WithReply) # << >> =>
              Content(kept) = Opening \o Content(Synced(WithReply))
<1> DEFINE M == Gist(call.msgs)
           r == Content(Streamed)
           W == WithReply
<1>1. call.kind \in Chats /\ Heard = kept
  BY DEF Steps, Chats, Heard
<1>2. Content(kept) = (Opening \o M) \o r /\ (~promptCache => cachedText = << >>)
  BY <1>1 DEF Continues, Running
<1>3. W \in Seq(Message) /\ Gist(W) = M \o r
  BY WithReplySays
<1> HIDE DEF W
<1>4. /\ promptCache => Content(Synced(W)) = Gist(W)
      /\ ~promptCache => Synced(W) = cachedText
  BY <1>3, SyncedSays
<1>5. Opening \in Seq(Piece) /\ M \in Seq(Piece) /\ r \in Seq(Piece)
  <2>1. call.msgs \in Seq(Message) /\ Streamed \in Seq(Piece)
    BY StreamedTyped DEF Types, Calls
  <2>2. Opening \in Seq(Piece) /\ M \in Seq(Piece)
    BY <2>1, GistTyped
  <2>3. r \in Seq(Piece)
    BY <2>1, ContentConcat
  <2>4. QED
    BY <2>2, <2>3
<1>6. (Opening \o M) \o r = Opening \o (M \o r)
  <2> HIDE DEF M, r
  <2>1. QED
    BY <1>5, ConcatAssociative
<1>7. Synced(W) # << >> => Content(kept) = Opening \o Content(Synced(W))
  <2> SUFFICES ASSUME Synced(W) # << >> PROVE Content(kept) = Opening \o Content(Synced(W))
    OBVIOUS
  <2>1. promptCache
    BY <1>2, <1>4 DEF Types
  <2>2. QED
    BY <1>2, <1>3, <1>4, <1>6, <2>1
<1>8. QED
  BY <1>2, <1>7 DEF W

(* A complete reply: the rows say what is cached.                          *)
LEMMA ReturnContinues ==
  ASSUME Undisturbed, Types, Counts, Continues, Return
  PROVE  Continues'
<1>1. pc = "return" /\ pc' = "idle" /\ kept' = kept /\ status' = status
  BY DEF Return, BackToCaller, history, context
<1>2. CASE status # "RUNNING"
  BY <1>1, <1>2, BackContinues DEF Settled
<1>3. CASE status = "RUNNING"
  <2>1. CASE call.kind = "demo"
    <3>1. cachedText' = AfterResponse
      BY <2>1 DEF Return, Steps
    <3>2. Content(kept) = (Opening \o Gist(call.msgs)) \o Content(Streamed)
      BY <1>1, <1>3, <2>1 DEF Continues, Running, Heard, Chats
    <3>3. (Opening \o Gist(call.msgs)) \o Content(Streamed)
            = Opening \o (Gist(call.msgs) \o Content(Streamed))
      <4>1. call.msgs \in Seq(Message) /\ Streamed \in Seq(Piece)
        BY StreamedTyped DEF Types, Calls
      <4>2. Opening \in Seq(Piece) /\ Gist(call.msgs) \in Seq(Piece)
        BY <4>1, GistTyped
      <4>3. Content(Streamed) \in Seq(Piece)
        BY <4>1, ContentConcat
      <4>4. QED
        BY <4>2, <4>3, ConcatAssociative
    <3>4. cachedText' # << >> => Content(cachedText') = Gist(call.msgs) \o Content(Streamed)
      BY <3>1, AfterResponseSays
    <3>5. Settled'
      BY <1>1, <3>2, <3>3, <3>4 DEF Settled
    <3>6. QED
      BY <1>1, <3>5, BackContinues
  <2>2. CASE call.kind = "ids"
    <3>1. cachedText' = cachedText
      BY <2>2 DEF Return, Steps
    <3>2. cachedText = << >>
      BY <1>1, <2>2 DEF Continues, Paths
    <3>3. QED
      BY <1>1, <3>1, <3>2, BackContinues DEF Settled
  <2>3. CASE Steps
    <3>1. cachedText' = Synced(WithReply)
      BY <2>3 DEF Return, Steps
    <3>2. Synced(WithReply) # << >> => Content(kept) = Opening \o Content(Synced(WithReply))
      BY <1>1, <1>3, <2>3, SyncedContinues
    <3>3. Settled'
      BY <1>1, <3>1, <3>2 DEF Settled
    <3>4. QED
      BY <1>1, <3>3, BackContinues
  <2>4. call.kind \in Chats \cup {"ids"}
    BY <1>1 DEF Counts
  <2>5. QED
    BY <2>1, <2>2, <2>3, <2>4 DEF Chats, Steps
<1>4. QED
  BY <1>2, <1>3

(* A cancelled reply: the session caches what it got, the server has the   *)
(* rows of the prompt, for which it cached the text.                       *)
LEMMA CancelContinues ==
  ASSUME Types, Counts, Continues, Cancel
  PROVE  Continues'
<1>1. pc \in {"decode", "return"} /\ pc' = "idle" /\ status' = status /\ Steps
      /\ (pc = "return" => status \notin Errors)
  BY DEF Cancel, BackToCaller
<1>2. status = "RUNNING"
  BY <1>1 DEF Counts, Types
<1>3. CASE call.kind = "session"
  <2>1. cachedText' = Synced(WithReply) /\ kept' = kept
    BY <1>3 DEF Cancel, history
  <2>2. Synced(WithReply) # << >> => Content(kept) = Opening \o Content(Synced(WithReply))
    BY <1>1, <1>2, SyncedContinues
  <2>3. Settled'
    BY <1>1, <2>1, <2>2 DEF Settled
  <2>4. QED
    BY <1>1, <2>3, BackContinues
<1>4. CASE call.kind = "server"
  <2> DEFINE b == call.kvBefore
  <2>1. EraseFrom(b) /\ cachedText' = cachedText
    BY <1>4 DEF Cancel
  <2>2. /\ b <= Len(kept) /\ Content(SubSeq(kept, 1, b)) = Opening \o Gist(call.msgs)
        /\ cachedText = << >> \/ Content(cachedText) = Gist(call.msgs)
    BY <1>1, <1>2, <1>4 DEF Continues, Running, Heard, Chats
  <2>3. b \in Nat /\ kept \in Seq(Piece) /\ stored \in Seq(Piece)
        /\ Len(kept) \in Nat /\ Len(stored) \in Nat
    BY LenProperties DEF Types, Calls
  <2>4. Len(kept) <= Len(stored) /\ kept = SubSeq(stored, 1, Len(kept))
    BY DEF Counts, Rows
  <2> HIDE DEF b
  <2>5. kept' = SubSeq(kept, 1, b)
    <3>1. CASE b < Len(stored)
      <4>1. kept' = SubSeq(stored, 1, b)
        BY <2>1, <2>3, <3>1, EraseFromRows
      <4> DEFINE n == Len(kept)
      <4>2. n \in 0 .. Len(stored) /\ b \in 0 .. n
        BY <2>2, <2>3, <2>4
      <4> HIDE DEF n
      <4>3. SubSeq(SubSeq(stored, 1, n), 1, b) = SubSeq(stored, 1, b)
        BY <2>3, <4>2, FirstOfFirst
      <4>4. kept = SubSeq(stored, 1, n)
        BY <2>4 DEF n
      <4>5. QED
        BY <4>1, <4>3, <4>4
    <3>2. CASE ~(b < Len(stored))
      <4>1. b = Len(kept)
        <5> DEFINE n == Len(kept)
                   m == Len(stored)
        <5>1. b \in Nat /\ n \in Nat /\ m \in Nat /\ b <= n /\ n <= m /\ ~(b < m)
          BY <2>2, <2>3, <2>4, <3>2
        <5> HIDE DEF n, m
        <5>2. b = n
          BY <5>1
        <5>3. QED
          BY <5>2 DEF n
      <4>2. kept' = kept
        BY <2>1, <2>3, <3>2, EraseFromRows
      <4>3. QED
        BY <2>3, <4>1, <4>2, SubSeqFull
    <3>3. QED
      BY <3>1, <3>2
  <2>6. Settled'
    BY <1>1, <2>1, <2>2, <2>5 DEF Settled
  <2>7. QED
    BY <1>1, <2>6, BackContinues
<1>5. QED
  BY <1>1, <1>3, <1>4 DEF Steps

(* Every step keeps what the rows say.                                     *)
LEMMA NextContinues ==
  ASSUME Undisturbed, Types, Counts, Continues, [Next]_vars
  PROVE  Continues'
<1>1. CASE \E kind \in Chats, msgs \in Requests : Respond(kind, msgs)
  <2>1. PICK kind \in Chats, msgs \in Requests : Respond(kind, msgs)
    BY <1>1
  <2>2. msgs \in Seq(Message)
    BY RequestsTyped
  <2>3. QED
    BY <2>1, <2>2, RespondContinues
<1>2. CASE \/ \E kind \in Chats, msgs \in Others : Refuse(kind, msgs)
           \/ Reset \/ SetConfig
  <2>1. \/ \E kind \in Chats, msgs \in Seq(Message) : Refuse(kind, msgs)
        \/ Reset \/ SetConfig
    BY <1>2, RequestsTyped
  <2>2. QED
    BY <2>1, IdleContinues
<1>3. CASE \E ids \in Ids : RespondIds(ids)
  BY <1>3, RespondIdsContinues
<1>4. CASE Prefill
  BY <1>4, PrefillContinues
<1>5. CASE FailPrefill \/ \E token \in Word \cup {Think} : FailDecode(token)
  BY <1>5, BreaksContinues
<1>6. CASE \E token \in Word \cup {Think}, drafts \in Drafts : Decode(token, drafts)
  <2> HIDE DEF Drafts
  <2>1. PICK token \in Word \cup {Think}, drafts \in Drafts : Decode(token, drafts)
    BY <1>6
  <2>2. QED
    BY <2>1, DecodeContinues
<1>7. CASE Reject
  BY <1>7, RejectContinues
<1>8. CASE StopToken \/ \E newStatus \in {"RUNNING", "TIMEOUT"} : EndDecode(newStatus)
  BY <1>8, EndContinues
<1>9. CASE Return
  BY <1>9, ReturnContinues
<1>10. CASE Cancel
  BY <1>10, CancelContinues
<1>11. CASE UNCHANGED vars
  <2>1. /\ stored' = stored /\ kept' = kept /\ status' = status
        /\ cachedText' = cachedText /\ promptCache' = promptCache /\ pc' = pc
        /\ call' = call /\ reply' = reply
    BY <1>11 DEF vars, history, context, config
  <2>2. Heard' = Heard /\ Streamed' = Streamed /\ Steps' = Steps
    BY <2>1 DEF Heard, Streamed, Steps
  <2>3. Settled' /\ Paths' /\ Started' /\ Running'
    BY <2>1, <2>2 DEF Continues, Settled, Paths, Started, Running
  <2>4. QED
    BY <2>3 DEF Continues
<1>12. QED
  BY <1>1, <1>2, <1>3, <1>4, <1>5, <1>6, <1>7, <1>8, <1>9, <1>10, <1>11 DEF Next

(* When nothing else forwards rows while a text is cached, and the cache   *)
(* is not switched during a response, every reply is computed from rows    *)
(* that say what the request says, word for word and in order, at the      *)
(* positions that follow: after complete and cancelled replies, trimmed    *)
(* and edited conversations, thinking a template drops or keeps, rejected  *)
(* drafts, stop tokens, errors and resets.                                 *)
THEOREM PromptAnswersRequest ==
  ASSUME "other_call" \notin Situations, "toggle" \notin Situations
  PROVE  Spec => []AnswersRequest
<1>1. Undisturbed
  BY DEF Undisturbed
<1>2. Init => Types /\ Counts /\ Continues
  <2> SUFFICES ASSUME Init PROVE Types /\ Counts /\ Continues
    OBVIOUS
  <2>1. pc = "idle" /\ cachedText = << >>
    BY DEF Init
  <2>2. Continues
    BY <2>1 DEF Continues, Settled, Paths, Started, Running
  <2>3. QED
    BY <2>2, InitCounts
<1>3. Types /\ Counts /\ Continues /\ [Next]_vars => (Types /\ Counts /\ Continues)'
  BY <1>1, NextCounts, NextContinues
<1>4. Types /\ Counts /\ Continues => AnswersRequest
  <2> SUFFICES ASSUME Types, Counts, Continues, pc = "decode", call.kind \in Chats
               PROVE  /\ Content(kept) = Content(Encoded(call.msgs)) \o Content(reply)
                      /\ allSeqLen = Len(kept)
    BY DEF AnswersRequest
  <2>1. status = "RUNNING" /\ Len(kept) = allSeqLen /\ Streamed = reply /\ Heard = kept
    BY DEF Counts, Heard
  <2>2. Content(kept) = (Opening \o Gist(call.msgs)) \o Content(reply)
    BY <2>1 DEF Continues, Running
  <2>3. Content(Encoded(call.msgs)) = Opening \o Gist(call.msgs)
    BY EncodedSaysGist DEF Types, Calls
  <2>4. QED
    BY <2>1, <2>2, <2>3
<1>5. QED
  BY <1>2, <1>3, <1>4, PTL DEF Spec

-----------------------------------------------------------------------------
(* A request that continues a conversation reuses its rows.                *)

(* A message as a template writes it that drops all thinking, and the text *)
(* of a conversation of such messages.                                     *)
Bared(m) ==
  IF m.role = "user" THEN m.text ELSE << Header >> \o StripThink(m.text) \o << End >>

Bare(msgs) == FlattenSeq([ i \in 1 .. Len(msgs) |-> Bared(msgs[i]) ])

(* A text without thinking.                                                *)
Thoughtless(text) == StripThink(text) = text

(* A message without thinking, but for some that the template of this kind *)
(* drops once it is answered.                                              *)
Quiet(kind, m) == m.role = "user" \/ kind = "keeps" => Thoughtless(m.text)

(* A conversation whose first message is not empty.                        *)
Speaks(msgs) == msgs # << >> /\ (msgs[1].role = "user" => msgs[1].text # << >>)

Proper(kind, msgs) == Speaks(msgs) /\ \A i \in 1 .. Len(msgs) : Quiet(kind, msgs[i])

(* Stripping texts one after the other, twice, and of one piece.           *)
LEMMA StripConcat ==
  ASSUME NEW s \in Seq(Piece), NEW t \in Seq(Piece)
  PROVE  /\ StripThink(s) \in Seq(Piece) /\ StripThink(StripThink(s)) = StripThink(s)
         /\ StripThink(s \o t) = StripThink(s) \o StripThink(t)
         /\ StripThink(<< >>) = << >>
<1>1. Removes({Think}, Piece)
  BY WithoutGrows
<1>2. Without(Without(s, {Think}), {Think}) = Without(s, {Think})
  BY WithoutTwice
<1>3. Without(s \o t, {Think}) = Without(s, {Think}) \o Without(t, {Think})
  BY WithoutConcat
<1>4. QED
  BY <1>1, <1>2, <1>3 DEF StripThink, Removes

(* A piece that is no thinking stays.                                      *)
LEMMA StripOne ==
  ASSUME NEW x \in Piece, x # Think
  PROVE  << x >> \in Seq(Piece) /\ Thoughtless(<< x >>)
<1>1. Without(<< x >>, {Think}) = << x >>
  BY WithoutOne
<1>2. QED
  BY <1>1 DEF Thoughtless, StripThink

(* The parts of a text, stripped one by one.                               *)
Stripped(ss, tt) ==
  /\ Len(ss) = Len(tt)
  /\ \A i \in 1 .. Len(ss) : tt[i] = StripThink(ss[i])

(* They are the text, stripped.                                            *)
LEMMA StripFlatten ==
  ASSUME NEW ss \in Seq(Seq(Piece)), NEW tt \in Seq(Seq(Piece)), Stripped(ss, tt)
  PROVE  StripThink(FlattenSeq(ss)) = FlattenSeq(tt)
<1> DEFINE V == Seq(Piece)
           good == { u \in Seq(V) : \A w \in Seq(V) :
                       Stripped(u, w) => StripThink(FlattenSeq(u)) = FlattenSeq(w) }
<1>0. Flattens(Piece)
  BY FlattenGrows
<1>1. << >> \in good
  <2>1. << >> \in Seq(V)
    OBVIOUS
  <2>2. ASSUME NEW w \in Seq(V), Stripped(<< >>, w)
        PROVE  w = << >>
    <3>1. Len(w) = 0
      BY <2>2 DEF Stripped
    <3> HIDE DEF V
    <3>2. QED
      BY <3>1, EmptySeq
  <2>3. StripThink(<< >>) = << >> /\ FlattenSeq(<< >>) = << >>
    <3>1. PICK none \in Seq(Piece) : none = << >>
      BY NoText
    <3>2. QED
      BY <1>0, <3>1, StripConcat DEF Flattens
  <2>4. ASSUME NEW w \in Seq(V), Stripped(<< >>, w)
        PROVE  StripThink(FlattenSeq(<< >>)) = FlattenSeq(w)
    BY <2>2, <2>3, <2>4
  <2> HIDE DEF V
  <2>5. QED
    BY <2>1, <2>4
<1>2. ASSUME NEW u \in Seq(V), NEW x \in V, u \in good
      PROVE  Append(u, x) \in good
  <2>1. Append(u, x) \in Seq(V) /\ Len(Append(u, x)) = Len(u) + 1
        /\ Append(u, x)[Len(u) + 1] = x
        /\ (\A i \in 1 .. Len(u) : Append(u, x)[i] = u[i])
        /\ Len(u) \in Nat
    <3> HIDE DEF V
    <3>1. QED
      BY AppendProperties, LenProperties
  <2>2. ASSUME NEW w \in Seq(V), Stripped(Append(u, x), w)
        PROVE  StripThink(FlattenSeq(Append(u, x))) = FlattenSeq(w)
    <3>1. w # << >>
      BY <2>1, <2>2 DEF Stripped
    <3>2. PICK v \in Seq(V), y \in V : w = Append(v, y)
      <4> HIDE DEF V
      <4>1. QED
        BY <3>1, SequenceEmptyOrAppend
    <3>3. Len(w) = Len(v) + 1 /\ w[Len(v) + 1] = y /\ Len(v) \in Nat
          /\ \A i \in 1 .. Len(v) : w[i] = v[i]
      <4> HIDE DEF V
      <4>1. QED
        BY <3>2, AppendProperties, LenProperties
    <3>4. Len(v) = Len(u)
      BY <2>1, <2>2, <3>3 DEF Stripped
    <3>5. y = StripThink(x)
      <4>1. Len(u) + 1 \in 1 .. Len(Append(u, x))
        BY <2>1
      <4>2. w[Len(u) + 1] = StripThink(Append(u, x)[Len(u) + 1])
        BY <2>2, <4>1, Zenon DEF Stripped
      <4>3. QED
        BY <2>1, <3>3, <3>4, <4>2
    <3>6. Stripped(u, v)
      <4>1. ASSUME NEW i \in 1 .. Len(u)
            PROVE  v[i] = StripThink(u[i])
        <5>1. i \in 1 .. Len(Append(u, x))
          BY <2>1
        <5>2. w[i] = StripThink(Append(u, x)[i])
          BY <2>2, <5>1, Zenon DEF Stripped
        <5>3. QED
          BY <2>1, <3>3, <3>4, <5>2
      <4>2. QED
        BY <3>4, <4>1 DEF Stripped
    <3>7. StripThink(FlattenSeq(u)) = FlattenSeq(v)
      BY <1>2, <3>6
    <3>8. /\ FlattenSeq(u) \in Seq(Piece)
          /\ FlattenSeq(Append(u, x)) = FlattenSeq(u) \o x
          /\ FlattenSeq(w) = FlattenSeq(v) \o y
      BY <1>0, <3>2 DEF Flattens
    <3>9. StripThink(FlattenSeq(u) \o x) = StripThink(FlattenSeq(u)) \o StripThink(x)
      BY <3>8, StripConcat
    <3>10. QED
      BY <3>5, <3>7, <3>8, <3>9
  <2> HIDE DEF V
  <2>3. QED
    BY <2>1, <2>2
<1>3. \A u \in Seq(V) : u \in good
  <2> HIDE DEF good, V
  <2>1. QED
    BY <1>1, <1>2, SnocInduction
<1>4. QED
  BY <1>3

(* A message without its thinking.                                         *)
LEMMA BaredTyped ==
  ASSUME NEW m \in Message
  PROVE  /\ Bared(m) \in Seq(Piece)
         /\ m.role # "user" => Bared(m) # << >>
         /\ m.text \in Seq(Piece) /\ m.role \in {"user", "assistant"}
<1>1. m.text \in Seq(Piece) /\ m.role \in {"user", "assistant"}
  BY DEF Message
<1>2. StripThink(m.text) \in Seq(Piece)
  BY <1>1, ContentOfStripped
<1>3. << Header >> \in Seq(Piece) /\ << End >> \in Seq(Piece) /\ << End >> # << >>
  BY ContentOfMarkers
<1> DEFINE t == StripThink(m.text)
<1>4. << Header >> \o t \in Seq(Piece)
  BY <1>2, <1>3, ConcatProperties
<1>5. << Header >> \o t \o << End >> \in Seq(Piece)
  BY <1>3, <1>4, ConcatProperties
<1>6. << Header >> \o t \o << End >> # << >>
  BY <1>3, <1>4, ConcatEqualIffEmpty
<1>7. QED
  BY <1>1, <1>5, <1>6 DEF Bared

(* The messages of a conversation, without their thinking.                 *)
LEMMA BaredParts ==
  ASSUME NEW msgs \in Seq(Message)
  PROVE  /\ [ i \in 1 .. Len(msgs) |-> Bared(msgs[i]) ] \in Seq(Seq(Piece))
         /\ Len([ i \in 1 .. Len(msgs) |-> Bared(msgs[i]) ]) = Len(msgs)
         /\ Bare(msgs) \in Seq(Piece) /\ Len(msgs) \in Nat
<1> DEFINE N == Len(msgs)
           V == Seq(Piece)
           tt == [ i \in 1 .. N |-> Bared(msgs[i]) ]
<1>1. N \in Nat
  BY LenProperties
<1>2. tt \in Seq(V) /\ Len(tt) = N
  <2>1. tt \in [1 .. N -> V]
    <3>1. \A i \in 1 .. N : Bared(msgs[i]) \in V
      <4> HIDE DEF V
      <4>1. \A i \in 1 .. N : msgs[i] \in Message
        BY ElementOfSeq
      <4>2. QED
        BY <4>1, BaredTyped DEF V
    <3> HIDE DEF V
    <3>2. QED
      BY <3>1
  <2> HIDE DEF tt, V, N
  <2>2. QED
    BY <1>1, <2>1, Made
<1>3. Flattens(Piece)
  BY FlattenGrows
<1>4. FlattenSeq(tt) \in Seq(Piece)
  <2> HIDE DEF tt
  <2>1. QED
    BY <1>2, <1>3 DEF Flattens
<1>5. QED
  BY <1>1, <1>2, <1>4 DEF Bare

(* A conversation that grows by a message.                                 *)
LEMMA BareGrows ==
  ASSUME NEW msgs \in Seq(Message), NEW m \in Message
  PROVE  /\ Append(msgs, m) \in Seq(Message)
         /\ Bare(Append(msgs, m)) = Bare(msgs) \o Bared(m)
<1> DEFINE N == Len(msgs)
           V == Seq(Piece)
           more == Append(msgs, m)
           tt == [ i \in 1 .. N |-> Bared(msgs[i]) ]
           uu == [ i \in 1 .. Len(more) |-> Bared(more[i]) ]
           vv == Append(tt, Bared(m))
<1>1. /\ N \in Nat /\ more \in Seq(Message) /\ Len(more) = N + 1 /\ more[N + 1] = m
      /\ \A i \in 1 .. N : more[i] = msgs[i]
  BY AppendProperties, LenProperties
<1> HIDE DEF more
<1>2. Bared(m) \in V
  BY BaredTyped
<1>3. tt \in Seq(V) /\ Len(tt) = N
  BY BaredParts
<1>4. uu \in Seq(V) /\ Len(uu) = N + 1
  BY <1>1, BaredParts
<1>5. /\ vv \in Seq(V) /\ Len(vv) = N + 1 /\ vv[N + 1] = Bared(m)
      /\ \A i \in 1 .. N : vv[i] = tt[i]
  <2> HIDE DEF tt, V, N
  <2>1. QED
    BY <1>2, <1>3, AppendProperties
<1>6. ASSUME NEW i \in 1 .. N + 1
      PROVE  uu[i] = vv[i]
  <2>1. uu[i] = Bared(more[i])
    BY <1>1
  <2>2. CASE i = N + 1
    <3> HIDE DEF uu, vv
    <3>1. QED
      BY <1>1, <1>5, <2>1, <2>2
  <2>3. CASE i # N + 1
    <3>1. i \in 1 .. N
      BY <1>1, <2>3
    <3>2. tt[i] = Bared(msgs[i])
      BY <3>1
    <3> HIDE DEF uu, vv, tt
    <3>3. QED
      BY <1>1, <1>5, <2>1, <3>1, <3>2
  <2>4. QED
    BY <2>2, <2>3
<1>7. Bare(more) = FlattenSeq(uu) /\ Bare(msgs) = FlattenSeq(tt)
  BY DEF Bare
<1>8. uu = vv
  <2> HIDE DEF uu, vv, V
  <2>1. QED
    BY <1>4, <1>5, <1>6, SeqEqual
<1> HIDE DEF uu, tt
<1>9. Flattens(Piece)
  BY FlattenGrows
<1>10. FlattenSeq(uu) = FlattenSeq(tt) \o Bared(m)
  BY <1>2, <1>3, <1>8, <1>9 DEF Flattens
<1>11. QED
  BY <1>1, <1>7, <1>10 DEF more

(* A text goes on from the text of what the conversation begins with.      *)
LEMMA BareContinues ==
  ASSUME NEW old \in Seq(Message), NEW msgs \in Seq(Message), IsPrefix(old, msgs)
  PROVE  \E rest \in Seq(Piece) : Bare(msgs) = Bare(old) \o rest
<1> DEFINE Goes(w) == \E rest \in Seq(Piece) : Bare(old \o w) = Bare(old) \o rest
           good == { w \in Seq(Message) : Goes(w) }
           k == Len(old)
           tail == SubSeq(msgs, k + 1, Len(msgs))
<1>1. Bare(old) \in Seq(Piece)
  BY BaredParts
<1>2. << >> \in good
  <2>1. PICK none \in Seq(Piece) : none = << >>
    BY NoText
  <2>2. old \o << >> = old /\ Bare(old) \o << >> = Bare(old)
    BY <1>1, ConcatEmptySeq
  <2>3. Goes(<< >>)
    BY <2>1, <2>2
  <2>4. << >> \in Seq(Message)
    OBVIOUS
  <2> HIDE DEF Goes
  <2>5. QED
    BY <2>3, <2>4
<1>3. ASSUME NEW w \in Seq(Message), NEW m \in Message, w \in good
      PROVE  Append(w, m) \in good
  <2>1. PICK rest \in Seq(Piece) : Bare(old \o w) = Bare(old) \o rest
    BY <1>3
  <2>2. Append(w, m) \in Seq(Message) /\ old \o w \in Seq(Message)
    BY AppendProperties, ConcatProperties
  <2>3. old \o Append(w, m) = Append(old \o w, m)
    BY ConcatAppend
  <2>4. Bare(Append(old \o w, m)) = Bare(old \o w) \o Bared(m)
    BY <2>2, BareGrows
  <2>5. Bared(m) \in Seq(Piece)
    BY BaredTyped
  <2>6. (Bare(old) \o rest) \o Bared(m) = Bare(old) \o (rest \o Bared(m))
    BY <1>1, <2>5, ConcatAssociative
  <2>7. rest \o Bared(m) \in Seq(Piece)
    BY <2>5, ConcatProperties
  <2>8. Goes(Append(w, m))
    BY <2>1, <2>3, <2>4, <2>6, <2>7
  <2> HIDE DEF Goes
  <2>9. QED
    BY <2>2, <2>8
<1>4. \A w \in Seq(Message) : w \in good
  <2> HIDE DEF good
  <2>1. QED
    BY <1>2, <1>3, SnocInduction
<1>5. k \in Nat /\ Len(msgs) \in Nat /\ k <= Len(msgs) /\ SubSeq(old, 1, k) = SubSeq(msgs, 1, k)
  BY LenProperties DEF IsPrefix
<1>6. SubSeq(old, 1, k) = old
  BY SubSeqFull
<1>7. tail \in Seq(Message) /\ SubSeq(msgs, 1, k) \o tail = msgs
  <2>1. k \in 0 .. Len(msgs)
    BY <1>5
  <2> HIDE DEF k
  <2>2. QED
    BY <2>1, Cut
<1>8. Goes(tail)
  <2> HIDE DEF Goes, tail
  <2>1. QED
    BY <1>4, <1>7
<1>9. old \o tail = msgs
  BY <1>5, <1>6, <1>7
<1>10. QED
  BY <1>8, <1>9

(* What a text begins with.                                                *)
LEMMA BeginsText ==
  ASSUME NEW s \in Seq(Piece), NEW t \in Seq(Piece)
  PROVE  IsPrefix(s, s \o t)
<1> DEFINE n == Len(s)
           m == Len(t)
           u == s \o t
<1>1. /\ n \in Nat /\ m \in Nat /\ u \in Seq(Piece) /\ Len(u) = n + m
      /\ \A i \in 1 .. n + m : u[i] = IF i <= n THEN s[i] ELSE t[i - n]
  BY LenProperties, ConcatProperties
<1> HIDE DEF n, m, u
<1>2. s \in Seq(Piece) /\ Len(s) = n /\ u \in Seq(Piece)
  BY <1>1 DEF n
<1>3. \A i \in 1 .. n : u[i] = s[i] /\ u[i] \in Piece
  <2>1. \A i \in 1 .. n : i \in 1 .. n + m /\ i <= n
    BY <1>1
  <2>2. \A i \in 1 .. n : s[i] \in Piece
    BY <1>2, ElementOfSeq
  <2>3. QED
    BY <1>1, <2>1, <2>2
<1>4. SubSeq(s, 1, n) = s
  BY <1>2, SubSeqFull
<1>5. SubSeq(u, 1, n) \in Seq(Piece) /\ Len(SubSeq(u, 1, n)) = n
      /\ \A i \in 1 .. n : SubSeq(u, 1, n)[i] = u[i]
  BY <1>1, <1>3, SubSeqProperties
<1>6. SubSeq(u, 1, n) = s
  BY <1>1, <1>2, <1>3, <1>5, SeqEqual
<1>7. n <= Len(u)
  BY <1>1
<1>8. QED
  BY <1>2, <1>4, <1>6, <1>7 DEF IsPrefix, u

(* A conversation whose first message is not empty has a text.             *)
LEMMA BareSpeaks ==
  ASSUME NEW msgs \in Seq(Message), Speaks(msgs)
  PROVE  Bare(msgs) # << >> /\ Len(msgs) >= 1
<1>1. Len(msgs) \in Nat /\ Len(msgs) >= 1
  <2>1. Len(msgs) \in Nat /\ Len(msgs) # 0
    BY LenProperties, EmptySeq DEF Speaks
  <2>2. QED
    BY <2>1
<1> DEFINE m == msgs[1]
           first == SubSeq(msgs, 1, 1)
<1>2. m \in Message
  BY <1>1, ElementOfSeq
<1>3. << m >> \in Seq(Message) /\ Len(<< m >>) = 1
  BY <1>2
<1>4. IsPrefix(<< m >>, msgs)
  <2>1. SubSeq(msgs, 1, 1) = << m >> /\ SubSeq(<< m >>, 1, 1) = << m >>
    <3>1. /\ first \in Seq(Message) /\ Len(first) = 1
          /\ \A i \in 1 .. 1 : first[i] = msgs[i]
      BY <1>1, <1>2, SubSeqProperties
    <3> HIDE DEF first, m
    <3>2. \A i \in 1 .. 1 : first[i] = << m >>[i]
      BY <3>1 DEF m
    <3>3. first = << m >>
      BY <1>3, <3>1, <3>2, SeqEqual
    <3>4. SubSeq(<< m >>, 1, Len(<< m >>)) = << m >>
      BY <1>3, SubSeqFull
    <3>5. QED
      BY <1>3, <3>3, <3>4 DEF first
  <2>2. QED
    BY <1>1, <1>3, <2>1 DEF IsPrefix
<1> HIDE DEF m
<1>5. PICK rest \in Seq(Piece) : Bare(msgs) = Bare(<< m >>) \o rest
  BY <1>3, <1>4, BareContinues
<1>6. Bare(<< m >>) = Bared(m)
  <2>1. PICK none \in Seq(Message) : none = << >>
    BY NoText
  <2>2. Bare(Append(none, m)) = Bare(none) \o Bared(m)
    BY <1>2, BareGrows
  <2>3. Append(none, m) = << m >>
    BY <2>1
  <2>4. Bare(none) = << >>
    <3>1. Bare(none) = FlattenSeq([ i \in 1 .. 0 |-> Bared(none[i]) ])
      <4>1. Len(none) = 0
        BY <2>1
      <4>2. QED
        BY <4>1 DEF Bare
    <3>2. [ i \in 1 .. 0 |-> Bared(none[i]) ] = << >>
      <4>1. Len(none) = 0
        BY <2>1
      <4> DEFINE tt == [ i \in 1 .. 0 |-> Bared(none[i]) ]
      <4>2. tt \in Seq(Seq(Piece)) /\ Len(tt) = 0
        BY <4>1, BaredParts
      <4> HIDE DEF tt
      <4>3. tt = << >>
        BY <4>2, EmptySeq
      <4>4. QED
        BY <4>3 DEF tt
    <3>3. FlattenSeq(<< >>) = << >>
      BY FlattenGrows DEF Flattens
    <3>4. QED
      BY <3>1, <3>2, <3>3
  <2>5. << >> \o Bared(m) = Bared(m)
    BY <1>2, BaredTyped, ConcatEmptySeq
  <2>6. QED
    BY <2>2, <2>3, <2>4, <2>5
<1>7. Bared(m) # << >> /\ Bared(m) \in Seq(Piece)
  <2>1. CASE m.role = "user"
    BY <1>2, <2>1, BaredTyped DEF Bared, Speaks, m
  <2>2. CASE m.role # "user"
    BY <1>2, <2>2, BaredTyped
  <2>3. QED
    BY <2>1, <2>2
<1>8. Bare(msgs) # << >>
  BY <1>5, <1>6, <1>7, ConcatEqualIffEmpty
<1>9. QED
  BY <1>1, <1>8

(* What the template makes of a message, with or without its thinking.     *)
LEMMA RenderedStrips ==
  ASSUME NEW m \in Message, NEW t \in Seq(Piece), t \in {m.text, StripThink(m.text)},
         m.role = "user" => Thoughtless(m.text)
  PROVE  LET rendered == IF m.role = "user" THEN m.text ELSE << Header >> \o t \o << End >>
         IN  rendered \in Seq(Piece) /\ StripThink(rendered) = Bared(m)
<1>1. m.text \in Seq(Piece)
  BY BaredTyped
<1>2. CASE m.role = "user"
  BY <1>1, <1>2 DEF Bared, Thoughtless
<1>3. CASE m.role # "user"
  <2> DEFINE u == StripThink(m.text)
  <2>1. StripThink(t) = u
    BY <1>1, StripConcat
  <2>2. /\ << Header >> \in Seq(Piece) /\ StripThink(<< Header >>) = << Header >>
        /\ << End >> \in Seq(Piece) /\ StripThink(<< End >>) = << End >>
    <3>1. Header \in Piece /\ Header # Think /\ End \in Piece /\ End # Think
      BY DEF Piece, Header, End, Think
    <3>2. QED
      BY <3>1, StripOne DEF Thoughtless
  <2> HIDE DEF u
  <2> DEFINE h == << Header >>
             e == << End >>
  <2> HIDE DEF h, e
  <2>3. h \o t \in Seq(Piece) /\ StripThink(h \o t) = h \o u
    <3>1. h \in Seq(Piece) /\ StripThink(h) = h
      BY <2>2 DEF h
    <3>2. StripThink(h \o t) = StripThink(h) \o StripThink(t)
      BY <3>1, StripConcat
    <3>3. QED
      BY <2>1, <3>1, <3>2, ConcatProperties
  <2>4. h \o t \o e \in Seq(Piece) /\ StripThink(h \o t \o e) = h \o u \o e
    <3>1. e \in Seq(Piece) /\ StripThink(e) = e
      BY <2>2 DEF e
    <3>2. StripThink((h \o t) \o e) = StripThink(h \o t) \o StripThink(e)
      BY <2>3, <3>1, StripConcat
    <3>3. QED
      BY <2>3, <3>1, <3>2, ConcatProperties
  <2>5. QED
    BY <1>3, <2>4 DEF Bared, u, h, e
<1>4. QED
  BY <1>2, <1>3

(* What is cached of a conversation whose users do not think.              *)
LEMMA CacheableBare ==
  ASSUME NEW msgs \in Seq(Message),
         \A i \in 1 .. Len(msgs) : msgs[i].role = "user" => Thoughtless(msgs[i].text)
  PROVE  Cacheable(msgs) = Bare(msgs)
<1> DEFINE N == Len(msgs)
           V == Seq(Piece)
           answered(i) == \E j \in i .. Len(msgs) : msgs[j].role = "user"
           Plain(i) == IF template = "drops" /\ answered(i) THEN StripThink(msgs[i].text)
                       ELSE msgs[i].text
           Rendered(i) ==
             IF msgs[i].role = "user" THEN msgs[i].text
             ELSE << Header >> \o Plain(i) \o << End >>
           ss == [ i \in 1 .. N |-> Rendered(i) ]
           tt == [ i \in 1 .. N |-> Bared(msgs[i]) ]
<1>1. N \in Nat
  BY LenProperties
<1>2. ASSUME NEW i \in 1 .. N
      PROVE  Rendered(i) \in V /\ StripThink(Rendered(i)) = Bared(msgs[i])
  <2>1. msgs[i] \in Message /\ msgs[i].text \in V
    BY ElementOfSeq, MessageText
  <2>2. Plain(i) \in V /\ Plain(i) \in {msgs[i].text, StripThink(msgs[i].text)}
    <3> HIDE DEF answered
    <3>1. QED
      BY <2>1, ContentOfStripped
  <2> HIDE DEF Plain
  <2>3. QED
    BY <2>1, <2>2, RenderedStrips
<1>3. ss \in Seq(V) /\ Len(ss) = N
  <2>1. ss \in [1 .. N -> V]
    <3> HIDE DEF V, Rendered
    <3>1. QED
      BY <1>2
  <2> HIDE DEF ss, V, N
  <2>2. QED
    BY <1>1, <2>1, Made
<1>4. tt \in Seq(V) /\ Len(tt) = N
  BY BaredParts
<1>5. Stripped(ss, tt)
  <2>1. ASSUME NEW i \in 1 .. N
        PROVE  tt[i] = StripThink(ss[i])
    <3> HIDE DEF Rendered
    <3>1. ss[i] = Rendered(i) /\ tt[i] = Bared(msgs[i])
      OBVIOUS
    <3>2. QED
      BY <1>2, <3>1
  <2> HIDE DEF ss, tt
  <2>2. QED
    BY <1>3, <1>4, <2>1 DEF Stripped
<1>6. Text(msgs) = FlattenSeq(ss) /\ Bare(msgs) = FlattenSeq(tt)
  BY DEF Text, Bare
<1> HIDE DEF ss, tt
<1>7. StripThink(FlattenSeq(ss)) = FlattenSeq(tt)
  BY <1>3, <1>4, <1>5, StripFlatten
<1>8. QED
  BY <1>6, <1>7 DEF Cacheable

(* The text of a conversation with no thinking but what the template       *)
(* drops.                                                                  *)
LEMMA TextBare ==
  ASSUME NEW msgs \in Seq(Message),
         \A i \in 1 .. Len(msgs) :
           \/ msgs[i].role = "user" \/ Thoughtless(msgs[i].text)
           \/ template = "drops" /\ \E j \in i .. Len(msgs) : msgs[j].role = "user"
  PROVE  Text(msgs) = Bare(msgs)
<1> DEFINE N == Len(msgs)
           answered(i) == \E j \in i .. Len(msgs) : msgs[j].role = "user"
           Plain(i) == IF template = "drops" /\ answered(i) THEN StripThink(msgs[i].text)
                       ELSE msgs[i].text
           Rendered(i) ==
             IF msgs[i].role = "user" THEN msgs[i].text
             ELSE << Header >> \o Plain(i) \o << End >>
           ss == [ i \in 1 .. N |-> Rendered(i) ]
           tt == [ i \in 1 .. N |-> Bared(msgs[i]) ]
<1>1. ASSUME NEW i \in 1 .. N
      PROVE  Rendered(i) = Bared(msgs[i])
  <2>1. \/ msgs[i].role = "user" \/ Thoughtless(msgs[i].text)
        \/ template = "drops" /\ answered(i)
    OBVIOUS
  <2>2. msgs[i].role = "user" \/ Plain(i) = StripThink(msgs[i].text)
    <3> HIDE DEF answered
    <3>1. QED
      BY <2>1 DEF Thoughtless
  <2> HIDE DEF Plain
  <2>3. QED
    BY <2>2 DEF Bared
<1>2. ss = tt
  <2> HIDE DEF Rendered
  <2>1. QED
    BY <1>1
<1>3. Text(msgs) = FlattenSeq(ss) /\ Bare(msgs) = FlattenSeq(tt)
  BY DEF Text, Bare
<1> HIDE DEF ss, tt
<1>4. QED
  BY <1>2, <1>3

(* Requests are such conversations, also the one that goes on from what    *)
(* the caller has; what the app caches is the text of the request; a reply *)
(* that the demo will send back has no thinking, unless the template drops *)
(* it; and the text of what a caller has begins with what is cached.       *)
Asked == pc # "idle" /\ call.kind \in Chats => Proper(template, call.msgs)

Cached ==
  pc \in {"decode", "reject", "return"} /\ Steps /\ promptCache =>
    cachedText = Bare(call.msgs)

Unthinking ==
  pc # "idle" /\ status \notin Errors /\ call.kind = "demo" /\ template = "keeps" =>
    Thoughtless(Streamed)

Carried ==
  status \notin Errors /\ said # << >> =>
    /\ pc = "idle" /\ Proper(template, said)
    /\ promptCache => /\ cachedText # << >>
                      /\ \E rest \in Seq(Piece) : Bare(said) = cachedText \o rest

Reusable == Asked /\ Cached /\ Unthinking /\ Carried /\ template \in {"keeps", "drops"}

(* Callers send no thinking but what they were told, and begin with a      *)
(* message that is not empty.                                              *)
PlainTalk ==
  /\ Think \notin User
  /\ \A msgs \in Others :
       Speaks(msgs) /\ \A i \in 1 .. Len(msgs) : Thoughtless(msgs[i].text)

(* What is cached of such a conversation is its text without thinking.     *)
LEMMA ProperCached ==
  ASSUME NEW kind, NEW msgs \in Seq(Message), Proper(kind, msgs)
  PROVE  /\ Cacheable(msgs) = Bare(msgs) /\ Bare(msgs) # << >>
         /\ Bare(msgs) \in Seq(Piece)
         /\ \E rest \in Seq(Piece) : Bare(msgs) = Bare(msgs) \o rest
<1>1. \A i \in 1 .. Len(msgs) : msgs[i].role = "user" => Thoughtless(msgs[i].text)
  BY DEF Proper, Quiet
<1>2. Cacheable(msgs) = Bare(msgs)
  BY <1>1, CacheableBare
<1>3. Bare(msgs) # << >> /\ Bare(msgs) \in Seq(Piece)
  BY BareSpeaks, BaredParts DEF Proper
<1>4. PICK none \in Seq(Piece) : none = << >>
  BY NoText
<1>5. Bare(msgs) \o none = Bare(msgs)
  BY <1>3, <1>4, ConcatEmptySeq
<1>6. QED
  BY <1>2, <1>3, <1>5

(* Such a conversation with a message more.                                *)
LEMMA ProperGrows ==
  ASSUME NEW kind, NEW msgs \in Seq(Message), NEW m \in Message, Quiet(kind, m),
         IF msgs = << >> THEN m.text # << >> ELSE Proper(kind, msgs)
  PROVE  Proper(kind, Append(msgs, m)) /\ Append(msgs, m) \in Seq(Message)
<1> DEFINE N == Len(msgs)
           more == Append(msgs, m)
<1>1. /\ N \in Nat /\ more \in Seq(Message) /\ Len(more) = N + 1 /\ more[N + 1] = m
      /\ \A i \in 1 .. N : more[i] = msgs[i]
  BY AppendProperties, LenProperties
<1>2. msgs = << >> <=> N = 0
  BY EmptySeq
<1> HIDE DEF more
<1>3. more # << >>
  BY <1>1, EmptySeq
<1>4. ASSUME NEW i \in 1 .. N + 1
      PROVE  Quiet(kind, more[i])
  <2>1. CASE i = N + 1
    BY <1>1, <2>1
  <2>2. CASE i # N + 1
    <3>1. i \in 1 .. N /\ N # 0
      BY <1>1, <2>2
    <3>2. Proper(kind, msgs)
      BY <1>2, <3>1
    <3>3. QED
      BY <1>1, <3>1, <3>2 DEF Proper
  <2>3. QED
    BY <2>1, <2>2
<1>5. more[1].role = "user" => more[1].text # << >>
  <2>1. CASE N = 0
    BY <1>1, <1>2, <2>1
  <2>2. CASE N # 0
    <3>1. more[1] = msgs[1]
      BY <1>1, <2>2
    <3>2. Proper(kind, msgs)
      BY <1>2, <2>2
    <3>3. QED
      BY <3>1, <3>2 DEF Proper, Speaks
  <2>3. QED
    BY <2>1, <2>2
<1>6. QED
  BY <1>1, <1>3, <1>4, <1>5 DEF Proper, Speaks, more

(* A request, and the text that the template makes of it.                  *)
LEMMA ProperRequest ==
  ASSUME PlainTalk, Types, Reusable, pc = "idle", status \notin Errors, NEW msgs \in Requests
  PROVE  Proper(template, msgs) /\ Text(msgs) = Bare(msgs)
<1>1. msgs \in Seq(Message)
  BY RequestsTyped
<1>2. CASE msgs \in Others
  <2>1. Speaks(msgs) /\ \A i \in 1 .. Len(msgs) : Thoughtless(msgs[i].text)
    BY <1>2 DEF PlainTalk
  <2>2. Text(msgs) = Bare(msgs)
    BY <1>1, <2>1, TextBare
  <2>3. QED
    BY <2>1, <2>2 DEF Proper, Quiet
<1>3. ASSUME NEW u \in User, msgs = Append(said, FromUser(<< u >>))
      PROVE  Proper(template, msgs) /\ Text(msgs) = Bare(msgs)
  <2> DEFINE m == FromUser(<< u >>)
             n == Len(said)
  <2>1. u \in Piece /\ u # Think
    BY DEF PlainTalk, Piece
  <2>2. << u >> \in Seq(Piece) /\ Thoughtless(<< u >>) /\ << u >> # << >>
    BY <2>1, StripOne
  <2>3. m.text = << u >> /\ m.role = "user" /\ m \in Message
    BY <2>2 DEF FromUser, Message
  <2> HIDE DEF m
  <2>4. said \in Seq(Message) /\ (said # << >> => Proper(template, said))
    BY DEF Types, Reusable, Carried
  <2>5. Quiet(template, m)
    BY <2>2, <2>3 DEF Quiet
  <2>6. Proper(template, Append(said, m))
    BY <2>2, <2>3, <2>4, <2>5, ProperGrows
  <2>7. msgs = Append(said, m)
    BY <1>3 DEF m
  <2>8. n \in Nat /\ Len(msgs) = n + 1 /\ msgs[n + 1] = m
    BY <2>3, <2>4, <2>7, AppendProperties, LenProperties
  <2>9. ASSUME NEW i \in 1 .. Len(msgs)
        PROVE  \/ msgs[i].role = "user" \/ Thoughtless(msgs[i].text)
               \/ template = "drops" /\ \E j \in i .. Len(msgs) : msgs[j].role = "user"
    <3>1. Quiet(template, msgs[i])
      BY <2>6, <2>7 DEF Proper
    <3>2. \E j \in i .. Len(msgs) : msgs[j].role = "user"
      BY <2>3, <2>8
    <3>3. QED
      BY <3>1, <3>2 DEF Quiet, Reusable
  <2>10. QED
    BY <1>1, <2>6, <2>7, <2>9, TextBare
<1>4. QED
  BY <1>2, <1>3 DEF Requests

(* A request of a chat, or of response(ids), starts.                       *)
LEMMA StartsReusable ==
  ASSUME PlainTalk, Types, Reusable,
         \/ \E kind \in Chats, msgs \in Requests : Respond(kind, msgs)
         \/ \E ids \in Ids : RespondIds(ids)
  PROVE  Reusable'
<1>1. pc = "idle" /\ pc' = "prefill" /\ template' = template /\ reply' = << >>
      /\ said' = << >>
  BY DEF Respond, Delta, Trim, Full, RespondIds, Starts, config
<1>2. Cached' /\ Carried'
  BY <1>1 DEF Cached, Carried
<1>3. Unthinking'
  <2>1. PICK none \in Seq(Piece) : none = << >>
    BY NoText
  <2>2. Without(<< >>, {StopTok}) = << >> /\ StripThink(<< >>) = << >>
    BY <2>1, WithoutGrows, StripConcat DEF Removes
  <2>3. QED
    BY <1>1, <2>2 DEF Unthinking, Streamed, Thoughtless
<1>4. Asked'
  <2>1. CASE \E kind \in Chats, msgs \in Requests : Respond(kind, msgs)
    <3>1. PICK kind \in Chats, msgs \in Requests : Respond(kind, msgs)
      BY <2>1
    <3>2. call'.msgs = msgs /\ status \notin Errors
      BY <3>1 DEF Respond, Delta, Trim, Full, Starts
    <3>3. Proper(template, msgs)
      BY <1>1, <3>2, ProperRequest
    <3>4. QED
      BY <1>1, <3>2, <3>3 DEF Asked
  <2>2. CASE \E ids \in Ids : RespondIds(ids)
    <3>1. call'.kind = "ids"
      BY <2>2 DEF RespondIds, Starts
    <3>2. QED
      BY <3>1 DEF Asked, Chats
  <2>3. QED
    BY <2>1, <2>2
<1>5. QED
  BY <1>1, <1>2, <1>3, <1>4 DEF Reusable

(* The steps of a response change neither the request nor the template.    *)
LEMMA DuringReusable ==
  ASSUME Reusable, pc # "idle", pc' # "idle", call'.kind = call.kind, call'.msgs = call.msgs,
         template' = template, said' = said \/ status' \in Errors,
         status' = status \/ status' \in Errors, Cached', Unthinking'
  PROVE  Reusable'
BY DEF Reusable, Asked, Carried

(* The prefill, which for an app stores what is cached.                    *)
LEMMA PrefillReusable ==
  ASSUME Types, Counts, Reusable, Prefill \/ FailPrefill
  PROVE  Reusable'
<1>1. /\ pc = "prefill" /\ pc' \in {"decode", "return"} /\ reply' = reply
      /\ call'.kind = call.kind /\ call'.msgs = call.msgs
      /\ template' = template /\ promptCache' = promptCache /\ said' = said
      /\ status' = status \/ status' \in Errors
      /\ Steps => cachedText' = AfterResponse
  BY DEF Prefill, FailPrefill, PrefillDone, Breaks, config, Types, Calls, Errors
<1>2. reply = << >>
  BY <1>1 DEF Counts
<1>3. Streamed = << >> /\ Streamed' = << >> /\ Thoughtless(<< >>)
  <2>1. PICK none \in Seq(Piece) : none = << >>
    BY NoText
  <2>2. Without(<< >>, {StopTok}) = << >> /\ StripThink(<< >>) = << >>
    BY <2>1, WithoutGrows, StripConcat DEF Removes
  <2>3. QED
    BY <1>1, <1>2, <2>2 DEF Streamed, Thoughtless
<1>4. Cached'
  <2> SUFFICES ASSUME Steps, promptCache
               PROVE  cachedText' = Bare(call.msgs)
    BY <1>1 DEF Cached, Steps
  <2>1. cachedText' = Cacheable(call.msgs)
    BY <1>1, <1>3 DEF AfterResponse, Updated
  <2>2. Proper(template, call.msgs)
    BY <1>1 DEF Reusable, Asked, Steps, Chats
  <2>3. call.msgs \in Seq(Message)
    BY DEF Types, Calls
  <2>4. QED
    BY <2>1, <2>2, <2>3, ProperCached
<1>5. Unthinking'
  BY <1>3 DEF Unthinking
<1>6. QED
  BY <1>1, <1>4, <1>5, DuringReusable

(* A token: thinking of the demo is dropped by the template, unless the    *)
(* caller sends it back.                                                   *)
LEMMA DecodeReusable ==
  ASSUME "raw_think" \notin Situations, Types, Reusable,
         NEW token \in Word \cup {Think}, NEW drafts \in Drafts, Decode(token, drafts)
  PROVE  Reusable'
<1>1. /\ pc = "decode" /\ pc' \in {"decode", "reject"} /\ call' = call /\ status' = status
      /\ said' = said /\ template' = template /\ promptCache' = promptCache /\ cachedText' = cachedText
      /\ token = Think => ~(call.kind = "demo" /\ template = "keeps")
  BY DEF Decode, Sample, MayThink, config
<1>2. reply' = Append(reply, token) /\ reply \in Seq(Piece)
  BY DEF Decode, Sample, Types
<1>3. token \in Piece /\ token # StopTok
  BY TokenTyped
<1>4. Streamed' = Append(Streamed, token) /\ Streamed \in Seq(Piece)
  BY <1>2, <1>3, StreamedGrows, StreamedTyped DEF Streamed
<1>5. Cached'
  BY <1>1 DEF Reusable, Cached, Steps
<1>6. Unthinking'
  <2> SUFFICES ASSUME status \notin Errors, call.kind = "demo", template = "keeps"
               PROVE  Thoughtless(Append(Streamed, token))
    BY <1>1, <1>4 DEF Unthinking
  <2>1. Thoughtless(Streamed)
    BY <1>1 DEF Reusable, Unthinking
  <2>2. token # Think
    BY <1>1
  <2>3. Without(Append(Streamed, token), {Think}) = Append(Without(Streamed, {Think}), token)
    <3>1. Removes({Think}, Piece)
      BY WithoutGrows
    <3>2. QED
      BY <1>3, <1>4, <2>2, <3>1 DEF Removes
  <2>4. QED
    BY <2>1, <2>3 DEF Thoughtless, StripThink
<1>7. QED
  BY <1>1, <1>5, <1>6, DuringReusable

(* What a draft, an end or an error changes is not the conversation.       *)
LEMMA EndReusable ==
  ASSUME Types, Reusable,
         \/ Reject \/ StopToken \/ \E newStatus \in {"RUNNING", "TIMEOUT"} : EndDecode(newStatus)
         \/ \E token \in Word \cup {Think} : FailDecode(token)
  PROVE  Reusable'
<1>1. /\ pc \in {"decode", "reject"} /\ pc' \in {"decode", "return"} /\ call' = call
      /\ template' = template /\ promptCache' = promptCache /\ cachedText' = cachedText
      /\ said' = said
      /\ \/ status' \in Errors
         \/ status' = status /\ (reply' = reply \/ reply' = Append(reply, StopTok))
  BY DEF Reject, StopToken, EndDecode, FailDecode, Sample, Breaks, config, context, Errors
<1>2. Cached'
  BY <1>1 DEF Reusable, Cached, Steps
<1>3. status' = status => Streamed' = Streamed \/ status' \in Errors
  <2>1. reply \in Seq(Piece) /\ StopTok \in Piece
    BY DEF Types, Piece
  <2>2. Without(Append(reply, StopTok), {StopTok}) = Without(reply, {StopTok})
    BY <2>1, StreamedGrows
  <2>3. QED
    BY <1>1, <2>2 DEF Streamed
<1>4. Unthinking'
  BY <1>1, <1>3 DEF Reusable, Unthinking
<1>5. QED
  BY <1>1, <1>2, <1>4, DuringReusable

(* The conversation as the session and the server have it.                 *)
LEMMA WithReplyProper ==
  ASSUME Types, Steps, Proper(template, call.msgs)
  PROVE  WithReply \in Seq(Message) /\ Proper(template, WithReply)
<1> DEFINE text == StripThink(Streamed)
           m == FromModel(text)
<1>1. call.msgs \in Seq(Message) /\ text \in Seq(Piece) /\ Streamed \in Seq(Piece)
  BY StreamedTyped DEF Types, Calls
<1>2. Thoughtless(text)
  BY <1>1, StripConcat DEF Thoughtless
<1>3. m \in Message /\ m.text = text
  BY <1>1, FromModelTyped
<1>4. WithReply = Append(call.msgs, m) \/ WithReply = call.msgs
  BY DEF WithReply
<1> HIDE DEF m, text
<1>5. Quiet(template, m)
  BY <1>2, <1>3 DEF Quiet
<1>6. call.msgs # << >>
  BY DEF Proper, Speaks
<1>7. Proper(template, Append(call.msgs, m)) /\ Append(call.msgs, m) \in Seq(Message)
  BY <1>1, <1>3, <1>5, <1>6, ProperGrows
<1>8. QED
  BY <1>1, <1>4, <1>7

(* A call ends: what the caller has goes on from what is cached.           *)
LEMMA BackReusable ==
  ASSUME Reusable, pc' = "idle", template' = template, Carried'
  PROVE  Reusable'
BY DEF Reusable, Asked, Cached, Unthinking

(* The app caches the conversation that it keeps.                          *)
LEMMA SyncedReusable ==
  ASSUME Types, Reusable, pc # "idle", Steps, pc' = "idle", template' = template,
         promptCache' = promptCache, cachedText' = Synced(WithReply), said' = WithReply
  PROVE  Reusable'
<1>1. Proper(template, call.msgs)
  BY DEF Reusable, Asked, Steps, Chats
<1>2. WithReply \in Seq(Message) /\ Proper(template, WithReply)
  BY <1>1, WithReplyProper
<1> DEFINE W == WithReply
<1> HIDE DEF W
<1>3. /\ Cacheable(W) = Bare(W) /\ Bare(W) # << >>
      /\ \E rest \in Seq(Piece) : Bare(W) = Bare(W) \o rest
  BY <1>2, ProperCached DEF W
<1>4. said' = W /\ (promptCache' => cachedText' = Bare(W))
  BY <1>3 DEF W, Synced
<1>5. Proper(template', W)
  BY <1>2 DEF W
<1>6. Carried'
  BY <1>3, <1>4, <1>5 DEF Carried
<1>7. QED
  BY <1>6, BackReusable

(* A complete reply.                                                       *)
LEMMA ReturnReusable ==
  ASSUME Types, Counts, Reusable, Return
  PROVE  Reusable'
<1>1. /\ pc = "return" /\ pc' = "idle" /\ template' = template /\ promptCache' = promptCache
      /\ status' = status
  BY DEF Return, BackToCaller, config, context
<1>2. CASE call.kind = "demo"
  <2> DEFINE msgs == call.msgs
             m == FromModel(Streamed)
             S == Append(msgs, m)
  <2>1. cachedText' = AfterResponse /\ said' = S
    BY <1>2 DEF Return, Steps
  <2> SUFFICES ASSUME status \notin Errors
               PROVE  /\ Proper(template, S)
                      /\ promptCache => /\ cachedText' # << >>
                                        /\ \E rest \in Seq(Piece) : Bare(S) = cachedText' \o rest
    <3> HIDE DEF S
    <3>1. CASE status \in Errors
      <4>1. Carried'
        BY <1>1, <3>1 DEF Carried
      <4>2. QED
        BY <1>1, <4>1, BackReusable
    <3>2. CASE status \notin Errors
      <4>1. Carried'
        BY <1>1, <2>1, <3>2 DEF Carried
      <4>2. QED
        BY <1>1, <4>1, BackReusable
    <3>3. QED
      BY <3>1, <3>2
  <2>2. Proper(template, msgs) /\ msgs \in Seq(Message) /\ Streamed \in Seq(Piece)
    BY <1>1, <1>2, StreamedTyped DEF Reusable, Asked, Chats, Types, Calls
  <2>3. m \in Message /\ m.text = Streamed /\ m.role = "assistant"
    BY <2>2, FromModelTyped DEF FromModel
  <2>4. Quiet(template, m)
    BY <1>1, <1>2, <2>3 DEF Reusable, Unthinking, Quiet
  <2> HIDE DEF m, msgs
  <2>5. Proper(template, S) /\ S \in Seq(Message)
    <3>1. msgs # << >>
      BY <2>2 DEF Proper, Speaks
    <3>2. QED
      BY <2>2, <2>3, <2>4, <3>1, ProperGrows
  <2>6. promptCache => /\ cachedText' # << >>
                       /\ \E rest \in Seq(Piece) : Bare(S) = cachedText' \o rest
    <3> SUFFICES ASSUME promptCache
                 PROVE  /\ cachedText' # << >>
                        /\ \E rest \in Seq(Piece) : Bare(S) = cachedText' \o rest
      OBVIOUS
    <3>1. cachedText' = Cacheable(IF Streamed = << >> THEN msgs ELSE S)
      BY <2>1 DEF AfterResponse, Updated, msgs, m
    <3> HIDE DEF S
    <3>2. CASE Streamed = << >>
      <4>1. cachedText' = Bare(msgs) /\ Bare(msgs) # << >>
        BY <2>2, <3>1, <3>2, ProperCached
      <4>2. Bare(S) = Bare(msgs) \o Bared(m) /\ Bared(m) \in Seq(Piece)
        BY <2>2, <2>3, BareGrows, BaredTyped DEF S
      <4>3. QED
        BY <4>1, <4>2
    <3>3. CASE Streamed # << >>
      <4>1. cachedText' = Bare(S) /\ Bare(S) # << >>
            /\ \E rest \in Seq(Piece) : Bare(S) = Bare(S) \o rest
        BY <2>5, <3>1, <3>3, ProperCached
      <4>2. QED
        BY <4>1
    <3>4. QED
      BY <3>2, <3>3
  <2>7. QED
    BY <2>5, <2>6
<1>3. CASE call.kind = "ids"
  <2>1. said' = said
    BY <1>3 DEF Return, Steps
  <2>2. Carried'
    BY <1>1, <2>1 DEF Reusable, Carried
  <2>3. QED
    BY <1>1, <2>2, BackReusable
<1>4. CASE Steps
  <2>1. cachedText' = Synced(WithReply) /\ said' = WithReply
    BY <1>4 DEF Return, Steps
  <2>2. QED
    BY <1>1, <1>4, <2>1, SyncedReusable
<1>5. call.kind \in Chats \cup {"ids"}
  BY <1>1 DEF Counts
<1>6. QED
  BY <1>2, <1>3, <1>4, <1>5 DEF Chats, Steps

(* A cancelled reply: the session keeps what it got, the server the        *)
(* request, which is what is cached.                                       *)
LEMMA CancelReusable ==
  ASSUME Types, Reusable, Cancel
  PROVE  Reusable'
<1>1. /\ pc \in {"decode", "return"} /\ pc' = "idle" /\ Steps /\ template' = template
      /\ promptCache' = promptCache /\ status' = status
  BY DEF Cancel, BackToCaller, config
<1>2. CASE call.kind = "session"
  <2>1. cachedText' = Synced(WithReply) /\ said' = WithReply
    BY <1>2 DEF Cancel
  <2>2. QED
    BY <1>1, <2>1, SyncedReusable
<1>3. CASE call.kind = "server"
  <2> DEFINE msgs == call.msgs
  <2>1. cachedText' = cachedText /\ said' = msgs
    BY <1>3 DEF Cancel
  <2>2. Proper(template, msgs) /\ msgs \in Seq(Message)
        /\ (promptCache => cachedText = Bare(msgs))
    BY <1>1 DEF Reusable, Asked, Cached, Steps, Chats, Types, Calls
  <2> HIDE DEF msgs
  <2>3. Bare(msgs) # << >> /\ \E rest \in Seq(Piece) : Bare(msgs) = Bare(msgs) \o rest
    BY <2>2, ProperCached
  <2>4. Carried'
    BY <1>1, <2>1, <2>2, <2>3 DEF Carried
  <2>5. QED
    BY <1>1, <2>4, BackReusable
<1>4. QED
  BY <1>1, <1>2, <1>3 DEF Steps

(* Between two calls the caller forgets, or nothing changes.               *)
LEMMA IdleReusable ==
  ASSUME "toggle" \notin Situations, Reusable,
         \/ \E kind \in Chats, msgs \in Others : Refuse(kind, msgs)
         \/ Reset \/ SetConfig
  PROVE  Reusable'
<1>1. pc = "idle" /\ pc' = "idle" /\ said' = << >> /\ template' = template
  BY DEF Refuse, Reset, SetConfig, config
<1>2. Carried'
  BY <1>1 DEF Carried
<1>3. QED
  BY <1>1, <1>2, BackReusable

(* Every step keeps what a continued conversation reuses.                  *)
LEMMA NextReusable ==
  ASSUME PlainTalk, "toggle" \notin Situations, "raw_think" \notin Situations,
         Types, Counts, Reusable, [Next]_vars
  PROVE  Reusable'
<1>1. CASE \/ \E kind \in Chats, msgs \in Requests : Respond(kind, msgs)
           \/ \E ids \in Ids : RespondIds(ids)
  BY <1>1, StartsReusable
<1>2. CASE \/ \E kind \in Chats, msgs \in Others : Refuse(kind, msgs)
           \/ Reset \/ SetConfig
  BY <1>2, IdleReusable
<1>3. CASE Prefill \/ FailPrefill
  BY <1>3, PrefillReusable
<1>4. CASE \E token \in Word \cup {Think}, drafts \in Drafts : Decode(token, drafts)
  <2> HIDE DEF Drafts
  <2>1. PICK token \in Word \cup {Think}, drafts \in Drafts : Decode(token, drafts)
    BY <1>4
  <2>2. QED
    BY <2>1, DecodeReusable
<1>5. CASE \/ Reject \/ StopToken \/ \E newStatus \in {"RUNNING", "TIMEOUT"} : EndDecode(newStatus)
           \/ \E token \in Word \cup {Think} : FailDecode(token)
  BY <1>5, EndReusable
<1>6. CASE Return
  BY <1>6, ReturnReusable
<1>7. CASE Cancel
  BY <1>7, CancelReusable
<1>8. CASE UNCHANGED vars
  <2>1. /\ status' = status /\ cachedText' = cachedText /\ promptCache' = promptCache
        /\ pc' = pc /\ call' = call /\ reply' = reply /\ said' = said /\ template' = template
    BY <1>8 DEF vars, context, config
  <2>2. Streamed' = Streamed /\ Steps' = Steps
    BY <2>1 DEF Streamed, Steps
  <2>3. Asked' /\ Cached' /\ Unthinking' /\ Carried'
    BY <2>1, <2>2 DEF Reusable, Asked, Cached, Unthinking, Carried
  <2>4. QED
    BY <2>1, <2>3 DEF Reusable
<1>9. QED
  BY <1>1, <1>2, <1>3, <1>4, <1>5, <1>6, <1>7, <1>8 DEF Next

(* A request that goes on from what the caller has keeps the rows.         *)
LEMMA RequestReuses ==
  ASSUME PlainTalk, Types, Reusable, Next,
         pc = "idle", pc' = "prefill", call'.kind \in Chats, promptCache, said # << >>,
         IsStrictPrefix(said, call'.msgs)
  PROVE  kept' = kept
<1>1. PICK kind \in Chats, msgs \in Requests : Respond(kind, msgs)
  <2>1. CASE \E ids \in Ids : RespondIds(ids)
    BY <2>1 DEF RespondIds, Starts, Chats
  <2>2. ~(Prefill \/ FailPrefill \/ Reject \/ StopToken \/ Return \/ Cancel \/ Reset \/ SetConfig)
    BY DEF Prefill, FailPrefill, Reject, StopToken, Sample, Return, Cancel, Steps, BackToCaller,
           Reset, SetConfig
  <2>3. ~\E token \in Word \cup {Think} :
           FailDecode(token) \/ \E drafts \in Drafts : Decode(token, drafts)
    BY DEF FailDecode, Decode, Sample
  <2>4. ~\E newStatus \in {"RUNNING", "TIMEOUT"} : EndDecode(newStatus)
    BY DEF EndDecode
  <2>5. ~\E kind \in Chats, msgs \in Others : Refuse(kind, msgs)
    BY DEF Refuse
  <2>6. QED
    BY <2>1, <2>2, <2>3, <2>4, <2>5 DEF Next
<1>2. call'.msgs = msgs /\ status \notin Errors
  BY <1>1 DEF Respond, Delta, Trim, Full, Starts
<1>3. msgs \in Seq(Message) /\ said \in Seq(Message) /\ cachedText \in Seq(Piece)
  BY RequestsTyped DEF Types
<1>4. Text(msgs) = Bare(msgs)
  BY <1>2, ProperRequest
<1>5. cachedText # << >>
  BY <1>2 DEF Reusable, Carried
<1>6. IsPrefix(cachedText, Text(msgs))
  <2>1. PICK rest \in Seq(Piece) : Bare(said) = cachedText \o rest
    BY <1>2 DEF Reusable, Carried
  <2>2. IsPrefix(said, msgs)
    BY <1>2 DEF IsStrictPrefix
  <2>3. PICK more \in Seq(Piece) : Bare(msgs) = Bare(said) \o more
    BY <1>3, <2>2, BareContinues
  <2>4. (cachedText \o rest) \o more = cachedText \o (rest \o more)
    BY <1>3, ConcatAssociative
  <2>5. rest \o more \in Seq(Piece)
    BY ConcatProperties
  <2>6. IsPrefix(cachedText, cachedText \o (rest \o more))
    BY <1>3, <2>5, BeginsText
  <2>7. Text(msgs) = cachedText \o (rest \o more)
    BY <1>4, <2>1, <2>3, <2>4
  <2>8. QED
    BY <2>6, <2>7
<1>7. Delta(kind, msgs)
  BY <1>1, <1>5, <1>6 DEF Respond, Trim, Full
<1>8. QED
  BY <1>7 DEF Delta, history

(* A request that only adds messages to the conversation, as the caller    *)
(* has it after the last turn, reuses all rows of it, whoever removed the  *)
(* thinking, after complete and cancelled replies: when callers send no    *)
(* thinking but what they were told, begin with a message that is not      *)
(* empty, and the cache is not switched during a response.                 *)
THEOREM PromptReusesRows ==
  ASSUME PlainTalk, "toggle" \notin Situations, "raw_think" \notin Situations
  PROVE  Spec => ExtensionReuses
<1>1. Init => Types /\ Counts /\ Reusable
  <2> SUFFICES ASSUME Init PROVE Types /\ Counts /\ Reusable
    OBVIOUS
  <2>1. pc = "idle" /\ said = << >> /\ template \in {"keeps", "drops"}
    BY PromptAssumption DEF Init
  <2>2. Reusable
    BY <2>1 DEF Reusable, Asked, Cached, Unthinking, Carried
  <2>3. QED
    BY <2>2, InitCounts
<1>2. Types /\ Counts /\ Reusable /\ [Next]_vars => (Types /\ Counts /\ Reusable)'
  BY NextCounts, NextReusable
<1>3. Types /\ Counts /\ Reusable /\ [Next]_vars =>
        [ (pc = "idle" /\ pc' = "prefill" /\ call'.kind \in Chats
             /\ promptCache /\ said # << >> /\ IsStrictPrefix(said, call'.msgs))
            => kept' = kept ]_vars
  BY RequestReuses
<1>4. QED
  BY <1>1, <1>2, <1>3, PTL DEF Spec, ExtensionReuses
=============================================================================
