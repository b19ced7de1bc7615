----------------------- MODULE BufferAllocatorProofs -----------------------
(***************************************************************************)
(* Proofs about the eager allocator of BufferAllocator, for any alignment, *)
(* sizes, smallest block and number of requests: what is needed at the     *)
(* same time never shares memory, and no memory is lost.  The deferred     *)
(* allocator is the subject of DeferAllocatorProofs.                       *)
(***************************************************************************)
EXTENDS BufferAllocator, SequenceTheorems, FiniteSetTheorems,
        WellFoundedInduction, TLAPS

-----------------------------------------------------------------------------
(* Induction and recursion on numbers.                                     *)

(* A set of naturals that is not empty has a least member.                 *)
LEMMA Least ==
  ASSUME NEW S \in SUBSET Nat, S # {}
  PROVE  \E k \in S : \A l \in S : k <= l
<1> DEFINE Less == { p \in Nat \X Nat : p[1] < p[2] }
<1>1. IsWellFoundedOn(Less, Nat)
  BY NatLessThanWellFounded DEF OpToRel
<1>2. PICK k \in S : \A l \in S : << l, k >> \notin Less
  <2> HIDE DEF Less
  <2>1. QED
    BY <1>1, WFMin
<1>3. ASSUME NEW l \in S
      PROVE  k <= l
  <2>1. k \in Nat /\ l \in Nat
    OBVIOUS
  <2>2. l < k => << l, k >> \in Less
    BY <2>1
  <2>3. QED
    BY <1>2, <2>1, <2>2
<1>4. QED
  BY <1>3

(* Every number has one before it.                                         *)
Descends(from, N) == \A n \in 1 .. N : from[n] \in 0 .. n - 1

(* What 0 has, and every number when the one before has it.                *)
Inherited(good, from, N) == 0 \in good /\ \A n \in 1 .. N : from[n] \in good => n \in good

(* Induction, for a property that is a set of numbers.                     *)
LEMMA Induction ==
  ASSUME NEW N \in Nat, NEW from, Descends(from, N), NEW good, Inherited(good, from, N)
  PROVE  \A n \in 0 .. N : n \in good
<1> USE DEF Descends, Inherited
<1> DEFINE Bad == { n \in 0 .. N : n \notin good }
<1>1. Bad = {}
  <2> SUFFICES ASSUME Bad # {} PROVE FALSE
    OBVIOUS
  <2>1. Bad \in SUBSET Nat
    OBVIOUS
  <2>2. PICK m \in Bad : \A l \in Bad : m <= l
    <3> HIDE DEF Bad
    <3>1. QED
      BY <2>1, Least
  <2>3. m \in 1 .. N /\ m \notin good
    OBVIOUS
  <2>4. from[m] \in 0 .. m - 1
    BY <2>3
  <2>5. from[m] \in 0 .. N /\ ~(m <= from[m])
    BY <2>3, <2>4
  <2>6. from[m] \in good
    BY <2>2, <2>5
  <2>7. QED
    BY <2>3, <2>6
<1>2. QED
  BY <1>1

(* What the values of a recursive function are made by, and keep.          *)
Builds(step, fine, from, N) ==
  \A n \in 1 .. N : \A v : << from[n], v >> \in fine => << n, step[<< n, v >>] >> \in fine

Solves(g, N, a, step, fine, from) ==
  /\ g = [n \in 0 .. N |-> g[n]]
  /\ g[0] = a
  /\ \A n \in 1 .. N : g[n] = step[<< n, g[from[n]] >>]
  /\ \A n \in 0 .. N : << n, g[n] >> \in fine

(* A recursive function is defined when every value is made from an        *)
(* earlier one, and has what the steps keep.                               *)
LEMMA Recursion ==
  ASSUME NEW N \in Nat, NEW a, NEW step, NEW fine, << 0, a >> \in fine,
         NEW from, Descends(from, N), Builds(step, fine, from, N)
  PROVE  \E g : Solves(g, N, a, step, fine, from)
<1> USE DEF Descends, Builds
<1> DEFINE Up(m) == \E g : Solves(g, m, a, step, fine, from)
           Bad == { m \in 0 .. N : ~Up(m) }
<1>1. Bad = {}
  <2> SUFFICES ASSUME Bad # {} PROVE FALSE
    OBVIOUS
  <2>1. Bad \in SUBSET Nat
    OBVIOUS
  <2>2. PICK m \in Bad : \A l \in Bad : m <= l
    <3> HIDE DEF Bad
    <3>1. QED
      BY <2>1, Least
  <2>3. Up(0)
    <3>1. Solves([n \in 0 .. 0 |-> a], 0, a, step, fine, from)
      BY DEF Solves
    <3>2. QED
      BY <3>1
  <2> HIDE DEF Up
  <2>4. m \in 1 .. N /\ ~Up(m)
    BY <2>3
  <2>5. m - 1 \in 0 .. N /\ ~(m <= m - 1)
    BY <2>4
  <2>6. Up(m - 1)
    BY <2>2, <2>5
  <2>7. PICK g : Solves(g, m - 1, a, step, fine, from)
    BY <2>6 DEF Up
  <2> DEFINE h == [n \in 0 .. m |-> IF n < m THEN g[n] ELSE step[<< m, g[from[m]] >>]]
  <2>8. \A n \in 0 .. m - 1 : n \in 0 .. m /\ h[n] = g[n]
    BY <2>4
  <2>9. h[m] = step[<< m, g[from[m]] >>] /\ from[m] \in 0 .. m - 1
    BY <2>4
  <2>10. h = [n \in 0 .. m |-> h[n]]
    OBVIOUS
  <2> HIDE DEF h
  <2>11. h[0] = a
    BY <2>4, <2>7, <2>8 DEF Solves
  <2>12. ASSUME NEW n \in 1 .. m
         PROVE  h[n] = step[<< n, h[from[n]] >>]
    <3>1. n \in 1 .. N /\ from[n] \in 0 .. n - 1
      BY <2>4
    <3>2. from[n] \in 0 .. m - 1
      BY <2>4, <3>1
    <3>3. h[from[n]] = g[from[n]]
      BY <2>8, <3>2
    <3>4. CASE n = m
      BY <2>9, <3>3, <3>4
    <3>5. CASE n # m
      <4>1. n \in 1 .. m - 1 /\ n \in 0 .. m - 1
        BY <2>4, <3>5
      <4>2. g[n] = step[<< n, g[from[n]] >>]
        BY <2>7, <4>1 DEF Solves
      <4>3. QED
        BY <2>8, <3>3, <4>1, <4>2
    <3>6. QED
      BY <3>4, <3>5
  <2>13. ASSUME NEW n \in 0 .. m
         PROVE  << n, h[n] >> \in fine
    <3>1. CASE n = m
      <4>1. << from[m], g[from[m]] >> \in fine
        BY <2>7, <2>9 DEF Solves
      <4>2. << m, step[<< m, g[from[m]] >>] >> \in fine
        BY <2>4, <4>1
      <4>3. QED
        BY <2>9, <3>1, <4>2
    <3>2. CASE n # m
      <4>1. n \in 0 .. m - 1
        BY <2>4, <3>2
      <4>2. QED
        BY <2>7, <2>8, <4>1 DEF Solves
    <3>3. QED
      BY <3>1, <3>2
  <2>14. Solves(h, m, a, step, fine, from)
    BY <2>10, <2>11, <2>12, <2>13 DEF Solves
  <2>15. QED
    BY <2>4, <2>14 DEF Up
<1>2. QED
  BY <1>1

-----------------------------------------------------------------------------
(* Sequences of nodes.                                                     *)

Members(s) == { s[i] : i \in DOMAIN s }
Distinct(s) == \A i, j \in DOMAIN s : s[i] = s[j] => i = j

(* A function on 1 .. n is a sequence.                                     *)
LEMMA Made ==
  ASSUME NEW S, NEW n \in Nat, NEW f, f \in [1 .. n -> S]
  PROVE  f \in Seq(S) /\ Len(f) = n
OBVIOUS

(* The part before a place and the part from a place on.                   *)
LEMMA Parts ==
  ASSUME NEW S, NEW s \in Seq(S), NEW i \in 1 .. Len(s) + 1
  PROVE  /\ SubSeq(s, 1, i - 1) \in Seq(S) /\ Len(SubSeq(s, 1, i - 1)) = i - 1
         /\ SubSeq(s, i, Len(s)) \in Seq(S) /\ Len(SubSeq(s, i, Len(s))) = Len(s) - i + 1
         /\ \A j \in 1 .. i - 1 : SubSeq(s, 1, i - 1)[j] = s[j]
         /\ \A j \in 1 .. Len(s) - i + 1 : SubSeq(s, i, Len(s))[j] = s[i + j - 1]
<1>1. Len(s) \in Nat /\ i \in Nat /\ \A j \in 1 .. Len(s) : s[j] \in S
  BY ElementOfSeq, LenProperties
<1>2. \A j \in 1 .. i - 1 : j \in 1 .. Len(s)
  BY <1>1
<1>3. \A j \in i .. Len(s) : j \in 1 .. Len(s)
  BY <1>1
<1>4. /\ SubSeq(s, 1, i - 1) \in Seq(S) /\ \A j \in 1 .. i - 1 : SubSeq(s, 1, i - 1)[j] = s[j]
      /\ Len(SubSeq(s, 1, i - 1)) = i - 1
  <2>1. i - 1 \in Nat /\ i - 1 - 1 + 1 = i - 1 /\ 1 \in Int
    BY <1>1
  <2>2. \A j \in 1 .. i - 1 : s[j] \in S
    BY <1>1, <1>2
  <2>3. SubSeq(s, 1, i - 1) \in Seq(S)
    BY <2>1, <2>2, SubSeqProperties
  <2>4. Len(SubSeq(s, 1, i - 1)) = i - 1
    <3>1. CASE i - 1 = 0
      BY <2>1, <2>2, <3>1, SubSeqProperties
    <3>2. CASE i - 1 # 0
      <4>1. 1 <= i - 1 + 1
        BY <2>1
      <4>2. QED
        BY <2>1, <2>2, <4>1, SubSeqProperties
    <3>3. QED
      BY <3>1, <3>2
  <2>5. \A j \in 1 .. i - 1 : SubSeq(s, 1, i - 1)[j] = s[1 + j - 1]
    BY <2>1, <2>2, <1>1, SubSeqProperties
  <2>6. QED
    BY <2>3, <2>4, <2>5
<1>5. /\ SubSeq(s, i, Len(s)) \in Seq(S) /\ Len(SubSeq(s, i, Len(s))) = Len(s) - i + 1
      /\ \A j \in 1 .. Len(s) - i + 1 : SubSeq(s, i, Len(s))[j] = s[i + j - 1]
  <2>1. \A j \in i .. Len(s) : s[j] \in S
    BY <1>1, <1>3
  <2>2. i <= Len(s) + 1 /\ i \in Int /\ Len(s) \in Int
    BY <1>1
  <2>3. QED
    BY <2>1, <2>2, SubSeqProperties
<1>6. QED
  BY <1>4, <1>5

(* A sequence without the element at a place.                              *)
LEMMA RemovedAt ==
  ASSUME NEW S, NEW s \in Seq(S), NEW i \in 1 .. Len(s)
  PROVE  /\ Eager!RemoveAt(s, i) \in Seq(S) /\ Len(Eager!RemoveAt(s, i)) = Len(s) - 1
         /\ \A j \in 1 .. Len(s) - 1 :
              Eager!RemoveAt(s, i)[j] = IF j < i THEN s[j] ELSE s[j + 1]
<1>1. Len(s) \in Nat /\ i \in Nat \ {0} /\ i <= Len(s)
  BY LenProperties
<1> DEFINE n == Len(s)
           front == SubSeq(s, 1, i - 1)
           back == SubSeq(s, i + 1, Len(s))
<1>2. i \in 1 .. Len(s) + 1 /\ i + 1 \in 1 .. Len(s) + 1
  BY <1>1
<1>3. /\ front \in Seq(S) /\ Len(front) = i - 1
      /\ \A j \in 1 .. i - 1 : front[j] = s[j]
  BY <1>2, Parts
<1>4. /\ back \in Seq(S) /\ Len(back) = Len(s) - (i + 1) + 1
      /\ \A j \in 1 .. Len(s) - (i + 1) + 1 : back[j] = s[(i + 1) + j - 1]
  BY <1>2, Parts
<1>5. Eager!RemoveAt(s, i) = front \o back
  BY DEF Eager!RemoveAt
<1> HIDE DEF front, back
<1>6. /\ front \o back \in Seq(S) /\ Len(front \o back) = Len(front) + Len(back)
      /\ \A j \in 1 .. Len(front) + Len(back) :
           (front \o back)[j] = IF j <= Len(front) THEN front[j] ELSE back[j - Len(front)]
  BY <1>3, <1>4, ConcatProperties
<1>7. Len(s) = n /\ n \in Nat /\ Len(front) + Len(back) = n - 1
  BY <1>1, <1>3, <1>4
<1> HIDE DEF n
<1>8. ASSUME NEW j \in 1 .. n - 1
      PROVE  (front \o back)[j] = IF j < i THEN s[j] ELSE s[j + 1]
  <2>1. j \in 1 .. Len(front) + Len(back)
    BY <1>7
  <2>2. CASE j < i
    <3>1. j \in 1 .. i - 1 /\ j <= Len(front)
      BY <1>1, <1>3, <2>2
    <3>2. QED
      BY <1>3, <1>6, <2>1, <2>2, <3>1
  <2>3. CASE ~(j < i)
    <3>1. j - (i - 1) \in 1 .. n - (i + 1) + 1 /\ ~(j <= i - 1)
          /\ (i + 1) + (j - (i - 1)) - 1 = j + 1
      BY <1>1, <1>7, <2>3
    <3>2. (front \o back)[j] = back[j - (i - 1)]
      BY <1>3, <1>6, <2>1, <3>1
    <3>3. back[j - (i - 1)] = s[(i + 1) + (j - (i - 1)) - 1]
      BY <1>4, <1>7, <3>1
    <3>4. QED
      BY <2>3, <3>1, <3>2, <3>3
  <2>4. QED
    BY <2>2, <2>3
<1>9. QED
  BY <1>5, <1>6, <1>7, <1>8

(* A sequence with an element more at a place.                             *)
LEMMA InsertedAt ==
  ASSUME NEW S, NEW s \in Seq(S), NEW x \in S, NEW i \in 1 .. Len(s) + 1
  PROVE  /\ Eager!InsertAt(s, i, x) \in Seq(S) /\ Len(Eager!InsertAt(s, i, x)) = Len(s) + 1
         /\ \A j \in 1 .. Len(s) + 1 :
              Eager!InsertAt(s, i, x)[j] =
                IF j < i THEN s[j] ELSE IF j = i THEN x ELSE s[j - 1]
<1>1. Len(s) \in Nat /\ i \in Nat \ {0} /\ i <= Len(s) + 1
  BY LenProperties
<1> DEFINE n == Len(s)
           front == SubSeq(s, 1, i - 1)
           back == SubSeq(s, i, Len(s))
           mid == <<x>>
<1>2. /\ front \in Seq(S) /\ Len(front) = i - 1
      /\ \A j \in 1 .. i - 1 : front[j] = s[j]
  BY Parts
<1>3. /\ back \in Seq(S) /\ Len(back) = Len(s) - i + 1
      /\ \A j \in 1 .. Len(s) - i + 1 : back[j] = s[i + j - 1]
  BY Parts
<1>4. mid \in Seq(S) /\ Len(mid) = 1 /\ mid[1] = x
  OBVIOUS
<1>5. Eager!InsertAt(s, i, x) = (front \o mid) \o back
  BY DEF Eager!InsertAt
<1> HIDE DEF front, back, mid
<1>6. /\ front \o mid \in Seq(S) /\ Len(front \o mid) = Len(front) + Len(mid)
      /\ \A j \in 1 .. Len(front) + Len(mid) :
           (front \o mid)[j] = IF j <= Len(front) THEN front[j] ELSE mid[j - Len(front)]
  BY <1>2, <1>4, ConcatProperties
<1> DEFINE fm == front \o mid
<1>7. fm \in Seq(S) /\ Len(fm) = i /\ \A j \in 1 .. i : fm[j] = IF j < i THEN s[j] ELSE x
  <2>1. Len(front) + Len(mid) = i
    BY <1>1, <1>2, <1>4
  <2>2. ASSUME NEW j \in 1 .. i
        PROVE  fm[j] = IF j < i THEN s[j] ELSE x
    <3>1. CASE j < i
      <4>1. j \in 1 .. i - 1 /\ j <= Len(front) /\ j \in 1 .. Len(front) + Len(mid)
        BY <1>1, <1>2, <2>1, <3>1
      <4>2. QED
        BY <1>2, <1>6, <3>1, <4>1
    <3>2. CASE ~(j < i)
      <4>1. j = i /\ ~(j <= i - 1) /\ j - (i - 1) = 1 /\ j \in 1 .. Len(front) + Len(mid)
        BY <1>1, <2>1, <3>2
      <4>2. QED
        BY <1>2, <1>4, <1>6, <3>2, <4>1
    <3>3. QED
      BY <3>1, <3>2
  <2>3. QED
    BY <1>6, <2>1, <2>2
<1> HIDE DEF fm
<1>8. /\ fm \o back \in Seq(S) /\ Len(fm \o back) = Len(fm) + Len(back)
      /\ \A j \in 1 .. Len(fm) + Len(back) :
           (fm \o back)[j] = IF j <= Len(fm) THEN fm[j] ELSE back[j - Len(fm)]
  BY <1>3, <1>7, ConcatProperties
<1>9. Len(s) = n /\ n \in Nat /\ Len(fm) + Len(back) = n + 1
  BY <1>1, <1>3, <1>7
<1> HIDE DEF n
<1>10. ASSUME NEW j \in 1 .. n + 1
       PROVE  (fm \o back)[j] = IF j < i THEN s[j] ELSE IF j = i THEN x ELSE s[j - 1]
  <2>1. j \in 1 .. Len(fm) + Len(back)
    BY <1>9
  <2>2. CASE j <= i
    <3>1. j \in 1 .. i
      BY <1>1, <2>2
    <3>2. (fm \o back)[j] = fm[j]
      BY <1>7, <1>8, <2>1, <2>2
    <3>3. j < i \/ j = i
      BY <1>1, <2>2
    <3>4. QED
      BY <1>1, <1>7, <3>1, <3>2, <3>3
  <2>3. CASE ~(j <= i)
    <3>1. j - i \in 1 .. n - i + 1 /\ i + (j - i) - 1 = j - 1 /\ ~(j < i) /\ j # i
      BY <1>1, <1>9, <2>3
    <3>2. (fm \o back)[j] = back[j - i]
      BY <1>7, <1>8, <2>1, <2>3
    <3>3. back[j - i] = s[i + (j - i) - 1]
      BY <1>3, <1>9, <3>1
    <3>4. QED
      BY <3>1, <3>2, <3>3
  <2>4. QED
    BY <2>2, <2>3
<1>11. fm \o back = Eager!InsertAt(s, i, x)
  BY <1>5 DEF fm
<1>12. QED
  BY <1>8, <1>9, <1>10, <1>11

(* A node taken out of a list of distinct nodes.                           *)
LEMMA RemovedMembers ==
  ASSUME NEW S, NEW s \in Seq(S), Distinct(s), NEW i \in 1 .. Len(s)
  PROVE  /\ Distinct(Eager!RemoveAt(s, i))
         /\ Members(Eager!RemoveAt(s, i)) = Members(s) \ {s[i]}
<1> DEFINE r == Eager!RemoveAt(s, i)
           n == Len(s)
<1>1. /\ r \in Seq(S) /\ Len(r) = n - 1
      /\ \A j \in 1 .. n - 1 : r[j] = IF j < i THEN s[j] ELSE s[j + 1]
  BY RemovedAt
<1>2. n \in Nat /\ i \in 1 .. n /\ DOMAIN s = 1 .. n /\ DOMAIN r = 1 .. n - 1
  BY <1>1, LenProperties
<1> HIDE DEF r, n
<1>3. \A j, k \in 1 .. n : s[j] = s[k] => j = k
  BY <1>2 DEF Distinct
<1>4. \A j, k \in 1 .. n - 1 : r[j] = r[k] => j = k
  BY <1>1, <1>2, <1>3
<1>5. \A j \in 1 .. n - 1 : \E k \in 1 .. n : k # i /\ r[j] = s[k]
  <2> SUFFICES ASSUME NEW j \in 1 .. n - 1
               PROVE  \E k \in 1 .. n : k # i /\ r[j] = s[k]
    OBVIOUS
  <2>1. CASE j < i
    BY <1>1, <1>2, <2>1
  <2>2. CASE ~(j < i)
    <3>1. j + 1 \in 1 .. n /\ j + 1 # i /\ r[j] = s[j + 1]
      BY <1>1, <1>2, <2>2
    <3>2. QED
      BY <3>1
  <2>3. QED
    BY <2>1, <2>2
<1>6. \A k \in 1 .. n : k # i => \E j \in 1 .. n - 1 : r[j] = s[k]
  <2> SUFFICES ASSUME NEW k \in 1 .. n, k # i
               PROVE  \E j \in 1 .. n - 1 : r[j] = s[k]
    OBVIOUS
  <2>1. CASE k < i
    <3>1. k \in 1 .. n - 1
      BY <1>2, <2>1
    <3>2. QED
      BY <1>1, <2>1, <3>1
  <2>2. CASE ~(k < i)
    <3>1. k - 1 \in 1 .. n - 1 /\ ~(k - 1 < i) /\ (k - 1) + 1 = k
      BY <1>2, <2>2
    <3>2. QED
      BY <1>1, <3>1
  <2>3. QED
    BY <2>1, <2>2
<1>7. Distinct(r)
  BY <1>2, <1>4 DEF Distinct
<1>8. Members(r) = Members(s) \ {s[i]}
  <2>1. ASSUME NEW x
        PROVE  x \in Members(r) <=> x \in Members(s) /\ x # s[i]
    <3>1. ASSUME x \in Members(r) PROVE x \in Members(s) /\ x # s[i]
      <4>1. PICK j \in 1 .. n - 1 : x = r[j]
        BY <3>1, <1>2 DEF Members
      <4>2. PICK k \in 1 .. n : k # i /\ r[j] = s[k]
        BY <1>5
      <4>3. QED
        BY <1>2, <1>3, <4>1, <4>2 DEF Members
    <3>2. ASSUME x \in Members(s), x # s[i] PROVE x \in Members(r)
      <4>1. PICK k \in 1 .. n : x = s[k]
        BY <3>2, <1>2 DEF Members
      <4>2. PICK j \in 1 .. n - 1 : r[j] = s[k]
        BY <1>6, <3>2, <4>1
      <4>3. QED
        BY <1>2, <4>1, <4>2 DEF Members
    <3>3. QED
      BY <3>1, <3>2
  <2>2. QED
    BY <2>1
<1>9. QED
  BY <1>7, <1>8 DEF r

(* A node put into a list that does not have it.                           *)
LEMMA InsertedMembers ==
  ASSUME NEW S, NEW s \in Seq(S), Distinct(s), NEW x \in S, x \notin Members(s),
         NEW i \in 1 .. Len(s) + 1
  PROVE  /\ Distinct(Eager!InsertAt(s, i, x))
         /\ Members(Eager!InsertAt(s, i, x)) = Members(s) \cup {x}
<1> DEFINE r == Eager!InsertAt(s, i, x)
           n == Len(s)
<1>1. /\ r \in Seq(S) /\ Len(r) = n + 1
      /\ \A j \in 1 .. n + 1 : r[j] = IF j < i THEN s[j] ELSE IF j = i THEN x ELSE s[j - 1]
  BY InsertedAt
<1>2. n \in Nat /\ i \in 1 .. n + 1 /\ DOMAIN s = 1 .. n /\ DOMAIN r = 1 .. n + 1
  BY <1>1, LenProperties
<1> HIDE DEF r, n
<1>3. /\ \A j, k \in 1 .. n : s[j] = s[k] => j = k
      /\ \A j \in 1 .. n : s[j] # x
  BY <1>2 DEF Distinct, Members
<1>4. \A j \in 1 .. n + 1 : j = i \/ \E k \in 1 .. n : r[j] = s[k] /\ k = (IF j < i THEN j ELSE j - 1)
  <2> SUFFICES ASSUME NEW j \in 1 .. n + 1, j # i
               PROVE  \E k \in 1 .. n : r[j] = s[k] /\ k = (IF j < i THEN j ELSE j - 1)
    OBVIOUS
  <2>1. CASE j < i
    <3>1. j \in 1 .. n
      BY <1>2, <2>1
    <3>2. QED
      BY <1>1, <2>1, <3>1
  <2>2. CASE ~(j < i)
    <3>1. j - 1 \in 1 .. n
      BY <1>2, <2>2
    <3>2. QED
      BY <1>1, <2>2, <3>1
  <2>3. QED
    BY <2>1, <2>2
<1>5. r[i] = x /\ i \in 1 .. n + 1
  BY <1>1, <1>2
<1>6. ASSUME NEW j \in 1 .. n + 1, NEW k \in 1 .. n + 1, r[j] = r[k]
      PROVE  j = k
  <2>1. CASE j = i \/ k = i
    BY <1>3, <1>4, <1>5, <1>6, <2>1
  <2>2. CASE j # i /\ k # i
    <3>1. PICK p \in 1 .. n : r[j] = s[p] /\ p = (IF j < i THEN j ELSE j - 1)
      BY <1>4, <2>2
    <3>2. PICK q \in 1 .. n : r[k] = s[q] /\ q = (IF k < i THEN k ELSE k - 1)
      BY <1>4, <2>2
    <3>3. p = q
      BY <1>3, <1>6, <3>1, <3>2
    <3>4. QED
      BY <1>2, <2>2, <3>1, <3>2, <3>3
  <2>3. QED
    BY <2>1, <2>2
<1>7. Distinct(r)
  BY <1>2, <1>6 DEF Distinct
<1>8. ASSUME NEW k \in 1 .. n
      PROVE  \E j \in 1 .. n + 1 : r[j] = s[k]
  <2>1. CASE k < i
    <3>1. k \in 1 .. n + 1
      BY <1>2
    <3>2. QED
      BY <1>1, <2>1, <3>1
  <2>2. CASE ~(k < i)
    <3>1. k + 1 \in 1 .. n + 1 /\ ~(k + 1 < i) /\ k + 1 # i /\ (k + 1) - 1 = k
      BY <1>2, <2>2
    <3>2. QED
      BY <1>1, <3>1
  <2>3. QED
    BY <2>1, <2>2
<1>9. Members(r) = Members(s) \cup {x}
  <2>1. ASSUME NEW y
        PROVE  y \in Members(r) <=> y \in Members(s) \/ y = x
    <3>1. ASSUME y \in Members(r) PROVE y \in Members(s) \/ y = x
      <4>1. PICK j \in 1 .. n + 1 : y = r[j]
        BY <3>1, <1>2 DEF Members
      <4>2. QED
        BY <1>2, <1>4, <1>5, <4>1 DEF Members
    <3>2. ASSUME y \in Members(s) \/ y = x PROVE y \in Members(r)
      <4>1. CASE y = x
        BY <1>2, <1>5, <4>1 DEF Members
      <4>2. CASE y \in Members(s)
        <5>1. PICK k \in 1 .. n : y = s[k]
          BY <4>2, <1>2 DEF Members
        <5>2. PICK j \in 1 .. n + 1 : r[j] = s[k]
          BY <1>8
        <5>3. QED
          BY <1>2, <5>1, <5>2 DEF Members
      <4>3. QED
        BY <3>2, <4>1, <4>2
    <3>3. QED
      BY <3>1, <3>2
  <2>2. QED
    BY <2>1
<1>10. QED
  BY <1>7, <1>9 DEF r

(* Going through a sequence from its front.                                *)
Before(N) == [n \in 1 .. N |-> n - 1]

(* The number before a number.                                             *)
LEMMA BeforeDescends ==
  ASSUME NEW N \in Nat
  PROVE  Descends(Before(N), N) /\ \A n \in 1 .. N : Before(N)[n] = n - 1
BY DEF Descends, Before

(* What is left of a list, node by node.                                   *)
Left(g, s, some, S) ==
  /\ g[0] = <<>> /\ \A k \in 0 .. Len(s) : g[k] \in Seq(S)
  /\ \A k \in 1 .. Len(s) :
       g[k] = IF s[k] \in some THEN g[k - 1] ELSE Append(g[k - 1], s[k])

(* Without is what its recursive definition says.                          *)
LEMMA WithoutDefined ==
  ASSUME NEW S, NEW s \in Seq(S), NEW some
  PROVE  \E g : Left(g, s, some, S) /\ Eager!Without(s, some) = g[Len(s)]
<1> DEFINE N == Len(s)
           V == Seq(S)
           after(v, k) == IF s[k] \in some THEN v ELSE Append(v, s[k])
           step == [p \in (1 .. N) \X V |-> after(p[2], p[1])]
           fine == (0 .. N) \X V
           Is(f) == f = [k \in 0 .. N |-> IF k = 0 THEN <<>> ELSE after(f[k - 1], k)]
           left == CHOOSE f : Is(f)
<1>1. N \in Nat /\ \A k \in 1 .. N : s[k] \in S
  BY ElementOfSeq, LenProperties
<1>2. ASSUME NEW k \in 1 .. N, NEW v \in V
      PROVE  after(v, k) \in V
  BY <1>1, AppendProperties
<1>3. <<>> \in V
  OBVIOUS
<1>4. Eager!Without(s, some) = left[N]
  BY DEF Eager!Without
<1> HIDE DEF N, V, after
<1>5. Descends(Before(N), N) /\ \A n \in 1 .. N : Before(N)[n] = n - 1
  BY <1>1, BeforeDescends
<1>6. ASSUME NEW n \in 1 .. N, NEW v, << Before(N)[n], v >> \in fine
      PROVE  step[<< n, v >>] = after(v, n) /\ << n, after(v, n) >> \in fine
  <2>1. v \in V /\ << n, v >> \in (1 .. N) \X V
    BY <1>6
  <2>2. QED
    BY <1>2, <2>1
<1>7. << 0, <<>> >> \in fine
  BY <1>1, <1>3
<1> HIDE DEF step
<1>8. Builds(step, fine, Before(N), N)
  BY <1>6 DEF Builds
<1>9. PICK g : Solves(g, N, <<>>, step, fine, Before(N))
  BY <1>1, <1>5, <1>7, <1>8, Recursion
<1>10. ASSUME NEW k \in 1 .. N
       PROVE  g[k] = after(g[k - 1], k)
  <2>1. k - 1 \in 0 .. N /\ Before(N)[k] = k - 1
    BY <1>1, <1>5
  <2>2. << k - 1, g[k - 1] >> \in fine /\ g[k] = step[<< k, g[k - 1] >>]
    BY <1>9, <2>1 DEF Solves
  <2>3. QED
    BY <1>6, <2>1, <2>2
<1>11. Is(g)
  <2>1. g = [k \in 0 .. N |-> g[k]] /\ g[0] = <<>>
    BY <1>9 DEF Solves
  <2>2. ASSUME NEW k \in 0 .. N
        PROVE  g[k] = IF k = 0 THEN <<>> ELSE after(g[k - 1], k)
    <3>1. k = 0 \/ k \in 1 .. N
      BY <1>1
    <3>2. QED
      BY <1>1, <1>10, <2>1, <3>1
  <2>3. QED
    BY <2>1, <2>2
<1>12. Is(left)
  BY <1>11
<1>13. ASSUME NEW k \in 0 .. N
       PROVE  left[k] = IF k = 0 THEN <<>> ELSE after(left[k - 1], k)
  <2> HIDE DEF left
  <2>1. QED
    BY <1>12
<1> HIDE DEF left, Is
<1>14. left[0] = <<>> /\ \A k \in 1 .. N : left[k] = after(left[k - 1], k)
  <2>1. 0 \in 0 .. N /\ \A k \in 1 .. N : k \in 0 .. N /\ k # 0
    BY <1>1
  <2>2. QED
    BY <1>13, <2>1
<1>15. \A k \in 0 .. N : left[k] \in V
  <2> DEFINE good == {k \in 0 .. N : left[k] \in V}
  <2>1. 0 \in good
    BY <1>1, <1>3, <1>14
  <2>2. ASSUME NEW k \in 1 .. N, Before(N)[k] \in good
        PROVE  k \in good
    <3>1. left[k - 1] \in V
      BY <1>5, <2>2
    <3>2. QED
      BY <1>2, <1>14, <3>1
  <2> HIDE DEF good
  <2>3. Inherited(good, Before(N), N)
    BY <2>1, <2>2 DEF Inherited
  <2>4. \A k \in 0 .. N : k \in good
    BY <1>1, <1>5, <2>3, Induction
  <2>5. QED
    BY <2>4 DEF good
<1>16. Left(left, s, some, S)
  BY <1>14, <1>15 DEF Left, N, V, after
<1>17. QED
  BY <1>4, <1>16 DEF N

(* What is left of a list of distinct nodes: its other nodes, each once.   *)
LEMMA WithoutMembers ==
  ASSUME NEW S, NEW s \in Seq(S), Distinct(s), NEW some
  PROVE  /\ Eager!Without(s, some) \in Seq(S)
         /\ Distinct(Eager!Without(s, some))
         /\ Members(Eager!Without(s, some)) = Members(s) \ some
<1> DEFINE N == Len(s)
<1>1. PICK g : Left(g, s, some, S) /\ Eager!Without(s, some) = g[Len(s)]
  BY WithoutDefined
<1>2. N \in Nat /\ DOMAIN s = 1 .. N /\ \A k \in 1 .. N : s[k] \in S
  BY ElementOfSeq, LenProperties
<1>3. /\ g[0] = <<>> /\ \A k \in 0 .. N : g[k] \in Seq(S)
      /\ \A k \in 1 .. N : g[k] = IF s[k] \in some THEN g[k - 1] ELSE Append(g[k - 1], s[k])
  BY <1>1 DEF Left
<1>4. Eager!Without(s, some) = g[N]
  BY <1>1
<1> HIDE DEF N
<1> DEFINE Upto(k) == {s[i] : i \in 1 .. k}
           good == {k \in 0 .. N : Distinct(g[k]) /\ Members(g[k]) = Upto(k) \ some}
<1>5. 0 \in good
  <2>1. DOMAIN g[0] = {} /\ Upto(0) = {}
    BY <1>3
  <2>2. Distinct(g[0]) /\ Members(g[0]) = {}
    BY <2>1 DEF Distinct, Members
  <2>3. QED
    BY <1>2, <2>1, <2>2
<1>6. ASSUME NEW k \in 1 .. N, Before(N)[k] \in good
      PROVE  k \in good
  <2>1. k - 1 \in 0 .. N /\ Before(N)[k] = k - 1
    BY <1>2, BeforeDescends
  <2>2. Distinct(g[k - 1]) /\ Members(g[k - 1]) = Upto(k - 1) \ some
    BY <1>6, <2>1
  <2>3. Upto(k) = Upto(k - 1) \cup {s[k]}
    <3>1. 1 .. k = (1 .. k - 1) \cup {k}
      BY <1>2
    <3>2. QED
      BY <3>1
  <2>4. s[k] \notin Upto(k - 1)
    <3>1. ASSUME NEW i \in 1 .. k - 1
          PROVE  s[i] # s[k]
      <4>1. i \in 1 .. N /\ i # k
        BY <1>2
      <4>2. QED
        BY <1>2, <4>1 DEF Distinct
    <3>2. QED
      BY <3>1
  <2>5. Distinct(g[k]) /\ Members(g[k]) = Upto(k) \ some
    <3> HIDE DEF Upto
    <3>1. CASE s[k] \in some
      BY <1>3, <2>2, <2>3, <3>1
    <3>2. CASE s[k] \notin some
      <4> DEFINE t == g[k - 1]
                 m == Len(t)
                 u == Append(t, s[k])
      <4>1. t \in Seq(S) /\ s[k] \in S /\ g[k] = u
        BY <1>2, <1>3, <2>1, <3>2
      <4>2. /\ u \in Seq(S) /\ Len(u) = m + 1
            /\ \A i \in 1 .. m : u[i] = t[i]
            /\ u[m + 1] = s[k]
        BY <4>1, AppendProperties
      <4>3. m \in Nat /\ DOMAIN t = 1 .. m /\ DOMAIN u = 1 .. m + 1
        BY <4>1, <4>2, LenProperties
      <4>4. s[k] \notin Members(t)
        BY <2>2, <2>4
      <4> HIDE DEF t, u, m
      <4>5. \A i \in 1 .. m : t[i] # s[k]
        BY <4>3, <4>4 DEF Members
      <4>6. \A i, j \in 1 .. m : t[i] = t[j] => i = j
        BY <2>2, <4>3 DEF Distinct, t
      <4>7. Distinct(u)
        <5>1. ASSUME NEW i \in 1 .. m + 1, NEW j \in 1 .. m + 1, u[i] = u[j]
              PROVE  i = j
          <6>1. (i \in 1 .. m \/ i = m + 1) /\ (j \in 1 .. m \/ j = m + 1)
            BY <4>3
          <6>2. QED
            BY <4>2, <4>5, <4>6, <5>1, <6>1
        <5>2. QED
          BY <4>3, <5>1 DEF Distinct
      <4>8. Members(u) = Members(t) \cup {s[k]}
        <5>1. 1 .. m + 1 = (1 .. m) \cup {m + 1}
          BY <4>3
        <5>2. QED
          BY <4>2, <4>3, <5>1 DEF Members
      <4>9. QED
        BY <2>2, <2>3, <3>2, <4>1, <4>7, <4>8 DEF t
    <3>3. QED
      BY <3>1, <3>2
  <2>6. k \in 0 .. N
    BY <1>2
  <2>7. QED
    BY <2>5, <2>6
<1> HIDE DEF good
<1>7. Inherited(good, Before(N), N)
  BY <1>5, <1>6 DEF Inherited
<1>8. N \in good
  <2>1. N \in 0 .. N
    BY <1>2
  <2>2. QED
    BY <1>2, <1>7, <2>1, BeforeDescends, Induction
<1>9. Distinct(g[N]) /\ Members(g[N]) = Upto(N) \ some
  BY <1>8 DEF good
<1>10. Members(s) = Upto(N)
  BY <1>2 DEF Members
<1>11. g[N] \in Seq(S)
  BY <1>2, <1>3
<1>12. QED
  BY <1>4, <1>9, <1>10, <1>11

-----------------------------------------------------------------------------
(* The nodes of the eager allocator.                                       *)
(*                                                                         *)
(* A node is current when it is free (idle), lent or kept by a group       *)
(* (busy), or cut in two.  The current nodes are a forest of binary trees: *)
(* the two halves of a node that is cut are current, and its use count is  *)
(* the number of those that are not idle.  Earlier halves, from before the *)
(* node was whole again, stay in the sequence and mean nothing.            *)

EagerNode == [block : Nat, off : Nat, size : Nat, parent : Nat, use : Nat]

(* Whatever happened, a part lies in its block, and was made after its     *)
(* parent.                                                                 *)
Tree(N) ==
  /\ N \in Seq(EagerNode)
  /\ \A n \in 1 .. Len(N) :
       /\ N[n].parent \in 0 .. n - 1
       /\ N[n].block \in 1 .. Len(N)
       /\ N[n].off + N[n].size <= N[N[n].block].size
       /\ N[n].parent = 0 => N[n].block = n
       /\ N[n].parent # 0 => N[n].block = N[N[n].parent].block

Cut(N) == {n \in 1 .. Len(N) : N[n].use # 0}

Halves(N, idle, current, p, a, b) ==
  /\ a # b /\ a \in current /\ b \in current
  /\ N[a].parent = p /\ N[b].parent = p
  /\ \A c \in current : N[c].parent = p => c = a \/ c = b
  /\ N[a].off = N[p].off /\ N[b].off = N[a].off + N[a].size
  /\ N[a].size + N[b].size = N[p].size
  /\ N[p].use = (IF a \in idle THEN 0 ELSE 1) + (IF b \in idle THEN 0 ELSE 1)

Separate(N, a, b) ==
  N[a].block = N[b].block /\ N[a].size # 0 /\ N[b].size # 0 =>
    Apart(N[a].off, N[a].size, N[b].off, N[b].size)

Forest(N, idle, busy, current) ==
  /\ Tree(N)
  /\ idle \subseteq 1 .. Len(N) /\ busy \subseteq 1 .. Len(N)
  /\ idle \cap busy = {} /\ (idle \cup busy) \cap Cut(N) = {}
  /\ current = idle \cup busy \cup Cut(N)
  /\ \A c \in current : N[c].parent # 0 => N[c].parent \in Cut(N)
  /\ \A p \in Cut(N) : \E a, b \in 1 .. Len(N) : Halves(N, idle, current, p, a, b)
  /\ \A a, b \in idle \cup busy : a # b => Separate(N, a, b)

(* Two sequences of nodes that differ in use counts only.                  *)
Same(M, N) ==
  /\ M \in Seq(EagerNode) /\ Len(M) = Len(N)
  /\ \A n \in 1 .. Len(N) :
       /\ M[n].block = N[n].block /\ M[n].parent = N[n].parent
       /\ M[n].off = N[n].off /\ M[n].size = N[n].size

(* Use counts do not matter to where nodes lie.                            *)
LEMMA SameTree ==
  ASSUME NEW N, Tree(N), NEW M, Same(M, N)
  PROVE  /\ Tree(M)
         /\ \A a, b \in 1 .. Len(N) : Separate(N, a, b) => Separate(M, a, b)
<1>1. Len(N) \in Nat /\ \A n \in 1 .. Len(N) : n \in Nat
  BY LenProperties DEF Tree
<1>2. ASSUME NEW n \in 1 .. Len(M)
      PROVE  /\ M[n].parent \in 0 .. n - 1
             /\ M[n].block \in 1 .. Len(M)
             /\ M[n].off + M[n].size <= M[M[n].block].size
             /\ M[n].parent = 0 => M[n].block = n
             /\ M[n].parent # 0 => M[n].block = M[M[n].parent].block
  <2>1. n \in 1 .. Len(N)
    BY <1>2 DEF Same
  <2>2. N[n].parent \in 0 .. n - 1 /\ N[n].block \in 1 .. Len(N)
    BY <2>1 DEF Tree
  <2>3. N[n].parent # 0 => N[n].parent \in 1 .. Len(N)
    BY <1>1, <2>1, <2>2
  <2>4. /\ M[n].block = N[n].block /\ M[n].parent = N[n].parent
        /\ M[n].off = N[n].off /\ M[n].size = N[n].size
    BY <2>1 DEF Same
  <2>5. M[N[n].block].size = N[N[n].block].size /\ Len(M) = Len(N)
    BY <2>2 DEF Same
  <2>6. N[n].off + N[n].size <= N[N[n].block].size /\ (N[n].parent = 0 => N[n].block = n)
    BY <2>1 DEF Tree
  <2>7. N[n].parent # 0 => N[n].block = N[N[n].parent].block
    BY <2>1 DEF Tree
  <2>8. N[n].parent # 0 => M[N[n].parent].block = N[N[n].parent].block
    BY <2>3 DEF Same
  <2>9. QED
    BY <2>2, <2>4, <2>5, <2>6, <2>7, <2>8
<1>3. Tree(M)
  BY <1>2 DEF Tree, Same
<1>4. QED
  BY <1>3 DEF Same, Separate

(* What a node is.                                                         *)
LEMMA NodeTyped ==
  ASSUME NEW N, Tree(N), NEW n \in 1 .. Len(N)
  PROVE  /\ N[n].use \in Nat /\ N[n].off \in Nat /\ N[n].size \in Nat
         /\ N[n].parent \in Nat /\ N[n].block \in Nat
         /\ N[n].parent # 0 => N[n].parent \in 1 .. Len(N) /\ N[n].parent # n
<1>1. N[n] \in EagerNode /\ Len(N) \in Nat
  BY ElementOfSeq, LenProperties DEF Tree
<1>2. N[n].parent \in 0 .. n - 1
  BY DEF Tree
<1>3. QED
  BY <1>1, <1>2 DEF EagerNode

(* A free node is lent or kept by a group: its parent, if it has one,      *)
(* counts it.                                                              *)
LEMMA Lend ==
  ASSUME NEW N, NEW idle, NEW busy, NEW current, Forest(N, idle, busy, current),
         NEW x \in idle, NEW M, Same(M, N),
         \A n \in 1 .. Len(N) :
           M[n].use = N[n].use + (IF n = N[x].parent THEN 1 ELSE 0)
  PROVE  Forest(M, idle \ {x}, busy \cup {x}, current)
<1> USE DEF Forest
<1> DEFINE p == N[x].parent
<1>1. /\ x \in 1 .. Len(N) /\ x \in current /\ x \notin busy /\ x \notin Cut(N)
      /\ current \subseteq 1 .. Len(N)
  BY DEF Cut
<1>2. p # 0 => p \in Cut(N)
  BY <1>1
<1>3. Cut(M) = Cut(N)
  <2>1. ASSUME NEW n \in 1 .. Len(N)
        PROVE  M[n].use # 0 <=> N[n].use # 0
    <3>1. N[n].use \in Nat
      BY NodeTyped
    <3>2. CASE n = p
      <4>1. n \in Cut(N)
        BY <1>1, <1>2, <3>2 DEF Cut
      <4>2. M[n].use = N[n].use + 1
        BY <3>2
      <4>3. QED
        BY <3>1, <4>1, <4>2 DEF Cut
    <3>3. CASE n # p
      <4>1. M[n].use = N[n].use + 0
        BY <3>3
      <4>2. QED
        BY <3>1, <4>1
    <3>4. QED
      BY <3>2, <3>3
  <2>2. QED
    BY <2>1 DEF Cut, Same
<1>4. Tree(M) /\ \A a, b \in 1 .. Len(N) : Separate(N, a, b) => Separate(M, a, b)
  BY SameTree
<1>5. \A c \in current : M[c].parent = N[c].parent
  BY <1>1 DEF Same
<1>6. ASSUME NEW q \in Cut(M)
      PROVE  \E a, b \in 1 .. Len(M) : Halves(M, idle \ {x}, current, q, a, b)
  <2>1. PICK a \in 1 .. Len(N), b \in 1 .. Len(N) : Halves(N, idle, current, q, a, b)
    BY <1>3
  <2>2. q \in 1 .. Len(N)
    BY <1>3 DEF Cut
  <2>3. N[q].use \in Nat
    BY <2>2, NodeTyped
  <2>4. M[q].use = (IF a \in idle \ {x} THEN 0 ELSE 1) + (IF b \in idle \ {x} THEN 0 ELSE 1)
    <3>1. CASE q = p
      <4>1. x = a \/ x = b
        BY <1>1, <2>1, <3>1 DEF Halves
      <4>2. M[q].use = N[q].use + 1
        BY <2>2, <3>1
      <4>3. a # b /\ N[q].use = (IF a \in idle THEN 0 ELSE 1) + (IF b \in idle THEN 0 ELSE 1)
        BY <2>1 DEF Halves
      <4>4. QED
        BY <4>1, <4>2, <4>3
    <3>2. CASE q # p
      <4>1. x # a /\ x # b
        BY <2>1, <3>2 DEF Halves
      <4>2. M[q].use = N[q].use + 0
        BY <2>2, <3>2
      <4>3. N[q].use = (IF a \in idle THEN 0 ELSE 1) + (IF b \in idle THEN 0 ELSE 1)
        BY <2>1 DEF Halves
      <4>4. QED
        BY <2>3, <4>1, <4>2, <4>3
    <3>3. QED
      BY <3>1, <3>2
  <2>5. Halves(M, idle \ {x}, current, q, a, b)
    <3>1. /\ M[a].parent = N[a].parent /\ M[a].off = N[a].off /\ M[a].size = N[a].size
          /\ M[b].parent = N[b].parent /\ M[b].off = N[b].off /\ M[b].size = N[b].size
          /\ M[q].off = N[q].off /\ M[q].size = N[q].size
      BY <2>2 DEF Same
    <3>2. /\ a # b /\ a \in current /\ b \in current /\ N[a].parent = q /\ N[b].parent = q
          /\ \A c \in current : N[c].parent = q => c = a \/ c = b
          /\ N[a].off = N[q].off /\ N[b].off = N[a].off + N[a].size
          /\ N[a].size + N[b].size = N[q].size
      BY <2>1 DEF Halves
    <3>3. \A c \in current : M[c].parent = q => c = a \/ c = b
      BY <1>5, <3>2
    <3>4. QED
      BY <2>4, <3>1, <3>2, <3>3 DEF Halves
  <2>6. a \in 1 .. Len(M) /\ b \in 1 .. Len(M)
    BY DEF Same
  <2>7. QED
    BY <2>5, <2>6
<1>7. idle \ {x} \subseteq 1 .. Len(M) /\ busy \cup {x} \subseteq 1 .. Len(M)
  BY <1>1 DEF Same
<1>8. (idle \ {x}) \cap (busy \cup {x}) = {} /\ ((idle \ {x}) \cup (busy \cup {x})) \cap Cut(M) = {}
  BY <1>1, <1>3
<1>9. current = (idle \ {x}) \cup (busy \cup {x}) \cup Cut(M)
  BY <1>1, <1>3
<1>10. \A c \in current : M[c].parent # 0 => M[c].parent \in Cut(M)
  BY <1>3, <1>5
<1>11. \A a, b \in (idle \ {x}) \cup (busy \cup {x}) : a # b => Separate(M, a, b)
  <2>1. (idle \ {x}) \cup (busy \cup {x}) = idle \cup busy
    OBVIOUS
  <2>2. \A a, b \in idle \cup busy : a # b => Separate(N, a, b)
    OBVIOUS
  <2>3. \A a \in idle \cup busy : a \in 1 .. Len(N)
    OBVIOUS
  <2>4. QED
    BY <1>4, <2>1, <2>2, <2>3
<1>12. QED
  BY <1>4, <1>6, <1>7, <1>8, <1>9, <1>10, <1>11

(* A sequence of nodes with more nodes, the old ones where they were.      *)
Grows(M, N) ==
  /\ M \in Seq(EagerNode) /\ Len(N) <= Len(M)
  /\ \A n \in 1 .. Len(N) :
       /\ M[n].block = N[n].block /\ M[n].parent = N[n].parent
       /\ M[n].off = N[n].off /\ M[n].size = N[n].size

(* Old nodes stay in a tree, and as separate as they were.                 *)
LEMMA GrownTree ==
  ASSUME NEW N, Tree(N), NEW M, Grows(M, N)
  PROVE  /\ \A n \in 1 .. Len(N) :
              /\ n \in 1 .. Len(M)
              /\ M[n].parent \in 0 .. n - 1
              /\ M[n].block \in 1 .. Len(M) /\ M[n].block \in 1 .. Len(N)
              /\ M[n].off + M[n].size <= M[M[n].block].size
              /\ M[n].parent = 0 => M[n].block = n
              /\ M[n].parent # 0 => M[n].block = M[M[n].parent].block
         /\ \A a, b \in 1 .. Len(N) : Separate(N, a, b) => Separate(M, a, b)
<1>1. Len(N) \in Nat /\ Len(M) \in Nat /\ Len(N) <= Len(M) /\ \A n \in 1 .. Len(N) : n \in Nat
  BY LenProperties DEF Tree, Grows
<1>2. \A n \in 1 .. Len(N) : n \in 1 .. Len(M)
  BY <1>1
<1>3. ASSUME NEW n \in 1 .. Len(N)
      PROVE  /\ M[n].parent \in 0 .. n - 1
             /\ M[n].block \in 1 .. Len(N)
             /\ M[n].off + M[n].size <= M[M[n].block].size
             /\ M[n].parent = 0 => M[n].block = n
             /\ M[n].parent # 0 => M[n].block = M[M[n].parent].block
  <2>2. N[n].parent \in 0 .. n - 1 /\ N[n].block \in 1 .. Len(N)
    BY DEF Tree
  <2>3. N[n].parent # 0 => N[n].parent \in 1 .. Len(N)
    BY <1>1, <2>2
  <2>4. /\ M[n].block = N[n].block /\ M[n].parent = N[n].parent
        /\ M[n].off = N[n].off /\ M[n].size = N[n].size
    BY DEF Grows
  <2>5. M[N[n].block].size = N[N[n].block].size
    BY <2>2 DEF Grows
  <2>6. N[n].off + N[n].size <= N[N[n].block].size /\ (N[n].parent = 0 => N[n].block = n)
    BY DEF Tree
  <2>7. N[n].parent # 0 => N[n].block = N[N[n].parent].block
    BY DEF Tree
  <2>8. N[n].parent # 0 => M[N[n].parent].block = N[N[n].parent].block
    BY <2>3 DEF Grows
  <2>9. QED
    BY <2>2, <2>4, <2>5, <2>6, <2>7, <2>8
<1>4. \A a, b \in 1 .. Len(N) : Separate(N, a, b) => Separate(M, a, b)
  BY DEF Grows, Separate
<1>5. \A n \in 1 .. Len(N) : M[n].block \in 1 .. Len(M)
  BY <1>2, <1>3
<1>6. QED
  BY <1>2, <1>3, <1>4, <1>5

(* A busy node is cut in two: its first part is busy, the second idle.     *)
LEMMA CutInTwo ==
  ASSUME NEW N, NEW idle, NEW busy, NEW current, Forest(N, idle, busy, current),
         NEW x \in busy, NEW size \in Nat, size <= N[x].size,
         NEW M, Grows(M, N), Len(M) = Len(N) + 2,
         \A n \in 1 .. Len(N) : n # x => M[n].use = N[n].use, M[x].use = N[x].use + 1,
         M[Len(N) + 1] = Eager!Node(N[x].block, N[x].off, size, x, 0),
         M[Len(N) + 2] = Eager!Node(N[x].block, N[x].off + size, N[x].size - size, x, 0)
  PROVE  Forest(M, idle \cup {Len(N) + 2}, (busy \ {x}) \cup {Len(N) + 1},
                current \cup {Len(N) + 1, Len(N) + 2})
<1> DEFINE a == Len(N) + 1
           b == Len(N) + 2
           L == Len(N)
           xo == N[x].off
           xs == N[x].size
           xb == N[x].block
           xt == N[xb].size
           I == idle \cup {b}
           B == (busy \ {x}) \cup {a}
           C == current \cup {a, b}
<1>1. L \in Nat /\ Len(M) = L + 2 /\ a = L + 1 /\ b = L + 2
  BY LenProperties DEF Forest, Tree
<1>2. Tree(N)
  BY DEF Forest
<1>3. /\ idle \subseteq 1 .. L /\ busy \subseteq 1 .. L /\ Cut(N) \subseteq 1 .. L
      /\ current \subseteq 1 .. L /\ x \in 1 .. L /\ x \in current
      /\ idle \cap busy = {} /\ (idle \cup busy) \cap Cut(N) = {}
      /\ current = idle \cup busy \cup Cut(N)
  BY DEF Forest, Cut
<1>4. /\ \A c \in current : N[c].parent # 0 => N[c].parent \in Cut(N)
      /\ \A p \in Cut(N) : \E u, v \in 1 .. L : Halves(N, idle, current, p, u, v)
      /\ \A u, v \in idle \cup busy : u # v => Separate(N, u, v)
  BY DEF Forest
<1>5. /\ M[a].block = xb /\ M[a].off = xo /\ M[a].size = size
      /\ M[a].parent = x /\ M[a].use = 0
      /\ M[b].block = xb /\ M[b].off = xo + size /\ M[b].size = xs - size
      /\ M[b].parent = x /\ M[b].use = 0
  BY DEF Eager!Node
<1>6. xo \in Nat /\ xs \in Nat /\ xb \in 1 .. L /\ xo + xs <= xt /\ xt \in Nat /\ size <= xs
  <2>1. xb \in 1 .. L /\ xo + xs <= xt
    BY <1>2, <1>3 DEF Tree
  <2>2. xo \in Nat /\ xs \in Nat
    BY <1>2, <1>3, NodeTyped
  <2>3. xt \in Nat
    <3> HIDE DEF xb
    <3>1. QED
      BY <1>2, <2>1, NodeTyped
  <2>4. QED
    BY <2>1, <2>2, <2>3
<1>7. (\A n \in 1 .. L : n # x => M[n].use = N[n].use) /\ M[x].use = 1
  <2>1. N[x].use = 0
    BY <1>3 DEF Cut
  <2>2. QED
    BY <2>1
<1>8. \A n \in 1 .. L :
        /\ M[n].block = N[n].block /\ M[n].parent = N[n].parent
        /\ M[n].off = N[n].off /\ M[n].size = N[n].size
  BY DEF Grows
<1>9. size \in Nat /\ M \in Seq(EagerNode)
  BY DEF Grows
<1>g. /\ \A n \in 1 .. L :
              /\ n \in 1 .. Len(M)
              /\ M[n].parent \in 0 .. n - 1
              /\ M[n].block \in 1 .. Len(M) /\ M[n].block \in 1 .. Len(N)
              /\ M[n].off + M[n].size <= M[M[n].block].size
              /\ M[n].parent = 0 => M[n].block = n
              /\ M[n].parent # 0 => M[n].block = M[M[n].parent].block
      /\ \A u, v \in 1 .. L : Separate(N, u, v) => Separate(M, u, v)
  <2> HIDE DEF L
  <2>1. QED
    BY <1>2, GrownTree, Zenon DEF L
<1>h. /\ M[x].block = xb /\ M[x].off = xo /\ M[x].size = xs /\ M[xb].size = xt
      /\ N[x].block = xb /\ N[x].off = xo /\ N[x].size = xs
  BY <1>3, <1>6, <1>8
<1> HIDE DEF a, b, L, I, B, C, xo, xs, xb, xt
<1>11. Tree(M)
  <2>1. ASSUME NEW n \in {a, b}
        PROVE  /\ M[n].parent \in 0 .. n - 1
               /\ M[n].block \in 1 .. Len(M)
               /\ M[n].off + M[n].size <= M[M[n].block].size
               /\ M[n].parent # 0
               /\ M[n].block = M[M[n].parent].block
    <3>1. M[n].parent = x /\ M[n].block = xb
      BY <1>5
    <3>2. x \in 0 .. n - 1 /\ x # 0 /\ xb \in 1 .. Len(M)
      BY <1>1, <1>3, <1>6
    <3>3. xo + size <= xt /\ (xo + size) + (xs - size) <= xt
      BY <1>6, <1>9
    <3>4. M[n].off + M[n].size <= xt
      BY <1>5, <3>3
    <3>5. QED
      BY <1>h, <3>1, <3>2, <3>4
  <2>2. \A n \in 1 .. Len(M) : n \in 1 .. L \/ n \in {a, b}
    BY <1>1
  <2>3. ASSUME NEW n \in 1 .. Len(M)
        PROVE  /\ M[n].parent \in 0 .. n - 1
               /\ M[n].block \in 1 .. Len(M)
               /\ M[n].off + M[n].size <= M[M[n].block].size
               /\ M[n].parent = 0 => M[n].block = n
               /\ M[n].parent # 0 => M[n].block = M[M[n].parent].block
    <3>1. CASE n \in 1 .. L
      BY <1>g, <3>1
    <3>2. CASE n \in {a, b}
      BY <2>1, <3>2
    <3>3. QED
      BY <2>2, <3>1, <3>2
  <2>4. QED
    BY <1>9, <2>3 DEF Tree
<1>12. Cut(M) = Cut(N) \cup {x}
  <2>1. \A n \in 1 .. L : M[n].use # 0 <=> (N[n].use # 0 \/ n = x)
    BY <1>7
  <2>2. \A n : n \in 1 .. Len(M) <=> n \in 1 .. L \/ n = a \/ n = b
    BY <1>1
  <2>3. \A n : n \in Cut(M) <=> n \in 1 .. Len(M) /\ M[n].use # 0
    BY DEF Cut
  <2>4. \A n : n \in Cut(N) <=> n \in 1 .. L /\ N[n].use # 0
    BY DEF Cut, L
  <2>5. M[a].use = 0 /\ M[b].use = 0 /\ x \in 1 .. L
    BY <1>3, <1>5
  <2>6. \A n : n \in Cut(M) <=> n \in Cut(N) \/ n = x
    BY <2>1, <2>2, <2>3, <2>4, <2>5
  <2>7. QED
    BY <2>6
<1>13. a \notin 1 .. L /\ b \notin 1 .. L /\ a # b /\ a \in 1 .. Len(M) /\ b \in 1 .. Len(M)
  BY <1>1
<1>14. /\ I \subseteq 1 .. Len(M) /\ B \subseteq 1 .. Len(M)
       /\ I \cap B = {} /\ (I \cup B) \cap Cut(M) = {}
       /\ C = I \cup B \cup Cut(M)
  <2>1. \A n \in 1 .. L : n \in 1 .. Len(M)
    BY <1>g
  <2>2. QED
    BY <1>3, <1>12, <1>13, <2>1 DEF I, B, C
<1>15. ASSUME NEW c \in C, M[c].parent # 0
       PROVE  M[c].parent \in Cut(M)
  <2>1. CASE c \in current
    <3>1. N[c].parent \in Cut(N)
      BY <1>3, <1>4, <1>8, <1>15, <2>1
    <3>2. QED
      BY <1>3, <1>8, <1>12, <2>1, <3>1
  <2>2. CASE c \in {a, b}
    BY <1>5, <1>12, <2>2
  <2>3. QED
    BY <2>1, <2>2 DEF C
<1>16. ASSUME NEW q \in Cut(M)
       PROVE  \E u, v \in 1 .. Len(M) : Halves(M, I, C, q, u, v)
  <2>1. CASE q = x
    <3>1. ASSUME NEW c \in C, M[c].parent = x
          PROVE  c = a \/ c = b
      <4>1. ASSUME c \in current PROVE FALSE
        <5>1. N[c].parent = x /\ x # 0
          BY <1>1, <1>3, <1>8, <3>1, <4>1
        <5>2. x \in Cut(N)
          BY <1>4, <4>1, <5>1
        <5>3. QED
          BY <1>3, <5>2
      <4>2. QED
        BY <4>1 DEF C
    <3>2. /\ M[a].off = M[x].off /\ M[b].off = M[a].off + M[a].size
          /\ M[a].size + M[b].size = M[x].size
      <4>1. size + (xs - size) = xs
        BY <1>6, <1>9
      <4>2. QED
        BY <1>5, <1>h, <4>1
    <3>3. M[x].use = (IF a \in I THEN 0 ELSE 1) + (IF b \in I THEN 0 ELSE 1)
      <4>1. a \notin I /\ b \in I
        BY <1>3, <1>13 DEF I
      <4>2. QED
        BY <1>7, <4>1
    <3>4. a \in C /\ b \in C
      BY DEF C
    <3>5. Halves(M, I, C, x, a, b)
      BY <1>5, <1>13, <3>1, <3>2, <3>3, <3>4 DEF Halves
    <3>6. QED
      BY <1>13, <2>1, <3>5
  <2>2. CASE q # x
    <3>1. q \in Cut(N)
      BY <1>12, <2>2
    <3>2. PICK u \in 1 .. L, v \in 1 .. L : Halves(N, idle, current, q, u, v)
      BY <1>4, <3>1
    <3>3. /\ u # v /\ u \in current /\ v \in current /\ N[u].parent = q /\ N[v].parent = q
          /\ \A c \in current : N[c].parent = q => c = u \/ c = v
          /\ N[u].off = N[q].off /\ N[v].off = N[u].off + N[u].size
          /\ N[u].size + N[v].size = N[q].size
          /\ N[q].use = (IF u \in idle THEN 0 ELSE 1) + (IF v \in idle THEN 0 ELSE 1)
      BY <3>2 DEF Halves
    <3>4. q \in 1 .. L
      BY <1>3, <3>1
    <3>5. /\ M[u].parent = N[u].parent /\ M[u].off = N[u].off /\ M[u].size = N[u].size
          /\ M[v].parent = N[v].parent /\ M[v].off = N[v].off /\ M[v].size = N[v].size
          /\ M[q].off = N[q].off /\ M[q].size = N[q].size
      BY <1>8, <3>4
    <3>6. M[q].use = N[q].use
      BY <1>7, <2>2, <3>4
    <3>7. (u \in I <=> u \in idle) /\ (v \in I <=> v \in idle)
      BY <1>13 DEF I
    <3>8. \A c \in C : M[c].parent = q => c = u \/ c = v
      <4>1. ASSUME NEW c \in C, M[c].parent = q
            PROVE  c = u \/ c = v
        <5>1. c \in current
          BY <1>5, <2>2, <4>1 DEF C
        <5>2. N[c].parent = q
          BY <1>3, <1>8, <4>1, <5>1
        <5>3. QED
          BY <3>3, <5>1, <5>2
      <4>2. QED
        BY <4>1
    <3>9. u \in C /\ v \in C
      BY <3>3 DEF C
    <3>10. Halves(M, I, C, q, u, v)
      BY <3>3, <3>5, <3>6, <3>7, <3>8, <3>9 DEF Halves
    <3>11. u \in 1 .. Len(M) /\ v \in 1 .. Len(M)
      BY <1>g
    <3>12. QED
      BY <3>10, <3>11
  <2>3. QED
    BY <2>1, <2>2
<1>17. ASSUME NEW u \in I \cup B, NEW v \in I \cup B, u # v
       PROVE  Separate(M, u, v)
  <2>1. ASSUME NEW c \in (idle \cup busy) \ {x}, NEW n \in {a, b}
        PROVE  Separate(M, c, n) /\ Separate(M, n, c)
    <3> DEFINE co == N[c].off
               cs == N[c].size
               no == M[n].off
               ns == M[n].size
    <3>1. Separate(N, c, x)
      BY <1>3, <1>4
    <3>2. c \in 1 .. L
      BY <1>3
    <3>3. M[c].block = N[c].block /\ M[c].off = co /\ M[c].size = cs
      BY <1>8, <3>2
    <3>4. co \in Nat /\ cs \in Nat
      BY <1>2, <3>2, NodeTyped DEF L
    <3>5. (no = xo /\ ns = size) \/ (no = xo + size /\ ns = xs - size)
      BY <1>5
    <3>6. M[n].block = xb
      BY <1>5
    <3>7. N[c].block = xb /\ cs # 0 /\ xs # 0 => Apart(co, cs, xo, xs)
      BY <1>h, <3>1 DEF Separate
    <3> HIDE DEF co, cs, no, ns
    <3>8. ns # 0 => xs # 0
      BY <1>6, <1>9, <3>5
    <3>9. N[c].block = xb /\ cs # 0 /\ ns # 0 => Apart(co, cs, no, ns) /\ Apart(no, ns, co, cs)
      BY <1>6, <1>9, <3>4, <3>5, <3>7, <3>8 DEF Apart
    <3>10. M[n].off = no /\ M[n].size = ns
      BY DEF no, ns
    <3>11. QED
      BY <3>3, <3>6, <3>9, <3>10 DEF Separate
  <2>2. Separate(M, a, b) /\ Separate(M, b, a)
    BY <1>5, <1>6, <1>9 DEF Separate, Apart
  <2>3. \A n \in I \cup B : n \in (idle \cup busy) \ {x} \/ n = a \/ n = b
    BY <1>3 DEF I, B
  <2>4. CASE u \in (idle \cup busy) \ {x} /\ v \in (idle \cup busy) \ {x}
    BY <1>3, <1>4, <1>g, <1>17, <2>4
  <2>5. QED
    BY <1>17, <2>1, <2>2, <2>3, <2>4
<1>18. Forest(M, I, B, C)
  BY <1>11, <1>14, <1>15, <1>16, <1>17 DEF Forest
<1>19. QED
  BY <1>18 DEF I, B, C, a, b

(* A new block is busy.                                                    *)
LEMMA AddBlock ==
  ASSUME NEW N, NEW idle, NEW busy, NEW current, Forest(N, idle, busy, current),
         NEW size \in Nat, NEW M, Grows(M, N), Len(M) = Len(N) + 1,
         \A n \in 1 .. Len(N) : M[n].use = N[n].use,
         M[Len(N) + 1] = Eager!Node(Len(N) + 1, 0, size, 0, 0)
  PROVE  Forest(M, idle, busy \cup {Len(N) + 1}, current \cup {Len(N) + 1})
<1> DEFINE a == Len(N) + 1
           L == Len(N)
           B == busy \cup {a}
           C == current \cup {a}
<1>1. L \in Nat /\ Len(M) = L + 1 /\ a = L + 1
  BY LenProperties DEF Forest, Tree
<1>2. Tree(N)
  BY DEF Forest
<1>3. /\ idle \subseteq 1 .. L /\ busy \subseteq 1 .. L /\ Cut(N) \subseteq 1 .. L
      /\ current \subseteq 1 .. L
      /\ idle \cap busy = {} /\ (idle \cup busy) \cap Cut(N) = {}
      /\ current = idle \cup busy \cup Cut(N)
  BY DEF Forest, Cut
<1>4. /\ \A c \in current : N[c].parent # 0 => N[c].parent \in Cut(N)
      /\ \A p \in Cut(N) : \E u, v \in 1 .. L : Halves(N, idle, current, p, u, v)
      /\ \A u, v \in idle \cup busy : u # v => Separate(N, u, v)
  BY DEF Forest
<1>5. M[a].block = a /\ M[a].off = 0 /\ M[a].size = size /\ M[a].parent = 0 /\ M[a].use = 0
  BY DEF Eager!Node
<1>6. \A n \in 1 .. L :
        /\ M[n].block = N[n].block /\ M[n].parent = N[n].parent
        /\ M[n].off = N[n].off /\ M[n].size = N[n].size /\ M[n].use = N[n].use
  BY DEF Grows
<1>7. M \in Seq(EagerNode)
  BY DEF Grows
<1>8. /\ \A n \in 1 .. L :
              /\ n \in 1 .. Len(M)
              /\ M[n].parent \in 0 .. n - 1
              /\ M[n].block \in 1 .. Len(M) /\ M[n].block \in 1 .. Len(N)
              /\ M[n].off + M[n].size <= M[M[n].block].size
              /\ M[n].parent = 0 => M[n].block = n
              /\ M[n].parent # 0 => M[n].block = M[M[n].parent].block
      /\ \A u, v \in 1 .. L : Separate(N, u, v) => Separate(M, u, v)
  <2> HIDE DEF L
  <2>1. QED
    BY <1>2, GrownTree, Zenon DEF L
<1>9. \A n \in 1 .. L : M[n].block \in 1 .. L
  BY <1>8
<1> HIDE DEF a, L, B, C
<1>10. a \notin 1 .. L /\ a \in 1 .. Len(M) /\ \A n : n \in 1 .. Len(M) <=> n \in 1 .. L \/ n = a
  BY <1>1
<1>11. Tree(M)
  <2>1. ASSUME NEW n \in 1 .. Len(M)
        PROVE  /\ M[n].parent \in 0 .. n - 1
               /\ M[n].block \in 1 .. Len(M)
               /\ M[n].off + M[n].size <= M[M[n].block].size
               /\ M[n].parent = 0 => M[n].block = n
               /\ M[n].parent # 0 => M[n].block = M[M[n].parent].block
    <3>1. CASE n \in 1 .. L
      BY <1>8, <3>1
    <3>2. CASE n = a
      <4>1. 0 \in 0 .. a - 1 /\ 0 + size <= size
        BY <1>1
      <4>2. QED
        BY <1>5, <1>10, <3>2, <4>1
    <3>3. QED
      BY <1>10, <3>1, <3>2
  <2>2. QED
    BY <1>7, <2>1 DEF Tree
<1>12. Cut(M) = Cut(N)
  <2>1. \A n : n \in Cut(M) <=> n \in 1 .. Len(M) /\ M[n].use # 0
    BY DEF Cut
  <2>2. \A n : n \in Cut(N) <=> n \in 1 .. L /\ N[n].use # 0
    BY DEF Cut, L
  <2>3. \A n : n \in Cut(M) <=> n \in Cut(N)
    BY <1>5, <1>6, <1>10, <2>1, <2>2
  <2>4. QED
    BY <2>3
<1>13. /\ idle \subseteq 1 .. Len(M) /\ B \subseteq 1 .. Len(M)
       /\ idle \cap B = {} /\ (idle \cup B) \cap Cut(M) = {}
       /\ C = idle \cup B \cup Cut(M)
  BY <1>3, <1>8, <1>10, <1>12 DEF B, C
<1>14. ASSUME NEW c \in C, M[c].parent # 0
       PROVE  M[c].parent \in Cut(M)
  <2>1. c \in current
    BY <1>5, <1>14 DEF C
  <2>2. QED
    BY <1>3, <1>4, <1>6, <1>12, <1>14, <2>1
<1>15. ASSUME NEW q \in Cut(M)
       PROVE  \E u, v \in 1 .. Len(M) : Halves(M, idle, C, q, u, v)
  <2>1. PICK u \in 1 .. L, v \in 1 .. L : Halves(N, idle, current, q, u, v)
    BY <1>4, <1>12
  <2>2. q \in 1 .. L
    BY <1>3, <1>12
  <2>3. /\ u # v /\ u \in current /\ v \in current /\ N[u].parent = q /\ N[v].parent = q
        /\ \A c \in current : N[c].parent = q => c = u \/ c = v
        /\ N[u].off = N[q].off /\ N[v].off = N[u].off + N[u].size
        /\ N[u].size + N[v].size = N[q].size
        /\ N[q].use = (IF u \in idle THEN 0 ELSE 1) + (IF v \in idle THEN 0 ELSE 1)
    BY <2>1 DEF Halves
  <2>4. /\ M[u].parent = N[u].parent /\ M[u].off = N[u].off /\ M[u].size = N[u].size
        /\ M[v].parent = N[v].parent /\ M[v].off = N[v].off /\ M[v].size = N[v].size
        /\ M[q].off = N[q].off /\ M[q].size = N[q].size /\ M[q].use = N[q].use
    BY <1>6, <2>2
  <2>5. \A c \in C : M[c].parent = q => c = u \/ c = v
    <3>1. ASSUME NEW c \in C, M[c].parent = q
          PROVE  c = u \/ c = v
      <4>1. q # 0
        BY <1>1, <2>2
      <4>2. c \in current
        BY <1>5, <3>1, <4>1 DEF C
      <4>3. N[c].parent = q
        BY <1>3, <1>6, <3>1, <4>2
      <4>4. QED
        BY <2>3, <4>2, <4>3
    <3>2. QED
      BY <3>1
  <2>6. u \in C /\ v \in C /\ u \in 1 .. Len(M) /\ v \in 1 .. Len(M)
    BY <1>8, <2>3 DEF C
  <2>7. Halves(M, idle, C, q, u, v)
    BY <2>3, <2>4, <2>5, <2>6 DEF Halves
  <2>8. QED
    BY <2>6, <2>7
<1>16. ASSUME NEW u \in idle \cup B, NEW v \in idle \cup B, u # v
       PROVE  Separate(M, u, v)
  <2>1. CASE u = a \/ v = a
    <3>1. M[u].block # M[v].block
      <4>1. (u = a \/ u \in 1 .. L) /\ (v = a \/ v \in 1 .. L)
        BY <1>3 DEF B
      <4>2. QED
        BY <1>5, <1>9, <1>10, <1>16, <2>1, <4>1
    <3>2. QED
      BY <3>1 DEF Separate
  <2>2. CASE u # a /\ v # a
    <3>1. u \in idle \cup busy /\ v \in idle \cup busy /\ u \in 1 .. L /\ v \in 1 .. L
      BY <1>3, <2>2 DEF B
    <3>2. QED
      BY <1>4, <1>8, <1>16, <3>1
  <2>3. QED
    BY <2>1, <2>2
<1>17. Forest(M, idle, B, C)
  BY <1>11, <1>13, <1>14, <1>15, <1>16 DEF Forest
<1>18. QED
  BY <1>17 DEF B, C, a

(* n is not the last half in use, and M has counted that it came back.     *)
Lessens(N, idle, busy, current, n, p, M) ==
  /\ Forest(N, idle, busy, current)
  /\ n \in busy /\ p = N[n].parent /\ (p # 0 => N[p].use # 1)
  /\ Same(M, N) /\ (p # 0 => M[p].use = N[p].use - 1)
  /\ \A m \in 1 .. Len(N) : m # p => M[m].use = N[m].use

(* A busy node comes back and its parent, if it has one, still has another *)
(* half in use.                                                            *)
LEMMA Back ==
  ASSUME NEW N, NEW idle, NEW busy, NEW current, NEW n, NEW p, NEW M,
         Lessens(N, idle, busy, current, n, p, M)
  PROVE  Forest(M, idle \cup {n}, busy \ {n}, current)
<1> USE DEF Lessens
<1> DEFINE I == idle \cup {n}
           B == busy \ {n}
           L == Len(N)
<1>2. Tree(N) /\ Len(M) = L
  BY DEF Forest, Same
<1>3. /\ idle \subseteq 1 .. L /\ busy \subseteq 1 .. L /\ Cut(N) \subseteq 1 .. L
      /\ current \subseteq 1 .. L /\ n \in 1 .. L /\ n \in current
      /\ idle \cap busy = {} /\ (idle \cup busy) \cap Cut(N) = {}
      /\ current = idle \cup busy \cup Cut(N)
  BY DEF Forest, Cut
<1>4. /\ \A c \in current : N[c].parent # 0 => N[c].parent \in Cut(N)
      /\ \A q \in Cut(N) : \E u, v \in 1 .. L : Halves(N, idle, current, q, u, v)
      /\ \A u, v \in idle \cup busy : u # v => Separate(N, u, v)
  BY DEF Forest
<1>5. /\ Tree(M)
      /\ \A u, v \in 1 .. L : Separate(N, u, v) => Separate(M, u, v)
  BY <1>2, SameTree
<1>6. \A m \in 1 .. L :
        /\ M[m].block = N[m].block /\ M[m].parent = N[m].parent
        /\ M[m].off = N[m].off /\ M[m].size = N[m].size
  BY DEF Same
<1>7. p # 0 => p \in Cut(N)
  BY <1>3, <1>4
<1>8. ASSUME p # 0
      PROVE  N[p].use = 2 /\ M[p].use = 1
             /\ \A u, v \in 1 .. L : Halves(N, idle, current, p, u, v) => u \notin idle /\ v \notin idle
  <2>1. ASSUME NEW u \in 1 .. L, NEW v \in 1 .. L, Halves(N, idle, current, p, u, v)
        PROVE  N[p].use = 2 /\ u \notin idle /\ v \notin idle
    <3>1. n = u \/ n = v
      BY <1>3, <2>1 DEF Halves
    <3>2. N[p].use = (IF u \in idle THEN 0 ELSE 1) + (IF v \in idle THEN 0 ELSE 1)
      BY <2>1 DEF Halves
    <3>3. n \notin idle /\ N[p].use # 1
      BY <1>3, <1>8
    <3>4. QED
      BY <3>1, <3>2, <3>3
  <2>2. N[p].use = 2
    BY <1>4, <1>7, <1>8, <2>1
  <2>3. QED
    BY <1>8, <2>1, <2>2
<1>9. \A m \in 1 .. L : m # p => M[m].use = N[m].use
  OBVIOUS
<1> HIDE DEF L, I, B
<1>10. Cut(M) = Cut(N)
  <2>1. \A m : m \in Cut(M) <=> m \in 1 .. L /\ M[m].use # 0
    BY <1>2 DEF Cut
  <2>2. \A m : m \in Cut(N) <=> m \in 1 .. L /\ N[m].use # 0
    BY DEF Cut, L
  <2>3. ASSUME NEW m \in 1 .. L
        PROVE  M[m].use # 0 <=> N[m].use # 0
    <3>1. CASE m = p
      <4>1. p # 0
        BY <2>3, <3>1
      <4>2. QED
        BY <1>8, <3>1, <4>1
    <3>2. CASE m # p
      BY <1>9, <3>2
    <3>3. QED
      BY <3>1, <3>2
  <2>4. \A m : m \in Cut(M) <=> m \in Cut(N)
    BY <2>1, <2>2, <2>3
  <2>5. QED
    BY <2>4
<1>11. /\ I \subseteq 1 .. L /\ B \subseteq 1 .. L
       /\ I \cap B = {} /\ (I \cup B) \cap Cut(M) = {}
       /\ current = I \cup B \cup Cut(M) /\ I \cup B = idle \cup busy
  BY <1>3, <1>10 DEF I, B
<1>12. \A c \in current : M[c].parent # 0 => M[c].parent \in Cut(M)
  BY <1>3, <1>4, <1>6, <1>10
<1>13. ASSUME NEW q \in Cut(M)
       PROVE  \E u, v \in 1 .. L : Halves(M, I, current, q, u, v)
  <2>1. PICK u \in 1 .. L, v \in 1 .. L : Halves(N, idle, current, q, u, v)
    BY <1>4, <1>10
  <2>2. q \in 1 .. L
    BY <1>3, <1>10
  <2>3. /\ u # v /\ u \in current /\ v \in current /\ N[u].parent = q /\ N[v].parent = q
        /\ \A c \in current : N[c].parent = q => c = u \/ c = v
        /\ N[u].off = N[q].off /\ N[v].off = N[u].off + N[u].size
        /\ N[u].size + N[v].size = N[q].size
        /\ N[q].use = (IF u \in idle THEN 0 ELSE 1) + (IF v \in idle THEN 0 ELSE 1)
    BY <2>1 DEF Halves
  <2>4. /\ M[u].parent = N[u].parent /\ M[u].off = N[u].off /\ M[u].size = N[u].size
        /\ M[v].parent = N[v].parent /\ M[v].off = N[v].off /\ M[v].size = N[v].size
        /\ M[q].off = N[q].off /\ M[q].size = N[q].size
    BY <1>6, <2>2
  <2>5. \A c \in current : M[c].parent = q => c = u \/ c = v
    BY <1>3, <1>6, <2>3
  <2>6. M[q].use = (IF u \in I THEN 0 ELSE 1) + (IF v \in I THEN 0 ELSE 1)
    <3>1. CASE q = p
      <4>1. p # 0
        BY <2>2, <3>1
      <4>2. M[p].use = 1 /\ u \notin idle /\ v \notin idle
        BY <1>8, <2>1, <3>1, <4>1
      <4>3. n = u \/ n = v
        BY <1>3, <2>3, <3>1
      <4>4. QED
        BY <2>3, <3>1, <4>2, <4>3 DEF I
    <3>2. CASE q # p
      <4>1. n # u /\ n # v
        BY <2>3, <3>2
      <4>2. (u \in I <=> u \in idle) /\ (v \in I <=> v \in idle)
        BY <4>1 DEF I
      <4>3. M[q].use = N[q].use
        BY <1>9, <2>2, <3>2
      <4>4. QED
        BY <2>3, <4>2, <4>3
    <3>3. QED
      BY <3>1, <3>2
  <2>7. Halves(M, I, current, q, u, v)
    BY <2>3, <2>4, <2>5, <2>6 DEF Halves
  <2>8. QED
    BY <2>7
<1>14. ASSUME NEW u \in I \cup B, NEW v \in I \cup B, u # v
       PROVE  Separate(M, u, v)
  BY <1>3, <1>4, <1>5, <1>11, <1>14
<1>15. Forest(M, I, B, current)
  BY <1>2, <1>5, <1>11, <1>12, <1>13, <1>14 DEF Forest
<1>16. QED
  BY <1>15 DEF I, B

(* A place next to two parts is next to the whole.                         *)
LEMMA ApartFromWhole ==
  ASSUME NEW o \in Nat, NEW s \in Nat, NEW r \in Nat, NEW co \in Nat, NEW cs \in Nat,
         cs # 0, s # 0 => Apart(o, s, co, cs), r # 0 => Apart(o + s, r, co, cs)
  PROVE  s + r # 0 => Apart(o, s + r, co, cs) /\ Apart(co, cs, o, s + r)
BY DEF Apart

(* n is the last half in use of p, and M has counted that it came back.    *)
Completes(N, idle, busy, current, n, p, M, parts) ==
  /\ Forest(N, idle, busy, current)
  /\ n \in busy /\ p = N[n].parent /\ p # 0 /\ N[p].use = 1
  /\ Same(M, N) /\ M[p].use = 0
  /\ \A m \in 1 .. Len(N) : m # p => M[m].use = N[m].use
  /\ \A m \in 1 .. Len(N) : m \in parts <=> N[m].parent = p

(* The last half in use of a node comes back: the node is whole, and its   *)
(* halves are nothing any more.                                            *)
LEMMA Whole ==
  ASSUME NEW N, NEW idle, NEW busy, NEW current, NEW n, NEW p, NEW M, NEW parts,
         Completes(N, idle, busy, current, n, p, M, parts)
  PROVE  Forest(M, idle \ parts, (busy \ {n}) \cup {p}, current \ parts)
<1> USE DEF Completes
<1> DEFINE I == idle \ parts
           B == (busy \ {n}) \cup {p}
           C == current \ parts
           L == Len(N)
<1>2. Tree(N) /\ Len(M) = L
  BY DEF Forest, Same
<1>3. /\ idle \subseteq 1 .. L /\ busy \subseteq 1 .. L /\ Cut(N) \subseteq 1 .. L
      /\ current \subseteq 1 .. L /\ n \in 1 .. L /\ n \in current
      /\ idle \cap busy = {} /\ (idle \cup busy) \cap Cut(N) = {}
      /\ current = idle \cup busy \cup Cut(N)
  BY DEF Forest, Cut
<1>4. /\ \A c \in current : N[c].parent # 0 => N[c].parent \in Cut(N)
      /\ \A q \in Cut(N) : \E u, v \in 1 .. L : Halves(N, idle, current, q, u, v)
      /\ \A u, v \in idle \cup busy : u # v => Separate(N, u, v)
  BY DEF Forest
<1>5. /\ Tree(M)
      /\ \A u, v \in 1 .. L : Separate(N, u, v) => Separate(M, u, v)
  BY <1>2, SameTree
<1>6. \A m \in 1 .. L :
        /\ M[m].block = N[m].block /\ M[m].parent = N[m].parent
        /\ M[m].off = N[m].off /\ M[m].size = N[m].size
  BY DEF Same
<1>7. p \in Cut(N) /\ p \in 1 .. L
  BY <1>3, <1>4
<1>8. PICK a \in 1 .. L, b \in 1 .. L : Halves(N, idle, current, p, a, b)
  BY <1>4, <1>7
<1>9. /\ a # b /\ a \in current /\ b \in current /\ N[a].parent = p /\ N[b].parent = p
      /\ \A c \in current : N[c].parent = p => c = a \/ c = b
      /\ N[a].off = N[p].off /\ N[b].off = N[a].off + N[a].size
      /\ N[a].size + N[b].size = N[p].size
      /\ N[p].use = (IF a \in idle THEN 0 ELSE 1) + (IF b \in idle THEN 0 ELSE 1)
  BY <1>8 DEF Halves
<1>10. (n = a /\ b \in idle) \/ (n = b /\ a \in idle)
  <2>1. n = a \/ n = b
    BY <1>3, <1>9
  <2>2. n \notin idle /\ N[p].use = 1
    BY <1>3
  <2>3. QED
    BY <1>9, <2>1, <2>2
<1>11. \A c \in current : c \in parts <=> c = a \/ c = b
  BY <1>3, <1>9
<1>12. p # a /\ p # b /\ p \notin parts
  <2>1. N[p].parent # p
    BY <1>2, <1>7, NodeTyped
  <2>2. QED
    BY <1>7, <1>9, <2>1
<1>13. (\A m \in 1 .. L : m # p => M[m].use = N[m].use) /\ M[p].use = 0
  OBVIOUS
<1>14. \A m \in 1 .. L : m \in parts <=> N[m].parent = p
  OBVIOUS
<1> HIDE DEF L, I, B, C
<1>15. Cut(M) = Cut(N) \ {p}
  <2>1. \A m : m \in Cut(M) <=> m \in 1 .. L /\ M[m].use # 0
    BY <1>2 DEF Cut
  <2>2. \A m : m \in Cut(N) <=> m \in 1 .. L /\ N[m].use # 0
    BY DEF Cut, L
  <2>3. \A m : m \in Cut(M) <=> m \in Cut(N) /\ m # p
    BY <1>13, <2>1, <2>2
  <2>4. QED
    BY <2>3
<1>16. a \notin Cut(N) /\ b \notin Cut(N) /\ a \in idle \cup busy /\ b \in idle \cup busy
  BY <1>3, <1>10
<1>17. B \cap parts = {} /\ Cut(M) \cap parts = {}
  <2>1. ASSUME NEW c \in busy, c # n
        PROVE  c \notin parts
    <3>1. c \in current /\ c \notin idle
      BY <1>3
    <3>2. QED
      BY <1>10, <1>11, <2>1, <3>1
  <2>2. ASSUME NEW c \in Cut(N)
        PROVE  c \notin parts
    <3>1. c \in current
      BY <1>3
    <3>2. QED
      BY <1>11, <1>16, <3>1
  <2>3. QED
    BY <1>12, <1>15, <2>1, <2>2 DEF B
<1>18. /\ I \subseteq 1 .. L /\ B \subseteq 1 .. L
       /\ I \cap B = {} /\ (I \cup B) \cap Cut(M) = {}
  BY <1>3, <1>7, <1>15 DEF I, B
<1>19. C = I \cup B \cup Cut(M)
  <2>1. n \in parts /\ p \in current
    BY <1>3, <1>7, <1>14
  <2>2. \A c : c \in C <=> c \in current /\ c \notin parts
    BY DEF C
  <2>3. \A c : c \in I <=> c \in idle /\ c \notin parts
    BY DEF I
  <2>4. \A c : c \in B <=> (c \in busy /\ c # n) \/ c = p
    BY DEF B
  <2>5. \A c : c \in Cut(M) <=> c \in Cut(N) /\ c # p
    BY <1>15
  <2>6. \A c : c \in current <=> c \in idle \/ c \in busy \/ c \in Cut(N)
    BY <1>3
  <2>7. \A c : c \in B \/ c \in Cut(M) => c \notin parts
    BY <1>17
  <2>8. \A c : c \in C <=> c \in I \/ c \in B \/ c \in Cut(M)
    BY <2>1, <2>2, <2>3, <2>4, <2>5, <2>6, <2>7
  <2>9. QED
    BY <2>8
<1>20. ASSUME NEW c \in C, M[c].parent # 0
       PROVE  M[c].parent \in Cut(M)
  <2>1. c \in current /\ c \notin parts /\ c \in 1 .. L
    BY <1>3 DEF C
  <2>2. N[c].parent # p /\ N[c].parent \in Cut(N)
    BY <1>4, <1>6, <1>14, <1>20, <2>1
  <2>3. QED
    BY <1>6, <1>15, <2>1, <2>2
<1>21. ASSUME NEW q \in Cut(M)
       PROVE  \E u, v \in 1 .. L : Halves(M, I, C, q, u, v)
  <2>1. q \in Cut(N) /\ q # p /\ q \in 1 .. L
    BY <1>3, <1>15
  <2>2. PICK u \in 1 .. L, v \in 1 .. L : Halves(N, idle, current, q, u, v)
    BY <1>4, <2>1
  <2>3. /\ u # v /\ u \in current /\ v \in current /\ N[u].parent = q /\ N[v].parent = q
        /\ \A c \in current : N[c].parent = q => c = u \/ c = v
        /\ N[u].off = N[q].off /\ N[v].off = N[u].off + N[u].size
        /\ N[u].size + N[v].size = N[q].size
        /\ N[q].use = (IF u \in idle THEN 0 ELSE 1) + (IF v \in idle THEN 0 ELSE 1)
    BY <2>2 DEF Halves
  <2>4. /\ M[u].parent = N[u].parent /\ M[u].off = N[u].off /\ M[u].size = N[u].size
        /\ M[v].parent = N[v].parent /\ M[v].off = N[v].off /\ M[v].size = N[v].size
        /\ M[q].off = N[q].off /\ M[q].size = N[q].size
    BY <1>6, <2>1
  <2>5. u \notin parts /\ v \notin parts
    BY <1>14, <2>1, <2>3
  <2>6. u \in C /\ v \in C /\ (u \in I <=> u \in idle) /\ (v \in I <=> v \in idle)
    BY <2>3, <2>5 DEF C, I
  <2>7. \A c \in C : M[c].parent = q => c = u \/ c = v
    BY <1>3, <1>6, <2>3 DEF C
  <2>8. M[q].use = N[q].use
    BY <1>13, <2>1
  <2>9. Halves(M, I, C, q, u, v)
    BY <2>3, <2>4, <2>6, <2>7, <2>8 DEF Halves
  <2>10. QED
    BY <2>9
<1>22. ASSUME NEW c \in I \cup B, c # p
       PROVE  Separate(M, c, p) /\ Separate(M, p, c)
  <2> DEFINE o == N[a].off
             s == N[a].size
             r == N[b].size
             co == N[c].off
             cs == N[c].size
             po == N[p].off
             ps == N[p].size
             pb == N[p].block
             cb == N[c].block
  <2>1. c \in idle \cup busy /\ c \in 1 .. L /\ c # a /\ c # b
    <3>1. c \in idle \cup busy
      BY <1>22 DEF I, B
    <3>2. c \notin parts
      BY <1>17 DEF I
    <3>3. a \in parts /\ b \in parts
      BY <1>9, <1>14
    <3>4. QED
      BY <1>3, <3>1, <3>2, <3>3
  <2>2. N[a].block = pb /\ N[b].block = pb
    BY <1>2, <1>7, <1>9 DEF Tree, L
  <2>3. N[b].off = o + s /\ po = o /\ ps = s + r
    BY <1>9
  <2>4. o \in Nat /\ s \in Nat /\ r \in Nat /\ co \in Nat /\ cs \in Nat
    BY <1>2, <2>1, NodeTyped DEF L
  <2>5. Separate(N, a, c) /\ Separate(N, b, c)
    BY <1>4, <1>16, <2>1
  <2>6. pb = cb /\ s # 0 /\ cs # 0 => Apart(o, s, co, cs)
    BY <2>2, <2>5 DEF Separate
  <2>7. pb = cb /\ r # 0 /\ cs # 0 => Apart(o + s, r, co, cs)
    BY <2>2, <2>3, <2>5 DEF Separate
  <2>8. /\ M[p].block = pb /\ M[p].off = po /\ M[p].size = ps
        /\ M[c].block = cb /\ M[c].off = co /\ M[c].size = cs
    BY <1>6, <1>7, <2>1
  <2> HIDE DEF o, s, r, co, cs, po, ps, pb, cb
  <2>9. pb = cb /\ ps # 0 /\ cs # 0 => Apart(po, ps, co, cs) /\ Apart(co, cs, po, ps)
    BY <2>3, <2>4, <2>6, <2>7, ApartFromWhole
  <2>10. QED
    BY <2>8, <2>9 DEF Separate
<1>23. ASSUME NEW u \in I \cup B, NEW v \in I \cup B, u # v
       PROVE  Separate(M, u, v)
  <2>1. CASE u # p /\ v # p
    <3>1. u \in idle \cup busy /\ v \in idle \cup busy
      BY <2>1 DEF I, B
    <3>2. QED
      BY <1>3, <1>4, <1>5, <1>23, <3>1
  <2>2. CASE u = p \/ v = p
    BY <1>22, <1>23, <2>2
  <2>3. QED
    BY <2>1, <2>2
<1>24. Forest(M, I, B, C)
  BY <1>2, <1>5, <1>18, <1>19, <1>20, <1>21, <1>23 DEF Forest
<1>25. QED
  BY <1>24 DEF I, B, C

(* Idle blocks that are not cut may be dropped.                            *)
LEMMA Drop ==
  ASSUME NEW N, NEW idle, NEW busy, NEW current, Forest(N, idle, busy, current),
         NEW blocks, \A m \in blocks : N[m].parent = 0, blocks \cap (busy \cup Cut(N)) = {}
  PROVE  Forest(N, idle \ blocks, busy, current \ blocks)
<1> DEFINE I == idle \ blocks
           C == current \ blocks
<1>1. /\ Tree(N) /\ idle \subseteq 1 .. Len(N) /\ busy \subseteq 1 .. Len(N)
      /\ idle \cap busy = {} /\ (idle \cup busy) \cap Cut(N) = {}
      /\ current = idle \cup busy \cup Cut(N)
      /\ \A c \in current : N[c].parent # 0 => N[c].parent \in Cut(N)
      /\ \A u, v \in idle \cup busy : u # v => Separate(N, u, v)
  BY DEF Forest
<1>2. \A q \in Cut(N) : \E u, v \in 1 .. Len(N) : Halves(N, idle, current, q, u, v)
  BY DEF Forest
<1>3. \A q \in Cut(N) : q # 0
  BY DEF Cut
<1>4. ASSUME NEW q \in Cut(N)
      PROVE  \E u, v \in 1 .. Len(N) : Halves(N, I, C, q, u, v)
  <2>1. PICK u \in 1 .. Len(N), v \in 1 .. Len(N) : Halves(N, idle, current, q, u, v)
    BY <1>2
  <2>2. N[u].parent # 0 /\ N[v].parent # 0
    BY <1>3, <2>1 DEF Halves
  <2>3. Halves(N, I, C, q, u, v)
    BY <2>1, <2>2 DEF Halves
  <2>4. QED
    BY <2>3
<1>5. Forest(N, I, busy, C)
  <2>1. /\ I \subseteq 1 .. Len(N) /\ I \cap busy = {} /\ (I \cup busy) \cap Cut(N) = {}
        /\ C = I \cup busy \cup Cut(N)
        /\ \A c \in C : N[c].parent # 0 => N[c].parent \in Cut(N)
        /\ \A u, v \in I \cup busy : u # v => Separate(N, u, v)
    BY <1>1
  <2>2. QED
    BY <1>1, <1>4, <2>1 DEF Forest
<1>6. QED
  BY <1>5

-----------------------------------------------------------------------------
(* Giving a node back.                                                     *)

(* A node, its parent, and so on up to the block.                          *)
Climbs(N, s, m) ==
  /\ s \in Seq(1 .. Len(N))
  /\ m = 0 => s = <<>>
  /\ m # 0 => Len(s) > 0 /\ s[1] = m /\ N[s[Len(s)]].parent = 0
  /\ \A i \in 1 .. Len(s) : i < Len(s) => s[i + 1] = N[s[i]].parent

(* One node more in front of its parents.                                  *)
LEMMA ClimbsOn ==
  ASSUME NEW N, Tree(N), NEW m \in 1 .. Len(N), NEW s, Climbs(N, s, N[m].parent)
  PROVE  Climbs(N, << m >> \o s, m)
<1> DEFINE t == << m >> \o s
           n == Len(s)
           S == 1 .. Len(N)
<1>1. << m >> \in Seq(S) /\ Len(<< m >>) = 1 /\ << m >>[1] = m /\ s \in Seq(S) /\ n \in Nat
  BY LenProperties DEF Climbs
<1>2. /\ t \in Seq(S) /\ Len(t) = 1 + n
      /\ \A i \in 1 .. 1 + n : t[i] = IF i <= 1 THEN << m >>[i] ELSE s[i - 1]
  <2> HIDE DEF S
  <2>1. QED
    BY <1>1, ConcatProperties
<1>3. t[1] = m /\ \A i \in 1 .. n : t[i + 1] = s[i]
  <2>1. 1 \in 1 .. 1 + n /\ \A i \in 1 .. n : i + 1 \in 1 .. 1 + n /\ ~(i + 1 <= 1) /\ (i + 1) - 1 = i
    BY <1>1
  <2>2. QED
    BY <1>1, <1>2, <2>1
<1>4. /\ N[m].parent = 0 => n = 0
      /\ N[m].parent # 0 => n > 0 /\ s[1] = N[m].parent /\ N[s[n]].parent = 0
      /\ \A i \in 1 .. n : i < n => s[i + 1] = N[s[i]].parent
  BY DEF Climbs
<1>5. m # 0
  BY LenProperties DEF Tree
<1> HIDE DEF t, n
<1>6. N[t[1 + n]].parent = 0
  <2>1. CASE N[m].parent = 0
    BY <1>3, <1>4, <2>1
  <2>2. CASE N[m].parent # 0
    <3>1. n \in 1 .. n /\ n + 1 = 1 + n
      BY <1>1, <1>4, <2>2
    <3>2. t[1 + n] = s[n]
      BY <1>3, <3>1
    <3>3. QED
      BY <1>4, <2>2, <3>2
  <2>3. QED
    BY <2>1, <2>2
<1>7. ASSUME NEW i \in 1 .. 1 + n, i < 1 + n
      PROVE  t[i + 1] = N[t[i]].parent
  <2>1. i \in 1 .. n
    BY <1>1, <1>7
  <2>2. t[i + 1] = s[i]
    BY <1>3, <2>1
  <2>3. CASE i = 1
    <3>1. n # 0
      BY <1>1, <2>1
    <3>2. s[1] = N[m].parent
      BY <1>4, <3>1
    <3>3. QED
      BY <1>3, <2>2, <2>3, <3>2
  <2>4. CASE i # 1
    <3>1. i - 1 \in 1 .. n /\ i - 1 < n /\ (i - 1) + 1 = i
      BY <1>1, <2>1, <2>4
    <3>2. t[i] = s[i - 1] /\ s[i] = N[s[i - 1]].parent
      BY <1>3, <1>4, <3>1
    <3>3. QED
      BY <2>2, <3>2
  <2>5. QED
    BY <2>3, <2>4
<1>8. 1 + n > 0
  BY <1>1
<1>9. Climbs(N, t, m)
  BY <1>2, <1>3, <1>5, <1>6, <1>7, <1>8 DEF Climbs, S
<1>10. QED
  BY <1>9 DEF t

(* Lineage is what its recursive definition says.                          *)
LEMMA LineageClimbs ==
  ASSUME NEW e, Tree(e.node), NEW m \in 0 .. Len(e.node)
  PROVE  Climbs(e.node, Eager!Lineage(e)[m], m)
<1> DEFINE N == e.node
           L == Len(N)
           V == Seq(1 .. L)
           from == [n \in 1 .. L |-> N[n].parent]
           on(v, n) == << n >> \o v
           step == [p \in (1 .. L) \X V |-> on(p[2], p[1])]
           fine == (0 .. L) \X V
           Is(f) == f = [n \in 0 .. L |-> IF n = 0 THEN <<>> ELSE on(f[N[n].parent], n)]
           line == CHOOSE f : Is(f)
<1>1. L \in Nat /\ Tree(N)
  BY LenProperties DEF Tree
<1>2. Eager!Lineage(e) = line
  BY DEF Eager!Lineage, Eager!Root
<1>3. Descends(from, L) /\ \A n \in 1 .. L : from[n] = N[n].parent /\ N[n].parent \in 0 .. n - 1
  BY DEF Descends, Tree
<1>4. ASSUME NEW n \in 1 .. L, NEW v \in V
      PROVE  on(v, n) \in V
  <2>1. << n >> \in V
    OBVIOUS
  <2>2. QED
    BY <2>1, ConcatProperties
<1>5. <<>> \in V
  OBVIOUS
<1> HIDE DEF L, V, on
<1>6. ASSUME NEW n \in 1 .. L, NEW v, << from[n], v >> \in fine
      PROVE  step[<< n, v >>] = on(v, n) /\ << n, on(v, n) >> \in fine
  <2>1. v \in V /\ << n, v >> \in (1 .. L) \X V
    BY <1>6
  <2>2. on(v, n) \in V /\ n \in 0 .. L
    BY <1>1, <1>4, <2>1
  <2>3. QED
    BY <2>1, <2>2
<1>7. << 0, <<>> >> \in fine
  BY <1>1, <1>5
<1> HIDE DEF step
<1>8. Builds(step, fine, from, L)
  BY <1>6 DEF Builds
<1>9. PICK g : Solves(g, L, <<>>, step, fine, from)
  <2> HIDE DEF fine, from
  <2>1. QED
    BY <1>1, <1>3, <1>7, <1>8, Recursion
<1>10. ASSUME NEW n \in 1 .. L
       PROVE  g[n] = on(g[N[n].parent], n)
  <2>1. from[n] \in 0 .. L /\ from[n] = N[n].parent
    BY <1>1, <1>3
  <2>2. << from[n], g[from[n]] >> \in fine /\ g[n] = step[<< n, g[from[n]] >>]
    BY <1>9, <2>1 DEF Solves
  <2>3. QED
    BY <1>6, <2>1, <2>2
<1>11. Is(g)
  <2>1. g = [n \in 0 .. L |-> g[n]] /\ g[0] = <<>>
    BY <1>9 DEF Solves
  <2>2. ASSUME NEW n \in 0 .. L
        PROVE  g[n] = IF n = 0 THEN <<>> ELSE on(g[N[n].parent], n)
    <3>1. n = 0 \/ n \in 1 .. L
      BY <1>1
    <3>2. QED
      BY <1>1, <1>10, <2>1, <3>1
  <2>3. QED
    BY <2>1, <2>2
<1>12. Is(line)
  BY <1>11
<1>13. ASSUME NEW n \in 0 .. L
       PROVE  line[n] = IF n = 0 THEN <<>> ELSE on(line[N[n].parent], n)
  <2> HIDE DEF line
  <2>1. QED
    BY <1>12
<1> HIDE DEF line, Is
<1>14. line[0] = <<>> /\ \A n \in 1 .. L : line[n] = on(line[N[n].parent], n)
  <2>1. 0 \in 0 .. L /\ \A n \in 1 .. L : n \in 0 .. L /\ n # 0
    BY <1>1
  <2>2. QED
    BY <1>13, <2>1
<1> DEFINE good == {n \in 0 .. L : Climbs(N, line[n], n)}
<1>15. 0 \in good
  <2>1. Len(line[0]) = 0 /\ line[0] \in Seq(1 .. L)
    BY <1>14
  <2>2. \A i \in 1 .. Len(line[0]) : FALSE
    BY <2>1
  <2>3. Climbs(N, line[0], 0)
    BY <1>14, <2>1, <2>2 DEF Climbs, L
  <2>4. QED
    BY <1>1, <2>3
<1>16. ASSUME NEW n \in 1 .. L, from[n] \in good
       PROVE  n \in good
  <2>1. Climbs(N, line[N[n].parent], N[n].parent)
    BY <1>3, <1>16
  <2>2. n \in 1 .. Len(N)
    BY DEF L
  <2>3. Climbs(N, << n >> \o line[N[n].parent], n)
    <3> HIDE DEF N
    <3>1. QED
      BY <1>1, <2>1, <2>2, ClimbsOn
  <2>4. Climbs(N, line[n], n)
    BY <1>14, <2>3 DEF on
  <2>5. n \in 0 .. L
    BY <1>1
  <2>6. QED
    BY <2>4, <2>5
<1> HIDE DEF good, from
<1>17. Inherited(good, from, L)
  BY <1>15, <1>16 DEF Inherited
<1>18. \A n \in 0 .. L : n \in good
  BY <1>1, <1>3, <1>17, Induction
<1>19. m \in good
  BY <1>18 DEF L
<1>20. QED
  BY <1>2, <1>19 DEF good

(* What is true of a number and of all before it is true up to a number.   *)
LEMMA InitialPart ==
  ASSUME NEW n \in Nat, NEW good, good \subseteq 1 .. n,
         \A i \in good : \A j \in 1 .. i : j \in good
  PROVE  /\ Cardinality(good) \in 0 .. n
         /\ good = 1 .. Cardinality(good)
<1> DEFINE Not == {i \in 1 .. n + 1 : i \notin good}
<1>1. Not \in SUBSET Nat /\ n + 1 \in Not
  OBVIOUS
<1>2. PICK k \in Not : \A l \in Not : k <= l
  <2> HIDE DEF Not
  <2>1. QED
    BY <1>1, Least
<1>3. k \in 1 .. n + 1 /\ k - 1 \in 0 .. n
  OBVIOUS
<1>4. good = 1 .. k - 1
  <2>1. ASSUME NEW i \in good
        PROVE  i \in 1 .. k - 1
    <3>1. i \in 1 .. n /\ (i >= k => k \in 1 .. i)
      BY <1>3
    <3>2. QED
      BY <1>2, <1>3, <3>1
  <2>2. ASSUME NEW i \in 1 .. k - 1
        PROVE  i \in good
    <3>1. i \in 1 .. n + 1 /\ ~(k <= i)
      BY <1>3
    <3>2. QED
      BY <1>2, <3>1
  <2>3. QED
    BY <2>1, <2>2
<1>5. Cardinality(1 .. k - 1) = k - 1
  BY <1>3, FS_Interval
<1>6. QED
  BY <1>3, <1>4, <1>5

(* They are where they were.                                               *)
LEMMA LoweredSame ==
  ASSUME NEW N, Tree(N), NEW touched, \A m \in 1 .. Len(N) : m \in touched => N[m].use # 0
  PROVE  /\ Same(Eager!Lowered(N, touched), N)
         /\ \A m \in 1 .. Len(N) :
              /\ m \in touched => Eager!Lowered(N, touched)[m].use = N[m].use - 1
              /\ m \notin touched => Eager!Lowered(N, touched)[m].use = N[m].use
<1> DEFINE M == Eager!Lowered(N, touched)
           L == Len(N)
<1>1. L \in Nat /\ DOMAIN N = 1 .. L /\ \A m \in 1 .. L : N[m] \in EagerNode
  BY ElementOfSeq, LenProperties DEF Tree
<1>2. M = [m \in 1 .. L |-> IF m \in touched THEN [N[m] EXCEPT !.use = @ - 1] ELSE N[m]]
  BY <1>1 DEF Eager!Lowered
<1>3. \A m \in 1 .. L : m \in touched => N[m].use # 0
  OBVIOUS
<1> HIDE DEF M, L
<1>4. ASSUME NEW m \in 1 .. L
      PROVE  /\ M[m] \in EagerNode
             /\ M[m].block = N[m].block /\ M[m].parent = N[m].parent
             /\ M[m].off = N[m].off /\ M[m].size = N[m].size
             /\ m \in touched => M[m].use = N[m].use - 1
             /\ m \notin touched => M[m].use = N[m].use
  <2>1. N[m] \in EagerNode
    BY <1>1
  <2>2. CASE m \notin touched
    BY <1>2, <2>1, <2>2
  <2>3. CASE m \in touched
    <3> DEFINE x == N[m]
    <3>1. x \in EagerNode /\ x.use # 0 /\ M[m] = [x EXCEPT !.use = @ - 1]
      BY <1>2, <1>3, <2>1, <2>3
    <3> HIDE DEF x
    <3>2. x.use - 1 \in Nat
      BY <3>1 DEF EagerNode
    <3>3. /\ [x EXCEPT !.use = @ - 1] \in EagerNode
          /\ [x EXCEPT !.use = @ - 1].block = x.block
          /\ [x EXCEPT !.use = @ - 1].parent = x.parent
          /\ [x EXCEPT !.use = @ - 1].off = x.off
          /\ [x EXCEPT !.use = @ - 1].size = x.size
          /\ [x EXCEPT !.use = @ - 1].use = x.use - 1
      BY <3>1, <3>2 DEF EagerNode
    <3>4. QED
      BY <2>3, <3>1, <3>3 DEF x
  <2>4. QED
    BY <2>2, <2>3
<1>5. M \in [1 .. L -> EagerNode]
  BY <1>2, <1>4
<1>6. M \in Seq(EagerNode) /\ Len(M) = L
  BY <1>1, <1>5, Made
<1>7. QED
  BY <1>4, <1>6 DEF Same, L, M

Typed(e, groups) ==
  /\ groups \in Nat
  /\ e \in [node : Seq(EagerNode), list : [0 .. groups -> Seq(Nat)], current : Nat,
            used : SUBSET Nat, total : Int, last : Nat]

Idle(e) == Members(e.list[0])
Current(e, busy) == Idle(e) \cup busy \cup Cut(e.node)

(* The nodes of a state are a forest, those of busy lent or kept.          *)
Ready(e, groups, busy) ==
  /\ Typed(e, groups)
  /\ Distinct(e.list[0])
  /\ Forest(e.node, Idle(e), busy, Current(e, busy))

(* v is e, with the nodes that are busy no more.                           *)
Follows(v, e, groups, busy, after) ==
  /\ Ready(v, groups, after)
  /\ Same(v.node, e.node)
  /\ v.used = e.used /\ v.current = e.current /\ v.total = e.total /\ v.last = e.last
  /\ \A g \in 1 .. groups : v.list[g] = e.list[g]
  /\ \A c \in 1 .. Len(e.node) :
       e.node[c].parent = 0 => (c \in Current(v, after) <=> c \in Current(e, busy))

(* The number of elements is the same number in every module.              *)
LEMMA Counting ==
  ASSUME NEW S
  PROVE  Eager!Cardinality(S) = Cardinality(S) /\ Defer!Cardinality(S) = Cardinality(S)
BY DEF Eager!Cardinality, Defer!Cardinality, Cardinality

(* How many elements a part of a list has.                                 *)
LEMMA Fewer ==
  ASSUME NEW n \in Nat, NEW some, some \subseteq 1 .. n
  PROVE  Cardinality(some) \in 0 .. n /\ Cardinality(some) + 1 \in 1 .. n + 1
<1>1. IsFiniteSet(1 .. n) /\ Cardinality(1 .. n) = n
  <2>1. 1 \in Int /\ n \in Int /\ n = (IF 1 > n THEN 0 ELSE n - 1 + 1)
    OBVIOUS
  <2>2. QED
    BY <2>1, FS_Interval
<1>2. IsFiniteSet(some) /\ Cardinality(some) <= n
  BY <1>1, FS_Subset
<1>3. Cardinality(some) \in Nat
  BY <1>2, FS_CardinalityType
<1>4. QED
  BY <1>2, <1>3

(* A node is put into a list that does not have it.                        *)
LEMMA InsertNodeInto ==
  ASSUME NEW e, NEW groups, Typed(e, groups), NEW g \in 0 .. groups, Distinct(e.list[g]),
         NEW n \in Nat, n \notin Members(e.list[g]), NEW v, v = Eager!InsertNode(e, g, n)
  PROVE  /\ Typed(v, groups)
         /\ Distinct(v.list[g]) /\ Members(v.list[g]) = Members(e.list[g]) \cup {n}
         /\ \A h \in 0 .. groups : h # g => v.list[h] = e.list[h]
         /\ v.node = e.node /\ v.used = e.used /\ v.current = e.current
         /\ v.total = e.total /\ v.last = e.last
<1> DEFINE s == e.list[g]
           smaller == {i \in DOMAIN s : e.node[s[i]].size <= e.node[n].size}
           k == Cardinality(smaller) + 1
           r == Eager!InsertAt(s, k, n)
<1>1. /\ e \in [node : Seq(EagerNode), list : [0 .. groups -> Seq(Nat)], current : Nat,
                used : SUBSET Nat, total : Int, last : Nat]
      /\ groups \in Nat
  BY DEF Typed
<1>2. s \in Seq(Nat) /\ DOMAIN s = 1 .. Len(s) /\ Len(s) \in Nat
  BY <1>1, LenProperties
<1>3. k \in 1 .. Len(s) + 1
  <2>1. smaller \subseteq 1 .. Len(s)
    BY <1>2
  <2> HIDE DEF smaller
  <2>2. QED
    BY <1>2, <2>1, Fewer
<1>4. v = [e EXCEPT !.list[g] = r]
  <2>1. Eager!Cardinality(smaller) = Cardinality(smaller)
    BY Counting
  <2>2. QED
    BY <2>1 DEF Eager!InsertNode
<1> HIDE DEF k
<1>5. r \in Seq(Nat) /\ Distinct(r) /\ Members(r) = Members(s) \cup {n}
  <2> HIDE DEF s
  <2>1. Distinct(s) /\ n \notin Members(s)
    BY DEF s
  <2> HIDE DEF r
  <2>2. s \in Seq(Nat) /\ n \in Nat /\ k \in 1 .. Len(s) + 1
    BY <1>2, <1>3
  <2>3. Eager!InsertAt(s, k, n) \in Seq(Nat)
    BY ONLY <2>2, InsertedAt
  <2>4. /\ Distinct(Eager!InsertAt(s, k, n))
        /\ Members(Eager!InsertAt(s, k, n)) = Members(s) \cup {n}
    BY ONLY <2>1, <2>2, InsertedMembers
  <2>5. QED
    BY <2>3, <2>4 DEF r
<1> HIDE DEF r
<1> DEFINE list == [e.list EXCEPT ![g] = r]
<1>6. v = [e EXCEPT !.list = list]
  BY <1>4
<1>7. /\ list \in [0 .. groups -> Seq(Nat)] /\ list[g] = r
      /\ \A h \in 0 .. groups : h # g => list[h] = e.list[h]
  BY <1>1, <1>5
<1> HIDE DEF list
<1>8. /\ v \in [node : Seq(EagerNode), list : [0 .. groups -> Seq(Nat)], current : Nat,
                used : SUBSET Nat, total : Int, last : Nat]
      /\ v.list = list /\ v.node = e.node /\ v.used = e.used /\ v.current = e.current
      /\ v.total = e.total /\ v.last = e.last
  BY <1>1, <1>6, <1>7
<1>9. QED
  BY <1>1, <1>5, <1>7, <1>8 DEF Typed

(* Node n, which none of the lists has, goes to list g.                    *)
Inserting(v, e, groups, g, n) ==
  /\ Typed(e, groups) /\ g \in 0 .. groups /\ Distinct(e.list[g])
  /\ n \in Nat /\ n \notin Members(e.list[g]) /\ v = Eager!InsertNode(e, g, n)

(* The same, said of one state and the next.                               *)
LEMMA Inserted ==
  ASSUME NEW v, NEW e, NEW groups, NEW g, NEW n, Inserting(v, e, groups, g, n)
  PROVE  /\ Typed(v, groups)
         /\ Distinct(v.list[g]) /\ Members(v.list[g]) = Members(e.list[g]) \cup {n}
         /\ \A h \in 0 .. groups : h # g => v.list[h] = e.list[h]
         /\ v.node = e.node /\ v.used = e.used /\ v.current = e.current
         /\ v.total = e.total /\ v.last = e.last
<1>1. /\ Typed(e, groups) /\ g \in 0 .. groups /\ Distinct(e.list[g])
      /\ n \in Nat /\ n \notin Members(e.list[g]) /\ v = Eager!InsertNode(e, g, n)
  BY DEF Inserting
<1>2. QED
  BY ONLY <1>1, InsertNodeInto

(* What a node grows to, and what that leaves behind.                      *)
Merged(up, i) == {up[j] : j \in 1 .. i}
Top(n, up, i) == IF i = 0 THEN n ELSE up[i]
PartsOf(N, up, i) == {m \in 1 .. Len(N) : N[m].parent \in Merged(up, i)}

Merging(N, idle, busy, current, n, up, i) ==
  Forest(Eager!Lowered(N, Merged(up, i)), idle \ PartsOf(N, up, i),
         (busy \ {n}) \cup {Top(n, up, i)}, current \ PartsOf(N, up, i))

(* Nodes merge as long as the other half is idle.                          *)
LEMMA Merges ==
  ASSUME NEW N, NEW idle, NEW busy, NEW current, Forest(N, idle, busy, current),
         NEW n \in busy, NEW up, Climbs(N, up, N[n].parent), NEW k \in 0 .. Len(up),
         \A j \in 1 .. k : N[up[j]].use = 1
  PROVE  /\ Merging(N, idle, busy, current, n, up, k)
         /\ Top(n, up, k) \in 1 .. Len(N) /\ Top(n, up, k) \notin busy \ {n}
         /\ N[Top(n, up, k)].parent = IF k < Len(up) THEN up[k + 1] ELSE 0
         /\ \A m \in 1 .. Len(N) : m \in Merged(up, k) => N[m].use = 1
<1> DEFINE D == Len(up)
           L == Len(N)
           good == {i \in 0 .. k : Merging(N, idle, busy, current, n, up, i)}
<1>1. Tree(N) /\ busy \subseteq 1 .. L /\ busy \cap Cut(N) = {} /\ n \in 1 .. L
  BY DEF Forest
<1>2. /\ up \in Seq(1 .. L) /\ D \in Nat /\ k \in Nat /\ k <= D
      /\ \A j \in 1 .. D : up[j] \in 1 .. L
  BY ElementOfSeq, LenProperties DEF Climbs
<1>3. \A i \in 0 .. k : Top(n, up, i) \in 1 .. L /\ Top(n, up, i) \notin busy \ {n}
  <2> SUFFICES ASSUME NEW i \in 0 .. k
               PROVE  Top(n, up, i) \in 1 .. L /\ Top(n, up, i) \notin busy \ {n}
    OBVIOUS
  <2>1. CASE i = 0
    BY <1>1, <2>1 DEF Top
  <2>2. CASE i # 0
    <3>1. i \in 1 .. k /\ i \in 1 .. D
      BY <1>2, <2>2
    <3>2. up[i] \in 1 .. L /\ N[up[i]].use = 1
      BY <1>2, <3>1
    <3>3. up[i] \in Cut(N)
      BY <3>2 DEF Cut
    <3>4. QED
      BY <1>1, <2>2, <3>2, <3>3 DEF Top
  <2>3. QED
    BY <2>1, <2>2
<1>4. ASSUME NEW i \in 0 .. k
      PROVE  N[Top(n, up, i)].parent = IF i < D THEN up[i + 1] ELSE 0
  <2>1. /\ N[n].parent = 0 => D = 0
        /\ N[n].parent # 0 => D > 0 /\ up[1] = N[n].parent /\ N[up[D]].parent = 0
        /\ \A j \in 1 .. D : j < D => up[j + 1] = N[up[j]].parent
    BY DEF Climbs
  <2>2. CASE i = 0
    BY <1>2, <2>1, <2>2 DEF Top
  <2>3. CASE i # 0
    <3>1. i \in 1 .. D /\ D > 0
      BY <1>2, <2>3
    <3>2. N[n].parent # 0
      BY <2>1, <3>1
    <3>3. i < D \/ i = D
      BY <1>2, <3>1
    <3>4. QED
      BY <2>1, <2>3, <3>1, <3>2, <3>3 DEF Top
  <2>4. QED
    BY <2>2, <2>3
<1>5. \A i \in 0 .. k : \A m \in Merged(up, i) : m \in 1 .. L /\ N[m].use = 1
  <2> SUFFICES ASSUME NEW i \in 0 .. k, NEW m \in Merged(up, i)
               PROVE  m \in 1 .. L /\ N[m].use = 1
    OBVIOUS
  <2>1. PICK j \in 1 .. i : m = up[j]
    BY DEF Merged
  <2>2. j \in 1 .. k /\ j \in 1 .. D
    BY <1>2
  <2>3. QED
    BY <1>2, <2>1, <2>2
<1>6. 0 \in good
  <2>1. Merged(up, 0) = {}
    BY DEF Merged
  <2>2. Eager!Lowered(N, {}) = N
    <3>1. DOMAIN N = 1 .. L /\ N = [m \in 1 .. L |-> N[m]]
      BY <1>1, LenProperties DEF Tree
    <3>2. QED
      BY <3>1 DEF Eager!Lowered
  <2>3. PartsOf(N, up, 0) = {}
    BY <2>1 DEF PartsOf
  <2>4. (busy \ {n}) \cup {Top(n, up, 0)} = busy
    BY DEF Top
  <2>5. idle \ {} = idle /\ current \ {} = current
    OBVIOUS
  <2>6. Merging(N, idle, busy, current, n, up, 0)
    BY <2>1, <2>2, <2>3, <2>4, <2>5 DEF Merging
  <2>7. QED
    BY <1>2, <2>6
<1>7. ASSUME NEW i \in 1 .. k, Before(k)[i] \in good
      PROVE  i \in good
  <2> DEFINE h == i - 1
             t == Top(n, up, h)
             p == up[i]
             M == Eager!Lowered(N, Merged(up, h))
             K == Eager!Lowered(N, Merged(up, i))
             I == idle \ PartsOf(N, up, h)
             B == (busy \ {n}) \cup {t}
             C == current \ PartsOf(N, up, h)
             parts == {m \in 1 .. L : N[m].parent = p}
  <2>1. h \in 0 .. k /\ i \in 1 .. D /\ Before(k)[i] = h /\ h + 1 = i /\ h < D /\ i \in 0 .. k
    BY <1>2, BeforeDescends
  <2>2. Forest(M, I, B, C)
    BY <1>7, <2>1 DEF Merging
  <2>3. t \in 1 .. L /\ t \notin busy \ {n} /\ N[t].parent = p /\ p \in 1 .. L /\ N[p].use = 1
    <3>1. N[t].parent = up[h + 1]
      BY <1>4, <2>1
    <3>2. t \in 1 .. L /\ t \notin busy \ {n}
      BY <1>3, <2>1
    <3>3. QED
      BY <1>2, <2>1, <3>1, <3>2
  <2>4. /\ Same(M, N)
        /\ \A m \in 1 .. L :
             /\ m \in Merged(up, h) => M[m].use = N[m].use - 1
             /\ m \notin Merged(up, h) => M[m].use = N[m].use
    <3>1. \A m \in 1 .. Len(N) : m \in Merged(up, h) => N[m].use # 0
      BY <1>5, <2>1
    <3>2. QED
      BY <1>1, <3>1, LoweredSame
  <2>5. /\ Same(K, N)
        /\ \A m \in 1 .. L :
             /\ m \in Merged(up, i) => K[m].use = N[m].use - 1
             /\ m \notin Merged(up, i) => K[m].use = N[m].use
    <3>1. \A m \in 1 .. Len(N) : m \in Merged(up, i) => N[m].use # 0
      BY <1>5, <2>1
    <3>2. QED
      BY <1>1, <3>1, LoweredSame
  <2>6. Merged(up, i) = Merged(up, h) \cup {p}
    <3>1. 1 .. i = (1 .. h) \cup {i}
      BY <2>1
    <3>2. QED
      BY <3>1 DEF Merged
  <2> HIDE DEF h, t, p, M, K, I, B, C
  <2>7. Len(M) = L /\ Len(K) = L
    BY <2>4, <2>5 DEF Same
  <2>8. M[t].parent = p /\ p # 0
    BY <1>1, <2>3, <2>4, LenProperties DEF Same, Tree
  <2>9. p \in Cut(M)
    <3>1. t \in C
      BY <2>2 DEF Forest, B
    <3>2. QED
      BY <2>2, <2>8, <3>1 DEF Forest
  <2>10. p \notin Merged(up, h)
    <3>1. M[p].use # 0
      BY <2>9 DEF Cut
    <3>2. \A m \in Merged(up, h) : M[m].use = 0
      <4>1. ASSUME NEW m \in Merged(up, h) PROVE M[m].use = 0
        <5>1. m \in 1 .. L /\ N[m].use = 1
          BY <1>5, <2>1
        <5>2. QED
          BY <2>4, <5>1
      <4>2. QED
        BY <4>1
    <3>3. QED
      BY <3>1, <3>2
  <2>11. M[p].use = 1 /\ K[p].use = 0
    <3>1. M[p].use = N[p].use
      BY <2>3, <2>4, <2>10
    <3>2. K[p].use = N[p].use - 1
      BY <2>3, <2>5, <2>6
    <3>3. QED
      BY <2>3, <3>1, <3>2
  <2>12. \A m \in 1 .. Len(M) : m # p => K[m].use = M[m].use
    BY <2>4, <2>5, <2>6, <2>7
  <2>13. Same(K, M)
    BY <2>4, <2>5 DEF Same
  <2>14. \A m \in 1 .. Len(M) : m \in parts <=> M[m].parent = p
    BY <2>4, <2>7 DEF Same
  <2>15. t \in B
    BY DEF B
  <2> HIDE DEF parts
  <2>16. Forest(K, I \ parts, (B \ {t}) \cup {p}, C \ parts)
    <3>1. p = M[t].parent /\ p # 0
      BY <2>8
    <3>2. Completes(M, I, B, C, t, p, K, parts)
      BY <3>1, <2>2, <2>11, <2>12, <2>13, <2>14, <2>15 DEF Completes
    <3>3. QED
      BY <3>2, Whole
  <2>17. PartsOf(N, up, i) = PartsOf(N, up, h) \cup parts
    BY <2>6 DEF PartsOf, parts
  <2>18. I \ parts = idle \ PartsOf(N, up, i) /\ C \ parts = current \ PartsOf(N, up, i)
    BY <2>17 DEF I, C
  <2>19. (B \ {t}) \cup {p} = (busy \ {n}) \cup {Top(n, up, i)}
    <3>1. Top(n, up, i) = p
      BY <2>1 DEF Top, p
    <3>2. QED
      BY <2>3, <3>1 DEF B
  <2>20. Merging(N, idle, busy, current, n, up, i)
    BY <2>16, <2>18, <2>19 DEF Merging, K
  <2>21. QED
    BY <2>1, <2>20
<1> HIDE DEF good
<1>8. Inherited(good, Before(k), k)
  BY <1>6, <1>7 DEF Inherited
<1>9. \A i \in 0 .. k : i \in good
  BY <1>2, <1>8, BeforeDescends, Induction
<1>10. k \in 0 .. k
  BY <1>2
<1>11. Merging(N, idle, busy, current, n, up, k)
  BY <1>9, <1>10 DEF good
<1>12. QED
  BY <1>3, <1>4, <1>5, <1>10, <1>11

(* The nodes whose use count a node given back lowers.                     *)
Touched(up, k) == {up[i] : i \in DOMAIN up \cap (1 .. k + 1)}

(* A node given back, with what it merges into.                            *)
LEMMA Returns ==
  ASSUME NEW N, NEW idle, NEW busy, NEW current, Forest(N, idle, busy, current),
         NEW n \in busy, NEW up, Climbs(N, up, N[n].parent), NEW k \in 0 .. Len(up),
         \A j \in 1 .. k : N[up[j]].use = 1, k < Len(up) => N[up[k + 1]].use # 1
  PROVE  /\ Forest(Eager!Lowered(N, Touched(up, k)), (idle \ PartsOf(N, up, k)) \cup {Top(n, up, k)},
                   busy \ {n}, current \ PartsOf(N, up, k))
         /\ Same(Eager!Lowered(N, Touched(up, k)), N)
         /\ Top(n, up, k) \notin idle \ PartsOf(N, up, k)
         /\ Top(n, up, k) \in Nat
<1> DEFINE L == Len(N)
           t == Top(n, up, k)
           p == IF k < Len(up) THEN up[k + 1] ELSE 0
           M == Eager!Lowered(N, Merged(up, k))
           K == Eager!Lowered(N, Touched(up, k))
           I == idle \ PartsOf(N, up, k)
           B == (busy \ {n}) \cup {t}
           C == current \ PartsOf(N, up, k)
<1>1. /\ Merging(N, idle, busy, current, n, up, k)
      /\ t \in 1 .. L /\ t \notin busy \ {n}
      /\ N[t].parent = p
      /\ \A m \in 1 .. L : m \in Merged(up, k) => N[m].use = 1
  BY Merges
<1>2. Forest(M, I, B, C)
  BY <1>1 DEF Merging
<1>3. Tree(N) /\ L \in Nat
  BY LenProperties DEF Forest, Tree
<1>4. /\ Same(M, N)
      /\ \A m \in 1 .. L :
           /\ m \in Merged(up, k) => M[m].use = N[m].use - 1
           /\ m \notin Merged(up, k) => M[m].use = N[m].use
  <2>1. \A m \in 1 .. Len(N) : m \in Merged(up, k) => N[m].use # 0
    BY <1>1
  <2>2. QED
    BY <1>3, <2>1, LoweredSame
<1>t. /\ k < Len(up) => Touched(up, k) = Merged(up, k) \cup {up[k + 1]}
      /\ ~(k < Len(up)) => Touched(up, k) = Merged(up, k)
  <2>1. Len(up) \in Nat /\ DOMAIN up = 1 .. Len(up)
    BY LenProperties DEF Climbs
  <2>2. CASE k < Len(up)
    <3>1. DOMAIN up \cap (1 .. k + 1) = (1 .. k) \cup {k + 1}
      BY <2>1, <2>2
    <3>2. QED
      BY <2>2, <3>1 DEF Touched, Merged
  <2>3. CASE ~(k < Len(up))
    <3>1. DOMAIN up \cap (1 .. k + 1) = 1 .. k
      BY <2>1, <2>3
    <3>2. QED
      BY <2>3, <3>1 DEF Touched, Merged
  <2>4. QED
    BY <2>2, <2>3
<1>5. p # 0 => p \in 1 .. L /\ N[p].use # 1 /\ Touched(up, k) = Merged(up, k) \cup {p}
  <2>1. ASSUME p # 0
        PROVE  p \in 1 .. L /\ N[p].use # 1 /\ Touched(up, k) = Merged(up, k) \cup {p}
    <3>1. k < Len(up) /\ p = up[k + 1]
      BY <2>1
    <3>2. k + 1 \in 1 .. Len(up) /\ up \in Seq(1 .. L)
      BY <3>1, LenProperties DEF Climbs
    <3>3. up[k + 1] \in 1 .. L
      BY <3>2, ElementOfSeq
    <3>4. QED
      BY <1>t, <3>1, <3>3
  <2>2. QED
    BY <2>1
<1>6. p = 0 => Touched(up, k) = Merged(up, k)
  <2>1. k < Len(up) => up[k + 1] # 0
    <3>1. ASSUME k < Len(up)
          PROVE  up[k + 1] # 0
      <4>1. k + 1 \in 1 .. Len(up) /\ up \in Seq(1 .. L)
        BY <3>1, LenProperties DEF Climbs
      <4>2. up[k + 1] \in 1 .. L
        BY <4>1, ElementOfSeq
      <4>3. QED
        BY <1>3, <4>2
    <3>2. QED
      BY <3>1
  <2>2. QED
    BY <1>t, <2>1
<1> HIDE DEF L, t, p, M, K, I, B, C
<1>7. Len(M) = L /\ M[t].parent = p /\ t \in B
  BY <1>1, <1>4 DEF Same, B, L
<1>8. p # 0 => p \in Cut(M)
  <2>1. t \in C
    BY <1>2, <1>7 DEF Forest
  <2>2. QED
    BY <1>2, <1>7, <2>1 DEF Forest
<1>9. p # 0 => p \notin Merged(up, k) /\ M[p].use # 1 /\ N[p].use # 0
  <2>1. ASSUME p # 0
        PROVE  p \notin Merged(up, k) /\ M[p].use # 1 /\ N[p].use # 0
    <3>1. M[p].use # 0 /\ p \in 1 .. L
      BY <1>7, <1>8, <2>1 DEF Cut
    <3>2. p \notin Merged(up, k)
      <4>1. ASSUME p \in Merged(up, k) PROVE FALSE
        <5>1. N[p].use = 1 /\ M[p].use = N[p].use - 1
          BY <1>1, <1>4, <3>1, <4>1
        <5>2. QED
          BY <3>1, <5>1
      <4>2. QED
        BY <4>1
    <3>3. M[p].use = N[p].use
      BY <1>4, <3>1, <3>2
    <3>4. QED
      BY <1>5, <2>1, <3>1, <3>2, <3>3
  <2>2. QED
    BY <2>1
<1>10. /\ Same(K, N)
       /\ \A m \in 1 .. L :
            /\ m \in Touched(up, k) => K[m].use = N[m].use - 1
            /\ m \notin Touched(up, k) => K[m].use = N[m].use
  <2>1. \A m \in 1 .. Len(N) : m \in Touched(up, k) => N[m].use # 0
    <3>1. ASSUME NEW m \in 1 .. Len(N), m \in Touched(up, k)
          PROVE  N[m].use # 0
      <4>1. CASE m \in Merged(up, k)
        BY <1>1, <4>1 DEF L
      <4>2. CASE m \notin Merged(up, k)
        <5>1. p # 0 /\ m = p
          BY <1>5, <1>6, <3>1, <4>2
        <5>2. QED
          BY <1>9, <5>1
      <4>3. QED
        BY <4>1, <4>2
    <3>2. QED
      BY <3>1
  <2>2. QED
    BY <1>3, <2>1, LoweredSame DEF L, K
<1>11. Same(K, M)
  BY <1>4, <1>10 DEF Same, L
<1>12. p # 0 => K[p].use = M[p].use - 1
  <2>1. ASSUME p # 0
        PROVE  K[p].use = M[p].use - 1
    <3>1. p \in 1 .. L /\ p \in Touched(up, k) /\ p \notin Merged(up, k)
      BY <1>5, <1>9, <2>1
    <3>2. QED
      BY <1>4, <1>10, <3>1
  <2>2. QED
    BY <2>1
<1>13. \A m \in 1 .. Len(M) : m # p => K[m].use = M[m].use
  <2>1. ASSUME NEW m \in 1 .. L, m # p
        PROVE  K[m].use = M[m].use
    <3>1. m \in Touched(up, k) <=> m \in Merged(up, k)
      BY <1>5, <1>6, <2>1
    <3>2. QED
      BY <1>4, <1>10, <3>1
  <2>2. QED
    BY <1>7, <2>1
<1>14. Lessens(M, I, B, C, t, p, K)
  BY <1>2, <1>7, <1>9, <1>11, <1>12, <1>13 DEF Lessens
<1>15. Forest(K, I \cup {t}, B \ {t}, C)
  BY <1>14, Back
<1>16. B \ {t} = busy \ {n}
  BY <1>1 DEF B
<1>17. t \notin I
  BY <1>2, <1>7 DEF Forest
<1>18. t \in Nat
  BY <1>1
<1>19. QED
  BY <1>10, <1>15, <1>16, <1>17, <1>18 DEF K, I, C, t

(* The state returnMemory leaves, once it is known how far the node climbs. *)
LEMMA ReturnedState ==
  ASSUME NEW e, NEW groups, NEW busy, Ready(e, groups, busy), NEW n \in busy,
         NEW up, Climbs(e.node, up, e.node[n].parent), NEW k \in 0 .. Len(up),
         \A j \in 1 .. k : e.node[up[j]].use = 1,
         k < Len(up) => e.node[up[k + 1]].use # 1,
         NEW counted, counted = [e EXCEPT !.node = Eager!Lowered(@, Touched(up, k))],
         NEW left, left = [counted EXCEPT !.list[0] = Eager!Without(@, PartsOf(e.node, up, k))],
         NEW v, v = Eager!InsertNode(left, 0, Top(n, up, k))
  PROVE  Follows(v, e, groups, busy, busy \ {n})
<1> DEFINE N == e.node
           idle == Idle(e)
           current == Current(e, busy)
           parts == PartsOf(e.node, up, k)
           top == Top(n, up, k)
           M == Eager!Lowered(e.node, Touched(up, k))
           rest == Eager!Without(e.list[0], parts)
<1>1. /\ Typed(e, groups) /\ Distinct(e.list[0]) /\ Forest(N, idle, busy, current) /\ Tree(N)
  BY DEF Ready, Forest
<1>8. /\ Forest(M, (idle \ parts) \cup {top}, busy \ {n}, current \ parts)
      /\ Same(M, N)
      /\ top \notin idle \ parts
      /\ top \in Nat
  <2> HIDE DEF idle, current
  <2>1. QED
    BY <1>1, Returns
<1>12. /\ e \in [node : Seq(EagerNode), list : [0 .. groups -> Seq(Nat)], current : Nat,
                 used : SUBSET Nat, total : Int, last : Nat]
       /\ groups \in Nat /\ 0 \in 0 .. groups
  BY <1>1 DEF Typed
<1>13. /\ rest \in Seq(Nat) /\ Distinct(rest) /\ Members(rest) = idle \ parts
  <2>1. e.list[0] \in Seq(Nat)
    BY <1>12
  <2> HIDE DEF parts
  <2>2. QED
    BY <1>1, <2>1, WithoutMembers DEF Idle
<1>14. counted = [e EXCEPT !.node = M]
  OBVIOUS
<1>15. M \in Seq(EagerNode)
  BY <1>8 DEF Same
<1>16. left = [counted EXCEPT !.list[0] = Eager!Without(@, parts)]
       /\ v = Eager!InsertNode(left, 0, top)
  OBVIOUS
<1>p. parts = {m \in 1 .. Len(N) : N[m].parent \in Merged(up, k)}
  BY DEF PartsOf
<1> HIDE DEF N, idle, current, parts, top, M, rest
<1>17. /\ counted \in [node : Seq(EagerNode), list : [0 .. groups -> Seq(Nat)], current : Nat,
                       used : SUBSET Nat, total : Int, last : Nat]
       /\ counted.node = M /\ counted.list = e.list /\ counted.used = e.used
       /\ counted.current = e.current /\ counted.total = e.total /\ counted.last = e.last
  BY <1>12, <1>14, <1>15
<1> DEFINE list == [e.list EXCEPT ![0] = rest]
<1>18. /\ list \in [0 .. groups -> Seq(Nat)] /\ list[0] = rest
       /\ \A g \in 1 .. groups : list[g] = e.list[g]
  BY <1>12, <1>13
<1>19. left = [counted EXCEPT !.list = list]
  BY <1>16, <1>17 DEF rest
<1> HIDE DEF list
<1>20. /\ left \in [node : Seq(EagerNode), list : [0 .. groups -> Seq(Nat)], current : Nat,
                    used : SUBSET Nat, total : Int, last : Nat]
       /\ left.node = M /\ left.list = list /\ left.used = e.used
       /\ left.current = e.current /\ left.total = e.total /\ left.last = e.last
  BY <1>17, <1>18, <1>19
<1>21. Typed(left, groups)
  BY <1>12, <1>20 DEF Typed
<1>22. /\ Distinct(left.list[0]) /\ Members(left.list[0]) = idle \ parts /\ top \in Nat
       /\ top \notin Members(left.list[0])
  BY <1>8, <1>13, <1>18, <1>20
<1>24. /\ Typed(v, groups) /\ Distinct(v.list[0])
       /\ Members(v.list[0]) = Members(left.list[0]) \cup {top}
       /\ \A h \in 0 .. groups : h # 0 => v.list[h] = left.list[h]
       /\ v.node = left.node /\ v.used = left.used /\ v.current = left.current
       /\ v.total = left.total /\ v.last = left.last
  <2> DEFINE s == left.list[0]
  <2>1. 0 \in 0 .. groups /\ Typed(left, groups) /\ Distinct(s) /\ top \in Nat /\ top \notin Members(s)
    BY <1>12, <1>21, <1>22
  <2>2. v = Eager!InsertNode(left, 0, top)
    BY <1>16
  <2>3. QED
    BY ONLY <2>1, <2>2, InsertNodeInto
<1>25. Idle(v) = (idle \ parts) \cup {top} /\ v.node = M
  BY <1>20, <1>22, <1>24 DEF Idle
<1>26. Current(v, busy \ {n}) = current \ parts
  BY <1>8, <1>25 DEF Current, Forest
<1>27. Ready(v, groups, busy \ {n})
  BY <1>8, <1>24, <1>25, <1>26 DEF Ready
<1>28. ASSUME NEW g \in 1 .. groups
       PROVE  v.list[g] = e.list[g]
  <2>1. g \in 0 .. groups /\ g # 0
    BY <1>12
  <2>2. v.list[g] = left.list[g] /\ left.list[g] = list[g]
    BY <1>20, <1>24, <2>1
  <2>3. list[g] = e.list[g]
    BY <1>18
  <2>4. QED
    BY <2>2, <2>3
<1>29. ASSUME NEW c \in 1 .. Len(e.node), e.node[c].parent = 0
       PROVE  c \in Current(v, busy \ {n}) <=> c \in Current(e, busy)
  <2>1. 0 \notin Merged(up, k)
    <3>1. ASSUME NEW j \in 1 .. k
          PROVE  up[j] # 0
      <4>1. j \in 1 .. Len(up) /\ Len(N) \in Nat /\ up \in Seq(1 .. Len(N))
        BY <1>1, LenProperties DEF Tree, N, Climbs
      <4>2. up[j] \in 1 .. Len(N)
        BY <4>1, ElementOfSeq
      <4>3. QED
        BY <4>1, <4>2
    <3>2. QED
      BY <3>1 DEF Merged
  <2>2. c \notin parts
    BY <1>29, <1>p, <2>1 DEF N
  <2>3. QED
    BY <1>26, <2>2 DEF current
<1>30. Same(v.node, e.node)
  BY <1>8, <1>25 DEF N
<1>31. QED
  BY <1>20, <1>24, <1>27, <1>28, <1>29, <1>30 DEF Follows

(* How far a node climbs: as long as a parent has one half in use.         *)
LEMMA MergesFirst ==
  ASSUME NEW N, NEW S, NEW up \in Seq(S), NEW k, k = Eager!Merges(N, up)
  PROVE  /\ k \in 0 .. Len(up)
         /\ \A j \in 1 .. k : N[up[j]].use = 1
         /\ k < Len(up) => N[up[k + 1]].use # 1
<1> DEFINE D == Len(up)
           W == {i \in DOMAIN up : \A j \in 1 .. i : N[up[j]].use = 1}
<1>1. D \in Nat /\ DOMAIN up = 1 .. D
  BY LenProperties
<1>2. \A i : i \in W <=> i \in 1 .. D /\ \A j \in 1 .. i : N[up[j]].use = 1
  BY <1>1
<1>3. k = Cardinality(W)
  <2>1. k = Eager!Cardinality(W)
    BY DEF Eager!Merges
  <2> HIDE DEF W
  <2>2. QED
    BY <2>1, Counting
<1> HIDE DEF D, W
<1>4. W \subseteq 1 .. D /\ \A i \in W : \A j \in 1 .. i : j \in W
  <2>1. \A i \in 1 .. D : \A j \in 1 .. i : j \in 1 .. D /\ \A l \in 1 .. j : l \in 1 .. i
    BY <1>1
  <2>2. QED
    BY <1>2, <2>1
<1>5. k \in 0 .. D /\ W = 1 .. k
  <2>1. D \in Nat /\ W \subseteq 1 .. D
    BY <1>1, <1>4
  <2>2. \A i \in W : \A j \in 1 .. i : j \in W
    BY <1>4
  <2>3. Cardinality(W) \in 0 .. D /\ W = 1 .. Cardinality(W)
    BY ONLY <2>1, <2>2, InitialPart
  <2>4. QED
    BY <1>3, <2>3
<1>6. \A j \in 1 .. k : N[up[j]].use = 1
  <2>1. \A j \in 1 .. k : j \in W /\ j \in 1 .. j
    BY <1>5
  <2>2. QED
    BY <1>2, <2>1
<1>7. ASSUME k < D, N[up[k + 1]].use = 1 PROVE FALSE
  <2>1. k + 1 \in 1 .. D /\ k + 1 \notin 1 .. k
    BY <1>1, <1>5, <1>7
  <2>2. \A j \in 1 .. k + 1 : j \in 1 .. k \/ j = k + 1
    BY <1>5
  <2>3. \A j \in 1 .. k + 1 : N[up[j]].use = 1
    BY <1>6, <1>7, <2>2
  <2>4. k + 1 \in W
    BY <1>2, <2>1, <2>3
  <2>5. QED
    BY <1>5, <2>1, <2>4
<1>8. QED
  BY <1>5, <1>6, <1>7 DEF D

(* returnMemory: what is merged is whole and idle, everything else is      *)
(* where it was.                                                           *)
LEMMA ReturnMemoryFollows ==
  ASSUME NEW e, NEW groups, NEW busy, Ready(e, groups, busy), NEW n \in busy
  PROVE  Follows(Eager!ReturnMemory(e, n), e, groups, busy, busy \ {n})
<1> DEFINE up == Eager!Lineage(e)[e.node[n].parent]
           k == Eager!Merges(e.node, up)
           counted == [e EXCEPT !.node = Eager!Lowered(@, Touched(up, k))]
           left == [counted EXCEPT !.list[0] = Eager!Without(@, PartsOf(e.node, up, k))]
           v == Eager!InsertNode(left, 0, Top(n, up, k))
<1>1. Tree(e.node) /\ n \in 1 .. Len(e.node)
  BY DEF Ready, Forest
<1>2. e.node[n].parent \in 0 .. Len(e.node)
  BY <1>1, LenProperties DEF Tree
<1>3. Climbs(e.node, up, e.node[n].parent)
  BY <1>1, <1>2, LineageClimbs
<1>4. Eager!ReturnMemory(e, n) = Eager!Merge(e, n, up, k)
  BY DEF Eager!ReturnMemory
<1> HIDE DEF up
<1>5. up \in Seq(1 .. Len(e.node))
  BY <1>3 DEF Climbs
<1> HIDE DEF k
<1>6. /\ k \in 0 .. Len(up)
      /\ \A j \in 1 .. k : e.node[up[j]].use = 1
      /\ k < Len(up) => e.node[up[k + 1]].use # 1
  BY <1>5, MergesFirst DEF k
<1>7. {m \in DOMAIN e.node : e.node[m].parent \in Merged(up, k)} = PartsOf(e.node, up, k)
  BY <1>1, LenProperties DEF PartsOf, Tree
<1>8. Eager!Merge(e, n, up, k) = v
  BY <1>7 DEF Eager!Merge, Eager!Shared, Merged, Touched, Top
<1> HIDE DEF counted, left, v
<1>9. /\ counted = [e EXCEPT !.node = Eager!Lowered(@, Touched(up, k))]
      /\ left = [counted EXCEPT !.list[0] = Eager!Without(@, PartsOf(e.node, up, k))]
      /\ v = Eager!InsertNode(left, 0, Top(n, up, k))
  BY DEF counted, left, v
<1>10. Follows(v, e, groups, busy, busy \ {n})
  BY <1>3, <1>6, <1>9, ReturnedState
<1>11. QED
  BY <1>4, <1>8, <1>10

(* A state follows itself, and what follows a state that follows it.       *)
LEMMA FollowsChain ==
  ASSUME NEW e, NEW groups, NEW busy, Ready(e, groups, busy)
  PROVE  /\ Follows(e, e, groups, busy, busy)
         /\ \A v, w, one, two :
              Follows(v, e, groups, busy, one) /\ Follows(w, v, groups, one, two)
                => Follows(w, e, groups, busy, two)
<1>1. Follows(e, e, groups, busy, busy)
  BY DEF Follows, Ready, Forest, Tree, Same
<1>2. ASSUME NEW v, NEW w, NEW one, NEW two,
             Follows(v, e, groups, busy, one), Follows(w, v, groups, one, two)
      PROVE  Follows(w, e, groups, busy, two)
  <2>1. Same(w.node, e.node)
    BY <1>2 DEF Follows, Same
  <2>2. ASSUME NEW c \in 1 .. Len(e.node), e.node[c].parent = 0
        PROVE  c \in Current(w, two) <=> c \in Current(e, busy)
    <3>1. c \in 1 .. Len(v.node) /\ v.node[c].parent = 0
      BY <1>2, <2>2 DEF Follows, Same
    <3>2. QED
      BY <1>2, <2>2, <3>1 DEF Follows
  <2>3. QED
    BY <1>2, <2>1, <2>2 DEF Follows
<1>3. QED
  BY <1>1, <1>2

States(groups) ==
  [node : Seq(EagerNode), list : [0 .. groups -> Seq(Nat)], current : Nat,
   used : SUBSET Nat, total : Int, last : Nat]

(* The nodes of a list up to a place.                                      *)
Upto(s, k) == {s[i] : i \in 1 .. k}

(* One node more of a list of distinct nodes.                              *)
LEMMA UptoNext ==
  ASSUME NEW S, NEW s \in Seq(S), Distinct(s), NEW k \in 1 .. Len(s)
  PROVE  /\ Upto(s, k) = Upto(s, k - 1) \cup {s[k]}
         /\ s[k] \notin Upto(s, k - 1) /\ s[k] \in Members(s)
<1>1. Len(s) \in Nat /\ DOMAIN s = 1 .. Len(s)
  BY LenProperties
<1>2. 1 .. k = (1 .. k - 1) \cup {k}
  BY <1>1
<1>3. ASSUME NEW i \in 1 .. k - 1
      PROVE  s[i] # s[k]
  <2>1. i \in 1 .. Len(s) /\ i # k
    BY <1>1
  <2>2. QED
    BY <1>1, <2>1 DEF Distinct
<1>4. QED
  BY <1>1, <1>2, <1>3 DEF Upto, Members

(* All nodes of a list come back, one after the other.                     *)
LEMMA ReturnAllFollows ==
  ASSUME NEW e, NEW groups, NEW busy, Ready(e, groups, busy),
         NEW nodes \in Seq(Nat), Distinct(nodes), Members(nodes) \subseteq busy
  PROVE  Follows(Eager!ReturnAll(e, nodes), e, groups, busy, busy \ Members(nodes))
<1> DEFINE K == Len(nodes)
           V == States(groups)
           from == Before(K)
           on(v, k) == Eager!ReturnMemory(v, nodes[k])
           step == [p \in (1 .. K) \X V |-> on(p[2], p[1])]
           Fine(k, v) == Follows(v, e, groups, busy, busy \ Upto(nodes, k))
           fine == {p \in (0 .. K) \X V : Fine(p[1], p[2])}
           Is(f) == f = [k \in 0 .. K |-> IF k = 0 THEN e ELSE on(f[k - 1], k)]
           back == CHOOSE f : Is(f)
<1>1. K \in Nat /\ DOMAIN nodes = 1 .. K
  BY LenProperties
<1>2. Descends(from, K) /\ \A n \in 1 .. K : from[n] = n - 1
  BY <1>1, BeforeDescends
<1>3. Eager!ReturnAll(e, nodes) = back[K]
  BY DEF Eager!ReturnAll
<1>4. ASSUME NEW k \in 1 .. K, NEW v, Fine(k - 1, v)
      PROVE  Fine(k, on(v, k)) /\ on(v, k) \in V
  <2> DEFINE left == busy \ Upto(nodes, k - 1)
  <2>1. /\ Upto(nodes, k) = Upto(nodes, k - 1) \cup {nodes[k]}
        /\ nodes[k] \notin Upto(nodes, k - 1) /\ nodes[k] \in Members(nodes)
    BY UptoNext
  <2>2. nodes[k] \in left
    BY <2>1
  <2>3. Ready(v, groups, left)
    BY <1>4 DEF Follows
  <2>4. left \ {nodes[k]} = busy \ Upto(nodes, k)
    BY <2>1
  <2> HIDE DEF left
  <2>5. Follows(on(v, k), v, groups, left, left \ {nodes[k]})
    BY <2>2, <2>3, ReturnMemoryFollows
  <2>6. Follows(v, e, groups, busy, left)
    BY <1>4 DEF left
  <2>7. Follows(on(v, k), e, groups, busy, busy \ Upto(nodes, k))
    BY <2>4, <2>5, <2>6, FollowsChain
  <2>8. on(v, k) \in V
    BY <2>7 DEF Follows, Ready, Typed, States
  <2>9. QED
    BY <2>7, <2>8
<1>5. Fine(0, e) /\ e \in V
  <2>1. Upto(nodes, 0) = {}
    BY DEF Upto
  <2>2. busy \ {} = busy
    OBVIOUS
  <2>3. QED
    BY <2>1, <2>2, FollowsChain DEF Ready, Typed, States
<1> HIDE DEF K, V, from, on, Fine
<1>6. ASSUME NEW k \in 1 .. K, NEW v, << from[k], v >> \in fine
      PROVE  step[<< k, v >>] = on(v, k) /\ << k, on(v, k) >> \in fine
  <2>1. from[k] = k - 1
    BY <1>2
  <2>2. v \in V /\ << k, v >> \in (1 .. K) \X V /\ Fine(k - 1, v)
    BY <1>6, <2>1
  <2>3. on(v, k) \in V /\ Fine(k, on(v, k)) /\ k \in 0 .. K
    BY <1>1, <1>4, <2>2
  <2>4. QED
    BY <2>2, <2>3
<1>7. << 0, e >> \in fine
  BY <1>1, <1>5
<1> HIDE DEF step
<1>8. Builds(step, fine, from, K)
  BY <1>6 DEF Builds
<1>9. PICK g : Solves(g, K, e, step, fine, from)
  <2> HIDE DEF fine
  <2>1. QED
    BY <1>1, <1>2, <1>7, <1>8, Recursion
<1>10. ASSUME NEW k \in 1 .. K
       PROVE  g[k] = on(g[k - 1], k)
  <2>1. k - 1 \in 0 .. K /\ from[k] = k - 1
    BY <1>1, <1>2
  <2>2. << k - 1, g[k - 1] >> \in fine /\ g[k] = step[<< k, g[k - 1] >>]
    BY <1>9, <2>1 DEF Solves
  <2>3. QED
    BY <1>6, <2>1, <2>2
<1>11. Is(g)
  <2>1. g = [k \in 0 .. K |-> g[k]] /\ g[0] = e
    BY <1>9 DEF Solves
  <2>2. ASSUME NEW k \in 0 .. K
        PROVE  g[k] = IF k = 0 THEN e ELSE on(g[k - 1], k)
    <3>1. k = 0 \/ k \in 1 .. K
      BY <1>1
    <3>2. QED
      BY <1>1, <1>10, <2>1, <3>1
  <2>3. QED
    BY <2>1, <2>2
<1>12. Is(back)
  BY <1>11
<1>13. ASSUME NEW k \in 0 .. K
       PROVE  back[k] = IF k = 0 THEN e ELSE on(back[k - 1], k)
  <2> HIDE DEF back
  <2>1. QED
    BY <1>12
<1> HIDE DEF back, Is
<1>14. back[0] = e /\ \A k \in 1 .. K : back[k] = on(back[k - 1], k)
  <2>1. 0 \in 0 .. K /\ \A k \in 1 .. K : k \in 0 .. K /\ k # 0
    BY <1>1
  <2>2. QED
    BY <1>13, <2>1
<1> DEFINE good == {k \in 0 .. K : Fine(k, back[k])}
<1>15. 0 \in good
  BY <1>1, <1>5, <1>14
<1>16. ASSUME NEW k \in 1 .. K, from[k] \in good
       PROVE  k \in good
  <2>1. Fine(k - 1, back[k - 1])
    BY <1>2, <1>16
  <2>2. k \in 0 .. K
    BY <1>1
  <2>3. QED
    BY <1>4, <1>14, <2>1, <2>2
<1> HIDE DEF good
<1>17. Inherited(good, from, K)
  BY <1>15, <1>16 DEF Inherited
<1>18. \A k \in 0 .. K : k \in good
  BY <1>1, <1>2, <1>17, Induction
<1>19. Fine(K, back[K])
  BY <1>1, <1>18 DEF good
<1>20. Upto(nodes, K) = Members(nodes)
  BY <1>1 DEF Upto, Members
<1>21. QED
  BY <1>3, <1>19, <1>20 DEF Fine

(* What the groups of the barrier keep.                                    *)
KeptUpto(e, g) == UNION {Members(e.list[h]) : h \in 1 .. g}

(* Every list has its nodes once, and no two lists share one.              *)
Lists(e, groups) ==
  /\ \A g \in 0 .. groups : Distinct(e.list[g])
  /\ \A g, h \in 0 .. groups : g # h => Members(e.list[g]) \cap Members(e.list[h]) = {}

(* The number of lists.                                                    *)
LEMMA ListCount ==
  ASSUME NEW e, NEW groups, Typed(e, groups)
  PROVE  Cardinality(DOMAIN e.list) = groups + 1
<1>1. DOMAIN e.list = 0 .. groups /\ groups \in Nat
  BY DEF Typed
<1>2. Cardinality(0 .. groups) = groups - 0 + 1
  <2>1. 0 \in Int /\ groups \in Int /\ ~(0 > groups)
    BY <1>1
  <2>2. QED
    BY <2>1, FS_Interval
<1>3. QED
  BY <1>1, <1>2

(* The nodes of one group more.                                            *)
LEMMA KeptNext ==
  ASSUME NEW e, NEW groups \in Nat, Lists(e, groups), NEW g \in 1 .. groups
  PROVE  /\ KeptUpto(e, g) = KeptUpto(e, g - 1) \cup Members(e.list[g])
         /\ KeptUpto(e, g - 1) \cap Members(e.list[g]) = {}
         /\ Members(e.list[g]) \subseteq KeptUpto(e, groups)
<1>1. 1 .. g = (1 .. g - 1) \cup {g} /\ g \in 1 .. groups /\ g \in 0 .. groups
  OBVIOUS
<1>2. ASSUME NEW h \in 1 .. g - 1
      PROVE  Members(e.list[h]) \cap Members(e.list[g]) = {}
  <2>1. h \in 0 .. groups /\ h # g
    OBVIOUS
  <2>2. QED
    BY <1>1, <2>1 DEF Lists
<1>3. KeptUpto(e, g) = KeptUpto(e, g - 1) \cup Members(e.list[g])
  BY <1>1 DEF KeptUpto
<1>4. KeptUpto(e, g - 1) \cap Members(e.list[g]) = {}
  BY <1>2 DEF KeptUpto
<1>5. Members(e.list[g]) \subseteq KeptUpto(e, groups)
  BY <1>1 DEF KeptUpto
<1>6. QED
  BY <1>3, <1>4, <1>5

(* The barrier ends: what the groups kept comes back, group by group.      *)
LEMMA BarrierEndFollows ==
  ASSUME NEW e, NEW groups, NEW busy, Ready(e, groups, busy), Lists(e, groups),
         KeptUpto(e, groups) \subseteq busy,
         NEW start, start = [e EXCEPT !.list = [h \in {0} |-> @[0]]]
  PROVE  /\ Ready(start, 0, busy)
         /\ Follows(Eager!BarrierEnd(e), start, 0, busy, busy \ KeptUpto(e, groups))
<1> DEFINE K == groups
           V == States(0)
           from == Before(K)
           on(v, k) == Eager!ReturnAll(v, e.list[k])
           step == [p \in (1 .. K) \X V |-> on(p[2], p[1])]
           Fine(k, v) == Follows(v, start, 0, busy, busy \ KeptUpto(e, k))
           fine == {p \in (0 .. K) \X V : Fine(p[1], p[2])}
           Is(f) == f = [k \in 0 .. K |-> IF k = 0 THEN start ELSE on(f[k - 1], k)]
           back == CHOOSE f : Is(f)
<1>1. K \in Nat /\ e \in States(groups)
  BY DEF Ready, Typed, States
<1>2. Descends(from, K) /\ \A n \in 1 .. K : from[n] = n - 1
  BY <1>1, BeforeDescends
<1>3. Eager!BarrierEnd(e) = back[K]
  <2>1. Eager!Cardinality(DOMAIN e.list) - 1 = groups
    <3>1. Cardinality(DOMAIN e.list) = groups + 1
      BY ListCount DEF Ready
    <3>2. QED
      BY <1>1, <3>1, Counting
  <2>2. start = [e EXCEPT !.list = [h \in {Eager!Shared} |-> @[Eager!Shared]]]
    BY DEF Eager!Shared
  <2>3. QED
    BY <2>1, <2>2 DEF Eager!BarrierEnd
<1>4. /\ start.node = e.node /\ start.list = [h \in {0} |-> e.list[0]]
      /\ start.used = e.used /\ start.current = e.current
      /\ start.total = e.total /\ start.last = e.last /\ start \in V
  <2>1. [h \in {0} |-> e.list[0]] \in [0 .. 0 -> Seq(Nat)]
    <3>1. 0 .. 0 = {0} /\ e.list[0] \in Seq(Nat)
      BY <1>1 DEF States
    <3>2. QED
      BY <3>1
  <2>2. QED
    BY <1>1, <2>1 DEF States
<1>5. Ready(start, 0, busy)
  <2>1. start.list[0] = e.list[0]
    BY <1>4
  <2>2. QED
    BY <1>4, <2>1 DEF Ready, Typed, States, Idle, Current
<1>6. ASSUME NEW k \in 1 .. K, NEW v, Fine(k - 1, v)
      PROVE  Fine(k, on(v, k)) /\ on(v, k) \in V
  <2> DEFINE left == busy \ KeptUpto(e, k - 1)
             nodes == e.list[k]
  <2>1. /\ KeptUpto(e, k) = KeptUpto(e, k - 1) \cup Members(nodes)
        /\ KeptUpto(e, k - 1) \cap Members(nodes) = {}
        /\ Members(nodes) \subseteq KeptUpto(e, groups)
    BY <1>1, KeptNext
  <2>2. Members(nodes) \subseteq left
    BY <2>1
  <2>3. Ready(v, 0, left)
    BY <1>6 DEF Follows
  <2>4. left \ Members(nodes) = busy \ KeptUpto(e, k)
    BY <2>1
  <2>5. nodes \in Seq(Nat) /\ Distinct(nodes)
    <3>1. k \in 0 .. groups
      BY <1>1
    <3>2. QED
      BY <1>1, <3>1 DEF Lists, States
  <2>6. Follows(v, start, 0, busy, left)
    BY <1>6
  <2> HIDE DEF left, nodes
  <2>7. Follows(Eager!ReturnAll(v, nodes), v, 0, left, left \ Members(nodes))
    BY <2>2, <2>3, <2>5, ReturnAllFollows
  <2>8. Follows(Eager!ReturnAll(v, nodes), start, 0, busy, busy \ KeptUpto(e, k))
    BY <1>5, <2>4, <2>6, <2>7, FollowsChain
  <2>9. on(v, k) = Eager!ReturnAll(v, nodes)
    BY DEF nodes
  <2>10. on(v, k) \in V
    BY <2>8, <2>9 DEF Follows, Ready, Typed, States
  <2>11. QED
    BY <2>8, <2>9, <2>10
<1>7. Fine(0, start)
  <2>1. KeptUpto(e, 0) = {}
    BY DEF KeptUpto
  <2>2. busy \ {} = busy
    OBVIOUS
  <2>3. QED
    BY <1>5, <2>1, <2>2, FollowsChain
<1> HIDE DEF K, V, from, on, Fine
<1>8. ASSUME NEW k \in 1 .. K, NEW v, << from[k], v >> \in fine
      PROVE  step[<< k, v >>] = on(v, k) /\ << k, on(v, k) >> \in fine
  <2>1. from[k] = k - 1
    BY <1>2
  <2>2. v \in V /\ << k, v >> \in (1 .. K) \X V /\ Fine(k - 1, v)
    BY <1>8, <2>1
  <2>3. on(v, k) \in V /\ Fine(k, on(v, k)) /\ k \in 0 .. K
    BY <1>1, <1>6, <2>2
  <2>4. QED
    BY <2>2, <2>3
<1>9. << 0, start >> \in fine
  BY <1>1, <1>4, <1>7
<1> HIDE DEF step
<1>10. Builds(step, fine, from, K)
  BY <1>8 DEF Builds
<1>11. PICK g : Solves(g, K, start, step, fine, from)
  <2> HIDE DEF fine
  <2>1. QED
    BY <1>1, <1>2, <1>9, <1>10, Recursion
<1>12. ASSUME NEW k \in 1 .. K
       PROVE  g[k] = on(g[k - 1], k)
  <2>1. k - 1 \in 0 .. K /\ from[k] = k - 1
    BY <1>1, <1>2
  <2>2. << k - 1, g[k - 1] >> \in fine /\ g[k] = step[<< k, g[k - 1] >>]
    BY <1>11, <2>1 DEF Solves
  <2>3. QED
    BY <1>8, <2>1, <2>2
<1>13. Is(g)
  <2>1. g = [k \in 0 .. K |-> g[k]] /\ g[0] = start
    BY <1>11 DEF Solves
  <2>2. ASSUME NEW k \in 0 .. K
        PROVE  g[k] = IF k = 0 THEN start ELSE on(g[k - 1], k)
    <3>1. k = 0 \/ k \in 1 .. K
      BY <1>1
    <3>2. QED
      BY <1>1, <1>12, <2>1, <3>1
  <2>3. QED
    BY <2>1, <2>2
<1>14. Is(back)
  BY <1>13
<1>15. ASSUME NEW k \in 0 .. K
       PROVE  back[k] = IF k = 0 THEN start ELSE on(back[k - 1], k)
  <2> HIDE DEF back
  <2>1. QED
    BY <1>14
<1> HIDE DEF back, Is
<1>16. back[0] = start /\ \A k \in 1 .. K : back[k] = on(back[k - 1], k)
  <2>1. 0 \in 0 .. K /\ \A k \in 1 .. K : k \in 0 .. K /\ k # 0
    BY <1>1
  <2>2. QED
    BY <1>15, <2>1
<1> DEFINE good == {k \in 0 .. K : Fine(k, back[k])}
<1>17. 0 \in good
  BY <1>1, <1>7, <1>16
<1>18. ASSUME NEW k \in 1 .. K, from[k] \in good
       PROVE  k \in good
  <2>1. Fine(k - 1, back[k - 1])
    BY <1>2, <1>18
  <2>2. k \in 0 .. K
    BY <1>1
  <2>3. QED
    BY <1>6, <1>16, <2>1, <2>2
<1> HIDE DEF good
<1>19. Inherited(good, from, K)
  BY <1>17, <1>18 DEF Inherited
<1>20. \A k \in 0 .. K : k \in good
  BY <1>1, <1>2, <1>19, Induction
<1>21. Fine(K, back[K])
  BY <1>1, <1>20 DEF good
<1>22. QED
  BY <1>3, <1>5, <1>21 DEF Fine, K

(* Taking a node.                                                          *)

(* A size rounded up is no smaller, and at most a multiple that is larger. *)
LEMMA RoundUpBounds ==
  ASSUME NEW n \in Nat
  PROVE  /\ Eager!RoundUp(n) \in Nat /\ n <= Eager!RoundUp(n)
         /\ \A m \in Nat : m % Align = 0 /\ n <= m => Eager!RoundUp(n) <= m
<1> DEFINE q == (n + Align - 1) \div Align
           r == (n + Align - 1) % Align
<1>1. Align \in Nat /\ Align > 0
  BY BufferAllocatorAssumption
<1>2. q \in Nat /\ r \in 0 .. Align - 1 /\ n + Align - 1 = Align * q + r
  <2>1. n + Align - 1 \in Nat
    BY <1>1
  <2> DEFINE s == n + Align - 1
  <2> HIDE DEF s
  <2>2. s \in Nat => s \div Align \in Nat /\ s % Align \in 0 .. Align - 1
                     /\ s = Align * (s \div Align) + (s % Align)
    BY <1>1
  <2>3. QED
    BY <2>1, <2>2 DEF s
<1>3. Eager!RoundUp(n) = q * Align
  BY DEF Eager!RoundUp
<1> HIDE DEF q, r
<1>4. q * Align = Align * q /\ q * Align \in Nat
  BY <1>1, <1>2
<1>5. n <= q * Align
  BY <1>1, <1>2, <1>4
<1>6. ASSUME NEW m \in Nat, m % Align = 0, n <= m
      PROVE  q * Align <= m
  <2> DEFINE k == m \div Align
  <2>1. k \in Nat /\ m = Align * k
    BY <1>1, <1>6
  <2> HIDE DEF k
  <2>2. q <= k
    <3>1. SUFFICES ASSUME k + 1 <= q PROVE FALSE
      BY <1>2, <2>1
    <3>2. Align * (k + 1) <= Align * q
      BY <1>1, <1>2, <2>1, <3>1
    <3>3. Align * (k + 1) = m + Align
      BY <1>1, <2>1
    <3>4. QED
      BY <1>1, <1>2, <1>6, <3>2, <3>3
  <2>3. Align * q <= Align * k
    BY <1>1, <1>2, <2>1, <2>2
  <2>4. QED
    BY <1>4, <2>1, <2>3
<1>7. QED
  BY <1>3, <1>4, <1>5, <1>6

Lowest(e, groups, g, size, i, x) ==
  /\ Typed(e, groups) /\ g \in 0 .. groups /\ Distinct(e.list[g])
  /\ size \in Nat /\ Eager!Fits(e, g, size) # {}
  /\ i = Eager!LowerBound(e, g, size) /\ x = e.list[g][i]

(* The smallest node that fits is taken out of its list.                   *)
LEMMA LowestFit ==
  ASSUME NEW e, NEW groups, NEW g, NEW size, NEW i, NEW x, Lowest(e, groups, g, size, i, x)
  PROVE  /\ i \in 1 .. Len(e.list[g]) /\ x \in Members(e.list[g])
         /\ e.node[x].size >= size
         /\ Eager!RemoveAt(e.list[g], i) \in Seq(Nat)
         /\ Distinct(Eager!RemoveAt(e.list[g], i))
         /\ Members(Eager!RemoveAt(e.list[g], i)) = Members(e.list[g]) \ {x}
<1> DEFINE s == e.list[g]
           F == Eager!Fits(e, g, size)
<1>1. s \in Seq(Nat) /\ DOMAIN s = 1 .. Len(s) /\ Len(s) \in Nat
  BY LenProperties DEF Typed, Lowest
<1>2. F \subseteq 1 .. Len(s) /\ \A j \in F : e.node[s[j]].size >= size
  BY <1>1 DEF Eager!Fits
<1>a. F # {}
  BY DEF Lowest
<1>3. F \in SUBSET Nat
  BY <1>1, <1>2
<1>4. PICK k \in F : \A j \in F : k <= j
  BY <1>3, <1>a, Least
<1>5. i \in F
  BY <1>4 DEF Eager!LowerBound, Lowest
<1>6. i \in 1 .. Len(s) /\ x \in Members(s) /\ e.node[x].size >= size
  BY <1>1, <1>2, <1>5 DEF Members, Lowest
<1>7. Distinct(s) /\ s[i] = x
  BY DEF Lowest
<1>8. QED
  BY <1>1, <1>6, <1>7, RemovedAt, RemovedMembers

(* What Halve and NewBlock do to the blocks and the total.                 *)
Blocks(v, e, after, before) ==
  /\ \A c \in 1 .. Len(e.node) : e.node[c].parent = 0 => (c \in after <=> c \in before)
  /\ \/ /\ v.total = e.total
        /\ \A c \in 1 .. Len(v.node) : c > Len(e.node) => v.node[c].parent # 0
     \/ /\ Len(e.node) + 1 \in after /\ v.node[Len(e.node) + 1].parent = 0
        /\ v.total = e.total + v.node[Len(e.node) + 1].size
        /\ \A c \in 1 .. Len(v.node) : c > Len(e.node) + 1 => v.node[c].parent # 0

(* v is e with x cut in two.                                               *)
CutsTo(v, e, groups, busy, x, size) ==
  /\ Ready(v, groups, (busy \ {x}) \cup {v.last})
  /\ Grows(v.node, e.node) /\ Len(v.node) = Len(e.node) + 2
  /\ v.last = Len(e.node) + 1 /\ v.node[v.last].size = size
  /\ v.node[Len(e.node) + 1].parent = x /\ v.node[Len(e.node) + 2].parent = x
  /\ v.used = e.used \cup {v.last} /\ v.current = e.current /\ v.total = e.total
  /\ \A g \in 1 .. groups : v.list[g] = e.list[g]
  /\ Current(v, (busy \ {x}) \cup {v.last})
       = Current(e, busy) \cup {Len(e.node) + 1, Len(e.node) + 2}

Joined(S, s, L, made, t) ==
  /\ s \in Seq(S) /\ L \in Nat /\ Len(s) = L
  /\ made \in Seq(S) /\ Len(made) = 2 /\ t = s \o made

(* Two elements more at the end of a sequence.                             *)
LEMMA TwoMore ==
  ASSUME NEW S, NEW s, NEW L, NEW made, NEW t, Joined(S, s, L, made, t)
  PROVE  /\ t \in Seq(S) /\ Len(t) = L + 2
         /\ \A n \in 1 .. L : t[n] = s[n]
         /\ t[L + 1] = made[1] /\ t[L + 2] = made[2]
<1>1. /\ s \o made \in Seq(S) /\ Len(s \o made) = Len(s) + Len(made)
      /\ \A n \in 1 .. Len(s) + Len(made) :
           (s \o made)[n] = IF n <= Len(s) THEN s[n] ELSE made[n - Len(s)]
  BY ConcatProperties DEF Joined
<1>2. /\ t \in Seq(S) /\ Len(t) = L + 2
      /\ \A n \in 1 .. L + 2 : t[n] = IF n <= L THEN s[n] ELSE made[n - L]
  BY <1>1 DEF Joined
<1>3. L \in Nat /\ \A n \in 1 .. L : n \in 1 .. L + 2 /\ n <= L
  BY DEF Joined
<1>4. \A n \in 1 .. L : t[n] = s[n]
  BY <1>2, <1>3
<1>5. ASSUME NEW m \in 1 .. 2
      PROVE  t[L + m] = made[m]
  <2> DEFINE n == L + m
  <2>1. n \in 1 .. L + 2 /\ ~(n <= L) /\ n - L = m
    BY <1>3
  <2> HIDE DEF n
  <2>2. t[n] = made[m]
    BY ONLY <1>2, <2>1
  <2>3. QED
    BY <2>2 DEF n
<1>6. QED
  BY <1>2, <1>4, <1>5

(* One more in use.                                                        *)
LEMMA RaisedNode ==
  ASSUME NEW y \in EagerNode
  PROVE  [y EXCEPT !.use = y.use + 1] \in EagerNode
<1>1. y.use + 1 \in Nat
  BY DEF EagerNode
<1>2. QED
  BY <1>1 DEF EagerNode

Halved(N, x, a, b, M) ==
  /\ N \in Seq(EagerNode) /\ x \in 1 .. Len(N) /\ a \in EagerNode /\ b \in EagerNode
  /\ M = Eager!Raised(N, x) \o << a, b >>

(* The nodes of a halved state.                                            *)
LEMMA HalvedNodes ==
  ASSUME NEW N, NEW x, NEW a, NEW b, NEW M, Halved(N, x, a, b, M)
  PROVE  /\ Grows(M, N) /\ Len(M) = Len(N) + 2
         /\ \A n \in 1 .. Len(N) : n # x => M[n].use = N[n].use
         /\ M[x].use = N[x].use + 1
         /\ M[Len(N) + 1] = a /\ M[Len(N) + 2] = b
<1> DEFINE R == Eager!Raised(N, x)
           L == Len(N)
<1>1. L \in Nat /\ DOMAIN N = 1 .. L /\ \A n \in 1 .. L : N[n] \in EagerNode
  BY LenProperties, ElementOfSeq DEF Halved
<1>0. x \in 1 .. L /\ a \in EagerNode /\ b \in EagerNode
  BY DEF Halved
<1>2. R \in Seq(EagerNode) /\ Len(R) = L
  <2>1. R \in [1 .. L -> EagerNode]
    <3> DEFINE y == N[x]
    <3>1. R = [N EXCEPT ![x] = [y EXCEPT !.use = y.use + 1]]
      BY DEF Eager!Raised
    <3>2. y \in EagerNode
      BY <1>0, <1>1
    <3> HIDE DEF y
    <3>3. [y EXCEPT !.use = y.use + 1] \in EagerNode
      BY <3>2, RaisedNode
    <3>4. QED
      BY <1>0, <1>1, <3>1, <3>3
  <2>2. QED
    BY <1>1, <2>1, Made
<1>3. \A n \in 1 .. L :
        /\ R[n].block = N[n].block /\ R[n].parent = N[n].parent
        /\ R[n].off = N[n].off /\ R[n].size = N[n].size
        /\ n # x => R[n].use = N[n].use
  BY <1>0, <1>1 DEF Eager!Raised, EagerNode
<1>4. R[x].use = N[x].use + 1
  BY <1>0, <1>1 DEF Eager!Raised, EagerNode
<1> HIDE DEF R, L
<1>5. /\ M \in Seq(EagerNode) /\ Len(M) = L + 2
      /\ \A n \in 1 .. L : M[n] = R[n]
      /\ M[L + 1] = a /\ M[L + 2] = b
  <2> DEFINE made == << a, b >>
  <2>1. M = R \o made /\ made[1] = a /\ made[2] = b /\ L \in Nat
    BY <1>1 DEF R, Halved
  <2>2. made \in Seq(EagerNode) /\ Len(made) = 2
    BY <1>0
  <2> HIDE DEF made
  <2>3. Joined(EagerNode, R, L, made, M)
    BY <1>2, <2>1, <2>2 DEF Joined
  <2>4. /\ M \in Seq(EagerNode) /\ Len(M) = L + 2
        /\ \A n \in 1 .. L : M[n] = R[n]
        /\ M[L + 1] = made[1] /\ M[L + 2] = made[2]
    BY ONLY <2>3, TwoMore
  <2>5. QED
    BY <2>1, <2>4
<1>6. x \in 1 .. L
  BY <1>0
<1>7. Grows(M, N)
  <2>1. Len(N) = L
    BY DEF L
  <2>2. QED
    BY <1>1, <1>3, <1>5, <2>1 DEF Grows
<1>8. QED
  BY <1>3, <1>4, <1>5, <1>6, <1>7 DEF L

(* A busy node is cut in two: the first part is used, the second idle.     *)
LEMMA HalveCuts ==
  ASSUME NEW e, NEW groups, NEW busy, Ready(e, groups, busy),
         NEW x \in busy, NEW size \in Nat, size <= e.node[x].size,
         NEW v, v = Eager!Halve(e, 0, x, size)
  PROVE  CutsTo(v, e, groups, busy, x, size)
<1> DEFINE N == e.node
           L == Len(e.node)
           y == e.node[x]
           a == Eager!Node(y.block, y.off, size, x, 0)
           b == Eager!Node(y.block, y.off + size, y.size - size, x, 0)
           M == Eager!Raised(N, x) \o << a, b >>
           w == [e EXCEPT !.node = Eager!Raised(@, x) \o << a, b >>,
                          !.used = @ \cup {L + 1}, !.last = L + 1]
           lent == (busy \ {x}) \cup {L + 1}
<1>1. /\ Typed(e, groups) /\ Distinct(e.list[0]) /\ Tree(N)
      /\ Forest(N, Idle(e), busy, Current(e, busy))
      /\ N \in Seq(EagerNode) /\ L \in Nat
      /\ Idle(e) \subseteq 1 .. L /\ busy \subseteq 1 .. L
  BY LenProperties DEF Ready, Forest, Tree
<1>2. x \in 1 .. L /\ x \in Nat
  BY <1>1
<1>3. y.size \in Nat /\ y.off \in Nat /\ y.block \in Nat
  BY <1>1, <1>2, NodeTyped
<1>5. v = Eager!InsertNode(w, 0, L + 2)
  <2>1. L + 1 + 1 = L + 2
    BY <1>1
  <2>2. QED
    BY <2>1 DEF Eager!Halve
<1>a. y.size - size \in Nat /\ y.off + size \in Nat
  <2>1. size <= y.size
    OBVIOUS
  <2> HIDE DEF y
  <2>2. QED
    BY <1>3, <2>1
<1>4. a \in EagerNode /\ b \in EagerNode
  <2> DEFINE off == y.off + size
             rest == y.size - size
             from == y.off
             block == y.block
  <2>1. off \in Nat /\ rest \in Nat /\ from \in Nat /\ block \in Nat
    BY <1>3, <1>a
  <2>2. a = Eager!Node(block, from, size, x, 0) /\ b = Eager!Node(block, off, rest, x, 0)
    OBVIOUS
  <2> HIDE DEF off, rest, from, block, a, b
  <2>3. QED
    BY <1>2, <2>1, <2>2 DEF EagerNode, Eager!Node
<1> HIDE DEF a, b, y
<1>6. /\ w.node = M /\ w.list = e.list /\ w.used = e.used \cup {L + 1}
      /\ w.last = L + 1 /\ w.current = e.current /\ w.total = e.total
  BY <1>1 DEF Typed
<1>7. /\ Grows(M, N) /\ Len(M) = L + 2
      /\ \A n \in 1 .. L : n # x => M[n].use = N[n].use
      /\ M[x].use = N[x].use + 1
      /\ M[L + 1] = a /\ M[L + 2] = b
  <2>1. Halved(N, x, a, b, M)
    BY <1>1, <1>2, <1>4 DEF Halved
  <2>2. L = Len(N)
    OBVIOUS
  <2> HIDE DEF N, L, M
  <2>3. QED
    BY ONLY <2>1, <2>2, HalvedNodes
<1> HIDE DEF M
<1>8. M \in Seq(EagerNode)
  BY <1>7 DEF Grows
<1>9. Typed(w, groups)
  <2>1. w = [e EXCEPT !.node = M, !.used = @ \cup {L + 1}, !.last = L + 1]
    BY DEF M, a, b
  <2> HIDE DEF w, L
  <2>2. L + 1 \in Nat /\ {L + 1} \subseteq Nat
    BY <1>1 DEF L
  <2>3. QED
    BY <1>1, <1>8, <2>1, <2>2 DEF Typed
<1> HIDE DEF w
<1>10. L + 2 \in Nat /\ L + 2 \notin Idle(e) /\ L + 1 \in Nat
  BY <1>1
<1>11. Distinct(w.list[0]) /\ L + 2 \notin Members(w.list[0]) /\ 0 \in 0 .. groups
  BY <1>1, <1>6, <1>10 DEF Idle, Typed
<1>12. /\ Typed(v, groups)
       /\ Distinct(v.list[0]) /\ Members(v.list[0]) = Members(w.list[0]) \cup {L + 2}
       /\ \A h \in 0 .. groups : h # 0 => v.list[h] = w.list[h]
       /\ v.node = w.node /\ v.used = w.used /\ v.current = w.current
       /\ v.total = w.total /\ v.last = w.last
  <2> HIDE DEF L
  <2>1. QED
    BY ONLY <1>5, <1>9, <1>10, <1>11, InsertNodeInto
<1>13. Idle(v) = Idle(e) \cup {L + 2}
  BY <1>6, <1>12 DEF Idle
<1>14. Forest(M, Idle(e) \cup {L + 2}, lent, Current(e, busy) \cup {L + 1, L + 2})
  <2>1. /\ L = Len(N) /\ x \in busy /\ size \in Nat /\ size <= N[x].size
        /\ M[L + 1] = Eager!Node(N[x].block, N[x].off, size, x, 0)
        /\ M[L + 2] = Eager!Node(N[x].block, N[x].off + size, N[x].size - size, x, 0)
    BY <1>7 DEF a, b, y
  <2> HIDE DEF N, L
  <2>2. QED
    BY ONLY <1>1, <1>7, <2>1, CutInTwo
<1>15. Current(v, lent) = Current(e, busy) \cup {L + 1, L + 2}
  <2>1. Current(e, busy) \cup {L + 1, L + 2} = (Idle(e) \cup {L + 2}) \cup lent \cup Cut(M)
    BY <1>14 DEF Forest
  <2> HIDE DEF lent
  <2>2. QED
    BY <1>6, <1>12, <1>13, <2>1 DEF Current
<1>16. Ready(v, groups, lent)
  BY <1>6, <1>12, <1>13, <1>14, <1>15 DEF Ready
<1>17. v.last = L + 1 /\ v.node[v.last].size = size
  BY <1>6, <1>7, <1>12 DEF a, Eager!Node
<1>18. v.node[L + 1].parent = x /\ v.node[L + 2].parent = x
  BY <1>6, <1>7, <1>12 DEF a, b, Eager!Node
<1>19. \A g \in 1 .. groups : v.list[g] = e.list[g]
  <2>1. groups \in Nat
    BY <1>1 DEF Typed
  <2>2. \A g \in 1 .. groups : g \in 0 .. groups /\ g # 0
    BY <2>1
  <2>3. QED
    BY <1>6, <1>12, <2>2
<1>20. QED
  BY <1>6, <1>7, <1>12, <1>15, <1>16, <1>17, <1>18, <1>19 DEF CutsTo

(* What alloc() may rely on: a node that is busy is used or kept by a      *)
(* group, and by one only.                                                 *)
Shares(e, groups, busy) ==
  /\ Ready(e, groups, busy) /\ Lists(e, groups)
  /\ e.current \in 0 .. groups
  /\ e.used \cap KeptUpto(e, groups) = {}
  /\ busy = e.used \cup KeptUpto(e, groups)

(* v is e with a node of at least that size lent, one that was neither     *)
(* used nor kept by another group.                                         *)
Takes(v, e, groups, busy, size) ==
  /\ Ready(v, groups, busy \cup {v.last})
  /\ Grows(v.node, e.node)
  /\ v.last \in 1 .. Len(v.node) /\ size <= v.node[v.last].size
  /\ v.used = e.used \cup {v.last} /\ v.current = e.current /\ v.last \notin e.used
  /\ \A g \in 1 .. groups :
       /\ Distinct(v.list[g]) /\ Members(v.list[g]) = Members(e.list[g]) \ {v.last}
       /\ g # e.current => v.last \notin Members(e.list[g])
  /\ Blocks(v, e, Current(v, busy \cup {v.last}), Current(e, busy))

(* A group's nodes are nodes of the forest.                                *)
LEMMA KeptMember ==
  ASSUME NEW e, NEW groups, NEW g \in 1 .. groups, NEW x \in Members(e.list[g])
  PROVE  x \in KeptUpto(e, groups)
BY DEF KeptUpto

(* A sequence of nodes grows when it stays as it is.                       *)
LEMMA SameGrows ==
  ASSUME NEW N \in Seq(EagerNode)
  PROVE  Grows(N, N)
<1>1. Len(N) \in Nat
  BY LenProperties
<1>2. QED
  BY <1>1 DEF Grows

(* What grows from the same nodes grows from the nodes.                    *)
LEMMA GrowsChain ==
  ASSUME NEW N, NEW H, Same(H, N), NEW M, Grows(M, H)
  PROVE  Grows(M, N)
<1>1. M \in Seq(EagerNode) /\ Len(N) <= Len(M) /\ Len(H) = Len(N)
  BY DEF Same, Grows
<1>2. ASSUME NEW n \in 1 .. Len(N)
      PROVE  /\ M[n].block = N[n].block /\ M[n].parent = N[n].parent
             /\ M[n].off = N[n].off /\ M[n].size = N[n].size
  <2>1. n \in 1 .. Len(H)
    BY <1>1
  <2>2. /\ M[n].block = H[n].block /\ M[n].parent = H[n].parent
        /\ M[n].off = H[n].off /\ M[n].size = H[n].size
    BY <2>1 DEF Grows
  <2>3. /\ H[n].block = N[n].block /\ H[n].parent = N[n].parent
        /\ H[n].off = N[n].off /\ H[n].size = N[n].size
    BY DEF Same
  <2>4. QED
    BY <2>2, <2>3
<1>3. QED
  BY <1>1, <1>2 DEF Grows

(* What grows from what has grown.                                         *)
LEMMA GrowsOn ==
  ASSUME NEW N, NEW H, Len(N) \in Nat, Len(H) \in Nat, Grows(H, N), NEW M, Grows(M, H)
  PROVE  Grows(M, N)
<1>1. M \in Seq(EagerNode) /\ Len(H) <= Len(M) /\ Len(N) <= Len(H)
  BY DEF Grows
<1>2. Len(M) \in Nat
  BY <1>1, LenProperties
<1>3. Len(N) <= Len(M) /\ \A n \in 1 .. Len(N) : n \in 1 .. Len(H)
  <2> DEFINE a == Len(N)
             b == Len(H)
             c == Len(M)
  <2>1. a \in Nat /\ b \in Nat /\ c \in Nat /\ b <= c /\ a <= b
    BY <1>1, <1>2
  <2> HIDE DEF a, b, c
  <2>2. a <= c /\ \A n \in 1 .. a : n \in 1 .. b
    BY <2>1
  <2>3. QED
    BY <2>2 DEF a, b, c
<1>4. ASSUME NEW n \in 1 .. Len(N)
      PROVE  /\ M[n].block = N[n].block /\ M[n].parent = N[n].parent
             /\ M[n].off = N[n].off /\ M[n].size = N[n].size
  <2>1. n \in 1 .. Len(H)
    BY <1>3
  <2>2. /\ M[n].block = H[n].block /\ M[n].parent = H[n].parent
        /\ M[n].off = H[n].off /\ M[n].size = H[n].size
    BY <2>1 DEF Grows
  <2>3. /\ H[n].block = N[n].block /\ H[n].parent = N[n].parent
        /\ H[n].off = N[n].off /\ H[n].size = N[n].size
    BY DEF Grows
  <2>4. QED
    BY <2>2, <2>3
<1>5. QED
  BY <1>1, <1>3, <1>4 DEF Grows

(* No more nodes: nothing happens to the blocks.                           *)
LEMMA SameBlocks ==
  ASSUME NEW e, NEW v, NEW after, Len(v.node) = Len(e.node), Len(e.node) \in Nat,
         v.total = e.total
  PROVE  Blocks(v, e, after, after)
<1>1. \A c \in 1 .. Len(v.node) : ~(c > Len(e.node))
  <2> DEFINE L == Len(e.node)
  <2>1. Len(v.node) = L /\ L \in Nat
    OBVIOUS
  <2> HIDE DEF L
  <2>2. \A c \in 1 .. L : ~(c > L)
    BY <2>1
  <2>3. QED
    BY <2>1, <2>2 DEF L
<1>2. QED
  BY <1>1 DEF Blocks

(* A group takes back the smallest node it kept that fits.                 *)
LEMMA GroupTakes ==
  ASSUME NEW e, NEW groups, NEW busy, Shares(e, groups, busy), NEW size \in Nat,
         e.current # 0, Eager!Fits(e, e.current, size) # {},
         NEW v, v = Eager!GetFromFreeList(e, e.current, size, FALSE)
  PROVE  Takes(v, e, groups, busy, size)
<1> DEFINE g == e.current
           i == Eager!LowerBound(e, g, size)
           x == e.list[g][i]
           left == Eager!RemoveAt(e.list[g], i)
<1>1. /\ Typed(e, groups) /\ Distinct(e.list[0]) /\ Tree(e.node)
      /\ Forest(e.node, Idle(e), busy, Current(e, busy))
      /\ busy \subseteq 1 .. Len(e.node) /\ Len(e.node) \in Nat
      /\ e.node \in Seq(EagerNode)
  BY LenProperties DEF Shares, Ready, Forest, Tree
<1>2. groups \in Nat /\ g \in 1 .. groups /\ g \in 0 .. groups /\ 0 # g /\ g = e.current
      /\ 0 \in 0 .. groups
  BY <1>1 DEF Shares, Typed
<1>3. Distinct(e.list[g])
  BY <1>2 DEF Shares, Lists
<1>4. /\ i \in 1 .. Len(e.list[g]) /\ x \in Members(e.list[g])
      /\ e.node[x].size >= size
      /\ left \in Seq(Nat) /\ Distinct(left)
      /\ Members(left) = Members(e.list[g]) \ {x}
  <2>1. Lowest(e, groups, g, size, i, x)
    BY <1>1, <1>2, <1>3 DEF Lowest
  <2> HIDE DEF i, x
  <2>2. QED
    BY <2>1, LowestFit
<1>5. x \in KeptUpto(e, groups) /\ x \in busy /\ x \notin e.used /\ x \in 1 .. Len(e.node)
  BY <1>1, <1>2, <1>4, KeptMember DEF Shares
<1> HIDE DEF x, left
<1> DEFINE list == [e.list EXCEPT ![g] = left]
<1>6. v = [e EXCEPT !.list = list, !.used = @ \cup {x}, !.last = x]
  <2>1. v = [[e EXCEPT !.list[g] = left, !.node = @] EXCEPT !.used = @ \cup {x}, !.last = x]
    BY DEF Eager!GetFromFreeList, x, left
  <2>2. [e EXCEPT !.list[g] = left, !.node = @] = [e EXCEPT !.list = list]
    BY <1>1 DEF Typed
  <2>3. [[e EXCEPT !.list = list] EXCEPT !.used = @ \cup {x}, !.last = x]
          = [e EXCEPT !.list = list, !.used = @ \cup {x}, !.last = x]
    BY <1>1 DEF Typed
  <2>4. QED
    BY <2>1, <2>2, <2>3
<1>7. list \in [0 .. groups -> Seq(Nat)]
  BY <1>1, <1>4 DEF Typed
<1>8. list[g] = left /\ \A h \in 0 .. groups : h # g => list[h] = e.list[h]
  BY <1>1, <1>2 DEF Typed
<1> HIDE DEF list, g
<1>9. /\ v.node = e.node /\ v.list = list /\ v.used = e.used \cup {x} /\ v.last = x
      /\ v.current = e.current /\ v.total = e.total /\ Typed(v, groups)
  <2>1. x \in Nat
    BY <1>5
  <2>2. QED
    BY <1>1, <1>6, <1>7, <2>1 DEF Typed
<1>10. v.list[0] = e.list[0] /\ Idle(v) = Idle(e)
  BY <1>2, <1>8, <1>9 DEF Idle
<1>11. busy \cup {x} = busy
  BY <1>5
<1>12. Ready(v, groups, busy \cup {v.last}) /\ Current(v, busy) = Current(e, busy)
  BY <1>1, <1>9, <1>10, <1>11 DEF Ready, Current
<1>13. Grows(v.node, e.node)
  BY <1>1, <1>9, SameGrows
<1>14. ASSUME NEW h \in 1 .. groups
       PROVE  /\ Distinct(v.list[h]) /\ Members(v.list[h]) = Members(e.list[h]) \ {x}
              /\ h # e.current => x \notin Members(e.list[h])
  <2>1. h \in 0 .. groups
    BY <1>2
  <2>2. CASE h = g
    <3>1. Distinct(v.list[g]) /\ Members(v.list[g]) = Members(e.list[g]) \ {x}
      BY <1>4, <1>8, <1>9
    <3>2. QED
      BY <1>2, <2>2, <3>1
  <2>3. CASE h # g
    <3>1. Members(e.list[h]) \cap Members(e.list[g]) = {} /\ Distinct(e.list[h])
      BY <1>2, <2>1, <2>3 DEF Shares, Lists
    <3>2. QED
      BY <1>4, <1>8, <1>9, <2>1, <2>3, <3>1
  <2>4. QED
    BY <2>2, <2>3
<1>15. Blocks(v, e, Current(v, busy \cup {v.last}), Current(e, busy))
  <2>1. Blocks(v, e, Current(e, busy), Current(e, busy))
    BY <1>1, <1>9, SameBlocks
  <2>2. QED
    BY <1>9, <1>11, <1>12, <2>1
<1>16. size <= e.node[x].size
  BY <1>4, <1>5, <1>1, NodeTyped
<1>17. QED
  BY <1>5, <1>9, <1>12, <1>13, <1>14, <1>15, <1>16 DEF Takes

(* held is e with x, idle until now, lent as a whole.                      *)
Lends(held, e, groups, busy, x) ==
  /\ Ready(held, groups, busy \cup {x})
  /\ Same(held.node, e.node)
  /\ held.used = e.used /\ held.current = e.current /\ held.total = e.total
  /\ \A g \in 1 .. groups : held.list[g] = e.list[g]
  /\ Current(held, busy \cup {x}) = Current(e, busy)

Counts(N, p, M) ==
  /\ N \in Seq(EagerNode) /\ (p # 0 => p \in 1 .. Len(N))
  /\ M = IF p # 0 THEN Eager!Raised(N, p) ELSE N

(* A parent, if there is one, counts one half more.                        *)
LEMMA CountedNodes ==
  ASSUME NEW N, NEW p, NEW M, Counts(N, p, M)
  PROVE  /\ M \in Seq(EagerNode) /\ Len(M) = Len(N)
         /\ \A n \in 1 .. Len(N) :
              /\ M[n].block = N[n].block /\ M[n].parent = N[n].parent
              /\ M[n].off = N[n].off /\ M[n].size = N[n].size
              /\ n = p => M[n].use = N[n].use + 1
              /\ n # p => M[n].use = N[n].use
<1>1. N \in Seq(EagerNode) /\ (p # 0 => p \in 1 .. Len(N))
  BY DEF Counts
<1>2. /\ Len(N) \in Nat /\ DOMAIN N = 1 .. Len(N)
      /\ \A n \in 1 .. Len(N) : N[n] \in EagerNode
  BY <1>1, LenProperties, ElementOfSeq
<1>3. CASE p = 0
  <2>1. M = N
    BY <1>3 DEF Counts
  <2>2. \A n \in 1 .. Len(N) : n # p
    BY <1>2, <1>3
  <2>3. QED
    BY <1>1, <2>1, <2>2
<1>4. CASE p # 0
  <2> DEFINE y == N[p]
             z == [y EXCEPT !.use = y.use + 1]
  <2>1. p \in 1 .. Len(N) /\ y \in EagerNode
    BY <1>1, <1>2, <1>4
  <2>2. M = [N EXCEPT ![p] = z]
    BY <1>4 DEF Eager!Raised, Counts
  <2> HIDE DEF y
  <2>3. z \in EagerNode
    BY <2>1, RaisedNode
  <2>4. /\ z.block = y.block /\ z.parent = y.parent /\ z.off = y.off /\ z.size = y.size
        /\ z.use = y.use + 1
    BY <2>1 DEF EagerNode
  <2> HIDE DEF z
  <2>5. M \in [1 .. Len(N) -> EagerNode]
    BY <1>2, <2>2, <2>3
  <2>6. M \in Seq(EagerNode) /\ Len(M) = Len(N)
    BY <1>2, <2>5, Made
  <2>7. \A n \in 1 .. Len(N) : M[n] = IF n = p THEN z ELSE N[n]
    BY <1>2, <2>2
  <2>8. QED
    BY <2>4, <2>6, <2>7 DEF y
<1>5. QED
  BY <1>3, <1>4

TakenOut(held, e, groups, busy, i, x, size, p) ==
  /\ Ready(e, groups, busy) /\ Lowest(e, groups, 0, size, i, x)
  /\ p = e.node[x].parent
  /\ held = [e EXCEPT !.list[0] = Eager!RemoveAt(@, i),
                      !.node = IF p # 0 THEN Eager!Raised(@, p) ELSE @]

(* A node is taken out of the shared list, and its parent counts it.       *)
LEMMA SharedLends ==
  ASSUME NEW e, NEW groups, NEW busy, NEW i, NEW x, NEW size, NEW p, NEW held,
         TakenOut(held, e, groups, busy, i, x, size, p)
  PROVE  Lends(held, e, groups, busy, x)
<1> DEFINE N == e.node
           L == Len(e.node)
           M == IF p # 0 THEN Eager!Raised(N, p) ELSE N
           left == Eager!RemoveAt(e.list[0], i)
           list == [e.list EXCEPT ![0] = left]
<1>1. /\ Typed(e, groups) /\ Distinct(e.list[0]) /\ Tree(N) /\ N \in Seq(EagerNode)
      /\ Forest(N, Idle(e), busy, Current(e, busy))
      /\ Idle(e) \subseteq 1 .. L /\ L \in Nat /\ DOMAIN N = 1 .. L
      /\ groups \in Nat /\ 0 \in 0 .. groups
  <2>1. /\ Typed(e, groups) /\ Distinct(e.list[0])
        /\ Forest(N, Idle(e), busy, Current(e, busy))
    BY DEF Ready, TakenOut
  <2>2. Tree(N) /\ Idle(e) \subseteq 1 .. L
    BY <2>1 DEF Forest
  <2>3. N \in Seq(EagerNode)
    BY <2>2 DEF Tree
  <2>4. L \in Nat /\ DOMAIN N = 1 .. L
    BY <2>3, LenProperties
  <2>5. groups \in Nat /\ 0 \in 0 .. groups
    BY <2>1 DEF Typed
  <2>6. QED
    BY <2>1, <2>2, <2>3, <2>4, <2>5
<1>2. /\ x \in Idle(e) /\ left \in Seq(Nat) /\ Distinct(left)
      /\ Members(left) = Idle(e) \ {x}
  BY LowestFit DEF Idle, TakenOut
<1>3. x \in 1 .. L
  BY <1>1, <1>2
<1>4. N[x].use \in Nat /\ (p # 0 => p \in 1 .. L /\ p # x)
  BY <1>1, <1>3, NodeTyped DEF TakenOut
<1>5. \A n \in 1 .. L : N[n] \in EagerNode
  BY <1>1, ElementOfSeq
<1> HIDE DEF L
<1>6. /\ M \in Seq(EagerNode) /\ Len(M) = L
      /\ \A n \in 1 .. L :
           /\ M[n].block = N[n].block /\ M[n].parent = N[n].parent
           /\ M[n].off = N[n].off /\ M[n].size = N[n].size
           /\ n = p => M[n].use = N[n].use + 1
           /\ n # p => M[n].use = N[n].use
  <2>1. Counts(N, p, M)
    BY <1>1, <1>4 DEF Counts, L
  <2> HIDE DEF M, N
  <2>2. Len(N) = L
    BY DEF L, N
  <2>3. QED
    BY <2>1, <2>2, CountedNodes
<1>7. held = [e EXCEPT !.list = list, !.node = M]
  BY <1>1 DEF Typed, TakenOut
<1>8. /\ list \in [0 .. groups -> Seq(Nat)] /\ list[0] = left
      /\ \A g \in 1 .. groups : list[g] = e.list[g]
  BY <1>1, <1>2 DEF Typed
<1> HIDE DEF list, M
<1>9. /\ held.node = M /\ held.list = list /\ held.used = e.used
      /\ held.current = e.current /\ held.total = e.total /\ Typed(held, groups)
  BY <1>1, <1>6, <1>7, <1>8 DEF Typed
<1>10. Same(M, N)
  <2>1. Len(M) = Len(N)
    BY <1>6 DEF L
  <2>2. QED
    BY <1>6, <2>1 DEF Same, L
<1>11. Forest(M, Idle(e) \ {x}, busy \cup {x}, Current(e, busy))
  <2>1. \A n \in 1 .. Len(N) : M[n].use = N[n].use + (IF n = N[x].parent THEN 1 ELSE 0)
    <3>1. ASSUME NEW n \in 1 .. Len(N)
          PROVE  M[n].use = N[n].use + (IF n = p THEN 1 ELSE 0)
      <4>1. n \in 1 .. L
        BY DEF L
      <4>2. N[n].use \in Nat
        BY <1>1, NodeTyped
      <4> DEFINE a == N[n].use
                 b == M[n].use
      <4>3. a \in Nat /\ (n = p => b = a + 1) /\ (n # p => b = a)
        BY <1>6, <4>1, <4>2
      <4> HIDE DEF a, b
      <4>4. b = a + (IF n = p THEN 1 ELSE 0)
        BY <4>3
      <4>5. QED
        BY <4>4 DEF a, b
    <3>2. p = N[x].parent
      BY DEF TakenOut
    <3>3. QED
      BY <3>1, <3>2
  <2> HIDE DEF N
  <2>2. QED
    BY ONLY <1>1, <1>2, <1>10, <2>1, Lend
<1>12. Idle(held) = Idle(e) \ {x} /\ Distinct(held.list[0])
  BY <1>2, <1>8, <1>9 DEF Idle
<1>13. Current(held, busy \cup {x}) = Current(e, busy)
  <2>1. Current(e, busy) = (Idle(e) \ {x}) \cup (busy \cup {x}) \cup Cut(M)
    BY <1>11 DEF Forest
  <2>2. QED
    BY <1>9, <1>12, <2>1 DEF Current
<1>14. Ready(held, groups, busy \cup {x})
  BY <1>9, <1>11, <1>12, <1>13 DEF Ready
<1>15. QED
  BY <1>8, <1>9, <1>10, <1>13, <1>14 DEF Lends

(* A node that nobody has is lent, whole or its first part.                *)
LEMMA SharedTakes ==
  ASSUME NEW e, NEW groups, NEW busy, Shares(e, groups, busy), NEW size \in Nat,
         Eager!Fits(e, 0, size) # {},
         NEW v, v = Eager!GetFromFreeList(e, 0, size, TRUE)
  PROVE  Takes(v, e, groups, busy, size)
<1> DEFINE i == Eager!LowerBound(e, 0, size)
           x == e.list[0][i]
           p == e.node[x].parent
           part == Eager!RoundUp(size)
           held == [e EXCEPT !.list[0] = Eager!RemoveAt(@, i),
                             !.node = IF p # 0 THEN Eager!Raised(@, p) ELSE @]
           L == Len(e.node)
<1>1. /\ Ready(e, groups, busy) /\ Typed(e, groups) /\ Distinct(e.list[0])
      /\ Forest(e.node, Idle(e), busy, Current(e, busy))
      /\ groups \in Nat /\ 0 \in 0 .. groups
  BY DEF Shares, Ready, Typed
<1>2. /\ Tree(e.node) /\ e.node \in Seq(EagerNode) /\ L \in Nat
      /\ Idle(e) \subseteq 1 .. L /\ Idle(e) \cap busy = {}
  BY <1>1, LenProperties DEF Forest, Tree
<1>3. Lowest(e, groups, 0, size, i, x)
  BY <1>1 DEF Lowest
<1>4. x \in Idle(e) /\ e.node[x].size >= size
  <2> HIDE DEF i, x
  <2>1. QED
    BY <1>3, LowestFit DEF Idle
<1>5. x \in 1 .. L /\ x \notin busy /\ x \in Nat
  BY <1>2, <1>4
<1>6. size <= e.node[x].size /\ e.node[x].size \in Nat
  BY <1>2, <1>4, <1>5, NodeTyped
<1>7. part \in Nat /\ size <= part
  BY RoundUpBounds
<1>8. v = IF part >= e.node[x].size
          THEN [held EXCEPT !.used = @ \cup {x}, !.last = x]
          ELSE Eager!Halve(held, 0, x, part)
  BY DEF Eager!GetFromFreeList, Eager!Root
<1>9. Lends(held, e, groups, busy, x)
  <2>1. TakenOut(held, e, groups, busy, i, x, size, p)
    BY <1>1, <1>3 DEF TakenOut
  <2> HIDE DEF i, x, p, held
  <2>2. QED
    BY <2>1, SharedLends
<1> HIDE DEF i, x, p, held, part
<1>10. /\ Ready(held, groups, busy \cup {x}) /\ Same(held.node, e.node)
       /\ held.used = e.used /\ held.current = e.current /\ held.total = e.total
       /\ Current(held, busy \cup {x}) = Current(e, busy) /\ Typed(held, groups)
       /\ Len(held.node) = L /\ held.node[x].size = e.node[x].size
       /\ \A c \in 1 .. L : held.node[c].parent = e.node[c].parent
  BY <1>5, <1>9 DEF Lends, Ready, Same
<1>11. \A g \in 1 .. groups : held.list[g] = e.list[g]
  BY <1>9 DEF Lends
<1>12. ASSUME NEW h \in 1 .. groups
       PROVE  /\ Distinct(held.list[h]) /\ Members(held.list[h]) = Members(e.list[h])
              /\ \A c : c \notin busy => c \notin Members(e.list[h])
  <2>1. h \in 0 .. groups
    BY <1>1
  <2>2. Distinct(e.list[h])
    BY <2>1 DEF Shares, Lists
  <2>3. Members(e.list[h]) \subseteq busy
    BY KeptMember DEF Shares
  <2>4. QED
    BY <1>11, <2>2, <2>3
<1>13. e.used \subseteq busy
  BY DEF Shares
<1>14. CASE part >= e.node[x].size
  <2>1. v = [held EXCEPT !.used = @ \cup {x}, !.last = x]
    BY <1>8, <1>14
  <2>2. /\ v.node = held.node /\ v.list = held.list /\ v.used = e.used \cup {x} /\ v.last = x
        /\ v.current = e.current /\ v.total = e.total /\ Typed(v, groups)
    <3>1. {x} \subseteq Nat /\ x \in Nat
      BY <1>5
    <3>2. held \in States(groups) /\ held.used \in SUBSET Nat
      BY <1>10 DEF Typed, States
    <3>3. held.used \cup {x} \in SUBSET Nat
      BY <3>1, <3>2
    <3>4. v \in States(groups)
      BY <2>1, <3>1, <3>2, <3>3 DEF States
    <3>5. /\ v.node = held.node /\ v.list = held.list /\ v.used = held.used \cup {x}
          /\ v.last = x /\ v.current = held.current /\ v.total = held.total
      BY <2>1, <3>2 DEF States
    <3>6. QED
      BY <1>1, <1>10, <3>4, <3>5 DEF Typed, States
  <2>3. Idle(v) = Idle(held) /\ Current(v, busy \cup {x}) = Current(held, busy \cup {x})
    BY <2>2 DEF Idle, Current
  <2>4. Ready(v, groups, busy \cup {v.last})
    BY <1>10, <2>2, <2>3 DEF Ready
  <2>5. Grows(v.node, e.node)
    <3>1. Same(held.node, e.node) /\ Len(e.node) <= Len(held.node)
      BY <1>2, <1>10
    <3>2. QED
      BY <2>2, <3>1 DEF Same, Grows
  <2>6. Blocks(v, e, Current(v, busy \cup {v.last}), Current(e, busy))
    <3>1. Len(v.node) = Len(e.node)
      BY <1>10, <2>2
    <3>2. Blocks(v, e, Current(e, busy), Current(e, busy))
      BY <1>2, <2>2, <3>1, SameBlocks
    <3>3. QED
      BY <1>10, <2>2, <2>3, <3>2
  <2>7. v.last \in 1 .. Len(v.node) /\ size <= v.node[v.last].size /\ v.last \notin busy
    BY <1>5, <1>6, <1>10, <2>2
  <2>8. \A h \in 1 .. groups :
          /\ Distinct(v.list[h]) /\ Members(v.list[h]) = Members(e.list[h]) \ {v.last}
          /\ v.last \notin Members(e.list[h])
    BY <1>12, <2>2, <2>7
  <2>9. QED
    BY <1>13, <2>2, <2>4, <2>5, <2>6, <2>7, <2>8 DEF Takes
<1>15. CASE ~(part >= e.node[x].size)
  <2>1. v = Eager!Halve(held, 0, x, part)
    BY <1>8, <1>15
  <2>2. part <= held.node[x].size
    BY <1>6, <1>7, <1>10, <1>15
  <2>3. CutsTo(v, held, groups, busy \cup {x}, x, part)
    <3>1. x \in busy \cup {x}
      OBVIOUS
    <3>2. QED
      BY <1>7, <1>10, <2>1, <2>2, <3>1, HalveCuts
  <2>4. ((busy \cup {x}) \ {x}) \cup {v.last} = busy \cup {v.last}
    BY <1>5
  <2>5. /\ Ready(v, groups, busy \cup {v.last})
        /\ Grows(v.node, held.node) /\ Len(v.node) = L + 2
        /\ v.last = L + 1 /\ v.node[v.last].size = part
        /\ v.node[L + 1].parent = x /\ v.node[L + 2].parent = x
        /\ v.used = e.used \cup {v.last} /\ v.current = e.current /\ v.total = e.total
        /\ \A g \in 1 .. groups : v.list[g] = held.list[g]
        /\ Current(v, busy \cup {v.last}) = Current(e, busy) \cup {L + 1, L + 2}
    BY <1>10, <2>3, <2>4 DEF CutsTo
  <2>6. Grows(v.node, e.node)
    BY <1>10, <2>5, GrowsChain
  <2>7. busy \subseteq 1 .. L
    BY <1>1 DEF Forest
  <2> HIDE DEF L
  <2>8. v.last \in 1 .. Len(v.node) /\ size <= v.node[v.last].size /\ v.last \notin busy
    <3>1. L + 1 \in 1 .. L + 2 /\ L + 1 \notin 1 .. L
      BY <1>2
    <3>2. QED
      BY <1>7, <2>5, <2>7, <3>1
  <2>9. \A h \in 1 .. groups :
          /\ Distinct(v.list[h]) /\ Members(v.list[h]) = Members(e.list[h]) \ {v.last}
          /\ v.last \notin Members(e.list[h])
    BY <1>12, <2>5, <2>8
  <2>10. Blocks(v, e, Current(v, busy \cup {v.last}), Current(e, busy))
    <3>1. L + 1 \notin 1 .. L /\ L + 2 \notin 1 .. L
      BY <1>2
    <3>2. \A c \in 1 .. L : c \in Current(v, busy \cup {v.last}) <=> c \in Current(e, busy)
      BY <2>5, <3>1
    <3>3. \A c \in 1 .. L + 2 : c > L => c = L + 1 \/ c = L + 2
      BY <1>2
    <3>4. L = Len(e.node) /\ x # 0
      BY <1>5 DEF L
    <3>5. QED
      BY <2>5, <3>2, <3>3, <3>4 DEF Blocks
  <2>11. QED
    BY <1>13, <2>5, <2>6, <2>8, <2>9, <2>10 DEF Takes
<1>16. QED
  BY <1>14, <1>15

(* grown is e with a block more, lent as a whole.                          *)
Adds(grown, e, groups, busy, size) ==
  /\ Ready(grown, groups, busy \cup {Len(e.node) + 1})
  /\ Grows(grown.node, e.node) /\ Len(grown.node) = Len(e.node) + 1
  /\ grown.node[Len(e.node) + 1].size = size /\ grown.node[Len(e.node) + 1].parent = 0
  /\ grown.used = e.used /\ grown.current = e.current /\ grown.total = e.total + size
  /\ \A g \in 1 .. groups : grown.list[g] = e.list[g]
  /\ Current(grown, busy \cup {Len(e.node) + 1}) = Current(e, busy) \cup {Len(e.node) + 1}

Appended(N, a, L, M) ==
  N \in Seq(EagerNode) /\ a \in EagerNode /\ L = Len(N) /\ M = Append(N, a)

(* One node more.                                                          *)
LEMMA AppendedNodes ==
  ASSUME NEW N, NEW a, NEW L, NEW M, Appended(N, a, L, M)
  PROVE  /\ M \in Seq(EagerNode) /\ Len(M) = L + 1 /\ M[L + 1] = a /\ L \in Nat
         /\ \A n \in 1 .. L : M[n] = N[n]
         /\ Grows(M, N)
<1>1. N \in Seq(EagerNode) /\ a \in EagerNode /\ L = Len(N) /\ M = Append(N, a)
  BY DEF Appended
<1>2. L \in Nat
  BY <1>1, LenProperties
<1>3. /\ M \in Seq(EagerNode) /\ Len(M) = Len(N) + 1 /\ M[Len(N) + 1] = a
      /\ \A n \in 1 .. Len(N) : M[n] = N[n]
  BY <1>1, AppendProperties
<1>4. L <= Len(M)
  BY <1>1, <1>2, <1>3
<1>5. QED
  BY <1>1, <1>2, <1>3, <1>4 DEF Grows

AddedTo(grown, e, groups, busy, size) ==
  /\ Ready(e, groups, busy) /\ size \in Nat
  /\ grown = [e EXCEPT !.node  = Append(@, Eager!Node(Len(e.node) + 1, 0, size, 0, 0)),
                       !.total = @ + size]

(* A block is added.                                                       *)
LEMMA BlockAdds ==
  ASSUME NEW e, NEW groups, NEW busy, NEW size, NEW grown, AddedTo(grown, e, groups, busy, size)
  PROVE  Adds(grown, e, groups, busy, size)
<1> DEFINE N == e.node
           L == Len(e.node)
           a == Eager!Node(L + 1, 0, size, 0, 0)
           M == Append(N, a)
           lent == busy \cup {L + 1}
<1>1. /\ Typed(e, groups) /\ Distinct(e.list[0])
      /\ Forest(N, Idle(e), busy, Current(e, busy)) /\ size \in Nat
  BY DEF Ready, AddedTo
<1>2. N \in Seq(EagerNode)
  BY <1>1 DEF Forest, Tree
<1>3. L \in Nat /\ L + 1 \in Nat
  BY <1>2, LenProperties
<1>4. a \in EagerNode
  <2> DEFINE l == L + 1
  <2>1. a = Eager!Node(l, 0, size, 0, 0) /\ l \in Nat
    BY <1>3
  <2> HIDE DEF l, a
  <2>2. QED
    BY <1>1, <2>1 DEF EagerNode, Eager!Node
<1>5. grown = [e EXCEPT !.node = M, !.total = @ + size]
  BY DEF AddedTo
<1>6. Appended(N, a, L, M)
  BY <1>2, <1>4 DEF Appended
<1> HIDE DEF M, a
<1>7. /\ M \in Seq(EagerNode) /\ Len(M) = L + 1 /\ M[L + 1] = a
      /\ \A n \in 1 .. L : M[n] = N[n]
      /\ Grows(M, N)
  <2> HIDE DEF N, L
  <2>1. QED
    BY <1>6, AppendedNodes
<1>8. /\ grown.node = M /\ grown.total = e.total + size /\ grown.list = e.list
      /\ grown.used = e.used /\ grown.current = e.current /\ Typed(grown, groups)
  <2>1. e \in States(groups) /\ e.total \in Int /\ groups \in Nat
    BY <1>1 DEF Typed, States
  <2> DEFINE total == e.total + size
  <2>2. total \in Int
    BY <1>1, <2>1
  <2>3. grown = [e EXCEPT !.node = M, !.total = total]
    BY <1>5, <2>1 DEF States
  <2> HIDE DEF total
  <2>4. grown \in States(groups)
    BY <1>7, <2>1, <2>2, <2>3 DEF States
  <2>5. /\ grown.node = M /\ grown.total = total /\ grown.list = e.list
        /\ grown.used = e.used /\ grown.current = e.current
    BY <2>1, <2>3 DEF States
  <2>6. QED
    BY <2>1, <2>4, <2>5 DEF Typed, States, total
<1>9. Forest(M, Idle(e), lent, Current(e, busy) \cup {L + 1})
  <2>1. /\ Len(M) = Len(N) + 1 /\ L = Len(N)
        /\ \A n \in 1 .. Len(N) : M[n].use = N[n].use
        /\ M[Len(N) + 1] = Eager!Node(Len(N) + 1, 0, size, 0, 0)
    BY <1>7 DEF a
  <2> HIDE DEF N, L
  <2>2. Forest(M, Idle(e), busy \cup {Len(N) + 1}, Current(e, busy) \cup {Len(N) + 1})
    BY ONLY <1>1, <1>7, <2>1, AddBlock
  <2>3. QED
    BY <2>1, <2>2
<1>10. Idle(grown) = Idle(e)
  BY <1>8 DEF Idle
<1>11. Current(grown, lent) = Current(e, busy) \cup {L + 1}
  <2>1. Current(e, busy) \cup {L + 1} = Idle(e) \cup lent \cup Cut(M)
    BY <1>9 DEF Forest
  <2> HIDE DEF lent
  <2>2. QED
    BY <1>8, <1>10, <2>1 DEF Current
<1>12. Ready(grown, groups, lent)
  BY <1>1, <1>8, <1>9, <1>10, <1>11 DEF Ready
<1>13. M[L + 1].size = size /\ M[L + 1].parent = 0
  BY <1>7 DEF a, Eager!Node
<1>14. QED
  BY <1>7, <1>8, <1>11, <1>12, <1>13 DEF Adds

(* A block is lent, whole or its first part.                               *)
LEMMA BlockTakes ==
  ASSUME NEW e, NEW groups, NEW busy, Shares(e, groups, busy), NEW size \in Nat,
         NEW min \in Nat, min % Align = 0, e.current # 0 => min = 0,
         NEW v, v = Eager!NewBlock(e, size, min)
  PROVE  Takes(v, e, groups, busy, size)
<1> DEFINE L == Len(e.node)
           block == L + 1
           claim == IF size > min THEN size ELSE min
           part == Eager!RoundUp(size)
           grown == [e EXCEPT !.node  = Append(@, Eager!Node(L + 1, 0, claim, 0, 0)),
                              !.total = @ + claim]
<1>1. Ready(e, groups, busy) /\ e.used \subseteq busy
  BY DEF Shares
<1>2. busy \subseteq 1 .. L /\ e.node \in Seq(EagerNode) /\ groups \in Nat
  BY <1>1 DEF Ready, Forest, Tree, Typed
<1>3. L \in Nat
  BY <1>2, LenProperties
<1>4. claim \in Nat /\ size <= claim
  OBVIOUS
<1>5. part \in Nat /\ size <= part /\ (size < min => part <= min)
  BY RoundUpBounds
<1>6. v = IF claim > size THEN Eager!Halve(grown, e.current, block, part)
          ELSE [grown EXCEPT !.used = @ \cup {block}, !.last = block]
  <2>1. grown.current = e.current
    BY <1>1 DEF Ready, Typed
  <2>2. QED
    BY <2>1 DEF Eager!NewBlock, Eager!Root
<1>7. Adds(grown, e, groups, busy, claim)
  <2>1. AddedTo(grown, e, groups, busy, claim)
    BY <1>1, <1>4 DEF AddedTo
  <2> HIDE DEF claim, grown
  <2>2. QED
    BY <2>1, BlockAdds
<1> HIDE DEF grown, part
<1>8. /\ Ready(grown, groups, busy \cup {block}) /\ Typed(grown, groups)
      /\ Grows(grown.node, e.node) /\ Len(grown.node) = L + 1
      /\ grown.node[block].size = claim /\ grown.node[block].parent = 0
      /\ grown.used = e.used /\ grown.current = e.current /\ grown.total = e.total + claim
      /\ \A g \in 1 .. groups : grown.list[g] = e.list[g]
      /\ Current(grown, busy \cup {block}) = Current(e, busy) \cup {block}
  BY <1>7 DEF Adds, Ready
<1> HIDE DEF claim
<1>9. ASSUME NEW h \in 1 .. groups
      PROVE  /\ Distinct(e.list[h])
             /\ \A c : c \notin busy => c \notin Members(e.list[h])
  <2>1. h \in 0 .. groups
    BY <1>2
  <2>2. Distinct(e.list[h])
    BY <2>1 DEF Shares, Lists
  <2>3. Members(e.list[h]) \subseteq busy
    BY KeptMember DEF Shares
  <2>4. QED
    BY <2>2, <2>3
<1>10. block \notin busy /\ block \in Nat /\ block \in 1 .. L + 1
       /\ \A c \in 1 .. L : c # block /\ c \in 1 .. L + 1
  BY <1>2, <1>3
<1>11. CASE ~(claim > size)
  <2>1. v = [grown EXCEPT !.used = @ \cup {block}, !.last = block]
    BY <1>6, <1>11
  <2>2. /\ v.node = grown.node /\ v.list = grown.list /\ v.used = e.used \cup {block}
        /\ v.last = block /\ v.current = e.current /\ v.total = e.total + claim
        /\ Typed(v, groups)
    <3>1. {block} \subseteq Nat
      BY <1>10
    <3>2. grown \in States(groups) /\ grown.used \in SUBSET Nat
      BY <1>8 DEF Typed, States
    <3>3. grown.used \cup {block} \in SUBSET Nat
      BY <3>1, <3>2
    <3> HIDE DEF block
    <3>4. v \in States(groups)
      BY <1>10, <2>1, <3>2, <3>3 DEF States
    <3>5. /\ v.node = grown.node /\ v.list = grown.list /\ v.used = grown.used \cup {block}
          /\ v.last = block /\ v.current = grown.current /\ v.total = grown.total
      BY <2>1, <3>2 DEF States
    <3>6. QED
      BY <1>2, <1>8, <3>4, <3>5 DEF Typed, States
  <2>3. Idle(v) = Idle(grown) /\ Current(v, busy \cup {block}) = Current(grown, busy \cup {block})
    BY <2>2 DEF Idle, Current
  <2>4. Ready(v, groups, busy \cup {v.last})
    BY <1>8, <2>2, <2>3 DEF Ready
  <2>5. v.last \in 1 .. Len(v.node) /\ size <= v.node[v.last].size /\ v.last \notin busy
    BY <1>4, <1>8, <1>10, <2>2
  <2> HIDE DEF block
  <2>6. \A h \in 1 .. groups :
          /\ Distinct(v.list[h]) /\ Members(v.list[h]) = Members(e.list[h]) \ {v.last}
          /\ v.last \notin Members(e.list[h])
    BY <1>8, <1>9, <2>2, <2>5
  <2>7. Blocks(v, e, Current(v, busy \cup {v.last}), Current(e, busy))
    <3>1. \A c \in 1 .. L : c \in Current(v, busy \cup {v.last}) <=> c \in Current(e, busy)
      BY <1>8, <1>10, <2>2, <2>3
    <3>2. \A c \in 1 .. Len(v.node) : ~(c > L + 1)
      BY <1>3, <1>8, <2>2
    <3>3. /\ L + 1 \in Current(v, busy \cup {v.last}) /\ v.node[L + 1].parent = 0
          /\ v.total = e.total + v.node[L + 1].size
      BY <1>8, <2>2, <2>3 DEF block
    <3>4. QED
      BY <3>1, <3>2, <3>3 DEF Blocks
  <2>8. QED
    BY <1>1, <1>8, <2>2, <2>4, <2>5, <2>6, <2>7 DEF Takes
<1>12. CASE claim > size
  <2>1. size < min /\ claim = min
    BY <1>12 DEF claim
  <2>2. e.current = 0
    BY <2>1
  <2>3. v = Eager!Halve(grown, 0, block, part)
    BY <1>6, <1>12, <2>2
  <2>4. part <= grown.node[block].size
    BY <1>5, <1>8, <2>1
  <2>5. CutsTo(v, grown, groups, busy \cup {block}, block, part)
    <3>1. block \in busy \cup {block}
      OBVIOUS
    <3> HIDE DEF block
    <3>2. QED
      BY <1>5, <1>8, <2>3, <2>4, <3>1, HalveCuts
  <2>6. ((busy \cup {block}) \ {block}) \cup {v.last} = busy \cup {v.last}
    BY <1>10
  <2>7. /\ Ready(v, groups, busy \cup {v.last})
        /\ Grows(v.node, grown.node) /\ Len(v.node) = (L + 1) + 2
        /\ v.last = (L + 1) + 1 /\ v.node[v.last].size = part
        /\ v.node[(L + 1) + 1].parent = block /\ v.node[(L + 1) + 2].parent = block
        /\ v.used = e.used \cup {v.last} /\ v.current = e.current /\ v.total = e.total + claim
        /\ \A g \in 1 .. groups : v.list[g] = grown.list[g]
        /\ Current(v, busy \cup {v.last})
             = (Current(e, busy) \cup {block}) \cup {(L + 1) + 1, (L + 1) + 2}
    BY <1>8, <2>5, <2>6 DEF CutsTo
  <2>8. /\ (L + 1) + 1 = L + 2 /\ (L + 1) + 2 = L + 3
        /\ L + 1 \in 1 .. L + 3 /\ L + 2 \in 1 .. L + 3 /\ L + 2 \notin 1 .. L
        /\ \A c \in 1 .. L : c # L + 2 /\ c # L + 3 /\ c \in 1 .. L + 1
        /\ \A c \in 1 .. L + 3 : c > L + 1 => c = L + 2 \/ c = L + 3
        /\ L + 1 # 0 /\ L + 1 \in 1 .. L + 1
    <3> HIDE DEF L
    <3>1. QED
      BY <1>3
  <2>9. Len(v.node) = L + 3 /\ v.last = L + 2
    BY <2>7, <2>8
  <2>10. Grows(v.node, e.node)
    BY <1>8, <2>7, GrowsOn
  <2>11. v.last \in 1 .. Len(v.node) /\ size <= v.node[v.last].size /\ v.last \notin busy
    <3>1. v.last \in 1 .. Len(v.node) /\ v.last \notin busy
      BY <1>2, <2>8, <2>9
    <3>2. QED
      BY <1>5, <2>7, <3>1
  <2>12. \A h \in 1 .. groups :
           /\ Distinct(v.list[h]) /\ Members(v.list[h]) = Members(e.list[h]) \ {v.last}
           /\ v.last \notin Members(e.list[h])
    <3>1. \A h \in 1 .. groups : v.list[h] = e.list[h]
      BY <1>8, <2>7
    <3>2. QED
      BY <1>9, <2>11, <3>1
  <2>13. Blocks(v, e, Current(v, busy \cup {v.last}), Current(e, busy))
    <3>1. \A c \in 1 .. L : c \in Current(v, busy \cup {v.last}) <=> c \in Current(e, busy)
      BY <1>10, <2>7, <2>8
    <3>2. v.node[L + 2].parent # 0 /\ v.node[L + 3].parent # 0
      BY <2>7, <2>8
    <3>3. v.node[L + 1].parent = 0 /\ v.node[L + 1].size = claim
      BY <1>8, <2>7, <2>8 DEF Grows
    <3>4. L + 1 \in Current(v, busy \cup {v.last})
      BY <2>7
    <3>5. \A c \in 1 .. Len(v.node) : c > L + 1 => v.node[c].parent # 0
      BY <2>8, <2>9, <3>2
    <3>6. v.total = e.total + v.node[L + 1].size
      BY <2>7, <3>3
    <3>7. QED
      BY <3>1, <3>3, <3>4, <3>5, <3>6 DEF Blocks
  <2>14. QED
    BY <1>1, <2>7, <2>10, <2>11, <2>12, <2>13 DEF Takes
<1>13. QED
  BY <1>11, <1>12

(* alloc(), wherever the memory comes from.                                *)
LEMMA AllocTakes ==
  ASSUME NEW e, NEW groups, NEW busy, Shares(e, groups, busy), NEW size \in Nat,
         NEW min \in Nat, min % Align = 0, e.current # 0 => min = 0, NEW separate
  PROVE  Takes(Eager!Alloc(e, size, separate, min), e, groups, busy, size)
<1>1. CASE ~separate /\ e.current # Eager!Shared /\ Eager!Fits(e, e.current, size) # {}
  <2>1. e.current # 0
    BY <1>1 DEF Eager!Shared
  <2>2. Eager!Alloc(e, size, separate, min) = Eager!GetFromFreeList(e, e.current, size, FALSE)
    BY <1>1 DEF Eager!Alloc
  <2>3. QED
    BY <1>1, <2>1, <2>2, GroupTakes
<1>2. CASE /\ ~(~separate /\ e.current # Eager!Shared /\ Eager!Fits(e, e.current, size) # {})
           /\ ~separate /\ Eager!Fits(e, Eager!Shared, size) # {}
  <2>1. Eager!Alloc(e, size, separate, min) = Eager!GetFromFreeList(e, 0, size, TRUE)
    BY <1>2 DEF Eager!Alloc, Eager!Shared
  <2>2. Eager!Fits(e, 0, size) # {}
    BY <1>2 DEF Eager!Shared
  <2>3. QED
    BY <2>1, <2>2, SharedTakes
<1>3. CASE /\ ~(~separate /\ e.current # Eager!Shared /\ Eager!Fits(e, e.current, size) # {})
           /\ ~(~separate /\ Eager!Fits(e, Eager!Shared, size) # {})
  <2>1. Eager!Alloc(e, size, separate, min) = Eager!NewBlock(e, size, min)
    BY <1>3 DEF Eager!Alloc
  <2>2. QED
    BY <2>1, BlockTakes
<1>4. QED
  BY <1>1, <1>2, <1>3

(* Sums of sizes.                                                          *)

Sums(g, K, a, add) ==
  g \in [0 .. K -> Int] /\ g[0] = a /\ \A k \in 1 .. K : g[k] = g[k - 1] + add[k]

(* A running sum.                                                          *)
LEMMA RunningSum ==
  ASSUME NEW K \in Nat, NEW a \in Int, NEW add, add \in [1 .. K -> Int]
  PROVE  \E g : Sums(g, K, a, add)
<1> DEFINE from == Before(K)
           step == [p \in (1 .. K) \X Int |-> p[2] + add[p[1]]]
           fine == (0 .. K) \X Int
<1>1. Descends(from, K) /\ \A n \in 1 .. K : from[n] = n - 1
  BY BeforeDescends
<1> HIDE DEF from
<1>2. ASSUME NEW k \in 1 .. K, NEW v, << from[k], v >> \in fine
      PROVE  step[<< k, v >>] = v + add[k] /\ << k, step[<< k, v >>] >> \in fine
  <2>1. v \in Int /\ << k, v >> \in (1 .. K) \X Int
    BY <1>2
  <2>2. step[<< k, v >>] = v + add[k]
    BY <2>1
  <2>3. add[k] \in Int
    OBVIOUS
  <2> DEFINE x == add[k]
  <2>4. v + x \in Int
    BY <2>1, <2>3
  <2>5. k \in 0 .. K
    OBVIOUS
  <2>6. QED
    BY <2>2, <2>4, <2>5
<1>3. << 0, a >> \in fine
  OBVIOUS
<1> HIDE DEF step
<1>4. Builds(step, fine, from, K)
  BY <1>2 DEF Builds
<1>5. PICK g : Solves(g, K, a, step, fine, from)
  <2> HIDE DEF fine
  <2>1. QED
    BY <1>1, <1>3, <1>4, Recursion
<1>6. \A k \in 0 .. K : g[k] \in Int
  <2>1. \A k \in 0 .. K : << k, g[k] >> \in fine
    BY <1>5 DEF Solves
  <2>2. QED
    BY <2>1
<1>7. g = [k \in 0 .. K |-> g[k]] /\ g[0] = a
  BY <1>5 DEF Solves
<1>8. g \in [0 .. K -> Int]
  BY <1>6, <1>7
<1>9. ASSUME NEW k \in 1 .. K
      PROVE  g[k] = g[k - 1] + add[k]
  <2>1. from[k] = k - 1 /\ k - 1 \in 0 .. K
    BY <1>1
  <2>2. << from[k], g[k - 1] >> \in fine /\ g[k] = step[<< k, g[k - 1] >>]
    BY <1>5, <2>1 DEF Solves
  <2>3. QED
    BY <1>2, <2>2
<1>10. QED
  BY <1>7, <1>8, <1>9 DEF Sums

Matches(K, f, g) ==
  f[0] = g[0] /\ \A k \in 1 .. K : f[k - 1] = g[k - 1] => f[k] = g[k]

(* What begins equal and goes on equal is equal.                           *)
LEMMA GoesOnEqual ==
  ASSUME NEW K \in Nat, NEW f, NEW g, Matches(K, f, g)
  PROVE  \A k \in 0 .. K : f[k] = g[k]
<1> DEFINE good == {k \in 0 .. K : f[k] = g[k]}
           from == Before(K)
<1>1. Descends(from, K) /\ \A n \in 1 .. K : from[n] = n - 1
  BY BeforeDescends
<1> HIDE DEF from
<1>2. Inherited(good, from, K)
  <2>1. 0 \in good
    BY DEF Matches
  <2>2. ASSUME NEW k \in 1 .. K, from[k] \in good
        PROVE  k \in good
    <3>1. f[k - 1] = g[k - 1] /\ k \in 0 .. K
      BY <1>1, <2>2
    <3>2. QED
      BY <3>1 DEF Matches
  <2> HIDE DEF good
  <2>3. QED
    BY <2>1, <2>2 DEF Inherited
<1> HIDE DEF good
<1>3. \A k \in 0 .. K : k \in good
  BY <1>1, <1>2, Induction
<1>4. QED
  BY <1>3 DEF good

(* The sizes of some nodes.                                                *)
Weight(N, some, n) == IF n \in some THEN N[n].size ELSE 0
IsWeighed(f, N, some) ==
  /\ f \in [0 .. Len(N) -> Int] /\ f[0] = 0
  /\ \A n \in 1 .. Len(N) : f[n] = f[n - 1] + Weight(N, some, n)
Total(N, some) == (CHOOSE f : IsWeighed(f, N, some))[Len(N)]

(* They add up.                                                            *)
LEMMA Weighed ==
  ASSUME NEW N \in Seq(EagerNode), NEW some
  PROVE  /\ \A n \in 1 .. Len(N) : Weight(N, some, n) \in Int
         /\ \E f : IsWeighed(f, N, some) /\ Total(N, some) = f[Len(N)]
         /\ Total(N, some) \in Int /\ Len(N) \in Nat
<1> DEFINE L == Len(N)
           add == [n \in 1 .. L |-> Weight(N, some, n)]
<1>1. L \in Nat
  BY LenProperties
<1>2. \A n \in 1 .. L : Weight(N, some, n) \in Int
  <2>1. ASSUME NEW n \in 1 .. L
        PROVE  Weight(N, some, n) \in Int
    <3>1. N[n] \in EagerNode
      BY ElementOfSeq
    <3>2. N[n].size \in Int
      BY <3>1 DEF EagerNode
    <3>3. QED
      BY <3>2 DEF Weight
  <2>2. QED
    BY <2>1
<1> HIDE DEF L
<1>3. add \in [1 .. L -> Int]
  BY <1>2
<1>4. PICK g : Sums(g, L, 0, add)
  <2> HIDE DEF add
  <2>1. QED
    BY <1>1, <1>3, RunningSum
<1>5. IsWeighed(g, N, some)
  BY <1>4 DEF IsWeighed, L, Sums
<1> DEFINE f == CHOOSE f : IsWeighed(f, N, some)
<1>6. IsWeighed(f, N, some)
  BY <1>5
<1>7. Total(N, some) = f[L]
  BY DEF Total, L
<1> HIDE DEF f
<1>8. f[L] \in Int
  <2>1. L \in 0 .. L
    BY <1>1
  <2>2. QED
    BY <1>6, <2>1 DEF IsWeighed, L
<1>9. QED
  BY <1>1, <1>2, <1>6, <1>7, <1>8 DEF L

Extends(M, R, N, S) ==
  /\ N \in Seq(EagerNode) /\ Grows(M, N)
  /\ \A n \in 1 .. Len(M) : n \in R => n \in 1 .. Len(N)
  /\ \A n \in 1 .. Len(N) : n \in R <=> n \in S

(* More nodes, none of them counted, have the same total.                  *)
LEMMA TotalExtends ==
  ASSUME NEW N, NEW S, NEW M, NEW R, Extends(M, R, N, S)
  PROVE  Total(M, R) = Total(N, S)
<1> DEFINE L == Len(N)
           K == Len(M)
<1>1. M \in Seq(EagerNode) /\ N \in Seq(EagerNode) /\ L <= K
  BY DEF Extends, Grows
<1>2. PICK f : IsWeighed(f, M, R) /\ Total(M, R) = f[K]
  BY <1>1, Weighed
<1>3. PICK g : IsWeighed(g, N, S) /\ Total(N, S) = g[L]
  BY <1>1, Weighed
<1>4. /\ L \in Nat /\ K \in Nat
      /\ \A n \in 1 .. L : Weight(N, S, n) \in Int
      /\ \A n \in 1 .. K : Weight(M, R, n) \in Int
  BY <1>1, Weighed
<1>5. \A n \in 1 .. L : Weight(M, R, n) = Weight(N, S, n)
  BY DEF Extends, Grows, Weight
<1>6. \A n \in 1 .. K : n \notin 1 .. L => Weight(M, R, n) = 0
  BY DEF Extends, Weight
<1>7. f[0] = 0 /\ f \in [0 .. K -> Int] /\ \A n \in 1 .. K : f[n] = f[n - 1] + Weight(M, R, n)
  BY <1>2 DEF IsWeighed
<1>8. g[0] = 0 /\ g \in [0 .. L -> Int] /\ \A n \in 1 .. L : g[n] = g[n - 1] + Weight(N, S, n)
  BY <1>3 DEF IsWeighed
<1> HIDE DEF L, K
<1> DEFINE h == [n \in 0 .. K |-> IF n <= L THEN g[n] ELSE g[L]]
<1>9. f[0] = h[0]
  BY <1>4, <1>7, <1>8
<1>10. ASSUME NEW n \in 1 .. K, f[n - 1] = h[n - 1]
       PROVE  f[n] = h[n]
  <2>1. n - 1 \in 0 .. K /\ n \in 0 .. K /\ f[n] = f[n - 1] + Weight(M, R, n)
    BY <1>4, <1>7
  <2>2. CASE n <= L
    <3>1. n \in 1 .. L /\ n - 1 <= L
      BY <1>4, <2>2
    <3>2. h[n] = g[n] /\ h[n - 1] = g[n - 1]
      BY <2>1, <2>2, <3>1
    <3> HIDE DEF h
    <3>3. g[n] = g[n - 1] + Weight(M, R, n)
      BY <1>5, <1>8, <3>1
    <3>4. QED
      BY <1>10, <2>1, <3>2, <3>3
  <2>3. CASE ~(n <= L)
    <3>1. n \notin 1 .. L /\ L \in 0 .. K
      BY <1>1, <1>4, <2>3 DEF L, K
    <3>2. Weight(M, R, n) = 0
      BY <1>6, <3>1
    <3>3. h[n] = g[L]
      BY <2>1, <2>3
    <3>4. h[n - 1] = g[L]
      <4>1. n - 1 <= L => n - 1 = L
        BY <1>4, <2>3
      <4>2. QED
        BY <2>1, <4>1
    <3>5. g[L] \in Int
      <4>1. L \in 0 .. L
        BY <1>4
      <4>2. QED
        BY <1>8, <4>1
    <3>6. QED
      BY <1>10, <2>1, <3>2, <3>3, <3>4, <3>5
  <2>4. QED
    BY <2>2, <2>3
<1> HIDE DEF h
<1>11. \A n \in 0 .. K : f[n] = h[n]
  <2>1. Matches(K, f, h)
    BY <1>9, <1>10 DEF Matches
  <2>2. QED
    BY <1>4, <2>1, GoesOnEqual
<1>12. h[K] = g[L]
  <2>1. K \in 0 .. K /\ (K <= L => K = L)
    BY <1>1, <1>4 DEF L, K
  <2>2. QED
    BY <2>1 DEF h
<1>13. QED
  <2>1. K \in 0 .. K
    BY <1>4
  <2>2. QED
    BY <1>2, <1>3, <1>11, <1>12, <2>1

(* One node more is counted.                                               *)
LEMMA TotalPlus ==
  ASSUME NEW N \in Seq(EagerNode), NEW S, NEW x \in 1 .. Len(N), x \notin S
  PROVE  Total(N, S \cup {x}) = Total(N, S) + N[x].size
<1> DEFINE L == Len(N)
           R == S \cup {x}
           s == N[x].size
<1>1. PICK f : IsWeighed(f, N, R) /\ Total(N, R) = f[L]
  BY Weighed
<1>2. PICK g : IsWeighed(g, N, S) /\ Total(N, S) = g[L]
  BY Weighed
<1>3. L \in Nat /\ x \in 1 .. L
  BY LenProperties
<1>4. s \in Int
  <2>1. N[x] \in EagerNode
    BY ElementOfSeq
  <2>2. QED
    BY <2>1 DEF EagerNode
<1>5. \A n \in 1 .. L : n # x => Weight(N, R, n) = Weight(N, S, n)
  BY DEF Weight
<1>6. Weight(N, R, x) = s /\ Weight(N, S, x) = 0
  BY DEF Weight
<1>7. f[0] = 0 /\ f \in [0 .. L -> Int] /\ \A n \in 1 .. L : f[n] = f[n - 1] + Weight(N, R, n)
  BY <1>1 DEF IsWeighed
<1>8. g[0] = 0 /\ g \in [0 .. L -> Int] /\ \A n \in 1 .. L : g[n] = g[n - 1] + Weight(N, S, n)
  BY <1>2 DEF IsWeighed
<1>9. \A n \in 1 .. L : Weight(N, S, n) \in Int
  BY Weighed
<1> HIDE DEF L, R, s
<1> DEFINE h == [n \in 0 .. L |-> IF n < x THEN g[n] ELSE g[n] + s]
<1>10. f[0] = h[0]
  BY <1>3, <1>7, <1>8
<1>11. ASSUME NEW n \in 1 .. L, f[n - 1] = h[n - 1]
       PROVE  f[n] = h[n]
  <2>1. /\ n - 1 \in 0 .. L /\ n \in 0 .. L
        /\ f[n] = f[n - 1] + Weight(N, R, n) /\ g[n] = g[n - 1] + Weight(N, S, n)
        /\ g[n - 1] \in Int /\ Weight(N, S, n) \in Int
    <3>1. n - 1 \in 0 .. L /\ n \in 0 .. L
      BY <1>3
    <3>2. QED
      BY <1>7, <1>8, <1>9, <3>1
  <2>2. /\ h[n] = IF n < x THEN g[n] ELSE g[n] + s
        /\ h[n - 1] = IF n - 1 < x THEN g[n - 1] ELSE g[n - 1] + s
    BY <2>1
  <2> HIDE DEF h
  <2> DEFINE a == g[n - 1]
             w == Weight(N, S, n)
  <2>3. a \in Int /\ w \in Int /\ g[n] = a + w
    BY <2>1
  <2>4. CASE n < x
    <3>1. n # x /\ n - 1 < x
      BY <1>3, <2>4
    <3>2. Weight(N, R, n) = w
      BY <1>5, <3>1
    <3>3. QED
      BY <1>11, <2>1, <2>2, <2>4, <3>1, <3>2
  <2>5. CASE n = x
    <3>1. n - 1 < x /\ ~(n < x)
      BY <1>3, <2>5
    <3>2. Weight(N, R, n) = s /\ w = 0
      BY <1>6, <2>5
    <3>3. f[n] = a + s /\ h[n] = a + w + s
      BY <1>11, <2>1, <2>2, <2>3, <3>1, <3>2
    <3> HIDE DEF a, w
    <3>4. QED
      BY <1>4, <2>3, <3>2, <3>3
  <2>6. CASE n > x
    <3>1. n # x /\ ~(n - 1 < x) /\ ~(n < x)
      BY <1>3, <2>6
    <3>2. Weight(N, R, n) = w
      BY <1>5, <3>1
    <3>3. f[n] = a + s + w /\ h[n] = a + w + s
      BY <1>11, <2>1, <2>2, <2>3, <3>1, <3>2
    <3> HIDE DEF a, w
    <3>4. QED
      BY <1>4, <2>3, <3>3
  <2>7. QED
    BY <1>3, <2>4, <2>5, <2>6
<1>12. \A n \in 0 .. L : f[n] = h[n]
  <2> HIDE DEF h
  <2>1. QED
    <3>1. Matches(L, f, h)
      BY <1>10, <1>11 DEF Matches
    <3>2. QED
      BY <1>3, <3>1, GoesOnEqual
<1>13. L \in 0 .. L /\ ~(L < x)
  BY <1>3
<1>14. h[L] = g[L] + s
  BY <1>13
<1>15. f[L] = g[L] + s
  BY <1>12, <1>13, <1>14
<1>16. QED
  BY <1>1, <1>2, <1>15 DEF R, s

(* Nothing weighs nothing.                                                 *)
LEMMA TotalNone ==
  ASSUME NEW N \in Seq(EagerNode)
  PROVE  Total(N, {}) = 0
<1> DEFINE L == Len(N)
           h == [n \in 0 .. L |-> 0]
<1>1. PICK f : IsWeighed(f, N, {}) /\ Total(N, {}) = f[L]
  BY Weighed
<1>2. L \in Nat
  BY LenProperties
<1>3. f[0] = 0 /\ \A n \in 1 .. L : f[n] = f[n - 1] + 0
  BY <1>1 DEF IsWeighed, Weight
<1> HIDE DEF L
<1>4. \A n \in 0 .. L : f[n] = h[n]
  <2>1. f[0] = h[0]
    BY <1>2, <1>3
  <2>2. ASSUME NEW n \in 1 .. L, f[n - 1] = h[n - 1]
        PROVE  f[n] = h[n]
    <3>1. n - 1 \in 0 .. L /\ n \in 0 .. L
      BY <1>2
    <3>2. QED
      BY <1>3, <2>2, <3>1
  <2> HIDE DEF h
  <2>3. QED
    <3>1. Matches(L, f, h)
      BY <2>1, <2>2 DEF Matches
    <3>2. QED
      BY <1>2, <3>1, GoesOnEqual
<1>5. L \in 0 .. L
  BY <1>2
<1>6. QED
  BY <1>1, <1>4, <1>5

(* The sum over a list of distinct nodes is the total of its nodes.        *)
LEMMA SumOfList ==
  ASSUME NEW s \in Seq(Nat), Distinct(s), eager.node \in Seq(EagerNode),
         Members(s) \subseteq 1 .. Len(eager.node)
  PROVE  Sum(s) = Total(eager.node, Members(s))
<1> DEFINE N == eager.node
           K == Len(s)
           h == [k \in 0 .. K |-> Total(N, Upto(s, k))]
           Is(f) == f = [k \in 0 .. K |-> IF k = 0 THEN 0 ELSE f[k - 1] + N[s[k]].size]
           back == CHOOSE f : Is(f)
<1>1. K \in Nat /\ DOMAIN s = 1 .. K
  BY LenProperties
<1>2. Sum(s) = back[K]
  BY DEF Sum
<1>3. h[0] = 0
  <2>1. Upto(s, 0) = {} /\ 0 \in 0 .. K
    BY <1>1 DEF Upto
  <2>2. QED
    BY <2>1, TotalNone
<1>4. ASSUME NEW k \in 1 .. K
      PROVE  h[k] = h[k - 1] + N[s[k]].size /\ k - 1 \in 0 .. K /\ k \in 0 .. K
  <2>1. /\ Upto(s, k) = Upto(s, k - 1) \cup {s[k]}
        /\ s[k] \notin Upto(s, k - 1) /\ s[k] \in Members(s)
    BY UptoNext
  <2>2. s[k] \in 1 .. Len(N)
    BY <2>1
  <2>3. Total(N, Upto(s, k)) = Total(N, Upto(s, k - 1)) + N[s[k]].size
    BY <2>1, <2>2, TotalPlus
  <2>4. k - 1 \in 0 .. K /\ k \in 0 .. K
    BY <1>1
  <2>5. QED
    BY <2>3, <2>4
<1>5. DOMAIN h = 0 .. K /\ h = [k \in 0 .. K |-> h[k]]
  OBVIOUS
<1> HIDE DEF h
<1>6. Is(h)
  <2>1. ASSUME NEW k \in 0 .. K
        PROVE  h[k] = IF k = 0 THEN 0 ELSE h[k - 1] + N[s[k]].size
    <3>1. k = 0 \/ k \in 1 .. K
      BY <1>1
    <3>2. QED
      BY <1>3, <1>4, <3>1
  <2>2. QED
    BY <1>5, <2>1
<1>7. Is(back)
  BY <1>6
<1> HIDE DEF back
<1>8. ASSUME NEW k \in 0 .. K
      PROVE  back[k] = IF k = 0 THEN 0 ELSE back[k - 1] + N[s[k]].size
  BY <1>7
<1> HIDE DEF Is
<1>9. Matches(K, back, h)
  <2>1. back[0] = h[0]
    <3>1. 0 \in 0 .. K
      BY <1>1
    <3>2. QED
      BY <1>3, <1>8, <3>1
  <2>2. ASSUME NEW k \in 1 .. K, back[k - 1] = h[k - 1]
        PROVE  back[k] = h[k]
    <3>1. k # 0 /\ k \in 0 .. K
      BY <1>1
    <3>2. back[k] = back[k - 1] + N[s[k]].size
      BY <1>8, <3>1
    <3>3. QED
      BY <1>4, <2>2, <3>2
  <2>3. QED
    BY <2>1, <2>2 DEF Matches
<1>10. back[K] = h[K]
  <2>1. \A k \in 0 .. K : back[k] = h[k]
    BY <1>1, <1>9, GoesOnEqual
  <2>2. K \in 0 .. K
    BY <1>1
  <2>3. QED
    BY <2>1, <2>2
<1>11. h[K] = Total(N, Members(s))
  <2>1. Upto(s, K) = Members(s) /\ K \in 0 .. K
    BY <1>1 DEF Upto, Members
  <2>2. QED
    BY <2>1 DEF h
<1>12. QED
  BY <1>2, <1>10, <1>11

BlocksOf(e) == {n \in DOMAIN e.node : e.node[n].parent = 0}

Collectable(e, groups) ==
  /\ Typed(e, groups) /\ Distinct(e.list[0])
  /\ Idle(e) \subseteq 1 .. Len(e.node)

Collected(e) ==
  [e EXCEPT !.list[0] = Eager!Without(@, BlocksOf(e)),
            !.total = e.total - Total(e.node, Idle(e) \cap BlocksOf(e))]

(* The total onGabageCollect leaves.                                       *)
LEMMA CollectTotal ==
  ASSUME NEW e, NEW groups, Collectable(e, groups)
  PROVE  Eager!Collect(e) = Collected(e)
<1> DEFINE N == e.node
           blocks == BlocksOf(e)
           s == e.list[0]
           K == Len(s)
           Part(k) == Upto(s, k) \cap blocks
           h == [k \in 0 .. K |-> e.total - Total(N, Part(k))]
           Less(k) == IF s[k] \in blocks THEN N[s[k]].size ELSE 0
           Is(f) == f = [k \in 0 .. K |-> IF k = 0 THEN e.total ELSE f[k - 1] - Less(k)]
           back == CHOOSE f : Is(f)
<1>a. /\ Typed(e, groups) /\ Distinct(e.list[0])
      /\ Idle(e) \subseteq 1 .. Len(e.node)
  BY DEF Collectable
<1> USE <1>a
<1>1. /\ s \in Seq(Nat) /\ N \in Seq(EagerNode) /\ e.total \in Int
      /\ K \in Nat /\ DOMAIN s = 1 .. K /\ DOMAIN N = 1 .. Len(N)
  <2>1. s \in Seq(Nat) /\ N \in Seq(EagerNode) /\ e.total \in Int
    <3>1. 0 \in 0 .. groups
      BY DEF Typed
    <3>2. QED
      BY <3>1 DEF Typed
  <2>2. QED
    BY <2>1, LenProperties
<1>2. Eager!Collect(e) = [e EXCEPT !.list[0] = Eager!Without(@, blocks), !.total = back[K]]
  BY DEF Eager!Collect, Eager!Shared, Eager!Root, BlocksOf
<1>3. h[0] = e.total
  <2>1. Part(0) = {} /\ 0 \in 0 .. K
    BY <1>1 DEF Upto
  <2>2. Total(N, Part(0)) = 0
    BY <1>1, <2>1, TotalNone
  <2>3. h[0] = e.total - 0
    BY <2>1, <2>2
  <2>4. QED
    BY <1>1, <2>3
<1>4. ASSUME NEW k \in 1 .. K
      PROVE  h[k] = h[k - 1] - Less(k) /\ k - 1 \in 0 .. K /\ k \in 0 .. K
  <2>1. /\ Upto(s, k) = Upto(s, k - 1) \cup {s[k]}
        /\ s[k] \notin Upto(s, k - 1) /\ s[k] \in Members(s)
    BY <1>1, UptoNext
  <2>2. s[k] \in 1 .. Len(N)
    BY <2>1 DEF Idle
  <2>3. k - 1 \in 0 .. K /\ k \in 0 .. K
    BY <1>1
  <2> DEFINE a == Total(N, Part(k - 1))
             b == Total(N, Part(k))
             l == Less(k)
  <2>4. a \in Int /\ b \in Int
    BY <1>1, Weighed
  <2>5. l \in Int /\ b = a + l
    <3>1. CASE s[k] \in blocks
      <4>1. Part(k) = Part(k - 1) \cup {s[k]} /\ s[k] \notin Part(k - 1)
        BY <2>1, <3>1
      <4>2. b = a + N[s[k]].size
        <5> DEFINE P == Part(k - 1)
                   x == s[k]
        <5>1. Part(k) = P \cup {x} /\ x \notin P /\ x \in 1 .. Len(N)
          BY <2>2, <4>1
        <5> HIDE DEF P, x, Part, N
        <5>2. Total(N, P \cup {x}) = Total(N, P) + N[x].size
          BY <1>1, <5>1, TotalPlus
        <5>3. QED
          BY <5>1, <5>2 DEF P, x
      <4>3. N[s[k]] \in EagerNode
        BY <1>1, <2>2, ElementOfSeq
      <4>4. N[s[k]].size \in Int
        BY <4>3 DEF EagerNode
      <4>5. QED
        BY <3>1, <4>2, <4>4
    <3>2. CASE s[k] \notin blocks
      <4>1. Part(k) = Part(k - 1)
        BY <2>1, <3>2
      <4>2. l = 0 /\ b = a
        BY <3>2, <4>1
      <4> HIDE DEF a, b, l
      <4>3. QED
        BY <2>4, <4>2
    <3>3. QED
      BY <3>1, <3>2
  <2>6. h[k] = e.total - b /\ h[k - 1] = e.total - a
    BY <2>3
  <2> HIDE DEF a, b, h
  <2>7. h[k] = h[k - 1] - l
    <3> HIDE DEF l
    <3>1. QED
      BY <1>1, <2>4, <2>5, <2>6
  <2>8. QED
    BY <2>3, <2>7
<1>5. DOMAIN h = 0 .. K /\ h = [k \in 0 .. K |-> h[k]]
  OBVIOUS
<1> HIDE DEF h, Less
<1>6. Is(h)
  <2>1. ASSUME NEW k \in 0 .. K
        PROVE  h[k] = IF k = 0 THEN e.total ELSE h[k - 1] - Less(k)
    <3>1. k = 0 \/ k \in 1 .. K
      BY <1>1
    <3>2. QED
      BY <1>3, <1>4, <3>1
  <2>2. QED
    BY <1>5, <2>1
<1>7. Is(back)
  BY <1>6
<1> HIDE DEF back
<1>8. ASSUME NEW k \in 0 .. K
      PROVE  back[k] = IF k = 0 THEN e.total ELSE back[k - 1] - Less(k)
  BY <1>7
<1> HIDE DEF Is
<1>9. Matches(K, back, h)
  <2>1. back[0] = h[0]
    <3>1. 0 \in 0 .. K
      BY <1>1
    <3>2. QED
      BY <1>3, <1>8, <3>1
  <2>2. ASSUME NEW k \in 1 .. K, back[k - 1] = h[k - 1]
        PROVE  back[k] = h[k]
    <3>1. k # 0 /\ k \in 0 .. K
      BY <1>1
    <3>2. back[k] = back[k - 1] - Less(k)
      BY <1>8, <3>1
    <3>3. QED
      BY <1>4, <2>2, <3>2
  <2>3. QED
    BY <2>1, <2>2 DEF Matches
<1>10. back[K] = h[K]
  <2>1. \A k \in 0 .. K : back[k] = h[k]
    BY <1>1, <1>9, GoesOnEqual
  <2>2. K \in 0 .. K
    BY <1>1
  <2>3. QED
    BY <2>1, <2>2
<1>11. h[K] = e.total - Total(N, Idle(e) \cap blocks)
  <2>1. Upto(s, K) = Members(s) /\ K \in 0 .. K
    BY <1>1 DEF Upto, Members
  <2>2. QED
    BY <2>1 DEF h, Idle
<1>12. QED
  BY <1>2, <1>10, <1>11 DEF Collected

(* The eager allocator, operation by operation.                            *)

GroupsOf(e) == Cardinality(DOMAIN e.list) - 1
Taken(e) == e.used \cup KeptUpto(e, GroupsOf(e))
RootsIn(e, some) == {c \in some : e.node[c].parent = 0}

(* The allocator is in order, and its total is the size of its blocks.     *)
Sound(e) ==
  /\ Shares(e, GroupsOf(e), Taken(e))
  /\ e.total = Total(e.node, RootsIn(e, Current(e, Taken(e))))

(* The groups are as many as there are lists but one.                      *)
LEMMA SharesOf ==
  ASSUME NEW e, NEW groups, NEW busy, Shares(e, groups, busy)
  PROVE  /\ GroupsOf(e) = groups /\ Taken(e) = busy
         /\ groups \in Nat /\ e.node \in Seq(EagerNode) /\ Len(e.node) \in Nat
         /\ busy \subseteq 1 .. Len(e.node) /\ e.used \subseteq 1 .. Len(e.node)
         /\ Current(e, busy) \subseteq 1 .. Len(e.node)
<1>1. /\ Typed(e, groups) /\ busy = e.used \cup KeptUpto(e, groups)
      /\ Forest(e.node, Idle(e), busy, Current(e, busy))
  BY DEF Shares, Ready
<1>2. groups \in Nat
  BY <1>1 DEF Typed
<1>3. GroupsOf(e) = groups
  BY <1>1, <1>2, ListCount DEF GroupsOf
<1>4. e.node \in Seq(EagerNode) /\ busy \subseteq 1 .. Len(e.node)
  BY <1>1 DEF Forest, Tree
<1>5. Current(e, busy) \subseteq 1 .. Len(e.node)
  BY <1>1 DEF Forest, Cut
<1>6. Len(e.node) \in Nat
  BY <1>4, LenProperties
<1>7. QED
  BY <1>1, <1>2, <1>3, <1>4, <1>5, <1>6 DEF Taken

(* The total follows the blocks.                                           *)
LEMMA TotalFollows ==
  ASSUME NEW e, NEW v, NEW after, NEW before, Blocks(v, e, after, before),
         e.node \in Seq(EagerNode), Grows(v.node, e.node),
         after \subseteq 1 .. Len(v.node), before \subseteq 1 .. Len(e.node),
         e.total = Total(e.node, RootsIn(e, before))
  PROVE  v.total = Total(v.node, RootsIn(v, after))
<1> DEFINE N == e.node
           M == v.node
           L == Len(e.node)
           R == RootsIn(v, after)
           S == RootsIn(e, before)
<1>1. M \in Seq(EagerNode) /\ L \in Nat /\ Len(M) \in Nat /\ L <= Len(M)
  BY LenProperties DEF Grows
<1>2. \A n \in 1 .. L : n \in R <=> n \in S
  BY DEF RootsIn, Blocks, Grows
<1>3. R \subseteq 1 .. Len(M)
  BY DEF RootsIn
<1>4. CASE /\ v.total = e.total
           /\ \A c \in 1 .. Len(v.node) : c > Len(e.node) => v.node[c].parent # 0
  <2>1. \A n \in 1 .. Len(M) : n \in R => n \in 1 .. L
    BY <1>1, <1>4 DEF RootsIn
  <2>2. Extends(M, R, N, S)
    BY <1>2, <2>1 DEF Extends
  <2>3. Total(M, R) = Total(N, S)
    BY <2>2, TotalExtends
  <2>4. QED
    BY <1>4, <2>3
<1>5. CASE /\ Len(e.node) + 1 \in after /\ v.node[Len(e.node) + 1].parent = 0
           /\ v.total = e.total + v.node[Len(e.node) + 1].size
           /\ \A c \in 1 .. Len(v.node) : c > Len(e.node) + 1 => v.node[c].parent # 0
  <2> DEFINE x == L + 1
             T == R \ {x}
  <2>1. x \in R /\ x \in 1 .. Len(M) /\ x \notin T /\ R = T \cup {x}
    BY <1>3, <1>5 DEF RootsIn
  <2>2. \A n \in 1 .. Len(M) : n \in T => n \in 1 .. L
    BY <1>1, <1>5 DEF RootsIn
  <2>3. \A n \in 1 .. L : n \in T <=> n \in S
    <3>1. \A n \in 1 .. L : n # x
      BY <1>1
    <3>2. QED
      BY <1>2, <3>1
  <2>4. Extends(M, T, N, S)
    BY <2>2, <2>3 DEF Extends
  <2>5. Total(M, T) = Total(N, S)
    BY <2>4, TotalExtends
  <2>6. Total(M, T \cup {x}) = Total(M, T) + M[x].size
    <3> HIDE DEF T, x, M
    <3>1. QED
      BY <1>1, <2>1, TotalPlus
  <2>7. Total(M, R) = Total(N, S) + M[x].size
    BY <2>1, <2>5, <2>6
  <2>8. QED
    BY <1>5, <2>7
<1>6. QED
  BY <1>4, <1>5 DEF Blocks

(* Nothing was asked for yet, or everything was released.                  *)
LEMMA SoundEmpty ==
  /\ Sound(Eager!Empty) /\ GroupsOf(Eager!Empty) = 0
  /\ Eager!Empty.current = 0 /\ Eager!Empty.used = {}
<1> DEFINE e == Eager!Empty
<1>1. /\ e.node = <<>> /\ e.list = [g \in {0} |-> <<>>] /\ e.current = 0 /\ e.used = {}
      /\ e.total = 0 /\ e.last = 0
  BY DEF Eager!Empty, Eager!Shared
<1>2. Typed(e, 0)
  <2>1. 0 .. 0 = {0} /\ <<>> \in Seq(Nat) /\ <<>> \in Seq(EagerNode)
    OBVIOUS
  <2>2. e.list \in [0 .. 0 -> Seq(Nat)]
    BY <1>1, <2>1
  <2>3. e = [node |-> e.node, list |-> e.list, current |-> e.current, used |-> e.used,
             total |-> e.total, last |-> e.last]
    BY DEF Eager!Empty
  <2> HIDE DEF e
  <2>4. QED
    BY <1>1, <2>1, <2>2, <2>3 DEF Typed
<1>3. e.list[0] = <<>>
  BY <1>1
<1> HIDE DEF e
<1>4. Members(<<>>) = {} /\ Distinct(<<>>)
  BY DEF Members, Distinct
<1>5. Idle(e) = {} /\ Cut(e.node) = {} /\ Len(e.node) = 0
  <2>1. Len(e.node) = 0
    BY <1>1
  <2>2. QED
    BY <1>3, <1>4, <2>1 DEF Idle, Cut
<1>6. Current(e, {}) = {}
  BY <1>5 DEF Current
<1>7. Tree(e.node)
  <2>1. e.node \in Seq(EagerNode)
    BY <1>2 DEF Typed
  <2>2. 1 .. Len(e.node) = {}
    BY <1>5
  <2>3. QED
    BY <2>1, <2>2 DEF Tree
<1>8. Forest(e.node, {}, {}, {})
  BY <1>5, <1>7 DEF Forest
<1>9. Ready(e, 0, {})
  BY <1>2, <1>3, <1>4, <1>5, <1>6, <1>8 DEF Ready
<1>10. KeptUpto(e, 0) = {}
  BY DEF KeptUpto
<1>11. Lists(e, 0)
  <2>1. \A g \in 0 .. 0 : g = 0
    OBVIOUS
  <2>2. QED
    BY <1>3, <1>4, <2>1 DEF Lists
<1>12. Shares(e, 0, {})
  BY <1>1, <1>9, <1>10, <1>11 DEF Shares
<1>13. GroupsOf(e) = 0 /\ Taken(e) = {}
  BY <1>12, SharesOf
<1>14. RootsIn(e, {}) = {}
  BY DEF RootsIn
<1>15. Total(e.node, {}) = 0
  BY <1>7, TotalNone DEF Tree
<1>16. Sound(e)
  BY <1>1, <1>6, <1>12, <1>13, <1>14, <1>15 DEF Sound
<1>17. QED
  BY <1>1, <1>13, <1>16 DEF e

(* v is what a request leaves.                                             *)
Asks(v, e, size, separate, min) ==
  /\ Sound(e) /\ size \in Nat
  /\ min \in Nat /\ min % Align = 0 /\ (e.current # 0 => min = 0)
  /\ v = Eager!Alloc(e, size, separate, min)

(* What alloc() leaves is in order.                                        *)
LEMMA SoundAlloc ==
  ASSUME NEW v, NEW e, NEW size, NEW separate, NEW min, Asks(v, e, size, separate, min)
  PROVE  /\ Takes(v, e, GroupsOf(e), Taken(e), size)
         /\ Sound(v) /\ GroupsOf(v) = GroupsOf(e)
<1> SUFFICES ASSUME NEW groups, groups = GroupsOf(e), NEW busy, busy = Taken(e),
                    Sound(e), size \in Nat, min \in Nat, min % Align = 0,
                    e.current # 0 => min = 0, v = Eager!Alloc(e, size, separate, min)
             PROVE  /\ Takes(v, e, groups, busy, size)
                    /\ Sound(v) /\ GroupsOf(v) = groups
  BY DEF Asks
<1>1. Shares(e, groups, busy) /\ e.total = Total(e.node, RootsIn(e, Current(e, busy)))
  BY DEF Sound
<1>2. Takes(v, e, groups, busy, size)
  BY <1>1, AllocTakes
<1> DEFINE x == v.last
           lent == busy \cup {x}
<1>3. /\ Ready(v, groups, lent) /\ Grows(v.node, e.node)
      /\ v.used = e.used \cup {x} /\ v.current = e.current /\ x \notin e.used
      /\ Blocks(v, e, Current(v, lent), Current(e, busy))
  BY <1>2 DEF Takes
<1>4. \A g \in 1 .. groups : Distinct(v.list[g]) /\ Members(v.list[g]) = Members(e.list[g]) \ {x}
  BY <1>2 DEF Takes
<1>5. /\ busy = e.used \cup KeptUpto(e, groups) /\ e.used \cap KeptUpto(e, groups) = {}
      /\ e.current \in 0 .. groups /\ groups \in Nat
      /\ \A g \in 0 .. groups : Distinct(e.list[g])
      /\ \A g, h \in 0 .. groups : g # h => Members(e.list[g]) \cap Members(e.list[h]) = {}
      /\ \A g \in 1 .. groups : g \in 0 .. groups
      /\ \A g \in 0 .. groups : g = 0 \/ g \in 1 .. groups
  <2>1. groups \in Nat
    BY <1>1 DEF Shares, Ready, Typed
  <2>2. /\ \A g \in 1 .. groups : g \in 0 .. groups
        /\ \A g \in 0 .. groups : g = 0 \/ g \in 1 .. groups
    BY <2>1
  <2>3. QED
    BY <1>1, <2>1, <2>2 DEF Shares, Lists
<1> HIDE DEF x
<1>6. KeptUpto(v, groups) = KeptUpto(e, groups) \ {x}
  BY <1>4 DEF KeptUpto
<1>7. Distinct(v.list[0]) /\ Members(v.list[0]) \cap lent = {}
  BY <1>3 DEF Ready, Forest, Idle
<1>8. Lists(v, groups)
  <2>1. \A g \in 0 .. groups : Distinct(v.list[g])
    BY <1>4, <1>5, <1>7
  <2>2. \A g \in 1 .. groups : Members(v.list[g]) \subseteq lent
    <3>1. ASSUME NEW g \in 1 .. groups
          PROVE  Members(v.list[g]) \subseteq lent
      <4>1. Members(e.list[g]) \subseteq KeptUpto(e, groups)
        BY KeptMember
      <4>2. QED
        BY <1>4, <1>5, <4>1
    <3>2. QED
      BY <3>1
  <2>3. ASSUME NEW g \in 0 .. groups, NEW h \in 0 .. groups, g # h
        PROVE  Members(v.list[g]) \cap Members(v.list[h]) = {}
    <3>1. CASE g = 0
      <4>1. h \in 1 .. groups
        BY <1>5, <2>3, <3>1
      <4>2. QED
        BY <1>7, <2>2, <3>1, <4>1
    <3>2. CASE h = 0
      <4>1. g \in 1 .. groups
        BY <1>5, <2>3, <3>2
      <4>2. QED
        BY <1>7, <2>2, <3>2, <4>1
    <3>3. CASE g # 0 /\ h # 0
      <4>1. g \in 1 .. groups /\ h \in 1 .. groups
        BY <1>5, <3>3
      <4>2. Members(e.list[g]) \cap Members(e.list[h]) = {}
        BY <1>5, <2>3
      <4>3. QED
        BY <1>4, <4>1, <4>2
    <3>4. QED
      BY <3>1, <3>2, <3>3
  <2>4. QED
    BY <2>1, <2>3 DEF Lists
<1>9. Shares(v, groups, lent)
  <2>1. v.used \cap KeptUpto(v, groups) = {}
    BY <1>3, <1>5, <1>6
  <2>2. lent = v.used \cup KeptUpto(v, groups)
    BY <1>3, <1>5, <1>6
  <2>3. QED
    BY <1>3, <1>5, <1>8, <2>1, <2>2 DEF Shares
<1>10. GroupsOf(v) = groups /\ Taken(v) = lent /\ Current(v, lent) \subseteq 1 .. Len(v.node)
  BY <1>9, SharesOf
<1>11. e.node \in Seq(EagerNode) /\ Current(e, busy) \subseteq 1 .. Len(e.node)
  BY <1>1, SharesOf
<1>12. v.total = Total(v.node, RootsIn(v, Current(v, lent)))
  BY <1>1, <1>3, <1>10, <1>11, TotalFollows
<1>13. Sound(v)
  BY <1>9, <1>10, <1>12 DEF Sound
<1>14. QED
  BY <1>2, <1>10, <1>13 DEF x

(* v has the nodes of e, and the same blocks are current.                  *)
Keeps(v, groups, busy, e, before) ==
  /\ e.node \in Seq(EagerNode) /\ before \subseteq 1 .. Len(e.node)
  /\ e.total = Total(e.node, RootsIn(e, before))
  /\ Same(v.node, e.node) /\ v.total = e.total
  /\ Shares(v, groups, busy)
  /\ \A c \in 1 .. Len(e.node) :
       e.node[c].parent = 0 => (c \in Current(v, busy) <=> c \in before)

(* The same nodes, used or kept by others, have the same total.            *)
LEMMA SoundFollows ==
  ASSUME NEW e, NEW before, NEW v, NEW groups, NEW busy, Keeps(v, groups, busy, e, before)
  PROVE  Sound(v) /\ GroupsOf(v) = groups /\ Taken(v) = busy
<1> DEFINE after == Current(v, busy)
<1>a. /\ e.node \in Seq(EagerNode) /\ before \subseteq 1 .. Len(e.node)
      /\ e.total = Total(e.node, RootsIn(e, before))
      /\ Same(v.node, e.node) /\ v.total = e.total
      /\ Shares(v, groups, busy)
      /\ \A c \in 1 .. Len(e.node) :
           e.node[c].parent = 0 => (c \in after <=> c \in before)
  BY DEF Keeps
<1>1. /\ GroupsOf(v) = groups /\ Taken(v) = busy
      /\ after \subseteq 1 .. Len(v.node)
  BY <1>a, SharesOf
<1>2. Grows(v.node, e.node)
  <2>1. Len(e.node) \in Nat
    BY <1>a, LenProperties
  <2>2. QED
    BY <1>a, <2>1 DEF Same, Grows
<1>3. \A c \in 1 .. Len(v.node) : ~(c > Len(e.node))
  <2> DEFINE L == Len(e.node)
  <2>1. Len(v.node) = L /\ L \in Nat
    BY <1>a, LenProperties DEF Same
  <2> HIDE DEF L
  <2>2. \A c \in 1 .. L : ~(c > L)
    BY <2>1
  <2>3. QED
    BY <2>1, <2>2 DEF L
<1>4. Blocks(v, e, after, before)
  BY <1>a, <1>3 DEF Blocks
<1>5. v.total = Total(v.node, RootsIn(v, after))
  <2> HIDE DEF after
  <2>1. QED
    BY <1>a, <1>1, <1>2, <1>4, TotalFollows
<1>6. QED
  BY <1>a, <1>1, <1>5 DEF Sound

(* What free() leaves outside the groups is in order.                      *)
LEMMA SoundReturn ==
  ASSUME NEW e, Sound(e), NEW groups, groups = GroupsOf(e), e.current = 0,
         NEW n \in e.used, NEW v, v = Eager!Free(e, n)
  PROVE  /\ Sound(v) /\ GroupsOf(v) = groups /\ Same(v.node, e.node)
         /\ v.used = e.used \ {n} /\ v.current = e.current
         /\ \A g \in 1 .. groups : v.list[g] = e.list[g]
<1> DEFINE busy == Taken(e)
           left == busy \ {n}
           w == [e EXCEPT !.used = @ \ {n}]
<1>1. /\ Shares(e, groups, busy) /\ Ready(e, groups, busy) /\ Typed(e, groups)
      /\ e.total = Total(e.node, RootsIn(e, Current(e, busy)))
      /\ busy = e.used \cup KeptUpto(e, groups) /\ e.used \cap KeptUpto(e, groups) = {}
      /\ Lists(e, groups) /\ groups \in Nat
  BY DEF Sound, Shares, Ready, Typed
<1>2. /\ w.node = e.node /\ w.list = e.list /\ w.current = e.current /\ w.used = e.used \ {n}
      /\ w.total = e.total /\ w.last = e.last /\ Typed(w, groups)
  BY <1>1 DEF Typed
<1>3. v = Eager!ReturnMemory(w, n)
  BY <1>2 DEF Eager!Free, Eager!Shared
<1> HIDE DEF w, busy
<1>4. Idle(w) = Idle(e) /\ Current(w, busy) = Current(e, busy)
  BY <1>2 DEF Idle, Current
<1>5. Ready(w, groups, busy)
  BY <1>1, <1>2, <1>4 DEF Ready
<1>6. n \in busy
  BY <1>1
<1>7. Follows(v, w, groups, busy, left)
  BY <1>3, <1>5, <1>6, ReturnMemoryFollows
<1>8. /\ Ready(v, groups, left) /\ Same(v.node, e.node)
      /\ v.used = e.used \ {n} /\ v.current = e.current /\ v.total = e.total
      /\ \A g \in 1 .. groups : v.list[g] = e.list[g]
      /\ \A c \in 1 .. Len(e.node) :
           e.node[c].parent = 0 => (c \in Current(v, left) <=> c \in Current(e, busy))
  BY <1>2, <1>4, <1>7 DEF Follows
<1>9. KeptUpto(v, groups) = KeptUpto(e, groups)
  BY <1>8 DEF KeptUpto
<1>10. left = v.used \cup KeptUpto(v, groups) /\ v.used \cap KeptUpto(v, groups) = {}
  BY <1>1, <1>8, <1>9
<1>11. Lists(v, groups)
  <2>1. Distinct(v.list[0]) /\ Members(v.list[0]) \cap left = {}
    BY <1>8 DEF Ready, Forest, Idle
  <2>2. \A g \in 1 .. groups : Members(v.list[g]) \subseteq left
    BY <1>10, KeptMember
  <2>3. \A g \in 0 .. groups : g = 0 \/ (g \in 1 .. groups /\ v.list[g] = e.list[g])
    BY <1>1, <1>8
  <2>4. \A g \in 0 .. groups : Distinct(v.list[g])
    BY <1>1, <2>1, <2>3 DEF Lists
  <2>5. \A g, h \in 0 .. groups : g # h => Members(v.list[g]) \cap Members(v.list[h]) = {}
    BY <1>1, <2>1, <2>2, <2>3 DEF Lists
  <2>6. QED
    BY <2>4, <2>5 DEF Lists
<1>12. Shares(v, groups, left)
  BY <1>1, <1>8, <1>10, <1>11 DEF Shares
<1>13. Sound(v) /\ GroupsOf(v) = groups
  <2>1. e.node \in Seq(EagerNode) /\ Current(e, busy) \subseteq 1 .. Len(e.node)
    BY <1>1, SharesOf
  <2> HIDE DEF left
  <2>2. Keeps(v, groups, left, e, Current(e, busy))
    BY <1>1, <1>8, <1>12, <2>1 DEF Keeps
  <2>3. QED
    BY <2>2, SoundFollows
<1>14. QED
  BY <1>8, <1>13

(* What free() leaves in a group is in order: the group keeps the node.    *)
LEMMA SoundKeep ==
  ASSUME NEW e, Sound(e), NEW groups, groups = GroupsOf(e), NEW g, g = e.current, g # 0,
         NEW n \in e.used, NEW v, v = Eager!Free(e, n)
  PROVE  /\ Sound(v) /\ GroupsOf(v) = groups /\ v.node = e.node
         /\ v.used = e.used \ {n} /\ v.current = e.current
         /\ g \in 1 .. groups /\ Members(v.list[g]) = Members(e.list[g]) \cup {n}
         /\ \A h \in 1 .. groups : h # g => v.list[h] = e.list[h]
<1> DEFINE busy == Taken(e)
           w == [e EXCEPT !.used = @ \ {n}]
<1>1. /\ Shares(e, groups, busy) /\ Ready(e, groups, busy) /\ Typed(e, groups)
      /\ e.total = Total(e.node, RootsIn(e, Current(e, busy)))
      /\ busy = e.used \cup KeptUpto(e, groups) /\ e.used \cap KeptUpto(e, groups) = {}
      /\ Lists(e, groups) /\ groups \in Nat /\ g \in 0 .. groups
  BY DEF Sound, Shares, Ready, Typed
<1>2. /\ w.node = e.node /\ w.list = e.list /\ w.current = e.current /\ w.used = e.used \ {n}
      /\ w.total = e.total /\ w.last = e.last /\ Typed(w, groups)
  BY <1>1 DEF Typed
<1>3. v = Eager!InsertNode(w, g, n)
  BY <1>2 DEF Eager!Free, Eager!Shared
<1> HIDE DEF w, busy
<1>4. g \in 1 .. groups /\ n \in Nat /\ 0 \in 0 .. groups
  <2>1. n \in Nat
    BY <1>1 DEF Typed
  <2>2. QED
    BY <1>1, <2>1
<1>5. n \notin Members(e.list[g]) /\ Distinct(e.list[g])
  <2>1. Members(e.list[g]) \subseteq KeptUpto(e, groups)
    BY <1>4, KeptMember
  <2>2. QED
    BY <1>1, <2>1 DEF Lists
<1>6. /\ Typed(v, groups)
      /\ Distinct(v.list[g]) /\ Members(v.list[g]) = Members(e.list[g]) \cup {n}
      /\ \A h \in 0 .. groups : h # g => v.list[h] = e.list[h]
      /\ v.node = e.node /\ v.used = e.used \ {n} /\ v.current = e.current
      /\ v.total = e.total /\ v.last = e.last
  <2>1. Distinct(w.list[g]) /\ n \notin Members(w.list[g])
    BY <1>2, <1>5
  <2>2. /\ Typed(v, groups)
        /\ Distinct(v.list[g]) /\ Members(v.list[g]) = Members(w.list[g]) \cup {n}
        /\ \A h \in 0 .. groups : h # g => v.list[h] = w.list[h]
        /\ v.node = w.node /\ v.used = w.used /\ v.current = w.current
        /\ v.total = w.total /\ v.last = w.last
    <3>1. Inserting(v, w, groups, g, n)
      BY <1>1, <1>2, <1>3, <1>4, <2>1 DEF Inserting
    <3>2. QED
      BY ONLY <3>1, Inserted
  <2>3. QED
    BY <1>2, <2>2
<1>7. v.list[0] = e.list[0] /\ \A h \in 1 .. groups : h # g => v.list[h] = e.list[h]
  <2>1. \A h \in 1 .. groups : h \in 0 .. groups
    BY <1>1
  <2>2. 0 # g
    OBVIOUS
  <2>3. QED
    BY <1>4, <1>6, <2>1, <2>2
<1>8. Idle(v) = Idle(e) /\ Current(v, busy) = Current(e, busy)
  BY <1>6, <1>7 DEF Idle, Current
<1>9. Ready(v, groups, busy)
  BY <1>1, <1>6, <1>7, <1>8 DEF Ready
<1>10. KeptUpto(v, groups) = KeptUpto(e, groups) \cup {n}
  <2>1. \A h \in 1 .. groups :
          /\ h = g => Members(v.list[h]) = Members(e.list[h]) \cup {n}
          /\ h # g => Members(v.list[h]) = Members(e.list[h])
    BY <1>6, <1>7
  <2>2. KeptUpto(v, groups) \subseteq KeptUpto(e, groups) \cup {n}
    BY <2>1 DEF KeptUpto
  <2>3. n \in KeptUpto(v, groups)
    BY <1>4, <2>1 DEF KeptUpto
  <2>4. KeptUpto(e, groups) \subseteq KeptUpto(v, groups)
    BY <2>1 DEF KeptUpto
  <2>5. QED
    BY <2>2, <2>3, <2>4
<1>11. Lists(v, groups)
  <2>1. \A h \in 0 .. groups : Distinct(v.list[h])
    <3>1. ASSUME NEW h \in 0 .. groups
          PROVE  Distinct(v.list[h])
      <4>1. CASE h = g
        <5>1. Distinct(v.list[g])
          BY <1>6
        <5>2. QED
          BY <4>1, <5>1
      <4>2. CASE h # g
        BY <1>1, <1>6, <4>2 DEF Lists
      <4>3. QED
        BY <4>1, <4>2
    <3>2. QED
      BY <3>1
  <2>2. ASSUME NEW h \in 0 .. groups, h # g
        PROVE  Members(v.list[h]) \cap Members(v.list[g]) = {}
    <3>1. Members(e.list[h]) \cap Members(e.list[g]) = {}
      BY <1>1, <2>2 DEF Lists
    <3>2. n \notin Members(e.list[h])
      <4>1. CASE h = 0
        <5>1. Idle(e) \cap busy = {}
          BY <1>1 DEF Ready, Forest
        <5>2. QED
          BY <1>1, <4>1, <5>1 DEF Idle
      <4>2. CASE h # 0
        <5>1. h \in 1 .. groups
          BY <1>1, <4>2
        <5>2. Members(e.list[h]) \subseteq KeptUpto(e, groups)
          BY <5>1, KeptMember
        <5>3. QED
          BY <1>1, <5>2
      <4>3. QED
        BY <4>1, <4>2
    <3>3. v.list[h] = e.list[h] /\ Members(v.list[g]) = Members(e.list[g]) \cup {n}
      BY <1>6, <2>2
    <3>4. QED
      BY <3>1, <3>2, <3>3
  <2>3. ASSUME NEW h \in 0 .. groups, NEW k \in 0 .. groups, h # k
        PROVE  Members(v.list[h]) \cap Members(v.list[k]) = {}
    <3>1. CASE h = g
      <4>1. Members(v.list[k]) \cap Members(v.list[g]) = {}
        BY <2>2, <2>3, <3>1
      <4>2. QED
        BY <3>1, <4>1
    <3>2. CASE k = g
      <4>1. Members(v.list[h]) \cap Members(v.list[g]) = {}
        BY <2>2, <2>3, <3>2
      <4>2. QED
        BY <3>2, <4>1
    <3>3. CASE h # g /\ k # g
      <4>1. v.list[h] = e.list[h] /\ v.list[k] = e.list[k]
        BY <1>6, <3>3
      <4>2. QED
        BY <1>1, <2>3, <4>1 DEF Lists
    <3>4. QED
      BY <3>1, <3>2, <3>3
  <2>4. QED
    BY <2>1, <2>3 DEF Lists
<1>12. Shares(v, groups, busy)
  <2>1. v.used \cap KeptUpto(v, groups) = {} /\ busy = v.used \cup KeptUpto(v, groups)
    BY <1>1, <1>6, <1>10
  <2>2. QED
    BY <1>1, <1>6, <1>9, <1>11, <2>1 DEF Shares
<1>13. Sound(v) /\ GroupsOf(v) = groups
  <2>1. e.node \in Seq(EagerNode) /\ Current(e, busy) \subseteq 1 .. Len(e.node)
    BY <1>1, SharesOf
  <2>2. Same(v.node, e.node)
    BY <1>6, <2>1 DEF Same
  <2>3. Keeps(v, groups, busy, e, Current(e, busy))
    BY <1>1, <1>6, <1>8, <1>12, <2>1, <2>2 DEF Keeps
  <2>4. QED
    BY <2>3, SoundFollows
<1>14. QED
  BY <1>4, <1>6, <1>7, <1>13

(* v is e with a group more, w is e after the end of one.                  *)
Begun(v, e) ==
  /\ GroupsOf(e) \in Nat
  /\ Sound(v) /\ GroupsOf(v) = GroupsOf(e) + 1 /\ v.current = GroupsOf(e) + 1
  /\ v.node = e.node /\ v.used = e.used
  /\ \A h \in 1 .. GroupsOf(e) : v.list[h] = e.list[h]

Ended(w, e) ==
  /\ Sound(w) /\ GroupsOf(w) = GroupsOf(e) /\ w.current = 0
  /\ w.node = e.node /\ w.used = e.used /\ w.list = e.list

(* Both leave the allocator in order.                                      *)
LEMMA SoundGroup ==
  ASSUME NEW e, Sound(e)
  PROVE  Begun(Eager!BeginGroup(e), e) /\ Ended(Eager!EndGroup(e), e)
<1> SUFFICES ASSUME NEW groups, groups = GroupsOf(e),
                    NEW v, v = Eager!BeginGroup(e), NEW w, w = Eager!EndGroup(e)
             PROVE  /\ groups \in Nat
                    /\ Sound(v) /\ GroupsOf(v) = groups + 1 /\ v.current = groups + 1
                    /\ v.node = e.node /\ v.used = e.used
                    /\ \A h \in 1 .. groups : v.list[h] = e.list[h]
                    /\ Sound(w) /\ GroupsOf(w) = groups /\ w.current = 0
                    /\ w.node = e.node /\ w.used = e.used /\ w.list = e.list
  BY DEF Begun, Ended
<1> DEFINE busy == Taken(e)
           new == groups + 1
           list == [h \in 0 .. new |-> IF h = new THEN <<>> ELSE e.list[h]]
<1>1. /\ Shares(e, groups, busy) /\ Ready(e, groups, busy) /\ Typed(e, groups)
      /\ e.total = Total(e.node, RootsIn(e, Current(e, busy)))
      /\ busy = e.used \cup KeptUpto(e, groups) /\ e.used \cap KeptUpto(e, groups) = {}
      /\ Lists(e, groups) /\ groups \in Nat
  BY DEF Sound, Shares, Ready, Typed
<1> HIDE DEF busy
<1>2. e.node \in Seq(EagerNode) /\ Current(e, busy) \subseteq 1 .. Len(e.node)
  BY <1>1, SharesOf
<1>3. v = [e EXCEPT !.list = list, !.current = new]
  <2>1. Eager!Cardinality(DOMAIN e.list) = new
    BY <1>1, ListCount, Counting
  <2>2. QED
    BY <2>1 DEF Eager!BeginGroup
<1>4. /\ new \in Nat /\ new \in 0 .. new /\ new \in 1 .. new /\ 0 # new
      /\ \A h \in 0 .. groups : h \in 0 .. new /\ h # new
      /\ \A h \in 1 .. groups : h \in 1 .. new /\ h # new /\ h \in 0 .. groups
      /\ \A h \in 0 .. new : h # new => h \in 0 .. groups
      /\ \A h \in 1 .. new : h # new => h \in 1 .. groups
      /\ 0 \in 0 .. groups
  BY <1>1
<1> HIDE DEF new
<1>5. /\ list \in [0 .. new -> Seq(Nat)] /\ list[new] = <<>>
      /\ \A h \in 0 .. groups : list[h] = e.list[h]
  <2>1. \A h \in 0 .. groups : e.list[h] \in Seq(Nat)
    BY <1>1 DEF Typed
  <2>2. <<>> \in Seq(Nat)
    OBVIOUS
  <2>3. QED
    BY <1>4, <2>1, <2>2
<1> HIDE DEF list
<1>6. /\ v.node = e.node /\ v.used = e.used /\ v.list = list /\ v.current = new
      /\ v.total = e.total /\ Typed(v, new)
  <2>1. e \in States(groups)
    BY <1>1 DEF Typed, States
  <2>2. v \in States(new)
    BY <1>3, <1>4, <1>5, <2>1 DEF States
  <2>3. /\ v.node = e.node /\ v.used = e.used /\ v.list = list /\ v.current = new
        /\ v.total = e.total
    BY <1>3, <2>1 DEF States
  <2>4. QED
    BY <1>4, <2>2, <2>3 DEF Typed, States
<1>7. v.list[0] = e.list[0] /\ Idle(v) = Idle(e) /\ Current(v, busy) = Current(e, busy)
  BY <1>4, <1>5, <1>6 DEF Idle, Current
<1>8. Ready(v, new, busy)
  BY <1>1, <1>6, <1>7 DEF Ready
<1>9. Members(<<>>) = {} /\ Distinct(<<>>)
  BY DEF Members, Distinct
<1>10. KeptUpto(v, new) = KeptUpto(e, groups)
  <2>1. \A h \in 1 .. groups : v.list[h] = e.list[h] /\ h \in 1 .. new
    BY <1>4, <1>5, <1>6
  <2>2. \A h \in 1 .. new : h \in 1 .. groups \/ Members(v.list[h]) = {}
    BY <1>4, <1>5, <1>6, <1>9
  <2>3. QED
    BY <2>1, <2>2 DEF KeptUpto
<1>11. Lists(v, new)
  <2>1. \A h \in 0 .. new : (h \in 0 .. groups /\ v.list[h] = e.list[h]) \/ v.list[h] = <<>>
    BY <1>4, <1>5, <1>6
  <2>2. \A h \in 0 .. new : Distinct(v.list[h])
    BY <1>1, <1>9, <2>1 DEF Lists
  <2>3. \A h, k \in 0 .. new : h # k => Members(v.list[h]) \cap Members(v.list[k]) = {}
    BY <1>1, <1>9, <2>1 DEF Lists
  <2>4. QED
    BY <2>2, <2>3 DEF Lists
<1>12. Shares(v, new, busy)
  BY <1>1, <1>4, <1>6, <1>8, <1>10, <1>11 DEF Shares
<1>13. Sound(v) /\ GroupsOf(v) = new
  <2>1. Same(v.node, e.node)
    BY <1>2, <1>6 DEF Same
  <2>2. Keeps(v, new, busy, e, Current(e, busy))
    BY <1>1, <1>2, <1>6, <1>7, <1>12, <2>1 DEF Keeps
  <2>3. QED
    BY <2>2, SoundFollows
<1>14. /\ w.node = e.node /\ w.used = e.used /\ w.list = e.list /\ w.current = 0
       /\ w.total = e.total /\ Typed(w, groups)
  BY <1>1 DEF Typed, Eager!EndGroup, Eager!Shared
<1>15. Idle(w) = Idle(e) /\ Current(w, busy) = Current(e, busy)
  BY <1>14 DEF Idle, Current
<1>16. Shares(w, groups, busy)
  BY <1>1, <1>4, <1>14, <1>15 DEF Shares, Ready, Lists, KeptUpto
<1>17. Sound(w) /\ GroupsOf(w) = groups
  <2>1. Same(w.node, e.node)
    BY <1>2, <1>14 DEF Same
  <2>2. Keeps(w, groups, busy, e, Current(e, busy))
    BY <1>1, <1>2, <1>14, <1>15, <1>16, <2>1 DEF Keeps
  <2>3. QED
    BY <2>2, SoundFollows
<1>18. \A h \in 1 .. groups : v.list[h] = e.list[h]
  BY <1>4, <1>5, <1>6
<1>19. QED
  BY <1>1, <1>6, <1>13, <1>14, <1>17, <1>18 DEF new

(* Two sets of nodes without a common one weigh what each of them weighs.  *)
LEMMA TotalApart ==
  ASSUME NEW N \in Seq(EagerNode), NEW S, NEW T, S \cap T = {}
  PROVE  Total(N, S \cup T) = Total(N, S) + Total(N, T)
<1> DEFINE L == Len(N)
           R == S \cup T
<1>1. PICK f : IsWeighed(f, N, R) /\ Total(N, R) = f[L]
  BY Weighed
<1>2. PICK g : IsWeighed(g, N, S) /\ Total(N, S) = g[L]
  BY Weighed
<1>3. PICK h : IsWeighed(h, N, T) /\ Total(N, T) = h[L]
  BY Weighed
<1>4. L \in Nat
  BY LenProperties
<1>5. /\ \A n \in 1 .. L : Weight(N, S, n) \in Int
      /\ \A n \in 1 .. L : Weight(N, T, n) \in Int
      /\ \A n \in 1 .. L : N[n].size \in Int
  <2>1. ASSUME NEW n \in 1 .. L
        PROVE  N[n].size \in Int
    <3>1. N[n] \in EagerNode
      BY ElementOfSeq
    <3>2. QED
      BY <3>1 DEF EagerNode
  <2>2. QED
    BY <2>1, Weighed
<1>6. ASSUME NEW n \in 1 .. L
      PROVE  Weight(N, R, n) = Weight(N, S, n) + Weight(N, T, n)
  <2> DEFINE s == N[n].size
  <2>1. s \in Int
    BY <1>5
  <2>2. /\ Weight(N, R, n) = IF n \in S \/ n \in T THEN s ELSE 0
        /\ Weight(N, S, n) = IF n \in S THEN s ELSE 0
        /\ Weight(N, T, n) = IF n \in T THEN s ELSE 0
        /\ ~(n \in S /\ n \in T)
    BY DEF Weight
  <2> HIDE DEF s
  <2>3. QED
    BY <2>1, <2>2
<1>7. f[0] = 0 /\ f \in [0 .. L -> Int] /\ \A n \in 1 .. L : f[n] = f[n - 1] + Weight(N, R, n)
  BY <1>1 DEF IsWeighed
<1>8. g[0] = 0 /\ g \in [0 .. L -> Int] /\ \A n \in 1 .. L : g[n] = g[n - 1] + Weight(N, S, n)
  BY <1>2 DEF IsWeighed
<1>9. h[0] = 0 /\ h \in [0 .. L -> Int] /\ \A n \in 1 .. L : h[n] = h[n - 1] + Weight(N, T, n)
  BY <1>3 DEF IsWeighed
<1> HIDE DEF L, R
<1> DEFINE b == [n \in 0 .. L |-> g[n] + h[n]]
<1>10. f[0] = b[0]
  BY <1>4, <1>7, <1>8, <1>9
<1>11. ASSUME NEW n \in 1 .. L, f[n - 1] = b[n - 1]
       PROVE  f[n] = b[n]
  <2> DEFINE u == g[n - 1]
             w == h[n - 1]
             p == Weight(N, S, n)
             q == Weight(N, T, n)
  <2>1. n - 1 \in 0 .. L /\ n \in 0 .. L
    BY <1>4
  <2>2. u \in Int /\ w \in Int /\ p \in Int /\ q \in Int
    BY <1>5, <1>8, <1>9, <2>1
  <2>3. /\ f[n] = f[n - 1] + (p + q) /\ g[n] = u + p /\ h[n] = w + q
        /\ b[n] = g[n] + h[n] /\ b[n - 1] = u + w
    <3>1. f[n] = f[n - 1] + Weight(N, R, n)
      BY <1>7
    <3>2. f[n] = f[n - 1] + (p + q)
      BY <1>6, <3>1
    <3>3. QED
      BY <1>8, <1>9, <2>1, <3>2
  <2> HIDE DEF b, u, w, p, q
  <2>4. QED
    BY <1>11, <2>2, <2>3
<1>12. \A n \in 0 .. L : f[n] = b[n]
  <2> HIDE DEF b
  <2>1. Matches(L, f, b)
    BY <1>10, <1>11 DEF Matches
  <2>2. QED
    BY <1>4, <2>1, GoesOnEqual
<1>13. L \in 0 .. L
  BY <1>4
<1>14. b[L] = g[L] + h[L]
  BY <1>13
<1> HIDE DEF b
<1>15. f[L] = g[L] + h[L]
  BY <1>12, <1>13, <1>14
<1>16. QED
  BY <1>1, <1>2, <1>3, <1>15 DEF R, L

(* The barrier ends: no group is left, and what was kept is free.          *)
LEMMA SoundBarrierEnd ==
  ASSUME NEW e, Sound(e), e.current = 0, NEW v, v = Eager!BarrierEnd(e)
  PROVE  /\ Sound(v) /\ GroupsOf(v) = 0 /\ Same(v.node, e.node)
         /\ v.used = e.used /\ v.current = 0
<1> DEFINE groups == GroupsOf(e)
           busy == Taken(e)
           kept == KeptUpto(e, groups)
           start == [e EXCEPT !.list = [h \in {0} |-> @[0]]]
<1>1. /\ Shares(e, groups, busy) /\ Ready(e, groups, busy) /\ Typed(e, groups)
      /\ e.total = Total(e.node, RootsIn(e, Current(e, busy)))
      /\ busy = e.used \cup kept /\ e.used \cap kept = {}
      /\ Lists(e, groups) /\ groups \in Nat
  BY DEF Sound, Shares, Ready, Typed
<1>2. /\ start.node = e.node /\ start.used = e.used /\ start.current = e.current
      /\ start.total = e.total /\ start.list[0] = e.list[0]
  BY <1>1 DEF Typed
<1>3. /\ Ready(start, 0, busy)
      /\ Follows(v, start, 0, busy, busy \ kept)
  <2> HIDE DEF groups, busy
  <2>1. kept \subseteq busy
    BY <1>1
  <2>2. QED
    BY <1>1, <2>1, BarrierEndFollows
<1> HIDE DEF start, groups, busy, kept
<1>4. busy \ kept = e.used
  BY <1>1
<1>5. /\ Ready(v, 0, e.used) /\ Same(v.node, e.node)
      /\ v.used = e.used /\ v.current = 0 /\ v.total = e.total
      /\ \A c \in 1 .. Len(e.node) :
           e.node[c].parent = 0 => (c \in Current(v, e.used) <=> c \in Current(start, busy))
  BY <1>2, <1>3, <1>4 DEF Follows
<1>6. Current(start, busy) = Current(e, busy)
  BY <1>2 DEF Current, Idle
<1>7. KeptUpto(v, 0) = {}
  BY DEF KeptUpto
<1>8. Lists(v, 0)
  <2>1. \A g \in 0 .. 0 : g = 0
    OBVIOUS
  <2>2. Distinct(v.list[0])
    BY <1>5 DEF Ready
  <2>3. QED
    BY <2>1, <2>2 DEF Lists
<1>9. Shares(v, 0, e.used)
  <2>1. v.current \in 0 .. 0
    BY <1>5
  <2>2. QED
    BY <1>5, <1>7, <1>8, <2>1 DEF Shares
<1>10. e.node \in Seq(EagerNode) /\ Current(e, busy) \subseteq 1 .. Len(e.node)
  BY <1>1, SharesOf
<1>11. Keeps(v, 0, e.used, e, Current(e, busy))
  BY <1>1, <1>5, <1>6, <1>9, <1>10 DEF Keeps
<1>12. Sound(v) /\ GroupsOf(v) = 0
  BY <1>11, SoundFollows
<1>13. QED
  BY <1>5, <1>12

(* Garbage is collected: the blocks that are idle are gone.                *)
LEMMA SoundCollect ==
  ASSUME NEW e, Sound(e), NEW v, v = Eager!Collect(e)
  PROVE  /\ Sound(v) /\ GroupsOf(v) = GroupsOf(e) /\ v.node = e.node
         /\ v.used = e.used /\ v.current = e.current
         /\ \A g \in 1 .. GroupsOf(e) : v.list[g] = e.list[g]
<1> DEFINE groups == GroupsOf(e)
           busy == Taken(e)
           s == e.list[0]
           blocks == BlocksOf(e)
           r == Eager!Without(s, blocks)
           gone == Idle(e) \cap blocks
           less == Total(e.node, gone)
           list == [e.list EXCEPT ![0] = r]
<1>1. /\ Shares(e, groups, busy) /\ Ready(e, groups, busy) /\ Typed(e, groups)
      /\ e.total = Total(e.node, RootsIn(e, Current(e, busy)))
      /\ busy = e.used \cup KeptUpto(e, groups) /\ e.used \cap KeptUpto(e, groups) = {}
      /\ Lists(e, groups) /\ groups \in Nat /\ e.current \in 0 .. groups
      /\ Distinct(s) /\ Forest(e.node, Idle(e), busy, Current(e, busy))
  BY DEF Sound, Shares, Ready, Typed
<1> HIDE DEF groups, busy
<1>2. Idle(e) \subseteq 1 .. Len(e.node) /\ 0 \in 0 .. groups /\ e \in States(groups)
  BY <1>1 DEF Forest, Typed, States
<1>3. s \in Seq(Nat) /\ e.node \in Seq(EagerNode) /\ DOMAIN e.node = 1 .. Len(e.node)
  BY <1>2, LenProperties DEF States
<1>4. r \in Seq(Nat) /\ Distinct(r) /\ Members(r) = Members(s) \ blocks
  <2> HIDE DEF blocks, s
  <2>1. QED
    BY <1>1, <1>3, WithoutMembers
<1>5. v = [e EXCEPT !.list = list, !.total = e.total - less]
  <2>1. Collectable(e, groups)
    BY <1>1, <1>2 DEF Collectable
  <2>2. v = Collected(e)
    BY <2>1, CollectTotal
  <2>3. QED
    BY <2>2 DEF Collected
<1> HIDE DEF r
<1>6. /\ list \in [0 .. groups -> Seq(Nat)] /\ list[0] = r
      /\ \A h \in 0 .. groups : h # 0 => list[h] = e.list[h]
  BY <1>2, <1>4 DEF States
<1>7. less \in Int
  BY <1>3, Weighed
<1> HIDE DEF list, less
<1>8. /\ v \in States(groups)
      /\ v.node = e.node /\ v.used = e.used /\ v.current = e.current
      /\ v.list = list /\ v.total = e.total - less
  <2> DEFINE w == [e EXCEPT !.list = list]
             left == e.total - less
  <2>1. /\ w \in States(groups)
        /\ w.node = e.node /\ w.used = e.used /\ w.current = e.current
        /\ w.list = list /\ w.total = e.total
    BY <1>2, <1>6 DEF States
  <2>2. left \in Int
    BY <1>2, <1>7 DEF States
  <2>3. v = [w EXCEPT !.total = left]
    BY <1>5
  <2> HIDE DEF w, left
  <2>4. /\ v \in States(groups)
        /\ v.node = w.node /\ v.used = w.used /\ v.current = w.current
        /\ v.list = w.list /\ v.total = left
    BY <2>1, <2>2, <2>3 DEF States
  <2>5. QED
    BY <2>1, <2>4 DEF left
<1>9. \A g \in 1 .. groups : v.list[g] = e.list[g] /\ g \in 0 .. groups /\ g # 0
  <2>1. \A g \in 1 .. groups : g \in 0 .. groups /\ g # 0
    BY <1>1
  <2>2. QED
    BY <1>6, <1>8, <2>1
<1>10. Idle(v) = Idle(e) \ blocks
  BY <1>4, <1>6, <1>8 DEF Idle
<1>11. /\ \A m \in gone : e.node[m].parent = 0
       /\ gone \cap (busy \cup Cut(e.node)) = {}
  BY <1>1 DEF BlocksOf, Forest
<1>12. Forest(e.node, Idle(e) \ gone, busy, Current(e, busy) \ gone)
  <2> HIDE DEF gone
  <2>1. QED
    BY <1>1, <1>11, Drop
<1>13. Idle(v) = Idle(e) \ gone /\ Current(v, busy) = Current(e, busy) \ gone
  BY <1>8, <1>10, <1>11 DEF Current
<1>14. Ready(v, groups, busy)
  <2>1. Typed(v, groups)
    BY <1>1, <1>8 DEF Typed, States
  <2>2. Distinct(v.list[0])
    BY <1>4, <1>6, <1>8
  <2>3. QED
    BY <1>8, <1>12, <1>13, <2>1, <2>2 DEF Ready
<1>15. KeptUpto(v, groups) = KeptUpto(e, groups)
  BY <1>9 DEF KeptUpto
<1>16. Lists(v, groups)
  <2>1. Members(v.list[0]) \subseteq Members(e.list[0]) /\ Distinct(v.list[0])
    BY <1>4, <1>6, <1>8
  <2>2. \A g \in 0 .. groups : g = 0 \/ v.list[g] = e.list[g]
    BY <1>6, <1>8
  <2>3. \A g \in 0 .. groups : Distinct(v.list[g])
    BY <1>1, <2>1, <2>2 DEF Lists
  <2>4. \A g \in 0 .. groups : Members(v.list[g]) \subseteq Members(e.list[g])
    BY <2>1, <2>2
  <2>5. \A g, h \in 0 .. groups : g # h => Members(v.list[g]) \cap Members(v.list[h]) = {}
    BY <1>1, <2>4 DEF Lists
  <2>6. QED
    BY <2>3, <2>5 DEF Lists
<1>17. Shares(v, groups, busy)
  BY <1>1, <1>8, <1>14, <1>15, <1>16 DEF Shares
<1>18. GroupsOf(v) = groups /\ Taken(v) = busy
  BY <1>17, SharesOf
<1>19. v.total = Total(v.node, RootsIn(v, Current(v, busy)))
  <2> DEFINE before == RootsIn(e, Current(e, busy))
             after == RootsIn(v, Current(v, busy))
  <2>1. Current(e, busy) \subseteq 1 .. Len(e.node) /\ gone \subseteq Current(e, busy)
    BY <1>1, SharesOf DEF Current
  <2>2. before = after \cup gone /\ after \cap gone = {}
    BY <1>8, <1>11, <1>13, <2>1 DEF RootsIn
  <2>3. Total(e.node, after) \in Int
    BY <1>3, Weighed
  <2> HIDE DEF before, after, gone
  <2>4. Total(e.node, before) = Total(e.node, after) + Total(e.node, gone)
    BY <1>3, <2>2, TotalApart
  <2>5. e.total = Total(e.node, after) + less
    BY <1>1, <2>4 DEF before, less
  <2> DEFINE a == Total(e.node, after)
             b == e.total
  <2>6. a \in Int /\ less \in Int /\ b = a + less /\ v.total = b - less
    BY <1>7, <1>8, <2>3, <2>5
  <2> HIDE DEF a, b
  <2>7. v.total = a
    BY <2>6
  <2>8. QED
    BY <1>8, <2>7 DEF a, after
<1>20. Sound(v)
  BY <1>17, <1>18, <1>19 DEF Sound
<1>21. QED
  BY <1>8, <1>9, <1>18, <1>20 DEF groups

-----------------------------------------------------------------------------
(* The tensors of a resize, and the nodes they were given.                 *)

Tensors(chunks) ==
  [size : Nat \ {0}, live : BOOLEAN, group : Nat, chunk : chunks,
   node : Nat, block : Nat, off : Nat]

(* A tensor lies in its node.                                              *)
Placed(e, t) ==
  /\ t.node \in 1 .. Len(e.node)
  /\ t.block = e.node[t.node].block /\ t.off = e.node[t.node].off
  /\ t.size <= e.node[t.node].size
  /\ t.group \in 0 .. GroupsOf(e)

(* A node in use belongs to one live tensor.  A node a group has had is    *)
(* in the group's list or belongs to a live tensor of the same group.      *)
Owned(e, ts) ==
  /\ \A t \in DOMAIN ts : ts[t].live => ts[t].node \in e.used
  /\ \A t, u \in DOMAIN ts :
       ts[t].live /\ ts[u].live /\ ts[t].node = ts[u].node => t = u
  /\ \A x \in e.used : \E t \in DOMAIN ts : ts[t].live /\ ts[t].node = x
  /\ \A t \in DOMAIN ts : ts[t].group # 0 =>
       \/ ts[t].node \in Members(e.list[ts[t].group])
       \/ \E u \in DOMAIN ts :
            ts[u].live /\ ts[u].group = ts[t].group /\ ts[u].node = ts[t].node

(* Tensors lie apart when they are in one block.                           *)
ApartIn(a, b) == a.block = b.block => Apart(a.off, a.size, b.off, b.size)

Planned(e, ts, pairs) ==
  /\ \E chunks : ts \in Seq(Tensors(chunks))
  /\ \A t \in DOMAIN ts : Placed(e, ts[t])
  /\ Owned(e, ts)
  /\ pairs \subseteq (DOMAIN ts) \X (DOMAIN ts)
  /\ \A p \in pairs : ApartIn(ts[p[1]], ts[p[2]])

(* No tensor is planned.                                                   *)
LEMMA PlannedNone ==
  ASSUME NEW e, e.used = {}
  PROVE  Planned(e, <<>>, {})
<1>1. <<>> \in Seq(Tensors({})) /\ DOMAIN <<>> = {}
  OBVIOUS
<1>2. Owned(e, <<>>)
  BY <1>1 DEF Owned
<1>3. QED
  BY <1>1, <1>2 DEF Planned

(* The tensors stay where they are, as the nodes do.                       *)
Stays(v, e) ==
  /\ e.node \in Seq(EagerNode) /\ Same(v.node, e.node)
  /\ v.used = e.used /\ GroupsOf(e) \in Nat
  /\ GroupsOf(v) \in Nat /\ GroupsOf(e) <= GroupsOf(v)
  /\ \A g \in 1 .. GroupsOf(e) : v.list[g] = e.list[g]

(* A group begins or ends, or garbage is collected.                        *)
LEMMA PlannedStays ==
  ASSUME NEW e, NEW ts, NEW pairs, Planned(e, ts, pairs), NEW v, Stays(v, e)
  PROVE  Planned(v, ts, pairs)
<1>1. ASSUME NEW t \in DOMAIN ts
      PROVE  Placed(v, ts[t])
  <2>1. Placed(e, ts[t])
    BY DEF Planned
  <2> DEFINE x == ts[t].node
             g == ts[t].group
  <2>2. x \in 1 .. Len(e.node) /\ g \in 0 .. GroupsOf(e)
    BY <2>1 DEF Placed
  <2>3. /\ v.node[x].block = e.node[x].block /\ v.node[x].off = e.node[x].off
        /\ v.node[x].size = e.node[x].size /\ x \in 1 .. Len(v.node)
    BY <2>2 DEF Stays, Same
  <2>4. g \in 0 .. GroupsOf(v)
    <3> DEFINE a == GroupsOf(e)
               b == GroupsOf(v)
    <3>1. a \in Nat /\ b \in Nat /\ a <= b /\ g \in 0 .. a
      BY <2>2 DEF Stays
    <3> HIDE DEF a, b, g
    <3>2. g \in 0 .. b
      BY <3>1
    <3>3. QED
      BY <3>2 DEF b
  <2>5. QED
    BY <2>1, <2>3, <2>4 DEF Placed
<1>2. Owned(v, ts)
  <2>1. ASSUME NEW t \in DOMAIN ts, ts[t].group # 0
        PROVE  v.list[ts[t].group] = e.list[ts[t].group]
    <3>1. ts[t].group \in 0 .. GroupsOf(e) /\ GroupsOf(e) \in Nat
      BY DEF Planned, Placed, Stays
    <3>2. ts[t].group \in 1 .. GroupsOf(e)
      BY <2>1, <3>1
    <3>3. QED
      BY <3>2 DEF Stays
  <2>2. Owned(e, ts) /\ v.used = e.used
    BY DEF Planned, Stays
  <2>3. \A t \in DOMAIN ts : ts[t].group # 0 =>
          \/ ts[t].node \in Members(v.list[ts[t].group])
          \/ \E u \in DOMAIN ts :
               ts[u].live /\ ts[u].group = ts[t].group /\ ts[u].node = ts[t].node
    BY <2>1, <2>2 DEF Owned
  <2>4. QED
    BY <2>2, <2>3 DEF Owned
<1>3. QED
  BY <1>1, <1>2 DEF Planned

(* A tensor that differs from another in being live, or in its group.      *)
Moved(w, t) ==
  /\ w.size = t.size /\ w.node = t.node /\ w.block = t.block /\ w.off = t.off
  /\ w.chunk = t.chunk

Changed(ws, ts) ==
  /\ \E chunks : ws \in Seq(Tensors(chunks))
  /\ DOMAIN ws = DOMAIN ts
  /\ \A u \in DOMAIN ts : Moved(ws[u], ts[u])

(* Where tensors lie does not depend on what else changes about them.      *)
LEMMA ChangedApart ==
  ASSUME NEW ts, NEW pairs, NEW ws, Changed(ws, ts),
         pairs \subseteq (DOMAIN ts) \X (DOMAIN ts),
         \A p \in pairs : ApartIn(ts[p[1]], ts[p[2]])
  PROVE  /\ pairs \subseteq (DOMAIN ws) \X (DOMAIN ws)
         /\ \A p \in pairs : ApartIn(ws[p[1]], ws[p[2]])
<1>1. ASSUME NEW p \in pairs
      PROVE  ApartIn(ws[p[1]], ws[p[2]])
  <2>1. p[1] \in DOMAIN ts /\ p[2] \in DOMAIN ts
    OBVIOUS
  <2>2. Moved(ws[p[1]], ts[p[1]]) /\ Moved(ws[p[2]], ts[p[2]])
    BY <2>1 DEF Changed
  <2>3. ApartIn(ts[p[1]], ts[p[2]])
    OBVIOUS
  <2>4. QED
    BY <2>2, <2>3 DEF Moved, ApartIn
<1>2. QED
  BY <1>1 DEF Changed

(* Node n comes back: to group g, or to the list of all when g is none.    *)
GivesBack(v, e, g, n) ==
  /\ Same(v.node, e.node) /\ GroupsOf(v) = GroupsOf(e) /\ GroupsOf(e) \in Nat
  /\ v.used = e.used \ {n}
  /\ \A h \in 1 .. GroupsOf(e) : h # g => v.list[h] = e.list[h]
  /\ g # 0 => Members(v.list[g]) = Members(e.list[g]) \cup {n}

Dies(ws, ts, t) ==
  /\ Changed(ws, ts)
  /\ \A u \in DOMAIN ts : ws[u].group = ts[u].group
  /\ \A u \in DOMAIN ts : ws[u].live <=> (ts[u].live /\ u # t)

(* A tensor's memory comes back.                                           *)
LEMMA PlannedDies ==
  ASSUME NEW e, NEW ts, NEW pairs, Planned(e, ts, pairs),
         NEW t \in DOMAIN ts, ts[t].live, NEW v, GivesBack(v, e, ts[t].group, ts[t].node),
         NEW ws, Dies(ws, ts, t)
  PROVE  Planned(v, ws, pairs)
<1> DEFINE n == ts[t].node
           g == ts[t].group
<1>1. ASSUME NEW u \in DOMAIN ts
      PROVE  Placed(v, ws[u])
  <2>1. Placed(e, ts[u]) /\ Moved(ws[u], ts[u]) /\ ws[u].group = ts[u].group
    BY DEF Planned, Dies, Changed
  <2> DEFINE x == ts[u].node
  <2>2. x \in 1 .. Len(e.node)
    BY <2>1 DEF Placed
  <2>3. /\ v.node[x].block = e.node[x].block /\ v.node[x].off = e.node[x].off
        /\ v.node[x].size = e.node[x].size /\ x \in 1 .. Len(v.node)
    BY <2>2 DEF GivesBack, Same
  <2>4. ws[u].group \in 0 .. GroupsOf(v)
    BY <2>1 DEF Placed, GivesBack
  <2>5. QED
    BY <2>1, <2>3, <2>4 DEF Placed, Moved
<1>2. /\ Owned(e, ts) /\ DOMAIN ws = DOMAIN ts
      /\ \A u \in DOMAIN ts : ws[u].node = ts[u].node /\ ws[u].group = ts[u].group
      /\ \A u \in DOMAIN ts : ws[u].live <=> (ts[u].live /\ u # t)
      /\ v.used = e.used \ {n}
  BY DEF Planned, Dies, Changed, Moved, GivesBack
<1>3. \A u \in DOMAIN ts : ws[u].live => ws[u].node \in v.used
  BY <1>2 DEF Owned
<1>4. \A u, w \in DOMAIN ts :
        ws[u].live /\ ws[w].live /\ ws[u].node = ws[w].node => u = w
  BY <1>2 DEF Owned
<1>5. \A x \in v.used : \E u \in DOMAIN ts : ws[u].live /\ ws[u].node = x
  BY <1>2 DEF Owned
<1>6. ASSUME NEW s \in DOMAIN ts, ws[s].group # 0
      PROVE  \/ ws[s].node \in Members(v.list[ws[s].group])
             \/ \E u \in DOMAIN ts :
                  ws[u].live /\ ws[u].group = ws[s].group /\ ws[u].node = ws[s].node
  <2> DEFINE h == ts[s].group
             m == ts[s].node
  <2>1. h \in 1 .. GroupsOf(e)
    <3>1. Placed(e, ts[s]) /\ h # 0
      BY <1>2, <1>6 DEF Planned
    <3>2. h \in 0 .. GroupsOf(e) /\ GroupsOf(e) \in Nat
      BY <3>1 DEF Placed, GivesBack
    <3> HIDE DEF h
    <3>3. QED
      BY <3>1, <3>2
  <2>2. Members(e.list[h]) \subseteq Members(v.list[h])
    <3>1. CASE h = g
      <4>1. Members(v.list[g]) = Members(e.list[g]) \cup {n}
        BY <1>2, <1>6, <3>1 DEF GivesBack
      <4> HIDE DEF h, g
      <4>2. QED
        BY <3>1, <4>1
    <3>2. CASE h # g
      BY <2>1, <3>2 DEF GivesBack
    <3>3. QED
      BY <3>1, <3>2
  <2>3. \/ m \in Members(e.list[h])
        \/ \E u \in DOMAIN ts : ts[u].live /\ ts[u].group = h /\ ts[u].node = m
    BY <1>2, <1>6 DEF Owned
  <2>4. CASE m \in Members(e.list[h])
    BY <1>2, <2>2, <2>4
  <2>5. ASSUME NEW u \in DOMAIN ts, ts[u].live, ts[u].group = h, ts[u].node = m
        PROVE  \/ ws[s].node \in Members(v.list[ws[s].group])
               \/ \E w \in DOMAIN ts :
                    ws[w].live /\ ws[w].group = ws[s].group /\ ws[w].node = ws[s].node
    <3>1. CASE u = t
      <4>1. h = g /\ m = n /\ h # 0
        BY <1>2, <1>6, <2>5, <3>1
      <4>2. Members(v.list[g]) = Members(e.list[g]) \cup {n}
        BY <4>1 DEF GivesBack
      <4>3. m \in Members(v.list[h])
        BY <4>1, <4>2
      <4>4. QED
        BY <1>2, <4>3
    <3>2. CASE u # t
      <4>1. ws[u].live /\ ws[u].group = ws[s].group /\ ws[u].node = ws[s].node
        BY <1>2, <2>5, <3>2
      <4>2. QED
        BY <4>1
    <3>3. QED
      BY <3>1, <3>2
  <2>6. QED
    BY <2>3, <2>4, <2>5
<1>7. Owned(v, ws)
  BY <1>2, <1>3, <1>4, <1>5, <1>6 DEF Owned
<1>8. /\ pairs \subseteq (DOMAIN ws) \X (DOMAIN ws)
      /\ \A p \in pairs : ApartIn(ws[p[1]], ws[p[2]])
  <2>1. /\ Changed(ws, ts) /\ pairs \subseteq (DOMAIN ts) \X (DOMAIN ts)
        /\ \A p \in pairs : ApartIn(ts[p[1]], ts[p[2]])
    BY DEF Planned, Dies
  <2>2. QED
    BY ONLY <2>1, ChangedApart
<1>9. \A u \in DOMAIN ws : Placed(v, ws[u])
  BY <1>1, <1>2
<1>10. \E chunks : ws \in Seq(Tensors(chunks))
  BY DEF Dies, Changed
<1>11. QED
  BY <1>7, <1>8, <1>9, <1>10 DEF Planned

(* The barrier ends: no tensor belongs to a group any more.                *)
Disbands(v, e, ws, ts) ==
  /\ Same(v.node, e.node) /\ GroupsOf(v) = 0 /\ v.used = e.used
  /\ Changed(ws, ts)
  /\ \A u \in DOMAIN ts : ws[u].group = 0 /\ ws[u].live = ts[u].live

(* Then every tensor is where it was.                                      *)
LEMMA PlannedDisbands ==
  ASSUME NEW e, NEW ts, NEW pairs, Planned(e, ts, pairs), NEW v, NEW ws,
         Disbands(v, e, ws, ts)
  PROVE  Planned(v, ws, pairs)
<1>1. ASSUME NEW u \in DOMAIN ts
      PROVE  Placed(v, ws[u])
  <2>1. Placed(e, ts[u]) /\ Moved(ws[u], ts[u]) /\ ws[u].group = 0
    BY DEF Planned, Disbands, Changed
  <2> DEFINE x == ts[u].node
  <2>2. x \in 1 .. Len(e.node)
    BY <2>1 DEF Placed
  <2>3. /\ v.node[x].block = e.node[x].block /\ v.node[x].off = e.node[x].off
        /\ v.node[x].size = e.node[x].size /\ x \in 1 .. Len(v.node)
    BY <2>2 DEF Disbands, Same
  <2>4. ws[u].group \in 0 .. GroupsOf(v)
    BY <2>1 DEF Disbands
  <2>5. QED
    BY <2>1, <2>3, <2>4 DEF Placed, Moved
<1>2. /\ Owned(e, ts) /\ DOMAIN ws = DOMAIN ts
      /\ \A u \in DOMAIN ts : ws[u].node = ts[u].node /\ ws[u].group = 0
      /\ \A u \in DOMAIN ts : ws[u].live = ts[u].live
      /\ v.used = e.used
  BY DEF Planned, Disbands, Changed, Moved
<1>3. Owned(v, ws)
  BY <1>2 DEF Owned
<1>4. /\ pairs \subseteq (DOMAIN ws) \X (DOMAIN ws)
      /\ \A p \in pairs : ApartIn(ws[p[1]], ws[p[2]])
  <2>1. /\ Changed(ws, ts) /\ pairs \subseteq (DOMAIN ts) \X (DOMAIN ts)
        /\ \A p \in pairs : ApartIn(ts[p[1]], ts[p[2]])
    BY DEF Planned, Disbands
  <2>2. QED
    BY ONLY <2>1, ChangedApart
<1>5. \A u \in DOMAIN ws : Placed(v, ws[u])
  BY <1>1, <1>2
<1>6. \E chunks : ws \in Seq(Tensors(chunks))
  BY DEF Disbands, Changed
<1>7. QED
  BY <1>3, <1>4, <1>5, <1>6 DEF Planned

(* One tensor more, for the node that alloc() returned.                    *)
Gives(v, e, ws, ts) ==
  LET x == v.last
      k == Len(ts) + 1
  IN  /\ Len(ts) \in Nat /\ DOMAIN ts = 1 .. Len(ts)
      /\ \E chunks : ws \in Seq(Tensors(chunks))
      /\ DOMAIN ws = 1 .. k
      /\ \A u \in 1 .. Len(ts) : ws[u] = ts[u]
      /\ ws[k].live /\ ws[k].group = e.current /\ ws[k].node = x
      /\ ws[k].block = v.node[x].block /\ ws[k].off = v.node[x].off
      /\ ws[k].size <= v.node[x].size
      /\ e.node \in Seq(EagerNode) /\ GroupsOf(v) = GroupsOf(e) /\ GroupsOf(e) \in Nat
      /\ e.current \in 0 .. GroupsOf(e)
      /\ Grows(v.node, e.node) /\ x \in 1 .. Len(v.node)
      /\ v.used = e.used \cup {x} /\ x \notin e.used
      /\ \A g \in 1 .. GroupsOf(e) :
           /\ Members(v.list[g]) = Members(e.list[g]) \ {x}
           /\ g # e.current => x \notin Members(e.list[g])

(* The tensors a request must stay clear of.                               *)
Others(e, ts) == {t \in DOMAIN ts : ts[t].live \/ ts[t].group \notin {0, e.current}}

(* The new tensor is in its node, and the others are where they were.      *)
LEMMA GivesPlaced ==
  ASSUME NEW e, NEW ts, NEW pairs, Planned(e, ts, pairs), NEW v, NEW ws,
         Gives(v, e, ws, ts)
  PROVE  \A u \in DOMAIN ws : Placed(v, ws[u])
<1> DEFINE k == Len(ts) + 1
<1>1. /\ Len(ts) \in Nat /\ DOMAIN ts = 1 .. Len(ts) /\ DOMAIN ws = 1 .. k
      /\ \A u \in 1 .. Len(ts) : ws[u] = ts[u]
      /\ e.current \in 0 .. GroupsOf(e) /\ GroupsOf(v) = GroupsOf(e)
      /\ e.node \in Seq(EagerNode) /\ Grows(v.node, e.node)
  BY DEF Gives
<1>2. Placed(v, ws[k])
  BY <1>1 DEF Gives, Placed
<1>3. ASSUME NEW u \in 1 .. Len(ts)
      PROVE  Placed(v, ws[u])
  <2> DEFINE x == ts[u].node
  <2>1. Placed(e, ts[u]) /\ ws[u] = ts[u]
    BY <1>1 DEF Planned
  <2>2. x \in 1 .. Len(e.node)
    BY <2>1 DEF Placed
  <2>3. /\ v.node[x].block = e.node[x].block /\ v.node[x].off = e.node[x].off
        /\ v.node[x].size = e.node[x].size
    BY <1>1, <2>2 DEF Grows
  <2>4. x \in 1 .. Len(v.node)
    <3> DEFINE a == Len(e.node)
               b == Len(v.node)
    <3>1. a \in Nat /\ b \in Nat /\ a <= b /\ x \in 1 .. a
      BY <1>1, <2>2, LenProperties DEF Grows
    <3> HIDE DEF a, b, x
    <3>2. x \in 1 .. b
      BY <3>1
    <3>3. QED
      BY <3>2 DEF b
  <2>5. QED
    BY <1>1, <2>1, <2>3, <2>4 DEF Placed
<1>4. \A u \in DOMAIN ws : u = k \/ u \in 1 .. Len(ts)
  BY <1>1
<1>5. QED
  BY <1>2, <1>3, <1>4

(* The node belongs to the new tensor alone.                               *)
LEMMA GivesOwned ==
  ASSUME NEW e, NEW ts, NEW pairs, Planned(e, ts, pairs), NEW v, NEW ws,
         Gives(v, e, ws, ts)
  PROVE  Owned(v, ws)
<1> DEFINE k == Len(ts) + 1
           x == v.last
           D == DOMAIN ts
           E == DOMAIN ws
           c == e.current
<1>1. /\ k \notin D /\ E = D \cup {k}
      /\ \A u \in D : ws[u] = ts[u]
  <2>1. Len(ts) \in Nat /\ D = 1 .. Len(ts) /\ E = 1 .. k
    BY DEF Gives
  <2>2. k \notin 1 .. Len(ts) /\ 1 .. k = (1 .. Len(ts)) \cup {k}
    BY <2>1
  <2>3. \A u \in 1 .. Len(ts) : ws[u] = ts[u]
    BY DEF Gives
  <2>4. QED
    BY <2>1, <2>2, <2>3
<1>2. /\ ws[k].live /\ ws[k].group = c /\ ws[k].node = x
      /\ v.used = e.used \cup {x} /\ x \notin e.used
      /\ \A g \in 1 .. GroupsOf(e) :
           /\ Members(v.list[g]) = Members(e.list[g]) \ {x}
           /\ g # c => x \notin Members(e.list[g])
  BY DEF Gives
<1>3. Owned(e, ts) /\ \A t \in D : Placed(e, ts[t])
  BY DEF Planned
<1> HIDE DEF k, x, c
<1>4. \A t \in E : ws[t].live => ws[t].node \in v.used
  BY <1>1, <1>2, <1>3 DEF Owned
<1>5. \A t, u \in E : ws[t].live /\ ws[u].live /\ ws[t].node = ws[u].node => t = u
  <2>1. \A t \in D : ws[t].live => ws[t].node # x
    BY <1>1, <1>2, <1>3 DEF Owned
  <2>2. \A t, u \in D : ws[t].live /\ ws[u].live /\ ws[t].node = ws[u].node => t = u
    BY <1>1, <1>3 DEF Owned
  <2>3. QED
    BY <1>1, <1>2, <2>1, <2>2
<1>6. \A y \in v.used : \E t \in E : ws[t].live /\ ws[t].node = y
  <2>1. ASSUME NEW y \in v.used
        PROVE  \E t \in E : ws[t].live /\ ws[t].node = y
    <3>1. CASE y = x
      BY <1>1, <1>2, <3>1
    <3>2. CASE y \in e.used
      <4>1. PICK t \in D : ts[t].live /\ ts[t].node = y
        BY <1>3, <3>2 DEF Owned
      <4>2. t \in E /\ ws[t].live /\ ws[t].node = y
        BY <1>1, <4>1
      <4>3. QED
        BY <4>2
    <3>3. QED
      BY <1>2, <3>1, <3>2
  <2>2. QED
    BY <2>1
<1>7. ASSUME NEW t \in E, ws[t].group # 0
      PROVE  \/ ws[t].node \in Members(v.list[ws[t].group])
             \/ \E u \in E :
                  ws[u].live /\ ws[u].group = ws[t].group /\ ws[u].node = ws[t].node
  <2>1. CASE t = k
    BY <1>1, <1>2, <2>1
  <2>2. CASE t \in D
    <3> DEFINE h == ts[t].group
               m == ts[t].node
    <3>1. ws[t].group = h /\ ws[t].node = m /\ h # 0
      BY <1>1, <1>7, <2>2
    <3>2. h \in 1 .. GroupsOf(e)
      <4>1. h \in 0 .. GroupsOf(e) /\ GroupsOf(e) \in Nat
        BY <1>3, <2>2 DEF Placed, Gives
      <4> HIDE DEF h
      <4>2. QED
        BY <3>1, <4>1
    <3>3. \/ m \in Members(e.list[h])
          \/ \E u \in D : ts[u].live /\ ts[u].group = h /\ ts[u].node = m
      BY <1>3, <2>2, <3>1 DEF Owned
    <3>4. CASE m \in Members(e.list[h]) /\ m # x
      BY <1>2, <3>1, <3>2, <3>4
    <3>5. CASE m \in Members(e.list[h]) /\ m = x
      <4>1. h = c
        BY <1>2, <3>2, <3>5
      <4>2. ws[k].live /\ ws[k].group = ws[t].group /\ ws[k].node = ws[t].node /\ k \in E
        BY <1>1, <1>2, <3>1, <3>5, <4>1
      <4>3. QED
        BY <4>2
    <3>6. CASE \E u \in D : ts[u].live /\ ts[u].group = h /\ ts[u].node = m
      <4>1. PICK u \in D : ts[u].live /\ ts[u].group = h /\ ts[u].node = m
        BY <3>6
      <4>2. u \in E /\ ws[u].live /\ ws[u].group = ws[t].group /\ ws[u].node = ws[t].node
        BY <1>1, <3>1, <4>1
      <4>3. QED
        BY <4>2
    <3>7. QED
      BY <3>3, <3>4, <3>5, <3>6
  <2>3. QED
    BY <1>1, <2>1, <2>2
<1>8. QED
  BY <1>4, <1>5, <1>6, <1>7 DEF Owned

(* The new tensor's node is none of those it must stay clear of, and those *)
(* are lent or kept.                                                       *)
LEMMA GivesApart ==
  ASSUME NEW e, NEW ts, NEW pairs, Planned(e, ts, pairs), NEW v, NEW ws,
         Gives(v, e, ws, ts), NEW busy, busy = Taken(e),
         Ready(v, GroupsOf(e), busy \cup {v.last}),
         NEW t \in Others(e, ts)
  PROVE  ApartIn(ws[t], ws[Len(ts) + 1])
<1> DEFINE k == Len(ts) + 1
           x == v.last
           m == ts[t].node
           N == v.node
<1>1. /\ t \in DOMAIN ts /\ Placed(e, ts[t]) /\ Owned(e, ts)
      /\ ws[t] = ts[t] /\ t \in DOMAIN ws /\ k \in DOMAIN ws
  <2>1. /\ Len(ts) \in Nat /\ DOMAIN ts = 1 .. Len(ts) /\ DOMAIN ws = 1 .. k
        /\ \A u \in 1 .. Len(ts) : ws[u] = ts[u]
    BY DEF Gives
  <2>2. t \in DOMAIN ts /\ Placed(e, ts[t]) /\ Owned(e, ts)
    BY DEF Others, Planned
  <2>3. QED
    BY <2>1, <2>2
<1>2. m \in busy /\ m # x
  <2>1. CASE m \in e.used
    BY <2>1 DEF Gives, Taken
  <2>2. CASE m \notin e.used
    <3> DEFINE h == ts[t].group
    <3>1. h # 0 /\ h # e.current
      BY <1>1, <2>2 DEF Others, Owned
    <3>2. h \in 1 .. GroupsOf(e)
      <4>1. h \in 0 .. GroupsOf(e) /\ GroupsOf(e) \in Nat
        BY <1>1 DEF Placed, Gives
      <4> HIDE DEF h
      <4>2. QED
        BY <3>1, <4>1
    <3>3. m \in Members(e.list[h])
      BY <1>1, <2>2, <3>1 DEF Owned
    <3>4. m \in KeptUpto(e, GroupsOf(e))
      BY <3>2, <3>3, KeptMember
    <3>5. x \notin Members(e.list[h])
      BY <3>1, <3>2 DEF Gives
    <3>6. QED
      BY <3>3, <3>4, <3>5 DEF Taken
  <2>3. QED
    BY <2>1, <2>2
<1>3. Separate(N, m, x)
  BY <1>2 DEF Ready, Forest
<1>4. /\ Placed(v, ws[t]) /\ Placed(v, ws[k])
      /\ ws[t].node = m /\ ws[k].node = x
  <2>1. Placed(v, ws[t]) /\ Placed(v, ws[k])
    BY <1>1, GivesPlaced
  <2>2. QED
    BY <1>1, <2>1 DEF Gives
<1>5. Tree(N)
  BY DEF Ready, Forest
<1> DEFINE a == ws[t]
           b == ws[k]
<1>6. /\ a.block = N[m].block /\ a.off = N[m].off /\ a.size <= N[m].size
      /\ b.block = N[x].block /\ b.off = N[x].off /\ b.size <= N[x].size
      /\ m \in 1 .. Len(N) /\ x \in 1 .. Len(N)
  BY <1>4 DEF Placed
<1>7. a.size \in Nat \ {0} /\ b.size \in Nat \ {0}
  <2>1. PICK chunks : ws \in Seq(Tensors(chunks))
    BY DEF Gives
  <2>2. a \in Tensors(chunks) /\ b \in Tensors(chunks)
    BY <1>1, <2>1
  <2> HIDE DEF a, b
  <2>3. QED
    BY <2>2 DEF Tensors
<1>8. /\ N[m].size \in Nat /\ N[x].size \in Nat /\ N[m].off \in Nat /\ N[x].off \in Nat
  BY <1>5, <1>6, NodeTyped
<1>9. ASSUME a.block = b.block
      PROVE  Apart(a.off, a.size, b.off, b.size)
  <2> DEFINE p == N[m].size
             q == N[x].size
             i == N[m].off
             j == N[x].off
             r == a.size
             s == b.size
  <2>1. /\ p \in Nat /\ q \in Nat /\ i \in Nat /\ j \in Nat
        /\ r \in Nat /\ s \in Nat /\ r # 0 /\ s # 0 /\ r <= p /\ s <= q
        /\ a.off = i /\ b.off = j
    BY <1>6, <1>7, <1>8
  <2>2. p # 0 /\ q # 0
    <3> HIDE DEF p, q, i, j, r, s
    <3>1. QED
      BY <2>1
  <2>3. Apart(i, p, j, q)
    BY <1>3, <1>6, <1>9, <2>2 DEF Separate
  <2> HIDE DEF p, q, i, j, r, s
  <2>4. Apart(i, r, j, s)
    BY <2>1, <2>3 DEF Apart
  <2>5. QED
    BY <2>1, <2>4 DEF r, s
<1>10. QED
  BY <1>9 DEF ApartIn

(* A request is planned.                                                   *)
LEMMA PlannedGives ==
  ASSUME NEW e, NEW ts, NEW pairs, Planned(e, ts, pairs), NEW v, NEW ws,
         Gives(v, e, ws, ts), NEW busy, busy = Taken(e),
         Ready(v, GroupsOf(e), busy \cup {v.last})
  PROVE  Planned(v, ws, pairs \cup (Others(e, ts) \X {Len(ts) + 1}))
<1> DEFINE k == Len(ts) + 1
           new == Others(e, ts) \X {k}
<1>1. /\ \E chunks : ws \in Seq(Tensors(chunks))
      /\ DOMAIN ts \subseteq DOMAIN ws /\ k \in DOMAIN ws
      /\ \A u \in DOMAIN ts : ws[u] = ts[u]
  <2>1. /\ Len(ts) \in Nat /\ DOMAIN ts = 1 .. Len(ts) /\ DOMAIN ws = 1 .. k
        /\ \A u \in 1 .. Len(ts) : ws[u] = ts[u]
        /\ \E chunks : ws \in Seq(Tensors(chunks))
    BY DEF Gives
  <2>2. 1 .. Len(ts) \subseteq 1 .. k /\ k \in 1 .. k
    BY <2>1
  <2> HIDE DEF k
  <2>3. QED
    BY <2>1, <2>2
<1>2. (\A u \in DOMAIN ws : Placed(v, ws[u])) /\ Owned(v, ws)
  BY GivesPlaced, GivesOwned
<1>3. /\ pairs \subseteq (DOMAIN ts) \X (DOMAIN ts)
      /\ \A p \in pairs : ApartIn(ts[p[1]], ts[p[2]])
  BY DEF Planned
<1>4. \A t \in Others(e, ts) : ApartIn(ws[t], ws[k])
  BY GivesApart
<1>5. Others(e, ts) \subseteq DOMAIN ts
  BY DEF Others
<1> HIDE DEF k
<1>6. ASSUME NEW p \in pairs \cup new
      PROVE  p \in (DOMAIN ws) \X (DOMAIN ws) /\ ApartIn(ws[p[1]], ws[p[2]])
  <2>1. CASE p \in pairs
    <3>1. p[1] \in DOMAIN ts /\ p[2] \in DOMAIN ts /\ p \in (DOMAIN ws) \X (DOMAIN ws)
      BY <1>1, <1>3, <2>1
    <3>2. ws[p[1]] = ts[p[1]] /\ ws[p[2]] = ts[p[2]]
      BY <1>1, <3>1
    <3>3. QED
      BY <1>3, <2>1, <3>1, <3>2
  <2>2. CASE p \in new
    <3>1. p[1] \in Others(e, ts) /\ p[2] = k /\ p \in (DOMAIN ws) \X (DOMAIN ws)
      BY <1>1, <1>5, <2>2
    <3>2. QED
      BY <1>4, <3>1
  <2>3. QED
    BY <1>6, <2>1, <2>2
<1>7. QED
  BY <1>1, <1>2, <1>6 DEF Planned, k

(* A tensor is given back.                                                 *)
LEMMA TensorDies ==
  ASSUME NEW chunks, NEW ts \in Seq(Tensors(chunks)), NEW t \in DOMAIN ts,
         NEW ws, ws = [ts EXCEPT ![t].live = FALSE]
  PROVE  Dies(ws, ts, t)
<1> DEFINE n == Len(ts)
           d == [ts[t] EXCEPT !.live = FALSE]
<1>1. n \in Nat /\ DOMAIN ts = 1 .. n /\ \A u \in 1 .. n : ts[u] \in Tensors(chunks)
  BY ElementOfSeq, LenProperties
<1>2. /\ d \in Tensors(chunks) /\ d.live = FALSE /\ d.group = ts[t].group
      /\ Moved(d, ts[t])
  BY <1>1 DEF Tensors, Moved
<1>3. ws = [ts EXCEPT ![t] = d]
  OBVIOUS
<1> HIDE DEF d
<1>4. /\ DOMAIN ws = DOMAIN ts /\ ws[t] = d
      /\ \A u \in DOMAIN ts : u # t => ws[u] = ts[u]
  BY <1>3
<1>5. ws \in [1 .. n -> Tensors(chunks)]
  BY <1>1, <1>2, <1>3
<1>6. ws \in Seq(Tensors(chunks))
  BY <1>1, <1>5, Made
<1>7. \A u \in DOMAIN ts : Moved(ws[u], ts[u])
  BY <1>2, <1>4 DEF Moved
<1>8. \A u \in DOMAIN ts : ws[u].group = ts[u].group /\ (ws[u].live <=> (ts[u].live /\ u # t))
  BY <1>2, <1>4
<1>9. QED
  BY <1>4, <1>6, <1>7, <1>8 DEF Dies, Changed

Disbanded(ts) == [t \in DOMAIN ts |-> [ts[t] EXCEPT !.group = 0]]

(* The tensors of the groups are the operator's.                           *)
LEMMA TensorsDisband ==
  ASSUME NEW chunks, NEW ts \in Seq(Tensors(chunks)),
         NEW ws, ws = Disbanded(ts)
  PROVE  Changed(ws, ts) /\ \A u \in DOMAIN ts : ws[u].group = 0 /\ ws[u].live = ts[u].live
<1> DEFINE n == Len(ts)
<1>1. n \in Nat /\ DOMAIN ts = 1 .. n /\ \A u \in 1 .. n : ts[u] \in Tensors(chunks)
  BY ElementOfSeq, LenProperties
<1>2. ASSUME NEW u \in DOMAIN ts
      PROVE  /\ ws[u] \in Tensors(chunks) /\ ws[u].group = 0 /\ ws[u].live = ts[u].live
             /\ Moved(ws[u], ts[u])
  <2> DEFINE d == ts[u]
             w == ws[u]
  <2>1. d \in Tensors(chunks) /\ w = [d EXCEPT !.group = 0]
    BY <1>1 DEF Disbanded
  <2> HIDE DEF d, w
  <2>2. w \in Tensors(chunks) /\ w.group = 0 /\ w.live = d.live
    BY ONLY <2>1 DEF Tensors
  <2>3. Moved(w, d)
    BY ONLY <2>1 DEF Tensors, Moved
  <2>4. QED
    BY <2>2, <2>3 DEF d, w
<1>3. ws \in [1 .. n -> Tensors(chunks)]
  BY <1>1, <1>2 DEF Disbanded
<1>4. ws \in Seq(Tensors(chunks)) /\ DOMAIN ws = DOMAIN ts
  BY <1>1, <1>3, Made
<1>5. QED
  BY <1>2, <1>4 DEF Changed

(* A request adds a tensor for the node that alloc() returned.             *)
Adding(v, e, ws, ts, size, chunk) ==
  /\ Sound(e) /\ size \in Nat \ {0}
  /\ Takes(v, e, GroupsOf(e), Taken(e), size) /\ GroupsOf(v) = GroupsOf(e)
  /\ \E chunks : ts \in Seq(Tensors(chunks))
  /\ ws = Append(ts, [size |-> size, live |-> TRUE, group |-> e.current,
                      chunk |-> chunk, node |-> v.last,
                      block |-> v.node[v.last].block, off |-> v.node[v.last].off])

(* So there is a tensor more.                                              *)
LEMMA TensorAdded ==
  ASSUME NEW v, NEW e, NEW ws, NEW ts, NEW size, NEW chunk, Adding(v, e, ws, ts, size, chunk)
  PROVE  Gives(v, e, ws, ts)
<1> DEFINE groups == GroupsOf(e)
           x == v.last
           n == Len(ts)
           k == n + 1
           d == [size |-> size, live |-> TRUE, group |-> e.current,
                 chunk |-> chunk, node |-> x,
                 block |-> v.node[x].block, off |-> v.node[x].off]
<1>1. /\ Shares(e, groups, Taken(e)) /\ Takes(v, e, groups, Taken(e), size)
      /\ size \in Nat \ {0} /\ GroupsOf(v) = groups /\ ws = Append(ts, d)
  BY DEF Adding, Sound
<1>2. PICK chunks : ts \in Seq(Tensors(chunks))
  BY DEF Adding
<1>3. groups \in Nat /\ e.node \in Seq(EagerNode) /\ e.current \in 0 .. groups
  BY <1>1, SharesOf DEF Shares
<1>4. /\ Ready(v, groups, Taken(e) \cup {x}) /\ Grows(v.node, e.node)
      /\ x \in 1 .. Len(v.node) /\ size <= v.node[x].size
      /\ v.used = e.used \cup {x} /\ x \notin e.used
      /\ \A g \in 1 .. groups :
           /\ Members(v.list[g]) = Members(e.list[g]) \ {x}
           /\ g # e.current => x \notin Members(e.list[g])
  BY <1>1 DEF Takes
<1>5. Tree(v.node)
  BY <1>4 DEF Ready, Forest
<1>6. v.node[x].block \in Nat /\ v.node[x].off \in Nat /\ x \in Nat /\ e.current \in Nat
  BY <1>3, <1>4, <1>5, NodeTyped
<1> DEFINE more == chunks \cup {chunk}
<1>7. /\ d \in Tensors(more) /\ d.live = TRUE /\ d.group = e.current /\ d.node = x
      /\ d.block = v.node[x].block /\ d.off = v.node[x].off /\ d.size = size
  BY <1>1, <1>6 DEF Tensors
<1> HIDE DEF d, more, x
<1>8. n \in Nat /\ DOMAIN ts = 1 .. n /\ \A u \in 1 .. n : ts[u] \in Tensors(chunks)
  BY <1>2, ElementOfSeq, LenProperties
<1>9. \A u \in 1 .. n : ts[u] \in Tensors(more)
  <2>1. Tensors(chunks) \subseteq Tensors(more)
    BY DEF Tensors, more
  <2>2. QED
    BY <1>8, <2>1
<1>10. ts \in Seq(Tensors(more))
  <2>1. ts \in [1 .. n -> Tensors(more)]
    <3>1. ts = [u \in 1 .. n |-> ts[u]]
      BY <1>2, <1>8, LenProperties
    <3> HIDE DEF n
    <3>2. QED
      BY <1>9, <3>1
  <2>2. QED
    BY <1>8, <2>1, Made
<1>11. /\ ws \in Seq(Tensors(more)) /\ Len(ws) = k /\ ws[k] = d
       /\ \A u \in 1 .. n : ws[u] = ts[u]
  BY <1>1, <1>7, <1>10, AppendProperties
<1>12. DOMAIN ws = 1 .. k
  BY <1>11, LenProperties
<1>13. \E c : ws \in Seq(Tensors(c))
  BY <1>11
<1>14. /\ ws[k].live /\ ws[k].group = e.current /\ ws[k].node = x
       /\ ws[k].block = v.node[x].block /\ ws[k].off = v.node[x].off
       /\ ws[k].size <= v.node[x].size
  BY <1>4, <1>7, <1>11 DEF x
<1>15. QED
  BY <1>1, <1>3, <1>4, <1>8, <1>11, <1>12, <1>13, <1>14 DEF Gives, x

(* A forest without a busy node has no node that is cut: the last one that *)
(* is would have a half that is neither idle nor cut.                      *)
LEMMA NothingCut ==
  ASSUME NEW N, NEW idle, NEW current, Forest(N, idle, {}, current)
  PROVE  Cut(N) = {}
<1> DEFINE L == Len(N)
           D == {d \in 0 .. L : \E c \in Cut(N) : d = L - c}
<1> SUFFICES ASSUME Cut(N) # {} PROVE FALSE
  OBVIOUS
<1>1. /\ Tree(N) /\ current = idle \cup Cut(N) /\ idle \cap Cut(N) = {}
      /\ \A p \in Cut(N) : \E a, b \in 1 .. Len(N) : Halves(N, idle, current, p, a, b)
  BY DEF Forest
<1>2. L \in Nat /\ Cut(N) \subseteq 1 .. L
  BY <1>1, LenProperties DEF Tree, Cut
<1>3. \A c \in Cut(N) : L - c \in D
  BY <1>2
<1>4. D # {} /\ D \in SUBSET Nat
  BY <1>2, <1>3
<1>5. PICK d \in D : \A f \in D : d <= f
  BY <1>4, Least
<1>6. PICK p \in Cut(N) : d = L - p
  BY <1>5
<1>7. PICK a \in 1 .. L, b \in 1 .. L : Halves(N, idle, current, p, a, b)
  BY <1>1, <1>6
<1>8. \E c \in {a, b} : c \notin idle
  <2>1. N[p].use # 0
    BY <1>6 DEF Cut
  <2>2. a \in idle /\ b \in idle => N[p].use = 0 + 0
    BY <1>7 DEF Halves
  <2>3. QED
    BY <2>1, <2>2
<1>9. PICK c \in {a, b} : c \notin idle
  BY <1>8
<1>10. c \in Cut(N) /\ c \in 1 .. L /\ N[c].parent = p
  <2>1. a \in current /\ b \in current /\ N[a].parent = p /\ N[b].parent = p
    BY <1>7 DEF Halves
  <2>2. c \in current /\ N[c].parent = p /\ c \in 1 .. L
    BY <1>7, <1>9, <2>1
  <2>3. QED
    BY <1>1, <1>9, <2>2
<1>11. p \in 0 .. c - 1
  BY <1>1, <1>10 DEF Tree
<1>12. L - c \in D
  BY <1>3, <1>10
<1>13. L - p <= L - c
  BY <1>5, <1>6, <1>12
<1> HIDE DEF L, D
<1>14. p \in 1 .. L
  BY <1>2, <1>6
<1>15. QED
  BY <1>2, <1>10, <1>11, <1>13, <1>14

(* Nothing is lent and no group keeps a node: all blocks are whole and     *)
(* free.                                                                   *)
LEMMA AllBack ==
  ASSUME Sound(eager), eager.used = {}, GroupsOf(eager) = 0
  PROVE  /\ \A i \in DOMAIN eager.list[0] : eager.node[eager.list[0][i]].parent = 0
         /\ eager.total = Sum(eager.list[0])
<1> DEFINE N == eager.node
           s == eager.list[0]
<1>1. Taken(eager) = {}
  BY DEF Taken, KeptUpto
<1>2. /\ Shares(eager, 0, {}) /\ eager.total = Total(N, RootsIn(eager, Current(eager, {})))
  BY <1>1 DEF Sound
<1>3. /\ Typed(eager, 0) /\ Distinct(s) /\ Forest(N, Idle(eager), {}, Current(eager, {}))
  BY <1>2 DEF Shares, Ready
<1>4. Cut(N) = {}
  BY <1>3, NothingCut
<1>5. Current(eager, {}) = Idle(eager) /\ Idle(eager) = Members(s)
  BY <1>4 DEF Current, Idle
<1>6. /\ Idle(eager) \subseteq 1 .. Len(N)
      /\ \A c \in Idle(eager) : N[c].parent = 0
  BY <1>3, <1>4, <1>5 DEF Forest
<1>7. RootsIn(eager, Current(eager, {})) = Members(s)
  BY <1>5, <1>6 DEF RootsIn
<1>8. s \in Seq(Nat) /\ N \in Seq(EagerNode)
  <2>1. 0 \in 0 .. 0
    OBVIOUS
  <2>2. QED
    BY <1>3, <2>1 DEF Typed
<1>9. Sum(s) = Total(N, Members(s))
  BY <1>3, <1>5, <1>6, <1>8, SumOfList
<1>10. \A i \in DOMAIN s : N[s[i]].parent = 0
  BY <1>5, <1>6 DEF Members
<1>11. QED
  BY <1>2, <1>7, <1>9, <1>10

-----------------------------------------------------------------------------
(* The invariant of the eager allocator.                                   *)

(* Which operations may come next.                                         *)
Modes ==
  /\ minAlloc \in Nat /\ minAlloc % Align = 0
  /\ stage \in {"planning", "planned"} /\ barrier \in {"none", "open", "group"}
  /\ barrier = "none" => GroupsOf(eager) = 0
  /\ barrier # "none" => minAlloc = 0
  /\ barrier = "group" <=> eager.current # 0
  /\ stage = "planned" => barrier = "none" /\ Live = {}

EagerInv ==
  /\ Modes
  /\ Sound(eager)
  /\ Planned(eager, tensors, clash)

(* It holds at first.                                                      *)
LEMMA EagerInit ==
  ASSUME Init
  PROVE  EagerInv
<1>1. eager = Eager!Empty /\ tensors = <<>> /\ clash = {}
  BY DEF Init
<1>2. /\ Sound(eager) /\ GroupsOf(eager) = 0 /\ eager.current = 0 /\ eager.used = {}
  BY <1>1, SoundEmpty
<1>3. Planned(eager, tensors, clash)
  BY <1>1, <1>2, PlannedNone
<1>4. Modes
  <2>1. minAlloc \in Nat /\ minAlloc % Align = 0
    BY BufferAllocatorAssumption DEF Init
  <2>2. QED
    BY <1>2, <2>1 DEF Init, Modes
<1>5. QED
  BY <1>2, <1>3, <1>4 DEF EagerInv

(* A request for memory keeps it.                                          *)
LEMMA AcquireInv ==
  ASSUME EagerInv, NEW size \in Sizes, NEW separate \in BOOLEAN, Acquire(size, separate)
  PROVE  EagerInv'
<1> DEFINE e == eager
           v == eager'
           groups == GroupsOf(e)
           busy == Taken(e)
           k == Len(tensors) + 1
<1>1. /\ Modes /\ Sound(e) /\ Planned(e, tensors, clash)
      /\ v = Eager!Alloc(e, size, separate, minAlloc)
      /\ tensors' = Append(tensors,
           [size |-> size, live |-> TRUE, group |-> Group,
            chunk |-> defer'.last, node |-> v.last,
            block |-> v.node[v.last].block, off |-> v.node[v.last].off])
      /\ clash' = clash \cup ((Live \cup OtherGroups) \X {k})
      /\ stage = "planning" /\ barrier # "open"
      /\ minAlloc' = minAlloc /\ stage' = stage /\ barrier' = barrier
  BY DEF EagerInv, Acquire
<1>2. size \in Nat \ {0} /\ minAlloc \in Nat /\ minAlloc % Align = 0
      /\ (e.current # 0 => minAlloc = 0)
  BY <1>1, BufferAllocatorAssumption DEF Modes
<1>3. /\ Takes(v, e, groups, busy, size)
      /\ Sound(v) /\ GroupsOf(v) = groups
  <2>1. Asks(v, e, size, separate, minAlloc)
    BY <1>1, <1>2 DEF Asks
  <2>2. QED
    BY <2>1, SoundAlloc
<1>4. Adding(v, e, tensors', tensors, size, defer'.last)
  <2>1. \E chunks : tensors \in Seq(Tensors(chunks))
    BY <1>1 DEF Planned
  <2>2. QED
    BY <1>1, <1>2, <1>3, <2>1 DEF Adding, Group
<1>5. Gives(v, e, tensors', tensors)
  BY <1>4, TensorAdded
<1>6. Live \cup OtherGroups = Others(e, tensors)
  BY DEF Live, OtherGroups, Others, Group
<1>7. Planned(v, tensors', clash')
  <2>1. Ready(v, groups, busy \cup {v.last})
    BY <1>3 DEF Takes
  <2>2. Planned(v, tensors', clash \cup (Others(e, tensors) \X {k}))
    BY <1>1, <1>5, <2>1, PlannedGives
  <2>3. QED
    BY <1>1, <1>6, <2>2
<1>8. v.current = e.current
  BY <1>3 DEF Takes
<1>9. Modes'
  BY <1>1, <1>3, <1>8 DEF Modes
<1>10. QED
  BY <1>3, <1>7, <1>9 DEF EagerInv

(* Memory that is given back keeps it.                                     *)
LEMMA GiveBackInv ==
  ASSUME EagerInv, NEW t \in DOMAIN tensors, GiveBack(t)
  PROVE  EagerInv'
<1> DEFINE e == eager
           v == eager'
           groups == GroupsOf(e)
           n == tensors[t].node
<1>1. /\ Modes /\ Sound(e) /\ Planned(e, tensors, clash)
      /\ v = Eager!Free(e, n) /\ tensors[t].live /\ tensors[t].group = e.current
      /\ tensors' = [tensors EXCEPT ![t].live = FALSE] /\ clash' = clash
      /\ stage = "planning" /\ barrier # "open"
      /\ minAlloc' = minAlloc /\ stage' = stage /\ barrier' = barrier
  BY DEF EagerInv, GiveBack, Group
<1>2. n \in e.used
  BY <1>1 DEF Planned, Owned
<1>3. /\ Sound(v) /\ v.current = e.current /\ GivesBack(v, e, e.current, n)
  <2>1. e.node \in Seq(EagerNode) /\ groups \in Nat
    BY <1>1, SharesOf DEF Sound
  <2>2. CASE e.current = 0
    <3>1. /\ Sound(v) /\ GroupsOf(v) = groups /\ Same(v.node, e.node)
          /\ v.used = e.used \ {n} /\ v.current = e.current
          /\ \A g \in 1 .. groups : v.list[g] = e.list[g]
      BY <1>1, <1>2, <2>2, SoundReturn
    <3>2. QED
      BY <2>1, <2>2, <3>1 DEF GivesBack
  <2>3. CASE e.current # 0
    <3> DEFINE g == e.current
    <3>1. /\ Sound(v) /\ GroupsOf(v) = groups /\ v.node = e.node
          /\ v.used = e.used \ {n} /\ v.current = e.current
          /\ Members(v.list[g]) = Members(e.list[g]) \cup {n}
          /\ \A h \in 1 .. groups : h # g => v.list[h] = e.list[h]
      BY <1>1, <1>2, <2>3, SoundKeep
    <3>2. Same(v.node, e.node)
      BY <2>1, <3>1 DEF Same
    <3>3. QED
      BY <2>1, <3>1, <3>2 DEF GivesBack
  <2>4. QED
    BY <2>2, <2>3
<1>4. Dies(tensors', tensors, t)
  <2>1. PICK chunks : tensors \in Seq(Tensors(chunks))
    BY <1>1 DEF Planned
  <2>2. QED
    BY <1>1, <2>1, TensorDies
<1>5. Planned(v, tensors', clash')
  BY <1>1, <1>3, <1>4, PlannedDies
<1>6. Modes'
  BY <1>1, <1>3 DEF Modes, GivesBack
<1>7. QED
  BY <1>3, <1>5, <1>6 DEF EagerInv

(* A group begins or ends, or garbage is collected.                        *)
LEMMA StaysInv ==
  ASSUME EagerInv, BeginGroup \/ EndGroup \/ GabageCollect
  PROVE  EagerInv'
<1> DEFINE e == eager
           v == eager'
           groups == GroupsOf(e)
<1>1. /\ Modes /\ Sound(e) /\ Planned(e, tensors, clash)
      /\ tensors' = tensors /\ clash' = clash /\ minAlloc' = minAlloc /\ stage' = stage
  BY DEF EagerInv, BeginGroup, EndGroup, GabageCollect
<1>2. e.node \in Seq(EagerNode) /\ groups \in Nat /\ Same(e.node, e.node)
  BY <1>1, SharesOf DEF Sound, Same
<1>3. CASE BeginGroup
  <2>1. v = Eager!BeginGroup(e) /\ barrier = "open" /\ barrier' = "group"
    BY <1>3 DEF BeginGroup
  <2>2. /\ Sound(v) /\ GroupsOf(v) = groups + 1 /\ v.current = groups + 1
        /\ v.node = e.node /\ v.used = e.used
        /\ \A h \in 1 .. groups : v.list[h] = e.list[h]
    BY <1>1, <2>1, SoundGroup DEF Begun
  <2>3. Stays(v, e)
    BY <1>2, <2>2 DEF Stays
  <2>4. Planned(v, tensors, clash)
    BY <1>1, <2>3, PlannedStays
  <2>5. v.current # 0
    BY <1>2, <2>2
  <2>6. Modes'
    BY <1>1, <2>1, <2>5 DEF Modes
  <2>7. QED
    BY <1>1, <2>2, <2>4, <2>6 DEF EagerInv
<1>4. CASE EndGroup
  <2>1. v = Eager!EndGroup(e) /\ barrier = "group" /\ barrier' = "open"
    BY <1>4 DEF EndGroup
  <2>2. /\ Sound(v) /\ GroupsOf(v) = groups /\ v.current = 0
        /\ v.node = e.node /\ v.used = e.used /\ v.list = e.list
    BY <1>1, <2>1, SoundGroup DEF Ended
  <2>3. Stays(v, e)
    BY <1>2, <2>2 DEF Stays
  <2>4. Planned(v, tensors, clash)
    BY <1>1, <2>3, PlannedStays
  <2>5. Modes'
    BY <1>1, <2>1, <2>2 DEF Modes
  <2>6. QED
    BY <1>1, <2>2, <2>4, <2>5 DEF EagerInv
<1>5. CASE GabageCollect
  <2>1. v = Eager!Collect(e) /\ barrier = "none" /\ barrier' = barrier
    BY <1>5 DEF GabageCollect
  <2>2. /\ Sound(v) /\ GroupsOf(v) = groups /\ v.node = e.node
        /\ v.used = e.used /\ v.current = e.current
        /\ \A g \in 1 .. groups : v.list[g] = e.list[g]
    BY <1>1, <2>1, SoundCollect
  <2>3. Stays(v, e)
    BY <1>2, <2>2 DEF Stays
  <2>4. Planned(v, tensors, clash)
    BY <1>1, <2>3, PlannedStays
  <2>5. Modes'
    BY <1>1, <2>1, <2>2 DEF Modes, Live
  <2>6. QED
    BY <1>1, <2>2, <2>4, <2>5 DEF EagerInv
<1>6. QED
  BY <1>3, <1>4, <1>5

(* The end of a barrier keeps it.                                          *)
LEMMA BarrierEndInv ==
  ASSUME EagerInv, BarrierEnd
  PROVE  EagerInv'
<1> DEFINE e == eager
           v == eager'
<1>1. /\ Modes /\ Sound(e) /\ Planned(e, tensors, clash)
      /\ v = Eager!BarrierEnd(e) /\ barrier = "open" /\ barrier' = "none"
      /\ tensors' = [t \in DOMAIN tensors |-> [tensors[t] EXCEPT !.group = 0]]
      /\ clash' = clash /\ minAlloc' = minAlloc /\ stage' = stage
  BY DEF EagerInv, BarrierEnd
<1>2. e.current = 0
  BY <1>1 DEF Modes
<1>3. /\ Sound(v) /\ GroupsOf(v) = 0 /\ Same(v.node, e.node)
      /\ v.used = e.used /\ v.current = 0
  BY <1>1, <1>2, SoundBarrierEnd
<1>4. Changed(tensors', tensors)
      /\ \A u \in DOMAIN tensors : tensors'[u].group = 0 /\ tensors'[u].live = tensors[u].live
  <2>1. PICK chunks : tensors \in Seq(Tensors(chunks))
    BY <1>1 DEF Planned
  <2>2. tensors' = Disbanded(tensors)
    BY <1>1 DEF Disbanded
  <2>3. QED
    BY <2>1, <2>2, TensorsDisband
<1>5. Disbands(v, e, tensors', tensors)
  BY <1>3, <1>4 DEF Disbands
<1>6. Planned(v, tensors', clash')
  BY <1>1, <1>5, PlannedDisbands
<1>7. Modes'
  BY <1>1, <1>3 DEF Modes
<1>8. QED
  BY <1>3, <1>6, <1>7 DEF EagerInv

(* So do the steps between two resizes.                                    *)
LEMMA ResizeInv ==
  ASSUME EagerInv, BarrierBegin \/ ResizeEnd \/ ResizeBegin \/ ClearBuffer
  PROVE  EagerInv'
<1>1. Modes /\ Sound(eager) /\ Planned(eager, tensors, clash)
  BY DEF EagerInv
<1>2. Live = {} => eager.used = {}
  BY <1>1 DEF Planned, Owned, Live
<1>3. CASE BarrierBegin
  <2>1. /\ eager' = eager /\ tensors' = tensors /\ clash' = clash /\ stage' = stage
        /\ minAlloc' = minAlloc /\ minAlloc = 0 /\ stage = "planning"
        /\ barrier = "none" /\ barrier' = "open"
    BY <1>3 DEF BarrierBegin
  <2>2. Modes'
    BY <1>1, <2>1 DEF Modes
  <2>3. QED
    BY <1>1, <2>1, <2>2 DEF EagerInv
<1>4. CASE ResizeEnd
  <2>1. /\ eager' = eager /\ tensors' = tensors /\ clash' = clash /\ stage' = "planned"
        /\ minAlloc' = minAlloc /\ barrier = "none" /\ barrier' = barrier /\ Live = {}
    BY <1>4 DEF ResizeEnd
  <2>2. Modes'
    BY <1>1, <2>1 DEF Modes, Live
  <2>3. QED
    BY <1>1, <2>1, <2>2 DEF EagerInv
<1>5. CASE ResizeBegin
  <2>1. /\ eager' = eager /\ tensors' = <<>> /\ clash' = {} /\ stage' = "planning"
        /\ minAlloc' = minAlloc /\ barrier' = barrier /\ stage = "planned"
    BY <1>5 DEF ResizeBegin
  <2>2. eager.used = {}
    BY <1>1, <1>2, <2>1 DEF Modes
  <2>3. Planned(eager', tensors', clash')
    BY <2>1, <2>2, PlannedNone
  <2>4. Modes'
    BY <1>1, <2>1 DEF Modes
  <2>5. QED
    BY <1>1, <2>1, <2>3, <2>4 DEF EagerInv
<1>6. CASE ClearBuffer
  <2>1. /\ eager' = Eager!Empty /\ tensors' = <<>> /\ clash' = {} /\ stage' = "planning"
        /\ minAlloc' = minAlloc /\ barrier' = barrier /\ barrier = "none"
    BY <1>6 DEF ClearBuffer, Eager!Release
  <2>2. /\ Sound(eager') /\ GroupsOf(eager') = 0 /\ eager'.current = 0 /\ eager'.used = {}
    BY <2>1, SoundEmpty
  <2>3. Planned(eager', tensors', clash')
    BY <2>1, <2>2, PlannedNone
  <2>4. Modes'
    BY <1>1, <2>1, <2>2 DEF Modes
  <2>5. QED
    BY <2>2, <2>3, <2>4 DEF EagerInv
<1>7. QED
  BY <1>3, <1>4, <1>5, <1>6

(* What the eager allocator has lent, what a group keeps and what is free  *)
(* are the current nodes of its forest, the tensors lie in the nodes that  *)
(* were lent to them, and those that must not meet are apart.              *)
THEOREM EagerInvariant == Spec => []EagerInv
<1>1. Init => EagerInv
  BY EagerInit
<1>2. EagerInv /\ [Next]_vars => EagerInv'
  <2> SUFFICES ASSUME EagerInv, [Next]_vars
               PROVE  EagerInv'
    OBVIOUS
  <2>1. CASE \E size \in Sizes, separate \in BOOLEAN : Acquire(size, separate)
    BY <2>1, AcquireInv
  <2>2. CASE \E t \in DOMAIN tensors : GiveBack(t)
    BY <2>2, GiveBackInv
  <2>3. CASE BeginGroup \/ EndGroup \/ GabageCollect
    BY <2>3, StaysInv
  <2>4. CASE BarrierEnd
    BY <2>4, BarrierEndInv
  <2>5. CASE BarrierBegin \/ ResizeEnd \/ ResizeBegin \/ ClearBuffer
    BY <2>5, ResizeInv
  <2>6. CASE vars' = vars
    <3>1. /\ minAlloc' = minAlloc /\ eager' = eager /\ stage' = stage
          /\ barrier' = barrier /\ tensors' = tensors /\ clash' = clash
      BY <2>6 DEF vars
    <3>2. QED
      BY <3>1 DEF EagerInv, Modes, Live
  <2>7. QED
    BY <2>1, <2>2, <2>3, <2>4, <2>5, <2>6 DEF Next
<1>3. QED
  BY <1>1, <1>2, PTL DEF Spec

(* The eager allocator never lends memory twice: what tensors of one time, *)
(* or of the threads of one barrier, were given is apart, inside a block.  *)
THEOREM EagerNeverTwice == Spec => []EagerDisjoint
<1>1. EagerInv => EagerDisjoint
  <2> SUFFICES ASSUME EagerInv PROVE EagerDisjoint
    OBVIOUS
  <2>1. Planned(eager, tensors, clash) /\ Tree(eager.node)
    BY DEF EagerInv, Sound, Shares, Ready, Forest
  <2>2. ASSUME NEW t \in DOMAIN tensors
        PROVE  tensors[t].off + tensors[t].size <= eager.node[tensors[t].block].size
    <3> DEFINE x == tensors[t].node
               N == eager.node
               a == N[x].off
               b == N[x].size
               c == tensors[t].size
               d == N[N[x].block].size
    <3>1. Placed(eager, tensors[t])
      BY <2>1 DEF Planned
    <3>2. x \in 1 .. Len(N) /\ tensors[t].block = N[x].block /\ tensors[t].off = a /\ c <= b
      BY <3>1 DEF Placed
    <3>3. a + b <= d /\ N[x].block \in 1 .. Len(N)
      BY <2>1, <3>2 DEF Tree
    <3>4. a \in Nat /\ b \in Nat /\ d \in Nat
      BY <2>1, <3>2, <3>3, NodeTyped
    <3>5. c \in Nat
      <4>1. PICK chunks : tensors \in Seq(Tensors(chunks))
        BY <2>1 DEF Planned
      <4>2. tensors[t] \in Tensors(chunks)
        BY <4>1
      <4>3. QED
        BY <4>2 DEF Tensors
    <3> HIDE DEF a, b, c, d
    <3>6. a + c <= d
      BY <3>2, <3>3, <3>4, <3>5
    <3>7. QED
      BY <3>2, <3>6 DEF c, d
  <2>3. \A p \in clash : ApartIn(tensors[p[1]], tensors[p[2]])
    BY <2>1 DEF Planned
  <2>4. QED
    BY <2>2, <2>3 DEF EagerDisjoint, ApartIn
<1>2. QED
  BY <1>1, EagerInvariant, PTL

(* Use counts balance: when nothing is lent outside a barrier, all blocks  *)
(* are whole in the free list, and the total is what they add up to.       *)
THEOREM EagerReclaimsAll == Spec => []EagerReclaims
<1>1. EagerInv => EagerReclaims
  <2> SUFFICES ASSUME EagerInv, barrier = "none", Live = {}
               PROVE  /\ \A i \in DOMAIN eager.list[0] :
                           eager.node[eager.list[0][i]].parent = 0
                      /\ eager.total = Sum(eager.list[0])
    BY DEF EagerReclaims
  <2>1. Sound(eager) /\ Planned(eager, tensors, clash) /\ GroupsOf(eager) = 0
    BY DEF EagerInv, Modes
  <2>2. eager.used = {}
    BY <2>1 DEF Planned, Owned, Live
  <2>3. QED
    BY <2>1, <2>2, AllBack
<1>2. QED
  BY <1>1, EagerInvariant, PTL
=============================================================================
