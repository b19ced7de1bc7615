------------------------ MODULE DeferAllocatorProofs ------------------------
(***************************************************************************)
(* Proofs about the deferred allocator of BufferAllocator, for any         *)
(* alignment, sizes and number of requests: a plan always works out, and   *)
(* the addresses that compute() finds keep apart what must not meet.       *)
(*                                                                         *)
(* compute() knows only at the end where a chunk lies, and until then      *)
(* chunks are fused, split and enlarged.  Lay says what addresses the      *)
(* chunks could have: those of the chain lie one behind the other, a fused *)
(* one at its offset in its parent.  Laid says that there are addresses at *)
(* which the tensors are apart; every operation keeps it (Preserves),      *)
(* since it changes addresses only so that what was in front of something  *)
(* still is (Eases).  When one chunk is left, compute() finds the only     *)
(* addresses there are.                                                    *)
(***************************************************************************)
EXTENDS BufferAllocatorProofs

-----------------------------------------------------------------------------
(* The chain of the deferred allocator: which chunk lies behind which.     *)

(* The chunk at a place, and none before the first and behind the last.    *)
NoChunk == Defer!NoNode

At(c, k) == IF k \in 1 .. Len(c) THEN c[k] ELSE NoChunk

(* Chunk y is right behind chunk x; no chunk is behind the last one.       *)
Follow(c, x, y) == \E k \in 0 .. Len(c) : x = At(c, k) /\ y = At(c, k + 1)

Chained(c) == c \in Seq(Nat) /\ Distinct(c) /\ NoChunk \notin Members(c)

(* A chunk has one place.                                                  *)
LEMMA OnePlace ==
  ASSUME NEW c, Chained(c)
  PROVE  /\ \A k \in 0 .. Len(c) + 1, l \in 0 .. Len(c) + 1 :
              At(c, k) = At(c, l) /\ At(c, k) # NoChunk => k = l
         /\ \A k \in 0 .. Len(c) + 1 : At(c, k) = NoChunk <=> k \in {0, Len(c) + 1}
         /\ \A x : x \in Members(c) <=> \E k \in 1 .. Len(c) : x = At(c, k)
<1> DEFINE L == Len(c)
<1>1. L \in Nat /\ DOMAIN c = 1 .. L
  BY LenProperties DEF Chained
<1>2. /\ \A k, l \in 1 .. L : c[k] = c[l] => k = l
      /\ \A k \in 1 .. L : c[k] # NoChunk
      /\ \A x : x \in Members(c) <=> \E k \in 1 .. L : x = c[k]
  BY <1>1 DEF Chained, Distinct, Members
<1>3. \A k : At(c, k) = IF k \in 1 .. L THEN c[k] ELSE NoChunk
  BY DEF At
<1> HIDE DEF L
<1>4. \A k \in 0 .. L + 1 : k \in 1 .. L \/ k = 0 \/ k = L + 1
  BY <1>1
<1>5. 0 \notin 1 .. L /\ L + 1 \notin 1 .. L
  BY <1>1
<1>6. \A k \in 0 .. L + 1, l \in 0 .. L + 1 :
        At(c, k) = At(c, l) /\ At(c, k) # NoChunk => k = l
  BY <1>2, <1>3
<1>7. \A k \in 0 .. L + 1 : At(c, k) = NoChunk <=> k \in {0, L + 1}
  BY <1>2, <1>3, <1>4, <1>5
<1>8. \A x : x \in Members(c) <=> \E k \in 1 .. L : x = At(c, k)
  BY <1>2, <1>3
<1>9. QED
  BY <1>6, <1>7, <1>8 DEF L

(* The chunk in front of a chunk, and the one behind it, are determined.   *)
LEMMA FollowOnce ==
  ASSUME NEW c, Chained(c)
  PROVE  /\ \A x, y : Follow(c, x, y) => /\ x \in Members(c) \cup {NoChunk}
                                         /\ y \in Members(c) \cup {NoChunk}
                                         /\ x = y => x = NoChunk
         /\ \A x, y, z : Follow(c, x, y) /\ Follow(c, x, z) => y = z
         /\ \A x, y, z : Follow(c, x, z) /\ Follow(c, y, z) => x = y
<1> DEFINE L == Len(c)
<1>1. L \in Nat
  BY LenProperties DEF Chained
<1>2. /\ \A k \in 0 .. L + 1, l \in 0 .. L + 1 :
           At(c, k) = At(c, l) /\ At(c, k) # NoChunk => k = l
      /\ \A k \in 0 .. L + 1 : At(c, k) = NoChunk <=> k \in {0, L + 1}
      /\ \A x : x \in Members(c) <=> \E k \in 1 .. L : x = At(c, k)
  BY OnePlace
<1>3. \A x, y : Follow(c, x, y) <=> \E k \in 0 .. L : x = At(c, k) /\ y = At(c, k + 1)
  BY DEF Follow
<1> HIDE DEF L
<1>4. \A k \in 0 .. L : k \in 0 .. L + 1 /\ k + 1 \in 0 .. L + 1 /\ k # L + 1 /\ k + 1 # 0 /\ k # k + 1
                        /\ (k = 0 \/ k \in 1 .. L) /\ (k + 1 = L + 1 \/ k + 1 \in 1 .. L)
  BY <1>1
<1>5. ASSUME NEW x, NEW y, Follow(c, x, y)
      PROVE  /\ x \in Members(c) \cup {NoChunk}
             /\ y \in Members(c) \cup {NoChunk}
             /\ x = y => x = NoChunk
  <2>1. PICK k \in 0 .. L : x = At(c, k) /\ y = At(c, k + 1)
    BY <1>3, <1>5
  <2>2. QED
    BY <1>2, <1>4, <2>1
<1>6. ASSUME NEW x, NEW y, NEW z, Follow(c, x, y), Follow(c, x, z)
      PROVE  y = z
  <2>1. PICK k \in 0 .. L : x = At(c, k) /\ y = At(c, k + 1)
    BY <1>3, <1>6
  <2>2. PICK l \in 0 .. L : x = At(c, l) /\ z = At(c, l + 1)
    BY <1>3, <1>6
  <2>3. k = l
    <3>1. /\ k \in 0 .. L + 1 /\ l \in 0 .. L + 1
          /\ x = NoChunk => k = 0 /\ l = 0
      BY <1>2, <1>4, <2>1, <2>2
    <3>2. QED
      BY <1>2, <2>1, <2>2, <3>1
  <2>4. QED
    BY <2>1, <2>2, <2>3
<1>7. ASSUME NEW x, NEW y, NEW z, Follow(c, x, z), Follow(c, y, z)
      PROVE  x = y
  <2>1. PICK k \in 0 .. L : x = At(c, k) /\ z = At(c, k + 1)
    BY <1>3, <1>7
  <2>2. PICK l \in 0 .. L : y = At(c, l) /\ z = At(c, l + 1)
    BY <1>3, <1>7
  <2>3. k + 1 = l + 1
    BY <1>2, <1>4, <2>1, <2>2
  <2>4. k = l
    BY <1>1, <2>3
  <2>5. QED
    BY <2>1, <2>2, <2>4
<1>8. QED
  BY <1>5, <1>6, <1>7

(* d is c with chunk r at place i.                                         *)
PutIn(d, c, i, r) ==
  /\ i \in 1 .. Len(c) + 1 /\ Len(d) = Len(c) + 1
  /\ \A j \in 1 .. Len(c) + 1 : d[j] = IF j < i THEN c[j] ELSE IF j = i THEN r ELSE c[j - 1]

(* A chunk that is put in has the chunk before that place in front of it,  *)
(* and behind it the one that was behind.                                  *)
LEMMA FollowPutIn ==
  ASSUME NEW c, Chained(c), NEW d, Chained(d), NEW i, NEW r, PutIn(d, c, i, r),
         r \notin Members(c), r # NoChunk, NEW n, n = At(c, i - 1),
         NEW x, NEW y, Follow(d, x, y)
  PROVE  \/ x = n /\ y = r
         \/ x = r /\ Follow(c, n, y)
         \/ x # n /\ x # r /\ Follow(c, x, y)
<1> DEFINE L == Len(c)
<1>1. L \in Nat /\ i \in 1 .. L + 1 /\ Len(d) = L + 1
  BY LenProperties DEF Chained, PutIn
<1>2. \A j \in 1 .. L + 1 : d[j] = IF j < i THEN c[j] ELSE IF j = i THEN r ELSE c[j - 1]
  BY DEF PutIn
<1>3. \A k : At(c, k) = IF k \in 1 .. L THEN c[k] ELSE NoChunk
  BY DEF At
<1>4. \A k : At(d, k) = IF k \in 1 .. L + 1 THEN d[k] ELSE NoChunk
  BY <1>1 DEF At
<1>5. /\ \A k \in 0 .. L + 1, l \in 0 .. L + 1 :
           At(c, k) = At(c, l) /\ At(c, k) # NoChunk => k = l
      /\ \A k \in 0 .. L + 1 : At(c, k) = NoChunk <=> k \in {0, L + 1}
      /\ \A z : z \in Members(c) <=> \E k \in 1 .. L : z = At(c, k)
  BY OnePlace
<1>6. \A z, w : Follow(c, z, w) <=> \E k \in 0 .. L : z = At(c, k) /\ w = At(c, k + 1)
  BY DEF Follow
<1>7. PICK k \in 0 .. L + 1 : x = At(d, k) /\ y = At(d, k + 1)
  BY <1>1 DEF Follow
<1> HIDE DEF L
<1>8. ASSUME NEW j \in 0 .. L + 2
      PROVE  At(d, j) = IF j < i THEN At(c, j) ELSE IF j = i THEN r ELSE At(c, j - 1)
  <2>1. CASE j \in 1 .. L + 1
    <3>1. d[j] = IF j < i THEN c[j] ELSE IF j = i THEN r ELSE c[j - 1]
      BY <1>2, <2>1
    <3>2. (j < i => j \in 1 .. L) /\ (~(j < i) /\ j # i => j - 1 \in 1 .. L)
      BY <1>1, <2>1
    <3>3. QED
      BY <1>3, <1>4, <2>1, <3>1, <3>2
  <2>2. CASE j = 0
    BY <1>1, <1>3, <1>4, <2>2
  <2>3. CASE j = L + 2
    <3>1. ~(j < i) /\ j # i /\ j - 1 = L + 1 /\ j \notin 1 .. L + 1 /\ L + 1 \notin 1 .. L
      BY <1>1, <2>3
    <3>2. QED
      BY <1>3, <1>4, <3>1
  <2>4. QED
    BY <1>1, <2>1, <2>2, <2>3
<1>9. i - 1 \in 0 .. L /\ (i - 1) + 1 = i /\ i - 1 # L + 1
  BY <1>1
<1>10. \A j \in 1 .. L : At(c, j) # r
  BY <1>5
<1>11. CASE k + 1 < i
  <2>1. k \in 0 .. L /\ k \in 0 .. L + 2 /\ k + 1 \in 0 .. L + 2 /\ k < i /\ k # i - 1
        /\ k \in 0 .. L + 1 /\ i - 1 \in 0 .. L + 1 /\ i - 1 # 0 /\ i - 1 # L + 1
        /\ (k = 0 \/ k \in 1 .. L)
    BY <1>1, <1>11
  <2>2. x = At(c, k) /\ y = At(c, k + 1)
    BY <1>7, <1>8, <1>11, <2>1
  <2>3. x # n
    BY <1>5, <2>1, <2>2
  <2>4. x # r
    BY <1>5, <1>10, <2>1, <2>2
  <2>5. QED
    BY <1>6, <2>1, <2>2, <2>3, <2>4
<1>12. CASE k + 1 = i
  <2>1. k \in 0 .. L + 2 /\ k + 1 \in 0 .. L + 2 /\ k < i /\ ~(k + 1 < i) /\ k = i - 1
    BY <1>1, <1>12
  <2>2. x = n /\ y = r
    BY <1>7, <1>8, <1>12, <2>1
  <2>3. QED
    BY <2>2
<1>13. CASE k = i
  <2>1. k \in 0 .. L + 2 /\ k + 1 \in 0 .. L + 2 /\ ~(k < i) /\ ~(k + 1 < i) /\ k + 1 # i
        /\ (k + 1) - 1 = k
    BY <1>1, <1>13
  <2>2. x = r /\ y = At(c, i)
    BY <1>7, <1>8, <1>13, <2>1
  <2>3. Follow(c, n, y)
    BY <1>6, <1>9, <2>2
  <2>4. QED
    BY <2>2, <2>3
<1>14. CASE k > i
  <2>1. k \in 0 .. L + 2 /\ k + 1 \in 0 .. L + 2 /\ ~(k < i) /\ ~(k + 1 < i) /\ k + 1 # i /\ k # i
        /\ (k + 1) - 1 = k /\ k - 1 \in 1 .. L /\ (k - 1) + 1 = k /\ k - 1 # i - 1
        /\ k - 1 \in 0 .. L + 1 /\ i - 1 \in 0 .. L + 1 /\ k - 1 # 0 /\ k - 1 # L + 1
        /\ k - 1 \in 0 .. L
    BY <1>1, <1>14
  <2>2. x = At(c, k - 1) /\ y = At(c, (k - 1) + 1)
    BY <1>7, <1>8, <2>1
  <2>3. x # n
    BY <1>5, <2>1, <2>2
  <2>4. x # r
    BY <1>10, <2>1, <2>2
  <2>5. QED
    BY <1>6, <2>1, <2>2, <2>3, <2>4
<1>15. k + 1 < i \/ k + 1 = i \/ k = i \/ k > i
  BY <1>1
<1>16. QED
  BY <1>11, <1>12, <1>13, <1>14, <1>15

(* d is c without the chunk at place i.                                    *)
TakenFrom(d, c, i) ==
  /\ i \in 1 .. Len(c) /\ Len(d) = Len(c) - 1
  /\ \A j \in 1 .. Len(c) - 1 : d[j] = IF j < i THEN c[j] ELSE c[j + 1]

(* When a chunk is taken out, what was behind it follows what was in front *)
(* of it.                                                                  *)
LEMMA FollowTakenFrom ==
  ASSUME NEW c, Chained(c), NEW d, Chained(d), NEW i, TakenFrom(d, c, i),
         NEW a, a = At(c, i - 1), NEW b, b = At(c, i),
         NEW x, NEW y, Follow(d, x, y)
  PROVE  \/ x = a /\ Follow(c, b, y)
         \/ x # a /\ Follow(c, x, y)
<1> DEFINE L == Len(c)
<1>1. L \in Nat /\ i \in 1 .. L /\ Len(d) = L - 1
  BY LenProperties DEF Chained, TakenFrom
<1>2. \A j \in 1 .. L - 1 : d[j] = IF j < i THEN c[j] ELSE c[j + 1]
  BY DEF TakenFrom
<1>3. \A k : At(c, k) = IF k \in 1 .. L THEN c[k] ELSE NoChunk
  BY DEF At
<1>4. \A k : At(d, k) = IF k \in 1 .. L - 1 THEN d[k] ELSE NoChunk
  BY <1>1 DEF At
<1>5. /\ \A k \in 0 .. L + 1, l \in 0 .. L + 1 :
           At(c, k) = At(c, l) /\ At(c, k) # NoChunk => k = l
      /\ \A k \in 0 .. L + 1 : At(c, k) = NoChunk <=> k \in {0, L + 1}
  BY OnePlace
<1>6. \A z, w : Follow(c, z, w) <=> \E k \in 0 .. L : z = At(c, k) /\ w = At(c, k + 1)
  BY DEF Follow
<1>7. PICK k \in 0 .. L - 1 : x = At(d, k) /\ y = At(d, k + 1)
  BY <1>1 DEF Follow
<1> HIDE DEF L
<1>8. ASSUME NEW j \in 0 .. L
      PROVE  At(d, j) = IF j < i THEN At(c, j) ELSE At(c, j + 1)
  <2>1. CASE j \in 1 .. L - 1
    <3>1. d[j] = IF j < i THEN c[j] ELSE c[j + 1]
      BY <1>2, <2>1
    <3>2. j \in 1 .. L /\ j + 1 \in 1 .. L
      BY <1>1, <2>1
    <3>3. QED
      BY <1>3, <1>4, <2>1, <3>1, <3>2
  <2>2. CASE j = 0
    BY <1>1, <1>3, <1>4, <2>2
  <2>3. CASE j = L
    <3>1. ~(j < i) /\ j + 1 = L + 1 /\ j \notin 1 .. L - 1 /\ L + 1 \notin 1 .. L
      BY <1>1, <2>3
    <3>2. QED
      BY <1>3, <1>4, <3>1
  <2>4. QED
    BY <1>1, <2>1, <2>2, <2>3
<1>9. CASE k + 1 < i
  <2>1. k \in 0 .. L /\ k + 1 \in 0 .. L /\ k < i /\ k # i - 1
        /\ k \in 0 .. L + 1 /\ i - 1 \in 0 .. L + 1 /\ i - 1 # 0 /\ i - 1 # L + 1
    BY <1>1, <1>9
  <2>2. x = At(c, k) /\ y = At(c, k + 1)
    BY <1>7, <1>8, <1>9, <2>1
  <2>3. x # a
    BY <1>5, <2>1, <2>2
  <2>4. QED
    BY <1>6, <2>1, <2>2, <2>3
<1>10. CASE k + 1 = i
  <2>1. k \in 0 .. L /\ k + 1 \in 0 .. L /\ k < i /\ ~(k + 1 < i) /\ k = i - 1
        /\ i \in 0 .. L /\ (k + 1) + 1 = i + 1
    BY <1>1, <1>10
  <2>2. x = a /\ y = At(c, i + 1)
    BY <1>7, <1>8, <1>10, <2>1
  <2>3. QED
    BY <1>6, <2>1, <2>2
<1>11. CASE k + 1 > i
  <2>1. k \in 0 .. L /\ k + 1 \in 0 .. L /\ ~(k < i) /\ ~(k + 1 < i) /\ k + 1 # i - 1
        /\ k + 1 \in 0 .. L + 1 /\ i - 1 \in 0 .. L + 1 /\ k + 1 # 0 /\ k + 1 # L + 1
    BY <1>1, <1>11
  <2>2. x = At(c, k + 1) /\ y = At(c, (k + 1) + 1)
    BY <1>7, <1>8, <2>1
  <2>3. x # a
    BY <1>5, <2>1, <2>2
  <2>4. QED
    BY <1>6, <2>1, <2>2, <2>3
<1>12. k + 1 < i \/ k + 1 = i \/ k + 1 > i
  BY <1>1
<1>13. QED
  BY <1>9, <1>10, <1>11, <1>12

(* The library's operators on sequences are the same in both allocators.   *)
LEMMA SameLibrary ==
  ASSUME NEW s, NEW i, NEW x
  PROVE  /\ Defer!InsertAt(s, i, x) = Eager!InsertAt(s, i, x)
         /\ Defer!RemoveAt(s, i) = Eager!RemoveAt(s, i)
         /\ Defer!Last(s) = s[Len(s)]
BY DEF Defer!InsertAt, Eager!InsertAt, Defer!RemoveAt, Eager!RemoveAt, Defer!Last

(* What it is to insert.                                                   *)
LEMMA InsertedPutIn ==
  ASSUME NEW S, NEW s \in Seq(S), NEW x \in S, NEW i \in 1 .. Len(s) + 1
  PROVE  PutIn(Eager!InsertAt(s, i, x), s, i, x)
BY InsertedAt DEF PutIn

(* A chunk goes into the chain.                                            *)
LEMMA ChainPutIn ==
  ASSUME NEW c, Chained(c), NEW i \in 1 .. Len(c) + 1, NEW r \in Nat, r # NoChunk,
         r \notin Members(c)
  PROVE  /\ Chained(Defer!InsertAt(c, i, r)) /\ PutIn(Defer!InsertAt(c, i, r), c, i, r)
         /\ Members(Defer!InsertAt(c, i, r)) = Members(c) \cup {r}
<1> DEFINE d == Eager!InsertAt(c, i, r)
<1>1. c \in Seq(Nat) /\ Distinct(c) /\ NoChunk \notin Members(c)
  BY DEF Chained
<1>2. d \in Seq(Nat) /\ PutIn(d, c, i, r)
  <2>1. c \in Seq(Nat) /\ r \in Nat /\ i \in 1 .. Len(c) + 1
    BY <1>1
  <2>2. Eager!InsertAt(c, i, r) \in Seq(Nat)
    BY ONLY <2>1, InsertedAt
  <2>3. PutIn(Eager!InsertAt(c, i, r), c, i, r)
    BY ONLY <2>1, InsertedPutIn
  <2>4. QED
    BY <2>2, <2>3
<1>3. Distinct(d) /\ Members(d) = Members(c) \cup {r}
  BY <1>1, InsertedMembers
<1>4. Defer!InsertAt(c, i, r) = d
  BY SameLibrary
<1> HIDE DEF d
<1>5. Chained(d)
  BY <1>1, <1>2, <1>3 DEF Chained
<1>6. QED
  BY <1>2, <1>3, <1>4, <1>5

(* A chunk is added at the end of the chain.                               *)
LEMMA ChainAppended ==
  ASSUME NEW c, Chained(c), NEW r \in Nat, r # NoChunk, r \notin Members(c)
  PROVE  /\ Chained(Append(c, r)) /\ PutIn(Append(c, r), c, Len(c) + 1, r)
         /\ Members(Append(c, r)) = Members(c) \cup {r}
<1> DEFINE d == Append(c, r)
           L == Len(c)
<1>1. c \in Seq(Nat) /\ L \in Nat /\ DOMAIN c = 1 .. L
  BY LenProperties DEF Chained
<1>2. d \in Seq(Nat) /\ Len(d) = L + 1 /\ DOMAIN d = 1 .. L + 1
  BY <1>1, AppendProperties
<1>3. d[L + 1] = r /\ \A j \in 1 .. L : d[j] = c[j]
  BY <1>1, AppendProperties
<1> HIDE DEF d
<1>4. PutIn(d, c, L + 1, r)
  <2> HIDE DEF L
  <2>1. L + 1 \in 1 .. L + 1 /\ \A j \in 1 .. L + 1 : IF j = L + 1 THEN ~(j < L + 1) ELSE j \in 1 .. L /\ j < L + 1
    BY <1>1
  <2>2. \A j \in 1 .. L + 1 : d[j] = IF j < L + 1 THEN c[j] ELSE IF j = L + 1 THEN r ELSE c[j - 1]
    BY <1>3, <2>1
  <2>3. QED
    BY <1>2, <2>1, <2>2 DEF PutIn, L
<1> HIDE DEF L
<1>5. \A j \in 1 .. L + 1 : j \in 1 .. L \/ j = L + 1
  BY <1>1
<1>6. L + 1 \in 1 .. L + 1 /\ \A j \in 1 .. L : j \in 1 .. L + 1 /\ j # L + 1
  BY <1>1
<1>7. Members(d) = Members(c) \cup {r}
  BY <1>1, <1>2, <1>3, <1>5, <1>6 DEF Members
<1>8. Distinct(d)
  <2>1. \A j \in 1 .. L : c[j] # r
    BY <1>1 DEF Members
  <2>2. \A j, k \in 1 .. L : c[j] = c[k] => j = k
    BY <1>1 DEF Chained, Distinct
  <2>3. QED
    BY <1>2, <1>3, <1>5, <2>1, <2>2 DEF Distinct
<1>9. QED
  BY <1>2, <1>4, <1>7, <1>8 DEF Chained, d, L

(* A chunk leaves the chain.                                               *)
LEMMA ChainTakenFrom ==
  ASSUME NEW c, Chained(c), NEW i \in 1 .. Len(c)
  PROVE  /\ Chained(Defer!RemoveAt(c, i)) /\ TakenFrom(Defer!RemoveAt(c, i), c, i)
         /\ Members(Defer!RemoveAt(c, i)) = Members(c) \ {c[i]}
<1> DEFINE d == Eager!RemoveAt(c, i)
<1>1. c \in Seq(Nat) /\ Distinct(c) /\ NoChunk \notin Members(c)
  BY DEF Chained
<1>2. /\ d \in Seq(Nat) /\ Len(d) = Len(c) - 1
      /\ \A j \in 1 .. Len(c) - 1 : d[j] = IF j < i THEN c[j] ELSE c[j + 1]
  BY <1>1, RemovedAt
<1>3. Distinct(d) /\ Members(d) = Members(c) \ {c[i]}
  BY <1>1, RemovedMembers
<1>4. Defer!RemoveAt(c, i) = d
  BY SameLibrary
<1> HIDE DEF d
<1>5. Chained(d)
  BY <1>1, <1>2, <1>3 DEF Chained
<1>6. TakenFrom(d, c, i)
  BY <1>2 DEF TakenFrom
<1>7. QED
  BY <1>3, <1>4, <1>5, <1>6

(* The place of a chunk, and its neighbours.                               *)
LEMMA PlaceOf ==
  ASSUME NEW d, Chained(d.chain), NEW n \in Members(d.chain), NEW k, k = Defer!Position(d, n)
  PROVE  /\ k \in 1 .. Len(d.chain) /\ d.chain[k] = n /\ n = At(d.chain, k)
         /\ Follow(d.chain, At(d.chain, k - 1), n) /\ Follow(d.chain, n, At(d.chain, k + 1))
         /\ At(d.chain, k - 1) = (IF k > 1 THEN d.chain[k - 1] ELSE Defer!NoNode)
         /\ At(d.chain, k + 1) = (IF k < Len(d.chain) THEN d.chain[k + 1] ELSE Defer!NoNode)
<1> DEFINE c == d.chain
           L == Len(c)
<1>1. L \in Nat /\ DOMAIN c = 1 .. L
  BY LenProperties DEF Chained
<1>2. \E j \in DOMAIN c : c[j] = n
  BY DEF Members
<1>3. k \in 1 .. L /\ c[k] = n
  BY <1>1, <1>2 DEF Defer!Position
<1> HIDE DEF c, L
<1>4. n = At(c, k)
  BY <1>3 DEF At, L
<1>5. k - 1 \in 0 .. L /\ (k - 1) + 1 = k /\ k \in 0 .. L
  BY <1>1, <1>3
<1>6. Follow(c, At(c, k - 1), n) /\ Follow(c, n, At(c, k + 1))
  BY <1>4, <1>5 DEF Follow, L
<1>7. (k > 1 <=> k - 1 \in 1 .. L) /\ (k < L <=> k + 1 \in 1 .. L)
  BY <1>1, <1>3
<1>8. /\ At(c, k - 1) = (IF k > 1 THEN c[k - 1] ELSE Defer!NoNode)
      /\ At(c, k + 1) = (IF k < L THEN c[k + 1] ELSE Defer!NoNode)
  BY <1>7 DEF At, L, NoChunk
<1>9. QED
  BY <1>3, <1>4, <1>6, <1>8 DEF c, L

-----------------------------------------------------------------------------
(* The chunks of the deferred allocator, and where they will lie.          *)

DeferNode == [size : Nat, offset : Nat, usage : BOOLEAN, into : Nat]

(* What a node holds has its type.                                         *)
LEMMA DeferNodeTyped ==
  ASSUME NEW N \in Seq(DeferNode), NEW n \in 1 .. Len(N)
  PROVE  /\ N[n] \in DeferNode
         /\ N[n].size \in Nat /\ N[n].offset \in Nat /\ N[n].usage \in BOOLEAN /\ N[n].into \in Nat
<1>1. N[n] \in DeferNode
  BY LenProperties
<1>2. \A x \in DeferNode : x.size \in Nat /\ x.offset \in Nat /\ x.usage \in BOOLEAN /\ x.into \in Nat
  BY DEF DeferNode
<1>3. QED
  BY <1>1, <1>2

(* The chain holds the nodes that were not fused into another one, and of  *)
(* two neighbours in it one is in use, unless one is the hole.             *)
Links(N, c, hole) ==
  /\ N \in Seq(DeferNode) /\ Chained(c)
  /\ Members(c) = {n \in 1 .. Len(N) : N[n].into = NoChunk}
  /\ \A x, y : Follow(c, x, y) /\ x \notin {NoChunk, hole} /\ y \notin {NoChunk, hole} =>
       N[x].usage \/ N[y].usage

(* Addresses for the chunks: A, where a chunk will lie; B, where the chunk *)
(* of the chain will lie that it went into; R, how deep below that one it  *)
(* is; E, where the last chunk ends.  Those of the chain lie one behind    *)
(* the other, a fused one at its offset in its parent.                     *)
Lay(N, c, A, B, R, E) ==
  /\ A \in [1 .. Len(N) -> Nat] /\ B \in [1 .. Len(N) -> Nat]
  /\ R \in [1 .. Len(N) -> Nat] /\ E \in Nat /\ Len(c) <= Len(N)
  /\ \A x, y : Follow(c, x, y) =>
       (IF y = NoChunk THEN E ELSE A[y]) = (IF x = NoChunk THEN 0 ELSE A[x] + N[x].size)
  /\ \A x \in Members(c) :
       N[x].size > 0 /\ A[x] + N[x].size <= E /\ B[x] = A[x] /\ R[x] = 0
  /\ \A x, y \in Members(c) :
       x # y => A[x] + N[x].size <= A[y] \/ A[y] + N[y].size <= A[x]
  /\ \A n \in 1 .. Len(N) : n \notin Members(c) =>
       /\ N[n].into \in 1 .. Len(N) /\ A[n] = A[N[n].into] + N[n].offset
       /\ B[n] = B[N[n].into] /\ R[N[n].into] < R[n] /\ R[n] + Len(c) <= Len(N)
  /\ \A n \in 1 .. Len(N) : \E x \in Members(c) : B[n] = A[x]

(* Addresses change so that what was in front of another, or inside of the *)
(* whole, still is.                                                        *)
Eases(L, A, B, E, a, b, e) ==
  /\ \A n \in 1 .. L : \A s \in Nat : A[n] + s <= E => a[n] + s <= e
  /\ \A m, n \in 1 .. L : \A s \in Nat :
       B[m] <= B[n] /\ A[m] + s <= A[n] => b[m] <= b[n] /\ a[m] + s <= a[n]

(* M is N after node b was fused into node a.                              *)
JoinedNodes(N, a, b, M) ==
  /\ M \in Seq(DeferNode) /\ Len(M) = Len(N)
  /\ M[b].into = a /\ M[b].offset = N[a].size /\ M[b].size = N[b].size
  /\ M[a].size = N[a].size + N[b].size /\ M[a].into = N[a].into
  /\ \A n \in 1 .. Len(N) : M[n].usage = N[n].usage
  /\ \A n \in 1 .. Len(N) : n # a /\ n # b => M[n] = N[n]

(* What fuse_to_left() writes.                                             *)
LEMMA JoinNodes ==
  ASSUME NEW N \in Seq(DeferNode), NEW a \in 1 .. Len(N), NEW b \in 1 .. Len(N), a # b,
         NEW M, M = [N EXCEPT ![b].offset = N[a].size, ![b].into = a, ![a].size = @ + N[b].size]
  PROVE  JoinedNodes(N, a, b, M)
<1> DEFINE L == Len(N)
           moved == [[N[b] EXCEPT !.offset = N[a].size] EXCEPT !.into = a]
           grown == [N[a] EXCEPT !.size = @ + N[b].size]
<1>1. L \in Nat /\ DOMAIN N = 1 .. L /\ N \in [1 .. L -> DeferNode]
  BY LenProperties
<1>2. N[a] \in DeferNode /\ N[b] \in DeferNode /\ N[a].size \in Nat /\ N[b].size \in Nat /\ a \in Nat
  BY DeferNodeTyped
<1>3. /\ moved \in DeferNode /\ moved.offset = N[a].size /\ moved.into = a
      /\ moved.size = N[b].size /\ moved.usage = N[b].usage
  BY <1>2 DEF DeferNode
<1>4. /\ grown \in DeferNode /\ grown.size = N[a].size + N[b].size /\ grown.into = N[a].into
      /\ grown.usage = N[a].usage
  <2> DEFINE x == N[a]
             y == N[b].size
             z == N[a].size + N[b].size
  <2>1. x \in DeferNode /\ z \in Nat /\ grown = [x EXCEPT !.size = z]
    BY <1>2
  <2> HIDE DEF x, z, grown
  <2>2. /\ grown \in DeferNode /\ grown.size = z /\ grown.into = x.into
        /\ grown.usage = x.usage
    BY <2>1 DEF DeferNode
  <2>3. QED
    BY <2>2 DEF x, z
<1>5. M = [[N EXCEPT ![b] = moved] EXCEPT ![a] = grown]
  <2>1. M = [[[N EXCEPT ![b].offset = N[a].size] EXCEPT ![b].into = a] EXCEPT ![a].size = @ + N[b].size]
    OBVIOUS
  <2>2. [[N EXCEPT ![b].offset = N[a].size] EXCEPT ![b].into = a] = [N EXCEPT ![b] = moved]
    <3> DEFINE one == [N[b] EXCEPT !.offset = N[a].size]
    <3>1. [N EXCEPT ![b].offset = N[a].size] = [N EXCEPT ![b] = one]
      OBVIOUS
    <3> HIDE DEF one
    <3> DEFINE K == [N EXCEPT ![b] = one]
    <3>2. K[b] = one
      BY <1>1
    <3>3. [K EXCEPT ![b].into = a] = [K EXCEPT ![b] = [one EXCEPT !.into = a]]
      BY <3>2
    <3>4. [K EXCEPT ![b] = [one EXCEPT !.into = a]] = [N EXCEPT ![b] = [one EXCEPT !.into = a]]
      BY <1>1
    <3>5. QED
      BY <3>1, <3>3, <3>4 DEF one
  <2> HIDE DEF moved
  <2> DEFINE K == [N EXCEPT ![b] = moved]
  <2>3. K[a] = N[a]
    BY <1>1
  <2>4. [K EXCEPT ![a].size = @ + N[b].size] = [K EXCEPT ![a] = grown]
    BY <2>3
  <2>5. QED
    BY <2>1, <2>2, <2>4
<1> HIDE DEF moved, grown
<1>6. M \in [1 .. L -> DeferNode]
  BY <1>1, <1>3, <1>4, <1>5
<1>7. M[b] = moved /\ M[a] = grown /\ \A n \in 1 .. L : n # a /\ n # b => M[n] = N[n]
  BY <1>1, <1>5
<1> HIDE DEF L
<1>8. M \in Seq(DeferNode) /\ Len(M) = L
  BY ONLY <1>1, <1>6, Made
<1>9. \A n \in 1 .. L : M[n].usage = N[n].usage
  BY <1>3, <1>4, <1>7
<1>10. QED
  BY <1>3, <1>4, <1>7, <1>8, <1>9 DEF JoinedNodes, L

(* Chunk b follows chunk a, and the two become one.                        *)
Joining(N, c, a, b, M, d) ==
  /\ N \in Seq(DeferNode) /\ Chained(c) /\ Chained(d)
  /\ Members(c) = {n \in 1 .. Len(N) : N[n].into = NoChunk}
  /\ a \in Members(c) /\ b \in Members(c) /\ Follow(c, a, b)
  /\ JoinedNodes(N, a, b, M)
  /\ Members(d) = Members(c) \ {b} /\ Len(d) = Len(c) - 1
  /\ \A x, y : Follow(d, x, y) => (x = a /\ Follow(c, b, y)) \/ (x # a /\ Follow(c, x, y))

Into(B, from, to) == [n \in DOMAIN B |-> IF B[n] = from THEN to ELSE B[n]]
Deeper(B, R, from) == [n \in DOMAIN B |-> IF B[n] = from THEN R[n] + 1 ELSE R[n]]

(* No chunk moves when two are fused.                                      *)
LEMMA LayJoined ==
  ASSUME NEW N, NEW c, NEW a, NEW b, NEW M, NEW d, Joining(N, c, a, b, M, d),
         NEW A, NEW B, NEW R, NEW E, Lay(N, c, A, B, R, E)
  PROVE  /\ Lay(M, d, A, Into(B, A[b], A[a]), Deeper(B, R, A[b]), E)
         /\ Eases(Len(N), A, B, E, A, Into(B, A[b], A[a]), E)
<1> DEFINE L == Len(N)
           C == Members(c)
           K == Len(c)
           F == Into(B, A[b], A[a])
           D == Deeper(B, R, A[b])
<1>1. /\ N \in Seq(DeferNode) /\ Chained(c) /\ Chained(d)
      /\ C = {n \in 1 .. L : N[n].into = NoChunk}
      /\ a \in C /\ b \in C /\ Follow(c, a, b)
      /\ Members(d) = C \ {b} /\ Len(d) = K - 1
      /\ \A x, y : Follow(d, x, y) => (x = a /\ Follow(c, b, y)) \/ (x # a /\ Follow(c, x, y))
  BY DEF Joining
<1>2. /\ M \in Seq(DeferNode) /\ Len(M) = L
      /\ M[b].into = a /\ M[b].offset = N[a].size /\ M[b].size = N[b].size
      /\ M[a].size = N[a].size + N[b].size
      /\ \A n \in 1 .. L : n # a /\ n # b => M[n] = N[n]
  BY DEF Joining, JoinedNodes
<1>3. /\ A \in [1 .. L -> Nat] /\ B \in [1 .. L -> Nat]
      /\ R \in [1 .. L -> Nat] /\ E \in Nat /\ K <= L
      /\ \A x, y : Follow(c, x, y) =>
           (IF y = NoChunk THEN E ELSE A[y]) = (IF x = NoChunk THEN 0 ELSE A[x] + N[x].size)
      /\ \A x \in C : N[x].size > 0 /\ A[x] + N[x].size <= E /\ B[x] = A[x] /\ R[x] = 0
      /\ \A x, y \in C : x # y => A[x] + N[x].size <= A[y] \/ A[y] + N[y].size <= A[x]
  BY DEF Lay
<1>4. /\ \A n \in 1 .. L : n \notin C =>
           /\ N[n].into \in 1 .. L /\ A[n] = A[N[n].into] + N[n].offset
           /\ B[n] = B[N[n].into] /\ R[N[n].into] < R[n] /\ R[n] + K <= L
      /\ \A n \in 1 .. L : \E x \in C : B[n] = A[x]
  BY DEF Lay
<1>5. L \in Nat /\ K \in Nat
  BY <1>1, LenProperties DEF Chained
<1>6. \A x \in C : x \in 1 .. L /\ N[x].size \in Nat /\ A[x] \in Nat /\ x # NoChunk
  <2>1. ASSUME NEW x \in C PROVE x \in 1 .. L /\ N[x].size \in Nat /\ A[x] \in Nat /\ x # NoChunk
    <3>1. x \in 1 .. L /\ x # NoChunk
      BY <1>1 DEF Chained
    <3>2. QED
      BY <1>1, <1>3, <3>1, DeferNodeTyped
  <2>2. QED
    BY <2>1
<1>7. a # b /\ a \in 1 .. L /\ b \in 1 .. L /\ a # NoChunk /\ b # NoChunk
      /\ A[b] = A[a] + N[a].size
  <2>1. a # b
    BY <1>1, <1>6, FollowOnce
  <2>2. QED
    BY <1>1, <1>3, <1>6, <2>1
<1>8. /\ F \in [1 .. L -> Nat] /\ D \in [1 .. L -> Nat]
      /\ \A n \in 1 .. L : /\ B[n] \in Nat /\ R[n] \in Nat
                           /\ F[n] = (IF B[n] = A[b] THEN A[a] ELSE B[n])
                           /\ D[n] = (IF B[n] = A[b] THEN R[n] + 1 ELSE R[n])
  <2>1. DOMAIN B = 1 .. L
    BY <1>3
  <2>2. A[a] \in Nat
    BY <1>6, <1>1
  <2>3. QED
    BY <1>3, <2>1, <2>2 DEF Into, Deeper
<1> HIDE DEF L, C, K, F, D
<1>9. \A x \in C : A[x] = A[b] => x = b
  <2>1. ASSUME NEW x \in C, A[x] = A[b], x # b
        PROVE  FALSE
    <3> DEFINE p == A[x]
               q == N[x].size
               r == N[b].size
    <3>1. p + q <= p \/ p + r <= p
      BY <1>1, <1>3, <2>1
    <3>2. p \in Nat /\ q \in Nat /\ r \in Nat /\ q > 0 /\ r > 0
      BY <1>1, <1>3, <1>6, <2>1
    <3> HIDE DEF p, q, r
    <3>3. QED
      BY <3>1, <3>2
  <2>2. QED
    BY <2>1
<1>10. \A x \in C : x # b => F[x] = A[x] /\ D[x] = 0
  BY <1>3, <1>6, <1>8, <1>9
<1>11. F[b] = A[a] /\ D[b] = 1
  BY <1>1, <1>3, <1>7, <1>8
<1>12. \A x \in Members(d) : x \in C /\ x # b /\ (x # a => M[x] = N[x])
  BY <1>1, <1>2, <1>6
<1>13. ASSUME NEW x, NEW y, Follow(d, x, y)
       PROVE  (IF y = NoChunk THEN E ELSE A[y]) = (IF x = NoChunk THEN 0 ELSE A[x] + M[x].size)
  <2>1. CASE x = a /\ Follow(c, b, y)
    <3>1. (IF y = NoChunk THEN E ELSE A[y]) = A[b] + N[b].size
      BY <1>3, <1>7, <2>1
    <3>2. A[b] + N[b].size = A[a] + M[a].size
      BY <1>1, <1>2, <1>6, <1>7
    <3>3. QED
      BY <1>7, <2>1, <3>1, <3>2
  <2>2. CASE x # a /\ Follow(c, x, y)
    <3>1. x = NoChunk \/ x \in Members(d)
      BY <1>1, <1>13, FollowOnce
    <3>2. x # NoChunk => M[x] = N[x]
      BY <1>12, <2>2, <3>1
    <3>3. QED
      BY <1>3, <2>2, <3>2
  <2>3. QED
    BY <1>1, <1>13, <2>1, <2>2
<1>14. ASSUME NEW x \in Members(d)
       PROVE  M[x].size > 0 /\ A[x] + M[x].size <= E /\ F[x] = A[x] /\ D[x] = 0
  <2>1. CASE x = a
    <3>1. A[b] + N[b].size <= E /\ N[a].size > 0
      BY <1>1, <1>3
    <3>2. M[a].size > 0 /\ A[a] + M[a].size <= E
      BY <1>1, <1>2, <1>6, <1>7, <3>1
    <3>3. QED
      BY <1>10, <1>12, <2>1, <3>2
  <2>2. CASE x # a
    BY <1>3, <1>10, <1>12, <2>2
  <2>3. QED
    BY <2>1, <2>2
<1>15. ASSUME NEW y \in C, y # a, y # b
       PROVE  A[a] + M[a].size <= A[y] \/ A[y] + N[y].size <= A[a]
  <2>1. A[a] + N[a].size <= A[y] \/ A[y] + N[y].size <= A[a]
    BY <1>1, <1>3, <1>15
  <2>2. A[b] + N[b].size <= A[y] \/ A[y] + N[y].size <= A[b]
    BY <1>1, <1>3, <1>15
  <2>3. N[y].size > 0 /\ N[y].size \in Nat /\ A[y] \in Nat
    BY <1>3, <1>6
  <2>4. N[a].size \in Nat /\ A[a] \in Nat /\ N[b].size \in Nat /\ A[b] \in Nat
    BY <1>1, <1>6
  <2> DEFINE p == A[a]
             q == A[y]
             r == N[a].size
             s == N[y].size
             t == N[b].size
             u == A[b]
             m == M[a].size
  <2>5. m = r + t /\ u = p + r
    BY <1>2, <1>7
  <2> HIDE DEF p, q, r, s, t, u, m
  <2>6. p + m <= q \/ q + s <= p
    BY <2>1, <2>2, <2>3, <2>4, <2>5 DEF p, q, r, s, t, u
  <2>7. QED
    BY <2>6 DEF p, q, s, m
<1>16. ASSUME NEW x \in Members(d), NEW y \in Members(d), x # y
       PROVE  A[x] + M[x].size <= A[y] \/ A[y] + M[y].size <= A[x]
  <2>1. CASE x # a /\ y # a
    BY <1>3, <1>12, <1>16, <2>1
  <2>2. CASE x = a
    BY <1>12, <1>15, <1>16, <2>2
  <2>3. CASE y = a
    BY <1>12, <1>15, <1>16, <2>3
  <2>4. QED
    BY <2>1, <2>2, <2>3
<1>17. ASSUME NEW n \in 1 .. L, n \notin Members(d)
       PROVE  /\ M[n].into \in 1 .. L /\ A[n] = A[M[n].into] + M[n].offset
              /\ F[n] = F[M[n].into] /\ D[M[n].into] < D[n] /\ D[n] + (K - 1) <= L
  <2>1. CASE n = b
    <3>1. M[n].into = a /\ A[n] = A[a] + M[n].offset
      BY <1>2, <1>7, <2>1
    <3>2. F[n] = F[a] /\ D[a] = 0 /\ D[n] = 1
      BY <1>1, <1>7, <1>10, <1>11, <2>1
    <3>3. 1 + (K - 1) <= L
      BY <1>3, <1>5
    <3>4. QED
      BY <1>7, <3>1, <3>2, <3>3
  <2>2. CASE n # b
    <3>1. n \notin C /\ M[n] = N[n]
      BY <1>1, <1>2, <1>17, <2>2
    <3>2. /\ N[n].into \in 1 .. L /\ A[n] = A[N[n].into] + N[n].offset
          /\ B[n] = B[N[n].into] /\ R[N[n].into] < R[n] /\ R[n] + K <= L
      BY <1>4, <3>1
    <3> DEFINE p == N[n].into
    <3> HIDE DEF p
    <3>3. p \in 1 .. L /\ B[n] = B[p] /\ R[p] < R[n] /\ R[n] + K <= L
      BY <3>2 DEF p
    <3>4. F[n] = F[p]
      BY <1>8, <3>3
    <3>5. D[p] < D[n]
      BY <1>8, <3>3
    <3>6. D[n] + (K - 1) <= L
      <4>1. D[n] <= R[n] + 1 /\ R[n] \in Nat /\ D[n] \in Nat
        BY <1>8
      <4> DEFINE u == D[n]
                 v == R[n]
      <4>2. u <= v + 1 /\ v + K <= L /\ u \in Nat /\ v \in Nat
        BY <3>3, <4>1
      <4> HIDE DEF u, v
      <4>3. u + (K - 1) <= L
        BY <1>5, <4>2
      <4>4. QED
        BY <4>3 DEF u
    <3>7. QED
      BY <3>1, <3>2, <3>4, <3>5, <3>6 DEF p
  <2>3. QED
    BY <2>1, <2>2
<1>18. ASSUME NEW n \in 1 .. L
       PROVE  \E x \in Members(d) : F[n] = A[x]
  <2>1. PICK x \in C : B[n] = A[x]
    BY <1>4
  <2>2. CASE x = b
    <3>1. F[n] = A[a] /\ a \in Members(d)
      BY <1>1, <1>7, <1>8, <2>1, <2>2
    <3>2. QED
      BY <3>1
  <2>3. CASE x # b
    <3>1. F[n] = A[x] /\ x \in Members(d)
      BY <1>1, <1>8, <1>9, <2>1, <2>3
    <3>2. QED
      BY <3>1
  <2>4. QED
    BY <2>2, <2>3
<1>19. Lay(M, d, A, F, D, E)
  <2>1. Len(M) = L /\ Len(d) = K - 1 /\ K - 1 <= L
    BY <1>1, <1>2, <1>3, <1>5
  <2>2. \A n \in 1 .. L : n \notin Members(d) =>
           /\ M[n].into \in 1 .. L /\ A[n] = A[M[n].into] + M[n].offset
           /\ F[n] = F[M[n].into] /\ D[M[n].into] < D[n] /\ D[n] + (K - 1) <= L
    BY <1>17
  <2>3. QED
    BY <1>3, <1>8, <1>13, <1>14, <1>16, <1>18, <2>1, <2>2 DEF Lay
<1>20. ASSUME NEW m \in 1 .. L, NEW n \in 1 .. L, B[m] <= B[n]
       PROVE  F[m] <= F[n]
  <2>1. PICK x \in C : B[m] = A[x]
    BY <1>4
  <2>2. PICK y \in C : B[n] = A[y]
    BY <1>4
  <2>3. A[a] <= A[b] /\ A[a] \in Nat /\ A[b] \in Nat /\ A[x] \in Nat /\ A[y] \in Nat
    BY <1>1, <1>6, <1>7
  <2>4. CASE y # b
    BY <1>8, <1>9, <1>20, <2>1, <2>2, <2>3, <2>4
  <2>5. CASE y = b /\ x = b
    BY <1>8, <2>1, <2>2, <2>3, <2>5
  <2>6. CASE y = b /\ x # b
    <3>1. A[x] # A[b] /\ A[x] <= A[b]
      BY <1>9, <1>20, <2>1, <2>2, <2>6
    <3>2. A[x] <= A[a]
      <4>1. CASE x = a
        BY <2>3, <4>1
      <4>2. CASE x # a
        <5>1. A[a] + N[a].size <= A[x] \/ A[x] + N[x].size <= A[a]
          BY <1>1, <1>3, <4>2
        <5>2. N[x].size \in Nat
          BY <1>6
        <5>3. QED
          BY <1>7, <2>3, <3>1, <5>1, <5>2
      <4>3. QED
        BY <4>1, <4>2
    <3>3. F[m] = A[x] /\ F[n] = A[a]
      BY <1>8, <2>1, <2>2, <2>6, <3>1
    <3>4. QED
      BY <3>2, <3>3
  <2>7. QED
    BY <2>4, <2>5, <2>6
<1>21. Eases(L, A, B, E, A, F, E)
  BY <1>20 DEF Eases
<1>22. QED
  BY <1>19, <1>21 DEF F, D, L

(* Whether a chunk is in use does not matter to where it lies.             *)
LEMMA LaySame ==
  ASSUME NEW N, NEW M, NEW c, Chained(c), Members(c) \subseteq 1 .. Len(N),
         Len(M) = Len(N),
         \A n \in 1 .. Len(N) :
           M[n].size = N[n].size /\ M[n].offset = N[n].offset /\ M[n].into = N[n].into,
         NEW A, NEW B, NEW R, NEW E, Lay(N, c, A, B, R, E)
  PROVE  Lay(M, c, A, B, R, E)
<1> DEFINE L == Len(N)
           C == Members(c)
<1>1. /\ Len(M) = L /\ C \subseteq 1 .. L
      /\ \A n \in 1 .. L :
           M[n].size = N[n].size /\ M[n].offset = N[n].offset /\ M[n].into = N[n].into
  OBVIOUS
<1>2. /\ A \in [1 .. L -> Nat] /\ B \in [1 .. L -> Nat]
      /\ R \in [1 .. L -> Nat] /\ E \in Nat /\ Len(c) <= L
      /\ \A x, y : Follow(c, x, y) =>
           (IF y = NoChunk THEN E ELSE A[y]) = (IF x = NoChunk THEN 0 ELSE A[x] + N[x].size)
      /\ \A x \in C : N[x].size > 0 /\ A[x] + N[x].size <= E /\ B[x] = A[x] /\ R[x] = 0
      /\ \A x, y \in C : x # y => A[x] + N[x].size <= A[y] \/ A[y] + N[y].size <= A[x]
  BY DEF Lay
<1>3. /\ \A n \in 1 .. L : n \notin C =>
           /\ N[n].into \in 1 .. L /\ A[n] = A[N[n].into] + N[n].offset
           /\ B[n] = B[N[n].into] /\ R[N[n].into] < R[n] /\ R[n] + Len(c) <= L
      /\ \A n \in 1 .. L : \E x \in C : B[n] = A[x]
  BY DEF Lay
<1>4. \A x, y : Follow(c, x, y) => x = NoChunk \/ x \in C
  BY FollowOnce
<1> HIDE DEF L, C
<1>5. ASSUME NEW x, NEW y, Follow(c, x, y)
      PROVE  (IF y = NoChunk THEN E ELSE A[y]) = (IF x = NoChunk THEN 0 ELSE A[x] + M[x].size)
  <2>1. x # NoChunk => M[x].size = N[x].size
    BY <1>1, <1>4, <1>5
  <2>2. QED
    BY <1>2, <1>5, <2>1
<1>6. \A x \in C : M[x].size > 0 /\ A[x] + M[x].size <= E /\ B[x] = A[x] /\ R[x] = 0
  BY <1>1, <1>2
<1>7. \A x, y \in C : x # y => A[x] + M[x].size <= A[y] \/ A[y] + M[y].size <= A[x]
  BY <1>1, <1>2
<1>8. \A n \in 1 .. L : n \notin C =>
        /\ M[n].into \in 1 .. L /\ A[n] = A[M[n].into] + M[n].offset
        /\ B[n] = B[M[n].into] /\ R[M[n].into] < R[n] /\ R[n] + Len(c) <= L
  BY <1>1, <1>3
<1>9. QED
  BY <1>1, <1>2, <1>3, <1>5, <1>6, <1>7, <1>8 DEF Lay, C

(* What the parts of Lay say of the chunks of the chain.                   *)
LEMMA LayTyped ==
  ASSUME NEW N \in Seq(DeferNode), NEW c, Chained(c), Members(c) \subseteq 1 .. Len(N),
         NEW A, NEW B, NEW R, NEW E, Lay(N, c, A, B, R, E)
  PROVE  \A x \in Members(c) : /\ x \in 1 .. Len(N) /\ x # NoChunk
                               /\ N[x].size \in Nat /\ A[x] \in Nat
<1>1. A \in [1 .. Len(N) -> Nat]
  BY DEF Lay
<1>2. ASSUME NEW x \in Members(c)
      PROVE  x \in 1 .. Len(N) /\ x # NoChunk /\ N[x].size \in Nat /\ A[x] \in Nat
  <2>1. x \in 1 .. Len(N) /\ x # NoChunk
    BY DEF Chained
  <2>2. QED
    BY <1>1, <2>1, DeferNodeTyped
<1>3. QED
  BY <1>2

(* d is the chain c with r behind l.                                       *)
Lengthens(c, l, r, d) ==
  /\ Chained(c) /\ Chained(d) /\ r # NoChunk /\ r \notin Members(c)
  /\ Members(d) = Members(c) \cup {r} /\ Len(d) = Len(c) + 1
  /\ \A x, y : Follow(d, x, y) => \/ x = l /\ y = r
                                  \/ x = r /\ Follow(c, l, y)
                                  \/ x # l /\ x # r /\ Follow(c, x, y)

(* M is N with a node more.                                                *)
OneMore(N, size, usage, M) ==
  /\ M \in Seq(DeferNode) /\ Len(M) = Len(N) + 1
  /\ M[Len(N) + 1] = Defer!MemNode(size, usage)
  /\ \A n \in 1 .. Len(N) : M[n] = N[n]

(* A new chunk is added behind the last one.                               *)
Adjoins(N, c, size, l, M, d) ==
  /\ N \in Seq(DeferNode) /\ Members(c) \subseteq 1 .. Len(N) /\ size \in Nat /\ size > 0
  /\ Lengthens(c, l, Len(N) + 1, d) /\ Follow(c, l, NoChunk)
  /\ OneMore(N, size, TRUE, M)

With(X, n, v) == [m \in DOMAIN X \cup {n} |-> IF m = n THEN v ELSE X[m]]

Widening(X, L, r, v) == L \in Nat /\ X \in [1 .. L -> Nat] /\ r = L + 1 /\ v \in Nat

Widens(Y, X, L, r, v) ==
  /\ Y \in [1 .. L + 1 -> Nat] /\ Y[r] = v
  /\ \A m \in 1 .. L : Y[m] = X[m]

(* One value more.                                                         *)
LEMMA WithOne ==
  ASSUME NEW X, NEW L, NEW r, NEW v, Widening(X, L, r, v)
  PROVE  Widens(With(X, r, v), X, L, r, v)
<1>1. L \in Nat /\ X \in [1 .. L -> Nat] /\ r = L + 1 /\ v \in Nat
  BY DEF Widening
<1>2. (1 .. L) \cup {r} = 1 .. L + 1 /\ \A m \in 1 .. L : m # r
  BY <1>1
<1>3. QED
  BY <1>1, <1>2 DEF With, Widens

(* It lies at the end; the others stay.                                    *)
LEMMA LayAdjoined ==
  ASSUME NEW N, NEW c, NEW size, NEW l, NEW M, NEW d, Adjoins(N, c, size, l, M, d),
         NEW A, NEW B, NEW R, NEW E, Lay(N, c, A, B, R, E),
         NEW r, r = Len(N) + 1
  PROVE  /\ Lay(M, d, With(A, r, E), With(B, r, E), With(R, r, 0), E + size)
         /\ Eases(Len(N), A, B, E, With(A, r, E), With(B, r, E), E + size)
<1> DEFINE L == Len(N)
           C == Members(c)
           K == Len(c)
           a == With(A, r, E)
           b == With(B, r, E)
           q == With(R, r, 0)
           e == E + size
<1>1. /\ N \in Seq(DeferNode) /\ C \subseteq 1 .. L /\ size \in Nat /\ size > 0
      /\ Chained(c) /\ Chained(d) /\ r # NoChunk /\ r \notin C
      /\ Members(d) = C \cup {r} /\ Len(d) = K + 1
      /\ \A x, y : Follow(d, x, y) => \/ x = l /\ y = r
                                      \/ x = r /\ Follow(c, l, y)
                                      \/ x # l /\ x # r /\ Follow(c, x, y)
      /\ Follow(c, l, NoChunk)
      /\ M \in Seq(DeferNode) /\ Len(M) = L + 1
      /\ M[r] = Defer!MemNode(size, TRUE) /\ \A n \in 1 .. L : M[n] = N[n]
  BY DEF Adjoins, Lengthens, OneMore
<1>2. /\ A \in [1 .. L -> Nat] /\ B \in [1 .. L -> Nat]
      /\ R \in [1 .. L -> Nat] /\ E \in Nat /\ K <= L
      /\ \A x, y : Follow(c, x, y) =>
           (IF y = NoChunk THEN E ELSE A[y]) = (IF x = NoChunk THEN 0 ELSE A[x] + N[x].size)
      /\ \A x \in C : N[x].size > 0 /\ A[x] + N[x].size <= E /\ B[x] = A[x] /\ R[x] = 0
      /\ \A x, y \in C : x # y => A[x] + N[x].size <= A[y] \/ A[y] + N[y].size <= A[x]
  BY DEF Lay
<1>3. /\ \A n \in 1 .. L : n \notin C =>
           /\ N[n].into \in 1 .. L /\ A[n] = A[N[n].into] + N[n].offset
           /\ B[n] = B[N[n].into] /\ R[N[n].into] < R[n] /\ R[n] + K <= L
      /\ \A n \in 1 .. L : \E x \in C : B[n] = A[x]
  BY DEF Lay
<1>4. L \in Nat /\ K \in Nat /\ r = L + 1
  BY <1>1, LenProperties DEF Chained
<1>5. \A x \in C : x \in 1 .. L /\ x # NoChunk /\ N[x].size \in Nat /\ A[x] \in Nat
  BY <1>1, LayTyped
<1>6. M[r].size = size /\ M[r].into = NoChunk
  BY <1>1 DEF Defer!MemNode, NoChunk
<1> HIDE DEF L, C, K
<1>7. /\ a \in [1 .. L + 1 -> Nat] /\ b \in [1 .. L + 1 -> Nat] /\ q \in [1 .. L + 1 -> Nat]
      /\ a[r] = E /\ b[r] = E /\ q[r] = 0
      /\ \A n \in 1 .. L : a[n] = A[n] /\ b[n] = B[n] /\ q[n] = R[n]
  <2>1. Widening(A, L, r, E) /\ Widening(B, L, r, E) /\ Widening(R, L, r, 0)
    BY <1>2, <1>4 DEF Widening
  <2>2. Widens(a, A, L, r, E) /\ Widens(b, B, L, r, E) /\ Widens(q, R, L, r, 0)
    BY <2>1, WithOne
  <2>3. QED
    BY <2>2 DEF Widens
<1> HIDE DEF a, b, q
<1>8. e \in Nat /\ E < e /\ e = E + size
  BY <1>1, <1>2
<1> HIDE DEF e
<1>9. r \in 1 .. L + 1 /\ \A n \in 1 .. L + 1 : n # r => n \in 1 .. L
  BY <1>4
<1>10. \A x, y : Follow(c, x, y) => (x = NoChunk \/ x \in C) /\ (y = NoChunk \/ y \in C)
  BY <1>1, FollowOnce DEF C
<1>11. ASSUME NEW x, NEW y, Follow(d, x, y)
       PROVE  (IF y = NoChunk THEN e ELSE a[y]) = (IF x = NoChunk THEN 0 ELSE a[x] + M[x].size)
  <2>1. CASE x = l /\ y = r
    <3>1. E = (IF x = NoChunk THEN 0 ELSE A[x] + N[x].size)
      BY <1>1, <1>2, <2>1
    <3>2. x # NoChunk => a[x] = A[x] /\ M[x] = N[x]
      BY <1>1, <1>5, <1>7, <1>10, <2>1
    <3>3. QED
      BY <1>1, <1>7, <2>1, <3>1, <3>2
  <2>2. CASE x = r /\ Follow(c, l, y)
    <3>1. y = NoChunk
      BY <1>1, <2>2, FollowOnce
    <3>2. QED
      BY <1>1, <1>6, <1>7, <1>8, <2>2, <3>1
  <2>3. CASE x # l /\ x # r /\ Follow(c, x, y)
    <3>1. y # NoChunk
      BY <1>1, <2>3, FollowOnce
    <3>2. a[y] = A[y]
      BY <1>5, <1>7, <1>10, <2>3, <3>1
    <3>3. x # NoChunk => a[x] = A[x] /\ M[x] = N[x]
      BY <1>1, <1>5, <1>7, <1>10, <2>3
    <3>4. QED
      BY <1>2, <2>3, <3>1, <3>2, <3>3
  <2>4. QED
    BY <1>1, <1>11, <2>1, <2>2, <2>3
<1>12. \A x \in C : x # r /\ a[x] = A[x] /\ M[x] = N[x] /\ b[x] = B[x] /\ q[x] = R[x]
  BY <1>1, <1>5, <1>7
<1>13. ASSUME NEW x \in Members(d)
       PROVE  M[x].size > 0 /\ a[x] + M[x].size <= e /\ b[x] = a[x] /\ q[x] = 0
  <2>1. CASE x = r
    <3>1. M[x].size = size /\ a[x] = E /\ b[x] = E /\ q[x] = 0
      BY <1>6, <1>7, <2>1
    <3>2. E + size <= e
      BY <1>8
    <3>3. QED
      BY <1>1, <3>1, <3>2
  <2>2. CASE x # r
    <3>1. x \in C
      BY <1>1, <2>2
    <3>2. A[x] + N[x].size <= E /\ A[x] + N[x].size \in Nat
      BY <1>2, <1>5, <3>1
    <3>3. A[x] + N[x].size <= e
      BY <1>2, <1>8, <3>2
    <3>4. QED
      BY <1>2, <1>12, <3>1, <3>3
  <2>3. QED
    BY <2>1, <2>2
<1>14. ASSUME NEW x \in Members(d), NEW y \in Members(d), x # y
       PROVE  a[x] + M[x].size <= a[y] \/ a[y] + M[y].size <= a[x]
  <2>1. CASE x = r
    BY <1>1, <1>2, <1>7, <1>12, <1>14, <2>1
  <2>2. CASE y = r
    BY <1>1, <1>2, <1>7, <1>12, <1>14, <2>2
  <2>3. CASE x # r /\ y # r
    BY <1>1, <1>2, <1>12, <1>14, <2>3
  <2>4. QED
    BY <2>1, <2>2, <2>3
<1>15. ASSUME NEW n \in 1 .. L + 1, n \notin Members(d)
       PROVE  /\ M[n].into \in 1 .. L + 1 /\ a[n] = a[M[n].into] + M[n].offset
              /\ b[n] = b[M[n].into] /\ q[M[n].into] < q[n] /\ q[n] + (K + 1) <= L + 1
  <2>1. n \in 1 .. L /\ n \notin C /\ M[n] = N[n]
    BY <1>1, <1>9, <1>15
  <2>2. /\ N[n].into \in 1 .. L /\ A[n] = A[N[n].into] + N[n].offset
        /\ B[n] = B[N[n].into] /\ R[N[n].into] < R[n] /\ R[n] + K <= L
    BY <1>3, <2>1
  <2>3. N[n].into \in 1 .. L + 1
    BY <1>4, <2>2
  <2>4. R[n] \in Nat
    BY <1>2, <2>1
  <2> DEFINE u == R[n]
  <2>5. u \in Nat /\ u + K <= L
    BY <2>2, <2>4
  <2> HIDE DEF u
  <2>6. u + (K + 1) <= L + 1
    BY <1>4, <2>5
  <2>7. QED
    BY <1>7, <2>1, <2>2, <2>3, <2>6 DEF u
<1>16. ASSUME NEW n \in 1 .. L + 1
       PROVE  \E x \in Members(d) : b[n] = a[x]
  <2>1. CASE n = r
    BY <1>1, <1>7, <2>1
  <2>2. CASE n # r
    <3>1. n \in 1 .. L
      BY <1>9, <2>2
    <3>2. PICK x \in C : B[n] = A[x]
      BY <1>3, <3>1
    <3>3. x \in Members(d) /\ b[n] = a[x]
      BY <1>1, <1>7, <1>12, <3>1, <3>2
    <3>4. QED
      BY <3>3
  <2>3. QED
    BY <2>1, <2>2
<1>17. Lay(M, d, a, b, q, e)
  <2>1. Len(M) = L + 1 /\ Len(d) = K + 1 /\ K + 1 <= L + 1
    BY <1>1, <1>2, <1>4
  <2>2. \A n \in 1 .. L + 1 : n \notin Members(d) =>
           /\ M[n].into \in 1 .. L + 1 /\ a[n] = a[M[n].into] + M[n].offset
           /\ b[n] = b[M[n].into] /\ q[M[n].into] < q[n] /\ q[n] + (K + 1) <= L + 1
    BY <1>15
  <2>3. QED
    BY <1>7, <1>8, <1>11, <1>13, <1>14, <1>16, <2>1, <2>2 DEF Lay
<1>18. Eases(L, A, B, E, a, b, e)
  <2>1. ASSUME NEW n \in 1 .. L, NEW s \in Nat, A[n] + s <= E
        PROVE  a[n] + s <= e
    <3>1. a[n] = A[n] /\ A[n] \in Nat
      BY <1>2, <1>7
    <3>2. A[n] + s <= e
      BY <1>2, <1>8, <2>1, <3>1
    <3>3. QED
      BY <3>1, <3>2
  <2>2. QED
    BY <1>7, <2>1 DEF Eases
<1>19. QED
  BY <1>17, <1>18 DEF a, b, q, e, L

(* Chunk n of the chain is cut: its rest is a chunk of its own behind it.  *)
Splits(N, c, n, size, M, d) ==
  /\ N \in Seq(DeferNode) /\ Members(c) \subseteq 1 .. Len(N) /\ n \in Members(c)
  /\ size \in Nat /\ size > 0 /\ size < N[n].size
  /\ Lengthens(c, n, Len(N) + 1, d)
  /\ M \in Seq(DeferNode) /\ Len(M) = Len(N) + 1
  /\ M[Len(N) + 1] = Defer!MemNode(N[n].size - size, FALSE)
  /\ M[n].size = size
  /\ \A m \in 1 .. Len(N) : m # n => M[m] = N[m]

(* No chunk moves, and the rest lies where the cut is.                     *)
LEMMA LaySplit ==
  ASSUME NEW N, NEW c, NEW n, NEW size, NEW M, NEW d, Splits(N, c, n, size, M, d),
         NEW A, NEW B, NEW R, NEW E, Lay(N, c, A, B, R, E),
         NEW r, r = Len(N) + 1, NEW p, p = A[n] + size
  PROVE  /\ Lay(M, d, With(A, r, p), With(B, r, p), With(R, r, 0), E)
         /\ Eases(Len(N), A, B, E, With(A, r, p), With(B, r, p), E)
<1> DEFINE L == Len(N)
           C == Members(c)
           K == Len(c)
           a == With(A, r, p)
           b == With(B, r, p)
           q == With(R, r, 0)
           s == N[n].size
<1>1. /\ N \in Seq(DeferNode) /\ C \subseteq 1 .. L /\ n \in C
      /\ size \in Nat /\ size > 0 /\ size < s
      /\ Chained(c) /\ Chained(d) /\ r # NoChunk /\ r \notin C
      /\ Members(d) = C \cup {r} /\ Len(d) = K + 1
      /\ \A x, y : Follow(d, x, y) => \/ x = n /\ y = r
                                      \/ x = r /\ Follow(c, n, y)
                                      \/ x # n /\ x # r /\ Follow(c, x, y)
      /\ M \in Seq(DeferNode) /\ Len(M) = L + 1
      /\ M[r] = Defer!MemNode(s - size, FALSE) /\ M[n].size = size
      /\ \A m \in 1 .. L : m # n => M[m] = N[m]
  BY DEF Splits, Lengthens
<1>2. /\ A \in [1 .. L -> Nat] /\ B \in [1 .. L -> Nat]
      /\ R \in [1 .. L -> Nat] /\ E \in Nat /\ K <= L
      /\ \A x, y : Follow(c, x, y) =>
           (IF y = NoChunk THEN E ELSE A[y]) = (IF x = NoChunk THEN 0 ELSE A[x] + N[x].size)
      /\ \A x \in C : N[x].size > 0 /\ A[x] + N[x].size <= E /\ B[x] = A[x] /\ R[x] = 0
      /\ \A x, y \in C : x # y => A[x] + N[x].size <= A[y] \/ A[y] + N[y].size <= A[x]
  BY DEF Lay
<1>3. /\ \A m \in 1 .. L : m \notin C =>
           /\ N[m].into \in 1 .. L /\ A[m] = A[N[m].into] + N[m].offset
           /\ B[m] = B[N[m].into] /\ R[N[m].into] < R[m] /\ R[m] + K <= L
      /\ \A m \in 1 .. L : \E x \in C : B[m] = A[x]
  BY DEF Lay
<1>4. L \in Nat /\ K \in Nat /\ r = L + 1
  BY <1>1, LenProperties DEF Chained
<1>5. \A x \in C : x \in 1 .. L /\ x # NoChunk /\ N[x].size \in Nat /\ A[x] \in Nat
  BY <1>1, LayTyped
<1>6. M[r].size = s - size /\ M[r].into = NoChunk
  BY <1>1 DEF Defer!MemNode, NoChunk
<1>7. s \in Nat /\ A[n] \in Nat /\ p \in Nat /\ A[n] + s <= E /\ p = A[n] + size
      /\ n # NoChunk /\ n \in 1 .. L
  BY <1>1, <1>2, <1>5
<1>8. \A x, y : Follow(c, x, y) => (x = NoChunk \/ x \in C) /\ (y = NoChunk \/ y \in C)
  BY <1>1, FollowOnce DEF C
<1> HIDE DEF L, C, K, s
<1>9. /\ a \in [1 .. L + 1 -> Nat] /\ b \in [1 .. L + 1 -> Nat] /\ q \in [1 .. L + 1 -> Nat]
      /\ a[r] = p /\ b[r] = p /\ q[r] = 0
      /\ \A m \in 1 .. L : a[m] = A[m] /\ b[m] = B[m] /\ q[m] = R[m]
  <2>1. Widening(A, L, r, p) /\ Widening(B, L, r, p) /\ Widening(R, L, r, 0)
    BY <1>2, <1>4, <1>7 DEF Widening
  <2>2. Widens(a, A, L, r, p) /\ Widens(b, B, L, r, p) /\ Widens(q, R, L, r, 0)
    BY <2>1, WithOne
  <2>3. QED
    BY <2>2 DEF Widens
<1> HIDE DEF a, b, q
<1> DEFINE t == M[r].size
           g == A[n]
<1>10. t = s - size /\ t \in Nat /\ t > 0 /\ g \in Nat
       /\ p = g + size /\ p + t = g + s /\ g + size <= p /\ g <= p /\ g + size <= E /\ p + t <= E
  <2>1. t = s - size /\ g \in Nat /\ p = g + size /\ g + s <= E
    BY <1>6, <1>7
  <2>2. size \in Nat /\ size > 0 /\ size < s /\ s \in Nat /\ E \in Nat
    BY <1>1, <1>2, <1>7
  <2> HIDE DEF t, g
  <2>3. QED
    BY ONLY <2>1, <2>2
<1> HIDE DEF t, g
<1>11. r \in 1 .. L + 1 /\ \A m \in 1 .. L + 1 : m # r => m \in 1 .. L
  BY <1>4
<1>12. \A x \in C : /\ x # r /\ a[x] = A[x] /\ b[x] = B[x] /\ q[x] = R[x]
                    /\ x # n => M[x] = N[x]
  BY <1>1, <1>5, <1>9
<1>13. a[n] = g /\ M[n].size = size /\ a[r] = p /\ M[r].size = t
  BY <1>1, <1>9, <1>12 DEF g, t
<1>14. ASSUME NEW x, NEW y, Follow(d, x, y)
       PROVE  (IF y = NoChunk THEN E ELSE a[y]) = (IF x = NoChunk THEN 0 ELSE a[x] + M[x].size)
  <2>1. CASE x = n /\ y = r
    BY <1>1, <1>7, <1>10, <1>13, <2>1
  <2>2. CASE x = r /\ Follow(c, n, y)
    <3>1. (IF y = NoChunk THEN E ELSE A[y]) = g + s
      BY <1>2, <1>7, <2>2 DEF g, s
    <3>2. y # NoChunk => a[y] = A[y]
      BY <1>8, <1>12, <2>2
    <3>3. QED
      BY <1>1, <1>10, <1>13, <2>2, <3>1, <3>2
  <2>3. CASE x # n /\ x # r /\ Follow(c, x, y)
    <3>1. y # NoChunk => a[y] = A[y]
      BY <1>8, <1>12, <2>3
    <3>2. x # NoChunk => a[x] = A[x] /\ M[x] = N[x]
      BY <1>8, <1>12, <2>3
    <3>3. QED
      BY <1>2, <2>3, <3>1, <3>2
  <2>4. QED
    BY <1>1, <1>14, <2>1, <2>2, <2>3
<1>15. ASSUME NEW x \in Members(d)
       PROVE  M[x].size > 0 /\ a[x] + M[x].size <= E /\ b[x] = a[x] /\ q[x] = 0
  <2>1. CASE x = r
    <3>1. b[r] = p /\ q[r] = 0
      BY <1>9
    <3>2. QED
      BY <1>10, <1>13, <2>1, <3>1
  <2>2. CASE x = n
    <3>1. b[n] = a[n] /\ q[n] = 0
      BY <1>1, <1>2, <1>12
    <3>2. QED
      BY <1>1, <1>10, <1>13, <2>2, <3>1
  <2>3. CASE x # r /\ x # n
    <3>1. x \in C
      BY <1>1, <2>3
    <3>2. a[x] = A[x] /\ b[x] = B[x] /\ q[x] = R[x] /\ M[x] = N[x]
      BY <1>12, <2>3, <3>1
    <3>3. QED
      BY <1>2, <3>1, <3>2
  <2>4. QED
    BY <2>1, <2>2, <2>3
<1>16. ASSUME NEW y \in C, y # n
       PROVE  /\ p + t <= A[y] \/ A[y] + N[y].size <= p
              /\ g + size <= A[y] \/ A[y] + N[y].size <= g
  <2> DEFINE u == A[y]
             v == N[y].size
  <2>1. g + s <= u \/ u + v <= g
    BY <1>1, <1>2, <1>16 DEF g, s
  <2>2. u \in Nat /\ v \in Nat
    BY <1>5
  <2> HIDE DEF u, v
  <2>3. /\ p + t <= u \/ u + v <= p
        /\ g + size <= u \/ u + v <= g
    BY <1>1, <1>7, <1>10, <2>1, <2>2
  <2>4. QED
    BY <2>3 DEF u, v
<1>17. ASSUME NEW x \in Members(d), NEW y \in Members(d), x # y
       PROVE  a[x] + M[x].size <= a[y] \/ a[y] + M[y].size <= a[x]
  <2>1. \A z \in Members(d) : z = n \/ z = r \/ (z \in C /\ z # n)
    BY <1>1
  <2>2. CASE x \in C /\ x # n /\ y \in C /\ y # n
    BY <1>2, <1>12, <1>17, <2>2
  <2>3. CASE x = n /\ y = r
    BY <1>10, <1>13, <2>3
  <2>4. CASE x = r /\ y = n
    BY <1>10, <1>13, <2>4
  <2>5. CASE x = n /\ y \in C /\ y # n
    <3>1. a[y] = A[y] /\ M[y] = N[y]
      BY <1>12, <2>5
    <3>2. QED
      BY <1>13, <1>16, <2>5, <3>1
  <2>6. CASE x = r /\ y \in C /\ y # n
    <3>1. a[y] = A[y] /\ M[y] = N[y]
      BY <1>12, <2>6
    <3>2. QED
      BY <1>13, <1>16, <2>6, <3>1
  <2>7. CASE y = n /\ x \in C /\ x # n
    <3>1. a[x] = A[x] /\ M[x] = N[x]
      BY <1>12, <2>7
    <3>2. QED
      BY <1>13, <1>16, <2>7, <3>1
  <2>8. CASE y = r /\ x \in C /\ x # n
    <3>1. a[x] = A[x] /\ M[x] = N[x]
      BY <1>12, <2>8
    <3>2. QED
      BY <1>13, <1>16, <2>8, <3>1
  <2>9. QED
    BY <1>17, <2>1, <2>2, <2>3, <2>4, <2>5, <2>6, <2>7, <2>8
<1>18. ASSUME NEW m \in 1 .. L + 1, m \notin Members(d)
       PROVE  /\ M[m].into \in 1 .. L + 1 /\ a[m] = a[M[m].into] + M[m].offset
              /\ b[m] = b[M[m].into] /\ q[M[m].into] < q[m] /\ q[m] + (K + 1) <= L + 1
  <2>1. m \in 1 .. L /\ m \notin C /\ M[m] = N[m]
    BY <1>1, <1>11, <1>18
  <2>2. /\ N[m].into \in 1 .. L /\ A[m] = A[N[m].into] + N[m].offset
        /\ B[m] = B[N[m].into] /\ R[N[m].into] < R[m] /\ R[m] + K <= L
    BY <1>3, <2>1
  <2>3. N[m].into \in 1 .. L + 1
    BY <1>4, <2>2
  <2>4. R[m] \in Nat
    BY <1>2, <2>1
  <2> DEFINE u == R[m]
  <2>5. u \in Nat /\ u + K <= L
    BY <2>2, <2>4
  <2> HIDE DEF u
  <2>6. u + (K + 1) <= L + 1
    BY <1>4, <2>5
  <2>7. QED
    BY <1>9, <2>1, <2>2, <2>3, <2>6 DEF u
<1>19. ASSUME NEW m \in 1 .. L + 1
       PROVE  \E x \in Members(d) : b[m] = a[x]
  <2>1. CASE m = r
    BY <1>1, <1>9, <2>1
  <2>2. CASE m # r
    <3>1. m \in 1 .. L
      BY <1>11, <2>2
    <3>2. PICK x \in C : B[m] = A[x]
      BY <1>3, <3>1
    <3>3. x \in Members(d) /\ b[m] = a[x]
      BY <1>1, <1>9, <1>12, <3>1, <3>2
    <3>4. QED
      BY <3>3
  <2>3. QED
    BY <2>1, <2>2
<1>20. Lay(M, d, a, b, q, E)
  <2>1. Len(M) = L + 1 /\ Len(d) = K + 1 /\ K + 1 <= L + 1
    BY <1>1, <1>2, <1>4
  <2>2. \A m \in 1 .. L + 1 : m \notin Members(d) =>
           /\ M[m].into \in 1 .. L + 1 /\ a[m] = a[M[m].into] + M[m].offset
           /\ b[m] = b[M[m].into] /\ q[M[m].into] < q[m] /\ q[m] + (K + 1) <= L + 1
    BY <1>18
  <2>3. QED
    BY <1>2, <1>9, <1>14, <1>15, <1>17, <1>19, <2>1, <2>2 DEF Lay
<1>21. Eases(L, A, B, E, a, b, E)
  BY <1>9 DEF Eases
<1>22. QED
  BY <1>20, <1>21 DEF a, b, q, L

(* Chunk n of the chain becomes larger.                                    *)
Enlarges(N, c, n, more, M) ==
  /\ N \in Seq(DeferNode) /\ Chained(c) /\ Members(c) \subseteq 1 .. Len(N)
  /\ n \in Members(c) /\ more \in Nat
  /\ M \in Seq(DeferNode) /\ Len(M) = Len(N)
  /\ M[n].size = N[n].size + more
  /\ \A m \in 1 .. Len(N) : m # n => M[m] = N[m]

Beyond(X, B, h, more) == [m \in DOMAIN X |-> IF B[m] > h THEN X[m] + more ELSE X[m]]

(* What lies beyond it moves on.                                           *)
LEMMA LayEnlarged ==
  ASSUME NEW N, NEW c, NEW n, NEW more, NEW M, Enlarges(N, c, n, more, M),
         NEW A, NEW B, NEW R, NEW E, Lay(N, c, A, B, R, E),
         NEW h, h = A[n]
  PROVE  /\ Lay(M, c, Beyond(A, B, h, more), Beyond(B, B, h, more), R, E + more)
         /\ Eases(Len(N), A, B, E, Beyond(A, B, h, more), Beyond(B, B, h, more), E + more)
<1> DEFINE L == Len(N)
           C == Members(c)
           K == Len(c)
           a == Beyond(A, B, h, more)
           b == Beyond(B, B, h, more)
           e == E + more
           s == N[n].size
<1>1. /\ N \in Seq(DeferNode) /\ Chained(c) /\ C \subseteq 1 .. L /\ n \in C /\ more \in Nat
      /\ M \in Seq(DeferNode) /\ Len(M) = L /\ M[n].size = s + more
      /\ \A m \in 1 .. L : m # n => M[m] = N[m]
  BY DEF Enlarges
<1>2. /\ A \in [1 .. L -> Nat] /\ B \in [1 .. L -> Nat]
      /\ R \in [1 .. L -> Nat] /\ E \in Nat /\ K <= L
      /\ \A x, y : Follow(c, x, y) =>
           (IF y = NoChunk THEN E ELSE A[y]) = (IF x = NoChunk THEN 0 ELSE A[x] + N[x].size)
      /\ \A x \in C : N[x].size > 0 /\ A[x] + N[x].size <= E /\ B[x] = A[x] /\ R[x] = 0
      /\ \A x, y \in C : x # y => A[x] + N[x].size <= A[y] \/ A[y] + N[y].size <= A[x]
  BY DEF Lay
<1>3. /\ \A m \in 1 .. L : m \notin C =>
           /\ N[m].into \in 1 .. L /\ A[m] = A[N[m].into] + N[m].offset
           /\ B[m] = B[N[m].into] /\ R[N[m].into] < R[m] /\ R[m] + K <= L
      /\ \A m \in 1 .. L : \E x \in C : B[m] = A[x]
  BY DEF Lay
<1>4. \A x \in C : x \in 1 .. L /\ x # NoChunk /\ N[x].size \in Nat /\ A[x] \in Nat
  BY <1>1, LayTyped
<1>5. \A x, y : Follow(c, x, y) => (x = NoChunk \/ x \in C) /\ (y = NoChunk \/ y \in C)
  BY <1>1, FollowOnce DEF C
<1>6. /\ a \in [1 .. L -> Nat] /\ b \in [1 .. L -> Nat]
      /\ \A m \in 1 .. L : /\ a[m] = IF B[m] > h THEN A[m] + more ELSE A[m]
                           /\ b[m] = IF B[m] > h THEN B[m] + more ELSE B[m]
  <2>1. DOMAIN A = 1 .. L /\ DOMAIN B = 1 .. L
    BY <1>2
  <2>2. \A m \in 1 .. L : A[m] \in Nat /\ B[m] \in Nat /\ A[m] + more \in Nat /\ B[m] + more \in Nat
    BY <1>1, <1>2
  <2>3. QED
    BY <2>1, <2>2 DEF Beyond
<1> HIDE DEF L, C, K, a, b
<1>7. /\ s \in Nat /\ s > 0 /\ h \in Nat /\ h + s <= E /\ E \in Nat /\ more \in Nat
      /\ e = E + more /\ e \in Nat /\ h + (s + more) <= e
  <2>1. s \in Nat /\ s > 0 /\ h \in Nat /\ h + s <= E /\ E \in Nat /\ more \in Nat
    BY <1>1, <1>2, <1>4
  <2> HIDE DEF s
  <2>2. QED
    BY ONLY <2>1 DEF e
<1> HIDE DEF e, s
<1>8. ASSUME NEW x \in C
      PROVE  /\ b[x] = a[x]
             /\ a[x] = IF A[x] > h THEN A[x] + more ELSE A[x]
  BY <1>2, <1>4, <1>6
<1>9. a[n] = h /\ b[n] = h /\ B[n] = h /\ A[n] = h
  BY <1>1, <1>2, <1>7, <1>8
(* What is not chunk n lies beyond it or in front of it.                   *)
<1>10. ASSUME NEW x \in C, x # n
       PROVE  /\ M[x] = N[x] /\ N[x].size \in Nat /\ N[x].size > 0
              /\ \/ h + s <= A[x] /\ a[x] = A[x] + more /\ A[x] > h
                 \/ A[x] + N[x].size <= h /\ a[x] = A[x] /\ ~(A[x] > h)
  <2>1. M[x] = N[x] /\ N[x].size \in Nat /\ N[x].size > 0 /\ A[x] \in Nat
    BY <1>1, <1>2, <1>4, <1>10
  <2>2. h + s <= A[x] \/ A[x] + N[x].size <= h
    BY <1>1, <1>2, <1>9, <1>10 DEF s
  <2> DEFINE u == A[x]
             v == N[x].size
             w == a[x]
  <2>3. w = IF u > h THEN u + more ELSE u
    BY <1>8
  <2>4. v \in Nat /\ v > 0 /\ u \in Nat /\ (h + s <= u \/ u + v <= h)
    BY <2>1, <2>2
  <2>5. s \in Nat /\ s > 0 /\ h \in Nat
    BY <1>7
  <2> HIDE DEF u, v, w
  <2>6. \/ h + s <= u /\ w = u + more /\ u > h
        \/ u + v <= h /\ w = u /\ ~(u > h)
    BY ONLY <2>3, <2>4, <2>5
  <2>7. QED
    BY <2>1, <2>6 DEF u, v, w
<1>11. ASSUME NEW x, NEW y, Follow(c, x, y)
       PROVE  (IF y = NoChunk THEN e ELSE a[y]) = (IF x = NoChunk THEN 0 ELSE a[x] + M[x].size)
  <2> DEFINE i == IF x = NoChunk THEN 0 ELSE A[x] + N[x].size
             j == IF y = NoChunk THEN E ELSE A[y]
  <2>1. i = j /\ (x = NoChunk \/ x \in C) /\ (y = NoChunk \/ y \in C) /\ (x = y => x = NoChunk)
    BY <1>1, <1>2, <1>5, <1>11, FollowOnce
  <2>2. CASE x = n
    <3>1. y # n /\ j = h + s /\ i = h + s /\ n # NoChunk
      BY <1>1, <1>4, <1>9, <2>1, <2>2 DEF s
    <3>2. a[x] + M[x].size = h + (s + more)
      BY <1>1, <1>9, <2>2
    <3>3. CASE y = NoChunk
      BY <1>7, <2>2, <3>1, <3>2, <3>3
    <3>4. CASE y # NoChunk
      <4>1. A[y] = h + s /\ y \in C /\ N[y].size > 0 /\ N[y].size \in Nat
        BY <1>10, <2>1, <3>1, <3>4
      <4>2. a[y] = A[y] + more
        <5>1. ~(A[y] + N[y].size <= h)
          <6> DEFINE u == A[y]
                     v == N[y].size
          <6>1. u = h + s /\ v \in Nat /\ v > 0
            BY <4>1
          <6> HIDE DEF u, v
          <6>2. ~(u + v <= h)
            BY <1>7, <6>1
          <6>3. QED
            BY <6>2 DEF u, v
        <5>2. QED
          BY <1>10, <3>1, <4>1, <5>1
      <4>3. (h + s) + more = h + (s + more)
        BY <1>7
      <4>4. QED
        BY <2>2, <3>1, <3>2, <3>4, <4>1, <4>2, <4>3
    <3>5. QED
      BY <3>3, <3>4
  <2>3. CASE x # n /\ x # NoChunk
    <3>1. x \in C /\ i = A[x] + N[x].size /\ M[x] = N[x] /\ N[x].size \in Nat /\ N[x].size > 0
          /\ A[x] \in Nat
      BY <1>4, <1>10, <2>1, <2>3
    <3> DEFINE u == A[x]
               v == N[x].size
               w == a[x]
    <3>2. /\ i = u + v /\ u \in Nat /\ v \in Nat /\ v > 0
          /\ (h + s <= u /\ w = u + more) \/ (u + v <= h /\ w = u)
      BY <1>10, <2>3, <3>1
    <3>3. a[x] + M[x].size = w + v
      BY <3>1
    <3> HIDE DEF u, v, w
    <3>4. CASE y = NoChunk
      <4>1. j = E
        BY <3>4
      <4>2. h + s <= u /\ w = u + more
        BY <1>7, <2>1, <3>2, <4>1
      <4>3. e = w + v
        BY <1>7, <2>1, <3>2, <4>1, <4>2
      <4>4. QED
        BY <2>3, <3>3, <3>4, <4>3
    <3>5. CASE y = n
      <4>1. j = h /\ y # NoChunk
        BY <1>1, <1>4, <1>9, <3>5
      <4>2. u + v <= h /\ w = u
        BY <1>7, <2>1, <3>2, <4>1
      <4>3. a[y] = w + v
        BY <1>9, <2>1, <3>2, <3>5, <4>1, <4>2
      <4>4. QED
        BY <2>3, <3>3, <4>1, <4>3
    <3>6. CASE y # NoChunk /\ y # n
      <4>1. j = A[y] /\ y \in C /\ A[y] \in Nat
        BY <1>4, <2>1, <3>6
      <4> DEFINE k == A[y]
                 l == a[y]
                 m == N[y].size
      <4>2. /\ k = u + v /\ k \in Nat /\ m \in Nat /\ m > 0
            /\ (h + s <= k /\ l = k + more) \/ (k + m <= h /\ l = k)
        BY <1>10, <2>1, <3>2, <3>6, <4>1
      <4> HIDE DEF k, l, m
      <4>3. l = w + v
        BY ONLY <1>7, <3>2, <4>2
      <4>4. QED
        BY <2>3, <3>3, <3>6, <4>3 DEF l
    <3>7. QED
      BY <3>4, <3>5, <3>6
  <2>4. CASE x = NoChunk
    <3>1. i = 0
      BY <2>4
    <3>2. y # NoChunk
      BY <1>7, <2>1, <3>1
    <3>3. y \in C /\ A[y] = 0
      BY <2>1, <3>1, <3>2
    <3>4. ~(0 > h)
      BY <1>7
    <3>5. QED
      BY <1>8, <2>4, <3>2, <3>3, <3>4
  <2>5. QED
    BY <2>2, <2>3, <2>4
<1>12. ASSUME NEW x \in C
       PROVE  M[x].size > 0 /\ a[x] + M[x].size <= e /\ b[x] = a[x] /\ R[x] = 0
  <2>1. b[x] = a[x] /\ R[x] = 0
    BY <1>2, <1>8
  <2>2. CASE x = n
    <3>1. s + more > 0
      BY <1>7
    <3>2. QED
      BY <1>1, <1>7, <1>9, <2>1, <2>2, <3>1
  <2>3. CASE x # n
    <3> DEFINE u == A[x]
               v == N[x].size
               w == a[x]
    <3>1. /\ u \in Nat /\ v \in Nat /\ v > 0 /\ u + v <= E /\ M[x] = N[x]
          /\ w = u + more \/ w = u
      BY <1>2, <1>4, <1>10, <2>3
    <3> HIDE DEF u, v, w
    <3>2. w + v <= e
      BY <1>7, <3>1
    <3>3. QED
      BY <2>1, <3>1, <3>2 DEF v, w
  <2>4. QED
    BY <2>2, <2>3
<1>13. ASSUME NEW y \in C, y # n
       PROVE  a[n] + M[n].size <= a[y] \/ a[y] + M[y].size <= a[n]
  <2> DEFINE u == A[y]
             v == N[y].size
             w == a[y]
  <2>1. /\ M[y] = N[y] /\ u \in Nat /\ v \in Nat
        /\ (h + s <= u /\ w = u + more) \/ (u + v <= h /\ w = u)
    BY <1>4, <1>10, <1>13
  <2>2. a[n] + M[n].size = h + (s + more) /\ a[n] = h /\ M[y].size = v
    BY <1>1, <1>9, <2>1
  <2> HIDE DEF u, v, w
  <2>3. h + (s + more) <= w \/ w + v <= h
    BY <1>7, <2>1
  <2>4. QED
    BY <2>2, <2>3 DEF w
<1>14. ASSUME NEW x \in C, NEW y \in C, x # y
       PROVE  a[x] + M[x].size <= a[y] \/ a[y] + M[y].size <= a[x]
  <2>1. CASE x = n
    BY <1>13, <1>14, <2>1
  <2>2. CASE y = n
    BY <1>13, <1>14, <2>2
  <2>3. CASE x # n /\ y # n
    <3> DEFINE u == A[x]
               v == N[x].size
               w == a[x]
               k == A[y]
               m == N[y].size
               l == a[y]
    <3>1. /\ u \in Nat /\ v \in Nat /\ k \in Nat /\ m \in Nat /\ v > 0 /\ m > 0
          /\ (h + s <= u /\ w = u + more) \/ (u + v <= h /\ w = u)
          /\ (h + s <= k /\ l = k + more) \/ (k + m <= h /\ l = k)
      BY <1>4, <1>10, <2>3
    <3>2. u + v <= k \/ k + m <= u
      BY <1>2, <1>14
    <3>3. M[x].size = v /\ M[y].size = m
      BY <1>10, <2>3
    <3> HIDE DEF u, v, w, k, m, l
    <3>4. w + v <= l \/ l + m <= w
      BY <1>7, <3>1, <3>2
    <3>5. QED
      BY <3>3, <3>4 DEF w, l
  <2>4. QED
    BY <2>1, <2>2, <2>3
<1>15. ASSUME NEW m \in 1 .. L, m \notin C
       PROVE  /\ M[m].into \in 1 .. L /\ a[m] = a[M[m].into] + M[m].offset
              /\ b[m] = b[M[m].into] /\ R[M[m].into] < R[m] /\ R[m] + K <= L
  <2>1. M[m] = N[m]
    BY <1>1, <1>15
  <2>2. /\ N[m].into \in 1 .. L /\ A[m] = A[N[m].into] + N[m].offset
        /\ B[m] = B[N[m].into] /\ R[N[m].into] < R[m] /\ R[m] + K <= L
    BY <1>3, <1>15
  <2> DEFINE p == N[m].into
             o == N[m].offset
             u == A[m]
             v == A[p]
  <2>3. o \in Nat /\ u \in Nat /\ v \in Nat /\ u = v + o /\ B[m] = B[p] /\ p \in 1 .. L
    BY <1>1, <1>2, <2>2, DeferNodeTyped DEF L
  <2> HIDE DEF p, o, u, v
  <2>4. b[m] = b[p]
    BY <1>6, <2>3
  <2>5. a[m] = a[p] + o
    <3>1. CASE B[p] > h
      <4>1. a[m] = u + more /\ a[p] = v + more
        BY <1>6, <2>3, <3>1 DEF u, v
      <4>2. u + more = (v + more) + o
        BY <1>7, <2>3
      <4>3. QED
        BY <4>1, <4>2
    <3>2. CASE ~(B[p] > h)
      <4>1. a[m] = u /\ a[p] = v
        BY <1>6, <2>3, <3>2 DEF u, v
      <4>2. QED
        BY <2>3, <4>1
    <3>3. QED
      BY <3>1, <3>2
  <2>6. QED
    BY <2>1, <2>2, <2>4, <2>5 DEF p, o
<1>16. ASSUME NEW m \in 1 .. L
       PROVE  \E x \in C : b[m] = a[x]
  <2>1. PICK x \in C : B[m] = A[x]
    BY <1>3
  <2>2. b[m] = a[x]
    BY <1>6, <1>8, <2>1
  <2>3. QED
    BY <2>2
<1>17. Lay(M, c, a, b, R, e)
  BY <1>1, <1>2, <1>6, <1>7, <1>11, <1>12, <1>14, <1>15, <1>16 DEF Lay, C, K
<1>18. ASSUME NEW m \in 1 .. L, NEW k \in 1 .. L, NEW v \in Nat
       PROVE  /\ A[m] + v <= E => a[m] + v <= e
              /\ B[m] <= B[k] /\ A[m] + v <= A[k] => b[m] <= b[k] /\ a[m] + v <= a[k]
  <2> DEFINE u == A[m]
             w == a[m]
             i == B[m]
             j == b[m]
             p == A[k]
             q == a[k]
             r == B[k]
             t == b[k]
  <2>1. /\ u \in Nat /\ i \in Nat /\ p \in Nat /\ r \in Nat
        /\ w = (IF i > h THEN u + more ELSE u) /\ j = (IF i > h THEN i + more ELSE i)
        /\ q = (IF r > h THEN p + more ELSE p) /\ t = (IF r > h THEN r + more ELSE r)
    BY <1>2, <1>6
  <2> HIDE DEF u, w, i, j, p, q, r, t
  <2>2. u + v <= E => w + v <= e
    BY ONLY <1>7, <1>18, v \in Nat, <2>1
  <2>3. i <= r /\ u + v <= p => j <= t /\ w + v <= q
    BY ONLY <1>7, <1>18, v \in Nat, <2>1
  <2>4. QED
    BY <2>2, <2>3 DEF u, w, i, j, p, q, r, t
<1>19. Eases(L, A, B, E, a, b, e)
  BY <1>18 DEF Eases
<1>20. QED
  BY <1>17, <1>19 DEF a, b, e, L

(* The tensors and the pairs of them that must not meet.                   *)
Fitting(L, ts, pairs) ==
  /\ L \in Nat
  /\ \A t \in DOMAIN ts : ts[t].chunk \in 1 .. L /\ ts[t].size \in Nat
  /\ pairs \subseteq (DOMAIN ts) \X (DOMAIN ts)

InOrder(A, B, t, u) == B[t.chunk] <= B[u.chunk] /\ A[t.chunk] + t.size <= A[u.chunk]

Tied(A, B, E, ts, pairs) ==
  /\ \A t \in DOMAIN ts : A[ts[t].chunk] + ts[t].size <= E
  /\ \A p \in pairs : \/ InOrder(A, B, ts[p[1]], ts[p[2]])
                      \/ InOrder(A, B, ts[p[2]], ts[p[1]])

(* There are addresses at which no two of a pair meet.                     *)
Laid(N, c, ts, pairs) ==
  \E A, B, R, E : Lay(N, c, A, B, R, E) /\ Tied(A, B, E, ts, pairs)

(* When addresses change, the tensors stay apart.                          *)
LEMMA TiedEases ==
  ASSUME NEW L, NEW ts, NEW pairs, Fitting(L, ts, pairs),
         NEW A, NEW B, NEW E, Tied(A, B, E, ts, pairs),
         NEW a, NEW b, NEW e, Eases(L, A, B, E, a, b, e)
  PROVE  Tied(a, b, e, ts, pairs)
<1>1. /\ \A n \in 1 .. L : \A s \in Nat : A[n] + s <= E => a[n] + s <= e
      /\ \A m, n \in 1 .. L : \A s \in Nat :
           B[m] <= B[n] /\ A[m] + s <= A[n] => b[m] <= b[n] /\ a[m] + s <= a[n]
  BY DEF Eases
<1>2. /\ \A t \in DOMAIN ts : ts[t].chunk \in 1 .. L /\ ts[t].size \in Nat
      /\ pairs \subseteq (DOMAIN ts) \X (DOMAIN ts)
  BY DEF Fitting
<1>3. \A t \in DOMAIN ts : A[ts[t].chunk] + ts[t].size <= E
  BY DEF Tied
<1>4. ASSUME NEW t \in DOMAIN ts, NEW u \in DOMAIN ts, InOrder(A, B, ts[t], ts[u])
      PROVE  InOrder(a, b, ts[t], ts[u])
  BY <1>1, <1>2, <1>4 DEF InOrder
<1>5. ASSUME NEW p \in pairs
      PROVE  InOrder(a, b, ts[p[1]], ts[p[2]]) \/ InOrder(a, b, ts[p[2]], ts[p[1]])
  <2>1. p[1] \in DOMAIN ts /\ p[2] \in DOMAIN ts
    BY <1>2
  <2>2. InOrder(A, B, ts[p[1]], ts[p[2]]) \/ InOrder(A, B, ts[p[2]], ts[p[1]])
    BY DEF Tied
  <2>3. QED
    BY <1>4, <2>1, <2>2
<1>6. ASSUME NEW t \in DOMAIN ts
      PROVE  a[ts[t].chunk] + ts[t].size <= e
  BY <1>1, <1>2, <1>3
<1>7. QED
  BY <1>5, <1>6 DEF Tied

(* What chain d of M keeps of the chain c of N.                            *)
Preserves(M, d, N, c) ==
  /\ Len(N) \in Nat /\ Len(M) \in Nat /\ Len(N) <= Len(M)
  /\ \A ts, pairs :
       Fitting(Len(N), ts, pairs) /\ Laid(N, c, ts, pairs) => Laid(M, d, ts, pairs)

(* It is kept over several changes.                                        *)
LEMMA PreservesOn ==
  ASSUME NEW K, NEW e, NEW M, NEW d, NEW N, NEW c,
         Preserves(K, e, M, d), Preserves(M, d, N, c)
  PROVE  Preserves(K, e, N, c)
<1> DEFINE i == Len(N)
           j == Len(M)
           k == Len(K)
<1>1. i \in Nat /\ j \in Nat /\ k \in Nat /\ i <= j /\ j <= k
  BY DEF Preserves
<1> HIDE DEF i, j, k
<1>2. i <= k /\ \A n \in 1 .. i : n \in 1 .. j
  BY <1>1
<1>3. ASSUME NEW ts, NEW pairs, Fitting(i, ts, pairs)
      PROVE  Fitting(j, ts, pairs)
  BY <1>1, <1>2, <1>3 DEF Fitting
<1>4. ASSUME NEW ts, NEW pairs, Fitting(i, ts, pairs), Laid(N, c, ts, pairs)
      PROVE  Laid(K, e, ts, pairs)
  <2>1. Laid(M, d, ts, pairs)
    BY <1>4 DEF Preserves, i
  <2>2. Fitting(j, ts, pairs)
    BY <1>3, <1>4
  <2>3. QED
    BY <2>1, <2>2 DEF Preserves, j
<1>5. QED
  BY <1>1, <1>2, <1>4 DEF Preserves, i, k

(* Every change of addresses that eases them keeps the plan.               *)
LEMMA EasesPreserve ==
  ASSUME NEW N, NEW c, NEW M, NEW d, Len(N) \in Nat, Len(M) \in Nat, Len(N) <= Len(M),
         \A A, B, R, E : Lay(N, c, A, B, R, E) =>
           \E a, b, r, e : Lay(M, d, a, b, r, e) /\ Eases(Len(N), A, B, E, a, b, e)
  PROVE  Preserves(M, d, N, c)
<1>1. ASSUME NEW ts, NEW pairs, Fitting(Len(N), ts, pairs), Laid(N, c, ts, pairs)
      PROVE  Laid(M, d, ts, pairs)
  <2>1. PICK A, B, R, E : Lay(N, c, A, B, R, E) /\ Tied(A, B, E, ts, pairs)
    BY <1>1 DEF Laid
  <2>2. PICK a, b, r, e : Lay(M, d, a, b, r, e) /\ Eases(Len(N), A, B, E, a, b, e)
    BY <2>1
  <2>3. Tied(a, b, e, ts, pairs)
    BY <1>1, <2>1, <2>2, TiedEases
  <2>4. QED
    BY <2>2, <2>3 DEF Laid
<1>2. QED
  BY <1>1 DEF Preserves

(* Fusing two chunks keeps the plan.                                       *)
LEMMA JoiningPreserves ==
  ASSUME NEW N, NEW c, NEW a, NEW b, NEW M, NEW d, Joining(N, c, a, b, M, d)
  PROVE  Preserves(M, d, N, c)
<1>1. ASSUME NEW A, NEW B, NEW R, NEW E, Lay(N, c, A, B, R, E)
      PROVE  \E w, x, y, z : Lay(M, d, w, x, y, z) /\ Eases(Len(N), A, B, E, w, x, z)
  BY <1>1, LayJoined
<1>2. Len(N) \in Nat /\ Len(M) = Len(N) /\ Len(N) <= Len(N)
  BY LenProperties DEF Joining, JoinedNodes
<1>3. QED
  BY <1>1, <1>2, EasesPreserve

(* So does a new chunk behind the last one.                                *)
LEMMA AdjoiningPreserves ==
  ASSUME NEW N, NEW c, NEW size, NEW l, NEW M, NEW d, Adjoins(N, c, size, l, M, d)
  PROVE  Preserves(M, d, N, c)
<1>1. ASSUME NEW A, NEW B, NEW R, NEW E, Lay(N, c, A, B, R, E)
      PROVE  \E w, x, y, z : Lay(M, d, w, x, y, z) /\ Eases(Len(N), A, B, E, w, x, z)
  BY <1>1, LayAdjoined
<1>2. Len(N) \in Nat /\ Len(M) = Len(N) + 1
  BY LenProperties DEF Adjoins, OneMore
<1>3. Len(M) \in Nat /\ Len(N) <= Len(M)
  BY <1>2
<1>4. QED
  BY <1>1, <1>2, <1>3, EasesPreserve

(* So does a cut.                                                          *)
LEMMA SplittingPreserves ==
  ASSUME NEW N, NEW c, NEW n, NEW size, NEW M, NEW d, Splits(N, c, n, size, M, d)
  PROVE  Preserves(M, d, N, c)
<1>1. ASSUME NEW A, NEW B, NEW R, NEW E, Lay(N, c, A, B, R, E)
      PROVE  \E w, x, y, z : Lay(M, d, w, x, y, z) /\ Eases(Len(N), A, B, E, w, x, z)
  BY <1>1, LaySplit
<1>2. Len(N) \in Nat /\ Len(M) = Len(N) + 1
  BY LenProperties DEF Splits
<1>3. Len(M) \in Nat /\ Len(N) <= Len(M)
  BY <1>2
<1>4. QED
  BY <1>1, <1>2, <1>3, EasesPreserve

(* So does a larger size.                                                  *)
LEMMA EnlargingPreserves ==
  ASSUME NEW N, NEW c, NEW n, NEW more, NEW M, Enlarges(N, c, n, more, M)
  PROVE  Preserves(M, c, N, c)
<1>1. ASSUME NEW A, NEW B, NEW R, NEW E, Lay(N, c, A, B, R, E)
      PROVE  \E w, x, y, z : Lay(M, c, w, x, y, z) /\ Eases(Len(N), A, B, E, w, x, z)
  BY <1>1, LayEnlarged
<1>2. Len(N) \in Nat /\ Len(M) = Len(N) /\ Len(N) <= Len(N)
  BY LenProperties DEF Enlarges
<1>3. QED
  BY <1>1, <1>2, EasesPreserve

(* Node n of M is in use or not, the others are those of N.                *)
Uses(N, n, usage, M) ==
  /\ M \in Seq(DeferNode) /\ Len(M) = Len(N)
  /\ M[n].usage = usage
  /\ M[n].size = N[n].size /\ M[n].offset = N[n].offset /\ M[n].into = N[n].into
  /\ \A m \in 1 .. Len(N) : m # n => M[m] = N[m]

(* So does a change of use.                                                *)
LEMMA UsingPreserves ==
  ASSUME NEW N \in Seq(DeferNode), NEW c, Chained(c), Members(c) \subseteq 1 .. Len(N),
         NEW n \in 1 .. Len(N), NEW usage, NEW M, Uses(N, n, usage, M)
  PROVE  Preserves(M, c, N, c)
<1>1. /\ Len(N) \in Nat /\ Len(M) = Len(N) /\ Len(N) <= Len(N)
      /\ \A m \in 1 .. Len(N) :
           M[m].size = N[m].size /\ M[m].offset = N[m].offset /\ M[m].into = N[m].into
  BY LenProperties DEF Uses
<1>2. ASSUME NEW A, NEW B, NEW R, NEW E, Lay(N, c, A, B, R, E)
      PROVE  \E w, x, y, z : Lay(M, c, w, x, y, z) /\ Eases(Len(N), A, B, E, w, x, z)
  <2>1. Lay(M, c, A, B, R, E)
    BY <1>1, <1>2, LaySame
  <2>2. Eases(Len(N), A, B, E, A, B, E)
    BY DEF Eases
  <2>3. QED
    BY <2>1, <2>2
<1>3. QED
  BY <1>1, <1>2, EasesPreserve

(* What changing the use of a node writes.                                 *)
LEMMA UseNode ==
  ASSUME NEW N \in Seq(DeferNode), NEW n \in 1 .. Len(N), NEW usage \in BOOLEAN,
         NEW M, M = [N EXCEPT ![n].usage = usage]
  PROVE  Uses(N, n, usage, M)
<1> DEFINE L == Len(N)
           x == N[n]
           one == [x EXCEPT !.usage = usage]
<1>1. L \in Nat /\ DOMAIN N = 1 .. L /\ N \in [1 .. L -> DeferNode] /\ n \in 1 .. L
  BY LenProperties
<1>2. x \in DeferNode
  BY DeferNodeTyped
<1>3. M = [N EXCEPT ![n] = one]
  OBVIOUS
<1> HIDE DEF x
<1>4. /\ one \in DeferNode /\ one.usage = usage /\ one.size = x.size
      /\ one.offset = x.offset /\ one.into = x.into
  BY <1>2 DEF DeferNode
<1> HIDE DEF one, L
<1>5. /\ M \in [1 .. L -> DeferNode] /\ M[n] = one
      /\ \A m \in 1 .. L : m # n => M[m] = N[m]
  BY <1>1, <1>3, <1>4
<1>6. M \in Seq(DeferNode) /\ Len(M) = L
  BY ONLY <1>1, <1>5, Made
<1>7. QED
  BY <1>4, <1>5, <1>6 DEF Uses, x, L

Sizing(N, n, size, M) ==
  /\ N \in Seq(DeferNode) /\ n \in 1 .. Len(N) /\ size \in Nat
  /\ M = [N EXCEPT ![n].size = size]

Sized(N, n, size, M) ==
  /\ M \in Seq(DeferNode) /\ Len(M) = Len(N)
  /\ M[n].size = size /\ M[n].usage = N[n].usage /\ M[n].into = N[n].into
  /\ \A m \in 1 .. Len(N) : m # n => M[m] = N[m]

(* What giving a node another size writes.                                 *)
LEMMA SizeNode ==
  ASSUME NEW N, NEW n, NEW size, NEW M, Sizing(N, n, size, M)
  PROVE  Sized(N, n, size, M)
<1> DEFINE L == Len(N)
           x == N[n]
           one == [x EXCEPT !.size = size]
<1>1. /\ L \in Nat /\ DOMAIN N = 1 .. L /\ N \in [1 .. L -> DeferNode] /\ n \in 1 .. L
      /\ N \in Seq(DeferNode) /\ size \in Nat
  BY LenProperties DEF Sizing
<1>2. x \in DeferNode
  BY <1>1, DeferNodeTyped
<1>3. M = [N EXCEPT ![n] = one]
  BY DEF Sizing
<1> HIDE DEF x
<1>4. /\ one \in DeferNode /\ one.size = size /\ one.usage = x.usage /\ one.into = x.into
  BY <1>1, <1>2 DEF DeferNode
<1> HIDE DEF one, L
<1>5. /\ M \in [1 .. L -> DeferNode] /\ M[n] = one
      /\ \A m \in 1 .. L : m # n => M[m] = N[m]
  BY <1>1, <1>3, <1>4
<1>6. M \in Seq(DeferNode) /\ Len(M) = L
  BY ONLY <1>1, <1>5, Made
<1>7. QED
  BY <1>4, <1>5, <1>6 DEF Sized, x, L

-----------------------------------------------------------------------------
(* Which chunks are in use.                                                *)

Unused(N, c) == {n \in Members(c) : ~N[n].usage}
InUse(N, c) == {n \in Members(c) : N[n].usage}

LeftUsed(N, c, x) == \A y : Follow(c, y, x) /\ y # NoChunk => N[y].usage
RightUsed(N, c, x) == \A y : Follow(c, x, y) /\ y # NoChunk => N[y].usage

(* What fusing makes of the neighbours: the hole is where the fused chunk  *)
(* is.                                                                     *)
LEMMA LinksJoined ==
  ASSUME NEW N, NEW c, NEW h, Links(N, c, h),
         NEW a, NEW b, NEW M, NEW d, Joining(N, c, a, b, M, d),
         NEW e, << h, e >> \in {<< a, b >>, << b, a >>}, ~N[e].usage
  PROVE  /\ Links(M, d, a)
         /\ Unused(M, d) \ {a} = (Unused(N, c) \ {h}) \ {e}
         /\ InUse(M, d) \ {a} = InUse(N, c) \ {h}
         /\ h = b \/ LeftUsed(N, c, a) => LeftUsed(M, d, a)
         /\ h = a => RightUsed(M, d, a)
<1> DEFINE L == Len(N)
           C == Members(c)
<1>1. /\ N \in Seq(DeferNode) /\ Chained(c) /\ Chained(d)
      /\ C = {n \in 1 .. L : N[n].into = NoChunk}
      /\ a \in C /\ b \in C /\ Follow(c, a, b)
      /\ Members(d) = C \ {b}
      /\ \A x, y : Follow(d, x, y) => (x = a /\ Follow(c, b, y)) \/ (x # a /\ Follow(c, x, y))
      /\ M \in Seq(DeferNode) /\ Len(M) = L
      /\ M[b].into = a /\ M[a].into = N[a].into
      /\ \A n \in 1 .. L : M[n].usage = N[n].usage
      /\ \A n \in 1 .. L : n # a /\ n # b => M[n] = N[n]
  BY DEF Joining, JoinedNodes
<1>2. \A x, y : Follow(c, x, y) /\ x \notin {NoChunk, h} /\ y \notin {NoChunk, h} =>
        N[x].usage \/ N[y].usage
  BY DEF Links
<1>3. \A x \in C : x \in 1 .. L /\ x # NoChunk
  BY <1>1 DEF Chained
<1>4. a # b
  BY <1>1, <1>3, FollowOnce
<1>5. /\ \A x, y : Follow(d, x, y) => /\ x \in Members(d) \cup {NoChunk}
                                      /\ y \in Members(d) \cup {NoChunk}
                                      /\ x = y => x = NoChunk
  BY <1>1, FollowOnce
<1> HIDE DEF L, C
<1>6. \A x, y : Follow(d, x, y) => (x # NoChunk => x \in C /\ x # b) /\ (y # NoChunk => y \in C /\ y # b)
  BY <1>1, <1>5
<1>7. Members(d) = {n \in 1 .. L : M[n].into = NoChunk}
  BY <1>1, <1>3, <1>4
<1>8. ASSUME NEW x, NEW y, Follow(d, x, y), x \notin {NoChunk, a}, y \notin {NoChunk, a}
      PROVE  M[x].usage \/ M[y].usage
  <2>1. Follow(c, x, y) /\ x \in C /\ y \in C /\ x # b /\ y # b
    BY <1>1, <1>6, <1>8
  <2>2. N[x].usage \/ N[y].usage
    BY <1>2, <1>8, <2>1
  <2>3. QED
    BY <1>1, <1>3, <2>1, <2>2
<1>9. Links(M, d, a)
  BY <1>1, <1>7, <1>8 DEF Links
<1>10. \A n \in C : M[n].usage = N[n].usage
  BY <1>1, <1>3
<1>11. /\ Unused(M, d) \ {a} = (Unused(N, c) \ {h}) \ {e}
       /\ InUse(M, d) \ {a} = InUse(N, c) \ {h}
  <2>1. (h = a /\ e = b) \/ (h = b /\ e = a)
    OBVIOUS
  <2>2. /\ Unused(M, d) = {n \in C \ {b} : ~M[n].usage}
        /\ InUse(M, d) = {n \in C \ {b} : M[n].usage}
    BY <1>1 DEF Unused, InUse
  <2>3. Unused(N, c) = {n \in C : ~N[n].usage} /\ InUse(N, c) = {n \in C : N[n].usage}
    BY DEF Unused, InUse, C
  <2>4. QED
    BY <1>10, <2>1, <2>2, <2>3
<1>12. ASSUME h = b \/ LeftUsed(N, c, a)
       PROVE  LeftUsed(M, d, a)
  <2> SUFFICES ASSUME NEW y, Follow(d, y, a), y # NoChunk
               PROVE  M[y].usage
    BY DEF LeftUsed
  <2>1. y # a /\ y # b /\ y \in C /\ Follow(c, y, a) /\ a # NoChunk
    BY <1>1, <1>3, <1>5, <1>6
  <2>2. N[y].usage
    <3>1. CASE h = b
      <4>1. e = a
        BY <1>4, <3>1
      <4>2. y \notin {NoChunk, h} /\ a \notin {NoChunk, h} /\ ~N[a].usage
        BY <1>4, <2>1, <3>1, <4>1
      <4>3. N[y].usage \/ N[a].usage
        BY <1>2, <2>1, <4>2
      <4>4. QED
        BY <4>2, <4>3
    <3>2. CASE LeftUsed(N, c, a)
      BY <2>1, <3>2 DEF LeftUsed
    <3>3. QED
      BY <1>12, <3>1, <3>2
  <2>3. QED
    BY <1>10, <2>1, <2>2
<1>13. ASSUME h = a
       PROVE  RightUsed(M, d, a)
  <2> SUFFICES ASSUME NEW y, Follow(d, a, y), y # NoChunk
               PROVE  M[y].usage
    BY DEF RightUsed
  <2>1. y # a /\ y # b /\ y \in C /\ Follow(c, b, y) /\ b # NoChunk
    BY <1>1, <1>3, <1>5, <1>6
  <2>2. e = b /\ ~N[b].usage
    BY <1>4, <1>13
  <2>3. y \notin {NoChunk, h} /\ b \notin {NoChunk, h}
    BY <1>4, <1>13, <2>1
  <2>4. N[b].usage \/ N[y].usage
    BY <1>2, <2>1, <2>3
  <2>5. QED
    BY <1>10, <2>1, <2>2, <2>4
<1>14. QED
  BY <1>9, <1>11, <1>12, <1>13

Closing(N, c, x, M) ==
  /\ x \in Members(c) /\ Links(N, c, x) /\ LeftUsed(N, c, x) /\ RightUsed(N, c, x)
  /\ Uses(N, x, FALSE, M)

Closed(N, c, x, M) ==
  /\ Links(M, c, NoChunk)
  /\ Unused(M, c) = (Unused(N, c) \ {x}) \cup {x}
  /\ InUse(M, c) = InUse(N, c) \ {x}

(* A chunk between two in use may be given back.                           *)
LEMMA LinksClosed ==
  ASSUME NEW N, NEW c, NEW x, NEW M, Closing(N, c, x, M)
  PROVE  Closed(N, c, x, M)
<1> DEFINE L == Len(N)
           C == Members(c)
<1>1. /\ N \in Seq(DeferNode) /\ Chained(c) /\ C = {n \in 1 .. L : N[n].into = NoChunk}
      /\ \A y, z : Follow(c, y, z) /\ y \notin {NoChunk, x} /\ z \notin {NoChunk, x} =>
           N[y].usage \/ N[z].usage
  BY DEF Closing, Links
<1>2. /\ M \in Seq(DeferNode) /\ Len(M) = L
      /\ M[x].usage = FALSE /\ M[x].into = N[x].into
      /\ \A m \in 1 .. L : m # x => M[m] = N[m]
  BY DEF Closing, Uses
<1>3. \A y, z : Follow(c, y, z) => /\ y \in C \cup {NoChunk}
                                   /\ z \in C \cup {NoChunk}
                                   /\ y = z => y = NoChunk
  BY <1>1, FollowOnce
<1> HIDE DEF L, C
<1>4. C = {n \in 1 .. L : M[n].into = NoChunk}
  BY <1>1, <1>2
<1>5. \A y \in C : y # x => M[y] = N[y]
  BY <1>1, <1>2
<1>6. ASSUME NEW y, NEW z, Follow(c, y, z), y # NoChunk, z # NoChunk
      PROVE  M[y].usage \/ M[z].usage
  <2>1. y \in C /\ z \in C /\ y # z
    BY <1>3, <1>6
  <2>2. CASE y = x
    BY <1>5, <1>6, <2>1, <2>2 DEF Closing, RightUsed
  <2>3. CASE z = x
    BY <1>5, <1>6, <2>1, <2>3 DEF Closing, LeftUsed
  <2>4. CASE y # x /\ z # x
    BY <1>1, <1>5, <1>6, <2>1, <2>4
  <2>5. QED
    BY <2>2, <2>3, <2>4
<1>7. Links(M, c, NoChunk)
  BY <1>1, <1>2, <1>4, <1>6 DEF Links, C
<1>8. /\ Unused(M, c) = {n \in C : ~M[n].usage} /\ Unused(N, c) = {n \in C : ~N[n].usage}
      /\ InUse(M, c) = {n \in C : M[n].usage} /\ InUse(N, c) = {n \in C : N[n].usage}
      /\ x \in C
  BY DEF Closing, Unused, InUse, C
<1>9. /\ Unused(M, c) = (Unused(N, c) \ {x}) \cup {x}
      /\ InUse(M, c) = InUse(N, c) \ {x}
  BY <1>2, <1>5, <1>8
<1>10. QED
  BY <1>7, <1>9 DEF Closed

Lending(N, c, x, M) ==
  x \in Unused(N, c) /\ Links(N, c, NoChunk) /\ Uses(N, x, TRUE, M)

Lent(N, c, x, M) ==
  /\ Links(M, c, NoChunk) /\ RightUsed(M, c, x)
  /\ Unused(M, c) = Unused(N, c) \ {x}
  /\ InUse(M, c) = InUse(N, c) \cup {x}

(* A chunk that was not in use has neighbours that are, and may be taken.  *)
LEMMA LinksTaken ==
  ASSUME NEW N, NEW c, NEW x, NEW M, Lending(N, c, x, M)
  PROVE  Lent(N, c, x, M)
<1> DEFINE L == Len(N)
           C == Members(c)
<1>1. /\ N \in Seq(DeferNode) /\ Chained(c) /\ C = {n \in 1 .. L : N[n].into = NoChunk}
      /\ \A y, z : Follow(c, y, z) /\ y # NoChunk /\ z # NoChunk =>
           N[y].usage \/ N[z].usage
  BY DEF Lending, Links
<1>2. /\ M \in Seq(DeferNode) /\ Len(M) = L
      /\ M[x].usage = TRUE /\ M[x].into = N[x].into
      /\ \A m \in 1 .. L : m # x => M[m] = N[m]
  BY DEF Lending, Uses
<1>3. \A y, z : Follow(c, y, z) => /\ y \in C \cup {NoChunk}
                                   /\ z \in C \cup {NoChunk}
                                   /\ y = z => y = NoChunk
  BY <1>1, FollowOnce
<1>4. x \in C /\ ~N[x].usage
  BY DEF Lending, Unused
<1> HIDE DEF L, C
<1>5. C = {n \in 1 .. L : M[n].into = NoChunk}
  BY <1>1, <1>2
<1>6. \A y \in C : y # x => M[y] = N[y]
  BY <1>1, <1>2
<1>7. x # NoChunk
  BY <1>1, <1>4 DEF Chained, C
<1>8. ASSUME NEW y, NEW z, Follow(c, y, z), y # NoChunk, z # NoChunk
      PROVE  M[y].usage \/ M[z].usage
  <2>1. y \in C /\ z \in C
    BY <1>3, <1>8
  <2>2. N[y].usage \/ N[z].usage
    BY <1>1, <1>8
  <2>3. QED
    BY <1>2, <1>6, <2>1, <2>2
<1>9. Links(M, c, NoChunk)
  BY <1>1, <1>2, <1>5, <1>8 DEF Links, C
<1>10. ASSUME NEW y, Follow(c, x, y), y # NoChunk
       PROVE  M[y].usage
  <2>1. y \in C /\ y # x
    BY <1>3, <1>7, <1>10
  <2>2. N[y].usage
    BY <1>1, <1>4, <1>7, <1>10
  <2>3. QED
    BY <1>6, <2>1, <2>2
<1>11. /\ Unused(M, c) = {n \in C : ~M[n].usage} /\ Unused(N, c) = {n \in C : ~N[n].usage}
       /\ InUse(M, c) = {n \in C : M[n].usage} /\ InUse(N, c) = {n \in C : N[n].usage}
  BY DEF Unused, InUse, C
<1>12. /\ Unused(M, c) = Unused(N, c) \ {x}
       /\ InUse(M, c) = InUse(N, c) \cup {x}
  BY <1>2, <1>4, <1>6, <1>11
<1>13. QED
  BY <1>9, <1>10, <1>12 DEF Lent, RightUsed

SplittingUsed(N, c, n, size, M, d, r) ==
  /\ Links(N, c, NoChunk) /\ Splits(N, c, n, size, M, d)
  /\ N[n].usage /\ M[n].usage = N[n].usage /\ M[n].into = N[n].into
  /\ RightUsed(N, c, n) /\ r = Len(N) + 1

SplitUsed(N, c, M, d, r) ==
  /\ Links(M, d, NoChunk)
  /\ Unused(M, d) = Unused(N, c) \cup {r}
  /\ InUse(M, d) = InUse(N, c)

(* The rest of a chunk in use is between two that are.                     *)
LEMMA LinksSplit ==
  ASSUME NEW N, NEW c, NEW n, NEW size, NEW M, NEW d, NEW r,
         SplittingUsed(N, c, n, size, M, d, r)
  PROVE  SplitUsed(N, c, M, d, r)
<1> USE DEF SplittingUsed
<1> DEFINE L == Len(N)
           C == Members(c)
<1>1. /\ N \in Seq(DeferNode) /\ Chained(c) /\ C = {m \in 1 .. L : N[m].into = NoChunk}
      /\ \A y, z : Follow(c, y, z) /\ y # NoChunk /\ z # NoChunk =>
           N[y].usage \/ N[z].usage
  BY DEF Links
<1>2. /\ n \in C /\ Chained(d) /\ r # NoChunk /\ r \notin C
      /\ Members(d) = C \cup {r}
      /\ \A x, y : Follow(d, x, y) => \/ x = n /\ y = r
                                      \/ x = r /\ Follow(c, n, y)
                                      \/ x # n /\ x # r /\ Follow(c, x, y)
      /\ M \in Seq(DeferNode) /\ Len(M) = L + 1
      /\ M[r] = Defer!MemNode(N[n].size - size, FALSE)
      /\ \A m \in 1 .. L : m # n => M[m] = N[m]
  BY DEF Splits, Lengthens
<1>3. M[r].usage = FALSE /\ M[r].into = NoChunk
  BY <1>2 DEF Defer!MemNode, NoChunk
<1>4. L \in Nat /\ r = L + 1
  BY <1>1, LenProperties
<1>5. \A y, z : Follow(c, y, z) => y \in C \cup {NoChunk} /\ z \in C \cup {NoChunk}
  BY <1>1, FollowOnce
<1> HIDE DEF L, C
<1>6. \A m \in 1 .. L + 1 : m \in 1 .. L \/ m = r
  BY <1>4
<1>7. /\ \A m \in 1 .. L : m \in 1 .. L + 1 /\ m # r
      /\ r \in 1 .. L + 1
  BY <1>4
<1>8. \A y \in C : M[y].usage = N[y].usage /\ y \in 1 .. L
  BY <1>1, <1>2
<1>9. Members(d) = {m \in 1 .. L + 1 : M[m].into = NoChunk}
  <2>1. ASSUME NEW m \in 1 .. L
        PROVE  M[m].into = N[m].into
    BY <1>2
  <2>2. QED
    BY <1>1, <1>2, <1>3, <1>6, <1>7, <2>1
<1>10. ASSUME NEW x, NEW y, Follow(d, x, y), x # NoChunk, y # NoChunk
       PROVE  M[x].usage \/ M[y].usage
  <2>1. CASE x = n
    BY <1>2, <1>8, <2>1
  <2>2. CASE x = r /\ Follow(c, n, y)
    <3>1. y \in C /\ N[y].usage
      BY <1>5, <1>10, <2>2 DEF RightUsed
    <3>2. QED
      BY <1>8, <3>1
  <2>3. CASE x # n /\ x # r /\ Follow(c, x, y)
    BY <1>1, <1>5, <1>8, <1>10, <2>3
  <2>4. QED
    BY <1>2, <1>10, <2>1, <2>2, <2>3
<1>11. Links(M, d, NoChunk)
  BY <1>2, <1>9, <1>10 DEF Links
<1>12. /\ Unused(M, d) = {m \in C \cup {r} : ~M[m].usage} /\ Unused(N, c) = {m \in C : ~N[m].usage}
       /\ InUse(M, d) = {m \in C \cup {r} : M[m].usage} /\ InUse(N, c) = {m \in C : N[m].usage}
  BY <1>2 DEF Unused, InUse, C
<1>13. /\ Unused(M, d) = Unused(N, c) \cup {r} /\ r \notin Unused(N, c)
       /\ InUse(M, d) = InUse(N, c)
  BY <1>2, <1>3, <1>8, <1>12
<1>14. QED
  BY <1>11, <1>13 DEF SplitUsed

(* A chunk in use is added at the end.                                     *)
LEMMA LinksAdjoined ==
  ASSUME NEW N, NEW c, Links(N, c, NoChunk), NEW size, NEW l, NEW M, NEW d,
         Adjoins(N, c, size, l, M, d), NEW r, r = Len(N) + 1
  PROVE  /\ Links(M, d, NoChunk)
         /\ Unused(M, d) = Unused(N, c)
         /\ InUse(M, d) = InUse(N, c) \cup {r} /\ r \notin InUse(N, c)
<1> DEFINE L == Len(N)
           C == Members(c)
<1>1. /\ N \in Seq(DeferNode) /\ Chained(c) /\ C = {m \in 1 .. L : N[m].into = NoChunk}
      /\ \A y, z : Follow(c, y, z) /\ y # NoChunk /\ z # NoChunk =>
           N[y].usage \/ N[z].usage
  BY DEF Links
<1>2. /\ Chained(d) /\ r # NoChunk /\ r \notin C
      /\ Members(d) = C \cup {r}
      /\ \A x, y : Follow(d, x, y) => \/ x = l /\ y = r
                                      \/ x = r /\ Follow(c, l, y)
                                      \/ x # l /\ x # r /\ Follow(c, x, y)
      /\ M \in Seq(DeferNode) /\ Len(M) = L + 1
      /\ M[r] = Defer!MemNode(size, TRUE)
      /\ \A m \in 1 .. L : M[m] = N[m]
  BY DEF Adjoins, Lengthens, OneMore
<1>3. M[r].usage = TRUE /\ M[r].into = NoChunk
  BY <1>2 DEF Defer!MemNode, NoChunk
<1>4. L \in Nat /\ r = L + 1
  BY <1>1, LenProperties
<1>5. \A y, z : Follow(c, y, z) => y \in C \cup {NoChunk} /\ z \in C \cup {NoChunk}
  BY <1>1, FollowOnce
<1> HIDE DEF L, C
<1>6. \A m \in 1 .. L + 1 : m \in 1 .. L \/ m = r
  BY <1>4
<1>7. /\ \A m \in 1 .. L : m \in 1 .. L + 1 /\ m # r
      /\ r \in 1 .. L + 1
  BY <1>4
<1>8. \A y \in C : M[y].usage = N[y].usage /\ y \in 1 .. L
  BY <1>1, <1>2
<1>9. Members(d) = {m \in 1 .. L + 1 : M[m].into = NoChunk}
  BY <1>1, <1>2, <1>3, <1>6, <1>7
<1>10. ASSUME NEW x, NEW y, Follow(d, x, y), x # NoChunk, y # NoChunk
       PROVE  M[x].usage \/ M[y].usage
  <2>1. CASE x = r \/ y = r
    BY <1>3, <2>1
  <2>2. CASE x # r /\ y # r
    <3>1. Follow(c, x, y) /\ x \in C /\ y \in C
      BY <1>2, <1>5, <1>10, <2>2
    <3>2. QED
      BY <1>1, <1>8, <1>10, <3>1
  <2>3. QED
    BY <2>1, <2>2
<1>11. Links(M, d, NoChunk)
  BY <1>2, <1>9, <1>10 DEF Links
<1>12. /\ Unused(M, d) = {m \in C \cup {r} : ~M[m].usage} /\ Unused(N, c) = {m \in C : ~N[m].usage}
       /\ InUse(M, d) = {m \in C \cup {r} : M[m].usage} /\ InUse(N, c) = {m \in C : N[m].usage}
  BY <1>2 DEF Unused, InUse, C
<1>13. /\ Unused(M, d) = Unused(N, c)
       /\ InUse(M, d) = InUse(N, c) \cup {r} /\ r \notin InUse(N, c)
  BY <1>2, <1>3, <1>8, <1>12
<1>14. QED
  BY <1>11, <1>13

-----------------------------------------------------------------------------
(* The operations of the deferred allocator.                               *)

DeferStates ==
  [node : Seq(DeferNode), chain : Seq(Nat), free : Seq(Nat), barrier : BOOLEAN,
   deferred : Seq(Nat), total : Nat, code : {"NO_ERROR", "INVALID_VALUE"}, last : Nat]

(* The free list has the chunks that are not in use, except the hole.      *)
Listed(d, hole) ==
  /\ d \in DeferStates
  /\ Links(d.node, d.chain, hole)
  /\ Distinct(d.free) /\ Members(d.free) = Unused(d.node, d.chain) \ {hole}

Alike(v, d) ==
  /\ v \in DeferStates
  /\ v.barrier = d.barrier /\ v.deferred = d.deferred /\ v.total = d.total /\ v.code = d.code

Erasing(v, d, n) ==
  /\ d \in DeferStates /\ Distinct(d.free) /\ n \in Members(d.free) /\ v = Defer!EraseFree(d, n)

(* A chunk leaves the free list.                                           *)
LEMMA Erased ==
  ASSUME NEW v, NEW d, NEW n, Erasing(v, d, n)
  PROVE  /\ Alike(v, d) /\ v.node = d.node /\ v.chain = d.chain /\ v.last = d.last
         /\ Distinct(v.free) /\ Members(v.free) = Members(d.free) \ {n}
<1> DEFINE s == d.free
           i == CHOOSE j \in DOMAIN d.free : d.free[j] = n
           r == Defer!RemoveAt(s, i)
<1>1. d \in DeferStates /\ Distinct(s) /\ n \in Members(s) /\ v = [d EXCEPT !.free = r]
  BY DEF Erasing, Defer!EraseFree
<1>2. s \in Seq(Nat) /\ DOMAIN s = 1 .. Len(s)
  BY <1>1, LenProperties DEF DeferStates
<1>3. i \in 1 .. Len(s) /\ s[i] = n
  BY <1>1, <1>2 DEF Members
<1> HIDE DEF s, i
<1>4. r = Eager!RemoveAt(s, i)
  BY SameLibrary
<1>5. r \in Seq(Nat) /\ Distinct(r) /\ Members(r) = Members(s) \ {n}
  BY <1>1, <1>2, <1>3, <1>4, RemovedAt, RemovedMembers
<1> HIDE DEF r
<1>6. /\ v \in DeferStates /\ v.free = r
      /\ v.node = d.node /\ v.chain = d.chain /\ v.last = d.last
      /\ v.barrier = d.barrier /\ v.deferred = d.deferred /\ v.total = d.total /\ v.code = d.code
  BY <1>1, <1>5 DEF DeferStates
<1>7. QED
  BY <1>5, <1>6 DEF Alike, s

Freeing(v, d, n) ==
  /\ d \in DeferStates /\ Distinct(d.free) /\ n \in Nat /\ n \notin Members(d.free)
  /\ v = Defer!InsertFree(d, n)

(* A chunk goes to the free list.                                          *)
LEMMA Freed ==
  ASSUME NEW v, NEW d, NEW n, Freeing(v, d, n)
  PROVE  /\ Alike(v, d) /\ v.node = d.node /\ v.chain = d.chain /\ v.last = d.last
         /\ Distinct(v.free) /\ Members(v.free) = Members(d.free) \cup {n}
<1> DEFINE s == d.free
           smaller == {j \in DOMAIN d.free : d.node[d.free[j]].size <= d.node[n].size}
           i == Cardinality(smaller) + 1
           r == Defer!InsertAt(s, i, n)
<1>1. d \in DeferStates /\ Distinct(s) /\ n \in Nat /\ n \notin Members(s)
  BY DEF Freeing
<1>2. v = [d EXCEPT !.free = r]
  <2>1. Defer!Cardinality(smaller) = Cardinality(smaller)
    BY Counting
  <2>2. QED
    BY <2>1 DEF Freeing, Defer!InsertFree
<1>3. s \in Seq(Nat) /\ DOMAIN s = 1 .. Len(s) /\ Len(s) \in Nat
  BY <1>1, LenProperties DEF DeferStates
<1>4. i \in 1 .. Len(s) + 1
  <2>1. smaller \subseteq 1 .. Len(s)
    BY <1>3
  <2> HIDE DEF smaller
  <2>2. QED
    BY <1>3, <2>1, Fewer
<1> HIDE DEF s, i
<1>5. r = Eager!InsertAt(s, i, n)
  BY SameLibrary
<1>6. r \in Seq(Nat) /\ Distinct(r) /\ Members(r) = Members(s) \cup {n}
  <2>1. s \in Seq(Nat) /\ n \in Nat /\ i \in 1 .. Len(s) + 1
    BY <1>1, <1>3, <1>4
  <2>2. Eager!InsertAt(s, i, n) \in Seq(Nat)
    BY ONLY <2>1, InsertedAt
  <2>3. /\ Distinct(Eager!InsertAt(s, i, n))
        /\ Members(Eager!InsertAt(s, i, n)) = Members(s) \cup {n}
    BY ONLY <1>1, <2>1, InsertedMembers
  <2>4. QED
    BY <1>5, <2>2, <2>3
<1> HIDE DEF r
<1>7. /\ v \in DeferStates /\ v.free = r
      /\ v.node = d.node /\ v.chain = d.chain /\ v.last = d.last
      /\ v.barrier = d.barrier /\ v.deferred = d.deferred /\ v.total = d.total /\ v.code = d.code
  BY <1>1, <1>2, <1>6 DEF DeferStates
<1>8. QED
  BY <1>6, <1>7 DEF Alike, s

Fusing(v, d, a, b) ==
  /\ d \in DeferStates /\ (\E h : Links(d.node, d.chain, h))
  /\ a \in Members(d.chain) /\ b \in Members(d.chain) /\ Follow(d.chain, a, b)
  /\ v = Defer!FuseToLeft(d, a, b)

(* What fuse_to_left() makes of the nodes and of the chain.                *)
LEMMA Fused ==
  ASSUME NEW v, NEW d, NEW a, NEW b, Fusing(v, d, a, b)
  PROVE  /\ Alike(v, d) /\ v.free = d.free /\ v.last = d.last
         /\ Joining(d.node, d.chain, a, b, v.node, v.chain)
<1> DEFINE N == d.node
           c == d.chain
           i == Defer!Position(d, b)
           M == [N EXCEPT ![b].offset = N[a].size, ![b].into = a, ![a].size = @ + N[b].size]
           r == Defer!RemoveAt(c, i)
<1>1. /\ d \in DeferStates /\ a \in Members(c) /\ b \in Members(c) /\ Follow(c, a, b)
      /\ (\E h : Links(N, c, h)) /\ v = Defer!FuseToLeft(d, a, b)
  BY DEF Fusing
<1>2. N \in Seq(DeferNode) /\ Chained(c) /\ Members(c) = {n \in 1 .. Len(N) : N[n].into = NoChunk}
  BY <1>1 DEF Links
<1>3. a \in 1 .. Len(N) /\ b \in 1 .. Len(N) /\ a # NoChunk /\ b # NoChunk /\ a # b
  <2>1. a \in 1 .. Len(N) /\ b \in 1 .. Len(N) /\ a # NoChunk /\ b # NoChunk
    BY <1>1, <1>2 DEF Chained
  <2>2. QED
    BY <1>1, <1>2, <2>1, FollowOnce
<1>4. v = [[d EXCEPT !.node = M] EXCEPT !.chain = r]
  <2> DEFINE x == N[a].size
             z == N[b].size
             N1 == [N EXCEPT ![b].offset = x]
             N2 == [N1 EXCEPT ![b].into = a]
             N3 == [N2 EXCEPT ![a].size = x + z]
  <2>1. v = [[[[d EXCEPT !.node[b].offset = x] EXCEPT !.node[b].into = a]
               EXCEPT !.node[a].size = x + z] EXCEPT !.chain = r]
    BY <1>1 DEF Defer!FuseToLeft
  <2>2. [d EXCEPT !.node[b].offset = x] = [d EXCEPT !.node = N1]
    BY <1>1 DEF DeferStates
  <2>3. M = N3
    OBVIOUS
  <2> HIDE DEF x, z, N1, r
  <2>4. [[d EXCEPT !.node = N1] EXCEPT !.node[b].into = a] = [d EXCEPT !.node = N2]
    BY <1>1 DEF DeferStates
  <2> HIDE DEF N2
  <2>5. [[d EXCEPT !.node = N2] EXCEPT !.node[a].size = x + z] = [d EXCEPT !.node = N3]
    BY <1>1 DEF DeferStates
  <2> HIDE DEF N3, M
  <2>6. QED
    BY <2>1, <2>2, <2>3, <2>4, <2>5
<1>5. JoinedNodes(N, a, b, M)
  BY <1>2, <1>3, JoinNodes
<1>6. /\ i \in 1 .. Len(c) /\ c[i] = b /\ b = At(c, i) /\ Follow(c, At(c, i - 1), b)
  <2> HIDE DEF i
  <2>1. i = Defer!Position(d, b)
    BY DEF i
  <2>2. QED
    BY <1>1, <1>2, <2>1, PlaceOf
<1>7. a = At(c, i - 1)
  BY <1>1, <1>2, <1>6, FollowOnce
<1> HIDE DEF i
<1>8. Chained(r) /\ TakenFrom(r, c, i) /\ Members(r) = Members(c) \ {b}
  BY <1>2, <1>6, ChainTakenFrom
<1> HIDE DEF r, M
<1>9. \A x, y : Follow(r, x, y) => (x = a /\ Follow(c, b, y)) \/ (x # a /\ Follow(c, x, y))
  <2>1. ASSUME NEW x, NEW y, Follow(r, x, y)
        PROVE  (x = a /\ Follow(c, b, y)) \/ (x # a /\ Follow(c, x, y))
    BY <1>2, <1>6, <1>7, <1>8, <2>1, FollowTakenFrom
  <2>2. QED
    BY <2>1
<1>10. Len(r) = Len(c) - 1
  BY <1>8 DEF TakenFrom
<1>11. Joining(N, c, a, b, M, r)
  BY <1>1, <1>2, <1>5, <1>8, <1>9, <1>10 DEF Joining
<1>12. M \in Seq(DeferNode) /\ r \in Seq(Nat)
  BY <1>5, <1>8 DEF JoinedNodes, Chained
<1>13. /\ v \in DeferStates /\ v.node = M /\ v.chain = r
       /\ v.free = d.free /\ v.last = d.last
       /\ v.barrier = d.barrier /\ v.deferred = d.deferred /\ v.total = d.total /\ v.code = d.code
  <2> DEFINE w == [d EXCEPT !.node = M]
  <2>1. /\ w \in DeferStates /\ w.node = M /\ w.chain = c
        /\ w.free = d.free /\ w.last = d.last
        /\ w.barrier = d.barrier /\ w.deferred = d.deferred /\ w.total = d.total /\ w.code = d.code
    BY <1>1, <1>12 DEF DeferStates
  <2>2. v = [w EXCEPT !.chain = r]
    BY <1>4
  <2> HIDE DEF w
  <2>3. QED
    BY <1>12, <2>1, <2>2 DEF DeferStates
<1>14. QED
  BY <1>11, <1>13 DEF Alike, N, c

(* What an operation leaves of the rest: S, the chunks in use that it does *)
(* not touch.                                                              *)
Spares(v, d, S) ==
  /\ Alike(v, d) /\ v.last = d.last /\ Len(v.node) = Len(d.node)
  /\ \A m \in S : v.node[m].size = d.node[m].size
  /\ Preserves(v.node, v.chain, d.node, d.chain)

(* Over several operations.                                                *)
LEMMA SparesOn ==
  ASSUME NEW v, NEW w, NEW d, NEW S, NEW T, Spares(v, w, T), Spares(w, d, S), S \subseteq T
  PROVE  Spares(v, d, S)
<1>1. /\ Alike(v, w) /\ v.last = w.last /\ Len(v.node) = Len(w.node)
      /\ \A m \in T : v.node[m].size = w.node[m].size
      /\ Preserves(v.node, v.chain, w.node, w.chain)
  BY DEF Spares
<1>2. /\ Alike(w, d) /\ w.last = d.last /\ Len(w.node) = Len(d.node)
      /\ \A m \in S : w.node[m].size = d.node[m].size
      /\ Preserves(w.node, w.chain, d.node, d.chain)
  BY DEF Spares
<1>3. Alike(v, d)
  BY <1>1, <1>2 DEF Alike
<1>4. Preserves(v.node, v.chain, d.node, d.chain)
  BY <1>1, <1>2, PreservesOn
<1>5. QED
  BY <1>1, <1>2, <1>3, <1>4 DEF Spares

(* The free chunk e leaves the free list and fuses with the hole h.        *)
JoiningFree(v, d, h, a, b, e) ==
  /\ Listed(d, h) /\ a \in Members(d.chain) /\ b \in Members(d.chain)
  /\ Follow(d.chain, a, b)
  /\ << h, e >> \in {<< a, b >>, << b, a >>} /\ ~d.node[e].usage
  /\ v = Defer!FuseToLeft(Defer!EraseFree(d, e), a, b)

JoinedFree(v, d, h, a, b) ==
  /\ Listed(v, a) /\ a \in Members(v.chain)
  /\ InUse(v.node, v.chain) \ {a} = InUse(d.node, d.chain) \ {h}
  /\ Spares(v, d, InUse(d.node, d.chain) \ {h})
  /\ (h = b \/ LeftUsed(d.node, d.chain, a) => LeftUsed(v.node, v.chain, a))
  /\ (h = a => RightUsed(v.node, v.chain, a))
  /\ \A m \in 1 .. Len(d.node) : v.node[m].usage = d.node[m].usage
  /\ \A y : Follow(v.chain, a, y) => Follow(d.chain, b, y)

(* What is left then: the hole is the fused chunk.                         *)
LEMMA JoinListed ==
  ASSUME NEW v, NEW d, NEW h, NEW a, NEW b, NEW e, JoiningFree(v, d, h, a, b, e)
  PROVE  JoinedFree(v, d, h, a, b)
<1> DEFINE w == Defer!EraseFree(d, e)
<1>1. /\ Listed(d, h) /\ a \in Members(d.chain) /\ b \in Members(d.chain)
      /\ Follow(d.chain, a, b)
      /\ << h, e >> \in {<< a, b >>, << b, a >>} /\ ~d.node[e].usage
      /\ v = Defer!FuseToLeft(w, a, b)
  BY DEF JoiningFree
<1> HIDE DEF w
<1>2. /\ d \in DeferStates /\ Links(d.node, d.chain, h)
      /\ Distinct(d.free) /\ Members(d.free) = Unused(d.node, d.chain) \ {h}
  BY <1>1 DEF Listed
<1>3. Chained(d.chain) /\ a # b /\ e \in Members(d.chain) /\ e # h
  <2>1. Chained(d.chain) /\ a # NoChunk
    BY <1>1, <1>2 DEF Links, Chained
  <2>2. a # b
    BY <1>1, <2>1, FollowOnce
  <2>3. QED
    BY <1>1, <2>1, <2>2
<1>4. e \in Members(d.free)
  BY <1>1, <1>2, <1>3 DEF Unused
<1>5. Erasing(w, d, e)
  BY <1>2, <1>4 DEF Erasing, w
<1>6. /\ Alike(w, d) /\ w.node = d.node /\ w.chain = d.chain /\ w.last = d.last
      /\ Distinct(w.free) /\ Members(w.free) = Members(d.free) \ {e}
  BY <1>5, Erased
<1>7. Fusing(v, w, a, b)
  BY <1>1, <1>2, <1>6 DEF Fusing, Alike
<1>8. /\ Alike(v, w) /\ v.free = w.free /\ v.last = w.last
      /\ Joining(d.node, d.chain, a, b, v.node, v.chain)
  BY <1>6, <1>7, Fused
<1>9. /\ Links(v.node, v.chain, a)
      /\ Unused(v.node, v.chain) \ {a} = (Unused(d.node, d.chain) \ {h}) \ {e}
      /\ InUse(v.node, v.chain) \ {a} = InUse(d.node, d.chain) \ {h}
      /\ (h = b \/ LeftUsed(d.node, d.chain, a) => LeftUsed(v.node, v.chain, a))
      /\ (h = a => RightUsed(v.node, v.chain, a))
  BY <1>1, <1>2, <1>8, LinksJoined
<1>10. Alike(v, d) /\ v.last = d.last
  BY <1>6, <1>8 DEF Alike
<1>11. Listed(v, a)
  BY <1>2, <1>6, <1>8, <1>9, <1>10 DEF Listed, Alike
<1>12. /\ Len(v.node) = Len(d.node) /\ a \in Members(v.chain)
       /\ \A m \in 1 .. Len(d.node) : v.node[m].usage = d.node[m].usage
       /\ \A m \in 1 .. Len(d.node) : m # a /\ m # b => v.node[m] = d.node[m]
       /\ \A x, y : Follow(v.chain, x, y) =>
            (x = a /\ Follow(d.chain, b, y)) \/ (x # a /\ Follow(d.chain, x, y))
       /\ Members(d.chain) \subseteq 1 .. Len(d.node)
  BY <1>3, <1>8 DEF Joining, JoinedNodes
<1>13. ASSUME NEW m \in InUse(d.node, d.chain) \ {h}
       PROVE  v.node[m].size = d.node[m].size
  <2>1. m \in Members(d.chain) /\ d.node[m].usage /\ m # h
    BY DEF InUse
  <2>2. m # a /\ m # b
    BY <1>1, <2>1
  <2>3. QED
    BY <1>12, <2>1, <2>2
<1>14. Preserves(v.node, v.chain, d.node, d.chain)
  BY <1>8, JoiningPreserves
<1>15. Spares(v, d, InUse(d.node, d.chain) \ {h})
  BY <1>10, <1>12, <1>13, <1>14 DEF Spares
<1>16. QED
  BY <1>9, <1>11, <1>12, <1>15 DEF JoinedFree

(* Something, or nothing, is behind every chunk of the chain.              *)
LEMMA SomeFollows ==
  ASSUME NEW c, Chained(c), NEW x \in Members(c)
  PROVE  \E y : Follow(c, x, y)
<1>1. PICK k \in 1 .. Len(c) : x = At(c, k)
  BY OnePlace
<1>2. Len(c) \in Nat
  BY LenProperties DEF Chained
<1>3. k \in 0 .. Len(c)
  BY <1>1, <1>2
<1>4. Follow(c, x, At(c, k + 1))
  BY <1>1, <1>3 DEF Follow
<1>5. QED
  BY <1>4

FusedBack(v, d, n) ==
  /\ Listed(v, NoChunk)
  /\ InUse(v.node, v.chain) = InUse(d.node, d.chain) \ {n}
  /\ Spares(v, d, InUse(d.node, d.chain) \ {n})

(* A chunk given back fuses with the free chunks beside it, and the free   *)
(* list is again what is not in use.                                       *)
LEMMA FuseListed ==
  ASSUME NEW v, NEW d, NEW n, Listed(d, NoChunk), n \in InUse(d.node, d.chain),
         v = Defer!Fuse(d, n)
  PROVE  FusedBack(v, d, n)
<1> DEFINE N == d.node
           c == d.chain
           S == InUse(N, c) \ {n}
           k == Defer!Position(d, n)
           left == IF k > 1 THEN d.chain[k - 1] ELSE Defer!NoNode
           right == IF k < Len(d.chain) THEN d.chain[k + 1] ELSE Defer!NoNode
           joinsLeft == left # Defer!NoNode /\ ~d.node[left].usage
           joinsRight == right # Defer!NoNode /\ ~d.node[right].usage
           one == IF joinsLeft THEN Defer!FuseToLeft(Defer!EraseFree(d, left), left, n) ELSE d
           at == IF joinsLeft THEN left ELSE n
           two == IF joinsRight THEN Defer!FuseToLeft(Defer!EraseFree(one, right), at, right)
                  ELSE one
           w == [two EXCEPT !.node[at].usage = FALSE]
<1>1. v = Defer!InsertFree(w, at)
  BY Zenon DEF Defer!Fuse
<1>2. /\ d \in DeferStates /\ Links(N, c, NoChunk) /\ n \in Members(c) /\ N[n].usage
      /\ Distinct(d.free) /\ Members(d.free) = Unused(N, c) \ {NoChunk}
  BY DEF Listed, InUse
<1>3. /\ Chained(c) /\ Members(c) \subseteq 1 .. Len(N) /\ NoChunk \notin Members(c)
  BY <1>2 DEF Links, Chained
<1>4. Follow(c, left, n) /\ Follow(c, n, right)
  <2> HIDE DEF k
  <2>1. k = Defer!Position(d, n)
    BY DEF k
  <2>2. /\ Follow(c, At(c, k - 1), n) /\ Follow(c, n, At(c, k + 1))
        /\ At(c, k - 1) = left /\ At(c, k + 1) = right
    BY <1>2, <1>3, <2>1, PlaceOf
  <2>3. QED
    BY <2>2
<1>5. (joinsLeft <=> left # NoChunk /\ ~N[left].usage)
      /\ (joinsRight <=> right # NoChunk /\ ~N[right].usage)
  BY DEF NoChunk
<1> HIDE DEF left, right
<1>6. /\ left \in Members(c) \cup {NoChunk} /\ right \in Members(c) \cup {NoChunk}
      /\ \A y : Follow(c, n, y) => y = right
      /\ \A y : Follow(c, y, n) => y = left
  BY <1>3, <1>4, FollowOnce
<1> HIDE DEF joinsLeft, joinsRight
<1>7. Listed(d, n)
  <2>1. Links(N, c, n)
    BY <1>2 DEF Links
  <2>2. Unused(N, c) \ {n} = Unused(N, c) \ {NoChunk}
    BY <1>2, <1>3 DEF Unused
  <2>3. QED
    BY <1>2, <2>1, <2>2 DEF Listed
<1>8. /\ Listed(one, at) /\ at \in Members(one.chain)
      /\ InUse(one.node, one.chain) \ {at} = S /\ Spares(one, d, S)
      /\ LeftUsed(one.node, one.chain, at)
      /\ \A m \in 1 .. Len(N) : one.node[m].usage = N[m].usage
      /\ \A y : Follow(one.chain, at, y) => y = right
  <2>1. CASE joinsLeft
    <3>1. one = Defer!FuseToLeft(Defer!EraseFree(d, left), left, n) /\ at = left
      BY <2>1
    <3> HIDE DEF one, at
    <3>2. left \in Members(c) /\ ~N[left].usage
      BY <1>5, <1>6, <2>1
    <3>3. JoiningFree(one, d, n, left, n, left)
      BY <1>2, <1>4, <1>7, <3>1, <3>2 DEF JoiningFree
    <3>4. JoinedFree(one, d, n, left, n)
      BY <3>3, JoinListed
    <3>5. QED
      BY <1>6, <3>1, <3>4 DEF JoinedFree
  <2>2. CASE ~joinsLeft
    <3>1. one = d /\ at = n
      BY <2>2
    <3> HIDE DEF one, at
    <3>2. LeftUsed(N, c, n)
      BY <1>5, <1>6, <2>2 DEF LeftUsed
    <3>3. Spares(d, d, S)
      <4>1. Len(N) \in Nat
        BY <1>2, LenProperties DEF Links
      <4>2. Preserves(N, c, N, c)
        BY <4>1 DEF Preserves
      <4>3. QED
        BY <1>2, <4>2 DEF Spares, Alike
    <3>4. QED
      BY <1>2, <1>6, <1>7, <3>1, <3>2, <3>3
  <2>3. QED
    BY <2>1, <2>2
<1> HIDE DEF one, at
<1>9. Chained(one.chain)
  BY <1>8 DEF Listed, Links
<1>10. /\ Listed(two, at) /\ at \in Members(two.chain)
       /\ InUse(two.node, two.chain) \ {at} = S /\ Spares(two, d, S)
       /\ LeftUsed(two.node, two.chain, at) /\ RightUsed(two.node, two.chain, at)
  <2>1. CASE joinsRight
    <3>1. two = Defer!FuseToLeft(Defer!EraseFree(one, right), at, right)
      BY <2>1
    <3> HIDE DEF two
    <3>2. right \in 1 .. Len(N) /\ right # NoChunk /\ ~one.node[right].usage
      BY <1>3, <1>5, <1>6, <1>8, <2>1
    <3>3. Follow(one.chain, at, right) /\ right \in Members(one.chain)
      <4>1. Follow(one.chain, at, right)
        BY <1>8, <1>9, SomeFollows
      <4>2. QED
        BY <1>9, <3>2, <4>1, FollowOnce
    <3>4. JoiningFree(two, one, at, at, right, right)
      BY <1>8, <3>1, <3>2, <3>3 DEF JoiningFree
    <3>5. JoinedFree(two, one, at, at, right)
      BY <3>4, JoinListed
    <3>6. /\ Listed(two, at) /\ at \in Members(two.chain)
          /\ InUse(two.node, two.chain) \ {at} = S /\ Spares(two, one, S)
          /\ LeftUsed(two.node, two.chain, at) /\ RightUsed(two.node, two.chain, at)
      BY <1>8, <3>5 DEF JoinedFree
    <3>7. Spares(two, d, S)
      BY <1>8, <3>6, SparesOn
    <3>8. QED
      BY <3>6, <3>7
  <2>2. CASE ~joinsRight
    <3>1. two = one
      BY <2>2
    <3> HIDE DEF two
    <3>2. right = NoChunk \/ one.node[right].usage
      BY <1>3, <1>5, <1>6, <1>8, <2>2
    <3>3. RightUsed(one.node, one.chain, at)
      BY <1>8, <3>2 DEF RightUsed
    <3>4. QED
      BY <1>8, <3>1, <3>3
  <2>3. QED
    BY <2>1, <2>2
<1> HIDE DEF two, S
<1> DEFINE K == two.node
           e == two.chain
           M == [K EXCEPT ![at].usage = FALSE]
<1>11. /\ two \in DeferStates /\ Links(K, e, at)
       /\ Distinct(two.free) /\ Members(two.free) = Unused(K, e) \ {at}
  BY <1>10 DEF Listed
<1>12. K \in Seq(DeferNode) /\ Chained(e) /\ Members(e) \subseteq 1 .. Len(K) /\ at \in 1 .. Len(K)
       /\ at \in Nat
  <2>1. K \in Seq(DeferNode) /\ Chained(e) /\ Members(e) \subseteq 1 .. Len(K)
    BY <1>11 DEF Links
  <2>2. at \in 1 .. Len(K)
    BY <1>10, <2>1
  <2>3. QED
    BY <2>1, <2>2
<1>13. Uses(K, at, FALSE, M)
  BY <1>12, UseNode
<1>14. M \in Seq(DeferNode) /\ Len(M) = Len(K) /\ \A m \in 1 .. Len(K) : M[m].size = K[m].size
  BY <1>13 DEF Uses
<1>15. w = [two EXCEPT !.node = M]
  BY <1>11 DEF DeferStates
<1> HIDE DEF w, M
<1>16. /\ w \in DeferStates /\ w.node = M /\ w.chain = e /\ w.free = two.free /\ w.last = two.last
       /\ w.barrier = two.barrier /\ w.deferred = two.deferred
       /\ w.total = two.total /\ w.code = two.code
  BY <1>11, <1>14, <1>15 DEF DeferStates
<1>17. /\ Links(M, e, NoChunk)
       /\ Unused(M, e) = (Unused(K, e) \ {at}) \cup {at}
       /\ InUse(M, e) = InUse(K, e) \ {at}
  <2>1. Closing(K, e, at, M)
    BY <1>10, <1>11, <1>13 DEF Closing
  <2> HIDE DEF K, e
  <2>2. Closed(K, e, at, M)
    BY ONLY <2>1, LinksClosed
  <2>3. QED
    BY <2>2 DEF Closed
<1>18. Freeing(v, w, at)
  BY <1>1, <1>11, <1>12, <1>16, <1>17 DEF Freeing
<1>19. /\ Alike(v, w) /\ v.node = M /\ v.chain = e /\ v.last = w.last
       /\ Distinct(v.free) /\ Members(v.free) = Unused(M, e)
  BY <1>11, <1>16, <1>17, <1>18, Freed
<1>20. Listed(v, NoChunk)
  <2>1. NoChunk \notin Unused(M, e)
    BY <1>12 DEF Unused, Chained
  <2>2. QED
    BY <1>17, <1>19, <2>1 DEF Listed, Alike
<1>21. InUse(v.node, v.chain) = S
  BY <1>10, <1>17, <1>19
<1>22. Preserves(v.node, v.chain, K, e)
  BY <1>12, <1>13, <1>19, UsingPreserves
<1>23. S \subseteq 1 .. Len(K)
  BY <1>10, <1>12 DEF InUse
<1>24. Spares(v, two, S)
  BY <1>14, <1>16, <1>19, <1>22, <1>23 DEF Spares, Alike
<1>25. Spares(v, d, S)
  BY <1>10, <1>24, SparesOn
<1>26. QED
  BY <1>20, <1>21, <1>25 DEF FusedBack, S

-----------------------------------------------------------------------------
(* Taking a chunk.                                                         *)

LengtheningBy(c, i, n, r, e) ==
  /\ Chained(c) /\ Chained(e) /\ PutIn(e, c, i, r) /\ r # NoChunk /\ r \notin Members(c)
  /\ Members(e) = Members(c) \cup {r} /\ n = At(c, i - 1)

(* What a chunk that is put in does to the chain.                          *)
LEMMA PutInLengthens ==
  ASSUME NEW c, NEW i, NEW n, NEW r, NEW e, LengtheningBy(c, i, n, r, e)
  PROVE  Lengthens(c, n, r, e)
<1>1. /\ Chained(c) /\ Chained(e) /\ PutIn(e, c, i, r) /\ r # NoChunk /\ r \notin Members(c)
      /\ Members(e) = Members(c) \cup {r} /\ n = At(c, i - 1)
  BY DEF LengtheningBy
<1>2. ASSUME NEW x, NEW y, Follow(e, x, y)
      PROVE  \/ x = n /\ y = r
             \/ x = r /\ Follow(c, n, y)
             \/ x # n /\ x # r /\ Follow(c, x, y)
  BY <1>1, <1>2, FollowPutIn
<1>3. Len(e) = Len(c) + 1
  BY <1>1 DEF PutIn
<1>4. QED
  BY <1>1, <1>2, <1>3 DEF Lengthens

OneMoring(N, size, usage, M) ==
  /\ N \in Seq(DeferNode) /\ size \in Nat /\ usage \in BOOLEAN
  /\ M = Append(N, Defer!MemNode(size, usage))

(* What appending a node does to the nodes.                                *)
LEMMA AppendedNode ==
  ASSUME NEW N, NEW size, NEW usage, NEW M, OneMoring(N, size, usage, M)
  PROVE  OneMore(N, size, usage, M)
<1> DEFINE x == Defer!MemNode(size, usage)
<1>1. N \in Seq(DeferNode) /\ size \in Nat /\ usage \in BOOLEAN /\ M = Append(N, x)
  BY DEF OneMoring
<1>2. x \in DeferNode
  <2>1. 0 \in Nat
    OBVIOUS
  <2>2. QED
    BY <1>1, <2>1 DEF Defer!MemNode, Defer!NoNode, DeferNode
<1> HIDE DEF x
<1>3. /\ M \in Seq(DeferNode) /\ Len(M) = Len(N) + 1 /\ M[Len(N) + 1] = x
      /\ \A n \in 1 .. Len(N) : M[n] = N[n]
  BY <1>1, <1>2, AppendProperties
<1>4. QED
  BY <1>3 DEF OneMore, x

OtherSizes(N, M, c, h) ==
  /\ Links(N, c, h) /\ M \in Seq(DeferNode) /\ Len(M) = Len(N)
  /\ \A n \in 1 .. Len(N) : M[n].usage = N[n].usage /\ M[n].into = N[n].into

SameUse(N, M, c, h) ==
  Links(M, c, h) /\ Unused(M, c) = Unused(N, c) /\ InUse(M, c) = InUse(N, c)

(* Only sizes and offsets differ.                                          *)
LEMMA LinksSame ==
  ASSUME NEW N, NEW M, NEW c, NEW h, OtherSizes(N, M, c, h)
  PROVE  SameUse(N, M, c, h)
<1> DEFINE L == Len(N)
           C == Members(c)
<1>1. /\ Chained(c) /\ C = {n \in 1 .. L : N[n].into = NoChunk}
      /\ \A y, z : Follow(c, y, z) /\ y \notin {NoChunk, h} /\ z \notin {NoChunk, h} =>
           N[y].usage \/ N[z].usage
      /\ \A n \in 1 .. L : M[n].usage = N[n].usage /\ M[n].into = N[n].into
      /\ M \in Seq(DeferNode) /\ Len(M) = L
  BY DEF OtherSizes, Links
<1>2. \A y, z : Follow(c, y, z) => y \in C \cup {NoChunk} /\ z \in C \cup {NoChunk}
  BY <1>1, FollowOnce
<1> HIDE DEF L, C
<1>3. C = {n \in 1 .. L : M[n].into = NoChunk} /\ C \subseteq 1 .. L
  BY <1>1
<1>4. ASSUME NEW y, NEW z, Follow(c, y, z), y \notin {NoChunk, h}, z \notin {NoChunk, h}
      PROVE  M[y].usage \/ M[z].usage
  <2>1. y \in 1 .. L /\ z \in 1 .. L
    BY <1>2, <1>3, <1>4
  <2>2. QED
    BY <1>1, <1>4, <2>1
<1>5. Links(M, c, h)
  BY <1>1, <1>3, <1>4 DEF Links, C, L
<1>6. \A n \in C : M[n].usage = N[n].usage
  BY <1>1, <1>3
<1>7. /\ Unused(M, c) = {m \in C : ~M[m].usage} /\ Unused(N, c) = {m \in C : ~N[m].usage}
      /\ InUse(M, c) = {m \in C : M[m].usage} /\ InUse(N, c) = {m \in C : N[m].usage}
  BY DEF Unused, InUse, C
<1>8. Unused(M, c) = Unused(N, c) /\ InUse(M, c) = InUse(N, c)
  BY <1>6, <1>7
<1>9. QED
  BY <1>5, <1>8 DEF SameUse

Providing(d, size) == Listed(d, NoChunk) /\ size \in Nat /\ size > 0

(* Chunk n of v is lent: it was not in use before.                         *)
Provides(v, d, n, size) ==
  /\ Listed(v, NoChunk) /\ Alike(v, d) /\ v.last = n
  /\ InUse(v.node, v.chain) = InUse(d.node, d.chain) \cup {n}
  /\ n \notin InUse(d.node, d.chain)
  /\ v.node[n].size = size
  /\ \A m \in InUse(d.node, d.chain) : v.node[m].size = d.node[m].size
  /\ Preserves(v.node, v.chain, d.node, d.chain)

Appending(v, d, size, new) ==
  /\ Providing(d, size) /\ new = Len(d.node) + 1
  /\ v = [d EXCEPT !.node  = Append(@, Defer!MemNode(size, TRUE)),
                   !.chain = Append(@, new),
                   !.last  = new]

(* A chunk is added at the end of the chain.                               *)
LEMMA AppendProvides ==
  ASSUME NEW v, NEW d, NEW size, NEW new, Appending(v, d, size, new)
  PROVE  Provides(v, d, new, size)
<1> DEFINE N == d.node
           c == d.chain
           M == Append(N, Defer!MemNode(size, TRUE))
           e == Append(c, new)
           k == Len(c)
           l == At(c, k)
<1>1. /\ d \in DeferStates /\ Links(N, c, NoChunk) /\ size \in Nat /\ size > 0
      /\ Distinct(d.free) /\ Members(d.free) = Unused(N, c) \ {NoChunk}
  BY DEF Appending, Providing, Listed
<1>2. /\ N \in Seq(DeferNode) /\ Chained(c) /\ Members(c) \subseteq 1 .. Len(N)
      /\ new = Len(N) + 1
  BY <1>1 DEF Appending, Links
<1>3. Len(N) \in Nat /\ k \in Nat
  BY <1>2, LenProperties DEF Chained
<1>4. new \in Nat /\ new # NoChunk /\ new \notin Members(c)
  <2>1. new \in Nat /\ new # 0 /\ new \notin 1 .. Len(N)
    BY <1>2, <1>3
  <2>2. QED
    BY <1>2, <2>1 DEF NoChunk, Defer!NoNode
<1>5. OneMore(N, size, TRUE, M)
  <2>1. OneMoring(N, size, TRUE, M)
    BY <1>1, <1>2 DEF OneMoring
  <2> HIDE DEF M
  <2>2. QED
    BY <2>1, AppendedNode DEF OneMoring
<1>6. Chained(e) /\ PutIn(e, c, k + 1, new) /\ Members(e) = Members(c) \cup {new}
  BY <1>2, <1>4, ChainAppended
<1>7. v = [[[d EXCEPT !.node = M] EXCEPT !.chain = e] EXCEPT !.last = new]
  BY DEF Appending
<1> HIDE DEF M, e
<1>8. Lengthens(c, l, new, e)
  <2>1. (k + 1) - 1 = k
    BY <1>3
  <2>2. LengtheningBy(c, k + 1, l, new, e)
    BY <1>2, <1>4, <1>6, <2>1 DEF LengtheningBy
  <2>3. QED
    BY <2>2, PutInLengthens
<1>9. Follow(c, l, NoChunk)
  <2>1. k \in 0 .. k /\ k + 1 \notin 1 .. k
    BY <1>3
  <2>2. At(c, k + 1) = NoChunk
    BY <2>1 DEF At
  <2>3. QED
    BY <2>1, <2>2 DEF Follow
<1>10. Adjoins(N, c, size, l, M, e)
  BY <1>1, <1>2, <1>5, <1>8, <1>9 DEF Adjoins
<1>11. /\ Links(M, e, NoChunk) /\ Unused(M, e) = Unused(N, c)
       /\ InUse(M, e) = InUse(N, c) \cup {new} /\ new \notin InUse(N, c)
  BY <1>1, <1>2, <1>10, LinksAdjoined
<1>12. Preserves(M, e, N, c)
  BY <1>10, AdjoiningPreserves
<1>13. /\ M \in Seq(DeferNode) /\ M[new].size = size /\ \A n \in 1 .. Len(N) : M[n] = N[n]
  BY <1>2, <1>5 DEF OneMore, Defer!MemNode
<1>14. /\ v \in DeferStates /\ v.node = M /\ v.chain = e /\ v.free = d.free /\ v.last = new
       /\ v.barrier = d.barrier /\ v.deferred = d.deferred /\ v.total = d.total /\ v.code = d.code
  <2>1. e \in Seq(Nat)
    BY <1>6 DEF Chained
  <2>2. QED
    BY <1>1, <1>4, <1>7, <1>13, <2>1 DEF DeferStates
<1>15. InUse(N, c) \subseteq 1 .. Len(N)
  BY <1>2 DEF InUse
<1>16. Listed(v, NoChunk)
  BY <1>1, <1>11, <1>14 DEF Listed
<1>17. \A m \in InUse(N, c) : v.node[m].size = N[m].size
  BY <1>13, <1>14, <1>15
<1>18. QED
  BY <1>11, <1>12, <1>13, <1>14, <1>16, <1>17 DEF Provides, Alike

(* The chunk that is selected is free.                                     *)
LEMMA SelectedFree ==
  ASSUME NEW d, NEW size, d.free \in Seq(Nat), d.free # << >>, NEW n, n = Defer!Selected(d, size)
  PROVE  n \in Members(d.free)
<1> DEFINE f == d.free
           k == Len(f)
           fits == {i \in DOMAIN d.free : d.node[d.free[i]].size >= size}
           first == CHOOSE i \in fits : \A j \in fits : i <= j
<1>1. k \in Nat \ {0} /\ DOMAIN f = 1 .. k
  <2>1. k \in Nat /\ DOMAIN f = 1 .. k
    BY LenProperties
  <2>2. k # 0
    BY EmptySeq
  <2>3. QED
    BY <2>1, <2>2
<1>2. n = IF fits = {} THEN Defer!Last(f) ELSE f[first]
  BY DEF Defer!Selected
<1>3. CASE fits = {}
  <2>1. n = f[k]
    BY <1>2, <1>3, SameLibrary
  <2>2. k \in 1 .. k
    BY <1>1
  <2>3. QED
    BY <1>1, <2>1, <2>2 DEF Members
<1>4. CASE fits # {}
  <2>1. fits \subseteq 1 .. k
    BY <1>1
  <2> HIDE DEF fits
  <2>2. fits \in SUBSET Nat
    BY <1>1, <2>1
  <2>3. \E i \in fits : \A j \in fits : i <= j
    BY <1>4, <2>2, Least
  <2>4. first \in 1 .. k
    BY <2>1, <2>3
  <2>5. QED
    BY <1>1, <1>2, <1>4, <2>4 DEF Members
<1>5. QED
  BY <1>3, <1>4

TakingFree(w, d, n) ==
  /\ Listed(d, NoChunk) /\ n \in Members(d.free)
  /\ w = [Defer!EraseFree(d, n) EXCEPT !.node[n].usage = TRUE, !.last = n]

(* A free chunk leaves the free list and is lent as it is.                 *)
LEMMA TakenProvides ==
  ASSUME NEW w, NEW d, NEW n, TakingFree(w, d, n)
  PROVE  /\ Provides(w, d, n, d.node[n].size) /\ RightUsed(w.node, w.chain, n)
<1> DEFINE K == d.node
           c == d.chain
           x == Defer!EraseFree(d, n)
           M == [x.node EXCEPT ![n].usage = TRUE]
<1>1. /\ d \in DeferStates /\ Links(K, c, NoChunk)
      /\ Distinct(d.free) /\ Members(d.free) = Unused(K, c) \ {NoChunk}
      /\ n \in Members(d.free)
  BY DEF TakingFree, Listed
<1>2. K \in Seq(DeferNode) /\ Chained(c) /\ Members(c) \subseteq 1 .. Len(K)
  BY <1>1 DEF Links
<1>3. n \in Unused(K, c) /\ n \in Members(c) /\ n \in 1 .. Len(K) /\ n \in Nat
      /\ n \notin InUse(K, c)
  <2>1. n \in Unused(K, c) /\ n \in Members(c) /\ n \notin InUse(K, c)
    BY <1>1 DEF Unused, InUse
  <2>2. n \in 1 .. Len(K)
    BY <1>2, <2>1
  <2>3. QED
    BY <2>1, <2>2
<1>4. /\ Alike(x, d) /\ x.node = K /\ x.chain = c
      /\ Distinct(x.free) /\ Members(x.free) = Members(d.free) \ {n}
  <2>1. Erasing(x, d, n)
    BY <1>1 DEF Erasing
  <2>2. QED
    BY <2>1, Erased
<1> HIDE DEF x
<1>5. w = [[x EXCEPT !.node = M] EXCEPT !.last = n]
  <2>1. w = [[x EXCEPT !.node[n].usage = TRUE] EXCEPT !.last = n]
    BY DEF TakingFree, x
  <2>2. [x EXCEPT !.node[n].usage = TRUE] = [x EXCEPT !.node = M]
    BY <1>4 DEF Alike, DeferStates
  <2>3. QED
    BY <2>1, <2>2
<1>6. Uses(K, n, TRUE, M)
  BY <1>2, <1>3, <1>4, UseNode
<1> HIDE DEF M
<1>7. Lent(K, c, n, M)
  <2>1. Lending(K, c, n, M)
    BY <1>1, <1>3, <1>6 DEF Lending
  <2>2. QED
    BY <2>1, LinksTaken
<1>8. Preserves(M, c, K, c)
  BY <1>2, <1>3, <1>6, UsingPreserves
<1>9. /\ M \in Seq(DeferNode) /\ Len(M) = Len(K)
      /\ \A m \in 1 .. Len(K) : M[m].size = K[m].size
  BY <1>6 DEF Uses
<1>10. /\ w \in DeferStates /\ w.node = M /\ w.chain = c /\ w.free = x.free /\ w.last = n
       /\ w.barrier = x.barrier /\ w.deferred = x.deferred
       /\ w.total = x.total /\ w.code = x.code
  BY <1>3, <1>4, <1>5, <1>9 DEF DeferStates, Alike
<1>11. Listed(w, NoChunk)
  BY <1>1, <1>4, <1>7, <1>10 DEF Listed, Lent
<1>12. \A m \in InUse(K, c) : m \in 1 .. Len(K)
  BY <1>2 DEF InUse
<1>13. Provides(w, d, n, K[n].size)
  BY <1>3, <1>4, <1>7, <1>8, <1>9, <1>10, <1>11, <1>12 DEF Provides, Alike, Lent
<1>14. QED
  BY <1>3, <1>7, <1>9, <1>10, <1>13 DEF Lent

Resizing(w, n, size) ==
  /\ Listed(w, NoChunk) /\ n \in InUse(w.node, w.chain) /\ size \in Nat /\ size > 0

(* Chunk n has another size; the rest is as it was.                        *)
Resized(v, w, n, size) ==
  /\ Listed(v, NoChunk) /\ Alike(v, w) /\ v.last = w.last
  /\ InUse(v.node, v.chain) = InUse(w.node, w.chain)
  /\ v.node[n].size = size
  /\ \A m \in InUse(w.node, w.chain) : m # n => v.node[m].size = w.node[m].size
  /\ Preserves(v.node, v.chain, w.node, w.chain)

(* A chunk that is too small becomes larger.                               *)
LEMMA EnlargeResizes ==
  ASSUME NEW w, NEW n, NEW size, Resizing(w, n, size), ~(w.node[n].size > size), NEW v,
         v = [w EXCEPT !.node[n].size = size]
  PROVE  Resized(v, w, n, size)
<1> DEFINE K == w.node
           c == w.chain
           M == [K EXCEPT ![n].size = size]
           more == size - K[n].size
<1>1. /\ w \in DeferStates /\ Links(K, c, NoChunk) /\ n \in Members(c) /\ size \in Nat
      /\ Distinct(w.free) /\ Members(w.free) = Unused(K, c) \ {NoChunk}
  BY DEF Resizing, Listed, InUse
<1>2. K \in Seq(DeferNode) /\ Chained(c) /\ Members(c) \subseteq 1 .. Len(K) /\ n \in 1 .. Len(K)
  BY <1>1 DEF Links
<1>3. /\ M \in Seq(DeferNode) /\ Len(M) = Len(K)
      /\ M[n].size = size /\ M[n].usage = K[n].usage /\ M[n].into = K[n].into
      /\ \A m \in 1 .. Len(K) : m # n => M[m] = K[m]
  <2>1. Sizing(K, n, size, M)
    BY <1>1, <1>2 DEF Sizing
  <2> HIDE DEF M, K
  <2>2. Sized(K, n, size, M)
    BY <2>1, SizeNode
  <2>3. QED
    BY <2>2 DEF Sized
<1>4. v = [w EXCEPT !.node = M]
  BY <1>1 DEF DeferStates
<1> HIDE DEF M
<1>5. /\ v \in DeferStates /\ v.node = M /\ v.chain = c /\ v.free = w.free /\ v.last = w.last
      /\ v.barrier = w.barrier /\ v.deferred = w.deferred
      /\ v.total = w.total /\ v.code = w.code
  BY <1>1, <1>3, <1>4 DEF DeferStates
<1>6. more \in Nat /\ size = K[n].size + more
  <2> DEFINE s == K[n].size
  <2>1. s \in Nat /\ ~(s > size)
    BY <1>2, DeferNodeTyped
  <2> HIDE DEF s
  <2>2. size - s \in Nat /\ size = s + (size - s)
    BY <1>1, <2>1
  <2>3. QED
    BY <2>2 DEF s
<1> HIDE DEF more
<1>7. Enlarges(K, c, n, more, M)
  BY <1>1, <1>2, <1>3, <1>6 DEF Enlarges
<1>8. Preserves(M, c, K, c)
  BY <1>7, EnlargingPreserves
<1>9. \A m \in 1 .. Len(K) : M[m].usage = K[m].usage /\ M[m].into = K[m].into
  BY <1>3
<1>10. Links(M, c, NoChunk) /\ Unused(M, c) = Unused(K, c) /\ InUse(M, c) = InUse(K, c)
  <2>1. OtherSizes(K, M, c, NoChunk)
    BY <1>1, <1>3, <1>9 DEF OtherSizes
  <2>2. SameUse(K, M, c, NoChunk)
    BY <2>1, LinksSame
  <2>3. QED
    BY <2>2 DEF SameUse
<1>11. Listed(v, NoChunk)
  BY <1>1, <1>5, <1>10 DEF Listed
<1>12. \A m \in InUse(K, c) : m \in 1 .. Len(K)
  BY <1>2 DEF InUse
<1>13. QED
  BY <1>3, <1>5, <1>8, <1>10, <1>11, <1>12 DEF Resized, Alike

(* Of a chunk that is too large the rest becomes a free chunk.             *)
LEMMA SplitResizes ==
  ASSUME NEW w, NEW n, NEW size, Resizing(w, n, size), w.node[n].size > size,
         RightUsed(w.node, w.chain, n), NEW v,
         v = [Defer!Split(w, n, size) EXCEPT !.node[n].size = size]
  PROVE  Resized(v, w, n, size)
<1> DEFINE K == w.node
           c == w.chain
           r == Len(K) + 1
           left == K[n].size - size
           M == Append(K, Defer!MemNode(left, FALSE))
           k == Defer!Position(w, n)
           e == Defer!InsertAt(c, k + 1, r)
           cut == [w EXCEPT !.node  = Append(@, Defer!MemNode(w.node[n].size - size, FALSE)),
                            !.chain = Defer!InsertAt(@, Defer!Position(w, n) + 1, Len(w.node) + 1)]
           u == Defer!InsertFree(cut, r)
           P == [M EXCEPT ![n].size = size]
<1>1. v = [u EXCEPT !.node[n].size = size]
  BY DEF Defer!Split
<1>2. cut = [[w EXCEPT !.node = M] EXCEPT !.chain = e]
  OBVIOUS
<1> HIDE DEF cut, u
<1>3. /\ w \in DeferStates /\ Links(K, c, NoChunk) /\ n \in Members(c) /\ K[n].usage
      /\ size \in Nat /\ size > 0
      /\ Distinct(w.free) /\ Members(w.free) = Unused(K, c) \ {NoChunk}
  BY DEF Resizing, Listed, InUse
<1>4. K \in Seq(DeferNode) /\ Chained(c) /\ Members(c) \subseteq 1 .. Len(K) /\ n \in 1 .. Len(K)
      /\ Len(K) \in Nat /\ Len(c) \in Nat
  BY <1>3, LenProperties DEF Links, Chained
<1>5. left \in Nat /\ size < K[n].size
  <2> DEFINE s == K[n].size
  <2>1. s \in Nat /\ s > size
    BY <1>4, DeferNodeTyped
  <2> HIDE DEF s
  <2>2. s - size \in Nat /\ size < s
    BY <1>3, <2>1
  <2>3. QED
    BY <2>2 DEF s
<1> HIDE DEF left
<1>6. r \in Nat /\ r # NoChunk /\ r \notin Members(c) /\ r # n /\ n \in 1 .. r
  <2>1. r \in Nat /\ r # 0 /\ r \notin 1 .. Len(K) /\ r # n /\ n \in 1 .. r
    BY <1>4
  <2>2. QED
    BY <1>4, <2>1 DEF NoChunk, Defer!NoNode
<1>7. OneMore(K, left, FALSE, M)
  <2>1. OneMoring(K, left, FALSE, M)
    BY <1>4, <1>5 DEF OneMoring
  <2> HIDE DEF M
  <2>2. QED
    BY <2>1, AppendedNode DEF OneMoring
<1> HIDE DEF M
<1>8. k \in 1 .. Len(c) /\ n = At(c, k)
  <2> HIDE DEF k
  <2>1. k = Defer!Position(w, n)
    BY DEF k
  <2>2. QED
    BY <1>3, <1>4, <2>1, PlaceOf
<1> HIDE DEF k
<1>9. k + 1 \in 1 .. Len(c) + 1 /\ (k + 1) - 1 = k
  BY <1>4, <1>8
<1>10. Chained(e) /\ PutIn(e, c, k + 1, r) /\ Members(e) = Members(c) \cup {r}
  BY <1>4, <1>6, <1>9, ChainPutIn
<1> HIDE DEF e
<1>11. Lengthens(c, n, r, e)
  <2>1. LengtheningBy(c, k + 1, n, r, e)
    BY <1>4, <1>6, <1>8, <1>9, <1>10 DEF LengtheningBy
  <2>2. QED
    BY <2>1, PutInLengthens
<1>12. /\ M \in Seq(DeferNode) /\ Len(M) = r /\ M[r] = Defer!MemNode(left, FALSE)
       /\ \A m \in 1 .. Len(K) : M[m] = K[m]
  BY <1>7 DEF OneMore
<1>13. /\ P \in Seq(DeferNode) /\ Len(P) = r
       /\ P[n].size = size /\ P[n].usage = M[n].usage /\ P[n].into = M[n].into
       /\ \A m \in 1 .. r : m # n => P[m] = M[m]
  <2>1. n \in 1 .. Len(M) /\ size \in Nat /\ M \in Seq(DeferNode) /\ Len(M) = r
    BY <1>3, <1>6, <1>12
  <2>2. Sizing(M, n, size, P)
    BY <2>1 DEF Sizing
  <2> HIDE DEF P
  <2>3. Sized(M, n, size, P)
    BY <2>2, SizeNode
  <2>4. QED
    BY <2>1, <2>3 DEF Sized
<1>14. /\ cut \in DeferStates /\ cut.node = M /\ cut.chain = e /\ cut.free = w.free
       /\ cut.last = w.last /\ cut.barrier = w.barrier /\ cut.deferred = w.deferred
       /\ cut.total = w.total /\ cut.code = w.code
  <2>1. e \in Seq(Nat)
    BY <1>10 DEF Chained
  <2>2. QED
    BY <1>2, <1>3, <1>12, <2>1 DEF DeferStates
<1>15. r \notin Members(w.free)
  BY <1>3, <1>6 DEF Unused
<1>16. Freeing(u, cut, r)
  <2>1. u = Defer!InsertFree(cut, r)
    BY DEF u
  <2>2. QED
    BY <1>3, <1>6, <1>14, <1>15, <2>1 DEF Freeing
<1>17. /\ Alike(u, cut) /\ u.node = M /\ u.chain = e /\ u.last = w.last
       /\ Distinct(u.free) /\ Members(u.free) = Members(w.free) \cup {r}
  BY <1>14, <1>16, Freed
<1>18. v = [u EXCEPT !.node = P]
  BY <1>1, <1>17 DEF Alike, DeferStates
<1> HIDE DEF P
<1>19. /\ v \in DeferStates /\ v.node = P /\ v.chain = e /\ v.free = u.free /\ v.last = w.last
       /\ v.barrier = w.barrier /\ v.deferred = w.deferred
       /\ v.total = w.total /\ v.code = w.code
  BY <1>13, <1>14, <1>17, <1>18 DEF DeferStates, Alike
<1>20. \A m \in 1 .. Len(K) : m \in 1 .. r /\ m # r
  BY <1>4
<1>21. r \in 1 .. r
  BY <1>4
<1> DEFINE L == Len(K)
<1>22. r = L + 1 /\ left = K[n].size - size
  BY DEF left
<1>23. Splits(K, c, n, size, P, e)
  <2>1. Len(P) = Len(K) + 1 /\ P[Len(K) + 1] = Defer!MemNode(K[n].size - size, FALSE)
    BY <1>6, <1>12, <1>13, <1>21, <1>22
  <2>2. \A m \in 1 .. Len(K) : m # n => P[m] = K[m]
    BY <1>12, <1>13, <1>20
  <2>3. QED
    BY <1>3, <1>4, <1>5, <1>11, <1>13, <2>1, <2>2 DEF Splits
<1>24. /\ Links(P, e, NoChunk)
       /\ Unused(P, e) = Unused(K, c) \cup {r} /\ InUse(P, e) = InUse(K, c)
  <2>1. P[n].usage = K[n].usage /\ P[n].into = K[n].into
    BY <1>4, <1>12, <1>13
  <2>2. SplittingUsed(K, c, n, size, P, e, r)
    BY <1>3, <1>23, <2>1 DEF SplittingUsed
  <2>3. SplitUsed(K, c, P, e, r)
    BY <2>2, LinksSplit
  <2>4. QED
    BY <2>3 DEF SplitUsed
<1>25. Preserves(P, e, K, c)
  BY <1>23, SplittingPreserves
<1>26. Listed(v, NoChunk)
  <2>1. (Unused(K, c) \ {NoChunk}) \cup {r} = (Unused(K, c) \cup {r}) \ {NoChunk}
    BY <1>6
  <2>2. QED
    BY <1>3, <1>17, <1>19, <1>24, <2>1 DEF Listed
<1>27. \A m \in InUse(K, c) : m # n => P[m].size = K[m].size
  <2>1. \A m \in InUse(K, c) : m \in 1 .. Len(K)
    BY <1>4 DEF InUse
  <2>2. QED
    BY <1>12, <1>13, <1>20, <2>1
<1>28. QED
  BY <1>13, <1>19, <1>24, <1>25, <1>26, <1>27 DEF Resized, Alike

(* A free chunk is lent, with the size that was asked for.                 *)
LEMMA ReuseProvides ==
  ASSUME NEW d, NEW size, Providing(d, size), d.free # << >>, NEW v, v = Defer!Reuse(d, size)
  PROVE  Provides(v, d, v.last, size)
<1> DEFINE n == Defer!Selected(d, size)
           w == [Defer!EraseFree(d, n) EXCEPT !.node[n].usage = TRUE, !.last = n]
           cut == IF d.node[n].size > size THEN Defer!Split(w, n, size) ELSE w
           S == InUse(d.node, d.chain)
<1>1. v = [cut EXCEPT !.node[n].size = size]
  BY Zenon DEF Defer!Reuse
<1>2. Listed(d, NoChunk) /\ d.free \in Seq(Nat) /\ size \in Nat /\ size > 0
  BY DEF Providing, Listed, DeferStates
<1> HIDE DEF cut
<1>3. n \in Members(d.free)
  <2> HIDE DEF n
  <2>1. n = Defer!Selected(d, size)
    BY DEF n
  <2>2. QED
    BY <1>2, <2>1, SelectedFree
<1>4. /\ Provides(w, d, n, d.node[n].size) /\ RightUsed(w.node, w.chain, n)
  <2> HIDE DEF n
  <2>1. TakingFree(w, d, n)
    BY <1>2, <1>3 DEF TakingFree
  <2> HIDE DEF w
  <2>2. QED
    BY <2>1, TakenProvides
<1> HIDE DEF n, w
<1>5. /\ Listed(w, NoChunk) /\ Alike(w, d) /\ w.last = n
      /\ InUse(w.node, w.chain) = S \cup {n} /\ n \notin S
      /\ w.node[n].size = d.node[n].size
      /\ \A m \in S : w.node[m].size = d.node[m].size
      /\ Preserves(w.node, w.chain, d.node, d.chain)
  BY <1>4 DEF Provides
<1>6. Resizing(w, n, size)
  BY <1>2, <1>5 DEF Resizing
<1>7. Resized(v, w, n, size)
  <2>1. CASE d.node[n].size > size
    <3>1. v = [Defer!Split(w, n, size) EXCEPT !.node[n].size = size]
      BY <1>1, <2>1 DEF cut
    <3>2. QED
      BY <1>4, <1>5, <1>6, <2>1, <3>1, SplitResizes
  <2>2. CASE ~(d.node[n].size > size)
    <3>1. v = [w EXCEPT !.node[n].size = size]
      BY <1>1, <2>2 DEF cut
    <3>2. QED
      BY <1>5, <1>6, <2>2, <3>1, EnlargeResizes
  <2>3. QED
    BY <2>1, <2>2
<1> HIDE DEF S
<1>8. /\ Listed(v, NoChunk) /\ Alike(v, w) /\ v.last = n
      /\ InUse(v.node, v.chain) = S \cup {n}
      /\ v.node[n].size = size
      /\ \A m \in S \cup {n} : m # n => v.node[m].size = w.node[m].size
      /\ Preserves(v.node, v.chain, w.node, w.chain)
  BY <1>5, <1>7 DEF Resized
<1>9. Preserves(v.node, v.chain, d.node, d.chain)
  BY <1>5, <1>8, PreservesOn
<1>10. \A m \in S : v.node[m].size = d.node[m].size
  BY <1>5, <1>8
<1>11. Alike(v, d)
  BY <1>5, <1>8 DEF Alike
<1>12. QED
  BY <1>5, <1>8, <1>9, <1>10, <1>11 DEF Provides, S

(* A request lends a chunk that is large enough and was not in use.        *)
LEMMA AllocProvides ==
  ASSUME NEW d, Listed(d, NoChunk), NEW claim \in Nat, claim > 0, NEW separate, NEW v,
         v = Defer!Alloc(d, claim, separate)
  PROVE  /\ Provides(v, d, v.last, Defer!RoundUp(claim))
         /\ Defer!RoundUp(claim) \in Nat /\ claim <= Defer!RoundUp(claim)
<1> DEFINE size == Defer!RoundUp(claim)
           new == Len(d.node) + 1
<1>1. size \in Nat /\ claim <= size /\ size > 0
  <2>1. size = Eager!RoundUp(claim)
    BY DEF Defer!RoundUp, Eager!RoundUp
  <2> HIDE DEF size
  <2>2. size \in Nat /\ claim <= size
    BY <2>1, RoundUpBounds
  <2>3. QED
    BY <2>2
<1> HIDE DEF size
<1>2. v = IF d.free = << >> \/ separate
          THEN [d EXCEPT !.node  = Append(@, Defer!MemNode(size, TRUE)),
                         !.chain = Append(@, new),
                         !.last  = new]
          ELSE Defer!Reuse(d, size)
  BY DEF Defer!Alloc, size
<1>3. Providing(d, size)
  BY <1>1 DEF Providing
<1>4. CASE d.free = << >> \/ separate
  <2>1. Appending(v, d, size, new)
    BY <1>2, <1>3, <1>4 DEF Appending
  <2> HIDE DEF new
  <2>2. Provides(v, d, new, size)
    BY <2>1, AppendProvides
  <2>3. QED
    BY <1>1, <2>2 DEF Provides, size
<1>5. CASE ~(d.free = << >> \/ separate)
  <2>1. v = Defer!Reuse(d, size)
    BY <1>2, <1>5
  <2>2. QED
    BY <1>1, <1>3, <1>5, <2>1, ReuseProvides DEF size
<1>6. QED
  BY <1>4, <1>5

-----------------------------------------------------------------------------
(* The tensors of a resize, and the chunks they were given.                *)

(* The tensors that a request must stay clear of, and those whose chunks   *)
(* wait for the end of the barrier.                                        *)
Needed(ts) == {t \in DOMAIN ts : ts[t].live \/ ts[t].group # 0}

(* A chunk in use belongs to one live tensor, or its tensor gave it back   *)
(* inside of the barrier.                                                  *)
Held(d, ts) ==
  /\ \A t \in Needed(ts) : /\ ts[t].chunk \in InUse(d.node, d.chain)
                           /\ ts[t].size <= d.node[ts[t].chunk].size
  /\ \A t \in DOMAIN ts : ts[t].live => ts[t].chunk \notin Members(d.deferred)
  /\ \A t, u \in DOMAIN ts :
       ts[t].live /\ ts[u].live /\ ts[t].chunk = ts[u].chunk => t = u
  /\ Distinct(d.deferred) /\ Members(d.deferred) \subseteq InUse(d.node, d.chain)
  /\ \A n \in InUse(d.node, d.chain) : n \notin Members(d.deferred) =>
       \E t \in DOMAIN ts : ts[t].live /\ ts[t].chunk = n
  /\ ~d.barrier => d.deferred = <<>>

DeferPlan(d, ts, pairs) ==
  /\ Listed(d, NoChunk) /\ Held(d, ts)
  /\ Fitting(Len(d.node), ts, pairs) /\ Laid(d.node, d.chain, ts, pairs)

(* A tensor more.                                                          *)
Obtains(ws, ts, n, size) ==
  LET k == Len(ts) + 1
  IN  /\ Len(ts) \in Nat /\ DOMAIN ts = 1 .. Len(ts) /\ DOMAIN ws = 1 .. k
      /\ \A u \in 1 .. Len(ts) : ws[u] = ts[u]
      /\ ws[k].live /\ ws[k].chunk = n /\ ws[k].size = size
      /\ size \in Nat

(* The chunks of the chain in use lie apart, in the whole.                 *)
LEMMA LayInOrder ==
  ASSUME NEW N, NEW c, NEW A, NEW B, NEW R, NEW E, Lay(N, c, A, B, R, E),
         N \in Seq(DeferNode), Members(c) \subseteq 1 .. Len(N),
         NEW t, NEW u, t.chunk \in Members(c), u.chunk \in Members(c), t.chunk # u.chunk,
         t.size \in Nat, u.size \in Nat,
         t.size <= N[t.chunk].size, u.size <= N[u.chunk].size
  PROVE  /\ InOrder(A, B, t, u) \/ InOrder(A, B, u, t)
         /\ A[t.chunk] + t.size <= E
<1> DEFINE m == t.chunk
           n == u.chunk
           a == A[m]
           b == A[n]
           s == t.size
           r == u.size
           p == N[m].size
           q == N[n].size
<1>1. m \in 1 .. Len(N) /\ n \in 1 .. Len(N)
  OBVIOUS
<1>2. a \in Nat /\ b \in Nat /\ E \in Nat /\ p \in Nat /\ q \in Nat
  BY <1>1, DeferNodeTyped DEF Lay
<1>3. /\ a + p <= b \/ b + q <= a
      /\ a + p <= E /\ B[m] = a /\ B[n] = b
  BY DEF Lay
<1> HIDE DEF m, n, a, b, s, r, p, q
<1>4. s \in Nat /\ r \in Nat /\ s <= p /\ r <= q
  BY DEF m, n, s, r, p, q
<1>5. /\ a + s <= E
      /\ a + p <= b => a <= b /\ a + s <= b
      /\ b + q <= a => b <= a /\ b + r <= a
  <2>1. a + p <= E
    BY <1>3
  <2>2. QED
    BY ONLY <1>2, <1>4, <2>1
<1>6. QED
  BY <1>3, <1>5 DEF InOrder, m, n, a, b, s, r

(* The facts a request starts from.                                        *)
Obtaining(v, d, ws, ts, pairs, n, chunk) ==
  /\ DeferPlan(d, ts, pairs) /\ Provides(v, d, n, chunk) /\ chunk \in Nat
  /\ \E size \in Nat : size <= chunk /\ Obtains(ws, ts, n, size)

(* The new tensor holds the new chunk, the others hold theirs.             *)
LEMMA ObtainsHeld ==
  ASSUME NEW v, NEW d, NEW ws, NEW ts, NEW pairs, NEW n, NEW chunk,
         Obtaining(v, d, ws, ts, pairs, n, chunk)
  PROVE  Held(v, ws)
<1> DEFINE S == InUse(d.node, d.chain)
           T == InUse(v.node, v.chain)
           L == Len(ts)
           k == L + 1
<1>1. PICK size \in Nat : size <= chunk /\ Obtains(ws, ts, n, size)
  BY DEF Obtaining
<1>2. /\ L \in Nat /\ DOMAIN ts = 1 .. L /\ DOMAIN ws = 1 .. k
      /\ \A u \in 1 .. L : ws[u] = ts[u]
      /\ ws[k].live /\ ws[k].chunk = n /\ ws[k].size = size
  BY <1>1 DEF Obtains
<1>3. /\ T = S \cup {n} /\ n \notin S /\ v.node[n].size = chunk
      /\ \A m \in S : v.node[m].size = d.node[m].size
      /\ v.barrier = d.barrier /\ v.deferred = d.deferred
  BY DEF Obtaining, Provides, Alike
<1>4. /\ \A t \in Needed(ts) : ts[t].chunk \in S /\ ts[t].size <= d.node[ts[t].chunk].size
      /\ \A t \in DOMAIN ts : ts[t].live => ts[t].chunk \notin Members(d.deferred)
      /\ \A t, u \in DOMAIN ts :
           ts[t].live /\ ts[u].live /\ ts[t].chunk = ts[u].chunk => t = u
      /\ Distinct(d.deferred) /\ Members(d.deferred) \subseteq S
      /\ \A m \in S : m \notin Members(d.deferred) =>
           \E t \in DOMAIN ts : ts[t].live /\ ts[t].chunk = m
      /\ ~d.barrier => d.deferred = <<>>
  BY DEF Obtaining, DeferPlan, Held
<1> HIDE DEF S, T, L
<1>5. k \in Nat /\ \A u \in 1 .. k : u = k \/ (u \in 1 .. L /\ u # k)
  BY <1>2
<1>6. \A u \in 1 .. L : u \in 1 .. k /\ u # k
  BY <1>2
<1>7. k \in 1 .. k
  BY <1>2
<1> HIDE DEF k
<1>8. \A t \in DOMAIN ts : ts[t].live => ts[t].chunk \in S
  BY <1>4 DEF Needed
<1>9. ASSUME NEW t \in Needed(ws)
      PROVE  ws[t].chunk \in T /\ ws[t].size <= v.node[ws[t].chunk].size
  <2>1. t \in 1 .. k /\ (ws[t].live \/ ws[t].group # 0)
    BY <1>2 DEF Needed
  <2>2. CASE t = k
    BY <1>1, <1>2, <1>3, <2>2
  <2>3. CASE t # k
    <3>1. t \in DOMAIN ts /\ ws[t] = ts[t]
      BY <1>2, <1>5, <2>1, <2>3
    <3>2. t \in Needed(ts)
      BY <2>1, <3>1 DEF Needed
    <3>3. ts[t].chunk \in S /\ ts[t].size <= d.node[ts[t].chunk].size
      BY <1>4, <3>2
    <3>4. QED
      BY <1>3, <3>1, <3>3
  <2>4. QED
    BY <2>2, <2>3
<1>10. \A t \in DOMAIN ws : ws[t].live => ws[t].chunk \notin Members(v.deferred)
  <2>1. n \notin Members(d.deferred)
    BY <1>3, <1>4
  <2>2. QED
    BY <1>2, <1>3, <1>4, <1>5, <2>1
<1>11. ASSUME NEW t \in DOMAIN ws, NEW u \in DOMAIN ws, ws[t].live, ws[u].live,
              ws[t].chunk = ws[u].chunk
       PROVE  t = u
  <2>1. CASE t = k /\ u # k
    <3>1. u \in DOMAIN ts /\ ws[u] = ts[u]
      BY <1>2, <1>5, <2>1
    <3>2. ts[u].chunk \in S
      BY <1>8, <1>11, <3>1
    <3>3. QED
      BY <1>2, <1>3, <1>11, <2>1, <3>1, <3>2
  <2>2. CASE t # k /\ u = k
    <3>1. t \in DOMAIN ts /\ ws[t] = ts[t]
      BY <1>2, <1>5, <2>2
    <3>2. ts[t].chunk \in S
      BY <1>8, <1>11, <3>1
    <3>3. QED
      BY <1>2, <1>3, <1>11, <2>2, <3>1, <3>2
  <2>3. CASE t # k /\ u # k
    <3>1. t \in DOMAIN ts /\ u \in DOMAIN ts /\ ws[t] = ts[t] /\ ws[u] = ts[u]
      BY <1>2, <1>5, <2>3
    <3>2. QED
      BY <1>4, <1>11, <3>1
  <2>4. QED
    BY <2>1, <2>2, <2>3
<1>12. ASSUME NEW m \in T, m \notin Members(v.deferred)
       PROVE  \E t \in DOMAIN ws : ws[t].live /\ ws[t].chunk = m
  <2>1. CASE m = n
    BY <1>2, <1>7, <2>1
  <2>2. CASE m # n
    <3>1. PICK t \in DOMAIN ts : ts[t].live /\ ts[t].chunk = m
      BY <1>3, <1>4, <1>12, <2>2
    <3>2. t \in DOMAIN ws /\ ws[t] = ts[t]
      BY <1>2, <1>6, <3>1
    <3>3. QED
      BY <3>1, <3>2
  <2>3. QED
    BY <2>1, <2>2
<1>13. Members(v.deferred) \subseteq T
  BY <1>3, <1>4
<1>14. QED
  BY <1>3, <1>4, <1>9, <1>10, <1>11, <1>12, <1>13 DEF Held, T

(* Where nothing met, the new tensor meets nothing either that is needed.  *)
LEMMA ObtainsPlan ==
  ASSUME NEW v, NEW d, NEW ws, NEW ts, NEW pairs, NEW n, NEW chunk,
         Obtaining(v, d, ws, ts, pairs, n, chunk),
         NEW others, others \subseteq Needed(ts)
  PROVE  DeferPlan(v, ws, pairs \cup (others \X {Len(ts) + 1}))
<1> DEFINE N == d.node
           M == v.node
           c == v.chain
           S == InUse(d.node, d.chain)
           T == InUse(v.node, v.chain)
           L == Len(ts)
           k == L + 1
           more == pairs \cup (others \X {k})
<1>1. PICK size \in Nat : size <= chunk /\ Obtains(ws, ts, n, size)
  BY DEF Obtaining
<1>2. /\ L \in Nat /\ DOMAIN ts = 1 .. L /\ DOMAIN ws = 1 .. k
      /\ \A u \in 1 .. L : ws[u] = ts[u]
      /\ ws[k].live /\ ws[k].chunk = n /\ ws[k].size = size
  BY <1>1 DEF Obtains
<1>3. /\ Listed(v, NoChunk) /\ T = S \cup {n} /\ n \notin S /\ M[n].size = chunk
      /\ \A m \in S : M[m].size = N[m].size
      /\ Preserves(M, c, N, d.chain) /\ chunk \in Nat
  BY DEF Obtaining, Provides
<1>4. /\ \A t \in Needed(ts) : ts[t].chunk \in S /\ ts[t].size <= N[ts[t].chunk].size
      /\ Fitting(Len(N), ts, pairs) /\ Laid(N, d.chain, ts, pairs)
  BY DEF Obtaining, DeferPlan, Held
<1>5. M \in Seq(DeferNode) /\ Members(c) \subseteq 1 .. Len(M)
  BY <1>3 DEF Listed, Links
<1>6. T \subseteq Members(c)
  BY DEF InUse
<1>7. n \in Members(c) /\ n \in 1 .. Len(M)
  BY <1>3, <1>5, <1>6
<1>8. Len(N) \in Nat /\ Len(M) \in Nat /\ Len(N) <= Len(M) /\ Laid(M, c, ts, pairs)
  BY <1>3, <1>4 DEF Preserves
<1> DEFINE i == Len(N)
           j == Len(M)
<1>9. /\ \A t \in DOMAIN ts : ts[t].chunk \in 1 .. i /\ ts[t].size \in Nat
      /\ pairs \subseteq (DOMAIN ts) \X (DOMAIN ts)
  BY <1>4 DEF Fitting
<1> HIDE DEF i, j, L, S, T, N, M, c
<1>10. \A m \in 1 .. i : m \in 1 .. j
  BY <1>8 DEF i, j
<1>11. /\ k \in 1 .. k /\ \A u \in 1 .. L : u \in 1 .. k /\ u # k
       /\ \A u \in 1 .. k : u = k \/ u \in 1 .. L
  BY <1>2
<1> HIDE DEF k
<1>12. others \subseteq 1 .. L
  BY <1>2 DEF Needed
<1>13. more \subseteq (DOMAIN ws) \X (DOMAIN ws)
  BY <1>2, <1>9, <1>11, <1>12
<1>14. \A t \in DOMAIN ws : ws[t].chunk \in 1 .. j /\ ws[t].size \in Nat
  BY <1>1, <1>2, <1>7, <1>9, <1>10, <1>11 DEF j
<1>15. Fitting(j, ws, more)
  BY <1>8, <1>13, <1>14 DEF Fitting, j
<1>16. PICK A, B, R, E : Lay(M, c, A, B, R, E) /\ Tied(A, B, E, ts, pairs)
  BY <1>8 DEF Laid
<1>17. ASSUME NEW t \in others
       PROVE  InOrder(A, B, ws[t], ws[k]) \/ InOrder(A, B, ws[k], ws[t])
  <2>1. t \in 1 .. L /\ ws[t] = ts[t] /\ ts[t].chunk \in S /\ ts[t].size <= N[ts[t].chunk].size
    BY <1>2, <1>4, <1>12
  <2>2. /\ ws[t].chunk \in Members(c) /\ ws[k].chunk \in Members(c) /\ ws[t].chunk # ws[k].chunk
        /\ ws[t].size \in Nat /\ ws[k].size \in Nat
    BY <1>2, <1>3, <1>6, <1>7, <1>9, <2>1
  <2>3. ws[t].size <= M[ws[t].chunk].size /\ ws[k].size <= M[ws[k].chunk].size
    BY <1>1, <1>2, <1>3, <2>1
  <2>4. QED
    BY <1>5, <1>16, <2>2, <2>3, LayInOrder
<1>18. A[ws[k].chunk] + ws[k].size <= E
  <2> DEFINE a == A[n]
             q == M[n].size
  <2>1. a \in Nat /\ E \in Nat /\ a + q <= E
    BY <1>7, <1>16 DEF Lay
  <2>2. q = chunk /\ chunk \in Nat /\ size \in Nat /\ size <= chunk
    BY <1>1, <1>3
  <2> HIDE DEF a, q
  <2>3. a + size <= E
    BY ONLY <2>1, <2>2
  <2>4. QED
    BY <1>2, <2>3 DEF a
<1>19. \A t \in DOMAIN ws : A[ws[t].chunk] + ws[t].size <= E
  BY <1>2, <1>11, <1>16, <1>18 DEF Tied
<1>20. ASSUME NEW p \in more
       PROVE  InOrder(A, B, ws[p[1]], ws[p[2]]) \/ InOrder(A, B, ws[p[2]], ws[p[1]])
  <2>1. CASE p \in pairs
    <3>1. p[1] \in DOMAIN ts /\ p[2] \in DOMAIN ts
      BY <1>9, <2>1
    <3>2. ws[p[1]] = ts[p[1]] /\ ws[p[2]] = ts[p[2]]
      BY <1>2, <3>1
    <3>3. InOrder(A, B, ts[p[1]], ts[p[2]]) \/ InOrder(A, B, ts[p[2]], ts[p[1]])
      BY <1>16, <2>1 DEF Tied
    <3>4. QED
      BY <3>2, <3>3
  <2>2. CASE p \in others \X {k}
    BY <1>17, <2>2
  <2>3. QED
    BY <2>1, <2>2
<1>21. Laid(M, c, ws, more)
  BY <1>16, <1>19, <1>20 DEF Laid, Tied
<1>22. Held(v, ws)
  BY ObtainsHeld
<1>23. QED
  BY <1>3, <1>15, <1>21, <1>22 DEF DeferPlan, M, c, j, k, L

(* Where tensors are does not depend on what else changes about them.      *)
Keeping(N, c, ts, pairs, ws) ==
  Changed(ws, ts) /\ Fitting(Len(N), ts, pairs) /\ Laid(N, c, ts, pairs)

(* So a plan stays one.                                                    *)
LEMMA ChangedLaid ==
  ASSUME NEW N, NEW c, NEW ts, NEW pairs, NEW ws, Keeping(N, c, ts, pairs, ws)
  PROVE  Fitting(Len(N), ws, pairs) /\ Laid(N, c, ws, pairs)
<1>1. /\ DOMAIN ws = DOMAIN ts
      /\ \A t \in DOMAIN ts : ws[t].chunk = ts[t].chunk /\ ws[t].size = ts[t].size
  BY DEF Keeping, Changed, Moved
<1>2. Fitting(Len(N), ts, pairs)
  BY DEF Keeping
<1>3. pairs \subseteq (DOMAIN ts) \X (DOMAIN ts)
  BY <1>2 DEF Fitting
<1>4. Fitting(Len(N), ws, pairs)
  BY <1>1, <1>2 DEF Fitting
<1>5. PICK A, B, R, E : Lay(N, c, A, B, R, E) /\ Tied(A, B, E, ts, pairs)
  BY DEF Keeping, Laid
<1>6. ASSUME NEW p \in pairs
      PROVE  InOrder(A, B, ws[p[1]], ws[p[2]]) \/ InOrder(A, B, ws[p[2]], ws[p[1]])
  <2>1. p[1] \in DOMAIN ts /\ p[2] \in DOMAIN ts
    BY <1>3
  <2>2. InOrder(A, B, ts[p[1]], ts[p[2]]) \/ InOrder(A, B, ts[p[2]], ts[p[1]])
    BY <1>5 DEF Tied
  <2>3. QED
    BY <1>1, <2>1, <2>2 DEF InOrder
<1>7. \A t \in DOMAIN ws : A[ws[t].chunk] + ws[t].size <= E
  BY <1>1, <1>5 DEF Tied
<1>8. Tied(A, B, E, ws, pairs)
  BY <1>6, <1>7 DEF Tied
<1>9. QED
  BY <1>4, <1>5, <1>8 DEF Laid

Returning(v, d, ws, ts, pairs, t) ==
  /\ DeferPlan(d, ts, pairs) /\ t \in DOMAIN ts /\ ts[t].live /\ Dies(ws, ts, t)
  /\ v = Defer!Free(d, ts[t].chunk)
  /\ ~d.barrier => \A u \in DOMAIN ts : ts[u].group = 0

Stable(v, d) == v.barrier = d.barrier /\ v.total = d.total /\ v.code = d.code

(* A chunk is given back inside a barrier: it waits.                       *)
LEMMA ReturnWaits ==
  ASSUME NEW v, NEW d, NEW ws, NEW ts, NEW pairs, NEW t, Returning(v, d, ws, ts, pairs, t),
         d.barrier
  PROVE  DeferPlan(v, ws, pairs) /\ Stable(v, d)
<1> DEFINE n == ts[t].chunk
           S == InUse(d.node, d.chain)
           s == d.deferred
<1>1. /\ Listed(d, NoChunk) /\ Held(d, ts) /\ v = [d EXCEPT !.deferred = Append(s, n)]
      /\ t \in DOMAIN ts /\ ts[t].live
      /\ DOMAIN ws = DOMAIN ts
      /\ \A u \in DOMAIN ts : ws[u].chunk = ts[u].chunk /\ ws[u].size = ts[u].size
      /\ \A u \in DOMAIN ts : ws[u].group = ts[u].group
      /\ \A u \in DOMAIN ts : ws[u].live <=> (ts[u].live /\ u # t)
  BY DEF Returning, DeferPlan, Dies, Changed, Moved, Defer!Free
<1>2. /\ \A u \in Needed(ts) : ts[u].chunk \in S /\ ts[u].size <= d.node[ts[u].chunk].size
      /\ \A u \in DOMAIN ts : ts[u].live => ts[u].chunk \notin Members(s)
      /\ \A u, w \in DOMAIN ts :
           ts[u].live /\ ts[w].live /\ ts[u].chunk = ts[w].chunk => u = w
      /\ Distinct(s) /\ Members(s) \subseteq S
      /\ \A m \in S : m \notin Members(s) => \E u \in DOMAIN ts : ts[u].live /\ ts[u].chunk = m
  BY <1>1 DEF Held
<1>3. t \in Needed(ts) /\ Needed(ws) \subseteq Needed(ts)
  BY <1>1 DEF Needed
<1>4. n \in S /\ n \notin Members(s)
  BY <1>1, <1>2, <1>3
<1>5. s \in Seq(Nat) /\ S \subseteq Nat
  <2>1. d.chain \in Seq(Nat)
    BY <1>1 DEF Listed, DeferStates
  <2>2. Members(d.chain) \subseteq Nat
    BY <2>1, ElementOfSeq, LenProperties DEF Members
  <2>3. QED
    BY <1>1, <2>2 DEF InUse, Listed, DeferStates
<1> DEFINE r == Append(s, n)
<1>6. r \in Seq(Nat) /\ Distinct(r) /\ Members(r) = Members(s) \cup {n}
  <2> DEFINE k == Len(s)
  <2>1. k \in Nat /\ DOMAIN s = 1 .. k /\ r \in Seq(Nat) /\ Len(r) = k + 1 /\ r[k + 1] = n
        /\ \A i \in 1 .. k : r[i] = s[i]
    BY <1>4, <1>5, LenProperties, AppendProperties
  <2>2. DOMAIN r = 1 .. k + 1
    BY <2>1, LenProperties
  <2> HIDE DEF r, k, n
  <2>3. \A i \in 1 .. k + 1 : i = k + 1 \/ (i \in 1 .. k)
    BY <2>1
  <2>4. \A i \in 1 .. k : i \in 1 .. k + 1 /\ s[i] # n
    BY <1>4, <2>1 DEF Members
  <2>5. k + 1 \in 1 .. k + 1
    BY <2>1
  <2>6. \A i, j \in 1 .. k : s[i] = s[j] => i = j
    BY <1>2, <2>1 DEF Distinct
  <2>7. Distinct(r)
    BY <2>1, <2>2, <2>3, <2>4, <2>6 DEF Distinct
  <2>8. Members(r) \subseteq Members(s) \cup {n}
    BY <2>1, <2>2, <2>3 DEF Members
  <2>9. Members(s) \cup {n} \subseteq Members(r)
    BY <2>1, <2>2, <2>4, <2>5 DEF Members
  <2>10. QED
    BY <2>1, <2>7, <2>8, <2>9
<1> HIDE DEF r
<1>7. /\ v \in DeferStates /\ v.node = d.node /\ v.chain = d.chain /\ v.free = d.free
      /\ v.deferred = r /\ v.barrier = d.barrier /\ v.total = d.total /\ v.code = d.code
  <2>1. d \in DeferStates /\ v = [d EXCEPT !.deferred = r]
    BY <1>1 DEF Listed, r
  <2>2. QED
    BY ONLY <1>5, <1>6, <2>1 DEF DeferStates
<1>8. Listed(v, NoChunk)
  BY <1>1, <1>7 DEF Listed
<1> HIDE DEF n, s, S
<1>9. Held(v, ws)
  <2>1. \A u \in Needed(ws) : ws[u].chunk \in S /\ ws[u].size <= d.node[ws[u].chunk].size
    BY <1>1, <1>2, <1>3 DEF Needed
  <2>2. \A u \in DOMAIN ws : ws[u].live => ws[u].chunk \notin Members(r)
    BY <1>1, <1>2, <1>6 DEF n
  <2>3. \A u, w \in DOMAIN ws :
          ws[u].live /\ ws[w].live /\ ws[u].chunk = ws[w].chunk => u = w
    BY <1>1, <1>2
  <2>4. Members(r) \subseteq S
    BY <1>2, <1>4, <1>6
  <2>5. \A m \in S : m \notin Members(r) => \E u \in DOMAIN ws : ws[u].live /\ ws[u].chunk = m
    BY <1>1, <1>2, <1>6 DEF n
  <2>6. QED
    BY <1>6, <1>7, <2>1, <2>2, <2>3, <2>4, <2>5 DEF Held, S
<1>10. Fitting(Len(d.node), ws, pairs) /\ Laid(d.node, d.chain, ws, pairs)
  <2>1. Keeping(d.node, d.chain, ts, pairs, ws)
    BY DEF Returning, DeferPlan, Dies, Keeping
  <2>2. QED
    BY <2>1, ChangedLaid
<1>11. QED
  BY <1>7, <1>8, <1>9, <1>10 DEF DeferPlan, Stable

(* What is in use loses chunk n, which no tensor has any more.             *)
Loosens(v, d, ws, ts, n) ==
  /\ FusedBack(v, d, n) /\ n \in InUse(d.node, d.chain)
  /\ Changed(ws, ts)
  /\ \A u \in DOMAIN ts : ws[u].group = 0
  /\ \A u \in DOMAIN ts : ws[u].live <=> (ts[u].live /\ ts[u].chunk # n)

(* Then the others hold what they held.                                    *)
LEMMA LoosensPlan ==
  ASSUME NEW v, NEW d, NEW ws, NEW ts, NEW pairs, NEW n, DeferPlan(d, ts, pairs),
         Loosens(v, d, ws, ts, n), d.deferred = <<>>
  PROVE  DeferPlan(v, ws, pairs) /\ Stable(v, d) /\ v.deferred = d.deferred
<1> DEFINE S == InUse(d.node, d.chain)
           T == InUse(v.node, v.chain)
<1>1. /\ Listed(v, NoChunk) /\ T = S \ {n} /\ n \in S
      /\ Alike(v, d) /\ Len(v.node) = Len(d.node)
      /\ \A m \in S \ {n} : v.node[m].size = d.node[m].size
      /\ Preserves(v.node, v.chain, d.node, d.chain)
      /\ DOMAIN ws = DOMAIN ts
      /\ \A u \in DOMAIN ts : ws[u].chunk = ts[u].chunk /\ ws[u].size = ts[u].size
      /\ \A u \in DOMAIN ts : ws[u].group = 0
      /\ \A u \in DOMAIN ts : ws[u].live <=> (ts[u].live /\ ts[u].chunk # n)
  BY DEF Loosens, FusedBack, Spares, Changed, Moved
<1>2. /\ \A u \in Needed(ts) : ts[u].chunk \in S /\ ts[u].size <= d.node[ts[u].chunk].size
      /\ \A u, w \in DOMAIN ts :
           ts[u].live /\ ts[w].live /\ ts[u].chunk = ts[w].chunk => u = w
      /\ \A m \in S : m \notin Members(d.deferred) =>
           \E u \in DOMAIN ts : ts[u].live /\ ts[u].chunk = m
      /\ Fitting(Len(d.node), ts, pairs) /\ Laid(d.node, d.chain, ts, pairs)
  BY DEF DeferPlan, Held
<1>3. v.deferred = <<>> /\ Members(v.deferred) = {} /\ Members(d.deferred) = {}
      /\ Distinct(v.deferred)
  BY <1>1 DEF Alike, Members, Distinct
<1> HIDE DEF S, T
<1>4. \A u \in Needed(ws) : u \in Needed(ts) /\ ts[u].chunk # n
  BY <1>1 DEF Needed
<1>5. Held(v, ws)
  <2>1. \A u \in Needed(ws) : ws[u].chunk \in T /\ ws[u].size <= v.node[ws[u].chunk].size
    <3>1. ASSUME NEW u \in Needed(ws)
          PROVE  ws[u].chunk \in T /\ ws[u].size <= v.node[ws[u].chunk].size
      <4>1. u \in DOMAIN ts /\ u \in Needed(ts) /\ ts[u].chunk # n
        BY <1>4 DEF Needed
      <4>2. ts[u].chunk \in S /\ ts[u].size <= d.node[ts[u].chunk].size
        BY <1>2, <4>1
      <4>3. QED
        BY <1>1, <4>1, <4>2
    <3>2. QED
      BY <3>1
  <2>2. \A u, w \in DOMAIN ws :
          ws[u].live /\ ws[w].live /\ ws[u].chunk = ws[w].chunk => u = w
    BY <1>1, <1>2
  <2>3. ASSUME NEW m \in T
        PROVE  \E u \in DOMAIN ws : ws[u].live /\ ws[u].chunk = m
    <3>1. m \in S /\ m # n
      BY <1>1
    <3>2. PICK u \in DOMAIN ts : ts[u].live /\ ts[u].chunk = m
      BY <1>2, <1>3, <3>1
    <3>3. QED
      BY <1>1, <3>1, <3>2
  <2>4. QED
    BY <1>3, <2>1, <2>2, <2>3 DEF Held, T
<1>6. Fitting(Len(v.node), ws, pairs) /\ Laid(v.node, v.chain, ws, pairs)
  <2>1. Laid(v.node, v.chain, ts, pairs)
    BY <1>1, <1>2 DEF Preserves
  <2>2. Keeping(v.node, v.chain, ts, pairs, ws)
    BY <1>1, <1>2, <2>1 DEF Keeping, Loosens
  <2>3. QED
    BY <2>2, ChangedLaid
<1>7. QED
  BY <1>1, <1>3, <1>5, <1>6 DEF DeferPlan, Stable, Alike

(* A chunk is given back outside of a barrier.                             *)
LEMMA ReturnFuses ==
  ASSUME NEW v, NEW d, NEW ws, NEW ts, NEW pairs, NEW t, Returning(v, d, ws, ts, pairs, t),
         ~d.barrier
  PROVE  DeferPlan(v, ws, pairs) /\ Stable(v, d)
<1> DEFINE n == ts[t].chunk
           S == InUse(d.node, d.chain)
<1>1. /\ DeferPlan(d, ts, pairs) /\ Listed(d, NoChunk) /\ Held(d, ts) /\ v = Defer!Fuse(d, n)
      /\ t \in DOMAIN ts /\ ts[t].live
      /\ Changed(ws, ts)
      /\ \A u \in DOMAIN ts : ts[u].group = 0 /\ ws[u].group = ts[u].group
      /\ \A u \in DOMAIN ts : ws[u].live <=> (ts[u].live /\ u # t)
  BY DEF Returning, DeferPlan, Dies, Defer!Free
<1>2. /\ \A u \in Needed(ts) : ts[u].chunk \in S
      /\ \A u, w \in DOMAIN ts :
           ts[u].live /\ ts[w].live /\ ts[u].chunk = ts[w].chunk => u = w
      /\ d.deferred = <<>>
  BY <1>1 DEF Held
<1>3. n \in S
  BY <1>1, <1>2 DEF Needed
<1>4. FusedBack(v, d, n)
  BY <1>1, <1>3, FuseListed
<1>5. \A u \in DOMAIN ts : ws[u].live <=> (ts[u].live /\ ts[u].chunk # n)
  BY <1>1, <1>2
<1>6. Loosens(v, d, ws, ts, n)
  BY <1>1, <1>3, <1>4, <1>5 DEF Loosens
<1> HIDE DEF n
<1>7. QED
  BY <1>1, <1>2, <1>6, LoosensPlan

(* What is left of the chain in use once the chunks of S came back.        *)
Remains(v, d, S) ==
  /\ Listed(v, NoChunk)
  /\ InUse(v.node, v.chain) = InUse(d.node, d.chain) \ S
  /\ Spares(v, d, InUse(d.node, d.chain) \ S)

(* One chunk after the other comes back.                                   *)
LEMMA RemainsNext ==
  ASSUME NEW w, NEW v, NEW d, NEW S, NEW n, Remains(v, d, S),
         n \in InUse(d.node, d.chain), n \notin S, w = Defer!Fuse(v, n)
  PROVE  Remains(w, d, S \cup {n})
<1> DEFINE U == InUse(d.node, d.chain)
<1>1. /\ Listed(v, NoChunk) /\ InUse(v.node, v.chain) = U \ S /\ Spares(v, d, U \ S)
      /\ n \in InUse(v.node, v.chain)
  BY DEF Remains
<1>2. FusedBack(w, v, n)
  BY <1>1, FuseListed
<1>3. (U \ S) \ {n} = U \ (S \cup {n})
  OBVIOUS
<1>4. /\ Listed(w, NoChunk) /\ InUse(w.node, w.chain) = U \ (S \cup {n})
      /\ Spares(w, v, U \ (S \cup {n}))
  BY <1>1, <1>2, <1>3 DEF FusedBack
<1> HIDE DEF U
<1>5. Spares(v, d, U \ (S \cup {n}))
  BY <1>1 DEF Spares
<1>6. Spares(w, d, U \ (S \cup {n}))
  BY <1>4, <1>5, SparesOn
<1>7. QED
  BY <1>4, <1>6 DEF Remains, U

(* At first all of it is left.                                             *)
LEMMA RemainsAll ==
  ASSUME NEW d, Listed(d, NoChunk)
  PROVE  Remains(d, d, {})
<1> DEFINE U == InUse(d.node, d.chain)
<1>1. U \ {} = U
  OBVIOUS
<1>2. Alike(d, d)
  BY DEF Listed, Alike
<1>3. Len(d.node) \in Nat
  BY LenProperties DEF Listed, Links
<1>4. Preserves(d.node, d.chain, d.node, d.chain)
  BY <1>3 DEF Preserves
<1>5. Spares(d, d, U)
  BY <1>2, <1>4 DEF Spares
<1>6. QED
  BY <1>1, <1>5 DEF Remains

(* All chunks of a list come back, one after the other.                    *)
LEMMA RemainsLast ==
  ASSUME NEW d, Listed(d, NoChunk), ~d.barrier,
         NEW s \in Seq(Nat), Distinct(s), Members(s) \subseteq InUse(d.node, d.chain),
         NEW final,
         final = LET back[k \in 0 .. Len(s)] ==
                       IF k = 0 THEN d ELSE Defer!Free(back[k - 1], s[k])
                 IN  back[Len(s)]
  PROVE  Remains(final, d, Members(s))
<1> DEFINE K == Len(s)
           V == DeferStates
           from == Before(K)
           on(v, k) == Defer!Free(v, s[k])
           step == [p \in (1 .. K) \X V |-> on(p[2], p[1])]
           Fine(k, v) == Remains(v, d, Upto(s, k))
           fine == {p \in (0 .. K) \X V : Fine(p[1], p[2])}
           Is(f) == f = [k \in 0 .. K |-> IF k = 0 THEN d ELSE on(f[k - 1], k)]
           back == CHOOSE f : Is(f)
<1>1. K \in Nat /\ DOMAIN s = 1 .. K
  BY LenProperties
<1>2. Descends(from, K) /\ \A n \in 1 .. K : from[n] = n - 1
  BY <1>1, BeforeDescends
<1>3. final = back[K]
  OBVIOUS
<1>4. ASSUME NEW k \in 1 .. K, NEW v, Fine(k - 1, v)
      PROVE  Fine(k, on(v, k)) /\ on(v, k) \in V
  <2>1. /\ Upto(s, k) = Upto(s, k - 1) \cup {s[k]}
        /\ s[k] \notin Upto(s, k - 1) /\ s[k] \in Members(s)
    BY UptoNext
  <2>2. ~v.barrier
    BY <1>4 DEF Remains, Spares, Alike
  <2>3. on(v, k) = Defer!Fuse(v, s[k])
    BY <2>2 DEF Defer!Free
  <2>4. s[k] \in InUse(d.node, d.chain)
    BY <2>1
  <2> DEFINE w == on(v, k)
             n == s[k]
             S == Upto(s, k - 1)
  <2> HIDE DEF w, n, S
  <2>5. /\ Remains(v, d, S) /\ n \in InUse(d.node, d.chain) /\ n \notin S
        /\ w = Defer!Fuse(v, n)
    BY <1>4, <2>1, <2>3, <2>4 DEF S, n, w
  <2>6. Remains(w, d, S \cup {n})
    BY ONLY <2>5, RemainsNext
  <2>7. w \in V
    BY <2>6 DEF Remains, Listed
  <2>8. QED
    BY <2>1, <2>6, <2>7 DEF w, n, S
<1>5. Fine(0, d) /\ d \in V
  <2>1. Upto(s, 0) = {}
    BY DEF Upto
  <2>2. QED
    BY <2>1, RemainsAll DEF Listed
<1> HIDE DEF K, V, from, on, Fine
<1>6. ASSUME NEW k \in 1 .. K, NEW v, << from[k], v >> \in fine
      PROVE  step[<< k, v >>] = on(v, k) /\ << k, on(v, k) >> \in fine
  <2>1. from[k] = k - 1
    BY <1>2
  <2>2. v \in V /\ << k, v >> \in (1 .. K) \X V /\ Fine(k - 1, v)
    BY <1>6, <2>1
  <2>3. on(v, k) \in V /\ Fine(k, on(v, k)) /\ k \in 0 .. K
    BY <1>1, <1>4, <2>2
  <2>4. QED
    BY <2>2, <2>3
<1>7. << 0, d >> \in fine
  BY <1>1, <1>5
<1> HIDE DEF step
<1>8. Builds(step, fine, from, K)
  BY <1>6 DEF Builds
<1>9. PICK g : Solves(g, K, d, step, fine, from)
  <2> HIDE DEF fine
  <2>1. QED
    BY <1>1, <1>2, <1>7, <1>8, Recursion
<1>10. ASSUME NEW k \in 1 .. K
       PROVE  g[k] = on(g[k - 1], k)
  <2>1. k - 1 \in 0 .. K /\ from[k] = k - 1
    BY <1>1, <1>2
  <2>2. << k - 1, g[k - 1] >> \in fine /\ g[k] = step[<< k, g[k - 1] >>]
    BY <1>9, <2>1 DEF Solves
  <2>3. QED
    BY <1>6, <2>1, <2>2
<1>11. Is(g)
  <2>1. g = [k \in 0 .. K |-> g[k]] /\ g[0] = d
    BY <1>9 DEF Solves
  <2>2. ASSUME NEW k \in 0 .. K
        PROVE  g[k] = IF k = 0 THEN d ELSE on(g[k - 1], k)
    <3>1. k = 0 \/ k \in 1 .. K
      BY <1>1
    <3>2. QED
      BY <1>1, <1>10, <2>1, <3>1
  <2>3. QED
    BY <2>1, <2>2
<1>12. Is(back)
  BY <1>11
<1>13. ASSUME NEW k \in 0 .. K
       PROVE  back[k] = IF k = 0 THEN d ELSE on(back[k - 1], k)
  <2> HIDE DEF back
  <2>1. QED
    BY <1>12
<1> HIDE DEF back, Is
<1>14. back[0] = d /\ \A k \in 1 .. K : back[k] = on(back[k - 1], k)
  <2>1. 0 \in 0 .. K /\ \A k \in 1 .. K : k \in 0 .. K /\ k # 0
    BY <1>1
  <2>2. QED
    BY <1>13, <2>1
<1> DEFINE good == {k \in 0 .. K : Fine(k, back[k])}
<1>15. 0 \in good
  BY <1>1, <1>5, <1>14
<1>16. ASSUME NEW k \in 1 .. K, from[k] \in good
       PROVE  k \in good
  <2>1. Fine(k - 1, back[k - 1])
    BY <1>2, <1>16
  <2>2. k \in 0 .. K
    BY <1>1
  <2>3. QED
    BY <1>4, <1>14, <2>1, <2>2
<1> HIDE DEF good
<1>17. Inherited(good, from, K)
  BY <1>15, <1>16 DEF Inherited
<1>18. \A k \in 0 .. K : k \in good
  BY <1>1, <1>2, <1>17, Induction
<1>19. Fine(K, back[K])
  BY <1>1, <1>18 DEF good
<1>20. Upto(s, K) = Members(s)
  BY <1>1 DEF Upto, Members
<1>21. QED
  BY <1>3, <1>19, <1>20 DEF Fine

Ending(v, d, ws, ts, pairs) ==
  /\ DeferPlan(d, ts, pairs) /\ v = Defer!BarrierEnd(d)
  /\ Changed(ws, ts)
  /\ \A u \in DOMAIN ts : ws[u].group = 0 /\ ws[u].live = ts[u].live

(* At the end of the barrier the chunks that waited come back.             *)
LEMMA EndingPlan ==
  ASSUME NEW v, NEW d, NEW ws, NEW ts, NEW pairs, Ending(v, d, ws, ts, pairs)
  PROVE  DeferPlan(v, ws, pairs) /\ v.barrier = FALSE /\ v.total = d.total /\ v.code = d.code
<1> DEFINE open == [d EXCEPT !.barrier = FALSE, !.deferred = <<>>]
           s == d.deferred
           S == InUse(d.node, d.chain)
<1>1. /\ Listed(d, NoChunk) /\ Held(d, ts)
      /\ Fitting(Len(d.node), ts, pairs) /\ Laid(d.node, d.chain, ts, pairs)
      /\ DOMAIN ws = DOMAIN ts
      /\ \A u \in DOMAIN ts : ws[u].chunk = ts[u].chunk /\ ws[u].size = ts[u].size
      /\ \A u \in DOMAIN ts : ws[u].group = 0 /\ ws[u].live = ts[u].live
  BY DEF Ending, DeferPlan, Changed, Moved
<1>2. /\ \A u \in Needed(ts) : ts[u].chunk \in S /\ ts[u].size <= d.node[ts[u].chunk].size
      /\ \A u \in DOMAIN ts : ts[u].live => ts[u].chunk \notin Members(s)
      /\ \A u, w \in DOMAIN ts :
           ts[u].live /\ ts[w].live /\ ts[u].chunk = ts[w].chunk => u = w
      /\ Distinct(s) /\ Members(s) \subseteq S
      /\ \A m \in S : m \notin Members(s) => \E u \in DOMAIN ts : ts[u].live /\ ts[u].chunk = m
  BY <1>1 DEF Held
<1>3. /\ open \in DeferStates /\ open.node = d.node /\ open.chain = d.chain
      /\ open.free = d.free /\ open.barrier = FALSE /\ open.deferred = <<>>
      /\ open.total = d.total /\ open.code = d.code
      /\ s \in Seq(Nat)
  <2> DEFINE one == [d EXCEPT !.barrier = FALSE]
             none == <<>>
  <2>1. d \in DeferStates /\ none \in Seq(Nat)
    BY <1>1 DEF Listed
  <2>2. /\ one \in DeferStates /\ one.node = d.node /\ one.chain = d.chain
        /\ one.free = d.free /\ one.barrier = FALSE
        /\ one.total = d.total /\ one.code = d.code
        /\ s \in Seq(Nat)
    BY ONLY <2>1 DEF DeferStates
  <2>3. open = [one EXCEPT !.deferred = none]
    OBVIOUS
  <2> HIDE DEF one, none, open
  <2>4. /\ open \in DeferStates /\ open.node = one.node /\ open.chain = one.chain
        /\ open.free = one.free /\ open.barrier = one.barrier /\ open.deferred = none
        /\ open.total = one.total /\ open.code = one.code
    BY ONLY <2>1, <2>2, <2>3 DEF DeferStates
  <2>5. QED
    BY <2>2, <2>4 DEF none
<1>4. v = LET back[k \in 0 .. Len(s)] ==
                IF k = 0 THEN open ELSE Defer!Free(back[k - 1], s[k])
          IN  back[Len(s)]
  BY Zenon DEF Ending, Defer!BarrierEnd
<1> HIDE DEF open, s
<1>5. Listed(open, NoChunk)
  BY <1>1, <1>3 DEF Listed
<1>6. Members(s) \subseteq InUse(open.node, open.chain)
  BY <1>2, <1>3
<1>7. ~open.barrier /\ Distinct(s) /\ s \in Seq(Nat)
  BY <1>2, <1>3
<1>8. Remains(v, open, Members(s))
  BY <1>4, <1>5, <1>6, <1>7, RemainsLast
<1> DEFINE T == InUse(v.node, v.chain)
<1>9. /\ Listed(v, NoChunk) /\ T = S \ Members(s)
      /\ \A m \in S \ Members(s) : v.node[m].size = d.node[m].size
      /\ Len(v.node) = Len(d.node)
      /\ Preserves(v.node, v.chain, d.node, d.chain)
      /\ v.barrier = FALSE /\ v.deferred = <<>> /\ v.total = d.total /\ v.code = d.code
  BY <1>3, <1>8 DEF Remains, Spares, Alike
<1> HIDE DEF S, T
<1>10. Held(v, ws)
  <2>1. ASSUME NEW u \in Needed(ws)
        PROVE  ws[u].chunk \in T /\ ws[u].size <= v.node[ws[u].chunk].size
    <3>1. u \in DOMAIN ts /\ ts[u].live
      BY <1>1 DEF Needed
    <3>2. u \in Needed(ts)
      BY <3>1 DEF Needed
    <3>3. ts[u].chunk \in S \ Members(s) /\ ts[u].size <= d.node[ts[u].chunk].size
      BY <1>2, <3>1, <3>2
    <3>4. QED
      BY <1>1, <1>9, <3>1, <3>3
  <2>2. ASSUME NEW m \in T
        PROVE  \E u \in DOMAIN ws : ws[u].live /\ ws[u].chunk = m
    <3>1. PICK u \in DOMAIN ts : ts[u].live /\ ts[u].chunk = m
      BY <1>2, <1>9
    <3>2. QED
      BY <1>1, <3>1
  <2>3. \A u, w \in DOMAIN ws :
          ws[u].live /\ ws[w].live /\ ws[u].chunk = ws[w].chunk => u = w
    BY <1>1, <1>2
  <2>4. Members(v.deferred) = {} /\ Distinct(v.deferred)
    BY <1>9 DEF Members, Distinct
  <2>5. QED
    BY <1>9, <2>1, <2>2, <2>3, <2>4 DEF Held, T
<1>11. Fitting(Len(v.node), ws, pairs) /\ Laid(v.node, v.chain, ws, pairs)
  <2>1. Laid(v.node, v.chain, ts, pairs)
    BY <1>1, <1>9 DEF Preserves
  <2>2. Keeping(v.node, v.chain, ts, pairs, ws)
    BY <1>1, <1>9, <2>1 DEF Keeping, Ending
  <2>3. QED
    BY <2>2, ChangedLaid
<1>12. QED
  BY <1>9, <1>10, <1>11 DEF DeferPlan

-----------------------------------------------------------------------------
(* What compute() makes of the one chunk that is left.                     *)

(* With nothing in use there is one chunk at most, and it is the free one. *)
LEMMA OneChunk ==
  ASSUME NEW d, Listed(d, NoChunk), InUse(d.node, d.chain) = {}
  PROVE  d.free = d.chain /\ Len(d.chain) \in {0, 1}
<1> DEFINE c == d.chain
           s == d.free
           N == d.node
           L == Len(c)
           K == Len(s)
<1>1. /\ Chained(c) /\ Distinct(s) /\ s \in Seq(Nat) /\ c \in Seq(Nat) /\ Distinct(c)
      /\ NoChunk \notin Members(c)
      /\ Members(s) = Unused(N, c) \ {NoChunk}
      /\ \A x, y : Follow(c, x, y) /\ x # NoChunk /\ y # NoChunk => N[x].usage \/ N[y].usage
  BY DEF Listed, Links, Chained, DeferStates
<1>2. /\ L \in Nat /\ DOMAIN c = 1 .. L /\ K \in Nat /\ DOMAIN s = 1 .. K
  BY <1>1, LenProperties
<1>3. \A x \in Members(c) : ~N[x].usage
  BY DEF InUse
<1>4. Members(s) = Members(c)
  BY <1>1, <1>3 DEF Unused
<1> HIDE DEF c, s, N, L, K
<1>5. L \in {0, 1}
  <2> SUFFICES ASSUME L >= 2 PROVE FALSE
    BY <1>2
  <2>1. 1 \in 1 .. L /\ 2 \in 1 .. L /\ 1 \in 0 .. L /\ 1 + 1 = 2
    BY <1>2
  <2>2. c[1] = At(c, 1) /\ c[2] = At(c, 2)
    BY <2>1 DEF At, L
  <2>3. c[1] \in Members(c) /\ c[2] \in Members(c)
    BY <1>2, <2>1 DEF Members
  <2>4. Follow(c, c[1], c[2])
    BY <2>1, <2>2 DEF Follow, L
  <2>5. QED
    BY <1>1, <1>3, <2>3, <2>4
<1>6. K \in {0, 1} /\ (K = 0 <=> L = 0)
  <2>1. \A i, j \in 1 .. K : i = j
    <3>1. \A x, y \in Members(c) : x = y
      BY <1>2, <1>5 DEF Members
    <3>2. \A i \in 1 .. K : s[i] \in Members(c)
      BY <1>2, <1>4 DEF Members
    <3>3. QED
      BY <1>1, <1>2, <3>1, <3>2 DEF Distinct
  <2>2. K <= 1
    <3> SUFFICES ASSUME K >= 2 PROVE FALSE
      BY <1>2
    <3>1. 1 \in 1 .. K /\ 2 \in 1 .. K
      BY <1>2
    <3>2. QED
      BY <2>1, <3>1
  <2>3. K = 0 => Members(s) = {}
    BY <1>2 DEF Members
  <2>4. L = 0 => Members(c) = {}
    BY <1>2 DEF Members
  <2>5. K # 0 => Members(s) # {}
    <3>1. K # 0 => 1 \in 1 .. K
      BY <1>2
    <3>2. QED
      BY <1>2, <3>1 DEF Members
  <2>6. L # 0 => Members(c) # {}
    <3>1. L # 0 => 1 \in 1 .. L
      BY <1>2
    <3>2. QED
      BY <1>2, <3>1 DEF Members
  <2>7. QED
    BY <1>2, <1>4, <2>2, <2>3, <2>4, <2>5, <2>6
<1>7. K = L
  BY <1>5, <1>6
<1>8. \A i \in 1 .. L : s[i] = c[i]
  <2>1. ASSUME NEW i \in 1 .. L
        PROVE  s[i] = c[i]
    <3>1. L = 1 /\ i = 1 /\ 1 \in 1 .. K
      BY <1>5, <1>7
    <3>2. s[1] \in Members(c)
      BY <1>2, <1>4, <3>1 DEF Members
    <3>3. Members(c) = {c[1]}
      BY <1>2, <3>1 DEF Members
    <3>4. QED
      BY <3>1, <3>2, <3>3
  <2>2. QED
    BY <2>1
<1>9. s = [i \in 1 .. L |-> s[i]] /\ c = [i \in 1 .. L |-> c[i]]
  BY <1>1, <1>2, <1>7, LenProperties DEF K, L
<1>10. s = c
  BY <1>8, <1>9
<1>11. QED
  BY <1>5, <1>10 DEF s, c, L

Placing(d, A, B, R, E) ==
  /\ Listed(d, NoChunk) /\ Lay(d.node, d.chain, A, B, R, E)
  /\ \A x \in Members(d.chain) : A[x] = 0

(* Walking down the children finds the addresses.                          *)
LEMMA PlacedAt ==
  ASSUME NEW d, NEW A, NEW B, NEW R, NEW E, Placing(d, A, B, R, E)
  PROVE  \A n \in 1 .. Len(d.node) :
           Defer!Placed(d)[n].offset = A[n] /\ Defer!Placed(d)[n].size = d.node[n].size
<1> DEFINE N == d.node
           L == Len(d.node)
           V == [1 .. L -> Nat]
           from == Before(L)
           zero == [n \in 1 .. L |-> 0]
           on(f, k) == [n \in DOMAIN d.node |->
                          IF k = 0 \/ d.node[n].into = Defer!NoNode THEN 0
                          ELSE d.node[n].offset + f[d.node[n].into]]
           step == [p \in (1 .. L) \X V |-> on(p[2], p[1])]
           Fine(k, f) == f \in V /\ \A n \in 1 .. L : R[n] <= k => f[n] = A[n]
           fine == {p \in (0 .. L) \X V : Fine(p[1], p[2])}
           Is(f) == f = [k \in 0 .. L |-> on(f[k - 1], k)]
           into == CHOOSE f : Is(f)
<1>1. N \in Seq(DeferNode) /\ L \in Nat /\ DOMAIN N = 1 .. L
  BY LenProperties DEF Placing, Listed, Links
<1>2. Descends(from, L) /\ \A n \in 1 .. L : from[n] = n - 1
  BY <1>1, BeforeDescends
<1>3. Defer!Placed(d) = [n \in DOMAIN d.node |-> [d.node[n] EXCEPT !.offset = into[L][n]]]
  BY Zenon DEF Defer!Placed
<1>4. /\ \A n \in 1 .. L : A[n] \in Nat /\ R[n] \in Nat
      /\ \A n \in 1 .. L : n \in Members(d.chain) =>
           N[n].into = NoChunk /\ A[n] = 0
      /\ \A n \in 1 .. L : n \notin Members(d.chain) =>
           /\ N[n].into # NoChunk /\ N[n].into \in 1 .. L /\ A[n] = A[N[n].into] + N[n].offset
           /\ R[N[n].into] < R[n]
      /\ \A n \in 1 .. L : R[n] <= L
  <2>1. Members(d.chain) = {n \in 1 .. L : N[n].into = NoChunk} /\ Len(d.chain) \in Nat
    BY LenProperties DEF Placing, Listed, Links, Chained
  <2>2. \A n \in 1 .. L : A[n] \in Nat /\ R[n] \in Nat
    BY DEF Placing, Lay
  <2>3. \A n \in 1 .. L : n \notin Members(d.chain) =>
          /\ N[n].into \in 1 .. L /\ A[n] = A[N[n].into] + N[n].offset
          /\ R[N[n].into] < R[n] /\ R[n] + Len(d.chain) <= L
    BY DEF Placing, Lay
  <2>4. \A x \in Members(d.chain) : A[x] = 0 /\ R[x] = 0
    BY DEF Placing, Lay
  <2> DEFINE l == Len(d.chain)
  <2> HIDE DEF N, L, l
  <2>5. ASSUME NEW n \in 1 .. L
        PROVE  R[n] <= L
    <3>1. R[n] \in Nat /\ l \in Nat /\ L \in Nat
      BY <1>1, <2>1, <2>2 DEF l
    <3>2. n \in Members(d.chain) => R[n] = 0
      BY <2>4
    <3>3. n \notin Members(d.chain) => R[n] + l <= L
      BY <2>3 DEF l
    <3>4. QED
      BY <3>1, <3>2, <3>3
  <2>6. \A n \in 1 .. L : n \in Members(d.chain) <=> N[n].into = NoChunk
    BY <2>1
  <2>7. QED
    BY <2>2, <2>3, <2>4, <2>5, <2>6
<1> HIDE DEF L
<1>5. \A n \in 1 .. L : N[n].offset \in Nat
  BY <1>1, DeferNodeTyped DEF L
<1>6. ASSUME NEW k \in 1 .. L, NEW f, Fine(k - 1, f)
      PROVE  Fine(k, on(f, k))
  <2> DEFINE g == on(f, k)
  <2>1. g = [n \in 1 .. L |-> IF N[n].into = NoChunk THEN 0 ELSE N[n].offset + f[N[n].into]]
    BY <1>1 DEF NoChunk
  <2> HIDE DEF g
  <2>2. ASSUME NEW n \in 1 .. L
        PROVE  g[n] \in Nat /\ (R[n] <= k => g[n] = A[n])
    <3>1. CASE n \in Members(d.chain)
      BY <1>4, <2>1, <3>1
    <3>2. CASE n \notin Members(d.chain)
      <4> DEFINE m == N[n].into
                 o == N[n].offset
                 x == f[m]
      <4>1. g[n] = o + x /\ m \in 1 .. L /\ A[n] = A[m] + o /\ R[m] < R[n]
        BY <1>4, <2>1, <3>2
      <4>2. o \in Nat /\ x \in Nat /\ R[m] \in Nat /\ R[n] \in Nat /\ A[m] \in Nat
        BY <1>4, <1>5, <1>6, <4>1
      <4>3. R[m] <= k - 1 => x = A[m]
        BY <1>6, <4>1
      <4> HIDE DEF m, o, x
      <4>4. R[n] <= k => R[m] <= k - 1
        BY <1>1, <4>1, <4>2
      <4>5. QED
        BY <4>1, <4>2, <4>3, <4>4
    <3>3. QED
      BY <3>1, <3>2
  <2>3. g \in [1 .. L -> Nat]
    BY <2>1, <2>2
  <2>4. Fine(k, g)
    BY <2>2, <2>3
  <2>5. QED
    BY <2>4 DEF g
<1>7. Fine(0, zero)
  <2>1. zero \in V
    OBVIOUS
  <2>2. ASSUME NEW n \in 1 .. L, R[n] <= 0
        PROVE  A[n] = 0
    <3>1. CASE n \in Members(d.chain)
      BY <1>4, <3>1
    <3>2. CASE n \notin Members(d.chain)
      BY <1>4, <2>2, <3>2
    <3>3. QED
      BY <3>1, <3>2
  <2>3. QED
    BY <2>1, <2>2
<1>8. \A f : on(f, 0) = zero
  BY <1>1
<1>9. \A k, f : Fine(k, f) => f \in V
  OBVIOUS
<1> HIDE DEF V, from, on, Fine, zero
<1>10. ASSUME NEW k \in 1 .. L, NEW v, << from[k], v >> \in fine
       PROVE  step[<< k, v >>] = on(v, k) /\ << k, on(v, k) >> \in fine
  <2>1. from[k] = k - 1
    BY <1>2
  <2>2. v \in V /\ << k, v >> \in (1 .. L) \X V /\ Fine(k - 1, v)
    BY <1>10, <2>1
  <2>3. on(v, k) \in V /\ Fine(k, on(v, k)) /\ k \in 0 .. L
    BY <1>1, <1>6, <1>9, <2>2
  <2>4. QED
    BY <2>2, <2>3
<1>11. << 0, zero >> \in fine
  BY <1>1, <1>7, <1>9
<1> HIDE DEF step
<1>12. Builds(step, fine, from, L)
  BY <1>10 DEF Builds
<1>13. PICK g : Solves(g, L, zero, step, fine, from)
  <2> HIDE DEF fine
  <2>1. QED
    BY <1>1, <1>2, <1>11, <1>12, Recursion
<1>14. ASSUME NEW k \in 1 .. L
       PROVE  g[k] = on(g[k - 1], k)
  <2>1. k - 1 \in 0 .. L /\ from[k] = k - 1
    BY <1>1, <1>2
  <2>2. << k - 1, g[k - 1] >> \in fine /\ g[k] = step[<< k, g[k - 1] >>]
    BY <1>13, <2>1 DEF Solves
  <2>3. QED
    BY <1>10, <2>1, <2>2
<1>15. Is(g)
  <2>1. g = [k \in 0 .. L |-> g[k]] /\ g[0] = zero
    BY <1>13 DEF Solves
  <2>2. ASSUME NEW k \in 0 .. L
        PROVE  g[k] = on(g[k - 1], k)
    <3>1. k = 0 \/ k \in 1 .. L
      BY <1>1
    <3>2. QED
      BY <1>8, <1>14, <2>1, <3>1
  <2>3. QED
    BY <2>1, <2>2
<1>16. Is(into)
  BY <1>15
<1>17. ASSUME NEW k \in 0 .. L
       PROVE  into[k] = on(into[k - 1], k)
  <2> HIDE DEF into
  <2>1. QED
    BY <1>16
<1> HIDE DEF into, Is
<1>18. into[0] = zero /\ \A k \in 1 .. L : into[k] = on(into[k - 1], k)
  <2>1. 0 \in 0 .. L /\ \A k \in 1 .. L : k \in 0 .. L
    BY <1>1
  <2>2. QED
    BY <1>8, <1>17, <2>1
<1> DEFINE good == {k \in 0 .. L : Fine(k, into[k])}
<1>19. 0 \in good
  BY <1>1, <1>7, <1>18
<1>20. ASSUME NEW k \in 1 .. L, from[k] \in good
       PROVE  k \in good
  <2>1. Fine(k - 1, into[k - 1])
    BY <1>2, <1>20
  <2>2. k \in 0 .. L
    BY <1>1
  <2>3. QED
    BY <1>6, <1>18, <2>1, <2>2
<1> HIDE DEF good
<1>21. Inherited(good, from, L)
  BY <1>19, <1>20 DEF Inherited
<1>22. \A k \in 0 .. L : k \in good
  BY <1>1, <1>2, <1>21, Induction
<1>23. Fine(L, into[L])
  BY <1>1, <1>22 DEF good
<1>24. \A n \in 1 .. L : into[L][n] = A[n]
  BY <1>4, <1>23 DEF Fine
<1>25. ASSUME NEW n \in 1 .. L
       PROVE  Defer!Placed(d)[n].offset = A[n] /\ Defer!Placed(d)[n].size = N[n].size
  <2> DEFINE a == into[L][n]
             w == [N[n] EXCEPT !.offset = a]
             o == N[n]
  <2>1. Defer!Placed(d)[n] = w
    BY <1>1, <1>3
  <2>2. o \in DeferNode
    BY <1>1, DeferNodeTyped DEF L
  <2>3. w = [o EXCEPT !.offset = a]
    OBVIOUS
  <2> HIDE DEF a, w, o
  <2>4. w.offset = a /\ w.size = o.size
    BY ONLY <2>2, <2>3 DEF DeferNode
  <2>5. QED
    BY <1>24, <2>1, <2>4 DEF a, o
<1>26. QED
  BY <1>25 DEF L

(* Every tensor lies inside of the buffer, and no two of a pair meet.      *)
Addressed(v, ts, pairs) ==
  /\ \A t \in DOMAIN ts : v.node[ts[t].chunk].offset + ts[t].size <= v.total
  /\ \A p \in pairs : Apart(v.node[ts[p[1]].chunk].offset, ts[p[1]].size,
                            v.node[ts[p[2]].chunk].offset, ts[p[2]].size)

(* When all tensors are given back the plan is one free chunk, and what    *)
(* compute() makes of it are the addresses.                                *)
Completing(v, d, ts, pairs) ==
  /\ DeferPlan(d, ts, pairs) /\ d.deferred = <<>> /\ d.total = 0
  /\ \A t \in DOMAIN ts : ~ts[t].live
  /\ v = Defer!Compute(d)

(* Then no chunk is in use, so no two are left beside each other: there is *)
(* one, and none when there were no tensors.                               *)
LEMMA CompletingChunk ==
  ASSUME NEW d, NEW ts, NEW pairs, DeferPlan(d, ts, pairs), d.deferred = <<>>,
         \A t \in DOMAIN ts : ~ts[t].live
  PROVE  /\ d.free = d.chain /\ Len(d.chain) \in {0, 1}
         /\ DOMAIN ts # {} => Len(d.chain) = 1
<1>1. /\ Listed(d, NoChunk) /\ Fitting(Len(d.node), ts, pairs)
      /\ \A n \in InUse(d.node, d.chain) : n \notin Members(d.deferred) =>
           \E t \in DOMAIN ts : ts[t].live /\ ts[t].chunk = n
      /\ Members(d.deferred) = {}
  BY DEF DeferPlan, Held, Members
<1>2. InUse(d.node, d.chain) = {}
  BY <1>1
<1>3. d.free = d.chain /\ Len(d.chain) \in {0, 1}
  BY <1>1, <1>2, OneChunk
<1>4. ASSUME NEW t \in DOMAIN ts
      PROVE  Len(d.chain) # 0
  <2>1. PICK A, B, R, E : Lay(d.node, d.chain, A, B, R, E)
    BY DEF DeferPlan, Laid
  <2>2. ts[t].chunk \in 1 .. Len(d.node)
    BY <1>1 DEF Fitting
  <2>3. \E x \in Members(d.chain) : B[ts[t].chunk] = A[x]
    BY <2>1, <2>2 DEF Lay
  <2>4. DOMAIN d.chain = 1 .. Len(d.chain)
    BY <1>1, LenProperties DEF Listed, Links, Chained
  <2>5. QED
    BY <2>3, <2>4 DEF Members
<1>5. QED
  BY <1>3, <1>4

(* So the addresses are those that were possible all the time.             *)
LEMMA CompletingPlan ==
  ASSUME NEW v, NEW d, NEW ts, NEW pairs, Completing(v, d, ts, pairs)
  PROVE  v.code = "NO_ERROR" /\ (DOMAIN ts # {} => Addressed(v, ts, pairs))
<1> DEFINE L == Len(d.node)
<1>1. /\ DeferPlan(d, ts, pairs) /\ Listed(d, NoChunk) /\ d \in DeferStates
      /\ Fitting(L, ts, pairs) /\ Laid(d.node, d.chain, ts, pairs)
      /\ d.total = 0 /\ v = Defer!Compute(d)
  BY DEF Completing, DeferPlan, Listed
<1>2. /\ d.free = d.chain /\ Len(d.chain) \in {0, 1}
      /\ DOMAIN ts # {} => Len(d.chain) = 1
  BY <1>1, CompletingChunk DEF Completing
<1>3. ~(d.total > 0)
  BY <1>1
<1>4. CASE d.free = <<>>
  <2>1. v = [d EXCEPT !.code = "NO_ERROR"]
    BY <1>1, <1>4 DEF Defer!Compute
  <2>2. v.code = "NO_ERROR"
    BY <1>1, <2>1 DEF DeferStates
  <2>3. Len(d.chain) = 0
    BY <1>2, <1>4
  <2>4. QED
    BY <1>2, <2>2, <2>3
<1>5. CASE d.free # <<>>
  <2>1. d.chain \in Seq(Nat) /\ d.chain # <<>> /\ Chained(d.chain)
    BY <1>1, <1>2, <1>5 DEF Listed, Links, Chained
  <2>2. Len(d.chain) = 1 /\ Len(d.free) = 1
    BY <1>2, <2>1, EmptySeq
  <2> DEFINE made == Defer!Placed(d)
             sum == d.node[Head(d.chain)].size
             h == d.chain[1]
  <2>3. v = [d EXCEPT !.node = made, !.total = sum, !.code = "NO_ERROR"]
    BY <1>1, <1>3, <1>5, <2>2 DEF Defer!Compute
  <2> HIDE DEF made, sum
  <2>4. v.node = made /\ v.total = sum /\ v.code = "NO_ERROR"
    BY ONLY <1>1, <2>3 DEF DeferStates
  <2>5. Head(d.chain) = h
    BY <2>1
  <2>6. PICK A, B, R, E : Lay(d.node, d.chain, A, B, R, E) /\ Tied(A, B, E, ts, pairs)
    BY <1>1 DEF Laid
  <2>7. /\ NoChunk = At(d.chain, 0) /\ h = At(d.chain, 1) /\ NoChunk = At(d.chain, 2)
    BY <2>2 DEF At
  <2>8. Follow(d.chain, NoChunk, h) /\ Follow(d.chain, h, NoChunk)
    <3>1. 0 \in 0 .. 1 /\ 1 \in 0 .. 1 /\ 0 + 1 = 1 /\ 1 + 1 = 2
      OBVIOUS
    <3>2. QED
      BY <2>2, <2>7, <3>1 DEF Follow
  <2>9. DOMAIN d.chain = 1 .. 1
    BY <2>1, <2>2, LenProperties
  <2>10. Members(d.chain) = {h} /\ h # NoChunk
    <3>1. 1 .. 1 = {1}
      OBVIOUS
    <3>2. Members(d.chain) = {h}
      BY <2>9, <3>1 DEF Members
    <3>3. QED
      BY <2>1, <3>2 DEF Chained
  <2>11. A[h] = 0 /\ E = A[h] + d.node[h].size
    BY <2>6, <2>8, <2>10 DEF Lay
  <2>12. E = sum
    <3>1. d.node[h].size \in Nat
      <4>1. h \in 1 .. Len(d.node) /\ d.node \in Seq(DeferNode)
        BY <1>1, <2>10 DEF Listed, Links
      <4>2. QED
        BY <4>1, DeferNodeTyped
    <3>2. QED
      BY <2>5, <2>11, <3>1 DEF sum
  <2>13. Placing(d, A, B, R, E)
    BY <1>1, <2>6, <2>10, <2>11 DEF Placing
  <2>14. \A n \in 1 .. L : made[n].offset = A[n]
    BY <2>13, PlacedAt DEF made
  <2>15. /\ \A t \in DOMAIN ts : ts[t].chunk \in 1 .. L /\ ts[t].size \in Nat
         /\ pairs \subseteq (DOMAIN ts) \X (DOMAIN ts)
    BY <1>1 DEF Fitting
  <2>16. \A t \in DOMAIN ts : v.node[ts[t].chunk].offset = A[ts[t].chunk]
    BY <2>4, <2>14, <2>15
  <2>17. \A t \in DOMAIN ts : v.node[ts[t].chunk].offset + ts[t].size <= v.total
    BY <2>4, <2>6, <2>12, <2>16 DEF Tied
  <2>18. ASSUME NEW p \in pairs
         PROVE  Apart(v.node[ts[p[1]].chunk].offset, ts[p[1]].size,
                      v.node[ts[p[2]].chunk].offset, ts[p[2]].size)
    <3>1. p[1] \in DOMAIN ts /\ p[2] \in DOMAIN ts
      BY <2>15
    <3>2. InOrder(A, B, ts[p[1]], ts[p[2]]) \/ InOrder(A, B, ts[p[2]], ts[p[1]])
      BY <2>6 DEF Tied
    <3>3. QED
      BY <2>16, <3>1, <3>2 DEF InOrder, Apart
  <2>19. QED
    BY <2>4, <2>17, <2>18 DEF Addressed
<1>6. QED
  BY <1>4, <1>5

(* Nothing is planned yet.                                                 *)
LEMMA NothingPlanned ==
  ASSUME NEW d, d \in DeferStates, d.node = <<>>, d.chain = <<>>, d.free = <<>>,
         d.deferred = <<>>
  PROVE  DeferPlan(d, <<>>, {})
<1>1. /\ Members(<<>>) = {} /\ Distinct(<<>>) /\ Len(<<>>) = 0 /\ DOMAIN <<>> = {}
      /\ <<>> \in Seq(Nat) /\ <<>> \in Seq(DeferNode)
  BY DEF Members, Distinct
<1>2. \A x, y : Follow(<<>>, x, y) => x = NoChunk /\ y = NoChunk
  BY <1>1 DEF Follow, At
<1>3. Chained(<<>>)
  BY <1>1 DEF Chained
<1>4. Links(<<>>, <<>>, NoChunk)
  BY <1>1, <1>2, <1>3 DEF Links
<1>5. Unused(<<>>, <<>>) = {} /\ InUse(<<>>, <<>>) = {}
  BY <1>1 DEF Unused, InUse
<1>6. Listed(d, NoChunk)
  BY <1>1, <1>4, <1>5 DEF Listed
<1>7. Held(d, <<>>)
  BY <1>1, <1>5 DEF Held, Needed
<1>8. Fitting(0, <<>>, {})
  BY <1>1 DEF Fitting
<1>9. Laid(<<>>, <<>>, <<>>, {})
  <2> DEFINE A == [n \in 1 .. 0 |-> 0]
  <2>1. A \in [1 .. 0 -> Nat]
    OBVIOUS
  <2>2. Lay(<<>>, <<>>, A, A, A, 0)
    BY <1>1, <1>2, <2>1 DEF Lay
  <2>3. Tied(A, A, 0, <<>>, {})
    BY <1>1 DEF Tied
  <2>4. QED
    BY <2>2, <2>3 DEF Laid
<1>10. QED
  BY <1>1, <1>6, <1>7, <1>8, <1>9 DEF DeferPlan

-----------------------------------------------------------------------------
(* The invariant of the deferred allocator.                                *)

DeferInv ==
  /\ defer.code = "NO_ERROR"
  /\ stage = "planning" =>
       /\ DeferPlan(defer, tensors, clash)
       /\ defer.barrier <=> barrier # "none"
       /\ defer.total = 0
  /\ stage = "planned" /\ DOMAIN tensors # {} => Addressed(defer, tensors, clash)

Blank(code) ==
  [node |-> <<>>, chain |-> <<>>, free |-> <<>>, barrier |-> FALSE,
   deferred |-> <<>>, total |-> 0, code |-> code, last |-> Defer!NoNode]

(* A reset leaves nothing.                                                 *)
LEMMA BlankPlan ==
  ASSUME NEW d, d = Blank("NO_ERROR")
  PROVE  /\ DeferPlan(d, <<>>, {}) /\ d.code = "NO_ERROR" /\ d.barrier = FALSE /\ d.total = 0
<1> DEFINE code == "NO_ERROR"
           none == <<>>
           last == Defer!NoNode
<1>1. code \in {"NO_ERROR", "INVALID_VALUE"}
  OBVIOUS
<1>2. last \in Nat
  BY DEF Defer!NoNode
<1>3. none \in Seq(Nat) /\ none \in Seq(DeferNode)
  OBVIOUS
<1>4. d = [node |-> none, chain |-> none, free |-> none, barrier |-> FALSE,
           deferred |-> none, total |-> 0, code |-> code, last |-> last]
  BY DEF Blank
<1> HIDE DEF code, none, last
<1>5. d \in DeferStates
  BY ONLY <1>1, <1>2, <1>3, <1>4 DEF DeferStates
<1>6. /\ d.node = none /\ d.chain = none /\ d.free = none /\ d.deferred = none
      /\ d.code = code /\ d.barrier = FALSE /\ d.total = 0
  BY ONLY <1>4
<1>7. QED
  BY <1>5, <1>6, NothingPlanned DEF code, none

(* It holds at first.                                                      *)
LEMMA DeferInit ==
  ASSUME Init
  PROVE  DeferInv
<1>1. defer = Defer!Empty /\ tensors = <<>> /\ clash = {} /\ stage = "planning" /\ barrier = "none"
  BY DEF Init
<1>2. defer = Blank("NO_ERROR")
  BY <1>1 DEF Defer!Empty, Blank
<1>3. /\ DeferPlan(defer, <<>>, {}) /\ defer.code = "NO_ERROR" /\ defer.barrier = FALSE
      /\ defer.total = 0
  BY <1>2, BlankPlan
<1>4. QED
  BY <1>1, <1>3 DEF DeferInv

(* A request for memory keeps it.                                          *)
LEMMA AcquireDefer ==
  ASSUME EagerInv, DeferInv, NEW size \in Sizes, NEW separate \in BOOLEAN,
         Acquire(size, separate)
  PROVE  DeferInv'
<1> DEFINE d == defer
           v == defer'
           n == v.last
           chunk == Defer!RoundUp(size)
           others == Live \cup OtherGroups
           k == Len(tensors) + 1
<1>1. /\ stage = "planning" /\ stage' = stage /\ barrier' = barrier
      /\ v = Defer!Alloc(d, size, separate)
      /\ tensors' = Append(tensors,
           [size |-> size, live |-> TRUE, group |-> Group,
            chunk |-> n, node |-> eager'.last,
            block |-> eager'.node[eager'.last].block, off |-> eager'.node[eager'.last].off])
      /\ clash' = clash \cup (others \X {k})
  BY DEF Acquire
<1>2. /\ DeferPlan(d, tensors, clash) /\ (d.barrier <=> barrier # "none")
      /\ d.total = 0 /\ d.code = "NO_ERROR"
  BY <1>1 DEF DeferInv
<1>3. size \in Nat /\ size > 0
  BY BufferAllocatorAssumption
<1>4. Provides(v, d, n, chunk) /\ chunk \in Nat /\ size <= chunk
  BY <1>1, <1>2, <1>3, AllocProvides DEF DeferPlan
<1>5. PICK chunks : tensors \in Seq(Tensors(chunks))
  BY DEF EagerInv, Planned
<1> DEFINE L == Len(tensors)
           w == [size |-> size, live |-> TRUE, group |-> Group,
                 chunk |-> n, node |-> eager'.last,
                 block |-> eager'.node[eager'.last].block, off |-> eager'.node[eager'.last].off]
<1>6. L \in Nat /\ DOMAIN tensors = 1 .. L
  BY <1>5, LenProperties
<1>7. w.live /\ w.chunk = n /\ w.size = size
  OBVIOUS
<1>8. tensors' = Append(tensors, w)
  BY <1>1
<1>9. Obtains(tensors', tensors, n, size)
  <2> HIDE DEF w, L, n
  <2> DEFINE ts == tensors
             ws == tensors'
             all == Tensors(chunks) \cup {w}
  <2>1. ts \in Seq(all) /\ w \in all
    <3>1. \A i \in 1 .. L : ts[i] \in all
      BY <1>5, <1>6, ElementOfSeq DEF L
    <3>2. ts = [i \in 1 .. L |-> ts[i]]
      BY <1>5, <1>6, LenProperties DEF L
    <3> HIDE DEF ts, all
    <3>3. ts \in [1 .. L -> all]
      BY <3>1, <3>2
    <3>4. QED
      BY <1>6, <3>3, Made DEF all
  <2> HIDE DEF all
  <2>2. /\ ws \in Seq(all) /\ Len(ws) = L + 1 /\ ws[L + 1] = w
        /\ \A i \in 1 .. L : ws[i] = ts[i]
    BY <1>8, <2>1, AppendProperties DEF L
  <2>3. DOMAIN ws = 1 .. L + 1
    BY <2>2, LenProperties
  <2>4. QED
    BY <1>3, <1>6, <1>7, <2>2, <2>3 DEF Obtains, L
<1>10. Obtaining(v, d, tensors', tensors, clash, n, chunk)
  BY <1>2, <1>3, <1>4, <1>9 DEF Obtaining
<1>11. others \subseteq Needed(tensors)
  BY DEF Live, OtherGroups, Needed
<1>12. DeferPlan(v, tensors', clash')
  <2> HIDE DEF others, n, chunk
  <2>1. DeferPlan(v, tensors', clash \cup (others \X {Len(tensors) + 1}))
    BY <1>10, <1>11, ObtainsPlan
  <2>2. QED
    BY <1>1, <2>1
<1>13. v.barrier = d.barrier /\ v.total = d.total /\ v.code = d.code
  BY <1>4 DEF Provides, Alike
<1>14. QED
  BY <1>1, <1>2, <1>12, <1>13 DEF DeferInv

(* Memory that is given back keeps it.                                     *)
LEMMA GiveBackDefer ==
  ASSUME EagerInv, DeferInv, NEW t \in DOMAIN tensors, GiveBack(t)
  PROVE  DeferInv'
<1> DEFINE d == defer
           v == defer'
<1>1. /\ stage = "planning" /\ stage' = stage /\ barrier' = barrier /\ tensors[t].live
      /\ v = Defer!Free(d, tensors[t].chunk)
      /\ tensors' = [tensors EXCEPT ![t].live = FALSE] /\ clash' = clash
  BY DEF GiveBack
<1>2. /\ DeferPlan(d, tensors, clash) /\ (d.barrier <=> barrier # "none")
      /\ d.total = 0 /\ d.code = "NO_ERROR"
  BY <1>1 DEF DeferInv
<1>3. Dies(tensors', tensors, t)
  <2>1. PICK chunks : tensors \in Seq(Tensors(chunks))
    BY DEF EagerInv, Planned
  <2>2. QED
    BY <1>1, <2>1, TensorDies
<1>4. ~d.barrier => \A u \in DOMAIN tensors : tensors[u].group = 0
  <2> SUFFICES ASSUME ~d.barrier, NEW u \in DOMAIN tensors
               PROVE  tensors[u].group = 0
    OBVIOUS
  <2>1. GroupsOf(eager) = 0
    BY <1>2 DEF EagerInv, Modes
  <2>2. tensors[u].group \in 0 .. GroupsOf(eager)
    BY DEF EagerInv, Planned, Placed
  <2>3. QED
    BY <2>1, <2>2
<1>5. Returning(v, d, tensors', tensors, clash, t)
  BY <1>1, <1>2, <1>3, <1>4 DEF Returning
<1>6. DeferPlan(v, tensors', clash) /\ Stable(v, d)
  BY <1>5, ReturnWaits, ReturnFuses
<1>7. QED
  BY <1>1, <1>2, <1>6 DEF DeferInv, Stable

(* A barrier begins.                                                       *)
LEMMA BarrierBeginDefer ==
  ASSUME EagerInv, DeferInv, BarrierBegin
  PROVE  DeferInv'
<1> DEFINE d == defer
           v == defer'
<1>1. /\ stage = "planning" /\ stage' = stage /\ barrier' = "open" /\ barrier = "none"
      /\ v = [d EXCEPT !.barrier = TRUE] /\ tensors' = tensors /\ clash' = clash
  BY DEF BarrierBegin, Defer!BarrierBegin
<1>2. /\ DeferPlan(d, tensors, clash) /\ (d.barrier <=> barrier # "none")
      /\ d.total = 0 /\ d.code = "NO_ERROR"
  BY <1>1 DEF DeferInv
<1>3. /\ v \in DeferStates /\ v.node = d.node /\ v.chain = d.chain /\ v.free = d.free
      /\ v.barrier = TRUE /\ v.deferred = d.deferred /\ v.total = d.total /\ v.code = d.code
  <2>1. d \in DeferStates /\ v = [d EXCEPT !.barrier = TRUE]
    BY <1>1, <1>2 DEF DeferPlan, Listed
  <2> HIDE DEF d, v
  <2>2. QED
    BY ONLY <2>1 DEF DeferStates
<1>4. DeferPlan(v, tensors, clash)
  <2>1. Listed(v, NoChunk) /\ Held(v, tensors)
    BY <1>2, <1>3 DEF DeferPlan, Listed, Held
  <2>2. QED
    BY <1>2, <1>3, <2>1 DEF DeferPlan
<1>5. QED
  BY <1>1, <1>2, <1>3, <1>4 DEF DeferInv

(* A barrier ends.                                                         *)
LEMMA BarrierEndDefer ==
  ASSUME EagerInv, DeferInv, BarrierEnd
  PROVE  DeferInv'
<1> DEFINE d == defer
           v == defer'
<1>1. /\ stage' = stage /\ barrier' = "none" /\ barrier = "open"
      /\ v = Defer!BarrierEnd(d) /\ clash' = clash
      /\ tensors' = Disbanded(tensors)
  BY DEF BarrierEnd, Disbanded
<1>2. stage = "planning"
  BY <1>1 DEF EagerInv, Modes
<1>3. DeferPlan(d, tensors, clash) /\ d.total = 0 /\ d.code = "NO_ERROR"
  BY <1>2 DEF DeferInv
<1>4. /\ Changed(tensors', tensors)
      /\ \A u \in DOMAIN tensors : tensors'[u].group = 0 /\ tensors'[u].live = tensors[u].live
  <2>1. PICK chunks : tensors \in Seq(Tensors(chunks))
    BY DEF EagerInv, Planned
  <2>2. QED
    BY <1>1, <2>1, TensorsDisband
<1>5. Ending(v, d, tensors', tensors, clash)
  BY <1>1, <1>3, <1>4 DEF Ending
<1>6. DeferPlan(v, tensors', clash) /\ v.barrier = FALSE /\ v.total = d.total /\ v.code = d.code
  BY <1>5, EndingPlan
<1>7. QED
  BY <1>1, <1>2, <1>3, <1>6 DEF DeferInv

(* A resize ends: the plan is computed.                                    *)
LEMMA ResizeEndDefer ==
  ASSUME EagerInv, DeferInv, ResizeEnd
  PROVE  DeferInv'
<1>1. /\ stage = "planning" /\ stage' = "planned" /\ barrier = "none" /\ Live = {}
      /\ defer' = Defer!Compute(defer) /\ tensors' = tensors /\ clash' = clash
  BY DEF ResizeEnd
<1>2. /\ DeferPlan(defer, tensors, clash) /\ ~defer.barrier
      /\ defer.total = 0 /\ defer.code = "NO_ERROR"
  BY <1>1 DEF DeferInv
<1>3. defer.deferred = <<>>
  BY <1>2 DEF DeferPlan, Held
<1>4. Completing(defer', defer, tensors, clash)
  BY <1>1, <1>2, <1>3 DEF Completing, Live
<1>5. defer'.code = "NO_ERROR" /\ (DOMAIN tensors # {} => Addressed(defer', tensors, clash))
  BY <1>4, CompletingPlan
<1>6. QED
  BY <1>1, <1>5 DEF DeferInv

(* The next resize begins, or the buffer is cleared.                       *)
LEMMA ResetDefer ==
  ASSUME EagerInv, DeferInv, ResizeBegin \/ ClearBuffer
  PROVE  DeferInv'
<1>1. /\ stage' = "planning" /\ barrier' = barrier /\ barrier = "none"
      /\ defer' = [Defer!Empty EXCEPT !.code = defer.code] /\ tensors' = <<>> /\ clash' = {}
  BY DEF ResizeBegin, ClearBuffer, Defer!Reset, EagerInv, Modes
<1>2. defer.code = "NO_ERROR"
  BY DEF DeferInv
<1>3. defer' = Blank("NO_ERROR")
  <2> DEFINE code == defer.code
  <2>1. defer' = [Defer!Empty EXCEPT !.code = code]
    BY <1>1
  <2> HIDE DEF code
  <2>2. defer' = Blank(code)
    BY <2>1 DEF Defer!Empty, Blank
  <2>3. QED
    BY <1>2, <2>2 DEF code
<1>4. /\ DeferPlan(defer', <<>>, {}) /\ defer'.code = "NO_ERROR" /\ defer'.barrier = FALSE
      /\ defer'.total = 0
  BY <1>3, BlankPlan
<1>5. QED
  BY <1>1, <1>4 DEF DeferInv

(* A group begins or ends, or garbage is collected.                        *)
LEMMA StaysDefer ==
  ASSUME EagerInv, DeferInv, BeginGroup \/ EndGroup \/ GabageCollect \/ UNCHANGED vars
  PROVE  DeferInv'
<1>1. /\ defer' = defer /\ stage' = stage /\ tensors' = tensors /\ clash' = clash
      /\ barrier' # "none" <=> barrier # "none"
  BY DEF BeginGroup, EndGroup, GabageCollect, vars
<1>2. QED
  BY <1>1 DEF DeferInv

(* While a resize is planned, the chunks of the deferred allocator follow  *)
(* one another without two free ones beside each other, its free list has  *)
(* the free ones, every live tensor has one of the others for itself, and  *)
(* there are addresses for all of them at which no two tensors of a pair   *)
(* that must not meet do.                                                  *)
THEOREM DeferInvariant == Spec => []DeferInv
<1>1. Init => DeferInv
  BY DeferInit
<1>2. EagerInv /\ DeferInv /\ [Next]_vars => DeferInv'
  <2> SUFFICES ASSUME EagerInv, DeferInv, [Next]_vars
               PROVE  DeferInv'
    OBVIOUS
  <2>1. CASE \E size \in Sizes, separate \in BOOLEAN : Acquire(size, separate)
    BY <2>1, AcquireDefer
  <2>2. CASE \E t \in DOMAIN tensors : GiveBack(t)
    BY <2>2, GiveBackDefer
  <2>3. CASE BarrierBegin
    BY <2>3, BarrierBeginDefer
  <2>4. CASE BarrierEnd
    BY <2>4, BarrierEndDefer
  <2>5. CASE ResizeEnd
    BY <2>5, ResizeEndDefer
  <2>6. CASE ResizeBegin \/ ClearBuffer
    BY <2>6, ResetDefer
  <2>7. CASE BeginGroup \/ EndGroup \/ GabageCollect \/ UNCHANGED vars
    BY <2>7, StaysDefer
  <2>8. QED
    BY <2>1, <2>2, <2>3, <2>4, <2>5, <2>6, <2>7 DEF Next
<1>3. QED
  BY <1>1, <1>2, EagerInvariant, PTL DEF Spec

(* A plan that is not empty has a tensor.                                  *)
LEMMA SomeTensor ==
  ASSUME EagerInv, tensors # <<>>
  PROVE  DOMAIN tensors # {}
<1>1. PICK chunks : tensors \in Seq(Tensors(chunks))
  BY DEF EagerInv, Planned
<1>2. Len(tensors) \in Nat /\ Len(tensors) # 0 /\ DOMAIN tensors = 1 .. Len(tensors)
  BY <1>1, LenProperties, EmptySeq
<1>3. 1 \in 1 .. Len(tensors)
  BY <1>2
<1>4. QED
  BY <1>2, <1>3

(* A plan always works out: in whatever order and across whatever barriers *)
(* the tensors were given back, one free chunk is left of the chain, and   *)
(* compute() never answers INVALID_VALUE.                                  *)
THEOREM DeferAlwaysComputes == Spec => []DeferComputes
<1>1. DeferInv /\ EagerInv => DeferComputes
  <2> SUFFICES ASSUME DeferInv, EagerInv
               PROVE  DeferComputes
    OBVIOUS
  <2>1. ASSUME stage = "planning", barrier = "none", Live = {}, tensors # <<>>
        PROVE  defer.free = defer.chain /\ Len(defer.chain) = 1
    <3>1. DeferPlan(defer, tensors, clash) /\ ~defer.barrier
      BY <2>1 DEF DeferInv
    <3>2. defer.deferred = <<>>
      BY <3>1 DEF DeferPlan, Held
    <3>3. \A t \in DOMAIN tensors : ~tensors[t].live
      BY <2>1 DEF Live
    <3>4. DOMAIN tensors # {}
      BY <2>1, SomeTensor
    <3>5. QED
      BY <3>1, <3>2, <3>3, <3>4, CompletingChunk
  <2>2. QED
    BY <2>1 DEF DeferComputes, DeferInv
<1>2. QED
  BY <1>1, DeferInvariant, EagerInvariant, PTL

(* Once a resize is planned, tensors that are needed at the same time, or  *)
(* by the threads of one barrier, lie apart in the buffer and inside of    *)
(* it, whatever was fused, split and enlarged on the way.                  *)
THEOREM DeferKeepsApart == Spec => []DeferDisjoint
<1>1. DeferInv /\ EagerInv => DeferDisjoint
  <2> SUFFICES ASSUME DeferInv, EagerInv, stage = "planned", tensors # <<>>
               PROVE  /\ \A t \in DOMAIN tensors : Address(t) + tensors[t].size <= defer.total
                      /\ \A p \in clash :
                           Apart(Address(p[1]), tensors[p[1]].size,
                                 Address(p[2]), tensors[p[2]].size)
    BY DEF DeferDisjoint
  <2>1. DOMAIN tensors # {} => Addressed(defer, tensors, clash)
    BY DEF DeferInv
  <2>2. DOMAIN tensors # {}
    BY SomeTensor
  <2>3. QED
    BY <2>1, <2>2 DEF Addressed, Address
<1>2. QED
  BY <1>1, DeferInvariant, EagerInvariant, PTL
=============================================================================
