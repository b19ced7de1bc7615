-------------------------- MODULE PrefixCacheProofs --------------------------
(***************************************************************************)
(* Proofs about PrefixCache, for any models, prompts, block size and chunk *)
(* of expansion: what a process may find on disk and use is the whole      *)
(* prefix, unless a process before it was killed while it enlarged the     *)
(* last layer's file, marked a prefix that was cut short when every layer  *)
(* had its files, or began it behind another conversation; and what the    *)
(* layers hold between calls is what the caller was told.                  *)
(*                                                                         *)
(* The situations the code does not survive are excluded (Survivable; what *)
(* each one is stands at Known in PrefixCache); a skipped resize only for  *)
(* the layers, as it does not concern the files.                           *)
(***************************************************************************)
EXTENDS PrefixCache, SequenceTheorems, FiniteSetTheorems, TLAPS

Survivable == Situations \subseteq {"same_shape"}

-----------------------------------------------------------------------------
(* The inductive invariant.                                                *)

N == Len(model)
L == Len(prefix)

File ==
  [ has : SUBSET Both, sync : SUBSET Both, kind : {"none", "attention", "linear"},
    rows : Seq(Int), size : Nat ]

Attention(l) == [ past : Int, max : Nat, rows : Seq(Int), file : {0, l} ]

Linear ==
  [ ready : BOOLEAN, state : Seq(Int), snapped : BOOLEAN, snapshot : Seq(Int),
    index : -1 .. N - 1 ]

Meta ==
  [ previous : Nat, remove : Nat, flag : {"NoChange", "PendingWrite", "PendingRead"},
    inDisk : Nat, layerIndex : Nat ]

Mode == [ on : BOOLEAN, call : Nat, exist : BOOLEAN, length : Nat ]

Place ==
  [ at : {"idle"} ] \cup [ at : {"clean", "mark"}, step : Nat ]
    \cup [ at : {"layer", "grow"}, step : Nat, decoding : BOOLEAN,
           tail : { <<>>, <<Generated>> } ]

Types ==
  /\ model \in Models /\ prefix \in Prefixes
  /\ disk \in [ Layer -> File ]
  /\ DOMAIN cache = Layer
  /\ \A l \in Layer : cache[l] \in IF model[l] = "attention" THEN Attention(l) ELSE Linear
  /\ meta \in Meta /\ meta.remove <= meta.previous /\ meta.layerIndex < N
  /\ mode \in Mode
  /\ status \in {"RUNNING", "TIMEOUT", "INTERNAL_ERROR"}
  /\ pc \in Place /\ pieces \in Seq(Seq(Int)) /\ told \in Seq(Int)
  /\ session \in BOOLEAN

InForward == pc.at \in {"layer", "grow"}

(* Where a step can be.                                                    *)
Steps ==
  /\ pc.at = "clean" => pc.step \in 1 .. 4 * N /\ mode.on /\ mode.call = 0 /\ ~mode.exist
  /\ pc.at = "mark" => pc.step \in 1 .. 2 * N /\ Writing
  /\ InForward => /\ pc.step \in 1 .. N + 1 /\ status = "RUNNING"
                  /\ pieces # <<>> /\ \A i \in 1 .. Len(pieces) : pieces[i] # <<>>
  /\ pc.at = "grow" => /\ pc.step \in Layer /\ model[pc.step] = "attention"
                       /\ cache[pc.step].file # 0 /\ ~Fresh

(* The plan counts the tokens told, also after a failure, but for a prefix *)
(* that is skipped and not yet loaded.                                     *)
Skipped == mode.on /\ mode.exist /\ mode.call # 0

Counts ==
  /\ meta.previous - meta.remove = IF Skipped THEN 0 ELSE Len(told)
  /\ mode.on /\ mode.call = 0 => told = <<>> /\ ~InForward
  /\ mode.on /\ mode.exist /\ mode.call = 1 => ~InForward
  /\ Skipped /\ mode.call # 1 =>
       mode.call = 2 /\ ((InForward /\ ~pc.decoding) \/ status = "INTERNAL_ERROR")
  /\ meta.flag = "PendingRead" => Skipped /\ mode.call = 2
  /\ Skipped => /\ told = prefix /\ mode.length = Len(told)
                /\ mode.call = 2 => meta.inDisk = Len(told)

(* Nothing is removed and nothing absorbed before the first token, unless  *)
(* a failed forward did and the prompt after it will start afresh.         *)
Empty ==
  (status # "INTERNAL_ERROR" /\ ~Skipped /\ meta.previous = 0) =>
    \A l \in Layer : model[l] = "linear" /\ (InForward => pc.step <= l) =>
      cache[l].state = <<>> \/ (InForward /\ Len(Piece) > 1)

(* setPrefixCacheFile removes what it cannot use before the first prompt.  *)
Cleaned ==
  mode.on /\ mode.call = 0 /\ ~mode.exist =>
    /\ pc.at \in {"clean", "idle"}
    /\ meta.layerIndex = 0 /\ meta.flag = "NoChange"
    /\ \A f \in Layer :
         pc.at = "clean" =>
           /\ pc.step > 4 * (f - 1) + 1 => "k" \notin disk[f].has
           /\ pc.step > 4 * (f - 1) + 2 => "v" \notin disk[f].has
           /\ pc.step > 4 * (f - 1) + 3 => "k" \notin disk[f].sync
           /\ pc.step > 4 * (f - 1) + 4 => "v" \notin disk[f].sync
    /\ pc.at = "idle" => \A f \in Layer : disk[f].has = {} /\ disk[f].sync = {}

(* A mapped file holds the prefix, and the plan keeps it or all is erased. *)
Mapped ==
  (status # "INTERNAL_ERROR" /\ meta.flag # "PendingWrite") =>
    \A l \in Layer :
      model[l] = "attention" /\ cache[l].file # 0 =>
        IF InForward /\ l < pc.step
        THEN /\ cache[l].past = meta.previous - meta.remove + Len(Piece)
             /\ session /\ L <= meta.previous - meta.remove
        ELSE Fresh \/ ( /\ cache[l].past = meta.previous
                       /\ session /\ L <= meta.previous - meta.remove )

(* While a prefix is written.  The first k chunks of a prompt.             *)
LastOf(ids, k) == IF k * Block < Len(ids) THEN k * Block ELSE Len(ids)
Cut(ids, k) == SubSeq(ids, 1, LastOf(ids, k))

(* What a file holds, or will hold again when it is enlarged.              *)
Content(l) == IF pc.at = "grow" /\ pc.step = l THEN cache[l].rows ELSE disk[l].rows

Holds(l, rows) ==
  /\ disk[l].has = Both /\ disk[l].kind = model[l] /\ Content(l) = rows
  /\ IF model[l] = "attention" THEN cache[l].file = l /\ cache[l].past = Len(rows)
     ELSE cache[l].state = rows /\ cache[l].index = l - 1

WritesPieces ==
  LET n == Len(Chunks(prefix))
  IN /\ Len(pieces) \in 1 .. n
     /\ \A i \in 1 .. Len(pieces) : pieces[i] = Chunks(prefix)[n - Len(pieces) + i]
     /\ told = Cut(prefix, n - Len(pieces))
     /\ pc.tail # <<>> => Len(pieces) = 1

Written ==
  meta.flag = "PendingWrite" =>
    /\ Writing /\ InForward /\ ~pc.decoding /\ session
    /\ \A f \in Layer : disk[f].sync = {}
    /\ WritesPieces
    /\ told # <<>> => meta.remove = 0
    /\ HasLinear /\ told = <<>> /\ Len(Piece) = 1 => meta.previous = 0
    /\ meta.layerIndex = IF told = <<>> /\ pc.step <= N THEN pc.step - 1 ELSE 0
    /\ \A l \in Layer :
         IF l < pc.step THEN Holds(l, told \o Piece)
         ELSE IF told = <<>> THEN disk[l].has = {} ELSE Holds(l, told)

Begins(rows) == L <= Len(rows) /\ \A i \in 1 .. L : rows[i] = prefix[i]

(* The files that can be used, or are to be marked, hold the prefix, or    *)
(* their sizes tell that they do not and nobody has mapped them.           *)
Whole(l) ==
  /\ disk[l].kind = model[l]
  /\ IF model[l] = "attention"
     THEN Begins(Content(l))
     ELSE Content(l) = prefix

Present == \A f \in Layer : disk[f].has = Both
Marked == \A f \in Layer : disk[f].sync = Both

Broken ==
  /\ ~HasLinear /\ ~SizesAgree
  /\ \A l \in Layer : cache[l].file = 0

Intact ==
  (meta.flag # "PendingWrite" /\ Present /\ (Writing \/ Marked)) =>
    (\A l \in Layer : Whole(l)) \/ (~Writing /\ Broken)

Inv == Types /\ Steps /\ Counts /\ Empty /\ Cleaned /\ Mapped /\ Written /\ Intact

-----------------------------------------------------------------------------
(* Sequences and chunks.                                                   *)

(* Multiplication by a natural number is monotonic.                        *)
LEMMA Multiples ==
  ASSUME NEW i \in Int, NEW j \in Int, NEW b \in Nat, i <= j
  PROVE  i * b \in Int /\ j * b \in Int /\ i * b <= j * b
<1> DEFINE d == j - i
<1>1. d \in Nat /\ j = i + d
  OBVIOUS
<1>2. (i + d) * b = i * b + d * b /\ i * b \in Int
  BY <1>1
<1>3. d * b \in Nat
  BY <1>1
<1> HIDE DEF d
<1>4. QED
  BY <1>1, <1>2, <1>3

(* The number of chunks a prompt fills or begins.                          *)
LEMMA ChunksOf ==
  ASSUME NEW len \in Nat \ {0}, NEW b \in Nat \ {0},
         NEW n, n = (len + b - 1) \div b
  PROVE  n \in Nat \ {0} /\ (n - 1) * b < len /\ len <= n * b
<1>1. PICK x \in Nat : x = len + b - 1
  OBVIOUS
<1>2. n \in Int /\ b * n <= x /\ x < b * n + b
  BY <1>1, SMTT(30)
<1>3. n * b = b * n /\ b * n \in Int
  BY <1>2
<1>4. (n - 1) * b = n * b - b
  BY <1>2
<1>5. (n - 1) * b < len /\ len <= n * b
  BY <1>1, <1>2, <1>3, <1>4
<1>6. n > 0
  <2> SUFFICES ASSUME n <= 0 PROVE FALSE
    BY <1>2
  <2>1. n * b <= 0 * b
    BY <1>2, Multiples
  <2>2. QED
    BY <1>3, <1>5, <2>1
<1>7. QED
  BY <1>2, <1>5, <1>6

(* What SubSeq takes of a sequence.                                        *)
LEMMA SliceOf ==
  ASSUME NEW s \in Seq(Int), NEW m \in Nat \ {0}, NEW n \in 0 .. Len(s), m <= n + 1
  PROVE  /\ SubSeq(s, m, n) \in Seq(Int)
         /\ Len(SubSeq(s, m, n)) = n - m + 1
         /\ \A i \in 1 .. n - m + 1 : SubSeq(s, m, n)[i] = s[m + i - 1]
<1>1. Len(s) \in Nat /\ m \in 1 .. Len(s) + 1 /\ n \in m - 1 .. Len(s)
  BY LenProperties
<1>2. QED
  BY <1>1, SubSeqProperties

(* The place of a chunk in its prompt.                                     *)
LEMMA ChunkPlace ==
  ASSUME NEW ids \in Seq(Int), ids # <<>>,
         NEW i \in 1 .. (Len(ids) + Block - 1) \div Block
  PROVE  /\ (Len(ids) + Block - 1) \div Block \in Nat \ {0}
         /\ LastOf(ids, i) \in 1 .. Len(ids) /\ LastOf(ids, i - 1) \in 0 .. Len(ids)
         /\ LastOf(ids, i - 1) < LastOf(ids, i)
         /\ LastOf(ids, i - 1) = (i - 1) * Block
         /\ i = (Len(ids) + Block - 1) \div Block => LastOf(ids, i) = Len(ids)
<1> DEFINE n == (Len(ids) + Block - 1) \div Block
<1>1. Len(ids) \in Nat \ {0} /\ Block \in Nat \ {0}
  BY PrefixCacheAssumption, EmptySeq
<1>2. n \in Nat \ {0} /\ (n - 1) * Block < Len(ids) /\ Len(ids) <= n * Block
  BY <1>1, ChunksOf
<1> HIDE DEF n
<1>3. i \in 1 .. n
  BY DEF n
<1>4. (i - 1) * Block = i * Block - Block /\ 0 * Block = 0 /\ i * Block \in Int
  BY <1>1, <1>3
<1>5. /\ 0 * Block <= (i - 1) * Block
      /\ (i - 1) * Block \in Int /\ (i - 1) * Block <= (n - 1) * Block
      /\ (n - 1) * Block \in Int
  BY <1>1, <1>2, <1>3, Multiples
<1>6. PICK x \in Int, y \in Int, len \in Int, b \in Int :
        x = (i - 1) * Block /\ y = i * Block /\ len = Len(ids) /\ b = Block
  BY <1>1, <1>4, <1>5
<1>7. 0 <= x /\ x < len /\ y = x + b /\ b > 0
  <2>1. 0 <= (i - 1) * Block
    BY <1>4, <1>5
  <2>2. (i - 1) * Block < Len(ids)
    BY <1>1, <1>2, <1>5, SMTT(30)
  <2>3. x = y - b /\ b > 0
    BY <1>1, <1>4, <1>6
  <2>4. QED
    BY <1>6, <2>1, <2>2, <2>3
<1>8. /\ LastOf(ids, i) = IF y < len THEN y ELSE len
      /\ LastOf(ids, i - 1) = IF x < len THEN x ELSE len
  BY <1>6 DEF LastOf
<1>9. i = n => y >= len
  BY <1>2, <1>6
<1>10. n \in Nat \ {0} /\ (i = n => LastOf(ids, i) = len)
  BY <1>2, <1>7, <1>8, <1>9
<1>11. QED
  BY <1>6, <1>7, <1>8, <1>10 DEF n

(* A prompt is cut in chunks, none of which is empty.                      *)
LEMMA ChunksType ==
  ASSUME NEW ids \in Seq(Int), ids # <<>>
  PROVE  /\ Chunks(ids) \in Seq(Seq(Int)) /\ Chunks(ids) # <<>>
         /\ Len(Chunks(ids)) = (Len(ids) + Block - 1) \div Block
         /\ Len(Chunks(ids)) \in Nat \ {0}
         /\ \A i \in 1 .. Len(Chunks(ids)) :
              /\ Chunks(ids)[i] = SubSeq(ids, LastOf(ids, i - 1) + 1, LastOf(ids, i))
              /\ Chunks(ids)[i] \in Seq(Int) /\ Chunks(ids)[i] # <<>>
<1> DEFINE n == (Len(ids) + Block - 1) \div Block
           chunk(i) == SubSeq(ids, (i - 1) * Block + 1, LastOf(ids, i))
           c == [ i \in 1 .. n |-> chunk(i) ]
<1>1. Len(ids) \in Nat \ {0} /\ Block \in Nat \ {0}
  BY PrefixCacheAssumption, EmptySeq
<1>2. n \in Nat \ {0}
  BY <1>1, ChunksOf
<1>3. Chunks(ids) = c
  BY DEF Chunks, LastOf
<1>4. ASSUME NEW i \in 1 .. n
      PROVE  /\ chunk(i) = SubSeq(ids, LastOf(ids, i - 1) + 1, LastOf(ids, i))
             /\ chunk(i) \in Seq(Int) /\ chunk(i) # <<>>
  <2> DEFINE from == LastOf(ids, i - 1)
             to == LastOf(ids, i)
  <2>1. /\ to \in 1 .. Len(ids) /\ from \in 0 .. Len(ids) /\ from < to
        /\ from = (i - 1) * Block
    BY ChunkPlace
  <2>2. chunk(i) = SubSeq(ids, from + 1, to)
    BY <2>1
  <2> HIDE DEF from, to
  <2>3. SubSeq(ids, from + 1, to) \in Seq(Int) /\ Len(SubSeq(ids, from + 1, to)) = to - from
    BY <1>1, <2>1, SliceOf, SMTT(30)
  <2>4. to - from # 0
    BY <1>1, <2>1
  <2>5. SubSeq(ids, from + 1, to) # <<>>
    BY <2>3, <2>4, EmptySeq
  <2>6. QED
    BY <2>2, <2>3, <2>5 DEF from, to
<1> HIDE DEF n, chunk
<1>5. c \in Seq(Seq(Int)) /\ Len(c) = n
  BY <1>2, <1>4
<1>6. c # <<>>
  BY <1>2, <1>5, EmptySeq
<1>7. QED
  BY <1>2, <1>3, <1>4, <1>5, <1>6 DEF n

(* The chunks, joined one by one, are prefixes of the prompt.              *)
LEMMA SlicesJoin ==
  ASSUME NEW s \in Seq(Int), NEW m \in 0 .. Len(s), NEW n \in 0 .. Len(s), m <= n
  PROVE  SubSeq(s, 1, m) \o SubSeq(s, m + 1, n) = SubSeq(s, 1, n)
<1> DEFINE a == SubSeq(s, 1, m)
           b == SubSeq(s, m + 1, n)
           c == SubSeq(s, 1, n)
<1>1. Len(s) \in Nat
  BY LenProperties
<1>2. a \in Seq(Int) /\ Len(a) = m /\ \A i \in 1 .. m : a[i] = s[i]
  BY <1>1, SliceOf
<1>3. c \in Seq(Int) /\ Len(c) = n /\ \A i \in 1 .. n : c[i] = s[i]
  BY <1>1, SliceOf
<1>4. b \in Seq(Int) /\ Len(b) = n - m /\ \A i \in 1 .. n - m : b[i] = s[m + i]
  <2>1. m + 1 \in Nat \ {0} /\ m + 1 <= n + 1
    BY <1>1
  <2>2. /\ b \in Seq(Int) /\ Len(b) = n - (m + 1) + 1
        /\ \A i \in 1 .. n - (m + 1) + 1 : b[i] = s[m + 1 + i - 1]
    BY <2>1, SliceOf
  <2> HIDE DEF b
  <2>3. QED
    BY <1>1, <2>2
<1> HIDE DEF a, b, c
<1>5. /\ a \o b \in Seq(Int) /\ Len(a \o b) = n
      /\ \A i \in 1 .. n : (a \o b)[i] = IF i <= m THEN a[i] ELSE b[i - m]
  <2>1. /\ a \o b \in Seq(Int) /\ Len(a \o b) = Len(a) + Len(b)
        /\ \A i \in 1 .. Len(a) + Len(b) :
             (a \o b)[i] = IF i <= Len(a) THEN a[i] ELSE b[i - Len(a)]
    BY <1>2, <1>4, ConcatProperties
  <2>2. Len(a) + Len(b) = n
    BY <1>1, <1>2, <1>4
  <2>3. QED
    BY <1>2, <2>1, <2>2
<1>6. ASSUME NEW i \in 1 .. n
      PROVE  (a \o b)[i] = c[i]
  <2>1. (a \o b)[i] = (IF i <= m THEN a[i] ELSE b[i - m]) /\ c[i] = s[i]
    BY <1>3, <1>5
  <2>2. CASE i <= m
    <3>1. i \in 1 .. m
      BY <1>1, <2>2
    <3>2. a[i] = s[i]
      BY <1>2, <3>1
    <3>3. QED
      BY <2>1, <2>2, <3>2
  <2>3. CASE ~(i <= m)
    <3>1. i - m \in 1 .. n - m /\ m + (i - m) = i
      BY <1>1, <2>3
    <3>2. b[i - m] = s[i]
      BY <1>4, <3>1
    <3>3. QED
      BY <2>1, <2>3, <3>2
  <2>4. QED
    BY <2>2, <2>3
<1>7. a \o b = c
  BY <1>3, <1>5, <1>6, SeqEqual
<1>8. QED
  BY <1>7 DEF a, b, c

(* Each chunk continues the ones before it, up to the whole prompt.        *)
LEMMA CutJoins ==
  ASSUME NEW ids \in Seq(Int), ids # <<>>
  PROVE  /\ Cut(ids, 0) = <<>>
         /\ \A k \in 1 .. Len(Chunks(ids)) : Cut(ids, k - 1) \o Chunks(ids)[k] = Cut(ids, k)
         /\ Cut(ids, Len(Chunks(ids))) = ids
<1> DEFINE n == Len(Chunks(ids))
<1>1. /\ n = (Len(ids) + Block - 1) \div Block /\ n \in Nat \ {0}
      /\ \A i \in 1 .. n :
           Chunks(ids)[i] = SubSeq(ids, LastOf(ids, i - 1) + 1, LastOf(ids, i))
  BY ChunksType
<1> HIDE DEF n
<1>2. Len(ids) \in Nat
  BY LenProperties
<1>3. Cut(ids, 0) = <<>>
  <2>1. 1 \in 1 .. n /\ 1 - 1 = 0 /\ 0 * Block = 0
    BY <1>1, PrefixCacheAssumption
  <2>2. LastOf(ids, 0) = 0 * Block
    BY <1>1, <2>1, ChunkPlace
  <2>3. LastOf(ids, 0) = 0 /\ 1 <= 0 + 1
    BY <2>1, <2>2
  <2>4. SubSeq(ids, 1, 0) \in Seq(Int) /\ Len(SubSeq(ids, 1, 0)) = 0
    BY <1>2, SliceOf
  <2>5. SubSeq(ids, 1, 0) = <<>>
    BY <2>4, EmptySeq
  <2>6. QED
    BY <2>3, <2>5 DEF Cut
<1>4. ASSUME NEW k \in 1 .. n
      PROVE  Cut(ids, k - 1) \o Chunks(ids)[k] = Cut(ids, k)
  <2>1. /\ LastOf(ids, k - 1) \in 0 .. Len(ids) /\ LastOf(ids, k) \in 0 .. Len(ids)
        /\ LastOf(ids, k - 1) <= LastOf(ids, k)
    BY <1>1, <1>2, ChunkPlace
  <2>2. SubSeq(ids, 1, LastOf(ids, k - 1)) \o SubSeq(ids, LastOf(ids, k - 1) + 1, LastOf(ids, k))
        = SubSeq(ids, 1, LastOf(ids, k))
    BY <2>1, SlicesJoin
  <2>3. QED
    BY <1>1, <2>2 DEF Cut
<1>5. Cut(ids, n) = ids
  <2>1. n \in 1 .. n
    BY <1>1
  <2>2. LastOf(ids, n) = Len(ids)
    BY <1>1, <2>1, ChunkPlace
  <2>3. SubSeq(ids, 1, Len(ids)) = ids
    BY SubSeqFull
  <2>4. QED
    BY <2>2, <2>3 DEF Cut
<1>6. QED
  BY <1>3, <1>4, <1>5 DEF n

(* Rows kept, padded with blanks.                                          *)
LEMMA KeptRows ==
  ASSUME NEW rows \in Seq(Int), NEW n \in Int
  PROVE  /\ Kept(rows, n) \in Seq(Int)
         /\ n >= 0 => Len(Kept(rows, n)) = n
         /\ \A i \in 1 .. n : Kept(rows, n)[i] = IF i <= Len(rows) THEN rows[i] ELSE Blank
<1>1. Len(rows) \in Nat /\ \A i \in 1 .. Len(rows) : rows[i] \in Int
  BY LenProperties, ElementOfSeq
<1>2. Blank \in Int
  BY DEF Blank
<1>3. CASE n >= 0
  BY <1>1, <1>2, <1>3 DEF Kept
<1>4. CASE n < 0
  <2>1. 1 .. n = 1 .. 0 /\ 0 \in Nat
    BY <1>4
  <2>2. Kept(rows, n) \in [1 .. 0 -> Int]
    BY <1>1, <1>2, <2>1 DEF Kept
  <2>3. QED
    BY <1>1, <1>4, <2>1, <2>2
<1>5. QED
  BY <1>3, <1>4

(* Rows that were kept whole are the rows.                                 *)
LEMMA KeptAll ==
  ASSUME NEW rows \in Seq(Int), NEW n, n = Len(rows)
  PROVE  Kept(rows, n) = rows
<1>1. Len(rows) \in Nat
  BY LenProperties
<1>2. /\ Kept(rows, n) \in Seq(Int) /\ Len(Kept(rows, n)) = n
      /\ \A i \in 1 .. n : Kept(rows, n)[i] = rows[i]
  <2>1. n \in Int /\ n >= 0
    BY <1>1
  <2>2. /\ Kept(rows, n) \in Seq(Int) /\ Len(Kept(rows, n)) = n
        /\ \A i \in 1 .. n : Kept(rows, n)[i] = IF i <= Len(rows) THEN rows[i] ELSE Blank
    BY <2>1, KeptRows
  <2>3. \A i \in 1 .. n : i <= Len(rows)
    BY <1>1
  <2>4. QED
    BY <2>2, <2>3
<1>3. QED
  BY <1>1, <1>2, SeqEqual

(* Rows behind the prefix that are dropped or added leave the prefix.      *)
LEMMA AppendBegins ==
  ASSUME prefix \in Seq(Int), NEW rows \in Seq(Int), NEW piece \in Seq(Int), NEW p \in Nat,
         L <= p, Begins(rows)
  PROVE  Begins(Kept(rows, p) \o piece)
<1> DEFINE k == Kept(rows, p)
           r == k \o piece
<1>1. Len(prefix) \in Nat /\ Len(rows) \in Nat /\ Len(piece) \in Nat
  BY LenProperties
<1>2. /\ k \in Seq(Int) /\ Len(k) = p
      /\ \A i \in 1 .. p : k[i] = IF i <= Len(rows) THEN rows[i] ELSE Blank
  BY KeptRows
<1> HIDE DEF k
<1>3. /\ Len(r) = Len(k) + Len(piece)
      /\ \A i \in 1 .. Len(k) + Len(piece) : r[i] = IF i <= Len(k) THEN k[i] ELSE piece[i - Len(k)]
  BY <1>2, ConcatProperties
<1> HIDE DEF r
<1>4. L <= Len(r)
  BY <1>1, <1>2, <1>3 DEF L
<1>5. ASSUME NEW i \in 1 .. L
      PROVE  r[i] = prefix[i]
  <2>1. i \in 1 .. p /\ i \in 1 .. Len(k) + Len(piece) /\ i <= Len(rows)
    BY <1>1, <1>2 DEF L, Begins
  <2>2. r[i] = k[i] /\ k[i] = rows[i]
    BY <1>2, <1>3, <2>1
  <2>3. QED
    BY <2>2 DEF Begins
<1>6. QED
  BY <1>4, <1>5 DEF Begins, r, k

-----------------------------------------------------------------------------
(* What the types say.                                                     *)

(* There is a layer, the prefix is not empty, and layers are of two kinds. *)
LEMMA Sizes ==
  ASSUME model \in Models, prefix \in Prefixes
  PROVE  /\ N \in Nat \ {0} /\ Layer = 1 .. N /\ Cardinality(Layer) = N
         /\ prefix \in Seq(Int) /\ prefix # <<>> /\ L \in Nat \ {0}
         /\ \A l \in Layer : model[l] \in {"attention", "linear"}
<1>1. /\ model \in Seq({"attention", "linear"}) /\ model # <<>>
      /\ prefix \in Seq(Int) /\ prefix # <<>>
  BY PrefixCacheAssumption
<1>2. N \in Nat \ {0} /\ L \in Nat \ {0}
  BY <1>1, EmptySeq DEF N, L
<1>3. Layer = 1 .. N /\ \A l \in Layer : model[l] \in {"attention", "linear"}
  BY <1>1, LenProperties, ElementOfSeq DEF N, Layer
<1>4. Cardinality(1 .. N) = N
  BY <1>2, FS_Interval
<1>5. QED
  BY <1>1, <1>2, <1>3, <1>4

Going ==
  [ at : {"layer", "grow"}, step : Nat, decoding : BOOLEAN, tail : { <<>>, <<Generated>> } ]

(* A place inside a forward.                                               *)
LEMMA ForwardPlace ==
  ASSUME pc \in Place, InForward
  PROVE  pc \in Going
BY DEF Place, InForward, Going

(* Moving within a forward keeps what the forward was started with.        *)
LEMMA GoingOn ==
  ASSUME NEW p \in Going, NEW x \in {"layer", "grow"}, NEW n \in Nat,
         NEW q \in { [p EXCEPT !.at = x, !.step = n], [p EXCEPT !.at = x], [p EXCEPT !.step = n] }
  PROVE  /\ q \in Going /\ q \in Place
         /\ q.at \in {p.at, x} /\ q.step \in {p.step, n}
         /\ q.decoding = p.decoding /\ q.tail = p.tail
BY DEF Going, Place

(* The initial records have their types.                                   *)
LEMMA Beginnings ==
  /\ NoFile \in File /\ NewMeta \in Meta /\ NoPrefix \in Mode
  /\ \A l : EmptyAttention \in Attention(l)
  /\ [at |-> "idle"] \in Place
<1>1. <<>> \in Seq(Int) /\ 0 \in Nat /\ 0 \in Int
  OBVIOUS
<1>2. QED
  BY <1>1 DEF NoFile, File, EmptyLinear, NewMeta, Meta, NoPrefix, Mode, EmptyAttention,
              Attention, Place, Both

(* A new process: nothing is mapped, computed or planned.                  *)
LEMMA Restarted ==
  ASSUME model \in Models, prefix \in Prefixes, NEW d \in [ Layer -> File ], disk' = d,
         model' = model, prefix' = prefix,
         cache' = NewCache(model), meta' = NewMeta, mode' = NoPrefix, status' = "RUNNING",
         pc' = [at |-> "idle"], pieces' = <<>>, told' = <<>>, session' = FALSE
  PROVE  /\ Types' /\ Steps' /\ Counts' /\ Empty' /\ Cleaned' /\ Mapped' /\ Written'
         /\ \A l \in Layer : model[l] = "attention" => cache'[l].file = 0
<1>1. /\ N \in Nat \ {0} /\ Layer = 1 .. N /\ Layer' = Layer /\ N' = N
      /\ \A l \in Layer : model[l] \in {"attention", "linear"}
  BY Sizes DEF N, Layer
<1>2. DOMAIN cache' = Layer
      /\ \A l \in Layer : cache'[l] = IF model[l] = "linear" THEN EmptyLinear ELSE EmptyAttention
  BY DEF NewCache, Layer
<1>3. EmptyLinear \in Linear'
  <2>1. -1 \in -1 .. N - 1 /\ <<>> \in Seq(Int)
    BY <1>1
  <2>2. QED
    BY <1>1, <2>1 DEF EmptyLinear, Linear
<1>4. Types'
  <2>1. \A l \in Layer' : cache'[l] \in IF model'[l] = "attention" THEN Attention(l) ELSE Linear'
    BY <1>1, <1>2, <1>3, Beginnings
  <2>2. meta' \in Meta /\ meta'.remove <= meta'.previous /\ meta'.layerIndex < N'
    BY <1>1, Beginnings DEF NewMeta
  <2>3. pieces' \in Seq(Seq(Int)) /\ told' \in Seq(Int)
    OBVIOUS
  <2>4. QED
    BY <1>1, <1>2, <2>1, <2>2, <2>3, Beginnings DEF Types
<1>5. Steps' /\ Counts' /\ Cleaned' /\ Written'
  BY DEF Steps, Counts, Cleaned, Written, InForward, Skipped, NewMeta, NoPrefix
<1>6. Empty' /\ Mapped'
  BY <1>1, <1>2 DEF Empty, Mapped, EmptyLinear, EmptyAttention, InForward
<1>7. QED
  BY <1>1, <1>2, <1>4, <1>5, <1>6 DEF EmptyAttention

(* The first process finds no files.                                       *)
LEMMA InvInit == Init => Inv
<1> SUFFICES ASSUME Init PROVE Inv
  OBVIOUS
<1>1. model \in Models /\ prefix \in Prefixes
  BY DEF Init
<1>2. N \in Nat \ {0} /\ Layer = 1 .. N /\ \A l \in Layer : model[l] \in {"attention", "linear"}
  BY <1>1, Sizes
<1>3. DOMAIN cache = Layer
      /\ \A l \in Layer : cache[l] = IF model[l] = "linear" THEN EmptyLinear ELSE EmptyAttention
  BY DEF Init, NewCache, Layer
<1>4. EmptyLinear \in Linear
  <2>1. -1 \in -1 .. N - 1 /\ <<>> \in Seq(Int)
    BY <1>2
  <2>2. QED
    BY <2>1 DEF EmptyLinear, Linear
<1>5. Types
  <2>1. \A l \in Layer : cache[l] \in IF model[l] = "attention" THEN Attention(l) ELSE Linear
    BY <1>2, <1>3, <1>4, Beginnings
  <2>2. meta \in Meta /\ meta.remove <= meta.previous /\ meta.layerIndex < N
    BY <1>2, Beginnings DEF NewMeta, Init
  <2>3. pieces \in Seq(Seq(Int)) /\ told \in Seq(Int)
    BY DEF Init
  <2>4. disk \in [ Layer -> File ]
    BY Beginnings DEF Init, Layer
  <2>5. QED
    BY <1>1, <1>3, <2>1, <2>2, <2>3, <2>4, Beginnings DEF Types, Init
<1>6. Steps /\ Counts /\ Cleaned /\ Written
  BY DEF Steps, Counts, Cleaned, Written, InForward, Skipped, NewMeta, NoPrefix, Init
<1>7. Empty /\ Mapped
  BY <1>2, <1>3 DEF Empty, Mapped, EmptyLinear, EmptyAttention, InForward, Init
<1>8. ~Present
  <2>1. 1 \in Layer /\ disk[1].has = {}
    BY <1>2 DEF Init, NoFile, Layer
  <2>2. QED
    BY <2>1 DEF Present, Both
<1>9. QED
  BY <1>5, <1>6, <1>7, <1>8 DEF Inv, Intact

(* A step that leaves the files whole, and marks only what is whole,       *)
(* leaves them intact.                                                     *)
LEMMA WholeStays ==
  ASSUME Intact, UNCHANGED model,
         \A l \in Layer : disk'[l].has = disk[l].has /\ (Whole(l) => Whole(l)'),
         meta'.flag # "PendingWrite" => meta.flag # "PendingWrite",
         Writing' => Writing, Marked' => Marked \/ Writing,
         ~Writing /\ Broken => Broken'
  PROVE  Intact'
<1>1. Layer' = Layer
  BY DEF Layer
<1>2. Present' => Present
  BY <1>1 DEF Present
<1>3. QED
  BY <1>1, <1>2 DEF Intact

(* The same for a step that leaves kinds and contents alone.               *)
LEMMA FilesStay ==
  ASSUME Intact, UNCHANGED << model, prefix >>,
         \A l \in Layer : /\ disk'[l].has = disk[l].has /\ disk'[l].kind = disk[l].kind
                          /\ Content(l)' = Content(l),
         meta'.flag # "PendingWrite" => meta.flag # "PendingWrite",
         Writing' => Writing, Marked' => Marked \/ Writing,
         ~Writing /\ Broken => Broken'
  PROVE  Intact'
<1>1. L' = L
  BY DEF L
<1>2. ASSUME NEW l \in Layer, Whole(l)
      PROVE  Whole(l)'
  BY <1>1, <1>2 DEF Whole, Begins
<1>3. QED
  BY <1>2, WholeStays

(* Between calls the plan does not write, and loads nothing unless the     *)
(* prompt that should load the prefix has failed.                          *)
LEMMA Idle ==
  ASSUME Inv, pc.at = "idle"
  PROVE  /\ meta.flag # "PendingWrite" /\ ~InForward
         /\ status # "INTERNAL_ERROR" \/ told = <<>> => meta.flag = "NoChange"
<1>1. ~InForward
  BY DEF InForward
<1>2. meta.flag # "PendingWrite"
  BY <1>1 DEF Inv, Written
<1>3. prefix # <<>>
  BY Sizes DEF Inv, Types
<1>4. meta.flag = "PendingRead" => Skipped /\ mode.call = 2
  BY DEF Inv, Counts
<1>5. Skipped => told = prefix /\ (mode.call = 2 => status = "INTERNAL_ERROR")
  BY <1>1 DEF Inv, Counts
<1>6. status # "INTERNAL_ERROR" \/ told = <<>> => meta.flag # "PendingRead"
  BY <1>3, <1>4, <1>5
<1>7. QED
  BY <1>1, <1>2, <1>6 DEF Inv, Types, Meta

(* A prompt after a failure finds everything erased, and nothing skipped.  *)
LEMMA Recovered ==
  ASSUME Survivable, Inv, pc.at = "idle", Recovers
  PROVE  /\ meta.flag = "NoChange" /\ ~InForward
         /\ status = "INTERNAL_ERROR" =>
              told = <<>> /\ ~Skipped /\ meta.remove = meta.previous /\ Fresh
<1>1. status = "INTERNAL_ERROR" => told = <<>>
  BY DEF Recovers, Failed, Survivable
<1>2. meta.flag = "NoChange" /\ ~InForward
  BY <1>1, Idle
<1>3. /\ meta.previous \in Nat /\ meta.remove \in Nat /\ prefix # <<>>
      /\ meta.previous - meta.remove = IF Skipped THEN 0 ELSE Len(told)
      /\ Skipped => told = prefix
  BY Sizes DEF Inv, Types, Meta, Counts
<1>4. told = <<>> => meta.remove = meta.previous /\ ~Skipped
  BY <1>3
<1>5. QED
  BY <1>1, <1>2, <1>4 DEF Fresh

-----------------------------------------------------------------------------
(* The calls, and the kill of the process.                                 *)

(* A kill at any step leaves files that are whole or tell they are not.    *)
LEMMA RestartInv ==
  ASSUME Survivable, Inv, Restart
  PROVE  Inv'
<1>1. /\ N \in Nat \ {0} /\ Layer = 1 .. N /\ Layer' = Layer
      /\ disk \in [ Layer -> File ] /\ model \in Models /\ prefix \in Prefixes
      /\ \A l \in Layer : model[l] \in {"attention", "linear"}
  BY Sizes DEF Inv, Types, Restart, Layer
<1>2. /\ model' = model /\ prefix' = prefix /\ disk' = disk /\ cache' = NewCache(model)
      /\ meta' = NewMeta /\ mode' = NoPrefix /\ status' = "RUNNING" /\ pc' = [at |-> "idle"]
      /\ pieces' = <<>> /\ told' = <<>> /\ session' = FALSE
  BY DEF Restart
<1>3. /\ Types' /\ Steps' /\ Counts' /\ Empty' /\ Cleaned' /\ Mapped' /\ Written'
      /\ \A l \in Layer : model[l] = "attention" => cache'[l].file = 0
  BY <1>1, <1>2, Restarted
<1>4. ~Writing' /\ pc'.at = "idle"
  BY <1>2 DEF Writing, NoPrefix
<1>5. Intact'
  <2> SUFFICES ASSUME Present', Marked' PROVE (\A l \in Layer : Whole(l)') \/ Broken'
    BY <1>1, <1>4 DEF Intact
  <2>1. Present /\ Marked
    BY <1>1, <1>2 DEF Present, Marked
  <2>2. meta.flag # "PendingWrite"
    <3>1. 1 \in Layer /\ disk[1].sync = Both
      BY <1>1, <2>1 DEF Marked
    <3>2. QED
      BY <3>1 DEF Inv, Written, Both
  <2>3. (\A l \in Layer : Whole(l)) \/ Broken
    BY <2>1, <2>2 DEF Inv, Intact
  <2>4. HasLinear' = HasLinear /\ SizesAgree' = SizesAgree
    BY <1>1, <1>2 DEF HasLinear, SizesAgree, Layer
  <2>5. CASE pc.at = "grow"
    <3>1. ~HasLinear /\ ~SizesAgree
      BY <2>5 DEF Restart, Survivable
    <3>2. \A l \in Layer : model[l] = "attention"
      BY <1>1, <3>1 DEF HasLinear
    <3>3. QED
      BY <1>1, <1>3, <2>4, <3>1, <3>2 DEF Broken
  <2>6. CASE pc.at # "grow"
    <3>1. CASE Broken
      <4>1. \A l \in Layer : model[l] = "attention"
        BY <1>1, <3>1 DEF HasLinear, Broken
      <4>2. QED
        BY <1>1, <1>3, <2>4, <3>1, <4>1 DEF Broken
    <3>2. CASE \A l \in Layer : Whole(l)
      <4>1. ASSUME NEW l \in Layer
            PROVE  Whole(l)'
        <5>1. Content(l)' = Content(l)
          BY <1>2, <1>4, <2>6 DEF Content
        <5>2. Whole(l)
          BY <3>2
        <5>3. QED
          BY <1>2, <5>1, <5>2 DEF Whole, Begins, L
      <4>2. QED
        BY <4>1
    <3>3. QED
      BY <2>3, <3>1, <3>2
  <2>7. QED
    BY <2>5, <2>6
<1>6. QED
  BY <1>3, <1>5 DEF Inv

(* What setPrefixCacheFile accepts is whole; the rest is to be removed.    *)
LEMMA SetPrefixCacheFileInv ==
  ASSUME Survivable, Inv, SetPrefixCacheFile
  PROVE  Inv'
<1>1. /\ N \in Nat \ {0} /\ Layer = 1 .. N
      /\ UNCHANGED << model, prefix, disk, cache, meta, status, pieces, told, session >>
      /\ pc.at = "idle" /\ told = <<>> /\ meta.layerIndex = 0
      /\ mode' = [NoPrefix EXCEPT !.on = TRUE, !.exist = Usable]
      /\ pc' = IF Usable THEN pc ELSE [at |-> "clean", step |-> 1]
  BY Sizes DEF Inv, Types, SetPrefixCacheFile, Survivable
<1>2. meta.flag = "NoChange" /\ ~InForward
  BY <1>1, Idle
<1>3. /\ mode' \in Mode /\ mode'.on /\ mode'.call = 0 /\ mode'.exist = Usable
  <2>1. Usable \in BOOLEAN
    BY DEF Usable
  <2> DEFINE u == Usable
  <2> HIDE DEF u
  <2>2. [NoPrefix EXCEPT !.on = TRUE, !.exist = u] \in Mode
    BY <2>1 DEF NoPrefix, Mode, u
  <2>3. QED
    BY <1>1, <2>1, <2>2 DEF NoPrefix, u
<1>4. /\ pc' \in Place /\ ~InForward' /\ pc'.at \in {"idle", "clean"}
      /\ pc'.at = "clean" <=> ~Usable
      /\ pc'.at = "clean" => pc'.step = 1
  BY <1>1, <1>2 DEF Place, InForward, Inv, Types
<1>5. Layer' = Layer /\ N' = N /\ L' = L
  BY <1>1 DEF Layer, N, L
<1>6. ~Writing' /\ ~Skipped' /\ ~Skipped /\ meta.previous - meta.remove = 0
  <2>1. prefix # <<>>
    BY Sizes DEF Inv, Types
  <2>2. meta.previous - meta.remove = 0 /\ ~Skipped
    BY <1>1, <2>1 DEF Inv, Counts
  <2>3. QED
    BY <1>3, <2>2 DEF Writing, Skipped
<1>7. Types'
  BY <1>1, <1>3, <1>4, <1>5 DEF Inv, Types, Linear
<1>8. Steps' /\ Counts' /\ Cleaned' /\ Written'
  <2>1. Steps'
    <3>1. 1 \in 1 .. 4 * N
      BY <1>1
    <3>2. QED
      BY <1>3, <1>4, <1>5, <3>1 DEF Steps
  <2>2. Counts'
    BY <1>1, <1>2, <1>4, <1>6 DEF Counts
  <2>3. Cleaned'
    <3>1. \A f \in Layer : ~(1 > 4 * (f - 1) + 1)
      BY <1>1
    <3>2. \A f \in Layer : ~(1 > 4 * (f - 1) + 2) /\ ~(1 > 4 * (f - 1) + 3) /\ ~(1 > 4 * (f - 1) + 4)
      BY <1>1
    <3>3. QED
      BY <1>1, <1>2, <1>3, <1>4, <1>5, <3>1, <3>2 DEF Cleaned
  <2>4. Written'
    BY <1>1, <1>2 DEF Written
  <2>5. QED
    BY <2>1, <2>2, <2>3, <2>4
<1>9. Empty' /\ Mapped'
  BY <1>1, <1>2, <1>4, <1>5, <1>6 DEF Inv, Empty, Mapped, InForward, Fresh
<1>10. Intact'
  <2>1. \A l \in Layer : Content(l)' = Content(l)
    BY <1>1, <1>4 DEF Content
  <2>2. Marked' => Marked
    BY <1>1, <1>5 DEF Marked
  <2>3. Broken => Broken'
    BY <1>1, <1>5 DEF Broken, HasLinear, SizesAgree
  <2>4. QED
    BY <1>1, <1>6, <2>1, <2>2, <2>3, FilesStay DEF Inv
<1>11. QED
  BY <1>7, <1>8, <1>9, <1>10 DEF Inv

(* A step that changes one file.                                           *)
LEMMA FileChanged ==
  ASSUME disk \in [ Layer -> File ], NEW f \in Layer, NEW r \in File,
         disk' = [disk EXCEPT ![f] = r]
  PROVE  /\ disk' \in [ Layer -> File ] /\ disk'[f] = r
         /\ \A g \in Layer : g # f => disk'[g] = disk[g]
OBVIOUS

(* Which file the s-th step of the removal concerns.                       *)
LEMMA FourSteps ==
  ASSUME NEW n \in Nat, NEW s \in 1 .. 4 * n, NEW f, f = (s - 1) \div 4 + 1, NEW j, j = (s - 1) % 4
  PROVE  f \in 1 .. n /\ j \in 0 .. 3 /\ s = 4 * (f - 1) + j + 1 /\ (s % 2 = 1 <=> j \in {0, 2})
OBVIOUS

(* Files are removed one by one, in order, until none is left.             *)
LEMMA CleanInv ==
  ASSUME Inv, Clean
  PROVE  Inv'
<1> DEFINE s == pc.step
           f == (s - 1) \div 4 + 1
           j == (s - 1) % 4
           x == IF s % 2 = 1 THEN "k" ELSE "v"
<1>1. /\ N \in Nat \ {0} /\ Layer = 1 .. N /\ Cardinality(Layer) = N
      /\ UNCHANGED << model, prefix, cache, meta, mode, status, pieces, told, session >>
      /\ pc.at = "clean" /\ pc' = Next4(s, "clean") /\ disk \in [ Layer -> File ]
      /\ s \in 1 .. 4 * N /\ mode.on /\ mode.call = 0 /\ ~mode.exist
  BY Sizes DEF Inv, Types, Clean, Steps
<1>2. f \in Layer /\ j \in 0 .. 3 /\ s = 4 * (f - 1) + j + 1 /\ (s % 2 = 1 <=> j \in {0, 2})
  <2>1. f = (s - 1) \div 4 + 1 /\ j = (s - 1) % 4
    OBVIOUS
  <2> HIDE DEF f, j, s
  <2>2. N \in Nat /\ s \in 1 .. 4 * N
    BY <1>1
  <2>3. f \in 1 .. N /\ j \in 0 .. 3 /\ s = 4 * (f - 1) + j + 1 /\ (s % 2 = 1 <=> j \in {0, 2})
    BY ONLY <2>1, <2>2, FourSteps
  <2>4. QED
    BY <1>1, <2>3
<1>3. disk' = IF j < 2 THEN [disk EXCEPT ![f].has = @ \ {x}] ELSE [disk EXCEPT ![f].sync = @ \ {x}]
  BY DEF Clean
<1>4. x = (IF j \in {0, 2} THEN "k" ELSE "v") /\ x \in Both
  BY <1>2 DEF Both
<1> HIDE DEF x, f, j
<1>5. /\ disk' \in [ Layer -> File ]
      /\ \A g \in Layer : /\ disk'[g].has = IF g = f /\ j < 2 THEN disk[g].has \ {x} ELSE disk[g].has
                          /\ disk'[g].sync = IF g = f /\ j >= 2 THEN disk[g].sync \ {x} ELSE disk[g].sync
  <2> disk[f] \in File
    BY <1>1, <1>2
  <2>1. CASE j < 2
    <3> DEFINE r == [disk[f] EXCEPT !.has = @ \ {x}]
    <3>1. r \in File /\ r.has = disk[f].has \ {x} /\ r.sync = disk[f].sync
      BY DEF File
    <3>2. disk' = [disk EXCEPT ![f] = r]
      BY <1>3, <2>1
    <3> HIDE DEF r
    <3>3. /\ disk' \in [ Layer -> File ] /\ disk'[f] = r
          /\ \A g \in Layer : g # f => disk'[g] = disk[g]
      BY <1>1, <1>2, <3>1, <3>2, FileChanged
    <3>4. j < 2 /\ ~(j >= 2)
      BY <1>2, <2>1
    <3>5. QED
      BY <3>1, <3>3, <3>4
  <2>2. CASE ~(j < 2)
    <3> DEFINE r == [disk[f] EXCEPT !.sync = @ \ {x}]
    <3>1. r \in File /\ r.sync = disk[f].sync \ {x} /\ r.has = disk[f].has
      BY DEF File
    <3>2. disk' = [disk EXCEPT ![f] = r]
      BY <1>3, <2>2
    <3> HIDE DEF r
    <3>3. /\ disk' \in [ Layer -> File ] /\ disk'[f] = r
          /\ \A g \in Layer : g # f => disk'[g] = disk[g]
      BY <1>1, <1>2, <3>1, <3>2, FileChanged
    <3>4. ~(j < 2) /\ j >= 2
      BY <1>2, <2>2
    <3>5. QED
      BY <3>1, <3>3, <3>4
  <2>3. QED
    BY <2>1, <2>2
<1>6. Layer' = Layer /\ N' = N /\ L' = L
  BY <1>1 DEF Layer, N, L
<1>7. /\ pc' \in Place /\ ~InForward' /\ ~InForward
      /\ \/ pc'.at = "clean" /\ pc'.step = s + 1 /\ s < 4 * N
         \/ pc'.at = "idle" /\ s = 4 * N
  <2>1. CASE s < 4 * N
    BY <1>1, <2>1 DEF Next4, Place, InForward
  <2>2. CASE ~(s < 4 * N)
    BY <1>1, <2>2 DEF Next4, Place, InForward
  <2>3. QED
    BY <2>1, <2>2
<1>8. \A g \in Layer :
        /\ s >= 4 * (g - 1) + 1 => "k" \notin disk'[g].has
        /\ s >= 4 * (g - 1) + 2 => "v" \notin disk'[g].has
        /\ s >= 4 * (g - 1) + 3 => "k" \notin disk'[g].sync
        /\ s >= 4 * (g - 1) + 4 => "v" \notin disk'[g].sync
  <2> SUFFICES ASSUME NEW g \in Layer
               PROVE  /\ s >= 4 * (g - 1) + 1 => "k" \notin disk'[g].has
                      /\ s >= 4 * (g - 1) + 2 => "v" \notin disk'[g].has
                      /\ s >= 4 * (g - 1) + 3 => "k" \notin disk'[g].sync
                      /\ s >= 4 * (g - 1) + 4 => "v" \notin disk'[g].sync
    OBVIOUS
  <2>1. /\ s > 4 * (g - 1) + 1 => "k" \notin disk[g].has
        /\ s > 4 * (g - 1) + 2 => "v" \notin disk[g].has
        /\ s > 4 * (g - 1) + 3 => "k" \notin disk[g].sync
        /\ s > 4 * (g - 1) + 4 => "v" \notin disk[g].sync
    BY <1>1 DEF Inv, Cleaned
  <2>2. g \in Int /\ f \in Int /\ j \in Int /\ s \in Int
    BY <1>1, <1>2
  <2>3. /\ s = 4 * (g - 1) + 1 => g = f /\ j = 0
        /\ s = 4 * (g - 1) + 2 => g = f /\ j = 1
        /\ s = 4 * (g - 1) + 3 => g = f /\ j = 2
        /\ s = 4 * (g - 1) + 4 => g = f /\ j = 3
    BY <1>2, <2>2
  <2>4. /\ disk'[g].has = IF g = f /\ j < 2 THEN disk[g].has \ {x} ELSE disk[g].has
        /\ disk'[g].sync = IF g = f /\ j >= 2 THEN disk[g].sync \ {x} ELSE disk[g].sync
    BY <1>5
  <2>5. /\ s = 4 * (g - 1) + 1 => "k" \notin disk'[g].has
        /\ s = 4 * (g - 1) + 2 => "v" \notin disk'[g].has
        /\ s = 4 * (g - 1) + 3 => "k" \notin disk'[g].sync
        /\ s = 4 * (g - 1) + 4 => "v" \notin disk'[g].sync
    BY <1>4, <2>3, <2>4
  <2>6. \A c \in {1, 2, 3, 4} : s >= 4 * (g - 1) + c <=> (s > 4 * (g - 1) + c \/ s = 4 * (g - 1) + c)
    BY <2>2
  <2>7. QED
    BY <2>1, <2>4, <2>5, <2>6
<1>9. Types'
  BY <1>1, <1>5, <1>6, <1>7 DEF Inv, Types, Linear
<1>10. Steps' /\ Counts' /\ Written'
  <2>1. s + 1 \in 1 .. 4 * N \/ s = 4 * N
    BY <1>1
  <2>2. Steps'
    BY <1>1, <1>6, <1>7, <2>1 DEF Steps
  <2>3. Counts'
    BY <1>1, <1>7 DEF Inv, Counts, Skipped
  <2>4. Written'
    BY <1>1, <1>7 DEF Inv, Written
  <2>5. QED
    BY <2>2, <2>3, <2>4
<1>11. Cleaned'
  <2>1. CASE pc'.at = "clean"
    <3>1. pc'.step = s + 1 /\ s \in Int
      BY <1>1, <1>7, <2>1
    <3>2. \A g \in Layer : \A c \in {1, 2, 3, 4} : s + 1 > 4 * (g - 1) + c => s >= 4 * (g - 1) + c
      BY <1>1, <3>1
    <3>3. QED
      BY <1>1, <1>6, <1>8, <2>1, <3>1, <3>2 DEF Inv, Cleaned
  <2>2. CASE pc'.at = "idle"
    <3>1. s = 4 * N
      BY <1>7, <2>2
    <3>2. \A g \in Layer : \A c \in {1, 2, 3, 4} : s >= 4 * (g - 1) + c
      BY <1>1, <3>1
    <3>3. ASSUME NEW g \in Layer
          PROVE  disk'[g].has = {} /\ disk'[g].sync = {}
      <4>1. /\ "k" \notin disk'[g].has /\ "v" \notin disk'[g].has
            /\ "k" \notin disk'[g].sync /\ "v" \notin disk'[g].sync
        BY <1>8, <3>2
      <4>2. disk'[g].has \subseteq Both /\ disk'[g].sync \subseteq Both
        BY <1>5 DEF File
      <4>3. QED
        BY <4>1, <4>2 DEF Both
    <3>4. QED
      BY <1>1, <1>6, <2>2, <3>3 DEF Inv, Cleaned
  <2>3. QED
    BY <1>7, <2>1, <2>2
<1>12. Empty' /\ Mapped'
  BY <1>1, <1>6, <1>7 DEF Inv, Empty, Mapped, Fresh, Skipped
<1>13. Intact'
  <2>1. 1 \in Layer /\ s >= 4 * (1 - 1) + 1
    BY <1>1
  <2>2. "k" \notin disk'[1].has
    BY <1>8, <2>1
  <2>3. QED
    BY <1>6, <2>1, <2>2 DEF Intact, Present, Both
<1>14. QED
  BY <1>9, <1>10, <1>11, <1>12, <1>13 DEF Inv

(* Markers are only set on files that are all whole.                       *)
LEMMA MarkInv ==
  ASSUME Inv, Mark
  PROVE  Inv'
<1> DEFINE s == pc.step
           f == (s + 1) \div 2
           x == IF s % 2 = 1 THEN "k" ELSE "v"
           r == [disk[f] EXCEPT !.sync = IF x \in disk[f].has THEN @ \cup {x} ELSE @]
<1>1. /\ N \in Nat \ {0} /\ Layer = 1 .. N /\ Cardinality(Layer) = N
      /\ UNCHANGED << model, prefix, cache, meta, mode, status, pieces, told, session >>
      /\ pc.at = "mark" /\ disk \in [ Layer -> File ] /\ s \in 1 .. 2 * N /\ Writing
      /\ pc' = IF s < 2 * N THEN [pc EXCEPT !.step = @ + 1] ELSE [at |-> "idle"]
  BY Sizes DEF Inv, Types, Mark, Steps
<1>2. f \in Layer /\ x \in Both
  <2>1. N \in Nat /\ s \in 1 .. 2 * N /\ f = (s + 1) \div 2
    BY <1>1
  <2> HIDE DEF s, f
  <2>2. f \in 1 .. N
    BY ONLY <2>1
  <2>3. QED
    BY <1>1, <2>2 DEF Both
<1>3. disk' = [disk EXCEPT ![f] = r]
  BY DEF Mark
<1>4. disk[f] \in File
  BY <1>1, <1>2
<1> HIDE DEF x, f
<1>5. r \in File /\ r.has = disk[f].has /\ r.kind = disk[f].kind /\ r.rows = disk[f].rows
  <2> DEFINE y == IF x \in disk[f].has THEN disk[f].sync \cup {x} ELSE disk[f].sync
  <2>1. y \in SUBSET Both
    BY <1>2, <1>4 DEF File
  <2>2. r = [disk[f] EXCEPT !.sync = y]
    OBVIOUS
  <2> HIDE DEF y, r
  <2>3. QED
    BY <1>4, <2>1, <2>2 DEF File
<1> HIDE DEF r
<1>6. /\ disk' \in [ Layer -> File ]
      /\ \A l \in Layer : /\ disk'[l].has = disk[l].has /\ disk'[l].kind = disk[l].kind
                          /\ disk'[l].rows = disk[l].rows
  <2>1. /\ disk' \in [ Layer -> File ] /\ disk'[f] = r
        /\ \A g \in Layer : g # f => disk'[g] = disk[g]
    BY <1>1, <1>2, <1>3, <1>5, FileChanged
  <2>2. QED
    BY <1>5, <2>1
<1>7. Layer' = Layer /\ N' = N /\ L' = L
  BY <1>1 DEF Layer, N, L
<1>8. /\ pc' \in Place /\ ~InForward' /\ ~InForward /\ pc'.at # "clean" /\ pc'.at # "grow"
      /\ pc'.at = "mark" => pc'.step = s + 1 /\ s < 2 * N
  <2>1. pc \in [ at : {"clean", "mark"}, step : Nat ]
    BY <1>1 DEF Inv, Types, Place
  <2>2. s \in Nat /\ s + 1 \in Nat
    BY <1>1
  <2>3. CASE s < 2 * N
    BY <1>1, <2>1, <2>2, <2>3 DEF Place, InForward
  <2>4. CASE ~(s < 2 * N)
    BY <1>1, <2>4 DEF Place, InForward
  <2>5. QED
    BY <2>3, <2>4
<1>9. meta.flag # "PendingWrite" /\ Writing' /\ mode.on /\ mode.call = 1 /\ ~mode.exist
  BY <1>1, <1>8 DEF Inv, Written, Writing
<1>10. Types'
  BY <1>1, <1>6, <1>7, <1>8 DEF Inv, Types, Linear
<1>11. Steps' /\ Counts' /\ Written' /\ Cleaned'
  <2>1. s < 2 * N => s + 1 \in 1 .. 2 * N
    BY <1>1
  <2>2. Steps'
    BY <1>1, <1>7, <1>8, <1>9, <2>1 DEF Steps
  <2>3. Counts'
    BY <1>1, <1>8 DEF Inv, Counts, Skipped
  <2>4. Written' /\ Cleaned'
    BY <1>1, <1>9 DEF Written, Cleaned
  <2>5. QED
    BY <2>2, <2>3, <2>4
<1>12. Empty' /\ Mapped'
  BY <1>1, <1>7, <1>8 DEF Inv, Empty, Mapped, Fresh, Skipped
<1>13. Intact'
  <2>1. \A l \in Layer : Content(l)' = Content(l)
    BY <1>1, <1>6, <1>8 DEF Content
  <2>2. QED
    BY <1>1, <1>6, <1>9, <2>1, FilesStay DEF Inv
<1>14. QED
  BY <1>10, <1>11, <1>12, <1>13 DEF Inv

(* What a call that starts a forward does to the place.                    *)
LEMMA ForwardStarts ==
  ASSUME NEW d \in BOOLEAN, NEW t \in { <<>>, <<Generated>> }, pc' = Forward(d, t)
  PROVE  /\ pc' \in Place /\ InForward' /\ pc'.at = "layer" /\ pc'.step = 1
         /\ pc'.decoding = d /\ pc'.tail = t
BY DEF Forward, Place, InForward

(* A call that leaves files, layers and the count of tokens as they are.   *)
LEMMA CallFrame ==
  ASSUME Inv, UNCHANGED << model, prefix, disk, cache >>, pc.at = "idle",
         pc'.at \in {"idle", "layer"}, meta'.flag # "PendingWrite", Writing' => Writing
  PROVE  Intact' /\ Written'
<1>1. meta.flag # "PendingWrite" /\ Layer' = Layer /\ L' = L
  BY Idle DEF Layer, L
<1>2. \A l \in Layer : Content(l)' = Content(l)
  BY DEF Content
<1>3. (Marked' => Marked) /\ (Broken => Broken')
  BY <1>1 DEF Marked, Broken, HasLinear, SizesAgree
<1>4. QED
  BY <1>1, <1>2, <1>3, FilesStay DEF Inv, Written

(* A prefix that is skipped is told and not yet in the plan.               *)
LEMMA SkipPromptInv ==
  ASSUME Survivable, Inv, SkipPrompt
  PROVE  Inv'
<1>1. /\ UNCHANGED << model, prefix, disk, cache, meta, pc, pieces >>
      /\ pc.at = "idle" /\ Recovers /\ status' = "RUNNING" /\ mode.on /\ mode.call = 0 /\ mode.exist
      /\ mode' = [mode EXCEPT !.call = 1, !.length = Len(prefix)]
      /\ told' = prefix /\ session' = TRUE
      /\ mode \in Mode /\ prefix \in Seq(Int)
  BY Sizes DEF Inv, Types, SkipPrompt
<1>2. /\ mode' \in Mode /\ mode'.on /\ mode'.call = 1 /\ mode'.exist /\ mode'.length = Len(prefix)
  <2>1. Len(prefix) \in Nat
    BY <1>1, LenProperties
  <2>2. QED
    BY <1>1, <2>1 DEF Mode
<1>3. Layer' = Layer /\ N' = N /\ L' = L /\ meta.flag = "NoChange" /\ ~InForward /\ ~InForward'
  BY <1>1, Recovered DEF Layer, N, L, InForward
<1>4. ~Writing' /\ Skipped'
  BY <1>2 DEF Writing, Skipped
<1>5. Types'
  BY <1>1, <1>2, <1>3 DEF Inv, Types, Linear
<1>6. Counts'
  <2>1. meta.previous - meta.remove = 0
    <3>1. meta.previous - meta.remove = Len(told) /\ told = <<>>
      BY <1>1 DEF Inv, Counts, Skipped
    <3>2. QED
      BY <3>1
  <2>2. QED
    BY <1>1, <1>2, <1>3, <1>4, <2>1 DEF Counts
<1>7. Steps' /\ Cleaned'
  BY <1>1, <1>2, <1>3 DEF Steps, Cleaned
<1>8. Empty' /\ Mapped'
  <2>1. Fresh'
    <3>1. meta.previous - meta.remove = 0 /\ meta.previous \in Nat /\ meta.remove \in Nat
      BY <1>1 DEF Inv, Counts, Skipped, Types, Meta
    <3>2. QED
      BY <1>1, <3>1 DEF Fresh
  <2>2. QED
    BY <1>3, <1>4, <2>1 DEF Empty, Mapped
<1>9. QED
  BY <1>1, <1>3, <1>4, <1>5, <1>6, <1>7, <1>8, CallFrame DEF Inv

(* A prefix is written where nothing is left of an earlier one.            *)
LEMMA FirstPromptInv ==
  ASSUME Survivable, Inv, NEW tail \in { <<>>, <<Generated>> }, FirstPrompt(tail)
  PROVE  Inv'
<1> DEFINE c == Chunks(prefix)
           n == Len(c)
<1>1. /\ N \in Nat \ {0} /\ Layer = 1 .. N
      /\ UNCHANGED << model, prefix, disk, cache, told >>
      /\ pc.at = "idle" /\ Recovers /\ status' = "RUNNING"
      /\ mode.on /\ mode.call = 0 /\ ~mode.exist
      /\ tail # <<>> => Len(prefix) <= Block
      /\ Followed(Head(c))
      /\ mode' = [mode EXCEPT !.call = 1, !.length = Len(prefix)]
      /\ meta' = [meta EXCEPT !.flag = "PendingWrite"]
      /\ pieces' = c /\ pc' = Forward(FALSE, tail) /\ session' = TRUE
      /\ mode \in Mode /\ meta \in Meta /\ prefix \in Seq(Int) /\ prefix # <<>>
  BY Sizes DEF Inv, Types, FirstPrompt
<1>2. /\ mode' \in Mode /\ mode'.on /\ mode'.call = 1 /\ ~mode'.exist
  <2>1. Len(prefix) \in Nat
    BY <1>1, LenProperties
  <2>2. QED
    BY <1>1, <2>1 DEF Mode
<1>3. /\ meta' \in Meta /\ meta'.flag = "PendingWrite" /\ meta'.previous = meta.previous
      /\ meta'.remove = meta.remove /\ meta'.layerIndex = meta.layerIndex
  BY <1>1 DEF Meta
<1>4. /\ pc' \in Place /\ InForward' /\ pc'.at = "layer" /\ pc'.step = 1
      /\ ~pc'.decoding /\ pc'.tail = tail
  BY <1>1, ForwardStarts
<1>5. /\ Layer' = Layer /\ N' = N /\ L' = L /\ ~InForward /\ Writing' /\ ~Skipped' /\ ~Skipped
  BY <1>1, <1>2, Idle DEF Layer, N, L, Writing, Skipped
<1>6. /\ c \in Seq(Seq(Int)) /\ c # <<>> /\ n \in Nat \ {0}
      /\ n = (Len(prefix) + Block - 1) \div Block
      /\ \A i \in 1 .. n : c[i] \in Seq(Int) /\ c[i] # <<>>
  BY <1>1, ChunksType
<1> HIDE DEF c
<1>7. meta.previous - meta.remove = 0 /\ told = <<>>
  <2>1. meta.previous - meta.remove = Len(told) /\ told = <<>>
    BY <1>1, <1>5 DEF Inv, Counts
  <2>2. QED
    BY <2>1
<1>8. /\ meta.layerIndex = 0
      /\ \A f \in Layer : disk[f].has = {} /\ disk[f].sync = {}
  BY <1>1 DEF Inv, Cleaned
<1>9. Types'
  BY <1>1, <1>2, <1>3, <1>4, <1>5, <1>6 DEF Inv, Types, Linear
<1>10. Steps'
  <2>1. 1 \in 1 .. N + 1
    BY <1>1
  <2>2. QED
    BY <1>1, <1>4, <1>5, <1>6, <2>1 DEF Steps
<1>11. Counts' /\ Cleaned' /\ Mapped'
  <2>1. Len(told') = 0
    BY <1>1, <1>7
  <2>2. QED
    BY <1>1, <1>2, <1>3, <1>5, <1>7, <2>1 DEF Counts, Cleaned, Mapped
<1>12. Empty'
  <2>1. Piece' = Head(c) /\ Len(Head(c)) \in Nat \ {0}
    <3>1. Head(c) = c[1] /\ c[1] \in Seq(Int) /\ c[1] # <<>>
      BY <1>6
    <3>2. QED
      BY <1>1, <3>1, EmptySeq DEF Piece
  <2>2. CASE status = "INTERNAL_ERROR"
    <3>1. HasLinear => Len(Head(c)) # 1
      BY <1>1, <2>2 DEF Followed, Failed, Survivable
    <3>2. Len(Piece') \in Nat /\ Len(Piece') # 0 /\ (HasLinear => Len(Piece') # 1)
      BY <2>1, <3>1, Zenon
    <3>3. \A k \in Nat : k # 0 /\ k # 1 => k > 1
      OBVIOUS
    <3>4. HasLinear => Len(Piece') > 1
      BY <3>2, <3>3, Zenon
    <3>5. InForward' /\ Layer' = Layer /\ model' = model
      BY <1>1, <1>4, <1>5
    <3>6. QED
      BY <3>4, <3>5 DEF Empty, HasLinear
  <2>3. CASE status # "INTERNAL_ERROR"
    BY <1>1, <1>3, <1>5, <2>3 DEF Inv, Empty
  <2>4. QED
    BY <2>2, <2>3
<1>13. Intact'
  BY <1>3 DEF Intact
<1>14. WritesPieces'
  <2>1. Chunks(prefix') = c
    BY <1>1 DEF c
  <2>2. \A i \in 1 .. n : pieces'[i] = c[n - n + i]
    BY <1>1, <1>6
  <2>3. told' = Cut(prefix', n - n)
    <3>1. Cut(prefix, 0) = <<>>
      BY <1>1, CutJoins
    <3>2. n - n = 0
      BY <1>6
    <3>3. QED
      BY <1>1, <1>7, <3>1, <3>2
  <2>4. tail # <<>> => n = 1
    <3>1. Len(prefix) \in Nat \ {0} /\ Block \in Nat \ {0}
      BY <1>1, PrefixCacheAssumption, EmptySeq
    <3>2. (n - 1) * Block < Len(prefix)
      BY <1>6, <3>1, ChunksOf
    <3>3. ASSUME Len(prefix) <= Block, n # 1
          PROVE  FALSE
      <4>1. 1 * Block <= (n - 1) * Block /\ (n - 1) * Block \in Int /\ 1 * Block = Block
        BY <1>6, <3>1, <3>3, Multiples, SMTT(30)
      <4>2. QED
        BY <3>1, <3>2, <3>3, <4>1
    <3>4. QED
      BY <1>1, <3>3
  <2>5. n \in 1 .. n
    BY <1>6
  <2>6. QED
    BY <1>1, <1>4, <2>1, <2>2, <2>3, <2>4, <2>5 DEF WritesPieces
<1>15. Written'
  <2>1. HasLinear' /\ Len(Piece') = 1 => meta'.previous = 0
    <3>1. Piece' = Head(c) /\ HasLinear' = HasLinear
      BY <1>1, <1>5 DEF Piece, HasLinear
    <3>2. ASSUME HasLinear, Len(Head(c)) = 1
          PROVE  ~(meta.remove > 0)
      BY <1>1, <3>2 DEF Followed, Survivable
    <3>3. meta.remove \in Nat /\ meta.previous \in Nat
      BY <1>1 DEF Meta
    <3>4. QED
      BY <1>3, <1>7, <3>1, <3>2, <3>3
  <2>2. meta'.layerIndex = pc'.step - 1 /\ pc'.step <= N
    <3>1. meta'.layerIndex = 0 /\ pc'.step = 1 /\ N \in Nat \ {0}
      BY <1>1, <1>3, <1>4, <1>8
    <3>2. QED
      BY <3>1
  <2>3. \A l \in Layer' : ~(l < pc'.step) /\ disk'[l].has = {} /\ disk'[l].sync = {}
    <3>1. Layer' = 1 .. N /\ N \in Nat /\ pc'.step = 1 /\ disk' = disk
      BY <1>1, <1>4, <1>5
    <3>2. \A l \in Layer' : ~(l < 1)
      BY <3>1
    <3>3. QED
      BY <1>5, <1>8, <3>1, <3>2
  <2>4. QED
    BY <1>1, <1>4, <1>5, <1>7, <1>14, <2>1, <2>2, <2>3 DEF Written
<1>16. QED
  BY <1>9, <1>10, <1>11, <1>12, <1>13, <1>15 DEF Inv

(* A later prompt loads a prefix that was skipped, or goes on.             *)
LEMMA PromptInv ==
  ASSUME Survivable, Inv, NEW ids \in Messages, Prompt(ids)
  PROVE  Inv'
<1> DEFINE c == Chunks(ids)
           n == Len(c)
<1>1. /\ N \in Nat \ {0} /\ Layer = 1 .. N
      /\ UNCHANGED << model, prefix, disk, cache, told >>
      /\ pc.at = "idle" /\ Recovers /\ status' = "RUNNING" /\ (mode.on => mode.call # 0)
      /\ Followed(Head(c))
      /\ session' = (session /\ L <= Len(told))
      /\ mode' = IF mode.on THEN [mode EXCEPT !.call = NextCall] ELSE mode
      /\ meta' = IF mode.on /\ mode.call = 1 /\ mode.exist
                 THEN [meta EXCEPT !.flag = "PendingRead", !.inDisk = mode.length]
                 ELSE meta
      /\ pieces' = c /\ pc' = Forward(FALSE, <<>>)
      /\ mode \in Mode /\ meta \in Meta /\ ids \in Seq(Int) /\ ids # <<>>
  BY Sizes, PrefixCacheAssumption DEF Inv, Types, Prompt, L
<1>2. /\ mode' \in Mode /\ mode'.on = mode.on /\ mode'.exist = mode.exist
      /\ mode'.length = mode.length /\ mode'.call = IF mode.on THEN NextCall ELSE mode.call
      /\ mode.call \in Nat
  <2>1. mode.call \in Nat /\ NextCall \in Nat
    BY <1>1 DEF Mode, NextCall
  <2>2. QED
    BY <1>1, <2>1 DEF Mode
<1>3. /\ pc' \in Place /\ InForward' /\ pc'.at = "layer" /\ pc'.step = 1
      /\ ~pc'.decoding /\ pc'.tail = <<>>
  BY <1>1, ForwardStarts
<1>4. /\ Layer' = Layer /\ N' = N /\ L' = L /\ ~InForward /\ meta.flag = "NoChange"
      /\ status = "INTERNAL_ERROR" => told = <<>> /\ ~Skipped /\ Fresh
  BY <1>1, Recovered DEF Layer, N, L
<1>5. ~Writing' /\ (Skipped => mode.call = 1) /\ Skipped' = Skipped
  <2>1. Skipped => mode.call = 1
    BY <1>4 DEF Inv, Counts
  <2>2. mode.on => mode'.call # 1 /\ mode'.call # 0
    BY <1>1, <1>2 DEF NextCall
  <2>3. QED
    BY <1>1, <1>2, <2>1, <2>2 DEF Writing, Skipped
<1>6. /\ meta' \in Meta /\ meta'.previous = meta.previous /\ meta'.remove = meta.remove
      /\ meta'.layerIndex = meta.layerIndex /\ meta'.flag # "PendingWrite"
      /\ meta'.flag = "PendingRead" => Skipped /\ meta'.inDisk = mode.length
      /\ Skipped => meta'.inDisk = mode.length
  <2>1. CASE mode.on /\ mode.call = 1 /\ mode.exist
    <3>1. mode.length \in Nat
      BY <1>1 DEF Mode
    <3>2. QED
      BY <1>1, <2>1, <3>1 DEF Meta, Skipped
  <2>2. CASE ~(mode.on /\ mode.call = 1 /\ mode.exist)
    BY <1>1, <1>4, <1>5, <2>2 DEF Skipped
  <2>3. QED
    BY <2>1, <2>2
<1>7. /\ c \in Seq(Seq(Int)) /\ c # <<>>
      /\ \A i \in 1 .. n : c[i] \in Seq(Int) /\ c[i] # <<>>
  BY <1>1, ChunksType
<1> HIDE DEF c
<1>8. Types'
  BY <1>1, <1>2, <1>3, <1>4, <1>6, <1>7 DEF Inv, Types, Linear
<1>9. Steps'
  <2>1. 1 \in 1 .. N + 1
    BY <1>1
  <2>2. QED
    BY <1>1, <1>3, <1>4, <1>7, <2>1 DEF Steps
<1>10. Counts'
  <2>1. /\ meta.previous - meta.remove = IF Skipped THEN 0 ELSE Len(told)
        /\ Skipped => told = prefix /\ mode.length = Len(told)
    BY <1>1 DEF Inv, Counts
  <2>2. mode.on => mode'.call # 1 /\ mode'.call # 0
    BY <1>1, <1>2 DEF NextCall
  <2>3. Skipped => mode'.call = 2
    BY <1>2, <1>5 DEF Skipped, NextCall
  <2>4. QED
    BY <1>1, <1>2, <1>3, <1>5, <1>6, <2>1, <2>2, <2>3 DEF Counts
<1>11. Cleaned'
  <2>1. mode.on => mode'.call # 0
    BY <1>1, <1>2 DEF NextCall
  <2>2. QED
    BY <1>2, <2>1 DEF Cleaned
<1>12. Empty'
  <2>1. Piece' = Head(c) /\ Len(Head(c)) \in Nat \ {0}
    <3>1. Head(c) = c[1] /\ c[1] \in Seq(Int) /\ c[1] # <<>>
      BY <1>7, EmptySeq
    <3>2. QED
      BY <1>1, <3>1, EmptySeq DEF Piece
  <2>2. CASE status = "INTERNAL_ERROR"
    <3>1. HasLinear => Len(Head(c)) # 1
      BY <1>1, <2>2 DEF Followed, Failed, Survivable
    <3>2. Len(Piece') \in Nat /\ Len(Piece') # 0 /\ (HasLinear => Len(Piece') # 1)
      BY <2>1, <3>1, Zenon
    <3>3. \A k \in Nat : k # 0 /\ k # 1 => k > 1
      OBVIOUS
    <3>4. HasLinear => Len(Piece') > 1
      BY <3>2, <3>3, Zenon
    <3>5. InForward' /\ Layer' = Layer /\ model' = model
      BY <1>1, <1>3, <1>4
    <3>6. QED
      BY <3>4, <3>5 DEF Empty, HasLinear
  <2>3. CASE status # "INTERNAL_ERROR"
    BY <1>1, <1>4, <1>5, <1>6, <2>3 DEF Inv, Empty
  <2>4. QED
    BY <2>2, <2>3
<1>13. Mapped'
  <2>1. \A l \in Layer' : ~(l < pc'.step)
    <3>1. Layer' = 1 .. N /\ N \in Nat /\ pc'.step = 1
      BY <1>1, <1>3, <1>4
    <3>2. QED
      BY <3>1
  <2>2. Fresh' = Fresh
    BY <1>6 DEF Fresh
  <2>3. session /\ ~Fresh => session' = (L <= meta.previous - meta.remove)
    <3>1. ~Fresh => meta.previous - meta.remove = Len(told)
      BY <1>1 DEF Inv, Types, Meta, Counts, Fresh
    <3>2. QED
      BY <1>1, <3>1
  <2>4. QED
    BY <1>1, <1>4, <1>6, <2>1, <2>2, <2>3 DEF Inv, Mapped
<1>14. QED
  BY <1>1, <1>3, <1>5, <1>6, <1>8, <1>9, <1>10, <1>11, <1>12, <1>13, CallFrame DEF Inv

(* A decode starts where something has been computed.                      *)
LEMMA DecodeInv ==
  ASSUME Inv, Decode
  PROVE  Inv'
<1>1. /\ N \in Nat \ {0} /\ Layer = 1 .. N
      /\ UNCHANGED << model, prefix, disk, cache, meta, mode, status, told, session >>
      /\ pc.at = "idle" /\ status = "RUNNING"
      /\ meta.previous > 0 /\ meta.remove = 0
      /\ pieces' = << << Generated >> >> /\ pc' = Forward(TRUE, <<>>)
      /\ meta \in Meta
  BY Sizes DEF Inv, Types, Decode
<1>2. /\ pc' \in Place /\ InForward' /\ pc'.at = "layer" /\ pc'.step = 1
      /\ pc'.decoding /\ pc'.tail = <<>>
  BY <1>1, ForwardStarts
<1>3. /\ Layer' = Layer /\ N' = N /\ L' = L /\ ~InForward /\ meta.flag = "NoChange"
  BY <1>1, Idle DEF Layer, N, L
<1>4. ~Skipped /\ ~(mode.on /\ mode.call = 0)
  <2>1. meta.previous - meta.remove # 0
    BY <1>1 DEF Meta
  <2>2. /\ meta.previous - meta.remove = IF Skipped THEN 0 ELSE Len(told)
        /\ mode.on /\ mode.call = 0 => told = <<>>
    BY <1>1 DEF Inv, Counts
  <2>3. QED
    BY <2>1, <2>2 DEF Skipped
<1>5. << Generated >> \in Seq(Int) /\ << Generated >> # <<>>
  BY PrefixCacheAssumption
<1>6. pieces' \in Seq(Seq(Int)) /\ pieces' # <<>> /\ \A i \in 1 .. Len(pieces') : pieces'[i] # <<>>
  <2> DEFINE g == << Generated >>
  <2> HIDE DEF g
  <2>1. g \in Seq(Int) /\ g # <<>> /\ pieces' = << g >>
    BY <1>1, <1>5 DEF g
  <2>2. QED
    BY <2>1
<1>7. Types'
  BY <1>1, <1>2, <1>3, <1>6 DEF Inv, Types, Linear
<1>8. Steps'
  <2>1. 1 \in 1 .. N + 1
    BY <1>1
  <2>2. QED
    BY <1>1, <1>2, <1>3, <1>6, <2>1 DEF Steps
<1>9. Counts' /\ Cleaned'
  <2>1. /\ meta.previous - meta.remove = IF Skipped THEN 0 ELSE Len(told)
        /\ Skipped' = Skipped
    BY <1>1 DEF Inv, Counts, Skipped
  <2>2. QED
    BY <1>1, <1>2, <1>3, <1>4, <2>1 DEF Counts, Cleaned, Skipped
<1>10. Empty'
  BY <1>1, <1>3 DEF Inv, Empty
<1>11. Mapped'
  <2>1. \A l \in Layer' : ~(l < pc'.step)
    <3>1. Layer' = 1 .. N /\ N \in Nat /\ pc'.step = 1
      BY <1>1, <1>2, <1>3
    <3>2. QED
      BY <3>1
  <2>2. Fresh' = Fresh
    BY <1>1 DEF Fresh
  <2>3. QED
    BY <1>1, <1>3, <2>1, <2>2 DEF Inv, Mapped
<1>12. Writing' = Writing
  BY <1>1 DEF Writing
<1>13. QED
  BY <1>1, <1>2, <1>3, <1>7, <1>8, <1>9, <1>10, <1>11, <1>12, CallFrame DEF Inv

(* An erase keeps the rows of a mapped prefix, or none.                    *)
LEMMA EraseHistoryInv ==
  ASSUME Survivable, Inv, NEW begin \in 0 .. MaxTold, EraseHistory(begin)
  PROVE  Inv'
<1>1. /\ N \in Nat \ {0} /\ Layer = 1 .. N /\ L \in Nat \ {0}
      /\ UNCHANGED << model, prefix, disk, cache, mode, status, pc, pieces >>
      /\ pc.at = "idle"
      /\ begin < meta.previous - meta.remove /\ (meta.remove = 0 \/ begin = 0)
      /\ Keeps(begin)
      /\ meta' = [meta EXCEPT !.remove = meta.previous - begin]
      /\ told' = SubSeq(told, 1, begin)
      /\ session' = (session /\ begin > 0)
      /\ meta \in Meta /\ told \in Seq(Int)
  BY Sizes DEF Inv, Types, EraseHistory, Survivable
<1>2. begin \in Nat /\ meta.previous \in Nat /\ meta.remove \in Nat /\ begin < meta.previous
  BY <1>1, PrefixCacheAssumption DEF Meta
<1>3. /\ meta' \in Meta /\ meta'.previous = meta.previous /\ meta'.remove = meta.previous - begin
      /\ meta'.layerIndex = meta.layerIndex /\ meta'.flag = meta.flag /\ meta'.inDisk = meta.inDisk
      /\ meta'.remove <= meta'.previous
  <2> DEFINE d == meta.previous - begin
  <2>1. d \in Nat /\ d <= meta.previous /\ meta' = [meta EXCEPT !.remove = d]
    BY <1>1, <1>2
  <2>2. meta'.remove = d
    BY <1>1, <2>1 DEF Meta
  <2> HIDE DEF d
  <2>3. /\ meta' \in Meta /\ meta'.previous = meta.previous /\ meta'.remove = d
        /\ meta'.layerIndex = meta.layerIndex /\ meta'.flag = meta.flag /\ meta'.inDisk = meta.inDisk
    BY <1>1, <2>1 DEF Meta
  <2>4. QED
    BY <2>1, <2>3 DEF d
<1>4. /\ Layer' = Layer /\ N' = N /\ L' = L /\ ~InForward /\ ~InForward'
      /\ meta.flag # "PendingWrite"
  BY <1>1, Idle DEF Layer, N, L, InForward
<1>5. /\ ~Skipped /\ ~Skipped' /\ ~(mode.on /\ mode.call = 0)
      /\ meta.previous - meta.remove = Len(told)
  <2>1. /\ meta.previous - meta.remove = IF Skipped THEN 0 ELSE Len(told)
        /\ mode.on /\ mode.call = 0 => told = <<>>
    BY <1>1 DEF Inv, Counts
  <2>2. meta.previous - meta.remove # 0
    BY <1>1, <1>2
  <2>3. Skipped' = Skipped
    BY <1>1 DEF Skipped
  <2>4. QED
    BY <2>1, <2>2, <2>3 DEF Skipped
<1>6. told' \in Seq(Int) /\ Len(told') = begin
  <2>1. begin \in 0 .. Len(told) /\ 1 <= begin + 1
    BY <1>1, <1>2, <1>5
  <2>2. SubSeq(told, 1, begin) \in Seq(Int) /\ Len(SubSeq(told, 1, begin)) = begin - 1 + 1
    BY <1>1, <2>1, SliceOf
  <2>3. QED
    BY <1>1, <1>2, <2>2
<1>7. Types'
  BY <1>1, <1>3, <1>4, <1>6 DEF Inv, Types, Linear
<1>8. Steps'
  BY <1>1, <1>4 DEF Inv, Steps
<1>9. Counts' /\ Cleaned'
  <2>1. meta'.previous - meta'.remove = begin
    BY <1>2, <1>3
  <2>2. meta.flag # "PendingRead"
    BY <1>5 DEF Inv, Counts
  <2>3. mode.on /\ mode.exist => mode.call = 0
    BY <1>5 DEF Skipped
  <2>4. QED
    BY <1>1, <1>3, <1>4, <1>5, <1>6, <2>1, <2>2, <2>3 DEF Counts, Cleaned
<1>10. Empty'
  BY <1>2, <1>3 DEF Empty
<1>11. Mapped'
  <2> SUFFICES ASSUME NEW l \in Layer, model[l] = "attention", cache[l].file # 0,
                      status # "INTERNAL_ERROR"
               PROVE  Fresh' \/ ( /\ cache[l].past = meta.previous
                                  /\ session' /\ L <= meta'.previous - meta'.remove )
    BY <1>1, <1>3, <1>4 DEF Mapped
  <2>1. Fresh \/ (cache[l].past = meta.previous /\ session /\ L <= meta.previous - meta.remove)
    BY <1>1, <1>4 DEF Inv, Mapped
  <2>2. session /\ cache[l].past = meta.previous
    BY <1>1, <1>2, <2>1 DEF Fresh
  <2>3. meta'.previous - meta'.remove = begin
    BY <1>2, <1>3
  <2>4. CASE begin = 0
    BY <1>2, <1>3, <2>1, <2>4 DEF Fresh
  <2>5. CASE begin # 0
    <3>1. begin = L \/ begin > L
      BY <1>1, <2>2, <2>5 DEF Keeps, L
    <3>2. L <= begin /\ session'
      <4>1. session' = (session /\ begin > 0) /\ L \in Nat
        BY <1>1
      <4>2. L <= begin
        BY <1>2, <3>1, <4>1
      <4>3. begin > 0
        BY <1>2, <2>5
      <4>4. QED
        BY <2>2, <4>1, <4>2, <4>3, Zenon
    <3>3. QED
      BY <2>2, <2>3, <3>2
  <2>6. QED
    BY <2>4, <2>5
<1>12. Writing' = Writing
  BY <1>1 DEF Writing
<1>13. QED
  BY <1>1, <1>3, <1>4, <1>7, <1>8, <1>9, <1>10, <1>11, <1>12, CallFrame DEF Inv

-----------------------------------------------------------------------------
(* The layers of a forward.                                                *)

(* What is known when a layer is about to run.                             *)
LEMMA AtLayer ==
  ASSUME Inv, pc.at = "layer"
  PROVE  /\ N \in Nat \ {0} /\ Layer = 1 .. N /\ L \in Nat \ {0} /\ prefix \in Seq(Int)
         /\ InForward /\ pc \in Going /\ pc.step \in 1 .. N + 1 /\ status = "RUNNING"
         /\ pieces \in Seq(Seq(Int)) /\ pieces # <<>>
         /\ Piece \in Seq(Int) /\ Piece # <<>> /\ Len(Piece) \in Nat \ {0}
         /\ meta \in Meta /\ meta.previous \in Nat /\ meta.remove \in Nat
         /\ meta.remove <= meta.previous /\ meta.layerIndex \in Nat /\ meta.layerIndex < N
         /\ ~(mode.on /\ mode.call = 0) /\ told \in Seq(Int) /\ disk \in [ Layer -> File ]
         /\ \A l \in Layer : model[l] \in {"attention", "linear"}
<1>1. /\ N \in Nat \ {0} /\ Layer = 1 .. N /\ L \in Nat \ {0} /\ prefix \in Seq(Int)
      /\ \A l \in Layer : model[l] \in {"attention", "linear"}
  BY Sizes DEF Inv, Types
<1>2. InForward
  BY DEF InForward
<1>3. pc \in Going
  BY <1>2, ForwardPlace DEF Inv, Types
<1>4. /\ pc.step \in 1 .. N + 1 /\ status = "RUNNING"
      /\ pieces # <<>> /\ \A i \in 1 .. Len(pieces) : pieces[i] # <<>>
  BY <1>2 DEF Inv, Steps
<1>5. pieces \in Seq(Seq(Int)) /\ meta \in Meta /\ meta.remove <= meta.previous
      /\ meta.layerIndex < N /\ told \in Seq(Int) /\ disk \in [ Layer -> File ]
  BY DEF Inv, Types
<1>6. Piece \in Seq(Int) /\ Piece # <<>>
  BY <1>4, <1>5 DEF Piece
<1>7. Len(Piece) \in Nat \ {0}
  BY <1>6, EmptySeq
<1>8. meta.previous \in Nat /\ meta.remove \in Nat /\ meta.layerIndex \in Nat
  BY <1>5 DEF Meta
<1>9. ~(mode.on /\ mode.call = 0)
  BY <1>2, <1>4 DEF Inv, Counts
<1>10. QED
  BY <1>1, <1>2, <1>3, <1>4, <1>5, <1>6, <1>7, <1>8, <1>9

(* The next layer is reached with the same forward.                        *)
LEMMA NextPlace ==
  ASSUME pc \in Going, pc.at = "layer", NextLayer
  PROVE  /\ pc' \in Going /\ pc' \in Place /\ InForward' /\ pc'.at = "layer"
         /\ pc'.step = pc.step + 1 /\ pc'.decoding = pc.decoding /\ pc'.tail = pc.tail
         /\ pc.step \in Nat
<1> DEFINE n == pc.step + 1
<1>1. pc.step \in Nat /\ n \in Nat
  BY DEF Going
<1>2. pc' = [pc EXCEPT !.at = "layer", !.step = n]
  BY DEF NextLayer
<1> HIDE DEF n
<1>3. /\ pc' \in Going /\ pc'.at = "layer" /\ pc'.step = n
      /\ pc'.decoding = pc.decoding /\ pc'.tail = pc.tail
  BY <1>1, <1>2 DEF Going
<1>4. pc' \in Place /\ InForward'
  BY <1>3 DEF Going, Place, InForward
<1>5. QED
  BY <1>1, <1>3, <1>4 DEF n

(* What every step of a layer leaves alone.                                *)
LayerStays ==
  /\ pc.at = "layer" /\ pc.step \in Layer
  /\ UNCHANGED << model, prefix, mode, status, pieces, told, session >>
  /\ disk' \in [ Layer -> File ]
  /\ meta' \in Meta /\ meta'.previous = meta.previous /\ meta'.remove = meta.remove
  /\ meta'.flag = meta.flag /\ meta'.inDisk = meta.inDisk /\ meta'.layerIndex < N
  /\ DOMAIN cache' = Layer
  /\ \A l \in Layer : l # pc.step => cache'[l] = cache[l]
  /\ cache'[pc.step] \in IF model[pc.step] = "attention" THEN Attention(pc.step) ELSE Linear

(* What a layer does keeps the parts that are not about the files.         *)
LEMMA LayerFrame ==
  ASSUME Inv, LayerStays, NextLayer,
         (meta.flag # "PendingWrite" /\ model[pc.step] = "attention" /\ cache'[pc.step].file # 0)
           => /\ cache'[pc.step].past = meta.previous - meta.remove + Len(Piece)
              /\ session /\ L <= meta.previous - meta.remove
  PROVE  Types' /\ Steps' /\ Counts' /\ Empty' /\ Cleaned' /\ Mapped'
<1>1. /\ N \in Nat \ {0} /\ Layer = 1 .. N /\ Layer' = Layer /\ N' = N /\ L' = L
      /\ InForward /\ pc.step \in Layer /\ status = "RUNNING"
      /\ Piece' = Piece /\ Fresh' = Fresh
  BY AtLayer DEF LayerStays, Layer, N, L, Piece, Fresh
<1>2. /\ pc' \in Place /\ InForward' /\ pc'.at = "layer" /\ pc'.step = pc.step + 1
      /\ pc'.decoding = pc.decoding
  BY AtLayer, NextPlace DEF LayerStays
<1>3. /\ UNCHANGED << model, prefix, mode, status, pieces, told, session >>
      /\ meta'.previous = meta.previous /\ meta'.remove = meta.remove
      /\ meta'.flag = meta.flag /\ meta'.inDisk = meta.inDisk
      /\ \A l \in Layer : l # pc.step => cache'[l] = cache[l]
  BY DEF LayerStays
<1>4. \A l \in Layer : l < pc.step + 1 <=> (l < pc.step \/ l = pc.step)
  BY <1>1
<1>5. Types'
  <2>1. \A l \in Layer : cache'[l] \in IF model[l] = "attention" THEN Attention(l) ELSE Linear
    BY DEF LayerStays, Inv, Types
  <2>2. Linear' = Linear
    BY <1>1 DEF Linear
  <2>3. QED
    BY <1>1, <1>2, <2>1, <2>2 DEF LayerStays, Inv, Types
<1>6. Steps'
  <2>1. pc.step + 1 \in 1 .. N + 1
    BY <1>1
  <2>2. QED
    BY <1>1, <1>2, <1>3, <2>1 DEF Inv, Steps
<1>7. Counts'
  <2>1. Skipped' = Skipped
    BY <1>3 DEF Skipped
  <2>2. QED
    BY <1>1, <1>2, <1>3, <2>1 DEF Inv, Counts
<1>8. Empty'
  <2>1. \A l \in Layer : pc.step + 1 <= l => pc.step <= l /\ l # pc.step
    BY <1>1
  <2>2. Skipped' = Skipped
    BY <1>3 DEF Skipped
  <2>3. QED
    BY <1>1, <1>2, <1>3, <2>1, <2>2 DEF Inv, Empty
<1>9. Cleaned'
  BY <1>3, AtLayer DEF Cleaned, LayerStays
<1>10. Mapped'
  BY <1>1, <1>2, <1>3, <1>4 DEF Inv, Mapped
<1>11. QED
  BY <1>5, <1>6, <1>7, <1>8, <1>9, <1>10

(* While a prefix is written, every layer adds the piece to its file.      *)
LEMMA LayerWrites ==
  ASSUME Inv, LayerStays, NextLayer,
         meta.flag = "PendingWrite" =>
           /\ meta'.layerIndex = IF told = <<>> /\ pc.step < N THEN pc.step ELSE 0
           /\ \A l \in Layer : l # pc.step => disk'[l] = disk[l]
           /\ disk'[pc.step].sync = disk[pc.step].sync
           /\ \A l \in Layer : l = pc.step => Holds(l, told \o Piece)'
  PROVE  Written'
<1> SUFFICES ASSUME meta.flag = "PendingWrite" PROVE Written'
  BY DEF Written, LayerStays
<1>1. /\ N \in Nat \ {0} /\ Layer = 1 .. N /\ Layer' = Layer /\ N' = N
      /\ pc.step \in Layer /\ pc.at = "layer" /\ Piece' = Piece
  BY AtLayer DEF LayerStays, Layer, N, L, Piece
<1>2. /\ InForward' /\ pc'.at = "layer" /\ pc'.step = pc.step + 1
      /\ pc'.decoding = pc.decoding /\ pc'.tail = pc.tail
  BY AtLayer, NextPlace DEF LayerStays
<1>3. /\ UNCHANGED << model, prefix, mode, status, pieces, told, session >>
      /\ meta'.previous = meta.previous /\ meta'.remove = meta.remove /\ meta'.flag = meta.flag
      /\ \A l \in Layer : l # pc.step => cache'[l] = cache[l]
  BY DEF LayerStays
<1>4. /\ meta'.layerIndex = IF told = <<>> /\ pc.step < N THEN pc.step ELSE 0
      /\ \A l \in Layer : l # pc.step => disk'[l] = disk[l]
      /\ disk'[pc.step].sync = disk[pc.step].sync
      /\ \A l \in Layer : l = pc.step => Holds(l, told \o Piece)'
  OBVIOUS
<1>5. /\ Writing /\ InForward /\ ~pc.decoding /\ session
      /\ \A f \in Layer : disk[f].sync = {}
      /\ WritesPieces
      /\ told # <<>> => meta.remove = 0
      /\ HasLinear /\ told = <<>> /\ Len(Piece) = 1 => meta.previous = 0
      /\ \A l \in Layer :
           IF l < pc.step THEN Holds(l, told \o Piece)
           ELSE IF told = <<>> THEN disk[l].has = {} ELSE Holds(l, told)
  BY DEF Inv, Written
<1>6. WritesPieces'
  BY <1>2, <1>3, <1>5 DEF WritesPieces
<1>7. /\ HasLinear' = HasLinear /\ Writing' = Writing
  BY <1>1, <1>3 DEF HasLinear, Writing
<1>8. \A f \in Layer : disk'[f].sync = {}
  BY <1>4, <1>5
<1>9. meta'.layerIndex = IF told' = <<>> /\ pc'.step <= N' THEN pc'.step - 1 ELSE 0
  <2>1. pc'.step - 1 = pc.step /\ (pc'.step <= N <=> pc.step < N)
    BY <1>1, <1>2
  <2>2. QED
    BY <1>1, <1>3, <1>4, <2>1
<1>10. ASSUME NEW l \in Layer
       PROVE  IF l < pc'.step THEN Holds(l, told \o Piece)'
              ELSE IF told = <<>> THEN disk'[l].has = {} ELSE Holds(l, told)'
  <2>1. CASE l = pc.step
    BY <1>1, <1>2, <1>4, <2>1
  <2>2. CASE l # pc.step
    <3>1. disk'[l] = disk[l] /\ cache'[l] = cache[l] /\ Content(l)' = Content(l)
      BY <1>1, <1>2, <1>3, <1>4, <2>2 DEF Content
    <3>2. /\ Holds(l, told \o Piece) => Holds(l, told \o Piece)'
          /\ Holds(l, told) => Holds(l, told)'
      BY <1>1, <1>3, <3>1 DEF Holds
    <3>3. l < pc'.step <=> l < pc.step
      BY <1>1, <1>2, <2>2
    <3>4. QED
      BY <1>5, <3>1, <3>2, <3>3
  <2>3. QED
    BY <2>1, <2>2
<1>11. \A l \in Layer' : IF l < pc'.step THEN Holds(l, told \o Piece)'
                         ELSE IF told' = <<>> THEN disk'[l].has = {} ELSE Holds(l, told)'
  BY <1>1, <1>3, <1>10
<1>12. QED
  BY <1>1, <1>2, <1>3, <1>5, <1>6, <1>7, <1>8, <1>9, <1>11 DEF Written

(* A step of a layer that touches no file.                                 *)
LEMMA LayerIntact ==
  ASSUME Inv, LayerStays, NextLayer, disk' = disk, model[pc.step] = "attention" => cache'[pc.step].file = 0
  PROVE  Intact'
<1>1. /\ Layer' = Layer /\ pc.at = "layer" /\ pc'.at = "layer" /\ Layer = 1 .. N
      /\ UNCHANGED << model, prefix, mode >> /\ meta'.flag = meta.flag
      /\ \A l \in Layer : l # pc.step => cache'[l] = cache[l]
      /\ \A l \in Layer : model[l] \in {"attention", "linear"}
  BY AtLayer, NextPlace DEF LayerStays, Layer
<1>2. \A l \in Layer : Content(l)' = Content(l)
  BY <1>1 DEF Content
<1>3. (Marked' => Marked) /\ Writing' = Writing
  BY <1>1 DEF Marked, Writing
<1>4. Broken => Broken'
  <2> SUFFICES ASSUME Broken PROVE Broken'
    OBVIOUS
  <2>1. HasLinear' = HasLinear /\ SizesAgree' = SizesAgree
    BY <1>1 DEF HasLinear, SizesAgree
  <2>2. \A l \in Layer : model[l] = "attention" /\ cache[l].file = 0
    BY <1>1 DEF Broken, HasLinear
  <2>3. \A l \in Layer : cache'[l].file = 0
    BY <1>1, <2>2
  <2>4. QED
    BY <1>1, <2>1, <2>3 DEF Broken
<1>5. QED
  BY <1>1, <1>2, <1>3, <1>4, FilesStay DEF Inv

(* A step that changes the rows of one layer.                              *)
LEMMA CacheChanged ==
  ASSUME DOMAIN cache = Layer, NEW l \in Layer, NEW r, cache' = [cache EXCEPT ![l] = r]
  PROVE  /\ DOMAIN cache' = Layer /\ cache'[l] = r
         /\ \A g \in Layer : g # l => cache'[g] = cache[g]
OBVIOUS

(* The index of the next file wraps at the number of layers.               *)
LEMMA Wraps ==
  ASSUME NEW n \in Nat \ {0}, NEW i \in 0 .. n - 1
  PROVE  (i + 1) % n \in Nat /\ (i + 1) % n = IF i + 1 < n THEN i + 1 ELSE 0
<1>1. CASE i + 1 < n
  BY <1>1
<1>2. CASE i + 1 = n
  BY <1>2
<1>3. QED
  BY <1>1, <1>2

(* The index of the next file.                                             *)
LEMMA Advanced ==
  ASSUME meta \in Meta, meta.layerIndex < N, N \in Nat \ {0}, Cardinality(Layer) = N, AdvanceIndex
  PROVE  /\ meta' \in Meta /\ meta'.previous = meta.previous /\ meta'.remove = meta.remove
         /\ meta'.flag = meta.flag /\ meta'.inDisk = meta.inDisk /\ meta'.layerIndex < N
         /\ meta'.layerIndex = IF meta.layerIndex + 1 < N THEN meta.layerIndex + 1 ELSE 0
<1> DEFINE i == (meta.layerIndex + 1) % N
<1>1. meta.layerIndex \in 0 .. N - 1
  BY DEF Meta
<1>2. i \in Nat /\ i = IF meta.layerIndex + 1 < N THEN meta.layerIndex + 1 ELSE 0
  BY <1>1, Wraps
<1>3. meta' = [meta EXCEPT !.layerIndex = i]
  BY DEF AdvanceIndex
<1> HIDE DEF i
<1>4. /\ meta' \in Meta /\ meta'.previous = meta.previous /\ meta'.remove = meta.remove
      /\ meta'.flag = meta.flag /\ meta'.inDisk = meta.inDisk /\ meta'.layerIndex = i
  BY <1>2, <1>3 DEF Meta
<1>5. i < N
  BY <1>2
<1>6. QED
  BY <1>2, <1>4, <1>5

(* The rows of a layer in a file of its own, or in one that goes with it.  *)
LEMMA TemporaryRows ==
  ASSUME Inv, Running("attention"), NEW r \in Attention(pc.step), r.file = 0,
         meta.flag # "PendingWrite",
         cache' = [cache EXCEPT ![pc.step] = r], AdvanceIndex, NextLayer,
         UNCHANGED << model, prefix, disk, mode, status, pieces, told, session >>
  PROVE  Inv'
<1>1. /\ pc.at = "layer" /\ pc.step \in Layer /\ model[pc.step] = "attention"
      /\ model \in Models /\ prefix \in Prefixes /\ DOMAIN cache = Layer
  BY DEF Running, Inv, Types
<1>2. /\ meta \in Meta /\ meta.layerIndex < N /\ N \in Nat \ {0} /\ disk \in [ Layer -> File ]
  BY <1>1, AtLayer
<1>3. /\ meta' \in Meta /\ meta'.previous = meta.previous /\ meta'.remove = meta.remove
      /\ meta'.flag = meta.flag /\ meta'.inDisk = meta.inDisk /\ meta'.layerIndex < N
  BY <1>1, <1>2, Sizes, Advanced
<1>4. /\ DOMAIN cache' = Layer /\ cache'[pc.step] = r
      /\ \A g \in Layer : g # pc.step => cache'[g] = cache[g]
  BY <1>1, CacheChanged
<1>5. LayerStays
  BY <1>1, <1>2, <1>3, <1>4 DEF LayerStays
<1>6. Types' /\ Steps' /\ Counts' /\ Empty' /\ Cleaned' /\ Mapped'
  BY <1>4, <1>5, LayerFrame
<1>7. Written' /\ Intact'
  BY <1>4, <1>5, LayerWrites, LayerIntact
<1>8. QED
  BY <1>6, <1>7 DEF Inv

(* A layer that starts without a prefix takes no file.                     *)
LEMMA StartRowsInv ==
  ASSUME Inv, StartRows
  PROVE  Inv'
<1> DEFINE r == [past |-> Len(Piece), max |-> Len(Piece) + ExpandChunk, rows |-> Piece, file |-> 0]
<1>1. Running("attention") /\ pc.at = "layer" /\ meta.flag = "NoChange"
  BY DEF StartRows, Running
<1>2. Piece \in Seq(Int) /\ Len(Piece) \in Nat /\ ExpandChunk \in Nat
  BY <1>1, AtLayer, PrefixCacheAssumption
<1>3. r \in Attention(pc.step) /\ r.file = 0
  BY <1>2 DEF Attention
<1>4. /\ cache' = [cache EXCEPT ![pc.step] = r] /\ AdvanceIndex /\ NextLayer
      /\ UNCHANGED << model, prefix, disk, mode, status, pieces, told, session >>
  BY DEF StartRows
<1> HIDE DEF r
<1>5. QED
  BY <1>1, <1>3, <1>4, TemporaryRows

(* A layer that loads takes a copy, and leaves the file alone.             *)
LEMMA LoadPrefixInv ==
  ASSUME Inv, LoadPrefix
  PROVE  Inv'
<1> DEFINE file == disk[ThisFile]
           stored == IF file.kind = "attention" THEN file.rows ELSE <<>>
           length == Len(Piece) + meta.inDisk
           max == IF length > file.size THEN length + ExpandChunk ELSE file.size
           rows == Kept(stored, meta.inDisk) \o Piece
           r == [past |-> length, file |-> 0, max |-> max, rows |-> rows]
<1>1. Running("attention") /\ pc.at = "layer" /\ meta.flag = "PendingRead"
  BY DEF LoadPrefix, Running
<1>2. /\ Piece \in Seq(Int) /\ Len(Piece) \in Nat /\ ExpandChunk \in Nat /\ meta \in Meta
      /\ disk \in [ Layer -> File ] /\ N \in Nat \ {0} /\ Layer = 1 .. N
      /\ meta.layerIndex \in Nat /\ meta.layerIndex < N
  BY <1>1, AtLayer, PrefixCacheAssumption
<1>3. file \in File
  <2>1. ThisFile \in Layer
    BY <1>2 DEF ThisFile
  <2>2. QED
    BY <1>2, <2>1
<1> HIDE DEF file
<1>4. stored \in Seq(Int) /\ length \in Nat /\ meta.inDisk \in Nat /\ max \in Nat
  <2>1. file.rows \in Seq(Int) /\ file.size \in Nat /\ <<>> \in Seq(Int) /\ meta.inDisk \in Nat
    BY <1>2, <1>3 DEF File, Meta
  <2>2. QED
    BY <1>2, <2>1
<1>5. rows \in Seq(Int)
  <2> HIDE DEF stored
  <2>1. meta.inDisk \in Int /\ stored \in Seq(Int)
    BY <1>4
  <2>2. Kept(stored, meta.inDisk) \in Seq(Int)
    BY <2>1, KeptRows
  <2>3. QED
    BY <1>2, <2>2, ConcatProperties
<1>6. /\ cache' = [cache EXCEPT ![pc.step] = r] /\ AdvanceIndex /\ NextLayer
      /\ UNCHANGED << model, prefix, disk, mode, status, pieces, told, session >>
  BY DEF LoadPrefix, file
<1> HIDE DEF rows, length, max
<1>7. r \in Attention(pc.step) /\ r.file = 0
  BY <1>4, <1>5 DEF Attention
<1> HIDE DEF r
<1>8. QED
  BY <1>1, <1>6, <1>7, TemporaryRows

(* While a prefix is written: the first piece starts every layer, the      *)
(* later ones follow the rows told.                                        *)
LEMMA WhileWriting ==
  ASSUME Inv, pc.at = "layer", pc.step \in Layer, meta.flag = "PendingWrite"
  PROVE  /\ meta.previous - meta.remove = Len(told)
         /\ Fresh <=> told = <<>>
         /\ told = <<>> => meta.layerIndex = pc.step - 1 /\ disk[pc.step].has = {}
         /\ told # <<>> => meta.layerIndex = 0 /\ meta.remove = 0 /\ Holds(pc.step, told)
         /\ HasLinear /\ told = <<>> /\ Len(Piece) = 1 => meta.previous = 0
<1>1. /\ N \in Nat \ {0} /\ Layer = 1 .. N /\ status = "RUNNING" /\ told \in Seq(Int)
      /\ meta.previous \in Nat /\ meta.remove \in Nat
  BY AtLayer
<1>2. /\ Writing
      /\ told # <<>> => meta.remove = 0
      /\ HasLinear /\ told = <<>> /\ Len(Piece) = 1 => meta.previous = 0
      /\ meta.layerIndex = IF told = <<>> /\ pc.step <= N THEN pc.step - 1 ELSE 0
      /\ IF told = <<>> THEN disk[pc.step].has = {} ELSE Holds(pc.step, told)
  <2>1. ~(pc.step < pc.step)
    BY <1>1
  <2>2. QED
    BY <2>1 DEF Inv, Written
<1>3. meta.previous - meta.remove = Len(told)
  BY <1>1, <1>2 DEF Inv, Counts, Skipped, Writing
<1>4. Fresh <=> Len(told) = 0
  BY <1>1, <1>3 DEF Fresh
<1>5. told = <<>> <=> Len(told) = 0
  BY <1>1, EmptySeq
<1>6. QED
  BY <1>1, <1>2, <1>3, <1>4, <1>5

(* A layer that writes takes the file of its own index.                    *)
LEMMA SharePrefixInv ==
  ASSUME Inv, SharePrefix
  PROVE  Inv'
<1> DEFINE max == Len(Piece) + ExpandChunk
           r == [past |-> Len(Piece), max |-> max, rows |-> <<>>, file |-> ThisFile]
           d == [disk[ThisFile] EXCEPT !.has = Both, !.kind = "attention", !.rows = Piece,
                                       !.size = max]
<1>1. /\ pc.at = "layer" /\ pc.step \in Layer /\ model[pc.step] = "attention" /\ Fresh
      /\ meta.flag = "PendingWrite" /\ AdvanceIndex /\ NextLayer
      /\ model \in Models /\ prefix \in Prefixes /\ DOMAIN cache = Layer
      /\ UNCHANGED << model, prefix, mode, status, pieces, told, session >>
  BY DEF SharePrefix, Running, Inv, Types
<1>2. /\ N \in Nat \ {0} /\ Layer = 1 .. N /\ disk \in [ Layer -> File ]
      /\ meta \in Meta /\ meta.layerIndex < N /\ meta.layerIndex \in Nat
      /\ Piece \in Seq(Int) /\ Len(Piece) \in Nat /\ told \in Seq(Int) /\ max \in Nat
      /\ Cardinality(Layer) = N
  <2>1. /\ N \in Nat \ {0} /\ Layer = 1 .. N /\ disk \in [ Layer -> File ]
        /\ meta \in Meta /\ meta.layerIndex < N /\ meta.layerIndex \in Nat
        /\ Piece \in Seq(Int) /\ Len(Piece) \in Nat /\ told \in Seq(Int)
    BY <1>1, AtLayer
  <2>2. Cardinality(Layer) = N
    BY <1>1, Sizes
  <2>3. ExpandChunk \in Nat
    BY PrefixCacheAssumption
  <2>4. QED
    BY <2>1, <2>2, <2>3
<1>3. told = <<>> /\ meta.layerIndex = pc.step - 1
  BY <1>1, WhileWriting
<1>4. ThisFile = pc.step
  BY <1>1, <1>2, <1>3 DEF ThisFile
<1>5. disk' = [disk EXCEPT ![pc.step] = d] /\ cache' = [cache EXCEPT ![pc.step] = r]
  BY <1>4 DEF SharePrefix
<1>6. r \in Attention(pc.step) /\ r.past = Len(Piece) /\ r.file = pc.step
  <2>1. <<>> \in Seq(Int) /\ Len(Piece) \in Int
    BY <1>2
  <2> HIDE DEF max
  <2>2. QED
    BY <1>2, <1>4, <2>1 DEF Attention
<1>7. /\ d \in File /\ d.has = Both /\ d.kind = "attention" /\ d.rows = Piece
      /\ d.sync = disk[pc.step].sync
  <2>1. disk[pc.step] \in File /\ Both \in SUBSET Both
    BY <1>1, <1>2
  <2> HIDE DEF max
  <2>2. QED
    BY <1>2, <1>4, <2>1 DEF File
<1> HIDE DEF r, d, max
<1>8. /\ disk' \in [ Layer -> File ] /\ disk'[pc.step] = d
      /\ \A g \in Layer : g # pc.step => disk'[g] = disk[g]
  BY <1>1, <1>2, <1>5, <1>7, FileChanged
<1>9. /\ DOMAIN cache' = Layer /\ cache'[pc.step] = r
      /\ \A g \in Layer : g # pc.step => cache'[g] = cache[g]
  BY <1>1, <1>5, CacheChanged
<1>10. /\ meta' \in Meta /\ meta'.previous = meta.previous /\ meta'.remove = meta.remove
       /\ meta'.flag = meta.flag /\ meta'.inDisk = meta.inDisk /\ meta'.layerIndex < N
       /\ meta'.layerIndex = IF meta.layerIndex + 1 < N THEN meta.layerIndex + 1 ELSE 0
  BY <1>1, <1>2, Advanced
<1>11. meta'.layerIndex = IF pc.step < N THEN pc.step ELSE 0
  <2>1. meta.layerIndex + 1 = pc.step
    BY <1>1, <1>2, <1>3
  <2>2. QED
    BY <1>10, <2>1
<1>12. LayerStays
  BY <1>1, <1>6, <1>8, <1>9, <1>10 DEF LayerStays
<1>13. Types' /\ Steps' /\ Counts' /\ Empty' /\ Cleaned' /\ Mapped'
  BY <1>1, <1>12, LayerFrame
<1>14. ASSUME NEW l \in Layer, l = pc.step
       PROVE  Holds(l, told \o Piece)'
  <2>1. pc'.at = "layer"
    BY <1>1, <1>2, AtLayer, NextPlace
  <2>2. told' \o Piece' = Piece
    BY <1>1, <1>2, <1>3 DEF Piece
  <2>3. Content(l)' = disk'[l].rows
    BY <2>1 DEF Content
  <2>4. QED
    BY <1>1, <1>6, <1>7, <1>8, <1>9, <1>14, <2>2, <2>3 DEF Holds
<1>15. Written'
  BY <1>1, <1>3, <1>7, <1>8, <1>11, <1>12, <1>14, LayerWrites
<1>16. Intact'
  BY <1>1, <1>10 DEF Intact
<1>17. QED
  BY <1>13, <1>15, <1>16 DEF Inv

(* A layer whose rows are in a file of its own.                            *)
LEMMA AppendToTemporary ==
  ASSUME Inv, AppendRows, cache[pc.step].file = 0
  PROVE  Inv'
<1> DEFINE l == pc.step
           c == cache[l]
           past == c.past - meta.remove
           rows == Kept(Rows(l), past) \o Piece
           max == IF Needed > c.max THEN Needed + ExpandChunk ELSE c.max
           r == [past |-> past + Len(Piece), file |-> 0, max |-> max, rows |-> rows]
<1>1. /\ pc.at = "layer" /\ l \in Layer /\ model[l] = "attention" /\ ~Fresh /\ NextLayer
      /\ DOMAIN cache = Layer /\ c \in Attention(l)
      /\ UNCHANGED << model, prefix, meta, mode, status, pieces, told, session >>
  BY DEF AppendRows, Running, Inv, Types
<1>2. disk' = disk /\ cache' = [cache EXCEPT ![l] = r]
  BY DEF AppendRows
<1>3. /\ disk \in [ Layer -> File ] /\ meta \in Meta /\ meta.layerIndex < N
      /\ meta.remove \in Nat /\ meta.previous \in Nat /\ meta.remove <= meta.previous
      /\ Piece \in Seq(Int) /\ Len(Piece) \in Nat
  BY <1>1, AtLayer
<1>4. c.past \in Int /\ c.max \in Nat /\ c.rows \in Seq(Int) /\ c.file = 0
  BY <1>1 DEF Attention
<1> HIDE DEF c
<1>5. past \in Int /\ past + Len(Piece) \in Int /\ max \in Nat
  BY <1>3, <1>4, PrefixCacheAssumption DEF Needed
<1>6. rows \in Seq(Int)
  <2>1. Rows(l) = c.rows
    BY <1>4 DEF Rows, c
  <2> HIDE DEF past, l
  <2>2. Kept(Rows(l), past) \in Seq(Int)
    BY <1>4, <1>5, <2>1, KeptRows
  <2>3. QED
    BY <1>3, <2>2, ConcatProperties
<1> HIDE DEF rows, past, max
<1>7. r \in Attention(l) /\ r.file = 0
  BY <1>5, <1>6 DEF Attention
<1> HIDE DEF r
<1>8. /\ DOMAIN cache' = Layer /\ cache'[l] = r
      /\ \A g \in Layer : g # l => cache'[g] = cache[g]
  BY <1>1, <1>2, CacheChanged
<1>9. meta.flag # "PendingWrite"
  <2> SUFFICES ASSUME meta.flag = "PendingWrite" PROVE FALSE
    OBVIOUS
  <2>1. Holds(l, told)
    BY <1>1, WhileWriting
  <2>2. 0 \notin Layer
    BY <1>1, AtLayer
  <2>3. QED
    BY <1>1, <2>1, <2>2 DEF Holds
<1>10. LayerStays
  BY <1>1, <1>2, <1>3, <1>7, <1>8 DEF LayerStays
<1>11. Types' /\ Steps' /\ Counts' /\ Empty' /\ Cleaned' /\ Mapped'
  BY <1>1, <1>7, <1>8, <1>10, LayerFrame
<1>12. Written' /\ Intact'
  BY <1>1, <1>2, <1>7, <1>8, <1>9, <1>10, LayerWrites, LayerIntact
<1>13. QED
  BY <1>11, <1>12 DEF Inv

(* What is known of a mapped file.                                         *)
LEMMA MappedFile ==
  ASSUME Inv, pc.at \in {"layer", "grow"}, pc.step \in Layer, model[pc.step] = "attention",
         cache[pc.step].file # 0, ~Fresh
  PROVE  /\ cache[pc.step].file = pc.step
         /\ meta.flag # "PendingWrite" =>
              /\ cache[pc.step].past = meta.previous
              /\ session /\ L <= meta.previous - meta.remove
<1>1. cache[pc.step].file = pc.step
  BY DEF Inv, Types, Attention
<1>2. InForward /\ status = "RUNNING"
  BY DEF InForward, Inv, Steps
<1>3. ~(pc.step < pc.step)
  BY Sizes DEF Inv, Types
<1>4. QED
  BY <1>1, <1>2, <1>3 DEF Inv, Mapped

(* A layer whose rows are in the prefix file.                              *)
LEMMA AppendToFile ==
  ASSUME Inv, AppendRows, cache[pc.step].file # 0
  PROVE  Inv'
<1> DEFINE l == pc.step
           c == cache[l]
           past == c.past - meta.remove
           rows == Kept(Rows(l), past) \o Piece
           max == IF Needed > c.max THEN Needed + ExpandChunk ELSE c.max
           r == [past |-> past + Len(Piece), file |-> l, max |-> max, rows |-> <<>>]
           d == [disk[l] EXCEPT !.rows = rows]
<1>1. /\ pc.at = "layer" /\ l \in Layer /\ model[l] = "attention" /\ ~Fresh /\ NextLayer
      /\ DOMAIN cache = Layer /\ c \in Attention(l)
      /\ UNCHANGED << model, prefix, meta, mode, status, pieces, told, session >>
  BY DEF AppendRows, Running, Inv, Types
<1>2. /\ c.file = l
      /\ meta.flag # "PendingWrite" =>
           /\ c.past = meta.previous /\ session /\ L <= meta.previous - meta.remove
  BY <1>1, MappedFile
<1>3. disk' = [disk EXCEPT ![l] = d] /\ cache' = [cache EXCEPT ![l] = r]
  BY <1>2 DEF AppendRows
<1>4. /\ disk \in [ Layer -> File ] /\ meta \in Meta /\ meta.layerIndex < N
      /\ meta.remove \in Nat /\ meta.previous \in Nat /\ meta.remove <= meta.previous
      /\ Piece \in Seq(Int) /\ Len(Piece) \in Nat /\ told \in Seq(Int)
      /\ Layer = 1 .. N /\ prefix \in Seq(Int) /\ L \in Nat
  BY <1>1, AtLayer
<1>5. c.past \in Int /\ c.max \in Nat
  BY <1>1 DEF Attention
<1>6. Rows(l) = disk[l].rows /\ disk[l].rows \in Seq(Int) /\ disk[l] \in File
  <2>1. l # 0
    BY <1>1, <1>4
  <2>2. Rows(l) = disk[l].rows
    BY <1>2, <2>1 DEF Rows
  <2>3. QED
    BY <1>1, <1>4, <2>2 DEF File
<1>7. meta.flag = "PendingWrite" =>
        /\ meta.remove = 0 /\ c.past = Len(told) /\ told # <<>> /\ meta.layerIndex = 0
        /\ disk[l].has = Both /\ disk[l].kind = model[l] /\ disk[l].rows = told
  <2> SUFFICES ASSUME meta.flag = "PendingWrite"
               PROVE  /\ meta.remove = 0 /\ c.past = Len(told) /\ told # <<>> /\ meta.layerIndex = 0
                      /\ disk[l].has = Both /\ disk[l].kind = model[l] /\ disk[l].rows = told
    OBVIOUS
  <2>1. told # <<>> /\ meta.remove = 0 /\ meta.layerIndex = 0 /\ Holds(l, told)
    BY <1>1, WhileWriting
  <2>2. QED
    BY <1>1, <2>1 DEF Holds, Content
<1> HIDE DEF c
<1>8. past \in Int /\ past + Len(Piece) \in Int /\ max \in Nat
  BY <1>4, <1>5, PrefixCacheAssumption, SMTT(30) DEF Needed
<1>9. rows \in Seq(Int)
  <2> HIDE DEF past, l
  <2>1. Kept(Rows(l), past) \in Seq(Int)
    BY <1>6, <1>8, KeptRows
  <2>2. QED
    BY <1>4, <2>1, ConcatProperties
<1>10. meta.flag = "PendingWrite" => rows = told \o Piece /\ past + Len(Piece) = Len(told \o Piece)
  <2> SUFFICES ASSUME meta.flag = "PendingWrite"
               PROVE  rows = told \o Piece /\ past + Len(Piece) = Len(told \o Piece)
    OBVIOUS
  <2>1. past = Len(told) /\ Rows(l) = told
    BY <1>4, <1>5, <1>6, <1>7
  <2>2. Kept(told, Len(told)) = told
    BY <1>4, KeptAll
  <2>3. Len(told \o Piece) = Len(told) + Len(Piece)
    BY <1>4, ConcatProperties
  <2>4. QED
    BY <2>1, <2>2, <2>3
<1>11. meta.flag # "PendingWrite" => (Begins(disk[l].rows) => Begins(rows))
  <2> SUFFICES ASSUME meta.flag # "PendingWrite", Begins(disk[l].rows) PROVE Begins(rows)
    OBVIOUS
  <2>1. past = meta.previous - meta.remove /\ past \in Nat /\ L <= past
    BY <1>2, <1>4 DEF c
  <2> HIDE DEF past
  <2>2. QED
    BY <1>4, <1>6, <2>1, AppendBegins
<1>12. meta.flag # "PendingWrite" => past + Len(Piece) = meta.previous - meta.remove + Len(Piece)
  BY <1>2 DEF c
<1> HIDE DEF rows, past, max
<1>13. r \in Attention(l) /\ r.file = l /\ r.past = past + Len(Piece)
  <2>1. <<>> \in Seq(Int)
    OBVIOUS
  <2>2. QED
    BY <1>8, <2>1 DEF Attention
<1>14. /\ d \in File /\ d.has = disk[l].has /\ d.kind = disk[l].kind /\ d.sync = disk[l].sync
       /\ d.rows = rows /\ d.size = disk[l].size
  BY <1>6, <1>9 DEF File
<1> HIDE DEF r, d
<1>15. /\ DOMAIN cache' = Layer /\ cache'[l] = r
       /\ \A g \in Layer : g # l => cache'[g] = cache[g]
  BY <1>1, <1>3, CacheChanged
<1>16. /\ disk' \in [ Layer -> File ] /\ disk'[l] = d
       /\ \A g \in Layer : g # l => disk'[g] = disk[g]
  BY <1>1, <1>3, <1>4, <1>14, FileChanged
<1>17. LayerStays
  BY <1>1, <1>4, <1>13, <1>15, <1>16 DEF LayerStays
<1>18. Types' /\ Steps' /\ Counts' /\ Empty' /\ Cleaned' /\ Mapped'
  BY <1>1, <1>2, <1>12, <1>13, <1>15, <1>17, LayerFrame
<1>19. pc'.at = "layer"
  BY <1>1, AtLayer, NextPlace
<1>20. ASSUME meta.flag = "PendingWrite", NEW g \in Layer, g = l
       PROVE  Holds(g, told \o Piece)'
  <2>1. told' \o Piece' = rows /\ r.past = Len(rows)
    BY <1>1, <1>10, <1>13, <1>20 DEF Piece
  <2>2. Content(g)' = rows
    BY <1>14, <1>16, <1>19, <1>20 DEF Content
  <2>3. disk'[g].has = Both /\ disk'[g].kind = model[g] /\ model'[g] = "attention"
    BY <1>1, <1>7, <1>14, <1>16, <1>20
  <2>4. cache'[g].file = g /\ cache'[g].past = Len(rows)
    BY <1>13, <1>15, <1>20, <2>1
  <2>5. QED
    BY <1>1, <2>1, <2>2, <2>3, <2>4 DEF Holds
<1>21. Written'
  BY <1>1, <1>7, <1>14, <1>16, <1>17, <1>20, LayerWrites
<1>22. Intact'
  <2>1. CASE meta.flag = "PendingWrite"
    BY <1>1, <2>1 DEF Intact
  <2>2. CASE meta.flag # "PendingWrite"
    <3>1. ASSUME NEW g \in Layer
          PROVE  disk'[g].has = disk[g].has /\ (Whole(g) => Whole(g)')
      <4>1. CASE g = l
        <5>1. Content(g) = disk[l].rows /\ Content(g)' = rows
          BY <1>1, <1>14, <1>16, <1>19, <4>1 DEF Content
        <5>2. Begins(Content(g)) => Begins(Content(g))'
          BY <1>1, <1>11, <2>2, <5>1 DEF Begins, L
        <5>3. QED
          BY <1>1, <1>14, <1>16, <4>1, <5>2 DEF Whole
      <4>2. CASE g # l
        <5>1. Content(g)' = Content(g) /\ disk'[g] = disk[g]
          BY <1>1, <1>16, <1>19, <4>2 DEF Content
        <5>2. QED
          BY <1>1, <5>1 DEF Whole, Begins, L
      <4>3. QED
        BY <4>1, <4>2
    <3>2. Marked' => Marked
      BY <1>1, <1>14, <1>16 DEF Marked, Layer
    <3>3. ~Broken
      BY <1>1, <1>2, <1>4 DEF Broken, c
    <3>4. Writing' = Writing
      BY <1>1 DEF Writing
    <3>5. QED
      BY <1>1, <2>2, <3>1, <3>2, <3>3, <3>4, WholeStays DEF Inv
  <2>3. QED
    BY <2>1, <2>2
<1>23. QED
  BY <1>18, <1>21, <1>22 DEF Inv

(* A layer appends behind what the plan keeps.                             *)
LEMMA AppendRowsInv ==
  ASSUME Inv, AppendRows
  PROVE  Inv'
BY AppendToTemporary, AppendToFile

(* While a file is enlarged its rows are in memory, and nothing else       *)
(* changes.                                                                *)
LEMMA GrowthInv ==
  ASSUME Inv, pc.at \in {"layer", "grow"}, pc.step \in Layer, model[pc.step] = "attention",
         cache[pc.step].file # 0, ~Fresh,
         UNCHANGED << model, prefix, meta, mode, status, pieces, told, session >>,
         pc' \in Going, pc'.step = pc.step, pc'.decoding = pc.decoding, pc'.tail = pc.tail,
         NEW r \in Attention(pc.step), cache' = [cache EXCEPT ![pc.step] = r],
         r.file = cache[pc.step].file, r.past = cache[pc.step].past,
         NEW d \in File, disk' = [disk EXCEPT ![pc.step] = d],
         d.has = disk[pc.step].has, d.sync = disk[pc.step].sync, d.kind = disk[pc.step].kind,
         \A g \in Layer : g = pc.step => Content(g)' = Content(g)
  PROVE  Inv'
<1> DEFINE l == pc.step
<1>1. /\ N \in Nat \ {0} /\ Layer = 1 .. N /\ Layer' = Layer /\ N' = N /\ L' = L
      /\ disk \in [ Layer -> File ] /\ DOMAIN cache = Layer
      /\ Fresh' = Fresh /\ Piece' = Piece /\ InForward /\ status = "RUNNING"
  BY Sizes DEF Inv, Types, Layer, N, L, Fresh, Piece, InForward, Steps
<1>2. /\ pc' \in Place /\ InForward' /\ pc'.at \in {"layer", "grow"}
  BY DEF Going, Place, InForward
<1>3. /\ DOMAIN cache' = Layer /\ cache'[l] = r
      /\ \A g \in Layer : g # l => cache'[g] = cache[g]
  BY <1>1, CacheChanged
<1>4. /\ disk' \in [ Layer -> File ] /\ disk'[l] = d
      /\ \A g \in Layer : g # l => disk'[g] = disk[g]
  BY <1>1, FileChanged
<1>5. \A g \in Layer : /\ disk'[g].has = disk[g].has /\ disk'[g].sync = disk[g].sync
                       /\ disk'[g].kind = disk[g].kind
  BY <1>4
<1>6. \A g \in Layer : model[g] = "attention" =>
        cache'[g].file = cache[g].file /\ cache'[g].past = cache[g].past
  BY <1>3
<1>7. \A g \in Layer : model[g] # "attention" => cache'[g] = cache[g]
  BY <1>3
<1>8. ASSUME NEW g \in Layer
      PROVE  Content(g)' = Content(g)
  <2>1. CASE g = l
    BY <2>1
  <2>2. CASE g # l
    BY <1>4, <2>2 DEF Content
  <2>3. QED
    BY <2>1, <2>2
<1>9. Types'
  <2>1. \A g \in Layer : cache'[g] \in IF model[g] = "attention" THEN Attention(g) ELSE Linear
    BY <1>3 DEF Inv, Types
  <2>2. Linear' = Linear
    BY <1>1 DEF Linear
  <2>3. QED
    BY <1>1, <1>2, <1>3, <1>4, <2>1, <2>2 DEF Inv, Types
<1>10. Steps'
  <2>1. cache'[pc'.step].file # 0 /\ model'[pc'.step] = "attention"
    BY <1>3
  <2>2. QED
    BY <1>1, <1>2, <2>1 DEF Inv, Steps
<1>11. Counts'
  BY <1>1, <1>2 DEF Inv, Counts, Skipped
<1>12. Empty'
  <2>1. \A g \in Layer : model[g] = "linear" => cache'[g] = cache[g]
    BY <1>7
  <2>2. QED
    BY <1>1, <1>2, <2>1 DEF Inv, Empty, Skipped
<1>13. Cleaned'
  BY <1>1 DEF Inv, Cleaned, InForward
<1>14. Mapped'
  BY <1>1, <1>2, <1>6 DEF Inv, Mapped
<1>15. ASSUME NEW g \in Layer, NEW rows, Holds(g, rows)
       PROVE  /\ disk'[g].has = Both /\ disk'[g].kind = model'[g] /\ Content(g)' = rows
              /\ IF model'[g] = "attention" THEN cache'[g].file = g /\ cache'[g].past = Len(rows)
                 ELSE cache'[g].state = rows /\ cache'[g].index = g - 1
  BY <1>5, <1>6, <1>7, <1>8, <1>15 DEF Holds
<1>16. Written'
  <2> SUFFICES ASSUME meta.flag = "PendingWrite" PROVE Written'
    BY DEF Written
  <2>1. /\ Writing /\ InForward /\ ~pc.decoding /\ session
        /\ \A f \in Layer : disk[f].sync = {}
        /\ WritesPieces
        /\ told # <<>> => meta.remove = 0
        /\ HasLinear /\ told = <<>> /\ Len(Piece) = 1 => meta.previous = 0
        /\ meta.layerIndex = IF told = <<>> /\ pc.step <= N THEN pc.step - 1 ELSE 0
        /\ \A g \in Layer :
             IF g < pc.step THEN Holds(g, told \o Piece)
             ELSE IF told = <<>> THEN disk[g].has = {} ELSE Holds(g, told)
    BY DEF Inv, Written
  <2>2. WritesPieces' /\ Writing' /\ HasLinear' = HasLinear
    BY <1>1, <2>1 DEF WritesPieces, Writing, HasLinear
  <2>3. \A g \in Layer' :
          IF g < pc'.step THEN Holds(g, told \o Piece)'
          ELSE IF told' = <<>> THEN disk'[g].has = {} ELSE Holds(g, told)'
    <3> SUFFICES ASSUME NEW g \in Layer
                 PROVE  IF g < pc.step THEN Holds(g, told \o Piece)'
                        ELSE IF told = <<>> THEN disk'[g].has = {} ELSE Holds(g, told)'
      BY <1>1
    <3>1. Holds(g, told \o Piece) => Holds(g, told \o Piece)'
      <4> SUFFICES ASSUME Holds(g, told \o Piece) PROVE Holds(g, told \o Piece)'
        OBVIOUS
      <4> DEFINE rows == told \o Piece
      <4>1. told' \o Piece' = rows
        BY <1>1
      <4>2. Holds(g, rows)
        OBVIOUS
      <4> HIDE DEF rows
      <4>3. /\ disk'[g].has = Both /\ disk'[g].kind = model'[g] /\ Content(g)' = rows
            /\ IF model'[g] = "attention" THEN cache'[g].file = g /\ cache'[g].past = Len(rows)
               ELSE cache'[g].state = rows /\ cache'[g].index = g - 1
        BY <1>15, <4>2
      <4>4. QED
        BY <4>1, <4>3 DEF Holds
    <3>2. Holds(g, told) => Holds(g, told)'
      <4> SUFFICES ASSUME Holds(g, told) PROVE Holds(g, told)'
        OBVIOUS
      <4>1. QED
        BY <1>15 DEF Holds
    <3>3. QED
      BY <1>5, <2>1, <3>1, <3>2
  <2>4. \A f \in Layer' : disk'[f].sync = {}
    BY <1>1, <1>5, <2>1
  <2>5. QED
    BY <1>1, <1>2, <2>1, <2>2, <2>3, <2>4 DEF Written
<1>17. Intact'
  <2>1. Marked' => Marked
    BY <1>1, <1>5 DEF Marked
  <2>2. ~Broken /\ Writing' = Writing
    BY DEF Broken, Writing
  <2>3. QED
    BY <1>5, <1>8, <2>1, <2>2, FilesStay DEF Inv
<1>18. QED
  BY <1>9, <1>10, <1>11, <1>12, <1>13, <1>14, <1>16, <1>17 DEF Inv

(* While a file is enlarged its rows are in memory.                        *)
LEMMA GrowFileInv ==
  ASSUME Inv, GrowFile
  PROVE  Inv'
<1> DEFINE l == pc.step
           size == Needed + ExpandChunk
           r == [cache[l] EXCEPT !.max = size, !.rows = disk[l].rows]
           d == [disk[l] EXCEPT !.rows = <<>>, !.size = size]
<1>1. /\ pc.at = "layer" /\ l \in Layer /\ model[l] = "attention" /\ ~Fresh
      /\ cache[l] \in Attention(l) /\ cache[l].file # 0
      /\ UNCHANGED << model, prefix, meta, mode, status, pieces, told, session >>
      /\ pc' = [pc EXCEPT !.at = "grow"]
  BY DEF GrowFile, Running, Inv, Types
<1>2. cache[l].file = l
  BY <1>1, MappedFile
<1>3. cache' = [cache EXCEPT ![l] = r] /\ disk' = [disk EXCEPT ![l] = d]
  BY <1>2 DEF GrowFile
<1>4. /\ disk[l] \in File /\ disk[l].rows \in Seq(Int) /\ size \in Nat /\ pc \in Going
      /\ disk \in [ Layer -> File ] /\ DOMAIN cache = Layer
  <2>1. /\ disk \in [ Layer -> File ] /\ meta.previous \in Nat /\ meta.remove \in Nat
        /\ meta.remove <= meta.previous /\ Len(Piece) \in Nat /\ pc \in Going
    BY <1>1, AtLayer
  <2>2. Needed \in Nat /\ ExpandChunk \in Nat
    BY <2>1, PrefixCacheAssumption DEF Needed
  <2>3. size \in Nat
    BY <2>2
  <2>4. QED
    BY <1>1, <2>1, <2>3 DEF File, Inv, Types
<1> HIDE DEF size
<1>5. r \in Attention(l) /\ r.file = cache[l].file /\ r.past = cache[l].past /\ r.rows = disk[l].rows
  BY <1>1, <1>4 DEF Attention
<1>6. /\ d \in File /\ d.has = disk[l].has /\ d.sync = disk[l].sync /\ d.kind = disk[l].kind
  <2>1. <<>> \in Seq(Int)
    OBVIOUS
  <2>2. QED
    BY <1>4, <2>1 DEF File
<1> HIDE DEF r, d
<1>7. pc' \in Going /\ pc'.at = "grow" /\ pc'.step = l /\ pc'.decoding = pc.decoding /\ pc'.tail = pc.tail
  BY <1>1, <1>4 DEF Going
<1>8. \A g \in Layer : g = l => Content(g)' = Content(g)
  <2>1. cache'[l] = r
    BY <1>1, <1>3, <1>4
  <2>2. QED
    BY <1>1, <1>5, <1>7, <2>1 DEF Content
<1>9. QED
  BY <1>1, <1>3, <1>5, <1>6, <1>7, <1>8, GrowthInv

(* An enlarged file gets its rows back.                                    *)
LEMMA CopyBackInv ==
  ASSUME Inv, CopyBack
  PROVE  Inv'
<1> DEFINE l == pc.step
           r == [cache[l] EXCEPT !.rows = <<>>]
           d == [disk[l] EXCEPT !.rows = cache[l].rows]
<1>1. /\ pc.at = "grow" /\ l \in Layer /\ model[l] = "attention" /\ ~Fresh
      /\ cache[l].file # 0 /\ cache[l] \in Attention(l)
      /\ UNCHANGED << model, prefix, meta, mode, status, pieces, told, session >>
      /\ pc' = [pc EXCEPT !.at = "layer"]
      /\ disk \in [ Layer -> File ] /\ DOMAIN cache = Layer
  <2>1. pc.at = "grow" /\ InForward
    BY DEF CopyBack, InForward
  <2>2. l \in Layer /\ model[l] = "attention" /\ cache[l].file # 0 /\ ~Fresh
    BY <2>1 DEF Inv, Steps
  <2>3. QED
    BY <2>1, <2>2 DEF CopyBack, Inv, Types
<1>2. cache[l].file = l
  BY <1>1, MappedFile
<1>3. cache' = [cache EXCEPT ![l] = r] /\ disk' = [disk EXCEPT ![l] = d]
  BY <1>2 DEF CopyBack
<1>4. disk[l] \in File /\ cache[l].rows \in Seq(Int) /\ pc \in Going
  <2>1. pc \in Going
    BY <1>1, ForwardPlace DEF Inv, Types, InForward
  <2>2. QED
    BY <1>1, <2>1 DEF Attention
<1>5. r \in Attention(l) /\ r.file = cache[l].file /\ r.past = cache[l].past
  <2>1. <<>> \in Seq(Int)
    OBVIOUS
  <2>2. QED
    BY <1>1, <2>1 DEF Attention
<1>6. /\ d \in File /\ d.has = disk[l].has /\ d.sync = disk[l].sync /\ d.kind = disk[l].kind
      /\ d.rows = cache[l].rows
  BY <1>4 DEF File
<1> HIDE DEF r, d
<1>7. pc' \in Going /\ pc'.at = "layer" /\ pc'.step = l /\ pc'.decoding = pc.decoding /\ pc'.tail = pc.tail
  BY <1>1, <1>4 DEF Going
<1>8. \A g \in Layer : g = l => Content(g)' = Content(g)
  <2>1. disk'[l] = d
    BY <1>1, <1>3
  <2>2. QED
    BY <1>1, <1>6, <1>7, <2>1 DEF Content
<1>9. QED
  BY <1>1, <1>3, <1>5, <1>6, <1>7, <1>8, GrowthInv

-----------------------------------------------------------------------------
(* Linear attention.                                                       *)

(* A resize keeps the type, and the state where nothing was erased.        *)
LEMMA ResizedState ==
  ASSUME NEW c \in Linear
  PROVE  /\ Resized(c) \in Linear /\ Resized(c).index = c.index
         /\ Len(Piece) = 1 => Resized(c).state = c.state
         /\ meta.remove = 0 /\ meta.previous # 0 => Resized(c).state = c.state
<1>1. <<>> \in Seq(Int)
  OBVIOUS
<1>2. CASE ~c.ready
  BY <1>1, <1>2 DEF Resized, Linear
<1>3. CASE c.ready /\ (Len(Piece) = 1 \/ meta.flag = "PendingRead")
  BY <1>3 DEF Resized
<1>4. CASE c.ready /\ ~(Len(Piece) = 1 \/ meta.flag = "PendingRead") /\ meta.remove > 0
  <2> DEFINE s == IF c.snapped THEN c.snapshot ELSE <<>>
  <2>1. s \in Seq(Int)
    BY <1>1 DEF Linear
  <2>2. Resized(c) = [c EXCEPT !.state = s]
    BY <1>4 DEF Resized
  <2>3. meta.remove # 0
    BY <1>4
  <2> HIDE DEF s
  <2>4. QED
    BY <1>4, <2>1, <2>2, <2>3 DEF Linear
<1>5. CASE c.ready /\ ~(Len(Piece) = 1 \/ meta.flag = "PendingRead") /\ ~(meta.remove > 0)
           /\ meta.previous = 0
  BY <1>1, <1>5 DEF Resized, Linear
<1>6. CASE c.ready /\ ~(Len(Piece) = 1 \/ meta.flag = "PendingRead") /\ ~(meta.remove > 0)
           /\ meta.previous # 0
  BY <1>6 DEF Resized
<1>7. QED
  BY <1>2, <1>3, <1>4, <1>5, <1>6

(* A state while a prefix is written: kept, or begun anew by its first     *)
(* piece.                                                                  *)
LEMMA ExecutedState ==
  ASSUME NEW c \in Linear, disk \in [ Layer -> File ], Layer = 1 .. N, N \in Nat \ {0},
         meta.layerIndex \in 0 .. N - 1
  PROVE  /\ Executed(c) \in Linear
         /\ meta.flag = "PendingWrite" =>
              /\ Executed(c).index = IF Fresh THEN meta.layerIndex ELSE c.index
              /\ Executed(c).state = IF Len(Piece) > 1 /\ Fresh THEN <<>> ELSE c.state
<1> DEFINE reading == meta.flag = "PendingRead"
           zeroed == IF Len(Piece) > 1 /\ Fresh /\ ~reading THEN [c EXCEPT !.state = <<>>] ELSE c
           indexed == IF meta.flag # "NoChange" /\ Fresh
                      THEN [zeroed EXCEPT !.index = meta.layerIndex] ELSE zeroed
           file == disk[indexed.index + 1]
           s == IF file.kind = "linear" THEN file.rows ELSE <<Blank>>
           loaded == [indexed EXCEPT !.state = s]
<1>1. Executed(c) = IF reading /\ indexed.index >= 0 THEN Snapshot(loaded) ELSE indexed
  BY DEF Executed
<1>2. <<>> \in Seq(Int) /\ <<Blank>> \in Seq(Int)
  BY DEF Blank
<1>3. /\ zeroed \in Linear /\ zeroed.index = c.index
      /\ zeroed.state = IF Len(Piece) > 1 /\ Fresh /\ ~reading THEN <<>> ELSE c.state
  <2>1. CASE Len(Piece) > 1 /\ Fresh /\ ~reading
    BY <1>2, <2>1 DEF Linear
  <2>2. CASE ~(Len(Piece) > 1 /\ Fresh /\ ~reading)
    BY <2>2
  <2>3. QED
    BY <2>1, <2>2
<1> HIDE DEF zeroed
<1>4. /\ indexed \in Linear /\ indexed.state = zeroed.state
      /\ indexed.index = IF meta.flag # "NoChange" /\ Fresh THEN meta.layerIndex ELSE c.index
  <2>1. meta.layerIndex \in -1 .. N - 1
    OBVIOUS
  <2>2. CASE meta.flag # "NoChange" /\ Fresh
    BY <1>3, <2>1, <2>2 DEF Linear
  <2>3. CASE ~(meta.flag # "NoChange" /\ Fresh)
    BY <1>3, <2>3
  <2>4. QED
    BY <2>2, <2>3
<1> HIDE DEF indexed
<1>5. ASSUME indexed.index >= 0
      PROVE  Snapshot(loaded) \in Linear
  <2>1. indexed.index + 1 \in Layer
    BY <1>4, <1>5, SMTT(30) DEF Linear
  <2>2. s \in Seq(Int)
    BY <1>2, <2>1 DEF File
  <2> HIDE DEF s
  <2>3. loaded \in Linear
    BY <1>4, <2>2 DEF Linear
  <2> HIDE DEF loaded
  <2>4. QED
    BY <2>3 DEF Snapshot, Linear
<1> HIDE DEF loaded
<1>6. Executed(c) \in Linear
  BY <1>1, <1>4, <1>5
<1>7. meta.flag = "PendingWrite" => Executed(c) = indexed /\ ~reading /\ meta.flag # "NoChange"
  BY <1>1
<1>8. QED
  BY <1>3, <1>4, <1>6, <1>7

(* A linear layer that writes saves its state under its own index.         *)
LEMMA LinearStepInv ==
  ASSUME Inv, NEW resized \in BOOLEAN, LinearStep(resized)
  PROVE  Inv'
<1> DEFINE l == pc.step
           c == IF resized THEN Resized(cache[l]) ELSE cache[l]
           before == Executed(c)
           after == [before EXCEPT !.state = @ \o Piece]
           saves == meta.flag = "PendingWrite" /\ after.index >= 0
           r == IF saves THEN Snapshot(after) ELSE after
           d == [disk[l] EXCEPT !.has = Both, !.kind = "linear", !.rows = after.state, !.size = 1]
<1>1. /\ pc.at = "layer" /\ l \in Layer /\ model[l] = "linear" /\ NextLayer
      /\ model \in Models /\ prefix \in Prefixes /\ DOMAIN cache = Layer /\ cache[l] \in Linear
      /\ UNCHANGED << model, prefix, mode, status, pieces, told, session >>
      /\ IF meta.flag # "NoChange" /\ Fresh THEN AdvanceIndex ELSE UNCHANGED meta
  BY DEF LinearStep, Running, Inv, Types
<1>2. /\ cache' = [cache EXCEPT ![l] = r]
      /\ disk' = IF ~saves THEN disk
                 ELSE [disk EXCEPT ![after.index + 1] =
                        [@ EXCEPT !.has = Both, !.kind = "linear", !.rows = after.state, !.size = 1]]
  BY DEF LinearStep
<1>3. /\ N \in Nat \ {0} /\ Layer = 1 .. N /\ disk \in [ Layer -> File ]
      /\ meta \in Meta /\ meta.layerIndex < N /\ meta.layerIndex \in 0 .. N - 1
      /\ Piece \in Seq(Int) /\ Len(Piece) \in Nat \ {0} /\ told \in Seq(Int)
      /\ meta.previous \in Nat /\ meta.remove \in Nat /\ disk[l] \in File
  BY <1>1, AtLayer, SMTT(30)
<1>4. /\ c \in Linear /\ c.index = cache[l].index
      /\ Len(Piece) = 1 => c.state = cache[l].state
      /\ meta.remove = 0 /\ meta.previous # 0 => c.state = cache[l].state
  BY <1>1, ResizedState
<1> HIDE DEF c
<1>5. /\ before \in Linear
      /\ meta.flag = "PendingWrite" =>
           /\ before.index = IF Fresh THEN meta.layerIndex ELSE c.index
           /\ before.state = IF Len(Piece) > 1 /\ Fresh THEN <<>> ELSE c.state
  BY <1>3, <1>4, ExecutedState
<1> HIDE DEF before
<1>6. after \in Linear /\ after.index = before.index /\ after.state = before.state \o Piece
  <2> DEFINE s == before.state \o Piece
  <2>1. before.state \in Seq(Int)
    BY <1>5 DEF Linear
  <2>2. s \in Seq(Int)
    BY <1>3, <2>1, ConcatProperties
  <2>3. after = [before EXCEPT !.state = s]
    OBVIOUS
  <2> HIDE DEF s, after
  <2>4. after \in Linear /\ after.index = before.index /\ after.state = s
    BY <1>5, <2>2, <2>3 DEF Linear
  <2>5. QED
    BY <2>4 DEF s
<1> HIDE DEF after
<1>7. r \in Linear /\ r.index = after.index /\ r.state = after.state
  BY <1>6 DEF Snapshot, Linear
<1> HIDE DEF r
<1>8. meta.flag = "PendingWrite" => before.index = l - 1 /\ before.state = told
  <2> SUFFICES ASSUME meta.flag = "PendingWrite" PROVE before.index = l - 1 /\ before.state = told
    OBVIOUS
  <2>1. /\ Fresh <=> told = <<>>
        /\ told = <<>> => meta.layerIndex = l - 1
        /\ told # <<>> => meta.remove = 0 /\ Holds(l, told)
        /\ HasLinear /\ told = <<>> /\ Len(Piece) = 1 => meta.previous = 0
    BY <1>1, WhileWriting
  <2>2. CASE told = <<>>
    <3>1. before.index = l - 1
      BY <1>5, <2>1, <2>2
    <3>2. CASE Len(Piece) > 1
      BY <1>5, <2>1, <2>2, <3>2
    <3>3. CASE ~(Len(Piece) > 1)
      <4>1. Len(Piece) = 1 /\ HasLinear
        <5>1. Len(Piece) = 1
          <6>1. PICK n \in Nat \ {0} : n = Len(Piece)
            BY <1>3
          <6>2. ~(n > 1)
            BY <3>3, <6>1
          <6>3. QED
            BY <6>1, <6>2
        <5>2. HasLinear
          BY <1>1 DEF HasLinear
        <5>3. QED
          BY <5>1, <5>2
      <4>2. meta.previous = 0 /\ status = "RUNNING" /\ ~(pc.step > l) /\ l <= l
        BY <1>1, <1>3, <2>1, <2>2, <4>1, AtLayer
      <4>3. cache[l].state = <<>>
        <5>1. Writing /\ InForward /\ ~Skipped
          BY DEF Inv, Written, Writing, Skipped
        <5>2. cache[l].state = <<>> \/ Len(Piece) > 1
          BY <1>1, <4>2, <5>1 DEF Inv, Empty
        <5>3. QED
          BY <3>3, <5>2
      <4>4. QED
        BY <1>4, <1>5, <2>2, <3>1, <3>3, <4>1, <4>3
    <3>4. QED
      BY <3>1, <3>2, <3>3
  <2>3. CASE told # <<>>
    <3>1. ~Fresh /\ meta.remove = 0 /\ cache[l].state = told /\ cache[l].index = l - 1
      BY <1>1, <2>1, <2>3 DEF Holds
    <3>2. meta.previous # 0
      BY <3>1 DEF Fresh
    <3>3. QED
      BY <1>4, <1>5, <3>1, <3>2
  <2>4. QED
    BY <2>2, <2>3
<1>9. meta.flag = "PendingWrite" =>
        saves /\ after.index + 1 = l /\ after.state = told \o Piece
  <2> SUFFICES ASSUME meta.flag = "PendingWrite"
               PROVE  saves /\ after.index + 1 = l /\ after.state = told \o Piece
    OBVIOUS
  <2>1. PICK i \in Nat \ {0} : i = l
    BY <1>1, <1>3
  <2>2. after.index = i - 1
    BY <1>6, <1>8, <2>1
  <2>3. after.index >= 0 /\ after.index + 1 = l
    BY <2>1, <2>2
  <2>4. after.state = told \o Piece
    BY <1>6, <1>8
  <2>5. QED
    BY <2>3, <2>4
<1>10. disk' = IF meta.flag = "PendingWrite" THEN [disk EXCEPT ![l] = d] ELSE disk
  BY <1>2, <1>9
<1>11. /\ d \in File /\ d.has = Both /\ d.kind = "linear" /\ d.rows = after.state
       /\ d.sync = disk[l].sync
  <2>1. after.state \in Seq(Int) /\ 1 \in Nat /\ Both \in SUBSET Both
    BY <1>6 DEF Linear
  <2>2. QED
    BY <1>3, <2>1 DEF File
<1> HIDE DEF d, saves
<1>12. /\ disk' \in [ Layer -> File ]
       /\ meta.flag = "PendingWrite" =>
            disk'[l] = d /\ \A g \in Layer : g # l => disk'[g] = disk[g]
  <2>1. CASE meta.flag = "PendingWrite"
    BY <1>1, <1>3, <1>10, <1>11, <2>1, FileChanged
  <2>2. CASE meta.flag # "PendingWrite"
    BY <1>3, <1>10, <2>2
  <2>3. QED
    BY <2>1, <2>2
<1>13. /\ DOMAIN cache' = Layer /\ cache'[l] = r
       /\ \A g \in Layer : g # l => cache'[g] = cache[g]
  BY <1>1, <1>2, CacheChanged
<1>14. /\ meta' \in Meta /\ meta'.previous = meta.previous /\ meta'.remove = meta.remove
       /\ meta'.flag = meta.flag /\ meta'.inDisk = meta.inDisk /\ meta'.layerIndex < N
       /\ meta.flag = "PendingWrite" /\ Fresh =>
            meta'.layerIndex = IF meta.layerIndex + 1 < N THEN meta.layerIndex + 1 ELSE 0
       /\ ~Fresh => meta'.layerIndex = meta.layerIndex
  <2>1. CASE meta.flag # "NoChange" /\ Fresh
    BY <1>1, <1>3, <2>1, Sizes, Advanced
  <2>2. CASE ~(meta.flag # "NoChange" /\ Fresh)
    BY <1>1, <1>3, <2>2
  <2>3. QED
    BY <2>1, <2>2
<1>15. LayerStays
  BY <1>1, <1>7, <1>12, <1>13, <1>14 DEF LayerStays
<1>16. Types' /\ Steps' /\ Counts' /\ Empty' /\ Cleaned' /\ Mapped'
  BY <1>1, <1>15, LayerFrame
<1>17. meta.flag = "PendingWrite" =>
         meta'.layerIndex = IF told = <<>> /\ pc.step < N THEN pc.step ELSE 0
  <2> SUFFICES ASSUME meta.flag = "PendingWrite"
               PROVE  meta'.layerIndex = IF told = <<>> /\ pc.step < N THEN pc.step ELSE 0
    OBVIOUS
  <2>1. /\ Fresh <=> told = <<>>
        /\ told = <<>> => meta.layerIndex = l - 1
        /\ told # <<>> => meta.layerIndex = 0
    BY <1>1, WhileWriting
  <2>2. l - 1 + 1 = l
    BY <1>1, <1>3
  <2>3. QED
    BY <1>14, <2>1, <2>2
<1>18. ASSUME meta.flag = "PendingWrite", NEW g \in Layer, g = l
       PROVE  Holds(g, told \o Piece)'
  <2>1. pc'.at = "layer"
    BY <1>1, AtLayer, NextPlace
  <2>2. told' \o Piece' = after.state
    BY <1>1, <1>9, <1>18 DEF Piece
  <2>3. Content(g)' = disk'[g].rows
    BY <2>1 DEF Content
  <2>4. cache'[g].state = after.state /\ cache'[g].index = g - 1
    BY <1>6, <1>7, <1>8, <1>13, <1>18
  <2>5. QED
    BY <1>1, <1>11, <1>12, <1>18, <2>2, <2>3, <2>4 DEF Holds
<1>19. Written'
  BY <1>1, <1>11, <1>12, <1>15, <1>17, <1>18, LayerWrites
<1>20. Intact'
  <2>1. CASE meta.flag = "PendingWrite"
    BY <1>14, <2>1 DEF Intact
  <2>2. CASE meta.flag # "PendingWrite"
    BY <1>1, <1>10, <1>15, <2>2, LayerIntact
  <2>3. QED
    BY <2>1, <2>2
<1>21. QED
  BY <1>16, <1>19, <1>20 DEF Inv

-----------------------------------------------------------------------------
(* The end of a forward.                                                   *)

(* What the plan becomes.                                                  *)
LEMMA PlanFacts ==
  ASSUME meta \in Meta, meta.remove <= meta.previous, Len(Piece) \in Nat, NEW decodes \in BOOLEAN
  PROVE  LET ends == EndsLoad \/ EndsWrite(decodes)
             loaded == IF EndsLoad /\ mode.exist THEN meta.inDisk ELSE 0
             plan == PlanAfter(decodes)
         IN  /\ plan \in Meta /\ plan.remove = 0
             /\ plan.previous = meta.previous - meta.remove + Len(Piece) + loaded
             /\ plan.flag = IF ends THEN "NoChange" ELSE meta.flag
             /\ plan.layerIndex = IF ends THEN 0 ELSE meta.layerIndex
<1> DEFINE p == meta.previous - meta.remove + Len(Piece)
           synced == [meta EXCEPT !.previous = p, !.remove = 0]
           off == [synced EXCEPT !.flag = "NoChange", !.layerIndex = 0]
           q == IF mode.exist THEN p + meta.inDisk ELSE p
           loaded == [off EXCEPT !.previous = q, !.inDisk = 0]
<1>1. p \in Nat /\ meta.inDisk \in Nat /\ q \in Nat
  BY DEF Meta
<1>2. /\ Synced = synced /\ Off(Synced) = off
      /\ PlanAfter(decodes) = IF EndsLoad THEN [off EXCEPT !.previous = IF mode.exist THEN @ + meta.inDisk ELSE @,
                                                           !.inDisk = 0]
                              ELSE IF EndsWrite(decodes) THEN off ELSE synced
  BY DEF PlanAfter, Synced, Off
<1> HIDE DEF p
<1>3. /\ synced \in Meta /\ synced.remove = 0 /\ synced.previous = p
      /\ synced.flag = meta.flag /\ synced.layerIndex = meta.layerIndex
  BY <1>1 DEF Meta
<1> HIDE DEF synced
<1>4. /\ off \in Meta /\ off.remove = 0 /\ off.previous = p
      /\ off.flag = "NoChange" /\ off.layerIndex = 0
  BY <1>3 DEF Meta
<1> HIDE DEF off
<1>5. [off EXCEPT !.previous = IF mode.exist THEN @ + meta.inDisk ELSE @, !.inDisk = 0] = loaded
  BY <1>4
<1> HIDE DEF q
<1>6. /\ loaded \in Meta /\ loaded.remove = 0 /\ loaded.previous = q
      /\ loaded.flag = "NoChange" /\ loaded.layerIndex = 0
  BY <1>1, <1>4 DEF Meta
<1> HIDE DEF loaded
<1>7. CASE EndsLoad
  <2>1. q = p + (IF mode.exist THEN meta.inDisk ELSE 0)
    BY <1>1 DEF q
  <2>2. QED
    BY <1>2, <1>5, <1>6, <1>7, <2>1 DEF p
<1>8. CASE ~EndsLoad
  <2>1. p = p + 0
    BY <1>1
  <2>2. CASE EndsWrite(decodes)
    BY <1>2, <1>4, <1>8, <2>1, <2>2 DEF p
  <2>3. CASE ~EndsWrite(decodes)
    BY <1>2, <1>3, <1>8, <2>1, <2>3 DEF p
  <2>4. QED
    BY <2>2, <2>3
<1>9. QED
  BY <1>7, <1>8

(* The pieces of a prefix that is written, one after the other.            *)
LEMMA PieceTold ==
  ASSUME prefix \in Seq(Int), prefix # <<>>, WritesPieces, pieces \in Seq(Seq(Int))
  PROVE  LET n == Len(Chunks(prefix))
         IN  /\ n \in Nat /\ Len(pieces) \in 1 .. n
             /\ told \o Piece = Cut(prefix, n - Len(pieces) + 1)
             /\ Len(pieces) = 1 => told \o Piece = prefix
             /\ Tail(pieces) = <<>> <=> Len(pieces) = 1
             /\ Len(Tail(pieces)) = Len(pieces) - 1
             /\ \A i \in 1 .. Len(pieces) - 1 : Tail(pieces)[i] = Chunks(prefix)[n - Len(pieces) + 1 + i]
<1> DEFINE c == Chunks(prefix)
           n == Len(c)
           m == Len(pieces)
           k == n - m + 1
<1>1. n \in Nat /\ n # 0
  BY ChunksType
<1>2. /\ m \in 1 .. n /\ \A i \in 1 .. m : pieces[i] = c[n - m + i]
      /\ told = Cut(prefix, n - m)
  BY DEF WritesPieces
<1>3. /\ \A i \in 1 .. n : Cut(prefix, i - 1) \o c[i] = Cut(prefix, i)
      /\ Cut(prefix, n) = prefix
  BY CutJoins
<1> HIDE DEF c, n
<1>4. k \in 1 .. n /\ k - 1 = n - m /\ 1 \in 1 .. m /\ n - m + 1 = k /\ (m = 1 => k = n)
  <2>1. n \in Nat /\ m \in 1 .. n
    BY <1>1, <1>2
  <2> HIDE DEF m
  <2>2. QED
    BY <2>1
<1>5. Piece = c[k]
  <2>1. Piece = pieces[1]
    BY DEF Piece
  <2>2. QED
    BY <1>2, <1>4, <2>1
<1>6. told \o Piece = Cut(prefix, k)
  BY <1>2, <1>3, <1>4, <1>5
<1>7. m = 1 => told \o Piece = prefix
  BY <1>3, <1>4, <1>6
<1>8. /\ Tail(pieces) \in Seq(Seq(Int)) /\ Len(Tail(pieces)) = m - 1
      /\ \A i \in 1 .. m - 1 : Tail(pieces)[i] = pieces[i + 1]
  <2>1. pieces # <<>>
    BY <1>1, <1>2
  <2>2. QED
    BY <2>1, HeadTailProperties
<1>9. \A i \in 1 .. m - 1 : Tail(pieces)[i] = c[k + i]
  <2> SUFFICES ASSUME NEW i \in 1 .. m - 1 PROVE Tail(pieces)[i] = c[k + i]
    OBVIOUS
  <2>1. i + 1 \in 1 .. m /\ n - m + (i + 1) = k + i
    BY <1>1, <1>2
  <2>2. QED
    BY <1>2, <1>8, <2>1
<1>10. Tail(pieces) = <<>> <=> m = 1
  <2>1. Tail(pieces) = <<>> <=> Len(Tail(pieces)) = 0
    BY <1>8, EmptySeq
  <2>2. m \in Nat /\ Len(Tail(pieces)) = m - 1
    BY <1>1, <1>2, <1>8
  <2>3. m - 1 = 0 <=> m = 1
    BY <2>2
  <2>4. QED
    BY <2>1, <2>2, <2>3
<1>11. QED
  BY <1>1, <1>2, <1>4, <1>6, <1>7, <1>8, <1>9, <1>10 DEF n, c

(* After the last layer of the last piece every file is whole.             *)
LEMMA WrittenWhole ==
  ASSUME Inv, pc.at = "layer", pc.step = N + 1, meta.flag = "PendingWrite", Len(pieces) = 1
  PROVE  /\ told \o Piece = prefix
         /\ \A l \in Layer : /\ Whole(l)
                             /\ model[l] = "attention" => cache[l].file = l /\ cache[l].past = L
<1>1. /\ N \in Nat \ {0} /\ Layer = 1 .. N /\ prefix \in Seq(Int) /\ L \in Nat \ {0}
      /\ pieces \in Seq(Seq(Int)) /\ WritesPieces /\ prefix # <<>>
      /\ \A l \in Layer : IF l < pc.step THEN Holds(l, told \o Piece)
                          ELSE IF told = <<>> THEN disk[l].has = {} ELSE Holds(l, told)
  <2>1. WritesPieces /\ \A l \in Layer : IF l < pc.step THEN Holds(l, told \o Piece)
                          ELSE IF told = <<>> THEN disk[l].has = {} ELSE Holds(l, told)
    BY DEF Inv, Written
  <2>2. prefix # <<>>
    BY Sizes DEF Inv, Types
  <2>3. QED
    BY <2>1, <2>2, AtLayer
<1>2. told \o Piece = prefix
  BY <1>1, PieceTold
<1>3. ASSUME NEW l \in Layer
      PROVE  Holds(l, prefix)
  <2>1. l < pc.step
    BY <1>1
  <2>2. QED
    BY <1>1, <1>2, <2>1
<1>4. Begins(prefix)
  BY <1>1 DEF Begins, L
<1>5. QED
  BY <1>2, <1>3, <1>4 DEF Whole, Holds, L

(* A forward that ends has brought every layer to the plan.                *)
LEMMA EndForwardInv ==
  ASSUME Survivable, Inv, NEW late \in BOOLEAN, EndForward(late)
  PROVE  Inv'
<1> DEFINE decodes == pc.tail # <<>> /\ ~late
           last == decodes \/ late
           ends == EndsLoad \/ EndsWrite(last)
           loaded == IF EndsLoad /\ mode.exist THEN meta.inDisk ELSE 0
<1>1. /\ pc.at = "layer" /\ pc.step = Cardinality(Layer) + 1
      /\ UNCHANGED << model, prefix, disk, cache, session >>
      /\ late => ~pc.decoding /\ ~Torn
      /\ meta' = PlanAfter(last) /\ mode' = IF EndsLoad THEN NoPrefix ELSE mode
      /\ told' = told \o Piece
      /\ status' = IF late THEN "TIMEOUT" ELSE status
      /\ pieces' = IF late THEN <<>> ELSE IF decodes THEN << pc.tail >> ELSE Tail(pieces)
      /\ pc' = IF decodes THEN Forward(TRUE, <<>>)
               ELSE IF ~late /\ Tail(pieces) # <<>> THEN [pc EXCEPT !.step = 1]
               ELSE IF Writing THEN [at |-> "mark", step |-> 1]
               ELSE [at |-> "idle"]
  BY DEF EndForward, MarkOrIdle, Survivable
<1>2. /\ N \in Nat \ {0} /\ Layer = 1 .. N /\ L \in Nat \ {0} /\ prefix \in Seq(Int)
      /\ InForward /\ pc \in Going /\ status = "RUNNING"
      /\ pieces \in Seq(Seq(Int)) /\ pieces # <<>>
      /\ Piece \in Seq(Int) /\ Len(Piece) \in Nat \ {0}
      /\ meta \in Meta /\ meta.previous \in Nat /\ meta.remove \in Nat
      /\ meta.remove <= meta.previous /\ meta.layerIndex < N
      /\ ~(mode.on /\ mode.call = 0) /\ told \in Seq(Int) /\ mode \in Mode
  BY <1>1, AtLayer DEF Inv, Types
<1>3. pc.step = N + 1 /\ prefix # <<>> /\ Cardinality(Layer) = N
  BY <1>1, Sizes DEF Inv, Types
<1>4. /\ meta' \in Meta /\ meta'.remove = 0
      /\ meta'.previous = meta.previous - meta.remove + Len(Piece) + loaded
      /\ meta'.flag = IF ends THEN "NoChange" ELSE meta.flag
      /\ meta'.layerIndex = IF ends THEN 0 ELSE meta.layerIndex
      /\ meta.inDisk \in Nat
  <2>1. last \in BOOLEAN /\ meta.inDisk \in Nat
    BY <1>2 DEF Meta
  <2> HIDE DEF last
  <2>2. QED
    BY <1>1, <1>2, <2>1, PlanFacts
<1>5. Layer' = Layer /\ N' = N /\ L' = L /\ HasLinear' = HasLinear
  BY <1>1 DEF Layer, N, L, HasLinear
<1>6. \A i \in 1 .. Len(pieces) : pieces[i] # <<>>
  BY <1>2 DEF Inv, Steps
<1>7. /\ pieces' \in Seq(Seq(Int)) /\ \A i \in 1 .. Len(pieces') : pieces'[i] # <<>>
      /\ decodes => pieces' # <<>>
  <2>1. CASE decodes
    <3> DEFINE t == pc.tail
    <3>1. t \in Seq(Int) /\ t # <<>> /\ ~late
      <4>1. pc.tail = << Generated >> /\ Generated \in Int
        BY <1>2, <2>1, PrefixCacheAssumption DEF Going
      <4>2. << Generated >> \in Seq(Int) /\ << Generated >> # <<>>
        BY <4>1
      <4>3. QED
        BY <2>1, <4>1, <4>2
    <3>2. pieces' = << t >>
      BY <1>1, <2>1
    <3> HIDE DEF t
    <3>3. QED
      BY <3>1, <3>2
  <2>2. CASE ~decodes /\ ~late
    <3>1. /\ Tail(pieces) \in Seq(Seq(Int)) /\ Len(Tail(pieces)) = Len(pieces) - 1
          /\ \A i \in 1 .. Len(pieces) - 1 : Tail(pieces)[i] = pieces[i + 1]
      BY <1>2, HeadTailProperties
    <3>2. Len(pieces) \in Nat /\ \A i \in 1 .. Len(pieces) - 1 : i + 1 \in 1 .. Len(pieces)
      BY <1>2, LenProperties
    <3>3. \A i \in 1 .. Len(Tail(pieces)) : Tail(pieces)[i] # <<>>
      BY <1>6, <3>1, <3>2
    <3>4. QED
      BY <1>1, <2>2, <3>1, <3>3
  <2>3. CASE late
    <3>1. pieces' = <<>>
      BY <1>1, <2>3
    <3>2. QED
      BY <2>3, <3>1
  <2>4. QED
    BY <2>1, <2>2, <2>3
<1>8. /\ pc' \in Place /\ pc'.at \in {"layer", "mark", "idle"}
      /\ pc'.at = "layer" => pc'.step = 1 /\ pieces' # <<>> /\ ~late
      /\ pc'.at = "mark" => pc'.step = 1 /\ Writing
  <2>1. CASE decodes
    BY <1>1, <1>7, <2>1, ForwardStarts
  <2>2. CASE ~decodes /\ ~late /\ Tail(pieces) # <<>>
    <3>1. pc' = [pc EXCEPT !.step = 1] /\ 1 \in Nat
      BY <1>1, <2>2
    <3>2. pc' \in Going /\ pc'.at = "layer" /\ pc'.step = 1
      BY <1>1, <1>2, <3>1 DEF Going
    <3>3. QED
      BY <1>1, <2>2, <3>2 DEF Place, Going
  <2>3. CASE ~decodes /\ (late \/ Tail(pieces) = <<>>)
    BY <1>1, <2>3 DEF Place
  <2>4. QED
    BY <2>1, <2>2, <2>3
<1>9. InForward' <=> pc'.at = "layer"
  BY <1>8 DEF InForward
<1>10. /\ mode' \in Mode /\ Writing' = Writing /\ ~Skipped'
       /\ ~(mode'.on /\ mode'.call = 0)
       /\ Skipped => EndsLoad /\ mode.exist
       /\ EndsLoad /\ mode.exist => Skipped /\ mode.call = 2
  <2>1. Writing => ~EndsLoad
    BY DEF Writing, EndsLoad
  <2>2. Skipped => EndsLoad /\ mode.exist
    <3>1. (mode.on /\ mode.exist) => mode.call # 1
      BY <1>2 DEF Inv, Counts
    <3>2. Skipped => ~pc.decoding /\ mode.call = 2
      BY <1>2, <3>1 DEF Inv, Counts, Skipped
    <3>3. QED
      BY <3>2 DEF Skipped, EndsLoad
  <2>3. EndsLoad /\ mode.exist => Skipped /\ mode.call = 2
    BY DEF EndsLoad, Skipped
  <2>4. CASE EndsLoad
    BY <1>1, <2>1, <2>2, <2>3, <2>4, Beginnings DEF NoPrefix, Writing, Skipped
  <2>5. CASE ~EndsLoad
    BY <1>1, <1>2, <2>1, <2>2, <2>3, <2>5 DEF Writing, Skipped
  <2>6. QED
    BY <2>4, <2>5
<1>11. told' \in Seq(Int) /\ Len(told') = Len(told) + Len(Piece) /\ Len(told) \in Nat
  BY <1>1, <1>2, ConcatProperties, LenProperties
<1>12. /\ Skipped => meta.previous - meta.remove = 0 /\ loaded = Len(told)
       /\ ~Skipped => meta.previous - meta.remove = Len(told) /\ loaded = 0
  <2>1. /\ meta.previous - meta.remove = IF Skipped THEN 0 ELSE Len(told)
        /\ Skipped /\ mode.call = 2 => meta.inDisk = Len(told)
    BY <1>2 DEF Inv, Counts
  <2>2. QED
    BY <1>10, <2>1
<1> DEFINE kept == meta.previous - meta.remove
<1> kept \in Nat /\ loaded \in Nat
  <2>1. meta.previous \in Nat /\ meta.remove \in Nat /\ meta.remove <= meta.previous
    BY <1>2
  <2>2. kept \in Nat
    BY <2>1
  <2>3. QED
    BY <1>4, <2>2
<1>13. meta'.previous = Len(told')
  <2> HIDE DEF kept, loaded
  <2>1. /\ kept \in Nat /\ loaded \in Nat /\ Len(told) \in Nat /\ Len(Piece) \in Nat
        /\ meta'.previous = kept + Len(Piece) + loaded
        /\ Len(told') = Len(told) + Len(Piece)
    BY <1>2, <1>4, <1>11 DEF kept
  <2>2. kept + loaded = Len(told)
    <3>1. /\ Skipped => kept = 0 /\ loaded = Len(told)
          /\ ~Skipped => kept = Len(told) /\ loaded = 0
      BY <1>12 DEF kept
    <3>2. QED
      BY <2>1, <3>1
  <2>3. QED
    BY ONLY <2>1, <2>2
<1>14. Types'
  <2>1. meta'.remove <= meta'.previous /\ meta'.layerIndex < N
    BY <1>2, <1>4 DEF Meta
  <2>2. QED
    BY <1>1, <1>4, <1>5, <1>7, <1>8, <1>10, <1>11, <2>1 DEF Inv, Types, Linear
<1>15. Steps'
  <2>1. 1 \in 1 .. N + 1 /\ 1 \in 1 .. 2 * N
    BY <1>2
  <2>2. QED
    BY <1>1, <1>2, <1>5, <1>7, <1>8, <1>9, <1>10, <2>1 DEF Steps
<1>16. Counts'
  <2>1. meta'.flag # "PendingRead"
    <3>1. meta.flag = "PendingRead" => Skipped
      BY <1>2 DEF Inv, Counts
    <3>2. QED
      BY <1>4, <1>10, <3>1
  <2>2. meta'.previous - meta'.remove = Len(told')
    BY <1>4, <1>11, <1>13
  <2>3. ~(mode'.on /\ mode'.exist /\ mode'.call = 1)
    BY <1>10 DEF Skipped
  <2>4. QED
    BY <1>10, <2>1, <2>2, <2>3 DEF Counts
<1>17. Empty' /\ Cleaned'
  <2>1. meta'.previous # 0
    BY <1>2, <1>11, <1>13
  <2>2. QED
    BY <1>10, <2>1 DEF Empty, Cleaned
<1>18. meta.flag = "PendingWrite" =>
         /\ Writing /\ ~EndsLoad /\ ~pc.decoding /\ session /\ WritesPieces /\ ~Skipped
         /\ ends <=> Len(pieces) = 1
         /\ ~ends => ~decodes /\ ~late /\ Tail(pieces) # <<>>
  <2> SUFFICES ASSUME meta.flag = "PendingWrite"
               PROVE  /\ Writing /\ ~EndsLoad /\ ~pc.decoding /\ session /\ WritesPieces /\ ~Skipped
                      /\ ends <=> Len(pieces) = 1
                      /\ ~ends => ~decodes /\ ~late /\ Tail(pieces) # <<>>
    OBVIOUS
  <2>1. Writing /\ ~pc.decoding /\ session /\ WritesPieces
    BY DEF Inv, Written
  <2>2. ~EndsLoad /\ ~Skipped
    BY <2>1 DEF EndsLoad, Writing, Skipped
  <2>3. Tail(pieces) = <<>> <=> Len(pieces) = 1
    BY <1>2, <1>3, <2>1, PieceTold
  <2>4. decodes => Len(pieces) = 1
    BY <2>1 DEF WritesPieces
  <2>5. late => Tail(pieces) = <<>>
    <3>1. ASSUME NEW l \in Layer
          PROVE  disk[l].has = Both
      <4>1. l < pc.step
        BY <1>2, <1>3
      <4>2. QED
        BY <4>1 DEF Inv, Written, Holds
    <3>2. QED
      BY <1>1, <2>1, <3>1 DEF Torn
  <2>6. ends <=> decodes \/ late \/ Tail(pieces) = <<>>
    BY <2>1, <2>2 DEF EndsWrite
  <2>7. QED
    BY <2>1, <2>2, <2>3, <2>4, <2>5, <2>6
<1>19. meta.flag = "PendingWrite" /\ ends =>
         /\ told' = prefix
         /\ \A l \in Layer : /\ Whole(l)
                             /\ model[l] = "attention" => cache[l].file = l /\ cache[l].past = L
  BY <1>1, <1>3, <1>18, WrittenWhole
<1>20. Mapped'
  <2> SUFFICES ASSUME meta'.flag # "PendingWrite", NEW l \in Layer, model[l] = "attention",
                      cache[l].file # 0
               PROVE  cache[l].past = meta'.previous /\ session
                      /\ L <= meta'.previous - meta'.remove
    <3>1. \A g \in Layer' : ~(InForward' /\ g < pc'.step)
      BY <1>2, <1>5, <1>8, <1>9
    <3>2. QED
      BY <1>1, <1>5, <3>1 DEF Mapped
  <2>1. CASE meta.flag = "PendingWrite"
    <3>1. ends /\ session
      BY <1>4, <1>18, <2>1
    <3>2. told' = prefix /\ cache[l].past = L
      BY <1>19, <2>1, <3>1
    <3>3. meta'.previous = L /\ meta'.remove = 0
      BY <1>4, <1>13, <3>2 DEF L
    <3>4. QED
      BY <1>2, <3>1, <3>2, <3>3
  <2>2. CASE meta.flag # "PendingWrite"
    <3>1. l < pc.step
      BY <1>2, <1>3
    <3>2. /\ cache[l].past = meta.previous - meta.remove + Len(Piece)
          /\ session /\ L <= meta.previous - meta.remove
      BY <1>2, <2>2, <3>1 DEF Inv, Mapped
    <3>3. PICK p \in Nat, x \in Nat : p = kept /\ x = Len(Piece)
      BY <1>2
    <3>4. ~Skipped
      BY <1>2, <1>12, <3>2
    <3>5. meta'.previous = p + x /\ meta'.remove = 0 /\ L <= p /\ cache[l].past = p + x
      BY <1>4, <1>12, <3>2, <3>3, <3>4
    <3>6. QED
      BY <1>2, <3>2, <3>3, <3>5
  <2>3. QED
    BY <2>1, <2>2
<1>21. Written'
  <2> SUFFICES ASSUME meta'.flag = "PendingWrite" PROVE Written'
    BY DEF Written
  <2> DEFINE n == Len(Chunks(prefix))
  <2>1. meta.flag = "PendingWrite" /\ ~ends
    BY <1>4
  <2>2. ~decodes /\ ~late /\ Tail(pieces) # <<>> /\ WritesPieces /\ Len(pieces) # 1
    BY <1>18, <2>1
  <2>3. /\ n \in Nat /\ Len(pieces) \in 1 .. n
        /\ told' = Cut(prefix, n - Len(pieces) + 1)
        /\ Len(Tail(pieces)) = Len(pieces) - 1
        /\ \A i \in 1 .. Len(pieces) - 1 : Tail(pieces)[i] = Chunks(prefix)[n - Len(pieces) + 1 + i]
    BY <1>1, <1>2, <1>3, <2>2, PieceTold
  <2>4. pc' = [pc EXCEPT !.step = 1] /\ pieces' = Tail(pieces)
    BY <1>1, <2>2
  <2>5. pc'.at = "layer" /\ pc'.step = 1 /\ pc'.tail = <<>> /\ pc'.decoding = pc.decoding
    <3>1. pc.tail = <<>> /\ pc.at = "layer"
      BY <1>1, <2>2
    <3> HIDE DEF decodes, last, ends
    <3>2. QED
      BY <1>2, <2>4, <3>1 DEF Going
  <2>6. WritesPieces'
    <3> DEFINE m == Len(pieces)
    <3> HIDE DEF n, m
    <3>1. n \in Nat /\ m \in 1 .. n /\ m # 1 /\ Len(pieces') = m - 1
      BY <2>2, <2>3, <2>4 DEF m
    <3>2. m - 1 \in 1 .. n /\ n - (m - 1) = n - m + 1
      BY <3>1
    <3>3. told' = Cut(prefix, n - (m - 1))
      BY <2>3, <3>2 DEF m
    <3>4. \A i \in 1 .. m - 1 : pieces'[i] = Chunks(prefix)[n - (m - 1) + i]
      <4> SUFFICES ASSUME NEW i \in 1 .. m - 1
                   PROVE  pieces'[i] = Chunks(prefix)[n - (m - 1) + i]
        OBVIOUS
      <4>1. n - (m - 1) + i = n - m + 1 + i
        BY <3>1
      <4>2. QED
        BY <2>3, <2>4, <4>1 DEF m
    <3>5. Len(Chunks(prefix')) = n /\ Chunks(prefix') = Chunks(prefix) /\ prefix' = prefix
      BY <1>1 DEF n
    <3>6. QED
      BY <2>5, <3>1, <3>2, <3>3, <3>4, <3>5 DEF WritesPieces
  <2>7. told' # <<>>
    <3>1. Len(told') # 0
      BY <1>2, <1>11
    <3>2. QED
      BY <3>1
  <2>8. meta'.layerIndex = 0
    <3>1. ~(pc.step <= N)
      BY <1>2, <1>3
    <3>2. meta.layerIndex = 0
      BY <2>1, <3>1 DEF Inv, Written
    <3>3. QED
      BY <1>4, <2>1, <3>2
  <2>9. \A l \in Layer' : ~(l < pc'.step) /\ disk'[l].sync = {} /\ Holds(l, told)'
    <3> SUFFICES ASSUME NEW l \in Layer
                 PROVE  ~(l < pc'.step) /\ disk'[l].sync = {} /\ Holds(l, told)'
      BY <1>5
    <3>1. l < pc.step /\ ~(l < pc'.step)
      BY <1>2, <1>3, <2>5
    <3>2. Holds(l, told \o Piece) /\ disk[l].sync = {}
      BY <2>1, <3>1 DEF Inv, Written
    <3>3. Content(l)' = Content(l)
      BY <1>1, <2>5 DEF Content
    <3>4. Holds(l, told)'
      BY <1>1, <3>2, <3>3 DEF Holds
    <3>5. QED
      BY <1>1, <3>1, <3>2, <3>4
  <2>10. QED
    BY <1>1, <1>4, <1>9, <1>10, <1>18, <2>1, <2>5, <2>6, <2>7, <2>8, <2>9 DEF Written
<1>22. Intact'
  <2>1. \A l \in Layer : Content(l)' = Content(l)
    BY <1>1, <1>8 DEF Content
  <2>2. CASE meta.flag = "PendingWrite" /\ ends
    <3>1. \A l \in Layer : Whole(l)'
      BY <1>1, <1>19, <2>1, <2>2 DEF Whole, Begins, L
    <3>2. QED
      BY <1>5, <3>1 DEF Intact
  <2>3. CASE meta.flag = "PendingWrite" /\ ~ends
    BY <1>4, <2>3 DEF Intact
  <2>4. CASE meta.flag # "PendingWrite"
    <3>1. (Marked' => Marked) /\ (Broken => Broken')
      BY <1>1, <1>5 DEF Marked, Broken, SizesAgree
    <3>2. QED
      BY <1>1, <1>10, <2>1, <2>4, <3>1, FilesStay DEF Inv
  <2>5. QED
    BY <2>2, <2>3, <2>4
<1>23. QED
  BY <1>14, <1>15, <1>16, <1>17, <1>20, <1>21, <1>22 DEF Inv

(* A forward that fails is torn, or it fails where no file is to be used,  *)
(* or when every file is whole.                                            *)
LEMMA FailForwardInv ==
  ASSUME Survivable, Inv, FailForward
  PROVE  Inv'
<1>1. /\ pc.at = "layer" /\ ~Torn
      /\ UNCHANGED << model, prefix, disk, cache, mode, told, session >>
      /\ status' = "INTERNAL_ERROR" /\ pieces' = <<>>
      /\ pc' = IF Writing THEN [at |-> "mark", step |-> 1] ELSE [at |-> "idle"]
      /\ meta' = IF Writing THEN [meta EXCEPT !.flag = "NoChange", !.layerIndex = 0] ELSE meta
  BY DEF FailForward, Survivable, MarkOrIdle, Off
<1>2. /\ N \in Nat \ {0} /\ Layer = 1 .. N /\ L \in Nat \ {0} /\ prefix \in Seq(Int)
      /\ pc.step \in 1 .. N + 1 /\ meta \in Meta /\ meta.remove <= meta.previous
      /\ meta.layerIndex < N /\ ~(mode.on /\ mode.call = 0) /\ told \in Seq(Int)
      /\ pieces \in Seq(Seq(Int))
  BY <1>1, AtLayer
<1>3. Layer' = Layer /\ N' = N /\ L' = L /\ HasLinear' = HasLinear /\ Writing' = Writing
  BY <1>1 DEF Layer, N, L, HasLinear, Writing
<1>4. pc' \in Place /\ pc'.at \in {"mark", "idle"} /\ ~InForward'
  BY <1>1 DEF Place, InForward
<1>5. /\ meta' \in Meta /\ meta'.remove <= meta'.previous /\ meta'.layerIndex < N
      /\ meta'.previous = meta.previous /\ meta'.remove = meta.remove
      /\ meta'.inDisk = meta.inDisk
      /\ meta'.flag # "PendingWrite" /\ (meta'.flag = "PendingRead" => meta.flag = "PendingRead")
  <2>1. meta.flag = "PendingWrite" => Writing
    BY DEF Inv, Written
  <2>2. CASE Writing
    <3>1. meta' = [meta EXCEPT !.flag = "NoChange", !.layerIndex = 0] /\ 0 < N
      BY <1>1, <1>2, <2>2
    <3>2. meta' \in Meta /\ meta'.flag = "NoChange" /\ meta'.layerIndex = 0
      BY <1>2, <3>1 DEF Meta
    <3>3. meta'.remove = meta.remove /\ meta'.previous = meta.previous
          /\ meta'.inDisk = meta.inDisk
      BY <1>2, <3>1 DEF Meta
    <3>4. QED
      BY <1>2, <3>1, <3>2, <3>3
  <2>3. CASE ~Writing
    BY <1>1, <1>2, <2>1, <2>3
  <2>4. QED
    BY <2>2, <2>3
<1>6. Types'
  BY <1>1, <1>3, <1>4, <1>5 DEF Inv, Types, Linear
<1>7. Steps'
  <2>1. 1 \in 1 .. 2 * N
    BY <1>2
  <2>2. QED
    BY <1>1, <1>3, <1>4, <2>1 DEF Steps
<1>8. Counts' /\ Empty' /\ Mapped' /\ Written' /\ Cleaned'
  <2>1. Empty' /\ Mapped' /\ Written' /\ Cleaned'
    BY <1>1, <1>2, <1>5 DEF Empty, Mapped, Written, Cleaned
  <2>2. Skipped' = Skipped
    BY <1>1 DEF Skipped
  <2>3. Counts'
    BY <1>1, <1>2, <1>4, <1>5, <2>2 DEF Inv, Counts
  <2>4. QED
    BY <2>1, <2>3
<1>9. \A l \in Layer : Content(l)' = Content(l)
  BY <1>1, <1>4 DEF Content
<1>10. Intact'
  <2>1. CASE meta.flag = "PendingWrite"
    <3> SUFFICES ASSUME Present PROVE \A l \in Layer : Whole(l)'
      BY <1>1, <1>3 DEF Intact, Present
    <3>1. Writing /\ ~pc.decoding /\ WritesPieces
      BY <2>1 DEF Inv, Written
    <3>2. pc.step = Cardinality(Layer) + 1 /\ Tail(pieces) = <<>>
      BY <1>1, <3>1 DEF Torn, Present
    <3>3. Cardinality(Layer) = N /\ prefix # <<>>
      BY Sizes DEF Inv, Types
    <3>4. pc.step = N + 1 /\ Len(pieces) = 1
      BY <1>2, <3>1, <3>2, <3>3, PieceTold
    <3>5. \A l \in Layer : Whole(l)
      BY <1>1, <2>1, <3>4, WrittenWhole
    <3>6. QED
      BY <1>1, <1>3, <1>9, <3>5 DEF Whole, Begins
  <2>2. CASE meta.flag # "PendingWrite"
    <3>1. (Marked' => Marked) /\ (Broken => Broken')
      BY <1>1, <1>3 DEF Marked, Broken, SizesAgree
    <3>2. QED
      BY <1>1, <1>3, <1>9, <2>2, <3>1, FilesStay DEF Inv
  <2>3. QED
    BY <2>1, <2>2
<1>11. QED
  BY <1>6, <1>7, <1>8, <1>10 DEF Inv

-----------------------------------------------------------------------------
(* Every step keeps the invariant.                                         *)
LEMMA InvNext ==
  ASSUME Survivable, Inv, [Next]_vars
  PROVE  Inv'
<1>1. CASE Restart
  BY <1>1, RestartInv
<1>2. CASE SetPrefixCacheFile
  BY <1>2, SetPrefixCacheFileInv
<1>3. CASE Clean
  BY <1>3, CleanInv
<1>4. ASSUME NEW tail \in { <<>>, <<Generated>> }, FirstPrompt(tail)
      PROVE  Inv'
  BY <1>4, FirstPromptInv
<1>5. CASE SkipPrompt
  BY <1>5, SkipPromptInv
<1>6. ASSUME NEW ids \in Messages, Prompt(ids)
      PROVE  Inv'
  BY <1>6, PromptInv
<1>7. CASE Decode
  BY <1>7, DecodeInv
<1>8. ASSUME NEW begin \in 0 .. MaxTold, EraseHistory(begin)
      PROVE  Inv'
  BY <1>8, EraseHistoryInv
<1>9. CASE LoadPrefix
  BY <1>9, LoadPrefixInv
<1>10. CASE SharePrefix
  BY <1>10, SharePrefixInv
<1>11. CASE StartRows
  BY <1>11, StartRowsInv
<1>12. CASE AppendRows
  BY <1>12, AppendRowsInv
<1>13. CASE GrowFile
  BY <1>13, GrowFileInv
<1>14. CASE CopyBack
  BY <1>14, CopyBackInv
<1>15. ASSUME NEW resized \in BOOLEAN, LinearStep(resized)
       PROVE  Inv'
  BY <1>15, LinearStepInv
<1>16. ASSUME NEW late \in BOOLEAN, EndForward(late)
       PROVE  Inv'
  BY <1>16, EndForwardInv
<1>17. CASE Mark
  BY <1>17, MarkInv
<1>18. CASE FailForward
  BY <1>18, FailForwardInv
<1>19. CASE UNCHANGED vars
  <2>1. UNCHANGED << model, prefix, disk, cache, meta, mode, status, pc, pieces, told, session >>
    BY <1>19 DEF vars
  <2>2. Layer' = Layer /\ N' = N /\ L' = L /\ HasLinear' = HasLinear /\ Writing' = Writing
    BY <2>1 DEF Layer, N, L, HasLinear, Writing
  <2>3. InForward' = InForward /\ Fresh' = Fresh /\ Piece' = Piece /\ Skipped' = Skipped
    BY <2>1 DEF InForward, Fresh, Piece, Skipped
  <2>4. \A l \in Layer : Content(l)' = Content(l)
    BY <2>1 DEF Content
  <2>5. Types'
    BY <2>1, <2>2 DEF Inv, Types, Linear
  <2>6. Steps' /\ Counts' /\ Empty'
    BY <2>1, <2>2, <2>3 DEF Inv, Steps, Counts, Empty
  <2>7. Cleaned' /\ Mapped'
    BY <2>1, <2>2, <2>3 DEF Inv, Cleaned, Mapped
  <2>8. Written'
    <3>1. WritesPieces' = WritesPieces
      BY <2>1 DEF WritesPieces
    <3>2. \A l \in Layer : /\ Holds(l, told \o Piece)' = Holds(l, told \o Piece)
                           /\ Holds(l, told)' = Holds(l, told)
      BY <2>1, <2>3, <2>4 DEF Holds
    <3>3. QED
      BY <2>1, <2>2, <2>3, <3>1, <3>2 DEF Inv, Written
  <2>9. Intact'
    <3>1. Marked' = Marked /\ Broken' = Broken
      BY <2>1, <2>2 DEF Marked, Broken, SizesAgree
    <3>2. QED
      BY <2>1, <2>2, <2>4, <3>1, FilesStay DEF Inv
  <2>10. QED
    BY <2>5, <2>6, <2>7, <2>8, <2>9 DEF Inv
<1>20. QED
  BY <1>1, <1>2, <1>3, <1>4, <1>5, <1>6, <1>7, <1>8, <1>9, <1>10, <1>11, <1>12, <1>13,
     <1>14, <1>15, <1>16, <1>17, <1>18, <1>19 DEF Next

(* Whatever the calls and the kills, the plan, the markers and the files   *)
(* stay related as the parts of Inv say.                                   *)
THEOREM InvCorrect ==
  ASSUME Survivable
  PROVE  Spec => []Inv
<1>1. Init => Inv
  BY InvInit
<1>2. Inv /\ [Next]_vars => Inv'
  BY InvNext
<1>3. QED
  BY <1>1, <1>2, PTL DEF Spec

(* What setPrefixCacheFile would accept holds the prefix in every layer.   *)
LEMMA UsableHoldsPrefix ==
  ASSUME Inv
  PROVE  PrefixIntact
<1> SUFFICES ASSUME Usable, pc.at # "grow", NEW l \in Layer
             PROVE  /\ disk[l].kind = model[l]
                    /\ IF model[l] = "attention"
                       THEN Kept(disk[l].rows, Len(prefix)) = prefix
                       ELSE disk[l].rows = prefix
  BY DEF PrefixIntact
<1>1. Present /\ Marked /\ (HasLinear \/ SizesAgree)
  BY DEF Usable, Present, Marked
<1>2. meta.flag # "PendingWrite"
  <2>1. disk[l].sync # {}
    BY <1>1 DEF Marked, Both
  <2>2. QED
    BY <2>1 DEF Inv, Written
<1>3. Whole(l)
  BY <1>1, <1>2 DEF Inv, Intact, Broken
<1>4. Content(l) = disk[l].rows
  BY DEF Content
<1>5. CASE model[l] = "attention"
  <2> DEFINE rows == disk[l].rows
             kept == Kept(rows, L)
  <2>1. prefix \in Seq(Int) /\ rows \in Seq(Int) /\ L \in Nat \ {0}
    <3>1. disk[l] \in File /\ prefix \in Seq(Int) /\ L \in Nat \ {0}
      BY Sizes DEF Inv, Types
    <3>2. QED
      BY <3>1 DEF File
  <2>2. L <= Len(rows) /\ \A i \in 1 .. L : rows[i] = prefix[i]
    BY <1>3, <1>4, <1>5 DEF Whole, Begins
  <2> HIDE DEF rows
  <2>3. /\ kept \in Seq(Int) /\ Len(kept) = L
        /\ \A i \in 1 .. L : kept[i] = IF i <= Len(rows) THEN rows[i] ELSE Blank
    <3>1. L \in Int /\ L >= 0
      BY <2>1
    <3>2. QED
      BY <2>1, <3>1, KeptRows
  <2>4. \A i \in 1 .. L : i <= Len(rows)
    BY <2>1, <2>2, LenProperties
  <2>5. \A i \in 1 .. L : kept[i] = prefix[i]
    BY <2>2, <2>3, <2>4
  <2> HIDE DEF kept
  <2>6. kept = prefix
    BY <2>1, <2>3, <2>5, SeqEqual DEF L
  <2>7. QED
    BY <1>3, <1>5, <2>6 DEF Whole, kept, rows, L
<1>6. CASE model[l] # "attention"
  BY <1>3, <1>4, <1>6 DEF Whole
<1>7. QED
  BY <1>5, <1>6

(* A stored prefix is used whole or not at all, for any models, prompts    *)
(* and sizes of chunks, over kills and failures, in this process and in    *)
(* the next one.  Not covered (Survivable) is what makes it false: a kill  *)
(* while the last layer's file is enlarged, a first prompt cut short when  *)
(* every layer has its files, a layer_index not at 0 when the prefix is    *)
(* set, and in a history with linear layers or a mapped prefix single      *)
(* tokens behind an erase and erases inside of the prefix.  Nor is going   *)
(* on after the prompt that loads the prefix has failed.                   *)
THEOREM PrefixIntactCorrect ==
  ASSUME Survivable
  PROVE  Spec => []PrefixIntact
BY InvCorrect, UsableHoldsPrefix, PTL

-----------------------------------------------------------------------------
(* What the layers hold.                                                   *)

(* A failed call leaves the layers apart until a prompt starts afresh.     *)
Sound == status # "INTERNAL_ERROR"

(* The rows of an attention layer, wherever they are.                      *)
Held(l) == IF cache[l].file = 0 THEN cache[l].rows ELSE Content(l)

(* What a layer has heard of: a layer that has run knows the piece too, and*)
(* a prefix that is skipped is loaded by the forward after it.             *)
Done(l) == InForward /\ l < pc.step
Heard(l) == IF Done(l) THEN told \o Piece ELSE told
Loaded(l) == ~Skipped \/ Done(l)

(* The rows a layer counts are those of the plan, once it starts on them.  *)
Current(l) ==
  IF Done(l) THEN cache[l].past = Len(told) + Len(Piece)
  ELSE (Fresh /\ (InForward \/ Skipped)) \/ cache[l].past = meta.previous

RowsHeld ==
  Sound => \A l \in Layer : model[l] = "attention" =>
    /\ Current(l)
    /\ Loaded(l) => Kept(Held(l), Len(Heard(l))) = Heard(l)

(* The state of a linear layer is right unless an erase waits or a forward *)
(* starts afresh; then, and until the next one, its snapshot is the prefix.*)
StatesHeld ==
  \A l \in Layer : model[l] = "linear" =>
    /\ cache[l].snapped => cache[l].ready
    /\ Sound /\ Loaded(l) /\ (Done(l) \/ (meta.remove = 0 /\ ~(Fresh /\ InForward))) =>
         cache[l].state = Heard(l)
    /\ Sound /\ session /\ Loaded(l) =>
         IF meta.flag = "PendingWrite"
         THEN Done(l) \/ told # <<>> => cache[l].snapped /\ cache[l].snapshot = Heard(l)
         ELSE cache[l].snapped /\ cache[l].snapshot = prefix

(* A session begins with the prefix, once it is written.                   *)
Beginning == Sound /\ session /\ meta.flag # "PendingWrite" => Begins(told)

(* An erase linear attention can follow: of everything, or back to the     *)
(* prefix, before a prompt of another shape.                               *)
Erased ==
  Sound /\ meta.remove > 0 /\ HasLinear =>
    /\ told = <<>> \/ (session /\ told = prefix)
    /\ InForward => /\ ~pc.decoding /\ Len(Piece) # 1
                    /\ meta.remove < meta.previous => Shape(Piece) # shape

(* What is to be loaded is the prefix, and every layer finds its own file. *)
Loading ==
  (Sound \/ mode.call = 0) /\ mode.on /\ mode.exist =>
    /\ meta.layerIndex = IF InForward /\ pc.step <= N THEN pc.step - 1 ELSE 0
    /\ \A l \in Layer :
         /\ disk[l].kind = model[l]
         /\ IF model[l] = "attention" THEN Kept(disk[l].rows, L) = prefix
            ELSE disk[l].rows = prefix
    /\ mode.call # 0 => told = prefix /\ session
    /\ InForward => meta.flag = "PendingRead" /\ mode.call = 2

RInv == Inv /\ RowsHeld /\ StatesHeld /\ Beginning /\ Erased /\ Loading

(* Nothing is kept of no rows.                                             *)
LEMMA KeptNone ==
  ASSUME NEW rows \in Seq(Int)
  PROVE  Kept(rows, 0) = <<>> /\ Len(<<>>) = 0
<1>1. 0 \in Int /\ 0 >= 0
  OBVIOUS
<1>2. Kept(rows, 0) \in Seq(Int) /\ Len(Kept(rows, 0)) = 0
  BY <1>1, KeptRows
<1>3. QED
  BY <1>2, EmptySeq

(* Before the first call, and after a restart, nothing is held or told.    *)
LEMMA NothingHeld ==
  ASSUME model \in Models, prefix \in Prefixes, cache = NewCache(model), meta = NewMeta,
         mode = NoPrefix, pc = [at |-> "idle"], told = <<>>, session = FALSE
  PROVE  RowsHeld /\ StatesHeld /\ Beginning /\ Erased /\ Loading
<1>1. \A l \in Layer : model[l] \in {"attention", "linear"}
  BY Sizes
<1>2. \A l \in Layer : cache[l] = IF model[l] = "linear" THEN EmptyLinear ELSE EmptyAttention
  BY DEF NewCache, Layer
<1>3. ~Skipped /\ ~InForward /\ \A l \in Layer : ~Done(l) /\ Heard(l) = <<>>
  BY DEF Skipped, NoPrefix, InForward, Done, Heard
<1>4. Kept(<<>>, 0) = <<>> /\ Len(<<>>) = 0 /\ <<>> \in Seq(Int)
  <2>1. <<>> \in Seq(Int)
    OBVIOUS
  <2>2. QED
    BY <2>1, KeptNone
<1>5. RowsHeld
  <2> SUFFICES ASSUME NEW l \in Layer, model[l] = "attention"
               PROVE  cache[l].past = meta.previous /\ Kept(Held(l), Len(Heard(l))) = Heard(l)
    BY <1>3 DEF RowsHeld, Current
  <2>1. cache[l] = EmptyAttention
    BY <1>2
  <2>2. Held(l) = <<>>
    BY <2>1 DEF Held, EmptyAttention
  <2>3. QED
    BY <1>3, <1>4, <2>1, <2>2 DEF EmptyAttention, NewMeta
<1>6. StatesHeld
  BY <1>2, <1>3 DEF StatesHeld, EmptyLinear
<1>7. Beginning /\ Erased /\ Loading
  BY DEF Beginning, Erased, Loading, NewMeta, NoPrefix
<1>8. QED
  BY <1>5, <1>6, <1>7

(* A new process holds nothing and was told nothing.                       *)
LEMMA RestartRows ==
  ASSUME Inv, Restart
  PROVE  RowsHeld' /\ StatesHeld' /\ Beginning' /\ Erased' /\ Loading'
<1>1. model \in Models /\ prefix \in Prefixes /\ model' = model /\ prefix' = prefix
  BY DEF Inv, Types, Restart
<1>2. /\ cache' = NewCache(model) /\ meta' = NewMeta /\ mode' = NoPrefix
      /\ pc' = [at |-> "idle"] /\ told' = <<>> /\ session' = FALSE
  BY DEF Restart
<1>3. \A l \in Layer' : model'[l] \in {"attention", "linear"}
  BY <1>1, Sizes DEF Layer
<1>4. \A l \in Layer' : cache'[l] = IF model'[l] = "linear" THEN EmptyLinear ELSE EmptyAttention
  BY <1>1, <1>2 DEF NewCache, Layer
<1>5. ~Skipped' /\ ~InForward' /\ \A l \in Layer' : ~Done(l)' /\ Heard(l)' = <<>>
  BY <1>2 DEF Skipped, NoPrefix, InForward, Done, Heard
<1>6. Kept(<<>>, 0) = <<>> /\ Len(<<>>) = 0 /\ <<>> \in Seq(Int)
  <2>1. <<>> \in Seq(Int)
    OBVIOUS
  <2>2. QED
    BY <2>1, KeptNone
<1>7. RowsHeld'
  <2> SUFFICES ASSUME NEW l \in Layer', model'[l] = "attention"
               PROVE  cache'[l].past = meta'.previous /\ Kept(Held(l)', Len(Heard(l)')) = Heard(l)'
    BY <1>5 DEF RowsHeld, Current
  <2>1. cache'[l] = EmptyAttention
    BY <1>4
  <2>2. Held(l)' = <<>>
    BY <2>1 DEF Held, EmptyAttention
  <2>3. QED
    BY <1>2, <1>5, <1>6, <2>1, <2>2 DEF EmptyAttention, NewMeta
<1>8. StatesHeld'
  BY <1>2, <1>4, <1>5 DEF StatesHeld, EmptyLinear
<1>9. Beginning' /\ Erased' /\ Loading'
  BY <1>2 DEF Beginning, Erased, Loading, NewMeta, NoPrefix
<1>10. QED
  BY <1>7, <1>8, <1>9

(* A step outside the forwards, or one that starts a forward, which leaves *)
(* the layers and what the caller was told.                                *)
LEMMA QuietRows ==
  ASSUME RInv, Sound, ~InForward, UNCHANGED << model, prefix, cache, told >>,
         \A l \in Layer : Content(l)' = Content(l) /\ ~Done(l)',
         meta'.previous = meta.previous, meta'.remove = meta.remove, Skipped => Skipped',
         (session' /\ ~Skipped') =>
            \/ session /\ meta.flag # "PendingWrite" /\ meta'.flag # "PendingWrite"
            \/ meta'.flag = "PendingWrite" /\ told = <<>>
  PROVE  RowsHeld' /\ StatesHeld'
<1>1. Layer' = Layer
  BY DEF Layer
<1>2. ASSUME NEW l \in Layer
      PROVE  /\ ~Done(l) /\ ~Done(l)' /\ Heard(l)' = Heard(l) /\ Held(l)' = Held(l)
             /\ Loaded(l)' => Loaded(l) /\ ~Skipped'
             /\ Current(l) => Current(l)'
  BY DEF Done, Heard, Held, Loaded, Current, Fresh
<1>3. RowsHeld'
  BY <1>1, <1>2 DEF RInv, RowsHeld
<1>4. StatesHeld'
  <2> SUFFICES ASSUME NEW l \in Layer, model[l] = "linear"
               PROVE  /\ cache[l].snapped => cache[l].ready
                      /\ Loaded(l)' /\ meta.remove = 0 => cache[l].state = Heard(l)
                      /\ session' /\ Loaded(l)' =>
                           IF meta'.flag = "PendingWrite"
                           THEN told # <<>> => cache[l].snapped /\ cache[l].snapshot = Heard(l)
                           ELSE cache[l].snapped /\ cache[l].snapshot = prefix
    BY <1>1, <1>2 DEF StatesHeld
  <2>1. /\ cache[l].snapped => cache[l].ready
        /\ Loaded(l) /\ meta.remove = 0 => cache[l].state = Heard(l)
        /\ session /\ Loaded(l) /\ meta.flag # "PendingWrite" =>
             cache[l].snapped /\ cache[l].snapshot = prefix
    BY DEF RInv, StatesHeld
  <2>2. QED
    BY <1>2, <2>1
<1>5. QED
  BY <1>3, <1>4

(* Between the calls of a running session nothing is loading.              *)
LEMMA QuietFacts ==
  ASSUME RInv, Sound, pc.at = "idle"
  PROVE  /\ ~InForward /\ meta.flag = "NoChange" /\ told \in Seq(Int) /\ L \in Nat \ {0}
         /\ meta.previous \in Nat /\ meta.remove \in Nat
         /\ meta.previous - meta.remove = IF Skipped THEN 0 ELSE Len(told)
         /\ Skipped => meta.remove = meta.previous
         /\ session /\ ~Skipped => Begins(told) /\ told # <<>> /\ meta.remove < meta.previous
         /\ Layer = 1 .. N /\ N \in Nat \ {0}
         /\ \A l \in Layer : ~Done(l) /\ Content(l) = disk[l].rows
<1>1. ~InForward /\ meta.flag = "NoChange"
  BY Idle DEF RInv, Sound
<1>2. /\ told \in Seq(Int) /\ L \in Nat \ {0} /\ meta.previous \in Nat /\ meta.remove \in Nat
      /\ Layer = 1 .. N /\ N \in Nat \ {0}
  BY Sizes DEF RInv, Inv, Types, Meta
<1>3. meta.previous - meta.remove = IF Skipped THEN 0 ELSE Len(told)
  BY DEF RInv, Inv, Counts
<1>4. Skipped => meta.remove = meta.previous
  BY <1>2, <1>3
<1>5. session => Begins(told) /\ told # <<>> /\ Len(told) > 0
  <2> SUFFICES ASSUME session PROVE Begins(told) /\ told # <<>> /\ Len(told) > 0
    OBVIOUS
  <2>1. Begins(told)
    BY <1>1 DEF RInv, Beginning
  <2>2. Len(told) > 0
    BY <1>2, <2>1, LenProperties DEF Begins
  <2>3. QED
    BY <2>1, <2>2
<1>6. ~Skipped /\ Len(told) > 0 => meta.remove < meta.previous
  BY <1>2, <1>3, LenProperties
<1>7. \A l \in Layer : ~Done(l) /\ Content(l) = disk[l].rows
  BY <1>1 DEF Done, Content
<1>8. QED
  BY <1>1, <1>2, <1>3, <1>4, <1>5, <1>6, <1>7

(* Files that are accepted can be loaded.                                  *)
LEMMA SetPrefixCacheFileRows ==
  ASSUME Situations = {}, RInv, SetPrefixCacheFile
  PROVE  RowsHeld' /\ StatesHeld' /\ Beginning' /\ Erased' /\ Loading'
<1>1. /\ UNCHANGED << model, prefix, disk, cache, meta, status, told, session, shape >>
      /\ pc.at = "idle" /\ told = <<>> /\ meta.layerIndex = 0
      /\ mode' = [NoPrefix EXCEPT !.on = TRUE, !.exist = Usable]
      /\ pc' = IF Usable THEN pc ELSE [at |-> "clean", step |-> 1]
  BY DEF SetPrefixCacheFile
<1>2. /\ ~InForward /\ meta.flag = "NoChange" /\ ~Skipped
      /\ Sound => ~session
      /\ \A l \in Layer : ~Done(l) /\ Content(l) = disk[l].rows
  <2>1. ~InForward /\ meta.flag = "NoChange"
    BY <1>1, Idle DEF RInv
  <2>2. ~Skipped
    <3>1. prefix # <<>>
      BY Sizes DEF RInv, Inv, Types
    <3>2. QED
      BY <1>1, <3>1 DEF RInv, Inv, Counts
  <2>3. Sound => ~session
    BY <1>1, <2>2, QuietFacts
  <2>4. \A l \in Layer : ~Done(l) /\ Content(l) = disk[l].rows
    BY <2>1 DEF Done, Content, InForward
  <2>5. QED
    BY <2>1, <2>2, <2>3, <2>4
<1>3. mode'.on /\ mode'.call = 0 /\ mode'.exist = Usable /\ ~Skipped'
  <2>1. mode'.on /\ mode'.call = 0 /\ mode'.exist = Usable
    BY <1>1 DEF NoPrefix
  <2>2. QED
    BY <2>1 DEF Skipped
<1>4. ~InForward' /\ pc'.at \in {"idle", "clean"}
  BY <1>1 DEF InForward
<1>5. \A l \in Layer : ~Done(l)' /\ Content(l)' = Content(l)
  BY <1>1, <1>2, <1>4 DEF Done, Content
<1>6. RowsHeld' /\ StatesHeld'
  <2>1. CASE Sound
    BY <1>1, <1>2, <1>3, <1>5, <2>1, QuietRows
  <2>2. CASE ~Sound
    BY <1>1, <2>2 DEF RInv, RowsHeld, StatesHeld, Sound, Layer
  <2>3. QED
    BY <2>1, <2>2
<1>7. Beginning' /\ Erased'
  BY <1>1, <1>2, <1>4 DEF RInv, Beginning, Erased, Sound, HasLinear, Layer, Begins, L
<1>8. Loading'
  <2> SUFFICES ASSUME Usable
               PROVE  \A l \in Layer :
                        /\ disk[l].kind = model[l]
                        /\ IF model[l] = "attention" THEN Kept(disk[l].rows, L) = prefix
                           ELSE disk[l].rows = prefix
    BY <1>1, <1>3, <1>4 DEF Loading, Layer, L
  <2>1. PrefixIntact /\ pc.at # "grow"
    BY <1>1, UsableHoldsPrefix DEF RInv
  <2>2. QED
    BY <2>1 DEF PrefixIntact, L
<1>9. QED
  BY <1>6, <1>7, <1>8

(* Markers and names of files come and go; what files hold stays.          *)
LEMMA CleanRows ==
  ASSUME RInv, Clean
  PROVE  RowsHeld' /\ StatesHeld' /\ Beginning' /\ Erased' /\ Loading'
<1>1. /\ UNCHANGED << model, prefix, cache, meta, mode, status, told, session, shape >>
      /\ pc.at = "clean" /\ pc' = Next4(pc.step, "clean") /\ ~mode.exist
      /\ disk \in [ Layer -> File ]
  BY DEF Clean, RInv, Inv, Steps, Types
<1>2. ~InForward /\ ~InForward' /\ pc'.at \in {"clean", "idle"}
  BY <1>1 DEF InForward, Next4
<1>3. \A l \in Layer : disk'[l].rows = disk[l].rows
  <2> DEFINE f == (pc.step - 1) \div 4 + 1
             x == IF pc.step % 2 = 1 THEN "k" ELSE "v"
  <2>1. disk' = IF (pc.step - 1) % 4 < 2 THEN [disk EXCEPT ![f].has = @ \ {x}]
                ELSE [disk EXCEPT ![f].sync = @ \ {x}]
    BY DEF Clean
  <2> HIDE DEF f, x
  <2>2. QED
    BY <1>1, <2>1 DEF File
<1>4. \A l \in Layer : Content(l)' = Content(l) /\ ~Done(l)'
  BY <1>1, <1>2, <1>3 DEF Content, Done
<1>5. Skipped' = Skipped /\ meta.flag # "PendingWrite"
  BY <1>1, <1>2 DEF Skipped, RInv, Inv, Written
<1>6. RowsHeld' /\ StatesHeld'
  <2>1. CASE Sound
    BY <1>1, <1>2, <1>4, <1>5, <2>1, QuietRows
  <2>2. CASE ~Sound
    BY <1>1, <2>2 DEF RInv, RowsHeld, StatesHeld, Sound, Layer
  <2>3. QED
    BY <2>1, <2>2
<1>7. Beginning' /\ Erased' /\ Loading'
  BY <1>1, <1>2 DEF RInv, Beginning, Erased, Loading, Sound, HasLinear, Layer, Begins, L
<1>8. QED
  BY <1>6, <1>7

(* Markers do not change what files hold.                                  *)
LEMMA MarkRows ==
  ASSUME RInv, Mark
  PROVE  RowsHeld' /\ StatesHeld' /\ Beginning' /\ Erased' /\ Loading'
<1>1. /\ UNCHANGED << model, prefix, cache, meta, mode, status, told, session, shape >>
      /\ pc.at = "mark" /\ Writing /\ pc \in Place /\ disk \in [ Layer -> File ]
      /\ pc' = IF pc.step < 2 * Cardinality(Layer) THEN [pc EXCEPT !.step = @ + 1]
               ELSE [at |-> "idle"]
  BY DEF Mark, RInv, Inv, Steps, Types
<1>2. ~InForward /\ ~InForward' /\ pc'.at \in {"mark", "idle"} /\ ~mode.exist
  <2>1. pc \in [ at : {"clean", "mark"}, step : Nat ]
    BY <1>1 DEF Place
  <2>2. QED
    BY <1>1, <2>1 DEF InForward, Writing
<1>3. \A l \in Layer : disk'[l].rows = disk[l].rows
  <2> DEFINE f == (pc.step + 1) \div 2
             x == IF pc.step % 2 = 1 THEN "k" ELSE "v"
  <2>1. disk' = [disk EXCEPT ![f].sync = IF x \in disk[f].has THEN @ \cup {x} ELSE @]
    BY DEF Mark
  <2> HIDE DEF f, x
  <2>2. QED
    BY <1>1, <2>1 DEF File
<1>4. \A l \in Layer : Content(l)' = Content(l) /\ ~Done(l)'
  BY <1>1, <1>2, <1>3 DEF Content, Done
<1>5. Skipped' = Skipped /\ meta.flag # "PendingWrite"
  BY <1>1, <1>2 DEF Skipped, RInv, Inv, Written
<1>6. RowsHeld' /\ StatesHeld'
  <2>1. CASE Sound
    BY <1>1, <1>2, <1>4, <1>5, <2>1, QuietRows
  <2>2. CASE ~Sound
    BY <1>1, <2>2 DEF RInv, RowsHeld, StatesHeld, Sound, Layer
  <2>3. QED
    BY <2>1, <2>2
<1>7. Beginning' /\ Erased' /\ Loading'
  BY <1>1, <1>2 DEF RInv, Beginning, Erased, Loading, Sound, HasLinear, Layer, Begins, L
<1>8. QED
  BY <1>6, <1>7

(* No layer knows of a prefix that is skipped.                             *)
LEMMA SkipPromptRows ==
  ASSUME RInv, SkipPrompt
  PROVE  RowsHeld' /\ StatesHeld' /\ Beginning' /\ Erased' /\ Loading'
<1>1. /\ UNCHANGED << model, prefix, disk, cache, meta, pc, pieces, shape >>
      /\ pc.at = "idle" /\ mode.on /\ mode.call = 0 /\ mode.exist
      /\ mode' = [mode EXCEPT !.call = 1, !.length = Len(prefix)]
      /\ told' = prefix /\ session' = TRUE /\ mode \in Mode
  BY DEF SkipPrompt, RInv, Inv, Types
<1>2. mode'.on /\ mode'.call = 1 /\ mode'.exist /\ Skipped'
  BY <1>1 DEF Mode, Skipped
<1>3. ~InForward /\ ~InForward'
  BY <1>1 DEF InForward
<1>4. \A l \in Layer : ~Done(l)' /\ ~Loaded(l)' /\ Current(l)'
  <2>1. Fresh
    <3>1. told = <<>> /\ ~Skipped
      BY <1>1 DEF RInv, Inv, Counts, Skipped
    <3>2. meta.previous - meta.remove = 0 /\ meta.previous \in Nat /\ meta.remove \in Nat
      BY <3>1 DEF RInv, Inv, Counts, Types, Meta
    <3>3. QED
      BY <3>2 DEF Fresh
  <2>2. QED
    BY <1>1, <1>2, <1>3, <2>1 DEF Done, Loaded, Current, Fresh
<1>5. RowsHeld' /\ StatesHeld'
  BY <1>1, <1>4 DEF RInv, RowsHeld, StatesHeld, Layer
<1>6. Beginning'
  <2>1. L \in Nat /\ L <= Len(prefix)
    BY Sizes DEF RInv, Inv, Types, L
  <2>2. QED
    BY <1>1, <2>1 DEF Beginning, Begins, L
<1>7. Erased'
  BY <1>1, <1>3 DEF Erased, HasLinear, Layer
<1>8. Loading'
  BY <1>1, <1>2, <1>3 DEF RInv, Loading, Sound, Layer, L
<1>9. QED
  BY <1>5, <1>6, <1>7, <1>8

(* A call that starts a forward has run no layer of it.                    *)
LEMMA StartsNone ==
  ASSUME RInv, pc.at = "idle", UNCHANGED << model, disk >>, pc'.at = "layer", pc'.step = 1
  PROVE  \A l \in Layer : ~Done(l)' /\ Content(l)' = Content(l)
<1>1. Layer = 1 .. N /\ N \in Nat
  BY Sizes DEF RInv, Inv, Types
<1>2. \A l \in Layer : ~(l < 1)
  BY <1>1
<1>3. QED
  BY <1>2 DEF Done, Content

(* After an error everything was erased, and the forward starts afresh.    *)
LEMMA RecoverRows ==
  ASSUME RInv, told = <<>>, Fresh, UNCHANGED << model, cache, told >>,
         meta'.previous = meta.previous, meta'.remove = meta.remove, InForward',
         \A l \in Layer : ~Done(l)' /\ Content(l)' = Content(l),
         session' => meta'.flag = "PendingWrite"
  PROVE  RowsHeld' /\ StatesHeld'
<1>1. Layer' = Layer /\ Fresh'
  BY DEF Layer, Fresh
<1>2. ASSUME NEW l \in Layer
      PROVE  Current(l)' /\ Heard(l)' = <<>> /\ Held(l)' = Held(l) /\ ~Done(l)'
  BY <1>1 DEF Current, Heard, Held
<1>3. ASSUME NEW l \in Layer, model[l] = "attention"
      PROVE  Kept(Held(l), Len(<<>>)) = <<>>
  <2>1. cache[l] \in Attention(l) /\ disk[l] \in File
    BY <1>3 DEF RInv, Inv, Types
  <2>2. Held(l) \in Seq(Int)
    BY <2>1 DEF Held, Content, Attention, File
  <2>3. QED
    BY <2>2, KeptNone
<1>4. RowsHeld'
  BY <1>1, <1>2, <1>3 DEF RowsHeld
<1>5. StatesHeld'
  BY <1>1, <1>2 DEF RInv, StatesHeld
<1>6. QED
  BY <1>4, <1>5

(* The prefix begins a history that was empty.                             *)
LEMMA FirstPromptRows ==
  ASSUME Situations = {}, RInv, NEW tail \in { <<>>, <<Generated>> }, FirstPrompt(tail)
  PROVE  RowsHeld' /\ StatesHeld' /\ Beginning' /\ Erased' /\ Loading'
<1>1. /\ UNCHANGED << model, prefix, disk, cache, told, shape >>
      /\ pc.at = "idle" /\ Recovers /\ mode.on /\ mode.call = 0 /\ ~mode.exist
      /\ Followed(Head(Chunks(prefix)))
      /\ mode' = [mode EXCEPT !.call = 1, !.length = Len(prefix)]
      /\ meta' = [meta EXCEPT !.flag = "PendingWrite"]
      /\ pieces' = Chunks(prefix) /\ pc' = Forward(FALSE, tail) /\ session' = TRUE
      /\ mode \in Mode /\ meta \in Meta
  BY DEF FirstPrompt, RInv, Inv, Types
<1>2. meta'.previous = meta.previous /\ meta'.remove = meta.remove /\ meta'.flag = "PendingWrite"
  BY <1>1 DEF Meta
<1>3. /\ pc'.at = "layer" /\ pc'.step = 1 /\ ~pc'.decoding /\ InForward'
  BY <1>1, ForwardStarts
<1>4. told = <<>> /\ ~Skipped /\ ~mode'.exist /\ ~InForward
  BY <1>1 DEF RInv, Inv, Counts, Skipped, Mode, InForward
<1>5. \A l \in Layer : ~Done(l)' /\ Content(l)' = Content(l)
  BY <1>1, <1>3, StartsNone
<1>6. RowsHeld' /\ StatesHeld'
  <2>1. CASE Sound
    BY <1>1, <1>2, <1>4, <1>5, <2>1, QuietRows
  <2>2. CASE ~Sound
    <3>1. Fresh
      BY <1>1, <2>2, Recovered DEF Survivable, RInv, Sound
    <3>2. QED
      BY <1>1, <1>2, <1>3, <1>4, <1>5, <3>1, RecoverRows
  <2>3. QED
    BY <2>1, <2>2
<1>7. Beginning' /\ Loading'
  BY <1>2, <1>4 DEF Beginning, Loading
<1>8. Erased'
  <2>1. Piece' = Head(Chunks(prefix)) /\ HasLinear' = HasLinear
    BY <1>1 DEF Piece, HasLinear, Layer
  <2>2. Shape(Piece)' = Shape(Head(Chunks(prefix)))
    BY <1>1, <2>1 DEF Shape
  <2>3. QED
    BY <1>1, <1>2, <1>3, <1>4, <2>1, <2>2 DEF Erased, Followed
<1>9. QED
  BY <1>6, <1>7, <1>8

(* A later prompt starts from what is held, or from the files.             *)
LEMMA PromptRows ==
  ASSUME Situations = {}, RInv, NEW ids \in Messages, Prompt(ids)
  PROVE  RowsHeld' /\ StatesHeld' /\ Beginning' /\ Erased' /\ Loading'
<1> DEFINE loads == mode.on /\ mode.call = 1 /\ mode.exist
<1>1. /\ UNCHANGED << model, prefix, disk, cache, told, shape >>
      /\ pc.at = "idle" /\ Recovers /\ (mode.on => mode.call # 0)
      /\ Followed(Head(Chunks(ids)))
      /\ mode' = IF mode.on THEN [mode EXCEPT !.call = NextCall] ELSE mode
      /\ meta' = IF loads THEN [meta EXCEPT !.flag = "PendingRead", !.inDisk = mode.length] ELSE meta
      /\ pieces' = Chunks(ids) /\ pc' = Forward(FALSE, <<>>)
      /\ session' = (session /\ Len(prefix) <= Len(told))
      /\ mode \in Mode /\ meta \in Meta
  BY DEF Prompt, RInv, Inv, Types
<1>2. /\ meta'.previous = meta.previous /\ meta'.remove = meta.remove
      /\ meta'.layerIndex = meta.layerIndex
      /\ meta'.flag = IF loads THEN "PendingRead" ELSE meta.flag
  BY <1>1 DEF Meta
<1>3. /\ pc'.at = "layer" /\ pc'.step = 1 /\ ~pc'.decoding /\ InForward'
  BY <1>1, ForwardStarts
<1>s. /\ session' => session /\ L <= Len(told)
      /\ session /\ L <= Len(told) => session'
  BY <1>1, Zenon DEF L
<1>4. /\ ~InForward /\ meta.flag = "NoChange" /\ N \in Nat \ {0}
      /\ told \in Seq(Int) /\ L \in Nat \ {0}
      /\ ~Sound => told = <<>> /\ ~Skipped /\ Fresh /\ ~session'
  <2>1. /\ ~InForward /\ meta.flag = "NoChange"
        /\ ~Sound => told = <<>> /\ ~Skipped /\ Fresh
    BY <1>1, Recovered DEF Survivable, RInv, Sound
  <2>2. told \in Seq(Int) /\ L \in Nat \ {0} /\ N \in Nat \ {0}
    BY Sizes DEF RInv, Inv, Types
  <2>3. ~Sound => ~session'
    BY <1>s, <2>1, <2>2
  <2>4. QED
    BY <2>1, <2>2, <2>3
<1>5. /\ mode'.on = mode.on /\ mode'.exist = mode.exist
      /\ mode.on => mode'.call # 0 /\ (mode.call = 1 => mode'.call = 2)
  BY <1>1 DEF Mode, NextCall
<1>6. Skipped' = Skipped
  BY <1>1, <1>5 DEF Skipped
<1>7. mode.on /\ mode.exist => loads /\ mode'.call = 2 /\ Sound
  <2>1. mode.on /\ mode.exist => Skipped
    BY <1>1 DEF Skipped
  <2>2. Skipped => mode.call = 1 /\ Sound
    BY <1>1, <1>4 DEF RInv, Inv, Counts, Sound
  <2>3. QED
    BY <1>5, <2>1, <2>2
<1>8. \A l \in Layer : ~Done(l)' /\ Content(l)' = Content(l)
  BY <1>1, <1>3, StartsNone
<1>9. RowsHeld' /\ StatesHeld'
  <2>1. CASE Sound
    BY <1>1, <1>2, <1>4, <1>6, <1>8, <1>s, <2>1, QuietRows
  <2>2. CASE ~Sound
    BY <1>1, <1>2, <1>3, <1>4, <1>8, <2>2, RecoverRows
  <2>3. QED
    BY <2>1, <2>2
<1>10. Beginning'
  BY <1>1, <1>4, <1>s DEF RInv, Beginning, Begins, L
<1>11. Erased'
  <2>1. Piece' = Head(Chunks(ids)) /\ HasLinear' = HasLinear
    BY <1>1 DEF Piece, HasLinear, Layer
  <2>2. Shape(Piece)' = Shape(Head(Chunks(ids)))
    BY <1>1, <2>1 DEF Shape
  <2>3. HasLinear /\ meta.remove > 0 => told = <<>> \/ (session' /\ told = prefix)
    <3>1. told = prefix /\ session => session'
      BY <1>4, <1>s DEF L
    <3>2. QED
      BY <1>1, <1>4, <3>1 DEF RInv, Erased
  <2>4. QED
    BY <1>1, <1>2, <1>3, <2>1, <2>2, <2>3 DEF Erased, Followed
<1>12. Loading'
  <2> SUFFICES ASSUME mode.on, mode.exist PROVE Loading'
    BY <1>5 DEF Loading
  <2>1. /\ meta.layerIndex = 0
        /\ \A l \in Layer :
             /\ disk[l].kind = model[l]
             /\ IF model[l] = "attention" THEN Kept(disk[l].rows, L) = prefix
                ELSE disk[l].rows = prefix
        /\ told = prefix /\ session'
    <3>1. /\ meta.layerIndex = 0 /\ told = prefix /\ session
          /\ \A l \in Layer :
               /\ disk[l].kind = model[l]
               /\ IF model[l] = "attention" THEN Kept(disk[l].rows, L) = prefix
                  ELSE disk[l].rows = prefix
      BY <1>1, <1>4, <1>7 DEF RInv, Loading
    <3>2. session'
      BY <1>4, <1>s, <3>1 DEF L
    <3>3. QED
      BY <3>1, <3>2
  <2>2. pc'.step <= N' /\ pc'.step - 1 = 0
    <3>1. N' = N
      BY <1>1 DEF N
    <3>2. QED
      BY <1>3, <1>4, <3>1
  <2>3. QED
    BY <1>1, <1>2, <1>7, <2>1, <2>2 DEF Loading, Layer, L
<1>13. QED
  BY <1>9, <1>10, <1>11, <1>12

(* With something in the plan, nothing is to be loaded.                    *)
LEMMA NothingToLoad ==
  ASSUME RInv, meta.remove < meta.previous
  PROVE  ~Skipped /\ ~(mode.on /\ mode.exist)
<1>1. meta.previous - meta.remove # 0
  BY DEF RInv, Inv, Types, Meta
<1>2. /\ meta.previous - meta.remove = IF Skipped THEN 0 ELSE Len(told)
      /\ mode.on /\ mode.call = 0 => told = <<>>
  BY DEF RInv, Inv, Counts
<1>3. QED
  BY <1>1, <1>2 DEF Skipped

(* A decode starts from what is held.                                      *)
LEMMA DecodeRows ==
  ASSUME RInv, Decode
  PROVE  RowsHeld' /\ StatesHeld' /\ Beginning' /\ Erased' /\ Loading'
<1>1. /\ UNCHANGED << model, prefix, disk, cache, meta, mode, status, told, session, shape >>
      /\ pc.at = "idle" /\ status = "RUNNING" /\ meta.previous > 0 /\ meta.remove = 0
      /\ pc' = Forward(TRUE, <<>>)
  BY DEF Decode
<1>2. /\ pc'.at = "layer" /\ pc'.step = 1
  BY <1>1, ForwardStarts
<1>3. ~InForward /\ meta.flag = "NoChange" /\ ~Skipped /\ ~(mode.on /\ mode.exist)
  BY <1>1, QuietFacts, NothingToLoad DEF Sound
<1>4. \A l \in Layer : ~Done(l)' /\ Content(l)' = Content(l)
  BY <1>1, <1>2, StartsNone
<1>5. Skipped' = Skipped
  BY <1>1 DEF Skipped
<1>6. RowsHeld' /\ StatesHeld'
  BY <1>1, <1>3, <1>4, <1>5, QuietRows DEF Sound
<1>7. Beginning' /\ Loading'
  BY <1>1, <1>3 DEF RInv, Beginning, Loading, Sound, Begins, L
<1>8. Erased'
  <2>1. meta'.remove = 0
    BY <1>1
  <2>2. QED
    BY <2>1 DEF Erased
<1>9. QED
  BY <1>6, <1>7, <1>8

(* Fewer rows kept are the beginning of the rows kept before.              *)
LEMMA KeptLess ==
  ASSUME NEW rows \in Seq(Int), NEW s \in Seq(Int), Kept(rows, Len(s)) = s,
         NEW n \in 0 .. Len(s)
  PROVE  Kept(rows, n) = SubSeq(s, 1, n)
<1> DEFINE k == Kept(rows, n)
           b == SubSeq(s, 1, n)
<1>1. Len(s) \in Nat /\ n \in Nat /\ n <= Len(s)
  BY LenProperties
<1>2. \A i \in 1 .. Len(s) : s[i] = IF i <= Len(rows) THEN rows[i] ELSE Blank
  <2>1. PICK m \in Int : m = Len(s)
    BY <1>1
  <2>2. \A i \in 1 .. m : Kept(rows, m)[i] = IF i <= Len(rows) THEN rows[i] ELSE Blank
    BY KeptRows
  <2>3. QED
    BY <2>1, <2>2
<1>3. /\ k \in Seq(Int) /\ Len(k) = n
      /\ \A i \in 1 .. n : k[i] = IF i <= Len(rows) THEN rows[i] ELSE Blank
  <2>1. PICK m \in Int : m = n /\ m >= 0
    BY <1>1
  <2>2. /\ Kept(rows, m) \in Seq(Int) /\ Len(Kept(rows, m)) = m
        /\ \A i \in 1 .. m : Kept(rows, m)[i] = IF i <= Len(rows) THEN rows[i] ELSE Blank
    BY <2>1, KeptRows
  <2>3. QED
    BY <2>1, <2>2
<1>4. b \in Seq(Int) /\ Len(b) = n /\ \A i \in 1 .. n : b[i] = s[i]
  BY <1>1, SliceOf
<1> HIDE DEF k, b
<1>5. \A i \in 1 .. n : k[i] = b[i]
  <2>1. \A i \in 1 .. n : i \in 1 .. Len(s)
    BY <1>1
  <2>2. QED
    BY <1>2, <1>3, <1>4, <2>1
<1>6. k = b
  BY <1>3, <1>4, <1>5, SeqEqual
<1>7. QED
  BY <1>6 DEF k, b

(* What begins with the prefix still does when no less than it is left.    *)
LEMMA BeginsLess ==
  ASSUME NEW s \in Seq(Int), prefix \in Seq(Int), Begins(s), NEW n \in L .. Len(s)
  PROVE  Begins(SubSeq(s, 1, n)) /\ SubSeq(s, 1, L) = prefix
<1> DEFINE b == SubSeq(s, 1, n)
           p == SubSeq(s, 1, L)
<1>1. L \in Nat /\ Len(s) \in Nat /\ n \in Nat /\ n <= Len(s) /\ L <= n
  BY LenProperties DEF L
<1>2. Len(b) = n /\ \A i \in 1 .. n : b[i] = s[i]
  BY <1>1, SliceOf
<1>3. p \in Seq(Int) /\ Len(p) = L /\ \A i \in 1 .. L : p[i] = s[i]
  <2>1. L \in 0 .. Len(s) /\ 1 <= L + 1
    BY <1>1
  <2>2. QED
    BY <1>1, <2>1, SliceOf
<1> HIDE DEF b, p
<1>4. Begins(b)
  BY <1>1, <1>2 DEF Begins
<1>5. p = prefix
  BY <1>3, SeqEqual DEF Begins, L
<1>6. QED
  BY <1>4, <1>5 DEF b, p

(* What is left of the history is left of the rows, or is the prefix.      *)
LEMMA EraseHistoryRows ==
  ASSUME Situations = {}, RInv, Sound, NEW begin \in 0 .. MaxTold, EraseHistory(begin)
  PROVE  RowsHeld' /\ StatesHeld' /\ Beginning' /\ Erased' /\ Loading'
<1>1. /\ UNCHANGED << model, prefix, disk, cache, mode, status, pc, pieces, shape >>
      /\ pc.at = "idle" /\ Keeps(begin) /\ (meta.remove = 0 \/ begin = 0)
      /\ begin < meta.previous - meta.remove
      /\ meta' = [meta EXCEPT !.remove = meta.previous - begin]
      /\ told' = SubSeq(told, 1, begin)
      /\ session' = (session /\ begin > 0)
      /\ meta \in Meta /\ DOMAIN cache = Layer /\ prefix \in Seq(Int)
  BY Sizes DEF EraseHistory, RInv, Inv, Types
<1>2. /\ begin \in Nat /\ meta.previous \in Nat /\ meta.remove \in Nat /\ told \in Seq(Int) /\ L \in Nat \ {0}
      /\ ~InForward /\ meta.flag = "NoChange" /\ Layer = 1 .. N
      /\ \A l \in Layer : ~Done(l) /\ Content(l) = disk[l].rows
  BY <1>1, QuietFacts, PrefixCacheAssumption
<1>3. ~Skipped /\ ~(mode.on /\ mode.exist)
  BY <1>1, <1>2, NothingToLoad
<1>4. meta.previous - meta.remove = Len(told) /\ begin \in 0 .. Len(told)
  BY <1>1, <1>2, <1>3, QuietFacts
<1>5. meta'.previous = meta.previous /\ meta'.remove = meta.previous - begin
      /\ meta'.flag = meta.flag /\ meta'.remove > 0 /\ meta'.remove # 0
  BY <1>1, <1>2 DEF Meta
<1>6. ~InForward' /\ Layer' = Layer /\ L' = L /\ HasLinear' = HasLinear
  BY <1>1, <1>2 DEF InForward, Layer, L, HasLinear
<1>7. \A l \in Layer : /\ ~Done(l)' /\ Heard(l)' = told' /\ Heard(l) = told
                       /\ Held(l)' = Held(l) /\ Loaded(l)
  BY <1>1, <1>2, <1>3, <1>6 DEF Done, Heard, Held, Content, Loaded
<1>8. Len(told') = begin
  <2>1. Len(told) \in Nat /\ 1 <= begin + 1
    BY <1>2, LenProperties
  <2>2. Len(SubSeq(told, 1, begin)) = begin - 1 + 1
    BY <1>2, <1>4, <2>1, SliceOf
  <2>3. QED
    BY <1>1, <1>2, <2>2
<1>9. RowsHeld'
  <2> SUFFICES ASSUME NEW l \in Layer, model[l] = "attention"
               PROVE  cache[l].past = meta.previous /\ Kept(Held(l), begin) = SubSeq(told, 1, begin)
    BY <1>1, <1>5, <1>6, <1>7, <1>8 DEF RowsHeld, Current
  <2>1. cache[l].past = meta.previous /\ Kept(Held(l), Len(told)) = told
    BY <1>1, <1>2, <1>3, <1>7 DEF RInv, RowsHeld, Current
  <2>2. Held(l) \in Seq(Int)
    <3>1. cache[l] \in Attention(l) /\ disk[l] \in File
      BY DEF RInv, Inv, Types
    <3>2. QED
      BY <1>2, <3>1 DEF Held, Attention, File
  <2>3. QED
    BY <1>2, <1>4, <2>1, <2>2, KeptLess
<1>10. StatesHeld'
  <2> SUFFICES ASSUME NEW l \in Layer, model[l] = "linear"
               PROVE  /\ cache[l].snapped => cache[l].ready
                      /\ session => cache[l].snapped /\ cache[l].snapshot = prefix
    <3>1. meta'.flag # "PendingWrite" /\ meta'.remove # 0 /\ model' = model
          /\ UNCHANGED << cache, prefix >> /\ (session' => session)
      BY <1>1, <1>2, <1>5
    <3>2. QED
      BY <1>6, <1>7, <3>1 DEF StatesHeld
  <2>1. QED
    BY <1>1, <1>2, <1>7 DEF RInv, StatesHeld
<1>11. begin # 0 /\ session => Begins(told) /\ begin \in L .. Len(told)
  <2> SUFFICES ASSUME begin # 0, session PROVE Begins(told) /\ begin \in L .. Len(told)
    OBVIOUS
  <2>1. Begins(told)
    BY <1>1, <1>2, <1>3, QuietFacts
  <2>2. begin = L \/ begin > L
    BY <1>1 DEF Keeps, L
  <2>3. QED
    BY <1>2, <1>4, <2>1, <2>2
<1>12. Beginning'
  <2> SUFFICES ASSUME session, begin > 0 PROVE Begins(told')
    BY <1>1, <1>6 DEF Beginning, Begins
  <2>1. QED
    BY <1>1, <1>2, <1>11, BeginsLess
<1>13. Erased'
  <2> SUFFICES ASSUME HasLinear PROVE told' = <<>> \/ (session' /\ told' = prefix)
    BY <1>1, <1>6 DEF Erased
  <2>1. CASE begin = 0
    <3>1. Len(told') = 0 /\ told' \in Seq(Int)
      <4>1. Len(told) \in Nat /\ 1 <= begin + 1
        BY <1>2, LenProperties
      <4>2. QED
        BY <1>1, <1>2, <1>4, <1>8, <2>1, <4>1, SliceOf
    <3>2. QED
      BY <3>1, EmptySeq
  <2>2. CASE begin # 0
    <3>1. session /\ begin = L /\ begin > 0
      BY <1>1, <1>2, <2>2 DEF Keeps, L
    <3>2. told' = prefix
      BY <1>1, <1>2, <1>11, <3>1, BeginsLess
    <3>3. session'
      BY <1>1, <3>1, Zenon
    <3>4. QED
      BY <3>2, <3>3
  <2>3. QED
    BY <2>1, <2>2
<1>14. Loading'
  BY <1>1, <1>3 DEF Loading
<1>15. QED
  BY <1>9, <1>10, <1>12, <1>13, <1>14

(* After an error only what a linear layer is ready for is known.          *)
LEMMA EraseFailedRows ==
  ASSUME RInv, ~Sound, NEW begin \in 0 .. MaxTold, EraseHistory(begin)
  PROVE  RowsHeld' /\ StatesHeld' /\ Beginning' /\ Erased' /\ Loading'
<1>1. ~Sound' /\ UNCHANGED << model, cache, mode >> /\ begin < meta.previous - meta.remove
  BY DEF EraseHistory, Sound
<1>2. ~(mode.on /\ mode.exist)
  <2>1. begin \in Nat /\ meta.previous \in Nat /\ meta.remove \in Nat
    BY PrefixCacheAssumption DEF RInv, Inv, Types, Meta
  <2>2. QED
    BY <1>1, <2>1, NothingToLoad
<1>3. StatesHeld'
  BY <1>1 DEF RInv, StatesHeld, Layer
<1>4. RowsHeld' /\ Beginning' /\ Erased' /\ Loading'
  BY <1>1, <1>2 DEF RowsHeld, Beginning, Erased, Loading
<1>5. QED
  BY <1>3, <1>4

(* A layer of a forward, before it runs.                                   *)
LEMMA LayerNow ==
  ASSUME RInv, pc.at = "layer", pc.step \in Layer
  PROVE  /\ ~Done(pc.step) /\ ~(pc.step < pc.step)
         /\ \A l \in Layer : Content(l) = disk[l].rows
         /\ mode.on /\ mode.exist <=> Skipped
         /\ Skipped => /\ Fresh /\ meta.flag = "PendingRead" /\ told = prefix /\ session
                       /\ meta.inDisk = Len(told) /\ meta.layerIndex = pc.step - 1
                       /\ Len(told) > 0
         /\ meta.flag = "PendingRead" => Skipped
         /\ ~Skipped => meta.previous - meta.remove = Len(told)
         /\ meta.flag = "PendingWrite" => session
         /\ InForward /\ Sound
<1>1. /\ N \in Nat \ {0} /\ Layer = 1 .. N /\ L \in Nat \ {0} /\ InForward /\ status = "RUNNING"
      /\ ~(mode.on /\ mode.call = 0) /\ told \in Seq(Int)
      /\ meta.previous \in Nat /\ meta.remove \in Nat
  BY AtLayer DEF RInv
<1>2. ~(pc.step < pc.step) /\ ~Done(pc.step)
  BY <1>1 DEF Done
<1>3. \A l \in Layer : Content(l) = disk[l].rows
  BY DEF Content
<1>4. mode.on /\ mode.exist <=> Skipped
  BY <1>1 DEF Skipped
<1>5. Skipped => /\ meta.flag = "PendingRead" /\ told = prefix /\ session
                 /\ meta.layerIndex = pc.step - 1 /\ mode.call = 2
  BY <1>1, <1>4 DEF RInv, Loading, Skipped, Sound
<1>6. /\ meta.previous - meta.remove = IF Skipped THEN 0 ELSE Len(told)
      /\ Skipped => (mode.call = 2 => meta.inDisk = Len(told))
      /\ meta.flag = "PendingRead" => Skipped
  BY <1>1 DEF RInv, Inv, Counts
<1>7. Skipped => Fresh
  BY <1>1, <1>6 DEF Fresh
<1>8. Skipped => Len(told) > 0
  BY <1>1, <1>5 DEF L
<1>9. meta.flag = "PendingWrite" => session
  BY DEF RInv, Inv, Written
<1>10. QED
  BY <1>1, <1>2, <1>3, <1>4, <1>5, <1>6, <1>7, <1>8, <1>9 DEF Sound

(* What a layer must hold when it has run.                                 *)
LayerHolds ==
  LET l == pc.step
      c == cache'[l]
  IN  /\ model[l] = "attention" =>
           /\ c.past = Len(told) + Len(Piece)
           /\ Kept(IF c.file = 0 THEN c.rows ELSE disk'[l].rows, Len(told \o Piece))
                = told \o Piece
      /\ model[l] = "linear" =>
           /\ c.snapped => c.ready
           /\ c.state = told \o Piece
           /\ session => /\ c.snapped
                         /\ c.snapshot = IF meta.flag = "PendingWrite" THEN told \o Piece
                                         ELSE prefix

(* What a layer must leave of the files and the plan.                      *)
LayerLeaves ==
  /\ UNCHANGED shape
  /\ \A l \in Layer : l # pc.step => disk'[l].rows = disk[l].rows
  /\ mode.on /\ mode.exist =>
       disk' = disk /\ meta'.layerIndex = IF pc.step < N THEN pc.step ELSE 0

(* A layer that holds the piece brings the forward one layer on.           *)
LEMMA LayerRows ==
  ASSUME RInv, LayerStays, NextLayer, LayerHolds, LayerLeaves
  PROVE  RowsHeld' /\ StatesHeld' /\ Beginning' /\ Erased' /\ Loading'
<1>1. /\ N \in Nat \ {0} /\ Layer = 1 .. N /\ Layer' = Layer /\ N' = N /\ L' = L
      /\ HasLinear' = HasLinear /\ Skipped' = Skipped /\ Piece' = Piece
      /\ InForward /\ pc.at = "layer" /\ pc.step \in Layer /\ Sound /\ Sound'
      /\ Fresh' = Fresh
      /\ UNCHANGED << model, prefix, mode, status, told, session, shape >>
      /\ meta'.previous = meta.previous /\ meta'.remove = meta.remove
      /\ meta'.flag = meta.flag /\ meta'.inDisk = meta.inDisk
      /\ \A l \in Layer : l # pc.step => cache'[l] = cache[l] /\ disk'[l].rows = disk[l].rows
  BY AtLayer DEF RInv, LayerStays, LayerLeaves, Layer, N, L, HasLinear, Skipped, Piece,
                         Sound, Fresh
<1>2. /\ InForward' /\ pc'.at = "layer" /\ pc'.step = pc.step + 1 /\ pc'.decoding = pc.decoding
  BY <1>1, AtLayer, NextPlace DEF RInv
<1>3. /\ \A l \in Layer : Content(l) = disk[l].rows /\ Content(l)' = disk'[l].rows
      /\ ~Done(pc.step)
  BY <1>1, <1>2, LayerNow DEF Content
<1>4. ASSUME NEW l \in Layer, l = pc.step
      PROVE  /\ Done(l)' /\ Heard(l)' = told \o Piece /\ Loaded(l)'
             /\ Held(l)' = IF cache'[l].file = 0 THEN cache'[l].rows ELSE disk'[l].rows
  <2>1. l < pc.step + 1
    BY <1>1, <1>4
  <2>2. Done(l)'
    BY <1>2, <2>1 DEF Done
  <2>3. QED
    BY <1>1, <1>3, <2>2 DEF Heard, Loaded, Held
<1>5. ASSUME NEW l \in Layer, l # pc.step
      PROVE  /\ Done(l)' <=> Done(l)
             /\ Heard(l)' = Heard(l) /\ Held(l)' = Held(l) /\ Loaded(l)' = Loaded(l)
  <2>1. l < pc.step + 1 <=> l < pc.step
    BY <1>1, <1>5
  <2>2. Done(l)' <=> Done(l)
    BY <1>1, <1>2, <2>1 DEF Done
  <2>3. QED
    BY <1>1, <1>3, <1>5, <2>2 DEF Heard, Held, Loaded
<1>6. RowsHeld'
  <2> SUFFICES ASSUME NEW l \in Layer, model[l] = "attention"
               PROVE  /\ IF Done(l)' THEN cache'[l].past = Len(told) + Len(Piece)
                         ELSE Fresh \/ cache'[l].past = meta.previous
                      /\ Loaded(l)' => Kept(Held(l)', Len(Heard(l)')) = Heard(l)'
    BY <1>1, <1>2 DEF RowsHeld, Current
  <2>1. CASE l = pc.step
    BY <1>1, <1>4, <2>1 DEF LayerHolds
  <2>2. CASE l # pc.step
    BY <1>1, <1>5, <2>2 DEF RInv, RowsHeld, Current
  <2>3. QED
    BY <2>1, <2>2
<1>7. StatesHeld'
  <2> SUFFICES ASSUME NEW l \in Layer, model[l] = "linear"
               PROVE  /\ cache'[l].snapped => cache'[l].ready
                      /\ Loaded(l)' /\ (Done(l)' \/ (meta.remove = 0 /\ ~Fresh)) =>
                           cache'[l].state = Heard(l)'
                      /\ session /\ Loaded(l)' =>
                           IF meta.flag = "PendingWrite"
                           THEN Done(l)' \/ told # <<>> =>
                                  cache'[l].snapped /\ cache'[l].snapshot = Heard(l)'
                           ELSE cache'[l].snapped /\ cache'[l].snapshot = prefix
    BY <1>1, <1>2 DEF StatesHeld
  <2>1. CASE l = pc.step
    BY <1>1, <1>4, <2>1 DEF LayerHolds
  <2>2. CASE l # pc.step
    BY <1>1, <1>5, <2>2 DEF RInv, StatesHeld
  <2>3. QED
    BY <2>1, <2>2
<1>8. Beginning'
  BY <1>1 DEF RInv, Beginning, Begins
<1>9. Erased'
  BY <1>1, <1>2 DEF RInv, Erased, Shape
<1>10. Loading'
  <2> SUFFICES ASSUME mode.on, mode.exist PROVE Loading'
    BY <1>1 DEF Loading
  <2>1. /\ \A l \in Layer :
             /\ disk[l].kind = model[l]
             /\ IF model[l] = "attention" THEN Kept(disk[l].rows, L) = prefix
                ELSE disk[l].rows = prefix
        /\ mode.call # 0 => told = prefix /\ session
        /\ meta.flag = "PendingRead" /\ mode.call = 2
    BY <1>1 DEF RInv, Loading
  <2>2. disk' = disk /\ meta'.layerIndex = IF pc'.step <= N THEN pc'.step - 1 ELSE 0
    BY <1>1, <1>2 DEF LayerLeaves
  <2>3. QED
    BY <1>1, <1>2, <2>1, <2>2 DEF Loading
<1>11. QED
  BY <1>6, <1>7, <1>8, <1>9, <1>10

(* A step of a layer gives it r and moves the plan on, or not at all.      *)
LEMMA StaysAfter ==
  ASSUME Inv, Inv', pc.at = "layer", pc.step \in Layer, NEW r,
         cache' = [cache EXCEPT ![pc.step] = r], AdvanceIndex \/ UNCHANGED meta,
         UNCHANGED << model, prefix, mode, status, pieces, told, session >>
  PROVE  /\ LayerStays /\ cache'[pc.step] = r
         /\ AdvanceIndex =>
              meta'.layerIndex = IF meta.layerIndex + 1 < N THEN meta.layerIndex + 1 ELSE 0
<1>1. /\ meta \in Meta /\ meta.layerIndex < N /\ N \in Nat \ {0} /\ Cardinality(Layer) = N
      /\ DOMAIN cache = Layer /\ Layer' = Layer
  BY Sizes DEF Inv, Types, Layer
<1>2. /\ DOMAIN cache' = Layer /\ cache'[pc.step] = r
      /\ \A g \in Layer : g # pc.step => cache'[g] = cache[g]
  BY <1>1, CacheChanged
<1>3. AdvanceIndex =>
        /\ meta'.previous = meta.previous /\ meta'.remove = meta.remove
        /\ meta'.flag = meta.flag /\ meta'.inDisk = meta.inDisk /\ meta'.layerIndex < N
        /\ meta'.layerIndex = IF meta.layerIndex + 1 < N THEN meta.layerIndex + 1 ELSE 0
  BY <1>1, Advanced
<1>4. /\ meta'.previous = meta.previous /\ meta'.remove = meta.remove
      /\ meta'.flag = meta.flag /\ meta'.inDisk = meta.inDisk /\ meta'.layerIndex < N
  BY <1>1, <1>3
<1>5. /\ disk' \in [ Layer -> File ] /\ meta' \in Meta
      /\ cache'[pc.step] \in IF model[pc.step] = "attention" THEN Attention(pc.step) ELSE Linear
  <2>1. /\ disk' \in [ Layer' -> File' ] /\ meta' \in Meta'
        /\ \A l \in Layer' : cache'[l] \in IF model'[l] = "attention" THEN Attention(l)' ELSE Linear'
    BY DEF Inv, Types
  <2>2. File' = File /\ Meta' = Meta /\ Linear' = Linear
    BY DEF File, Meta, Linear, N
  <2>3. \A l \in Layer : Attention(l)' = Attention(l)
    BY DEF Attention
  <2>4. QED
    BY <1>1, <2>1, <2>2, <2>3
<1>6. QED
  BY <1>2, <1>3, <1>4, <1>5 DEF LayerStays

(* The rows of a sequence are the sequence.                                *)
LEMMA RowsOf ==
  ASSUME NEW s \in Seq(Int), NEW t \in Seq(Int)
  PROVE  /\ s \o t \in Seq(Int) /\ Len(s \o t) = Len(s) + Len(t)
         /\ Kept(s \o t, Len(s \o t)) = s \o t
         /\ s = <<>> => s \o t = t
<1>1. s \o t \in Seq(Int) /\ Len(s \o t) = Len(s) + Len(t)
  BY ConcatProperties
<1>2. Kept(s \o t, Len(s \o t)) = s \o t
  BY <1>1, KeptAll
<1>3. s = <<>> => s \o t = t
  OBVIOUS
<1>4. QED
  BY <1>1, <1>2, <1>3

(* The first rows of a layer are the piece.                                *)
LEMMA StartRowsRows ==
  ASSUME RInv, Inv', StartRows
  PROVE  RowsHeld' /\ StatesHeld' /\ Beginning' /\ Erased' /\ Loading'
<1> DEFINE r == [past |-> Len(Piece), max |-> Len(Piece) + ExpandChunk, rows |-> Piece, file |-> 0]
<1>1. /\ pc.at = "layer" /\ pc.step \in Layer /\ model[pc.step] = "attention" /\ Fresh
      /\ meta.flag = "NoChange" /\ cache' = [cache EXCEPT ![pc.step] = r]
      /\ AdvanceIndex /\ NextLayer
      /\ UNCHANGED << model, prefix, disk, mode, status, pieces, shape, told, session >>
  BY DEF StartRows, Running
<1>2. r.past = Len(Piece) /\ r.file = 0 /\ r.rows = Piece
  OBVIOUS
<1> HIDE DEF r
<1>3. LayerStays /\ cache'[pc.step] = r
  BY <1>1, StaysAfter DEF RInv
<1>4. ~Skipped /\ ~(mode.on /\ mode.exist) /\ meta.previous - meta.remove = Len(told)
  BY <1>1, LayerNow
<1>5. /\ told \in Seq(Int) /\ Piece \in Seq(Int) /\ Len(Piece) \in Nat
      /\ meta.previous \in Nat /\ meta.remove \in Nat
  BY <1>1, AtLayer DEF RInv
<1>6. Len(told) = 0 /\ told = <<>>
  <2>1. Len(told) = 0
    BY <1>1, <1>4, <1>5 DEF Fresh
  <2>2. QED
    BY <1>5, <2>1, EmptySeq
<1>7. LayerHolds
  <2>1. told \o Piece = Piece /\ Kept(Piece, Len(Piece)) = Piece
    BY <1>5, <1>6, RowsOf
  <2>2. QED
    BY <1>1, <1>2, <1>3, <1>5, <1>6, <2>1 DEF LayerHolds
<1>8. LayerLeaves
  BY <1>1, <1>4 DEF LayerLeaves
<1>9. QED
  BY <1>1, <1>3, <1>7, <1>8, LayerRows

(* The index of the file a layer finds while it loads.                     *)
LEMMA OwnFile ==
  ASSUME RInv, pc.at = "layer", pc.step \in Layer, AdvanceIndex,
         Skipped \/ meta.layerIndex = pc.step - 1
  PROVE  /\ meta.layerIndex = pc.step - 1 /\ ThisFile = pc.step
         /\ meta'.layerIndex = IF pc.step < N THEN pc.step ELSE 0
<1>1. /\ N \in Nat \ {0} /\ Layer = 1 .. N /\ meta \in Meta /\ meta.layerIndex < N
      /\ Cardinality(Layer) = N
  BY AtLayer, Sizes DEF RInv, Inv, Types
<1>2. meta.layerIndex = pc.step - 1
  BY LayerNow
<1>3. meta'.layerIndex = IF meta.layerIndex + 1 < N THEN meta.layerIndex + 1 ELSE 0
  BY <1>1, Advanced
<1>4. meta.layerIndex + 1 = pc.step
  BY <1>1, <1>2
<1>5. QED
  BY <1>2, <1>3, <1>4 DEF ThisFile

(* A layer that loads holds the prefix and the piece.                      *)
LEMMA LoadPrefixRows ==
  ASSUME RInv, Inv', LoadPrefix
  PROVE  RowsHeld' /\ StatesHeld' /\ Beginning' /\ Erased' /\ Loading'
<1> DEFINE file == disk[ThisFile]
           stored == IF file.kind = "attention" THEN file.rows ELSE <<>>
           length == Len(Piece) + meta.inDisk
           max == IF length > file.size THEN length + ExpandChunk ELSE file.size
           rows == Kept(stored, meta.inDisk) \o Piece
           r == [past |-> length, file |-> 0, max |-> max, rows |-> rows]
<1>1. /\ pc.at = "layer" /\ pc.step \in Layer /\ model[pc.step] = "attention"
      /\ meta.flag = "PendingRead" /\ cache' = [cache EXCEPT ![pc.step] = r]
      /\ AdvanceIndex /\ NextLayer
      /\ UNCHANGED << model, prefix, disk, mode, status, pieces, shape, told, session >>
  BY DEF LoadPrefix, Running
<1>2. /\ Skipped /\ mode.on /\ mode.exist /\ told = prefix /\ meta.inDisk = Len(told)
  BY <1>1, LayerNow
<1>3. ThisFile = pc.step /\ meta'.layerIndex = IF pc.step < N THEN pc.step ELSE 0
  BY <1>1, <1>2, OwnFile
<1>4. /\ told \in Seq(Int) /\ Piece \in Seq(Int) /\ Len(Piece) \in Nat
  BY <1>1, AtLayer DEF RInv
<1>5. rows = told \o Piece
  <2>1. disk[pc.step].kind = "attention" /\ Kept(disk[pc.step].rows, L) = prefix
    BY <1>1, <1>2, LayerNow DEF RInv, Loading
  <2>2. QED
    BY <1>2, <1>3, <2>1 DEF L
<1>6. length = Len(told) + Len(Piece)
  BY <1>2, <1>4
<1> HIDE DEF rows, length, max
<1>7. r.past = length /\ r.file = 0 /\ r.rows = rows
  OBVIOUS
<1> HIDE DEF r
<1>8. LayerStays /\ cache'[pc.step] = r
  BY <1>1, StaysAfter DEF RInv
<1>9. LayerHolds
  <2>1. Kept(told \o Piece, Len(told \o Piece)) = told \o Piece
    BY <1>4, RowsOf
  <2>2. QED
    BY <1>1, <1>5, <1>6, <1>7, <1>8, <2>1 DEF LayerHolds
<1>10. LayerLeaves
  BY <1>1, <1>3 DEF LayerLeaves
<1>11. QED
  BY <1>1, <1>8, <1>9, <1>10, LayerRows

(* A file that is begun holds the piece.                                   *)
LEMMA SharePrefixRows ==
  ASSUME RInv, Inv', SharePrefix
  PROVE  RowsHeld' /\ StatesHeld' /\ Beginning' /\ Erased' /\ Loading'
<1> DEFINE max == Len(Piece) + ExpandChunk
           r == [past |-> Len(Piece), max |-> max, rows |-> <<>>, file |-> ThisFile]
           d == [disk[ThisFile] EXCEPT !.has = Both, !.kind = "attention", !.rows = Piece,
                                       !.size = max]
<1>1. /\ pc.at = "layer" /\ pc.step \in Layer /\ model[pc.step] = "attention" /\ Fresh
      /\ meta.flag = "PendingWrite" /\ cache' = [cache EXCEPT ![pc.step] = r]
      /\ disk' = [disk EXCEPT ![ThisFile] = d]
      /\ AdvanceIndex /\ NextLayer
      /\ UNCHANGED << model, prefix, mode, status, pieces, shape, told, session >>
  BY DEF SharePrefix, Running
<1>2. told = <<>> /\ meta.layerIndex = pc.step - 1
  BY <1>1, WhileWriting DEF RInv
<1>3. ThisFile = pc.step
  BY <1>1, <1>2, OwnFile
<1>4. ~Skipped /\ ~(mode.on /\ mode.exist)
  BY <1>1, LayerNow
<1>5. /\ told \in Seq(Int) /\ Piece \in Seq(Int) /\ Len(Piece) \in Nat /\ disk \in [ Layer -> File ]
      /\ 0 \notin Layer /\ Len(told) = 0
  <2>1. N \in Nat /\ Layer = 1 .. N
    BY <1>1, AtLayer DEF RInv
  <2>2. QED
    BY <1>1, <1>2, <2>1, AtLayer, EmptySeq DEF RInv
<1>6. disk'[pc.step].rows = Piece /\ \A l \in Layer : l # pc.step => disk'[l] = disk[l]
  <2>1. disk[pc.step] \in File
    BY <1>1, <1>5
  <2>2. d.rows = Piece
    BY <1>3, <2>1 DEF File
  <2> HIDE DEF d
  <2>3. QED
    BY <1>1, <1>3, <1>5, <2>2
<1>7. r.past = Len(Piece) /\ r.file = pc.step
  BY <1>3
<1> HIDE DEF r, d
<1>8. LayerStays /\ cache'[pc.step] = r
  BY <1>1, StaysAfter DEF RInv
<1>9. LayerHolds
  <2>1. told \o Piece = Piece /\ Kept(Piece, Len(Piece)) = Piece
    BY <1>2, <1>5, RowsOf
  <2>2. cache'[pc.step].file # 0 /\ cache'[pc.step].past = Len(told) + Len(Piece)
    BY <1>1, <1>5, <1>7, <1>8
  <2>3. QED
    BY <1>1, <1>6, <2>1, <2>2 DEF LayerHolds
<1>10. LayerLeaves
  BY <1>1, <1>4, <1>6 DEF LayerLeaves
<1>11. QED
  BY <1>1, <1>8, <1>9, <1>10, LayerRows

(* Behind the rows that are kept, which are those told, comes the piece.   *)
LEMMA AppendRowsRows ==
  ASSUME RInv, Inv', AppendRows
  PROVE  RowsHeld' /\ StatesHeld' /\ Beginning' /\ Erased' /\ Loading'
<1> DEFINE l == pc.step
           c == cache[l]
           past == c.past - meta.remove
           rows == Kept(Rows(l), past) \o Piece
           max == IF Needed > c.max THEN Needed + ExpandChunk ELSE c.max
           r == [past |-> past + Len(Piece), file |-> c.file, max |-> max,
                 rows |-> IF c.file = 0 THEN rows ELSE <<>>]
<1>1. /\ pc.at = "layer" /\ pc.step \in Layer /\ model[pc.step] = "attention" /\ ~Fresh
      /\ cache' = [cache EXCEPT ![l] = r]
      /\ disk' = IF c.file = 0 THEN disk ELSE [disk EXCEPT ![c.file].rows = rows]
      /\ NextLayer
      /\ UNCHANGED << model, prefix, meta, mode, status, pieces, shape, told, session >>
  BY DEF AppendRows, Running
<1>2. /\ ~Skipped /\ ~(mode.on /\ mode.exist) /\ meta.previous - meta.remove = Len(told)
      /\ ~Done(l) /\ Content(l) = disk[l].rows
  BY <1>1, LayerNow
<1>3. /\ told \in Seq(Int) /\ Piece \in Seq(Int) /\ Len(Piece) \in Nat /\ disk \in [ Layer -> File ]
      /\ meta.previous \in Nat /\ meta.remove \in Nat
      /\ c.file \in {0, l}
  <2>1. c \in Attention(l)
    BY <1>1 DEF RInv, Inv, Types
  <2>2. c.file \in {0, l}
    BY <2>1 DEF Attention
  <2>3. QED
    BY <1>1, <2>2, AtLayer DEF RInv
<1>4. c.past = meta.previous /\ Kept(Held(l), Len(told)) = told
  BY <1>1, <1>2, LayerNow DEF RInv, RowsHeld, Current, Heard, Loaded
<1>5. past = Len(told)
  BY <1>2, <1>4
<1>6. Rows(l) = Held(l)
  BY <1>2, <1>3 DEF Rows, Held
<1>7. rows = told \o Piece
  BY <1>4, <1>5, <1>6
<1> HIDE DEF past, max, rows
<1>8. r.past = past + Len(Piece) /\ r.file = c.file /\ (c.file = 0 => r.rows = rows)
  OBVIOUS
<1>9. c.file # 0 => disk'[l].rows = rows
  BY <1>1, <1>3 DEF File
<1>10. \A g \in Layer : g # l => disk'[g].rows = disk[g].rows
  BY <1>1, <1>3
<1> HIDE DEF r
<1>11. LayerStays /\ cache'[pc.step] = r
  BY <1>1, StaysAfter DEF RInv
<1>12. LayerHolds
  <2>1. Kept(told \o Piece, Len(told \o Piece)) = told \o Piece
    BY <1>3, RowsOf
  <2>2. QED
    BY <1>1, <1>5, <1>7, <1>8, <1>9, <1>11, <2>1 DEF LayerHolds
<1>13. LayerLeaves
  BY <1>1, <1>2, <1>10 DEF LayerLeaves
<1>14. QED
  BY <1>1, <1>11, <1>12, <1>13, LayerRows

(* A file of the prefix that is enlarged, or filled again, holds or will   *)
(* hold the same rows.                                                     *)
LEMMA GrowthRows ==
  ASSUME RInv, InForward, ~Fresh,
         UNCHANGED << model, prefix, meta, mode, status, pieces, told, session, shape >>,
         InForward', pc'.step = pc.step, pc'.decoding = pc.decoding,
         \A l \in Layer : l # pc.step => cache'[l] = cache[l],
         pc.step \in Layer, model[pc.step] = "attention",
         cache[pc.step].file # 0, cache'[pc.step].file # 0,
         cache'[pc.step].past = cache[pc.step].past,
         \A l \in Layer : Content(l)' = Content(l)
  PROVE  RowsHeld' /\ StatesHeld' /\ Beginning' /\ Erased' /\ Loading'
<1>1. /\ Layer' = Layer /\ N' = N /\ L' = L /\ HasLinear' = HasLinear /\ Skipped' = Skipped
      /\ Piece' = Piece /\ Fresh' = Fresh
  BY DEF Layer, N, L, HasLinear, Skipped, Piece, Fresh
<1>2. ~Skipped /\ Sound /\ Sound' /\ ~(mode.on /\ mode.exist)
  <2>1. status = "RUNNING" /\ meta.previous \in Nat /\ meta.remove \in Nat
    BY DEF RInv, Inv, Steps, Types, Meta
  <2>2. /\ meta.previous - meta.remove = IF Skipped THEN 0 ELSE Len(told)
        /\ ~(mode.on /\ mode.call = 0)
    BY <2>1 DEF RInv, Inv, Counts
  <2>3. ~Skipped
    BY <2>1, <2>2 DEF Fresh
  <2>4. QED
    BY <2>1, <2>2, <2>3 DEF Skipped, Sound
<1>3. ASSUME NEW l \in Layer
      PROVE  /\ Done(l)' <=> Done(l)
             /\ Heard(l)' = Heard(l) /\ Held(l)' = Held(l) /\ Loaded(l)' = Loaded(l)
             /\ cache'[l].past = cache[l].past
             /\ model[l] = "linear" => cache'[l] = cache[l]
  <2>1. Done(l)' <=> Done(l)
    BY DEF Done
  <2>2. /\ cache'[l].past = cache[l].past
        /\ model[l] = "linear" => cache'[l] = cache[l]
    OBVIOUS
  <2>3. Held(l)' = Held(l)
    <3>1. CASE l = pc.step
      BY <3>1 DEF Held
    <3>2. CASE l # pc.step
      BY <3>2 DEF Held
    <3>3. QED
      BY <3>1, <3>2
  <2>4. QED
    BY <1>1, <2>1, <2>2, <2>3 DEF Heard, Loaded
<1>4. RowsHeld'
  BY <1>1, <1>2, <1>3 DEF RInv, RowsHeld, Current
<1>5. StatesHeld'
  BY <1>1, <1>2, <1>3 DEF RInv, StatesHeld
<1>6. Beginning' /\ Loading'
  BY <1>1, <1>2 DEF RInv, Beginning, Begins, Loading
<1>7. Erased'
  BY <1>1, <1>2 DEF RInv, Erased, Shape
<1>8. QED
  BY <1>4, <1>5, <1>6, <1>7

(* What a file will hold again is held.                                    *)
LEMMA GrowFileRows ==
  ASSUME RInv, GrowFile
  PROVE  RowsHeld' /\ StatesHeld' /\ Beginning' /\ Erased' /\ Loading'
<1> DEFINE l == pc.step
           size == Needed + ExpandChunk
           r == [cache[l] EXCEPT !.max = size, !.rows = disk[l].rows]
           d == [disk[l] EXCEPT !.rows = <<>>, !.size = size]
<1>1. /\ pc.at = "layer" /\ l \in Layer /\ model[l] = "attention" /\ ~Fresh
      /\ cache[l] \in Attention(l) /\ cache[l].file # 0
      /\ disk \in [ Layer -> File ] /\ DOMAIN cache = Layer
      /\ UNCHANGED << model, prefix, meta, mode, status, pieces, told, session, shape >>
      /\ pc' = [pc EXCEPT !.at = "grow"]
  BY DEF GrowFile, Running, RInv, Inv, Types
<1>2. cache[l].file = l
  BY <1>1, MappedFile DEF RInv
<1>3. cache' = [cache EXCEPT ![l] = r] /\ disk' = [disk EXCEPT ![l] = d]
  BY <1>2 DEF GrowFile
<1> HIDE DEF size, d
<1>4. r.file = cache[l].file /\ r.past = cache[l].past /\ r.rows = disk[l].rows
  BY <1>1 DEF Attention
<1> HIDE DEF r
<1>5. /\ cache'[l] = r /\ \A g \in Layer : g # l => cache'[g] = cache[g] /\ disk'[g] = disk[g]
  BY <1>1, <1>3
<1>6. pc \in Going /\ InForward
  BY <1>1, AtLayer DEF RInv
<1>7. pc'.at = "grow" /\ pc'.step = l /\ pc'.decoding = pc.decoding /\ InForward'
  BY <1>1, <1>6 DEF Going, InForward
<1>8. \A g \in Layer : Content(g)' = Content(g)
  BY <1>1, <1>4, <1>5, <1>7 DEF Content
<1>9. QED
  BY <1>1, <1>4, <1>5, <1>6, <1>7, <1>8, GrowthRows

(* What is copied back is what was taken.                                  *)
LEMMA CopyBackRows ==
  ASSUME RInv, CopyBack
  PROVE  RowsHeld' /\ StatesHeld' /\ Beginning' /\ Erased' /\ Loading'
<1> DEFINE l == pc.step
           r == [cache[l] EXCEPT !.rows = <<>>]
           d == [disk[l] EXCEPT !.rows = cache[l].rows]
<1>1. /\ pc.at = "grow" /\ l \in Layer /\ model[l] = "attention" /\ ~Fresh
      /\ cache[l].file # 0 /\ cache[l] \in Attention(l)
      /\ UNCHANGED << model, prefix, meta, mode, status, pieces, told, session, shape >>
      /\ pc' = [pc EXCEPT !.at = "layer"]
      /\ disk \in [ Layer -> File ] /\ DOMAIN cache = Layer
  <2>1. pc.at = "grow" /\ InForward
    BY DEF CopyBack, InForward
  <2>2. l \in Layer /\ model[l] = "attention" /\ cache[l].file # 0 /\ ~Fresh
    BY <2>1 DEF RInv, Inv, Steps
  <2>3. QED
    BY <2>1, <2>2 DEF CopyBack, RInv, Inv, Types
<1>2. cache[l].file = l
  BY <1>1, MappedFile DEF RInv
<1>3. cache' = [cache EXCEPT ![l] = r] /\ disk' = [disk EXCEPT ![l] = d]
  BY <1>2 DEF CopyBack
<1>4. r.file = cache[l].file /\ r.past = cache[l].past
  BY <1>1 DEF Attention
<1>5. d.rows = cache[l].rows
  <2>1. disk[l] \in File
    BY <1>1
  <2>2. QED
    BY <2>1 DEF File
<1> HIDE DEF r, d
<1>6. /\ cache'[l] = r /\ disk'[l] = d
      /\ \A g \in Layer : g # l => cache'[g] = cache[g] /\ disk'[g] = disk[g]
  BY <1>1, <1>3
<1>7. pc \in Going /\ InForward
  BY <1>1, ForwardPlace DEF RInv, Inv, Types, InForward
<1>8. pc'.at = "layer" /\ pc'.step = l /\ pc'.decoding = pc.decoding /\ InForward'
  BY <1>1, <1>7 DEF Going, InForward
<1>9. \A g \in Layer : Content(g)' = Content(g)
  BY <1>1, <1>5, <1>6, <1>8 DEF Content
<1>10. QED
  BY <1>1, <1>4, <1>6, <1>7, <1>8, <1>9, GrowthRows

(* After a forward that failed nothing is known of the layers.             *)
LEMMA FailForwardRows ==
  ASSUME RInv, FailForward
  PROVE  RowsHeld' /\ StatesHeld' /\ Beginning' /\ Erased' /\ Loading'
<1>1. ~Sound' /\ UNCHANGED << model, cache, mode >> /\ pc.at = "layer"
  BY DEF FailForward, Sound
<1>2. ~(mode.on /\ mode.call = 0)
  BY <1>1 DEF InForward, RInv, Inv, Counts
<1>3. StatesHeld'
  BY <1>1 DEF RInv, StatesHeld, Layer
<1>4. RowsHeld' /\ Beginning' /\ Erased' /\ Loading'
  BY <1>1, <1>2 DEF RowsHeld, Beginning, Erased, Loading
<1>5. QED
  BY <1>3, <1>4

(* A step that changes nothing.                                            *)
LEMMA StutterRows ==
  ASSUME RInv, UNCHANGED vars
  PROVE  RowsHeld' /\ StatesHeld' /\ Beginning' /\ Erased' /\ Loading'
<1>1. /\ Layer' = Layer /\ N' = N /\ L' = L /\ HasLinear' = HasLinear /\ Skipped' = Skipped
      /\ Piece' = Piece /\ InForward' = InForward /\ Fresh' = Fresh /\ Sound' = Sound
  BY DEF vars, Layer, N, L, HasLinear, Skipped, Piece, InForward, Fresh, Sound
<1>2. \A l \in Layer : /\ Done(l)' = Done(l) /\ Heard(l)' = Heard(l) /\ Held(l)' = Held(l)
                       /\ Loaded(l)' = Loaded(l) /\ (Current(l) => Current(l)')
  BY <1>1 DEF vars, Done, Heard, Held, Content, Loaded, Current
<1>3. RowsHeld' /\ StatesHeld'
  BY <1>1, <1>2 DEF vars, RInv, RowsHeld, StatesHeld
<1>4. Beginning' /\ Erased' /\ Loading'
  BY <1>1 DEF vars, RInv, Beginning, Begins, Erased, Shape, Loading
<1>5. QED
  BY <1>3, <1>4

(* What a resize makes of a state: kept, or its snapshot after an erase.   *)
LEMMA ResizedRows ==
  ASSUME NEW c \in Linear, meta.previous \in Nat, meta.remove \in Nat
  PROVE  /\ Resized(c).ready
         /\ meta.remove = 0 => \/ Resized(c).state = c.state
                               \/ meta.previous = 0 /\ Resized(c).state = <<>>
         /\ meta.remove # 0 /\ c.ready /\ c.snapped /\ Len(Piece) # 1 /\ meta.flag # "PendingRead"
              => Resized(c).state = c.snapshot
         /\ meta.previous # 0 => /\ Resized(c).snapped = c.snapped
                                 /\ Resized(c).snapshot = c.snapshot
<1>1. CASE ~c.ready
  BY <1>1 DEF Resized, Linear
<1>2. CASE c.ready /\ (Len(Piece) = 1 \/ meta.flag = "PendingRead")
  BY <1>2 DEF Resized
<1>3. CASE c.ready /\ ~(Len(Piece) = 1 \/ meta.flag = "PendingRead") /\ meta.remove > 0
  <2> DEFINE s == IF c.snapped THEN c.snapshot ELSE <<>>
  <2>1. Resized(c) = [c EXCEPT !.state = s]
    BY <1>3 DEF Resized
  <2>2. meta.remove # 0 /\ (c.snapped => s = c.snapshot)
    BY <1>3
  <2> HIDE DEF s
  <2>3. QED
    BY <1>3, <2>1, <2>2 DEF Linear
<1>4. CASE c.ready /\ ~(Len(Piece) = 1 \/ meta.flag = "PendingRead") /\ ~(meta.remove > 0)
  <2>1. meta.remove = 0
    BY <1>4
  <2>2. CASE meta.previous = 0
    BY <1>4, <2>1, <2>2 DEF Resized, Linear
  <2>3. CASE meta.previous # 0
    BY <1>4, <2>1, <2>3 DEF Resized
  <2>4. QED
    BY <2>1, <2>2, <2>3
<1>5. QED
  BY <1>1, <1>2, <1>3, <1>4

(* What an operator starts from: the file of the prefix, nothing, or the   *)
(* state it has.                                                           *)
LEMMA ExecutedRows ==
  ASSUME NEW c \in Linear
  PROVE  /\ Executed(c).ready = c.ready
         /\ meta.flag # "PendingRead" =>
              /\ Executed(c).snapped = c.snapped /\ Executed(c).snapshot = c.snapshot
              /\ Executed(c).state = IF Len(Piece) > 1 /\ Fresh THEN <<>> ELSE c.state
         /\ meta.flag = "PendingRead" /\ Fresh /\ meta.layerIndex >= 0
            /\ disk[meta.layerIndex + 1].kind = "linear" =>
              /\ Executed(c).snapped
              /\ Executed(c).state = disk[meta.layerIndex + 1].rows
              /\ Executed(c).snapshot = disk[meta.layerIndex + 1].rows
<1> DEFINE reading == meta.flag = "PendingRead"
           zeroed == IF Len(Piece) > 1 /\ Fresh /\ ~reading THEN [c EXCEPT !.state = <<>>] ELSE c
           indexed == IF meta.flag # "NoChange" /\ Fresh
                      THEN [zeroed EXCEPT !.index = meta.layerIndex] ELSE zeroed
           file == disk[indexed.index + 1]
           s == IF file.kind = "linear" THEN file.rows ELSE <<Blank>>
           loaded == [indexed EXCEPT !.state = s]
           Fields == { "ready", "state", "snapped", "snapshot", "index" }
<1>1. Executed(c) = IF reading /\ indexed.index >= 0 THEN Snapshot(loaded) ELSE indexed
  BY DEF Executed
<1>2. /\ DOMAIN zeroed = Fields /\ zeroed = [f \in Fields |-> zeroed[f]]
      /\ zeroed.ready = c.ready /\ zeroed.snapped = c.snapped /\ zeroed.snapshot = c.snapshot
      /\ zeroed.state = IF Len(Piece) > 1 /\ Fresh /\ ~reading THEN <<>> ELSE c.state
  <2>1. CASE Len(Piece) > 1 /\ Fresh /\ ~reading
    BY <2>1 DEF Linear
  <2>2. CASE ~(Len(Piece) > 1 /\ Fresh /\ ~reading)
    BY <2>2 DEF Linear
  <2>3. QED
    BY <2>1, <2>2
<1> HIDE DEF zeroed
<1>3. /\ DOMAIN indexed = Fields /\ indexed = [f \in Fields |-> indexed[f]]
      /\ indexed.ready = c.ready /\ indexed.snapped = c.snapped
      /\ indexed.snapshot = c.snapshot /\ indexed.state = zeroed.state
      /\ meta.flag # "NoChange" /\ Fresh => indexed.index = meta.layerIndex
  <2>1. CASE meta.flag # "NoChange" /\ Fresh
    BY <1>2, <2>1
  <2>2. CASE ~(meta.flag # "NoChange" /\ Fresh)
    BY <1>2, <2>2
  <2>3. QED
    BY <2>1, <2>2
<1> HIDE DEF indexed
<1>4. /\ Snapshot(loaded).ready = c.ready /\ Snapshot(loaded).snapped
      /\ Snapshot(loaded).state = s /\ Snapshot(loaded).snapshot = s
  <2> HIDE DEF s
  <2>1. /\ DOMAIN loaded = Fields /\ loaded.ready = c.ready /\ loaded.state = s
    BY <1>3
  <2> HIDE DEF loaded
  <2>2. QED
    BY <2>1 DEF Snapshot
<1> HIDE DEF loaded
<1>5. Executed(c).ready = c.ready
  BY <1>1, <1>3, <1>4
<1>6. ~reading => /\ Executed(c).snapped = c.snapped /\ Executed(c).snapshot = c.snapshot
                  /\ Executed(c).state = IF Len(Piece) > 1 /\ Fresh THEN <<>> ELSE c.state
  BY <1>1, <1>2, <1>3
<1>7. reading /\ Fresh /\ meta.layerIndex >= 0 /\ disk[meta.layerIndex + 1].kind = "linear" =>
        /\ Executed(c).snapped
        /\ Executed(c).state = disk[meta.layerIndex + 1].rows
        /\ Executed(c).snapshot = disk[meta.layerIndex + 1].rows
  BY <1>1, <1>3, <1>4
<1>8. QED
  BY <1>5, <1>6, <1>7

(* A linear layer starts from what was told, though an erase waits: its    *)
(* snapshot is the prefix, and the resize is not spared.                   *)
LEMMA StateBefore ==
  ASSUME RInv, pc.at = "layer", pc.step \in Layer, model[pc.step] = "linear",
         NEW c, NEW resized \in BOOLEAN,
         c = IF resized THEN Resized(cache[pc.step]) ELSE cache[pc.step],
         ~resized => cache[pc.step].ready /\ Shape(Piece) = shape
  PROVE  /\ Executed(c).ready
         /\ meta.flag # "PendingWrite" => Executed(c).state = told
         /\ meta.flag # "PendingWrite" /\ session =>
              Executed(c).snapped /\ Executed(c).snapshot = prefix
<1> DEFINE l == pc.step
           k == cache[l]
<1>1. /\ k \in Linear /\ HasLinear
      /\ Len(Piece) \in Nat \ {0} /\ meta.previous \in Nat /\ meta.remove \in Nat
      /\ meta.remove <= meta.previous
      /\ told \in Seq(Int) /\ status = "RUNNING" /\ InForward /\ L \in Nat \ {0}
      /\ N \in Nat \ {0} /\ Layer = 1 .. N /\ disk \in [ Layer -> File ]
  <2>1. k \in Linear /\ HasLinear
    BY DEF RInv, Inv, Types, HasLinear
  <2>2. QED
    BY <2>1, AtLayer DEF RInv
<1>2. /\ c \in Linear /\ c.ready
  <2>1. Resized(k) \in Linear /\ Resized(k).ready
    BY <1>1, ResizedState, ResizedRows
  <2>2. QED
    BY <1>1, <2>1
<1>3. Executed(c).ready
  BY <1>2, ExecutedRows
<1>4. /\ ~Done(l) /\ (mode.on /\ mode.exist <=> Skipped)
      /\ Skipped => /\ Fresh /\ meta.flag = "PendingRead" /\ told = prefix /\ session
                    /\ meta.layerIndex = l - 1
      /\ meta.flag = "PendingRead" => Skipped
      /\ ~Skipped => meta.previous - meta.remove = Len(told)
  BY LayerNow
<1>5. ASSUME Skipped
      PROVE  Executed(c).state = told /\ Executed(c).snapped /\ Executed(c).snapshot = prefix
  <2>1. disk[l].kind = "linear" /\ disk[l].rows = prefix
    BY <1>1, <1>4, <1>5 DEF RInv, Loading, Sound
  <2>2. meta.layerIndex + 1 = l /\ meta.layerIndex >= 0
    BY <1>1, <1>4, <1>5
  <2>3. /\ Executed(c).snapped
        /\ Executed(c).state = disk[l].rows /\ Executed(c).snapshot = disk[l].rows
    BY <1>2, <1>4, <1>5, <2>1, <2>2, ExecutedRows
  <2>4. QED
    BY <1>4, <1>5, <2>1, <2>3
<1>6. ASSUME ~Skipped, meta.flag # "PendingWrite"
      PROVE  /\ Executed(c).state = told
             /\ session => Executed(c).snapped /\ Executed(c).snapshot = prefix
  <2>1. meta.flag # "PendingRead"
    BY <1>4, <1>6
  <2>2. /\ Executed(c).snapped = c.snapped /\ Executed(c).snapshot = c.snapshot
        /\ Executed(c).state = IF Len(Piece) > 1 /\ Fresh THEN <<>> ELSE c.state
    BY <1>2, <2>1, ExecutedRows
  <2>3. /\ k.snapped => k.ready
        /\ meta.remove = 0 /\ ~Fresh => k.state = told
        /\ session => k.snapped /\ k.snapshot = prefix
    BY <1>1, <1>4, <1>6 DEF RInv, StatesHeld, Loaded, Heard, Sound
  <2>4. Len(told) \in Nat /\ (Len(told) = 0 <=> told = <<>>) /\ (Fresh <=> Len(told) = 0)
    <3>1. Fresh <=> Len(told) = 0
      BY <1>1, <1>4, <1>6 DEF Fresh
    <3>2. QED
      BY <1>1, <3>1, EmptySeq
  <2>5. session => c.snapped /\ c.snapshot = prefix
    <3> SUFFICES ASSUME session PROVE c.snapped /\ c.snapshot = prefix
      OBVIOUS
    <3>1. L <= Len(told)
      BY <1>1, <1>6 DEF RInv, Beginning, Begins, Sound
    <3>2. meta.previous # 0
      BY <1>1, <1>4, <1>6, <2>4, <3>1
    <3>3. Resized(k).snapped = k.snapped /\ Resized(k).snapshot = k.snapshot
      BY <1>1, <3>2, ResizedRows
    <3>4. QED
      BY <2>3, <3>3
  <2>6. Executed(c).state = told
    <3>1. CASE Len(Piece) > 1 /\ Fresh
      BY <2>2, <2>4, <3>1
    <3>2. CASE ~(Len(Piece) > 1 /\ Fresh) /\ meta.remove = 0
      <4>1. Resized(k).state = k.state \/ (meta.previous = 0 /\ Resized(k).state = <<>>)
        BY <1>1, <3>2, ResizedRows
      <4>2. CASE ~Fresh
        <5>1. meta.previous # 0
          BY <3>2, <4>2 DEF Fresh
        <5>2. QED
          BY <2>2, <2>3, <3>2, <4>1, <4>2, <5>1
      <4>3. CASE Fresh
        <5>1. meta.previous = 0 /\ told = <<>> /\ ~(Len(Piece) > 1)
          BY <2>4, <3>2, <4>3 DEF Fresh
        <5>2. l <= l
          BY <1>1
        <5>3. k.state = <<>>
          BY <1>1, <1>6, <5>1, <5>2 DEF RInv, Inv, Empty
        <5>4. QED
          BY <2>2, <3>2, <4>1, <5>1, <5>3
      <4>4. QED
        BY <4>2, <4>3
    <3>3. CASE ~(Len(Piece) > 1 /\ Fresh) /\ meta.remove # 0
      <4>1. /\ told = <<>> \/ (session /\ told = prefix)
            /\ Len(Piece) # 1
            /\ meta.remove < meta.previous => Shape(Piece) # shape
        <5>1. meta.remove > 0
          BY <1>1, <3>3
        <5>2. QED
          BY <1>1, <5>1 DEF RInv, Erased, Sound
      <4>2. ~Fresh /\ meta.remove < meta.previous
        <5>1. Len(Piece) > 1
          <6>1. PICK n \in Nat \ {0} : n = Len(Piece)
            BY <1>1
          <6>2. n # 1
            BY <4>1, <6>1
          <6>3. n > 1
            BY <6>2
          <6>4. QED
            BY <6>1, <6>3
        <5>2. ~Fresh
          BY <3>3, <5>1
        <5>3. QED
          BY <1>1, <5>2 DEF Fresh
      <4>3. session /\ told = prefix /\ resized
        BY <2>4, <4>1, <4>2
      <4>4. Resized(k).state = k.snapshot
        BY <1>1, <2>1, <2>3, <3>3, <4>1, <4>3, ResizedRows
      <4>5. QED
        BY <2>2, <2>3, <4>2, <4>3, <4>4
    <3>4. QED
      BY <3>1, <3>2, <3>3
  <2>7. QED
    BY <2>2, <2>5, <2>6
<1>7. QED
  BY <1>3, <1>5, <1>6

(* A linear layer absorbs the piece after what was told.                   *)
LEMMA LinearStepRows ==
  ASSUME RInv, Inv', NEW resized \in BOOLEAN, LinearStep(resized)
  PROVE  RowsHeld' /\ StatesHeld' /\ Beginning' /\ Erased' /\ Loading'
<1> DEFINE l == pc.step
           c == IF resized THEN Resized(cache[l]) ELSE cache[l]
           before == Executed(c)
           after == [before EXCEPT !.state = @ \o Piece]
           saves == meta.flag = "PendingWrite" /\ after.index >= 0
           r == IF saves THEN Snapshot(after) ELSE after
           d == [disk[after.index + 1] EXCEPT !.has = Both, !.kind = "linear",
                                              !.rows = after.state, !.size = 1]
<1>1. /\ pc.at = "layer" /\ pc.step \in Layer /\ model[pc.step] = "linear" /\ NextLayer
      /\ ~resized => cache[pc.step].ready /\ Shape(Piece) = shape
      /\ UNCHANGED << model, prefix, mode, status, pieces, shape, told, session >>
      /\ IF meta.flag # "NoChange" /\ Fresh THEN AdvanceIndex ELSE UNCHANGED meta
      /\ cache[l] \in Linear
  BY DEF LinearStep, Running, RInv, Inv, Types
<1>2. /\ cache' = [cache EXCEPT ![pc.step] = r]
      /\ disk' = IF ~saves THEN disk ELSE [disk EXCEPT ![after.index + 1] = d]
  BY DEF LinearStep
<1>3. /\ before.ready
      /\ meta.flag # "PendingWrite" => before.state = told
      /\ meta.flag # "PendingWrite" /\ session => before.snapped /\ before.snapshot = prefix
  BY <1>1, StateBefore
<1>4. before \in Linear
  <2>1. /\ disk \in [ Layer -> File ] /\ Layer = 1 .. N /\ N \in Nat \ {0}
        /\ meta.layerIndex \in 0 .. N - 1
    BY <1>1, AtLayer, SMTT(30) DEF RInv
  <2>2. c \in Linear
    BY <1>1, ResizedState
  <2> HIDE DEF c
  <2>3. QED
    BY <2>1, <2>2, ExecutedState
<1> HIDE DEF before
<1>5. /\ after.ready /\ after.state = before.state \o Piece /\ after.index = before.index
      /\ after.snapped = before.snapped /\ after.snapshot = before.snapshot
      /\ DOMAIN after = { "ready", "state", "snapped", "snapshot", "index" }
  BY <1>3, <1>4 DEF Linear
<1> HIDE DEF after, d
<1>6. /\ r.ready /\ r.state = after.state /\ r.index = after.index
      /\ saves => r.snapped /\ r.snapshot = after.state
      /\ ~saves => r.snapped = after.snapped /\ r.snapshot = after.snapshot
  <2>1. CASE saves
    BY <1>5, <2>1 DEF Snapshot
  <2>2. CASE ~saves
    BY <1>5, <2>2
  <2>3. QED
    BY <2>1, <2>2
<1> HIDE DEF r
<1>7. LayerStays /\ cache'[pc.step] = r
  BY <1>1, <1>2, StaysAfter DEF RInv
<1>8. /\ N \in Nat \ {0} /\ Layer = 1 .. N /\ Layer' = Layer /\ Piece' = Piece
      /\ pc'.at = "layer" /\ pc'.step = pc.step + 1
      /\ meta'.flag = meta.flag /\ model' = model /\ told' = told
  BY <1>1, <1>7, AtLayer, NextPlace DEF RInv, LayerStays, Layer, Piece
<1>9. ASSUME meta.flag = "PendingWrite"
      PROVE  r.state = told \o Piece /\ r.index + 1 = l /\ saves
  <2>1. \A g \in Layer : g < pc.step + 1 => Holds(g, told \o Piece)'
    BY <1>8, <1>9 DEF Inv, Written
  <2>2. PICK g \in Layer : g = l
    BY <1>1
  <2>3. g < pc.step + 1
    BY <1>8, <2>2
  <2>4. cache'[g].state = told \o Piece /\ cache'[g].index = g - 1
    BY <1>1, <1>8, <2>1, <2>2, <2>3 DEF Holds
  <2>5. r.state = told \o Piece /\ r.index = g - 1
    BY <1>7, <2>2, <2>4
  <2>6. r.index >= 0 /\ r.index + 1 = l
    BY <1>8, <2>2, <2>5
  <2>7. QED
    BY <1>6, <1>9, <2>5, <2>6
<1>10. LayerHolds
  <2>1. CASE meta.flag = "PendingWrite"
    BY <1>1, <1>6, <1>7, <1>9, <2>1 DEF LayerHolds
  <2>2. CASE meta.flag # "PendingWrite"
    BY <1>1, <1>3, <1>5, <1>6, <1>7, <2>2 DEF LayerHolds
  <2>3. QED
    BY <2>1, <2>2
<1>11. LayerLeaves
  <2>1. \A g \in Layer : g # pc.step => disk'[g].rows = disk[g].rows
    <3>1. saves => after.index + 1 = l
      BY <1>6, <1>9
    <3>2. disk \in [ Layer -> File ]
      BY DEF RInv, Inv, Types
    <3>3. QED
      BY <1>2, <3>1, <3>2
  <2>2. ASSUME mode.on, mode.exist
        PROVE  disk' = disk /\ meta'.layerIndex = IF pc.step < N THEN pc.step ELSE 0
    <3>1. Skipped /\ Fresh /\ meta.flag = "PendingRead"
      BY <1>1, <2>2, LayerNow
    <3>2. AdvanceIndex /\ disk' = disk
      BY <1>1, <1>2, <3>1
    <3>3. QED
      BY <1>1, <3>1, <3>2, OwnFile
  <2>3. QED
    BY <1>1, <2>1, <2>2 DEF LayerLeaves
<1>12. QED
  BY <1>1, <1>7, <1>10, <1>11, LayerRows

(* When the files of a prefix are done with, all of it was told.           *)
LEMMA WriteEnds ==
  ASSUME Survivable, Inv, NEW late \in BOOLEAN, EndForward(late), meta.flag = "PendingWrite", meta'.flag # "PendingWrite"
  PROVE  told' = prefix
<1> DEFINE last == (pc.tail # <<>> /\ ~late) \/ late
<1>1. /\ pc.at = "layer" /\ pc.step = N + 1 /\ meta' = PlanAfter(last) /\ told' = told \o Piece
      /\ meta.inDisk \in Nat /\ (late => ~Torn) /\ last \in BOOLEAN
  BY Sizes DEF EndForward, Survivable, Inv, Types, Meta
<1>2. /\ prefix \in Seq(Int) /\ prefix # <<>> /\ pieces \in Seq(Seq(Int))
      /\ meta \in Meta /\ meta.remove <= meta.previous /\ Len(Piece) \in Nat
  <2>1. prefix # <<>>
    BY Sizes DEF Inv, Types
  <2>2. QED
    BY <1>1, <2>1, AtLayer
<1>3. Writing /\ ~pc.decoding /\ WritesPieces
  BY DEF Inv, Written
<1>4. EndsWrite(last)
  <2> HIDE DEF last
  <2>1. ~EndsLoad
    BY <1>3 DEF EndsLoad, Writing
  <2>2. PlanAfter(last).flag = IF EndsLoad \/ EndsWrite(last) THEN "NoChange" ELSE meta.flag
    BY <1>1, <1>2, PlanFacts
  <2>3. QED
    BY <1>1, <2>1, <2>2
<1>5. Len(pieces) = 1
  <2>1. Tail(pieces) = <<>> => Len(pieces) = 1
    BY <1>2, <1>3, PieceTold
  <2>2. late => Tail(pieces) = <<>>
    <3>1. ASSUME NEW l \in Layer
          PROVE  disk[l].has = Both
      <4>1. N \in Nat /\ Layer = 1 .. N
        BY Sizes DEF Inv, Types
      <4>2. l < pc.step
        BY <1>1, <4>1
      <4>3. QED
        BY <4>2 DEF Inv, Written, Holds
    <3>2. Cardinality(Layer) = N
      BY Sizes DEF Inv, Types
    <3>3. QED
      BY <1>1, <1>3, <3>1, <3>2 DEF Torn
  <2>3. QED
    BY <1>3, <1>4, <2>1, <2>2 DEF EndsWrite, WritesPieces
<1>6. QED
  BY <1>1, <1>5, WrittenWhole

(* All layers hold the piece when it is told.                              *)
LEMMA EndForwardRows ==
  ASSUME Situations = {}, RInv, Inv', NEW late \in BOOLEAN, EndForward(late)
  PROVE  RowsHeld' /\ StatesHeld' /\ Beginning' /\ Erased' /\ Loading'
<1> DEFINE decodes == pc.tail # <<>> /\ ~late
           last == decodes \/ late
<1>1. /\ pc.at = "layer" /\ pc.step = N + 1
      /\ UNCHANGED << model, prefix, disk, cache, session >>
      /\ meta' = PlanAfter(last) /\ mode' = IF EndsLoad THEN NoPrefix ELSE mode
      /\ told' = told \o Piece /\ last \in BOOLEAN
      /\ status' = IF late THEN "TIMEOUT" ELSE status
      /\ pc' = IF decodes THEN Forward(TRUE, <<>>)
               ELSE IF ~late /\ Tail(pieces) # <<>> THEN [pc EXCEPT !.step = 1]
               ELSE IF Writing THEN [at |-> "mark", step |-> 1]
               ELSE [at |-> "idle"]
  BY Sizes DEF EndForward, MarkOrIdle, RInv, Inv, Types
<1> HIDE DEF decodes, last
<1>2. /\ N \in Nat \ {0} /\ Layer = 1 .. N /\ L \in Nat \ {0} /\ prefix \in Seq(Int)
      /\ InForward /\ pc \in Going /\ Sound /\ Sound'
      /\ Piece \in Seq(Int) /\ Len(Piece) \in Nat \ {0}
      /\ meta \in Meta /\ meta.remove <= meta.previous
      /\ ~(mode.on /\ mode.call = 0) /\ told \in Seq(Int) /\ Len(told) \in Nat
  BY <1>1, AtLayer, LenProperties DEF RInv, Sound
<1>3. Layer' = Layer /\ N' = N /\ L' = L /\ HasLinear' = HasLinear
  BY <1>1 DEF Layer, N, L, HasLinear
<1>4. meta'.remove = 0 /\ (meta'.flag = "NoChange" \/ meta'.flag = meta.flag)
  BY <1>1, <1>2, PlanFacts
<1>5. pc'.at \in {"layer", "mark", "idle"} /\ (pc'.at = "layer" => pc'.step = 1)
  <2>1. CASE decodes
    BY <1>1, <2>1 DEF Forward
  <2>2. CASE ~decodes /\ ~late /\ Tail(pieces) # <<>>
    BY <1>1, <1>2, <2>2 DEF Going
  <2>3. CASE ~decodes /\ (late \/ Tail(pieces) = <<>>)
    BY <1>1, <2>3
  <2>4. QED
    BY <2>1, <2>2, <2>3
<1>6. ~Skipped' /\ ~(mode'.on /\ mode'.exist)
  <2>1. CASE EndsLoad
    BY <1>1, <2>1 DEF NoPrefix, Skipped
  <2>2. CASE ~EndsLoad
    <3>1. ~Skipped
      <4>1. Skipped => mode.call = 2 /\ mode.on
        BY <1>2 DEF RInv, Loading, Skipped
      <4>2. Skipped /\ mode.call # 1 => ~pc.decoding
        BY <1>2 DEF RInv, Inv, Counts, Sound
      <4>3. QED
        BY <2>2, <4>1, <4>2 DEF EndsLoad
    <3>2. QED
      BY <1>1, <1>2, <2>2, <3>1 DEF Skipped
  <2>3. QED
    BY <2>1, <2>2
<1>7. meta'.previous = Len(told') /\ Len(told') = Len(told) + Len(Piece) /\ told' \in Seq(Int)
  <2>1. meta'.previous - meta'.remove = Len(told')
    BY <1>1, <1>2, <1>6 DEF Inv, Counts
  <2>2. meta'.previous \in Nat
    BY DEF Inv, Types, Meta
  <2>3. Len(told') = Len(told) + Len(Piece) /\ told' \in Seq(Int)
    BY <1>1, <1>2, ConcatProperties
  <2>4. QED
    BY <1>4, <2>1, <2>2, <2>3
<1>8. ASSUME NEW l \in Layer
      PROVE  /\ Done(l) /\ Heard(l) = told' /\ Loaded(l) /\ ~Done(l)' /\ Heard(l)' = told'
             /\ Held(l)' = Held(l)
  <2>1. Done(l)
    BY <1>1, <1>2 DEF Done
  <2>2. ~Done(l)'
    <3>1. ~(l < 1)
      BY <1>2
    <3>2. QED
      BY <1>5, <3>1 DEF Done, InForward
  <2>3. Content(l)' = Content(l)
    BY <1>1, <1>5 DEF Content
  <2>4. QED
    BY <1>1, <2>1, <2>2, <2>3 DEF Heard, Loaded, Held
<1>9. meta.flag = "PendingWrite" /\ meta'.flag # "PendingWrite" => told' = prefix
  BY WriteEnds DEF RInv, Survivable
<1>10. RowsHeld'
  <2> SUFFICES ASSUME NEW l \in Layer, model[l] = "attention"
               PROVE  cache[l].past = meta'.previous /\ Kept(Held(l), Len(told')) = told'
    BY <1>1, <1>3, <1>8 DEF RowsHeld, Current
  <2>1. cache[l].past = Len(told) + Len(Piece) /\ Kept(Held(l), Len(told')) = told'
    BY <1>2, <1>8 DEF RInv, RowsHeld, Current
  <2>2. QED
    BY <1>7, <2>1
<1>11. StatesHeld'
  <2> SUFFICES ASSUME NEW l \in Layer, model[l] = "linear"
               PROVE  /\ cache[l].snapped => cache[l].ready
                      /\ cache[l].state = told'
                      /\ session => /\ cache[l].snapped
                                    /\ cache[l].snapshot = IF meta'.flag = "PendingWrite" THEN told'
                                                           ELSE prefix
    BY <1>1, <1>3, <1>8 DEF StatesHeld
  <2>1. /\ cache[l].snapped => cache[l].ready
        /\ cache[l].state = told'
        /\ session => IF meta.flag = "PendingWrite"
                      THEN cache[l].snapped /\ cache[l].snapshot = told'
                      ELSE cache[l].snapped /\ cache[l].snapshot = prefix
    BY <1>2, <1>8 DEF RInv, StatesHeld
  <2>2. QED
    BY <1>4, <1>9, <2>1
<1>12. Beginning'
  <2> SUFFICES ASSUME session, meta'.flag # "PendingWrite" PROVE Begins(told')
    BY <1>1, <1>3 DEF Beginning, Begins
  <2>1. CASE meta.flag = "PendingWrite"
    BY <1>2, <1>9, <2>1 DEF Begins, L
  <2>2. CASE meta.flag # "PendingWrite"
    <3>1. Begins(told) /\ L <= Len(told)
      BY <1>2, <2>2 DEF RInv, Beginning, Begins
    <3>2. Kept(told, Len(told)) = told
      BY <1>2, KeptAll
    <3>3. Begins(Kept(told, Len(told)) \o Piece)
      BY <1>2, <3>1, AppendBegins
    <3>4. QED
      BY <1>1, <3>2, <3>3
  <2>3. QED
    BY <2>1, <2>2
<1>13. Erased' /\ Loading'
  BY <1>4, <1>6 DEF Erased, Loading
<1>14. QED
  BY <1>10, <1>11, <1>12, <1>13

-----------------------------------------------------------------------------
(* The theorem.                                                            *)

(* What the layers hold stays right with every step.                       *)
LEMMA RInvNext ==
  ASSUME Situations = {}, RInv, [Next]_vars
  PROVE  RInv'
<1>1. Inv'
  BY InvNext DEF RInv, Survivable
<1>2. RowsHeld' /\ StatesHeld' /\ Beginning' /\ Erased' /\ Loading'
  <2>1. CASE Restart
    BY <2>1, RestartRows DEF RInv
  <2>2. CASE SetPrefixCacheFile
    BY <2>2, SetPrefixCacheFileRows
  <2>3. CASE Clean
    BY <2>3, CleanRows
  <2>4. CASE \E tail \in { <<>>, <<Generated>> } : FirstPrompt(tail)
    BY <2>4, FirstPromptRows
  <2>5. CASE SkipPrompt
    BY <2>5, SkipPromptRows
  <2>6. CASE \E ids \in Messages : Prompt(ids)
    BY <2>6, PromptRows
  <2>7. CASE Decode
    BY <2>7, DecodeRows
  <2>8. CASE \E begin \in 0 .. MaxTold : EraseHistory(begin)
    BY <2>8, EraseHistoryRows, EraseFailedRows
  <2>9. CASE LoadPrefix
    BY <1>1, <2>9, LoadPrefixRows
  <2>10. CASE SharePrefix
    BY <1>1, <2>10, SharePrefixRows
  <2>11. CASE StartRows
    BY <1>1, <2>11, StartRowsRows
  <2>12. CASE AppendRows
    BY <1>1, <2>12, AppendRowsRows
  <2>13. CASE GrowFile
    BY <2>13, GrowFileRows
  <2>14. CASE CopyBack
    BY <2>14, CopyBackRows
  <2>15. CASE \E resized \in BOOLEAN : LinearStep(resized)
    BY <1>1, <2>15, LinearStepRows
  <2>16. CASE \E late \in BOOLEAN : EndForward(late)
    BY <1>1, <2>16, EndForwardRows
  <2>17. CASE Mark
    BY <2>17, MarkRows
  <2>18. CASE FailForward
    BY <2>18, FailForwardRows
  <2>19. CASE UNCHANGED vars
    BY <2>19, StutterRows
  <2>20. QED
    BY <2>1, <2>2, <2>3, <2>4, <2>5, <2>6, <2>7, <2>8, <2>9, <2>10, <2>11, <2>12, <2>13,
       <2>14, <2>15, <2>16, <2>17, <2>18, <2>19 DEF Next
<1>3. QED
  BY <1>1, <1>2 DEF RInv

(* Between calls the layers hold what the caller was told.                 *)
LEMMA HeldIsTold ==
  ASSUME RInv
  PROVE  RowsMatch
<1> SUFFICES ASSUME pc.at = "idle", Sound, ~(mode.on /\ mode.call = 1 /\ mode.exist)
             PROVE  /\ meta.previous - meta.remove = Len(told)
                    /\ \A l \in Layer :
                         IF model[l] = "attention"
                         THEN /\ Kept(Rows(l), Len(told)) = told
                              /\ cache[l].past = meta.previous
                         ELSE meta.remove = 0 => cache[l].state = told
  BY DEF RowsMatch, Failed, Sound
<1>1. /\ ~InForward /\ meta.previous - meta.remove = IF Skipped THEN 0 ELSE Len(told)
      /\ \A l \in Layer : ~Done(l) /\ Content(l) = disk[l].rows
  BY QuietFacts
<1>2. ~Skipped
  BY <1>1 DEF RInv, Inv, Counts, Skipped, Sound
<1>3. ASSUME NEW l \in Layer, model[l] = "attention"
      PROVE  Kept(Rows(l), Len(told)) = told /\ cache[l].past = meta.previous
  <2>1. cache[l].past = meta.previous /\ Kept(Held(l), Len(told)) = told
    BY <1>1, <1>2, <1>3 DEF RInv, RowsHeld, Current, Heard, Loaded
  <2>2. cache[l].file \in {0, l}
    <3>1. cache[l] \in Attention(l)
      BY <1>3 DEF RInv, Inv, Types
    <3>2. QED
      BY <3>1 DEF Attention
  <2>3. Rows(l) = Held(l)
    BY <1>1, <2>2 DEF Rows, Held
  <2>4. QED
    BY <2>1, <2>3
<1>4. ASSUME NEW l \in Layer, model[l] # "attention", meta.remove = 0
      PROVE  cache[l].state = told
  <2>1. model[l] = "linear"
    BY <1>4, Sizes DEF RInv, Inv, Types
  <2>2. QED
    BY <1>1, <1>2, <1>4, <2>1 DEF RInv, StatesHeld, Heard, Loaded
<1>5. QED
  BY <1>1, <1>2, <1>3, <1>4

(* Between calls every layer holds the caller's history, computed, loaded  *)
(* from the files or restored after an erase, for any models, prompts and  *)
(* sizes of chunks, where callers keep to what the code survives.          *)
THEOREM RowsMatchCorrect ==
  ASSUME Situations = {}
  PROVE  Spec => []RowsMatch
<1>1. Init => RInv
  <2> SUFFICES ASSUME Init PROVE RInv
    OBVIOUS
  <2>1. Inv
    BY InvInit
  <2>2. RowsHeld /\ StatesHeld /\ Beginning /\ Erased /\ Loading
    BY NothingHeld DEF Init
  <2>3. QED
    BY <2>1, <2>2 DEF RInv
<1>2. RInv /\ [Next]_vars => RInv'
  BY RInvNext
<1>3. RInv => RowsMatch
  BY HeldIsTold
<1>4. QED
  BY <1>1, <1>2, <1>3, PTL DEF Spec

=============================================================================
