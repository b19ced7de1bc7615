-------------------------- MODULE GenerationProofs --------------------------
(***************************************************************************)
(* Proofs about Generation, for any tokens, prompts, block size and number *)
(* of drafts.                                                              *)
(*                                                                         *)
(* First the bookkeeping, in every situation: types, positions, counts and *)
(* the status.  The model predicts tokens (PredictsTokens); nothing else   *)
(* is assumed about it.                                                    *)
(*                                                                         *)
(* Then the text: it is the greedy continuation of the prompt, the rows    *)
(* kept are those of the text, and nothing follows a stop token.  It is    *)
(* greedy unless lookahead works on padded blocks; the rows and the stop   *)
(* tokens are right when, moreover, lookahead always finds a token to      *)
(* start from.  Each condition is needed: TLC finds a counterexample       *)
(* without it.                                                             *)
(***************************************************************************)
EXTENDS Generation, SequenceTheorems, WellFoundedInduction, TLAPS

(* The network and the sampler return a token.                             *)
PredictsTokens == \A rows \in Seq(Token) : Predict(rows) \in Token

-----------------------------------------------------------------------------
(* The inductive invariant.                                                *)

Call ==
  [ pieces : Seq(Seq(Token)), outer : BOOLEAN, size : Nat, blocks : Nat,
    drafts : Seq(Token), len : Nat, max : Nat ]

Types ==
  /\ strategy \in {"ar", "lookahead"}
  /\ stored \in Seq(Token) /\ kept \in Seq(Token)
  /\ allSeqLen \in Int /\ genSeqLen \in Nat
  /\ output \in Seq(Token) /\ current \in Token \cup {NoToken}
  /\ status \in Errors \cup {"RUNNING", "NORMAL_FINISHED", "MAX_TOKENS_FINISHED"}
  /\ logits \in Seq(Token) /\ valid \in Nat
  /\ pc \in {"idle", "prefill", "loop", "forward", "draft", "verify"}
  /\ call \in Call
  /\ base # None => base \in Seq(Token)
  /\ lost \in BOOLEAN

(* The pieces of a prompt that is not split further: full blocks, then     *)
(* what the size leaves for the last one.                                  *)
PiecesAddUp(pieces, size, blocks) ==
  /\ \A i \in 1 .. Len(pieces) - 1 : Len(pieces[i]) = BlockSize
  /\ size = BlockSize * (blocks + Len(pieces) - 1) + Len(pieces[Len(pieces)])

Prefilling ==
  pc = "prefill" =>
    /\ base = None /\ output = << >> /\ current = NoToken
    /\ call.pieces # << >>
    /\ \A i \in 1 .. Len(call.pieces) : call.pieces[i] # << >>
    /\ IF call.outer THEN call.blocks = 0
       ELSE PiecesAddUp(call.pieces, call.size, call.blocks)

(* There is a token to go on from.                                         *)
Ready ==
  /\ (base # None /\ ~lost /\ status # "INTERNAL_ERROR") => valid \in 1 .. Len(logits)
  /\ pc = "loop" /\ strategy = "lookahead" => current \in Token
  /\ pc = "forward" => strategy = "ar" /\ current \in Token
  /\ pc \in {"draft", "verify"} => strategy = "lookahead" /\ call.drafts # << >>
  /\ pc = "verify" => /\ stored = kept
                      /\ Len(call.drafts) <= Len(kept)
                      /\ Len(call.drafts) <= Len(logits)
  /\ pc \in {"loop", "forward", "draft", "verify"} => base # None

(* An engine at work is in no error state, but for outputs that could not  *)
(* be read.                                                                *)
AtWork ==
  /\ pc \in {"prefill", "forward", "draft", "verify"} => Running /\ ~lost
  /\ pc = "loop" => IF lost THEN strategy = "ar" /\ status = "INTERNAL_ERROR" ELSE Running

Positions ==
  ~lost => allSeqLen = IF pc = "verify" THEN Len(kept) - Len(call.drafts)
                                        ELSE Len(kept)

Counts ==
  \/ genSeqLen = Len(output) + (IF pc \in {"draft", "verify"} THEN 1 ELSE 0)
  \/ pc = "idle" /\ status = "INTERNAL_ERROR"

Inv == Types /\ Prefilling /\ Ready /\ AtWork /\ Positions /\ Counts

-----------------------------------------------------------------------------
(* The pieces of a prompt.                                                 *)

(* Multiplication by a natural number is monotonic.                        *)
LEMMA Multiples ==
  ASSUME NEW i \in Int, NEW j \in Int, NEW b \in Nat, i <= j
  PROVE  i * b \in Int /\ j * b \in Int /\ i * b <= j * b
<1> DEFINE d == j - i
<1>1. d \in Nat /\ j = i + d
  OBVIOUS
<1>2. (i + d) * b = i * b + d * b /\ i * b \in Int
  BY <1>1
<1>3. d * b \in Nat
  BY <1>1
<1> HIDE DEF d
<1>4. QED
  BY <1>1, <1>2, <1>3

(* The number of blocks a prompt fills or begins.                          *)
LEMMA BlocksOf ==
  ASSUME NEW len \in Nat \ {0}, NEW b \in Nat \ {0},
         NEW n, n = (len + b - 1) \div b
  PROVE  n \in Nat \ {0} /\ (n - 1) * b < len /\ len <= n * b
<1>1. PICK x \in Nat : x = len + b - 1
  OBVIOUS
<1>2. n \in Int /\ b * n <= x /\ x < b * n + b
  BY <1>1, SMTT(30)
<1>3. n * b = b * n /\ b * n \in Int
  BY <1>2
<1>4. (n - 1) * b = n * b - b
  BY <1>2
<1>5. (n - 1) * b < len /\ len <= n * b
  BY <1>1, <1>2, <1>3, <1>4
<1>6. n > 0
  <2> SUFFICES ASSUME n <= 0 PROVE FALSE
    BY <1>2
  <2>1. n * b <= 0 * b
    BY <1>2, Multiples
  <2>2. QED
    BY <1>3, <1>5, <2>1
<1>7. QED
  BY <1>2, <1>5, <1>6

(* All pieces but the last are full, none is empty and none is left out.   *)
LEMMA PiecesOf ==
  ASSUME NEW ids \in Seq(Token), ids # << >>
  PROVE  /\ Pieces(ids) \in Seq(Seq(Token)) /\ Pieces(ids) # << >>
         /\ \A i \in 1 .. Len(Pieces(ids)) : Pieces(ids)[i] # << >>
         /\ PiecesAddUp(Pieces(ids), Len(ids), 0)
<1>1. BlockSize \in Nat /\ Len(ids) \in Nat \ {0}
  BY GenerationAssumption
<1>2. CASE BlockSize = 0
  <2>1. Pieces(ids) = << ids >>
    BY <1>2 DEF Pieces
  <2>2. << ids >> \in Seq(Seq(Token)) /\ Len(<< ids >>) = 1 /\ << ids >>[1] = ids
    OBVIOUS
  <2>3. PiecesAddUp(<< ids >>, Len(ids), 0)
    BY <1>1, <1>2, <2>2 DEF PiecesAddUp
  <2>4. QED
    BY <2>1, <2>2, <2>3
<1>3. CASE BlockSize # 0
  <2> DEFINE L == Len(ids)
             B == BlockSize
             n == (L + B - 1) \div B
             last(i) == IF i * B > L THEN L ELSE i * B
             piece(i) == SubSeq(ids, (i - 1) * B + 1, last(i))
             p == [ i \in 1 .. n |-> piece(i) ]
  <2>1. Pieces(ids) = p
    BY <1>3 DEF Pieces
  <2>2. n \in Nat \ {0} /\ (n - 1) * B < L /\ L <= n * B
    BY <1>1, <1>3, BlocksOf
  <2>3. L \in Nat \ {0} /\ B \in Nat \ {0}
    BY <1>1, <1>3
  <2> HIDE DEF n
  <2>4. ASSUME NEW i \in 1 .. n
        PROVE  /\ piece(i) \in Seq(Token) /\ piece(i) # << >>
               /\ Len(piece(i)) = IF i < n THEN B ELSE L - (n - 1) * B
    <3>1. i * B \in Int /\ (i - 1) * B \in Int /\ n * B \in Int /\ (n - 1) * B \in Int
      BY <2>2, <2>3
    <3>2. (i - 1) * B = i * B - B
      BY <2>3
    <3>3. 0 * B <= (i - 1) * B /\ (i - 1) * B <= (n - 1) * B
      BY <2>2, <2>3, Multiples
    <3>4. i < n => i * B <= (n - 1) * B
      BY <2>2, <2>3, Multiples
    <3>5. last(i) = IF i < n THEN i * B ELSE L
      <4>1. CASE i < n
        BY <2>2, <2>3, <3>1, <3>4, <4>1
      <4>2. CASE i = n
        BY <2>2, <2>3, <3>1, <4>2
      <4>3. QED
        BY <2>2, <4>1, <4>2
    <3> DEFINE from == (i - 1) * B + 1
               to == last(i)
    <3>6. from \in 1 .. L + 1 /\ to \in 0 .. L /\ from <= to
          /\ to - from + 1 = (IF i < n THEN B ELSE L - (n - 1) * B)
      <4>1. CASE i < n
        BY <2>2, <2>3, <3>1, <3>2, <3>3, <3>4, <3>5, <4>1
      <4>2. CASE i = n
        <5>1. from = (n - 1) * B + 1 /\ to = L /\ 0 * B = 0
          BY <2>3, <3>5, <4>2
        <5> HIDE DEF from, to
        <5>2. 0 <= (n - 1) * B
          BY <3>3, <4>2, <5>1
        <5>3. PICK k \in Int : k = (n - 1) * B
          BY <3>1
        <5>4. 0 <= k /\ k < L /\ from = k + 1 /\ to = L /\ L \in Nat
          BY <2>2, <2>3, <5>1, <5>2, <5>3
        <5>5. to - from + 1 = L - k /\ ~(i < n)
          BY <4>2, <5>3, <5>4
        <5>6. QED
          BY <5>3, <5>4, <5>5, SMTT(30)
      <4>3. QED
        BY <2>2, <4>1, <4>2
    <3>7. piece(i) = SubSeq(ids, from, to)
      OBVIOUS
    <3> HIDE DEF from, to, piece
    <3>8. /\ SubSeq(ids, from, to) \in Seq(Token)
          /\ Len(SubSeq(ids, from, to)) = to - from + 1
      BY <3>6, SubSeqProperties
    <3>9. to - from + 1 # 0
      BY <3>6
    <3>10. Len(<< >>) = 0
      OBVIOUS
    <3>11. QED
      BY <3>6, <3>7, <3>8, <3>9, <3>10
  <2> HIDE DEF L, B, piece
  <2>5. p \in Seq(Seq(Token)) /\ Len(p) = n /\ \A i \in 1 .. n : p[i] = piece(i)
    BY <2>2, <2>4
  <2> HIDE DEF p
  <2>6. PiecesAddUp(p, L, 0)
    <3>1. \A i \in 1 .. Len(p) - 1 : Len(p[i]) = B
      BY <2>2, <2>4, <2>5
    <3>2. Len(p[n]) = L - (n - 1) * B
      BY <2>2, <2>4, <2>5
    <3>3. B * (0 + n - 1) = (n - 1) * B /\ (n - 1) * B \in Int
      BY <2>2, <2>3
    <3>4. L = B * (0 + n - 1) + Len(p[n])
      BY <2>3, <3>2, <3>3
    <3>5. QED
      BY <2>5, <3>1, <3>4 DEF PiecesAddUp, B
  <2>7. p # << >> /\ \A i \in 1 .. Len(p) : p[i] # << >>
    BY <2>2, <2>4, <2>5
  <2>8. QED
    BY <2>1, <2>5, <2>6, <2>7 DEF L
<1>4. QED
  BY <1>2, <1>3

-----------------------------------------------------------------------------
(* What a forward computes and what a removal leaves.                      *)

(* What SubSeq takes from the start.                                       *)
LEMMA PrefixOf ==
  ASSUME NEW s \in Seq(Token), NEW n \in 0 .. Len(s)
  PROVE  /\ SubSeq(s, 1, n) \in Seq(Token)
         /\ Len(SubSeq(s, 1, n)) = n
         /\ \A i \in 1 .. n : SubSeq(s, 1, n)[i] = s[i]
<1>1. Len(s) \in Nat
  BY LenProperties
<1>2. \A i \in 1 .. n : s[i] \in Token
  BY <1>1, ElementOfSeq
<1>3. QED
  BY <1>1, <1>2, SubSeqProperties

(* One prediction per row that is asked for, each of what comes before it. *)
LEMMA OutputsOf ==
  ASSUME PredictsTokens, kept \in Seq(Token),
         NEW toks \in Seq(Token), toks # << >>,
         NEW all \in BOOLEAN, NEW junk \in Seq(Token)
  PROVE  /\ Outputs(toks, all, junk) \in Seq(Token)
         /\ IF all \/ junk # << >>
            THEN /\ Len(Outputs(toks, all, junk)) = Len(toks) + Len(junk)
                 /\ \A i \in 1 .. Len(toks) :
                      Outputs(toks, all, junk)[i] = Predict(kept \o SubSeq(toks, 1, i))
            ELSE /\ Len(Outputs(toks, all, junk)) = 1
                 /\ Outputs(toks, all, junk)[1] = Predict(kept \o toks)
<1> DEFINE rows == Predictions(toks)
           n == Len(toks)
           out == Outputs(toks, all, junk)
<1>1. n \in Nat \ {0} /\ Len(junk) \in Nat
  BY EmptySeq, LenProperties
<1>2. ASSUME NEW i \in 1 .. n
      PROVE  Predict(kept \o SubSeq(toks, 1, i)) \in Token
  <2>1. i \in 0 .. n
    BY <1>1
  <2>2. SubSeq(toks, 1, i) \in Seq(Token)
    BY <2>1, PrefixOf
  <2>3. QED
    BY <2>2, ConcatProperties DEF PredictsTokens
<1>3. rows \in [ 1 .. n -> Token ]
  BY <1>2 DEF Predictions
<1>4. rows \in Seq(Token)
  BY <1>1, <1>3, SeqDef
<1>5. Len(rows) = n
  <2>1. DOMAIN rows = 1 .. n /\ DOMAIN rows = 1 .. Len(rows) /\ Len(rows) \in Nat
    BY <1>3, <1>4, LenProperties
  <2>2. QED
    BY <1>1, <2>1
<1>6. \A i \in 1 .. n : rows[i] = Predict(kept \o SubSeq(toks, 1, i))
  BY DEF Predictions
<1>7. SubSeq(toks, 1, n) = toks
  BY SubSeqFull
<1>8. out = IF all \/ junk # << >> THEN rows \o junk ELSE << rows[n] >>
  BY <1>5 DEF Outputs
<1> HIDE DEF rows, n, out
<1>9. CASE all \/ junk # << >>
  <2>1. /\ rows \o junk \in Seq(Token)
        /\ Len(rows \o junk) = n + Len(junk)
        /\ \A i \in 1 .. n : (rows \o junk)[i] = rows[i]
    <3>1. \A i \in 1 .. n : i \in 1 .. n + Len(junk) /\ i <= n
      BY <1>1
    <3>2. QED
      BY <1>4, <1>5, <3>1, ConcatProperties
  <2>2. QED
    BY <1>6, <1>8, <1>9, <2>1 DEF out, n
<1>10. CASE ~(all \/ junk # << >>)
  <2>1. n \in 1 .. n
    BY <1>1
  <2>2. rows[n] \in Token /\ rows[n] = Predict(kept \o toks)
    BY <1>3, <1>6, <1>7, <2>1
  <2>3. << rows[n] >> \in Seq(Token) /\ Len(<< rows[n] >>) = 1 /\ << rows[n] >>[1] = rows[n]
    BY <2>2
  <2>4. QED
    BY <1>8, <1>10, <2>2, <2>3 DEF out
<1>11. QED
  BY <1>9, <1>10

(* Bounded sequences of tokens are sequences of tokens.                    *)
LEMMA SomeTokens ==
  ASSUME NEW n \in Nat, NEW s \in SeqsUpTo(Token, n)
  PROVE  s \in Seq(Token)
<1>1. PICK m \in 0 .. n : s \in [ 1 .. m -> Token ]
  BY DEF SeqsUpTo
<1>2. m \in Nat
  OBVIOUS
<1>3. QED
  BY <1>1, <1>2, SeqDef

(* What an unreadable output may hold is a sequence of tokens.             *)
LEMMA JunkTokens ==
  ASSUME NEW junk \in Junk
  PROVE  junk \in Seq(Token)
<1>1. << >> \in Seq(Token)
  OBVIOUS
<1>2. QED
  BY <1>1, SomeTokens DEF Junk

(* A forward appends its rows to the kept ones.                            *)
LEMMA ForwardAppends ==
  ASSUME kept \in Seq(Token), NEW toks \in Seq(Token), Conv!Forward(toks)
  PROVE  /\ toks # << >>
         /\ kept' \in Seq(Token) /\ stored' = kept' /\ kept' = kept \o toks
         /\ Len(kept') = Len(kept) + Len(toks)
BY ConcatProperties DEF Conv!Forward

(* Removing what comes behind the first n rows keeps these.                *)
LEMMA ErasesSuffix ==
  ASSUME stored \in Seq(Token), NEW n \in Int, n >= 0, Conv!Erase(n, Len(stored))
  PROVE  /\ n < Len(stored) /\ stored' = stored
         /\ kept' = SubSeq(stored, 1, n)
         /\ kept' \in Seq(Token) /\ Len(kept') = n
<1>1. Len(stored) \in Nat
  BY LenProperties
<1>2. /\ n < Len(stored) /\ stored' = stored
      /\ kept' = SubSeq(stored, 1, n) \o SubSeq(stored, Len(stored) + 1, Len(stored))
  BY DEF Conv!Erase
<1>3. SubSeq(stored, Len(stored) + 1, Len(stored)) = << >>
  BY <1>1, SubSeqEmpty
<1>4. n \in 0 .. Len(stored)
  BY <1>1, <1>2
<1>5. SubSeq(stored, 1, n) \in Seq(Token) /\ Len(SubSeq(stored, 1, n)) = n
  BY <1>4, PrefixOf
<1>6. QED
  BY <1>2, <1>3, <1>5, ConcatEmptySeq

-----------------------------------------------------------------------------
(* Where the verification of drafts ends.                                  *)

(* A set of naturals that is not empty has a least member.                 *)
LEMMA Least ==
  ASSUME NEW S \in SUBSET Nat, S # {}
  PROVE  \E k \in S : \A l \in S : k <= l
<1> DEFINE Less == { p \in Nat \X Nat : p[1] < p[2] }
<1>1. IsWellFoundedOn(Less, Nat)
  BY NatLessThanWellFounded DEF OpToRel
<1>2. PICK k \in S : \A l \in S : << l, k >> \notin Less
  <2> HIDE DEF Less
  <2>1. QED
    BY <1>1, WFMin
<1>3. ASSUME NEW l \in S
      PROVE  k <= l
  <2>1. k \in Nat /\ l \in Nat
    OBVIOUS
  <2>2. l < k => << l, k >> \in Less
    BY <2>1
  <2>3. QED
    BY <1>2, <2>1, <2>2
<1>4. QED
  BY <1>3

(* It ends at the first draft that is refused, or at the last one.         *)
LEMMA LoopEndIsFirst ==
  ASSUME call.drafts \in Seq(Token), call.drafts # << >>
  PROVE  /\ LoopEnd \in 1 .. Len(call.drafts)
         /\ LoopEnd < Len(call.drafts) =>
              IsStop(Prediction(LoopEnd))
                \/ Prediction(LoopEnd) # call.drafts[LoopEnd + 1]
         /\ \A j \in 1 .. LoopEnd - 1 :
              ~IsStop(Prediction(j)) /\ Prediction(j) = call.drafts[j + 1]
<1> DEFINE n == Len(call.drafts)
           Ends(i) == i < n => IsStop(Prediction(i)) \/ Prediction(i) # call.drafts[i + 1]
           Goes(j) == ~IsStop(Prediction(j)) /\ Prediction(j) = call.drafts[j + 1]
           S == { i \in 1 .. n : Ends(i) }
<1>1. n \in Nat \ {0}
  BY EmptySeq, LenProperties
<1>2. n \in S
  BY <1>1
<1>3. PICK k \in S : \A l \in S : k <= l
  <2>1. S \in SUBSET Nat /\ S # {}
    BY <1>1, <1>2
  <2> HIDE DEF S
  <2>2. QED
    BY <2>1, Least
<1>4. k \in 1 .. n /\ Ends(k)
  OBVIOUS
<1>5. \A j \in 1 .. k - 1 : Goes(j)
  <2> SUFFICES ASSUME NEW j \in 1 .. k - 1
               PROVE  Goes(j)
    OBVIOUS
  <2>1. j \in 1 .. n /\ j < n /\ ~(k <= j)
    BY <1>1, <1>4
  <2>2. j \notin S
    BY <1>3, <2>1
  <2>3. QED
    BY <2>1, <2>2
<1>6. LoopEnd = CHOOSE i \in 1 .. n : Ends(i) /\ \A j \in 1 .. i - 1 : Goes(j)
  BY DEF LoopEnd, FirstThat
<1>7. LoopEnd \in 1 .. n /\ Ends(LoopEnd) /\ \A j \in 1 .. LoopEnd - 1 : Goes(j)
  <2> HIDE DEF n, Ends, Goes
  <2>1. QED
    BY <1>4, <1>5, <1>6
<1>8. QED
  BY <1>7

-----------------------------------------------------------------------------
(* The callers' steps keep the invariant.                                  *)

(* The call record between calls has its type.                             *)
LEMMA NoCallType == NoCall \in Call
BY DEF NoCall, Call

(* An empty call of a given maximum, at the top of the loop.               *)
LEMMA LoopCall ==
  ASSUME NEW max \in Nat
  PROVE  [ NoCall EXCEPT !.max = max ] \in Call
BY NoCallType DEF Call

(* Before the first call nothing is counted.                               *)
LEMMA InvInit == Init => Inv
<1> SUFFICES ASSUME Init
             PROVE  Inv
  OBVIOUS
<1>1. Types
  <2>1. << >> \in Seq(Token) /\ 0 \in Nat /\ 0 \in Int /\ 1 \in Nat
    OBVIOUS
  <2>2. QED
    BY <2>1, NoCallType DEF Init, Conv!Init, Types
<1>2. QED
  BY <1>1 DEF Init, Conv!Init, Inv, Prefilling, Ready, AtWork, Positions, Counts

(* A response starts with its prompt cut in pieces that add up.            *)
LEMMA RespondInv ==
  ASSUME Inv,
         NEW ids \in Prompts, NEW max \in 0 .. MaxNew,
         NEW multimodal \in BOOLEAN, NEW reuseKV \in BOOLEAN,
         Respond(ids, max, multimodal, reuseKV)
  PROVE  Inv'
<1> DEFINE outer == ~multimodal /\ Len(Pieces(ids)) > 1
           pieces == Pieces(ids)
           new == [ NoCall EXCEPT !.pieces = pieces, !.outer = outer,
                                  !.size = Len(ids), !.max = max ]
<1>1. /\ pc' = "prefill" /\ call' = new /\ base' = None
      /\ ~lost /\ pc = "idle" /\ UNCHANGED << strategy, lost >>
      /\ genSeqLen' = 0 /\ output' = << >> /\ current' = NoToken
      /\ status' = "RUNNING" /\ logits' = << >> /\ valid' = 1
      /\ \/ UNCHANGED << stored, kept, allSeqLen >>
         \/ kept' = << >> /\ stored' = stored /\ allSeqLen' = 0
  BY DEF Respond, Conv!Clear, Idle, history
<1>2. Types /\ Positions
  BY DEF Inv
<1>3. /\ ids \in Seq(Token) /\ ids # << >> /\ Len(ids) \in Nat
      /\ max \in Nat
  BY GenerationAssumption, LenProperties
<1>4. /\ pieces \in Seq(Seq(Token)) /\ pieces # << >>
      /\ \A i \in 1 .. Len(pieces) : pieces[i] # << >>
      /\ PiecesAddUp(pieces, Len(ids), 0)
  BY <1>3, PiecesOf
<1>5. outer \in BOOLEAN
  OBVIOUS
<1> HIDE DEF outer, pieces
<1>6. /\ new \in Call /\ new.pieces = pieces /\ new.outer = outer
      /\ new.size = Len(ids) /\ new.blocks = 0
  BY <1>3, <1>4, <1>5, NoCallType DEF NoCall, Call
<1> HIDE DEF new
<1>7. Types'
  <2>1. << >> \in Seq(Token) /\ 0 \in Nat /\ 0 \in Int /\ 1 \in Nat
    OBVIOUS
  <2>2. /\ kept' \in Seq(Token) /\ stored' \in Seq(Token)
        /\ output' \in Seq(Token) /\ logits' \in Seq(Token)
        /\ allSeqLen' \in Int /\ genSeqLen' \in Nat /\ valid' \in Nat
    BY <1>1, <1>2, <2>1 DEF Types
  <2>3. QED
    BY <1>1, <1>2, <1>6, <2>2 DEF Types
<1>8. Prefilling'
  BY <1>1, <1>4, <1>6 DEF Prefilling
<1>9. Positions'
  BY <1>1, <1>2 DEF Positions
<1>10. Ready' /\ AtWork' /\ Counts'
  BY <1>1 DEF Ready, AtWork, Running, Errors, Counts
<1>11. QED
  BY <1>7, <1>8, <1>9, <1>10 DEF Inv

(* Entering the loop, lookahead takes its first token from the logits.     *)
LEMMA EnterLoopReady ==
  ASSUME current \in Token \cup {NoToken}, logits' \in Seq(Token),
         1 \in 1 .. Len(logits'), EnterLoop
  PROVE  /\ current' \in Token \cup {NoToken}
         /\ strategy = "lookahead" => current' \in Token
BY ElementOfSeq DEF EnterLoop

(* generate(n) goes on from the output there is.                           *)
LEMMA ContinueInv ==
  ASSUME Inv, NEW max \in 1 .. MaxNew, Continue(max)
  PROVE  Inv'
<1>1. /\ pc = "idle" /\ base # None /\ ~lost /\ Running
      /\ UNCHANGED << strategy, stored, kept, allSeqLen, genSeqLen, output,
                      valid, base, lost >>
  BY DEF Continue, Idle, history
<1>2. Types /\ Ready /\ Positions /\ Counts
  BY DEF Inv
<1>3. status # "INTERNAL_ERROR" /\ logits \in Seq(Token) /\ valid \in 1 .. Len(logits)
  BY <1>1, <1>2 DEF Running, Errors, Ready, Types
<1>4. CASE IsStop(current)
  <2>1. status' = "NORMAL_FINISHED" /\ UNCHANGED << current, logits, pc, call >>
    BY <1>4 DEF Continue
  <2>2. Types'
    BY <1>1, <1>2, <2>1 DEF Types
  <2>3. Prefilling' /\ Ready' /\ AtWork' /\ Positions' /\ Counts'
    BY <1>1, <1>2, <1>3, <2>1 DEF Prefilling, Ready, AtWork, Positions, Counts
  <2>4. QED
    BY <2>2, <2>3 DEF Inv
<1>5. CASE ~IsStop(current)
  <2>1. /\ pc' = "loop" /\ call' = [ NoCall EXCEPT !.max = max ]
        /\ UNCHANGED << status, logits >> /\ EnterLoop
    BY <1>5 DEF Continue
  <2>2. call' \in Call
    <3>1. max \in Nat
      BY GenerationAssumption
    <3>2. QED
      BY <2>1, <3>1, LoopCall
  <2>3. /\ current' \in Token \cup {NoToken}
        /\ strategy = "lookahead" => current' \in Token
    <3>1. 1 \in 1 .. Len(logits) /\ logits' = logits
      BY <1>3, <2>1, LenProperties
    <3>2. current \in Token \cup {NoToken}
      BY <1>2 DEF Types
    <3>3. QED
      BY <1>3, <2>1, <3>1, <3>2, EnterLoopReady
  <2>4. Types'
    BY <1>1, <1>2, <2>1, <2>2, <2>3 DEF Types
  <2>5. Ready'
    BY <1>1, <1>3, <2>1, <2>3 DEF Ready
  <2>6. Prefilling' /\ AtWork' /\ Positions' /\ Counts'
    BY <1>1, <1>2, <1>3, <2>1 DEF Prefilling, AtWork, Positions, Counts, Running
  <2>7. QED
    BY <2>4, <2>5, <2>6 DEF Inv
<1>6. QED
  BY <1>4, <1>5

(* An erase takes rows and positions alike.                                *)
LEMMA RollbackInv ==
  ASSUME Inv, NEW mark \in 0 .. MaxRows, Rollback(mark)
  PROVE  Inv'
<1>1. /\ pc = "idle" /\ ~lost /\ Conv!Erase(mark, Len(stored))
      /\ allSeqLen' = mark /\ base' = None
      /\ UNCHANGED << strategy, genSeqLen, output, current, status, logits,
                      valid, pc, call, lost >>
  BY DEF Rollback, Idle
<1>2. Types /\ Counts
  BY DEF Inv
<1>3. mark \in Nat
  BY GenerationAssumption
<1>4. stored' = stored /\ kept' \in Seq(Token) /\ Len(kept') = mark
  BY <1>1, <1>2, <1>3, ErasesSuffix DEF Types
<1>5. Types'
  BY <1>1, <1>2, <1>3, <1>4 DEF Types
<1>6. Prefilling' /\ Ready' /\ AtWork' /\ Positions' /\ Counts'
  BY <1>1, <1>2, <1>4 DEF Prefilling, Ready, AtWork, Positions, Counts
<1>7. QED
  BY <1>5, <1>6 DEF Inv

(* A reset leaves no row and no position.                                  *)
LEMMA ResetInv ==
  ASSUME Inv, Reset
  PROVE  Inv'
<1>1. /\ pc = "idle" /\ kept' = << >> /\ stored' = stored
      /\ output' = << >> /\ allSeqLen' = 0 /\ genSeqLen' = 0
      /\ base' = None /\ lost' = FALSE
      /\ UNCHANGED << strategy, current, status, logits, valid, pc, call >>
  BY DEF Reset, Idle, Conv!Clear
<1>2. Types
  BY DEF Inv
<1>3. Types'
  <2>1. << >> \in Seq(Token) /\ 0 \in Nat /\ 0 \in Int
    OBVIOUS
  <2>2. kept' \in Seq(Token) /\ output' \in Seq(Token)
        /\ allSeqLen' \in Int /\ genSeqLen' \in Nat
    BY <1>1, <2>1
  <2>3. QED
    BY <1>1, <1>2, <2>2 DEF Types
<1>4. Prefilling' /\ Ready' /\ AtWork' /\ Positions' /\ Counts'
  BY <1>1 DEF Prefilling, Ready, AtWork, Positions, Counts
<1>5. QED
  BY <1>3, <1>4 DEF Inv

-----------------------------------------------------------------------------
(* Prefill.                                                                *)

(* One more piece of a prompt.                                             *)
LEMMA OneMore ==
  ASSUME NEW x \in Nat, NEW y \in Nat
  PROVE  x * (y + 1) = x * y + x /\ x * y \in Nat
OBVIOUS

(* What PrefillPiece works out of the call.                                *)
Piece == Head(call.pieces)
Rest == Tail(call.pieces)
Full == BlockSize # 0 /\ Len(Piece) = BlockSize
Blocks == call.blocks + (IF Full THEN 1 ELSE 0)
Ends == call.outer \/ Rest = << >>
Size == IF call.outer THEN Len(Piece) ELSE call.size

(* Whichever way a prompt was cut, a forward of its next piece adds to     *)
(* all_seq_len the rows of this piece, and the pieces behind it still add  *)
(* up.                                                                     *)
LEMMA PieceCounted ==
  ASSUME Types, Prefilling, pc = "prefill"
  PROVE  /\ Piece \in Seq(Token) /\ Piece # << >>
         /\ Rest \in Seq(Seq(Token))
         /\ \A i \in 1 .. Len(Rest) : Rest[i] # << >>
         /\ Full \in BOOLEAN /\ Blocks \in Nat
         /\ Counted(Full, Blocks, Ends, Size) = Len(Piece)
         /\ (Rest # << >> /\ ~call.outer) => PiecesAddUp(Rest, call.size, Blocks)
<1>0. /\ Piece = Head(call.pieces) /\ Rest = Tail(call.pieces)
      /\ Full = (BlockSize # 0 /\ Len(Piece) = BlockSize)
      /\ Blocks = call.blocks + (IF Full THEN 1 ELSE 0)
      /\ Ends = (call.outer \/ Rest = << >>)
      /\ Size = IF call.outer THEN Len(Piece) ELSE call.size
  BY DEF Piece, Rest, Full, Blocks, Ends, Size
<1> USE <1>0
<1> DEFINE ps == call.pieces
           k == Len(ps)
           b == call.blocks
           B == BlockSize
<1>1. /\ ps \in Seq(Seq(Token)) /\ ps # << >> /\ call.outer \in BOOLEAN
      /\ call.size \in Nat /\ b \in Nat /\ B \in Nat
  BY GenerationAssumption DEF Types, Call, Prefilling
<1>2. /\ k \in Nat \ {0}
      /\ \A i \in 1 .. k : ps[i] \in Seq(Token) /\ ps[i] # << >>
  BY <1>1, EmptySeq, ElementOfSeq DEF Prefilling
<1>3. /\ Piece = ps[1] /\ Rest \in Seq(Seq(Token)) /\ Len(Rest) = k - 1
      /\ \A i \in 1 .. Len(Rest) : Rest[i] = ps[i + 1]
  BY <1>1, HeadTailProperties, SMTT(30)
<1>4. Rest = << >> <=> k = 1
  <2>1. Rest # << >> => Len(Rest) \in Nat \ {0}
    BY <1>3, EmptySeq
  <2>2. Rest = << >> => Len(Rest) = 0
    OBVIOUS
  <2>3. QED
    BY <1>2, <1>3, <2>1, <2>2, SMTT(30)
<1>5. Piece \in Seq(Token) /\ Piece # << >> /\ Len(Piece) \in Nat \ {0}
  <2>1. 1 \in 1 .. k
    BY <1>2
  <2>2. QED
    BY <1>2, <1>3, <2>1, EmptySeq
<1>6. \A i \in 1 .. Len(Rest) : Rest[i] # << >>
  <2>1. \A i \in 1 .. Len(Rest) : i + 1 \in 1 .. k
    BY <1>2, <1>3
  <2>2. QED
    BY <1>2, <1>3, <2>1
<1>7. Full \in BOOLEAN /\ Blocks \in Nat
  BY <1>1, SMTT(30)
<1>8. B * (b + 1) = B * b + B /\ B * b \in Nat
  BY <1>1, OneMore
<1>9. ~call.outer => PiecesAddUp(ps, call.size, b)
  BY DEF Prefilling
<1> HIDE DEF ps, k, b, B
<1>10. CASE call.outer
  <2>1. b = 0
    BY <1>10 DEF Prefilling, b
  <2>2. B * Blocks = IF Full THEN B ELSE 0
    BY <1>1, <2>1 DEF b
  <2>3. Ends /\ Size = Len(Piece)
    BY <1>10
  <2>4. Counted(Full, Blocks, Ends, Size)
          = (IF Full THEN B ELSE 0) + (Len(Piece) - B * Blocks)
    BY <2>3 DEF Counted, B
  <2>5. Counted(Full, Blocks, Ends, Size) = Len(Piece)
    <3> DEFINE add == IF Full THEN B ELSE 0
               taken == B * Blocks
    <3>1. Counted(Full, Blocks, Ends, Size) = add + (Len(Piece) - taken)
      BY <2>4
    <3>2. add \in Nat /\ taken = add
      BY ONLY <1>1, <2>2
    <3> HIDE DEF add, taken
    <3>3. QED
      BY ONLY <1>5, <3>1, <3>2
  <2>6. QED
    BY <1>3, <1>5, <1>6, <1>7, <1>10, <2>5
<1>11. CASE ~call.outer /\ k = 1
  <2>1. Ends /\ Size = call.size /\ Rest = << >>
    BY <1>4, <1>11
  <2>2. Size = B * b + Len(Piece)
    <3>1. b + k - 1 = b
      BY <1>1, <1>11
    <3>2. QED
      BY <1>3, <1>9, <1>11, <2>1, <3>1 DEF PiecesAddUp, ps, k, B
  <2>3. B * Blocks = IF Full THEN B * b + B ELSE B * b
    <3>1. Blocks = IF Full THEN b + 1 ELSE b
      BY <1>1, <1>7 DEF b
    <3>2. QED
      BY <1>8, <3>1
  <2>4. Counted(Full, Blocks, Ends, Size)
          = (IF Full THEN B ELSE 0) + (Size - B * Blocks)
    BY <2>1 DEF Counted, B
  <2>5. Counted(Full, Blocks, Ends, Size) = Len(Piece)
    <3> DEFINE add == IF Full THEN B ELSE 0
               taken == B * Blocks
    <3>1. add \in Nat /\ taken = B * b + add
      <4>1. B * b + 0 = B * b
        BY <1>8
      <4>2. QED
        BY ONLY <1>1, <2>3, <4>1
    <3>2. Counted(Full, Blocks, Ends, Size) = add + (Size - taken)
      BY <2>4
    <3> HIDE DEF add, taken
    <3>3. QED
      <4>1. PICK m \in Nat : m = B * b
        BY <1>8
      <4>2. Size = m + Len(Piece) /\ taken = m + add /\ Len(Piece) \in Nat
        BY ONLY <1>5, <2>2, <3>1, <4>1
      <4>3. QED
        BY ONLY <3>1, <3>2, <4>2
  <2>6. QED
    BY <1>3, <1>5, <1>6, <1>7, <2>1, <2>5
<1>12. CASE ~call.outer /\ k > 1
  <2>1. 1 \in 1 .. k - 1 /\ k - 1 \in 1 .. k /\ k = (k - 1) + 1
    BY <1>2, <1>12
  <2>2. Len(Piece) = B
    BY <1>3, <1>9, <1>12, <2>1 DEF PiecesAddUp, ps, k, B
  <2>3. B # 0 /\ Full
    BY <1>5, <2>2 DEF B
  <2>4. Ends = FALSE /\ Rest # << >> /\ Blocks = b + 1
    <3>1. k # 1
      BY <1>2, <1>12
    <3>2. Rest # << >>
      BY <1>4, <3>1
    <3>3. QED
      BY <1>12, <2>3, <3>2 DEF b
  <2>5. Counted(Full, Blocks, Ends, Size) = Len(Piece)
    <3>1. Counted(Full, Blocks, Ends, Size) = B + 0
      BY <2>3, <2>4 DEF Counted, B
    <3>2. QED
      BY ONLY <1>1, <2>2, <3>1
  <2>6. PiecesAddUp(Rest, call.size, Blocks)
    <3>1. \A i \in 1 .. Len(Rest) - 1 : Len(Rest[i]) = B
      <4>1. \A i \in 1 .. Len(Rest) - 1 : i \in 1 .. Len(Rest) /\ i + 1 \in 1 .. k - 1
        BY <1>2, <1>3
      <4>2. \A i \in 1 .. k - 1 : Len(ps[i]) = B
        BY <1>9, <1>12 DEF PiecesAddUp, k, B
      <4>3. QED
        BY <1>3, <4>1, <4>2
    <3>2. Rest[Len(Rest)] = ps[k]
      <4>1. Len(Rest) \in 1 .. Len(Rest) /\ Len(Rest) + 1 = k
        BY <1>2, <1>3, <2>1
      <4>2. QED
        BY <1>3, <4>1
    <3>3. Blocks + Len(Rest) - 1 = b + k - 1
      <4>1. Blocks = b + 1 /\ Len(Rest) = k - 1 /\ b \in Nat /\ k \in Nat
        BY <1>1, <1>2, <1>3, <2>4
      <4>2. QED
        BY ONLY <4>1
    <3>4. call.size = B * (b + k - 1) + Len(ps[k])
      BY <1>9, <1>12 DEF PiecesAddUp, k, B
    <3>5. QED
      BY <3>1, <3>2, <3>3, <3>4 DEF PiecesAddUp, B
  <2>7. QED
    BY <1>3, <1>5, <1>6, <1>7, <2>5, <2>6
<1>13. k = 1 \/ k > 1
  BY <1>2
<1>14. QED
  BY <1>10, <1>11, <1>12, <1>13

(* A piece of the prompt adds its rows and positions.                      *)
LEMMA PrefillPieceInv ==
  ASSUME PredictsTokens, Inv, NEW junk \in Junk, PrefillPiece(junk)
  PROVE  Inv'
<1> DEFINE next == [ call EXCEPT !.pieces = Rest,
                                 !.blocks = IF Ends THEN 0 ELSE Blocks ]
           loop == [ NoCall EXCEPT !.max = call.max ]
<1>1. /\ pc = "prefill" /\ Conv!Forward(Piece)
      /\ logits' = Outputs(Piece, FALSE, junk)
      /\ valid' = IF junk = << >> THEN 1 ELSE Len(Piece)
      /\ allSeqLen' = allSeqLen + Counted(Full, Blocks, Ends, Size)
      /\ UNCHANGED << strategy, genSeqLen, output, lost >>
  BY DEF PrefillPiece, Piece, Rest, Full, Blocks, Ends, Size
<1>2. \/ /\ Rest # << >> /\ call' = next
         /\ UNCHANGED << pc, current, status, base >>
      \/ /\ Rest = << >> /\ AfterPrefill
      \/ /\ Ends /\ status' = "TIMEOUT" /\ pc' = "idle" /\ call' = NoCall
         /\ UNCHANGED << current, base >>
  BY DEF PrefillPiece, Piece, Rest, Full, Blocks, Ends, Size
<1>3. Types /\ Prefilling /\ AtWork /\ Positions /\ Counts
  BY DEF Inv
<1>4. /\ Piece \in Seq(Token) /\ Piece # << >>
      /\ Rest \in Seq(Seq(Token)) /\ \A i \in 1 .. Len(Rest) : Rest[i] # << >>
      /\ Full \in BOOLEAN /\ Blocks \in Nat
      /\ Counted(Full, Blocks, Ends, Size) = Len(Piece)
      /\ (Rest # << >> /\ ~call.outer) => PiecesAddUp(Rest, call.size, Blocks)
  BY <1>1, <1>3, PieceCounted
<1>5. /\ kept \in Seq(Token) /\ call \in Call /\ call.max \in Nat
      /\ call.outer \in BOOLEAN /\ ~lost /\ Running
      /\ base = None /\ output = << >> /\ current = NoToken
      /\ allSeqLen = Len(kept) /\ genSeqLen = 0
  <2>1. allSeqLen = Len(kept) /\ ~lost /\ Running
    BY <1>1, <1>3 DEF AtWork, Positions
  <2>2. genSeqLen = 0
    <3>1. output = << >> /\ genSeqLen = Len(output) + 0
      BY <1>1, <1>3 DEF Counts, Prefilling
    <3>2. Len(<< >>) + 0 = 0
      OBVIOUS
    <3>3. QED
      BY <3>1, <3>2
  <2>3. QED
    BY <1>1, <1>3, <2>1, <2>2 DEF Types, Call, Prefilling
<1>6. /\ kept' \in Seq(Token) /\ stored' = kept'
      /\ Len(kept') = Len(kept) + Len(Piece)
  BY <1>1, <1>4, <1>5, ForwardAppends
<1>7. allSeqLen' = Len(kept') /\ allSeqLen' \in Int
  <2>1. Len(kept) \in Nat /\ Len(Piece) \in Nat
    BY <1>4, <1>5, LenProperties
  <2>2. allSeqLen' = Len(kept) + Len(Piece)
    BY <1>1, <1>4, <1>5
  <2>3. QED
    BY <1>6, <2>1, <2>2
<1>8. logits' \in Seq(Token) /\ valid' \in 1 .. Len(logits')
      /\ valid' \in Nat /\ 1 \in 1 .. Len(logits')
  <2>1. junk \in Seq(Token) /\ Len(junk) \in Nat /\ Len(Piece) \in Nat \ {0}
    BY <1>4, JunkTokens, LenProperties, EmptySeq
  <2>2. /\ logits' \in Seq(Token)
        /\ Len(logits') = IF junk # << >> THEN Len(Piece) + Len(junk) ELSE 1
    BY <1>1, <1>4, <1>5, <2>1, OutputsOf
  <2>3. Len(logits') \in Nat \ {0} /\ valid' \in 1 .. Len(logits')
    <3>1. CASE junk = << >>
      <4>1. Len(logits') = 1 /\ valid' = 1
        BY <1>1, <2>2, <3>1
      <4>2. QED
        BY <4>1
    <3>2. CASE junk # << >>
      <4>1. Len(logits') = Len(Piece) + Len(junk) /\ valid' = Len(Piece)
        BY <1>1, <2>2, <3>2
      <4>2. QED
        BY ONLY <2>1, <4>1
    <3>3. QED
      BY <3>1, <3>2
  <2>4. QED
    BY <2>2, <2>3
<1>9. next \in Call /\ next.pieces = Rest /\ next.outer = call.outer
      /\ next.size = call.size /\ next.blocks = (IF Ends THEN 0 ELSE Blocks)
  <2> DEFINE left == IF Ends THEN 0 ELSE Blocks
  <2>1. left \in Nat
    BY <1>4
  <2> HIDE DEF left
  <2>2. QED
    BY <1>4, <1>5, <2>1 DEF Call
<1>10. loop \in Call
  BY <1>5, LoopCall
<1> HIDE DEF next, loop
<1>11. Counts' /\ Positions'
  <2>1. genSeqLen' = 0 /\ output' = << >>
    BY <1>1, <1>5
  <2>2. pc' \in {"prefill", "loop", "idle"}
    BY <1>1, <1>2 DEF AfterPrefill
  <2>3. QED
    BY <1>7, <2>1, <2>2 DEF Counts, Positions
<1>12. CASE /\ Rest # << >> /\ call' = next
            /\ UNCHANGED << pc, current, status, base >>
  <2>1. Types'
    BY <1>1, <1>3, <1>6, <1>7, <1>8, <1>9, <1>12 DEF Types
  <2>2. Prefilling'
    <3>1. call'.pieces = Rest /\ call'.outer = call.outer /\ call'.size = call.size
          /\ call'.blocks = IF Ends THEN 0 ELSE Blocks
      BY <1>9, <1>12
    <3>2. call.outer => Ends
      BY DEF Ends
    <3>3. ~call.outer => ~Ends
      BY <1>12 DEF Ends
    <3>4. IF call'.outer THEN call'.blocks = 0
                         ELSE PiecesAddUp(call'.pieces, call'.size, call'.blocks)
      BY <1>4, <1>5, <1>12, <3>1, <3>2, <3>3
    <3>5. QED
      BY <1>1, <1>4, <1>5, <1>12, <3>1, <3>4 DEF Prefilling
  <2>3. Ready' /\ AtWork'
    BY <1>1, <1>5, <1>12 DEF Ready, AtWork, Running
  <2>4. QED
    BY <1>11, <2>1, <2>2, <2>3 DEF Inv
<1>13. CASE Rest = << >> /\ AfterPrefill
  <2>1. base' = kept'
    BY <1>13 DEF AfterPrefill
  <2>2. CASE call.outer \/ call.max > 0
    <3>1. pc' = "loop" /\ call' = loop /\ status' = status /\ EnterLoop
      BY <1>13, <2>2 DEF AfterPrefill, loop
    <3>2. /\ current' \in Token \cup {NoToken}
          /\ strategy = "lookahead" => current' \in Token
      BY <1>3, <1>8, <3>1, EnterLoopReady DEF Types
    <3>3. Types'
      BY <1>1, <1>3, <1>6, <1>7, <1>8, <1>10, <2>1, <3>1, <3>2 DEF Types
    <3>4. Prefilling' /\ AtWork'
      BY <1>1, <1>5, <3>1 DEF Prefilling, AtWork, Running
    <3>5. base' # None
      BY <1>6, <2>1, GenerationAssumption
    <3>6. Ready'
      BY <1>1, <1>8, <3>1, <3>2, <3>5 DEF Ready
    <3>7. QED
      BY <1>11, <3>3, <3>4, <3>6 DEF Inv
  <2>3. CASE ~call.outer /\ call.max = 0
    <3>1. pc' = "idle" /\ call' = NoCall /\ UNCHANGED << status, current >>
      BY <1>13, <2>3 DEF AfterPrefill
    <3>2. Types'
      BY <1>1, <1>3, <1>6, <1>7, <1>8, <2>1, <3>1, NoCallType DEF Types
    <3>3. Prefilling' /\ AtWork' /\ Ready'
      BY <1>1, <1>8, <3>1 DEF Prefilling, AtWork, Ready
    <3>4. QED
      BY <1>11, <3>2, <3>3 DEF Inv
  <2>4. QED
    BY <1>13, <2>2, <2>3 DEF AfterPrefill
<1>14. CASE /\ Ends /\ status' = "TIMEOUT" /\ pc' = "idle" /\ call' = NoCall
            /\ UNCHANGED << current, base >>
  <2>1. Types'
    BY <1>1, <1>3, <1>6, <1>7, <1>8, <1>14, NoCallType DEF Types, Errors
  <2>2. Prefilling' /\ AtWork' /\ Ready'
    BY <1>5, <1>14 DEF Prefilling, AtWork, Ready
  <2>3. QED
    BY <1>11, <2>1, <2>2 DEF Inv
<1>15. QED
  BY <1>2, <1>12, <1>13, <1>14

(* A forward that fails ends the call in an error.                         *)
LEMMA FailForwardInv ==
  ASSUME Inv, FailForward
  PROVE  Inv'
<1>1. /\ pc \in {"prefill", "forward", "draft"}
      /\ status' = "INTERNAL_ERROR" /\ logits' = << >> /\ valid' = 1
      /\ pc' = "idle" /\ call' = NoCall
      /\ UNCHANGED << strategy, allSeqLen, genSeqLen, output, current, base >>
      /\ \/ UNCHANGED << stored, kept, lost >>
         \/ stored' = << >> /\ kept' = << >> /\ lost' = TRUE
  BY DEF FailForward, Conv!Lose, history
<1>2. Types /\ Positions
  BY DEF Inv
<1>3. Types'
  <2>1. << >> \in Seq(Token) /\ 1 \in Nat
    OBVIOUS
  <2>2. kept' \in Seq(Token) /\ stored' \in Seq(Token) /\ lost' \in BOOLEAN
    BY <1>1, <1>2, <2>1 DEF Types
  <2>3. QED
    BY <1>1, <1>2, <2>1, <2>2, NoCallType DEF Types, Errors
<1>4. Positions'
  BY <1>1, <1>2 DEF Positions
<1>5. Prefilling' /\ Ready' /\ AtWork' /\ Counts'
  BY <1>1 DEF Prefilling, Ready, AtWork, Counts
<1>6. QED
  BY <1>3, <1>4, <1>5 DEF Inv

-----------------------------------------------------------------------------
(* The loop.                                                               *)

(* A loop that ends keeps the history, the output and the counts.          *)
LEMMA LoopLeft ==
  ASSUME Inv, pc = "loop", pc' = "idle", call' = NoCall,
         status' \in Errors \cup {"MAX_TOKENS_FINISHED"},
         status' # "INTERNAL_ERROR" => (status # "INTERNAL_ERROR" \/ lost),
         UNCHANGED << strategy, stored, kept, allSeqLen, genSeqLen, output,
                      current, logits, valid, base, lost >>
  PROVE  Inv'
<1>1. Types /\ Ready /\ Positions /\ Counts
  BY DEF Inv
<1>2. Types'
  BY <1>1, NoCallType DEF Types
<1>3. Ready'
  BY <1>1 DEF Ready
<1>4. Prefilling' /\ AtWork' /\ Positions' /\ Counts'
  BY <1>1 DEF Prefilling, AtWork, Positions, Counts
<1>5. QED
  BY <1>2, <1>3, <1>4 DEF Inv

(* A loop that ends leaves its counts as they are.                         *)
LEMMA FinishInv ==
  ASSUME Inv, Finish
  PROVE  Inv'
<1>1. ~lost => status # "INTERNAL_ERROR"
  BY DEF Inv, AtWork, Finish, Running, Errors
<1>2. QED
  BY <1>1, LoopLeft DEF Inv, Types, Finish, history

(* A loop left with an error keeps its counts.                             *)
LEMMA AbortInv ==
  ASSUME Inv, Abort
  PROVE  Inv'
BY LoopLeft DEF Abort, history, context, Errors

(* A loop left at the time limit keeps its counts.                         *)
LEMMA ExpireInv ==
  ASSUME Inv, Expire
  PROVE  Inv'
BY LoopLeft DEF Expire, history, Errors

(* A sampled token is counted before it is forwarded.                      *)
LEMMA SampleTokenInv ==
  ASSUME Inv, SampleToken
  PROVE  Inv'
<1> DEFINE token == logits[valid]
<1>1. /\ strategy = "ar" /\ pc = "loop" /\ status # "INTERNAL_ERROR"
      /\ current' = token /\ output' = Append(output, token)
      /\ genSeqLen' = genSeqLen + 1
      /\ UNCHANGED << strategy, stored, kept, allSeqLen, logits, valid, base, lost >>
      /\ \/ status' = "NORMAL_FINISHED" /\ pc' = "idle" /\ call' = NoCall
         \/ pc' = "forward" /\ UNCHANGED << status, call >>
  BY DEF SampleToken, history
<1>2. Types /\ Ready /\ AtWork /\ Positions /\ Counts
  BY DEF Inv
<1>3. ~lost /\ Running /\ base # None
  BY <1>1, <1>2 DEF AtWork, Ready
<1>4. token \in Token
  BY <1>1, <1>2, <1>3, ElementOfSeq DEF Ready, Types
<1> HIDE DEF token
<1>5. /\ output' \in Seq(Token) /\ Len(output') = Len(output) + 1
      /\ Len(output) \in Nat
  BY <1>1, <1>2, <1>4, AppendProperties, LenProperties DEF Types
<1>6. genSeqLen = Len(output) /\ genSeqLen' = Len(output') + 0 /\ genSeqLen' \in Nat
  <2>1. genSeqLen = Len(output) + 0
    BY <1>1, <1>2 DEF Counts
  <2>2. QED
    BY <1>1, <1>5, <2>1
<1>7. Types'
  BY <1>1, <1>2, <1>4, <1>5, <1>6, NoCallType DEF Types
<1>8. Ready' /\ Prefilling'
  BY <1>1, <1>2, <1>4 DEF Ready, Prefilling
<1>9. AtWork' /\ Positions' /\ Counts'
  BY <1>1, <1>2, <1>3, <1>6 DEF AtWork, Positions, Counts, Running
<1>10. QED
  BY <1>7, <1>8, <1>9 DEF Inv

(* One more round counts in the call.                                      *)
LEMMA CallAdvances ==
  ASSUME call \in Call, NEW n \in Nat
  PROVE  [ call EXCEPT !.len = call.len + n ] \in Call
<1>1. call.len + n \in Nat
  BY DEF Call
<1>2. QED
  BY <1>1 DEF Call

(* A token that is forwarded adds its row.                                 *)
LEMMA ForwardTokenInv ==
  ASSUME PredictsTokens, Inv, NEW junk \in Junk, ForwardToken(junk)
  PROVE  Inv'
<1> DEFINE toks == << current >>
<1>1. /\ pc = "forward" /\ Conv!Forward(toks)
      /\ logits' = Outputs(toks, FALSE, junk)
      /\ valid' = 1 /\ allSeqLen' = allSeqLen + 1
      /\ call' = [ call EXCEPT !.len = call.len + 1 ] /\ pc' = "loop"
      /\ UNCHANGED << strategy, genSeqLen, output, current, status, base, lost >>
  BY DEF ForwardToken
<1>2. Types /\ Ready /\ AtWork /\ Positions /\ Counts
  BY DEF Inv
<1>3. current \in Token /\ strategy = "ar" /\ base # None /\ ~lost /\ Running
  BY <1>1, <1>2 DEF Ready, AtWork
<1>4. toks \in Seq(Token) /\ toks # << >> /\ Len(toks) = 1
  BY <1>3
<1> HIDE DEF toks
<1>5. /\ kept' \in Seq(Token) /\ stored' = kept' /\ Len(kept') = Len(kept) + 1
  BY <1>1, <1>2, <1>4, ForwardAppends DEF Types
<1>6. logits' \in Seq(Token) /\ 1 \in 1 .. Len(logits')
  <2>1. junk \in Seq(Token) /\ Len(junk) \in Nat
    BY JunkTokens, LenProperties
  <2>2. kept \in Seq(Token)
    BY <1>2 DEF Types
  <2>3. /\ logits' \in Seq(Token)
        /\ Len(logits') = IF junk # << >> THEN Len(toks) + Len(junk) ELSE 1
    BY <1>1, <1>4, <2>1, <2>2, OutputsOf
  <2>4. QED
    BY <1>4, <2>1, <2>3
<1>7. allSeqLen' = Len(kept') /\ allSeqLen' \in Int
  <2>1. allSeqLen = Len(kept) /\ allSeqLen \in Int
    BY <1>1, <1>2, <1>3 DEF Positions, Types
  <2>2. QED
    BY <1>1, <1>5, <2>1
<1>8. call' \in Call
  BY <1>1, <1>2, CallAdvances DEF Types
<1>9. Types'
  BY <1>1, <1>2, <1>5, <1>6, <1>7, <1>8 DEF Types
<1>10. Ready' /\ Prefilling'
  BY <1>1, <1>3, <1>6 DEF Ready, Prefilling
<1>11. AtWork' /\ Positions' /\ Counts'
  BY <1>1, <1>2, <1>3, <1>7 DEF AtWork, Positions, Counts, Running
<1>12. QED
  BY <1>9, <1>10, <1>11 DEF Inv

(* An output that cannot be read is an error, and the rows are lost.       *)
LEMMA ForwardUnreadableInv ==
  ASSUME Inv, ForwardUnreadable
  PROVE  Inv'
<1>1. /\ pc = "forward" /\ stored' = << >> /\ kept' = << >> /\ lost' = TRUE
      /\ status' = "INTERNAL_ERROR" /\ logits' = << >> /\ valid' = 1
      /\ allSeqLen' = allSeqLen + 1
      /\ call' = [ call EXCEPT !.len = call.len + 1 ] /\ pc' = "loop"
      /\ UNCHANGED << strategy, genSeqLen, output, current, base >>
  BY DEF ForwardUnreadable, Conv!Lose
<1>2. Types /\ Ready /\ Counts
  BY DEF Inv
<1>3. call' \in Call
  BY <1>1, <1>2, CallAdvances DEF Types
<1>4. allSeqLen' \in Int
  BY <1>1, <1>2 DEF Types
<1>5. << >> \in Seq(Token) /\ 1 \in Nat
  OBVIOUS
<1>6. Types'
  BY <1>1, <1>2, <1>3, <1>4, <1>5 DEF Types, Errors
<1>7. Ready' /\ Prefilling'
  BY <1>1, <1>2 DEF Ready, Prefilling
<1>8. AtWork' /\ Positions' /\ Counts'
  BY <1>1, <1>2 DEF Ready, AtWork, Positions, Counts
<1>9. QED
  BY <1>6, <1>7, <1>8 DEF Inv

(* Drafts are proposed before they are forwarded.                          *)
LEMMA DraftInv ==
  ASSUME Inv, NEW guess \in SeqsUpTo(Token, DraftLen), Draft(guess)
  PROVE  Inv'
<1> DEFINE drafts == << current >> \o guess
<1>1. /\ strategy = "lookahead" /\ pc = "loop" /\ status # "INTERNAL_ERROR"
      /\ genSeqLen' = genSeqLen + 1
      /\ call' = [ call EXCEPT !.drafts = drafts ] /\ pc' = "draft"
      /\ UNCHANGED << strategy, stored, kept, allSeqLen, output, current, status,
                      logits, valid, base, lost >>
  BY DEF Draft, history
<1>2. Types /\ Ready /\ AtWork /\ Positions /\ Counts
  BY DEF Inv
<1>3. current \in Token /\ base # None /\ ~lost /\ Running
  BY <1>1, <1>2 DEF Ready, AtWork
<1>4. drafts \in Seq(Token) /\ drafts # << >>
  <2>1. guess \in Seq(Token) /\ << current >> \in Seq(Token) /\ Len(<< current >>) = 1
    BY <1>3, SomeTokens, GenerationAssumption
  <2>2. drafts \in Seq(Token) /\ Len(drafts) = 1 + Len(guess) /\ Len(guess) \in Nat
    BY <2>1, ConcatProperties, LenProperties
  <2>3. QED
    BY <2>2
<1> HIDE DEF drafts
<1>5. call' \in Call /\ call'.drafts = drafts
  BY <1>1, <1>2, <1>4 DEF Types, Call
<1>6. genSeqLen' = Len(output') + 1 /\ genSeqLen' \in Nat
  <2>1. genSeqLen = Len(output) + 0 /\ genSeqLen \in Nat /\ Len(output) \in Nat
    BY <1>1, <1>2, LenProperties DEF Counts, Types
  <2>2. QED
    BY <1>1, <2>1
<1>7. Types'
  BY <1>1, <1>2, <1>5, <1>6 DEF Types
<1>8. Ready' /\ Prefilling'
  BY <1>1, <1>2, <1>4, <1>5 DEF Ready, Prefilling
<1>9. AtWork' /\ Positions' /\ Counts'
  BY <1>1, <1>2, <1>3, <1>6 DEF AtWork, Positions, Counts, Running
<1>10. QED
  BY <1>7, <1>8, <1>9 DEF Inv

(* Drafts add their rows, to be verified.                                  *)
LEMMA ForwardDraftsInv ==
  ASSUME PredictsTokens, Inv, NEW junk \in Junk, ForwardDrafts(junk)
  PROVE  Inv'
<1> DEFINE toks == call.drafts
<1>1. /\ pc = "draft" /\ Conv!Forward(toks)
      /\ logits' = Outputs(toks, TRUE, junk)
      /\ valid' = IF junk = << >> THEN 1 ELSE Len(toks)
      /\ pc' = "verify"
      /\ UNCHANGED << strategy, allSeqLen, genSeqLen, output, current, status,
                      call, base, lost >>
  BY DEF ForwardDrafts, context
<1>2. Types /\ Ready /\ AtWork /\ Positions /\ Counts
  BY DEF Inv
<1>3. base # None /\ ~lost /\ Running /\ strategy = "lookahead"
  BY <1>1, <1>2 DEF Ready, AtWork
<1>4. toks \in Seq(Token) /\ toks # << >> /\ Len(toks) \in Nat \ {0}
      /\ call'.drafts = toks
  BY <1>1, <1>2, EmptySeq DEF Ready, Types, Call
<1>5. /\ kept' \in Seq(Token) /\ stored' = kept'
      /\ Len(kept') = Len(kept) + Len(toks) /\ Len(kept) \in Nat
  BY <1>1, <1>2, <1>4, ForwardAppends, LenProperties DEF Types
<1>6. /\ logits' \in Seq(Token) /\ Len(toks) <= Len(logits')
      /\ valid' \in 1 .. Len(logits') /\ valid' \in Nat
  <2>1. junk \in Seq(Token) /\ Len(junk) \in Nat /\ kept \in Seq(Token)
    BY <1>2, JunkTokens, LenProperties DEF Types
  <2>2. logits' \in Seq(Token) /\ Len(logits') = Len(toks) + Len(junk)
    BY <1>1, <1>4, <2>1, OutputsOf
  <2>3. valid' = 1 \/ valid' = Len(toks)
    BY <1>1
  <2> HIDE DEF toks
  <2>4. QED
    BY <1>4, <2>1, <2>2, <2>3
<1>7. allSeqLen' = Len(kept') - Len(toks)
  <2>1. allSeqLen' = Len(kept)
    BY <1>1, <1>2, <1>3 DEF Positions
  <2> HIDE DEF toks
  <2>2. QED
    BY <1>4, <1>5, <2>1
<1>8. Types'
  BY <1>1, <1>2, <1>5, <1>6 DEF Types
<1>9. Ready'
  <2>1. Len(toks) <= Len(kept')
    BY <1>4, <1>5
  <2>2. QED
    BY <1>1, <1>3, <1>4, <1>5, <1>6, <2>1 DEF Ready
<1>10. Prefilling' /\ AtWork' /\ Positions' /\ Counts'
  BY <1>1, <1>2, <1>3, <1>4, <1>7 DEF Prefilling, AtWork, Positions, Counts, Running
<1>11. QED
  BY <1>8, <1>9, <1>10 DEF Inv

(* The predictions after the drafts are tokens; the logits may have more   *)
(* rows, of padding, after theirs.                                         *)
LEMMA PredictionType ==
  ASSUME Types, Ready, pc = "verify", NEW i \in 1 .. Len(call.drafts)
  PROVE  Prediction(i) \in Token
<1>1. /\ logits \in Seq(Token) /\ Len(logits) \in Nat
      /\ call.drafts \in Seq(Token) /\ Len(call.drafts) \in Nat
      /\ Len(call.drafts) <= Len(logits)
  BY LenProperties DEF Types, Call, Ready
<1>2. Len(logits) - Len(call.drafts) + i \in 1 .. Len(logits)
  BY <1>1
<1>3. QED
  BY <1>1, <1>2, ElementOfSeq DEF Prediction

(* The history keeps the rows of the accepted drafts only.                 *)
LEMMA DropsRejected ==
  ASSUME Types, Ready, pc = "verify", NEW n \in 1 .. Len(call.drafts),
         DropRejected(n)
  PROVE  /\ stored' = stored /\ kept' \in Seq(Token)
         /\ Len(kept') = Len(kept) - Len(call.drafts) + n
         /\ kept' = SubSeq(kept, 1, Len(kept) - Len(call.drafts) + n)
<1> DEFINE d == Len(call.drafts)
           m == Len(stored) - (d - n)
<1>1. /\ stored = kept /\ kept \in Seq(Token) /\ Len(kept) \in Nat
      /\ d \in Nat /\ d <= Len(kept) /\ n \in 1 .. d
  BY LenProperties DEF Types, Call, Ready
<1>2. CASE n = d
  <2>1. stored' = stored /\ kept' = kept
    BY <1>2 DEF DropRejected, history
  <2>2. Len(kept) - d + n = Len(kept)
    BY <1>1, <1>2
  <2>3. SubSeq(kept, 1, Len(kept)) = kept
    BY <1>1, SubSeqFull
  <2>4. QED
    BY <1>1, <2>1, <2>2, <2>3
<1>3. CASE n # d
  <2>1. Conv!Erase(m, Len(stored))
    BY <1>3 DEF DropRejected
  <2>2. m \in Int /\ m >= 0 /\ m = Len(kept) - d + n
    BY <1>1
  <2> HIDE DEF m
  <2>3. stored' = stored /\ kept' = SubSeq(stored, 1, m) /\ kept' \in Seq(Token)
        /\ Len(kept') = m
    BY <1>1, <2>1, <2>2, ErasesSuffix
  <2>4. QED
    BY <1>1, <2>2, <2>3
<1>4. QED
  BY <1>2, <1>3

(* The rows of rejected drafts are taken back.                             *)
LEMMA VerifyInv ==
  ASSUME Inv, Verify
  PROVE  Inv'
<1> DEFINE drafts == call.drafts
           n == LoopEnd
           next == Prediction(n)
           appended == SubSeq(drafts, 1, n)
           len == call.len + n
<1>1. /\ pc = "verify" /\ DropRejected(n) /\ current' = next
      /\ allSeqLen' = allSeqLen + n
      /\ UNCHANGED << strategy, logits, valid, base, lost >>
  BY DEF Verify, Accepted
<1>2. \/ /\ output' = Append(output \o appended, next)
         /\ genSeqLen' = genSeqLen + (n - 1) + 1
         /\ status' \in {"MAX_TOKENS_FINISHED", "NORMAL_FINISHED"}
         /\ pc' = "idle" /\ call' = NoCall
      \/ /\ output' = output \o appended
         /\ genSeqLen' = genSeqLen + (n - 1)
         /\ pc' = "loop"
         /\ call' = [ call EXCEPT !.len = len, !.drafts = << >> ]
         /\ status' = status
  BY DEF Verify, Accepted, NewlyGenerated
<1>3. Types /\ Ready /\ AtWork /\ Positions /\ Counts
  BY DEF Inv
<1>4. base # None /\ ~lost /\ Running /\ strategy = "lookahead"
  BY <1>1, <1>3 DEF Ready, AtWork
<1>5. /\ drafts \in Seq(Token) /\ drafts # << >> /\ Len(drafts) \in Nat
      /\ output \in Seq(Token) /\ Len(output) \in Nat
  BY <1>1, <1>3, LenProperties DEF Types, Call, Ready
<1>6. n \in 1 .. Len(drafts) /\ n \in 0 .. Len(drafts) /\ n \in Nat
  <2>1. n \in 1 .. Len(drafts)
    BY <1>5, LoopEndIsFirst
  <2> HIDE DEF n
  <2>2. QED
    BY <1>5, <2>1
<1>7. next \in Token
  BY <1>1, <1>3, <1>6, PredictionType
<1>8. stored' = stored /\ kept' \in Seq(Token) /\ Len(kept') = Len(kept) - Len(drafts) + n
  BY <1>1, <1>3, <1>6, DropsRejected
<1>9. appended \in Seq(Token) /\ Len(appended) = n
  BY <1>5, <1>6, PrefixOf
<1> HIDE DEF next, appended
<1>10. /\ output \o appended \in Seq(Token)
       /\ Len(output \o appended) = Len(output) + n
       /\ Append(output \o appended, next) \in Seq(Token)
       /\ Len(Append(output \o appended, next)) = Len(output) + n + 1
  <2>1. /\ output \o appended \in Seq(Token)
        /\ Len(output \o appended) = Len(output) + n
    BY <1>5, <1>9, ConcatProperties
  <2>2. /\ Append(output \o appended, next) \in Seq(Token)
        /\ Len(Append(output \o appended, next)) = Len(output \o appended) + 1
    BY <1>7, <2>1, AppendProperties
  <2>3. QED
    BY <2>1, <2>2
<1> HIDE DEF n
<1>11. genSeqLen' = Len(output') /\ output' \in Seq(Token) /\ genSeqLen' \in Nat
  <2>1. genSeqLen = Len(output) + 1
    BY <1>1, <1>3 DEF Counts
  <2>2. genSeqLen + (n - 1) = Len(output) + n
        /\ genSeqLen + (n - 1) + 1 = Len(output) + n + 1
    BY <1>5, <1>6, <2>1
  <2>3. genSeqLen' = Len(output') /\ output' \in Seq(Token)
    BY <1>2, <1>10, <2>2
  <2>4. QED
    BY <2>3, LenProperties
<1>12. allSeqLen' = Len(kept') /\ allSeqLen' \in Int
  <2>1. allSeqLen = Len(kept) - Len(drafts) /\ Len(kept) \in Nat
    BY <1>1, <1>3, <1>4, LenProperties DEF Positions, Types
  <2>2. QED
    BY <1>1, <1>5, <1>6, <1>8, <2>1
<1>13. call' \in Call
  <2>1. call \in Call /\ len \in Nat /\ << >> \in Seq(Token)
    BY <1>3, <1>6 DEF Types, Call
  <2> HIDE DEF len
  <2>2. [ call EXCEPT !.len = len, !.drafts = << >> ] \in Call
    BY <2>1 DEF Call
  <2>3. QED
    BY <1>2, <2>2, NoCallType
<1>14. Types'
  <2>1. pc' \in {"idle", "loop"}
        /\ status' \in Errors \cup {"RUNNING", "NORMAL_FINISHED", "MAX_TOKENS_FINISHED"}
    BY <1>2, <1>3 DEF Types
  <2>2. QED
    BY <1>1, <1>3, <1>7, <1>8, <1>11, <1>12, <1>13, <2>1 DEF Types
<1>15. Ready' /\ Prefilling'
  <2>1. valid' \in 1 .. Len(logits')
    BY <1>1, <1>3, <1>4 DEF Ready, Running, Errors
  <2>2. QED
    BY <1>1, <1>2, <1>4, <1>7, <2>1 DEF Ready, Prefilling
<1>16. AtWork' /\ Positions' /\ Counts'
  <2>1. genSeqLen' = Len(output') + 0
    BY <1>11
  <2>2. QED
    BY <1>1, <1>2, <1>4, <1>12, <2>1 DEF AtWork, Positions, Counts, Running
<1>17. QED
  BY <1>14, <1>15, <1>16 DEF Inv

(* Every step keeps the bookkeeping.                                       *)
LEMMA InvNext == PredictsTokens /\ Inv /\ [Next]_vars => Inv'
<1> SUFFICES ASSUME PredictsTokens, Inv, [Next]_vars
             PROVE  Inv'
  OBVIOUS
<1>1. CASE Caller
  BY <1>1, RespondInv, ContinueInv, RollbackInv, ResetInv DEF Caller
<1>2. CASE Engine
  BY <1>2, PrefillPieceInv, FailForwardInv, FinishInv, AbortInv, ExpireInv,
     SampleTokenInv, ForwardTokenInv, ForwardUnreadableInv, DraftInv,
     ForwardDraftsInv, VerifyInv DEF Engine
<1>3. CASE UNCHANGED vars
  BY <1>3 DEF vars, history, context, Inv, Types, Prefilling, Ready, AtWork,
              Positions, Counts, Running
<1>4. QED
  BY <1>1, <1>2, <1>3 DEF Next

-----------------------------------------------------------------------------
(* Theorems.                                                               *)

(* The bookkeeping of a response stays consistent: Inv, in every situation *)
(* and for every network, split, padding and guess of the n-gram cache.    *)
THEOREM InvCorrect ==
  ASSUME PredictsTokens
  PROVE  Spec => []Inv
<1>1. Inv /\ [Next]_vars => Inv'
  BY InvNext
<1>2. QED
  BY <1>1, InvInit, PTL DEF Spec

(* Every variable keeps its type.                                          *)
THEOREM TypeCorrect ==
  ASSUME PredictsTokens
  PROVE  Spec => []TypeOK
<1>1. Inv => TypeOK
  BY DEF Inv, Types, TypeOK, Conv!TypeOK, Call
<1>2. QED
  BY <1>1, InvCorrect, PTL

(* all_seq_len is the number of rows before the next one, at every forward *)
(* and in between.                                                         *)
THEOREM PositionsCorrect ==
  ASSUME PredictsTokens
  PROVE  Spec => []PositionsMatchRows
<1>1. Inv => PositionsMatchRows
  BY DEF Inv, Positions, PositionsMatchRows
<1>2. QED
  BY <1>1, InvCorrect, PTL

(* gen_seq_len counts the tokens of the output.                            *)
THEOREM CountsCorrect ==
  ASSUME PredictsTokens
  PROVE  Spec => []GeneratedCounted
<1>1. ASSUME Inv, pc \in {"idle", "loop"}, status # "INTERNAL_ERROR"
      PROVE  genSeqLen = Len(output)
  <2>1. genSeqLen = Len(output) + 0
    BY <1>1 DEF Inv, Counts
  <2>2. Len(output) \in Nat
    BY <1>1, LenProperties DEF Inv, Types
  <2>3. QED
    BY <2>1, <2>2
<1>2. Inv => GeneratedCounted
  BY <1>1 DEF GeneratedCounted
<1>3. QED
  BY <1>2, InvCorrect, PTL

(* What a step does to an error state while the conversation is not lost:  *)
(* only generate_init leaves it.                                           *)
LEMMA ErrorLeft ==
  ASSUME Inv, [Next]_vars, status \in Errors, status' # status, ~lost
  PROVE  Idle /\ pc' = "prefill"
<1>1. pc = "idle"
  BY DEF Inv, Types, AtWork, Running
<1>2. ~Engine
  BY <1>1 DEF Engine, PrefillPiece, FailForward, Finish, Abort, Expire, SampleToken,
              ForwardToken, ForwardUnreadable, Draft, ForwardDrafts, Verify
<1>3. Caller
  BY <1>2 DEF Next, vars, context
<1>4. PICK ids \in Prompts, max \in 0 .. MaxNew, multimodal \in BOOLEAN, reuseKV \in BOOLEAN :
        Respond(ids, max, multimodal, reuseKV)
  BY <1>3 DEF Caller, Continue, Running, Rollback, Reset
<1>5. QED
  BY <1>4 DEF Respond

(* An error stays visible until the next response.                         *)
THEOREM ErrorSticksCorrect ==
  ASSUME PredictsTokens
  PROVE  Spec => ErrorSticks
<1>1. Inv /\ [Next]_vars =>
        [ (status \in Errors /\ status' # status /\ ~lost)
            => (Idle /\ pc' = "prefill") ]_vars
  BY ErrorLeft
<1>2. QED
  BY <1>1, InvCorrect, PTL DEF Spec, ErrorSticks

-----------------------------------------------------------------------------
(* The text: the inductive invariant, together with Inv.                   *)

Strict == Situations = {}
Unpadded == "padded" \notin Situations

Plain(rows) == \A i \in 1 .. Len(rows) : ~IsStop(rows[i])

Sent == SubSeq(output, 1, Len(output) - 1)

(* The rows are the prompt and the output.                                 *)
Whole == kept = base \o output

(* ... but for the last token, which is there and has not been forwarded.  *)
Short == output # << >> /\ kept = base \o Sent

Rows ==
  (base # None /\ ~lost) =>
    /\ pc \in {"loop", "draft"} => Whole
    /\ pc = "forward" => Short /\ current = output[Len(output)]
    /\ pc = "draft" => call.drafts[1] = current
    /\ pc = "verify" => /\ kept = (base \o output) \o call.drafts
                        /\ call.drafts[1] = current
    /\ pc = "idle" =>
         \/ /\ Whole
            /\ status = "INTERNAL_ERROR" => strategy = "lookahead"
            /\ Strict => Plain(output)
         \/ Short /\ IsStop(current) /\ IsStop(output[Len(output)])
         \/ Short /\ status = "INTERNAL_ERROR" /\ strategy = "ar"

(* A step of the loop can follow.                                          *)
MayContinue ==
  /\ base # None /\ ~lost /\ status # "INTERNAL_ERROR"
  /\ pc = "loop" \/ (pc = "idle" /\ ~IsStop(current))

Greedy ==
  Unpadded =>
    /\ OutputIsGreedy
    /\ MayContinue => IF strategy = "lookahead" /\ current # NoToken
                      THEN current = Predict(kept)
                      ELSE logits[valid] = Predict(kept)
    /\ MayContinue /\ strategy = "lookahead" /\ current = NoToken => valid = 1
    /\ pc = "draft" => current = Predict(kept)
    /\ pc = "verify" =>
         /\ current = Predict(base \o output)
         /\ \A i \in 1 .. Len(call.drafts) :
              Prediction(i) = Predict((base \o output) \o SubSeq(call.drafts, 1, i))

Stops ==
  Strict =>
    /\ pc # "idle" => Plain(output)
    /\ Plain(output) \/ (IsStop(current) /\ Plain(Sent))
    /\ MayContinue /\ strategy = "lookahead" =>
         IF current = NoToken THEN ~IsStop(logits[1]) ELSE ~IsStop(current)
    /\ pc \in {"draft", "verify"} => ~IsStop(current)

TInv == Rows /\ Greedy /\ Stops

-----------------------------------------------------------------------------
(* Sequences.                                                              *)

(* Concatenation is associative.                                           *)
LEMMA Regroup ==
  ASSUME NEW s \in Seq(Token), NEW t \in Seq(Token), NEW u \in Seq(Token)
  PROVE  (s \o t) \o u = s \o (t \o u)
BY ConcatAssociative

(* Texts without a stop, joined, have none.                                *)
LEMMA PlainConcat ==
  ASSUME NEW s \in Seq(Token), NEW t \in Seq(Token), Plain(s), Plain(t)
  PROVE  Plain(s \o t)
<1>1. /\ Len(s) \in Nat /\ Len(t) \in Nat /\ Len(s \o t) = Len(s) + Len(t)
      /\ \A i \in 1 .. Len(s) + Len(t) :
           (s \o t)[i] = IF i <= Len(s) THEN s[i] ELSE t[i - Len(s)]
  BY ConcatProperties, LenProperties
<1>2. ASSUME NEW i \in 1 .. Len(s) + Len(t)
      PROVE  ~IsStop((s \o t)[i])
  <2>1. CASE i <= Len(s)
    BY <1>1, <2>1 DEF Plain
  <2>2. CASE i > Len(s)
    <3>1. i - Len(s) \in 1 .. Len(t)
      BY <1>1, <2>2
    <3>2. QED
      BY <1>1, <2>2, <3>1 DEF Plain
  <2>3. QED
    BY <1>1, <2>1, <2>2
<1>3. QED
  BY <1>1, <1>2 DEF Plain

(* A token that does not stop is a text without a stop.                    *)
LEMMA PlainToken ==
  ASSUME NEW token \in Token, ~IsStop(token)
  PROVE  Plain(<< token >>)
BY DEF Plain

(* What Append and Front undo.                                             *)
LEMMA FrontOfAppend ==
  ASSUME NEW s \in Seq(Token), NEW e \in Token
  PROVE  /\ Append(s, e) \in Seq(Token) /\ Append(s, e) # << >>
         /\ Append(s, e) = s \o << e >>
         /\ SubSeq(Append(s, e), 1, Len(Append(s, e)) - 1) = s
         /\ Append(s, e)[Len(Append(s, e))] = e
<1>1. /\ Append(s, e) \in Seq(Token) /\ Append(s, e) # << >>
      /\ Len(Append(s, e)) = Len(s) + 1 /\ Len(s) \in Nat
      /\ \A i \in 1 .. Len(s) : Append(s, e)[i] = s[i]
      /\ Append(s, e)[Len(s) + 1] = e
  BY AppendProperties, LenProperties
<1>2. Append(s, e) = s \o << e >>
  BY AppendIsConcat
<1>3. SubSeq(Append(s, e), 1, Len(s)) = s
  <2> DEFINE f == SubSeq(Append(s, e), 1, Len(s))
  <2>1. Len(s) \in 0 .. Len(Append(s, e))
    BY <1>1
  <2>2. f \in Seq(Token) /\ Len(f) = Len(s) /\ \A i \in 1 .. Len(s) : f[i] = Append(s, e)[i]
    BY <1>1, <2>1, PrefixOf
  <2> HIDE DEF f
  <2>3. \A i \in 1 .. Len(f) : f[i] = s[i]
    BY <1>1, <2>2
  <2>4. f = s
    BY <2>2, <2>3, SeqEqual
  <2>5. QED
    BY <2>4 DEF f
<1>4. Len(Append(s, e)) - 1 = Len(s)
  BY <1>1
<1>5. QED
  BY <1>1, <1>2, <1>3, <1>4

(* A sequence without its last element, and its last element.              *)
LEMMA FrontAndLast ==
  ASSUME NEW s \in Seq(Token), s # << >>
  PROVE  /\ SubSeq(s, 1, Len(s) - 1) \in Seq(Token)
         /\ s[Len(s)] \in Token
         /\ s = SubSeq(s, 1, Len(s) - 1) \o << s[Len(s)] >>
<1>1. Len(s) \in Nat \ {0}
  BY EmptySeq
<1>2. Len(s) \in 1 .. Len(s) /\ 1 \in 1 .. Len(s) /\ Len(s) - 1 \in 0 .. Len(s)
  BY <1>1
<1>3. SubSeq(s, 1, Len(s) - 1) \in Seq(Token) /\ s[Len(s)] \in Token
  BY <1>2, PrefixOf, ElementOfSeq
<1>4. SubSeq(s, 1, Len(s)) = SubSeq(s, 1, Len(s) - 1) \o << s[Len(s)] >>
  BY <1>2, SubSeqRecursiveSecond
<1>5. SubSeq(s, 1, Len(s)) = s
  BY SubSeqFull
<1>6. QED
  BY <1>3, <1>4, <1>5

(* A prefix of a concatenation that reaches into its second part.          *)
LEMMA PrefixOfConcat ==
  ASSUME NEW s \in Seq(Token), NEW t \in Seq(Token), NEW n \in 0 .. Len(t)
  PROVE  SubSeq(s \o t, 1, Len(s) + n) = s \o SubSeq(t, 1, n)
<1> DEFINE u == SubSeq(s \o t, 1, Len(s) + n)
           p == SubSeq(t, 1, n)
           v == s \o p
<1>1. /\ s \o t \in Seq(Token) /\ Len(s) \in Nat /\ Len(t) \in Nat
      /\ Len(s \o t) = Len(s) + Len(t)
      /\ \A i \in 1 .. Len(s) + Len(t) :
           (s \o t)[i] = IF i <= Len(s) THEN s[i] ELSE t[i - Len(s)]
  BY ConcatProperties, LenProperties
<1>2. Len(s) + n \in 0 .. Len(s \o t)
  BY <1>1
<1>3. u \in Seq(Token) /\ Len(u) = Len(s) + n /\ \A i \in 1 .. Len(s) + n : u[i] = (s \o t)[i]
  BY <1>1, <1>2, PrefixOf
<1>4. p \in Seq(Token) /\ Len(p) = n /\ \A i \in 1 .. n : p[i] = t[i]
  BY PrefixOf
<1> HIDE DEF u, p
<1>5. /\ v \in Seq(Token) /\ Len(v) = Len(s) + n
      /\ \A i \in 1 .. Len(s) + n : v[i] = IF i <= Len(s) THEN s[i] ELSE p[i - Len(s)]
  BY <1>4, ConcatProperties
<1> HIDE DEF v
<1>6. ASSUME NEW i \in 1 .. Len(s) + n
      PROVE  u[i] = v[i]
  <2>1. i \in 1 .. Len(s) + Len(t) /\ (i <= Len(s) \/ i - Len(s) \in 1 .. n)
    BY <1>1
  <2>2. QED
    BY <1>1, <1>3, <1>4, <1>5, <2>1
<1>7. u = v
  BY <1>3, <1>5, <1>6, SeqEqual
<1>8. QED
  BY <1>7 DEF u, v, p

(* Every token of s is what the model picks after the rows and the tokens  *)
(* before it.                                                              *)
GreedyAfter(rows, s) ==
  \A i \in 1 .. Len(s) : s[i] = Predict(rows \o SubSeq(s, 1, i - 1))

(* Greedy text, continued greedily, is greedy.                             *)
LEMMA GreedyConcat ==
  ASSUME NEW rows \in Seq(Token), NEW s \in Seq(Token), NEW t \in Seq(Token),
         GreedyAfter(rows, s), GreedyAfter(rows \o s, t)
  PROVE  GreedyAfter(rows, s \o t)
<1>1. /\ s \o t \in Seq(Token) /\ Len(s) \in Nat /\ Len(t) \in Nat
      /\ Len(s \o t) = Len(s) + Len(t)
      /\ \A i \in 1 .. Len(s) + Len(t) :
           (s \o t)[i] = IF i <= Len(s) THEN s[i] ELSE t[i - Len(s)]
  BY ConcatProperties, LenProperties
<1>2. ASSUME NEW i \in 1 .. Len(s) + Len(t)
      PROVE  (s \o t)[i] = Predict(rows \o SubSeq(s \o t, 1, i - 1))
  <2>1. CASE i <= Len(s)
    <3>1. SubSeq(s \o t, 1, i - 1) = SubSeq(s, 1, i - 1)
      <4>1. CASE i = 1
        <5>1. i - 1 \in Int /\ i - 1 < 1
          BY <4>1
        <5>2. QED
          BY <5>1, SubSeqEmpty
      <4>2. CASE i # 1
        <5>1. 1 \in 1 .. Len(s) /\ i - 1 \in 1 .. Len(s)
          BY <1>1, <2>1, <4>2
        <5>2. QED
          BY <5>1, SubSeqOfConcat1
      <4>3. QED
        BY <4>1, <4>2
    <3>2. i \in 1 .. Len(s) /\ (s \o t)[i] = s[i]
      BY <1>1, <2>1
    <3>3. QED
      BY <3>1, <3>2 DEF GreedyAfter
  <2>2. CASE i > Len(s)
    <3> DEFINE j == i - Len(s)
    <3>1. j \in 1 .. Len(t) /\ (s \o t)[i] = t[j] /\ j - 1 \in 0 .. Len(t)
          /\ i - 1 = Len(s) + (j - 1)
      BY <1>1, <2>2
    <3> HIDE DEF j
    <3>2. SubSeq(s \o t, 1, i - 1) = s \o SubSeq(t, 1, j - 1)
      BY <3>1, PrefixOfConcat
    <3>3. SubSeq(t, 1, j - 1) \in Seq(Token)
      BY <3>1, PrefixOf
    <3>4. (rows \o s) \o SubSeq(t, 1, j - 1) = rows \o (s \o SubSeq(t, 1, j - 1))
      BY <3>3, Regroup, ZenonT(30)
    <3>5. t[j] = Predict((rows \o s) \o SubSeq(t, 1, j - 1))
      BY <3>1 DEF GreedyAfter
    <3>6. QED
      BY <3>1, <3>2, <3>4, <3>5
  <2>3. QED
    BY <1>1, <2>1, <2>2
<1>3. QED
  BY <1>1, <1>2 DEF GreedyAfter

(* The prediction itself is greedy text.                                   *)
LEMMA GreedyToken ==
  ASSUME NEW rows \in Seq(Token), NEW token \in Token, token = Predict(rows)
  PROVE  GreedyAfter(rows, << token >>)
<1> SUFFICES ASSUME NEW i \in 1 .. Len(<< token >>)
             PROVE  << token >>[i] = Predict(rows \o SubSeq(<< token >>, 1, i - 1))
  BY DEF GreedyAfter
<1>1. i = 1 /\ i - 1 \in Int /\ i - 1 < 1 /\ << token >>[i] = token
  OBVIOUS
<1>2. SubSeq(<< token >>, 1, i - 1) = << >>
  BY <1>1, SubSeqEmpty
<1>3. rows \o << >> = rows
  BY ConcatEmptySeq
<1>4. QED
  BY <1>1, <1>2, <1>3

-----------------------------------------------------------------------------
(* The steps.                                                              *)

(* What the types say of rows and text.                                    *)
LEMMA TextTypes ==
  ASSUME Inv
  PROVE  /\ kept \in Seq(Token) /\ output \in Seq(Token) /\ Len(output) \in Nat
         /\ base # None => base \in Seq(Token)
         /\ call.drafts \in Seq(Token) /\ logits \in Seq(Token)
BY LenProperties DEF Inv, Types, Call

(* OutputIsGreedy in the terms of these proofs.                            *)
LEMMA OutputAsGreedy == OutputIsGreedy <=> (base # None => GreedyAfter(base, output))
BY DEF OutputIsGreedy, GreedyAfter

(* Before the first call there is no text.                                 *)
LEMMA TextInit == Init => TInv
BY DEF Init, TInv, Rows, Greedy, OutputIsGreedy, MayContinue, Stops, Plain

(* A step into or within a prefill, or one that takes text back.           *)
LEMMA NoBase ==
  ASSUME TInv, base' = None, pc' \in {"idle", "prefill"},
         \/ output' = << >>
         \/ pc = "idle" /\ pc' = "idle" /\ UNCHANGED << output, current >>
  PROVE  TInv'
<1>1. Rows'
  BY DEF Rows
<1>2. Greedy'
  BY DEF Greedy, OutputIsGreedy, MayContinue
<1>3. Stops'
  <2>1. CASE output' = << >>
    BY <2>1 DEF Stops, MayContinue, Plain
  <2>2. CASE pc = "idle" /\ pc' = "idle" /\ UNCHANGED << output, current >>
    BY <2>2 DEF TInv, Stops, MayContinue, Plain, Sent
  <2>3. QED
    BY <2>1, <2>2
<1>4. QED
  BY <1>1, <1>2, <1>3 DEF TInv

(* generate(n) goes on with the text there is.                             *)
LEMMA ContinueText ==
  ASSUME Inv, TInv, NEW max \in 1 .. MaxNew, Continue(max)
  PROVE  TInv'
<1>1. /\ pc = "idle" /\ base # None /\ ~lost /\ status # "INTERNAL_ERROR"
      /\ UNCHANGED << strategy, kept, output, logits, valid, base, lost >>
  BY DEF Continue, Idle, history, Running, Errors
<1>2. CASE IsStop(current)
  <2>1. status' = "NORMAL_FINISHED" /\ UNCHANGED << current, pc, call >>
    BY <1>2 DEF Continue
  <2>2. Rows'
    BY <1>1, <2>1 DEF TInv, Rows, Whole, Short, Plain, Sent
  <2>3. ~MayContinue'
    BY <1>1, <1>2, <2>1 DEF MayContinue
  <2>4. Greedy'
    BY <1>1, <2>1, <2>3 DEF TInv, Greedy, OutputIsGreedy
  <2>5. Stops'
    BY <1>1, <2>1, <2>3 DEF TInv, Stops, Plain, Sent
  <2>6. QED
    BY <2>2, <2>4, <2>5 DEF TInv
<1>3. CASE ~IsStop(current)
  <2>1. /\ pc' = "loop" /\ status' = status /\ logits' = logits
        /\ current' = IF strategy = "lookahead" /\ current = NoToken
                      THEN logits[1] ELSE current
    BY <1>3 DEF Continue, EnterLoop
  <2>2. Whole /\ (Strict => Plain(output))
    BY <1>1, <1>3 DEF TInv, Rows
  <2>3. MayContinue
    BY <1>1, <1>3 DEF MayContinue
  <2>4. Rows'
    BY <1>1, <2>1, <2>2 DEF Rows, Whole
  <2>5. logits \in Seq(Token) /\ 1 \in 1 .. Len(logits) /\ NoToken \notin Token
    BY <1>1, LenProperties, GenerationAssumption DEF Inv, Ready, Types
  <2>6. strategy = "lookahead" => current' # NoToken
    BY <2>1, <2>5, ElementOfSeq
  <2>7. Greedy'
    BY <1>1, <2>1, <2>3, <2>6 DEF TInv, Greedy, OutputIsGreedy
  <2>8. Stops'
    BY <1>1, <2>1, <2>2, <2>3, <2>6 DEF TInv, Stops, Plain, Sent
  <2>9. QED
    BY <2>4, <2>7, <2>8 DEF TInv
<1>4. QED
  BY <1>2, <1>3

(* The prediction that a forward leaves for the next token to be sampled.  *)
LEMMA LastPrediction ==
  ASSUME PredictsTokens, kept \in Seq(Token),
         NEW toks \in Seq(Token), toks # << >>, NEW junk \in Junk
  PROVE  /\ Outputs(toks, FALSE, junk)[IF junk = << >> THEN 1 ELSE Len(toks)]
              = Predict(kept \o toks)
         /\ (strategy = "lookahead" /\ Unpadded) => junk = << >>
<1>1. junk \in Seq(Token)
  BY JunkTokens
<1>2. CASE junk = << >>
  BY <1>1, <1>2, OutputsOf
<1>3. CASE junk # << >>
  <2>1. Len(toks) \in 1 .. Len(toks) /\ SubSeq(toks, 1, Len(toks)) = toks
    <3>1. Len(toks) \in Nat \ {0}
      BY EmptySeq
    <3>2. QED
      BY <3>1, SubSeqFull
  <2>2. Outputs(toks, FALSE, junk)[Len(toks)] = Predict(kept \o SubSeq(toks, 1, Len(toks)))
    BY <1>1, <1>3, <2>1, OutputsOf
  <2>3. QED
    BY <1>3, <2>1, <2>2 DEF Junk, Unpadded
<1>4. QED
  BY <1>2, <1>3

(* After the last piece the rows are the prompt.                           *)
LEMMA PrefillPieceText ==
  ASSUME PredictsTokens, Inv, Inv', TInv, NEW junk \in Junk, PrefillPiece(junk)
  PROVE  TInv'
<1>1. /\ pc = "prefill" /\ Conv!Forward(Piece)
      /\ logits' = Outputs(Piece, FALSE, junk)
      /\ valid' = IF junk = << >> THEN 1 ELSE Len(Piece)
      /\ Rest = << >> => MayPrompt(kept')
      /\ UNCHANGED << strategy, output, lost >>
  BY DEF PrefillPiece, Piece, Rest
<1>2. \/ pc' = "prefill" /\ base' = base
      \/ Rest = << >> /\ AfterPrefill
      \/ pc' = "idle" /\ base' = base
  BY <1>1 DEF PrefillPiece, Piece, Rest
<1>3. base = None /\ output = << >> /\ current = NoToken
  BY <1>1 DEF Inv, Prefilling
<1>4. CASE base' = base /\ pc' \in {"prefill", "idle"}
  BY <1>1, <1>3, <1>4, NoBase
<1>5. CASE Rest = << >> /\ AfterPrefill
  <2>1. Piece \in Seq(Token) /\ Piece # << >> /\ kept \in Seq(Token)
    BY <1>1, PieceCounted DEF Inv, Types
  <2>2. kept' = kept \o Piece /\ kept' \in Seq(Token)
    BY <1>1, <2>1, ForwardAppends
  <2>3. logits'[valid'] = Predict(kept')
    BY <1>1, <2>1, <2>2, LastPrediction
  <2>4. (strategy = "lookahead" /\ Unpadded) => valid' = 1
    BY <1>1, <2>1, LastPrediction
  <2>5. base' = kept' /\ output' = << >> /\ pc' \in {"loop", "idle"} /\ status' = status
    BY <1>1, <1>3, <1>5 DEF AfterPrefill
  <2>6. /\ pc' = "idle" => current' = NoToken
        /\ pc' = "loop" => current' = IF strategy = "lookahead" THEN logits'[1] ELSE current
    BY <1>3, <1>5 DEF AfterPrefill, EnterLoop
  <2>7. status # "INTERNAL_ERROR"
    BY <1>1 DEF Inv, AtWork, Running, Errors
  <2>8. kept' \o << >> = kept'
    BY <2>2, ConcatEmptySeq
  <2>9. Plain(output')
    BY <2>5 DEF Plain
  <2>10. Rows'
    BY <2>5, <2>7, <2>8, <2>9 DEF Rows, Whole, Plain
  <2>11. (pc' = "loop" /\ strategy = "lookahead") => current' # NoToken
    BY <1>1, GenerationAssumption DEF Inv, Ready
  <2>12. Greedy'
    <3>1. OutputIsGreedy'
      BY <2>5 DEF OutputIsGreedy
    <3>2. strategy' = strategy
      BY <1>1
    <3>3. CASE pc' = "idle"
      BY <2>3, <2>4, <2>5, <2>6, <3>1, <3>2, <3>3 DEF Greedy, MayContinue
    <3>4. CASE pc' = "loop"
      <4>1. CASE strategy = "lookahead"
        BY <2>3, <2>4, <2>5, <2>6, <2>11, <3>1, <3>2, <3>4, <4>1 DEF Greedy, MayContinue
      <4>2. CASE strategy # "lookahead"
        BY <2>3, <2>5, <3>1, <3>2, <3>4, <4>2 DEF Greedy, MayContinue
      <4>3. QED
        BY <4>1, <4>2
    <3>5. QED
      BY <2>5, <3>3, <3>4
  <2>13. (strategy = "lookahead" /\ Strict) => ~IsStop(logits'[1])
    <3>1. Strict => "empty_reply" \notin Situations /\ Unpadded
      BY DEF Strict, Unpadded
    <3>2. QED
      BY <1>1, <1>5, <2>3, <2>4, <3>1 DEF MayPrompt
  <2>14. Stops'
    BY <1>1, <2>5, <2>6, <2>9, <2>11, <2>13 DEF Stops, MayContinue, Plain
  <2>15. QED
    BY <2>10, <2>12, <2>14 DEF TInv
<1>6. QED
  BY <1>2, <1>4, <1>5

(* A call that failed leaves no text to go on with.                        *)
LEMMA FailForwardText ==
  ASSUME Inv, TInv, FailForward
  PROVE  TInv'
<1>1. /\ pc \in {"prefill", "forward", "draft"}
      /\ status' = "INTERNAL_ERROR" /\ pc' = "idle"
      /\ UNCHANGED << strategy, output, current, base >>
      /\ UNCHANGED << kept, lost >> \/ lost' = TRUE
  BY DEF FailForward, history
<1>2. Ready /\ Prefilling
  BY DEF Inv
<1>3. ~MayContinue'
  BY <1>1 DEF MayContinue
<1>4. Greedy'
  BY <1>1, <1>3 DEF TInv, Greedy, OutputIsGreedy
<1>5. Stops'
  BY <1>1, <1>3 DEF TInv, Stops, Plain, Sent
<1>6. Rows'
  <2> SUFFICES ASSUME base # None, ~lost', UNCHANGED << kept, lost >>
               PROVE  \/ /\ Whole
                         /\ strategy = "lookahead"
                         /\ Strict => Plain(output)
                      \/ Short /\ strategy = "ar"
    BY <1>1 DEF Rows, Whole, Short, Sent, Plain
  <2>1. CASE pc = "prefill"
    BY <1>2, <2>1 DEF Prefilling
  <2>2. CASE pc = "forward"
    BY <1>2, <2>2 DEF TInv, Rows, Ready
  <2>3. CASE pc = "draft"
    BY <1>2, <2>3 DEF TInv, Rows, Stops, Ready
  <2>4. QED
    BY <1>1, <2>1, <2>2, <2>3
<1>7. QED
  BY <1>4, <1>5, <1>6 DEF TInv

(* A loop that is left without a further token keeps the invariant.        *)
LEMMA LoopLeftText ==
  ASSUME Inv, TInv, pc = "loop", pc' = "idle",
         (status' = "INTERNAL_ERROR") => lost,
         UNCHANGED << strategy, kept, output, current, logits, valid, base, lost >>
  PROVE  TInv'
<1>1. MayContinue' => MayContinue
  BY DEF MayContinue, Inv, AtWork, Running, Errors
<1>2. Greedy'
  BY <1>1 DEF TInv, Greedy, OutputIsGreedy
<1>3. Stops'
  BY <1>1 DEF TInv, Stops, Plain, Sent
<1>4. Rows'
  BY DEF TInv, Rows, Stops, Whole, Plain
<1>5. QED
  BY <1>2, <1>3, <1>4 DEF TInv

(* The three ways to leave the loop keep it.                               *)
LEMMA LoopEndsText ==
  ASSUME Inv, TInv, Finish \/ Abort \/ Expire
  PROVE  TInv'
<1>1. Abort => lost
  BY DEF Abort, Inv, AtWork, Running, Errors
<1>2. QED
  BY <1>1, LoopLeftText DEF Finish, Abort, Expire, history, context

(* The sampled token continues the text and is not forwarded yet.          *)
LEMMA SampleTokenText ==
  ASSUME Inv, TInv, SampleToken
  PROVE  TInv'
<1> DEFINE token == logits[valid]
<1>1. /\ strategy = "ar" /\ pc = "loop" /\ status # "INTERNAL_ERROR"
      /\ current' = token /\ output' = Append(output, token)
      /\ UNCHANGED << strategy, kept, base, lost >>
      /\ \/ IsStop(token) /\ pc' = "idle"
         \/ ~IsStop(token) /\ pc' = "forward"
  BY DEF SampleToken, history
<1>2. ~lost /\ base # None
  BY <1>1 DEF Inv, AtWork, Ready
<1>3. token \in Token
  BY <1>1, <1>2, TextTypes, ElementOfSeq DEF Inv, Ready
<1>4. /\ output \in Seq(Token) /\ base \in Seq(Token) /\ kept = base \o output
      /\ Strict => Plain(output)
  BY <1>1, <1>2, TextTypes DEF TInv, Rows, Whole, Stops
<1>5. Unpadded => token = Predict(base \o output)
  <2>1. MayContinue /\ strategy # "lookahead"
    BY <1>1, <1>2 DEF MayContinue
  <2>2. QED
    BY <1>4, <2>1 DEF TInv, Greedy
<1> HIDE DEF token
<1>6. /\ output' \in Seq(Token) /\ output' # << >> /\ output' = output \o << token >>
      /\ Sent' = output /\ output'[Len(output')] = token
  BY <1>1, <1>3, <1>4, FrontOfAppend DEF Sent
<1>7. ~MayContinue'
  BY <1>1 DEF MayContinue
<1>8. Rows'
  <2>1. Short'
    BY <1>1, <1>4, <1>6 DEF Short
  <2>2. QED
    BY <1>1, <1>6, <2>1 DEF Rows
<1>9. Greedy'
  <2> SUFFICES ASSUME Unpadded
               PROVE  OutputIsGreedy'
    BY <1>1, <1>7 DEF Greedy
  <2>1. GreedyAfter(base, output)
    BY <1>2, OutputAsGreedy DEF TInv, Greedy
  <2>2. base \o output \in Seq(Token)
    BY <1>4, ConcatProperties
  <2>3. GreedyAfter(base \o output, << token >>) /\ << token >> \in Seq(Token)
    <3> DEFINE rows == base \o output
    <3>1. rows \in Seq(Token) /\ token = Predict(rows)
      BY <1>5, <2>2
    <3> HIDE DEF rows
    <3>2. GreedyAfter(rows, << token >>)
      BY <1>3, <3>1, GreedyToken
    <3>3. QED
      BY <1>3, <3>2 DEF rows
  <2>4. GreedyAfter(base, output')
    BY <1>4, <1>6, <2>1, <2>3, GreedyConcat
  <2>5. QED
    BY <1>1, <2>4 DEF OutputIsGreedy, GreedyAfter
<1>10. Stops'
  <2> SUFFICES ASSUME Strict
               PROVE  /\ pc' # "idle" => Plain(output')
                      /\ Plain(output') \/ (IsStop(current') /\ Plain(Sent'))
    BY <1>1, <1>7 DEF Stops
  <2>1. ~IsStop(token) => Plain(output')
    <3>1. ~IsStop(token) => Plain(<< token >>) /\ << token >> \in Seq(Token)
      BY <1>3, PlainToken
    <3>2. QED
      BY <1>4, <1>6, <3>1, PlainConcat
  <2>2. QED
    BY <1>1, <1>4, <1>6, <2>1
<1>11. QED
  BY <1>8, <1>9, <1>10 DEF TInv

(* The token forwarded is the one the rows lacked.                         *)
LEMMA ForwardTokenText ==
  ASSUME PredictsTokens, Inv, TInv, NEW junk \in Junk, ForwardToken(junk)
  PROVE  TInv'
<1> DEFINE toks == << current >>
<1>1. /\ pc = "forward" /\ Conv!Forward(toks)
      /\ logits' = Outputs(toks, FALSE, junk)
      /\ valid' = 1 /\ pc' = "loop"
      /\ UNCHANGED << strategy, output, current, status, base, lost >>
  BY DEF ForwardToken
<1>2. base # None /\ ~lost /\ strategy = "ar" /\ current \in Token
  BY <1>1 DEF Inv, AtWork, Ready
<1>3. /\ output # << >> /\ kept = base \o Sent /\ current = output[Len(output)]
      /\ Strict => Plain(output)
  BY <1>1, <1>2 DEF TInv, Rows, Short, Stops
<1>4. /\ output \in Seq(Token) /\ base \in Seq(Token) /\ kept \in Seq(Token)
      /\ toks \in Seq(Token) /\ toks # << >> /\ Len(toks) = 1
  BY <1>2, TextTypes
<1>5. Sent \in Seq(Token) /\ output = Sent \o toks
  BY <1>3, <1>4, FrontAndLast DEF Sent
<1> HIDE DEF toks
<1>6. kept' = base \o output
  <2>1. kept' = (base \o Sent) \o toks
    BY <1>1, <1>3, <1>4, ForwardAppends
  <2>2. (base \o Sent) \o toks = base \o (Sent \o toks)
    BY <1>4, <1>5, Regroup, SMTT(30)
  <2>3. QED
    BY <1>5, <2>1, <2>2
<1>7. logits'[1] = Predict(kept')
  <2>1. kept' = kept \o toks
    BY <1>1, <1>4, ForwardAppends
  <2>2. (IF junk = << >> THEN 1 ELSE Len(toks)) = 1
    BY <1>4
  <2>3. Outputs(toks, FALSE, junk)[IF junk = << >> THEN 1 ELSE Len(toks)]
          = Predict(kept \o toks)
    BY <1>4, LastPrediction
  <2>4. QED
    BY <1>1, <2>1, <2>2, <2>3
<1>8. Rows'
  BY <1>1, <1>6 DEF Rows, Whole
<1>9. Greedy'
  BY <1>1, <1>2, <1>7 DEF TInv, Greedy, OutputIsGreedy
<1>10. Stops'
  BY <1>1, <1>2, <1>3 DEF Stops, Plain
<1>11. QED
  BY <1>8, <1>9, <1>10 DEF TInv

(* An output that cannot be read ends the text.                            *)
LEMMA ForwardUnreadableText ==
  ASSUME Inv, TInv, ForwardUnreadable
  PROVE  TInv'
<1>1. /\ pc = "forward" /\ lost' = TRUE /\ pc' = "loop"
      /\ UNCHANGED << output, current, base >>
  BY DEF ForwardUnreadable
<1>2. Rows' /\ ~MayContinue'
  BY <1>1 DEF Rows, MayContinue
<1>3. Greedy'
  BY <1>1, <1>2 DEF TInv, Greedy, OutputIsGreedy
<1>4. Stops'
  BY <1>1, <1>2 DEF TInv, Stops, Plain
<1>5. QED
  BY <1>2, <1>3, <1>4 DEF TInv

(* Drafts do not change the text.                                          *)
LEMMA DraftText ==
  ASSUME Inv, TInv, NEW guess \in SeqsUpTo(Token, DraftLen), Draft(guess)
  PROVE  TInv'
<1> DEFINE drafts == << current >> \o guess
<1>1. /\ strategy = "lookahead" /\ pc = "loop" /\ status # "INTERNAL_ERROR"
      /\ call' = [ call EXCEPT !.drafts = drafts ] /\ pc' = "draft"
      /\ UNCHANGED << strategy, kept, output, current, status, logits, valid,
                      base, lost >>
  BY DEF Draft, history
<1>2. base # None /\ ~lost /\ current \in Token /\ current # NoToken /\ call \in Call
  BY <1>1, GenerationAssumption DEF Inv, AtWork, Ready, Types
<1>3. call'.drafts[1] = current
  <2>1. guess \in Seq(Token) /\ << current >> \in Seq(Token) /\ Len(<< current >>) = 1
    BY <1>2, SomeTokens, GenerationAssumption
  <2>2. 1 \in 1 .. Len(<< current >>) + Len(guess)
    BY <2>1, LenProperties
  <2>3. drafts[1] = << current >>[1]
    BY <2>1, <2>2, ConcatProperties
  <2> HIDE DEF drafts
  <2>4. call'.drafts = drafts
    BY <1>1, <1>2 DEF Call
  <2>5. QED
    BY <2>3, <2>4
<1>4. MayContinue
  BY <1>1, <1>2 DEF MayContinue
<1>5. ~MayContinue'
  BY <1>1 DEF MayContinue
<1>6. Rows'
  BY <1>1, <1>2, <1>3 DEF TInv, Rows, Whole
<1>7. Greedy'
  BY <1>1, <1>2, <1>4, <1>5 DEF TInv, Greedy, OutputIsGreedy
<1>8. Stops'
  BY <1>1, <1>2, <1>4, <1>5 DEF TInv, Stops, Plain
<1>9. QED
  BY <1>6, <1>7, <1>8 DEF TInv

(* Drafts follow the text in the rows, until they are verified.            *)
LEMMA ForwardDraftsText ==
  ASSUME PredictsTokens, Inv, TInv, NEW junk \in Junk, ForwardDrafts(junk)
  PROVE  TInv'
<1> DEFINE drafts == call.drafts
<1>1. /\ pc = "draft" /\ Conv!Forward(drafts)
      /\ logits' = Outputs(drafts, TRUE, junk) /\ pc' = "verify"
      /\ UNCHANGED << strategy, output, current, call, base, lost >>
  BY DEF ForwardDrafts, context
<1>2. base # None /\ ~lost /\ strategy = "lookahead" /\ drafts # << >>
  BY <1>1 DEF Inv, AtWork, Ready
<1>3. /\ drafts \in Seq(Token) /\ kept \in Seq(Token) /\ junk \in Seq(Token)
      /\ Len(drafts) \in Nat
  BY TextTypes, JunkTokens, LenProperties
<1>4. kept = base \o output /\ drafts[1] = current
  BY <1>1, <1>2 DEF TInv, Rows, Whole
<1>5. kept' = kept \o drafts
  BY <1>1, <1>3, ForwardAppends
<1>6. ~MayContinue'
  BY <1>1 DEF MayContinue
<1>7. Rows'
  BY <1>1, <1>4, <1>5 DEF Rows
<1>8. Greedy'
  <2> SUFFICES ASSUME Unpadded
               PROVE  /\ OutputIsGreedy' /\ current' = Predict((base \o output)')
                      /\ \A i \in 1 .. Len(call'.drafts) :
                           Prediction(i)' = Predict((base \o output)' \o SubSeq(call'.drafts, 1, i))
    BY <1>1, <1>6 DEF Greedy
  <2>1. OutputIsGreedy' /\ current' = Predict(base \o output)
    BY <1>1, <1>4 DEF TInv, Greedy, OutputIsGreedy
  <2>2. junk = << >>
    BY <1>2 DEF Junk, Unpadded
  <2>3. /\ Len(logits') = Len(drafts) + Len(junk)
        /\ \A i \in 1 .. Len(drafts) : logits'[i] = Predict(kept \o SubSeq(drafts, 1, i))
    <3> HIDE DEF drafts
    <3>1. logits' = Outputs(drafts, TRUE, junk)
      BY <1>1
    <3>2. TRUE \in BOOLEAN
      OBVIOUS
    <3>3. QED
      BY <1>2, <1>3, <3>1, <3>2, OutputsOf, ZenonT(30)
  <2>4. \A i \in 1 .. Len(drafts) : Len(logits') - Len(drafts) + i = i
    <3>1. Len(logits') = Len(drafts)
      BY <1>3, <2>2, <2>3
    <3> HIDE DEF drafts
    <3>2. QED
      BY <1>3, <3>1
  <2>5. call' = call
    BY <1>1
  <2>6. ASSUME NEW i \in 1 .. Len(drafts)
        PROVE  Prediction(i)' = Predict((base \o output) \o SubSeq(drafts, 1, i))
    <3>1. Prediction(i)' = logits'[Len(logits') - Len(drafts) + i]
      BY <2>5 DEF Prediction
    <3>2. QED
      BY <1>4, <2>3, <2>4, <3>1
  <2>7. QED
    BY <1>1, <2>1, <2>5, <2>6
<1>9. Stops'
  BY <1>1, <1>6 DEF TInv, Stops, Plain
<1>10. QED
  BY <1>7, <1>8, <1>9 DEF TInv

(* The accepted drafts are what sampling one token at a time would have    *)
(* picked, and so is the prediction after them.                            *)
LEMMA AcceptedAreGreedy ==
  ASSUME NEW rows \in Seq(Token), NEW d \in Seq(Token), NEW n \in 1 .. Len(d),
         NEW p, d[1] = Predict(rows),
         \A i \in 1 .. Len(d) : p[i] = Predict(rows \o SubSeq(d, 1, i)),
         \A i \in 1 .. n - 1 : p[i] = d[i + 1]
  PROVE  GreedyAfter(rows, SubSeq(d, 1, n)) /\ p[n] = Predict(rows \o SubSeq(d, 1, n))
<1> DEFINE t == SubSeq(d, 1, n)
<1>1. Len(d) \in Nat /\ n \in 0 .. Len(d)
  BY LenProperties
<1>2. t \in Seq(Token) /\ Len(t) = n /\ \A i \in 1 .. n : t[i] = d[i]
  BY <1>1, PrefixOf
<1>3. ASSUME NEW i \in 1 .. n
      PROVE  t[i] = Predict(rows \o SubSeq(t, 1, i - 1))
  <2>1. CASE i = 1
    <3>1. i - 1 \in Int /\ i - 1 < 1
      BY <2>1
    <3>2. SubSeq(t, 1, i - 1) = << >>
      BY <3>1, SubSeqEmpty
    <3>3. rows \o << >> = rows
      BY ConcatEmptySeq
    <3>4. t[i] = d[1]
      BY <1>2, <2>1
    <3>5. QED
      BY <3>2, <3>3, <3>4
  <2>2. CASE i # 1
    <3> DEFINE j == i - 1
    <3>1. /\ j \in 1 .. n - 1 /\ j \in 1 .. Len(d) /\ j + 1 = i
          /\ 1 \in 1 .. Len(d) /\ j \in 1 .. n - 1 + 1 /\ 1 \in 1 .. n - 1 + 1
          /\ 1 + 1 - 1 = 1 /\ 1 + j - 1 = j
      BY <1>1, <2>2
    <3> HIDE DEF j
    <3>2. SubSeq(SubSeq(d, 1, n), 1, j) = SubSeq(d, 1 + 1 - 1, 1 + j - 1)
      BY <3>1, SubSeqOfSubSeq
    <3>3. SubSeq(t, 1, j) = SubSeq(d, 1, j)
      BY <3>1, <3>2
    <3>4. t[i] = p[j]
      BY <1>2, <3>1
    <3>5. p[j] = Predict(rows \o SubSeq(d, 1, j))
      BY <3>1
    <3>6. t[i] = Predict(rows \o SubSeq(t, 1, j))
      BY <3>3, <3>4, <3>5
    <3>7. QED
      BY <3>6 DEF j
  <2>3. QED
    BY <2>1, <2>2
<1>4. GreedyAfter(rows, t)
  BY <1>2, <1>3 DEF GreedyAfter
<1>5. QED
  BY <1>4

(* Drafts that are accepted are what the model predicts.                   *)
LEMMA VerifyText ==
  ASSUME Inv, TInv, Verify
  PROVE  TInv'
<1> DEFINE drafts == call.drafts
           n == LoopEnd
           next == Prediction(n)
           appended == SubSeq(drafts, 1, n)
           text == output \o appended
           rows == base \o output
<1>1. /\ pc = "verify" /\ DropRejected(n) /\ current' = next
      /\ UNCHANGED << strategy, base, lost >>
      /\ \/ IsStop(next) /\ output' = Append(text, next) /\ pc' = "idle"
         \/ ~IsStop(next) /\ output' = text /\ pc' = "loop" /\ status' = status
  BY DEF Verify, Accepted
<1>2. base # None /\ ~lost /\ strategy = "lookahead" /\ drafts # << >>
  BY <1>1 DEF Inv, AtWork, Ready
<1>3. /\ drafts \in Seq(Token) /\ Len(drafts) \in Nat
      /\ base \in Seq(Token) /\ output \in Seq(Token) /\ rows \in Seq(Token)
      /\ Len(rows) \in Nat
  <2>1. drafts \in Seq(Token) /\ base \in Seq(Token) /\ output \in Seq(Token)
    BY <1>2, TextTypes
  <2>2. rows \in Seq(Token)
    BY <2>1, ConcatProperties
  <2>3. QED
    BY <2>1, <2>2, LenProperties
<1>4. kept = rows \o drafts /\ drafts[1] = current
  BY <1>1, <1>2 DEF TInv, Rows
<1>5. /\ n \in 1 .. Len(drafts) /\ n \in 0 .. Len(drafts)
      /\ \A j \in 1 .. n - 1 : ~IsStop(Prediction(j)) /\ Prediction(j) = drafts[j + 1]
  <2>1. /\ n \in 1 .. Len(drafts)
        /\ \A j \in 1 .. n - 1 : ~IsStop(Prediction(j)) /\ Prediction(j) = drafts[j + 1]
    BY <1>2, <1>3, LoopEndIsFirst
  <2> HIDE DEF n, drafts
  <2>2. n \in 0 .. Len(drafts)
    BY <1>3, <2>1
  <2>3. QED
    BY <2>1, <2>2
<1>6. next \in Token
  BY <1>1, <1>5, PredictionType DEF Inv
<1>7. appended \in Seq(Token) /\ Len(appended) = n /\ \A i \in 1 .. n : appended[i] = drafts[i]
  BY <1>3, <1>5, PrefixOf
<1>8. kept' = rows \o appended
  <2>1. kept' = SubSeq(kept, 1, Len(kept) - Len(drafts) + n)
    BY <1>1, <1>5, DropsRejected DEF Inv
  <2>2. Len(kept) = Len(rows) + Len(drafts)
    BY <1>3, <1>4, ConcatProperties
  <2> HIDE DEF rows, drafts, n
  <2>3. Len(kept) - Len(drafts) + n = Len(rows) + n
    BY <1>3, <1>5, <2>2
  <2>4. SubSeq(rows \o drafts, 1, Len(rows) + n) = rows \o SubSeq(drafts, 1, n)
    BY <1>3, <1>5, PrefixOfConcat
  <2>5. QED
    BY <1>4, <2>1, <2>3, <2>4
<1>9. text \in Seq(Token) /\ kept' = base \o text
  <2>1. text \in Seq(Token)
    BY <1>3, <1>7, ConcatProperties
  <2>2. kept' = (base \o output) \o appended
    BY <1>8
  <2> HIDE DEF appended
  <2>3. (base \o output) \o appended = base \o (output \o appended)
    BY <1>3, <1>7, Regroup, SMTT(30)
  <2>4. QED
    BY <2>1, <2>2, <2>3
<1>10. Unpadded => /\ GreedyAfter(rows, appended)
                   /\ next = Predict(rows \o appended)
                   /\ GreedyAfter(base, output)
  <2> SUFFICES ASSUME Unpadded
               PROVE  /\ GreedyAfter(rows, appended)
                      /\ next = Predict(rows \o appended)
                      /\ GreedyAfter(base, output)
    OBVIOUS
  <2>1. /\ current = Predict(rows)
        /\ \A i \in 1 .. Len(drafts) : Prediction(i) = Predict(rows \o SubSeq(drafts, 1, i))
        /\ GreedyAfter(base, output)
    BY <1>1, <1>2, OutputAsGreedy DEF TInv, Greedy
  <2> DEFINE p == [ i \in 1 .. Len(drafts) |-> Prediction(i) ]
  <2>2. \A i \in 1 .. Len(drafts) : p[i] = Prediction(i)
    OBVIOUS
  <2>3. \A i \in 1 .. n - 1 : i \in 1 .. Len(drafts)
    <3> HIDE DEF n, drafts
    <3>1. QED
      BY <1>3, <1>5
  <2> HIDE DEF p, n, drafts, rows
  <2>4. /\ \A i \in 1 .. Len(drafts) : p[i] = Predict(rows \o SubSeq(drafts, 1, i))
        /\ \A i \in 1 .. n - 1 : p[i] = drafts[i + 1]
        /\ drafts[1] = Predict(rows)
    BY <1>4, <1>5, <2>1, <2>2, <2>3
  <2>5. GreedyAfter(rows, SubSeq(drafts, 1, n)) /\ p[n] = Predict(rows \o SubSeq(drafts, 1, n))
    BY <1>3, <1>5, <2>4, AcceptedAreGreedy
  <2>6. QED
    BY <1>5, <2>1, <2>2, <2>5
<1>11. Strict => Plain(text)
  <2> SUFFICES ASSUME Strict
               PROVE  Plain(text)
    OBVIOUS
  <2>1. Plain(output) /\ ~IsStop(drafts[1])
    BY <1>1, <1>4 DEF TInv, Stops
  <2>2. ASSUME NEW i \in 1 .. n
        PROVE  ~IsStop(appended[i])
    <3>1. appended[i] = drafts[i]
      BY <1>7
    <3>2. CASE i = 1
      BY <2>1, <3>1, <3>2
    <3>3. CASE i # 1
      <4> HIDE DEF n, drafts, appended
      <4>1. i - 1 \in 1 .. n - 1 /\ (i - 1) + 1 = i
        BY <1>3, <1>5, <3>3
      <4>2. QED
        BY <1>5, <3>1, <4>1
    <3>4. QED
      BY <3>2, <3>3
  <2>3. Plain(appended)
    BY <1>7, <2>2 DEF Plain
  <2>4. QED
    BY <1>3, <1>7, <2>1, <2>3, PlainConcat
<1> HIDE DEF next, n, drafts
<1>12. CASE IsStop(next) /\ output' = Append(text, next) /\ pc' = "idle"
  <2> HIDE DEF text
  <2>1. /\ output' # << >> /\ output' = text \o << next >>
        /\ Sent' = text /\ output'[Len(output')] = next
    BY <1>6, <1>9, <1>12, FrontOfAppend DEF Sent
  <2>2. ~MayContinue'
    BY <1>1, <1>12 DEF MayContinue
  <2>3. Rows'
    BY <1>1, <1>9, <1>12, <2>1 DEF Rows, Short
  <2>4. Greedy'
    <3> SUFFICES ASSUME Unpadded
                 PROVE  GreedyAfter(base, output')
      BY <1>1, <1>12, <2>2 DEF Greedy, OutputIsGreedy, GreedyAfter
    <3>1. GreedyAfter(base, text)
      BY <1>3, <1>7, <1>10, GreedyConcat DEF text
    <3>2. rows \o appended = base \o text
      BY <1>8, <1>9
    <3> DEFINE before == base \o text
    <3>3. before \in Seq(Token) /\ next = Predict(before) /\ << next >> \in Seq(Token)
      <4>1. before \in Seq(Token)
        BY <1>3, <1>9, ConcatProperties
      <4>2. next = Predict(before)
        BY <1>10, <3>2
      <4>3. << next >> \in Seq(Token)
        BY <1>6
      <4>4. QED
        BY <4>1, <4>2, <4>3
    <3> HIDE DEF before
    <3>4. GreedyAfter(before, << next >>)
      BY <1>6, <3>3, GreedyToken
    <3>5. QED
      BY <1>3, <1>9, <2>1, <3>1, <3>3, <3>4, GreedyConcat DEF before
  <2>5. Stops'
    BY <1>1, <1>11, <1>12, <2>1, <2>2 DEF Stops
  <2>6. QED
    BY <2>3, <2>4, <2>5 DEF TInv
<1>13. CASE ~IsStop(next) /\ output' = text /\ pc' = "loop" /\ status' = status
  <2>1. Rows'
    BY <1>1, <1>9, <1>13 DEF Rows, Whole
  <2>2. current' # NoToken
    BY <1>1, <1>6, GenerationAssumption
  <2>3. Greedy'
    <3> SUFFICES ASSUME Unpadded
                 PROVE  GreedyAfter(base, output') /\ current' = Predict(kept')
      BY <1>1, <1>2, <1>13, <2>2 DEF Greedy, OutputIsGreedy, GreedyAfter
    <3>1. GreedyAfter(base, text)
      BY <1>3, <1>7, <1>10, GreedyConcat
    <3>2. QED
      BY <1>1, <1>8, <1>10, <1>13, <3>1
  <2>4. Stops'
    BY <1>1, <1>2, <1>11, <1>13, <2>2 DEF Stops
  <2>5. QED
    BY <2>1, <2>3, <2>4 DEF TInv
<1>14. QED
  BY <1>1, <1>12, <1>13

(* Every step keeps the text.                                              *)
LEMMA TextNext == PredictsTokens /\ Inv /\ TInv /\ [Next]_vars => TInv'
<1> SUFFICES ASSUME PredictsTokens, Inv, TInv, [Next]_vars
             PROVE  TInv'
  OBVIOUS
<1>1. Inv'
  BY InvNext
<1>2. ASSUME NEW ids \in Prompts, NEW max \in 0 .. MaxNew,
             NEW multimodal \in BOOLEAN, NEW reuseKV \in BOOLEAN,
             Respond(ids, max, multimodal, reuseKV)
      PROVE  TInv'
  BY <1>2, NoBase DEF Respond
<1>3. ASSUME NEW mark \in 0 .. MaxRows, Rollback(mark)
      PROVE  TInv'
  BY <1>3, NoBase DEF Rollback, Idle
<1>4. CASE Reset
  BY <1>4, NoBase DEF Reset, Idle
<1>5. CASE Engine
  BY <1>1, <1>5, PrefillPieceText, FailForwardText, LoopEndsText, SampleTokenText,
     ForwardTokenText, ForwardUnreadableText, DraftText, ForwardDraftsText,
     VerifyText DEF Engine
<1>6. CASE UNCHANGED vars
  BY <1>6, ZenonT(30) DEF vars, history, context, TInv, Rows, Whole, Short, Sent, Greedy,
              OutputIsGreedy, Prediction, MayContinue, Stops, Plain
<1>7. QED
  BY <1>2, <1>3, <1>4, <1>5, <1>6, ContinueText DEF Next, Caller

(* The invariant of rows and text holds in every state.                    *)
LEMMA TextInvariant ==
  ASSUME PredictsTokens
  PROVE  Spec => []TInv
<1>1. Inv /\ TInv /\ [Next]_vars => TInv'
  BY TextNext
<1>2. QED
  BY <1>1, TextInit, InvCorrect, PTL DEF Spec

-----------------------------------------------------------------------------
(* Theorems.                                                               *)

(* Speculation changes the speed of a response, never its text: every      *)
(* token of the output is the one the model picks after the prompt and the *)
(* tokens before it, for either strategy, any guesses of the n-gram cache  *)
(* and any calls, unless lookahead samples from padded blocks.             *)
THEOREM OutputCorrect ==
  ASSUME PredictsTokens, "padded" \notin Situations
  PROVE  Spec => []OutputIsGreedy
<1>1. TInv => OutputIsGreedy
  BY DEF TInv, Greedy, Unpadded
<1>2. QED
  BY <1>1, TextInvariant, PTL

(* The rows kept for the next forward are the prompt and the output, less  *)
(* a last token that was not forwarded: no rejected draft is among them.   *)
THEOREM RowsCorrect ==
  ASSUME PredictsTokens, Situations = {}
  PROVE  Spec => []RowsMatchOutput
<1>1. ASSUME Inv, TInv, base # None, ~lost, pc # "verify"
      PROVE  LET unforwarded == \/ pc = "forward"
                                \/ output # << >> /\ IsStop(output[Len(output)])
                                \/ status = "INTERNAL_ERROR" /\ strategy = "ar"
             IN kept = base \o (IF unforwarded THEN SubSeq(output, 1, Len(output) - 1)
                                               ELSE output)
  <2>1. Strict
    BY DEF Strict
  <2>2. output # << >> => Len(output) \in 1 .. Len(output)
    <3>1. output # << >> => Len(output) \in Nat \ {0}
      BY <1>1, TextTypes, EmptySeq
    <3>2. QED
      BY <3>1
  <2>3. Plain(output) /\ output # << >> => ~IsStop(output[Len(output)])
    BY <2>2 DEF Plain
  <2>4. CASE pc = "prefill"
    BY <1>1, <2>4 DEF Inv, Prefilling
  <2>5. CASE pc = "forward"
    BY <1>1, <2>5 DEF TInv, Rows, Short, Sent
  <2>6. CASE pc \in {"loop", "draft"}
    <3>1. status # "INTERNAL_ERROR" /\ Plain(output) /\ Whole
      BY <1>1, <2>1, <2>6 DEF Inv, AtWork, Running, Errors, TInv, Stops, Rows
    <3>2. QED
      BY <2>3, <2>6, <3>1 DEF Whole
  <2>7. CASE pc = "idle"
    BY <1>1, <2>1, <2>3, <2>7 DEF TInv, Rows, Whole, Short, Sent
  <2>8. QED
    BY <1>1, <2>4, <2>5, <2>6, <2>7 DEF Inv, Types
<1>2. Inv /\ TInv => RowsMatchOutput
  BY <1>1 DEF RowsMatchOutput
<1>3. QED
  BY <1>2, InvCorrect, TextInvariant, PTL

(* A stop token ends the output, also over several calls.                  *)
THEOREM StopCorrect ==
  ASSUME PredictsTokens, Situations = {}
  PROVE  Spec => []StopIsLast
<1>1. ASSUME Inv, TInv, NEW i \in 1 .. Len(output) - 1
      PROVE  ~IsStop(output[i])
  <2>1. output \in Seq(Token) /\ Len(output) \in Nat
    BY <1>1, TextTypes
  <2>2. Len(output) - 1 \in 0 .. Len(output) /\ i \in 1 .. Len(output)
    BY <2>1
  <2>3. Len(Sent) = Len(output) - 1 /\ Sent[i] = output[i]
    BY <2>1, <2>2, PrefixOf DEF Sent
  <2>4. Plain(output) \/ Plain(Sent)
    BY <1>1 DEF TInv, Stops, Strict
  <2>5. QED
    BY <2>2, <2>3, <2>4 DEF Plain
<1>2. Inv /\ TInv => StopIsLast
  BY <1>1 DEF StopIsLast
<1>3. QED
  BY <1>2, InvCorrect, TextInvariant, PTL
=============================================================================
