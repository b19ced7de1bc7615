-------------------------------- MODULE Eagle --------------------------------
(***************************************************************************)
(* The Eagle strategy: a small draft model proposes a tree of tokens, one  *)
(* forward of the base model verifies the whole tree, and the rows of the  *)
(* accepted path are kept by as many spans of the history plan.            *)
(*                                                                         *)
(* A row of the base model is the tokens it was computed from, that is,    *)
(* what its mask let it attend to, and its position.  The base model is    *)
(* the operator Predict, as in Generation; the draft model may answer      *)
(* anything.  A row of the draft model is a token and its position.        *)
(***************************************************************************)
EXTENDS TokenTree

CONSTANTS
  Token,
  Stop,       \* the stop tokens of the tokenizer
  Predict(_), \* greedy sampling after a sequence of rows
  Depth,      \* mDepth
  DraftLen,   \* mDraftLength, the nodes of a tree that are verified
  Answers,    \* bound of the model: what the draft model may answer
  Block,      \* mBlockSize
  Prompts,    \* bound of the model: the prompts callers send
  MaxNew,     \* bound of the model: max_new_tokens of a call
  MaxText,    \* bound of the model: tokens of a conversation
  Situations  \* what callers may do, see Known

(* What the code does not survive, and a run can admit:                    *)
(*   after_timeout  a response after one that timed out or failed with     *)
(*                  spans still to be kept                                 *)
(*   reuse          reuse_kv: the rows of an earlier response stay         *)
(*   chunked        a prompt longer than a block                           *)
(*   certain        the draft model is so sure of a token that its log     *)
(*                  probability is rounded to 0: the node and its parent   *)
(*                  have equal scores, and a sort may cut between them     *)
Known == {"after_timeout", "reuse", "chunked", "certain"}

ASSUME EagleAssumption ==
  /\ Stop \subseteq Token /\ Token \subseteq Nat
  /\ TopK \in Nat \ {0} /\ Depth \in Nat \ {0} /\ DraftLen \in Nat \ {0} /\ Block \in Nat \ {0}
  /\ \A a \in Answers : \A j \in 1 .. TopK :
       /\ a.tokens[j] \in Token /\ a.scores[j] \in Int /\ a.scores[j] <= 0
       /\ a.scores[j] = 0 => "certain" \in Situations
  /\ Prompts \subseteq Seq(Token) \ {<<>>}
  /\ Situations \subseteq Known

VARIABLES
  rows,      \* the rows of the base model, all layers alike
  meta,      \* Llm::mMeta; the spans keep one row each
  allSeqLen, \* LlmContext::all_seq_len
  genSeqLen, \* LlmContext::gen_seq_len
  output,    \* LlmContext::output_tokens
  printed,   \* what went to LlmContext::os
  status,    \* LlmContext::status
  draftRows, \* the rows of the draft model
  remove,    \* mEagleRemove
  pastLen,   \* mEaglePastLen
  input,     \* the tokens topkGenerate was called with
  tree, actives, mask, \* the TokenTree of this call
  draft,     \* what finalize returned
  pc,        \* where the call is
  call,      \* max_new_tokens, newTokens and steps
  prompt,    \* history variable: the text before the response
  said       \* history variable: the tokens of the response

base == << rows, meta, allSeqLen >>
result == << genSeqLen, output, printed >>
eagle == << draftRows, remove, pastLen >>
growing == << tree, actives, mask >>
spoken == << prompt, said >>
vars == << base, result, status, eagle, input, growing, draft, pc, call, spoken >>

Text == prompt \o said

NoDraft == [tokens |-> <<>>, positions |-> <<>>, mask |-> <<>>, paths |-> <<>>]
NoMeta == [previous |-> 0, remove |-> 0, spans |-> <<>>]

Init ==
  /\ rows = <<>> /\ meta = NoMeta
  /\ allSeqLen = 0 /\ genSeqLen = 0
  /\ output = <<>> /\ printed = <<>>
  /\ status = "RUNNING"
  /\ draftRows = <<>> /\ remove = 0 /\ pastLen = 0
  /\ input = <<>>
  /\ tree = <<>> /\ actives = <<>> /\ mask = <<>>
  /\ draft = NoDraft
  /\ pc = "idle" /\ call = [max |-> 0, new |-> 0, steps |-> 0]
  /\ prompt = <<>> /\ said = <<>>

-----------------------------------------------------------------------------
(* The base model.                                                         *)

TokenOf(row) == row.ctx[Len(row.ctx)]
TokensOf(rs) == [i \in DOMAIN rs |-> TokenOf(rs[i])]

(* What onClear or onRealloc leave of the history, with span k of the plan *)
(* at source[k]: the rows of the spans move down one after the other.      *)
Moved(rs, start, source) ==
  LET moved[k \in 0 .. Len(source)] ==
        IF k = 0 THEN rs
        ELSE [moved[k - 1] EXCEPT ![start + k] = moved[k - 1][source[k]]]
  IN  SubSeq(moved[Len(source)], 1, start + Len(source))

(* Mutant of Kept: the spans count from the start of the history.          *)
KeptFromStart(rs, m) ==
  Moved(rs, Len(rs) - m.remove, [k \in DOMAIN m.spans |-> m.spans[k] + 1])

(* The rows a forward starts from.                                         *)
Kept(rs, m) ==
  LET start == Len(rs) - m.remove
  IN  IF m.previous = m.remove THEN <<>>
      ELSE Moved(rs, start, [k \in DOMAIN m.spans |-> start + m.spans[k] + 1])

(* sync() after a forward of n rows.                                       *)
Synced(m, n) ==
  [previous |-> m.previous - m.remove + n + Len(m.spans), remove |-> 0, spans |-> <<>>]

(* The rows of ids, each after all the rows before it.                     *)
CausalRows(before, ids, position) ==
  [i \in DOMAIN ids |->
     [ctx |-> TokensOf(before) \o SubSeq(ids, 1, i), pos |-> position + i - 1]]

(* The rows of the tree, each after the kept rows and those of its mask.   *)
TreeRows(before) ==
  [i \in DOMAIN draft.tokens |->
     [ctx |-> TokensOf(before) \o
              [k \in 1 .. Cardinality(draft.mask[i]) |->
                 draft.tokens[Ascending(draft.mask[i])[k]]],
      pos |-> pastLen + draft.positions[i]]]

IsStop(token) == token \in Stop

(* response(ids): generate_init, the prefill, then generate() up to its    *)
(* first draft.  param.input_embeds are those of the last block.  The      *)
(* first token is not compared with the stop tokens.                       *)
Respond(ids, max, reuse) ==
  /\ pc = "idle"
  /\ meta.spans # <<>> => "after_timeout" \in Situations
  /\ reuse /\ rows # <<>> => "reuse" \in Situations
  /\ Len(ids) > Block => "chunked" \in Situations
  /\ (IF reuse THEN Len(Text) ELSE 0) + Len(ids) + max <= MaxText
  /\ LET plan   == IF reuse THEN meta ELSE [meta EXCEPT !.remove = meta.previous]
         before == Kept(rows, plan)
         last   == SubSeq(ids, ((Len(ids) - 1) \div Block) * Block + 1, Len(ids))
         at     == IF reuse THEN allSeqLen ELSE 0
     IN  /\ rows' = before \o CausalRows(before, ids, at)
         /\ meta' = Synced(plan, Len(ids))
         /\ allSeqLen' = at + Len(ids)
         /\ LET sampled == Predict(TokensOf(rows'))
            IN  /\ output' = <<sampled>> /\ printed' = <<sampled>>
                /\ said' = <<sampled>>
                /\ input' = Tail(last) \o <<sampled>>
  /\ prompt' = (IF reuse THEN Text ELSE <<>>) \o ids
  /\ genSeqLen' = 1
  /\ status' = "RUNNING"
  /\ pastLen' = 0
  /\ remove' = Len(draftRows)
  /\ call' = [max |-> max, new |-> 0, steps |-> 0]
  /\ pc' = "draft"
  /\ UNCHANGED << draftRows, growing, draft >>

-----------------------------------------------------------------------------
(* topkGenerate                                                            *)

DraftDone(depth) == IF depth = Depth - 1 THEN "finalize" ELSE "grow"

(* The rows of the drafts, which the next call removes.                    *)
DraftRemove == TopK * (Depth - 1)

(* The tokens that became text, behind those of the calls before.          *)
DraftRoot(answer) ==
  /\ pc = "draft"
  /\ draftRows' = SubSeq(draftRows, 1, Len(draftRows) - remove) \o
                  [i \in DOMAIN input |-> [token |-> input[i], pos |-> pastLen + i - 1]]
  /\ pastLen' = pastLen + Len(input)
  /\ remove' = DraftRemove
  /\ tree' = FirstNodes(answer)
  /\ actives' = FirstActives
  /\ mask' = FirstMask
  /\ pc' = DraftDone(0)
  /\ UNCHANGED << base, result, status, input, draft, call, spoken >>

(* A forward of the actives, and the next level of the tree.               *)
GrowDraft(answers) ==
  /\ pc = "grow"
  /\ draftRows' = draftRows \o
       [i \in DOMAIN actives |-> [token |-> tree[actives[i]].token,
                                  pos |-> pastLen + tree[actives[i]].depth]]
  /\ tree' = WithChildren(tree, actives, answers)
  /\ actives' \in NextActives(tree', Len(tree))
  /\ mask' = GrownMask(mask, tree', actives, actives')
  /\ pc' = DraftDone(tree'[actives'[1]].depth)
  /\ UNCHANGED << base, result, status, remove, pastLen, input, draft, call, spoken >>

Finalize ==
  /\ pc = "finalize"
  /\ \E best \in BestNodes(tree, DraftLen) :
       draft' = TreeOutputs(tree, best, input[Len(input)])
  /\ pc' = "tree"
  /\ UNCHANGED << base, result, status, eagle, input, growing, call, spoken >>

-----------------------------------------------------------------------------
(* The loop of generate.                                                   *)

(* treeDecoding                                                            *)
DecodeTree ==
  /\ pc = "tree"
  /\ LET before == Kept(rows, meta)
     IN  rows' = before \o TreeRows(before)
  /\ meta' = Synced(meta, Len(draft.tokens))
  /\ call' = [call EXCEPT !.steps = @ + 1]
  /\ tree' = <<>> /\ actives' = <<>> /\ mask' = <<>>
  /\ pc' = "verify"
  /\ UNCHANGED << allSeqLen, result, status, eagle, input, draft, spoken >>

(* The deadline is looked at before, a forward may fail.                   *)
EndEarly(why) ==
  /\ pc = "tree"
  /\ status' = why
  /\ pc' = "idle"
  /\ UNCHANGED << base, result, eagle, input, growing, draft, call, spoken >>

Sampled(i) == Predict(rows[Len(rows) - Len(draft.tokens) + i].ctx)

(* Mutant of Agreed: the last draft that counts is not compared.           *)
AgreedUnchecked(path) ==
  LET good(i) == \A j \in 1 .. i - 1 : Sampled(path[j]) = draft.tokens[path[j + 1]]
  IN  CHOOSE n \in 0 .. Len(path) - 1 :
        good(n) /\ (n < Len(path) - 1 => ~good(n + 1))

(* evaluatePosterior: how far a path is what the base model samples.       *)
Agreed(path) ==
  LET good(i) == \A j \in 1 .. i : Sampled(path[j]) = draft.tokens[path[j + 1]]
  IN  CHOOSE n \in 0 .. Len(path) - 1 :
        good(n) /\ (n < Len(path) - 1 => ~good(n + 1))

(* The first of the longest, and the row its last agreement leads to.      *)
Accepted ==
  LET k == CHOOSE k \in DOMAIN draft.paths :
             \A j \in DOMAIN draft.paths :
               Agreed(draft.paths[j]) < Agreed(draft.paths[k]) \/
               (Agreed(draft.paths[j]) = Agreed(draft.paths[k]) /\ k <= j)
  IN  SubSeq(draft.paths[k], 1, Agreed(draft.paths[k]) + 1)

(* processTokens: the tokens up to a stop token.                           *)
Printed(tokens) ==
  SubSeq(tokens, 1, CHOOSE n \in 0 .. Len(tokens) :
    /\ \A i \in 1 .. n : ~IsStop(tokens[i])
    /\ n < Len(tokens) => IsStop(tokens[n + 1]))

(* Mutant of Spans: indices of the tree, counted from 1.                   *)
SpansFromOne(kept) == [i \in DOMAIN kept |-> kept[i]]

(* updateDraft: one row for every accepted index.                          *)
Spans(kept) == [i \in DOMAIN kept |-> kept[i] - 1]

(* The accepted tokens are generated.  At a stop token or the limit the    *)
(* loop ends, with the number of its rounds behind the output and the tree *)
(* still in the history; otherwise updateDraft plans what is kept of it.   *)
Verify ==
  /\ pc = "verify"
  /\ LET kept   == Accepted
         tokens == [i \in DOMAIN kept |-> Sampled(kept[i])]
         stop   == \E i \in DOMAIN tokens : IsStop(tokens[i])
         new    == call.new + Len(tokens)
     IN  /\ printed' = printed \o Printed(tokens)
         /\ said' = said \o tokens
         /\ call' = [call EXCEPT !.new = new]
         /\ \/ /\ stop \/ new >= call.max
               /\ output' = output \o tokens \o <<call.steps>>
               /\ status' = IF new >= call.max THEN "MAX_TOKENS_FINISHED" ELSE "NORMAL_FINISHED"
               /\ pc' = "idle"
               /\ UNCHANGED << base, genSeqLen, input >>
            \/ /\ ~stop /\ new < call.max
               /\ output' = output \o tokens
               /\ allSeqLen' = allSeqLen + Len(tokens)
               /\ genSeqLen' = genSeqLen + Len(tokens)
               /\ meta' = [meta EXCEPT !.remove = Len(draft.tokens),
                                       !.spans = Spans(kept)]
               /\ input' = tokens
               /\ pc' = "draft"
               /\ UNCHANGED << rows, status >>
  /\ draft' = NoDraft
  /\ UNCHANGED << eagle, growing, prompt >>

Next ==
  \/ \E ids \in Prompts, max \in 1 .. MaxNew, reuse \in BOOLEAN : Respond(ids, max, reuse)
  \/ \E answer \in Answers : DraftRoot(answer)
  \/ \E answers \in [1 .. TopK -> Answers] : GrowDraft(answers)
  \/ Finalize
  \/ DecodeTree
  \/ \E why \in {"TIMEOUT", "INTERNAL_ERROR"} : EndEarly(why)
  \/ Verify

Spec == Init /\ [][Next]_vars

-----------------------------------------------------------------------------

(* The parts of the state fit together: a plan keeps ascending rows among  *)
(* those it removes, and every tree offers the base model a path.          *)
TypeOK ==
  /\ \A i \in DOMAIN rows : rows[i].ctx \in Seq(Token) /\ rows[i].pos \in Nat
  /\ meta.remove \in 0 .. meta.previous
  /\ \A i \in DOMAIN meta.spans : meta.spans[i] \in 0 .. meta.remove - 1
  /\ \A i, j \in DOMAIN meta.spans : i < j => meta.spans[i] < meta.spans[j]
  /\ Text \in Seq(Token) /\ genSeqLen \in 0 .. Len(said)
  /\ \A i \in DOMAIN draftRows : draftRows[i].token \in Token
  /\ pc = "tree" => draft.paths # <<>>
  /\ status \in {"RUNNING", "TIMEOUT", "INTERNAL_ERROR",
                 "NORMAL_FINISHED", "MAX_TOKENS_FINISHED"}

(* Whatever the draft model proposes, the text is the one the base model   *)
(* would have generated token by token: every row of a tree is verified    *)
(* in the context of its own path, and no rejected row is ever seen again. *)
(* What is printed is the beginning of it.                                 *)
PrintedIsGreedy ==
  /\ \A i \in DOMAIN said : said[i] = Predict(prompt \o SubSeq(said, 1, i - 1))
  /\ printed = SubSeq(said, 1, Len(printed))

(* When a tree is about to be drafted or verified, what the plan keeps of  *)
(* the history is the text but for its last token: each row where it       *)
(* belongs, computed from the rows before it, at its own position.  The    *)
(* plan counts the rows that are there.                                    *)
RowsFollowText ==
  /\ meta.previous = Len(rows)
  /\ pc \in {"draft", "grow", "finalize", "tree"} =>
       /\ Kept(rows, meta) = CausalRows(<<>>, SubSeq(Text, 1, Len(Text) - 1), 0)
       /\ allSeqLen = Len(Text) - 1

(* The draft model sees the same text, without its first token, whatever   *)
(* was drafted and removed before; and an active node attends to the rows  *)
(* of its ancestors and no other draft.                                    *)
PathTokens(nodes) ==
  LET path[n \in 0 .. Len(nodes)] ==
        IF n = 0 THEN <<>> ELSE Append(path[nodes[n].parent], nodes[n].token)
  IN  path

DraftFollowsText ==
  /\ pc = "draft" =>
       Len(draftRows) - remove = IF Len(said) = 1 THEN 0 ELSE Len(Text) - 1 - Len(input)
  /\ pc \in {"grow", "finalize", "tree"} =>
       /\ pastLen = Len(Text) - 1
       /\ \A i \in 1 .. pastLen : draftRows[i] = [token |-> Text[i + 1], pos |-> i - 1]
  /\ pc = "grow" =>
       LET fed == Len(draftRows) - pastLen
           column(c) == IF c <= fed THEN draftRows[pastLen + c].token
                        ELSE tree[actives[c - fed]].token
       IN  \A i \in DOMAIN actives :
             PathTokens(tree)[actives[i]] =
               [k \in 1 .. Cardinality(mask[i]) |-> column(Ascending(mask[i])[k])]
=============================================================================
