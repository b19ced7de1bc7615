----------------------------- MODULE Generation -----------------------------
(***************************************************************************)
(* A response of an Llm: prefill of the prompt, then the decoding loop of  *)
(* one of two strategies.                                                  *)
(*                                                                         *)
(*   ar         ArGeneration, one token per forward                        *)
(*   lookahead  LookaheadGeneration, guesses tokens from n-grams and       *)
(*              verifies them in one forward; rejected rows are removed    *)
(*              by the next forward                                        *)
(*                                                                         *)
(* The history of rows is a Conversation (which KVHistory implements):     *)
(* stored and kept change by its actions only.  What this module adds is   *)
(* the bookkeeping the Llm and the strategies do around the forwards:      *)
(* positions, counts, the sampled token, the logits it comes from and the  *)
(* status, over responses that stop, run out of tokens, time out, fail, or *)
(* are driven by a caller one generate(1) at a time.                       *)
(*                                                                         *)
(* The network is the operator Predict: the token greedy sampling picks    *)
(* after a sequence of rows.  The n-gram cache is external: any drafts.    *)
(***************************************************************************)
EXTENDS Integers, Sequences

CONSTANTS
  Token,
  Stop,        \* the stop tokens of the tokenizer
  NoToken,     \* current_token = -1
  None,        \* no value
  Predict(_),  \* greedy sampling after a sequence of rows
  BlockSize,   \* mBlockSize, 0 when prompts are not split
  DraftLen,    \* mDraftLength
  MaxRows,     \* bound of the model: rows of a conversation
  Prompts,     \* bound of the model: the prompts callers send
  MaxNew,      \* bound of the model: max_new_tokens of a call
  Situations   \* what the environment may do, see Known

(* Situations a run can admit:                                             *)
(*   empty_reply  lookahead, and the model predicts a stop token right     *)
(*                after the prompt                                         *)
(*   padded       lookahead, on blocks of valid sizes with padding         *)
Known == {"empty_reply", "padded"}

(* forwardVec asserts that what is forwarded while decoding, here the      *)
(* sampled token and its drafts, fits into one block.                      *)
ASSUME GenerationAssumption ==
  /\ Stop \subseteq Token
  /\ NoToken \notin Token
  /\ None \notin Seq(Token)
  /\ BlockSize \in Nat
  /\ DraftLen \in Nat
  /\ BlockSize # 0 => DraftLen + 1 <= BlockSize
  /\ MaxRows \in Nat /\ MaxNew \in Nat
  /\ Prompts \subseteq Seq(Token) \ {<< >>}
  /\ Situations \subseteq Known

VARIABLES
  strategy,  \* the strategy GenerationStrategyFactory created
  stored,    \* rows held, see Conversation
  kept,      \* rows the next forward attends to, see Conversation
  allSeqLen, \* LlmContext::all_seq_len
  genSeqLen, \* LlmContext::gen_seq_len
  output,    \* LlmContext::output_tokens
  current,   \* LlmContext::current_token
  status,    \* LlmContext::status
  logits,    \* the predictions in GenerationParams::outputs, one per row
  valid,     \* GenerationParams::validLogitStart, as a row of logits
  pc,        \* where the engine is
  call,      \* the call in progress
  base,      \* history variable: the rows at the end of the last prefill
  lost       \* history variable: a forward stopped between two layers

history == << stored, kept >>
context == << allSeqLen, genSeqLen, output, current, status >>
vars == << strategy, history, context, logits, valid, pc, call, base, lost >>

Conv == INSTANCE Conversation

Errors == {"NOT_LOADED", "INTERNAL_ERROR", "TIMEOUT", "USER_CANCEL"}

NoCall == [ pieces |-> << >>, outer |-> FALSE, size |-> 0, blocks |-> 0,
            drafts |-> << >>, len |-> 0, max |-> 0 ]

Idle == pc = "idle"

Init ==
  /\ strategy \in {"ar", "lookahead"}
  /\ Conv!Init
  /\ allSeqLen = 0 /\ genSeqLen = 0
  /\ output = << >> /\ current = NoToken
  /\ status = "RUNNING"
  /\ logits = << >> /\ valid = 1
  /\ pc = "idle" /\ call = NoCall
  /\ base = None /\ lost = FALSE

-----------------------------------------------------------------------------
(* Helpers.                                                                *)

SeqsUpTo(S, n) == UNION { [1 .. m -> S] : m \in 0 .. n }

(* Llm::generate and forwardVec cut a prompt alike: full blocks, then the  *)
(* rest.                                                                   *)
Pieces(ids) ==
  IF BlockSize = 0 THEN << ids >>
  ELSE LET n == (Len(ids) + BlockSize - 1) \div BlockSize
           last(i) == IF i * BlockSize > Len(ids) THEN Len(ids) ELSE i * BlockSize
       IN [ i \in 1 .. n |-> SubSeq(ids, (i - 1) * BlockSize + 1, last(i)) ]

(* The predictions a forward of toks computes, one per row.                *)
Predictions(toks) == [ i \in 1 .. Len(toks) |-> Predict(kept \o SubSeq(toks, 1, i)) ]

(* is_stop(), asked outside the error states.                              *)
IsStop(token) == token \in Stop

(* forwardRaw asks for all rows to verify drafts and for a padded input,   *)
(* for the last row otherwise; what the padding rows predict is junk.      *)
Outputs(toks, all, junk) ==
  LET rows == Predictions(toks)
  IN IF all \/ junk # << >> THEN rows \o junk ELSE << rows[Len(rows)] >>

(* What padding rows predict; they appear when blocks have static sizes.   *)
Junk == IF strategy = "ar" \/ "padded" \in Situations
        THEN SeqsUpTo(Token, 1) ELSE {<< >>}

(* A prompt may leave lookahead without a token to start from.             *)
MayPrompt(rows) ==
  strategy = "lookahead" /\ IsStop(Predict(rows)) => "empty_reply" \in Situations

(* LookaheadGeneration::generate samples its first token before its loop,  *)
(* from the first row of the outputs.                                      *)
EnterLoopUnsampled == current' = current

EnterLoop ==
  current' = IF strategy = "lookahead" /\ current = NoToken
             THEN logits'[1] ELSE current

-----------------------------------------------------------------------------
(* Callers.                                                                *)

(* response(ids, max): generate_init, then generate.  (response of a       *)
(* string or of messages does the same, but refuses in an error state.)    *)
(* Outer splitting is for text only: forwardVec splits multimodal prompts. *)
(* The outputs of the last forward are cleared by the first forwardRaw,    *)
(* nothing reads them before.                                              *)
Respond(ids, max, multimodal, reuseKV) ==
  /\ Idle
  /\ ~lost
  /\ \/ reuseKV /\ UNCHANGED << history, allSeqLen >>
     \/ ~reuseKV /\ Conv!Clear /\ allSeqLen' = 0
  /\ Len(kept') + Len(ids) + max + DraftLen <= MaxRows
  /\ genSeqLen' = 0 /\ output' = << >> /\ current' = NoToken
  /\ status' = "RUNNING"
  /\ pc' = "prefill"
  /\ call' = [ NoCall EXCEPT
                 !.pieces = Pieces(ids),
                 !.outer = ~multimodal /\ Len(Pieces(ids)) > 1,
                 !.size = Len(ids),
                 !.max = max ]
  /\ base' = None
  /\ logits' = << >> /\ valid' = 1
  /\ UNCHANGED << strategy, lost >>

(* CHECK_LLM_RUNNING                                                       *)
RunningOrTimeout == status # "INTERNAL_ERROR"

Running == status \notin Errors

(* generate(max), the step of callers that prefill with response(.., 0).   *)
(* They do not continue a conversation that is lost.                       *)
Continue(max) ==
  /\ Idle
  /\ base # None
  /\ ~lost
  /\ Running
  /\ Len(kept) + max + DraftLen <= MaxRows
  /\ \/ /\ IsStop(current)
        /\ status' = "NORMAL_FINISHED"
        /\ UNCHANGED << current, logits, pc, call >>
     \/ /\ ~IsStop(current)
        /\ pc' = "loop"
        /\ call' = [ NoCall EXCEPT !.max = max ]
        /\ UNCHANGED << status, logits >>
        /\ EnterLoop
  /\ UNCHANGED << strategy, history, allSeqLen, genSeqLen, output, valid, base, lost >>

(* eraseHistory(mark, 0): the caller takes back what was added after mark. *)
Rollback(mark) ==
  /\ Idle
  /\ ~lost
  /\ Conv!Erase(mark, Len(stored))
  /\ allSeqLen' = mark
  /\ base' = None
  /\ UNCHANGED << strategy, genSeqLen, output, current, status, logits, valid,
                  pc, call, lost >>

(* reset()                                                                 *)
Reset ==
  /\ Idle
  /\ Conv!Clear
  /\ output' = << >> /\ allSeqLen' = 0 /\ genSeqLen' = 0
  /\ base' = None /\ lost' = FALSE
  /\ UNCHANGED << strategy, current, status, logits, valid, pc, call >>

-----------------------------------------------------------------------------
(* Prefill.                                                                *)

(* What follows the last piece of generate(embeds, max), or of the outer   *)
(* loop of generate(ids, max), which always calls generate(max).           *)
AfterPrefill ==
  /\ base' = kept'
  /\ \/ /\ call.outer \/ call.max > 0
        /\ pc' = "loop"
        /\ call' = [ NoCall EXCEPT !.max = call.max ]
        /\ UNCHANGED status
        /\ EnterLoop
     \/ /\ ~call.outer /\ call.max = 0
        /\ pc' = "idle"
        /\ call' = NoCall
        /\ UNCHANGED << status, current >>

(* What one forwardRaw of a prompt adds to all_seq_len: forwardVec counts   *)
(* every full block at once and takes the blocks of the prompt back at its *)
(* end, where generate(embeds) counts the whole prompt of the given size.  *)
CountedTwice(full, blocks, ends, size) ==
  (IF full THEN BlockSize ELSE 0) + (IF ends THEN size ELSE 0)

Counted(full, blocks, ends, size) ==
  (IF full THEN BlockSize ELSE 0) + (IF ends THEN size - BlockSize * blocks ELSE 0)

(* One forwardRaw.  In the outer split every piece is a prompt of its own. *)
(* The deadline is looked at after each generate(embeds).                  *)
PrefillPiece(junk) ==
  LET piece == Head(call.pieces)
      rest == Tail(call.pieces)
      full == BlockSize # 0 /\ Len(piece) = BlockSize
      blocks == call.blocks + (IF full THEN 1 ELSE 0)
      ends == call.outer \/ rest = << >>
      size == IF call.outer THEN Len(piece) ELSE call.size
  IN /\ pc = "prefill"
     /\ full \/ BlockSize = 0 => junk = << >>
     /\ Conv!Forward(piece)
     /\ rest = << >> => MayPrompt(kept')
     /\ logits' = Outputs(piece, FALSE, junk)
     /\ valid' = IF junk = << >> THEN 1 ELSE Len(piece)
     /\ allSeqLen' = allSeqLen + Counted(full, blocks, ends, size)
     /\ \/ /\ rest # << >>
           /\ call' = [ call EXCEPT !.pieces = rest,
                                    !.blocks = IF ends THEN 0 ELSE blocks ]
           /\ UNCHANGED << pc, current, status, base >>
        \/ rest = << >> /\ AfterPrefill
        \/ /\ ends
           /\ status' = "TIMEOUT"
           /\ pc' = "idle" /\ call' = NoCall
           /\ UNCHANGED << current, base >>
     /\ UNCHANGED << strategy, genSeqLen, output, lost >>

(* A forward fails, before its first layer or between two of them, and     *)
(* whoever called it gives up.  (A prefill whose outputs cannot be read    *)
(* counts as failed: generate(embeds) finds no outputs.  Its blocks may    *)
(* have been counted; nothing reads that before reset() clears it.  Drafts *)
(* whose outputs cannot be read are sampled: undefined, not modelled.)     *)
FailForward ==
  /\ pc \in {"prefill", "forward", "draft"}
  /\ status' = "INTERNAL_ERROR"
  /\ \/ UNCHANGED << history, lost >>
     \/ Conv!Lose /\ lost' = TRUE
  /\ logits' = << >> /\ valid' = 1
  /\ pc' = "idle" /\ call' = NoCall
  /\ UNCHANGED << strategy, allSeqLen, genSeqLen, output, current, base >>

-----------------------------------------------------------------------------
(* The loop of both strategies.                                            *)

(* len >= max_token, checked after the loop.  It also overwrites the error *)
(* of a last forward whose outputs could not be read (ForwardUnreadable).  *)
Finish ==
  /\ pc = "loop"
  /\ call.len >= call.max
  /\ status' = "MAX_TOKENS_FINISHED"
  /\ pc' = "idle" /\ call' = NoCall
  /\ UNCHANGED << strategy, history, allSeqLen, genSeqLen, output, current,
                  logits, valid, base, lost >>

(* The top of the loop: an error ends it.                                  *)
Abort ==
  /\ pc = "loop"
  /\ call.len < call.max
  /\ status = "INTERNAL_ERROR"
  /\ pc' = "idle" /\ call' = NoCall
  /\ UNCHANGED << strategy, history, context, logits, valid, base, lost >>

(* The top of the loop: the deadline has passed.                           *)
Expire ==
  /\ pc = "loop"
  /\ call.len < call.max
  /\ status # "INTERNAL_ERROR"
  /\ status' = "TIMEOUT"
  /\ pc' = "idle" /\ call' = NoCall
  /\ UNCHANGED << strategy, history, allSeqLen, genSeqLen, output, current,
                  logits, valid, base, lost >>

-----------------------------------------------------------------------------
(* ArGeneration::generate.                                                 *)

SampleToken ==
  LET token == logits[valid]
  IN /\ strategy = "ar"
     /\ pc = "loop"
     /\ call.len < call.max
     /\ status # "INTERNAL_ERROR"
     /\ current' = token
     /\ output' = Append(output, token)
     /\ genSeqLen' = genSeqLen + 1
     /\ \/ /\ IsStop(token)
           /\ status' = "NORMAL_FINISHED"
           /\ pc' = "idle" /\ call' = NoCall
        \/ /\ ~IsStop(token)
           /\ pc' = "forward"
           /\ UNCHANGED << status, call >>
     /\ UNCHANGED << strategy, history, allSeqLen, logits, valid, base, lost >>

ForwardToken(junk) ==
  /\ pc = "forward"
  /\ Conv!Forward(<< current >>)
  /\ logits' = Outputs(<< current >>, FALSE, junk)
  /\ valid' = 1
  /\ allSeqLen' = allSeqLen + 1
  /\ call' = [ call EXCEPT !.len = call.len + 1 ]
  /\ pc' = "loop"
  /\ UNCHANGED << strategy, genSeqLen, output, current, status, base, lost >>

(* The outputs exist but cannot be read: forwardRaw sets the status and    *)
(* returns them, so the loop takes the forward for done.                   *)
ForwardUnreadable ==
  /\ pc = "forward"
  /\ Conv!Lose /\ lost' = TRUE
  /\ status' = "INTERNAL_ERROR"
  /\ logits' = << >> /\ valid' = 1
  /\ allSeqLen' = allSeqLen + 1
  /\ call' = [ call EXCEPT !.len = call.len + 1 ]
  /\ pc' = "loop"
  /\ UNCHANGED << strategy, genSeqLen, output, current, base >>

-----------------------------------------------------------------------------
(* LookaheadGeneration::generate.                                          *)

(* The sampled token counts as generated, then the n-gram cache guesses    *)
(* what follows it.                                                        *)
Draft(guess) ==
  /\ strategy = "lookahead"
  /\ pc = "loop"
  /\ call.len < call.max
  /\ status # "INTERNAL_ERROR"
  /\ genSeqLen' = genSeqLen + 1
  /\ call' = [ call EXCEPT !.drafts = << current >> \o guess ]
  /\ pc' = "draft"
  /\ UNCHANGED << strategy, history, allSeqLen, output, current, status,
                  logits, valid, base, lost >>

ForwardDrafts(junk) ==
  /\ pc = "draft"
  /\ Conv!Forward(call.drafts)
  /\ logits' = Outputs(call.drafts, TRUE, junk)
  /\ valid' = IF junk = << >> THEN 1 ELSE Len(call.drafts)
  /\ pc' = "verify"
  /\ UNCHANGED << strategy, context, call, base, lost >>

(* draftVerify(): the rows are counted from the end of the logits.  The    *)
(* loop ends at the first draft that is not what the model predicts, or    *)
(* where it predicts to stop, or behind the last draft.                    *)
Prediction(i) == logits[Len(logits) - Len(call.drafts) + i]

FirstThat(rejects(_)) ==
  CHOOSE i \in 1 .. Len(call.drafts) :
    /\ i < Len(call.drafts) => rejects(i)
    /\ \A j \in 1 .. i - 1 : ~rejects(j)

LoopEndUnchecked ==
  FirstThat(LAMBDA i : IsStop(Prediction(i)))

LoopEndPastStop ==
  FirstThat(LAMBDA i : Prediction(i) # call.drafts[i + 1])

LoopEnd ==
  FirstThat(LAMBDA i : IsStop(Prediction(i)) \/ Prediction(i) # call.drafts[i + 1])

(* What it returns: the rows to keep, the current token's and those of the *)
(* drafts that were right.                                                 *)
AcceptedDrafts == LoopEnd - 1

Accepted == LoopEnd

(* The rejected rows are the next removal.                                 *)
DropNothing(n) == UNCHANGED history

DropRejected(n) ==
  IF n = Len(call.drafts)
  THEN UNCHANGED history
  ELSE Conv!Erase(Len(stored) - (Len(call.drafts) - n), Len(stored))

(* The current token was counted when it was drafted.                      *)
NewlyGeneratedAll(n) == n

NewlyGenerated(n) == n - 1

(* The accepted drafts are appended.  A predicted stop token is appended   *)
(* too and ends the response.                                              *)
Verify ==
  LET n == Accepted
      next == Prediction(LoopEnd)
      appended == SubSeq(call.drafts, 1, n)
      len == call.len + n
  IN /\ pc = "verify"
     /\ DropRejected(n)
     /\ current' = next
     /\ allSeqLen' = allSeqLen + n
     /\ \/ /\ IsStop(next)
           /\ output' = Append(output \o appended, next)
           /\ genSeqLen' = genSeqLen + NewlyGenerated(n) + 1
           /\ status' = IF len >= call.max THEN "MAX_TOKENS_FINISHED"
                                           ELSE "NORMAL_FINISHED"
           /\ pc' = "idle" /\ call' = NoCall
        \/ /\ ~IsStop(next)
           /\ output' = output \o appended
           /\ genSeqLen' = genSeqLen + NewlyGenerated(n)
           /\ pc' = "loop"
           /\ call' = [ call EXCEPT !.len = len, !.drafts = << >> ]
           /\ UNCHANGED status
     /\ UNCHANGED << strategy, logits, valid, base, lost >>

-----------------------------------------------------------------------------
Caller ==
  \/ \E ids \in Prompts, max \in 0 .. MaxNew,
        multimodal, reuseKV \in BOOLEAN :
       Respond(ids, max, multimodal, reuseKV)
  \/ \E max \in 1 .. MaxNew : Continue(max)
  \/ \E mark \in 0 .. MaxRows : Rollback(mark)
  \/ Reset

Engine ==
  \/ \E junk \in Junk : PrefillPiece(junk)
  \/ FailForward
  \/ Finish \/ Abort \/ Expire
  \/ SampleToken
  \/ \E junk \in Junk : ForwardToken(junk)
  \/ ForwardUnreadable
  \/ \E guess \in SeqsUpTo(Token, DraftLen) : Draft(guess)
  \/ \E junk \in Junk : ForwardDrafts(junk)
  \/ Verify

Next == Caller \/ Engine

(* A call runs to its end on the caller's thread; callers need not call.   *)
Spec == Init /\ [][Next]_vars /\ WF_vars(Engine)

-----------------------------------------------------------------------------
(* Properties.                                                             *)

(* Every variable keeps its type.                                          *)
TypeOK ==
  /\ strategy \in {"ar", "lookahead"}
  /\ Conv!TypeOK
  /\ allSeqLen \in Int /\ genSeqLen \in Nat
  /\ output \in Seq(Token)
  /\ current \in Token \cup {NoToken}
  /\ status \in Errors \cup {"RUNNING", "NORMAL_FINISHED", "MAX_TOKENS_FINISHED"}
  /\ logits \in Seq(Token)
  /\ pc \in {"idle", "prefill", "loop", "forward", "draft", "verify"}
  /\ call.len \in Nat /\ call.drafts \in Seq(Token)

(* Whatever the strategy, the drafts, the splits, the padding and the      *)
(* calls a response was made of, every token of the output is the one the  *)
(* model picks after the prompt and the tokens before it: speculation      *)
(* changes the speed of a response, never its text.                        *)
OutputIsGreedy ==
  base # None =>
    \A i \in 1 .. Len(output) :
      output[i] = Predict(base \o SubSeq(output, 1, i - 1))

(* The rows kept for the next forward are the conversation: the prompt and *)
(* the output, without the last token where it was sampled but not (or not *)
(* yet) forwarded.  Rejected drafts are never among them.                  *)
RowsMatchOutput ==
  (base # None /\ ~lost /\ pc # "verify") =>
    LET unforwarded == \/ pc = "forward"
                       \/ output # << >> /\ IsStop(output[Len(output)])
                       \/ status = "INTERNAL_ERROR" /\ strategy = "ar"
    IN kept = base \o (IF unforwarded THEN SubSeq(output, 1, Len(output) - 1)
                                      ELSE output)

(* all_seq_len, the position given to the next row, is the number of rows  *)
(* before it, at every forward and in between, whichever way the blocks of *)
(* a prompt, the accepted drafts and the errors were counted.              *)
PositionsMatchRows ==
  (~lost /\ pc # "verify") => allSeqLen = Len(kept)

(* gen_seq_len counts the tokens of the output, also where several are     *)
(* accepted at once.                                                       *)
GeneratedCounted ==
  (pc \in {"idle", "loop"} /\ status # "INTERNAL_ERROR") =>
    genSeqLen = Len(output)

(* Nothing is generated after a stop token, in one call or by further      *)
(* calls ("stop token just break the process").                            *)
StopIsLast ==
  \A i \in 1 .. Len(output) - 1 : ~IsStop(output[i])

(* An error state is left by generate_init alone: until then every call    *)
(* refuses ("LLM in error state"), so a caller that looks at the status    *)
(* late still sees it.  (Not when outputs could not be read: Finish.)      *)
ErrorSticks ==
  [][ (status \in Errors /\ status' # status /\ ~lost)
        => (Idle /\ pc' = "prefill") ]_vars

(* A call ends: every round of a loop adds to len, every piece of a prompt *)
(* is forwarded once.                                                      *)
CallsReturn == ~Idle ~> Idle
=============================================================================
