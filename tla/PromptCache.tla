----------------------------- MODULE PromptCache -----------------------------
(***************************************************************************)
(* The prompt cache: response(ChatMessages), which sends the whole         *)
(* conversation every time, keeps the text its rows stand for and prefills *)
(* only what a request adds to it.                                         *)
(*                                                                         *)
(*   demo     the chat of llm_demo: one call, the raw reply is kept        *)
(*   session  LlmSession::Response of the Android app: prefill, then       *)
(*            generate(1) in a loop; the session keeps the messages        *)
(*   server   LlmSession::ResponseWithHistory: the same, the client keeps  *)
(*            the messages, and a cancelled reply is rolled back           *)
(*   ids      response(ids), which shares the rows and not the text        *)
(*                                                                         *)
(* A text is a sequence of pieces: what a user said, a word or a thinking  *)
(* block of the model, and the markers of the template.  Encoding puts     *)
(* Bos in front and maps a piece to one token (the code splits at token    *)
(* boundaries too).  The history is a Conversation.                        *)
(***************************************************************************)
EXTENDS Integers, Sequences, SequencesExt

CONSTANTS
  User,       \* what users say
  Word,       \* words of the model
  Others,     \* bound of the model: conversations not continued
  Ids,        \* bound of the model: what response(ids) is called with, and
              \* asked for no reply
  Draft,      \* a rejected draft
  Templates,  \* chat templates: what happens to thinking of earlier turns
  MaxMsgs,    \* bound of the model: messages of a request
  MaxNew,     \* bound of the model: max_new_tokens
  MaxRows,    \* bound of the model: rows of a conversation with its reply
  Situations  \* what callers may do, see Known

Bos == "bos"      \* the prefix tokens of the tokenizer
Header == "hdr"   \* opens a reply, the generation prompt
End == "end"      \* closes a reply
Think == "think"  \* a thinking block
StopTok == "stop"

Piece == User \cup Word \cup {Bos, Header, End, Think, Draft, StopTok}

(* Situations a run can admit:                                             *)
(*   other_call   response(ids) while there is a cached text               *)
(*   toggle       prompt_cache is switched while a response runs           *)
(*   raw_think    a caller sends thinking back to a template that keeps it *)
Known == {"other_call", "toggle", "raw_think"}

Message == [ role : {"user", "assistant"}, text : Seq(Piece) ]

ASSUME PromptAssumption ==
  /\ StopTok \notin Word
  /\ Others \subseteq Seq(Message)
  /\ Ids \subseteq Seq(User)
  /\ Templates \subseteq {"keeps", "drops"}
  /\ MaxMsgs \in Nat /\ MaxNew \in Nat /\ MaxRows \in Nat
  /\ Situations \subseteq Known

VARIABLES
  stored,        \* rows held, see Conversation
  kept,          \* rows the next forward attends to, see Conversation
  allSeqLen,     \* LlmContext::all_seq_len
  status,        \* LlmContext::status; the finished states are "RUNNING" here
  cachedText,    \* mCachedPromptText
  promptCache,   \* mConfig->prompt_cache()
  reuseKV,       \* mConfig->reuse_kv()
  template,      \* the template of the model
  pc,            \* where the call is
  call,          \* the call in progress
  reply,         \* the tokens the response has added to history_tokens
  said           \* history variable: the conversation as the caller has it

history == << stored, kept >>
context == << allSeqLen, status >>
config == << promptCache, reuseKV, template >>
vars == << history, context, config, cachedText, pc, call, reply, said >>

Conv == INSTANCE Conversation WITH Token <- Piece

NoCall == [ kind |-> "none", path |-> "none", msgs |-> << >>, input |-> << >>,
            kvBefore |-> 0 ]

Init ==
  /\ Conv!Init
  /\ allSeqLen = 0 /\ status = "RUNNING"
  /\ cachedText = << >>
  /\ promptCache \in BOOLEAN /\ reuseKV \in BOOLEAN /\ template \in Templates
  /\ pc = "idle" /\ call = NoCall
  /\ reply = << >> /\ said = << >>

-----------------------------------------------------------------------------
(* Texts.                                                                  *)

FromUser(text) == [ role |-> "user", text |-> text ]
FromModel(text) == [ role |-> "assistant", text |-> text ]

(* The pieces of a text but for some.                                      *)
Without(text, some) ==
  LET left[k \in 0 .. Len(text)] ==
        IF k = 0 THEN << >>
        ELSE IF text[k] \in some THEN left[k - 1] ELSE Append(left[k - 1], text[k])
  IN  left[Len(text)]

(* stripThinkBlocks, deleteThinkPart.                                      *)
StripThink(text) == Without(text, {Think})

(* apply_chat_template(messages, FALSE): a template may drop the thinking  *)
(* of replies that a user has answered.                                    *)
Text(msgs) ==
  LET answered(i) == \E j \in i .. Len(msgs) : msgs[j].role = "user"
      Rendered(i) ==
        IF msgs[i].role = "user" THEN msgs[i].text
        ELSE << Header >>
             \o (IF template = "drops" /\ answered(i) THEN StripThink(msgs[i].text)
                 ELSE msgs[i].text)
             \o << End >>
  IN FlattenSeq([ i \in 1 .. Len(msgs) |-> Rendered(i) ])

(* tokenizer_encode of apply_chat_template(messages, TRUE).                *)
Encoded(msgs) == << Bos >> \o Text(msgs) \o << Header >>

(* Mutant: the thinking block stays in the cached text.                    *)
CacheableWithThinking(msgs) == Text(msgs)

(* What updateCachedPromptText and syncPromptCache store.                  *)
Cacheable(msgs) == StripThink(Text(msgs))

(* What is streamed to the caller: all but a stop token.                   *)
Streamed == Without(reply, {StopTok})

(* updateCachedPromptText: the reply is what history_tokens holds behind   *)
(* the prompt.                                                             *)
Updated ==
  Cacheable(IF Streamed = << >> THEN call.msgs
            ELSE Append(call.msgs, FromModel(Streamed)))

(* What response(ChatMessages) leaves as cached text.  The delta path does *)
(* not ask whether the cache is still on.                                  *)
AfterResponse == IF call.path = "delta" \/ promptCache THEN Updated ELSE << >>

(* syncPromptCache                                                         *)
Synced(msgs) == IF promptCache THEN Cacheable(msgs) ELSE cachedText

-----------------------------------------------------------------------------
(* The history.                                                            *)

(* all_seq_len = 0, remove = previous.                                     *)
DropAll == Conv!Clear /\ allSeqLen' = 0

(* Mutant: previous - remove, of a previous that is shortened already.     *)
EraseFromCountsTwice(begin) ==
  IF begin < Len(stored)
  THEN Conv!Erase(begin, Len(stored)) /\ allSeqLen' = begin - Len(stored)
  ELSE UNCHANGED << history, allSeqLen >>

(* eraseHistory(begin, 0), which may refuse.                               *)
EraseFrom(begin) ==
  IF begin < Len(stored)
  THEN Conv!Erase(begin, Len(stored)) /\ allSeqLen' = begin
  ELSE UNCHANGED << history, allSeqLen >>

(* generate_init                                                           *)
GenerateInit == IF reuseKV THEN UNCHANGED << history, allSeqLen >> ELSE DropAll

-----------------------------------------------------------------------------
(* response(ChatMessages): which rows are reused.                          *)

Errors == {"INTERNAL_ERROR", "TIMEOUT"}

Chats == {"demo", "session", "server"}

Starts(kind, path, msgs, input) ==
  /\ call' = [ kind |-> kind, path |-> path, msgs |-> msgs, input |-> input,
               kvBefore |-> 0 ]
  /\ pc' = "prefill"
  /\ reply' = << >>

(* The tokens behind the cached text.                                      *)
Suffix(msgs) ==
  SubSeq(Encoded(msgs), Len(<< Bos >>) + Len(cachedText) + 1, Len(Encoded(msgs)))

(* Mutant of Delta: a pending erase is not restored.                       *)
DeltaDropsErase(kind, msgs) ==
  /\ promptCache /\ cachedText # << >>
  /\ IsPrefix(cachedText, Text(msgs))
  /\ Starts(kind, "delta", msgs, Suffix(msgs))
  /\ kept' = stored
  /\ UNCHANGED << stored, allSeqLen, cachedText >>

(* The request goes on from the cached text.  The counters, with a pending *)
(* erase, are saved and restored around generate_init.                     *)
Delta(kind, msgs) ==
  /\ promptCache /\ cachedText # << >>
  /\ IsPrefix(cachedText, Text(msgs))
  /\ Starts(kind, "delta", msgs, Suffix(msgs))
  /\ UNCHANGED << history, allSeqLen, cachedText >>

(* The conversation was trimmed or edited: start over.                     *)
Trim(kind, msgs) ==
  /\ promptCache /\ cachedText # << >>
  /\ ~IsPrefix(cachedText, Text(msgs))
  /\ Starts(kind, "trim", msgs, Encoded(msgs))
  /\ DropAll
  /\ cachedText' = << >>

(* The first turn, or no prompt cache.                                     *)
Full(kind, msgs) ==
  /\ ~promptCache \/ cachedText = << >>
  /\ Starts(kind, "full", msgs, Encoded(msgs))
  /\ IF allSeqLen > 0 THEN DropAll ELSE GenerateInit
  /\ UNCHANGED cachedText

Respond(kind, msgs) ==
  /\ pc = "idle"
  /\ status \notin Errors
  /\ Delta(kind, msgs) \/ Trim(kind, msgs) \/ Full(kind, msgs)
  /\ said' = << >>
  /\ UNCHANGED << status, config >>

(* In an error state response returns at once, and so does generate(1).    *)
(* The app syncs the messages all the same.                                *)
Refuse(kind, msgs) ==
  /\ pc = "idle"
  /\ status \in Errors
  /\ cachedText' = IF kind = "demo" THEN cachedText ELSE Synced(msgs)
  /\ said' = << >>
  /\ UNCHANGED << history, context, config, pc, call, reply >>

(* response(ids): it recovers from errors and does not look at the text.   *)
(* After an error its callers reset first.                                 *)
RespondIds(ids) ==
  /\ pc = "idle"
  /\ cachedText # << >> => "other_call" \in Situations
  /\ status \in Errors => allSeqLen = 0
  /\ Starts("ids", "ids", << >>, ids)
  /\ GenerateInit
  /\ status' = "RUNNING"
  /\ said' = << >>
  /\ UNCHANGED << config, cachedText >>

-----------------------------------------------------------------------------
(* The response.                                                           *)

(* response(messages, 0) of the app returns after the prefill.             *)
Steps == call.kind \in {"session", "server"}

PrefillDone == cachedText' = IF Steps THEN AfterResponse ELSE cachedText

Prefill ==
  /\ pc = "prefill"
  /\ Len(kept) + Len(call.input) + MaxNew <= MaxRows
  /\ Conv!Forward(call.input)
  /\ allSeqLen' = allSeqLen + Len(call.input)
  /\ PrefillDone
  /\ call' = [ call EXCEPT !.kvBefore = Len(stored') ]
  /\ pc' = IF call.kind = "ids" THEN "return" ELSE "decode"
  /\ UNCHANGED << status, config, reply, said >>

(* A forward fails before or after its first layer.                        *)
Breaks ==
  /\ UNCHANGED history \/ Conv!Lose
  /\ status' = "INTERNAL_ERROR"
  /\ pc' = "return"

FailPrefill ==
  /\ pc = "prefill"
  /\ Breaks
  /\ PrefillDone
  /\ UNCHANGED << allSeqLen, config, call, reply, said >>

(* A token is sampled and forwarded, in a speculative strategy with drafts *)
(* that are rejected.                                                      *)
Sample(token) ==
  /\ pc = "decode"
  /\ Len(reply) < MaxNew
  /\ reply' = Append(reply, token)

MayThink ==
  (call.kind = "demo" /\ template = "keeps") => "raw_think" \in Situations

Decode(token, drafts) ==
  /\ Sample(token)
  /\ token = Think => reply = << >> /\ MayThink
  /\ Conv!Forward(<< token >> \o drafts)
  /\ allSeqLen' = allSeqLen + 1
  /\ pc' = IF drafts = << >> THEN "decode" ELSE "reject"
  /\ UNCHANGED << status, config, cachedText, call, said >>

Reject ==
  /\ pc = "reject"
  /\ Conv!Erase(Len(stored) - 1, Len(stored))
  /\ pc' = "decode"
  /\ UNCHANGED << context, config, cachedText, call, reply, said >>

FailDecode(token) ==
  /\ Sample(token)
  /\ Breaks
  /\ UNCHANGED << allSeqLen, config, cachedText, call, said >>

StopToken ==
  /\ Sample(StopTok)
  /\ pc' = "return"
  /\ UNCHANGED << history, context, config, cachedText, call, said >>

(* The limit, or a timeout, which is also noticed after the prefill.       *)
EndDecode(newStatus) ==
  /\ pc = "decode"
  /\ \/ newStatus = "TIMEOUT"
     \/ newStatus = status /\ Len(reply) = MaxNew
  /\ status' = newStatus
  /\ pc' = "return"
  /\ UNCHANGED << history, allSeqLen, config, cachedText, call, reply, said >>

-----------------------------------------------------------------------------
(* The caller gets the reply.                                              *)

Stopped == reply # << >> /\ Last(reply) = StopTok

(* What the session and the server add to the messages.                    *)
WithReply ==
  LET text == StripThink(Streamed)
  IN IF text # << >> \/ (call.kind = "session" /\ Stopped)
     THEN Append(call.msgs, FromModel(text))
     ELSE call.msgs

BackToCaller ==
  /\ pc' = "idle"
  /\ call' = NoCall
  /\ reply' = << >>

Return ==
  /\ pc = "return"
  /\ \/ /\ call.kind = "demo"
        /\ cachedText' = AfterResponse
        /\ said' = Append(call.msgs, FromModel(Streamed))
     \/ /\ call.kind = "ids"
        /\ UNCHANGED << cachedText, said >>
     \/ /\ Steps
        /\ cachedText' = Synced(WithReply)
        /\ said' = WithReply
  /\ BackToCaller
  /\ UNCHANGED << history, context, config >>

(* The user stops the reply: the session keeps what it got, the server     *)
(* rolls the rows back to the prompt.                                      *)
Cancel ==
  /\ Steps
  /\ \/ pc = "decode" /\ reply # << >>
     \/ pc = "return" /\ status \notin Errors
  /\ \/ /\ call.kind = "session"
        /\ cachedText' = Synced(WithReply)
        /\ said' = WithReply
        /\ UNCHANGED << history, allSeqLen >>
     \/ /\ call.kind = "server"
        /\ EraseFrom(call.kvBefore)
        /\ said' = call.msgs
        /\ UNCHANGED cachedText
  /\ BackToCaller
  /\ UNCHANGED << status, config >>

Reset ==
  /\ pc = "idle"
  /\ DropAll
  /\ cachedText' = << >>
  /\ said' = << >>
  /\ UNCHANGED << status, config, pc, call, reply >>

(* set_config: a user switches the prompt cache.                           *)
SetConfig ==
  /\ pc = "idle" \/ "toggle" \in Situations
  /\ promptCache' = ~promptCache
  /\ said' = << >>
  /\ UNCHANGED << history, context, reuseKV, template, cachedText, pc, call, reply >>

-----------------------------------------------------------------------------
(* Conversations a caller sends: the last one with a new message, or any   *)
(* other, since messages are edited and trimmed.                           *)
Requests == Others \cup { Append(said, FromUser(<< u >>)) : u \in User }

Drafts == { << >>, << Draft >> }

Next ==
  \/ \E kind \in Chats, msgs \in Requests :
       Len(msgs) <= MaxMsgs /\ Respond(kind, msgs)
  \/ \E kind \in Chats, msgs \in Others : Refuse(kind, msgs)
  \/ \E ids \in Ids : RespondIds(ids)
  \/ Prefill \/ FailPrefill
  \/ \E token \in Word \cup {Think} :
       FailDecode(token) \/ \E drafts \in Drafts : Decode(token, drafts)
  \/ Reject \/ StopToken
  \/ \E newStatus \in {"RUNNING", "TIMEOUT"} : EndDecode(newStatus)
  \/ Return \/ Cancel \/ Reset \/ SetConfig

Spec == Init /\ [][Next]_vars

-----------------------------------------------------------------------------
(* Properties.                                                             *)

(* Every variable keeps its type; positions are not negative.              *)
TypeOK ==
  /\ Conv!TypeOK
  /\ allSeqLen \in 0 .. MaxRows
  /\ status \in Errors \cup {"RUNNING"}
  /\ cachedText \in Seq(Piece)
  /\ pc \in {"idle", "prefill", "decode", "reject", "return"}

(* What was said, without the markers of the template and the thinking:    *)
(* the end of a reply is never forwarded, and the header of a cancelled    *)
(* reply stays.                                                            *)
Content(rows) == Without(rows, {Header, End, Think})

(* A reply is computed from rows that say what the request says, word for  *)
(* word and in order, however the turns before it ended, were cancelled,   *)
(* edited or trimmed, and the positions go on where the rows end ("rather  *)
(* than conditioning on stale KV entries").                                *)
AnswersRequest ==
  (pc = "decode" /\ call.kind \in Chats) =>
    /\ Content(kept) = Content(Encoded(call.msgs)) \o Content(reply)
    /\ allSeqLen = Len(kept)

(* A request that only adds messages to the conversation, as the caller    *)
(* has it after the last turn, reuses all rows of it, whoever removed the  *)
(* thinking ("only tokenize and prefill the new suffix").                  *)
ExtensionReuses ==
  [][ (pc = "idle" /\ pc' = "prefill" /\ call'.kind \in Chats
         /\ promptCache /\ said # << >> /\ IsStrictPrefix(said, call'.msgs))
        => kept' = kept ]_vars
=============================================================================
