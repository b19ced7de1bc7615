---------------------------- MODULE RollbackDemo ----------------------------
(***************************************************************************)
(* The two interactive callers of eraseHistory, with reuse_kv.             *)
(*                                                                         *)
(*   agent  chat_agent: a fixed prefix is prefilled once and every step    *)
(*          first erases all that followed it                              *)
(*   chat   chat_rollback: every turn pushes a marker, the length of the   *)
(*          history, and /rollback erases from the last marker             *)
(*                                                                         *)
(* Both measure with getCurrentHistory(), the rows that are stored, while  *)
(* an erase may wait for the next forward: one that a /rollback planned or *)
(* that the last rejected drafts left.  The history is a Conversation.     *)
(***************************************************************************)
EXTENDS Naturals, Sequences, SequencesExt

CONSTANTS
  Id,         \* the tokens
  None,       \* no value
  Prompts,    \* bound of the model: the prompts a user types
  MaxRows,    \* bound of the model: rows of a conversation
  MaxMarkers  \* bound of the model: turns that can be rolled back

ASSUME RollbackAssumption ==
  /\ Prompts \subseteq Seq(Id) \ {<< >>}
  /\ MaxRows \in Nat /\ MaxMarkers \in Nat

VARIABLES
  stored,  \* rows held, see Conversation
  kept,    \* rows the next forward attends to, see Conversation
  caller,  \* the driver that runs
  pc,      \* where it is
  input,   \* the prompt to prefill
  markers, \* history_markers
  prefix,  \* prefix_pos, None before the prefix is there
  saved,   \* history variable: kept when each marker, or prefix, was taken
  settled  \* history variable: no erase was pending when a marker was taken

history == << stored, kept >>
demoVars == << history, caller, pc, input, markers, prefix, saved, settled >>

Talk == INSTANCE Conversation WITH Token <- Id

DemoInit ==
  /\ Talk!Init
  /\ caller \in {"agent", "chat"}
  /\ pc = "prompt" /\ input = << >>
  /\ markers = << >> /\ prefix = None /\ saved = << >> /\ settled = << >>

-----------------------------------------------------------------------------
(* eraseHistory(begin, end) of the Llm, which may refuse.                  *)
Erase(begin, end) ==
  LET last == IF end = 0 THEN Len(stored) ELSE end
  IN IF begin < last /\ last <= Len(stored)
     THEN Talk!Erase(begin, last)
     ELSE UNCHANGED history

(* chat_rollback: a turn.                                                  *)
AskAt(ids, marker) ==
  /\ caller = "chat" /\ pc = "prompt"
  /\ Len(markers) < MaxMarkers
  /\ markers' = Append(markers, marker)
  /\ saved' = Append(saved, kept)
  /\ settled' = Append(settled, kept = stored)
  /\ input' = ids
  /\ pc' = "prefill"
  /\ UNCHANGED << history, caller, prefix >>

AskOffByOne(ids) == AskAt(ids, Len(stored) + 1)

Ask(ids) == AskAt(ids, Len(stored))

(* chat_rollback: /rollback.                                               *)
Rollback ==
  /\ caller = "chat" /\ pc = "prompt"
  /\ markers # << >>
  /\ Erase(Last(markers), Len(stored))
  /\ markers' = Front(markers)
  /\ saved' = Front(saved)
  /\ settled' = Front(settled)
  /\ UNCHANGED << caller, pc, input, prefix >>

(* chat_agent: the prefix is sent, then noted, then every step starts.     *)
SendPrefix(ids) ==
  /\ caller = "agent" /\ pc = "prompt"
  /\ prefix = None
  /\ input' = ids
  /\ pc' = "prefill"
  /\ UNCHANGED << history, caller, markers, prefix, saved, settled >>

(* A step erases what the step before it added; before the first step that *)
(* is nothing (the code asks step > 0, eraseHistory would refuse).         *)
EraseStepKeepsReply == Erase(prefix, Len(kept))

EraseStep == Erase(prefix, 0)

Step(ids) ==
  /\ caller = "agent" /\ pc = "prompt"
  /\ prefix # None
  /\ EraseStep
  /\ input' = ids
  /\ pc' = "prefill"
  /\ UNCHANGED << caller, markers, prefix, saved, settled >>

-----------------------------------------------------------------------------
(* The responses.  The prefix is prefilled without generating.             *)
Prefill ==
  /\ pc = "prefill"
  /\ Len(kept) + Len(input) <= MaxRows
  /\ Talk!Forward(input)
  /\ input' = << >>
  /\ IF caller = "agent" /\ prefix = None
     THEN pc' = "prompt" /\ prefix' = Len(stored') /\ saved' = << kept' >>
     ELSE pc' = "decode" /\ UNCHANGED << prefix, saved >>
  /\ UNCHANGED << caller, markers, settled >>

(* One round of decoding forwards a token and perhaps drafts, of which     *)
(* some are rejected: they are removed by the next forward.                *)
Decode(ts) ==
  /\ pc = "decode"
  /\ Len(kept) + Len(ts) <= MaxRows
  /\ Talk!Forward(ts)
  /\ pc' = "verify"
  /\ UNCHANGED << caller, input, markers, prefix, saved, settled >>

Reject ==
  /\ pc = "verify"
  /\ pc' = "decode"
  /\ Talk!Erase(Len(stored) - 1, Len(stored))
  /\ UNCHANGED << caller, input, markers, prefix, saved, settled >>

Accept ==
  /\ pc = "verify"
  /\ pc' = "decode"
  /\ UNCHANGED << history, caller, input, markers, prefix, saved, settled >>

(* The response ends, by a stop token, the limit or an error before any    *)
(* row of the forward was stored.  (The agent ends when its prefix fails.) *)
EndTurn ==
  /\ pc \in {"prefill", "decode"}
  /\ caller = "agent" => prefix # None
  /\ pc' = "prompt"
  /\ input' = << >>
  /\ UNCHANGED << history, caller, markers, prefix, saved, settled >>

(* /exit                                                                   *)
Exit ==
  /\ pc = "prompt"
  /\ pc' = "exit"
  /\ UNCHANGED << history, caller, input, markers, prefix, saved, settled >>

DemoNext ==
  \/ \E ids \in Prompts : Ask(ids) \/ SendPrefix(ids) \/ Step(ids)
  \/ Rollback
  \/ Prefill
  \/ \E ts \in { << t >> : t \in Id } \cup { << t, t >> : t \in Id } :
       Decode(ts)
  \/ Reject \/ Accept \/ EndTurn
  \/ Exit

DemoSpec == DemoInit /\ [][DemoNext]_demoVars

-----------------------------------------------------------------------------
(* A /rollback never takes a row of an earlier turn, however the turns     *)
(* ended, whatever drafts were rejected and whatever was undone before;    *)
(* and it leaves exactly the rows from before the turn it undoes, if no    *)
(* erase was pending when that turn was asked: markers taken then stay     *)
(* right, also below others that are wrong.                                *)
RollbackRestores ==
  [][ Len(markers') < Len(markers) =>
        /\ IsPrefix(Last(saved), kept')
        /\ Last(settled) => kept' = Last(saved) ]_demoVars

(* "Rolled back to previous state", which the demo prints after every      *)
(* /rollback: the rows are those from before the turn, also when that was  *)
(* typed behind a /rollback or behind a last round with rejected drafts.   *)
PreviousState ==
  [][ Len(markers') < Len(markers) => kept' = Last(saved) ]_demoVars

(* Every step of the agent prefills right behind the prefix: nothing of an *)
(* earlier step is left, also when that one failed or had drafts rejected. *)
StepsStartAtPrefix ==
  (caller = "agent" /\ pc = "prefill" /\ prefix # None) => kept = saved[1]
=============================================================================
