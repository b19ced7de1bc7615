---------------------------- MODULE Conversation ----------------------------
(***************************************************************************)
(* What the key/value history of an Llm promises its caller.               *)
(*                                                                         *)
(* The engine remembers a sequence of tokens.  Erasing a range of it is    *)
(* lazy: the erased range is only a plan until the next forward, and a     *)
(* later erase replaces the plan of an earlier one, still counted in the   *)
(* positions of what is stored.  A forward runs the plan and appends.  A   *)
(* forward that breaks half way loses the conversation.                    *)
(*                                                                         *)
(* How many layers hold the rows, where they lie in a buffer, when they    *)
(* are moved and how big the buffer is, is the business of KVHistory,      *)
(* which implements this module.                                           *)
(***************************************************************************)
EXTENDS Naturals, Sequences

CONSTANT Token

VARIABLES
  stored, \* the tokens the engine holds rows for (getCurrentHistory of them)
  kept    \* the tokens of stored that the next forward will attend to

vars == << stored, kept >>

TypeOK ==
  /\ stored \in Seq(Token)
  /\ kept \in Seq(Token)

Init ==
  /\ stored = << >>
  /\ kept = << >>

(* A forward over ts: the pending erase takes effect, then ts is appended. *)
Forward(ts) ==
  /\ ts # << >>
  /\ stored' = kept \o ts
  /\ kept' = kept \o ts

(* Forget the stored tokens begin .. end-1 (counted from 0).               *)
Erase(begin, end) ==
  /\ begin < end
  /\ end <= Len(stored)
  /\ kept' = SubSeq(stored, 1, begin) \o SubSeq(stored, end + 1, Len(stored))
  /\ UNCHANGED stored

(* Forget everything, whether or not anything is stored.                   *)
Clear ==
  /\ kept' = << >>
  /\ UNCHANGED stored

(* A forward failed after some layers had run.                             *)
Lose ==
  /\ stored' = << >>
  /\ kept' = << >>

(* The quantifiers are bounded by what the step itself can produce, so     *)
(* that TLC evaluates the refinement: the appended tokens are a suffix of  *)
(* the new stored sequence.                                                *)
Next ==
  \/ \E n \in 0 .. Len(stored') : Forward(SubSeq(stored', n + 1, Len(stored')))
  \/ \E begin \in 0 .. Len(stored) :
       \E end \in 0 .. Len(stored) : Erase(begin, end)
  \/ Clear
  \/ Lose

Spec == Init /\ [][Next]_vars
=============================================================================
