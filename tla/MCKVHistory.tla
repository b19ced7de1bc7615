---------------------------- MODULE MCKVHistory ----------------------------
(***************************************************************************)
(* A small instance of KVHistory: two attention layers, so that a forward  *)
(* can stop between them, and two tokens, enough to tell a wrong row from  *)
(* the right one.                                                          *)
(***************************************************************************)
EXTENDS KVHistory, TLC

CONSTANTS a, b

MCToken == {a, b}

(* What callers do: Interior in the run; the others are ways the code does *)
(* not support.                                                            *)
Interior == {"interior"}
Override == {"interior", "override"}
FrontErased == {"prefix"}
Retry == {"retry"}

(* Tokens are interchangeable and no liveness is checked.                  *)
Symmetry == Permutations(MCToken)
=============================================================================
