---------------------------- MODULE MCGeneration ----------------------------
(***************************************************************************)
(* A small instance of Generation: three tokens, one of them a stop token, *)
(* prompts of up to four tokens in blocks of three, and a model that is a  *)
(* fixed function of all the rows, so that a missing, a stale or a         *)
(* reordered row changes what is predicted.                                *)
(***************************************************************************)
EXTENDS Generation, FiniteSetsExt

MCToken == 0 .. 2
MCStop == {0}
MCNoToken == -1

MCPrompts == { << 1 >>, << 2 >>, << 2, 1, 1 >>, << 1, 1, 2 >>, << 1, 2, 2, 1 >> }

MCPredict(rows) ==
  (Len(rows) + MapThenSumSet(LAMBDA i : (i + 1) * rows[i], DOMAIN rows)) % 3

EmptyReply == {"empty_reply"}
Padded == {"padded"}
=============================================================================
