--------------------------- MODULE MCRollbackDemo ---------------------------
(***************************************************************************)
(* A small instance of RollbackDemo: two tokens, so that a wrong row shows,*)
(* prompts of one and two tokens, up to three turns.                       *)
(***************************************************************************)
EXTENDS RollbackDemo

MCPrompts == { << "a" >>, << "b", "a" >> }
=============================================================================
