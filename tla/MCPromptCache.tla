---------------------------- MODULE MCPromptCache ----------------------------
(***************************************************************************)
(* A small instance of PromptCache: two things a user says, one word of    *)
(* the model, conversations of up to five messages.                        *)
(***************************************************************************)
EXTENDS PromptCache

MCOthers ==
  { << FromUser(<< "u" >>) >>,
    << FromUser(<< "u" >>), FromModel(<< "a" >>), FromUser(<< "v" >>) >> }

MCIds == { << "u" >> }
=============================================================================
