----------------------------- MODULE MCKVLayout -----------------------------
(***************************************************************************)
(* A small instance of KVLayout: a head of three dimensions in groups of   *)
(* two, so that the last group is padded, and blocks of two values.        *)
(***************************************************************************)
EXTENDS KVLayout

MCToken == {"a", "b"}
=============================================================================
