---------------------------- MODULE MCThreadPool ----------------------------
(***************************************************************************)
(* A small instance of ThreadPool: two runtimes for one slot, two workers  *)
(* besides the caller, loops of four indices, which are strided, and the   *)
(* loops of three by which threads are bound.                              *)
(***************************************************************************)
EXTENDS ThreadPool

MCSizes == {4}
=============================================================================
