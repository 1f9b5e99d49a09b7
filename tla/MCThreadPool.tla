---------------------------- MODULE MCThreadPool ----------------------------
(***************************************************************************)
(* A TLC instance of ThreadPool, with one identity more than the maximum   *)
(* leaves to dynamic threads.  No symmetry: there are temporal properties. *)
(***************************************************************************)
EXTENDS ThreadPool
=============================================================================
