----------------------------- MODULE MCUserData -----------------------------
(***************************************************************************)
(* TLC instances of UserData.                                              *)
(***************************************************************************)
EXTENDS UserData

(* Requests only differ by name, and so do the fields. *)
Symmetry == Permutations(Requests) \cup Permutations(Fields)
=============================================================================
