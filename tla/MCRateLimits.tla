---------------------------- MODULE MCRateLimits ----------------------------
(***************************************************************************)
(* TLC instances of RateLimits.                                            *)
(***************************************************************************)
EXTENDS RateLimits

(* Workers only differ by name. *)
Symmetry == Permutations(Workers)
=============================================================================
