---------------------------- MODULE MCDeviceAuth ----------------------------
(***************************************************************************)
(* TLC instances of DeviceAuth: the seconds are shorter, with the order of *)
(* the limits kept (one second < cache window < validity).                 *)
(***************************************************************************)
EXTENDS DeviceAuth

(* Requests only differ by name. *)
Symmetry == Permutations(Requests)
=============================================================================
