------------------------------ MODULE MCServer ------------------------------
(***************************************************************************)
(* TLC instances of Server.  The workers are kept apart (no symmetry): the *)
(* same constants serve the temporal properties.                           *)
(***************************************************************************)
EXTENDS Server
=============================================================================
