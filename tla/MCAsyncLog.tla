----------------------------- MODULE MCAsyncLog -----------------------------
(***************************************************************************)
(* TLC instances of AsyncLog.  The producers are kept apart (no symmetry): *)
(* the same constants serve the temporal properties.                       *)
(***************************************************************************)
EXTENDS AsyncLog
=============================================================================
