-------------------------- MODULE MCConnectionPool --------------------------
(***************************************************************************)
(* TLC instances of ConnectionPool: more threads than connections, so that *)
(* threads wait, expire and overtake each other.                           *)
(***************************************************************************)
EXTENDS ConnectionPool

=============================================================================
