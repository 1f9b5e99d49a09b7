---------------------------- MODULE MCMigrations ----------------------------
(***************************************************************************)
(* TLC instances of Migrations with the registry of register_migrations:   *)
(* users, devices, constituents, rate_limits.                              *)
(***************************************************************************)
EXTENDS Migrations

MCReferences == <<{}, {1}, {1}, {}>>
=============================================================================
