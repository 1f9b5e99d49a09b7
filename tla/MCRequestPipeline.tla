------------------------- MODULE MCRequestPipeline -------------------------
(***************************************************************************)
(* TLC instances of RequestPipeline: a request of each kind whose way      *)
(* through the code differs, of two users.                                 *)
(***************************************************************************)
EXTENDS RequestPipeline

CONSTANTS u1, u2

P(route, token, input) == [route |-> route, token |-> token, input |-> input]

MCProfiles ==
    {P("login", Anonymous, "good"), P("login", u1, "good"), P("login", Invalid, "good"),
     P("record", Anonymous, "good"), P("record", u1, "good"),
     P("record", u2, "malformed"), P("record", u1, "no_uuid"), P("wipe", u2, "good"),
     P("enrich", u1, "good"), P("enrich", u2, "good"), P("enrich", u2, "malformed")}
=============================================================================
