----------------------------- MODULE RateLimits -----------------------------
(***************************************************************************)
(* RateLimitsService::hit (src/app/services/rate_limits.cpp) on the table  *)
(* rate_limits of migration 004.                                           *)
(*                                                                         *)
(* The statement is atomic, but it is not instantaneous: NOW() is read     *)
(* when the statement starts, and the row is read and written later, once  *)
(* no other statement holds its lock.  Begin is the first instant, Admit,  *)
(* Refuse and Fail the second one.  Time is counted in units of which Per  *)
(* make up the rate's period.                                              *)
(***************************************************************************)
EXTENDS Integers, Sequences, FiniteSets, TLC

CONSTANTS Keys,     \* "METHOD:path:user_id"
          Workers,  \* connections, each running one statement at a time
          Limit,    \* the middleware's limit ...
          Per,      \* ... and per_seconds
          MaxTime,  \* bound on the clock
          MaxCrashes, \* bound on the database's crashes
          None      \* no row, no statement

ASSUME LimitAssumption == Limit \in Nat \ {0}
ASSUME PerAssumption == Per \in Nat \ {0}
ASSUME MaxTimeAssumption == MaxTime \in Nat
ASSUME MaxCrashesAssumption == MaxCrashes \in Nat

Times == 0 .. MaxTime
Rows  == [tokens : Nat, refilled_at : Times]
Calls == [key : Keys, at : Times]

ASSUME NoneAssumption == None \notin Rows /\ None \notin Calls

VARIABLES now,      \* the database's clock
          row,      \* the table: a row or None for each key
          call,     \* the statement each worker is executing
          answer,   \* what hit() last did for each worker
          born,     \* history: the refilled_at each row was inserted with
          charged,  \* history: the NOW() of each hit charged to the row
          earlier,  \* history: the same for the rows a key lost in crashes
          crashes   \* history: when the database crashed

vars == <<now, row, call, answer, born, charged, earlier, crashes>>

Answers == {"none", "true", "false", "error"}

Init ==
    /\ now = 0
    /\ row = [k \in Keys |-> None]
    /\ call = [w \in Workers |-> None]
    /\ answer = [w \in Workers |-> "none"]
    /\ born = [k \in Keys |-> 0]
    /\ charged = [k \in Keys |-> <<>>]
    /\ earlier = [k \in Keys |-> <<>>]
    /\ crashes = <<>>
-----------------------------------------------------------------------------
(* Refill with the two times exchanged. *)
Refill_Swapped(r, at) == (Limit * (r.refilled_at - at)) \div Per

(* FLOOR($2 * (NOW() - refilled_at) / $3), which SQL and \div both round   *)
(* towards minus infinity.                                                 *)
Refill(r, at) == (Limit * (at - r.refilled_at)) \div Per

(* Tokens without LEAST: an idle bucket fills without end. *)
Tokens_NoCap(r, at) ==
    IF r = None THEN Limit - 1 ELSE r.tokens + Refill(r, at) - 1

(* tokens and refilled_at after the statement, before the CHECK. *)
Tokens(r, at) ==
    IF r = None
    THEN Limit - 1
    ELSE LET refilled == r.tokens + Refill(r, at)
         IN  (IF refilled < Limit THEN refilled ELSE Limit) - 1

(* RefilledAt that stays where it is: elapsed time is paid for again. *)
RefilledAt_Never(r, at) == IF r = None THEN at ELSE r.refilled_at

RefilledAt(r, at) == IF r = None \/ Refill(r, at) > 0 THEN at ELSE r.refilled_at

(* The row the statement writes if the CHECK lets it. *)
NewRow(r, at) == [tokens |-> Tokens(r, at), refilled_at |-> RefilledAt(r, at)]

(* Upsert without CHECK (tokens >= 0). *)
Upsert_NoCheck(k, at) ==
    /\ row' = [row EXCEPT ![k] = NewRow(@, at)]
    /\ born' = IF row[k] = None THEN [born EXCEPT ![k] = at] ELSE born
    /\ charged' = [charged EXCEPT ![k] = Append(@, at)]

(* The upsert, when the CHECK holds. *)
Upsert(k, at) ==
    /\ Tokens(row[k], at) >= 0
    /\ row' = [row EXCEPT ![k] = NewRow(@, at)]
    /\ born' = IF row[k] = None THEN [born EXCEPT ![k] = at] ELSE born
    /\ charged' = [charged EXCEPT ![k] = Append(@, at)]
-----------------------------------------------------------------------------
Tick ==
    /\ now < MaxTime
    /\ now' = now + 1
    /\ UNCHANGED <<row, call, answer, born, charged, earlier, crashes>>

(* The statement starts: NOW() is fixed. *)
Begin(w, k) ==
    /\ call[w] = None
    /\ call' = [call EXCEPT ![w] = [key |-> k, at |-> now]]
    /\ answer' = [answer EXCEPT ![w] = "none"]
    /\ UNCHANGED <<now, row, born, charged, earlier, crashes>>

(* hit() ends with the given answer. *)
Return(w, result) ==
    /\ call' = [call EXCEPT ![w] = None]
    /\ answer' = [answer EXCEPT ![w] = result]
    /\ UNCHANGED <<now, earlier, crashes>>

(* The statement has its row and the CHECK holds: true. *)
Admit(w) ==
    /\ call[w] # None
    /\ Upsert(call[w].key, call[w].at)
    /\ Return(w, "true")

(* Refuse that moves refilled_at all the same. *)
Refuse_Stamp(w) ==
    /\ call[w] # None
    /\ LET k == call[w].key  at == call[w].at
       IN  /\ Tokens(row[k], at) < 0
           /\ row' = [row EXCEPT ![k] =
                         IF @ = None THEN None ELSE [@ EXCEPT !.refilled_at = at]]
    /\ UNCHANGED <<born, charged>>
    /\ Return(w, "false")

(* check_violation: nothing is written, false. *)
Refuse(w) ==
    /\ call[w] # None
    /\ Tokens(row[call[w].key], call[w].at) < 0
    /\ UNCHANGED <<row, born, charged>>
    /\ Return(w, "false")

(* Any other exception: the connection broke, before or after the database *)
(* committed the statement.                                                *)
Fail(w) ==
    /\ call[w] # None
    /\ \/ UNCHANGED <<row, born, charged>>
       \/ Upsert(call[w].key, call[w].at)
    /\ Return(w, "error")

(* An UNLOGGED table is emptied when the database recovers from a crash;   *)
(* the statements in progress fail.  What was charged before stays in the  *)
(* history.                                                                *)
Crash ==
    /\ Len(crashes) < MaxCrashes
    /\ row' = [k \in Keys |-> None]
    /\ born' = [k \in Keys |-> 0]
    /\ call' = [w \in Workers |-> None]
    /\ answer' = [w \in Workers |-> IF call[w] # None THEN "error" ELSE answer[w]]
    /\ charged' = [k \in Keys |-> <<>>]
    /\ earlier' = [k \in Keys |-> earlier[k] \o charged[k]]
    /\ crashes' = Append(crashes, now)
    /\ UNCHANGED now

End(w) == Admit(w) \/ Refuse(w) \/ Fail(w)

Next ==
    \/ Tick
    \/ \E w \in Workers : (\E k \in Keys : Begin(w, k)) \/ End(w)
    \/ Crash

Spec == Init /\ [][Next]_vars
-----------------------------------------------------------------------------
(* Type invariant: with it, the CHECK (tokens >= 0) of the table. *)
TypeOK ==
    /\ now \in Times
    /\ row \in [Keys -> Rows \cup {None}]
    /\ call \in [Workers -> Calls \cup {None}]
    /\ answer \in [Workers -> Answers]
    /\ born \in [Keys -> Times]
    /\ charged \in [Keys -> Seq(Times)]
    /\ earlier \in [Keys -> Seq(Times)]
    /\ crashes \in Seq(Times)

(* "Concurrent requests for the same key cannot race past each other": for *)
(* each key, the hits charged and the tokens left never exceed the burst  *)
(* and Limit per Per since the row was inserted, in whatever order         *)
(* overlapping statements get the row.                                     *)
NoOverAdmission ==
    \A k \in Keys : row[k] # None =>
        (Len(charged[k]) + row[k].tokens) * Per
            <= Limit * Per + Limit * (row[k].refilled_at - born[k])

(* How many of the times are in the period that starts at s. *)
InPeriod(times, s) ==
    Cardinality({i \in DOMAIN times : times[i] \in s .. s + Per})

(* No period of Per sees more than 2 * Limit charged hits of one key (the  *)
(* burst and the refill) and Limit for each crash of the database in it,   *)
(* which hands out one more full bucket; all the hits of the period count, *)
(* also those whose row a crash has emptied away.  Without a crash this is *)
(* still more than the "60 / hour" of the API table, which is the rate of  *)
(* the refill alone.                                                       *)
WindowBound ==
    \A k \in Keys : \A s \in Times :
        InPeriod(earlier[k], s) + InPeriod(charged[k], s)
            <= (2 + InPeriod(crashes, s)) * Limit

(* Worker w's statement is refused. *)
Refused(w) == call[w] # None /\ call'[w] = None /\ answer'[w] = "false"

(* A client is not locked out: a statement that starts at least Per / Limit *)
(* after the last charged one's NOW() is never refused, however many        *)
(* refused ones came in between and whichever others overlap.  What was     *)
(* charged before a crash is no reason to refuse.                           *)
NoLockout ==
    [][\A w \in Workers : Refused(w) =>
          LET past == charged[call[w].key]
          IN  \E i \in DOMAIN past : Limit * (call[w].at - past[i]) < Per]_vars

(* hit() is false only "when the bucket is empty".                          *)
RefusedOnlyWhenEmpty ==
    [][\A w \in Workers : Refused(w) =>
          LET r == row[call[w].key] IN r # None /\ r.tokens = 0]_vars

(* The one exception: a statement whose NOW() is older than the row, since  *)
(* one that started later overtook it and refilled the bucket, may be       *)
(* refused with tokens left.                                                *)
RefusedWhenEmptyOrOvertaken ==
    [][\A w \in Workers : Refused(w) =>
          LET r == row[call[w].key]
          IN  r # None /\ (r.tokens = 0 \/ call[w].at < r.refilled_at)]_vars
=============================================================================
