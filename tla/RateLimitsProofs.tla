-------------------------- MODULE RateLimitsProofs --------------------------
(***************************************************************************)
(* Safety of RateLimits for every limit, period, set of keys and number of *)
(* overlapping statements.                                                 *)
(***************************************************************************)
EXTENDS RateLimits, SequenceTheorems, FiniteSetTheorems, FunctionTheorems, TLAPS

(* FLOOR of a quotient. *)
LEMMA Floor ==
    ASSUME NEW a \in Int, NEW b \in Nat \ {0}
    PROVE  /\ a \div b \in Int
           /\ (a \div b) * b <= a
           /\ a < (a \div b) * b + b
  OBVIOUS

(* Products of integers. *)
LEMMA ProductMonotone ==
    ASSUME NEW a \in Int, NEW b \in Int, NEW c \in Nat, a <= b
    PROVE  a * c <= b * c
  OBVIOUS

LEMMA ProductSum ==
    ASSUME NEW a \in Int, NEW b \in Int, NEW c \in Int
    PROVE  /\ a * c \in Int /\ b * c \in Int
           /\ (a + b) * c = a * c + b * c
           /\ c * (a + b) = c * a + c * b
           /\ c * (a - b) = c * a - c * b
  OBVIOUS
(* The account of one charged hit: n earlier ones with tok tokens left, f  *)
(* tokens refilled in time e, d the time accounted for before.             *)
LEMMA Account ==
    ASSUME NEW L \in Nat, NEW P \in Nat,
           NEW n \in Nat, NEW tok \in Nat, NEW left \in Nat,
           NEW f \in Int, NEW e \in Int, NEW d \in Int,
           (n + tok) * P <= L * P + L * d,
           f * P <= L * e,
           left <= tok + f - 1
    PROVE  /\ (n + 1 + left) * P <= L * P + L * (d + e)
           /\ f <= 0 => (n + 1 + left) * P <= L * P + L * d
  <1> DEFINE x == n + 1 + left
             y == n + tok
  <1>1. x \in Int /\ y \in Int /\ x <= y + f
    OBVIOUS
  <1>2. x * P <= (y + f) * P
    <2>1. y + f \in Int
      BY <1>1
    <2> HIDE DEF x, y
    <2> QED
      BY <1>1, <2>1, ProductMonotone
  <1>3. (y + f) * P = y * P + f * P
    <2> HIDE DEF x, y
    <2> QED
      BY <1>1, ProductSum
  <1>4. L * (d + e) = L * d + L * e
    BY ProductSum
  <1>5. x * P \in Int /\ y * P \in Int /\ f * P \in Int
    <2> HIDE DEF x, y
    <2> QED
      BY <1>1, ProductSum
  <1>6. L * P \in Int /\ L * d \in Int /\ L * e \in Int
    OBVIOUS
  <1>7. x * P <= L * P + L * (d + e)
    <2>1. y * P <= L * P + L * d
      OBVIOUS
    <2> HIDE DEF x, y
    <2> QED
      BY <1>2, <1>3, <1>4, <1>5, <1>6, <2>1
  <1>8. ASSUME f <= 0 PROVE x * P <= L * P + L * d
    <2>1. y * P <= L * P + L * d
      OBVIOUS
    <2>2. x <= y
      BY <1>1, <1>8
    <2> HIDE DEF x, y
    <2>3. x * P <= y * P
      BY <1>1, <2>2, ProductMonotone
    <2> QED
      BY <1>5, <1>6, <2>1, <2>3
  <1> QED
    BY <1>7, <1>8
-----------------------------------------------------------------------------
(* How many hits were charged, how many tokens are left, against what the  *)
(* period since the insertion allows.                                      *)
Bounded(k) ==
    (Len(charged[k]) + row[k].tokens) * Per
        <= Limit * Per + Limit * (row[k].refilled_at - born[k])

(* Some charged hit set the row's refilled_at. *)
Stamped(k) == \E i \in DOMAIN charged[k] : charged[k][i] = row[k].refilled_at

(* The inductive invariant: a key without a row has no history. *)
Inv ==
    /\ TypeOK
    /\ \A k \in Keys :
          /\ row[k] = None => charged[k] = <<>>
          /\ row[k] # None => Bounded(k) /\ Stamped(k)

(* What the statement computes for the row it finds. *)
LEMMA Computed ==
    ASSUME NEW r \in Rows, NEW at \in Times
    PROVE  /\ Refill(r, at) \in Int
           /\ Refill(r, at) * Per <= Limit * (at - r.refilled_at)
           /\ Limit * (at - r.refilled_at) < Refill(r, at) * Per + Per
           /\ Tokens(r, at) \in Int
           /\ Tokens(r, at) <= r.tokens + Refill(r, at) - 1
           /\ Tokens(r, at) < 0 => Refill(r, at) <= 0
           /\ RefilledAt(r, at) = IF Refill(r, at) > 0 THEN at ELSE r.refilled_at
  <1> DEFINE a == Limit * (at - r.refilled_at)
  <1>1. r.refilled_at \in Int /\ at \in Int /\ r.tokens \in Nat /\ Limit \in Nat \ {0}
    BY LimitAssumption, MaxTimeAssumption DEF Rows, Times
  <1>2. a \in Int
    BY <1>1
  <1>3. /\ a \div Per \in Int
        /\ (a \div Per) * Per <= a
        /\ a < (a \div Per) * Per + Per
    <2> HIDE DEF a
    <2> QED
      BY <1>2, PerAssumption, Floor
  <1>4. Refill(r, at) = a \div Per
    BY DEF Refill
  <1>5. r # None
    BY NoneAssumption
  <1>6. Refill(r, at) \in Int
    BY <1>3, <1>4
  <1>7. Tokens(r, at) = (IF r.tokens + Refill(r, at) < Limit
                         THEN r.tokens + Refill(r, at) ELSE Limit) - 1
    BY <1>5 DEF Tokens
  <1>8. /\ Tokens(r, at) \in Int
        /\ Tokens(r, at) <= r.tokens + Refill(r, at) - 1
        /\ Tokens(r, at) < 0 => Refill(r, at) <= 0
    BY <1>1, <1>6, <1>7
  <1>9. RefilledAt(r, at) = IF Refill(r, at) > 0 THEN at ELSE r.refilled_at
    BY <1>5 DEF RefilledAt
  <1> QED
    BY <1>3, <1>4, <1>6, <1>8, <1>9

(* The first statement for a key. *)
LEMMA Inserted ==
    ASSUME NEW at \in Times
    PROVE  /\ Tokens(None, at) = Limit - 1
           /\ RefilledAt(None, at) = at
  BY DEF Tokens, RefilledAt

(* One upsert keeps the invariant. *)
LEMMA UpsertStep ==
    ASSUME Inv, NEW k \in Keys, NEW at \in Times, Upsert(k, at)
    PROVE  /\ row' \in [Keys -> Rows \cup {None}]
           /\ born' \in [Keys -> Times]
           /\ charged' \in [Keys -> Seq(Times)]
           /\ \A j \in Keys :
                 /\ row'[j] = None => charged'[j] = <<>>
                 /\ row'[j] # None => Bounded(j)' /\ Stamped(j)'
  <1> DEFINE r == row[k]
             new == [tokens |-> Tokens(r, at), refilled_at |-> RefilledAt(r, at)]
             n == Len(charged[k])
  <1>1. /\ row' = [row EXCEPT ![k] = new]
        /\ Tokens(r, at) >= 0
        /\ charged' = [charged EXCEPT ![k] = Append(charged[k], at)]
        /\ born' = IF r = None THEN [born EXCEPT ![k] = at] ELSE born
    BY DEF Upsert, NewRow, Inv, TypeOK
  <1>2. /\ charged[k] \in Seq(Times)
        /\ n \in Nat
        /\ DOMAIN charged[k] = 1 .. n
        /\ charged'[k] \in Seq(Times)
        /\ Len(charged'[k]) = n + 1
        /\ DOMAIN charged'[k] = 1 .. n + 1
        /\ \A i \in 1 .. n : charged'[k][i] = charged[k][i]
        /\ charged'[k][n + 1] = at
    BY <1>1, AppendProperties, LenProperties DEF Inv, TypeOK
  <1>3. Limit \in Nat \ {0} /\ Per \in Nat \ {0} /\ Times \subseteq Nat
    BY LimitAssumption, PerAssumption, MaxTimeAssumption DEF Times
  <1>4. CASE r = None
    <2>1. new = [tokens |-> Limit - 1, refilled_at |-> at] /\ new \in Rows
      BY <1>3, <1>4, Inserted DEF Rows
    <2>2. n = 0
      BY <1>4, EmptySeq DEF Inv
    <2>3. row'[k] = new /\ born'[k] = at
      BY <1>1, <1>4 DEF Inv, TypeOK
    <2>4. (Len(charged'[k]) + row'[k].tokens) * Per = Limit * Per
      BY <1>2, <1>3, <2>1, <2>2, <2>3
    <2>5. Limit * (row'[k].refilled_at - born'[k]) = 0
      BY <1>3, <2>1, <2>3
    <2>6. Bounded(k)'
      BY <1>3, <2>4, <2>5, ProductSum DEF Bounded
    <2>7. Stamped(k)'
      BY <1>2, <2>1, <2>2, <2>3 DEF Stamped
    <2> QED
      BY <1>1, <1>2, <1>4, <2>1, <2>6, <2>7, NoneAssumption
      DEF Inv, TypeOK, Bounded, Stamped
  <1>5. CASE r # None
    <2>1. r \in Rows /\ r.tokens \in Nat /\ r.refilled_at \in Times /\ born[k] \in Times
      BY <1>5 DEF Inv, TypeOK, Rows
    <2> DEFINE f == Refill(r, at)
    <2>2. /\ f \in Int
          /\ f * Per <= Limit * (at - r.refilled_at)
          /\ Tokens(r, at) \in Nat
          /\ Tokens(r, at) <= r.tokens + f - 1
          /\ RefilledAt(r, at) = IF f > 0 THEN at ELSE r.refilled_at
      BY <1>1, <2>1, Computed
    <2>3. new \in Rows
      BY <2>1, <2>2 DEF Rows
    <2>4. row'[k] = new /\ born'[k] = born[k]
      BY <1>1, <1>5 DEF Inv, TypeOK
    <2>5. (n + r.tokens) * Per <= Limit * Per + Limit * (r.refilled_at - born[k])
      BY <1>5 DEF Inv, Bounded
    <2> HIDE DEF f, new
    <2>8. /\ (n + 1 + Tokens(r, at)) * Per <= Limit * Per + Limit * (at - born[k])
          /\ f <= 0 => (n + 1 + Tokens(r, at)) * Per
                          <= Limit * Per + Limit * (r.refilled_at - born[k])
      <3> DEFINE d == r.refilled_at - born[k]
                 e == at - r.refilled_at
                 left == Tokens(r, at)
                 tok == r.tokens
      <3>1. /\ d \in Int /\ e \in Int /\ left \in Nat /\ tok \in Nat
            /\ Limit \in Nat /\ Per \in Nat
            /\ d + e = at - born[k]
        <4>1. r.refilled_at \in Nat /\ at \in Nat /\ born[k] \in Nat
          BY <1>3, <2>1
        <4>2. left \in Nat /\ tok \in Nat /\ Limit \in Nat /\ Per \in Nat
          BY <1>3, <2>1, <2>2
        <4> QED
          BY <4>1, <4>2
      <3>2. /\ (n + tok) * Per <= Limit * Per + Limit * d
            /\ f * Per <= Limit * e
            /\ left <= tok + f - 1
        BY <2>2, <2>5
      <3> HIDE DEF d, e, left, tok, n
      <3>3. /\ (n + 1 + left) * Per <= Limit * Per + Limit * (d + e)
            /\ f <= 0 => (n + 1 + left) * Per <= Limit * Per + Limit * d
        BY <1>2, <2>2, <3>1, <3>2, Account
      <3> QED
        BY <3>1, <3>3 DEF d, left, n
    <2>6. CASE f > 0
      <3>1. row'[k].refilled_at = at
        BY <2>2, <2>4, <2>6 DEF new
      <3>2. row'[k].tokens = Tokens(r, at)
        BY <2>4 DEF new
      <3>6. (n + 1 + Tokens(r, at)) * Per <= Limit * Per + Limit * (at - born[k])
        BY <2>8
      <3>7. Bounded(k)'
        BY <1>2, <2>4, <3>1, <3>2, <3>6 DEF Bounded
      <3>8. Stamped(k)'
        BY <1>2, <3>1 DEF Stamped
      <3> QED
        BY <1>1, <1>2, <1>5, <2>3, <2>4, <3>7, <3>8, NoneAssumption
        DEF Inv, TypeOK, Bounded, Stamped
    <2>7. CASE f <= 0
      <3>1. row'[k].refilled_at = r.refilled_at
        BY <2>2, <2>4, <2>7 DEF new
      <3>2. row'[k].tokens = Tokens(r, at)
        BY <2>4 DEF new
      <3>4. (n + 1 + Tokens(r, at)) * Per
              <= Limit * Per + Limit * (r.refilled_at - born[k])
        BY <2>7, <2>8
      <3>5. Bounded(k)'
        BY <1>2, <2>4, <3>1, <3>2, <3>4 DEF Bounded
      <3>6. Stamped(k)'
        <4>1. PICK i \in 1 .. n : charged[k][i] = r.refilled_at
          BY <1>2, <1>5 DEF Inv, Stamped
        <4> QED
          BY <1>2, <3>1, <4>1 DEF Stamped
      <3> QED
        BY <1>1, <1>2, <1>5, <2>3, <2>4, <3>5, <3>6, NoneAssumption
        DEF Inv, TypeOK, Bounded, Stamped
    <2> QED
      BY <2>2, <2>6, <2>7
  <1> QED
    BY <1>4, <1>5
-----------------------------------------------------------------------------
(* A refused statement: the row is as it was, and its last refill is less  *)
(* than one token old.                                                     *)
LEMMA RefusedStep ==
    ASSUME Inv, NEW w \in Workers, Refuse(w)
    PROVE  LET past == charged[call[w].key]
           IN  \E i \in DOMAIN past : Limit * (call[w].at - past[i]) < Per
  <1> DEFINE k == call[w].key
             at == call[w].at
             r == row[k]
  <1>1. k \in Keys /\ at \in Times /\ Tokens(r, at) < 0
    BY DEF Inv, TypeOK, Calls, Refuse
  <1>2. r # None
    BY <1>1, LimitAssumption, Inserted
  <1>3. r \in Rows
    BY <1>1, <1>2 DEF Inv, TypeOK
  <1>4. /\ Refill(r, at) \in Int
        /\ Refill(r, at) <= 0
        /\ Limit * (at - r.refilled_at) < Refill(r, at) * Per + Per
    BY <1>1, <1>3, Computed
  <1>5. Refill(r, at) * Per <= 0
    <2> DEFINE f == Refill(r, at)
    <2>1. f \in Int /\ f <= 0
      BY <1>4
    <2> HIDE DEF f
    <2>2. f * Per <= 0 * Per
      BY <2>1, PerAssumption, ProductMonotone
    <2> QED
      BY <2>2, PerAssumption DEF f
  <1>6. Limit * (at - r.refilled_at) < Per
    <2> DEFINE x == Limit * (at - r.refilled_at)
               y == Refill(r, at) * Per
    <2>1. x \in Int /\ y \in Int
      <3>1. at \in Int /\ r.refilled_at \in Int /\ Limit \in Int /\ Per \in Int
        BY <1>1, <1>3, LimitAssumption, PerAssumption, MaxTimeAssumption DEF Rows, Times
      <3> QED
        BY <1>4, <3>1
    <2>2. x < y + Per /\ y <= 0
      BY <1>4, <1>5
    <2> HIDE DEF x, y
    <2>3. x < Per
      BY <2>1, <2>2, PerAssumption
    <2> QED
      BY <2>3 DEF x
  <1>7. PICK i \in DOMAIN charged[k] : charged[k][i] = r.refilled_at
    BY <1>1, <1>2 DEF Inv, Stamped
  <1> QED
    BY <1>6, <1>7
(* An answer "false" comes from a statement that finds too few tokens. *)
LEMMA OnlyRefuse ==
    ASSUME Inv, Next, NEW w \in Workers, Refused(w)
    PROVE  Refuse(w)
  <1> SUFFICES ASSUME ~Refuse(w) PROVE FALSE
    OBVIOUS
  <1>1. call[w] # None /\ call'[w] = None /\ answer'[w] = "false"
    BY DEF Refused
  <1>2. ASSUME NEW v \in Workers, NEW a \in Answers, Return(v, a)
        PROVE  v = w /\ a = "false"
    BY <1>1, <1>2 DEF Return, Inv, TypeOK
  <1>3. ASSUME NEW v \in Workers, End(v) PROVE FALSE
    BY <1>2, <1>3 DEF End, Admit, Refuse, Fail, Answers
  <1>4. ASSUME NEW v \in Workers, NEW k \in Keys, Begin(v, k) PROVE FALSE
    BY <1>1, <1>4, NoneAssumption DEF Begin, Inv, TypeOK, Calls
  <1>5. CASE Tick
    BY <1>1, <1>5 DEF Tick
  <1>6. CASE Crash
    BY <1>1, <1>6 DEF Crash
  <1> QED
    BY <1>3, <1>4, <1>5, <1>6 DEF Next

(* A row that has a token refuses only a statement that is older than it. *)
LEMMA RefusedRow ==
    ASSUME Inv, NEW w \in Workers, Refuse(w)
    PROVE  LET r == row[call[w].key]
           IN  r # None /\ (r.tokens = 0 \/ call[w].at < r.refilled_at)
  <1> DEFINE k == call[w].key
             at == call[w].at
             r == row[k]
  <1>1. k \in Keys /\ at \in Times /\ Tokens(r, at) < 0
    BY DEF Inv, TypeOK, Calls, Refuse
  <1>2. r # None
    BY <1>1, LimitAssumption, Inserted
  <1>3. r \in Rows /\ r.tokens \in Nat /\ r.refilled_at \in Nat /\ at \in Nat
    BY <1>1, <1>2, MaxTimeAssumption DEF Inv, TypeOK, Rows, Times
  <1>4. ASSUME r.refilled_at <= at PROVE r.tokens = 0
    <2> DEFINE f == Refill(r, at)
               e == at - r.refilled_at
    <2>1. f \in Int /\ Limit * e < f * Per + Per
      BY <1>1, <1>3, Computed
    <2>2. e \in Nat
      BY <1>3, <1>4
    <2>3. Tokens(r, at) = (IF r.tokens + f < Limit THEN r.tokens + f ELSE Limit) - 1
      BY <1>2 DEF Tokens
    <2> HIDE DEF f, e
    <2>4. f >= 0
      <3>1. Limit * e \in Nat
        BY <2>2, LimitAssumption
      <3>2. ASSUME f <= -1 PROVE FALSE
        <4>1. f * Per <= (-1) * Per
          BY <2>1, <3>2, PerAssumption, ProductMonotone
        <4>2. f * Per \in Int
          BY <2>1, PerAssumption, ProductSum
        <4> QED
          BY <2>1, <3>1, <4>1, <4>2, PerAssumption
      <3> QED
        BY <2>1, <3>2
    <2> QED
      BY <1>1, <1>3, <2>1, <2>3, <2>4, LimitAssumption
  <1> QED
    BY <1>2, <1>3, <1>4
-----------------------------------------------------------------------------
LEMMA InitInv == Init => Inv
  <1> SUFFICES ASSUME Init PROVE Inv
    OBVIOUS
  <1>1. TypeOK
    BY MaxTimeAssumption, EmptySeq DEF Init, TypeOK, Times, Answers
  <1> QED
    BY <1>1 DEF Init, Inv

(* A statement that ends leaves the types of what its worker keeps. *)
LEMMA ReturnTypes ==
    ASSUME TypeOK, NEW w \in Workers, NEW a \in Answers, Return(w, a)
    PROVE  /\ now' \in Times
           /\ call' \in [Workers -> Calls \cup {None}]
           /\ answer' \in [Workers -> Answers]
           /\ earlier' \in [Keys -> Seq(Times)]
           /\ crashes' \in Seq(Times)
  BY DEF TypeOK, Return

LEMMA NextInv == Inv /\ [Next]_vars => Inv'
  <1> SUFFICES ASSUME Inv, [Next]_vars PROVE Inv'
    OBVIOUS
  <1>1. CASE Tick
    <2>1. now' \in Times
      BY <1>1, MaxTimeAssumption DEF Tick, Inv, TypeOK, Times
    <2> QED
      BY <1>1, <2>1 DEF Tick, Inv, TypeOK, Bounded, Stamped
  <1>2. ASSUME NEW w \in Workers, NEW k \in Keys, Begin(w, k) PROVE Inv'
    <2>1. [key |-> k, at |-> now] \in Calls
      BY DEF Inv, TypeOK, Calls
    <2>2. /\ call' \in [Workers -> Calls \cup {None}]
          /\ answer' \in [Workers -> Answers]
      BY <1>2, <2>1 DEF Begin, Inv, TypeOK, Answers
    <2> QED
      BY <1>2, <2>2 DEF Begin, Inv, TypeOK, Bounded, Stamped
  <1>3. ASSUME NEW w \in Workers, call[w] # None,
               Upsert(call[w].key, call[w].at), NEW a \in Answers, Return(w, a)
        PROVE  Inv'
    <2>1. call[w].key \in Keys /\ call[w].at \in Times
      BY <1>3 DEF Inv, TypeOK, Calls
    <2> QED
      BY <1>3, <2>1, UpsertStep, ReturnTypes DEF Inv, TypeOK
  <1>4. ASSUME NEW w \in Workers, NEW a \in Answers, Return(w, a),
               UNCHANGED <<row, born, charged>>
        PROVE  Inv'
    BY <1>4, ReturnTypes DEF Inv, TypeOK, Bounded, Stamped
  <1>5. ASSUME NEW w \in Workers, End(w) PROVE Inv'
    <2>1. CASE Admit(w)
      BY <1>3, <2>1 DEF Admit, Answers
    <2>2. CASE Refuse(w)
      BY <1>4, <2>2 DEF Refuse, Answers
    <2>3. CASE Fail(w)
      BY <1>3, <1>4, <2>3 DEF Fail, Answers
    <2> QED
      BY <1>5, <2>1, <2>2, <2>3 DEF End
  <1>6. CASE Crash
    <2>1. \A k \in Keys : earlier[k] \o charged[k] \in Seq(Times)
      BY ConcatProperties DEF Inv, TypeOK
    <2>2. Append(crashes, now) \in Seq(Times)
      BY AppendProperties DEF Inv, TypeOK
    <2>3. TypeOK'
      BY <1>6, <2>1, <2>2, MaxTimeAssumption, EmptySeq
      DEF Crash, Inv, TypeOK, Times, Answers
    <2> QED
      BY <1>6, <2>3 DEF Crash, Inv
  <1>7. CASE UNCHANGED vars
    BY <1>7 DEF vars, Inv, TypeOK, Bounded, Stamped
  <1> QED
    BY <1>1, <1>2, <1>5, <1>6, <1>7 DEF Next

LEMMA Invariance == Spec => []Inv
  BY InitInv, NextInv, PTL DEF Spec

(* Every reachable state has its types; tokens is never negative. *)
THEOREM TypeCorrect == Spec => []TypeOK
  <1>1. Inv => TypeOK
    BY DEF Inv
  <1> QED
    BY <1>1, Invariance, PTL

(* Statements that overlap in any order never admit more than the bucket   *)
(* holds: for every limit, period and number of connections.               *)
THEOREM NeverOverAdmits == Spec => []NoOverAdmission
  <1>1. Inv => NoOverAdmission
    BY DEF Inv, NoOverAdmission, Bounded
  <1> QED
    BY <1>1, Invariance, PTL

(* A refusal never comes Per / Limit or more after the last charged hit. *)
THEOREM NeverLocksOut == Spec => NoLockout
  <1>1. ASSUME Inv, Next, NEW w \in Workers, Refused(w)
        PROVE  LET past == charged[call[w].key]
               IN  \E i \in DOMAIN past : Limit * (call[w].at - past[i]) < Per
    BY <1>1, OnlyRefuse, RefusedStep
  <1>2. Inv /\ [Next]_vars =>
          [\A w \in Workers : Refused(w) =>
              LET past == charged[call[w].key]
              IN  \E i \in DOMAIN past : Limit * (call[w].at - past[i]) < Per]_vars
    BY <1>1
  <1> QED
    BY <1>2, Invariance, PTL DEF Spec, NoLockout
-----------------------------------------------------------------------------
(* The account of one charged hit in a period that starts at s: the w hits *)
(* of the period before it, tok and left tokens before and after it, f     *)
(* tokens refilled since R; Rn is the new refilled_at and c is 1 if the    *)
(* hit's time a is in the period.  M is the burst and what crashes add.    *)
LEMMA PeriodAccount ==
    ASSUME NEW L \in Nat \ {0}, NEW P \in Nat \ {0}, NEW M \in Nat, L <= M,
           NEW w \in Nat, NEW tok \in Nat, NEW left \in Nat, NEW f \in Int,
           NEW R \in Int, NEW a \in Int, NEW s \in Int, NEW Rn \in Int, NEW c \in {0, 1},
           w > 0 => (w + tok) * P < M * P + L * (R - s) + P,
           f * P <= L * (a - R),
           L * (a - R) < f * P + P,
           left <= tok + f - 1,
           left <= L - 1,
           Rn = IF f > 0 THEN a ELSE R,
           c = 1 <=> s <= a /\ a <= s + P
    PROVE  /\ c = 1 => w + 1 <= M + L
           /\ w + c > 0 => (w + c + left) * P < M * P + L * (Rn - s) + P
  <1>1. /\ L * (a - R) = L * a - L * R
        /\ L * (R - s) = L * R - L * s
        /\ L * (Rn - s) = L * Rn - L * s
        /\ L * a \in Int /\ L * R \in Int /\ L * s \in Int /\ L * Rn \in Int
        /\ L * P \in Int /\ M * P \in Int
        /\ L * P <= M * P
    BY ProductSum, ProductMonotone
  <1>2. /\ (w + tok) * P = w * P + tok * P
        /\ w * P \in Int /\ tok * P \in Int
    BY ProductSum
  <1>3. /\ (w + c + left) * P = (w + c) * P + left * P
        /\ (w + c) * P = w * P + c * P
        /\ left * P \in Int /\ c * P \in Int /\ f * P \in Int
        /\ c = 1 => c * P = P
        /\ c = 0 => c * P = 0
    <2>1. w + c \in Int
      OBVIOUS
    <2>2. (w + c) * P = w * P + c * P /\ c * P \in Int
      BY ProductSum
    <2>3. (w + c + left) * P = (w + c) * P + left * P /\ left * P \in Int /\ f * P \in Int
      BY <2>1, ProductSum
    <2> QED
      BY <2>2, <2>3
  <1>4. left * P <= tok * P + f * P - P
    <2>1. left * P <= (tok + f - 1) * P
      <3> DEFINE y == tok + f - 1
      <3>1. y \in Int /\ left <= y
        OBVIOUS
      <3> HIDE DEF y
      <3>2. left * P <= y * P
        BY <3>1, ProductMonotone
      <3> QED
        BY <3>2 DEF y
    <2>2. (tok + (f - 1)) * P = tok * P + (f - 1) * P
      BY ProductSum
    <2>3. (f + (-1)) * P = f * P + (-1) * P
      BY ProductSum
    <2> QED
      BY <1>2, <1>3, <2>1, <2>2, <2>3
  <1>5. left * P + P <= L * P
    <2>1. (left + 1) * P <= L * P
      BY ProductMonotone
    <2>2. (left + 1) * P = left * P + 1 * P
      BY ProductSum
    <2> QED
      BY <1>1, <1>3, <2>1, <2>2
  <1>6. f <= 0 => f * P <= 0
    <2>1. ASSUME f <= 0 PROVE f * P <= 0 * P
      BY <2>1, ProductMonotone
    <2> QED
      BY <2>1
  (* The hit is the first of the period. *)
  <1>7. CASE w = 0
    <2>1. ASSUME c = 1
          PROVE  (c + left) * P < M * P + L * (Rn - s) + P
      <3>1. L * s <= L * a
        BY <2>1, ProductMonotone, ProductSum
      <3>2. L * s < L * Rn + P
        BY <1>1, <1>3, <1>6, <3>1
      <3>3. w * P = 0
        BY <1>7
      <3> QED
        BY <1>1, <1>3, <1>5, <1>7, <2>1, <3>2, <3>3
    <2> QED
      BY <1>7, <2>1
  <1>8. CASE w > 0
    <2>1. w * P + tok * P < M * P + (L * R - L * s) + P
      BY <1>1, <1>2, <1>8
    <2>2. (w + c + left) * P <= w * P + c * P + tok * P + f * P - P
      BY <1>2, <1>3, <1>4
    <2>3. (w + c + left) * P < M * P + L * (Rn - s) + P
      <3>1. c * P <= P
        BY <1>3
      <3>2. f * P <= L * Rn - L * R
        BY <1>1, <1>3, <1>6
      <3> QED
        BY <1>1, <1>2, <1>3, <2>1, <2>2, <3>1, <3>2
    <2>4. ASSUME c = 1 PROVE w + 1 <= M + L
      <3>1. L * a <= L * s + L * P
        <4>1. L * a <= L * (s + P)
          BY <2>4, ProductMonotone, ProductSum
        <4> QED
          BY <1>1, <4>1, ProductSum
      <3>2. (w + c + left) * P < M * P + L * P + P
        BY <1>1, <1>2, <1>3, <2>1, <2>2, <2>4, <3>1
      <3>3. left * P >= 0
        BY ProductMonotone
      <3>4. w * P < (M + L) * P
        <4>1. (M + L) * P = M * P + L * P
          BY ProductSum
        <4> QED
          BY <1>1, <1>2, <1>3, <2>4, <3>2, <3>3, <4>1
      <3>5. w < M + L
        <4>1. ASSUME M + L <= w PROVE FALSE
          <5>1. (M + L) * P <= w * P
            BY <4>1, ProductMonotone
          <5>2. (M + L) * P \in Int /\ w * P \in Int
            BY ProductSum
          <5> QED
            BY <3>4, <5>1, <5>2
        <4> QED
          BY <4>1
      <3> QED
        BY <3>5
    <2> QED
      BY <2>3, <2>4
  <1> QED
    BY <1>7, <1>8
(* A row that is inserted into a period with w earlier hits, of which the  *)
(* last crash, at T, left the account M (the bursts that crashes handed    *)
(* out before this one).                                                   *)
LEMMA InsertAccount ==
    ASSUME NEW L \in Nat \ {0}, NEW P \in Nat \ {0}, NEW M \in Nat,
           NEW w \in Nat, NEW T \in Int, NEW a \in Int, NEW s \in Int, NEW c \in {0, 1},
           T <= a,
           w * P < M * P + L * (T - s) + P,
           c = 1 <=> s <= a /\ a <= s + P
    PROVE  /\ c = 1 => w + 1 <= (M + L) + L
           /\ (w + c + (L - 1)) * P < (M + L) * P + L * (a - s) + P
  <1>1. /\ L * (a - s) = L * a - L * s
        /\ L * (T - s) = L * T - L * s
        /\ L * T <= L * a
        /\ L * a \in Int /\ L * T \in Int /\ L * s \in Int
        /\ w * P \in Int /\ M * P \in Int /\ L * P \in Int
    BY ProductSum, ProductMonotone
  <1>2. (w + L) * P = w * P + L * P /\ (M + L) * P = M * P + L * P
    BY ProductSum
  <1>3. (w + L) * P < (M + L) * P + L * (a - s) + P
    BY <1>1, <1>2
  <1>4. (w + c + (L - 1)) * P <= (w + L) * P /\ (w + c + (L - 1)) * P \in Int
    <2> DEFINE x == w + c + (L - 1)
               y == w + L
    <2>1. x \in Int /\ y \in Int /\ x <= y
      OBVIOUS
    <2> HIDE DEF x, y
    <2>2. x * P <= y * P /\ x * P \in Int
      BY <2>1, ProductMonotone, ProductSum
    <2> QED
      BY <2>2 DEF x, y
  <1>5. ASSUME c = 1 PROVE w + 1 <= (M + L) + L
    <2>1. L * (a - s) <= L * P
      <3>1. L * a <= L * (s + P) /\ L * (s + P) = L * s + L * P
        BY <1>5, ProductMonotone, ProductSum
      <3> QED
        BY <1>1, <3>1
    <2>2. (w + L) * P < (M + L) * P + L * P + P
      BY <1>1, <1>2, <1>3, <2>1
    <2>3. ((M + L) + (L + 1)) * P = (M + L) * P + L * P + P
      <3>1. (L + 1) * P = L * P + P
        BY ProductSum
      <3>2. ((M + L) + (L + 1)) * P = (M + L) * P + (L + 1) * P
        BY ProductSum
      <3> QED
        BY <1>1, <1>2, <3>1, <3>2
    <2>4. w + L < (M + L) + (L + 1)
      <3> DEFINE x == w + L
                 y == (M + L) + (L + 1)
      <3>1. x \in Int /\ y \in Int
        OBVIOUS
      <3>2. x * P < y * P
        BY <2>2, <2>3
      <3> HIDE DEF x, y
      <3>3. ASSUME y <= x PROVE FALSE
        <4>1. y * P <= x * P
          BY <3>1, <3>3, ProductMonotone
        <4>2. y * P \in Int /\ x * P \in Int
          BY <3>1, ProductSum
        <4> QED
          BY <3>2, <4>1, <4>2
      <3> QED
        BY <3>1, <3>3 DEF x, y
    <2> QED
      BY <2>4
  <1> QED
    BY <1>1, <1>2, <1>3, <1>4, <1>5
-----------------------------------------------------------------------------
(* Counting what is in a period. *)
LEMMA PeriodCount ==
    ASSUME NEW seq \in Seq(Times), NEW s \in Times
    PROVE  /\ IsFiniteSet({i \in DOMAIN seq : seq[i] \in s .. s + Per})
           /\ InPeriod(seq, s) \in Nat
           /\ InPeriod(seq, s) > 0 => \E i \in DOMAIN seq : seq[i] \in s .. s + Per
  <1> DEFINE S == {i \in DOMAIN seq : seq[i] \in s .. s + Per}
  <1>1. IsFiniteSet(1 .. Len(seq)) /\ DOMAIN seq = 1 .. Len(seq)
    BY LenProperties, FS_Interval
  <1>2. IsFiniteSet(S)
    BY <1>1, FS_Subset
  <1>3. Cardinality(S) \in Nat
    BY <1>2, FS_CardinalityType
  <1>4. Cardinality(S) > 0 => S # {}
    <2> HIDE DEF S
    <2> QED
      BY FS_EmptySet
  <1> QED
    BY <1>2, <1>3, <1>4 DEF InPeriod

LEMMA PeriodEmpty ==
    ASSUME NEW s
    PROVE  InPeriod(<<>>, s) = 0
  <1>1. {i \in DOMAIN <<>> : <<>>[i] \in s .. s + Per} = {}
    OBVIOUS
  <1> QED
    BY <1>1, FS_EmptySet DEF InPeriod

LEMMA PeriodAppend ==
    ASSUME NEW seq \in Seq(Times), NEW t \in Times, NEW s \in Times
    PROVE  InPeriod(Append(seq, t), s) =
               InPeriod(seq, s) + (IF t \in s .. s + Per THEN 1 ELSE 0)
  <1> DEFINE n == Len(seq)
             new == Append(seq, t)
             S == {i \in DOMAIN seq : seq[i] \in s .. s + Per}
             T == {i \in DOMAIN new : new[i] \in s .. s + Per}
  <1>1. /\ n \in Nat
        /\ DOMAIN seq = 1 .. n
        /\ DOMAIN new = 1 .. n + 1
        /\ \A i \in 1 .. n : new[i] = seq[i]
        /\ new[n + 1] = t
    BY AppendProperties, LenProperties
  <1>2. IsFiniteSet(S) /\ Cardinality(S) \in Nat
    BY PeriodCount DEF InPeriod
  <1>3. T = IF t \in s .. s + Per THEN S \cup {n + 1} ELSE S
    BY <1>1
  <1>4. n + 1 \notin S
    BY <1>1
  <1>5. Cardinality(S \cup {n + 1}) = Cardinality(S) + 1
    BY <1>2, <1>4, FS_AddElement
  <1>6. InPeriod(seq, s) = Cardinality(S) /\ InPeriod(new, s) = Cardinality(T)
    BY DEF InPeriod
  <1> QED
    <2> HIDE DEF S, T, n
    <2>1. CASE t \in s .. s + Per
      BY <1>3, <1>5, <1>6, <2>1
    <2>2. CASE t \notin s .. s + Per
      BY <1>2, <1>3, <1>6, <2>2
    <2> QED
      BY <2>1, <2>2

LEMMA PeriodConcat ==
    ASSUME NEW x \in Seq(Times), NEW y \in Seq(Times), NEW s \in Times
    PROVE  InPeriod(x \o y, s) = InPeriod(x, s) + InPeriod(y, s)
  <1> DEFINE m == Len(x)
             n == Len(y)
             S == {i \in DOMAIN x : x[i] \in s .. s + Per}
             T == {i \in DOMAIN y : y[i] \in s .. s + Per}
             U == {i \in DOMAIN (x \o y) : (x \o y)[i] \in s .. s + Per}
             V == {i + m : i \in T}
  <1>1. /\ m \in Nat /\ n \in Nat
        /\ DOMAIN x = 1 .. m /\ DOMAIN y = 1 .. n
        /\ DOMAIN (x \o y) = 1 .. m + n
        /\ \A i \in 1 .. m + n : (x \o y)[i] = IF i <= m THEN x[i] ELSE y[i - m]
    BY ConcatProperties, LenProperties
  <1>2. /\ IsFiniteSet(S) /\ Cardinality(S) \in Nat
        /\ IsFiniteSet(T) /\ Cardinality(T) \in Nat
    BY PeriodCount DEF InPeriod
  <1>3. IsFiniteSet(V) /\ Cardinality(V) = Cardinality(T)
    <2> DEFINE f == [i \in T |-> i + m]
    <2>1. f \in [T -> V]
      OBVIOUS
    <2>2. \A a, b \in T : f[a] = f[b] => a = b
      BY <1>1
    <2>3. \A v \in V : \E i \in T : f[i] = v
      OBVIOUS
    <2>4. f \in Bijection(T, V)
      <3> HIDE DEF f, T, V
      <3> QED
        BY <2>1, <2>2, <2>3, Fun_IsBij
    <2>5. ExistsBijection(T, V)
      BY <2>4 DEF ExistsBijection
    <2> QED
      BY <1>2, <2>5, FS_Bijection
  <1>4. U = S \cup V
    <2>1. ASSUME NEW i \in U PROVE i \in S \cup V
      <3>1. i \in 1 .. m + n
        BY <1>1
      <3>2. CASE i <= m
        BY <1>1, <3>1, <3>2
      <3>3. CASE i > m
        <4>1. i - m \in T
          BY <1>1, <3>1, <3>3
        <4>2. i = (i - m) + m
          BY <1>1, <3>1
        <4> QED
          BY <4>1, <4>2
      <3> QED
        BY <1>1, <3>1, <3>2, <3>3
    <2>2. S \subseteq U
      BY <1>1
    <2>3. ASSUME NEW i \in T PROVE i + m \in U
      <3>1. i \in 1 .. n /\ y[i] \in s .. s + Per
        BY <1>1
      <3>2. i + m \in 1 .. m + n /\ ~(i + m <= m) /\ (i + m) - m = i
        BY <1>1, <3>1
      <3> QED
        BY <1>1, <3>1, <3>2
    <2> QED
      BY <2>1, <2>2, <2>3
  <1>5. S \cap V = {}
    BY <1>1
  <1>6. Cardinality(U) = Cardinality(S) + Cardinality(V) - Cardinality({})
    BY <1>2, <1>3, <1>4, <1>5, FS_Union
  <1>7. Cardinality({}) = 0
    BY FS_EmptySet
  <1>8. /\ InPeriod(x, s) = Cardinality(S)
        /\ InPeriod(y, s) = Cardinality(T)
        /\ InPeriod(x \o y, s) = Cardinality(U)
    BY DEF InPeriod
  <1> QED
    <2> HIDE DEF S, T, U, V
    <2> QED
      BY <1>2, <1>3, <1>6, <1>7, <1>8
-----------------------------------------------------------------------------
(* No time lies ahead of the clock, and a statement that is in progress    *)
(* started after every crash.                                              *)
Chronology ==
    /\ \A i \in DOMAIN crashes : crashes[i] <= now
    /\ \A w \in Workers : call[w] # None =>
          /\ call[w].at <= now
          /\ \A i \in DOMAIN crashes : crashes[i] <= call[w].at
    /\ \A k \in Keys :
          /\ row[k] # None => row[k].refilled_at <= now
          /\ \A i \in DOMAIN charged[k] : charged[k][i] <= now
          /\ \A i \in DOMAIN earlier[k] : earlier[k][i] <= now

(* A charged hit is as old as its statement. *)
LEMMA ChronologyUpsert ==
    ASSUME Inv, Chronology, NEW k \in Keys, NEW at \in Times, at <= now, Upsert(k, at)
    PROVE  \A j \in Keys :
              /\ row'[j] # None => row'[j].refilled_at <= now
              /\ \A i \in DOMAIN charged'[j] : charged'[j][i] <= now
  <1> DEFINE r == row[k]
  <1>1. /\ row' = [row EXCEPT ![k] = NewRow(r, at)]
        /\ charged' = [charged EXCEPT ![k] = Append(charged[k], at)]
    BY DEF Upsert, Inv, TypeOK
  <1>2. row'[k].refilled_at = RefilledAt(r, at)
    BY <1>1 DEF NewRow, Inv, TypeOK
  <1>3. RefilledAt(r, at) \in {at, r.refilled_at} /\ (r = None => RefilledAt(r, at) = at)
    BY DEF RefilledAt
  <1>4. /\ charged'[k] = Append(charged[k], at)
        /\ DOMAIN charged'[k] = 1 .. Len(charged[k]) + 1
        /\ DOMAIN charged[k] = 1 .. Len(charged[k])
        /\ \A i \in 1 .. Len(charged[k]) : charged'[k][i] = charged[k][i]
        /\ charged'[k][Len(charged[k]) + 1] = at
        /\ Len(charged[k]) \in Nat
    BY <1>1, AppendProperties, LenProperties DEF Inv, TypeOK
  <1>5. \A j \in Keys : j # k => row'[j] = row[j] /\ charged'[j] = charged[j]
    BY <1>1 DEF Inv, TypeOK
  <1>6. \A i \in DOMAIN charged'[k] : charged'[k][i] <= now
    BY <1>4 DEF Chronology
  <1> QED
    BY <1>2, <1>3, <1>5, <1>6 DEF Chronology

LEMMA ChronologyStep == Inv /\ Chronology /\ [Next]_vars => Chronology'
  <1> SUFFICES ASSUME Inv, Chronology, [Next]_vars PROVE Chronology'
    OBVIOUS
  <1>0. Times \subseteq Int /\ now \in Times
    BY MaxTimeAssumption DEF Times, Inv, TypeOK
  <1>1. CASE Tick
    <2>1. \A i \in DOMAIN crashes : crashes[i] \in Times
      BY ElementOfSeq, LenProperties DEF Inv, TypeOK
    <2>2. \A w \in Workers : call[w] # None => call[w].at \in Times
      BY DEF Inv, TypeOK, Calls
    <2>3. \A k \in Keys : row[k] # None => row[k].refilled_at \in Times
      BY DEF Inv, TypeOK, Rows
    <2>4. \A k \in Keys : /\ \A i \in DOMAIN charged[k] : charged[k][i] \in Times
                          /\ \A i \in DOMAIN earlier[k] : earlier[k][i] \in Times
      BY ElementOfSeq, LenProperties DEF Inv, TypeOK
    <2>5. now' = now + 1 /\ \A t \in Times : t <= now => t <= now'
      BY <1>0, <1>1 DEF Tick
    <2> QED
      BY <1>1, <2>1, <2>2, <2>3, <2>4, <2>5 DEF Tick, Chronology
  <1>2. ASSUME NEW w \in Workers, NEW k \in Keys, Begin(w, k) PROVE Chronology'
    <2>1. call' = [call EXCEPT ![w] = [key |-> k, at |-> now]]
      BY <1>2 DEF Begin
    <2>2. call'[w].at = now /\ \A v \in Workers : v # w => call'[v] = call[v]
      BY <2>1 DEF Inv, TypeOK
    <2>3. ASSUME NEW v \in Workers, call'[v] # None
          PROVE  /\ call'[v].at <= now
                 /\ \A i \in DOMAIN crashes : crashes[i] <= call'[v].at
      <3>1. CASE v = w
        BY <1>0, <2>2, <3>1 DEF Chronology
      <3>2. CASE v # w
        BY <2>2, <2>3, <3>2 DEF Chronology
      <3> QED
        BY <3>1, <3>2
    <2>4. UNCHANGED <<now, row, charged, earlier, crashes>>
      BY <1>2 DEF Begin
    <2> QED
      BY <2>3, <2>4 DEF Chronology
  <1>3. ASSUME NEW w \in Workers, NEW a, Return(w, a),
               \A j \in Keys :
                  /\ row'[j] # None => row'[j].refilled_at <= now
                  /\ \A i \in DOMAIN charged'[j] : charged'[j][i] <= now
        PROVE  Chronology'
    <2>1. call'[w] = None /\ \A v \in Workers : v # w => call'[v] = call[v]
      BY <1>3 DEF Return, Inv, TypeOK
    <2> QED
      BY <1>3, <2>1 DEF Return, Chronology
  <1>4. ASSUME NEW w \in Workers, End(w) PROVE Chronology'
    <2>1. PICK a : Return(w, a)
      BY <1>4 DEF End, Admit, Refuse, Fail
    <2>2. CASE UNCHANGED <<row, charged>>
      BY <1>3, <2>1, <2>2 DEF Chronology
    <2>3. CASE call[w] # None /\ Upsert(call[w].key, call[w].at)
      <3>1. call[w].key \in Keys /\ call[w].at \in Times /\ call[w].at <= now
        BY <2>3 DEF Inv, TypeOK, Calls, Chronology
      <3> QED
        BY <1>3, <2>1, <2>3, <3>1, ChronologyUpsert
    <2> QED
      BY <1>4, <2>2, <2>3 DEF End, Admit, Refuse, Fail
  <1>5. CASE Crash
    <2>1. /\ now' = now
          /\ crashes' = Append(crashes, now)
          /\ \A w \in Workers : call'[w] = None
          /\ \A k \in Keys : row'[k] = None /\ charged'[k] = <<>>
          /\ \A k \in Keys : earlier'[k] = earlier[k] \o charged[k]
      BY <1>5 DEF Crash
    <2>2. \A i \in DOMAIN crashes' : crashes'[i] <= now
      <3>1. /\ DOMAIN crashes' = 1 .. Len(crashes) + 1
            /\ DOMAIN crashes = 1 .. Len(crashes)
            /\ \A i \in 1 .. Len(crashes) : crashes'[i] = crashes[i]
            /\ crashes'[Len(crashes) + 1] = now
            /\ Len(crashes) \in Nat
        BY <2>1, AppendProperties, LenProperties DEF Inv, TypeOK
      <3> DEFINE n == Len(crashes)
      <3> HIDE DEF n
      <3>2. ASSUME NEW i \in 1 .. n + 1 PROVE crashes'[i] <= now
        <4>1. CASE i = n + 1
          BY <1>0, <3>1, <4>1 DEF n
        <4>2. CASE i # n + 1
          <5>1. i \in 1 .. n
            BY <3>1, <4>2 DEF n
          <5> QED
            BY <3>1, <5>1 DEF Chronology, n
        <4> QED
          BY <4>1, <4>2
      <3> QED
        BY <3>1, <3>2 DEF n
    <2>3. ASSUME NEW k \in Keys, NEW i \in DOMAIN earlier'[k]
          PROVE  earlier'[k][i] <= now
      <3> DEFINE m == Len(earlier[k])
                 n == Len(charged[k])
      <3>1. /\ m \in Nat /\ n \in Nat
            /\ DOMAIN earlier[k] = 1 .. m /\ DOMAIN charged[k] = 1 .. n
            /\ DOMAIN (earlier[k] \o charged[k]) = 1 .. m + n
            /\ \A j \in 1 .. m + n : (earlier[k] \o charged[k])[j] =
                  IF j <= m THEN earlier[k][j] ELSE charged[k][j - m]
        BY ConcatProperties, LenProperties DEF Inv, TypeOK
      <3>2. i \in 1 .. m + n /\ earlier'[k] = earlier[k] \o charged[k]
        BY <2>1, <2>3, <3>1
      <3> HIDE DEF m, n
      <3>3. CASE i <= m
        <4>1. i \in 1 .. m /\ earlier'[k][i] = earlier[k][i]
          BY <3>1, <3>2, <3>3
        <4> QED
          BY <3>1, <4>1 DEF Chronology
      <3>4. CASE i > m
        <4>1. i - m \in 1 .. n
          BY <3>1, <3>2, <3>4
        <4>2. earlier'[k][i] = charged[k][i - m]
          BY <3>1, <3>2, <3>4
        <4> QED
          BY <3>1, <4>1, <4>2 DEF Chronology
      <3> QED
        BY <3>1, <3>2, <3>3, <3>4
    <2> QED
      BY <2>1, <2>2, <2>3 DEF Chronology
  <1>6. CASE UNCHANGED vars
    BY <1>6 DEF vars, Chronology
  <1> QED
    BY <1>1, <1>2, <1>4, <1>5, <1>6 DEF Next
-----------------------------------------------------------------------------
(* The hits that were charged in the period that starts at s. *)
Hits(k, s) == InPeriod(earlier[k], s) + InPeriod(charged[k], s)

(* The crashes from s on: each has handed out a burst since then. *)
Since(s) == Cardinality({i \in DOMAIN crashes : crashes[i] >= s})

(* No period has too many hits; one that has some leaves what the refill   *)
(* since its start allows, counted up to the last crash while there is no  *)
(* row.  The fraction of a token that was there before is the last Per.    *)
Within(k, s) ==
    LET w == Hits(k, s)
    IN  /\ w <= (2 + InPeriod(crashes, s)) * Limit
        /\ w > 0 /\ row[k] = None =>
              /\ crashes # <<>>
              /\ w * Per < (Since(s) * Limit) * Per
                              + Limit * (crashes[Len(crashes)] - s) + Per
        /\ w > 0 /\ row[k] # None =>
              (w + row[k].tokens) * Per < (Limit + Since(s) * Limit) * Per
                              + Limit * (row[k].refilled_at - s) + Per

Periods == \A k \in Keys, s \in Times : Within(k, s)

(* The crashes of a period that has not ended are all those since its start. *)
LEMMA SinceCount ==
    ASSUME Inv, NEW s \in Times
    PROVE  /\ Since(s) \in Nat
           /\ (\A i \in DOMAIN crashes : crashes[i] <= s + Per)
                 => Since(s) = InPeriod(crashes, s)
  <1> DEFINE S == {i \in DOMAIN crashes : crashes[i] >= s}
  <1>1. crashes \in Seq(Times)
    BY DEF Inv, TypeOK
  <1>2. /\ DOMAIN crashes = 1 .. Len(crashes)
        /\ \A i \in DOMAIN crashes : crashes[i] \in Times
    BY <1>1, ElementOfSeq, LenProperties
  <1>3. IsFiniteSet(S)
    <2>1. IsFiniteSet(1 .. Len(crashes))
      BY <1>1, FS_Interval, LenProperties
    <2>2. S \subseteq 1 .. Len(crashes)
      BY <1>2
    <2> QED
      BY <2>1, <2>2, FS_Subset
  <1>4. Cardinality(S) \in Nat
    BY <1>3, FS_CardinalityType
  <1>5. ASSUME \A i \in DOMAIN crashes : crashes[i] <= s + Per
        PROVE  S = {i \in DOMAIN crashes : crashes[i] \in s .. s + Per}
    BY <1>2, <1>5, PerAssumption, MaxTimeAssumption DEF Times
  <1> QED
    BY <1>4, <1>5 DEF Since, InPeriod

LEMMA HitsType ==
    ASSUME Inv, NEW k \in Keys, NEW s \in Times
    PROVE  /\ Hits(k, s) \in Nat
           /\ InPeriod(earlier[k], s) \in Nat /\ InPeriod(charged[k], s) \in Nat
           /\ InPeriod(crashes, s) \in Nat
  <1>1. earlier[k] \in Seq(Times) /\ charged[k] \in Seq(Times) /\ crashes \in Seq(Times)
    BY DEF Inv, TypeOK
  <1>2. /\ InPeriod(earlier[k], s) \in Nat /\ InPeriod(charged[k], s) \in Nat
        /\ InPeriod(crashes, s) \in Nat
    BY <1>1, PeriodCount
  <1> QED
    BY <1>2 DEF Hits

LEMMA CrashTimes ==
    ASSUME Inv
    PROVE  /\ \A i \in DOMAIN crashes : crashes[i] \in Nat
           /\ crashes # <<>> => Len(crashes) \in DOMAIN crashes
  <1>1. crashes \in Seq(Times) /\ Times \subseteq Nat
    BY MaxTimeAssumption DEF Inv, TypeOK, Times
  <1>2. Len(crashes) \in Nat /\ DOMAIN crashes = 1 .. Len(crashes)
    BY <1>1, LenProperties
  <1>3. \A i \in 1 .. Len(crashes) : crashes[i] \in Times
    BY <1>1, ElementOfSeq
  <1>4. crashes # <<>> => Len(crashes) # 0
    BY <1>1, EmptySeq
  <1>5. crashes # <<>> => Len(crashes) \in 1 .. Len(crashes)
    BY <1>2, <1>4
  <1> QED
    BY <1>1, <1>2, <1>3, <1>5

(* One upsert keeps the account of every period of its key. *)
LEMMA PeriodsUpsert ==
    ASSUME Inv, Periods, NEW k \in Keys, NEW at \in Times, Upsert(k, at),
           UNCHANGED <<earlier, crashes>>,
           \A i \in DOMAIN crashes : crashes[i] <= at
    PROVE  Periods'
  <1> DEFINE r == row[k]
  <1>1. /\ row' = [row EXCEPT ![k] = NewRow(r, at)]
        /\ Tokens(r, at) >= 0
        /\ charged' = [charged EXCEPT ![k] = Append(charged[k], at)]
    BY DEF Upsert, Inv, TypeOK
  <1>2. /\ row'[k].tokens = Tokens(r, at) /\ row'[k].refilled_at = RefilledAt(r, at)
        /\ row'[k] # None
    <2>1. row'[k] = NewRow(r, at)
      BY <1>1 DEF Inv, TypeOK
    <2>2. \A j \in Keys : /\ row'[j] = None => charged'[j] = <<>>
      BY UpsertStep
    <2>3. charged'[k] # <<>>
      <3>1. charged'[k] = Append(charged[k], at) /\ charged[k] \in Seq(Times)
        BY <1>1 DEF Inv, TypeOK
      <3>2. Append(charged[k], at) # <<>>
        BY <3>1, AppendProperties
      <3> QED
        BY <3>1, <3>2
    <2> QED
      BY <2>1, <2>2, <2>3 DEF NewRow
  <1>3. Limit \in Nat \ {0} /\ Per \in Nat \ {0} /\ at \in Nat /\ Times \subseteq Nat
    BY LimitAssumption, PerAssumption, MaxTimeAssumption DEF Times
  <1>4. ASSUME NEW s \in Times PROVE Within(k, s)'
    <2> DEFINE w == Hits(k, s)
               c == IF at \in s .. s + Per THEN 1 ELSE 0
               n == Since(s)
               M == n * Limit
    <2>1. w \in Nat /\ Hits(k, s)' = w + c
      <3>1. InPeriod(Append(charged[k], at), s) = InPeriod(charged[k], s) + c
        BY PeriodAppend DEF Inv, TypeOK
      <3>2. charged'[k] = Append(charged[k], at) /\ earlier'[k] = earlier[k]
        BY <1>1 DEF Inv, TypeOK
      <3>3. Hits(k, s)' = InPeriod(earlier[k], s) + InPeriod(Append(charged[k], at), s)
        BY <3>2 DEF Hits, InPeriod
      <3> QED
        BY <3>1, <3>3, HitsType DEF Hits
    <2>2. s \in Nat /\ c \in {0, 1} /\ (c = 1 <=> s <= at /\ at <= s + Per)
      BY <1>3
    <2>3. /\ n \in Nat /\ M \in Nat
          /\ InPeriod(crashes, s) \in Nat
          /\ InPeriod(crashes, s)' = InPeriod(crashes, s)
          /\ Since(s)' = n
      <3>1. n \in Nat /\ InPeriod(crashes, s) \in Nat
        BY SinceCount, HitsType
      <3>2. InPeriod(crashes, s)' = InPeriod(crashes, s) /\ Since(s)' = n
        BY DEF Since, InPeriod
      <3> HIDE DEF n
      <3>3. n * Limit \in Nat
        BY <1>3, <3>1
      <3> QED
        BY <3>1, <3>2, <3>3
    (* A hit in the period comes after all crashes, so these are in it. *)
    <2>4. ASSUME c = 1 PROVE InPeriod(crashes, s) = n
      <3>1. at <= s + Per /\ s + Per \in Nat
        BY <1>3, <2>2, <2>4
      <3>2. \A i \in DOMAIN crashes : crashes[i] <= s + Per
        <4> HIDE DEF c
        <4> QED
          BY <1>3, <3>1, CrashTimes
      <3> QED
        BY <3>2, SinceCount
    <2>5. w <= (2 + InPeriod(crashes, s)) * Limit
      BY DEF w, Periods, Within
    <2>6. (2 + n) * Limit = (M + Limit) + Limit
      BY <1>3, <2>3
    <2>7. /\ c = 1 => w + 1 <= (M + Limit) + Limit
          /\ w + c > 0 => (w + c + Tokens(r, at)) * Per
                            < (Limit + M) * Per + Limit * (RefilledAt(r, at) - s) + Per
      <3>1. CASE r = None
        <4>1. Tokens(r, at) = Limit - 1 /\ RefilledAt(r, at) = at
          BY <3>1, Inserted
        <4>2. CASE w > 0
          <5> DEFINE T == crashes[Len(crashes)]
          <5>1. crashes # <<>> /\ w * Per < M * Per + Limit * (T - s) + Per
            BY <3>1, <4>2 DEF Periods, Within, w, M, n
          <5>2. T \in Int /\ T <= at
            <6>1. Len(crashes) \in DOMAIN crashes /\ T \in Nat
              BY <5>1, CrashTimes
            <6> QED
              BY <6>1
          <5> HIDE DEF w, c, n, M, T
          <5>3. /\ c = 1 => w + 1 <= (M + Limit) + Limit
                /\ (w + c + (Limit - 1)) * Per < (M + Limit) * Per + Limit * (at - s) + Per
            BY <1>3, <2>1, <2>2, <2>3, <5>1, <5>2, InsertAccount
          <5>4. M + Limit = Limit + M
            BY <1>3, <2>3
          <5> QED
            BY <4>1, <5>3, <5>4
        <4>3. CASE w = 0
          <5> HIDE DEF w, c, n, M
          <5>1. ASSUME c = 1
                PROVE  (c + (Limit - 1)) * Per < (Limit + M) * Per + Limit * (at - s) + Per
            <6>1. /\ Limit * s <= Limit * at
                  /\ Limit * (at - s) = Limit * at - Limit * s
                  /\ Limit * at \in Int /\ Limit * s \in Int
              BY <1>3, <2>2, <5>1, ProductMonotone, ProductSum
            <6>2. (Limit + M) * Per = Limit * Per + M * Per /\ M * Per >= 0
                  /\ Limit * Per \in Int /\ M * Per \in Int
              BY <1>3, <2>3, ProductSum, ProductMonotone
            <6>3. c + (Limit - 1) = Limit
              BY <1>3, <5>1
            <6> QED
              BY <1>3, <6>1, <6>2, <6>3
          <5>2. 0 + 1 <= (M + Limit) + Limit
            BY <1>3, <2>3
          <5> QED
            BY <2>2, <4>1, <4>3, <5>1, <5>2
        <4> QED
          BY <2>1, <4>2, <4>3
      <3>2. CASE r # None
        <4>1. r \in Rows /\ r.tokens \in Nat /\ r.refilled_at \in Nat
          BY <3>2, MaxTimeAssumption DEF Inv, TypeOK, Rows, Times
        <4> DEFINE f == Refill(r, at)
                   left == Tokens(r, at)
                   Rn == RefilledAt(r, at)
                   R == r.refilled_at
                   tok == r.tokens
        <4>2. w > 0 => (w + tok) * Per < (Limit + M) * Per + Limit * (R - s) + Per
          BY <3>2 DEF Periods, Within, w, M, n
        <4>3. /\ f \in Int
              /\ f * Per <= Limit * (at - R)
              /\ Limit * (at - R) < f * Per + Per
              /\ left \in Nat
              /\ left <= tok + f - 1
              /\ Rn = IF f > 0 THEN at ELSE R
          BY <1>1, <4>1, Computed
        <4>4. left <= Limit - 1
          BY <1>3, <4>1, <4>3, NoneAssumption DEF Tokens
        <4>5. R \in Int /\ Rn \in Int /\ tok \in Nat /\ at \in Int /\ s \in Int
          BY <1>3, <2>2, <4>1, <4>3
        <4> DEFINE B == Limit + M
        <4>6. B \in Nat /\ Limit <= B
          BY <1>3, <2>3
        <4> HIDE DEF f, left, Rn, R, tok, w, c, n, M, B
        <4>7. /\ c = 1 => w + 1 <= B + Limit
              /\ w + c > 0 => (w + c + left) * Per < B * Per + Limit * (Rn - s) + Per
          <5>1. w > 0 => (w + tok) * Per < B * Per + Limit * (R - s) + Per
            BY <4>2 DEF B
          <5> QED
            BY <1>3, <2>1, <2>2, <4>3, <4>4, <4>5, <4>6, <5>1, PeriodAccount
        <4>8. B = Limit + M /\ B = M + Limit
          BY <1>3, <2>3 DEF B
        <4> QED
          BY <4>7, <4>8 DEF left, Rn
      <3> QED
        BY <3>1, <3>2
    <2> HIDE DEF w, c, n, M
    <2>8. w + c <= (2 + InPeriod(crashes, s)) * Limit
      BY <2>1, <2>2, <2>4, <2>5, <2>6, <2>7
    <2> QED
      BY <1>2, <2>1, <2>3, <2>7, <2>8 DEF Within, M
  <1>5. ASSUME NEW j \in Keys, j # k, NEW s \in Times PROVE Within(j, s)'
    BY <1>1, <1>5 DEF Inv, TypeOK, Periods, Within, Hits, InPeriod, Since
  <1> QED
    BY <1>4, <1>5 DEF Periods

(* A crash hands out a burst to every period in progress and forgets none  *)
(* of its hits.                                                            *)
LEMMA PeriodsCrash ==
    ASSUME Inv, Chronology, Periods, Crash
    PROVE  Periods'
  <1>1. /\ crashes' = Append(crashes, now)
        /\ \A k \in Keys : /\ row'[k] = None /\ charged'[k] = <<>>
                           /\ earlier'[k] = earlier[k] \o charged[k]
    BY DEF Crash
  <1>2. /\ now \in Times /\ crashes \in Seq(Times)
        /\ Times \subseteq Nat /\ Limit \in Nat \ {0} /\ Per \in Nat \ {0}
    BY LimitAssumption, PerAssumption, MaxTimeAssumption DEF Times, Inv, TypeOK
  <1>3. /\ Len(crashes) \in Nat
        /\ DOMAIN crashes = 1 .. Len(crashes)
        /\ DOMAIN crashes' = 1 .. Len(crashes) + 1
        /\ Len(crashes') = Len(crashes) + 1
        /\ crashes' # <<>>
        /\ crashes'[Len(crashes')] = now
        /\ \A i \in 1 .. Len(crashes) : crashes'[i] = crashes[i]
    BY <1>1, <1>2, AppendProperties, LenProperties, EmptySeq
  <1>4. ASSUME NEW k \in Keys, NEW s \in Times PROVE Within(k, s)'
    <2> DEFINE w == Hits(k, s)
               n == Since(s)
               p == InPeriod(crashes, s)
    <2>1. w \in Nat /\ n \in Nat /\ p \in Nat /\ s \in Nat /\ now \in Nat
      BY <1>2, HitsType, SinceCount
    <2>2. Hits(k, s)' = w
      <3>1. Hits(k, s)' = InPeriod(earlier'[k], s) + InPeriod(charged'[k], s)
        BY DEF Hits, InPeriod
      <3>2. InPeriod(earlier[k] \o charged[k], s) = w
        <4>1. earlier[k] \in Seq(Times) /\ charged[k] \in Seq(Times)
          BY DEF Inv, TypeOK
        <4> QED
          BY <4>1, PeriodConcat DEF Hits
      <3>3. InPeriod(charged'[k], s) = 0 /\ InPeriod(earlier'[k], s) = w
        BY <1>1, <3>2, PeriodEmpty
      <3> HIDE DEF w
      <3> QED
        BY <2>1, <3>1, <3>3
    <2>3. p <= InPeriod(crashes, s)' /\ InPeriod(crashes, s)' \in Nat
      <3>1. InPeriod(crashes, s)' = InPeriod(crashes', s)
        BY DEF InPeriod
      <3>2. InPeriod(crashes', s) = p + (IF now \in s .. s + Per THEN 1 ELSE 0)
        BY <1>1, <1>2, PeriodAppend
      <3> QED
        BY <2>1, <3>1, <3>2
    <2>4. ASSUME now >= s PROVE Since(s)' = n + 1
      <3> DEFINE S == {i \in DOMAIN crashes : crashes[i] >= s}
                 m == Len(crashes)
      <3>1. {i \in DOMAIN crashes' : crashes'[i] >= s} = S \cup {m + 1}
        BY <1>3, <2>4
      <3>2. IsFiniteSet(S) /\ m + 1 \notin S
        <4>1. IsFiniteSet(1 .. m)
          BY <1>3, FS_Interval
        <4>2. S \subseteq 1 .. m
          BY <1>3
        <4> QED
          BY <1>3, <4>1, <4>2, FS_Subset
      <3>3. Cardinality(S \cup {m + 1}) = Cardinality(S) + 1
        <4> HIDE DEF S, m
        <4> QED
          BY <3>2, FS_AddElement
      <3> QED
        BY <3>1, <3>3 DEF Since
    (* What is charged in the period was charged by now. *)
    <2>5. ASSUME w > 0 PROVE now >= s
      <3>1. /\ earlier[k] \in Seq(Times) /\ charged[k] \in Seq(Times)
            /\ InPeriod(earlier[k], s) \in Nat /\ InPeriod(charged[k], s) \in Nat
        BY HitsType DEF Inv, TypeOK
      <3>2. InPeriod(earlier[k], s) > 0 \/ InPeriod(charged[k], s) > 0
        BY <2>5, <3>1 DEF Hits
      <3>3. ASSUME NEW seq \in Seq(Times), InPeriod(seq, s) > 0,
                   \A i \in DOMAIN seq : seq[i] <= now
            PROVE  now >= s
        <4>1. PICK i \in DOMAIN seq : seq[i] \in s .. s + Per
          BY <3>3, PeriodCount
        <4>2. seq[i] \in Int /\ s <= seq[i] /\ seq[i] <= now
          BY <3>3, <4>1
        <4> QED
          BY <2>1, <4>2
      <3> QED
        BY <3>1, <3>2, <3>3 DEF Chronology
    <2>6. w <= (2 + InPeriod(crashes, s)') * Limit
      <3> DEFINE q == InPeriod(crashes, s)'
      <3>1. w <= (2 + p) * Limit
        BY <1>4 DEF Periods, Within
      <3> HIDE DEF w, p, q
      <3>2. (2 + p) * Limit <= (2 + q) * Limit /\ (2 + p) * Limit \in Int
            /\ (2 + q) * Limit \in Int
        <4>1. 2 + p <= 2 + q /\ 2 + p \in Int /\ 2 + q \in Int
          BY <2>1, <2>3 DEF q
        <4> DEFINE x == 2 + p
                   y == 2 + q
        <4> HIDE DEF x, y
        <4>2. x * Limit <= y * Limit /\ x * Limit \in Int /\ y * Limit \in Int
          BY <1>2, <4>1, ProductMonotone, ProductSum DEF x, y
        <4> QED
          BY <4>2 DEF x, y
      <3> QED
        BY <2>1, <3>1, <3>2 DEF q
    <2>7. ASSUME w > 0
          PROVE  w * Per < (Since(s)' * Limit) * Per + Limit * (now - s) + Per
      <3> DEFINE M == n * Limit
                 D == Limit * (now - s)
      <3>1. Since(s)' = n + 1 /\ now >= s
        BY <2>4, <2>5, <2>7
      <3>2. /\ (n + 1) * Limit = M + Limit /\ M \in Nat
            /\ (M + Limit) * Per = M * Per + Limit * Per
            /\ (Limit + M) * Per = M * Per + Limit * Per
            /\ M * Per \in Nat /\ Limit * Per \in Nat /\ w * Per \in Nat
        <4>1. (n + 1) * Limit = M + Limit /\ M \in Nat
          BY <1>2, <2>1
        <4> HIDE DEF M
        <4> QED
          BY <1>2, <2>1, <4>1, ProductSum
      <3>3. D \in Int
        BY <1>2, <2>1
      <3>4. CASE row[k] = None
        <4> DEFINE T == crashes[Len(crashes)]
        <4>1. crashes # <<>> /\ w * Per < M * Per + Limit * (T - s) + Per
          BY <2>7, <3>4 DEF Periods, Within
        <4>2. T \in Int /\ T <= now
          <5>1. Len(crashes) \in DOMAIN crashes /\ T \in Nat
            BY <4>1, CrashTimes
          <5> QED
            BY <5>1 DEF Chronology
        <4>3. Limit * (T - s) <= D /\ Limit * (T - s) \in Int
          <5> HIDE DEF T
          <5> QED
            BY <1>2, <2>1, <4>2, ProductMonotone, ProductSum
        <4> HIDE DEF M, D, T, w
        <4>4. w * Per < (M + Limit) * Per + D + Per
          BY <1>2, <3>2, <3>3, <4>1, <4>3
        <4> QED
          BY <3>1, <3>2, <4>4 DEF D
      <3>5. CASE row[k] # None
        <4> DEFINE R == row[k].refilled_at
                   tok == row[k].tokens
        <4>1. tok \in Nat /\ R \in Nat /\ R <= now
          BY <3>5, MaxTimeAssumption DEF Inv, TypeOK, Rows, Times, Chronology
        <4>2. (w + tok) * Per < (Limit + M) * Per + Limit * (R - s) + Per
          BY <2>7, <3>5 DEF Periods, Within
        <4> HIDE DEF R, tok, w, M
        <4>3. /\ (w + tok) * Per = w * Per + tok * Per
              /\ tok * Per >= 0 /\ tok * Per \in Int
          BY <1>2, <2>1, <4>1, ProductSum, ProductMonotone
        <4>4. Limit * (R - s) <= D /\ Limit * (R - s) \in Int
          BY <1>2, <2>1, <4>1, ProductMonotone, ProductSum
        <4> HIDE DEF D
        <4>5. w * Per < (M + Limit) * Per + D + Per
          BY <1>2, <3>2, <3>3, <4>2, <4>3, <4>4
        <4> QED
          BY <3>1, <3>2, <4>5 DEF D
      <3> QED
        BY <3>4, <3>5
    <2> HIDE DEF w
    <2> QED
      BY <1>1, <1>3, <2>2, <2>6, <2>7 DEF Within
  <1> QED
    BY <1>4 DEF Periods

LEMMA PeriodsInvariance == Spec => [](Chronology /\ Periods)
  <1>1. Init => Chronology /\ Periods
    <2> SUFFICES ASSUME Init PROVE Chronology /\ Periods
      OBVIOUS
    <2>1. Chronology
      BY DEF Init, Chronology
    <2>2. ASSUME NEW k \in Keys, NEW s \in Times PROVE Within(k, s)
      <3>1. Hits(k, s) = 0 /\ InPeriod(crashes, s) = 0
        BY PeriodEmpty DEF Init, Hits
      <3> QED
        BY <3>1, LimitAssumption DEF Within
    <2> QED
      BY <2>1, <2>2 DEF Periods
  <1>2. ASSUME Inv, Chronology, Periods, [Next]_vars PROVE Periods'
    <2>1. ASSUME UNCHANGED <<row, charged, earlier, crashes>> PROVE Periods'
      BY <1>2, <2>1 DEF Periods, Within, Hits, InPeriod, Since
    <2>2. ASSUME NEW w \in Workers, call[w] # None, Upsert(call[w].key, call[w].at),
                 UNCHANGED <<earlier, crashes>>
          PROVE  Periods'
      <3>1. /\ call[w].key \in Keys /\ call[w].at \in Times
            /\ \A i \in DOMAIN crashes : crashes[i] <= call[w].at
        BY <1>2, <2>2 DEF Inv, TypeOK, Calls, Chronology
      <3> QED
        BY <1>2, <2>2, <3>1, PeriodsUpsert
    <2>3. ASSUME NEW w \in Workers, End(w) PROVE Periods'
      BY <2>1, <2>2, <2>3 DEF End, Admit, Refuse, Fail, Return
    <2>4. ASSUME NEW w \in Workers, NEW k \in Keys, Begin(w, k) PROVE Periods'
      BY <2>1, <2>4 DEF Begin
    <2> QED
      BY <1>2, <2>1, <2>3, <2>4, PeriodsCrash DEF Next, Tick, vars
  <1>3. Inv /\ (Chronology /\ Periods) /\ [Next]_vars => (Chronology /\ Periods)'
    BY <1>2, ChronologyStep
  <1> QED
    BY <1>1, <1>3, Invariance, PTL DEF Spec

(* In no period of Per are more than 2 * Limit hits of a key charged, and  *)
(* Limit more for each crash of the database in it, though statements with *)
(* an old NOW() may be charged after younger ones: what such a one finds   *)
(* is reduced by the refill it is too early for.                           *)
THEOREM BurstsAreCounted == Spec => []WindowBound
  <1>1. Periods => WindowBound
    BY DEF Periods, Within, WindowBound, Hits
  <1> QED
    BY <1>1, PeriodsInvariance, PTL

(* hit() says false when the bucket is empty; only a statement that a      *)
(* younger one overtook may be refused while there are tokens.             *)
THEOREM RefusesRightly == Spec => RefusedWhenEmptyOrOvertaken
  <1>1. Inv /\ [Next]_vars =>
          [\A w \in Workers : Refused(w) =>
              LET r == row[call[w].key]
              IN  r # None /\ (r.tokens = 0 \/ call[w].at < r.refilled_at)]_vars
    BY OnlyRefuse, RefusedRow
  <1> QED
    BY <1>1, Invariance, PTL DEF Spec, RefusedWhenEmptyOrOvertaken
=============================================================================
