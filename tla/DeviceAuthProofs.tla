-------------------------- MODULE DeviceAuthProofs --------------------------
(***************************************************************************)
(* Safety of DeviceAuth for every number of devices, of overlapping        *)
(* requests and of challenges, and all time limits.                        *)
(***************************************************************************)
EXTENDS DeviceAuth, SequenceTheorems, FiniteSetTheorems, TLAPS

(* The requests whose answer may use up challenge v. *)
Holders(v) ==
    {r \in Requests : pc[r] \in {"responded", "clearing"} /\ copy[r].challenge = v}

(* Nobody has been given challenge v, nor has it been in the table. *)
Unused(v) ==
    /\ tokens[v] = 0
    /\ \A d \in Devices :
          /\ row[d] # None => row[d].challenge # v
          /\ v \notin known[d]
          /\ v \notin spent[d]
          /\ \A s \in Storings(d) : s.challenge # v
    /\ \A r \in Requests : copy[r].challenge # v

Asking == {r \in Requests : pc[r] = "asked"}

Storing == {r \in Requests : pc[r] = "storing"}

(* What a request has while it is in progress. *)
InProgress(r) ==
    /\ pc[r] = "idle" => copy[r] = Blank
    /\ pc[r] # "idle" => device[r] \in Devices
    /\ pc[r] = "storing" => value[r] \in 1 .. drawn
    /\ pc[r] = "responded" => result[r] = "none" /\ value[r] \in known[device[r]] \cup {0}
    /\ pc[r] = "clearing" => value[r] \in Values /\ value[r] = copy[r].challenge

(* Challenges are drawn once: those to come, and those that are about to   *)
(* be stored, are not in use.                                              *)
DrawnOnce ==
    /\ drawn + Cardinality(Asking) <= Draws
    /\ \A v \in drawn + 1 .. Draws : Unused(v)
    /\ \A r \in Storing : Unused(value[r])
    /\ \A q, r \in Storing : value[q] = value[r] => q = r

(* The row c of device d, or a copy of it, is what was stored once. *)
Copied(c, d) ==
    c.challenge # None =>
        [challenge |-> c.challenge, at |-> c.challenged_at - Skew] \in Storings(d)

(* No challenge is stored twice, and the table has the last one. *)
StoredOnce ==
    /\ \A d \in Devices : \A s \in Storings(d) : s.at <= now
    /\ \A d, e \in Devices : \A s \in Storings(d), t \in Storings(e) :
          s.challenge = t.challenge => d = e /\ s = t
    /\ \A d \in Devices : row[d] # None =>
          /\ Copied(row[d], d)
          /\ row[d].challenge # None =>
                \A s \in Storings(d) : s.at + Skew <= row[d].challenged_at
          /\ \A v \in known[d] : \E s \in Storings(d) : s.challenge = v
    /\ \A r \in Requests : Copied(copy[r], device[r])

(* The challenge that a response is about was stored before the request    *)
(* read the row, which has not had it since unless it had it then.         *)
Answerable(r) ==
    pc[r] = "responded" /\ value[r] # 0 =>
        /\ \E s \in Storings(device[r]) :
              /\ s.challenge = value[r]
              /\ copy[r].challenge # None => s.at + Skew <= copy[r].challenged_at
        /\ row[device[r]] # None /\ row[device[r]].challenge = value[r]
              => copy[r].challenge = value[r]

(* A challenge with a token has left the table for good, and its tokens    *)
(* are paid for by the requests that had read it.                          *)
Spent(v) ==
    \/ tokens[v] = 0
    \/ /\ \A d \in Devices : row[d] # None => row[d].challenge # v
       /\ tokens[v] + Cardinality(Holders(v)) <= Cardinality(Requests)

Inv ==
    /\ TypeOK
    /\ SpentIsGone
    /\ DrawnOnce
    /\ StoredOnce
    /\ \A r \in Requests : InProgress(r) /\ Answerable(r)
    /\ \A v \in Values : Spent(v)

-----------------------------------------------------------------------------
Stored == [challenge : Values, at : Times]

LEMMA StoringsType ==
    ASSUME TypeOK, NEW d \in Devices
    PROVE  Storings(d) \subseteq Stored
  <1>1. stored[d] \in Seq(Stored)
    BY DEF TypeOK, Stored
  <1>2. \A i \in DOMAIN stored[d] : stored[d][i] \in Stored
    BY <1>1, ElementOfSeq, LenProperties
  <1> QED
    BY <1>2 DEF Storings

(* One more storing. *)
LEMMA StoringsAppend ==
    ASSUME TypeOK, NEW d \in Devices, NEW s \in Stored,
           stored' = [stored EXCEPT ![d] = Append(@, s)]
    PROVE  /\ stored' \in [Devices -> Seq(Stored)]
           /\ \A e \in Devices :
                 Storings(e)' = IF e = d THEN Storings(e) \cup {s} ELSE Storings(e)
  <1> DEFINE n == Len(stored[d])
  <1>1. stored[d] \in Seq(Stored) /\ stored \in [Devices -> Seq(Stored)]
    BY DEF TypeOK, Stored
  <1>2. /\ n \in Nat
        /\ DOMAIN stored[d] = 1 .. n
        /\ Append(stored[d], s) \in Seq(Stored)
        /\ DOMAIN Append(stored[d], s) = 1 .. n + 1
        /\ \A i \in 1 .. n : Append(stored[d], s)[i] = stored[d][i]
        /\ Append(stored[d], s)[n + 1] = s
    BY <1>1, AppendProperties, LenProperties
  <1>3. stored'[d] = Append(stored[d], s)
    BY <1>1
  <1>4. Storings(d)' = Storings(d) \cup {s}
    <2>1. Storings(d)' = {stored'[d][i] : i \in DOMAIN stored'[d]}
      BY DEF Storings
    <2>2. 1 .. n + 1 = (1 .. n) \cup {n + 1}
      BY <1>2
    <2> QED
      BY <1>2, <1>3, <2>1, <2>2 DEF Storings
  <1>5. \A e \in Devices : e # d => Storings(e)' = Storings(e)
    BY <1>1 DEF Storings
  <1> QED
    BY <1>1, <1>2, <1>4, <1>5

LEMMA StoringsSame ==
    ASSUME UNCHANGED stored
    PROVE  \A d \in Devices : Storings(d)' = Storings(d)
  BY DEF Storings

(* Sets of requests are finite. *)
LEMMA Counted ==
    ASSUME NEW S \in SUBSET Requests
    PROVE  /\ IsFiniteSet(S)
           /\ Cardinality(S) \in Nat
           /\ Cardinality(S) <= Cardinality(Requests)
           /\ \A T \in SUBSET S : Cardinality(T) <= Cardinality(S)
           /\ \A r \in S : Cardinality(S \ {r}) = Cardinality(S) - 1
           /\ \A r \in Requests \ S : Cardinality(S \cup {r}) = Cardinality(S) + 1
  BY RequestsAssumption, FS_Subset, FS_CardinalityType, FS_AddElement, FS_RemoveElement

LEMMA CountedRequests == Cardinality(Requests) \in Nat
  BY RequestsAssumption, FS_CardinalityType

(* The end of a request. *)
LEMMA AnswerEffect ==
    ASSUME TypeOK, NEW r \in Requests, NEW code \in Results, Answer(r, code)
    PROVE  /\ pc' \in [Requests -> Phases]
           /\ device' \in [Requests -> Devices \cup {None}]
           /\ copy' \in [Requests -> Rows]
           /\ value' \in [Requests -> Values \cup {None, 0}]
           /\ result' \in [Requests -> Results]
           /\ pc'[r] = "idle" /\ copy'[r] = Blank
           /\ \A q \in Requests : q # r =>
                 /\ pc'[q] = pc[q] /\ device'[q] = device[q] /\ copy'[q] = copy[q]
                 /\ value'[q] = value[q] /\ result'[q] = result[q]
  BY DEF TypeOK, Answer, Phases, Rows

(* A challenge is spent or not as long as it has no more holders, no more  *)
(* tokens and no more rows.                                                *)
LEMMA SpentStays ==
    ASSUME TypeOK, NEW v \in Values, Spent(v),
           tokens'[v] = tokens[v],
           Holders(v)' \subseteq Holders(v),
           \A d \in Devices : row'[d] # None =>
               row'[d].challenge # v \/ (row[d] # None /\ row[d].challenge = v)
    PROVE  Spent(v)'
  <1>1. Holders(v) \in SUBSET Requests
    BY DEF Holders
  <1>2. /\ Cardinality(Holders(v)') \in Nat
        /\ Cardinality(Holders(v)) \in Nat
        /\ Cardinality(Holders(v)') <= Cardinality(Holders(v))
    BY <1>1, Counted
  <1>3. CASE tokens[v] = 0
    BY <1>3 DEF Spent
  <1>4. CASE tokens[v] # 0
    <2>1. tokens[v] \in Nat
      BY DEF TypeOK
    <2>2. /\ \A d \in Devices : row[d] # None => row[d].challenge # v
          /\ tokens[v] + Cardinality(Holders(v)) <= Cardinality(Requests)
      BY <1>4 DEF Spent
    <2>3. \A d \in Devices : row'[d] # None => row'[d].challenge # v
      BY <2>2
    <2>4. tokens'[v] + Cardinality(Holders(v)') <= Cardinality(Requests)
      BY <1>2, <2>1, <2>2, CountedRequests
    <2> QED
      BY <2>3, <2>4 DEF Spent
  <1> QED
    BY <1>3, <1>4

(* The end of a request that changes nothing but its own variables. *)
LEMMA AnswerStep ==
    ASSUME Inv, NEW r \in Requests, NEW code \in Results, Answer(r, code),
           UNCHANGED <<now, drawn, row, stored, sole, spent, tokens>>,
           UNCHANGED <<known, latest>>
    PROVE  Inv'
  <1> USE DEF Inv
  <1>1. /\ pc'[r] = "idle" /\ copy'[r] = Blank
        /\ \A q \in Requests : q # r =>
              /\ pc'[q] = pc[q] /\ device'[q] = device[q] /\ copy'[q] = copy[q]
              /\ value'[q] = value[q] /\ result'[q] = result[q]
    BY AnswerEffect
  <1>2. \A d \in Devices : Storings(d)' = Storings(d)
    BY StoringsSame
  <1>3. TypeOK'
    BY AnswerEffect DEF TypeOK
  <1>4. DrawnOnce'
    <2>1. Asking' \subseteq Asking
      BY <1>1 DEF Asking
    <2>2. Cardinality(Asking') <= Cardinality(Asking) /\ Cardinality(Asking') \in Nat
          /\ Cardinality(Asking) \in Nat
      BY <2>1, Counted DEF Asking
    <2>3. drawn + Cardinality(Asking') <= Draws
      BY <2>2, DrawsAssumption DEF DrawnOnce, TypeOK
    <2>4. ASSUME NEW v, Unused(v), v # None PROVE Unused(v)'
      BY <1>1, <1>2, <2>4 DEF Unused, Blank
    <2>5. Storing' \subseteq Storing
      BY <1>1 DEF Storing
    <2>6. \A q \in Storing' : q # r /\ value'[q] = value[q] /\ value[q] # None
      BY <1>1, NoneAssumption DEF Storing, InProgress
    <2>7. \A v \in drawn + 1 .. Draws : v # None
      BY NoneAssumption, DrawsAssumption DEF TypeOK
    <2> QED
      BY <2>3, <2>4, <2>5, <2>6, <2>7 DEF DrawnOnce
  <1>5. StoredOnce'
    <2>1. \A q \in Requests : Copied(copy[q], device[q])'
      <3>1. Copied(copy[r], device[r])'
        BY <1>1 DEF Copied, Blank
      <3>2. ASSUME NEW q \in Requests, q # r PROVE Copied(copy[q], device[q])'
        <4>1. copy[q].challenge # None => device[q] \in Devices
          BY DEF InProgress, Blank
        <4> QED
          BY <1>1, <1>2, <3>2, <4>1 DEF StoredOnce, Copied
      <3> QED
        BY <3>1, <3>2
    <2>2. \A d \in Devices : row[d] # None => Copied(row[d], d)'
      BY <1>2 DEF StoredOnce, Copied
    <2> QED
      BY <1>2, <2>1, <2>2 DEF StoredOnce
  <1>6. ASSUME NEW q \in Requests PROVE InProgress(q)' /\ Answerable(q)'
    BY <1>1, <1>2 DEF InProgress, Answerable
  <1>7. ASSUME NEW v \in Values PROVE Spent(v)'
    <2>1. Holders(v)' \subseteq Holders(v)
      BY <1>1 DEF Holders
    <2> QED
      BY <2>1, SpentStays
  <1>8. SpentIsGone'
    BY DEF SpentIsGone
  <1> QED
    BY <1>3, <1>4, <1>5, <1>6, <1>7, <1>8
-----------------------------------------------------------------------------
(* The parts of the state that DrawnOnce and StoredOnce do not depend on.  *)
LEMMA UnusedSame ==
    ASSUME UNCHANGED <<row, known, stored, sole, spent, tokens, copy>>, NEW v, Unused(v)
    PROVE  Unused(v)'
  BY StoringsSame DEF Unused

LEMMA StoredOnceSame ==
    ASSUME StoredOnce, UNCHANGED <<now, row, known, stored, copy, device>>
    PROVE  StoredOnce'
  <1>1. \A d \in Devices : Storings(d)' = Storings(d)
    BY StoringsSame
  <1>2. \A r \in Requests : Copied(copy[r], device[r])'
    <2> SUFFICES ASSUME NEW r \in Requests PROVE Copied(copy[r], device[r])'
      OBVIOUS
    <2>1. Storings(device[r])' = Storings(device[r])
      BY DEF Storings
    <2> QED
      BY <2>1 DEF StoredOnce, Copied
  <1>3. \A d \in Devices : row[d] # None => Copied(row[d], d)'
    BY <1>1 DEF StoredOnce, Copied
  <1> QED
    BY <1>1, <1>2, <1>3 DEF StoredOnce

(* get_device: the request has a copy of a row that the invariant knows.   *)
LEMMA ReadStep ==
    ASSUME Inv, NEW r \in Requests, NEW d \in Devices,
           NEW phase \in {"asked", "responded"}, NEW v,
           GetDevice(r, d, phase, v),
           phase = "asked" => v = None /\ drawn + Cardinality(Asking) < Draws,
           phase = "responded" => v \in known[d] \cup {0}
    PROVE  Inv'
  <1> USE DEF Inv
  <1>1. UNCHANGED <<now, drawn, row, known, latest, stored, sole, spent, tokens>> /\ pc[r] = "idle"
    BY DEF GetDevice, history
  <1>2. CASE row[d] = None
    BY <1>1, <1>2, AnswerStep DEF GetDevice, Results
  <1>3. CASE row[d] # None
    <2>1. /\ pc' = [pc EXCEPT ![r] = phase]
          /\ device' = [device EXCEPT ![r] = d]
          /\ copy' = [copy EXCEPT ![r] = row[d]]
          /\ value' = [value EXCEPT ![r] = v]
          /\ result' = [result EXCEPT ![r] = "none"]
      BY <1>3 DEF GetDevice
    <2>2. row[d] \in Rows /\ v \in Values \cup {None, 0}
      BY <1>3 DEF TypeOK
    <2>3. /\ pc'[r] = phase /\ device'[r] = d /\ copy'[r] = row[d]
          /\ value'[r] = v /\ result'[r] = "none"
          /\ \A q \in Requests : q # r =>
                /\ pc'[q] = pc[q] /\ device'[q] = device[q] /\ copy'[q] = copy[q]
                /\ value'[q] = value[q] /\ result'[q] = result[q]
      BY <2>1 DEF TypeOK
    <2>4. \A e \in Devices : Storings(e)' = Storings(e)
      BY <1>1, StoringsSame
    <2>5. TypeOK'
      <3>1. pc' \in [Requests -> Phases] /\ result' \in [Requests -> Results]
        BY <2>1 DEF TypeOK, Phases, Results
      <3>2. /\ device' \in [Requests -> Devices \cup {None}]
            /\ copy' \in [Requests -> Rows]
            /\ value' \in [Requests -> Values \cup {None, 0}]
        BY <2>1, <2>2 DEF TypeOK
      <3> QED
        BY <1>1, <3>1, <3>2 DEF TypeOK
    <2>6. DrawnOnce'
      <3>1. drawn + Cardinality(Asking') <= Draws
        <4>1. Asking \in SUBSET Requests /\ r \in Requests \ Asking
          BY <1>1 DEF Asking
        <4>2. CASE phase = "asked"
          <5>1. Asking' = Asking \cup {r}
            BY <2>3, <4>2 DEF Asking
          <5> QED
            <6>1. Cardinality(Asking') = Cardinality(Asking) + 1 /\ Cardinality(Asking) \in Nat
              BY <4>1, <5>1, Counted
            <6> QED
              BY <4>2, <6>1, DrawsAssumption DEF TypeOK
        <4>3. CASE phase = "responded"
          <5>1. Asking' = Asking
            BY <1>1, <2>3, <4>3 DEF Asking
          <5> QED
            BY <5>1 DEF DrawnOnce
        <4> QED
          BY <4>2, <4>3
      <3>2. ASSUME NEW u, Unused(u) PROVE Unused(u)'
        BY <1>1, <1>3, <2>3, <2>4, <3>2 DEF Unused
      <3>3. Storing' = Storing /\ \A q \in Storing : q # r /\ value'[q] = value[q]
        BY <1>1, <2>3 DEF Storing
      <3> QED
        BY <1>1, <3>1, <3>2, <3>3 DEF DrawnOnce
    <2>7. StoredOnce'
      <3>1. \A q \in Requests : Copied(copy[q], device[q])'
        <4>1. Copied(copy[r], device[r])'
          BY <1>3, <2>3, <2>4 DEF StoredOnce, Copied
        <4>2. ASSUME NEW q \in Requests, q # r PROVE Copied(copy[q], device[q])'
          <5>1. copy[q].challenge # None => device[q] \in Devices
            BY DEF InProgress, Blank
          <5> QED
            BY <2>3, <2>4, <4>2, <5>1 DEF StoredOnce, Copied
        <4> QED
          BY <4>1, <4>2
      <3>2. \A e \in Devices : row[e] # None => Copied(row[e], e)'
        BY <1>1, <2>4 DEF StoredOnce, Copied
      <3> QED
        BY <1>1, <2>4, <3>1, <3>2 DEF StoredOnce
    <2>8. ASSUME NEW q \in Requests PROVE InProgress(q)' /\ Answerable(q)'
      <3>1. CASE q # r
        BY <1>1, <2>3, <2>4, <3>1 DEF InProgress, Answerable
      <3>2. CASE q = r
        <4>1. InProgress(q)'
          BY <1>1, <2>3, <3>2 DEF InProgress
        <4>2. ASSUME phase = "responded", v # 0
              PROVE  \E s \in Storings(d) :
                        /\ s.challenge = v
                        /\ row[d].challenge # None => s.at + Skew <= row[d].challenged_at
          BY <1>3, <4>2 DEF StoredOnce
        <4>3. Answerable(q)'
          BY <1>1, <2>3, <2>4, <3>2, <4>2 DEF Answerable
        <4> QED
          BY <4>1, <4>3
      <3> QED
        BY <3>1, <3>2
    <2>9. ASSUME NEW u \in Values PROVE Spent(u)'
      <3>1. CASE tokens[u] = 0
        BY <1>1, <3>1 DEF Spent
      <3>2. CASE tokens[u] # 0
        <4>1. row[d].challenge # u
          BY <1>3, <3>2 DEF Spent
        <4>2. Holders(u)' \subseteq Holders(u)
          BY <1>1, <2>3, <4>1 DEF Holders
        <4> QED
          BY <1>1, <4>2, SpentStays
      <3> QED
        BY <3>1, <3>2
    <2>10. SpentIsGone'
      BY <1>1 DEF SpentIsGone
    <2> QED
      BY <2>5, <2>6, <2>7, <2>8, <2>9, <2>10
  <1> QED
    BY <1>2, <1>3

(* A challenge is drawn: the next one, which nobody has.                   *)
LEMMA DrawStep ==
    ASSUME Inv, NEW r \in Requests, Draw(r)
    PROVE  Inv'
  <1> USE DEF Inv
  <1>1. /\ pc[r] = "asked"
        /\ drawn' = drawn + 1
        /\ value' = [value EXCEPT ![r] = drawn + 1]
        /\ pc' = [pc EXCEPT ![r] = "storing"]
        /\ UNCHANGED <<now, row, device, copy, result, known, latest, stored, sole, spent, tokens>>
    BY DEF Draw, history
  <1>2. /\ pc'[r] = "storing" /\ value'[r] = drawn + 1
        /\ \A q \in Requests : q # r => pc'[q] = pc[q] /\ value'[q] = value[q]
    BY <1>1 DEF TypeOK
  <1>3. /\ drawn \in Nat
        /\ drawn + 1 + Cardinality(Asking') <= Draws
        /\ Cardinality(Asking') \in Nat
    <2>1. Asking \in SUBSET Requests /\ r \in Asking /\ Asking' = Asking \ {r}
      BY <1>1, <1>2 DEF Asking
    <2>2. Cardinality(Asking') = Cardinality(Asking) - 1 /\ Cardinality(Asking) \in Nat
      BY <2>1, Counted
    <2>3. Asking' \in SUBSET Requests
      BY <2>1
    <2>4. Cardinality(Asking') \in Nat
      BY <2>3, Counted
    <2> QED
      BY <2>2, <2>4, DrawsAssumption DEF DrawnOnce, TypeOK
  <1>4. drawn + 1 \in Values /\ drawn + 1 <= Draws
    BY <1>3, DrawsAssumption DEF Values
  <1>5. TypeOK'
    <2>1. drawn' \in 0 .. Draws
      BY <1>1, <1>3, <1>4, DrawsAssumption
    <2>2. pc' \in [Requests -> Phases] /\ value' \in [Requests -> Values \cup {None, 0}]
      BY <1>1, <1>4 DEF TypeOK, Phases
    <2> QED
      BY <1>1, <2>1, <2>2 DEF TypeOK
  <1>6. ASSUME NEW v, Unused(v) PROVE Unused(v)'
    BY <1>1, <1>6, UnusedSame
  <1>7. Unused(drawn + 1)
    BY <1>3, <1>4 DEF DrawnOnce
  <1>8. DrawnOnce'
    <2>1. Storing' = Storing \cup {r} /\ r \notin Storing
      BY <1>1, <1>2 DEF Storing
    <2>2. \A q \in Storing : value'[q] = value[q] /\ value'[q] # drawn + 1
      BY <1>2, <1>3, <2>1 DEF Storing, InProgress
    <2>3. \A q \in Storing' : Unused(value'[q])
      BY <1>2, <1>7, <2>1, <2>2 DEF DrawnOnce
    <2>4. \A q \in Storing' : Unused(value[q])'
      BY <1>1, <2>3, StoringsSame DEF Unused
    <2>5. \A p, q \in Storing' : value'[p] = value'[q] => p = q
      BY <1>2, <2>1, <2>2 DEF DrawnOnce
    <2>6. \A v \in drawn + 2 .. Draws : Unused(v)'
      BY <1>3, <1>6, DrawsAssumption DEF DrawnOnce
    <2>7. drawn' + 1 = drawn + 2
      BY <1>1, <1>3
    <2> QED
      BY <1>1, <1>3, <2>4, <2>5, <2>6, <2>7 DEF DrawnOnce
  <1>9. StoredOnce'
    BY <1>1, StoredOnceSame
  <1>10. ASSUME NEW q \in Requests PROVE InProgress(q)' /\ Answerable(q)'
    <2>1. InProgress(q)'
      BY <1>1, <1>2, <1>3 DEF InProgress
    <2>2. Storings(device[q])' = Storings(device[q])
      BY <1>1 DEF Storings
    <2>3. Answerable(q)'
      BY <1>1, <1>2, <2>2 DEF Answerable
    <2> QED
      BY <2>1, <2>3
  <1>11. ASSUME NEW v \in Values PROVE Spent(v)'
    <2>1. Holders(v)' \subseteq Holders(v)
      BY <1>1, <1>2 DEF Holders
    <2> QED
      BY <1>1, <2>1, SpentStays
  <1>12. SpentIsGone'
    BY <1>1 DEF SpentIsGone
  <1> QED
    BY <1>5, <1>8, <1>9, <1>10, <1>11, <1>12
-----------------------------------------------------------------------------
(* The UPDATE that stores a fresh challenge, with the device told of it or *)
(* not, and the end of the request.                                        *)
LEMMA StoreStep ==
    ASSUME Inv, NEW r \in Requests, NEW code \in Results,
           pc[r] = "storing", StoreChallenge(r), Answer(r, code),
           \/ Give(device[r], value[r])
           \/ UNCHANGED <<known, latest>>,
           UNCHANGED <<now, drawn, spent, tokens>>
    PROVE  Inv'
  <1> USE DEF Inv
  <1>1. PICK d \in Devices, v \in Values, new \in Stored :
            /\ d = device[r] /\ v = value[r]
            /\ v \in 1 .. drawn /\ v # None
            /\ Unused(v)
            /\ new = [challenge |-> v, at |-> now]
            /\ new.challenge = v /\ new.at = now
    <2>1. device[r] \in Devices /\ value[r] \in 1 .. drawn /\ Unused(value[r])
      BY DEF InProgress, DrawnOnce, Storing
    <2>2. value[r] \in Values /\ value[r] # None
      BY <2>1, NoneAssumption, DrawsAssumption DEF TypeOK, Values
    <2>3. [challenge |-> value[r], at |-> now] \in Stored
      BY <2>2 DEF TypeOK, Stored
    <2> QED
      BY <2>1, <2>2, <2>3
  <1>2. /\ pc'[r] = "idle" /\ copy'[r] = Blank
        /\ \A q \in Requests : q # r =>
              /\ pc'[q] = pc[q] /\ device'[q] = device[q] /\ copy'[q] = copy[q]
              /\ value'[q] = value[q] /\ result'[q] = result[q]
    BY AnswerEffect
  <1>3. /\ row'[d] = IF row[d] = None THEN None
                     ELSE [challenge |-> v, challenged_at |-> now + Skew]
        /\ \A e \in Devices : e # d => row'[e] = row[e]
        /\ row' \in [Devices -> Rows \cup {None}]
    <2>1. [challenge |-> v, challenged_at |-> now + Skew] \in Rows
      BY <1>1 DEF Rows, TypeOK
    <2> QED
      BY <1>1, <2>1 DEF StoreChallenge, TypeOK
  <1>4. /\ stored' \in [Devices -> Seq(Stored)]
        /\ Storings(d)' = IF row[d] = None THEN Storings(d) ELSE Storings(d) \cup {new}
        /\ \A e \in Devices : e # d => Storings(e)' = Storings(e)
    <2>1. CASE row[d] = None
      <3>1. UNCHANGED stored
        BY <1>1, <2>1 DEF StoreChallenge
      <3> QED
        BY <1>1, <2>1, <3>1, StoringsSame DEF TypeOK, Stored
    <2>2. CASE row[d] # None
      <3>1. stored' = [stored EXCEPT ![d] = Append(@, new)]
        BY <1>1, <2>2 DEF StoreChallenge
      <3> QED
        BY <1>1, <2>2, <3>1, StoringsAppend
    <2> QED
      BY <2>1, <2>2
  <1>5. /\ known' \in [Devices -> SUBSET Values]
        /\ latest' \in [Devices -> [challenge : Values \cup {None}, at : Times]]
        /\ known'[d] = known[d] \/ known'[d] = known[d] \cup {v}
        /\ \A e \in Devices : e # d => known'[e] = known[e]
    <2>1. CASE Give(device[r], value[r])
      <3>1. [challenge |-> v, at |-> now] \in [challenge : Values \cup {None}, at : Times]
        BY <1>1 DEF TypeOK
      <3> QED
        BY <1>1, <2>1, <3>1 DEF Give, TypeOK
    <2>2. CASE UNCHANGED <<known, latest>>
      BY <2>2 DEF TypeOK
    <2> QED
      BY <2>1, <2>2
  <1>6. \A e \in Devices : Storings(e) \subseteq Storings(e)'
    <2> SUFFICES ASSUME NEW e \in Devices PROVE Storings(e) \subseteq Storings(e)'
      OBVIOUS
    <2>1. CASE e = d
      BY <1>4, <2>1
    <2>2. CASE e # d
      BY <1>4, <2>2
    <2> QED
      BY <2>1, <2>2
  <1>7. sole' \in [Devices -> SUBSET Values]
    <2>1. sole' \in {sole, [sole EXCEPT ![d] = @ \cup {v}]}
      BY <1>1 DEF StoreChallenge
    <2>2. sole \in [Devices -> SUBSET Values]
      BY DEF TypeOK
    <2> QED
      BY <1>1, <2>1, <2>2
  <1>8. TypeOK'
    BY <1>3, <1>4, <1>5, <1>7, AnswerEffect DEF TypeOK, Stored
  <1>9. ASSUME NEW u, Unused(u), u # v, u # None PROVE Unused(u)'
    <2>1. \A e \in Devices : row'[e] # None => row'[e].challenge # u
      BY <1>1, <1>3, <1>9 DEF Unused
    <2>2. \A e \in Devices : u \notin known'[e]
      BY <1>5, <1>9 DEF Unused
    <2>3. \A e \in Devices : \A s \in Storings(e)' : s.challenge # u
      BY <1>1, <1>4, <1>9 DEF Unused
    <2>4. \A q \in Requests : copy'[q].challenge # u
      BY <1>2, <1>9 DEF Unused, Blank
    <2> QED
      BY <1>9, <2>1, <2>2, <2>3, <2>4 DEF Unused
  <1>10. DrawnOnce'
    <2>1. Asking' \subseteq Asking
      BY <1>2 DEF Asking
    <2>2. Cardinality(Asking') <= Cardinality(Asking) /\ Cardinality(Asking') \in Nat
          /\ Cardinality(Asking) \in Nat
      BY <2>1, Counted DEF Asking
    <2>3. drawn + Cardinality(Asking') <= Draws
      BY <2>2, DrawsAssumption DEF DrawnOnce, TypeOK
    <2>4. \A u \in drawn + 1 .. Draws : u # v /\ u # None
      BY <1>1, NoneAssumption, DrawsAssumption DEF TypeOK
    <2>5. Storing' \subseteq Storing
      BY <1>2 DEF Storing
    <2>6. r \in Storing /\ r \notin Storing'
      BY <1>2 DEF Storing
    <2>7. \A q \in Storing' : q # r /\ value'[q] = value[q] /\ value[q] # v /\ value[q] # None
      BY <1>1, <1>2, <2>5, <2>6, NoneAssumption DEF DrawnOnce, InProgress, Storing
    <2>8. \A q \in Storing' : Unused(value[q])'
      <3>1. ASSUME NEW q \in Storing' PROVE Unused(value[q])'
        <4>1. PICK u : u = value[q] /\ u = value'[q] /\ u # v /\ u # None
          BY <2>7
        <4>2. Unused(u)
          BY <2>5, <4>1 DEF DrawnOnce
        <4>3. Unused(u)'
          BY <1>9, <4>1, <4>2
        <4> QED
          BY <4>1, <4>3 DEF Unused
      <3> QED
        BY <3>1
    <2>9. \A u \in drawn + 1 .. Draws : Unused(u)'
      BY <1>9, <2>4 DEF DrawnOnce
    <2>10. \A p, q \in Storing' : value'[p] = value'[q] => p = q
      BY <2>5, <2>7 DEF DrawnOnce
    <2> QED
      BY <2>3, <2>8, <2>9, <2>10 DEF DrawnOnce
  <1>11. StoredOnce'
    <2>1. \A e \in Devices : \A s \in Storings(e)' : s.at <= now
      <3>1. now <= now
        BY DEF TypeOK, Times
      <3> QED
        BY <1>1, <1>4, <3>1 DEF StoredOnce
    <2>2. ASSUME NEW e \in Devices, NEW f \in Devices,
                 NEW s \in Storings(e)', NEW t \in Storings(f)',
                 s.challenge = t.challenge
          PROVE  e = f /\ s = t
      <3>1. ASSUME NEW g \in Devices, NEW x \in Storings(g)', x.challenge = v
            PROVE  g = d /\ x = new
        BY <1>1, <1>4, <3>1 DEF Unused
      <3>2. CASE s.challenge = v
        BY <2>2, <3>1, <3>2
      <3>3. CASE s.challenge # v
        <4>1. s \in Storings(e) /\ t \in Storings(f)
          BY <1>1, <1>4, <2>2, <3>3
        <4> QED
          BY <2>2, <4>1 DEF StoredOnce
      <3> QED
        BY <3>2, <3>3
    <2>3. ASSUME NEW e \in Devices, row'[e] # None
          PROVE  /\ Copied(row[e], e)'
                 /\ row'[e].challenge # None =>
                       \A s \in Storings(e)' : s.at + Skew <= row'[e].challenged_at
                 /\ \A u \in known'[e] : \E s \in Storings(e)' : s.challenge = u
      <3>1. CASE e = d
        <4>1. /\ row[d] # None
              /\ row'[d].challenge = v /\ row'[d].challenged_at = now + Skew
          BY <1>3, <2>3, <3>1
        <4>2. new \in Storings(d)'
          BY <1>1, <1>2, <1>4, <2>2, <4>1
        <4>3. now \in Int /\ Skew \in Int
          BY TimesAssumption DEF TypeOK, Times
        <4>4. Copied(row[d], d)'
          <5>1. [challenge |-> row'[d].challenge, at |-> row'[d].challenged_at - Skew] = new
            <6>1. row'[d].challenged_at - Skew = now /\ row'[d].challenge = v
              BY <4>1, <4>3
            <6>2. new = [challenge |-> v, at |-> now]
              BY <1>1
            <6> QED
              BY <6>1, <6>2
          <5> QED
            BY <4>2, <5>1 DEF Copied
        <4>5. \A s \in Storings(d)' : s.at + Skew <= now + Skew
          <5> SUFFICES ASSUME NEW s \in Storings(d)' PROVE s.at + Skew <= now + Skew
            OBVIOUS
          <5>1. s.at <= now /\ s.at \in Int
            BY <1>1, <1>4, <2>1, StoringsType, TimesAssumption
            DEF Stored, Times
          <5> QED
            BY <5>1, TimesAssumption DEF TypeOK, Times
        <4>6. \A u \in known'[d] : \E s \in Storings(d)' : s.challenge = u
          BY <1>1, <1>4, <1>5, <4>1 DEF StoredOnce
        <4> QED
          BY <3>1, <4>1, <4>4, <4>5, <4>6
      <3>2. CASE e # d
        <4>1. row'[e] = row[e] /\ known'[e] = known[e] /\ Storings(e)' = Storings(e)
          BY <1>3, <1>4, <1>5, <3>2
        <4>2. Copied(row[e], e)'
          BY <2>3, <4>1 DEF StoredOnce, Copied
        <4> QED
          BY <2>3, <4>1, <4>2 DEF StoredOnce
      <3> QED
        BY <3>1, <3>2
    <2>4. ASSUME NEW q \in Requests PROVE Copied(copy[q], device[q])'
      <3>1. CASE q = r
        BY <1>2, <3>1 DEF Copied, Blank
      <3>2. CASE q # r
        <4>1. copy[q].challenge # None => device[q] \in Devices
          BY DEF InProgress, Blank
        <4> QED
          <5>1. copy'[q] = copy[q] /\ device'[q] = device[q]
            BY <1>2, <3>2
          <5>2. copy[q].challenge # None => Storings(device[q]) \subseteq Storings(device[q])'
            BY <1>6, <4>1, <5>1
          <5> QED
            BY <5>1, <5>2 DEF StoredOnce, Copied
      <3> QED
        BY <3>1, <3>2
    <2> QED
      BY <2>1, <2>2, <2>3, <2>4 DEF StoredOnce
  <1>12. ASSUME NEW q \in Requests PROVE InProgress(q)' /\ Answerable(q)'
    <2>1. CASE q = r
      BY <1>2, <2>1 DEF InProgress, Answerable
    <2>2. CASE q # r
      <3>1. InProgress(q)'
        BY <1>2, <1>5, <2>2 DEF InProgress
      <3>2. ASSUME pc[q] = "responded", value[q] # 0 PROVE Answerable(q)'
        <4>1. device[q] \in Devices /\ value[q] # v
          BY <1>1, <3>2 DEF InProgress, Unused
        <4>2. Storings(device[q]) \subseteq Storings(device[q])'
          <5>1. device'[q] = device[q]
            BY <1>2, <2>2
          <5> QED
            BY <1>6, <4>1, <5>1
        <4>3. row'[device[q]] # None /\ row'[device[q]].challenge = value[q]
                => row'[device[q]] = row[device[q]]
          BY <1>3, <4>1
        <4> QED
          BY <1>2, <2>2, <3>2, <4>2, <4>3 DEF Answerable
      <3> QED
        BY <1>2, <2>2, <3>1, <3>2 DEF Answerable
    <2> QED
      BY <2>1, <2>2
  <1>13. ASSUME NEW u \in Values PROVE Spent(u)'
    <2>1. CASE u = v
      BY <1>1, <2>1 DEF Spent, Unused
    <2>2. CASE u # v
      <3>1. Holders(u)' \subseteq Holders(u)
        BY <1>2 DEF Holders
      <3>2. \A e \in Devices : row'[e] # None =>
              row'[e].challenge # u \/ (row[e] # None /\ row[e].challenge = u)
        BY <1>3, <2>2
      <3> QED
        BY <3>1, <3>2, SpentStays
    <2> QED
      BY <2>1, <2>2
  <1>14. SpentIsGone'
    BY <1>1, <1>3 DEF SpentIsGone, Unused
  <1> QED
    BY <1>8, <1>10, <1>11, <1>12, <1>13, <1>14
-----------------------------------------------------------------------------
(* The signature is accepted: value is the challenge of the copy.          *)
LEMMA AcceptStep ==
    ASSUME Inv, NEW r \in Requests, Accept(r)
    PROVE  Inv'
  <1> USE DEF Inv
  <1>1. /\ pc[r] = "responded"
        /\ Fault(r) = "none"
        /\ pc' = [pc EXCEPT ![r] = "clearing"]
        /\ UNCHANGED <<now, drawn, row, device, copy, value, result,
                       known, latest, stored, sole, spent, tokens>>
    BY DEF Accept, history
  <1>2. pc'[r] = "clearing" /\ \A q \in Requests : q # r => pc'[q] = pc[q]
    BY <1>1 DEF TypeOK
  <1>3. copy[r].challenge = value[r] /\ copy[r].challenge \in Values
    <2>1. copy[r].challenge # None /\ copy[r].challenge = value[r]
      BY <1>1 DEF Fault
    <2>2. copy[r] \in Rows
      BY DEF TypeOK
    <2> QED
      BY <2>1, <2>2 DEF Rows, Blank
  <1>4. TypeOK'
    <2>1. pc' \in [Requests -> Phases]
      BY <1>1 DEF TypeOK, Phases
    <2> QED
      BY <1>1, <2>1 DEF TypeOK
  <1>5. DrawnOnce'
    <2>1. Asking' = Asking /\ Storing' = Storing
      BY <1>1, <1>2 DEF Asking, Storing
    <2>2. ASSUME NEW v, Unused(v) PROVE Unused(v)'
      BY <1>1, <2>2, UnusedSame
    <2>3. \A q \in Storing : Unused(value[q])'
      BY <1>1, StoringsSame DEF DrawnOnce, Unused
    <2> QED
      BY <1>1, <2>1, <2>2, <2>3 DEF DrawnOnce
  <1>6. StoredOnce'
    BY <1>1, StoredOnceSame
  <1>7. ASSUME NEW q \in Requests PROVE InProgress(q)' /\ Answerable(q)'
    <2>1. InProgress(q)'
      BY <1>1, <1>2, <1>3 DEF InProgress
    <2>2. Storings(device[q])' = Storings(device[q])
      BY <1>1 DEF Storings
    <2>3. Answerable(q)'
      BY <1>1, <1>2, <2>2 DEF Answerable
    <2> QED
      BY <2>1, <2>3
  <1>8. ASSUME NEW v \in Values PROVE Spent(v)'
    <2>1. Holders(v)' \subseteq Holders(v)
      BY <1>1, <1>2 DEF Holders
    <2> QED
      BY <1>1, <2>1, SpentStays
  <1>9. SpentIsGone'
    BY <1>1 DEF SpentIsGone
  <1> QED
    BY <1>4, <1>5, <1>6, <1>7, <1>8, <1>9

(* Rows go blank or away, and nothing else changes in the tables. *)
LEMMA StoredOnceLess ==
    ASSUME StoredOnce, UNCHANGED <<now, known, stored>>,
           \A d \in Devices : row'[d] # None =>
               row[d] # None /\ (row'[d] = row[d] \/ row'[d] = Blank),
           \A r \in Requests :
               copy'[r] = Blank \/ (copy'[r] = copy[r] /\ device'[r] = device[r])
    PROVE  StoredOnce'
  <1>1. \A d \in Devices : Storings(d)' = Storings(d)
    BY StoringsSame
  <1>2. \A r \in Requests : Copied(copy[r], device[r])'
    <2> SUFFICES ASSUME NEW r \in Requests PROVE Copied(copy[r], device[r])'
      OBVIOUS
    <2>1. CASE copy'[r] = Blank
      BY <2>1 DEF Copied, Blank
    <2>2. CASE copy'[r] = copy[r] /\ device'[r] = device[r]
      <3>1. Storings(device[r])' = Storings(device[r])
        BY <2>2 DEF Storings
      <3> QED
        BY <2>2, <3>1 DEF StoredOnce, Copied
    <2> QED
      BY <2>1, <2>2
  <1>3. \A d \in Devices : row'[d] # None => Copied(row[d], d)'
    <2> SUFFICES ASSUME NEW d \in Devices, row'[d] # None PROVE Copied(row[d], d)'
      OBVIOUS
    <2>1. CASE row'[d] = Blank
      BY <2>1 DEF Copied, Blank
    <2>2. CASE row'[d] = row[d]
      BY <1>1, <2>2 DEF StoredOnce, Copied
    <2> QED
      BY <2>1, <2>2
  <1> QED
    BY <1>1, <1>2, <1>3 DEF StoredOnce, Blank

(* The UPDATE that clears the challenge, with a token for it or none, and  *)
(* the end of the request.                                                 *)
LEMMA ClearStep ==
    ASSUME Inv, NEW r \in Requests, NEW code \in Results,
           pc[r] = "clearing", ClearChallenge(r), Answer(r, code),
           \/ tokens' = [tokens EXCEPT ![value[r]] = @ + 1]
           \/ UNCHANGED tokens,
           UNCHANGED <<now, drawn, known, latest, stored, sole>>
    PROVE  Inv'
  <1> USE DEF Inv
  <1>1. PICK d \in Devices, v \in Values :
            d = device[r] /\ v = value[r] /\ v = copy[r].challenge /\ v # None
    BY NoneAssumption, DrawsAssumption DEF InProgress, Values
  <1>2. /\ pc'[r] = "idle" /\ copy'[r] = Blank
        /\ \A q \in Requests : q # r =>
              /\ pc'[q] = pc[q] /\ device'[q] = device[q] /\ copy'[q] = copy[q]
              /\ value'[q] = value[q] /\ result'[q] = result[q]
    BY AnswerEffect
  <1>3. /\ row' = [row EXCEPT ![d] = IF row[d] = None THEN None ELSE Blank]
        /\ spent' = [spent EXCEPT ![d] = spent[d] \cup {v}]
    BY <1>1 DEF ClearChallenge, TypeOK
  <1>4. /\ row' \in [Devices -> Rows \cup {None}]
        /\ row'[d] = IF row[d] = None THEN None ELSE Blank
        /\ \A e \in Devices : e # d => row'[e] = row[e]
        /\ spent' \in [Devices -> SUBSET Values]
        /\ spent'[d] = spent[d] \cup {v}
        /\ \A e \in Devices : e # d => spent'[e] = spent[e]
    BY <1>1, <1>3 DEF TypeOK, Rows
  <1>5. /\ tokens' \in [Values -> Nat]
        /\ tokens'[v] \in {tokens[v], tokens[v] + 1}
        /\ \A u \in Values : u # v => tokens'[u] = tokens[u]
    <2>1. tokens \in [Values -> Nat]
      BY DEF TypeOK
    <2>2. CASE tokens' = [tokens EXCEPT ![value[r]] = @ + 1]
      <3>1. tokens' = [tokens EXCEPT ![v] = tokens[v] + 1] /\ tokens[v] \in Nat
        BY <1>1, <2>1, <2>2
      <3>2. tokens'[v] = tokens[v] + 1 /\ \A u \in Values : u # v => tokens'[u] = tokens[u]
        BY <2>1, <3>1
      <3>3. tokens' \in [Values -> Nat]
        BY <2>1, <3>1
      <3> QED
        BY <3>2, <3>3
    <2>3. CASE UNCHANGED tokens
      BY <2>1, <2>3
    <2> QED
      BY <2>2, <2>3
  <1>6. \A e \in Devices : Storings(e)' = Storings(e)
    BY StoringsSame
  <1>7. TypeOK'
    BY <1>4, <1>5, AnswerEffect DEF TypeOK
  <1>8. ASSUME NEW u \in Values, Unused(u) PROVE Unused(u)'
    <2>1. u # v
      BY <1>1, <1>8 DEF Unused
    <2>2. \A e \in Devices : row'[e] # None => row'[e].challenge # u
      BY <1>4, <1>8, NoneAssumption, DrawsAssumption DEF Unused, Blank, Values
    <2>3. \A q \in Requests : copy'[q].challenge # u
      BY <1>2, <1>8, NoneAssumption, DrawsAssumption DEF Unused, Blank, Values
    <2>4. \A e \in Devices : u \notin spent'[e]
      BY <1>4, <1>8, <2>1 DEF Unused
    <2> QED
      BY <1>5, <1>6, <1>8, <2>1, <2>2, <2>3, <2>4 DEF Unused
  <1>9. DrawnOnce'
    <2>1. Asking' \subseteq Asking
      BY <1>2 DEF Asking
    <2>2. Cardinality(Asking') <= Cardinality(Asking) /\ Cardinality(Asking') \in Nat
          /\ Cardinality(Asking) \in Nat
      BY <2>1, Counted DEF Asking
    <2>3. drawn + Cardinality(Asking') <= Draws
      BY <2>2, DrawsAssumption DEF DrawnOnce, TypeOK
    <2>4. Storing' \subseteq Storing /\ r \notin Storing'
      BY <1>2 DEF Storing
    <2>5. \A q \in Storing' : value'[q] = value[q] /\ value[q] \in Values
      BY <1>2, <2>4, DrawsAssumption DEF InProgress, Storing, Values, TypeOK
    <2>6. ASSUME NEW q \in Storing' PROVE Unused(value[q])'
      <3>1. PICK u \in Values : u = value[q] /\ u = value'[q]
        BY <2>5
      <3>2. Unused(u)
        BY <2>4, <3>1 DEF DrawnOnce
      <3>3. Unused(u)'
        BY <1>8, <3>2
      <3> QED
        BY <3>1, <3>3 DEF Unused
    <2>7. \A u \in drawn + 1 .. Draws : Unused(u)'
      <3>1. \A u \in drawn + 1 .. Draws : u \in Values
        BY DrawsAssumption DEF Values, TypeOK
      <3> QED
        BY <1>8, <3>1 DEF DrawnOnce
    <2>8. \A p, q \in Storing' : value'[p] = value'[q] => p = q
      BY <2>4, <2>5 DEF DrawnOnce
    <2> QED
      BY <2>3, <2>6, <2>7, <2>8 DEF DrawnOnce
  <1>10. StoredOnce'
    <2>1. \A e \in Devices : row'[e] # None =>
              row[e] # None /\ (row'[e] = row[e] \/ row'[e] = Blank)
      BY <1>4
    <2>2. \A q \in Requests :
              copy'[q] = Blank \/ (copy'[q] = copy[q] /\ device'[q] = device[q])
      BY <1>2
    <2> QED
      BY <2>1, <2>2, StoredOnceLess
  <1>11. ASSUME NEW q \in Requests PROVE InProgress(q)' /\ Answerable(q)'
    <2>1. CASE q = r
      BY <1>2, <2>1 DEF InProgress, Answerable
    <2>2. CASE q # r
      <3>1. InProgress(q)'
        BY <1>2, <2>2 DEF InProgress
      <3>2. ASSUME pc[q] = "responded", value[q] # 0 PROVE Answerable(q)'
        <4>1. device[q] \in Devices /\ value[q] # None
          BY <3>2, NoneAssumption, DrawsAssumption DEF InProgress, TypeOK, Values
        <4>2. row'[device[q]] # None /\ row'[device[q]].challenge = value[q]
                => row'[device[q]] = row[device[q]]
          BY <1>1, <1>4, <4>1 DEF Blank
        <4>3. device'[q] = device[q] /\ Storings(device[q])' = Storings(device[q])
          BY <1>2, <1>6, <2>2, <4>1
        <4> QED
          BY <1>2, <2>2, <3>2, <4>2, <4>3 DEF Answerable
      <3> QED
        BY <1>2, <2>2, <3>1, <3>2 DEF Answerable
    <2> QED
      BY <2>1, <2>2
  <1>12. ASSUME NEW u \in Values PROVE Spent(u)'
    <2>1. \A e \in Devices : row'[e] # None =>
              row'[e].challenge # u \/ (row[e] # None /\ row[e].challenge = u)
      BY <1>4, NoneAssumption, DrawsAssumption DEF Blank, Values
    <2>2. CASE u # v
      <3>1. Holders(u)' \subseteq Holders(u)
        BY <1>2 DEF Holders
      <3> QED
        BY <1>5, <2>1, <2>2, <3>1, SpentStays
    <2>3. CASE u = v
      <3>1. \A e \in Devices : row'[e] # None => row'[e].challenge # v
        <4> SUFFICES ASSUME NEW e \in Devices, row'[e] # None, row'[e].challenge = v
                     PROVE  FALSE
          OBVIOUS
        <4>1. e # d /\ row[e] # None /\ row[e].challenge = v
          BY <1>1, <1>4 DEF Blank
        <4>2. [challenge |-> v, at |-> row[e].challenged_at - Skew] \in Storings(e)
          BY <1>1, <4>1 DEF StoredOnce, Copied
        <4>3. [challenge |-> v, at |-> copy[r].challenged_at - Skew] \in Storings(d)
          BY <1>1 DEF StoredOnce, Copied
        <4> QED
          BY <4>1, <4>2, <4>3 DEF StoredOnce
      <3>2. r \in Holders(v) /\ Holders(v) \in SUBSET Requests
        BY <1>1 DEF Holders
      <3>3. Holders(v)' \subseteq Holders(v) \ {r}
        BY <1>2 DEF Holders
      <3>4. /\ Cardinality(Holders(v)) \in Nat
            /\ Cardinality(Holders(v)) <= Cardinality(Requests)
            /\ Cardinality(Holders(v) \ {r}) = Cardinality(Holders(v)) - 1
        BY <3>2, Counted
      <3>5. Cardinality(Holders(v)') \in Nat
            /\ Cardinality(Holders(v)') <= Cardinality(Holders(v) \ {r})
        <4>1. Holders(v) \ {r} \in SUBSET Requests
          BY <3>2
        <4> QED
          BY <3>3, <4>1, Counted
      <3>6. tokens'[v] + Cardinality(Holders(v)') <= Cardinality(Requests)
        <4>1. tokens[v] \in Nat
          BY DEF TypeOK
        <4>2. tokens[v] = 0 \/ tokens[v] + Cardinality(Holders(v)) <= Cardinality(Requests)
          BY DEF Spent
        <4> QED
          BY <1>5, <3>4, <3>5, <4>1, <4>2, CountedRequests
      <3> QED
        BY <2>3, <3>1, <3>6 DEF Spent
    <2> QED
      BY <2>2, <2>3
  <1>13. SpentIsGone'
    <2> SUFFICES ASSUME NEW e \in Devices, row'[e] # None
                 PROVE  row'[e].challenge \notin spent'[e]
      BY DEF SpentIsGone
    <2>1. CASE e = d
      <3>1. row'[e].challenge = None
        BY <1>4, <2>1 DEF Blank
      <3> QED
        BY <1>4, <3>1, NoneAssumption, DrawsAssumption DEF Values
    <2>2. CASE e # d
      BY <1>4, <2>2 DEF SpentIsGone
    <2> QED
      BY <2>1, <2>2
  <1> QED
    BY <1>7, <1>9, <1>10, <1>11, <1>12, <1>13

(* A device is removed. *)
LEMMA WipeStep ==
    ASSUME Inv, NEW d \in Devices, Wipe(d)
    PROVE  Inv'
  <1> USE DEF Inv
  <1>1. /\ row' = [row EXCEPT ![d] = None]
        /\ UNCHANGED <<now, drawn, pc, device, copy, value, result,
                       known, latest, stored, sole, spent, tokens>>
    BY DEF Wipe, request, history
  <1>2. /\ row' \in [Devices -> Rows \cup {None}]
        /\ \A e \in Devices : row'[e] # None => row'[e] = row[e] /\ row[e] # None
    BY <1>1 DEF TypeOK
  <1>3. \A e \in Devices : Storings(e)' = Storings(e)
    BY <1>1, StoringsSame
  <1>4. TypeOK'
    BY <1>1, <1>2 DEF TypeOK
  <1>5. DrawnOnce'
    <2>1. Asking' = Asking /\ Storing' = Storing
      BY <1>1 DEF Asking, Storing
    <2>2. \A v \in drawn + 1 .. Draws : Unused(v)'
      BY <1>1, <1>2, <1>3 DEF DrawnOnce, Unused
    <2>3. \A q \in Storing : Unused(value[q])'
      BY <1>1, <1>2, <1>3 DEF DrawnOnce, Unused
    <2> QED
      BY <1>1, <2>1, <2>2, <2>3 DEF DrawnOnce
  <1>6. StoredOnce'
    BY <1>1, <1>2, StoredOnceLess
  <1>7. ASSUME NEW q \in Requests PROVE InProgress(q)' /\ Answerable(q)'
    <2>1. InProgress(q)'
      BY <1>1 DEF InProgress
    <2>2. Storings(device[q])' = Storings(device[q])
      BY <1>1 DEF Storings
    <2>3. Answerable(q)'
      BY <1>1, <1>2, <2>2 DEF Answerable, InProgress
    <2> QED
      BY <2>1, <2>3
  <1>8. ASSUME NEW v \in Values PROVE Spent(v)'
    <2>1. Holders(v)' \subseteq Holders(v)
      BY <1>1 DEF Holders
    <2> QED
      BY <1>1, <1>2, <2>1, SpentStays
  <1>9. SpentIsGone'
    BY <1>1, <1>2 DEF SpentIsGone
  <1> QED
    BY <1>4, <1>5, <1>6, <1>7, <1>8, <1>9

(* A challenge from the cache: the copy's, which was stored for the device. *)
LEMMA GiveCachedStep ==
    ASSUME Inv, NEW r \in Requests, GiveCached(r)
    PROVE  Inv'
  <1> USE DEF Inv
  <1>1. PICK d \in Devices, v \in Values :
            /\ d = device[r] /\ v = copy[r].challenge /\ v # None
            /\ \E s \in Storings(d) : s.challenge = v
    <2>1. device[r] \in Devices
      BY DEF GiveCached, InProgress
    <2>2. copy[r].challenge # None /\ copy[r] \in Rows
      BY DEF GiveCached, Cacheable, TypeOK
    <2>3. copy[r].challenge \in Values
      BY <2>2 DEF Rows, Blank
    <2>4. [challenge |-> copy[r].challenge, at |-> copy[r].challenged_at - Skew]
             \in Storings(device[r])
      BY <2>2 DEF StoredOnce, Copied
    <2> QED
      BY <2>1, <2>2, <2>3, <2>4
  <1>2. /\ pc[r] = "asked"
        /\ Answer(r, "challenge")
        /\ UNCHANGED <<now, drawn, row, stored, sole, spent, tokens>>
        /\ known' = [known EXCEPT ![d] = @ \cup {v}]
        /\ latest' = [latest EXCEPT ![d] = [challenge |-> v, at |-> now]]
    BY <1>1 DEF GiveCached, Give
  <1>3. /\ pc'[r] = "idle" /\ copy'[r] = Blank
        /\ \A q \in Requests : q # r =>
              /\ pc'[q] = pc[q] /\ device'[q] = device[q] /\ copy'[q] = copy[q]
              /\ value'[q] = value[q] /\ result'[q] = result[q]
    BY <1>2, AnswerEffect DEF Results
  <1>4. /\ known' \in [Devices -> SUBSET Values]
        /\ known'[d] = known[d] \cup {v}
        /\ \A e \in Devices : e # d => known'[e] = known[e]
        /\ latest' \in [Devices -> [challenge : Values \cup {None}, at : Times]]
    <2>1. [challenge |-> v, at |-> now] \in [challenge : Values \cup {None}, at : Times]
      BY DEF TypeOK
    <2> QED
      BY <1>2, <2>1 DEF TypeOK
  <1>5. \A e \in Devices : Storings(e)' = Storings(e)
    BY <1>2, StoringsSame
  <1>6. TypeOK'
    BY <1>2, <1>4, AnswerEffect DEF TypeOK, Results
  <1>7. ASSUME NEW u \in Values, Unused(u) PROVE Unused(u)'
    <2>1. u # v
      BY <1>1, <1>7 DEF Unused
    <2>2. \A q \in Requests : copy'[q].challenge # u
      BY <1>3, <1>7, NoneAssumption, DrawsAssumption DEF Unused, Blank, Values
    <2>3. \A e \in Devices : u \notin known'[e]
      BY <1>4, <1>7, <2>1 DEF Unused
    <2> QED
      BY <1>2, <1>5, <1>7, <2>2, <2>3 DEF Unused
  <1>8. DrawnOnce'
    <2>1. Asking' \subseteq Asking
      BY <1>3 DEF Asking
    <2>2. Cardinality(Asking') <= Cardinality(Asking) /\ Cardinality(Asking') \in Nat
          /\ Cardinality(Asking) \in Nat
      BY <2>1, Counted DEF Asking
    <2>3. drawn + Cardinality(Asking') <= Draws
      BY <2>2, DrawsAssumption DEF DrawnOnce, TypeOK
    <2>4. Storing' \subseteq Storing /\ r \notin Storing'
      BY <1>3 DEF Storing
    <2>5. \A q \in Storing' : value'[q] = value[q] /\ value[q] \in Values
      BY <1>3, <2>4, DrawsAssumption DEF InProgress, Storing, Values, TypeOK
    <2>6. ASSUME NEW q \in Storing' PROVE Unused(value[q])'
      <3>1. PICK u \in Values : u = value[q] /\ u = value'[q]
        BY <2>5
      <3>2. Unused(u)
        BY <2>4, <3>1 DEF DrawnOnce
      <3>3. Unused(u)'
        BY <1>7, <3>2
      <3> QED
        BY <3>1, <3>3 DEF Unused
    <2>7. \A u \in drawn + 1 .. Draws : Unused(u)'
      <3>1. \A u \in drawn + 1 .. Draws : u \in Values
        BY DrawsAssumption DEF Values, TypeOK
      <3> QED
        BY <1>7, <3>1 DEF DrawnOnce
    <2>8. \A p, q \in Storing' : value'[p] = value'[q] => p = q
      BY <2>4, <2>5 DEF DrawnOnce
    <2> QED
      BY <1>2, <2>3, <2>6, <2>7, <2>8 DEF DrawnOnce
  <1>9. StoredOnce'
    <2>1. \A q \in Requests : Copied(copy[q], device[q])'
      <3> SUFFICES ASSUME NEW q \in Requests PROVE Copied(copy[q], device[q])'
        OBVIOUS
      <3>1. CASE q = r
        BY <1>3, <3>1 DEF Copied, Blank
      <3>2. CASE q # r
        <4>1. Storings(device[q])' = Storings(device[q])
          BY <1>2, <1>3, <3>2 DEF Storings
        <4> QED
          BY <1>3, <3>2, <4>1 DEF StoredOnce, Copied
      <3> QED
        BY <3>1, <3>2
    <2>2. \A e \in Devices : row[e] # None => Copied(row[e], e)'
      BY <1>2, <1>5 DEF StoredOnce, Copied
    <2>3. \A e \in Devices : row[e] # None =>
              \A u \in known'[e] : \E s \in Storings(e) : s.challenge = u
      BY <1>1, <1>4 DEF StoredOnce
    <2> QED
      BY <1>2, <1>5, <2>1, <2>2, <2>3 DEF StoredOnce
  <1>10. ASSUME NEW q \in Requests PROVE InProgress(q)' /\ Answerable(q)'
    <2>1. CASE q = r
      BY <1>3, <2>1 DEF InProgress, Answerable
    <2>2. CASE q # r
      <3>1. InProgress(q)'
        BY <1>2, <1>3, <1>4, <2>2 DEF InProgress
      <3>2. Storings(device[q])' = Storings(device[q])
        BY <1>2, <1>3, <2>2 DEF Storings
      <3> QED
        BY <1>2, <1>3, <2>2, <3>1, <3>2 DEF Answerable
    <2> QED
      BY <2>1, <2>2
  <1>11. ASSUME NEW u \in Values PROVE Spent(u)'
    <2>1. Holders(u)' \subseteq Holders(u)
      BY <1>3 DEF Holders
    <2> QED
      BY <1>2, <2>1, SpentStays
  <1>12. SpentIsGone'
    BY <1>2 DEF SpentIsGone
  <1> QED
    BY <1>6, <1>8, <1>9, <1>10, <1>11, <1>12

LEMMA TickStep ==
    ASSUME Inv, Tick
    PROVE  Inv'
  <1> USE DEF Inv
  <1>1. /\ now' = now + 1 /\ now' \in Times
        /\ UNCHANGED <<drawn, row, pc, device, copy, value, result,
                       known, latest, stored, sole, spent, tokens>>
    BY TimesAssumption DEF Tick, TypeOK, Times, request, history
  <1>2. \A e \in Devices : Storings(e)' = Storings(e)
    BY <1>1, StoringsSame
  <1>3. TypeOK' /\ SpentIsGone'
    BY <1>1 DEF TypeOK, SpentIsGone
  <1>4. DrawnOnce'
    <2>1. Asking' = Asking /\ Storing' = Storing
      BY <1>1 DEF Asking, Storing
    <2>2. \A v \in drawn + 1 .. Draws : Unused(v)'
      BY <1>1, <1>2 DEF DrawnOnce, Unused
    <2>3. \A q \in Storing : Unused(value[q])'
      BY <1>1, <1>2 DEF DrawnOnce, Unused
    <2> QED
      BY <1>1, <2>1, <2>2, <2>3 DEF DrawnOnce
  <1>5. \A q \in Requests : Storings(device[q])' = Storings(device[q])
    BY <1>1 DEF Storings
  <1>6. StoredOnce'
    <2>1. ASSUME NEW d \in Devices, NEW s \in Storings(d) PROVE s.at <= now'
      <3>1. s.at <= now /\ s.at \in Nat
        BY <2>1, StoringsType DEF StoredOnce, Stored, Times
      <3> QED
        BY <1>1, <3>1 DEF TypeOK, Times
    <2>2. \A q \in Requests : Copied(copy[q], device[q])'
      BY <1>1, <1>5 DEF StoredOnce, Copied
    <2>3. \A d \in Devices : row[d] # None => Copied(row[d], d)'
      BY <1>1, <1>2 DEF StoredOnce, Copied
    <2> QED
      BY <1>1, <1>2, <2>1, <2>2, <2>3 DEF StoredOnce
  <1>7. ASSUME NEW q \in Requests PROVE InProgress(q)' /\ Answerable(q)'
    BY <1>1, <1>5 DEF InProgress, Answerable
  <1>8. ASSUME NEW v \in Values PROVE Spent(v)'
    <2>1. Holders(v)' \subseteq Holders(v)
      BY <1>1 DEF Holders
    <2> QED
      BY <1>1, <2>1, SpentStays
  <1> QED
    BY <1>3, <1>4, <1>6, <1>7, <1>8

LEMMA StutterStep ==
    ASSUME Inv, UNCHANGED vars
    PROVE  Inv'
  <1> USE DEF Inv
  <1>1. UNCHANGED <<now, drawn, row, pc, device, copy, value, result,
                    known, latest, stored, sole, spent, tokens>>
    BY DEF vars, request, history
  <1>2. TypeOK' /\ SpentIsGone'
    BY <1>1 DEF TypeOK, SpentIsGone
  <1>3. DrawnOnce'
    BY <1>1, StoringsSame DEF DrawnOnce, Asking, Storing, Unused
  <1>4. StoredOnce'
    BY <1>1, StoredOnceSame
  <1>5. \A q \in Requests : Storings(device[q])' = Storings(device[q])
    BY <1>1 DEF Storings
  <1>6. \A q \in Requests : InProgress(q)' /\ Answerable(q)'
    BY <1>1, <1>5 DEF InProgress, Answerable
  <1>7. \A v \in Values : Spent(v)'
    BY <1>1 DEF Spent, Holders
  <1> QED
    BY <1>2, <1>3, <1>4, <1>6, <1>7
-----------------------------------------------------------------------------
LEMMA InitInv == Init => Inv
  <1> SUFFICES ASSUME Init PROVE Inv
    OBVIOUS
  <1>1. \A d \in Devices : Storings(d) = {}
    <2>1. DOMAIN <<>> = {}
      OBVIOUS
    <2> QED
      BY <2>1 DEF Init, Storings
  <1>2. TypeOK
    <2>1. Blank \in Rows /\ 0 \in Times /\ 0 \in 0 .. Draws
      BY TimesAssumption, DrawsAssumption DEF Rows, Times
    <2>2. stored \in [Devices -> Seq([challenge : Values, at : Times])]
      <3>1. <<>> \in Seq([challenge : Values, at : Times])
        BY EmptySeq
      <3> QED
        BY <3>1 DEF Init
    <2>3. latest \in [Devices -> [challenge : Values \cup {None}, at : Times]]
      BY <2>1 DEF Init
    <2>4. pc \in [Requests -> Phases] /\ result \in [Requests -> Results]
      BY DEF Init, Phases, Results
    <2> QED
      BY <2>1, <2>2, <2>3, <2>4 DEF Init, TypeOK
  <1>3. \A v \in Values : Unused(v)
    BY <1>1, NoneAssumption, DrawsAssumption DEF Init, Unused, Blank, Values
  <1>4. DrawnOnce
    <2>1. Asking = {} /\ Storing = {}
      BY DEF Init, Asking, Storing
    <2>2. drawn + Cardinality(Asking) <= Draws
      BY <2>1, FS_EmptySet, DrawsAssumption DEF Init
    <2>3. \A v \in drawn + 1 .. Draws : v \in Values
      BY DrawsAssumption DEF Init, Values
    <2> QED
      BY <1>3, <2>1, <2>2, <2>3 DEF DrawnOnce
  <1>5. StoredOnce
    BY <1>1 DEF Init, StoredOnce, Copied, Blank
  <1>6. SpentIsGone
    BY DEF Init, SpentIsGone
  <1>7. \A r \in Requests : InProgress(r) /\ Answerable(r)
    BY DEF Init, InProgress, Answerable
  <1>8. \A v \in Values : Spent(v)
    BY DEF Init, Spent
  <1> QED
    BY <1>2, <1>4, <1>5, <1>6, <1>7, <1>8 DEF Inv

LEMMA NextInv ==
    ASSUME Inv, [Next]_vars
    PROVE  Inv'
  <1>1. ASSUME NEW r \in Requests, NEW d \in Devices, Begin(r, d) PROVE Inv'
    <2>1. CASE Ask(r, d)
      BY <2>1, ReadStep DEF Ask, Asking
    <2>2. CASE Respond(r, d)
      <3>1. PICK v \in known[d] \cup {0} : GetDevice(r, d, "responded", v)
        BY <2>2 DEF Respond
      <3> QED
        BY <3>1, ReadStep
    <2> QED
      BY <1>1, <2>1, <2>2 DEF Begin
  <1>2. ASSUME NEW r \in Requests, Finish(r) PROVE Inv'
    <2>1. CASE GiveCached(r)
      BY <2>1, GiveCachedStep DEF GiveCached
    <2>2. CASE Draw(r)
      BY <2>2, DrawStep
    <2>3. CASE Store(r)
      BY <2>3, StoreStep DEF Store, Results
    <2>4. CASE Reject(r)
      <3>1. Fault(r) \in Results
        BY DEF Fault, Results
      <3> QED
        BY <2>4, <3>1, AnswerStep DEF Reject, history
    <2>5. CASE Accept(r)
      BY <2>5, AcceptStep
    <2>6. CASE Clear(r)
      BY <2>6, ClearStep DEF Clear, Results
    <2>7. CASE Fail(r)
      <3>1. CASE UNCHANGED <<row, stored, sole, spent>>
        BY <2>7, <3>1, AnswerStep DEF Fail, Results
      <3>2. CASE pc[r] = "storing" /\ StoreChallenge(r) /\ UNCHANGED spent
        BY <2>7, <3>2, StoreStep DEF Fail, Results
      <3>3. CASE pc[r] = "clearing" /\ ClearChallenge(r) /\ UNCHANGED <<stored, sole>>
        BY <2>7, <3>3, ClearStep DEF Fail, Results
      <3> QED
        BY <2>7, <3>1, <3>2, <3>3 DEF Fail
    <2> QED
      BY <1>2, <2>1, <2>2, <2>3, <2>4, <2>5, <2>6, <2>7 DEF Finish
  <1> QED
    BY <1>1, <1>2, TickStep, WipeStep, StutterStep DEF Next

LEMMA Invariance == Spec => []Inv
  <1>1. Inv /\ [Next]_vars => Inv'
    BY NextInv
  <1> QED
    BY <1>1, InitInv, PTL DEF Spec

(* challenge and challenged_at are set and cleared together, and a         *)
(* challenge that a login has used up never comes back to the table,       *)
(* however the handlers overlap and whatever fails between statements.     *)
THEOREM UsedIsGone == Spec => []Consistent
  <1>1. Inv => Consistent
    BY DEF Inv, Consistent
  <1> QED
    BY <1>1, Invariance, PTL

(* A challenge is good for at most one token per request that can be in    *)
(* progress at once.                                                       *)
THEOREM LoginsAreFew == Spec => []FewLogins
  <1>1. ASSUME Inv, NEW v \in Values
        PROVE  tokens[v] + Cardinality({r \in Requests : pc[r] = "clearing" /\ value[r] = v})
                 <= Cardinality(Requests)
    <2> DEFINE clearing == {r \in Requests : pc[r] = "clearing" /\ value[r] = v}
    <2>1. clearing \subseteq Holders(v) /\ clearing \in SUBSET Requests
      BY <1>1 DEF Inv, InProgress, Holders
    <2>2. /\ Cardinality(clearing) \in Nat
          /\ Cardinality(clearing) <= Cardinality(Requests)
      BY <2>1, Counted
    <2>3. /\ Cardinality(Holders(v)) \in Nat
          /\ Cardinality(clearing) <= Cardinality(Holders(v))
      <3>1. Holders(v) \in SUBSET Requests
        BY DEF Holders
      <3> QED
        BY <2>1, <3>1, Counted
    <2>4. tokens[v] \in Nat
      BY <1>1 DEF Inv, TypeOK
    <2>5. tokens[v] = 0 \/ tokens[v] + Cardinality(Holders(v)) <= Cardinality(Requests)
      BY <1>1 DEF Inv, Spent
    <2> HIDE DEF clearing
    <2>6. tokens[v] + Cardinality(clearing) <= Cardinality(Requests)
      BY <2>2, <2>3, <2>4, <2>5, CountedRequests
    <2> QED
      BY <2>6 DEF clearing
  <1>2. Inv => FewLogins
    BY <1>1 DEF FewLogins
  <1> QED
    BY <1>2, Invariance, PTL
-----------------------------------------------------------------------------
(* parse_timestamp loses less than a second. *)
LEMMA SecondsRange ==
    ASSUME NEW t \in Int
    PROVE  /\ Seconds(t) \in Int
           /\ Seconds(t) <= t
           /\ t - Seconds(t) <= TicksPerSecond - 1
           /\ \A u \in Int : u <= t => Seconds(u) <= Seconds(t)
  <1>1. TicksPerSecond \in Nat \ {0}
    BY TimesAssumption
  <1>2. ASSUME NEW x \in Int
        PROVE  /\ x % TicksPerSecond \in 0 .. TicksPerSecond - 1
               /\ x \div TicksPerSecond \in Int
               /\ x = TicksPerSecond * (x \div TicksPerSecond) + (x % TicksPerSecond)
    BY <1>1
  <1>3. ASSUME NEW u \in Int, u <= t PROVE Seconds(u) <= Seconds(t)
    <2> DEFINE p == u \div TicksPerSecond
               q == t \div TicksPerSecond
               a == u % TicksPerSecond
               b == t % TicksPerSecond
    <2>1. /\ p \in Int /\ q \in Int
          /\ a \in 0 .. TicksPerSecond - 1 /\ b \in 0 .. TicksPerSecond - 1
          /\ u = TicksPerSecond * p + a /\ t = TicksPerSecond * q + b
      BY <1>2
    <2> HIDE DEF p, q, a, b
    <2>2. TicksPerSecond * p \in Int /\ TicksPerSecond * q \in Int
      BY <1>1, <2>1
    <2>3. p <= q
      <3>1. ASSUME q + 1 <= p PROVE FALSE
        <4>1. TicksPerSecond * (q + 1) <= TicksPerSecond * p
          BY <1>1, <2>1, <3>1
        <4>2. TicksPerSecond * (q + 1) = TicksPerSecond * q + TicksPerSecond
          BY <1>1, <2>1
        <4> QED
          BY <1>1, <1>3, <2>1, <2>2, <4>1, <4>2
      <3> QED
        BY <2>1, <3>1
    <2>4. TicksPerSecond * p <= TicksPerSecond * q
      BY <1>1, <2>1, <2>3
    <2>5. Seconds(u) = TicksPerSecond * p /\ Seconds(t) = TicksPerSecond * q
      BY <1>1, <2>1, <2>2 DEF Seconds, a, b
    <2> QED
      BY <2>4, <2>5
  <1>4. Seconds(t) \in Int /\ Seconds(t) <= t /\ t - Seconds(t) <= TicksPerSecond - 1
    BY <1>1, <1>2 DEF Seconds
  <1> QED
    BY <1>3, <1>4

(* What is known of a challenge's age when the copy of a request has it.   *)
LEMMA CopyAge ==
    ASSUME Inv, NEW r \in Requests, copy[r].challenge # None,
           NEW s \in Storings(device[r]), s.challenge = copy[r].challenge
    PROVE  /\ s.at \in Int /\ now \in Int
           /\ copy[r].challenged_at = s.at + Skew
           /\ copy[r].challenged_at \in Int
  <1>1. device[r] \in Devices /\ now \in Nat
    BY TimesAssumption DEF Inv, InProgress, Blank, TypeOK, Times
  <1>2. s.at \in Nat
    BY <1>1, StoringsType, TimesAssumption DEF Inv, Stored, Times
  <1>3. [challenge |-> copy[r].challenge, at |-> copy[r].challenged_at - Skew]
           \in Storings(device[r])
    BY DEF Inv, StoredOnce, Copied
  <1>4. s = [challenge |-> copy[r].challenge, at |-> copy[r].challenged_at - Skew]
    BY <1>1, <1>3 DEF Inv, StoredOnce
  <1>5. copy[r].challenged_at \in Int
    <2>1. copy[r] \in [challenge : Values, challenged_at : {t + Skew : t \in Times}]
      BY DEF Inv, TypeOK, Rows, Blank
    <2> QED
      BY <2>1, TimesAssumption DEF Times
  <1>6. s.at = copy[r].challenged_at - Skew
    BY <1>4
  <1> QED
    BY <1>1, <1>2, <1>5, <1>6, TimesAssumption

(* A token is only given for a challenge that was accepted in time, if the *)
(* database's NOW() is not ahead of the app's clock.                       *)
THEOREM AcceptsInTime ==
    ASSUME Skew <= 0
    PROVE  Spec => AcceptedInTime
  <1>1. ASSUME Inv, NEW r \in Requests, Accept(r),
               NEW s \in Storings(device[r]), s.challenge = value[r]
        PROVE  now - s.at <= ValidFor
    <2>1. /\ copy[r].challenge # None /\ copy[r].challenge = value[r]
          /\ Age(copy[r]) <= ValidFor
      <3>1. Fault(r) = "none"
        BY <1>1 DEF Accept
      <3>2. copy[r].challenge # None
        BY <3>1 DEF Fault
      <3>3. ~(Age(copy[r]) > ValidFor) /\ copy[r].challenge = value[r]
        BY <3>1, <3>2 DEF Fault
      <3>4. copy[r].challenged_at \in Int /\ now \in Int
        BY <1>1, <3>2, <3>3, CopyAge
      <3>5. Age(copy[r]) \in Int
        BY <3>4, SecondsRange DEF Age
      <3> QED
        BY <3>2, <3>3, <3>5, TimesAssumption
    <2>2. /\ s.at \in Int /\ now \in Int
          /\ copy[r].challenged_at = s.at + Skew
          /\ copy[r].challenged_at \in Int
      BY <1>1, <2>1, CopyAge
    <2>3. /\ Seconds(copy[r].challenged_at) \in Int
          /\ Seconds(copy[r].challenged_at) <= copy[r].challenged_at
      BY <2>2, SecondsRange
    <2> QED
      BY <2>1, <2>2, <2>3, TimesAssumption DEF Age
  <1>2. Inv /\ [Next]_vars =>
          [\A r \in Requests : Accept(r) =>
              \A s \in Storings(device[r]) :
                  s.challenge = value[r] => now - s.at <= ValidFor]_vars
    BY <1>1
  <1> QED
    BY <1>2, Invariance, PTL DEF Spec, AcceptedInTime

(* The challenge stored last for device d. *)
Last(d) == stored[d][Len(stored[d])].challenge

(* A challenge that was stored for device d while none of its other        *)
(* requests was in progress, and that no login has used up, is what the    *)
(* row and every request of the device have, or too old to be cached.      *)
Kept(d) ==
    /\ \A v \in sole[d] : \E s \in Storings(d) : s.challenge = v
    /\ \A s \in Storings(d) :
          \/ s.challenge \notin sole[d] \ spent[d]
          \/ /\ s.challenge = Last(d)
             /\ row[d] # None => row[d].challenge = s.challenge
             /\ \A r \in Requests :
                   pc[r] # "idle" /\ device[r] = d => copy[r].challenge = s.challenge
          \/ /\ s.challenge # Last(d)
             /\ now - s.at > CacheFor - TicksPerSecond

(* A request that stores a challenge has found none or one that is too old. *)
Patient(r) == pc[r] = "storing" => ~Cacheable(copy[r])

KeptInv == \A d \in Devices : Kept(d)

PatientInv == \A r \in Requests : Patient(r)

LEMMA PatientStep ==
    ASSUME Inv, PatientInv, [Next]_vars
    PROVE  PatientInv'
  <1> SUFFICES ASSUME NEW r \in Requests, pc'[r] = "storing" PROVE ~Cacheable(copy[r])'
    BY DEF PatientInv, Patient
  <1>1. copy[r].challenge # None => copy[r].challenged_at \in Int
    <2>1. copy[r] \in Rows
      BY DEF Inv, TypeOK
    <2> QED
      BY <2>1, TimesAssumption DEF Rows, Blank, Times
  <1>2. now \in Int /\ (now' = now \/ now' = now + 1)
    <2>1. now \in Int
      BY TimesAssumption DEF Inv, TypeOK, Times
    <2>2. now' = now \/ now' = now + 1
      BY DEF Next, Begin, Ask, Respond, GetDevice, Finish, GiveCached, Draw, Store,
             Reject, Accept, Clear, Fail, Wipe, Tick, vars
    <2> QED
      BY <2>1, <2>2
  <1>3. copy'[r] = copy[r] /\ ~Cacheable(copy[r])
    <2>1. ASSUME pc[r] = "storing", UNCHANGED copy PROVE copy'[r] = copy[r] /\ ~Cacheable(copy[r])
      BY <2>1 DEF PatientInv, Patient
    <2>2. ASSUME NEW q \in Requests, NEW code, Answer(q, code)
          PROVE  copy'[r] = copy[r] /\ ~Cacheable(copy[r])
      <3>1. q # r /\ pc[r] = "storing" /\ copy'[r] = copy[r]
        BY <2>2 DEF Answer, Inv, TypeOK
      <3> QED
        BY <3>1 DEF PatientInv, Patient
    <2>3. ASSUME NEW q \in Requests, NEW d \in Devices, NEW phase \in {"asked", "responded"},
                 NEW v, GetDevice(q, d, phase, v)
          PROVE  copy'[r] = copy[r] /\ ~Cacheable(copy[r])
      <3>1. CASE row[d] = None
        BY <2>2, <2>3, <3>1 DEF GetDevice
      <3>2. CASE row[d] # None
        <4>1. q # r /\ pc[r] = "storing" /\ copy'[r] = copy[r]
          BY <2>3, <3>2 DEF GetDevice, Inv, TypeOK
        <4> QED
          BY <4>1 DEF PatientInv, Patient
      <3> QED
        BY <3>1, <3>2
    <2>4. ASSUME NEW q \in Requests, NEW d \in Devices, Begin(q, d)
          PROVE  copy'[r] = copy[r] /\ ~Cacheable(copy[r])
      BY <2>3, <2>4 DEF Begin, Ask, Respond
    <2>5. ASSUME NEW q \in Requests, Finish(q)
          PROVE  copy'[r] = copy[r] /\ ~Cacheable(copy[r])
      <3>1. CASE GiveCached(q) \/ Store(q) \/ Reject(q) \/ Clear(q) \/ Fail(q)
        BY <2>2, <3>1 DEF GiveCached, Store, Reject, Clear, Fail
      <3>2. CASE Draw(q)
        <4>1. pc[r] = "storing" \/ q = r
          BY <3>2 DEF Draw, Inv, TypeOK
        <4> QED
          BY <2>1, <3>2, <4>1 DEF Draw
      <3>3. CASE Accept(q)
        <4>1. pc[r] = "storing"
          BY <3>3 DEF Accept, Inv, TypeOK
        <4> QED
          BY <2>1, <3>3, <4>1 DEF Accept
      <3> QED
        BY <2>5, <3>1, <3>2, <3>3 DEF Finish
    <2> QED
      BY <2>1, <2>4, <2>5 DEF Next, Tick, Wipe, vars, request
  <1>4. CASE copy[r].challenge = None
    BY <1>3, <1>4 DEF Cacheable
  <1>5. CASE copy[r].challenge # None
    <2>1. Seconds(copy[r].challenged_at) \in Int
      BY <1>1, <1>5, SecondsRange
    <2>2. ~(now - Seconds(copy[r].challenged_at) < CacheFor)
      BY <1>3, <1>5 DEF Cacheable, Age
    <2>3. ~(now' - Seconds(copy[r].challenged_at) < CacheFor)
      BY <1>2, <2>1, <2>2, TimesAssumption
    <2> QED
      BY <1>3, <2>3 DEF Cacheable, Age
  <1> QED
    BY <1>4, <1>5

(* Nothing is stored for the device or spent, and its row is not written.  *)
LEMMA KeptSame ==
    ASSUME Inv, NEW d \in Devices, Kept(d),
           stored'[d] = stored[d], sole'[d] = sole[d],
           spent[d] \subseteq spent'[d],
           now' = now \/ now' = now + 1,
           row'[d] = row[d] \/ row'[d] = None,
           \A r \in Requests : pc'[r] # "idle" /\ device'[r] = d =>
               \/ pc[r] # "idle" /\ device[r] = d /\ copy'[r] = copy[r]
               \/ row[d] # None /\ copy'[r] = row[d]
    PROVE  Kept(d)'
  <1>1. Storings(d)' = Storings(d) /\ Last(d)' = Last(d)
    BY DEF Storings, Last
  <1>2. ASSUME NEW s \in Storings(d), now - s.at > CacheFor - TicksPerSecond
        PROVE  now' - s.at > CacheFor - TicksPerSecond
    <2>1. s \in Stored /\ now \in Times
      BY StoringsType DEF Inv, TypeOK
    <2>2. s.at \in Int /\ now \in Int
      BY <2>1, TimesAssumption DEF Stored, Times
    <2> QED
      BY <1>2, <2>2, TimesAssumption
  <1>3. ASSUME NEW s \in Storings(d), s.challenge \in sole'[d] \ spent'[d],
               s.challenge = Last(d)
        PROVE  /\ row'[d] # None => row'[d].challenge = s.challenge
               /\ \A r \in Requests :
                     pc'[r] # "idle" /\ device'[r] = d => copy'[r].challenge = s.challenge
    <2>1. s.challenge \in sole[d] \ spent[d]
      BY <1>3
    <2>2. /\ row[d] # None => row[d].challenge = s.challenge
          /\ \A r \in Requests :
                pc[r] # "idle" /\ device[r] = d => copy[r].challenge = s.challenge
      BY <1>3, <2>1 DEF Kept
    <2> QED
      BY <2>2
  <1>4. ASSUME NEW s \in Storings(d), s.challenge \in sole'[d] \ spent'[d],
               s.challenge # Last(d)
        PROVE  now' - s.at > CacheFor - TicksPerSecond
    <2>1. s.challenge \in sole[d] \ spent[d]
      BY <1>4
    <2> QED
      BY <1>2, <1>4, <2>1 DEF Kept
  <1>5. \A v \in sole'[d] : \E s \in Storings(d) : s.challenge = v
    BY DEF Kept
  <1>6. \A s \in Storings(d) :
            \/ s.challenge \notin sole'[d] \ spent'[d]
            \/ /\ s.challenge = Last(d)
               /\ row'[d] # None => row'[d].challenge = s.challenge
               /\ \A r \in Requests :
                     pc'[r] # "idle" /\ device'[r] = d => copy'[r].challenge = s.challenge
            \/ /\ s.challenge # Last(d)
               /\ now' - s.at > CacheFor - TicksPerSecond
    BY <1>3, <1>4
  <1> QED
    BY <1>1, <1>5, <1>6 DEF Kept

(* The UPDATE that stores a challenge: the only request of the device, or  *)
(* the last challenge is one that another request may lose.                *)
LEMMA KeptStore ==
    ASSUME Skew >= 0, Inv, KeptInv, PatientInv, NEW r \in Requests, NEW code \in Results,
           pc[r] = "storing", StoreChallenge(r), Answer(r, code),
           UNCHANGED <<now, spent>>
    PROVE  KeptInv'
  <1>1. /\ pc'[r] = "idle"
        /\ \A q \in Requests : q # r =>
              pc'[q] = pc[q] /\ device'[q] = device[q] /\ copy'[q] = copy[q]
    BY AnswerEffect DEF Inv
  <1>2. PICK d \in Devices, v \in Values, new \in Stored :
            /\ d = device[r] /\ v = value[r]
            /\ Unused(v)
            /\ new = [challenge |-> v, at |-> now]
            /\ new.challenge = v
    <2>1. device[r] \in Devices /\ value[r] \in 1 .. drawn /\ Unused(value[r])
      BY DEF Inv, InProgress, DrawnOnce, Storing
    <2>2. value[r] \in Values
      BY <2>1, DrawsAssumption DEF Inv, TypeOK, Values
    <2>3. [challenge |-> value[r], at |-> now] \in Stored
      BY <2>2 DEF Inv, TypeOK, Stored
    <2> QED
      BY <2>1, <2>2, <2>3
  <1>3. CASE row[d] = None
    <2>1. UNCHANGED <<row, stored, sole>>
      BY <1>2, <1>3 DEF StoreChallenge
    <2> SUFFICES ASSUME NEW e \in Devices PROVE Kept(e)'
      BY DEF KeptInv
    <2>2. Kept(e)
      BY DEF KeptInv
    <2> QED
      BY <1>1, <2>1, <2>2, KeptSame
  <1>4. CASE row[d] # None
    <2>1. /\ row' = [row EXCEPT ![d] = [challenge |-> v, challenged_at |-> now + Skew]]
          /\ stored' = [stored EXCEPT ![d] = Append(@, new)]
          /\ sole' = IF Alone(r) THEN [sole EXCEPT ![d] = @ \cup {v}] ELSE sole
      BY <1>2, <1>4 DEF StoreChallenge
    <2>2. /\ row'[d].challenge = v
          /\ \A e \in Devices : e # d =>
                row'[e] = row[e] /\ stored'[e] = stored[e] /\ sole'[e] = sole[e]
      BY <2>1 DEF Inv, TypeOK
    <2>3. ASSUME NEW e \in Devices, e # d PROVE Kept(e)'
      <3>1. Kept(e)
        BY DEF KeptInv
      <3> QED
        BY <1>1, <2>2, <2>3, <3>1, KeptSame
    <2>4. Storings(d)' = Storings(d) \cup {new}
      BY <2>1, StoringsAppend DEF Inv
    <2>5. Last(d)' = v
      <3>1. stored[d] \in Seq(Stored)
        BY DEF Inv, TypeOK, Stored
      <3>2. stored'[d] = Append(stored[d], new)
        BY <2>1 DEF Inv, TypeOK
      <3>3. stored'[d][Len(stored'[d])] = new
        BY <3>1, <3>2, AppendProperties, LenProperties
      <3> QED
        BY <1>2, <3>3 DEF Last
    <2>6. /\ v \notin sole[d]
          /\ \A s \in Storings(d) : s.challenge # v
      <3>1. \A s \in Storings(d) : s.challenge # v
        BY <1>2 DEF Unused
      <3> QED
        BY <3>1 DEF KeptInv, Kept
    <2>7. /\ sole'[d] \subseteq sole[d] \cup {v}
          /\ v \in sole'[d] => Alone(r)
      BY <2>1, <2>6 DEF Inv, TypeOK
    <2>8. ASSUME v \in sole'[d], NEW q \in Requests, pc'[q] # "idle"
          PROVE  device'[q] # d
      <3>1. q # r
        BY <1>1, <2>8
      <3> QED
        BY <1>1, <1>2, <2>7, <2>8, <3>1 DEF Alone
    <2>9. ASSUME NEW s \in Storings(d), s.challenge \in sole[d] \ spent[d]
          PROVE  now - s.at > CacheFor - TicksPerSecond
      <3>1. CASE s.challenge # Last(d)
        BY <2>9, <3>1 DEF KeptInv, Kept
      <3>2. CASE s.challenge = Last(d)
        <4>1. copy[r].challenge = s.challenge
          BY <1>2, <2>9, <3>2 DEF KeptInv, Kept
        <4>2. copy[r].challenge # None
          BY <2>9, <4>1, NoneAssumption, DrawsAssumption DEF Inv, TypeOK, Values
        <4>3. s \in Storings(device[r])
          BY <1>2
        <4>4. /\ s.at \in Int /\ now \in Int
              /\ copy[r].challenged_at = s.at + Skew
              /\ copy[r].challenged_at \in Int
          BY <4>1, <4>2, <4>3, CopyAge
        <4>5. ~(now - Seconds(copy[r].challenged_at) < CacheFor)
          BY <4>2 DEF PatientInv, Patient, Cacheable, Age
        <4>6. /\ Seconds(copy[r].challenged_at) \in Int
              /\ copy[r].challenged_at - Seconds(copy[r].challenged_at) <= TicksPerSecond - 1
          BY <4>4, SecondsRange
        <4> QED
          BY <4>4, <4>5, <4>6, TimesAssumption
      <3> QED
        BY <3>1, <3>2
    <2>10. \A u \in sole'[d] : \E s \in Storings(d)' : s.challenge = u
      <3>1. \A u \in sole[d] : \E s \in Storings(d) : s.challenge = u
        BY DEF KeptInv, Kept
      <3> QED
        BY <1>2, <2>4, <2>7, <3>1
    <2>11. ASSUME NEW s \in Storings(d)', s.challenge \in sole'[d] \ spent'[d]
           PROVE  \/ /\ s.challenge = Last(d)'
                     /\ row'[d] # None => row'[d].challenge = s.challenge
                     /\ \A q \in Requests : pc'[q] # "idle" /\ device'[q] = d
                           => copy'[q].challenge = s.challenge
                  \/ /\ s.challenge # Last(d)'
                     /\ now' - s.at > CacheFor - TicksPerSecond
      <3>1. CASE s.challenge = v
        BY <2>2, <2>5, <2>8, <2>11, <3>1
      <3>2. CASE s.challenge # v
        <4>1. s \in Storings(d) /\ s.challenge \in sole[d] \ spent[d]
          BY <1>2, <2>4, <2>7, <2>11, <3>2
        <4> QED
          BY <2>5, <2>9, <3>2, <4>1
      <3> QED
        BY <3>1, <3>2
    <2>12. Kept(d)'
      BY <2>10, <2>11 DEF Kept
    <2> QED
      BY <2>3, <2>12 DEF KeptInv
  <1> QED
    BY <1>3, <1>4

(* The UPDATE that clears the challenge: not one that is kept, unless it   *)
(* has been used up.                                                       *)
LEMMA KeptClear ==
    ASSUME Inv, KeptInv, NEW r \in Requests, NEW code \in Results,
           pc[r] = "clearing", ClearChallenge(r), Answer(r, code),
           UNCHANGED <<now, stored, sole>>
    PROVE  KeptInv'
  <1>1. /\ pc'[r] = "idle"
        /\ \A q \in Requests : q # r =>
              pc'[q] = pc[q] /\ device'[q] = device[q] /\ copy'[q] = copy[q]
    BY AnswerEffect DEF Inv
  <1>2. PICK d \in Devices : d = device[r] /\ copy[r].challenge = value[r]
    BY DEF Inv, InProgress
  <1>3. /\ value[r] \in spent'[d]
        /\ spent[d] \subseteq spent'[d]
        /\ \A e \in Devices : e # d => spent'[e] = spent[e] /\ row'[e] = row[e]
    BY <1>2 DEF ClearChallenge, Inv, TypeOK
  <1>4. ASSUME NEW e \in Devices, e # d PROVE Kept(e)'
    <2>1. Kept(e)
      BY DEF KeptInv
    <2> QED
      BY <1>1, <1>3, <1>4, <2>1, KeptSame
  <1>5. Storings(d)' = Storings(d) /\ Last(d)' = Last(d)
    BY DEF Storings, Last
  <1>6. ASSUME NEW s \in Storings(d), s.challenge \in sole[d] \ spent'[d]
        PROVE  s.challenge # Last(d) /\ now - s.at > CacheFor - TicksPerSecond
    <2>1. s.challenge \in sole[d] \ spent[d] /\ s.challenge # value[r]
      BY <1>3, <1>6
    <2>2. pc[r] # "idle" /\ device[r] = d
      BY <1>2
    <2> QED
      BY <1>2, <2>1, <2>2 DEF KeptInv, Kept
  <1>7. Kept(d)'
    <2>1. \A v \in sole[d] : \E s \in Storings(d) : s.challenge = v
      BY DEF KeptInv, Kept
    <2> QED
      BY <1>5, <1>6, <2>1 DEF Kept
  <1> QED
    BY <1>4, <1>7 DEF KeptInv

LEMMA KeptStep ==
    ASSUME Skew >= 0, Inv, KeptInv, PatientInv, [Next]_vars
    PROVE  KeptInv'
  <1>1. ASSUME UNCHANGED <<now, stored, sole, spent>>,
               \A d \in Devices : row'[d] = row[d] \/ row'[d] = None,
               \A d \in Devices : \A r \in Requests : pc'[r] # "idle" /\ device'[r] = d =>
                   \/ pc[r] # "idle" /\ device[r] = d /\ copy'[r] = copy[r]
                   \/ row[d] # None /\ copy'[r] = row[d]
        PROVE  KeptInv'
    <2> SUFFICES ASSUME NEW d \in Devices PROVE Kept(d)'
      BY DEF KeptInv
    <2>1. Kept(d)
      BY DEF KeptInv
    <2> QED
      BY <1>1, <2>1, KeptSame
  <1>2. ASSUME NEW r \in Requests, NEW code \in Results, Answer(r, code),
               UNCHANGED <<now, row, stored, sole, spent>>
        PROVE  KeptInv'
    <2>1. \A q \in Requests : pc'[q] # "idle" =>
              pc'[q] = pc[q] /\ device'[q] = device[q] /\ copy'[q] = copy[q]
      BY <1>2, AnswerEffect DEF Inv
    <2> QED
      BY <1>1, <1>2, <2>1
  <1>3. ASSUME NEW r \in Requests, pc[r] # "idle",
               \A q \in Requests : q # r => pc'[q] = pc[q],
               UNCHANGED <<now, row, device, copy, stored, sole, spent>>
        PROVE  KeptInv'
    <2>1. \A q \in Requests : pc'[q] # "idle" => pc[q] # "idle"
      BY <1>3
    <2> QED
      BY <1>1, <1>3, <2>1
  <1>4. ASSUME NEW r \in Requests, NEW d \in Devices, NEW phase, NEW v,
               GetDevice(r, d, phase, v)
        PROVE  KeptInv'
    <2>1. UNCHANGED <<now, row, stored, sole, spent>>
      BY <1>4 DEF GetDevice, history
    <2>2. CASE row[d] = None
      BY <1>2, <1>4, <2>1, <2>2 DEF GetDevice, Results
    <2>3. CASE row[d] # None
      <3>1. /\ device'[r] = d /\ copy'[r] = row[d]
            /\ \A q \in Requests : q # r =>
                  pc'[q] = pc[q] /\ device'[q] = device[q] /\ copy'[q] = copy[q]
        BY <1>4, <2>3 DEF GetDevice, Inv, TypeOK
      <3> QED
        BY <1>1, <2>1, <2>3, <3>1
    <2> QED
      BY <2>2, <2>3
  <1>5. ASSUME NEW r \in Requests, NEW d \in Devices, Begin(r, d) PROVE KeptInv'
    BY <1>4, <1>5 DEF Begin, Ask, Respond
  <1>6. ASSUME NEW r \in Requests, Finish(r) PROVE KeptInv'
    <2>1. CASE GiveCached(r)
      BY <1>2, <2>1 DEF GiveCached, Results
    <2>2. CASE Draw(r)
      <3>1. pc[r] # "idle" /\ \A q \in Requests : q # r => pc'[q] = pc[q]
        BY <2>2 DEF Draw, Inv, TypeOK
      <3>2. UNCHANGED <<now, row, device, copy, stored, sole, spent>>
        BY <2>2 DEF Draw, history
      <3> QED
        BY <1>3, <3>1, <3>2
    <2>3. CASE Store(r)
      BY <2>3, KeptStore DEF Store, Results
    <2>4. CASE Reject(r)
      <3>1. Fault(r) \in Results
        BY <2>4 DEF Fault, Results
      <3> QED
        BY <1>2, <2>4, <3>1 DEF Reject, history
    <2>5. CASE Accept(r)
      <3>1. pc[r] # "idle" /\ \A q \in Requests : q # r => pc'[q] = pc[q]
        BY <2>5 DEF Accept, Inv, TypeOK
      <3>2. UNCHANGED <<now, row, device, copy, stored, sole, spent>>
        BY <2>5 DEF Accept, history
      <3> QED
        BY <1>3, <3>1, <3>2
    <2>6. CASE Clear(r)
      BY <2>6, KeptClear DEF Clear, Results
    <2>7. CASE Fail(r)
      <3>1. "500" \in Results /\ Answer(r, "500") /\ now' = now
        BY <2>7 DEF Fail, Results
      <3>2. CASE UNCHANGED <<row, stored, sole, spent>>
        BY <1>2, <3>1, <3>2
      <3>3. CASE pc[r] = "storing" /\ StoreChallenge(r) /\ UNCHANGED spent
        BY <3>1, <3>3, KeptStore
      <3>4. CASE pc[r] = "clearing" /\ ClearChallenge(r) /\ UNCHANGED <<stored, sole>>
        BY <3>1, <3>4, KeptClear
      <3> QED
        BY <2>7, <3>2, <3>3, <3>4 DEF Fail
    <2> QED
      BY <1>6, <2>1, <2>2, <2>3, <2>4, <2>5, <2>6, <2>7 DEF Finish
  <1>7. ASSUME NEW d \in Devices, Wipe(d) PROVE KeptInv'
    <2>1. \A e \in Devices : row'[e] = row[e] \/ row'[e] = None
      BY <1>7 DEF Wipe, Inv, TypeOK
    <2> QED
      BY <1>1, <1>7, <2>1 DEF Wipe, request, history
  <1>8. CASE Tick
    <2> SUFFICES ASSUME NEW d \in Devices PROVE Kept(d)'
      BY DEF KeptInv
    <2>1. Kept(d)
      BY DEF KeptInv
    <2> QED
      BY <1>8, <2>1, KeptSame DEF Tick, request, history
  <1>9. CASE UNCHANGED vars
    BY <1>1, <1>9 DEF vars, request, history
  <1> QED
    BY <1>5, <1>6, <1>7, <1>8, <1>9 DEF Next

(* The correct response to a challenge of the device is only refused when  *)
(* that is a minute old, or nearly so (what parse_timestamp drops is less  *)
(* than a second), if it is in the table or, when it was stored while no   *)
(* other request of the device was in progress, if no login has used it    *)
(* up; a newer challenge takes its place only when it is too old for the   *)
(* cache.  The database's NOW() is not behind the app's clock.             *)
THEOREM AcceptsFresh ==
    ASSUME Skew >= 0
    PROVE  Spec => FreshAnswerAccepted
  <1>1. ASSUME Inv, NEW r \in Requests, Reject(r), copy[r].challenge = value[r],
               NEW s \in Storings(device[r]), s.challenge = value[r]
        PROVE  now - s.at > ValidFor - TicksPerSecond
    <2>1. device[r] \in Devices
      BY <1>1 DEF Reject, Inv, InProgress
    <2>2. copy[r].challenge # None
      <3>1. s \in Stored
        BY <1>1, <2>1, StoringsType DEF Inv
      <3> QED
        BY <1>1, <3>1, NoneAssumption, DrawsAssumption DEF Stored, Values
    <2>3. Age(copy[r]) > ValidFor
      BY <1>1, <2>2 DEF Reject, Fault
    <2>4. /\ s.at \in Int /\ now \in Int
          /\ copy[r].challenged_at = s.at + Skew
          /\ copy[r].challenged_at \in Int
      BY <1>1, <2>2, CopyAge
    <2>5. /\ Seconds(copy[r].challenged_at) \in Int
          /\ copy[r].challenged_at - Seconds(copy[r].challenged_at) <= TicksPerSecond - 1
      BY <2>4, SecondsRange
    <2> QED
      BY <2>3, <2>4, <2>5, TimesAssumption DEF Age
  <1>2. ASSUME Inv, NEW r \in Requests, Reject(r),
               row[device[r]] # None, row[device[r]].challenge = value[r],
               NEW s \in Storings(device[r]), s.challenge = value[r]
        PROVE  copy[r].challenge = value[r]
    <2>1. device[r] \in Devices /\ pc[r] = "responded"
      BY <1>2 DEF Reject, Inv, InProgress
    <2>2. s \in Stored
      BY <1>2, <2>1, StoringsType DEF Inv
    <2>3. value[r] # 0
      BY <1>2, <2>2, DrawsAssumption DEF Stored, Values
    <2> QED
      BY <1>2, <2>1, <2>3 DEF Inv, Answerable
  <1>3. ASSUME Inv, KeptInv, NEW r \in Requests, Reject(r),
               NEW s \in Storings(device[r]), s.challenge = value[r],
               value[r] \in sole[device[r]] \ spent[device[r]]
        PROVE  now - s.at > (IF value[r] = Last(device[r]) THEN ValidFor ELSE CacheFor)
                               - TicksPerSecond
    <2>1. PICK d \in Devices : d = device[r]
      BY <1>3 DEF Reject, Inv, InProgress
    <2>2. pc[r] # "idle"
      BY <1>3 DEF Reject
    <2>3. CASE value[r] = Last(d)
      <3>1. copy[r].challenge = value[r]
        BY <1>3, <2>1, <2>2, <2>3 DEF KeptInv, Kept
      <3> QED
        BY <1>1, <1>3, <2>1, <2>3, <3>1
    <2>4. CASE value[r] # Last(d)
      BY <1>3, <2>1, <2>4 DEF KeptInv, Kept
    <2> QED
      BY <2>1, <2>3, <2>4
  <1>4. Init => KeptInv /\ PatientInv
    <2>1. DOMAIN <<>> = {}
      OBVIOUS
    <2> QED
      BY <2>1 DEF Init, KeptInv, Kept, PatientInv, Patient, Storings
  <1>5. Inv /\ KeptInv /\ PatientInv /\ [Next]_vars => KeptInv' /\ PatientInv'
    BY KeptStep, PatientStep
  <1>6. Inv /\ KeptInv /\ [Next]_vars =>
          [\A r \in Requests : Reject(r) =>
              LET d == device[r]
                  v == value[r]
                  last == stored[d][Len(stored[d])]
              IN  \A s \in Storings(d) : s.challenge = v =>
                     /\ row[d] # None /\ row[d].challenge = v
                          => now - s.at > ValidFor - TicksPerSecond
                     /\ v \in sole[d] \ spent[d]
                          => now - s.at > (IF v = last.challenge THEN ValidFor ELSE CacheFor)
                                             - TicksPerSecond]_vars
    BY <1>1, <1>2, <1>3 DEF Last
  <1> QED
    BY <1>4, <1>5, <1>6, Invariance, PTL DEF Spec, FreshAnswerAccepted
-----------------------------------------------------------------------------
(* The last challenge a device was given was young when it was given. *)
GivenYoung ==
    \A d \in Devices : latest[d].challenge # None =>
        /\ latest[d].challenge \in known[d]
        /\ \A s \in Storings(d) : s.challenge = latest[d].challenge =>
              latest[d].at - Seconds(s.at + Skew) < CacheFor

LEMMA GivenYoungStep ==
    ASSUME Skew >= 0, Inv, GivenYoung, [Next]_vars
    PROVE  GivenYoung'
  <1>1. ASSUME UNCHANGED <<known, latest, stored>> PROVE GivenYoung'
    BY <1>1, StoringsSame DEF GivenYoung
  <1>2. ASSUME NEW r \in Requests, GiveCached(r) PROVE GivenYoung'
    <2>1. PICK d, v : d \in Devices /\ d = device[r] /\ v = copy[r].challenge
      BY <1>2 DEF Inv, InProgress, GiveCached
    <2>2. /\ known'[d] = known[d] \cup {v}
          /\ latest'[d].challenge = v /\ latest'[d].at = now
          /\ \A e \in Devices : e # d => known'[e] = known[e] /\ latest'[e] = latest[e]
      BY <1>2, <2>1 DEF GiveCached, Give, Inv, TypeOK
    <2>3. \A e \in Devices : Storings(e)' = Storings(e)
      BY <1>2, StoringsSame DEF GiveCached
    <2>4. ASSUME NEW s \in Storings(d), s.challenge = v
          PROVE  now - Seconds(s.at + Skew) < CacheFor
      <3>1. copy[r].challenge # None /\ Age(copy[r]) < CacheFor
        BY <1>2 DEF GiveCached, Cacheable
      <3>2. copy[r].challenged_at = s.at + Skew
        BY <2>1, <2>4, <3>1, CopyAge
      <3> QED
        BY <3>1, <3>2 DEF Age
    <2> QED
      BY <2>2, <2>3, <2>4 DEF GivenYoung
  <1>3. ASSUME NEW r \in Requests, pc[r] = "storing", StoreChallenge(r),
               \/ Give(device[r], value[r])
               \/ UNCHANGED <<known, latest>>,
               now' = now
        PROVE  GivenYoung'
    <2>1. PICK d \in Devices, v \in Values, new \in Stored :
              /\ d = device[r] /\ v = value[r] /\ v # None
              /\ Unused(v)
              /\ new = [challenge |-> v, at |-> now]
              /\ new.challenge = v /\ new.at = now
      <3>1. device[r] \in Devices /\ value[r] \in 1 .. drawn /\ Unused(value[r])
        BY <1>3 DEF Inv, InProgress, DrawnOnce, Storing
      <3>2. value[r] \in Values /\ value[r] # None
        BY <3>1, NoneAssumption, DrawsAssumption DEF Inv, TypeOK, Values
      <3>3. [challenge |-> value[r], at |-> now] \in Stored
        BY <3>2 DEF Inv, TypeOK, Stored
      <3> QED
        BY <3>1, <3>2, <3>3
    <2>2. \A e \in Devices :
              Storings(e)' = Storings(e) \/ (e = d /\ Storings(e)' = Storings(e) \cup {new})
      <3>1. CASE row[d] = None
        BY <1>3, <2>1, <3>1, StoringsSame DEF StoreChallenge
      <3>2. CASE row[d] # None
        <4>1. stored' = [stored EXCEPT ![d] = Append(@, new)]
          BY <1>3, <2>1, <3>2 DEF StoreChallenge
        <4> QED
          BY <2>1, <4>1, StoringsAppend DEF Inv
      <3> QED
        BY <3>1, <3>2
    <2>3. CASE Give(device[r], value[r])
      <3>1. /\ known'[d] = known[d] \cup {v}
            /\ latest'[d].challenge = v /\ latest'[d].at = now
            /\ \A e \in Devices : e # d => known'[e] = known[e] /\ latest'[e] = latest[e]
        BY <2>1, <2>3 DEF Give, Inv, TypeOK
      <3>2. now - Seconds(now + Skew) < CacheFor
        <4>1. now \in Int /\ Skew \in Int
          BY TimesAssumption DEF Inv, TypeOK, Times
        <4>2. /\ Seconds(now + Skew) \in Int
              /\ (now + Skew) - Seconds(now + Skew) <= TicksPerSecond - 1
          BY <4>1, SecondsRange
        <4> QED
          BY <4>1, <4>2, TimesAssumption
      <3>3. \A s \in Storings(d)' : s.challenge = v => s.at = now
        BY <2>1, <2>2 DEF Unused
      <3>4. \A e \in Devices : e # d => Storings(e)' = Storings(e)
        BY <2>2
      <3> QED
        BY <3>1, <3>2, <3>3, <3>4 DEF GivenYoung
    <2>4. CASE UNCHANGED <<known, latest>>
      <3>1. \A e \in Devices : latest[e].challenge # None => latest[e].challenge # v
        BY <2>1 DEF GivenYoung, Unused
      <3> QED
        BY <2>1, <2>2, <2>4, <3>1 DEF GivenYoung
    <2> QED
      BY <1>3, <2>3, <2>4
  <1>4. ASSUME NEW r \in Requests, Finish(r) PROVE GivenYoung'
    <2>1. CASE Draw(r) \/ Reject(r) \/ Accept(r) \/ Clear(r)
      BY <1>1, <2>1 DEF Draw, Reject, Accept, Clear, history
    <2>2. CASE Store(r)
      BY <1>3, <2>2 DEF Store
    <2>3. CASE Fail(r)
      BY <1>1, <1>3, <2>3 DEF Fail
    <2> QED
      BY <1>2, <1>4, <2>1, <2>2, <2>3 DEF Finish
  <1>5. ASSUME NEW r \in Requests, NEW d \in Devices, Begin(r, d) PROVE GivenYoung'
    BY <1>1, <1>5 DEF Begin, Ask, Respond, GetDevice, history
  <1> QED
    BY <1>1, <1>4, <1>5 DEF Next, Tick, Wipe, vars, history

(* Only the request itself ends with 422. *)
LEMMA OnlyReject ==
    ASSUME Inv, Next, NEW r \in Requests, pc[r] = "responded", result'[r] = "422"
    PROVE  Reject(r) /\ Fault(r) = "422"
  <1>1. result[r] = "none"
    BY DEF Inv, InProgress
  <1>2. ASSUME NEW q \in Requests, NEW code, Answer(q, code)
        PROVE  q = r /\ code = "422"
    BY <1>1, <1>2 DEF Answer, Inv, TypeOK
  <1>3. ASSUME NEW q \in Requests, NEW d \in Devices, NEW phase, NEW v, GetDevice(q, d, phase, v)
        PROVE  FALSE
    <2>1. pc[q] = "idle"
      BY <1>3 DEF GetDevice
    <2>2. q # r
      BY <2>1
    <2>3. result'[r] = result[r]
      BY <1>3, <2>2 DEF GetDevice, Answer, Inv, TypeOK
    <2> QED
      BY <1>1, <2>3
  <1>4. ASSUME NEW q \in Requests, NEW d \in Devices, Begin(q, d) PROVE FALSE
    BY <1>3, <1>4 DEF Begin, Ask, Respond
  <1>5. ASSUME NEW q \in Requests, Finish(q) PROVE Reject(r) /\ Fault(r) = "422"
    BY <1>1, <1>2, <1>5
    DEF Finish, GiveCached, Draw, Store, Reject, Accept, Clear, Fail
  <1> QED
    BY <1>1, <1>4, <1>5 DEF Next, Tick, Wipe, request

(* The ten seconds between the two limits are the client's. *)
THEOREM ExpiresLate ==
    ASSUME Skew >= 0
    PROVE  Spec => NoPrematureExpiry
  <1>1. ASSUME Inv, GivenYoung, Next, NEW r \in Requests,
               pc[r] = "responded", result'[r] = "422",
               value[r] = latest[device[r]].challenge
        PROVE  now - latest[device[r]].at > ValidFor - CacheFor
    <2> DEFINE given == latest[device[r]]
    <2>1. /\ device[r] \in Devices
          /\ given.challenge \in Values \cup {None} /\ given.at \in Int /\ now \in Int
      BY <1>1, TimesAssumption DEF Inv, InProgress, TypeOK, Times
    <2>2. value[r] \in Values /\ value[r] # 0 /\ value[r] # None
      <3>1. value[r] \in known[device[r]] \cup {0} /\ known[device[r]] \in SUBSET Values
        BY <1>1, <2>1 DEF Inv, InProgress, TypeOK
      <3> QED
        BY <1>1, <2>1, <3>1, NoneAssumption, DrawsAssumption DEF Values
    <2>3. copy[r].challenge # None /\ Age(copy[r]) > ValidFor
      <3>1. Fault(r) = "422"
        BY <1>1, OnlyReject
      <3> QED
        BY <3>1 DEF Fault
    <2>4. PICK s \in Storings(device[r]) :
              s.challenge = value[r] /\ s.at + Skew <= copy[r].challenged_at
      BY <1>1, <2>2, <2>3 DEF Inv, Answerable
    <2>5. given.at - Seconds(s.at + Skew) < CacheFor
      BY <1>1, <2>1, <2>2, <2>4 DEF GivenYoung
    <2>6. copy[r].challenged_at \in Int /\ s.at + Skew \in Int
      <3>1. copy[r] \in [challenge : Values, challenged_at : {t + Skew : t \in Times}]
        BY <1>1, <2>3 DEF Inv, TypeOK, Rows, Blank
      <3>2. s.at \in Int
        BY <1>1, <2>1, StoringsType, TimesAssumption DEF Inv, Stored, Times
      <3> QED
        BY <3>1, <3>2, TimesAssumption DEF Times
    <2>7. /\ Seconds(s.at + Skew) <= Seconds(copy[r].challenged_at)
          /\ Seconds(s.at + Skew) \in Int /\ Seconds(copy[r].challenged_at) \in Int
      BY <2>4, <2>6, SecondsRange
    <2> QED
      BY <2>1, <2>3, <2>5, <2>7, TimesAssumption DEF Age
  <1>2. Init => GivenYoung
    BY DEF Init, GivenYoung
  <1>3. Inv /\ GivenYoung /\ [Next]_vars => GivenYoung'
    BY GivenYoungStep
  <1>4. Inv /\ GivenYoung /\ [Next]_vars =>
          [\A r \in Requests :
              (pc[r] = "responded" /\ result'[r] = "422")
                => LET given == latest[device[r]]
                   IN  value[r] = given.challenge
                         => now - given.at > ValidFor - CacheFor]_vars
    BY <1>1
  <1> QED
    BY <1>2, <1>3, <1>4, Invariance, PTL DEF Spec, NoPrematureExpiry
=============================================================================
