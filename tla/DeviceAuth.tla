----------------------------- MODULE DeviceAuth -----------------------------
(***************************************************************************)
(* The Ed25519 challenge-response login (src/app/services/auth.cpp) over   *)
(* the devices table (src/app/repos/auth.cpp).                             *)
(*                                                                         *)
(* Each handler reads the device on one connection, decides with a copy of *)
(* the row and the app's clock, and writes on another connection, with no  *)
(* transaction around the three: they are three steps.  Time is counted in *)
(* ticks of TicksPerSecond: challenged_at has a fraction that              *)
(* parse_timestamp drops.                                                  *)
(***************************************************************************)
EXTENDS Integers, Sequences, FiniteSets, TLC

CONSTANTS Devices,
          Requests,        \* requests in progress, one per worker thread
          Draws,           \* bound on the challenges drawn
          CacheFor,        \* 50 seconds, in ticks
          ValidFor,        \* 60 seconds, in ticks
          TicksPerSecond,
          Skew,            \* how far the database's NOW(), in its session's
                           \* time zone, is ahead of the app's UTC clock
          MaxTime,         \* bound on the clock
          None

ASSUME RequestsAssumption == IsFiniteSet(Requests)
ASSUME DrawsAssumption == Draws \in Nat
ASSUME TimesAssumption ==
    /\ CacheFor \in Nat
    /\ ValidFor \in Nat
    /\ CacheFor <= ValidFor
    /\ TicksPerSecond \in Nat \ {0}
    /\ TicksPerSecond <= CacheFor
    /\ Skew \in Int
    /\ MaxTime \in Nat
ASSUME NoneAssumption == None \notin Int

(* The challenges, in the order in which they are drawn. *)
Values == 1 .. Draws

Times == 0 .. MaxTime

(* A device's challenge and challenged_at. *)
Blank == [challenge |-> None, challenged_at |-> None]
Rows  == {Blank} \cup [challenge : Values, challenged_at : {t + Skew : t \in Times}]

VARIABLES now,     \* the app's clock
          drawn,   \* the challenges drawn so far: 1 .. drawn
          row,     \* the table: None for a device that was removed
          pc,      \* where each request is
          device,  \* the device each request is about
          copy,    \* the row it has read
          value,   \* the challenge it has drawn, or that it has a signature of
          result,  \* its last answer
          known,   \* history: the challenges each device was given
          latest,  \* history: the last of them, and when it was given
          stored,  \* history: the challenges stored for each device, and when
                   \* (app clock)
          sole,    \* history: those stored while no other request of the
                   \* device was in progress
          spent,   \* history: the challenges each device's logins have used up
          tokens   \* history: how many tokens were given for each challenge

request == <<pc, device, copy, value>>
history == <<known, latest, stored, sole, spent, tokens>>
vars == <<now, drawn, row, request, result, history>>

Phases  == {"idle", "asked", "storing", "responded", "clearing"}
Results == {"none", "challenge", "token", "401", "404", "422", "500"}

Init ==
    /\ now = 0
    /\ drawn = 0
    /\ row = [d \in Devices |-> Blank]
    /\ pc = [r \in Requests |-> "idle"]
    /\ device = [r \in Requests |-> None]
    /\ copy = [r \in Requests |-> Blank]
    /\ value = [r \in Requests |-> None]
    /\ result = [r \in Requests |-> "none"]
    /\ known = [d \in Devices |-> {}]
    /\ latest = [d \in Devices |-> [challenge |-> None, at |-> 0]]
    /\ stored = [d \in Devices |-> <<>>]
    /\ sole = [d \in Devices |-> {}]
    /\ spent = [d \in Devices |-> {}]
    /\ tokens = [v \in Values |-> 0]
-----------------------------------------------------------------------------
(* parse_timestamp: whole seconds. *)
Seconds(t) == t - (t % TicksPerSecond)

(* now() - challenged_at, for a row with a challenge. *)
Age(c) == now - Seconds(c.challenged_at)

(* Cacheable that lets a challenge be cached until it expires. *)
Cacheable_UntilExpiry(c) == c.challenge # None /\ Age(c) <= ValidFor

Cacheable(c) == c.challenge # None /\ Age(c) < CacheFor

(* Fault without the expiry. *)
Fault_NoExpiry(r) ==
    IF copy[r].challenge = None THEN "500"
    ELSE IF copy[r].challenge # value[r] THEN "401"
    ELSE "none"

(* What verify_device_response finds wrong with its copy of the row; the   *)
(* signature is correct for the challenge value[r] (0: for none).          *)
Fault(r) ==
    IF copy[r].challenge = None THEN "500"
    ELSE IF Age(copy[r]) > ValidFor THEN "422"
    ELSE IF copy[r].challenge # value[r] THEN "401"
    ELSE "none"

(* Request r ends, and its local variables with it. *)
Answer(r, code) ==
    /\ pc' = [pc EXCEPT ![r] = "idle"]
    /\ device' = [device EXCEPT ![r] = None]
    /\ copy' = [copy EXCEPT ![r] = Blank]
    /\ value' = [value EXCEPT ![r] = None]
    /\ result' = [result EXCEPT ![r] = code]

(* get_device: the request goes on with a copy of the row, or ends. *)
GetDevice(r, d, phase, v) ==
    /\ pc[r] = "idle"
    /\ \/ /\ row[d] # None
          /\ pc' = [pc EXCEPT ![r] = phase]
          /\ device' = [device EXCEPT ![r] = d]
          /\ copy' = [copy EXCEPT ![r] = row[d]]
          /\ value' = [value EXCEPT ![r] = v]
          /\ result' = [result EXCEPT ![r] = "none"]
       \/ row[d] = None /\ Answer(r, "404")
    /\ UNCHANGED <<now, drawn, row, history>>

(* The device is given challenge v. *)
Give(d, v) ==
    /\ known' = [known EXCEPT ![d] = @ \cup {v}]
    /\ latest' = [latest EXCEPT ![d] = [challenge |-> v, at |-> now]]
-----------------------------------------------------------------------------
(* POST /auth/devices/challenge; the guard bounds the challenges drawn. *)
Ask(r, d) ==
    /\ drawn + Cardinality({q \in Requests : pc[q] = "asked"}) < Draws
    /\ GetDevice(r, d, "asked", None)

(* The stored challenge is young enough to be given again. *)
GiveCached(r) ==
    /\ pc[r] = "asked"
    /\ Cacheable(copy[r])
    /\ Give(device[r], copy[r].challenge)
    /\ Answer(r, "challenge")
    /\ UNCHANGED <<now, drawn, row, stored, sole, spent, tokens>>

Draw(r) ==
    /\ pc[r] = "asked"
    /\ ~Cacheable(copy[r])
    /\ drawn' = drawn + 1
    /\ value' = [value EXCEPT ![r] = drawn + 1]
    /\ pc' = [pc EXCEPT ![r] = "storing"]
    /\ UNCHANGED <<now, row, device, copy, result, history>>

(* Request r is the only one in progress about its device. *)
Alone(r) ==
    \A q \in Requests \ {r} : pc[q] = "idle" \/ device[q] # device[r]

(* UPDATE devices SET challenge = $1, challenged_at = NOW(): no row, no effect. *)
StoreChallenge(r) ==
    IF row[device[r]] = None
    THEN UNCHANGED <<row, stored, sole>>
    ELSE /\ row' = [row EXCEPT ![device[r]] =
                       [challenge |-> value[r], challenged_at |-> now + Skew]]
         /\ stored' = [stored EXCEPT ![device[r]] =
                          Append(@, [challenge |-> value[r], at |-> now])]
         /\ sole' = IF Alone(r)
                    THEN [sole EXCEPT ![device[r]] = @ \cup {value[r]}]
                    ELSE sole

Store(r) ==
    /\ pc[r] = "storing"
    /\ StoreChallenge(r)
    /\ Give(device[r], value[r])
    /\ Answer(r, "challenge")
    /\ UNCHANGED <<now, drawn, spent, tokens>>
-----------------------------------------------------------------------------
(* POST /auth/devices/response, with a signature of challenge v or a bad one. *)
Respond(r, d) ==
    \E v \in known[d] \cup {0} : GetDevice(r, d, "responded", v)

(* Reject that takes the challenge away from a client that failed. *)
Reject_Clears(r) ==
    /\ pc[r] = "responded"
    /\ Fault(r) # "none"
    /\ row' = [row EXCEPT ![device[r]] = IF @ = None THEN None ELSE Blank]
    /\ Answer(r, Fault(r))
    /\ UNCHANGED <<now, drawn, history>>

Reject(r) ==
    /\ pc[r] = "responded"
    /\ Fault(r) # "none"
    /\ Answer(r, Fault(r))
    /\ UNCHANGED <<now, drawn, row, history>>

Accept(r) ==
    /\ pc[r] = "responded"
    /\ Fault(r) = "none"
    /\ pc' = [pc EXCEPT ![r] = "clearing"]
    /\ UNCHANGED <<now, drawn, row, device, copy, value, result, history>>

(* ClearChallenge that leaves the table alone. *)
ClearChallenge_Not(r) ==
    /\ UNCHANGED row
    /\ spent' = [spent EXCEPT ![device[r]] = @ \cup {value[r]}]

(* UPDATE devices SET challenge = NULL, challenged_at = NULL, whichever    *)
(* challenge the row holds by now.                                         *)
ClearChallenge(r) ==
    /\ row' = [row EXCEPT ![device[r]] = IF @ = None THEN None ELSE Blank]
    /\ spent' = [spent EXCEPT ![device[r]] = @ \cup {value[r]}]

(* The token is issued. *)
Clear(r) ==
    /\ pc[r] = "clearing"
    /\ ClearChallenge(r)
    /\ Answer(r, "token")
    /\ tokens' = [tokens EXCEPT ![value[r]] = @ + 1]
    /\ UNCHANGED <<now, drawn, known, latest, stored, sole>>
-----------------------------------------------------------------------------
(* A statement throws: no connection, or one that breaks before or after   *)
(* the database has committed it.                                          *)
Fail(r) ==
    /\ pc[r] \in {"storing", "clearing"}
    /\ \/ UNCHANGED <<row, stored, sole, spent>>
       \/ pc[r] = "storing" /\ StoreChallenge(r) /\ UNCHANGED spent
       \/ pc[r] = "clearing" /\ ClearChallenge(r) /\ UNCHANGED <<stored, sole>>
    /\ Answer(r, "500")
    /\ UNCHANGED <<now, drawn, known, latest, tokens>>

(* DELETE /auth/me with a token of the device's user: its second           *)
(* transaction, AuthRepo::remove_all_for_user.                             *)
Wipe(d) ==
    /\ spent[d] # {}
    /\ row' = [row EXCEPT ![d] = None]
    /\ UNCHANGED <<now, drawn, request, result, history>>

Tick ==
    /\ now < MaxTime
    /\ now' = now + 1
    /\ UNCHANGED <<drawn, row, request, result, history>>

Begin(r, d) == Ask(r, d) \/ Respond(r, d)

Finish(r) ==
    \/ GiveCached(r) \/ Draw(r) \/ Store(r)
    \/ Reject(r) \/ Accept(r) \/ Clear(r)
    \/ Fail(r)

Next ==
    \/ Tick
    \/ \E r \in Requests : (\E d \in Devices : Begin(r, d)) \/ Finish(r)
    \/ \E d \in Devices : Wipe(d)

Spec == Init /\ [][Next]_vars
-----------------------------------------------------------------------------
(* Type invariant: challenge and challenged_at are NULL together, which is *)
(* what the handlers' value() calls rely on.                               *)
TypeOK ==
    /\ now \in Times
    /\ drawn \in 0 .. Draws
    /\ row \in [Devices -> Rows \cup {None}]
    /\ pc \in [Requests -> Phases]
    /\ device \in [Requests -> Devices \cup {None}]
    /\ copy \in [Requests -> Rows]
    /\ value \in [Requests -> Values \cup {None, 0}]
    /\ result \in [Requests -> Results]
    /\ known \in [Devices -> SUBSET Values]
    /\ latest \in [Devices -> [challenge : Values \cup {None}, at : Times]]
    /\ stored \in [Devices -> Seq([challenge : Values, at : Times])]
    /\ sole \in [Devices -> SUBSET Values]
    /\ spent \in [Devices -> SUBSET Values]
    /\ tokens \in [Values -> Nat]

(* Each time a challenge was stored for device d. *)
Storings(d) == {stored[d][i] : i \in DOMAIN stored[d]}

(* A challenge that a login has used up never comes back: not from a       *)
(* handler that read the row before the login, and not from the cache.     *)
SpentIsGone ==
    \A d \in Devices : row[d] # None => row[d].challenge \notin spent[d]

(* The columns have their types (both set or neither) and a used challenge *)
(* stays out of them, whatever failed between the statements.              *)
Consistent == TypeOK /\ SpentIsGone

(* A signature can be sent again, or twice at once: a challenge is good    *)
(* for as many tokens as responses to it overlap, one per worker thread,   *)
(* and for none once they have ended.                                      *)
FewLogins ==
    \A v \in Values :
        tokens[v] + Cardinality({r \in Requests : pc[r] = "clearing" /\ value[r] = v})
            <= Cardinality(Requests)

(* "Challenges expire after 60 s": a token is only given for a challenge   *)
(* whose signature was accepted at most ValidFor after it was stored.      *)
AcceptedInTime ==
    [][\A r \in Requests : Accept(r) =>
          \A s \in Storings(device[r]) :
              s.challenge = value[r] => now - s.at <= ValidFor]_vars

(* The ten seconds between the two limits are the client's: a response to  *)
(* the challenge last given to the device is not answered 422 before they  *)
(* have passed, even if that challenge came from the cache and other       *)
(* requests of the device overlap.                                         *)
NoPrematureExpiry ==
    [][\A r \in Requests :
          (pc[r] = "responded" /\ result'[r] = "422")
            => LET given == latest[device[r]]
               IN  value[r] = given.challenge
                     => now - given.at > ValidFor - CacheFor]_vars

(* "Challenges expire after 60 s", and not before.  The correct response   *)
(* to the challenge in the table is not refused while that is young, even  *)
(* if it came there after other requests of the device had started.  And a *)
(* challenge that was stored while no other request of the device was in   *)
(* progress stays in the table for its life, but for its own login and,    *)
(* once it is too old for the cache, for a newer one: only requests that   *)
(* overlap its storing may overwrite it, or clear it with an older one.    *)
FreshAnswerAccepted ==
    [][\A r \in Requests : Reject(r) =>
          LET d == device[r]
              v == value[r]
              last == stored[d][Len(stored[d])]
          IN  \A s \in Storings(d) : s.challenge = v =>
                 /\ row[d] # None /\ row[d].challenge = v
                      => now - s.at > ValidFor - TicksPerSecond
                 /\ v \in sole[d] \ spent[d]
                      => now - s.at > (IF v = last.challenge THEN ValidFor ELSE CacheFor)
                                         - TicksPerSecond]_vars
=============================================================================
