------------------------------ MODULE UserData ------------------------------
(***************************************************************************)
(* The users, devices and constituents tables and the requests that change *)
(* or page through them: AuthRepo and ConstituentsRepo with the services   *)
(* and controllers above them (src/app/repos, services, controllers).      *)
(*                                                                         *)
(* A repo method is one statement, or one transaction, at PostgreSQL's     *)
(* read committed level.  Where other requests can come in between, it is  *)
(* more than one step: registration reads before it writes, an INSERT has  *)
(* its id before it is visible, DELETE /auth/me is two transactions, and a *)
(* list is two statements.  Requests that end in an error without having   *)
(* changed a table (400, 404) are stuttering steps and are left out.       *)
(***************************************************************************)
EXTENDS Integers, FiniteSets, SequencesExt

CONSTANTS Requests,  \* requests in progress, one per worker thread
          Keys,      \* public keys of devices
          Fields,    \* what an edit may change: value, meaning, examples
          Versions,  \* 0 .. Versions: the contents a field may have
          PageSize,  \* 100
          MaxUser,   \* bound on the sequence of users.id
          MaxId,     \* bound on the sequence of constituents.id
          None

ASSUME FieldsAssumption == IsFiniteSet(Fields)
ASSUME RequestsAssumption == IsFiniteSet(Requests)
ASSUME BoundsAssumption ==
    /\ Versions \in Nat
    /\ PageSize \in Nat \ {0}
    /\ MaxUser \in Nat
    /\ MaxId \in Nat

Users == 1 .. MaxUser
Ids   == 1 .. MaxId

Texts == [Fields -> 0 .. Versions]
Rows  == [user : Users, text : Texts]

Devices == [user : Users, key : Keys]

(* An EditConstituentDto: some of the fields, at least one. *)
Edits == UNION {[some -> 0 .. Versions] : some \in SUBSET Fields \ {{}}}

Jobs ==
    [op : {"register"}, key : Keys]
        \cup [op : {"add"}, user : Users, id : Ids]
        \cup [op : {"wipe"}, user : Users]

ASSUME NoneAssumption == None \notin Rows /\ None \notin Jobs /\ None \notin Int

VARIABLES users,     \* users.id
          devices,   \* the table devices
          rows,      \* the table constituents: a row or None for each id
          lastUser,  \* users.id's sequence
          lastId,    \* constituents.id's sequence
          job,       \* the requests between two of their steps
          walk,      \* a client that lists its constituents page by page
          by,        \* history: whose request changed rows in the last step,
             \* and the fields it named
          wiped      \* history: the users whose DELETE /auth/me was answered 204

tables == <<users, devices, rows>>
vars == <<tables, lastUser, lastId, job, walk, by, wiped>>

(***************************************************************************)
(* idle: between two pages; listing: between the two statements of a page, *)
(* with after_id; ended: the last page was not full; broken: answered 400. *)
(***************************************************************************)
Phases == {"idle", "listing", "ended", "broken"}

Walks ==
    [user : Users, phase : Phases, cursor : Ids \cup {None},
     after : 1 .. MaxId + 1, seen : Seq(Ids), start : SUBSET Ids]

ASSUME NoWalkAssumption == None \notin Walks

(* The ids of user u's constituents. *)
Own(u) == {id \in Ids : rows[id] # None /\ rows[id].user = u}

(* A JWT outlives its user: any user that ever was may send requests. *)
Callers == 1 .. lastUser

Nobody == [user |-> None, fields |-> {}]

Init ==
    /\ users = {}
    /\ devices = {}
    /\ rows = [id \in Ids |-> None]
    /\ lastUser = 0
    /\ lastId = 0
    /\ job = [r \in Requests |-> None]
    /\ walk = None
    /\ by = Nobody
    /\ wiped = {}

By(u, fields) == by' = [user |-> u, fields |-> fields]

(* No step to be put down to a user. *)
Quiet == by' = Nobody

Goes(r, j) == job[r] = None /\ job' = [job EXCEPT ![r] = j]

Ends(r) == job' = [job EXCEPT ![r] = None]
-----------------------------------------------------------------------------
(* CheckKey that does not look. *)
CheckKey_Not(r, k) ==
    /\ lastUser + Cardinality({q \in Requests : job[q] # None /\ job[q].op = "register"})
         < MaxUser
    /\ Goes(r, [op |-> "register", key |-> k])
    /\ Quiet
    /\ UNCHANGED <<tables, lastUser, lastId, walk, wiped>>

(* POST /auth/devices/register: no device with the key is visible. *)
CheckKey(r, k) ==
    /\ lastUser + Cardinality({q \in Requests : job[q] # None /\ job[q].op = "register"})
         < MaxUser
    /\ \A d \in devices : d.key # k
    /\ Goes(r, [op |-> "register", key |-> k])
    /\ Quiet
    /\ UNCHANGED <<tables, lastUser, lastId, walk, wiped>>

(* The rest of its transaction: a user with this device. *)
Register(r) ==
    /\ job[r] # None /\ job[r].op = "register"
    /\ lastUser' = lastUser + 1
    /\ users' = users \cup {lastUser + 1}
    /\ devices' = devices \cup {[user |-> lastUser + 1, key |-> job[r].key]}
    /\ Ends(r)
    /\ Quiet
    /\ UNCHANGED <<rows, lastId, walk, wiped>>
-----------------------------------------------------------------------------
(* POST /constituents: the new row has its id and is not visible yet. *)
Add(r, u) ==
    /\ lastId < MaxId
    /\ Goes(r, [op |-> "add", user |-> u, id |-> lastId + 1])
    /\ lastId' = lastId + 1
    /\ Quiet
    /\ UNCHANGED <<tables, lastUser, walk, wiped>>

(* Insert without REFERENCES users(id). *)
Insert_NoReference(r) ==
    /\ job[r] # None /\ job[r].op = "add"
    /\ rows' = [rows EXCEPT ![job[r].id] =
                   [user |-> job[r].user, text |-> [f \in Fields |-> 0]]]
    /\ Ends(r)
    /\ Quiet
    /\ UNCHANGED <<users, devices, lastUser, lastId, walk, wiped>>

(* The row becomes visible, if its user still exists. *)
Insert(r) ==
    /\ job[r] # None /\ job[r].op = "add"
    /\ job[r].user \in users
    /\ rows' = [rows EXCEPT ![job[r].id] =
                   [user |-> job[r].user, text |-> [f \in Fields |-> 0]]]
    /\ Ends(r)
    /\ Quiet
    /\ UNCHANGED <<users, devices, lastUser, lastId, walk, wiped>>

(* Edit that writes each field, with 0 for one the request does not have. *)
Edit_AllFields(u, id, dto) ==
    /\ id \in Own(u)
    /\ rows' = [rows EXCEPT ![id].text =
                   [f \in Fields |-> IF f \in DOMAIN dto THEN dto[f] ELSE 0]]
    /\ By(u, DOMAIN dto)
    /\ UNCHANGED <<users, devices, lastUser, lastId, job, walk, wiped>>

(* PATCH /constituents/:public_id: one UPDATE of the fields in the request. *)
Edit(u, id, dto) ==
    /\ id \in Own(u)
    /\ rows' = [rows EXCEPT ![id].text =
                   [f \in Fields |-> IF f \in DOMAIN dto THEN dto[f] ELSE @[f]]]
    /\ By(u, DOMAIN dto)
    /\ UNCHANGED <<users, devices, lastUser, lastId, job, walk, wiped>>

(* DELETE /constituents/:public_id *)
Delete(u, id) ==
    /\ id \in Own(u)
    /\ rows' = [rows EXCEPT ![id] = None]
    /\ By(u, Fields)
    /\ UNCHANGED <<users, devices, lastUser, lastId, job, walk, wiped>>
-----------------------------------------------------------------------------
(* DELETE /auth/me, first transaction: ConstituentsRepo::remove_all_for_user. *)
WipeConstituents(r, u) ==
    /\ Goes(r, [op |-> "wipe", user |-> u])
    /\ rows' = [id \in Ids |-> IF id \in Own(u) THEN None ELSE rows[id]]
    /\ By(u, Fields)
    /\ UNCHANGED <<users, devices, lastUser, lastId, walk, wiped>>

(* WipeAccount that forgets the user. *)
WipeAccount_DevicesOnly(r) ==
    /\ job[r] # None /\ job[r].op = "wipe"
    /\ LET u == job[r].user
       IN  /\ Own(u) = {}
           /\ devices' = {d \in devices : d.user # u}
           /\ wiped' \in {wiped, wiped \cup {u}}
           /\ Quiet
    /\ Ends(r)
    /\ UNCHANGED <<users, rows, lastUser, lastId, walk>>

(* Second transaction: AuthRepo::remove_all_for_user.  The DELETE of the   *)
(* user passes only when no constituent refers to it.  It is answered 204, *)
(* or 500 when the answer to the commit is lost.                           *)
WipeAccount(r) ==
    /\ job[r] # None /\ job[r].op = "wipe"
    /\ LET u == job[r].user
       IN  /\ Own(u) = {}
           /\ devices' = {d \in devices : d.user # u}
           /\ users' = users \ {u}
           /\ wiped' \in {wiped, wiped \cup {u}}
           /\ Quiet
    /\ Ends(r)
    /\ UNCHANGED <<rows, lastUser, lastId, walk>>

(* A request ends with 500 and what it had begun is rolled back: a foreign *)
(* key is violated, no connection is to be had, or it breaks.  An id that  *)
(* was taken is not given back; the first transaction of a wipe stays.     *)
Fail(r) ==
    /\ job[r] # None
    /\ Ends(r)
    /\ Quiet
    /\ UNCHANGED <<tables, lastUser, lastId, walk, wiped>>
-----------------------------------------------------------------------------
(* A client starts to list its constituents, from the newest: the code     *)
(* asks for ids below the largest int, which no row is assumed to have.    *)
StartWalk(u) ==
    /\ walk = None
    /\ walk' = [user |-> u, phase |-> "listing", cursor |-> None,
                after |-> MaxId + 1, seen |-> <<>>, start |-> Own(u)]
    /\ Quiet
    /\ UNCHANGED <<tables, lastUser, lastId, job, wiped>>

(* GET /constituents?after=cursor, first statement: the cursor's id. *)
FindCursor ==
    /\ walk # None /\ walk.phase = "idle"
    /\ walk' = IF walk.cursor \in Own(walk.user)
               THEN [walk EXCEPT !.phase = "listing", !.after = walk.cursor]
               ELSE [walk EXCEPT !.phase = "broken"]
    /\ Quiet
    /\ UNCHANGED <<tables, lastUser, lastId, job, wiped>>

(* ORDER BY id without DESC. *)
Page_Oldest(u, after) ==
    LET below == {id \in Own(u) : id < after}
    IN  {id \in below : Cardinality({j \in below : j <= id}) <= PageSize}

(* WHERE user_id = $1 AND id < $2 ORDER BY id DESC LIMIT 100 *)
Page(u, after) ==
    LET below == {id \in Own(u) : id < after}
    IN  {id \in below : Cardinality({j \in below : j >= id}) <= PageSize}

(* The ways to put a set of rows in descending order: there is one. *)
Descending(S) ==
    {s \in [1 .. Cardinality(S) -> S] :
        /\ ToSet(s) = S
        /\ \A i, j \in DOMAIN s : i < j => s[i] > s[j]}

(* Second statement.  The client takes the page's last row as its cursor, *)
(* and a page that is not full as the last one.                           *)
ListPage ==
    /\ walk # None /\ walk.phase = "listing"
    /\ \E page \in Descending(Page(walk.user, walk.after)) :
          walk' = IF Len(page) < PageSize
                  THEN [walk EXCEPT !.phase = "ended", !.seen = @ \o page]
                  ELSE [walk EXCEPT !.phase = "idle", !.seen = @ \o page,
                                    !.cursor = Last(page)]
    /\ Quiet
    /\ UNCHANGED <<tables, lastUser, lastId, job, wiped>>

(* The client drops its list and may start anew. *)
EndWalk ==
    /\ walk # None /\ walk.phase \in {"ended", "broken"}
    /\ walk' = None
    /\ Quiet
    /\ UNCHANGED <<tables, lastUser, lastId, job, wiped>>
-----------------------------------------------------------------------------
Next ==
    \/ \E r \in Requests :
          \/ \E k \in Keys : CheckKey(r, k)
          \/ \E u \in Callers : Add(r, u) \/ WipeConstituents(r, u)
          \/ Register(r) \/ Insert(r) \/ WipeAccount(r) \/ Fail(r)
    \/ \E u \in Callers :
          \/ StartWalk(u)
          \/ \E id \in Ids : Delete(u, id) \/ \E dto \in Edits : Edit(u, id, dto)
    \/ FindCursor \/ ListPage \/ EndWalk

Spec == Init /\ [][Next]_vars
-----------------------------------------------------------------------------
(* Type invariant, with the references of the tables. *)
TypeOK ==
    /\ users \subseteq Callers
    /\ devices \subseteq [user : users, key : Keys]
    /\ rows \in [Ids -> [user : users, text : Texts] \cup {None}]
    /\ lastUser \in 0 .. MaxUser
    /\ lastId \in 0 .. MaxId
    /\ job \in [Requests -> Jobs \cup {None}]
    /\ walk = None \/ walk \in Walks
    /\ by \in [user : Users \cup {None}, fields : SUBSET Fields]
    /\ wiped \subseteq Users

(* Registration and wipe move a user and its device together: every user   *)
(* has exactly one device, also after failures between their steps.        *)
OneDeviceEach ==
    \A u \in users : Cardinality({d \in devices : d.user = u}) = 1

(* The tables refer to each other and to users that exist, and no user is  *)
(* left without its device or with two.                                    *)
Consistent == TypeOK /\ OneDeviceEach

(* Overlapping registrations may give one key to several devices, but only *)
(* as many as there are worker threads to overlap: a duplicate is refused  *)
(* from the first commit on.                                               *)
FewDuplicates ==
    \A k \in Keys :
        Cardinality({d \in devices : d.key = k}) <= Cardinality(Requests)

(* "Wipe all user data": a user that was told so has left no row in the    *)
(* three tables, and its requests that were under way, or that come later  *)
(* with its token, add none.                                               *)
WipedIsGone ==
    \A u \in wiped :
        /\ u \notin users
        /\ Own(u) = {}
        /\ \A d \in devices : d.user # u

(* A client that pages to the end sees each of its constituents that was   *)
(* there all the time, none twice and none out of order, whatever is added *)
(* and removed between and inside its requests.                            *)
WalkIsExact ==
    walk # None =>
        /\ \A i, j \in DOMAIN walk.seen : i < j => walk.seen[i] > walk.seen[j]
        /\ walk.phase = "ended" =>
              walk.start \cap Own(walk.user) \subseteq ToSet(walk.seen)

(* A request touches the rows of its own user only, and of a row only what *)
(* it names: edits of different fields do not undo each other.             *)
OwnRowsOnly ==
    [][\A id \in Ids : (rows[id] # None /\ rows'[id] # rows[id]) =>
          /\ by'.user = rows[id].user
          /\ rows'[id] # None =>
                /\ rows'[id].user = rows[id].user
                /\ \A f \in Fields : rows'[id].text[f] # rows[id].text[f] => f \in by'.fields]_vars
=============================================================================
