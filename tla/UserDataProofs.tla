--------------------------- MODULE UserDataProofs ---------------------------
(***************************************************************************)
(* Proofs about UserData: the tables refer to each other and every user    *)
(* has its one device, one key is given to few devices only, a user that   *)
(* was wiped stays gone, a list read page by page is exact, and a request  *)
(* changes only what it names of its own user's rows.                      *)
(***************************************************************************)
EXTENDS UserData, FiniteSetTheorems, WellFoundedInduction, NaturalsInduction, TLAPS

Registering == {q \in Requests : job[q] # None /\ job[q].op = "register"}

(* The registrations of key k under way, and the devices that have it. *)
Rivals(k) == {q \in Requests : job[q] # None /\ job[q].op = "register" /\ job[q].key = k}

With(k) == {d \in devices : d.key = k}

Of(u) == {d \in devices : d.user = u}

Adds(r) == job[r] # None /\ job[r].op = "add"

(* There is an id left for each registration under way. *)
Room == lastUser + Cardinality(Registering) <= MaxUser

(* Whoever registers a key now saw no device with it: a place is kept for *)
(* each of these requests beside the devices there are.                   *)
Places ==
    /\ IsFiniteSet(devices)
    /\ \A k \in Keys : Cardinality(With(k)) + Cardinality(Rivals(k)) <= Cardinality(Requests)

(* Only a user that was can be wiped, and its number does not come again. *)
WipedBefore ==
    /\ wiped \subseteq Callers
    /\ \A r \in Requests : (job[r] # None /\ job[r].op = "wipe") => job[r].user \in Callers

(* An id that was taken is one request's alone until its row is visible, *)
(* and none has a row before it was taken.                               *)
Reserved ==
    /\ \A id \in Ids : id > lastId => rows[id] = None
    /\ \A r \in Requests : Adds(r) =>
          /\ job[r].id <= lastId
          /\ rows[job[r].id] = None
          /\ \A q \in Requests \ {r} : Adds(q) => job[q].id # job[r].id

Falls(s) == \A i, j \in DOMAIN s : i < j => s[i] > s[j]

(* Walk w is down to from: it has seen no row below, and each one from     *)
(* there up that was there all the time.                                   *)
Covered(w, from) ==
    /\ \A i \in DOMAIN w.seen : w.seen[i] >= from
    /\ \A id \in w.start \cap Own(w.user) : id >= from => id \in ToSet(w.seen)

(* Where a client is in its list; no row that was there at its start can *)
(* be one that is still to come.                                         *)
Walking ==
    walk # None =>
        /\ walk.start \subseteq 1 .. lastId
        /\ \A r \in Requests : Adds(r) => job[r].id \notin walk.start
        /\ Falls(walk.seen)
        /\ walk.phase = "listing" => Covered(walk, walk.after)
        /\ walk.phase = "idle" => walk.cursor \in Ids /\ Covered(walk, walk.cursor)
        /\ walk.phase = "ended" => Covered(walk, 1)

Inv ==
    /\ TypeOK
    /\ OneDeviceEach
    /\ Room
    /\ Places
    /\ WipedBefore
    /\ WipedIsGone
    /\ Reserved
    /\ Walking
-----------------------------------------------------------------------------
(* A set with one element more. *)
LEMMA OneMore ==
    ASSUME NEW S, IsFiniteSet(S), NEW x
    PROVE  /\ IsFiniteSet(S \cup {x})
           /\ Cardinality(S \cup {x}) \in Nat
           /\ Cardinality(S \cup {x}) <= Cardinality(S) + 1
<1>1. /\ IsFiniteSet(S \cup {x})
      /\ Cardinality(S \cup {x}) = IF x \in S THEN Cardinality(S) ELSE Cardinality(S) + 1
  BY FS_AddElement
<1>2. Cardinality(S) \in Nat
  BY FS_CardinalityType
<1> QED
  BY <1>1, <1>2

(* A non-empty set of ids has a greatest one. *)
LEMMA Greatest ==
    ASSUME NEW S \in SUBSET Ids, S # {}
    PROVE  \E m \in S : \A x \in S : x <= m
<1> DEFINE T == {n \in Nat : MaxId - n \in S}
           R == OpToRel(<, Nat)
<1>1. T \subseteq Nat /\ T # {}
  <2>1. PICK x \in S : TRUE
    OBVIOUS
  <2>2. MaxId - x \in Nat /\ MaxId - (MaxId - x) = x
    BY BoundsAssumption DEF Ids
  <2> QED
    BY <2>1, <2>2
<1>2. \E n \in T : \A k \in T : <<k, n>> \notin R
  <2>1. IsWellFoundedOn(R, Nat)
    BY NatLessThanWellFounded
  <2> HIDE DEF T, R
  <2> QED
    BY <1>1, <2>1, WFMin
<1>3. PICK n \in T : \A k \in T : ~ (k < n)
  BY <1>1, <1>2 DEF OpToRel
<1>4. ASSUME NEW x \in S
      PROVE  x <= MaxId - n
  <2>1. MaxId - x \in T
    BY BoundsAssumption DEF Ids
  <2> QED
    BY <1>3, <2>1, BoundsAssumption DEF Ids
<1> QED
  BY <1>3, <1>4

(* A page holds rows of its range; one that is not full holds all of them, *)
(* and no page leaves out a row above one that it holds.                   *)
LEMMA PageFacts ==
    ASSUME NEW u, NEW after \in Int
    PROVE  LET below == {id \in Own(u) : id < after}
           IN  /\ IsFiniteSet(below)
               /\ Page(u, after) \subseteq below
               /\ Cardinality(Page(u, after)) < PageSize => Page(u, after) = below
               /\ \A m \in Page(u, after) : \A id \in below : id >= m => id \in Page(u, after)
<1> DEFINE below == {id \in Own(u) : id < after}
           Up(m) == {j \in below : j >= m}
           P == Page(u, after)
<1>1. below \subseteq Ids /\ P \subseteq below /\ IsFiniteSet(below)
  <2>1. below \subseteq Ids /\ P \subseteq below
    BY DEF Own, Page
  <2> QED
    BY <2>1, FS_Interval, FS_Subset, BoundsAssumption DEF Ids
<1>2. \A m \in below : IsFiniteSet(Up(m)) /\ Cardinality(Up(m)) \in Nat
  BY <1>1, FS_Subset, FS_CardinalityType
<1>3. \A m \in below : m \in P <=> Cardinality(Up(m)) <= PageSize
  BY DEF Page
<1>4. ASSUME NEW m \in P, NEW id \in below, id >= m
      PROVE  id \in P
  <2>1. Up(id) \subseteq Up(m)
    BY <1>1, <1>4 DEF Ids
  <2>2. Cardinality(Up(id)) <= Cardinality(Up(m))
    BY <1>1, <1>2, <2>1, FS_Subset
  <2> HIDE DEF Up, below, P
  <2>3. m \in below /\ id \in below
    BY <1>1
  <2> QED
    BY <1>2, <1>3, <2>2, <2>3, BoundsAssumption
<1>5. ASSUME Cardinality(P) < PageSize, P # below
      PROVE  FALSE
  <2>1. PICK m \in below \ P : \A x \in below \ P : x <= m
    <3> HIDE DEF below, P
    <3> QED
      BY <1>1, <1>5, Greatest
  <2>2. Up(m) \subseteq P \cup {m}
    BY <1>1, <2>1 DEF Ids
  <2>3. IsFiniteSet(P) /\ Cardinality(P) \in Nat
    BY <1>1, FS_Subset, FS_CardinalityType
  <2> HIDE DEF Up, below, P
  <2>4. IsFiniteSet(P \cup {m}) /\ Cardinality(P \cup {m}) <= PageSize
    <3>1. IsFiniteSet(P \cup {m}) /\ Cardinality(P \cup {m}) = Cardinality(P) + 1
      BY <2>1, <2>3, FS_AddElement
    <3> QED
      BY <1>5, <2>3, <3>1, BoundsAssumption
  <2>5. Cardinality(P \cup {m}) \in Nat /\ Cardinality(Up(m)) <= Cardinality(P \cup {m})
    BY <2>2, <2>4, FS_Subset, FS_CardinalityType
  <2> QED
    BY <1>2, <1>3, <2>1, <2>4, <2>5, BoundsAssumption
<1> QED
  BY <1>1, <1>4, <1>5

(* A set of ids in descending order. *)
LEMMA DescendingFacts ==
    ASSUME NEW S \in SUBSET Ids, NEW s \in Descending(S)
    PROVE  /\ s \in Seq(Ids) /\ Falls(s)
           /\ ToSet(s) = S /\ Len(s) = Cardinality(S)
           /\ Len(s) # 0 => Last(s) \in S /\ \A x \in S : x >= Last(s)
<1>1. Cardinality(S) \in Nat
  <2>1. IsFiniteSet(1 .. MaxId)
    BY FS_Interval, BoundsAssumption
  <2> QED
    BY <2>1, FS_Subset, FS_CardinalityType DEF Ids
<1>2. s \in [1 .. Cardinality(S) -> Ids] /\ ToSet(s) = S
  BY DEF Descending
<1>3. s \in Seq(Ids) /\ Len(s) = Cardinality(S) /\ DOMAIN s = 1 .. Len(s)
  BY <1>1, <1>2
<1>4. Falls(s)
  BY DEF Descending, Falls
<1>5. ASSUME Len(s) # 0
      PROVE  Last(s) \in S /\ \A x \in S : x >= Last(s)
  <2>1. Len(s) \in DOMAIN s /\ Last(s) = s[Len(s)] /\ Len(s) \in Nat
    BY <1>1, <1>3, <1>5 DEF Last
  <2>2. ASSUME NEW x \in S
        PROVE  x >= Last(s)
    <3>1. PICK i \in DOMAIN s : s[i] = x
      BY <1>2 DEF ToSet
    <3>2. i \in 1 .. Len(s) /\ s[i] \in Int /\ s[Len(s)] \in Int
      BY <1>2, <1>3, <2>1 DEF Ids
    <3>3. i < Len(s) => s[i] > s[Len(s)]
      BY <1>4, <2>1, <3>1 DEF Falls
    <3> QED
      BY <2>1, <3>1, <3>2, <3>3
  <2> QED
    BY <1>2, <2>1, <2>2 DEF ToSet
<1> QED
  BY <1>2, <1>3, <1>4, <1>5

(* To append a page that is below all that was seen. *)
LEMMA AppendFacts ==
    ASSUME NEW s \in Seq(Ids), NEW p \in Seq(Ids), NEW after \in Int,
           Falls(s), Falls(p),
           \A i \in DOMAIN s : s[i] >= after,
           \A x \in ToSet(p) : x < after
    PROVE  /\ s \o p \in Seq(Ids) /\ Falls(s \o p)
           /\ ToSet(s \o p) = ToSet(s) \cup ToSet(p)
<1> DEFINE c == s \o p
<1>1. /\ c \in Seq(Ids) /\ Len(c) = Len(s) + Len(p)
      /\ \A i \in 1 .. Len(s) : c[i] = s[i]
      /\ \A i \in 1 .. Len(p) : c[Len(s) + i] = p[i]
      /\ DOMAIN c = 1 .. Len(c) /\ DOMAIN s = 1 .. Len(s) /\ DOMAIN p = 1 .. Len(p)
      /\ Len(s) \in Nat /\ Len(p) \in Nat
      /\ \A i \in DOMAIN s : s[i] \in Ids
      /\ \A i \in DOMAIN p : p[i] \in Ids
  OBVIOUS
<1>2. \A i \in DOMAIN p : p[i] < after
  BY DEF ToSet
<1>3. \A i \in DOMAIN c : i > Len(s) => i - Len(s) \in DOMAIN p /\ c[i] = p[i - Len(s)]
  <2> HIDE DEF c
  <2>1. ASSUME NEW i \in DOMAIN c, i > Len(s)
        PROVE  i - Len(s) \in 1 .. Len(p) /\ Len(s) + (i - Len(s)) = i
    BY <1>1, <2>1
  <2> QED
    BY <1>1, <2>1
<1>4. \A i \in DOMAIN c : i <= Len(s) => i \in DOMAIN s /\ c[i] = s[i]
  <2> HIDE DEF c
  <2> QED
    BY <1>1
<1>5. Falls(c)
  <2> SUFFICES ASSUME NEW i \in DOMAIN c, NEW j \in DOMAIN c, i < j
               PROVE  c[i] > c[j]
    BY DEF Falls
  <2> HIDE DEF c
  <2>1. i \in Int /\ j \in Int /\ c[i] \in Int /\ c[j] \in Int
    <3>1. i \in Nat /\ j \in Nat
      BY <1>1
    <3>2. \A x \in Ids : x \in Int
      BY DEF Ids
    <3>3. c[i] \in Ids /\ c[j] \in Ids
      BY <1>1, <1>3, <1>4, <3>1
    <3> QED
      BY <3>1, <3>2, <3>3
  <2>2. CASE j <= Len(s)
    <3>1. i \in DOMAIN s /\ j \in DOMAIN s /\ c[i] = s[i] /\ c[j] = s[j]
      BY <1>1, <1>4, <2>1, <2>2
    <3> QED
      BY <3>1 DEF Falls
  <2>3. CASE i > Len(s)
    <3>1. i - Len(s) \in DOMAIN p /\ j - Len(s) \in DOMAIN p /\ i - Len(s) < j - Len(s)
      BY <1>1, <1>3, <2>1, <2>3
    <3> QED
      BY <1>1, <1>3, <2>1, <2>3, <3>1 DEF Falls
  <2>4. CASE i <= Len(s) /\ j > Len(s)
    BY <1>2, <1>3, <1>4, <2>1, <2>4
  <2> QED
    BY <1>1, <2>1, <2>2, <2>3, <2>4
<1>6. ToSet(c) = ToSet(s) \cup ToSet(p)
  <2>1. ToSet(c) \subseteq ToSet(s) \cup ToSet(p)
    <3> HIDE DEF c
    <3> QED
      BY <1>1, <1>3, <1>4 DEF ToSet
  <2>2. ToSet(s) \subseteq ToSet(c)
    <3> HIDE DEF c
    <3> QED
      BY <1>1 DEF ToSet
  <2>3. ToSet(p) \subseteq ToSet(c)
    <3> HIDE DEF c
    <3>1. \A i \in DOMAIN p : Len(s) + i \in DOMAIN c
      BY <1>1
    <3> QED
      BY <1>1, <3>1 DEF ToSet
  <2> QED
    BY <2>1, <2>2, <2>3
<1> QED
  BY <1>1, <1>5, <1>6
-----------------------------------------------------------------------------
(* The counted sets are finite. *)
LEMMA Counts ==
    ASSUME NEW regs \in SUBSET Requests
    PROVE  IsFiniteSet(regs) /\ Cardinality(regs) \in Nat
                /\ Cardinality(regs) <= Cardinality(Requests)
                /\ Cardinality(Requests) \in Nat
BY FS_Subset, FS_CardinalityType, RequestsAssumption

LEMMA CountsOf ==
    ASSUME IsFiniteSet(devices), NEW some \in SUBSET devices
    PROVE  IsFiniteSet(some) /\ Cardinality(some) \in Nat
BY FS_Subset, FS_CardinalityType

(* A step that starts no registration and adds no device takes no room. *)
LEMMA FewerRegistrations ==
    ASSUME Inv, devices' \subseteq devices, lastUser' = lastUser,
           \A q \in Requests :
              (job'[q] # None /\ job'[q].op = "register") => job'[q] = job[q]
    PROVE  Room' /\ Places'
<1>1. Registering' \subseteq Registering /\ Registering \subseteq Requests
  BY DEF Registering
<1>2. IsFiniteSet(devices) /\ IsFiniteSet(devices')
  BY FS_Subset DEF Inv, Places
<1>3. Room'
  <2>1. Cardinality(Registering') <= Cardinality(Registering)
    BY <1>1, Counts, FS_Subset
  <2>2. Cardinality(Registering') \in Nat /\ Cardinality(Registering) \in Nat
    BY <1>1, Counts
  <2>3. lastUser \in Int /\ MaxUser \in Int
    BY BoundsAssumption DEF Inv, TypeOK
  <2>4. lastUser + Cardinality(Registering) <= MaxUser
    BY DEF Inv, Room
  <2>5. lastUser + Cardinality(Registering') <= MaxUser
    BY <2>1, <2>2, <2>3, <2>4
  <2> QED
    BY <2>5 DEF Room
<1>4. Places'
  <2> SUFFICES ASSUME NEW k \in Keys
               PROVE  Cardinality(With(k)') + Cardinality(Rivals(k)') <= Cardinality(Requests)
    BY <1>2 DEF Places
  <2>1. With(k)' \subseteq With(k) /\ With(k) \subseteq devices
    BY DEF With
  <2>2. Rivals(k)' \subseteq Rivals(k) /\ Rivals(k) \subseteq Requests
    BY DEF Rivals
  <2>3. Cardinality(With(k)') <= Cardinality(With(k)) /\ Cardinality(With(k)') \in Nat
          /\ Cardinality(With(k)) \in Nat
    BY <1>2, <2>1, CountsOf, FS_Subset
  <2>4. Cardinality(Rivals(k)') <= Cardinality(Rivals(k)) /\ Cardinality(Rivals(k)') \in Nat
          /\ Cardinality(Rivals(k)) \in Nat
    BY <2>2, Counts, FS_Subset
  <2>5. Cardinality(With(k)) + Cardinality(Rivals(k)) <= Cardinality(Requests)
    BY DEF Inv, Places
  <2>6. Cardinality(Requests) \in Nat
    BY Counts
  <2> QED
    BY <2>3, <2>4, <2>5, <2>6
<1> QED
  BY <1>3, <1>4

(* What a step does to the requests under way and to the numbers given. *)
LEMMA RoomStep ==
    ASSUME Inv, [Next]_vars
    PROVE  Room' /\ Places'
<1> USE DEF tables
<1>1. ASSUME NEW r \in Requests, NEW k \in Keys, CheckKey(r, k)
      PROVE  Room' /\ Places'
  <2>1. /\ job[r] = None /\ job' = [job EXCEPT ![r] = [op |-> "register", key |-> k]]
        /\ lastUser' = lastUser /\ devices' = devices
        /\ lastUser + Cardinality(Registering) < MaxUser
        /\ \A d \in devices : d.key # k
        /\ job \in [Requests -> Jobs \cup {None}]
    BY <1>1 DEF CheckKey, Goes, Registering, Inv, TypeOK
  <2>2. [op |-> "register", key |-> k] # None
    BY NoneAssumption DEF Jobs
  <2>3. Registering' = Registering \cup {r} /\ r \notin Registering /\ Registering \subseteq Requests
    BY <2>1, <2>2 DEF Registering
  <2>4. Room'
    <3>1. Cardinality(Registering') = Cardinality(Registering) + 1 /\ Cardinality(Registering) \in Nat
      BY <2>3, Counts, FS_AddElement
    <3>2. lastUser \in Int /\ MaxUser \in Int
      BY BoundsAssumption DEF Inv, TypeOK
    <3>3. lastUser + Cardinality(Registering') <= MaxUser
      BY <2>1, <3>1, <3>2
    <3> QED
      BY <2>1, <3>3 DEF Room
  <2>5. Places'
    <3> SUFFICES ASSUME NEW l \in Keys
                 PROVE  Cardinality(With(l)') + Cardinality(Rivals(l)') <= Cardinality(Requests)
      BY <2>1 DEF Places, Inv
    <3>1. With(l)' = With(l)
      BY <2>1 DEF With
    <3>2. CASE l = k
      <4>1. With(l) = {}
        BY <2>1, <3>2 DEF With
      <4>2. Cardinality(With(l)) = 0
        BY <4>1, FS_EmptySet
      <4>3. Rivals(l)' \subseteq Requests
        BY DEF Rivals
      <4> QED
        BY <3>1, <4>2, <4>3, Counts
    <3>3. CASE l # k
      <4>1. Rivals(l)' = Rivals(l)
        BY <2>1, <2>2, <3>3 DEF Rivals
      <4> QED
        BY <3>1, <4>1 DEF Inv, Places
    <3> QED
      BY <3>2, <3>3
  <2> QED
    BY <2>4, <2>5
<1>2. ASSUME NEW r \in Requests, Register(r)
      PROVE  Room' /\ Places'
  <2> DEFINE k == job[r].key
             d == [user |-> lastUser + 1, key |-> k]
  <2>1. /\ job[r] # None /\ job[r].op = "register"
        /\ job' = [job EXCEPT ![r] = None]
        /\ lastUser' = lastUser + 1 /\ devices' = devices \cup {d}
        /\ job \in [Requests -> Jobs \cup {None}]
    BY <1>2 DEF Register, Ends, Inv, TypeOK
  <2>2. Registering' = Registering \ {r} /\ r \in Registering /\ Registering \subseteq Requests
    BY <2>1 DEF Registering
  <2>3. Room'
    <3>1. Cardinality(Registering') = Cardinality(Registering) - 1 /\ Cardinality(Registering) \in Nat
      BY <2>2, Counts, FS_RemoveElement
    <3>2. lastUser \in Int /\ MaxUser \in Int
      BY BoundsAssumption DEF Inv, TypeOK
    <3>3. lastUser + Cardinality(Registering) <= MaxUser
      BY DEF Inv, Room
    <3>4. lastUser + 1 + Cardinality(Registering') <= MaxUser
      BY <3>1, <3>2, <3>3
    <3> QED
      BY <2>1, <3>4 DEF Room
  <2>4. Places'
    <3>1. IsFiniteSet(devices) /\ IsFiniteSet(devices')
      BY <2>1, FS_AddElement DEF Inv, Places
    <3> SUFFICES ASSUME NEW l \in Keys
                 PROVE  Cardinality(With(l)') + Cardinality(Rivals(l)') <= Cardinality(Requests)
      BY <3>1 DEF Places
    <3>2. With(l) \subseteq devices /\ Rivals(l) \subseteq Requests
      BY DEF With, Rivals
    <3>3. /\ Cardinality(With(l)) + Cardinality(Rivals(l)) <= Cardinality(Requests)
          /\ IsFiniteSet(With(l)) /\ Cardinality(With(l)) \in Nat
          /\ IsFiniteSet(Rivals(l)) /\ Cardinality(Rivals(l)) \in Nat
          /\ Cardinality(Requests) \in Nat
      BY <3>1, <3>2, Counts, CountsOf DEF Inv, Places
    <3>4. CASE l = k
      <4>1. With(l)' = With(l) \cup {d}
        BY <2>1, <3>4 DEF With
      <4>2. Rivals(l)' = Rivals(l) \ {r} /\ r \in Rivals(l)
        BY <2>1, <3>4 DEF Rivals
      <4>3. Cardinality(With(l)') <= Cardinality(With(l)) + 1 /\ Cardinality(With(l)') \in Nat
        <5> HIDE DEF d
        <5>1. /\ Cardinality(With(l) \cup {d}) \in Nat
              /\ Cardinality(With(l) \cup {d}) <= Cardinality(With(l)) + 1
          BY <3>3, OneMore
        <5> QED
          BY <4>1, <5>1
      <4>4. Cardinality(Rivals(l)') = Cardinality(Rivals(l)) - 1
        BY <3>3, <4>2, FS_RemoveElement
      <4> QED
        BY <3>3, <4>3, <4>4
    <3>5. CASE l # k
      <4>1. With(l)' = With(l)
        BY <2>1, <3>5 DEF With
      <4>2. Rivals(l)' = Rivals(l)
        BY <2>1, <3>5 DEF Rivals
      <4> QED
        BY <3>3, <4>1, <4>2
    <3> QED
      BY <3>4, <3>5
  <2> QED
    BY <2>3, <2>4
<1>3. CASE UNCHANGED vars
  <2>1. devices' \subseteq devices /\ lastUser' = lastUser /\ job' = job
    BY <1>3 DEF vars
  <2> QED
    BY <2>1, FewerRegistrations
<1>4. ASSUME NEW r \in Requests, NEW u \in Callers, Add(r, u) \/ WipeConstituents(r, u)
      PROVE  Room' /\ Places'
  <2>1. /\ devices' = devices /\ lastUser' = lastUser
        /\ \A q \in Requests : job'[q] = job[q] \/ job'[q].op \in {"add", "wipe"}
    BY <1>4 DEF Add, WipeConstituents, Goes, Inv, TypeOK
  <2> QED
    BY <2>1, FewerRegistrations
<1>5. ASSUME NEW r \in Requests, Insert(r) \/ WipeAccount(r) \/ Fail(r)
      PROVE  Room' /\ Places'
  <2>1. /\ devices' \subseteq devices /\ lastUser' = lastUser
        /\ \A q \in Requests : job'[q] = job[q] \/ job'[q] = None
    BY <1>5 DEF Insert, WipeAccount, Fail, Ends, Inv, TypeOK
  <2> QED
    BY <2>1, FewerRegistrations
<1>6. ASSUME NEW u \in Callers,
             \/ StartWalk(u)
             \/ \E id \in Ids : Delete(u, id) \/ \E dto \in Edits : Edit(u, id, dto)
      PROVE  Room' /\ Places'
  <2>1. devices' = devices /\ lastUser' = lastUser /\ job' = job
    BY <1>6 DEF StartWalk, Delete, Edit
  <2> QED
    BY <2>1, FewerRegistrations
<1>7. CASE FindCursor \/ ListPage \/ EndWalk
  <2>1. devices' = devices /\ lastUser' = lastUser /\ job' = job
    BY <1>7 DEF FindCursor, ListPage, EndWalk
  <2> QED
    BY <2>1, FewerRegistrations
<1> QED
  BY <1>1, <1>2, <1>3, <1>4, <1>5, <1>6, <1>7 DEF Next
-----------------------------------------------------------------------------
LEMMA TypeStep ==
    ASSUME Inv, [Next]_vars
    PROVE  TypeOK'
<1> USE DEF tables, Quiet, By, Nobody, Callers
<1>0. /\ users \subseteq 1 .. lastUser
      /\ devices \subseteq [user : users, key : Keys]
      /\ rows \in [Ids -> [user : users, text : Texts] \cup {None}]
      /\ lastUser \in 0 .. MaxUser
      /\ lastId \in 0 .. MaxId
      /\ job \in [Requests -> Jobs \cup {None}]
      /\ walk = None \/ walk \in Walks
      /\ by \in [user : Users \cup {None}, fields : SUBSET Fields]
      /\ wiped \subseteq Users
  BY DEF Inv, TypeOK
<1>1. [user |-> None, fields |-> {}] \in [user : Users \cup {None}, fields : SUBSET Fields]
  OBVIOUS
<1>2. \A u \in Callers : u \in Users
  BY <1>0, BoundsAssumption DEF Users
<1>3. \A r \in Requests : job[r] # None => job[r] \in Jobs
  BY <1>0
<1>4. lastUser' = lastUser + 1 => lastUser' \in 0 .. MaxUser
  <2>1. lastUser' + Cardinality(Registering') <= MaxUser /\ Registering' \subseteq Requests
    BY RoomStep DEF Room, Registering
  <2>2. Cardinality(Registering') \in Nat
    BY <2>1, Counts
  <2> QED
    BY <1>0, <2>1, <2>2, BoundsAssumption
<1>5. ASSUME NEW r \in Requests, NEW k \in Keys, CheckKey(r, k)
      PROVE  TypeOK'
  <2>1. [op |-> "register", key |-> k] \in Jobs
    BY DEF Jobs
  <2> QED
    BY <1>0, <1>1, <1>5, <2>1 DEF CheckKey, Goes, TypeOK
<1>6. ASSUME NEW r \in Requests, NEW u \in Callers, Add(r, u)
      PROVE  TypeOK'
  <2>1. lastId + 1 \in Ids /\ lastId' \in 0 .. MaxId /\ u \in Users
    BY <1>0, <1>2, <1>6, BoundsAssumption DEF Add, Ids
  <2>2. [op |-> "add", user |-> u, id |-> lastId + 1] \in Jobs
    BY <2>1 DEF Jobs
  <2> QED
    BY <1>0, <1>1, <1>6, <2>1, <2>2 DEF Add, Goes, TypeOK
<1>7. ASSUME NEW r \in Requests, NEW u \in Callers, WipeConstituents(r, u)
      PROVE  TypeOK'
  <2>1. [op |-> "wipe", user |-> u] \in Jobs
    BY <1>2 DEF Jobs
  <2>2. rows' \in [Ids -> [user : users, text : Texts] \cup {None}]
    BY <1>0, <1>7 DEF WipeConstituents
  <2>3. by' \in [user : Users \cup {None}, fields : SUBSET Fields]
    BY <1>2, <1>7 DEF WipeConstituents
  <2> QED
    BY <1>0, <1>7, <2>1, <2>2, <2>3 DEF WipeConstituents, Goes, TypeOK
<1>8. ASSUME NEW r \in Requests, Register(r)
      PROVE  TypeOK'
  <2>1. lastUser' \in 0 .. MaxUser
    BY <1>4, <1>8 DEF Register
  <2>2. users' \subseteq 1 .. lastUser' /\ users \subseteq users' /\ lastUser + 1 \in users'
    BY <1>0, <1>8 DEF Register
  <2>3. job[r].key \in Keys
    BY <1>3, <1>8 DEF Register, Jobs
  <2>4. devices' \subseteq [user : users', key : Keys]
    BY <1>0, <1>8, <2>2, <2>3 DEF Register
  <2>5. rows' \in [Ids -> [user : users', text : Texts] \cup {None}]
    BY <1>0, <1>8, <2>2 DEF Register
  <2> QED
    BY <1>0, <1>1, <1>8, <2>1, <2>2, <2>4, <2>5 DEF Register, Ends, TypeOK
<1>9. ASSUME NEW r \in Requests, Insert(r)
      PROVE  TypeOK'
  <2>1. job[r].id \in Ids /\ job[r].user \in users
    BY <1>3, <1>9 DEF Insert, Jobs
  <2>2. [f \in Fields |-> 0] \in Texts
    BY BoundsAssumption DEF Texts
  <2>3. rows' \in [Ids -> [user : users, text : Texts] \cup {None}]
    BY <1>0, <1>9, <2>1, <2>2 DEF Insert
  <2> QED
    BY <1>0, <1>1, <1>9, <2>3 DEF Insert, Ends, TypeOK
<1>10. ASSUME NEW r \in Requests, WipeAccount(r)
       PROVE  TypeOK'
  <2>1. job[r].user \in Users
    BY <1>3, <1>10 DEF WipeAccount, Jobs
  <2>2. /\ \A id \in Ids : rows[id] # None => rows[id].user # job[r].user
        /\ users' = users \ {job[r].user} /\ rows' = rows
        /\ devices' = {d \in devices : d.user # job[r].user}
    BY <1>10 DEF WipeAccount, Own
  <2>3. rows' \in [Ids -> [user : users', text : Texts] \cup {None}]
    BY <1>0, <2>2
  <2>4. devices' \subseteq [user : users', key : Keys]
    BY <1>0, <2>2
  <2>5. wiped' \subseteq Users
    BY <1>0, <1>10, <2>1 DEF WipeAccount
  <2> QED
    BY <1>0, <1>1, <1>10, <2>2, <2>3, <2>4, <2>5 DEF WipeAccount, Ends, TypeOK
<1>11. ASSUME NEW r \in Requests, Fail(r)
       PROVE  TypeOK'
  BY <1>0, <1>1, <1>11 DEF Fail, Ends, TypeOK
<1>12. ASSUME NEW u \in Callers, StartWalk(u)
       PROVE  TypeOK'
  <2>1. walk' \in Walks
    <3>1. Own(u) \subseteq Ids /\ MaxId + 1 \in 1 .. MaxId + 1
      BY BoundsAssumption DEF Own
    <3> QED
      BY <1>2, <1>12, <3>1 DEF StartWalk, Walks, Phases
  <2> QED
    BY <1>0, <1>1, <1>12, <2>1 DEF StartWalk, TypeOK
<1>13. ASSUME NEW u \in Callers, NEW id \in Ids, Delete(u, id)
       PROVE  TypeOK'
  <2>1. by' \in [user : Users \cup {None}, fields : SUBSET Fields]
    BY <1>2, <1>13 DEF Delete
  <2> QED
    BY <1>0, <1>13, <2>1 DEF Delete, TypeOK
<1>14. ASSUME NEW u \in Callers, NEW id \in Ids, NEW dto \in Edits, Edit(u, id, dto)
       PROVE  TypeOK'
  <2>1. PICK some \in SUBSET Fields : dto \in [some -> 0 .. Versions]
    BY DEF Edits
  <2>2. by' \in [user : Users \cup {None}, fields : SUBSET Fields]
    BY <1>2, <1>14, <2>1 DEF Edit
  <2>3. rows[id] \in [user : users, text : Texts]
    BY <1>0, <1>14 DEF Edit, Own
  <2>4. [f \in Fields |-> IF f \in DOMAIN dto THEN dto[f] ELSE rows[id].text[f]] \in Texts
    BY <2>1, <2>3 DEF Texts
  <2>5. rows' = [rows EXCEPT ![id] = [rows[id] EXCEPT !.text =
                   [f \in Fields |-> IF f \in DOMAIN dto THEN dto[f] ELSE rows[id].text[f]]]]
    BY <1>0, <1>14 DEF Edit
  <2>6. rows' \in [Ids -> [user : users, text : Texts] \cup {None}]
    BY <1>0, <2>3, <2>4, <2>5
  <2> QED
    BY <1>0, <1>14, <2>2, <2>6 DEF Edit, TypeOK
<1>15. CASE FindCursor
  <2>1. walk' \in Walks
    <3>1. walk \in Walks /\ walk.cursor \in Own(walk.user) => walk.cursor \in 1 .. MaxId + 1
      BY BoundsAssumption DEF Own, Ids, Walks
    <3> QED
      BY <1>0, <1>15, <3>1 DEF FindCursor, Walks, Phases
  <2> QED
    BY <1>0, <1>1, <1>15, <2>1 DEF FindCursor, TypeOK
<1>16. CASE ListPage
  <2>1. walk \in Walks /\ walk.after \in Int
    BY <1>0, <1>16 DEF ListPage, Walks
  <2>2. Page(walk.user, walk.after) \in SUBSET Ids
    BY <2>1, PageFacts DEF Own
  <2>3. PICK page \in Descending(Page(walk.user, walk.after)) :
           walk' = IF Len(page) < PageSize
                   THEN [walk EXCEPT !.phase = "ended", !.seen = walk.seen \o page]
                   ELSE [walk EXCEPT !.phase = "idle", !.seen = walk.seen \o page,
                                     !.cursor = Last(page)]
    BY <1>16, <2>1 DEF ListPage, Walks
  <2>4. /\ page \in Seq(Ids) /\ walk.seen \in Seq(Ids)
        /\ Len(page) # 0 => Last(page) \in Ids
    BY <2>1, <2>2, DescendingFacts DEF Walks
  <2>5. walk.seen \o page \in Seq(Ids) /\ Len(page) \in Nat
    BY <2>4
  <2>6. walk' \in Walks
    <3>1. ~ (Len(page) < PageSize) => Last(page) \in Ids
      BY <2>4, <2>5, BoundsAssumption
    <3>2. CASE Len(page) < PageSize
      BY <2>1, <2>3, <2>5, <3>2 DEF Walks, Phases
    <3>3. CASE ~ (Len(page) < PageSize)
      BY <2>1, <2>3, <2>5, <3>1, <3>3 DEF Walks, Phases
    <3> QED
      BY <3>2, <3>3
  <2> QED
    BY <1>0, <1>1, <1>16, <2>6 DEF ListPage, TypeOK
<1>17. CASE EndWalk
  BY <1>0, <1>1, <1>17 DEF EndWalk, TypeOK
<1>18. CASE UNCHANGED vars
  BY <1>0, <1>18 DEF vars, TypeOK
<1> QED
  BY <1>5, <1>6, <1>7, <1>8, <1>9, <1>10, <1>11, <1>12, <1>13, <1>14, <1>15, <1>16,
     <1>17, <1>18 DEF Next
-----------------------------------------------------------------------------
(* What a step does to users and devices: nothing, or a user comes or goes *)
(* together with its device.                                               *)
LEMMA UserEffect ==
    ASSUME Inv, [Next]_vars
    PROVE  \/ users' = users /\ devices' = devices /\ lastUser' = lastUser /\ wiped' = wiped
           \/ \E k \in Keys :
                 /\ lastUser' = lastUser + 1
                 /\ users' = users \cup {lastUser + 1}
                 /\ devices' = devices \cup {[user |-> lastUser + 1, key |-> k]}
                 /\ rows' = rows /\ wiped' = wiped
           \/ \E u \in Callers :
                 /\ Own(u) = {}
                 /\ users' = users \ {u}
                 /\ devices' = {d \in devices : d.user # u}
                 /\ rows' = rows /\ lastUser' = lastUser
                 /\ wiped' \in {wiped, wiped \cup {u}}
<1> USE DEF tables
<1>1. ASSUME NEW r \in Requests, Register(r)
      PROVE  \E k \in Keys :
                 /\ lastUser' = lastUser + 1
                 /\ users' = users \cup {lastUser + 1}
                 /\ devices' = devices \cup {[user |-> lastUser + 1, key |-> k]}
                 /\ rows' = rows /\ wiped' = wiped
  <2>1. job[r] \in Jobs /\ job[r].op = "register"
    BY <1>1 DEF Register, Inv, TypeOK
  <2>2. job[r].key \in Keys
    BY <2>1 DEF Jobs
  <2> QED
    BY <1>1, <2>2 DEF Register
<1>2. ASSUME NEW r \in Requests, WipeAccount(r)
      PROVE  \E u \in Callers :
                 /\ Own(u) = {}
                 /\ users' = users \ {u}
                 /\ devices' = {d \in devices : d.user # u}
                 /\ rows' = rows /\ lastUser' = lastUser
                 /\ wiped' \in {wiped, wiped \cup {u}}
  <2>1. job[r].user \in Callers
    BY <1>2 DEF WipeAccount, Inv, WipedBefore
  <2> QED
    BY <1>2, <2>1 DEF WipeAccount
<1>3. ASSUME NEW r \in Requests, NEW k \in Keys, CheckKey(r, k)
      PROVE  users' = users /\ devices' = devices /\ lastUser' = lastUser /\ wiped' = wiped
  BY <1>3 DEF CheckKey
<1>4. ASSUME NEW r \in Requests, NEW u \in Callers, Add(r, u) \/ WipeConstituents(r, u)
      PROVE  users' = users /\ devices' = devices /\ lastUser' = lastUser /\ wiped' = wiped
  BY <1>4 DEF Add, WipeConstituents
<1>5. ASSUME NEW r \in Requests, Insert(r) \/ Fail(r)
      PROVE  users' = users /\ devices' = devices /\ lastUser' = lastUser /\ wiped' = wiped
  BY <1>5 DEF Insert, Fail
<1>6. ASSUME NEW u \in Callers,
             \/ StartWalk(u)
             \/ \E id \in Ids : Delete(u, id) \/ \E dto \in Edits : Edit(u, id, dto)
      PROVE  users' = users /\ devices' = devices /\ lastUser' = lastUser /\ wiped' = wiped
  BY <1>6 DEF StartWalk, Delete, Edit
<1>7. CASE FindCursor \/ ListPage \/ EndWalk \/ UNCHANGED vars
  BY <1>7 DEF FindCursor, ListPage, EndWalk, vars
<1> QED
  BY <1>1, <1>2, <1>3, <1>4, <1>5, <1>6, <1>7 DEF Next

LEMMA OneDeviceStep ==
    ASSUME Inv, [Next]_vars
    PROVE  OneDeviceEach'
<1>0. /\ users \subseteq 1 .. lastUser /\ lastUser \in Nat
      /\ \A d \in devices : d.user \in users
      /\ \A u \in users : Cardinality({d \in devices : d.user = u}) = 1
  BY DEF Inv, TypeOK, Callers, OneDeviceEach
<1>1. CASE users' = users /\ devices' = devices /\ lastUser' = lastUser /\ wiped' = wiped
  BY <1>1 DEF Inv, OneDeviceEach
<1>2. ASSUME NEW k \in Keys,
             users' = users \cup {lastUser + 1},
             devices' = devices \cup {[user |-> lastUser + 1, key |-> k]}
      PROVE  OneDeviceEach'
  <2> DEFINE new == [user |-> lastUser + 1, key |-> k]
  <2>1. lastUser + 1 \notin users
    BY <1>0
  <2> SUFFICES ASSUME NEW u \in users'
               PROVE  Cardinality({d \in devices' : d.user = u}) = 1
    BY DEF OneDeviceEach
  <2>2. CASE u = lastUser + 1
    <3>1. {d \in devices' : d.user = u} = {new}
      BY <1>0, <1>2, <2>1, <2>2
    <3> QED
      BY <3>1, FS_Singleton
  <2>3. CASE u \in users
    <3>1. {d \in devices' : d.user = u} = {d \in devices : d.user = u}
      BY <1>2, <2>1, <2>3
    <3> QED
      BY <1>0, <2>3, <3>1
  <2> QED
    BY <1>2, <2>2, <2>3
<1>3. ASSUME NEW v \in Callers,
             users' = users \ {v}, devices' = {d \in devices : d.user # v}
      PROVE  OneDeviceEach'
  <2> SUFFICES ASSUME NEW u \in users'
               PROVE  Cardinality({d \in devices' : d.user = u}) = 1
    BY DEF OneDeviceEach
  <2>1. {d \in devices' : d.user = u} = {d \in devices : d.user = u} /\ u \in users
    BY <1>3
  <2> QED
    BY <1>0, <2>1
<1> QED
  BY <1>1, <1>2, <1>3, UserEffect
-----------------------------------------------------------------------------
(* What a step does to the rows and to the requests that add one: no row  *)
(* appears and no request starts to add, or one that has its id inserts,  *)
(* or one takes the next id.                                              *)
LEMMA RowEffect ==
    ASSUME Inv, [Next]_vars
    PROVE  \/ /\ lastId' = lastId
              /\ \A r \in Requests : Adds(r)' => job'[r] = job[r]
              /\ \A id \in Ids : rows'[id] # None =>
                    rows[id] # None /\ rows'[id].user = rows[id].user
           \/ \E r \in Requests :
                 /\ Adds(r) /\ job[r].user \in users
                 /\ rows' = [rows EXCEPT ![job[r].id] =
                                [user |-> job[r].user, text |-> [f \in Fields |-> 0]]]
                 /\ job' = [job EXCEPT ![r] = None]
                 /\ lastId' = lastId /\ walk' = walk /\ wiped' = wiped
           \/ \E r \in Requests, u \in Callers :
                 /\ lastId' = lastId + 1
                 /\ job' = [job EXCEPT ![r] = [op |-> "add", user |-> u, id |-> lastId + 1]]
                 /\ rows' = rows /\ walk' = walk /\ wiped' = wiped
<1> USE DEF tables, Adds
<1> DEFINE Same == /\ lastId' = lastId
                   /\ \A r \in Requests : Adds(r)' => job'[r] = job[r]
                   /\ \A id \in Ids : rows'[id] # None =>
                         rows[id] # None /\ rows'[id].user = rows[id].user
<1>0. /\ job \in [Requests -> Jobs \cup {None}]
      /\ rows \in [Ids -> [user : users, text : Texts] \cup {None}]
  BY DEF Inv, TypeOK
<1>1. ASSUME NEW r \in Requests, Insert(r)
      PROVE  /\ Adds(r) /\ job[r].user \in users
             /\ rows' = [rows EXCEPT ![job[r].id] =
                            [user |-> job[r].user, text |-> [f \in Fields |-> 0]]]
             /\ job' = [job EXCEPT ![r] = None]
             /\ lastId' = lastId /\ walk' = walk /\ wiped' = wiped
  BY <1>1 DEF Insert, Ends
<1>2. ASSUME NEW r \in Requests, NEW u \in Callers, Add(r, u)
      PROVE  /\ lastId' = lastId + 1
             /\ job' = [job EXCEPT ![r] = [op |-> "add", user |-> u, id |-> lastId + 1]]
             /\ rows' = rows /\ walk' = walk /\ wiped' = wiped
  BY <1>2 DEF Add, Goes
<1>3. ASSUME NEW r \in Requests, NEW k \in Keys, CheckKey(r, k)
      PROVE  Same
  BY <1>0, <1>3 DEF CheckKey, Goes
<1>4. ASSUME NEW r \in Requests, NEW u \in Callers, WipeConstituents(r, u)
      PROVE  Same
  BY <1>0, <1>4 DEF WipeConstituents, Goes
<1>5. ASSUME NEW r \in Requests, Register(r) \/ WipeAccount(r) \/ Fail(r)
      PROVE  Same
  BY <1>0, <1>5 DEF Register, WipeAccount, Fail, Ends
<1>6. ASSUME NEW u \in Callers, StartWalk(u)
      PROVE  Same
  BY <1>6 DEF StartWalk
<1>7. ASSUME NEW u \in Callers, NEW id \in Ids, Delete(u, id)
      PROVE  Same
  BY <1>0, <1>7 DEF Delete
<1>8. ASSUME NEW u \in Callers, NEW id \in Ids, NEW dto \in Edits, Edit(u, id, dto)
      PROVE  Same
  <2>1. /\ rows[id] \in [user : users, text : Texts]
        /\ lastId' = lastId /\ job' = job
        /\ rows' = [rows EXCEPT ![id] = [rows[id] EXCEPT !.text =
                   [f \in Fields |-> IF f \in DOMAIN dto THEN dto[f] ELSE rows[id].text[f]]]]
    BY <1>0, <1>8 DEF Edit, Own
  <2>2. rows'[id].user = rows[id].user /\ rows[id] # None
    BY <1>0, <1>8, <2>1 DEF Edit, Own
  <2>3. \A i \in Ids : i # id => rows'[i] = rows[i]
    BY <1>0, <2>1
  <2> QED
    BY <2>1, <2>2, <2>3
<1>9. CASE FindCursor \/ ListPage \/ EndWalk \/ UNCHANGED vars
  BY <1>9 DEF FindCursor, ListPage, EndWalk, vars
<1> HIDE DEF Adds
<1> QED
  BY <1>1, <1>2, <1>3, <1>4, <1>5, <1>6, <1>7, <1>8, <1>9 DEF Next

LEMMA ReservedStep ==
    ASSUME Inv, [Next]_vars
    PROVE  Reserved'
<1>0. /\ job \in [Requests -> Jobs \cup {None}]
      /\ rows \in [Ids -> [user : users, text : Texts] \cup {None}]
      /\ rows' \in [Ids -> [user : users', text : Texts] \cup {None}]
      /\ lastId \in Nat
      /\ Reserved
  BY TypeStep DEF Inv, TypeOK
<1>1. \A r \in Requests : Adds(r) => job[r].id \in Ids
  BY <1>0 DEF Adds, Jobs
<1>2. CASE /\ lastId' = lastId
           /\ \A r \in Requests : Adds(r)' => job'[r] = job[r]
           /\ \A id \in Ids : rows'[id] # None =>
                 rows[id] # None /\ rows'[id].user = rows[id].user
  <2>1. \A r \in Requests : Adds(r)' => Adds(r)
    BY <1>2 DEF Adds
  <2> QED
    BY <1>0, <1>1, <1>2, <2>1 DEF Reserved
<1>3. ASSUME NEW r \in Requests, Adds(r),
             rows' = [rows EXCEPT ![job[r].id] =
                         [user |-> job[r].user, text |-> [f \in Fields |-> 0]]],
             job' = [job EXCEPT ![r] = None], lastId' = lastId
      PROVE  Reserved'
  <2>1. \A q \in Requests : Adds(q)' => q # r /\ Adds(q) /\ job'[q] = job[q]
    BY <1>0, <1>3 DEF Adds
  <2>2. \A id \in Ids : id # job[r].id => rows'[id] = rows[id]
    BY <1>0, <1>3
  <2>3. \A q \in Requests : Adds(q)' => rows'[job'[q].id] = None
    BY <1>0, <1>1, <1>3, <2>1, <2>2 DEF Reserved
  <2>4. job[r].id <= lastId /\ job[r].id \in Int
    BY <1>0, <1>1, <1>3 DEF Reserved, Ids
  <2>5. \A id \in Ids : id > lastId => rows'[id] = None
    BY <1>0, <1>3, <2>2, <2>4 DEF Reserved, Ids
  <2> QED
    BY <1>0, <1>3, <2>1, <2>3, <2>5 DEF Reserved
<1>4. ASSUME NEW r \in Requests, NEW u \in Callers,
             lastId' = lastId + 1,
             job' = [job EXCEPT ![r] = [op |-> "add", user |-> u, id |-> lastId + 1]],
             rows' = rows
      PROVE  Reserved'
  <2>1. \A q \in Requests : (Adds(q)' /\ q # r) => Adds(q) /\ job'[q] = job[q]
    BY <1>0, <1>4 DEF Adds
  <2>2. job'[r].id = lastId + 1
    BY <1>0, <1>4
  <2>3. \A q \in Requests : Adds(q) => job[q].id \in Int /\ job[q].id <= lastId
    BY <1>0, <1>1 DEF Reserved, Ids
  <2>4. \A id \in Ids : id > lastId' => rows'[id] = None
    BY <1>0, <1>4 DEF Reserved, Ids
  <2>5. lastId' \in 0 .. MaxId
    BY TypeStep DEF TypeOK
  <2>6. rows'[lastId + 1] = None
    <3>1. lastId + 1 \in Ids /\ lastId + 1 > lastId
      BY <1>0, <1>4, <2>5, BoundsAssumption DEF Ids
    <3> QED
      BY <1>0, <1>4, <3>1 DEF Reserved
  <2>7. ASSUME NEW q \in Requests, Adds(q)'
        PROVE  /\ job'[q].id <= lastId'
               /\ rows'[job'[q].id] = None
               /\ \A p \in Requests \ {q} : Adds(p)' => job'[p].id # job'[q].id
    <3>1. CASE q = r
      <4>1. \A p \in Requests \ {q} : Adds(p)' => job'[p].id # lastId + 1
        BY <1>0, <2>1, <2>3, <3>1
      <4> QED
        BY <1>0, <1>4, <2>2, <2>6, <3>1, <4>1
    <3>2. CASE q # r
      <4>1. job'[q] = job[q] /\ Adds(q)
        BY <2>1, <2>7, <3>2
      <4>2. job'[r].id # job'[q].id /\ job'[q].id <= lastId'
        BY <1>0, <1>4, <2>2, <2>3, <4>1
      <4>3. \A p \in Requests \ {q, r} : Adds(p)' => job'[p].id # job'[q].id
        BY <1>0, <2>1, <4>1 DEF Reserved
      <4> QED
        BY <1>0, <1>4, <4>1, <4>2, <4>3 DEF Reserved
    <3> QED
      BY <3>1, <3>2
  <2> QED
    BY <2>4, <2>7 DEF Reserved
<1> QED
  BY <1>2, <1>3, <1>4, RowEffect

LEMMA WipedStep ==
    ASSUME Inv, [Next]_vars
    PROVE  WipedBefore' /\ WipedIsGone'
<1> USE DEF tables
<1>0. /\ job \in [Requests -> Jobs \cup {None}]
      /\ rows \in [Ids -> [user : users, text : Texts] \cup {None}]
      /\ lastUser \in Nat /\ users \subseteq 1 .. lastUser
      /\ wiped \subseteq 1 .. lastUser
      /\ \A d \in devices : d.user \in users
  BY DEF Inv, TypeOK, WipedBefore, Callers
<1>1. Callers \subseteq Callers'
  BY <1>0, UserEffect DEF Callers
<1>2. \A r \in Requests : (job'[r] # None /\ job'[r].op = "wipe") => job'[r].user \in Callers'
  <2>1. ASSUME NEW r \in Requests, NEW u \in Callers, Add(r, u) \/ WipeConstituents(r, u)
        PROVE  \A q \in Requests : job'[q] = job[q] \/ job'[q].op = "add" \/ job'[q].user \in Callers
    BY <1>0, <2>1 DEF Add, WipeConstituents, Goes
  <2>2. ASSUME NEW r \in Requests, NEW k \in Keys, CheckKey(r, k)
        PROVE  \A q \in Requests : job'[q] = job[q] \/ job'[q].op = "register"
    BY <1>0, <2>2 DEF CheckKey, Goes
  <2>3. ASSUME NEW r \in Requests, Register(r) \/ Insert(r) \/ WipeAccount(r) \/ Fail(r)
        PROVE  \A q \in Requests : job'[q] = job[q] \/ job'[q] = None
    BY <1>0, <2>3 DEF Register, Insert, WipeAccount, Fail, Ends
  <2>4. ASSUME NEW u \in Callers,
               \/ StartWalk(u)
               \/ \E id \in Ids : Delete(u, id) \/ \E dto \in Edits : Edit(u, id, dto)
        PROVE  job' = job
    BY <2>4 DEF StartWalk, Delete, Edit
  <2>5. CASE FindCursor \/ ListPage \/ EndWalk \/ UNCHANGED vars
    BY <1>1, <2>5 DEF FindCursor, ListPage, EndWalk, vars, Inv, WipedBefore
  <2> QED
    BY <1>1, <2>1, <2>2, <2>3, <2>4, <2>5 DEF Next, Inv, WipedBefore
<1>3. wiped' \subseteq Callers'
  BY <1>0, <1>1, UserEffect DEF Callers
<1>4. ASSUME NEW u \in wiped', u \notin wiped
      PROVE  u \notin users' /\ Own(u)' = {} /\ \A d \in devices' : d.user # u
  <2>1. /\ Own(u) = {} /\ users' = users \ {u} /\ rows' = rows
        /\ devices' = {d \in devices : d.user # u}
    BY <1>4, UserEffect
  <2> QED
    BY <2>1 DEF Own
<1>5. ASSUME NEW u \in wiped
      PROVE  u \notin users' /\ Own(u)' = {} /\ \A d \in devices' : d.user # u
  <2>1. u \notin users /\ Own(u) = {} /\ \A d \in devices : d.user # u
    BY DEF Inv, WipedIsGone
  <2>2. u # lastUser + 1
    BY <1>0
  <2>3. u \notin users' /\ \A d \in devices' : d.user # u
    BY <2>1, <2>2, UserEffect
  <2>4. ASSUME NEW id \in Ids, rows'[id] # None
        PROVE  rows'[id].user # u
    <3>1. ASSUME NEW r \in Requests, Adds(r), job[r].user \in users,
                 rows' = [rows EXCEPT ![job[r].id] =
                             [user |-> job[r].user, text |-> [f \in Fields |-> 0]]]
          PROVE  rows'[id].user # u
      BY <1>0, <2>1, <2>4, <3>1 DEF Own
    <3>2. rows'[id] = rows[id] => rows'[id].user # u
      BY <2>1, <2>4 DEF Own
    <3>3. (rows[id] # None /\ rows'[id].user = rows[id].user) => rows'[id].user # u
      BY <2>1 DEF Own
    <3> QED
      BY <2>4, <3>1, <3>2, <3>3, RowEffect
  <2> QED
    BY <2>3, <2>4 DEF Own
<1>6. WipedIsGone'
  BY <1>4, <1>5 DEF WipedIsGone
<1> QED
  BY <1>2, <1>3, <1>6 DEF WipedBefore
-----------------------------------------------------------------------------
(* A row that was there when the client began to list is taken from it, or *)
(* stays; none comes back.                                                 *)
LEMMA StartKept ==
    ASSUME Inv, [Next]_vars, walk # None
    PROVE  /\ walk.start \subseteq 1 .. lastId'
           /\ \A r \in Requests : Adds(r)' => job'[r].id \notin walk.start
           /\ \A u : walk.start \cap Own(u)' \subseteq Own(u)
<1>0. /\ job \in [Requests -> Jobs \cup {None}]
      /\ rows \in [Ids -> [user : users, text : Texts] \cup {None}]
      /\ lastId \in Nat
      /\ walk.start \subseteq 1 .. lastId
      /\ \A r \in Requests : Adds(r) => job[r].id \notin walk.start
  BY DEF Inv, TypeOK, Walking
<1>1. CASE /\ lastId' = lastId
           /\ \A r \in Requests : Adds(r)' => job'[r] = job[r]
           /\ \A id \in Ids : rows'[id] # None =>
                 rows[id] # None /\ rows'[id].user = rows[id].user
  BY <1>0, <1>1 DEF Adds, Own
<1>2. ASSUME NEW r \in Requests, Adds(r),
             rows' = [rows EXCEPT ![job[r].id] =
                         [user |-> job[r].user, text |-> [f \in Fields |-> 0]]],
             job' = [job EXCEPT ![r] = None], lastId' = lastId
      PROVE  /\ walk.start \subseteq 1 .. lastId'
             /\ \A q \in Requests : Adds(q)' => job'[q].id \notin walk.start
             /\ \A u : walk.start \cap Own(u)' \subseteq Own(u)
  <2>1. \A q \in Requests : Adds(q)' => q # r /\ Adds(q) /\ job'[q] = job[q]
    BY <1>0, <1>2 DEF Adds
  <2>2. \A id \in Ids : id # job[r].id => rows'[id] = rows[id]
    BY <1>0, <1>2
  <2>3. job[r].id \notin walk.start
    BY <1>0, <1>2
  <2> QED
    BY <1>0, <1>2, <2>1, <2>2, <2>3 DEF Own
<1>3. ASSUME NEW r \in Requests, NEW u \in Callers,
             lastId' = lastId + 1,
             job' = [job EXCEPT ![r] = [op |-> "add", user |-> u, id |-> lastId + 1]],
             rows' = rows
      PROVE  /\ walk.start \subseteq 1 .. lastId'
             /\ \A q \in Requests : Adds(q)' => job'[q].id \notin walk.start
             /\ \A v : walk.start \cap Own(v)' \subseteq Own(v)
  <2>1. \A q \in Requests : (Adds(q)' /\ q # r) => Adds(q) /\ job'[q] = job[q]
    BY <1>0, <1>3 DEF Adds
  <2>2. job'[r].id = lastId + 1 /\ lastId + 1 \notin walk.start
    BY <1>0, <1>3
  <2>3. walk.start \subseteq 1 .. lastId'
    BY <1>0, <1>3
  <2> QED
    BY <1>0, <1>3, <2>1, <2>2, <2>3 DEF Own
<1> QED
  BY <1>1, <1>2, <1>3, RowEffect

LEMMA CoveredKept ==
    ASSUME NEW w, NEW from, Covered(w, from),
           w.start \cap Own(w.user)' \subseteq Own(w.user)
    PROVE  Covered(w, from)'
BY DEF Covered

LEMMA WalkStep ==
    ASSUME Inv, [Next]_vars
    PROVE  Walking'
<1> USE DEF tables
<1>1. PICK w, v : w = walk /\ v = walk'
  OBVIOUS
<1> DEFINE Onward == v # None =>
               /\ v.start \subseteq 1 .. lastId'
               /\ \A r \in Requests : Adds(r)' => job'[r].id \notin v.start
               /\ Falls(v.seen)
               /\ v.phase = "listing" => Covered(v, v.after)'
               /\ v.phase = "idle" => v.cursor \in Ids /\ Covered(v, v.cursor)'
               /\ v.phase = "ended" => Covered(v, 1)'
<1>2. SUFFICES Onward
  BY <1>1 DEF Walking
<1>3. w # None =>
        /\ w \in Walks
        /\ Falls(w.seen)
        /\ w.phase = "listing" => Covered(w, w.after)
        /\ w.phase = "idle" => w.cursor \in Ids /\ Covered(w, w.cursor)
        /\ w.phase = "ended" => Covered(w, 1)
  BY <1>1 DEF Inv, TypeOK, Walking
<1>4. w # None =>
        /\ w.start \subseteq 1 .. lastId'
        /\ \A r \in Requests : Adds(r)' => job'[r].id \notin w.start
        /\ w.start \cap Own(w.user)' \subseteq Own(w.user)
  BY <1>1, StartKept
<1>5. CASE v = w
  BY <1>3, <1>4, <1>5, CoveredKept
<1>6. CASE v = None
  BY <1>6
<1>7. ASSUME NEW u \in Callers, StartWalk(u)
      PROVE  Onward
  <2>1. /\ v = [user |-> u, phase |-> "listing", cursor |-> None,
                after |-> MaxId + 1, seen |-> <<>>, start |-> Own(u)]
        /\ rows' = rows /\ lastId' = lastId /\ job' = job
    BY <1>1, <1>7 DEF StartWalk
  <2>2. v.start \subseteq 1 .. lastId'
    BY <2>1 DEF Inv, TypeOK, Reserved, Own, Ids
  <2>3. \A r \in Requests : Adds(r)' => job'[r].id \notin v.start
    BY <2>1 DEF Inv, Reserved, Own, Adds
  <2>4. Covered(v, v.after)'
    <3>1. \A id \in Ids : ~ (id >= MaxId + 1)
      BY BoundsAssumption DEF Ids
    <3>2. v.start \subseteq Ids /\ DOMAIN v.seen = {} /\ v.after = MaxId + 1
      BY <2>1 DEF Own
    <3> QED
      BY <3>1, <3>2 DEF Covered
  <2>5. Falls(v.seen)
    BY <2>1 DEF Falls
  <2> QED
    BY <2>1, <2>2, <2>3, <2>4, <2>5
<1>8. CASE FindCursor
  <2>1. /\ w # None /\ w.phase = "idle"
        /\ v = IF w.cursor \in Own(w.user)
               THEN [w EXCEPT !.phase = "listing", !.after = w.cursor]
               ELSE [w EXCEPT !.phase = "broken"]
    BY <1>1, <1>3, <1>8 DEF FindCursor, Walks
  <2>2. CASE w.cursor \in Own(w.user)
    <3>1. /\ v.phase = "listing" /\ v.after = w.cursor
          /\ v.start = w.start /\ v.seen = w.seen /\ v.user = w.user
      BY <1>3, <2>1, <2>2 DEF Walks
    <3>2. Covered(w, w.cursor)'
      BY <1>3, <1>4, <2>1, CoveredKept
    <3>3. Covered(v, v.after)'
      BY <3>1, <3>2 DEF Covered
    <3> QED
      BY <1>3, <1>4, <2>1, <3>1, <3>3
  <2>3. CASE w.cursor \notin Own(w.user)
    <3>1. v.phase = "broken" /\ v.start = w.start /\ v.seen = w.seen
      BY <1>3, <2>1, <2>3 DEF Walks
    <3> QED
      BY <1>3, <1>4, <2>1, <3>1
  <2> QED
    BY <2>2, <2>3
<1>9. CASE ListPage
  <2>1. w # None /\ w.phase = "listing" /\ w \in Walks /\ w.after \in Int
    BY <1>1, <1>3, <1>9 DEF ListPage, Walks
  <2> DEFINE below == {id \in Own(w.user) : id < w.after}
             P == Page(w.user, w.after)
  <2>2. /\ IsFiniteSet(below) /\ P \subseteq below
        /\ Cardinality(P) < PageSize => P = below
        /\ \A m \in P : \A id \in below : id >= m => id \in P
    BY <2>1, PageFacts
  <2>3. PICK page \in Descending(P) :
           v = IF Len(page) < PageSize
               THEN [w EXCEPT !.phase = "ended", !.seen = w.seen \o page]
               ELSE [w EXCEPT !.phase = "idle", !.seen = w.seen \o page,
                              !.cursor = Last(page)]
    BY <1>1, <1>9, <2>1 DEF ListPage, Walks
  <2>4. P \in SUBSET Ids /\ rows' = rows
    BY <1>9, <2>2 DEF ListPage, Own
  <2>5. /\ page \in Seq(Ids) /\ Falls(page) /\ ToSet(page) = P /\ Len(page) = Cardinality(P)
        /\ Len(page) # 0 => Last(page) \in P /\ \A x \in P : x >= Last(page)
    BY <2>4, DescendingFacts
  <2>6. /\ w.seen \in Seq(Ids) /\ Falls(w.seen)
        /\ \A i \in DOMAIN w.seen : w.seen[i] >= w.after
        /\ \A id \in w.start \cap Own(w.user) : id >= w.after => id \in ToSet(w.seen)
    BY <1>3, <2>1 DEF Walks, Covered
  <2> DEFINE seen == w.seen \o page
  <2>7. seen \in Seq(Ids) /\ Falls(seen) /\ ToSet(seen) = ToSet(w.seen) \cup P
    BY <2>1, <2>2, <2>5, <2>6, AppendFacts
  <2>8. /\ v.start = w.start /\ v.user = w.user /\ v.seen = seen
        /\ v.phase = IF Len(page) < PageSize THEN "ended" ELSE "idle"
        /\ ~ (Len(page) < PageSize) => v.cursor = Last(page)
    BY <2>1, <2>3 DEF Walks
  <2>9. \A id \in Ids : id \in Int /\ id >= 1
    BY DEF Ids
  <2>10. Own(v.user)' = Own(w.user) /\ Own(w.user) \subseteq Ids
    BY <2>4, <2>8 DEF Own
  <2> HIDE DEF seen
  <2>11. \A i \in DOMAIN seen : seen[i] \in Ids
    BY <2>7
  <2>12. CASE Len(page) < PageSize
    <3>1. \A id \in w.start \cap Own(w.user) : id \in ToSet(seen)
      BY <2>1, <2>2, <2>5, <2>6, <2>7, <2>9, <2>10, <2>12
    <3>2. Covered(v, 1)'
      BY <2>8, <2>9, <2>10, <2>11, <3>1 DEF Covered
    <3> QED
      BY <1>4, <2>1, <2>7, <2>8, <2>12, <3>2
  <2>13. CASE ~ (Len(page) < PageSize)
    <3>1. Last(page) \in P /\ (\A x \in P : x >= Last(page)) /\ Last(page) \in Ids
      BY <2>4, <2>5, <2>13, BoundsAssumption
    <3>2. Last(page) \in Int /\ Last(page) < w.after
      BY <2>2, <2>9, <3>1
    <3>3. \A x \in ToSet(seen) : x >= Last(page)
      <4>1. \A x \in ToSet(w.seen) : x \in Ids /\ x >= w.after
        BY <2>6 DEF ToSet
      <4> QED
        BY <2>1, <2>7, <2>9, <3>1, <3>2, <4>1
    <3>4. \A i \in DOMAIN seen : seen[i] >= Last(page)
      BY <3>3 DEF ToSet
    <3>5. \A id \in w.start \cap Own(w.user) : id >= Last(page) => id \in ToSet(seen)
      <4> SUFFICES ASSUME NEW id \in w.start \cap Own(w.user), id >= Last(page)
                   PROVE  id \in ToSet(seen)
        OBVIOUS
      <4>1. CASE id >= w.after
        BY <2>6, <2>7, <4>1
      <4>2. CASE id < w.after
        BY <2>2, <2>7, <3>1, <4>2
      <4> QED
        BY <2>1, <2>9, <2>10, <4>1, <4>2
    <3>6. Covered(v, v.cursor)'
      BY <2>8, <2>10, <2>13, <3>4, <3>5 DEF Covered
    <3> QED
      BY <1>4, <2>1, <2>7, <2>8, <2>13, <3>1, <3>6
  <2> QED
    BY <2>12, <2>13
<1>10. CASE EndWalk
  BY <1>1, <1>6, <1>10 DEF EndWalk
<1>11. ASSUME NEW r \in Requests,
              \/ \E k \in Keys : CheckKey(r, k)
              \/ \E u \in Callers : Add(r, u) \/ WipeConstituents(r, u)
              \/ Register(r) \/ Insert(r) \/ WipeAccount(r) \/ Fail(r)
       PROVE  v = w
  BY <1>1, <1>11 DEF CheckKey, Add, WipeConstituents, Register, Insert, WipeAccount, Fail
<1>12. ASSUME NEW u \in Callers, NEW id \in Ids,
              Delete(u, id) \/ \E dto \in Edits : Edit(u, id, dto)
       PROVE  v = w
  BY <1>1, <1>12 DEF Delete, Edit
<1>13. CASE UNCHANGED vars
  BY <1>1, <1>5, <1>13 DEF vars
<1> QED
  <2> HIDE DEF Onward
  <2> QED
    BY <1>5, <1>7, <1>8, <1>9, <1>10, <1>11, <1>12, <1>13 DEF Next
-----------------------------------------------------------------------------
LEMMA InitInv == Init => Inv
<1> SUFFICES ASSUME Init
             PROVE  Inv
  OBVIOUS
<1> USE DEF Init
<1>1. TypeOK
  BY BoundsAssumption DEF TypeOK, Callers, Nobody
<1>2. OneDeviceEach
  BY DEF OneDeviceEach
<1>3. Registering = {} /\ \A k \in Keys : With(k) = {} /\ Rivals(k) = {}
  BY DEF Registering, With, Rivals
<1>4. Cardinality({}) = 0 /\ IsFiniteSet({})
  BY FS_EmptySet
<1>5. Room
  BY <1>3, <1>4, BoundsAssumption DEF Room
<1>6. Places
  <2>1. Cardinality(Requests) \in Nat
    BY Counts
  <2> QED
    BY <1>3, <1>4, <2>1 DEF Places
<1>7. WipedBefore /\ WipedIsGone
  BY DEF WipedBefore, WipedIsGone
<1>8. Reserved
  BY DEF Reserved, Adds
<1>9. Walking
  BY DEF Walking
<1> QED
  BY <1>1, <1>2, <1>5, <1>6, <1>7, <1>8, <1>9 DEF Inv

LEMMA NextInv ==
    ASSUME Inv, [Next]_vars
    PROVE  Inv'
BY TypeStep, RoomStep, OneDeviceStep, WipedStep, ReservedStep, WalkStep DEF Inv

LEMMA Invariance == Spec => []Inv
<1>1. Inv /\ [Next]_vars => Inv'
  BY NextInv
<1> QED
  BY <1>1, InitInv, PTL DEF Spec

(***************************************************************************)
(* The references between the tables users, devices and constituents hold, *)
(* and every user has exactly one device: registration and DELETE /auth/me *)
(* move the two together, for any number of requests in progress.          *)
(***************************************************************************)
THEOREM TablesAgree == Spec => []Consistent
<1>1. Inv => Consistent
  BY DEF Inv, Consistent
<1> QED
  BY <1>1, Invariance, PTL

(***************************************************************************)
(* One key is given to at most as many devices as there are worker         *)
(* threads, however often users are removed and register again: a          *)
(* registration that saw no device with its key holds one of the places    *)
(* that the devices with the key have not taken.                           *)
(***************************************************************************)
THEOREM KeysAreFew == Spec => []FewDuplicates
<1>1. ASSUME Inv
      PROVE  FewDuplicates
  <2> SUFFICES ASSUME NEW k \in Keys
               PROVE  Cardinality({d \in devices : d.key = k}) <= Cardinality(Requests)
    BY DEF FewDuplicates
  <2>1. Cardinality(With(k)) + Cardinality(Rivals(k)) <= Cardinality(Requests)
    BY <1>1 DEF Inv, Places
  <2>2. Cardinality(Rivals(k)) \in Nat /\ Cardinality(Requests) \in Nat
    <3>1. Rivals(k) \subseteq Requests
      BY DEF Rivals
    <3> QED
      BY <3>1, Counts
  <2>3. Cardinality(With(k)) \in Nat
    <3>1. IsFiniteSet(devices) /\ With(k) \subseteq devices
      BY <1>1 DEF Inv, Places, With
    <3> QED
      BY <3>1, CountsOf
  <2>4. Cardinality(With(k)) <= Cardinality(Requests)
    BY <2>1, <2>2, <2>3
  <2> QED
    BY <2>4 DEF With
<1>2. Inv => FewDuplicates
  BY <1>1
<1> QED
  BY <1>2, Invariance, PTL

(***************************************************************************)
(* DELETE /auth/me answered with 204 is final: none of the three tables    *)
(* ever holds a row of that user again, whatever its token is used for.    *)
(***************************************************************************)
THEOREM WipedStaysGone == Spec => []WipedIsGone
<1>1. Inv => WipedIsGone
  BY DEF Inv
<1> QED
  BY <1>1, Invariance, PTL

(***************************************************************************)
(* A client that pages through GET /constituents sees every row that was   *)
(* there from its first request to its last, and none twice or out of      *)
(* order: for any page size, and any rows that come and go meanwhile.      *)
(***************************************************************************)
THEOREM ListsExactly == Spec => []WalkIsExact
<1>1. ASSUME Inv
      PROVE  WalkIsExact
  <2> SUFFICES ASSUME walk # None
               PROVE  /\ Falls(walk.seen)
                      /\ walk.phase = "ended" =>
                            walk.start \cap Own(walk.user) \subseteq ToSet(walk.seen)
    BY DEF WalkIsExact, Falls
  <2>1. \A id \in Own(walk.user) : id >= 1
    BY DEF Own, Ids
  <2> QED
    BY <1>1, <2>1 DEF Inv, Walking, Covered
<1>2. Inv => WalkIsExact
  BY <1>1
<1> QED
  BY <1>2, Invariance, PTL

(* A step changes a row only for its user, and in it only what it names. *)
LEMMA OwnRowsStep ==
    ASSUME Inv, [Next]_vars, NEW id \in Ids, rows[id] # None, rows'[id] # rows[id]
    PROVE  /\ by'.user = rows[id].user
           /\ rows'[id] # None =>
                 /\ rows'[id].user = rows[id].user
                 /\ \A f \in Fields : rows'[id].text[f] # rows[id].text[f] => f \in by'.fields
<1> USE DEF tables
<1>0. rows \in [Ids -> [user : users, text : Texts] \cup {None}]
  BY DEF Inv, TypeOK
<1>1. ASSUME NEW u \in Callers, NEW i \in Ids, Delete(u, i)
      PROVE  by'.user = rows[id].user /\ rows'[id] = None
  BY <1>0, <1>1 DEF Delete, Own, By
<1>2. ASSUME NEW r \in Requests, NEW u \in Callers, WipeConstituents(r, u)
      PROVE  by'.user = rows[id].user /\ rows'[id] = None
  BY <1>0, <1>2 DEF WipeConstituents, Own, By
<1>3. ASSUME NEW u \in Callers, NEW i \in Ids, NEW dto \in Edits, Edit(u, i, dto)
      PROVE  /\ by'.user = rows[id].user
             /\ rows'[id].user = rows[id].user
             /\ \A f \in Fields : rows'[id].text[f] # rows[id].text[f] => f \in by'.fields
  <2>1. i = id
    BY <1>0, <1>3 DEF Edit
  <2>2. /\ rows[id] \in [user : users, text : Texts] /\ rows[id].user = u
        /\ by' = [user |-> u, fields |-> DOMAIN dto]
        /\ rows' = [rows EXCEPT ![id] = [rows[id] EXCEPT !.text =
                   [f \in Fields |-> IF f \in DOMAIN dto THEN dto[f] ELSE rows[id].text[f]]]]
    BY <1>0, <1>3, <2>1 DEF Edit, Own, By
  <2>3. /\ rows'[id].user = u
        /\ rows'[id].text = [f \in Fields |-> IF f \in DOMAIN dto THEN dto[f] ELSE rows[id].text[f]]
    BY <1>0, <2>2
  <2> QED
    BY <2>2, <2>3
<1>4. ASSUME NEW r \in Requests, Insert(r)
      PROVE  FALSE
  <2>1. Adds(r) /\ rows[job[r].id] = None
    BY <1>4 DEF Insert, Adds, Inv, Reserved
  <2> QED
    BY <1>0, <1>4, <2>1 DEF Insert
<1>5. ASSUME NEW r \in Requests,
             \/ \E k \in Keys : CheckKey(r, k)
             \/ \E u \in Callers : Add(r, u)
             \/ Register(r) \/ WipeAccount(r) \/ Fail(r)
      PROVE  FALSE
  BY <1>5 DEF CheckKey, Add, Register, WipeAccount, Fail
<1>6. ASSUME NEW u \in Callers, StartWalk(u)
      PROVE  FALSE
  BY <1>6 DEF StartWalk
<1>7. CASE FindCursor \/ ListPage \/ EndWalk \/ UNCHANGED vars
  BY <1>7 DEF FindCursor, ListPage, EndWalk, vars
<1> QED
  BY <1>1, <1>2, <1>3, <1>4, <1>5, <1>6, <1>7 DEF Next

(***************************************************************************)
(* A request touches only rows of its own user, and an edit only the       *)
(* fields it has, whatever other requests are doing at the time.           *)
(***************************************************************************)
THEOREM TouchesOwnRows == Spec => OwnRowsOnly
<1>1. Inv /\ [Next]_vars =>
        [\A id \in Ids : (rows[id] # None /\ rows'[id] # rows[id]) =>
          /\ by'.user = rows[id].user
          /\ rows'[id] # None =>
                /\ rows'[id].user = rows[id].user
                /\ \A f \in Fields : rows'[id].text[f] # rows[id].text[f] => f \in by'.fields]_vars
  BY OwnRowsStep
<1> QED
  BY <1>1, Invariance, PTL DEF Spec, OwnRowsOnly
=============================================================================
