------------------------ MODULE ConnectionPoolProofs ------------------------
(***************************************************************************)
(* Safety of ConnectionPool for any number of threads and any POOL_SIZE.   *)
(***************************************************************************)
EXTENDS ConnectionPool, SequenceTheorems, FiniteSetTheorems, TLAPS

(* What pop_back() leaves: all entries but the last, in their places. *)
LEMMA FrontLast ==
    ASSUME NEW S, NEW s \in Seq(S), s # <<>>
    PROVE  /\ Len(s) \in Nat \ {0}
           /\ Front(s) \in Seq(S)
           /\ Len(Front(s)) = Len(s) - 1
           /\ \A i \in 1 .. Len(s) - 1 : Front(s)[i] = s[i]
           /\ Last(s) = s[Len(s)]
           /\ Last(s) \in S
  <1>1. Len(s) \in Nat \ {0} /\ \A i \in 1 .. Len(s) : s[i] \in S
    BY EmptySeq, LenProperties, ElementOfSeq
  <1>2. \A i \in 1 .. Len(s) - 1 : s[i] \in S
    BY <1>1
  <1>3. /\ SubSeq(s, 1, Len(s) - 1) \in Seq(S)
        /\ Len(SubSeq(s, 1, Len(s) - 1)) = Len(s) - 1
        /\ \A i \in 1 .. Len(s) - 1 : SubSeq(s, 1, Len(s) - 1)[i] = s[i]
    <2> DEFINE n == Len(s) - 1
    <2>1. n \in Nat /\ \A i \in 1 .. n : s[i] \in S
      BY <1>1, <1>2
    <2> HIDE DEF n
    <2>2. /\ SubSeq(s, 1, n) \in Seq(S)
          /\ Len(SubSeq(s, 1, n)) = IF 1 <= n THEN n - 1 + 1 ELSE 0
          /\ \A i \in 1 .. n - 1 + 1 : SubSeq(s, 1, n)[i] = s[1 + i - 1]
      BY <2>1, SubSeqProperties
    <2>3. /\ (IF 1 <= n THEN n - 1 + 1 ELSE 0) = n
          /\ n - 1 + 1 = n
          /\ \A i \in 1 .. n : 1 + i - 1 = i
      BY <2>1
    <2> QED
      BY <2>2, <2>3 DEF n
  <1>4. /\ Front(s) \in Seq(S)
        /\ Len(Front(s)) = Len(s) - 1
        /\ \A i \in 1 .. Len(s) - 1 : Front(s)[i] = s[i]
    BY <1>3 DEF Front
  <1> QED
    BY <1>1, <1>4 DEF Last

(* emplace_back() keeps the entries and adds one. *)
LEMMA AppendEntries ==
    ASSUME NEW S, NEW s \in Seq(S), NEW e \in S
    PROVE  /\ Append(s, e) \in Seq(S)
           /\ Len(s) \in Nat
           /\ DOMAIN s = 1 .. Len(s)
           /\ DOMAIN Append(s, e) = 1 .. Len(s) + 1
           /\ \A i \in 1 .. Len(s) : Append(s, e)[i] = s[i]
           /\ Append(s, e)[Len(s) + 1] = e
  BY AppendProperties, LenProperties
-----------------------------------------------------------------------------
(* The constructor's stack. *)
LEMMA InitialStack ==
    /\ Int8(PoolSize) \in Int
    /\ [i \in Conns |-> i] \in Seq(Conns)
  <1>1. Int8(PoolSize) \in Int
    BY PoolSizeAssumption DEF Int8
  <1>2. \E n \in Nat : Conns = 1 .. n
    <2>1. CASE Int8(PoolSize) >= 0
      BY <1>1, <2>1 DEF Conns
    <2>2. CASE Int8(PoolSize) < 0
      BY <1>1, <2>2, Conns = 1 .. 0 DEF Conns
    <2> QED
      BY <1>1, <2>1, <2>2
  <1>3. [i \in Conns |-> i] \in Seq(Conns)
    BY <1>2, SeqDef
  <1> QED
    BY <1>1, <1>3

(***************************************************************************)
(* The inductive invariant.  The types need Accounted: release() pushes    *)
(* what its guard owns, which is a connection only because exactly the     *)
(* threads past acquire() own one.                                         *)
(***************************************************************************)
Inv == TypeOK /\ Accounted /\ NoLostWakeup

(* A thread takes the top of the stack. *)
LEMMA TakeStep ==
    ASSUME TypeOK, Accounted, NEW t \in Threads, pc[t] # "holding", Take(t)
    PROVE  TypeOK' /\ Accounted'
  <1> DEFINE n == Len(stack)
  <1>1. /\ n \in Nat \ {0}
        /\ stack' \in Seq(Conns)
        /\ Len(stack') = n - 1
        /\ \A i \in 1 .. n - 1 : stack'[i] = stack[i]
        /\ conn' = [conn EXCEPT ![t] = stack[n]]
        /\ stack[n] \in Conns
    BY FrontLast DEF TypeOK, Take
  <1>2. /\ DOMAIN stack = 1 .. n
        /\ DOMAIN stack' = 1 .. n - 1
    BY <1>1, LenProperties DEF TypeOK
  <1>3. ToSet(stack') = ToSet(stack) \ {stack[n]}
    BY <1>1, <1>2 DEF Accounted, NoRepeats, ToSet
  <1>4. stack[n] \in ToSet(stack) /\ stack[n] # None
    BY <1>1, <1>2, NoneAssumption DEF ToSet
  <1>5. conn[t] = None
    BY DEF Accounted, GuardsMatch
  <1>6. /\ pc' = [pc EXCEPT ![t] = "holding"]
        /\ TypeOK'
    BY <1>1 DEF TypeOK, Take, States
  <1>7. NoRepeats'
    BY <1>1, <1>2 DEF Accounted, NoRepeats
  <1>8. Exclusive'
    BY <1>1, <1>3, <1>4, <1>5 DEF Accounted, Exclusive, TypeOK
  <1>9. GuardsMatch'
    BY <1>1, <1>4, <1>6 DEF Accounted, GuardsMatch, TypeOK
  <1>10. NoneLeaked'
    <2>1. {conn'[u] : u \in Threads} = ({conn[u] : u \in Threads \ {t}}) \cup {stack[n]}
      BY <1>1 DEF TypeOK
    <2>2. {conn[u] : u \in Threads} = ({conn[u] : u \in Threads \ {t}}) \cup {None}
      BY <1>5
    <2> QED
      BY <1>3, <1>4, <2>1, <2>2 DEF Accounted, NoneLeaked
  <1> QED
    BY <1>6, <1>7, <1>8, <1>9, <1>10 DEF Accounted

(* A thread without a connection moves on inside or out of acquire(). *)
LEMMA MoveStep ==
    ASSUME TypeOK, Accounted, NEW t \in Threads, pc[t] # "holding",
           NEW where \in States \ {"holding"},
           pc' = [pc EXCEPT ![t] = where], UNCHANGED <<stack, conn>>
    PROVE  TypeOK' /\ Accounted'
  BY DEF TypeOK, Accounted, NoRepeats, Exclusive, GuardsMatch, NoneLeaked, States

(* A guard gives its connection back. *)
LEMMA ReleaseStep ==
    ASSUME TypeOK, Accounted, NEW t \in Threads, Release(t)
    PROVE  TypeOK' /\ Accounted'
  <1> DEFINE n == Len(stack)
             c == conn[t]
  <1>1. c \in Conns /\ c # None /\ c \notin ToSet(stack)
    BY DEF TypeOK, Accounted, GuardsMatch, Exclusive, Release
  <1>2. /\ stack' \in Seq(Conns)
        /\ n \in Nat
        /\ DOMAIN stack = 1 .. n
        /\ DOMAIN stack' = 1 .. n + 1
        /\ \A i \in 1 .. n : stack'[i] = stack[i]
        /\ stack'[n + 1] = c
    BY <1>1, AppendEntries DEF TypeOK, Release
  <1>3. ToSet(stack') = ToSet(stack) \cup {c}
    BY <1>2 DEF ToSet
  <1>4. conn' = [conn EXCEPT ![t] = None]
    BY DEF Release
  <1>5. /\ pc' \in [Threads -> States]
        /\ \A u \in Threads : pc'[u] = "holding" <=> (pc[u] = "holding" /\ u # t)
    BY DEF TypeOK, Release, States, Asleep
  <1>6. TypeOK'
    BY <1>2, <1>4, <1>5 DEF TypeOK
  <1>7. NoRepeats'
    BY <1>1, <1>2 DEF Accounted, NoRepeats, ToSet
  <1>8. Exclusive'
    BY <1>1, <1>3, <1>4 DEF Accounted, Exclusive, TypeOK
  <1>9. GuardsMatch'
    BY <1>4, <1>5 DEF Accounted, GuardsMatch, TypeOK
  <1>10. NoneLeaked'
    <2>1. {conn'[u] : u \in Threads} = ({conn[u] : u \in Threads \ {t}}) \cup {None}
      BY <1>4 DEF TypeOK
    <2>2. {conn[u] : u \in Threads} = ({conn[u] : u \in Threads \ {t}}) \cup {c}
      OBVIOUS
    <2> QED
      BY <1>1, <1>3, <2>1, <2>2 DEF Accounted, NoneLeaked
  <1> QED
    BY <1>6, <1>7, <1>8, <1>9, <1>10 DEF Accounted
-----------------------------------------------------------------------------
(* Asleep and Awake are finite, and where a thread goes moves it between   *)
(* the two.                                                                *)
LEMMA Counts ==
    /\ IsFiniteSet(Asleep) /\ IsFiniteSet(Awake)
    /\ Cardinality(Awake) \in Nat
  <1>1. Asleep \in SUBSET Threads /\ Awake \in SUBSET Threads
    BY DEF Asleep, Awake
  <1>2. IsFiniteSet(Asleep) /\ IsFiniteSet(Awake)
    BY <1>1, ThreadsAssumption, FS_Subset
  <1> QED
    BY <1>2, FS_CardinalityType

(* acquire() by a thread outside the pool: it sleeps beside an empty stack *)
(* or takes a connection nobody need be woken for.                         *)
LEMMA AcquireWakes ==
    ASSUME TypeOK, NoLostWakeup, NEW t \in Threads, Acquire(t)
    PROVE  NoLostWakeup'
  <1>1. Awake' = Awake
    BY DEF Awake, Acquire, Take, TypeOK
  <1>2. CASE Take(t)
    <2>1. Asleep' = Asleep
      BY <1>2 DEF Asleep, Acquire, Take, TypeOK
    <2>2. Len(stack) \in Nat /\ Len(stack') = Len(stack) - 1
      BY <1>2, FrontLast DEF TypeOK, Take
    <2> QED
      BY <1>1, <2>1, <2>2, Counts DEF NoLostWakeup
  <1>3. CASE ~Take(t)
    <2>1. stack' = <<>> /\ Len(stack') = 0
      BY <1>3, EmptySeq DEF Acquire
    <2> QED
      BY <1>1, <2>1, Counts DEF NoLostWakeup
  <1> QED
    BY <1>2, <1>3

(* A thread that leaves the wait is on its way. *)
LEMMA WakeWakes ==
    ASSUME TypeOK, NoLostWakeup, NEW t \in Threads, SpuriousWake(t) \/ Expire(t)
    PROVE  NoLostWakeup'
  <1>1. Awake' = Awake \cup {t}
    BY DEF Awake, SpuriousWake, Expire, TypeOK, States
  <1>2. Cardinality(Awake') >= Cardinality(Awake) /\ Cardinality(Awake') \in Nat
    <2>1. Cardinality(Awake \cup {t}) =
             IF t \in Awake THEN Cardinality(Awake) ELSE Cardinality(Awake) + 1
      BY Counts, FS_AddElement
    <2> QED
      BY <1>1, <2>1, Counts
  <1>3. Asleep' \subseteq Asleep /\ stack' = stack
    BY DEF Asleep, SpuriousWake, Expire, TypeOK, States
  <1>4. Len(stack) \in Nat
    BY LenProperties DEF TypeOK
  <1> QED
    BY <1>2, <1>3, <1>4, Counts DEF NoLostWakeup

(* A thread on its way takes one connection and is not on its way any more, *)
(* or finds the stack empty.                                                *)
LEMMA ResumeWakes ==
    ASSUME TypeOK, NoLostWakeup, NEW t \in Threads, Resume(t)
    PROVE  NoLostWakeup'
  <1>1. t \in Awake
    BY DEF Awake, Resume
  <1>2. Awake' = Awake \ {t}
    BY DEF Awake, Resume, Take, TypeOK
  <1>3. Cardinality(Awake') = Cardinality(Awake) - 1 /\ Cardinality(Awake') \in Nat
    BY <1>1, <1>2, Counts, FS_RemoveElement, FS_CardinalityType
  <1>4. CASE Take(t)
    <2>1. Asleep' = Asleep
      BY <1>1, <1>4 DEF Asleep, Awake, Take, TypeOK
    <2>2. Len(stack) \in Nat /\ Len(stack') = Len(stack) - 1
      BY <1>4, FrontLast DEF TypeOK, Take
    <2> QED
      BY <1>3, <2>1, <2>2, Counts DEF NoLostWakeup
  <1>5. CASE ~Take(t)
    <2>1. stack' = <<>> /\ Len(stack') = 0
      BY <1>5, EmptySeq DEF Resume
    <2> QED
      BY <1>3, <2>1 DEF NoLostWakeup
  <1> QED
    BY <1>4, <1>5

(* release() adds one connection and puts one sleeper, if any, on its way. *)
LEMMA ReleaseWakes ==
    ASSUME TypeOK, Accounted, NoLostWakeup, NEW t \in Threads, Release(t)
    PROVE  NoLostWakeup'
  <1>1. Len(stack) \in Nat /\ Len(stack') = Len(stack) + 1
    BY AppendProperties, LenProperties DEF TypeOK, Accounted, GuardsMatch, Release
  <1>2. CASE Asleep = {}
    <2>1. Asleep' = {}
      BY <1>2 DEF Asleep, Release, TypeOK
    <2> QED
      BY <2>1 DEF NoLostWakeup
  <1>3. ASSUME NEW u \in Asleep, pc' = [pc EXCEPT ![t] = "idle", ![u] = "woken"]
        PROVE  NoLostWakeup'
    <2>1. u \in Threads /\ u # t /\ u \notin Awake
      BY <1>3 DEF Asleep, Awake, Release
    <2>2. Awake' = Awake \cup {u}
      BY <1>3, <2>1 DEF Awake, Asleep, Release, TypeOK
    <2>3. Cardinality(Awake') = Cardinality(Awake) + 1
      BY <2>1, <2>2, Counts, FS_AddElement
    <2> QED
      BY <1>1, <1>3, <2>3, Counts DEF NoLostWakeup
  <1> QED
    BY <1>2, <1>3 DEF Release
-----------------------------------------------------------------------------
LEMMA InitInv == Init => Inv
  <1> SUFFICES ASSUME Init PROVE Inv
    OBVIOUS
  <1>1. TypeOK
    BY InitialStack DEF Init, TypeOK, States
  <1>2. DOMAIN stack = Conns /\ \A i \in Conns : stack[i] = i
    BY DEF Init
  <1>3. ToSet(stack) = Conns
    BY <1>2 DEF ToSet
  <1>4. Accounted
    BY <1>2, <1>3, NoneAssumption
    DEF Init, Accounted, NoRepeats, Exclusive, GuardsMatch, NoneLeaked
  <1>5. NoLostWakeup
    BY DEF Init, NoLostWakeup, Asleep
  <1> QED
    BY <1>1, <1>4, <1>5 DEF Inv

LEMMA NextInv == Inv /\ [Next]_vars => Inv'
  <1> SUFFICES ASSUME Inv, [Next]_vars PROVE Inv'
    OBVIOUS
  <1> USE DEF Inv
  <1>1. ASSUME NEW t \in Threads, Acquire(t) PROVE Inv'
    <2>1. pc[t] # "holding"
      BY <1>1 DEF Acquire
    <2>2. CASE Take(t)
      BY <1>1, <2>1, <2>2, TakeStep, AcquireWakes
    <2>3. CASE ~Take(t)
      BY <1>1, <2>1, <2>3, MoveStep, AcquireWakes DEF Acquire, States
    <2> QED
      BY <2>2, <2>3
  <1>2. ASSUME NEW t \in Threads, SpuriousWake(t) PROVE Inv'
    BY <1>2, MoveStep, WakeWakes DEF SpuriousWake, States
  <1>3. ASSUME NEW t \in Threads, Expire(t) PROVE Inv'
    BY <1>3, MoveStep, WakeWakes DEF Expire, States
  <1>4. ASSUME NEW t \in Threads, Resume(t) PROVE Inv'
    <2>1. pc[t] # "holding"
      BY <1>4 DEF Resume
    <2>2. CASE Take(t)
      BY <1>4, <2>1, <2>2, TakeStep, ResumeWakes
    <2>3. CASE ~Take(t)
      <3>1. PICK where \in States \ {"holding"} : pc' = [pc EXCEPT ![t] = where]
        BY <1>4, <2>3 DEF Resume, States
      <3> QED
        BY <1>4, <2>1, <2>3, <3>1, MoveStep, ResumeWakes DEF Resume
    <2> QED
      BY <2>2, <2>3
  <1>5. ASSUME NEW t \in Threads, Release(t) PROVE Inv'
    BY <1>5, ReleaseStep, ReleaseWakes
  <1>6. CASE UNCHANGED vars
    BY <1>6 DEF vars, TypeOK, Accounted, NoRepeats, Exclusive, GuardsMatch,
                NoneLeaked, NoLostWakeup, Asleep, Awake
  <1> QED
    BY <1>1, <1>2, <1>3, <1>4, <1>5, <1>6 DEF Next, Step

LEMMA Invariance == Spec => []Inv
  BY InitInv, NextInv, PTL DEF Spec

(* The pool implements PoolPromise, for any number of threads and any      *)
(* POOL_SIZE: each of its steps is one of the promise's or changes nothing *)
(* there.                                                                  *)
LEMMA StepPromise ==
    ASSUME Inv, [Next]_vars
    PROVE  [Promise!Next]_(Promise!vars)
  <1> DEFINE free    == ToSet(stack)
             waiting == {t \in Threads : pc[t] \in {"asleep", "woken", "late"}}
             refused == {t \in Threads : pc[t] = "thrown"}
  <1> USE DEF Inv
  <1>1. ASSUME NEW t \in Threads, pc[t] # "holding", Take(t)
        PROVE  \E c \in Conns : Promise!Grant(t, c)
    <2>1. /\ Len(stack) \in Nat \ {0}
          /\ Len(stack') = Len(stack) - 1
          /\ stack' \in Seq(Conns)
          /\ \A i \in 1 .. Len(stack) - 1 : stack'[i] = stack[i]
          /\ conn' = [conn EXCEPT ![t] = stack[Len(stack)]]
          /\ stack[Len(stack)] \in Conns
      BY <1>1, FrontLast DEF TypeOK, Take
    <2>2. DOMAIN stack = 1 .. Len(stack) /\ DOMAIN stack' = 1 .. Len(stack) - 1
      BY <2>1, LenProperties DEF TypeOK
    <2>3. /\ stack[Len(stack)] \in free
          /\ free' = free \ {stack[Len(stack)]}
      BY <2>1, <2>2 DEF Accounted, NoRepeats, ToSet
    <2>4. conn[t] = None
      BY <1>1 DEF Accounted, GuardsMatch
    <2>5. waiting' = waiting \ {t} /\ refused' = refused \ {t}
      BY <1>1 DEF Take, TypeOK
    <2>6. PICK c \in Conns : c = stack[Len(stack)]
      BY <2>1
    <2>7. Promise!Grant(t, c)
      BY <2>1, <2>3, <2>4, <2>5, <2>6 DEF Promise!Grant
    <2> QED
      BY <2>7
  <1>2. stack = <<>> => free = {}
    BY EmptySeq, LenProperties DEF TypeOK, ToSet
  <1>3. ASSUME NEW t \in Threads, Acquire(t)
        PROVE  [Promise!Next]_(Promise!vars)
    <2>1. CASE Take(t)
      BY <1>1, <1>3, <2>1 DEF Acquire, Promise!Next
    <2>2. CASE ~Take(t)
      <3>1. /\ stack = <<>>
            /\ pc[t] \in {"idle", "thrown"}
            /\ pc' = [pc EXCEPT ![t] = "asleep"]
            /\ UNCHANGED <<stack, conn>>
        BY <1>3, <2>2 DEF Acquire
      <3>2. conn[t] = None
        BY <3>1 DEF Accounted, GuardsMatch
      <3>3. /\ t \notin waiting
            /\ waiting' = waiting \cup {t}
            /\ refused' = refused \ {t}
        BY <3>1 DEF TypeOK
      <3>4. Promise!Block(t)
        BY <1>2, <3>1, <3>2, <3>3 DEF Promise!Block
      <3> QED
        BY <3>4 DEF Promise!Next
    <2> QED
      BY <2>1, <2>2
  <1>4. ASSUME NEW t \in Threads, SpuriousWake(t) \/ Expire(t)
        PROVE  [Promise!Next]_(Promise!vars)
    <2>1. waiting' = waiting /\ refused' = refused /\ UNCHANGED <<stack, conn>>
      BY <1>4 DEF SpuriousWake, Expire, TypeOK
    <2> QED
      BY <2>1 DEF Promise!vars
  <1>5. ASSUME NEW t \in Threads, Resume(t)
        PROVE  [Promise!Next]_(Promise!vars)
    <2>1. CASE Take(t)
      BY <1>1, <1>5, <2>1 DEF Resume, Promise!Next
    <2>2. CASE ~Take(t) /\ pc[t] = "late"
      <3>1. /\ stack = <<>>
            /\ pc' = [pc EXCEPT ![t] = "thrown"]
            /\ UNCHANGED <<stack, conn>>
        BY <1>5, <2>2 DEF Resume
      <3>2. /\ t \in waiting
            /\ waiting' = waiting \ {t}
            /\ refused' = refused \cup {t}
        BY <2>2, <3>1 DEF TypeOK
      <3>3. Promise!Refuse(t)
        BY <1>2, <3>1, <3>2 DEF Promise!Refuse
      <3> QED
        BY <3>3 DEF Promise!Next
    <2>3. CASE ~Take(t) /\ pc[t] # "late"
      <3>1. /\ pc[t] = "woken"
            /\ pc' = [pc EXCEPT ![t] = "asleep"]
            /\ UNCHANGED <<stack, conn>>
        BY <1>5, <2>3 DEF Resume
      <3>2. waiting' = waiting /\ refused' = refused
        BY <3>1 DEF TypeOK
      <3> QED
        BY <3>1, <3>2 DEF Promise!vars
    <2> QED
      BY <2>1, <2>2, <2>3
  <1>6. ASSUME NEW t \in Threads, Release(t)
        PROVE  [Promise!Next]_(Promise!vars)
    <2>1. conn[t] \in Conns /\ conn[t] # None
      BY <1>6 DEF TypeOK, Accounted, GuardsMatch, Release
    <2>2. /\ Len(stack) \in Nat
          /\ DOMAIN stack = 1 .. Len(stack)
          /\ DOMAIN stack' = 1 .. Len(stack) + 1
          /\ \A i \in 1 .. Len(stack) : stack'[i] = stack[i]
          /\ stack'[Len(stack) + 1] = conn[t]
      BY <1>6, <2>1, AppendEntries DEF TypeOK, Release
    <2>3. free' = free \cup {conn[t]}
      BY <2>2 DEF ToSet
    <2>4. waiting' = waiting /\ refused' = refused
      BY <1>6 DEF Release, Asleep, TypeOK
    <2>5. Promise!GiveBack(t)
      BY <1>6, <2>1, <2>3, <2>4 DEF Promise!GiveBack, Release
    <2> QED
      BY <2>5 DEF Promise!Next
  <1>7. CASE UNCHANGED vars
    BY <1>7 DEF vars, Promise!vars
  <1> QED
    BY <1>3, <1>4, <1>5, <1>6, <1>7 DEF Next, Step

(* The state of the pool and of its threads has its types in every         *)
(* reachable state: release() never pushes a null connection.              *)
THEOREM TypeCorrect == Spec => []TypeOK
  <1>1. Inv => TypeOK
    BY DEF Inv
  <1> QED
    BY <1>1, Invariance, PTL

(* No connection is leaked, duplicated or shared by two guards, for any    *)
(* number of threads and any POOL_SIZE, one that int8_t narrows included.  *)
THEOREM ConnectionsAccounted == Spec => []Accounted
  <1>1. Inv => Accounted
    BY DEF Inv
  <1> QED
    BY <1>1, Invariance, PTL

(* notify_one per release is enough: no free connection is without a       *)
(* thread on its way to it while another thread sleeps in acquire().       *)
THEOREM WakeupsNotLost == Spec => []NoLostWakeup
  <1>1. Inv => NoLostWakeup
    BY DEF Inv
  <1> QED
    BY <1>1, Invariance, PTL

(* acquire() blocks, and throws "connection pool timeout", only when no    *)
(* connection is free, and gives each one to a single owner: the pool      *)
(* implements PoolPromise.                                                 *)
THEOREM KeepsPromise == Spec => PromiseSpec
  <1>1. Init => Promise!Init
    <2> SUFFICES ASSUME Init PROVE Promise!Init
      OBVIOUS
    <2>1. ToSet(stack) = Conns
      BY DEF Init, ToSet
    <2> QED
      BY <2>1 DEF Init, Promise!Init
  <1>2. Inv /\ [Next]_vars => [Promise!Next]_(Promise!vars)
    BY StepPromise
  <1> QED
    BY <1>1, <1>2, Invariance, PTL DEF Spec, PromiseSpec, Promise!Spec
=============================================================================
