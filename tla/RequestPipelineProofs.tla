------------------------ MODULE RequestPipelineProofs ------------------------
(***************************************************************************)
(* Proofs about RequestPipeline, for any number of worker threads, any     *)
(* size of the pool and any requests: none is lost between the queue, the  *)
(* threads and the answers, each is handled in its own context, none keeps *)
(* a connection beyond a repository call, and retries are as described.    *)
(***************************************************************************)
EXTENDS RequestPipeline, SequenceTheorems, TLAPS

(* A request is in the queue once, or with one thread. *)
OnePlace ==
    /\ \A i, j \in DOMAIN jobs : jobs[i] = jobs[j] => i = j
    /\ \A t \in Threads : Busy(t) =>
          /\ \A i \in DOMAIN jobs : jobs[i] # current[t]
          /\ \A u \in Threads : Busy(u) /\ current[u] = current[t] => u = t

(* What the thread is at fits its request: nothing was thrown before its *)
(* first call, and a call is left for the connection it asks for.        *)
AtWork ==
    \A t \in Threads :
        /\ Busy(t) =>
              /\ current[t] \in DOMAIN requests
              /\ Thrown(Request(t)) = "none"
        /\ at[t] \in {"calling", "connecting"} => calls[t] >= 1

(* All attempts that did not end the loop were lost, fewer than may be. *)
Retrying ==
    \A t \in Threads :
        /\ at[t] # "asking" => tries[t] = <<>>
        /\ \A i \in DOMAIN tries[t] : tries[t][i] = "lost"
        /\ Len(tries[t]) < MaxAttempts

Inv ==
    /\ TypeOK
    /\ Pool!GuardsMatch
    /\ OneConnectionPerCall
    /\ OnePlace
    /\ AtWork
    /\ ContextIsOwn
    /\ Retrying
    /\ RetriesAsDescribed
-----------------------------------------------------------------------------
(* What a thread does in acquire() is its own affair. *)
LEMMA AcquireSteps ==
    ASSUME Pool!TypeOK, Pool!GuardsMatch, NEW t \in Threads,
           Pool!Acquire(t) \/ Pool!SpuriousWake(t) \/ Pool!Expire(t) \/ Pool!Resume(t)
    PROVE  /\ Pool!TypeOK' /\ Pool!GuardsMatch'
           /\ \A u \in Threads \ {t} : pc'[u] = pc[u] /\ conn'[u] = conn[u]
<1>0. /\ stack \in Seq(Pool!Conns)
      /\ pc \in [Threads -> Pool!States]
      /\ conn \in [Threads -> Pool!Conns \cup {None}]
      /\ \A u \in Threads : pc[u] = "holding" <=> conn[u] # None
  BY DEF Pool!TypeOK, Pool!GuardsMatch
<1>1. pc[t] # "holding"
  BY DEF Pool!Acquire, Pool!SpuriousWake, Pool!Expire, Pool!Resume
<1>2. CASE Pool!Take(t)
  <2>1. stack # <<>> /\ stack' = Pool!Front(stack) /\ Len(stack) \in Nat
    BY <1>0, <1>2 DEF Pool!Take
  <2>2. Len(stack) - 1 \in Nat /\ Len(stack) \in 1 .. Len(stack)
    BY <1>0, <2>1
  <2>3. Pool!Last(stack) \in Pool!Conns
    BY <1>0, <2>2 DEF Pool!Last
  <2>4. Pool!Front(stack) \in Seq(Pool!Conns)
    <3> DEFINE n == Len(stack) - 1
    <3>1. n \in Nat /\ \A i \in 1 .. n : stack[i] \in Pool!Conns
      BY <1>0, <2>2
    <3> HIDE DEF n
    <3>2. SubSeq(stack, 1, n) \in Seq(Pool!Conns)
      BY <3>1, SubSeqProperties
    <3> QED
      BY <3>2 DEF Pool!Front, n
  <2>5. /\ conn' = [conn EXCEPT ![t] = Pool!Last(stack)] /\ pc' = [pc EXCEPT ![t] = "holding"]
    BY <1>2 DEF Pool!Take
  <2>6. Pool!Last(stack) # None
    BY <2>3, PoolAssumption
  <2> QED
    BY <1>0, <2>1, <2>3, <2>4, <2>5, <2>6 DEF Pool!TypeOK, Pool!GuardsMatch, Pool!States
<1>3. CASE stack' = stack /\ conn' = conn
             /\ \E x \in Pool!States \ {"holding"} : pc' = [pc EXCEPT ![t] = x]
  BY <1>0, <1>1, <1>3 DEF Pool!TypeOK, Pool!GuardsMatch
<1> QED
  BY <1>2, <1>3 DEF Pool!Acquire, Pool!SpuriousWake, Pool!Expire, Pool!Resume, Pool!States

(* ~ConnectionGuard may wake one that sleeps in acquire(). *)
LEMMA ReleaseStep ==
    ASSUME Pool!TypeOK, Pool!GuardsMatch, NEW t \in Threads, Pool!Release(t)
    PROVE  /\ Pool!TypeOK' /\ Pool!GuardsMatch'
           /\ pc'[t] = "idle" /\ conn'[t] = None
           /\ \A u \in Threads \ {t} :
                 /\ conn'[u] = conn[u]
                 /\ pc'[u] = pc[u] \/ (pc[u] = "asleep" /\ pc'[u] = "woken")
<1>0. /\ stack \in Seq(Pool!Conns)
      /\ pc \in [Threads -> Pool!States]
      /\ conn \in [Threads -> Pool!Conns \cup {None}]
      /\ \A u \in Threads : pc[u] = "holding" <=> conn[u] # None
  BY DEF Pool!TypeOK, Pool!GuardsMatch
<1>1. pc[t] = "holding" /\ conn[t] \in Pool!Conns
  BY <1>0 DEF Pool!Release
<1>2. stack' \in Seq(Pool!Conns)
  BY <1>0, <1>1, AppendProperties DEF Pool!Release
<1>3. conn' = [conn EXCEPT ![t] = None]
  BY DEF Pool!Release
<1>4. \/ pc' = [pc EXCEPT ![t] = "idle"]
      \/ \E u \in Threads : pc[u] = "asleep" /\ pc' = [pc EXCEPT ![t] = "idle", ![u] = "woken"]
  BY DEF Pool!Release, Pool!Asleep
<1> QED
  BY <1>0, <1>1, <1>2, <1>3, <1>4 DEF Pool!TypeOK, Pool!GuardsMatch, Pool!States

(* A connection is held for one call: by the time the handler goes on, its *)
(* guard is gone.                                                          *)
LEMMA ConnectionStep ==
    ASSUME Inv, [Next]_vars
    PROVE  Pool!TypeOK' /\ Pool!GuardsMatch' /\ OneConnectionPerCall'
<1> USE DEF pool, handler
<1>0. /\ Pool!TypeOK /\ Pool!GuardsMatch
      /\ at \in [Threads -> Places]
      /\ pc \in [Threads -> Pool!States]
      /\ \A t \in Threads :
            /\ conn[t] # None => at[t] = "connecting"
            /\ at[t] # "connecting" => pc[t] \in {"idle", "thrown"}
      /\ \A t \in Threads : pc[t] = "holding" <=> conn[t] # None
  BY DEF Inv, TypeOK, OneConnectionPerCall, Pool!TypeOK, Pool!GuardsMatch
<1>1. ASSUME UNCHANGED pool,
             \A t \in Threads : at[t] = "connecting" => at'[t] = "connecting"
      PROVE  Pool!TypeOK' /\ Pool!GuardsMatch' /\ OneConnectionPerCall'
  BY <1>0, <1>1 DEF Pool!TypeOK, Pool!GuardsMatch, OneConnectionPerCall
<1>2. ASSUME NEW p \in Profiles, Accept(p)
      PROVE  UNCHANGED pool /\ at' = at
  BY <1>2 DEF Accept
<1>3. CASE Stop \/ UNCHANGED vars
  BY <1>1, <1>3 DEF Stop, vars
<1>4. ASSUME NEW t \in Threads, Begin(t) \/ Join(t)
      PROVE  UNCHANGED pool /\ \A u \in Threads : at[u] = "connecting" => at'[u] = "connecting"
  BY <1>0, <1>4 DEF Begin, Join
<1>5. ASSUME NEW t \in Threads, NEW outcome \in Outcomes, Attempt(t, outcome)
      PROVE  UNCHANGED pool /\ \A u \in Threads : at[u] = "connecting" => at'[u] = "connecting"
  BY <1>0, <1>5 DEF Attempt, Answer
<1>6. ASSUME NEW t \in Threads, Connect(t) \/ Wait(t)
      PROVE  Pool!TypeOK' /\ Pool!GuardsMatch' /\ OneConnectionPerCall'
  <2>1. /\ Pool!Acquire(t) \/ Pool!SpuriousWake(t) \/ Pool!Expire(t) \/ Pool!Resume(t)
        /\ \A u \in Threads \ {t} : at'[u] = at[u]
    BY <1>0, <1>6 DEF Connect, Wait
  <2>2. at'[t] = "connecting"
    <3>1. CASE Connect(t)
      BY <1>0, <3>1 DEF Connect
    <3>2. CASE Wait(t)
      <4>1. at' = at /\ pc[t] \notin {"idle", "thrown"}
        BY <3>2 DEF Wait, Pool!SpuriousWake, Pool!Expire, Pool!Resume
      <4> QED
        BY <1>0, <4>1
    <3> QED
      BY <1>6, <3>1, <3>2
  <2>3. /\ Pool!TypeOK' /\ Pool!GuardsMatch'
        /\ \A u \in Threads \ {t} : pc'[u] = pc[u] /\ conn'[u] = conn[u]
    BY <1>0, <2>1, AcquireSteps
  <2> QED
    BY <1>0, <2>1, <2>2, <2>3 DEF OneConnectionPerCall
<1>7. ASSUME NEW t \in Threads, GiveUp(t)
      PROVE  Pool!TypeOK' /\ Pool!GuardsMatch' /\ OneConnectionPerCall'
  <2>1. UNCHANGED pool /\ pc[t] = "thrown" /\ at' = [at EXCEPT ![t] = "free"]
    BY <1>7 DEF GiveUp, Answer
  <2> QED
    BY <1>0, <2>1 DEF Pool!TypeOK, Pool!GuardsMatch, OneConnectionPerCall
<1>8. ASSUME NEW t \in Threads, Execute(t)
      PROVE  Pool!TypeOK' /\ Pool!GuardsMatch' /\ OneConnectionPerCall'
  <2>1. \E x \in {"free", "asking", "calling"} : at' = [at EXCEPT ![t] = x]
    BY <1>8 DEF Execute, AfterCall, Answer, GoOn
  <2>2. /\ Pool!TypeOK' /\ Pool!GuardsMatch'
        /\ pc'[t] = "idle" /\ conn'[t] = None
        /\ \A u \in Threads \ {t} :
              /\ conn'[u] = conn[u]
              /\ pc'[u] = pc[u] \/ (pc[u] = "asleep" /\ pc'[u] = "woken")
    BY <1>0, <1>8, ReleaseStep DEF Execute
  <2> QED
    BY <1>0, <2>1, <2>2 DEF OneConnectionPerCall
<1> QED
  BY <1>1, <1>2, <1>3, <1>4, <1>5, <1>6, <1>7, <1>8 DEF Next, Step
-----------------------------------------------------------------------------
(* What RetriesAsDescribed asks of an answer. *)
Described(a) ==
    a.tries # <<>> =>
        /\ \A j \in DOMAIN a.tries : j < Len(a.tries) => a.tries[j] = "lost"
        /\ a.status = "2xx" <=> Last(a.tries) = "good"
        /\ Last(a.tries) = "lost" => Len(a.tries) = MaxAttempts

(* A thread ends its request with an answer. *)
Ends(t) ==
    /\ Busy(t)
    /\ \E a \in Answered : Described(a) /\ answers' = [answers EXCEPT ![current[t]] = a]
    /\ at' = [at EXCEPT ![t] = "free"]
    /\ current' = [current EXCEPT ![t] = 0]
    /\ calls' = [calls EXCEPT ![t] = 0]
    /\ tries' = [tries EXCEPT ![t] = <<>>]
    /\ UNCHANGED <<requests, jobs, user_id>>

(* A thread goes on with its request. *)
Moves(t) ==
    /\ Busy(t)
    /\ \E x \in {"calling", "connecting", "asking"}, n \in 0 .. 2, o \in Seq(Outcomes) :
          /\ x # "asking" => n >= 1 /\ o = <<>>
          /\ (\A i \in DOMAIN o : o[i] = "lost") /\ Len(o) < MaxAttempts
          /\ at' = [at EXCEPT ![t] = x]
          /\ calls' = [calls EXCEPT ![t] = n]
          /\ tries' = [tries EXCEPT ![t] = o]
    /\ UNCHANGED <<requests, jobs, current, user_id, answers>>

LEMMA HandlerEffect ==
    ASSUME Inv, [Next]_vars
    PROVE  \/ \E p \in Profiles : Accept(p)
           \/ \E t \in Threads : Begin(t) \/ Join(t) \/ Ends(t) \/ Moves(t)
           \/ UNCHANGED <<requests, jobs, handler, answers>>
<1> USE DEF handler
<1>0. /\ at \in [Threads -> Places]
      /\ calls \in [Threads -> 0 .. 2]
      /\ tries \in [Threads -> Seq(Outcomes)]
      /\ MaxAttempts \in Nat \ {0}
      /\ <<>> \in Seq(Outcomes)
  BY BoundsAssumption DEF Inv, TypeOK
<1>1. ASSUME NEW t \in Threads, NEW status \in Statuses, Busy(t),
             Answer(t, status, <<>>), UNCHANGED <<requests, jobs, user_id>>
      PROVE  Ends(t)
  <2>1. [status |-> status, tries |-> <<>>] \in Answered
    BY <1>0 DEF Answered
  <2>2. Described([status |-> status, tries |-> <<>>])
    BY DEF Described
  <2> QED
    BY <1>1, <2>1, <2>2 DEF Answer, Ends
<1>2. ASSUME NEW t \in Threads, Connect(t)
      PROVE  Moves(t)
  <2>1. /\ Busy(t) /\ at[t] = "calling" /\ at' = [at EXCEPT ![t] = "connecting"]
        /\ UNCHANGED <<requests, jobs, current, user_id, answers>>
        /\ calls' = calls /\ tries' = tries
    BY <1>2 DEF Connect, Busy
  <2>2. calls[t] \in 0 .. 2 /\ calls[t] >= 1 /\ tries[t] = <<>>
    BY <1>0, <2>1 DEF Inv, AtWork, Retrying
  <2>3. calls' = [calls EXCEPT ![t] = calls[t]] /\ tries' = [tries EXCEPT ![t] = <<>>]
    BY <1>0, <2>1, <2>2
  <2>4. Len(<<>>) < MaxAttempts /\ DOMAIN <<>> = {}
    BY <1>0
  <2> QED
    BY <1>0, <2>1, <2>2, <2>3, <2>4 DEF Moves
<1>3. ASSUME NEW t \in Threads, GiveUp(t)
      PROVE  Ends(t)
  <2>1. Busy(t) /\ "500" \in Statuses
    BY <1>3 DEF GiveUp, Busy, Statuses
  <2> QED
    BY <1>1, <1>3, <2>1 DEF GiveUp
<1>4. ASSUME NEW t \in Threads, Execute(t)
      PROVE  Ends(t) \/ Moves(t)
  <2>1. /\ Busy(t) /\ at[t] = "connecting"
        /\ UNCHANGED <<requests, jobs, user_id>>
        /\ AfterCall(t)
    BY <1>4 DEF Execute, Busy
  <2>2. calls[t] \in 1 .. 2 /\ tries[t] = <<>>
    BY <1>0, <2>1 DEF Inv, AtWork, Retrying
  <2>3. \/ \E status \in Statuses : Answer(t, status, <<>>)
        \/ GoOn(t, "asking")
        \/ GoOn(t, "calling") /\ calls[t] > 1
    BY <2>1 DEF AfterCall, Statuses
  <2>4. ASSUME NEW x \in {"asking", "calling"}, GoOn(t, x), x = "calling" => calls[t] > 1
        PROVE  Moves(t)
    <3>1. /\ at' = [at EXCEPT ![t] = x]
          /\ calls' = [calls EXCEPT ![t] = calls[t] - 1]
          /\ UNCHANGED <<current, tries, answers>>
      BY <1>0, <2>4 DEF GoOn
    <3>2. tries' = [tries EXCEPT ![t] = <<>>] /\ calls[t] - 1 \in 0 .. 2
      BY <1>0, <2>2, <3>1
    <3>3. x # "asking" => calls[t] - 1 >= 1
      BY <2>2, <2>4
    <3>4. Len(<<>>) < MaxAttempts /\ DOMAIN <<>> = {}
      BY <1>0
    <3> QED
      BY <1>0, <2>1, <3>1, <3>2, <3>3, <3>4 DEF Moves
  <2> QED
    BY <1>1, <2>1, <2>3, <2>4
<1>5. ASSUME NEW t \in Threads, NEW outcome \in Outcomes, Attempt(t, outcome)
      PROVE  Ends(t) \/ Moves(t)
  <2> DEFINE o == Append(tries[t], outcome)
             n == Len(tries[t])
  <2>1. /\ Busy(t) /\ at[t] = "asking" /\ UNCHANGED <<requests, jobs, user_id>>
        /\ tries[t] \in Seq(Outcomes) /\ n \in Nat /\ n < MaxAttempts
        /\ \A i \in DOMAIN tries[t] : tries[t][i] = "lost"
    BY <1>0, <1>5 DEF Attempt, Busy, Inv, Retrying
  <2>2. /\ o \in Seq(Outcomes) /\ Len(o) = n + 1 /\ DOMAIN o = 1 .. n + 1
        /\ o[n + 1] = outcome /\ Last(o) = outcome /\ o # <<>>
        /\ \A i \in 1 .. n : o[i] = "lost"
    <3>1. /\ o \in Seq(Outcomes) /\ Len(o) = n + 1 /\ o[n + 1] = outcome
          /\ \A i \in 1 .. n : o[i] = tries[t][i]
      BY <2>1, AppendProperties
    <3>2. DOMAIN o = 1 .. n + 1 /\ DOMAIN tries[t] = 1 .. n
      BY <2>1, <3>1
    <3>3. o # <<>>
      BY <2>1, <3>1
    <3> HIDE DEF o
    <3> QED
      BY <2>1, <3>1, <3>2, <3>3 DEF Last
  <2>3. CASE /\ outcome = "lost" /\ Len(o) < MaxAttempts
             /\ tries' = [tries EXCEPT ![t] = o]
             /\ UNCHANGED <<at, current, calls, answers>>
    <3>1. at' = [at EXCEPT ![t] = "asking"] /\ calls' = [calls EXCEPT ![t] = calls[t]]
            /\ calls[t] \in 0 .. 2
      BY <1>0, <2>1, <2>3
    <3>2. \A i \in DOMAIN o : o[i] = "lost"
      <4> HIDE DEF o, n
      <4>1. \A i \in 1 .. n + 1 : i \in 1 .. n \/ i = n + 1
        BY <2>1
      <4> QED
        BY <2>2, <2>3, <4>1
    <3> HIDE DEF o, n
    <3> QED
      BY <2>1, <2>2, <2>3, <3>1, <3>2 DEF Moves
  <2>4. ASSUME NEW status \in {"2xx", "500"}, Answer(t, status, o),
               status = "2xx" <=> outcome = "good",
               outcome = "lost" => Len(o) = MaxAttempts
        PROVE  Ends(t)
    <3>1. [status |-> status, tries |-> o] \in Answered
      BY <2>2 DEF Answered, Statuses
    <3>2. Described([status |-> status, tries |-> o])
      <4> HIDE DEF o, n
      <4>1. \A j \in 1 .. n + 1 : j < n + 1 => j \in 1 .. n
        BY <2>1
      <4> QED
        BY <2>2, <2>4, <4>1 DEF Described
    <3> QED
      BY <2>1, <2>4, <3>1, <3>2 DEF Answer, Ends
  <2>5. \/ /\ outcome = "lost" /\ Len(o) < MaxAttempts
           /\ tries' = [tries EXCEPT ![t] = o]
           /\ UNCHANGED <<at, current, calls, answers>>
        \/ outcome = "good" /\ Answer(t, "2xx", o)
        \/ /\ outcome # "good" /\ Answer(t, "500", o)
           /\ outcome = "lost" => Len(o) = MaxAttempts
    BY <1>5 DEF Attempt
  <2> HIDE DEF o
  <2> QED
    BY <2>3, <2>4, <2>5
<1>6. ASSUME NEW t \in Threads, Wait(t)
      PROVE  UNCHANGED <<requests, jobs, handler, answers>>
  BY <1>6 DEF Wait
<1>7. CASE Stop \/ UNCHANGED vars
  BY <1>7 DEF Stop, vars
<1> QED
  BY <1>2, <1>3, <1>4, <1>5, <1>6, <1>7 DEF Next, Step
-----------------------------------------------------------------------------
(* A queue without repetitions, after its first entry is taken. *)
LEMMA TailEntries ==
    ASSUME NEW S, NEW s \in Seq(S), s # <<>>, \A i, j \in DOMAIN s : s[i] = s[j] => i = j
    PROVE  /\ Tail(s) \in Seq(S) /\ Head(s) \in S
           /\ \E i \in DOMAIN s : s[i] = Head(s)
           /\ \A i, j \in DOMAIN Tail(s) : Tail(s)[i] = Tail(s)[j] => i = j
           /\ \A x : (\E i \in DOMAIN Tail(s) : Tail(s)[i] = x) <=>
                        x # Head(s) /\ \E i \in DOMAIN s : s[i] = x
<1> DEFINE n == Len(s)
<1>1. /\ n \in Nat /\ n >= 1 /\ DOMAIN s = 1 .. n
      /\ Tail(s) \in Seq(S) /\ DOMAIN Tail(s) = 1 .. n - 1
      /\ \A i \in 1 .. n - 1 : Tail(s)[i] = s[i + 1]
      /\ Head(s) = s[1] /\ Head(s) \in S
  BY HeadTailProperties, LenProperties
<1> HIDE DEF n
<1>2. \A i \in DOMAIN Tail(s) : i + 1 \in DOMAIN s /\ i + 1 # 1 /\ Tail(s)[i] = s[i + 1]
  BY <1>1
<1>3. \A i \in DOMAIN s : i # 1 => i - 1 \in DOMAIN Tail(s) /\ (i - 1) + 1 = i
  BY <1>1
<1>4. 1 \in DOMAIN s
  BY <1>1
<1>5. ASSUME NEW i \in DOMAIN Tail(s), NEW j \in DOMAIN Tail(s), Tail(s)[i] = Tail(s)[j]
      PROVE  i = j
  <2>1. i + 1 = j + 1
    BY <1>2, <1>5
  <2> QED
    BY <1>1, <2>1
<1>6. ASSUME NEW x
      PROVE  (\E i \in DOMAIN Tail(s) : Tail(s)[i] = x) <=>
                        x # Head(s) /\ \E i \in DOMAIN s : s[i] = x
  <2>1. ASSUME NEW i \in DOMAIN Tail(s), Tail(s)[i] = x
        PROVE  x # Head(s) /\ \E k \in DOMAIN s : s[k] = x
    <3>1. i + 1 \in DOMAIN s /\ i + 1 # 1 /\ s[i + 1] = x
      BY <1>2, <2>1
    <3>2. s[i + 1] # s[1]
      BY <1>4, <3>1
    <3> QED
      BY <1>1, <3>1, <3>2
  <2>2. ASSUME NEW k \in DOMAIN s, s[k] = x, x # Head(s)
        PROVE  \E i \in DOMAIN Tail(s) : Tail(s)[i] = x
    <3>1. k # 1
      BY <1>1, <2>2
    <3>2. k - 1 \in DOMAIN Tail(s) /\ (k - 1) + 1 = k
      BY <1>3, <3>1
    <3>3. Tail(s)[k - 1] = s[k]
      BY <1>2, <3>2
    <3> QED
      BY <2>2, <3>2, <3>3
  <2> QED
    BY <2>1, <2>2
<1> QED
  BY <1>1, <1>4, <1>5, <1>6

(* A sequence with one entry more. *)
LEMMA MoreEntries ==
    ASSUME NEW S, NEW s \in Seq(S), NEW e \in S
    PROVE  /\ Append(s, e) \in Seq(S)
           /\ Len(s) \in Nat /\ Len(Append(s, e)) = Len(s) + 1
           /\ DOMAIN s = 1 .. Len(s) /\ DOMAIN Append(s, e) = 1 .. Len(s) + 1
           /\ \A i \in DOMAIN s : Append(s, e)[i] = s[i] /\ i \in DOMAIN Append(s, e)
           /\ Append(s, e)[Len(s) + 1] = e
           /\ \A i \in DOMAIN Append(s, e) : i \in DOMAIN s \/ i = Len(s) + 1
<1>1. /\ Append(s, e) \in Seq(S)
      /\ Len(s) \in Nat /\ Len(Append(s, e)) = Len(s) + 1
      /\ \A i \in 1 .. Len(s) : Append(s, e)[i] = s[i]
      /\ Append(s, e)[Len(s) + 1] = e
      /\ DOMAIN s = 1 .. Len(s) /\ DOMAIN Append(s, e) = 1 .. Len(s) + 1
  BY AppendProperties, LenProperties
<1> QED
  BY <1>1

(* The part of the invariant that follows a request on its way. *)
Way ==
    /\ requests \in Seq(Profiles)
    /\ jobs \in Seq(DOMAIN requests)
    /\ answers \in [DOMAIN requests -> Answered \cup {None}]
    /\ \A i \in DOMAIN requests : answers[i] = None <=>
          \/ \E j \in DOMAIN jobs : jobs[j] = i
          \/ \E t \in Threads : Busy(t) /\ current[t] = i
    /\ \A t \in Threads : Busy(t) => current[t] \in DOMAIN requests
    /\ OnePlace

LEMMA InvWay == Inv => Way
BY DEF Inv, TypeOK, AtWork, Busy, Way

LEMMA AcceptWay ==
    ASSUME Inv, NEW p \in Profiles, Accept(p)
    PROVE  Way'
<1> USE DEF handler
<1> DEFINE n == Len(requests)
<1>0. Way
  BY InvWay
<1>1. /\ requests' \in Seq(Profiles) /\ n \in Nat
      /\ DOMAIN requests = 1 .. n /\ DOMAIN requests' = 1 .. n + 1
  BY <1>0, MoreEntries DEF Way, Accept
<1> HIDE DEF n
<1>2. DOMAIN requests \subseteq DOMAIN requests' /\ n + 1 \in DOMAIN requests'
        /\ n + 1 \notin DOMAIN requests
        /\ \A i \in DOMAIN requests' : i \in DOMAIN requests \/ i = n + 1
  BY <1>1
<1>3. jobs \in Seq(DOMAIN requests') /\ jobs' = Append(jobs, n + 1)
  BY <1>0, <1>2 DEF Way, Accept, n
<1>4. /\ jobs' \in Seq(DOMAIN requests')
      /\ \A i \in DOMAIN jobs : jobs'[i] = jobs[i] /\ i \in DOMAIN jobs' /\ jobs[i] \in DOMAIN requests
      /\ \E l \in DOMAIN jobs' :
            /\ jobs'[l] = n + 1
            /\ \A i \in DOMAIN jobs' : i \in DOMAIN jobs \/ i = l
  <2>1. \A i \in DOMAIN jobs : jobs[i] \in DOMAIN requests
    BY <1>0 DEF Way
  <2>2. /\ jobs' \in Seq(DOMAIN requests')
        /\ \A i \in DOMAIN jobs : jobs'[i] = jobs[i] /\ i \in DOMAIN jobs'
        /\ jobs'[Len(jobs) + 1] = n + 1
        /\ \A i \in DOMAIN jobs' : i \in DOMAIN jobs \/ i = Len(jobs) + 1
        /\ Len(jobs) + 1 \in DOMAIN jobs'
    BY <1>2, <1>3, MoreEntries
  <2> QED
    BY <2>1, <2>2
<1>5. /\ answers' \in [DOMAIN requests' -> Answered \cup {None}]
      /\ \A i \in DOMAIN requests : answers'[i] = answers[i]
      /\ answers'[n + 1] = None
  <2>1. answers \in Seq(Answered \cup {None}) /\ DOMAIN answers = 1 .. n /\ Len(answers) = n
    <3>1. answers \in [1 .. n -> Answered \cup {None}]
      BY <1>0, <1>1 DEF Way
    <3> QED
      BY <1>1, <3>1
  <2>2. answers' = Append(answers, None)
    BY DEF Accept
  <2>3. /\ answers' \in Seq(Answered \cup {None})
        /\ DOMAIN answers' = 1 .. n + 1
        /\ \A i \in DOMAIN answers : answers'[i] = answers[i]
        /\ answers'[n + 1] = None
    BY <2>1, <2>2, MoreEntries
  <2>4. answers' \in [DOMAIN answers' -> Answered \cup {None}]
    <3>1. ASSUME NEW S, NEW s \in Seq(S)
          PROVE  s \in [DOMAIN s -> S]
      BY <3>1
    <3> QED
      BY <2>3, <3>1
  <2> QED
    BY <1>1, <2>1, <2>3, <2>4
<1>6. UNCHANGED handler
  BY DEF Accept
<1>7. ASSUME NEW i \in DOMAIN requests'
      PROVE  answers'[i] = None <=>
                \/ \E j \in DOMAIN jobs' : jobs'[j] = i
                \/ \E t \in Threads : Busy(t)' /\ current'[t] = i
  <2>1. CASE i = n + 1
    BY <1>4, <1>5, <2>1
  <2>2. CASE i \in DOMAIN requests
    <3>1. (\E j \in DOMAIN jobs' : jobs'[j] = i) <=> \E j \in DOMAIN jobs : jobs[j] = i
      BY <1>2, <1>4, <2>2
    <3> QED
      BY <1>0, <1>5, <1>6, <2>2, <3>1 DEF Way, Busy
  <2> QED
    BY <1>2, <2>1, <2>2
<1>8. OnePlace'
  <2>0. PICK l \in DOMAIN jobs' :
            /\ jobs'[l] = n + 1
            /\ \A i \in DOMAIN jobs' : i \in DOMAIN jobs \/ i = l
    BY <1>4
  <2>1. \A i \in DOMAIN jobs : jobs'[i] # n + 1
    BY <1>2, <1>4
  <2>2. ASSUME NEW i \in DOMAIN jobs', NEW j \in DOMAIN jobs', jobs'[i] = jobs'[j]
        PROVE  i = j
    <3>1. CASE i \in DOMAIN jobs /\ j \in DOMAIN jobs
      BY <1>0, <1>4, <2>2, <3>1 DEF Way, OnePlace
    <3>2. CASE i = l \/ j = l
      BY <2>0, <2>1, <2>2, <3>2
    <3> QED
      BY <2>0, <3>1, <3>2
  <2>3. ASSUME NEW t \in Threads, Busy(t)
        PROVE  \A i \in DOMAIN jobs' : jobs'[i] # current[t]
    <3>1. current[t] \in DOMAIN requests
      BY <1>0, <2>3 DEF Way
    <3>2. \A i \in DOMAIN jobs : jobs[i] # current[t]
      BY <1>0, <2>3 DEF Way, OnePlace
    <3> QED
      BY <1>2, <1>4, <2>0, <3>1, <3>2
  <2>4. \A t \in Threads : Busy(t)' = Busy(t) /\ current'[t] = current[t]
    BY <1>6 DEF Busy
  <2>5. \A t, u \in Threads : Busy(t) /\ Busy(u) /\ current[u] = current[t] => u = t
    BY <1>0 DEF Way, OnePlace
  <2> QED
    BY <2>2, <2>3, <2>4, <2>5 DEF OnePlace
<1>9. \A t \in Threads : Busy(t)' => current'[t] \in DOMAIN requests'
  BY <1>0, <1>2, <1>6 DEF Way, Busy
<1> QED
  BY <1>1, <1>4, <1>5, <1>7, <1>8, <1>9 DEF Way

LEMMA BeginWay ==
    ASSUME Inv, NEW t \in Threads, Begin(t)
    PROVE  Way'
<1> DEFINE h == Head(jobs)
<1>0. /\ Way /\ at \in [Threads -> Places] /\ at[t] = "free"
      /\ current \in [Threads -> 0 .. Len(requests)]
  BY InvWay DEF Inv, TypeOK, Begin
<1>1. /\ jobs' \in Seq(DOMAIN requests) /\ h \in DOMAIN requests
      /\ \E i \in DOMAIN jobs : jobs[i] = h
      /\ \A i, j \in DOMAIN jobs' : jobs'[i] = jobs'[j] => i = j
      /\ \A x : (\E i \in DOMAIN jobs' : jobs'[i] = x) <=>
                   x # h /\ \E i \in DOMAIN jobs : jobs[i] = x
  <2>1. jobs # <<>> /\ jobs' = Tail(jobs)
    BY DEF Begin
  <2>2. jobs \in Seq(DOMAIN requests) /\ \A i, j \in DOMAIN jobs : jobs[i] = jobs[j] => i = j
    BY <1>0 DEF Way, OnePlace
  <2>3. ASSUME NEW S, NEW s \in Seq(S), s # <<>>,
               \A i, j \in DOMAIN s : s[i] = s[j] => i = j
        PROVE  /\ Tail(s) \in Seq(S) /\ Head(s) \in S
               /\ \E i \in DOMAIN s : s[i] = Head(s)
               /\ \A i, j \in DOMAIN Tail(s) : Tail(s)[i] = Tail(s)[j] => i = j
               /\ \A x : (\E i \in DOMAIN Tail(s) : Tail(s)[i] = x) <=>
                            x # Head(s) /\ \E i \in DOMAIN s : s[i] = x
    BY <2>3, TailEntries
  <2>4. /\ Tail(jobs) \in Seq(DOMAIN requests) /\ Head(jobs) \in DOMAIN requests
        /\ \E i \in DOMAIN jobs : jobs[i] = Head(jobs)
        /\ \A i, j \in DOMAIN Tail(jobs) : Tail(jobs)[i] = Tail(jobs)[j] => i = j
        /\ \A x : (\E i \in DOMAIN Tail(jobs) : Tail(jobs)[i] = x) <=>
                      x # Head(jobs) /\ \E i \in DOMAIN jobs : jobs[i] = x
    BY <2>1, <2>2, <2>3
  <2> QED
    BY <2>1, <2>4
<1>2. requests' = requests /\ ~ Busy(t)
  BY <1>0 DEF Begin, Busy
<1> HIDE DEF h
<1>3. \A i \in DOMAIN jobs' : jobs'[i] # h /\ \E k \in DOMAIN jobs : jobs[k] = jobs'[i]
  BY <1>1
<1>4. \A u \in Threads : Busy(u) => \A i \in DOMAIN jobs' : jobs'[i] # current[u]
  BY <1>0, <1>3 DEF Way, OnePlace
<1>5. \A u, v \in Threads : Busy(u) /\ Busy(v) /\ current[v] = current[u] => v = u
  BY <1>0 DEF Way, OnePlace
<1>6. \A u \in Threads : Busy(u) => current[u] # h
  BY <1>0, <1>1 DEF Way, OnePlace
<1>7. CASE /\ \E a \in Answered : answers' = [answers EXCEPT ![h] = a]
           /\ UNCHANGED <<at, current>>
  <2>1. PICK a \in Answered : answers' = [answers EXCEPT ![h] = a] /\ a # None
    BY <1>7, NoneAssumption
  <2>2. answers' \in [DOMAIN requests' -> Answered \cup {None}]
          /\ answers'[h] # None /\ \A i \in DOMAIN requests \ {h} : answers'[i] = answers[i]
    BY <1>0, <1>1, <1>2, <2>1 DEF Way
  <2>3. \A u \in Threads : (Busy(u)' <=> Busy(u)) /\ current'[u] = current[u]
    BY <1>7 DEF Busy
  <2>4. ASSUME NEW i \in DOMAIN requests'
        PROVE  answers'[i] = None <=>
                  \/ \E j \in DOMAIN jobs' : jobs'[j] = i
                  \/ \E u \in Threads : Busy(u)' /\ current'[u] = i
    <3>1. CASE i = h
      BY <1>1, <1>6, <2>2, <2>3, <3>1
    <3>2. CASE i # h
      <4>1. answers'[i] = answers[i] /\ i \in DOMAIN requests
        BY <1>2, <2>2, <3>2
      <4>2. (\E j \in DOMAIN jobs' : jobs'[j] = i) <=> \E j \in DOMAIN jobs : jobs[j] = i
        BY <1>1, <3>2
      <4> QED
        BY <1>0, <2>3, <4>1, <4>2 DEF Way
    <3> QED
      BY <3>1, <3>2
  <2>5. OnePlace'
    BY <1>1, <1>4, <1>5, <2>3 DEF OnePlace
  <2> QED
    BY <1>0, <1>1, <1>2, <2>2, <2>3, <2>4, <2>5 DEF Way
<1>8. CASE /\ at' = [at EXCEPT ![t] = "calling"]
           /\ current' = [current EXCEPT ![t] = h]
           /\ answers' = answers
  <2>1. Busy(t)' /\ current'[t] = h
    BY <1>0, <1>8 DEF Busy
  <2>2. \A u \in Threads \ {t} : (Busy(u)' <=> Busy(u)) /\ current'[u] = current[u]
    BY <1>0, <1>8 DEF Busy
  <2>3. ASSUME NEW i \in DOMAIN requests'
        PROVE  answers'[i] = None <=>
                  \/ \E j \in DOMAIN jobs' : jobs'[j] = i
                  \/ \E u \in Threads : Busy(u)' /\ current'[u] = i
    <3>1. answers'[i] = None <=>
             \/ \E j \in DOMAIN jobs : jobs[j] = i
             \/ \E u \in Threads : Busy(u) /\ current[u] = i
      BY <1>0, <1>2, <1>8 DEF Way
    <3>2. (\E u \in Threads : Busy(u)' /\ current'[u] = i) <=>
             i = h \/ \E u \in Threads : Busy(u) /\ current[u] = i
      BY <1>2, <2>1, <2>2
    <3> QED
      BY <1>1, <3>1, <3>2
  <2>4. OnePlace'
    <3>1. ASSUME NEW u \in Threads, Busy(u)'
          PROVE  /\ \A i \in DOMAIN jobs' : jobs'[i] # current'[u]
                 /\ \A v \in Threads : Busy(v)' /\ current'[v] = current'[u] => v = u
      <4>1. CASE u = t
        BY <1>1, <1>6, <2>1, <2>2, <4>1
      <4>2. CASE u # t
        BY <1>4, <1>5, <1>6, <2>1, <2>2, <3>1, <4>2
      <4> QED
        BY <4>1, <4>2
    <3> QED
      BY <1>1, <3>1 DEF OnePlace
  <2>5. \A u \in Threads : Busy(u)' => current'[u] \in DOMAIN requests'
    BY <1>0, <1>1, <1>2, <2>1, <2>2 DEF Way
  <2> QED
    BY <1>0, <1>1, <1>2, <1>8, <2>3, <2>4, <2>5 DEF Way
<1>9. CASE Thrown(requests[h]) # "none"
  <2>1. Thrown(requests[h]) \in Statuses
    BY <1>9 DEF Thrown, Statuses
  <2>2. [status |-> Thrown(requests[h]), tries |-> <<>>] \in Answered
    BY <2>1 DEF Answered
  <2> QED
    BY <1>7, <1>9, <2>2 DEF Begin, h
<1>10. CASE Thrown(requests[h]) = "none"
  BY <1>8, <1>10 DEF Begin, h
<1> QED
  BY <1>9, <1>10

LEMMA EndsWay ==
    ASSUME Inv, NEW t \in Threads, Ends(t)
    PROVE  Way'
<1>0. /\ Way /\ at \in [Threads -> Places] /\ Busy(t)
      /\ current \in [Threads -> 0 .. Len(requests)]
      /\ requests' = requests /\ jobs' = jobs
  BY InvWay DEF Inv, TypeOK, Ends
<1>1. /\ ~ Busy(t)'
      /\ \A u \in Threads \ {t} : (Busy(u)' <=> Busy(u)) /\ current'[u] = current[u]
  BY <1>0 DEF Ends, Busy
<1>2. PICK a \in Answered : answers' = [answers EXCEPT ![current[t]] = a] /\ a # None
  BY NoneAssumption DEF Ends
<1>3. current[t] \in DOMAIN requests
  BY <1>0 DEF Way
<1>4. /\ answers' \in [DOMAIN requests -> Answered \cup {None}]
      /\ answers'[current[t]] # None
      /\ \A i \in DOMAIN requests \ {current[t]} : answers'[i] = answers[i]
  BY <1>0, <1>2, <1>3 DEF Way
<1>5. ASSUME NEW i \in DOMAIN requests
      PROVE  answers'[i] = None <=>
                \/ \E j \in DOMAIN jobs' : jobs'[j] = i
                \/ \E u \in Threads : Busy(u)' /\ current'[u] = i
  <2>1. CASE i = current[t]
    <3>1. \A u \in Threads : Busy(u)' => current'[u] # i
      BY <1>0, <1>1, <2>1 DEF Way, OnePlace
    <3>2. \A j \in DOMAIN jobs' : jobs'[j] # i
      BY <1>0, <2>1 DEF Way, OnePlace
    <3> QED
      BY <1>4, <2>1, <3>1, <3>2
  <2>2. CASE i # current[t]
    <3>1. (\E u \in Threads : Busy(u)' /\ current'[u] = i) <=>
             \E u \in Threads : Busy(u) /\ current[u] = i
      BY <1>0, <1>1, <2>2
    <3> QED
      BY <1>0, <1>4, <2>2, <3>1 DEF Way
  <2> QED
    BY <2>1, <2>2
<1>6. OnePlace'
  BY <1>0, <1>1 DEF Way, OnePlace
<1>7. \A u \in Threads : Busy(u)' => current'[u] \in DOMAIN requests'
  BY <1>0, <1>1 DEF Way
<1> QED
  BY <1>0, <1>4, <1>5, <1>6, <1>7 DEF Way

LEMMA WayStep ==
    ASSUME Inv, [Next]_vars
    PROVE  Way'
<1> USE DEF handler
<1>0. Way /\ at \in [Threads -> Places]
  BY InvWay DEF Inv, TypeOK
<1>1. ASSUME UNCHANGED <<requests, jobs, answers, current>>,
             \A t \in Threads : Busy(t)' <=> Busy(t)
      PROVE  Way'
  <2>1. OnePlace'
    BY <1>0, <1>1 DEF Way, OnePlace
  <2>2. \A i \in DOMAIN requests' : answers'[i] = None <=>
          \/ \E j \in DOMAIN jobs' : jobs'[j] = i
          \/ \E t \in Threads : Busy(t)' /\ current'[t] = i
    BY <1>0, <1>1 DEF Way
  <2> QED
    BY <1>0, <1>1, <2>1, <2>2 DEF Way
<1>2. ASSUME NEW t \in Threads, Join(t)
      PROVE  Way'
  <2>1. UNCHANGED <<requests, jobs, answers, current>>
          /\ \A u \in Threads : Busy(u)' <=> Busy(u)
    BY <1>0, <1>2 DEF Join, Busy
  <2> QED
    BY <1>1, <2>1
<1>3. ASSUME NEW t \in Threads, Moves(t)
      PROVE  Way'
  <2>1. UNCHANGED <<requests, jobs, answers, current>>
          /\ \A u \in Threads : Busy(u)' <=> Busy(u)
    BY <1>0, <1>3 DEF Moves, Busy
  <2> QED
    BY <1>1, <2>1
<1>4. CASE UNCHANGED <<requests, jobs, handler, answers>>
  BY <1>1, <1>4 DEF Busy
<1> QED
  BY <1>2, <1>3, <1>4, HandlerEffect, AcceptWay, BeginWay, EndsWay
-----------------------------------------------------------------------------
(* The part of the invariant that is about each thread by itself. *)
Own ==
    /\ at \in [Threads -> Places]
    /\ current \in [Threads -> 0 .. Len(requests)]
    /\ calls \in [Threads -> 0 .. 2]
    /\ user_id \in [Threads -> Users \cup {Anonymous}]
    /\ tries \in [Threads -> Seq(Outcomes)]
    /\ AtWork
    /\ ContextIsOwn
    /\ Retrying

LEMMA InvOwn == Inv => Own
BY DEF Inv, TypeOK, Own

LEMMA AcceptOwn ==
    ASSUME Inv, NEW p \in Profiles, Accept(p)
    PROVE  Own'
<1> USE DEF handler
<1>0. Own /\ requests \in Seq(Profiles)
  BY InvOwn DEF Inv, TypeOK
<1>1. requests' = Append(requests, p) /\ UNCHANGED handler
  BY DEF Accept
<1>2. /\ Len(requests) \in Nat /\ Len(requests') = Len(requests) + 1
      /\ \A i \in DOMAIN requests : requests'[i] = requests[i] /\ i \in DOMAIN requests'
  BY <1>0, <1>1, MoreEntries
<1>3. current' \in [Threads -> 0 .. Len(requests')]
  <2>1. \A n \in 0 .. Len(requests) : n \in 0 .. Len(requests')
    BY <1>2
  <2> QED
    BY <1>0, <1>1, <2>1 DEF Own
<1>4. \A t \in Threads : (Busy(t)' <=> Busy(t)) /\ (Busy(t) => Request(t)' = Request(t))
  BY <1>0, <1>1, <1>2 DEF Own, AtWork, Busy, Request
<1>5. AtWork'
  <2>1. ASSUME NEW t \in Threads, Busy(t)'
        PROVE  current'[t] \in DOMAIN requests' /\ Thrown(Request(t))' = "none"
    <3>1. Request(t)' = Request(t) /\ current[t] \in DOMAIN requests /\ Thrown(Request(t)) = "none"
      BY <1>0, <1>4, <2>1 DEF Own, AtWork
    <3>2. Thrown(Request(t))' = Thrown(Request(t))
      BY <3>1 DEF Thrown
    <3> QED
      BY <1>1, <1>2, <3>1, <3>2
  <2>2. \A t \in Threads : at'[t] \in {"calling", "connecting"} => calls'[t] >= 1
    BY <1>0, <1>1 DEF Own, AtWork
  <2> QED
    BY <2>1, <2>2 DEF AtWork
<1>6. ContextIsOwn'
  BY <1>0, <1>1, <1>4 DEF Own, ContextIsOwn
<1>7. Retrying'
  BY <1>0, <1>1 DEF Own, Retrying
<1> QED
  BY <1>0, <1>1, <1>3, <1>5, <1>6, <1>7 DEF Own

LEMMA BeginOwn ==
    ASSUME Inv, NEW t \in Threads, Begin(t)
    PROVE  Own'
<1> DEFINE p == requests[Head(jobs)]
<1>0. /\ Own /\ at[t] = "free" /\ jobs # <<>>
      /\ requests \in Seq(Profiles) /\ jobs \in Seq(DOMAIN requests)
      /\ requests' = requests /\ tries' = tries
  BY InvOwn DEF Inv, TypeOK, Begin
<1>1. Head(jobs) \in DOMAIN requests /\ Head(jobs) \in 0 .. Len(requests) /\ p \in Profiles
  BY <1>0
<1>2. p.token \in Users \cup {Anonymous, Invalid}
  BY <1>1, ProfilesAssumption DEF Tokens
<1>3. /\ user_id' \in [Threads -> Users \cup {Anonymous}]
      /\ \A u \in Threads \ {t} : user_id'[u] = user_id[u]
      /\ p.token # Invalid => user_id'[t] = p.token
  <2>1. user_id' = [user_id EXCEPT ![t] = IF p.token \in Users THEN p.token ELSE Anonymous]
    BY DEF Begin, SetContext
  <2> HIDE DEF p
  <2> QED
    BY <1>0, <1>2, <2>1 DEF Own
<1>4. CASE UNCHANGED <<at, current, calls>>
  BY <1>0, <1>3, <1>4 DEF Own, AtWork, ContextIsOwn, Retrying, Busy, Request
<1>5. CASE /\ Thrown(p) = "none"
           /\ at' = [at EXCEPT ![t] = "calling"]
           /\ current' = [current EXCEPT ![t] = Head(jobs)]
           /\ calls' = [calls EXCEPT ![t] = Calls(p.route)]
  <2>1. Calls(p.route) \in 1 .. 2 /\ p.token # Invalid
    BY <1>5 DEF Calls, Thrown
  <2>2. /\ at' \in [Threads -> Places] /\ current' \in [Threads -> 0 .. Len(requests')]
        /\ calls' \in [Threads -> 0 .. 2]
    BY <1>0, <1>1, <1>5, <2>1 DEF Own, Places
  <2>3. /\ at'[t] = "calling" /\ calls'[t] >= 1 /\ current'[t] = Head(jobs)
        /\ \A u \in Threads \ {t} :
              at'[u] = at[u] /\ calls'[u] = calls[u] /\ current'[u] = current[u]
    BY <1>0, <1>5, <2>1 DEF Own
  <2>4. Request(t)' = p /\ \A u \in Threads \ {t} : Request(u)' = Request(u)
    BY <1>0, <2>3 DEF Request
  <2>5. \A u \in Threads \ {t} : Busy(u)' <=> Busy(u)
    BY <2>3 DEF Busy
  <2> HIDE DEF p
  <2>6. AtWork'
    <3>1. ASSUME NEW u \in Threads, Busy(u)'
          PROVE  current'[u] \in DOMAIN requests' /\ Thrown(Request(u))' = "none"
      <4>1. CASE u = t
        <5>1. Thrown(Request(u))' = Thrown(p)
          BY <2>4, <4>1 DEF Thrown
        <5> QED
          BY <1>0, <1>1, <1>5, <2>3, <4>1, <5>1
      <4>2. CASE u # t
        <5>1. Thrown(Request(u))' = Thrown(Request(u))
          BY <2>4, <4>2 DEF Thrown
        <5> QED
          BY <1>0, <2>3, <2>5, <3>1, <4>2, <5>1 DEF Own, AtWork
      <4> QED
        BY <4>1, <4>2
    <3>2. \A u \in Threads : at'[u] \in {"calling", "connecting"} => calls'[u] >= 1
      BY <1>0, <2>3 DEF Own, AtWork
    <3> QED
      BY <3>1, <3>2 DEF AtWork
  <2>7. ContextIsOwn'
    BY <1>0, <1>3, <2>1, <2>4, <2>5 DEF Own, ContextIsOwn
  <2>8. Retrying'
    BY <1>0, <2>3 DEF Own, Retrying
  <2> QED
    BY <1>0, <1>3, <2>2, <2>6, <2>7, <2>8 DEF Own
<1> QED
  BY <1>4, <1>5 DEF Begin

LEMMA OwnStep ==
    ASSUME Inv, [Next]_vars
    PROVE  Own'
<1> USE DEF handler
<1>0. Own /\ MaxAttempts \in Nat \ {0} /\ <<>> \in Seq(Outcomes)
        /\ Len(requests) \in Nat /\ Len(<<>>) = 0 /\ DOMAIN <<>> = {}
  BY InvOwn, BoundsAssumption DEF Inv, TypeOK
<1>1. ASSUME NEW t \in Threads, UNCHANGED <<requests, user_id>>,
             NEW x \in Places, NEW n \in 0 .. 2, NEW o \in Seq(Outcomes),
             at' = [at EXCEPT ![t] = x],
             calls' = [calls EXCEPT ![t] = n],
             tries' = [tries EXCEPT ![t] = o],
             \/ x \in {"free", "joined"} /\ \E c \in 0 .. Len(requests) : current' = [current EXCEPT ![t] = c]
             \/ Busy(t) /\ current' = current,
             x \in {"calling", "connecting"} => n >= 1,
             x # "asking" => o = <<>>,
             \A i \in DOMAIN o : o[i] = "lost",
             Len(o) < MaxAttempts
      PROVE  Own'
  <2>1. /\ at' \in [Threads -> Places] /\ current' \in [Threads -> 0 .. Len(requests')]
        /\ calls' \in [Threads -> 0 .. 2] /\ tries' \in [Threads -> Seq(Outcomes)]
    BY <1>0, <1>1 DEF Own
  <2>2. /\ at'[t] = x /\ calls'[t] = n /\ tries'[t] = o
        /\ \A u \in Threads \ {t} :
              /\ at'[u] = at[u] /\ calls'[u] = calls[u]
              /\ tries'[u] = tries[u] /\ current'[u] = current[u]
    BY <1>0, <1>1 DEF Own
  <2>3. \A u \in Threads : Busy(u)' => Busy(u) /\ current'[u] = current[u]
    BY <1>1, <2>2 DEF Busy
  <2>4. \A u \in Threads : Busy(u)' => Request(u)' = Request(u)
    BY <1>1, <2>3 DEF Request
  <2>5. AtWork'
    <3>1. ASSUME NEW u \in Threads, Busy(u)'
          PROVE  current'[u] \in DOMAIN requests' /\ Thrown(Request(u))' = "none"
      <4>1. Thrown(Request(u))' = Thrown(Request(u))
        BY <2>4, <3>1 DEF Thrown
      <4> QED
        BY <1>0, <1>1, <2>3, <3>1, <4>1 DEF Own, AtWork
    <3>2. \A u \in Threads : at'[u] \in {"calling", "connecting"} => calls'[u] >= 1
      BY <1>0, <1>1, <2>2 DEF Own, AtWork
    <3> QED
      BY <3>1, <3>2 DEF AtWork
  <2>6. ContextIsOwn'
    BY <1>0, <1>1, <2>3, <2>4 DEF Own, ContextIsOwn
  <2>7. Retrying'
    BY <1>0, <1>1, <2>2 DEF Own, Retrying
  <2> QED
    BY <1>0, <1>1, <2>1, <2>5, <2>6, <2>7 DEF Own
<1>2. ASSUME NEW t \in Threads, Join(t)
      PROVE  Own'
  <2>1. /\ UNCHANGED <<requests, user_id, calls, tries, current>>
        /\ at[t] = "free" /\ at' = [at EXCEPT ![t] = "joined"]
    BY <1>2 DEF Join
  <2> QED
    BY <1>0, <2>1 DEF Own, AtWork, ContextIsOwn, Retrying, Busy, Request, Places
<1>3. ASSUME NEW t \in Threads, Ends(t)
      PROVE  Own'
  <2>1. 0 \in 0 .. Len(requests) /\ 0 \in 0 .. 2 /\ Len(<<>>) < MaxAttempts /\ "free" \in Places
    BY <1>0 DEF Places
  <2> QED
    BY <1>0, <1>1, <1>3, <2>1 DEF Ends
<1>4. ASSUME NEW t \in Threads, Moves(t)
      PROVE  Own'
  <2>1. PICK x \in {"calling", "connecting", "asking"}, n \in 0 .. 2, o \in Seq(Outcomes) :
          /\ x # "asking" => n >= 1 /\ o = <<>>
          /\ (\A i \in DOMAIN o : o[i] = "lost") /\ Len(o) < MaxAttempts
          /\ at' = [at EXCEPT ![t] = x]
          /\ calls' = [calls EXCEPT ![t] = n]
          /\ tries' = [tries EXCEPT ![t] = o]
    BY <1>4 DEF Moves
  <2>2. x \in Places /\ Busy(t) /\ UNCHANGED <<requests, current, user_id>>
    BY <1>4 DEF Places, Moves
  <2> QED
    BY <1>1, <2>1, <2>2
<1>5. CASE UNCHANGED <<requests, jobs, handler, answers>>
  BY <1>0, <1>5 DEF Own, AtWork, ContextIsOwn, Retrying, Busy, Request
<1> QED
  BY <1>2, <1>3, <1>4, <1>5, HandlerEffect, AcceptOwn, BeginOwn
-----------------------------------------------------------------------------
(* An answer is given once, and the attempts it records were made so. *)
LEMMA AnswersStep ==
    ASSUME Inv, [Next]_vars
    PROVE  RetriesAsDescribed'
<1> USE DEF handler
<1>0. /\ requests \in Seq(Profiles) /\ jobs \in Seq(DOMAIN requests)
      /\ answers \in [DOMAIN requests -> Answered \cup {None}]
      /\ \A i \in DOMAIN answers : answers[i] # None => Described(answers[i])
  BY DEF Inv, TypeOK, RetriesAsDescribed, Described
<1>1. SUFFICES \A i \in DOMAIN answers' : answers'[i] # None => Described(answers'[i])
  BY DEF RetriesAsDescribed, Described
<1>2. ASSUME NEW i \in DOMAIN requests, NEW a \in Answered, Described(a),
             answers' = [answers EXCEPT ![i] = a]
      PROVE  \A k \in DOMAIN answers' : answers'[k] # None => Described(answers'[k])
  <2>1. /\ DOMAIN answers' = DOMAIN answers /\ answers'[i] = a
        /\ \A k \in DOMAIN answers : k # i => answers'[k] = answers[k]
    BY <1>0, <1>2
  <2> QED
    BY <1>0, <1>2, <2>1
<1>3. ASSUME NEW p \in Profiles, Accept(p)
      PROVE  \A k \in DOMAIN answers' : answers'[k] # None => Described(answers'[k])
  <2>1. answers \in Seq(Answered \cup {None})
    BY <1>0
  <2>2. answers' = Append(answers, None)
    BY <1>3 DEF Accept
  <2>3. /\ \A k \in DOMAIN answers : answers'[k] = answers[k]
        /\ answers'[Len(answers) + 1] = None
        /\ \A k \in DOMAIN answers' : k \in DOMAIN answers \/ k = Len(answers) + 1
    BY <2>1, <2>2, MoreEntries
  <2> QED
    BY <1>0, <2>3
<1>4. ASSUME NEW t \in Threads, Begin(t)
      PROVE  \A k \in DOMAIN answers' : answers'[k] # None => Described(answers'[k])
  <2> DEFINE h == Head(jobs)
             a == [status |-> Thrown(requests[h]), tries |-> <<>>]
  <2>1. h \in DOMAIN requests
    BY <1>0, <1>4 DEF Begin
  <2>2. CASE Thrown(requests[h]) # "none" /\ answers' = [answers EXCEPT ![h] = a]
    <3>1. a \in Answered
      BY <2>2 DEF Answered, Thrown, Statuses
    <3>2. Described(a)
      BY DEF Described
    <3> QED
      BY <1>2, <2>1, <2>2, <3>1, <3>2
  <2>3. CASE answers' = answers
    BY <1>0, <2>3
  <2> QED
    BY <1>4, <2>2, <2>3 DEF Begin
<1>5. ASSUME NEW t \in Threads, Ends(t)
      PROVE  \A k \in DOMAIN answers' : answers'[k] # None => Described(answers'[k])
  <2>1. current[t] \in DOMAIN requests
    BY <1>5 DEF Inv, AtWork, Ends
  <2> QED
    BY <1>2, <1>5, <2>1 DEF Ends
<1>6. CASE answers' = answers
  BY <1>0, <1>6
<1> QED
  BY <1>3, <1>4, <1>5, <1>6, HandlerEffect DEF Join, Moves

LEMMA InitInv == Init => Inv
<1> SUFFICES ASSUME Init PROVE Inv
  OBVIOUS
<1>0. /\ \A t \in Threads : at[t] = "free" /\ pc[t] = "idle" /\ conn[t] = None /\ tries[t] = <<>>
      /\ requests = <<>> /\ jobs = <<>> /\ answers = <<>>
      /\ DOMAIN <<>> = {} /\ Len(<<>>) = 0
      /\ MaxAttempts \in Nat \ {0}
  BY BoundsAssumption DEF Init, Pool!Init
<1>1. Pool!TypeOK /\ Pool!GuardsMatch
  <2>1. stack \in Seq(Pool!Conns)
    <3> DEFINE n == Pool!Int8(PoolSize)
    <3>1. n \in Int
      BY PoolAssumption DEF Pool!Int8
    <3>2. stack \in [1 .. n -> Pool!Conns]
      BY DEF Init, Pool!Init, Pool!Conns
    <3>3. \E m \in Nat : 1 .. n = 1 .. m
      <4>1. CASE n \in Nat
        BY <4>1
      <4>2. CASE n \notin Nat
        BY <3>1, <4>2, 1 .. n = 1 .. 0
      <4> QED
        BY <4>1, <4>2
    <3>4. PICK m \in Nat : 1 .. n = 1 .. m
      BY <3>3
    <3>5. stack \in [1 .. m -> Pool!Conns]
      BY <3>2, <3>4
    <3> HIDE DEF n
    <3> QED
      BY <3>5, SeqDef
  <2> QED
    BY <1>0, <2>1 DEF Init, Pool!Init, Pool!TypeOK, Pool!GuardsMatch, Pool!States
<1>2. TypeOK
  <2>1. /\ requests \in Seq(Profiles) /\ jobs \in Seq(DOMAIN requests)
        /\ answers \in [DOMAIN requests -> Answered \cup {None}]
    BY <1>0
  <2>2. /\ listening \in BOOLEAN
        /\ at \in [Threads -> Places]
        /\ current \in [Threads -> 0 .. Len(requests)]
        /\ calls \in [Threads -> 0 .. 2]
        /\ user_id \in [Threads -> Users \cup {Anonymous}]
        /\ tries \in [Threads -> Seq(Outcomes)]
    BY <1>0 DEF Init, Places
  <2> QED
    BY <1>0, <1>1, <2>1, <2>2 DEF TypeOK
<1>3. OneConnectionPerCall /\ OnePlace /\ AtWork /\ ContextIsOwn /\ Retrying /\ RetriesAsDescribed
  BY <1>0 DEF OneConnectionPerCall, OnePlace, AtWork, ContextIsOwn, Retrying,
              RetriesAsDescribed, Busy
<1> QED
  BY <1>1, <1>2, <1>3 DEF Inv

LEMMA NextInv == Inv /\ [Next]_vars => Inv'
<1> SUFFICES ASSUME Inv, [Next]_vars PROVE Inv'
  OBVIOUS
<1>1. Pool!TypeOK' /\ Pool!GuardsMatch' /\ OneConnectionPerCall'
  BY ConnectionStep
<1>2. Way'
  BY WayStep
<1>3. Own'
  BY OwnStep
<1>4. RetriesAsDescribed'
  BY AnswersStep
<1>5. listening' \in BOOLEAN
  BY DEF Inv, TypeOK, Next, Step, Accept, Stop, Join, Begin, Connect, Wait, GiveUp,
         Execute, Attempt, vars
<1>6. TypeOK'
  BY <1>1, <1>2, <1>3, <1>5 DEF TypeOK, Way, Own, Busy
<1> QED
  BY <1>1, <1>2, <1>3, <1>4, <1>6 DEF Inv, Way, Own

LEMMA Invariance == Spec => []Inv
BY InitInv, NextInv, PTL DEF Spec
-----------------------------------------------------------------------------
(* However requests, threads, timeouts of the pool and the end of the      *)
(* server interleave, each accepted request is in the queue, with exactly  *)
(* one thread, or answered; and a thread holds a connection only during a  *)
(* repository call.                                                        *)
THEOREM RequestsHaveOnePlace == Spec => []Consistent
<1>1. Inv => Consistent
  BY DEF Inv, Consistent
<1> QED
  BY <1>1, Invariance, PTL

(* Handlers read the user id of their own request's token from the         *)
(* thread-local request_context, whatever the thread has handled before.   *)
THEOREM ReadsOwnContext == Spec => []ContextIsOwn
<1>1. Inv => ContextIsOwn
  BY DEF Inv
<1> QED
  BY <1>1, Invariance, PTL

(* with_retry tries again only after what its comment lists, and gives up  *)
(* for that only after MaxAttempts, for any number of them.                *)
THEOREM RetriesOnlyLost == Spec => []RetriesAsDescribed
<1>1. Inv => RetriesAsDescribed
  BY DEF Inv
<1> QED
  BY <1>1, Invariance, PTL

(* Handlers use the pool as ConnectionPool models its users: every step is *)
(* a step of it or leaves it alone, so what is proved about the pool under *)
(* any threads holds under these handlers.                                 *)
THEOREM UsesPool == Spec => Pool!Spec
<1>1. Init => Pool!Init
  BY DEF Init
<1>2. [Next]_vars => [Pool!Next]_(Pool!vars)
  <2> SUFFICES ASSUME [Next]_vars PROVE [Pool!Next]_(Pool!vars)
    OBVIOUS
  <2>1. \/ UNCHANGED pool
        \/ \E t \in Threads :
              \/ Pool!Acquire(t) \/ Pool!SpuriousWake(t) \/ Pool!Expire(t)
              \/ Pool!Resume(t) \/ Pool!Release(t)
    BY DEF Next, Step, Accept, Stop, Join, Begin, Connect, Wait, GiveUp, Execute,
           Attempt, vars
  <2> QED
    BY <2>1 DEF pool, Pool!vars, Pool!Next, Pool!Step
<1> QED
  BY <1>1, <1>2, PTL DEF Spec, Pool!Spec
=============================================================================
