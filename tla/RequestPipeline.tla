-------------------------- MODULE RequestPipeline --------------------------
(***************************************************************************)
(* The server's worker threads at work on requests: the thread pool that   *)
(* server.cpp gives to the HTTP library, pre_request_middleware,           *)
(* rate_limit_middleware and errors_middleware around the handlers, the    *)
(* repository calls of a handler, each with a connection of its own from   *)
(* ConnectionPool, and LLMService::enrich with its retries.                *)
(*                                                                         *)
(* What a statement does to the tables is the subject of other modules:    *)
(* here it holds a connection and succeeds or not.  So are the life of the *)
(* worker threads (ThreadPool) and of the clients' connections (Server):   *)
(* here a worker takes one request at a time from the queue.               *)
(***************************************************************************)
EXTENDS Integers, FiniteSets, SequencesExt

CONSTANTS Threads,      \* the worker threads
          PoolSize,     \* connections
          Users,        \* the users that JWTs are issued for
          Anonymous,    \* the user id 0: none
          Invalid,      \* an Authorization header that is not accepted
          Profiles,     \* the requests that clients send
          MaxRequests,  \* bound on the requests accepted
          MaxAttempts,  \* 3
          None

(***************************************************************************)
(* login stands for the three public routes, which make one or two         *)
(* repository calls; record for the routes that make one call for the      *)
(* caller's user.                                                          *)
(***************************************************************************)
Routes == {"login", "record", "wipe", "enrich"}
Public == {"login"}

(* The Authorization header: absent, not accepted, or a user's token. *)
Tokens == Users \cup {Anonymous, Invalid}

(* malformed: the validator throws; no_uuid: it does not, but the database *)
(* cannot read the id that the request gives.                              *)
Inputs == {"good", "malformed", "no_uuid"}

ASSUME TokensAssumption ==
    Anonymous \notin Users /\ Invalid \notin Users /\ Anonymous # Invalid
ASSUME ProfilesAssumption ==
    /\ Profiles \subseteq [route : Routes, token : Tokens, input : Inputs]
    /\ \A p \in Profiles : p.route = "wipe" => p.input = "good"
ASSUME BoundsAssumption == MaxRequests \in Nat /\ MaxAttempts \in Nat \ {0}

(* lost: a network error of the list in with_retry, or a 5xx; refused: any *)
(* other error or status; unusable: a 200 that to_constituent throws on.   *)
Outcomes == {"good", "unusable", "refused", "lost"}

(* 400 and 401 are thrown before the handler calls a repository, 4xx by a  *)
(* repository or a service.                                                *)
Statuses == {"2xx", "400", "401", "4xx", "429", "500"}

VARIABLES stack, pc, conn,  \* the connection pool
          listening,        \* the server's socket is open
          requests,         \* the requests accepted so far
          jobs,             \* the thread pool's queue: indices of requests
          at,               \* where each thread is
          current,          \* the request it handles
          calls,            \* the repository calls its handler still makes
          user_id,          \* its thread-local request_context
          tries,            \* the outcomes of its attempts to reach the LLM
          answers           \* what each request was answered

Pool == INSTANCE ConnectionPool

pool == <<stack, pc, conn>>
handler == <<at, current, calls, user_id, tries>>
vars == <<pool, listening, requests, jobs, handler, answers>>

Answered == [status : Statuses, tries : Seq(Outcomes)]

ASSUME PoolAssumption == PoolSize \in Int /\ None \notin Pool!Conns
ASSUME NoneAssumption == None \notin Answered

(* free: waits for a job; calling: about to acquire(); connecting: in      *)
(* acquire() or executing; asking: in with_retry; joined.                  *)
Places == {"free", "calling", "connecting", "asking", "joined"}

Init ==
    /\ Pool!Init
    /\ listening = TRUE
    /\ requests = <<>>
    /\ jobs = <<>>
    /\ at = [t \in Threads |-> "free"]
    /\ current = [t \in Threads |-> 0]
    /\ calls = [t \in Threads |-> 0]
    /\ user_id = [t \in Threads |-> Anonymous]
    /\ tries = [t \in Threads |-> <<>>]
    /\ answers = <<>>

Request(t) == requests[current[t]]
-----------------------------------------------------------------------------
(* The listener accepts a connection and enqueues it. *)
Accept(p) ==
    /\ listening
    /\ Len(requests) < MaxRequests
    /\ requests' = Append(requests, p)
    /\ jobs' = Append(jobs, Len(requests) + 1)
    /\ answers' = Append(answers, None)
    /\ UNCHANGED <<pool, listening, handler>>

(* SIGINT or SIGTERM: the socket is closed. *)
Stop ==
    /\ listening
    /\ listening' = FALSE
    /\ UNCHANGED <<pool, requests, jobs, handler, answers>>

(* The thread pool is shut down: a worker ends when no job is left. *)
Join(t) ==
    /\ ~listening
    /\ at[t] = "free"
    /\ jobs = <<>>
    /\ at' = [at EXCEPT ![t] = "joined"]
    /\ UNCHANGED <<pool, listening, requests, jobs, current, calls, user_id, tries, answers>>
-----------------------------------------------------------------------------
(* SetContext that leaves the last request's user in place. *)
SetContext_Stale(t, p) ==
    user_id' = [user_id EXCEPT ![t] = IF p.token \in Users THEN p.token ELSE @]

(* request_context: set_defaults, and set_user_id in process_jwt. *)
SetContext(t, p) ==
    user_id' = [user_id EXCEPT ![t] = IF p.token \in Users THEN p.token ELSE Anonymous]

(* What is thrown before the handler makes its first call.  A rate-limited *)
(* handler runs its validator after the limiter's call.                    *)
Thrown(p) ==
    IF p.token = Invalid \/ (p.token = Anonymous /\ p.route \notin Public) THEN "401"
    ELSE IF p.input = "malformed" /\ p.route # "enrich" THEN "400"
    ELSE "none"

Calls(route) == IF route \in {"login", "wipe"} THEN 2 ELSE 1

(* The request of thread t ends with an answer, its thread takes the next. *)
Answer(t, status, outcomes) ==
    /\ answers' = [answers EXCEPT ![current[t]] = [status |-> status, tries |-> outcomes]]
    /\ at' = [at EXCEPT ![t] = "free"]
    /\ current' = [current EXCEPT ![t] = 0]
    /\ tries' = [tries EXCEPT ![t] = <<>>]
    /\ calls' = [calls EXCEPT ![t] = 0]

(* A worker takes a job and runs it to the first repository call or to the *)
(* exception before it.                                                    *)
Begin(t) ==
    /\ at[t] = "free"
    /\ jobs # <<>>
    /\ jobs' = Tail(jobs)
    /\ LET p == requests[Head(jobs)]
       IN  /\ SetContext(t, p)
           /\ \/ /\ Thrown(p) # "none"
                 /\ answers' = [answers EXCEPT
                        ![Head(jobs)] = [status |-> Thrown(p), tries |-> <<>>]]
                 /\ UNCHANGED <<at, current, calls>>
              \/ /\ Thrown(p) = "none"
                 /\ at' = [at EXCEPT ![t] = "calling"]
                 /\ current' = [current EXCEPT ![t] = Head(jobs)]
                 /\ calls' = [calls EXCEPT ![t] = Calls(p.route)]
                 /\ UNCHANGED answers
    /\ UNCHANGED <<pool, listening, requests, tries>>

(* The repository method calls acquire(). *)
Connect(t) ==
    /\ at[t] = "calling"
    /\ Pool!Acquire(t)
    /\ at' = [at EXCEPT ![t] = "connecting"]
    /\ UNCHANGED <<listening, requests, jobs, current, calls, user_id, tries, answers>>

(* In acquire(). *)
Wait(t) ==
    /\ Pool!SpuriousWake(t) \/ Pool!Expire(t) \/ Pool!Resume(t)
    /\ UNCHANGED <<listening, requests, jobs, handler, answers>>

(* acquire() threw. *)
GiveUp(t) ==
    /\ at[t] = "connecting"
    /\ pc[t] = "thrown"
    /\ Answer(t, "500", <<>>)
    /\ UNCHANGED <<pool, listening, requests, jobs, user_id>>

(* The call ends and its guard with it; the handler goes on. *)
GoOn(t, place) ==
    /\ at' = [at EXCEPT ![t] = place]
    /\ calls' = [calls EXCEPT ![t] = @ - 1]
    /\ UNCHANGED <<current, tries, answers>>

(* What may follow the call of a handler: it throws, or it returns and the *)
(* handler makes its next call, answers, or asks the LLM.                  *)
AfterCall(t) ==
    LET p == Request(t)
    IN  \/ Answer(t, "500", <<>>)
        \/ /\ p.route = "enrich"
           /\ \/ Answer(t, "429", <<>>)
              \/ p.input = "malformed" /\ Answer(t, "400", <<>>)
              \/ p.input # "malformed" /\ GoOn(t, "asking")
        \/ /\ p.route # "enrich"
           /\ p.input = "good"
           /\ \/ calls[t] = 1 /\ Answer(t, "2xx", <<>>)
              \/ calls[t] > 1 /\ GoOn(t, "calling")
              \/ p.route = "login" /\ calls[t] > 1 /\ Answer(t, "2xx", <<>>)
              \/ p.route = "login" /\ calls[t] > 1 /\ Answer(t, "4xx", <<>>)
              \/ p.route = "record" /\ Answer(t, "4xx", <<>>)

(* Execute whose guard lives on when the handler does. *)
Execute_KeepGuard(t) ==
    /\ at[t] = "connecting"
    /\ pc[t] = "holding"
    /\ AfterCall(t)
    /\ IF at'[t] = "asking" THEN UNCHANGED pool ELSE Pool!Release(t)
    /\ UNCHANGED <<listening, requests, jobs, user_id>>

Execute(t) ==
    /\ at[t] = "connecting"
    /\ pc[t] = "holding"
    /\ AfterCall(t)
    /\ Pool!Release(t)
    /\ UNCHANGED <<listening, requests, jobs, user_id>>

(* Attempt that gives up one attempt early. *)
Attempt_OffByOne(t, outcome) ==
    LET outcomes == Append(tries[t], outcome)
    IN  /\ at[t] = "asking"
        /\ \/ /\ outcome = "lost"
              /\ Len(outcomes) < MaxAttempts - 1
              /\ tries' = [tries EXCEPT ![t] = outcomes]
              /\ UNCHANGED <<at, current, calls, answers>>
           \/ /\ outcome = "good"
              /\ Answer(t, "2xx", outcomes)
           \/ /\ outcome # "good"
              /\ outcome = "lost" => Len(outcomes) >= MaxAttempts - 1
              /\ Answer(t, "500", outcomes)
        /\ UNCHANGED <<pool, listening, requests, jobs, user_id>>

(* Attempt that never gives up: its count starts again. *)
Attempt_Endless(t, outcome) ==
    LET outcomes == Append(tries[t], outcome)
    IN  /\ at[t] = "asking"
        /\ \/ /\ outcome = "lost"
              /\ tries' = [tries EXCEPT ![t] =
                               IF Len(outcomes) < MaxAttempts THEN outcomes ELSE <<>>]
              /\ UNCHANGED <<at, current, calls, answers>>
           \/ /\ outcome = "good"
              /\ Answer(t, "2xx", outcomes)
           \/ /\ outcome \notin {"good", "lost"}
              /\ Answer(t, "500", outcomes)
        /\ UNCHANGED <<pool, listening, requests, jobs, user_id>>

(* One turn of with_retry's loop and, after the last one, to_constituent. *)
Attempt(t, outcome) ==
    LET outcomes == Append(tries[t], outcome)
    IN  /\ at[t] = "asking"
        /\ \/ /\ outcome = "lost"
              /\ Len(outcomes) < MaxAttempts
              /\ tries' = [tries EXCEPT ![t] = outcomes]
              /\ UNCHANGED <<at, current, calls, answers>>
           \/ /\ outcome = "good"
              /\ Answer(t, "2xx", outcomes)
           \/ /\ outcome # "good"
              /\ outcome = "lost" => Len(outcomes) = MaxAttempts
              /\ Answer(t, "500", outcomes)
        /\ UNCHANGED <<pool, listening, requests, jobs, user_id>>

Step(t) ==
    \/ Begin(t) \/ Connect(t) \/ GiveUp(t) \/ Execute(t)
    \/ \E outcome \in Outcomes : Attempt(t, outcome)
    \/ Join(t)

Next ==
    \/ \E p \in Profiles : Accept(p)
    \/ Stop
    \/ \E t \in Threads : Step(t) \/ Wait(t)

Spec == Init /\ [][Next]_vars

(***************************************************************************)
(* Runnable threads run, statements and LLM attempts end (the client has   *)
(* timeouts, the database is taken to answer), deadlines pass.             *)
(***************************************************************************)
FairSpec ==
    /\ Spec
    /\ \A t \in Threads :
          /\ WF_vars(Step(t))
          /\ WF_vars(Pool!Resume(t) /\ Wait(t))
          /\ WF_vars(Pool!Expire(t) /\ Wait(t))
-----------------------------------------------------------------------------
(* Type invariant; a request has one place: the queue, a thread, or its    *)
(* answer.                                                                 *)
TypeOK ==
    /\ Pool!TypeOK
    /\ listening \in BOOLEAN
    /\ requests \in Seq(Profiles)
    /\ jobs \in Seq(DOMAIN requests)
    /\ at \in [Threads -> Places]
    /\ current \in [Threads -> 0 .. Len(requests)]
    /\ calls \in [Threads -> 0 .. 2]
    /\ user_id \in [Threads -> Users \cup {Anonymous}]
    /\ tries \in [Threads -> Seq(Outcomes)]
    /\ answers \in [DOMAIN requests -> Answered \cup {None}]
    /\ \A i \in DOMAIN requests : answers[i] = None <=>
          \/ \E j \in DOMAIN jobs : jobs[j] = i
          \/ \E t \in Threads : at[t] \notin {"free", "joined"} /\ current[t] = i

Busy(t) == at[t] \notin {"free", "joined"}

(* Each request is handled in its own context: the user id that the        *)
(* repositories and the rate limiter read is the subject of its token, and *)
(* no user's when it has none, whatever the thread has handled before.     *)
ContextIsOwn ==
    \A t \in Threads : Busy(t) =>
        user_id[t] = Request(t).token

(* A connection is held for one repository call at a time: not while its   *)
(* thread asks the LLM or waits for another one, so that requests cannot   *)
(* wait for each other's connections in a circle.                          *)
OneConnectionPerCall ==
    \A t \in Threads :
        /\ conn[t] # None => at[t] = "connecting"
        /\ at[t] # "connecting" => pc[t] \in {"idle", "thrown"}

(* No request is lost on its way through the threads, and none keeps a     *)
(* connection beyond a repository call, on any path through the handlers.  *)
Consistent == TypeOK /\ OneConnectionPerCall

(* "Retries up to 3 times on transient network errors ... and on 5xx       *)
(* responses": only these lead to another attempt, enrich is answered with *)
(* an entry only from the last one, and given up for them only after       *)
(* MaxAttempts.  The code's 3 are attempts, of which 2 are retries.        *)
RetriesAsDescribed ==
    \A i \in DOMAIN answers : answers[i] # None /\ answers[i].tries # <<>> =>
        LET outcomes == answers[i].tries
        IN  /\ \A j \in DOMAIN outcomes : j < Len(outcomes) => outcomes[j] = "lost"
            /\ answers[i].status = "2xx" <=> Last(outcomes) = "good"
            /\ Last(outcomes) = "lost" => Len(outcomes) = MaxAttempts

(* Each request that a client has sent on a connection that was accepted   *)
(* is answered, also when the server has been told to stop meanwhile and   *)
(* when the pool times out.  A connection on which nothing has come when   *)
(* its worker looks after the stop is closed without an answer: that is    *)
(* keep_alive, in Server.                                                  *)
EveryRequestAnswered ==
    \A i \in 1 .. MaxRequests :
        Len(requests) >= i ~> Len(requests) >= i /\ answers[i] # None
=============================================================================
