--------------------------- MODULE ConnectionPool ---------------------------
(***************************************************************************)
(* ConnectionPool and ConnectionGuard (src/app/db/connection_pool.{h,cpp}) *)
(* as the HTTP worker threads use them.                                    *)
(*                                                                         *)
(* acquire() and release() run under the pool's mutex, so each is one      *)
(* step, except that acquire() gives the mutex up inside cv.wait_for: a    *)
(* thread is then asleep until it is notified, wakes spuriously or its     *)
(* 30 seconds pass, and does the rest of acquire() in a second step when   *)
(* it has the mutex back.  Other threads may run acquire() in between.     *)
(***************************************************************************)
EXTENDS Integers, FiniteSets, SequencesExt

CONSTANTS Threads,   \* worker threads of the HTTP server
          PoolSize,  \* env.pool_size, an int
          None       \* a null connection

(* The constructor takes its size as int8_t: an int argument is narrowed. *)
Int8(n) == ((n + 128) % 256) - 128

(* One connection per turn of the constructor's loop. *)
Conns == 1 .. Int8(PoolSize)

ASSUME ThreadsAssumption == IsFiniteSet(Threads)
ASSUME PoolSizeAssumption == PoolSize \in Int
ASSUME NoneAssumption == None \notin Conns

VARIABLES stack,  \* the free connections, the last one on top
          pc,     \* where each thread is
          conn    \* the connection each thread's ConnectionGuard owns

vars == <<stack, pc, conn>>

(***************************************************************************)
(* idle: outside the pool; asleep: in cv.wait_for; woken: back from a      *)
(* notification or a spurious wakeup, about to take the mutex; late: the   *)
(* same after the deadline; holding: owns a connection; thrown: acquire()  *)
(* threw "connection pool timeout".                                        *)
(***************************************************************************)
States == {"idle", "asleep", "woken", "late", "holding", "thrown"}

Asleep == {t \in Threads : pc[t] = "asleep"}
Awake  == {t \in Threads : pc[t] \in {"woken", "late"}}

Init ==
    /\ stack = [i \in Conns |-> i]
    /\ pc = [t \in Threads |-> "idle"]
    /\ conn = [t \in Threads |-> None]
-----------------------------------------------------------------------------
(* Take that forgets pop_back(). *)
Take_NoPop(t) ==
    /\ stack # <<>>
    /\ stack' = stack
    /\ conn' = [conn EXCEPT ![t] = Last(stack)]
    /\ pc' = [pc EXCEPT ![t] = "holding"]

(* The predicate holds: the top of the stack moves into the guard. *)
Take(t) ==
    /\ stack # <<>>
    /\ stack' = Front(stack)
    /\ conn' = [conn EXCEPT ![t] = Last(stack)]
    /\ pc' = [pc EXCEPT ![t] = "holding"]

(* acquire() up to cv.wait_for's first test of the predicate. *)
Acquire(t) ==
    /\ pc[t] \in {"idle", "thrown"}
    /\ \/ Take(t)
       \/ /\ stack = <<>>
          /\ pc' = [pc EXCEPT ![t] = "asleep"]
          /\ UNCHANGED <<stack, conn>>

(* A condition variable may return with nobody having notified it. *)
SpuriousWake(t) ==
    /\ pc[t] = "asleep"
    /\ pc' = [pc EXCEPT ![t] = "woken"]
    /\ UNCHANGED <<stack, conn>>

(* CONNECTION_TIMEOUT passes before the thread has the mutex back, whether *)
(* or not it had been notified.                                            *)
Expire(t) ==
    /\ pc[t] \in {"asleep", "woken"}
    /\ pc' = [pc EXCEPT ![t] = "late"]
    /\ UNCHANGED <<stack, conn>>

(* Resume that believes cv_status::timeout and does not test the predicate. *)
Resume_NoRetest(t) ==
    \/ pc[t] = "woken" /\ Take(t)
    \/ /\ pc[t] = "woken" => stack = <<>>
       /\ pc[t] \in {"woken", "late"}
       /\ pc' = [pc EXCEPT ![t] = IF pc[t] = "late" THEN "thrown" ELSE "asleep"]
       /\ UNCHANGED <<stack, conn>>

(* Resume that starts its 30 seconds anew after each wakeup. *)
Resume_NewDeadline(t) ==
    /\ pc[t] \in {"woken", "late"}
    /\ \/ Take(t)
       \/ /\ stack = <<>>
          /\ pc' = [pc EXCEPT ![t] = "asleep"]
          /\ UNCHANGED <<stack, conn>>

(* The rest of wait_for and of acquire(), with the mutex: the predicate is *)
(* tested again, also after the deadline.                                  *)
Resume(t) ==
    /\ pc[t] \in {"woken", "late"}
    /\ \/ Take(t)
       \/ /\ stack = <<>>
          /\ pc' = [pc EXCEPT ![t] = IF pc[t] = "late" THEN "thrown" ELSE "asleep"]
          /\ UNCHANGED <<stack, conn>>

(* Release that notifies only when the stack was empty. *)
Release_NotifyFirst(t) ==
    /\ pc[t] = "holding"
    /\ stack' = Append(stack, conn[t])
    /\ conn' = [conn EXCEPT ![t] = None]
    /\ \/ /\ Asleep = {} \/ stack # <<>>
          /\ pc' = [pc EXCEPT ![t] = "idle"]
       \/ /\ stack = <<>>
          /\ \E u \in Asleep : pc' = [pc EXCEPT ![t] = "idle", ![u] = "woken"]

(* ~ConnectionGuard: release() pushes and wakes one sleeper, if there is any. *)
Release(t) ==
    /\ pc[t] = "holding"
    /\ stack' = Append(stack, conn[t])
    /\ conn' = [conn EXCEPT ![t] = None]
    /\ \/ /\ Asleep = {}
          /\ pc' = [pc EXCEPT ![t] = "idle"]
       \/ \E u \in Asleep : pc' = [pc EXCEPT ![t] = "idle", ![u] = "woken"]

Step(t) ==
    \/ Acquire(t)
    \/ SpuriousWake(t)
    \/ Expire(t)
    \/ Resume(t)
    \/ Release(t)

Next == \E t \in Threads : Step(t)

Spec == Init /\ [][Next]_vars

(***************************************************************************)
(* A thread that is runnable gets the mutex some time.  Nothing makes a    *)
(* holder release: that is up to the database.                             *)
(***************************************************************************)
FairSpec == Spec /\ \A t \in Threads : WF_vars(Resume(t))

(* The clock reaches every deadline. *)
Deadlines == \A t \in Threads : WF_vars(Expire(t))
-----------------------------------------------------------------------------
(* Type invariant. *)
TypeOK ==
    /\ stack \in Seq(Conns)
    /\ pc \in [Threads -> States]
    /\ conn \in [Threads -> Conns \cup {None}]

(* No stack entry is repeated. *)
NoRepeats == \A i, j \in DOMAIN stack : stack[i] = stack[j] => i = j

(* No two guards own the same connection, and none owns a free one. *)
Exclusive ==
    \A t \in Threads : conn[t] # None =>
        /\ conn[t] \notin ToSet(stack)
        /\ \A u \in Threads : conn[u] = conn[t] => u = t

(* Exactly the threads past acquire() own one. *)
GuardsMatch == \A t \in Threads : pc[t] = "holding" <=> conn[t] # None

(* Each connection that was opened is free or owned. *)
NoneLeaked == Conns = ToSet(stack) \cup ({conn[t] : t \in Threads} \ {None})

(* The connections that acquire() and release() move around are conserved: *)
(* each one is at any time free exactly once or owned by exactly one guard,*)
(* whatever the order of timeouts, wakeups and barging threads.            *)
Accounted == NoRepeats /\ Exclusive /\ GuardsMatch /\ NoneLeaked

(* release() notifies one thread per connection and acquire() passes no    *)
(* notification on; still, while a thread sleeps in acquire(), each free   *)
(* connection has a thread on its way that can take it.                    *)
NoLostWakeup == Asleep # {} => Len(stack) <= Cardinality(Awake)

(* The pool implements PoolPromise: in particular acquire() throws only at *)
(* an instant at which no connection is free (its last test of the         *)
(* predicate, under the mutex), and blocks only then.                      *)
Promise == INSTANCE PoolPromise WITH
    free    <- ToSet(stack),
    owner   <- conn,
    waiting <- {t \in Threads : pc[t] \in {"asleep", "woken", "late"}},
    refused <- {t \in Threads : pc[t] = "thrown"}

PromiseSpec == Promise!Spec

(* acquire() always ends, with a connection or with the timeout error, as   *)
(* the clock goes on: nobody's wakeups and barging put a deadline off.      *)
BoundedWait ==
    Deadlines =>
        \A t \in Threads : pc[t] = "asleep" ~> pc[t] \in {"holding", "thrown"}
=============================================================================
