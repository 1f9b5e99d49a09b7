----------------------------- MODULE ThreadPool -----------------------------
(***************************************************************************)
(* The thread pool of httplib.h as server.cpp uses it: POOL_SIZE base      *)
(* threads that live as long as the pool, and dynamic threads up to        *)
(* QUEUE_SIZE in all, which are spawned by enqueue() and leave after three *)
(* seconds without work.  The pool's queue has no bound (max_n_queued is   *)
(* not given).  enqueue() and shutdown() are both called by the thread     *)
(* that listens, one after the other.                                      *)
(*                                                                         *)
(* What is done under mutex_ is one step, except that the listener keeps   *)
(* it while it joins the threads that have finished.                       *)
(***************************************************************************)
EXTENDS Integers, FiniteSets, Sequences

CONSTANTS Base,        \* threads_
          Dynamic,     \* identities of dynamic threads
          MaxThreads,  \* max_thread_count_, from QUEUE_SIZE
          MaxJobs,     \* bound on the jobs submitted
          None

Jobs == 1 .. MaxJobs
Threads == Base \cup Dynamic

ASSUME ThreadsAssumption ==
    /\ IsFiniteSet(Base) /\ IsFiniteSet(Dynamic)
    /\ Base \cap Dynamic = {}
ASSUME MaxAssumption == MaxThreads \in Nat /\ MaxThreads >= Cardinality(Base)
ASSUME JobsAssumption == MaxJobs \in Nat /\ None \notin Jobs

VARIABLES jobs,               \* jobs_
          idle_thread_count,  \* idle_thread_count_
          shutdown,           \* shutdown_
          dynamic_threads,    \* dynamic_threads_
          finished_threads,   \* finished_threads_, exited or about to
          remaining_dynamic,  \* shutdown()'s local list
          thread,             \* where each thread is
          job,                \* the job it runs
          listener,           \* where the thread that listens is
          submitted           \* how many jobs it has enqueued

book == <<dynamic_threads, finished_threads, remaining_dynamic>>
vars == <<jobs, idle_thread_count, shutdown, book, thread, job, listener, submitted>>

(***************************************************************************)
(* none: does not exist; ready: about to lock mutex_; waiting: in          *)
(* cond_.wait; woken: notified, or for no reason, and about to lock again; *)
(* late: the same after three seconds; running: in fn(); leaving: out of   *)
(* the loop, without the mutex; exited: not joined yet.                    *)
(***************************************************************************)
ThreadStates == {"none", "ready", "waiting", "woken", "late", "running", "leaving", "exited"}

(***************************************************************************)
(* accepting: outside the pool; cleaning: in enqueue(), holds mutex_ and   *)
(* joins finished threads before it spawns one; notifying: between the     *)
(* lock of enqueue() and notify_one; flagged: between the lock of          *)
(* shutdown() and notify_all; joining: joins the base threads; taking:     *)
(* about to move dynamic_threads_ out; draining: joins them; sweeping:     *)
(* holds mutex_ and joins finished threads; closed: shutdown() returned.   *)
(***************************************************************************)
ListenerStates == {"accepting", "cleaning", "notifying", "flagged", "joining",
                   "taking", "draining", "sweeping", "closed"}

MutexFree == listener \notin {"cleaning", "sweeping"}

In(states) == {t \in Threads : thread[t] \in states}

Exited(T) == \A t \in T : thread[t] = "exited"

(* The threads of T are joined and are no more. *)
Joined(T) == [t \in Threads |-> IF t \in T THEN "none" ELSE thread[t]]

Init ==
    /\ jobs = <<>>
    /\ idle_thread_count = 0
    /\ shutdown = FALSE
    /\ dynamic_threads = {}
    /\ finished_threads = {}
    /\ remaining_dynamic = {}
    /\ thread = [t \in Threads |-> IF t \in Base THEN "ready" ELSE "none"]
    /\ job = [t \in Threads |-> None]
    /\ listener = "accepting"
    /\ submitted = 0
-----------------------------------------------------------------------------
(* The size that enqueue() compares with the maximum. *)
Size == Cardinality(Base) + Cardinality(dynamic_threads)

(* enqueue() up to the end of its lock, or to the joins under it.  It      *)
(* refuses when shutdown_ is set, which its only caller never sees.        *)
Enqueue ==
    /\ listener = "accepting"
    /\ ~shutdown
    /\ submitted < MaxJobs
    /\ jobs' = Append(jobs, submitted + 1)
    /\ submitted' = submitted + 1
    /\ listener' = IF idle_thread_count = 0 /\ Size < MaxThreads THEN "cleaning" ELSE "notifying"
    /\ UNCHANGED <<idle_thread_count, shutdown, book, thread, job>>

(* Spawn without cleanup_finished_threads(). *)
Spawn_NoCleanup ==
    /\ listener = "cleaning"
    /\ \E t \in Dynamic :
          /\ thread[t] = "none"
          /\ thread' = [thread EXCEPT ![t] = "ready"]
          /\ dynamic_threads' = dynamic_threads \cup {t}
    /\ listener' = "notifying"
    /\ UNCHANGED <<jobs, idle_thread_count, shutdown, finished_threads, remaining_dynamic, job, submitted>>

(* cleanup_finished_threads(), then a new dynamic thread, then the unlock. *)
Spawn ==
    /\ listener = "cleaning"
    /\ Exited(finished_threads)
    /\ finished_threads' = {}
    /\ \E t \in Dynamic :
          /\ Joined(finished_threads)[t] = "none"
          /\ thread' = [Joined(finished_threads) EXCEPT ![t] = "ready"]
          /\ dynamic_threads' = dynamic_threads \cup {t}
    /\ listener' = "notifying"
    /\ UNCHANGED <<jobs, idle_thread_count, shutdown, remaining_dynamic, job, submitted>>

(* NotifyOne only when the queue was empty before the push. *)
NotifyOne_WhenFirst ==
    /\ listener = "notifying"
    /\ IF In({"waiting"}) = {} \/ Len(jobs) > 1
       THEN UNCHANGED thread
       ELSE \E t \in In({"waiting"}) : thread' = [thread EXCEPT ![t] = "woken"]
    /\ listener' = "accepting"
    /\ UNCHANGED <<jobs, idle_thread_count, shutdown, book, job, submitted>>

(* cond_.notify_one() reaches one of those that wait, if any does. *)
NotifyOne ==
    /\ listener = "notifying"
    /\ IF In({"waiting"}) = {}
       THEN UNCHANGED thread
       ELSE \E t \in In({"waiting"}) : thread' = [thread EXCEPT ![t] = "woken"]
    /\ listener' = "accepting"
    /\ UNCHANGED <<jobs, idle_thread_count, shutdown, book, job, submitted>>
-----------------------------------------------------------------------------
(* shutdown(), its first lock.  The listener calls it when its loop ends. *)
BeginShutdown ==
    /\ listener = "accepting"
    /\ shutdown' = TRUE
    /\ listener' = "flagged"
    /\ UNCHANGED <<jobs, idle_thread_count, book, thread, job, submitted>>

(* NotifyAll with notify_one. *)
NotifyAll_One ==
    /\ listener = "flagged"
    /\ IF In({"waiting"}) = {}
       THEN UNCHANGED thread
       ELSE \E t \in In({"waiting"}) : thread' = [thread EXCEPT ![t] = "woken"]
    /\ listener' = "joining"
    /\ UNCHANGED <<jobs, idle_thread_count, shutdown, book, job, submitted>>

NotifyAll ==
    /\ listener = "flagged"
    /\ thread' = [t \in Threads |-> IF thread[t] = "waiting" THEN "woken" ELSE thread[t]]
    /\ listener' = "joining"
    /\ UNCHANGED <<jobs, idle_thread_count, shutdown, book, job, submitted>>

JoinBase ==
    /\ listener = "joining"
    /\ Exited(Base)
    /\ thread' = Joined(Base)
    /\ listener' = "taking"
    /\ UNCHANGED <<jobs, idle_thread_count, shutdown, book, job, submitted>>

TakeDynamic ==
    /\ listener = "taking"
    /\ remaining_dynamic' = dynamic_threads
    /\ dynamic_threads' = {}
    /\ listener' = "draining"
    /\ UNCHANGED <<jobs, idle_thread_count, shutdown, finished_threads, thread, job, submitted>>

JoinDynamic ==
    /\ listener = "draining"
    /\ Exited(remaining_dynamic)
    /\ thread' = Joined(remaining_dynamic)
    /\ remaining_dynamic' = {}
    /\ listener' = "sweeping"
    /\ UNCHANGED <<jobs, idle_thread_count, shutdown, dynamic_threads, finished_threads, job, submitted>>

(* The last cleanup_finished_threads(); shutdown() returns. *)
Sweep ==
    /\ listener = "sweeping"
    /\ Exited(finished_threads)
    /\ thread' = Joined(finished_threads)
    /\ finished_threads' = {}
    /\ listener' = "closed"
    /\ UNCHANGED <<jobs, idle_thread_count, shutdown, dynamic_threads, remaining_dynamic, job, submitted>>

Listener ==
    Spawn \/ NotifyOne \/ NotifyAll \/ JoinBase \/ TakeDynamic \/ JoinDynamic \/ Sweep
-----------------------------------------------------------------------------
(* The predicate of both waits. *)
HasWork == jobs # <<>> \/ shutdown

(* Proceed that stops at the flag alone. *)
Proceed_DropJobs(t) ==
    IF shutdown
    THEN /\ thread' = [thread EXCEPT ![t] = "leaving"]
         /\ UNCHANGED <<jobs, job>>
    ELSE /\ thread' = [thread EXCEPT ![t] = "running"]
         /\ job' = [job EXCEPT ![t] = Head(jobs)]
         /\ jobs' = Tail(jobs)

(* worker() past its wait, still under mutex_. *)
Proceed(t) ==
    IF shutdown /\ jobs = <<>>
    THEN /\ thread' = [thread EXCEPT ![t] = "leaving"]
         /\ UNCHANGED <<jobs, job>>
    ELSE /\ thread' = [thread EXCEPT ![t] = "running"]
         /\ job' = [job EXCEPT ![t] = Head(jobs)]
         /\ jobs' = Tail(jobs)

(* A turn of worker() up to its wait, or through it if there is work. *)
Enter(t) ==
    /\ thread[t] = "ready"
    /\ MutexFree
    /\ \/ /\ HasWork
          /\ Proceed(t)
          /\ UNCHANGED idle_thread_count
       \/ /\ ~HasWork
          /\ thread' = [thread EXCEPT ![t] = "waiting"]
          /\ idle_thread_count' = idle_thread_count + 1
          /\ UNCHANGED <<jobs, job>>
    /\ UNCHANGED <<shutdown, book, listener, submitted>>

(* A condition variable may return with nobody having notified it. *)
SpuriousWake(t) ==
    /\ thread[t] = "waiting"
    /\ thread' = [thread EXCEPT ![t] = "woken"]
    /\ UNCHANGED <<jobs, idle_thread_count, shutdown, book, job, listener, submitted>>

(* The three seconds of a dynamic thread pass, before or after it has been *)
(* notified but before it has the mutex.                                   *)
Expire(t) ==
    /\ t \in Dynamic
    /\ thread[t] \in {"waiting", "woken"}
    /\ thread' = [thread EXCEPT ![t] = "late"]
    /\ UNCHANGED <<jobs, idle_thread_count, shutdown, book, job, listener, submitted>>

(* The wait ends with the mutex and with the predicate true. *)
Resume(t) ==
    /\ thread[t] \in {"woken", "late"}
    /\ MutexFree
    /\ HasWork
    /\ idle_thread_count' = idle_thread_count - 1
    /\ Proceed(t)
    /\ UNCHANGED <<shutdown, book, listener, submitted>>

(* The predicate is false: back to waiting. *)
WaitAgain(t) ==
    /\ thread[t] = "woken"
    /\ MutexFree
    /\ ~HasWork
    /\ thread' = [thread EXCEPT ![t] = "waiting"]
    /\ UNCHANGED <<jobs, idle_thread_count, shutdown, book, job, listener, submitted>>

(* A thread that shutdown() has moved to its own list stays there. *)
MoveToFinished(t) ==
    /\ dynamic_threads' = dynamic_threads \ {t}
    /\ finished_threads' =
           IF t \in dynamic_threads THEN finished_threads \cup {t} ELSE finished_threads
    /\ UNCHANGED remaining_dynamic

(* TimeOut that does not test the predicate again. *)
TimeOut_NoRetest(t) ==
    /\ thread[t] = "late"
    /\ MutexFree
    /\ idle_thread_count' = idle_thread_count - 1
    /\ MoveToFinished(t)
    /\ thread' = [thread EXCEPT ![t] = "leaving"]
    /\ UNCHANGED <<jobs, shutdown, job, listener, submitted>>

(* TimeOut that still counts the thread as idle. *)
TimeOut_KeepCount(t) ==
    /\ thread[t] = "late"
    /\ MutexFree
    /\ ~HasWork
    /\ MoveToFinished(t)
    /\ thread' = [thread EXCEPT ![t] = "leaving"]
    /\ UNCHANGED <<jobs, idle_thread_count, shutdown, job, listener, submitted>>

(* wait_for returns false: no work for three seconds. *)
TimeOut(t) ==
    /\ thread[t] = "late"
    /\ MutexFree
    /\ ~HasWork
    /\ idle_thread_count' = idle_thread_count - 1
    /\ MoveToFinished(t)
    /\ thread' = [thread EXCEPT ![t] = "leaving"]
    /\ UNCHANGED <<jobs, shutdown, job, listener, submitted>>

(* fn() returns. *)
Finish(t) ==
    /\ thread[t] = "running"
    /\ thread' = [thread EXCEPT ![t] = "ready"]
    /\ job' = [job EXCEPT ![t] = None]
    /\ UNCHANGED <<jobs, idle_thread_count, shutdown, book, listener, submitted>>

(* worker() returns, and the thread ends. *)
Leave(t) ==
    /\ thread[t] = "leaving"
    /\ thread' = [thread EXCEPT ![t] = "exited"]
    /\ UNCHANGED <<jobs, idle_thread_count, shutdown, book, job, listener, submitted>>

Worker(t) ==
    Enter(t) \/ Resume(t) \/ WaitAgain(t) \/ TimeOut(t) \/ Finish(t) \/ Leave(t)

Next ==
    \/ Enqueue
    \/ BeginShutdown
    \/ Listener
    \/ \E t \in Threads : Worker(t) \/ SpuriousWake(t) \/ Expire(t)

Spec == Init /\ [][Next]_vars

(***************************************************************************)
(* Threads run and their jobs end: a connection is served up to 100        *)
(* requests, each with time limits.  Nobody is made to enqueue or to shut  *)
(* the pool down; no wakeup without a cause and no time-out is relied on.  *)
(***************************************************************************)
FairSpec ==
    /\ Spec
    /\ WF_vars(Listener)
    /\ \A t \in Threads : WF_vars(Worker(t))
-----------------------------------------------------------------------------
(* Type invariant; a thread that is not joined yet is in one list.         *)
TypeOK ==
    /\ jobs \in Seq(Jobs)
    /\ idle_thread_count \in 0 .. Cardinality(Threads)
    /\ shutdown \in BOOLEAN
    /\ thread \in [Threads -> ThreadStates]
    /\ job \in [Threads -> Jobs \cup {None}]
    /\ listener \in ListenerStates
    /\ submitted \in 0 .. MaxJobs
    /\ dynamic_threads \cap finished_threads = {}
    /\ remaining_dynamic \cap (dynamic_threads \cup finished_threads) = {}
    /\ dynamic_threads \cup finished_threads \cup remaining_dynamic =
           Dynamic \ In({"none"})

(* The counter that decides about a new thread counts the threads in their *)
(* wait, on every way into it and out of it.                               *)
IdleIsExact == idle_thread_count = Cardinality(In({"waiting", "woken", "late"}))

(* The pool's own account of its threads is right: each dynamic one that   *)
(* exists is in exactly one of the lists, from which it will be joined     *)
(* once, also when shutdown() empties a list while a thread times out; and *)
(* the idle ones are counted.                                              *)
Consistent == TypeOK /\ IdleIsExact

(* The process never has more threads than QUEUE_SIZE, those included that *)
(* the pool does not count any more and has not joined yet.                *)
FewThreads == Cardinality(Threads \ In({"none"})) <= MaxThreads

(* While a thread waits, there is for every job in the queue a thread that *)
(* is about to look for one, or a notification that is on its way.         *)
NoLostWakeup ==
    In({"waiting"}) # {} =>
        Len(jobs) <= Cardinality(In({"ready", "woken", "late"}))
                     + (IF listener = "notifying" THEN 1 ELSE 0)

(* What the pool promises to the server: jobs are started in order, each   *)
(* by one thread, and shutdown() returns only when all have ended.         *)
Queue == INSTANCE TaskQueue WITH
    Workers <- Threads,
    pending <- jobs,
    running <- job,
    phase <- IF listener = "closed" THEN "closed" ELSE IF shutdown THEN "closing" ELSE "open"

QueueSpec == Queue!Spec

(* Each job that was enqueued is started and ends.                         *)
EveryJobRuns ==
    \A n \in Jobs :
        submitted >= n ~>
            (\A i \in DOMAIN jobs : jobs[i] # n) /\ (\A t \in Threads : job[t] # n)

(* shutdown() returns, and with it every thread has been joined.           *)
ShutdownReturns == shutdown ~> listener = "closed" /\ In(ThreadStates \ {"none"}) = {}
=============================================================================
