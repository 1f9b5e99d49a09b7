-------------------------- MODULE ThreadPoolProofs --------------------------
(***************************************************************************)
(* Proofs about ThreadPool: its account of its threads is right, there are *)
(* never more of them than the maximum, no thread sleeps while a job waits *)
(* that nobody is about to take, and the pool implements TaskQueue.        *)
(***************************************************************************)
EXTENDS ThreadPool, FiniteSetTheorems, SequenceTheorems, TLAPS

(* The idle threads, those that will look for a job, and those in worker's *)
(* loop.                                                                   *)
Idle == In({"waiting", "woken", "late"})

Looking == In({"ready", "woken", "late"})

AtWork == {"ready", "waiting", "woken", "late", "running"}

(* The steps of shutdown() after its first lock. *)
ShutdownStates == {"flagged", "joining", "taking", "draining", "sweeping", "closed"}

(* The dynamic threads that exist are few, and fewer when one is spawned, *)
(* for which no thread is idle and no list has been taken.                *)
Bounded ==
    /\ Cardinality(Base) + Cardinality(Dynamic \ In({"none"})) <= MaxThreads
    /\ listener = "cleaning" => Size < MaxThreads /\ idle_thread_count = 0

(* A thread has a job while it runs it. *)
OneJob == \A t \in Threads : job[t] # None <=> thread[t] = "running"

(* Only a thread that timed out leaves before shutdown() has emptied the *)
(* queue, and it is on the list of those that have finished.             *)
LastToLeave ==
    /\ \A t \in Base \cup dynamic_threads \cup remaining_dynamic :
          thread[t] \notin AtWork => shutdown /\ jobs = <<>>
    /\ \A t \in finished_threads : thread[t] \in {"leaving", "exited"}
    /\ \A t \in Base : thread[t] # "late"

(* How far shutdown() has come. *)
Stages ==
    /\ shutdown <=> listener \in ShutdownStates
    /\ listener \in {"taking", "draining", "sweeping", "closed"} =>
          \A t \in Base : thread[t] = "none"
    /\ listener \in {"draining", "sweeping", "closed"} => dynamic_threads = {}
    /\ listener # "draining" => remaining_dynamic = {}
    /\ listener = "closed" => finished_threads = {}

Inv ==
    /\ TypeOK
    /\ IdleIsExact
    /\ Bounded
    /\ OneJob
    /\ LastToLeave
    /\ Stages
    /\ NoLostWakeup

(* With a thread allowed, there is one for the jobs in the queue. *)
Served == (jobs # <<>> /\ listener # "cleaning") => In(AtWork) # {}
-----------------------------------------------------------------------------
LEMMA ThreadsFinite == IsFiniteSet(Threads) /\ Cardinality(Threads) \in Nat
BY FS_Union, FS_CardinalityType, ThreadsAssumption DEF Threads

LEMMA Counts ==
    ASSUME NEW T \in SUBSET Threads
    PROVE  IsFiniteSet(T) /\ Cardinality(T) \in Nat /\ Cardinality(T) <= Cardinality(Threads)
BY ThreadsFinite, FS_Subset, FS_CardinalityType

(* One thread goes from its place to another. *)
LEMMA Moved ==
    ASSUME thread \in [Threads -> ThreadStates], NEW t \in Threads, NEW x, NEW states,
           thread' = [thread EXCEPT ![t] = x]
    PROVE  /\ (x \in states <=> thread[t] \in states) => In(states)' = In(states)
           /\ (x \in states /\ thread[t] \notin states) =>
                 Cardinality(In(states)') = Cardinality(In(states)) + 1
           /\ (x \notin states /\ thread[t] \in states) =>
                 Cardinality(In(states)') = Cardinality(In(states)) - 1
<1>1. In(states) \subseteq Threads /\ IsFiniteSet(In(states))
  <2>1. In(states) \subseteq Threads
    BY DEF In
  <2> QED
    BY <2>1, Counts
<1>2. (x \in states <=> thread[t] \in states) => In(states)' = In(states)
  BY DEF In
<1>3. ASSUME x \in states, thread[t] \notin states
      PROVE  Cardinality(In(states)') = Cardinality(In(states)) + 1
  <2>1. In(states)' = In(states) \cup {t} /\ t \notin In(states)
    BY <1>3 DEF In
  <2> QED
    BY <1>1, <2>1, FS_AddElement
<1>4. ASSUME x \notin states, thread[t] \in states
      PROVE  Cardinality(In(states)') = Cardinality(In(states)) - 1
  <2>1. In(states)' = In(states) \ {t} /\ t \in In(states)
    BY <1>4 DEF In
  <2> QED
    BY <1>1, <2>1, FS_RemoveElement
<1> QED
  BY <1>2, <1>3, <1>4

(* What the listener does to the threads: at most one is notified, all are *)
(* after shutdown()'s lock, or those that have exited are joined and one   *)
(* may be spawned.                                                         *)
LEMMA ListenerEffect ==
    ASSUME Inv, Enqueue \/ BeginShutdown \/ Listener
    PROVE  /\ idle_thread_count' = idle_thread_count
           /\ job' = job
           /\ \A t \in Threads :
                 \/ thread'[t] = thread[t]
                 \/ thread[t] = "waiting" /\ thread'[t] = "woken"
                 \/ thread[t] \in {"none", "exited"} /\ thread'[t] = "ready"
                       /\ t \in dynamic_threads' /\ listener = "cleaning"
                 \/ thread[t] = "exited" /\ thread'[t] = "none"
           /\ thread' \in [Threads -> ThreadStates]
<1> USE DEF book
<1>0. thread \in [Threads -> ThreadStates]
  BY DEF Inv, TypeOK
<1>1. CASE Enqueue \/ BeginShutdown \/ TakeDynamic
  BY <1>0, <1>1 DEF Enqueue, BeginShutdown, TakeDynamic
<1>2. CASE Spawn
  BY <1>0, <1>2 DEF Spawn, Exited, Joined, Threads, ThreadStates
<1>3. CASE NotifyOne
  BY <1>0, <1>3 DEF NotifyOne, In, ThreadStates
<1>4. CASE NotifyAll
  BY <1>0, <1>4 DEF NotifyAll, ThreadStates
<1>5. CASE JoinBase \/ JoinDynamic \/ Sweep
  BY <1>0, <1>5 DEF JoinBase, JoinDynamic, Sweep, Exited, Joined, ThreadStates
<1> QED
  BY <1>1, <1>2, <1>3, <1>4, <1>5 DEF Listener

(* What a thread does to itself. *)
LEMMA WorkerEffect ==
    ASSUME Inv, NEW t \in Threads, Worker(t) \/ SpuriousWake(t) \/ Expire(t)
    PROVE  /\ \E x \in ThreadStates :
                 /\ thread' = [thread EXCEPT ![t] = x]
                 /\ idle_thread_count' - idle_thread_count =
                       (IF x \in {"waiting", "woken", "late"} THEN 1 ELSE 0)
                       - (IF thread[t] \in {"waiting", "woken", "late"} THEN 1 ELSE 0)
                 /\ thread[t] \notin {"none", "exited"} /\ x # "none"
                 /\ thread[t] # "leaving" => x \in AtWork \/ (x = "leaving" /\ jobs = <<>>)
                 /\ thread[t] = "leaving" => x = "exited"
           /\ UNCHANGED <<shutdown, remaining_dynamic, listener, submitted>>
<1> USE DEF book, ThreadStates, AtWork
<1>0. thread \in [Threads -> ThreadStates] /\ idle_thread_count \in Int
  BY ThreadsFinite DEF Inv, TypeOK
<1>1. CASE Enter(t)
  BY <1>0, <1>1 DEF Enter, Proceed, HasWork
<1>2. CASE Resume(t)
  BY <1>0, <1>2 DEF Resume, Proceed, HasWork
<1>3. CASE WaitAgain(t) \/ SpuriousWake(t) \/ Expire(t)
  BY <1>0, <1>3 DEF WaitAgain, SpuriousWake, Expire
<1>4. CASE TimeOut(t)
  BY <1>0, <1>4 DEF TimeOut, MoveToFinished, HasWork
<1>5. CASE Finish(t) \/ Leave(t)
  BY <1>0, <1>5 DEF Finish, Leave
<1> QED
  BY <1>1, <1>2, <1>3, <1>4, <1>5 DEF Worker

LEMMA IdleStep ==
    ASSUME Inv, [Next]_vars
    PROVE  IdleIsExact'
<1> DEFINE I == {"waiting", "woken", "late"}
<1>0. /\ thread \in [Threads -> ThreadStates] /\ idle_thread_count \in Int
      /\ idle_thread_count = Cardinality(In(I))
  BY ThreadsFinite DEF Inv, TypeOK, IdleIsExact
<1>1. CASE Enqueue \/ BeginShutdown \/ Listener
  <2>1. In(I)' = In(I)
    BY <1>1, ListenerEffect DEF In
  <2> QED
    BY <1>0, <1>1, <2>1, ListenerEffect DEF IdleIsExact
<1>2. ASSUME NEW t \in Threads, Worker(t) \/ SpuriousWake(t) \/ Expire(t)
      PROVE  IdleIsExact'
  <2>1. PICK x \in ThreadStates :
           /\ thread' = [thread EXCEPT ![t] = x]
           /\ idle_thread_count' - idle_thread_count =
                 (IF x \in I THEN 1 ELSE 0) - (IF thread[t] \in I THEN 1 ELSE 0)
    BY <1>2, WorkerEffect
  <2>2. idle_thread_count' \in Int
    BY <1>0, <1>2 DEF Worker, Enter, Resume, WaitAgain, TimeOut, Finish, Leave, SpuriousWake, Expire
  <2>3. In(I) \subseteq Threads
    BY DEF In
  <2>4. Cardinality(In(I)) \in Nat
    BY <2>3, Counts
  <2>5. /\ (x \in I <=> thread[t] \in I) => In(I)' = In(I)
        /\ (x \in I /\ thread[t] \notin I) => Cardinality(In(I)') = Cardinality(In(I)) + 1
        /\ (x \notin I /\ thread[t] \in I) => Cardinality(In(I)') = Cardinality(In(I)) - 1
    BY <1>0, <2>1, Moved
  <2> HIDE DEF I
  <2>6. idle_thread_count' = Cardinality(In(I)')
    BY <1>0, <2>1, <2>2, <2>4, <2>5
  <2> QED
    BY <2>6 DEF IdleIsExact, I
<1>3. CASE UNCHANGED vars
  BY <1>0, <1>3 DEF vars, IdleIsExact, In
<1> QED
  BY <1>1, <1>2, <1>3 DEF Next
-----------------------------------------------------------------------------
LEMMA StagesStep ==
    ASSUME Inv, [Next]_vars
    PROVE  Stages'
<1> USE DEF book, ShutdownStates, ListenerStates
<1>0. /\ thread \in [Threads -> ThreadStates]
      /\ Base \subseteq Threads
      /\ Stages
  BY DEF Inv, TypeOK, Threads
<1>1. CASE Enqueue \/ BeginShutdown
  BY <1>0, <1>1 DEF Enqueue, BeginShutdown, Stages
<1>2. CASE Spawn \/ NotifyOne \/ NotifyAll
  BY <1>0, <1>2 DEF Spawn, NotifyOne, NotifyAll, Stages
<1>3. CASE JoinBase
  BY <1>0, <1>3 DEF JoinBase, Joined, Stages
<1>4. CASE TakeDynamic
  BY <1>0, <1>4 DEF TakeDynamic, Stages
<1>5. CASE JoinDynamic \/ Sweep
  BY <1>0, <1>5 DEF JoinDynamic, Sweep, Joined, Stages
<1>6. ASSUME NEW t \in Threads, Worker(t) \/ SpuriousWake(t) \/ Expire(t)
      PROVE  Stages'
  <2>1. /\ shutdown' = shutdown /\ remaining_dynamic' = remaining_dynamic /\ listener' = listener
        /\ \A b \in Base : thread[b] = "none" => thread'[b] = "none"
    BY <1>0, <1>6, WorkerEffect
  <2>2. \/ UNCHANGED <<dynamic_threads, finished_threads>>
        \/ MoveToFinished(t)
    BY <1>6 DEF Worker, Enter, Resume, WaitAgain, TimeOut, Finish, Leave, SpuriousWake, Expire
  <2>3. dynamic_threads = {} => dynamic_threads' = {} /\ finished_threads' = finished_threads
    BY <2>2 DEF MoveToFinished
  <2> QED
    BY <1>0, <2>1, <2>3 DEF Stages
<1>7. CASE UNCHANGED vars
  BY <1>0, <1>7 DEF vars, Stages
<1> QED
  BY <1>1, <1>2, <1>3, <1>4, <1>5, <1>6, <1>7 DEF Next, Listener

LEMMA OneJobStep ==
    ASSUME Inv, [Next]_vars
    PROVE  OneJob' /\ job' \in [Threads -> Jobs \cup {None}] /\ jobs' \in Seq(Jobs)
                   /\ submitted' \in 0 .. MaxJobs
<1> USE DEF book
<1>0. /\ thread \in [Threads -> ThreadStates]
      /\ job \in [Threads -> Jobs \cup {None}]
      /\ jobs \in Seq(Jobs) /\ submitted \in 0 .. MaxJobs
      /\ None \notin Jobs
      /\ \A t \in Threads : job[t] # None <=> thread[t] = "running"
  BY JobsAssumption DEF Inv, TypeOK, OneJob
<1>1. CASE Enqueue \/ BeginShutdown \/ Listener
  <2>1. OneJob' /\ job' = job
    BY <1>0, <1>1, ListenerEffect DEF OneJob
  <2>2. CASE Enqueue
    <3>1. submitted + 1 \in Jobs /\ submitted' \in 0 .. MaxJobs
      BY <1>0, <2>2, JobsAssumption DEF Enqueue, Jobs
    <3> QED
      BY <1>0, <2>1, <2>2, <3>1, AppendProperties DEF Enqueue
  <2>3. CASE ~ Enqueue
    <3>1. jobs' = jobs /\ submitted' = submitted
      BY <1>1, <2>3 DEF BeginShutdown, Listener, Spawn, NotifyOne, NotifyAll, JoinBase, TakeDynamic,
                        JoinDynamic, Sweep
    <3> QED
      BY <1>0, <2>1, <3>1
  <2> QED
    BY <2>2, <2>3
<1>2. ASSUME NEW t \in Threads, Enter(t) \/ Resume(t)
      PROVE  OneJob' /\ job' \in [Threads -> Jobs \cup {None}] /\ jobs' \in Seq(Jobs)
                     /\ submitted' \in 0 .. MaxJobs
  <2>0. submitted' = submitted /\ thread[t] # "running"
    BY <1>2 DEF Enter, Resume
  <2>1. CASE Proceed(t) /\ HasWork /\ jobs # <<>>
    <3>1. Head(jobs) \in Jobs /\ Tail(jobs) \in Seq(Jobs)
      BY <1>0, <2>1, HeadTailProperties
    <3>2. /\ thread' = [thread EXCEPT ![t] = "running"]
          /\ job' = [job EXCEPT ![t] = Head(jobs)] /\ jobs' = Tail(jobs)
      BY <2>1 DEF Proceed
    <3> QED
      BY <1>0, <2>0, <3>1, <3>2 DEF OneJob
  <2>2. CASE Proceed(t) /\ HasWork /\ jobs = <<>>
    <3>1. thread' = [thread EXCEPT ![t] = "leaving"] /\ jobs' = jobs /\ job' = job
      BY <2>2 DEF Proceed, HasWork
    <3> QED
      BY <1>0, <2>0, <3>1 DEF OneJob
  <2>3. CASE thread' = [thread EXCEPT ![t] = "waiting"] /\ jobs' = jobs /\ job' = job
    BY <1>0, <2>0, <2>3 DEF OneJob
  <2> QED
    BY <1>2, <2>1, <2>2, <2>3 DEF Enter, Resume
<1>3. ASSUME NEW t \in Threads,
             WaitAgain(t) \/ TimeOut(t) \/ Finish(t) \/ Leave(t) \/ SpuriousWake(t) \/ Expire(t)
      PROVE  OneJob' /\ job' \in [Threads -> Jobs \cup {None}] /\ jobs' \in Seq(Jobs)
                     /\ submitted' \in 0 .. MaxJobs
  BY <1>0, <1>3 DEF WaitAgain, TimeOut, Finish, Leave, SpuriousWake, Expire, OneJob
<1>4. CASE UNCHANGED vars
  BY <1>0, <1>4 DEF vars, OneJob
<1> QED
  BY <1>1, <1>2, <1>3, <1>4 DEF Next, Worker

LEMMA LastToLeaveStep ==
    ASSUME Inv, [Next]_vars
    PROVE  LastToLeave'
<1> USE DEF book
<1>0. /\ thread \in [Threads -> ThreadStates]
      /\ Base \subseteq Threads /\ Dynamic \subseteq Threads /\ Base \cap Dynamic = {}
      /\ dynamic_threads \subseteq Dynamic /\ finished_threads \subseteq Dynamic
      /\ remaining_dynamic \subseteq Dynamic
      /\ dynamic_threads \cap finished_threads = {}
      /\ remaining_dynamic \cap finished_threads = {}
      /\ \A t \in Base \cup dynamic_threads \cup remaining_dynamic :
            thread[t] \notin AtWork => shutdown /\ jobs = <<>>
      /\ \A t \in finished_threads : thread[t] \in {"leaving", "exited"}
      /\ \A t \in Base : thread[t] # "late"
  BY ThreadsAssumption DEF Inv, TypeOK, Threads, LastToLeave
<1>1. CASE Enqueue
  BY <1>0, <1>1 DEF Enqueue, LastToLeave
<1>2. CASE BeginShutdown \/ TakeDynamic
  BY <1>0, <1>2 DEF BeginShutdown, TakeDynamic, LastToLeave
<1>3. CASE Spawn
  <2>1. ASSUME NEW t \in Base \cup dynamic_threads \cup remaining_dynamic
        PROVE  thread'[t] = thread[t] \/ thread'[t] = "ready"
    BY <1>0, <1>3 DEF Spawn, Joined
  <2>2. \A t \in dynamic_threads' : t \in dynamic_threads \/ thread'[t] = "ready"
    BY <1>0, <1>3 DEF Spawn, Joined
  <2> QED
    BY <1>0, <1>3, <2>1, <2>2 DEF Spawn, LastToLeave, AtWork
<1>4. CASE NotifyOne
  BY <1>0, <1>4 DEF NotifyOne, In, LastToLeave, AtWork
<1>5. CASE NotifyAll
  BY <1>0, <1>5 DEF NotifyAll, LastToLeave, AtWork
<1>6. CASE JoinBase
  <2>1. \A t \in dynamic_threads \cup remaining_dynamic \cup finished_threads : thread'[t] = thread[t]
    BY <1>0, <1>6 DEF JoinBase, Joined
  <2>2. \A t \in Base : shutdown /\ jobs = <<>> /\ thread'[t] = "none"
    BY <1>0, <1>6 DEF JoinBase, Exited, Joined, AtWork
  <2> QED
    BY <1>0, <1>6, <2>1, <2>2 DEF JoinBase, LastToLeave
<1>7. CASE JoinDynamic
  <2>1. \A t \in Base \cup dynamic_threads \cup finished_threads : thread'[t] = thread[t]
    BY <1>0, <1>7 DEF JoinDynamic, Joined, Inv, TypeOK
  <2> QED
    BY <1>0, <1>7, <2>1 DEF JoinDynamic, LastToLeave
<1>8. CASE Sweep
  <2>1. \A t \in Base \cup dynamic_threads \cup remaining_dynamic : thread'[t] = thread[t]
    BY <1>0, <1>8 DEF Sweep, Joined
  <2> QED
    BY <1>0, <1>8, <2>1 DEF Sweep, LastToLeave
<1>9. ASSUME NEW t \in Threads, Enter(t) \/ Resume(t)
      PROVE  LastToLeave'
  <2>0. UNCHANGED <<shutdown, book>> /\ thread[t] \in {"ready", "woken", "late"}
    BY <1>9 DEF Enter, Resume
  <2>1. t \notin finished_threads
    BY <1>0, <2>0
  <2>2. \/ thread' = [thread EXCEPT ![t] = "leaving"] /\ shutdown /\ jobs = <<>> /\ jobs' = jobs
        \/ thread' = [thread EXCEPT ![t] = "running"] /\ jobs # <<>>
        \/ thread' = [thread EXCEPT ![t] = "waiting"] /\ jobs' = jobs
    BY <1>9 DEF Enter, Resume, Proceed, HasWork
  <2> QED
    BY <1>0, <2>0, <2>1, <2>2 DEF LastToLeave, AtWork
<1>10. ASSUME NEW t \in Threads, WaitAgain(t) \/ Finish(t) \/ Leave(t) \/ SpuriousWake(t) \/ Expire(t)
       PROVE  LastToLeave'
  BY <1>0, <1>10 DEF WaitAgain, Finish, Leave, SpuriousWake, Expire, LastToLeave, AtWork
<1>11. ASSUME NEW t \in Threads, TimeOut(t)
       PROVE  LastToLeave'
  <2>1. /\ thread' = [thread EXCEPT ![t] = "leaving"] /\ jobs' = jobs /\ shutdown' = shutdown
        /\ jobs = <<>> /\ ~shutdown
        /\ dynamic_threads' = dynamic_threads \ {t} /\ remaining_dynamic' = remaining_dynamic
        /\ finished_threads' \subseteq finished_threads \cup {t}
        /\ thread[t] = "late"
    BY <1>11 DEF TimeOut, MoveToFinished, HasWork
  <2>2. t \in Dynamic
    BY <1>0, <2>1 DEF Threads
  <2>3. remaining_dynamic = {}
    BY <2>1 DEF Inv, Stages, ShutdownStates
  <2> QED
    BY <1>0, <2>1, <2>2, <2>3 DEF LastToLeave
<1>12. CASE UNCHANGED vars
  BY <1>0, <1>12 DEF vars, LastToLeave
<1> QED
  BY <1>1, <1>2, <1>3, <1>4, <1>5, <1>6, <1>7, <1>8, <1>9, <1>10, <1>11, <1>12
     DEF Next, Listener, Worker
-----------------------------------------------------------------------------
(* The three lists hold the dynamic threads that exist, each in one. *)
LEMMA ListsStep ==
    ASSUME Inv, [Next]_vars
    PROVE  /\ dynamic_threads' \cap finished_threads' = {}
           /\ remaining_dynamic' \cap (dynamic_threads' \cup finished_threads') = {}
           /\ dynamic_threads' \cup finished_threads' \cup remaining_dynamic' =
                  Dynamic \ In({"none"})'
<1> USE DEF book
<1> DEFINE Lists ==
             /\ dynamic_threads' \cap finished_threads' = {}
             /\ remaining_dynamic' \cap (dynamic_threads' \cup finished_threads') = {}
             /\ \A t \in dynamic_threads' \cup finished_threads' \cup remaining_dynamic' :
                   t \in Dynamic /\ thread'[t] # "none"
             /\ \A t \in Dynamic : thread'[t] # "none" =>
                   t \in dynamic_threads' \cup finished_threads' \cup remaining_dynamic'
<1>0. /\ thread \in [Threads -> ThreadStates]
      /\ Base \subseteq Threads /\ Dynamic \subseteq Threads /\ Base \cap Dynamic = {}
      /\ dynamic_threads \cap finished_threads = {}
      /\ remaining_dynamic \cap (dynamic_threads \cup finished_threads) = {}
      /\ \A t \in dynamic_threads \cup finished_threads \cup remaining_dynamic :
            t \in Dynamic /\ thread[t] # "none"
      /\ \A t \in Dynamic : thread[t] # "none" =>
            t \in dynamic_threads \cup finished_threads \cup remaining_dynamic
  BY ThreadsAssumption DEF Inv, TypeOK, Threads, In
<1>1. SUFFICES Lists
  BY <1>0 DEF In
<1>2. CASE Enqueue \/ BeginShutdown
  BY <1>0, <1>2 DEF Enqueue, BeginShutdown
<1>3. CASE Spawn
  <2>1. PICK t \in Dynamic :
           /\ Joined(finished_threads)[t] = "none"
           /\ thread' = [Joined(finished_threads) EXCEPT ![t] = "ready"]
           /\ dynamic_threads' = dynamic_threads \cup {t}
    BY <1>3 DEF Spawn
  <2>2. finished_threads' = {} /\ remaining_dynamic' = remaining_dynamic /\ remaining_dynamic = {}
    BY <1>3 DEF Spawn, Inv, Stages
  <2>3. thread'[t] = "ready"
    BY <1>0, <2>1 DEF Joined
  <2>4. \A u \in Dynamic \ {t} :
           thread'[u] = IF u \in finished_threads THEN "none" ELSE thread[u]
    BY <1>0, <2>1 DEF Joined
  <2> QED
    BY <1>0, <2>1, <2>2, <2>3, <2>4
<1>4. CASE NotifyOne
  BY <1>0, <1>4 DEF NotifyOne, In
<1>5. CASE NotifyAll
  BY <1>0, <1>5 DEF NotifyAll
<1>6. CASE JoinBase
  <2>1. \A t \in Dynamic : thread'[t] = thread[t]
    BY <1>0, <1>6 DEF JoinBase, Joined
  <2> QED
    BY <1>0, <1>6, <2>1 DEF JoinBase
<1>7. CASE TakeDynamic
  <2>1. remaining_dynamic = {}
    BY <1>7 DEF TakeDynamic, Inv, Stages
  <2> QED
    BY <1>0, <1>7, <2>1 DEF TakeDynamic
<1>8. CASE JoinDynamic
  <2>1. \A t \in Dynamic : thread'[t] = IF t \in remaining_dynamic THEN "none" ELSE thread[t]
    BY <1>0, <1>8 DEF JoinDynamic, Joined
  <2> QED
    BY <1>0, <1>8, <2>1 DEF JoinDynamic
<1>9. CASE Sweep
  <2>1. \A t \in Dynamic : thread'[t] = IF t \in finished_threads THEN "none" ELSE thread[t]
    BY <1>0, <1>9 DEF Sweep, Joined
  <2> QED
    BY <1>0, <1>9, <2>1 DEF Sweep
<1>10. ASSUME NEW t \in Threads, Worker(t) \/ SpuriousWake(t) \/ Expire(t)
       PROVE  Lists
  <2>1. /\ \A u \in Threads : thread'[u] # "none" <=> thread[u] # "none"
        /\ remaining_dynamic' = remaining_dynamic
    BY <1>0, <1>10, WorkerEffect
  <2>2. UNCHANGED <<dynamic_threads, finished_threads>> \/ MoveToFinished(t)
    BY <1>10 DEF Worker, Enter, Resume, WaitAgain, TimeOut, Finish, Leave, SpuriousWake, Expire
  <2> QED
    BY <1>0, <2>1, <2>2 DEF MoveToFinished
<1>11. CASE UNCHANGED vars
  BY <1>0, <1>11 DEF vars
<1> HIDE DEF Lists
<1> QED
  BY <1>2, <1>3, <1>4, <1>5, <1>6, <1>7, <1>8, <1>9, <1>10, <1>11 DEF Next, Listener

LEMMA TypeStep ==
    ASSUME Inv, [Next]_vars
    PROVE  TypeOK'
<1> USE DEF book
<1>1. thread' \in [Threads -> ThreadStates]
  <2>0. thread \in [Threads -> ThreadStates]
    BY DEF Inv, TypeOK
  <2>1. CASE Enqueue \/ BeginShutdown \/ Listener
    BY <2>1, ListenerEffect
  <2>2. ASSUME NEW t \in Threads, Worker(t) \/ SpuriousWake(t) \/ Expire(t)
        PROVE  thread' \in [Threads -> ThreadStates]
    <3>1. PICK x \in ThreadStates : thread' = [thread EXCEPT ![t] = x]
      BY <2>2, WorkerEffect
    <3> QED
      BY <2>0, <3>1
  <2>3. CASE UNCHANGED vars
    BY <2>0, <2>3 DEF vars
  <2> QED
    BY <2>1, <2>2, <2>3 DEF Next
<1>2. idle_thread_count' \in 0 .. Cardinality(Threads)
  <2>1. In({"waiting", "woken", "late"})' \subseteq Threads
    BY DEF In
  <2>2. idle_thread_count' = Cardinality(In({"waiting", "woken", "late"})')
    BY IdleStep DEF IdleIsExact
  <2> QED
    BY <2>1, <2>2, Counts, ThreadsFinite
<1>3. listener' \in ListenerStates /\ shutdown' \in BOOLEAN
  <2>0. listener \in ListenerStates /\ shutdown \in BOOLEAN
    BY DEF Inv, TypeOK
  <2>1. CASE Enqueue \/ BeginShutdown \/ Listener
    BY <2>0, <2>1 DEF Enqueue, BeginShutdown, Listener, Spawn, NotifyOne, NotifyAll, JoinBase,
                      TakeDynamic, JoinDynamic, Sweep, ListenerStates
  <2>2. ASSUME NEW t \in Threads, Worker(t) \/ SpuriousWake(t) \/ Expire(t)
        PROVE  listener' = listener /\ shutdown' = shutdown
    BY <2>2, WorkerEffect
  <2>3. CASE UNCHANGED vars
    BY <2>0, <2>3 DEF vars
  <2> QED
    BY <2>0, <2>1, <2>2, <2>3 DEF Next
<1> QED
  BY <1>1, <1>2, <1>3, ListsStep, OneJobStep DEF TypeOK

(* A thread is spawned only after the finished ones are joined, and while *)
(* no thread can time out or take another job.                            *)
LEMMA BoundedStep ==
    ASSUME Inv, [Next]_vars
    PROVE  Bounded'
<1> USE DEF book
<1> DEFINE Exist == Dynamic \ In({"none"})
<1>0. /\ thread \in [Threads -> ThreadStates]
      /\ Base \subseteq Threads /\ Dynamic \subseteq Threads /\ Base \cap Dynamic = {}
      /\ Cardinality(Base) \in Nat /\ MaxThreads \in Nat
      /\ IsFiniteSet(Exist) /\ Cardinality(Exist) \in Nat
      /\ dynamic_threads \cup finished_threads \cup remaining_dynamic = Exist
  <2>1. Base \subseteq Threads /\ Dynamic \subseteq Threads /\ Exist \subseteq Threads
    BY DEF Threads
  <2> QED
    BY <2>1, Counts, ThreadsAssumption, MaxAssumption DEF Inv, TypeOK
<1>1. /\ Cardinality(Base) + Cardinality(Exist) <= MaxThreads
      /\ listener = "cleaning" => Size < MaxThreads /\ idle_thread_count = 0
  BY DEF Inv, Bounded
<1>2. \/ Spawn
      \/ Exist' \subseteq Exist /\ (listener' = "cleaning" =>
            Size' < MaxThreads /\ idle_thread_count' = 0)
  <2>1. CASE Enqueue
    BY <1>0, <2>1 DEF Enqueue, Size, In
  <2>2. CASE BeginShutdown \/ TakeDynamic
    BY <2>2 DEF BeginShutdown, TakeDynamic, In
  <2>3. CASE NotifyOne \/ NotifyAll \/ JoinBase \/ JoinDynamic \/ Sweep
    <3>1. \A t \in Threads : thread[t] = "none" => thread'[t] = "none"
      BY <2>3, ListenerEffect DEF NotifyOne, NotifyAll, JoinBase, JoinDynamic, Sweep, Listener
    <3>2. listener' # "cleaning"
      BY <2>3 DEF NotifyOne, NotifyAll, JoinBase, JoinDynamic, Sweep
    <3> QED
      BY <1>0, <3>1, <3>2 DEF In
  <2>4. ASSUME NEW t \in Threads, Worker(t) \/ SpuriousWake(t) \/ Expire(t)
        PROVE  Exist' \subseteq Exist /\ (listener' = "cleaning" =>
                  Size' < MaxThreads /\ idle_thread_count' = 0)
    <3>1. \A u \in Threads : thread[u] = "none" => thread'[u] = "none"
      BY <1>0, <2>4, WorkerEffect
    <3>2. listener' = "cleaning" =>
             /\ listener = "cleaning"
             /\ idle_thread_count' = idle_thread_count /\ dynamic_threads' = dynamic_threads
      BY <2>4 DEF Worker, Enter, Resume, WaitAgain, TimeOut, Finish, Leave, SpuriousWake, Expire,
                  MutexFree
    <3> QED
      BY <1>0, <1>1, <3>1, <3>2 DEF In, Size
  <2>5. CASE UNCHANGED vars
    BY <1>1, <2>5 DEF vars, In, Size
  <2> HIDE DEF Exist
  <2> QED
    BY <2>1, <2>2, <2>3, <2>4, <2>5 DEF Next, Listener
<1>3. CASE Spawn
  <2>1. PICK t \in Dynamic : dynamic_threads' = dynamic_threads \cup {t}
    BY <1>3 DEF Spawn
  <2>2. Exist' = dynamic_threads \cup {t}
    BY <1>3, <2>1, ListsStep DEF Spawn, Inv, Stages
  <2>3. IsFiniteSet(dynamic_threads) /\ Cardinality(dynamic_threads) \in Nat
    <3>1. dynamic_threads \subseteq Threads
      BY <1>0
    <3> QED
      BY <3>1, Counts
  <2>4. Cardinality(dynamic_threads \cup {t}) <= Cardinality(dynamic_threads) + 1
          /\ Cardinality(dynamic_threads \cup {t}) \in Nat
    <3>1. /\ IsFiniteSet(dynamic_threads \cup {t})
          /\ Cardinality(dynamic_threads \cup {t}) =
                IF t \in dynamic_threads
                THEN Cardinality(dynamic_threads) ELSE Cardinality(dynamic_threads) + 1
      BY <2>3, FS_AddElement
    <3> QED
      BY <2>3, <3>1
  <2>5. Cardinality(Base) + Cardinality(dynamic_threads) < MaxThreads
    BY <1>1, <1>3 DEF Spawn, Size
  <2>6. Cardinality(Base) + Cardinality(Exist') <= MaxThreads
    <3> HIDE DEF Exist
    <3> QED
      BY <1>0, <2>2, <2>3, <2>4, <2>5
  <2> QED
    BY <1>3, <2>6 DEF Spawn, Bounded
<1>4. CASE Exist' \subseteq Exist /\ (listener' = "cleaning" =>
            Size' < MaxThreads /\ idle_thread_count' = 0)
  <2>1. Cardinality(Exist') <= Cardinality(Exist) /\ Cardinality(Exist') \in Nat
    <3> HIDE DEF Exist
    <3> QED
      BY <1>0, <1>4, FS_Subset, FS_CardinalityType
  <2>2. Cardinality(Base) + Cardinality(Exist') <= MaxThreads
    <3> HIDE DEF Exist
    <3> QED
      BY <1>0, <1>1, <2>1
  <2> QED
    BY <1>4, <2>2 DEF Bounded
<1> QED
  BY <1>2, <1>3, <1>4
-----------------------------------------------------------------------------
(* While there are threads that wait, those that look for work and the     *)
(* notification that is to come are enough for the queue.                  *)
LEMMA WakeupStep ==
    ASSUME Inv, [Next]_vars
    PROVE  NoLostWakeup'
<1> USE DEF book
<1> DEFINE L == {"ready", "woken", "late"}
           Due(l) == IF l = "notifying" THEN 1 ELSE 0
<1>0. /\ thread \in [Threads -> ThreadStates]
      /\ jobs \in Seq(Jobs) /\ Len(jobs) \in Nat
      /\ In({"waiting"}) # {} => Len(jobs) <= Cardinality(In(L)) + Due(listener)
  BY DEF Inv, TypeOK, NoLostWakeup
<1>1. /\ IsFiniteSet(In(L)) /\ Cardinality(In(L)) \in Nat
      /\ IsFiniteSet(In(L)') /\ Cardinality(In(L)') \in Nat
  <2>1. In(L) \subseteq Threads /\ In(L)' \subseteq Threads
    BY DEF In
  <2> HIDE DEF L
  <2> QED
    BY <2>1, Counts
<1>2. SUFFICES ASSUME In({"waiting"})' # {}
               PROVE  Len(jobs') <= Cardinality(In(L)') + Due(listener')
  BY DEF NoLostWakeup
<1>3. jobs' \in Seq(Jobs) /\ Len(jobs') \in Nat
  BY OneJobStep
<1>4. ASSUME jobs' = <<>>
      PROVE  Len(jobs') <= Cardinality(In(L)') + Due(listener')
  <2>1. Len(jobs') = 0
    BY <1>4
  <2> HIDE DEF L
  <2> QED
    BY <1>1, <2>1
<1>5. CASE Enqueue
  <2>1. thread' = thread /\ In(L)' = In(L) /\ In({"waiting"}) # {}
    BY <1>2, <1>5 DEF Enqueue, In
  <2>2. Len(jobs') = Len(jobs) + 1 /\ listener = "accepting"
    BY <1>0, <1>5, AppendProperties DEF Enqueue
  <2>3. idle_thread_count # 0
    <3>1. In({"waiting"}) \subseteq In({"waiting", "woken", "late"})
            /\ In({"waiting", "woken", "late"}) \subseteq Threads
      BY DEF In
    <3>2. IsFiniteSet(In({"waiting", "woken", "late"}))
      BY <3>1, Counts
    <3> QED
      BY <2>1, <3>1, <3>2, FS_EmptySet DEF Inv, IdleIsExact
  <2>4. listener' = "notifying"
    BY <1>5, <2>3 DEF Enqueue
  <2> HIDE DEF L
  <2> QED
    BY <1>0, <1>1, <2>1, <2>2, <2>4
<1>6. CASE BeginShutdown \/ TakeDynamic
  <2>1. /\ thread' = thread /\ In(L)' = In(L) /\ In({"waiting"}) # {} /\ jobs' = jobs
        /\ listener # "notifying"
    BY <1>2, <1>6 DEF BeginShutdown, TakeDynamic, In
  <2> HIDE DEF L
  <2> QED
    BY <1>0, <1>1, <2>1
<1>7. CASE Spawn
  <2>1. In({"waiting", "woken", "late"}) = {}
    <3>1. Cardinality(In({"waiting", "woken", "late"})) = 0
      BY <1>7 DEF Spawn, Inv, Bounded, IdleIsExact
    <3>2. In({"waiting", "woken", "late"}) \subseteq Threads
      BY DEF In
    <3> QED
      BY <3>1, <3>2, Counts, FS_EmptySet
  <2>2. \A t \in Threads : thread'[t] # "waiting"
    BY <1>7, <2>1, ListenerEffect DEF In, Listener
  <2> QED
    BY <1>2, <2>2 DEF In
<1>8. CASE NotifyOne
  <2>1. PICK t \in In({"waiting"}) : thread' = [thread EXCEPT ![t] = "woken"]
    BY <1>2, <1>8 DEF NotifyOne, In
  <2>2. t \in Threads /\ thread[t] = "waiting" /\ In({"waiting"}) # {}
    BY <2>1 DEF In
  <2>3. Cardinality(In(L)') = Cardinality(In(L)) + 1
    <3>1. "woken" \in L /\ thread[t] \notin L
      BY <2>2
    <3> HIDE DEF L
    <3> QED
      BY <1>0, <2>1, <2>2, <3>1, Moved
  <2>4. jobs' = jobs /\ listener = "notifying" /\ listener' = "accepting"
    BY <1>8 DEF NotifyOne
  <2> HIDE DEF L
  <2> QED
    BY <1>0, <1>1, <2>2, <2>3, <2>4
<1>9. CASE NotifyAll
  <2>1. \A t \in Threads : thread'[t] # "waiting"
    BY <1>0, <1>9 DEF NotifyAll
  <2> QED
    BY <1>2, <2>1 DEF In
<1>10. CASE JoinBase \/ JoinDynamic \/ Sweep
  <2>1. /\ In(L)' = In(L) /\ In({"waiting"}) # {}
        /\ jobs' = jobs /\ listener # "notifying"
    <3>1. \A t \in Threads : thread'[t] = thread[t]
                               \/ (thread[t] = "exited" /\ thread'[t] = "none")
      <4>1. CASE JoinBase
        BY <1>0, <4>1 DEF JoinBase, Exited, Joined
      <4>2. CASE JoinDynamic
        BY <1>0, <4>2 DEF JoinDynamic, Exited, Joined
      <4>3. CASE Sweep
        BY <1>0, <4>3 DEF Sweep, Exited, Joined
      <4> QED
        BY <1>10, <4>1, <4>2, <4>3
    <3> QED
      BY <1>2, <1>10, <3>1 DEF JoinBase, JoinDynamic, Sweep, In
  <2> HIDE DEF L
  <2> QED
    BY <1>0, <1>1, <2>1
<1>11. ASSUME NEW t \in Threads, Enter(t) \/ Resume(t), jobs # <<>>
       PROVE  Len(jobs') <= Cardinality(In(L)') + Due(listener')
  <2>1. /\ thread' = [thread EXCEPT ![t] = "running"] /\ jobs' = Tail(jobs)
        /\ thread[t] \in L /\ listener' = listener
    BY <1>11 DEF Enter, Resume, Proceed, HasWork
  <2>2. Cardinality(In(L)') = Cardinality(In(L)) - 1
    <3>1. "running" \notin L
      OBVIOUS
    <3> HIDE DEF L
    <3> QED
      BY <1>0, <2>1, <3>1, Moved
  <2>3. Len(jobs') = Len(jobs) - 1
    BY <1>0, <1>11, <2>1, HeadTailProperties
  <2>4. In({"waiting"}) # {}
    BY <1>0, <1>2, <2>1 DEF In
  <2> HIDE DEF L
  <2> QED
    BY <1>0, <1>1, <2>1, <2>2, <2>3, <2>4
<1>12. ASSUME NEW t \in Threads,
              \/ (Enter(t) \/ Resume(t)) /\ jobs = <<>>
              \/ WaitAgain(t) \/ TimeOut(t)
       PROVE  Len(jobs') <= Cardinality(In(L)') + Due(listener')
  <2>1. jobs' = <<>>
    BY <1>12 DEF Enter, Resume, Proceed, WaitAgain, TimeOut, HasWork
  <2> QED
    BY <1>4, <2>1
<1>13. ASSUME NEW t \in Threads, Finish(t) \/ Leave(t) \/ SpuriousWake(t) \/ Expire(t)
       PROVE  Len(jobs') <= Cardinality(In(L)') + Due(listener')
  <2>1. In(L) \subseteq In(L)' /\ In({"waiting"}) # {} /\ jobs' = jobs /\ listener' = listener
    BY <1>0, <1>2, <1>13 DEF Finish, Leave, SpuriousWake, Expire, In
  <2> HIDE DEF L
  <2>2. Cardinality(In(L)) <= Cardinality(In(L)')
    BY <1>1, <2>1, FS_Subset
  <2> QED
    BY <1>0, <1>1, <2>1, <2>2
<1>14. CASE UNCHANGED vars
  <2>1. In(L) = In(L)' /\ In({"waiting"}) # {} /\ jobs' = jobs /\ listener' = listener
    BY <1>2, <1>14 DEF vars, In
  <2> HIDE DEF L
  <2> QED
    BY <1>0, <1>1, <2>1
<1> HIDE DEF L
<1> QED
  BY <1>5, <1>6, <1>7, <1>8, <1>9, <1>10, <1>11, <1>12, <1>13, <1>14 DEF Next, Listener, Worker

LEMMA InitInv == Init => Inv
<1> SUFFICES ASSUME Init
             PROVE  Inv
  OBVIOUS
<1> USE DEF Init
<1>1. In({"waiting", "woken", "late"}) = {} /\ In({"waiting"}) = {}
        /\ Dynamic \ In({"none"}) = {} /\ \A t \in Base : thread[t] = "ready"
  BY ThreadsAssumption DEF In, Threads
<1>2. Cardinality({}) = 0
  BY FS_EmptySet
<1>3. TypeOK
  <2>1. thread \in [Threads -> ThreadStates] /\ job \in [Threads -> Jobs \cup {None}]
    BY DEF ThreadStates
  <2>2. /\ jobs \in Seq(Jobs) /\ idle_thread_count \in 0 .. Cardinality(Threads)
        /\ submitted \in 0 .. MaxJobs /\ listener \in ListenerStates
    BY ThreadsFinite, JobsAssumption DEF ListenerStates
  <2> QED
    BY <1>1, <2>1, <2>2 DEF TypeOK
<1>4. IdleIsExact /\ NoLostWakeup
  BY <1>1, <1>2 DEF IdleIsExact, NoLostWakeup
<1>5. Bounded
  <2>1. Cardinality(Base) \in Nat
    BY ThreadsAssumption, FS_CardinalityType
  <2>2. Cardinality(Dynamic \ In({"none"})) = 0
    BY <1>1, <1>2
  <2>3. Cardinality(Base) + Cardinality(Dynamic \ In({"none"})) <= MaxThreads
    BY <2>1, <2>2, MaxAssumption
  <2> QED
    BY <2>3 DEF Bounded
<1>6. OneJob /\ LastToLeave /\ Stages
  BY <1>1 DEF OneJob, LastToLeave, Stages, AtWork, ShutdownStates
<1> QED
  BY <1>3, <1>4, <1>5, <1>6 DEF Inv

LEMMA NextInv ==
    ASSUME Inv, [Next]_vars
    PROVE  Inv'
BY TypeStep, IdleStep, BoundedStep, OneJobStep, LastToLeaveStep, StagesStep, WakeupStep DEF Inv

LEMMA Invariance == Spec => []Inv
<1>1. Inv /\ [Next]_vars => Inv'
  BY NextInv
<1> QED
  BY <1>1, InitInv, PTL DEF Spec

(***************************************************************************)
(* The pool's account of its threads: each dynamic one that exists is on   *)
(* exactly one of the lists from which it is joined, and the counter that  *)
(* decides about a new thread counts the idle ones.                        *)
(***************************************************************************)
THEOREM AccountIsRight == Spec => []Consistent
<1>1. Inv => Consistent
  BY DEF Inv, Consistent
<1> QED
  BY <1>1, Invariance, PTL

(***************************************************************************)
(* Never more threads than QUEUE_SIZE, whatever the number of base         *)
(* threads and jobs: the finished ones are joined before one is spawned.   *)
(***************************************************************************)
THEOREM ThreadsAreFew == Spec => []FewThreads
<1>1. ASSUME Inv
      PROVE  FewThreads
  <2> DEFINE Exist == Dynamic \ In({"none"})
  <2>1. Base \subseteq Threads /\ Exist \subseteq Threads
          /\ Threads \ In({"none"}) \subseteq Base \cup Exist
    BY DEF Threads
  <2>2. IsFiniteSet(Base) /\ IsFiniteSet(Exist) /\ Cardinality(Base) \in Nat
          /\ Cardinality(Exist) \in Nat
    BY <2>1, Counts
  <2>3. Cardinality(Base) + Cardinality(Exist) <= MaxThreads
    BY <1>1 DEF Inv, Bounded
  <2> HIDE DEF Exist
  <2>4. /\ IsFiniteSet(Base \cup Exist)
        /\ Cardinality(Base \cup Exist) =
              Cardinality(Base) + Cardinality(Exist) - Cardinality(Base \cap Exist)
    BY <2>2, FS_Union
  <2>5. Cardinality(Base \cap Exist) \in Nat
    BY <2>2, FS_Intersection, FS_CardinalityType
  <2>6. Cardinality(Threads \ In({"none"})) <= Cardinality(Base \cup Exist)
          /\ Cardinality(Threads \ In({"none"})) \in Nat
    BY <2>1, <2>4, FS_Subset, Counts
  <2>7. Cardinality(Threads \ In({"none"})) <= MaxThreads
    BY <2>2, <2>3, <2>4, <2>5, <2>6, MaxAssumption
  <2> QED
    BY <2>7 DEF FewThreads
<1>2. Inv => FewThreads
  BY <1>1
<1> QED
  BY <1>2, Invariance, PTL

(***************************************************************************)
(* No lost wakeup: a thread does not sleep while the queue holds more jobs *)
(* than there are threads about to look for one, with the notification     *)
(* that enqueue() still owes; for any number of threads and jobs, spurious *)
(* wakeups and time-outs.                                                  *)
(***************************************************************************)
THEOREM NobodyOversleeps == Spec => []NoLostWakeup
<1>1. Inv => NoLostWakeup
  BY DEF Inv
<1> QED
  BY <1>1, Invariance, PTL
-----------------------------------------------------------------------------
LEMMA ServedStep ==
    ASSUME MaxThreads # 0, Inv, Served, [Next]_vars
    PROVE  Served'
<1> USE DEF book
<1>0. thread \in [Threads -> ThreadStates]
  BY DEF Inv, TypeOK
<1> SUFFICES ASSUME jobs' # <<>>, listener' # "cleaning"
             PROVE  \E t \in Threads : thread'[t] \in AtWork
  BY DEF Served, In
<1>1. (jobs # <<>> /\ listener # "cleaning") => \E t \in Threads : thread[t] \in AtWork
  BY DEF Served, In
<1>2. CASE Enqueue
  <2>1. /\ thread' = thread /\ listener = "accepting" /\ ~shutdown
        /\ idle_thread_count # 0 \/ ~ (Size < MaxThreads)
    BY <1>2 DEF Enqueue
  <2>2. CASE idle_thread_count # 0
    <3>1. In({"waiting", "woken", "late"}) # {}
      BY <2>2, FS_EmptySet DEF Inv, IdleIsExact
    <3> QED
      BY <2>1, <3>1 DEF In, AtWork
  <2>3. CASE ~ (Size < MaxThreads)
    <3>1. Base \subseteq Threads /\ dynamic_threads \subseteq Threads
      BY DEF Inv, TypeOK, Threads
    <3>2. Cardinality(Base) \in Nat /\ Cardinality(dynamic_threads) \in Nat
      BY <3>1, Counts
    <3>3. Cardinality(Base) # 0 \/ Cardinality(dynamic_threads) # 0
      BY <2>3, <3>2, MaxAssumption DEF Size
    <3>4. PICK t \in Base \cup dynamic_threads : TRUE
      BY <3>3, FS_EmptySet
    <3>5. thread[t] \in AtWork
      BY <2>1, <3>4 DEF Inv, LastToLeave
    <3> QED
      BY <2>1, <3>1, <3>4, <3>5
  <2> QED
    BY <2>1, <2>2, <2>3
<1>3. CASE Spawn
  <2>1. PICK t \in Dynamic : thread' = [Joined(finished_threads) EXCEPT ![t] = "ready"]
    BY <1>3 DEF Spawn
  <2>2. t \in Threads /\ thread'[t] = "ready"
    BY <2>1 DEF Joined, Threads
  <2> QED
    BY <2>2 DEF AtWork
<1>4. CASE BeginShutdown \/ NotifyOne \/ NotifyAll \/ JoinBase \/ TakeDynamic \/ JoinDynamic \/ Sweep
  <2>1. jobs' = jobs /\ listener # "cleaning"
    BY <1>4 DEF BeginShutdown, NotifyOne, NotifyAll, JoinBase, TakeDynamic, JoinDynamic, Sweep
  <2>2. PICK t \in Threads : thread[t] \in AtWork
    BY <1>1, <2>1
  <2>3. thread'[t] \in AtWork
    BY <1>4, <2>2, ListenerEffect DEF AtWork, Listener
  <2> QED
    BY <2>3
<1>5. ASSUME NEW t \in Threads, Worker(t) \/ SpuriousWake(t) \/ Expire(t)
      PROVE  \E u \in Threads : thread'[u] \in AtWork
  <2>1. PICK x \in ThreadStates :
           /\ thread' = [thread EXCEPT ![t] = x]
           /\ thread[t] # "leaving" => x \in AtWork \/ (x = "leaving" /\ jobs = <<>>)
    BY <1>5, WorkerEffect
  <2>2. listener' = listener
    BY <1>5, WorkerEffect
  <2>3. jobs # <<>>
    BY <1>5 DEF Worker, Enter, Resume, Proceed, WaitAgain, TimeOut, Finish, Leave, SpuriousWake,
                Expire, HasWork
  <2>4. PICK u \in Threads : thread[u] \in AtWork
    BY <1>1, <2>2, <2>3
  <2>5. thread'[u] \in AtWork
    BY <1>0, <2>1, <2>3, <2>4 DEF AtWork
  <2> QED
    BY <2>5
<1>6. CASE UNCHANGED vars
  BY <1>1, <1>6 DEF vars
<1> QED
  BY <1>2, <1>3, <1>4, <1>5, <1>6 DEF Next, Listener

(* After all have been joined there is no thread, so no job is left. *)
LEMMA AllDone ==
    ASSUME Inv, Served, listener = "sweeping"
    PROVE  jobs = <<>> /\ job = Queue!Idle
<1>0. /\ \A t \in Threads : t \in Base \/ t \in Dynamic
      /\ \A t \in Base : thread[t] = "none"
      /\ dynamic_threads = {} /\ remaining_dynamic = {}
      /\ \A t \in finished_threads : thread[t] \in {"leaving", "exited"}
      /\ \A t \in Dynamic : thread[t] # "none" => t \in finished_threads
  BY DEF Threads, Inv, TypeOK, Stages, LastToLeave, In
<1>1. \A t \in Threads : thread[t] \notin AtWork
  BY <1>0 DEF AtWork
<1>2. jobs = <<>>
  BY <1>1 DEF Served, In
<1>3. \A t \in Threads : job[t] = None
  BY <1>1 DEF Inv, OneJob, AtWork
<1>4. job = [t \in Threads |-> None]
  BY <1>3 DEF Inv, TypeOK
<1> QED
  BY <1>2, <1>4 DEF Queue!Idle

(* A step of the pool is one of the queue, or none to its users. *)
LEMMA QueueStep ==
    ASSUME Inv, Served, [Next]_vars
    PROVE  [Queue!Next]_(Queue!vars)
<1> USE DEF book
<1> DEFINE Phase(l, s) == IF l = "closed" THEN "closed" ELSE IF s THEN "closing" ELSE "open"
<1>0. /\ thread \in [Threads -> ThreadStates]
      /\ shutdown <=> listener \in ShutdownStates
      /\ None \notin Jobs
      /\ \A t \in Threads : job[t] # None <=> thread[t] = "running"
  BY JobsAssumption DEF Inv, TypeOK, Stages, OneJob
<1>1. CASE Enqueue
  <2>1. submitted + 1 \in Jobs
    BY <1>1, JobsAssumption DEF Enqueue, Jobs, Inv, TypeOK
  <2>2. /\ jobs' = Append(jobs, submitted + 1) /\ job' = job
        /\ Phase(listener, shutdown) = "open" /\ Phase(listener', shutdown') = "open"
    BY <1>1 DEF Enqueue
  <2>3. Queue!Submit(submitted + 1)
    BY <2>2 DEF Queue!Submit
  <2> QED
    BY <2>1, <2>3 DEF Queue!Next
<1>2. CASE BeginShutdown
  <2>1. /\ jobs' = jobs /\ job' = job
        /\ Phase(listener, shutdown) = "open" /\ Phase(listener', shutdown') = "closing"
    BY <1>0, <1>2 DEF BeginShutdown, ShutdownStates
  <2>2. Queue!Shut
    BY <2>1 DEF Queue!Shut
  <2> QED
    BY <2>2 DEF Queue!Next
<1>3. CASE Sweep
  <2>1. /\ jobs' = jobs /\ job' = job
        /\ Phase(listener, shutdown) = "closing" /\ Phase(listener', shutdown') = "closed"
    BY <1>0, <1>3 DEF Sweep, ShutdownStates
  <2>2. jobs = <<>> /\ job = Queue!Idle
    BY <1>3, AllDone DEF Sweep
  <2>3. Queue!Close
    BY <2>1, <2>2 DEF Queue!Close
  <2> QED
    BY <2>3 DEF Queue!Next
<1>4. CASE Spawn \/ NotifyOne \/ NotifyAll \/ JoinBase \/ TakeDynamic \/ JoinDynamic
  <2>1. /\ jobs' = jobs /\ job' = job
        /\ Phase(listener', shutdown') = Phase(listener, shutdown)
    BY <1>4 DEF Spawn, NotifyOne, NotifyAll, JoinBase, TakeDynamic, JoinDynamic
  <2> QED
    BY <2>1 DEF Queue!vars
<1>5. ASSUME NEW t \in Threads, Enter(t) \/ Resume(t), jobs # <<>>
      PROVE  Queue!Next
  <2>1. /\ job' = [job EXCEPT ![t] = Head(jobs)] /\ jobs' = Tail(jobs)
        /\ Phase(listener', shutdown') = Phase(listener, shutdown)
        /\ thread[t] # "running"
    BY <1>5 DEF Enter, Resume, Proceed, HasWork
  <2>2. Queue!Start(t)
    BY <1>0, <1>5, <2>1 DEF Queue!Start
  <2> QED
    BY <2>2 DEF Queue!Next
<1>6. ASSUME NEW t \in Threads, Finish(t)
      PROVE  Queue!Next
  <2>1. /\ job' = [job EXCEPT ![t] = None] /\ jobs' = jobs /\ job[t] # None
        /\ Phase(listener', shutdown') = Phase(listener, shutdown)
    BY <1>0, <1>6 DEF Finish
  <2>2. Queue!Finish(t)
    BY <2>1 DEF Queue!Finish
  <2> QED
    BY <2>2 DEF Queue!Next
<1>7. ASSUME NEW t \in Threads,
             \/ (Enter(t) \/ Resume(t)) /\ jobs = <<>>
             \/ WaitAgain(t) \/ TimeOut(t) \/ Leave(t) \/ SpuriousWake(t) \/ Expire(t)
      PROVE  UNCHANGED Queue!vars
  <2>1. /\ jobs' = jobs /\ job' = job
        /\ Phase(listener', shutdown') = Phase(listener, shutdown)
    BY <1>7 DEF Enter, Resume, Proceed, HasWork, WaitAgain, TimeOut, Leave, SpuriousWake, Expire
  <2> QED
    BY <2>1 DEF Queue!vars
<1>8. CASE UNCHANGED vars
  BY <1>8 DEF vars, Queue!vars
<1> QED
  BY <1>1, <1>2, <1>3, <1>4, <1>5, <1>6, <1>7, <1>8 DEF Next, Listener, Worker

(***************************************************************************)
(* The pool is the task queue that the server relies on: jobs are started  *)
(* in the order of their submission, each once and on one thread, and      *)
(* shutdown() returns only when all have ended.  A pool that may have no   *)
(* thread at all (POOL_SIZE and QUEUE_SIZE both 0) would not be: it would  *)
(* be closed with its jobs.                                                *)
(***************************************************************************)
THEOREM PoolIsTaskQueue ==
    ASSUME MaxThreads # 0
    PROVE  Spec => QueueSpec
<1>1. Init => Queue!Init /\ Served
  BY DEF Init, Queue!Init, Queue!Idle, Served
<1>2. Inv /\ Served /\ [Next]_vars => Served'
  BY ServedStep
<1>3. Inv /\ Served /\ [Next]_vars => [Queue!Next]_(Queue!vars)
  BY QueueStep
<1> QED
  BY <1>1, <1>2, <1>3, Invariance, PTL DEF Spec, QueueSpec, Queue!Spec
=============================================================================
