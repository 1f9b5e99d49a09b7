------------------------------ MODULE AsyncLog ------------------------------
(***************************************************************************)
(* The asynchronous logger (src/app/utils/log.cpp) with the threads that   *)
(* use it: HTTP workers that come and go and that log, main, which calls   *)
(* log::shutdown() once app.listen() has returned and so after the workers *)
(* were joined, and the thread that writes to stdout.                      *)
(*                                                                         *)
(* enqueue() pushes under the mutex and notifies after it; the writer has  *)
(* the mutex from the test of cv.wait's predicate until it either joins    *)
(* the waiters of the condition variable or has swapped the queues.        *)
(* shutdown() takes no mutex.                                              *)
(***************************************************************************)
EXTENDS Naturals, Sequences

CONSTANTS Producers,  \* HTTP worker threads
          MaxLines    \* bound on the lines each producer logs

ASSUME MaxLinesAssumption == MaxLines \in Nat

Lines == Producers \X (1 .. MaxLines)

VARIABLES queue,        \* log::queue
          local_queue,  \* the writer's
          out,          \* stdout
          should_stop,  \* log::should_stop
          stop,         \* the writer's copy of it
          writer,       \* where the log thread is
          producer,     \* where each HTTP worker is
          count,        \* the lines each HTTP worker has pushed
          main          \* where main is

vars == <<queue, local_queue, out, should_stop, stop, writer, producer, count, main>>

(***************************************************************************)
(* ready: about to lock mu and test the predicate; parking: found it false *)
(* and holds mu; parked: among the waiters of cv; swapped: holds mu and    *)
(* the swapped queue; writing: writes local_queue, without mu; returned.   *)
(***************************************************************************)
WriterStates == {"ready", "parking", "parked", "swapped", "writing", "returned"}

(* absent: not spawned yet, or joined; serving: outside enqueue(); pushed: *)
(* about to notify.                                                        *)
ProducerStates == {"absent", "serving", "pushed"}

(* listening: in app.listen(); stopping: between the store to should_stop  *)
(* and its notify_one; joining: in worker.join(); exited.                  *)
MainStates == {"listening", "stopping", "joining", "exited"}

MutexFree == writer \notin {"parking", "swapped"}

Init ==
    /\ queue = <<>>
    /\ local_queue = <<>>
    /\ out = <<>>
    /\ should_stop = FALSE
    /\ stop = FALSE
    /\ writer = "ready"
    /\ producer = [p \in Producers |-> "absent"]
    /\ count = [p \in Producers |-> 0]
    /\ main = "listening"
-----------------------------------------------------------------------------
(* cv.notify_one(): it reaches the writer only if that is parked already. *)
NotifyOne == writer' = IF writer = "parked" THEN "ready" ELSE writer

(* enqueue() up to the end of its lock. *)
Push(p) ==
    /\ producer[p] = "serving"
    /\ count[p] < MaxLines
    /\ MutexFree
    /\ count' = [count EXCEPT ![p] = @ + 1]
    /\ queue' = Append(queue, <<p, count[p] + 1>>)
    /\ producer' = [producer EXCEPT ![p] = "pushed"]
    /\ UNCHANGED <<local_queue, out, should_stop, stop, writer, main>>

(* The rest of enqueue(). *)
Notify(p) ==
    /\ producer[p] = "pushed"
    /\ NotifyOne
    /\ producer' = [producer EXCEPT ![p] = "serving"]
    /\ UNCHANGED <<queue, local_queue, out, should_stop, stop, count, main>>

(* The thread pool starts the threads P: none, all its base threads, or a  *)
(* dynamic one.                                                            *)
Spawn(P) ==
    /\ main = "listening"
    /\ \A p \in P : producer[p] = "absent"
    /\ producer' = [p \in Producers |-> IF p \in P THEN "serving" ELSE producer[p]]
    /\ UNCHANGED <<queue, local_queue, out, should_stop, stop, writer, count, main>>

(* A worker ends outside of a request. *)
Join(p) ==
    /\ producer[p] = "serving"
    /\ producer' = [producer EXCEPT ![p] = "absent"]
    /\ UNCHANGED <<queue, local_queue, out, should_stop, stop, writer, count, main>>
-----------------------------------------------------------------------------
(* Test that copies the queue instead of swapping it. *)
Test_Copy ==
    /\ writer = "ready"
    /\ \/ /\ should_stop \/ queue # <<>>
          /\ local_queue' = queue
          /\ queue' = queue
          /\ writer' = "swapped"
       \/ /\ ~should_stop
          /\ queue = <<>>
          /\ writer' = "parking"
          /\ UNCHANGED <<queue, local_queue>>
    /\ UNCHANGED <<out, should_stop, stop, producer, count, main>>

(* cv.wait locks and tests its predicate: swap at once or get ready to wait. *)
Test ==
    /\ writer = "ready"
    /\ \/ /\ should_stop \/ queue # <<>>
          /\ local_queue' = queue
          /\ queue' = <<>>
          /\ writer' = "swapped"
       \/ /\ ~should_stop
          /\ queue = <<>>
          /\ writer' = "parking"
          /\ UNCHANGED <<queue, local_queue>>
    /\ UNCHANGED <<out, should_stop, stop, producer, count, main>>

(* cv.wait joins the waiters and lets the mutex go. *)
Park ==
    /\ writer = "parking"
    /\ writer' = "parked"
    /\ UNCHANGED <<queue, local_queue, out, should_stop, stop, producer, count, main>>

(* A condition variable may return with nobody having notified it. *)
SpuriousWake ==
    /\ writer = "parked"
    /\ writer' = "ready"
    /\ UNCHANGED <<queue, local_queue, out, should_stop, stop, producer, count, main>>

(* stop is read after the swap, still under the mutex. *)
ReadStop ==
    /\ writer = "swapped"
    /\ stop' = should_stop
    /\ writer' = "writing"
    /\ UNCHANGED <<queue, local_queue, out, should_stop, producer, count, main>>

WriteLine ==
    /\ writer = "writing"
    /\ local_queue # <<>>
    /\ out' = Append(out, Head(local_queue))
    /\ local_queue' = Tail(local_queue)
    /\ UNCHANGED <<queue, should_stop, stop, writer, producer, count, main>>

(* EndBatch that reads the flag itself, and not before the batch. *)
EndBatch_LateStop ==
    /\ writer = "writing"
    /\ local_queue = <<>>
    /\ stop' = should_stop
    /\ writer' = IF should_stop THEN "returned" ELSE "ready"
    /\ UNCHANGED <<queue, local_queue, out, should_stop, producer, count, main>>

(* EndBatch before a cv.wait without a predicate. *)
EndBatch_Wait ==
    /\ writer = "writing"
    /\ local_queue = <<>>
    /\ writer' = IF stop THEN "returned" ELSE "parked"
    /\ UNCHANGED <<queue, local_queue, out, should_stop, stop, producer, count, main>>

(* flush, and the next turn of the loop or its end. *)
EndBatch ==
    /\ writer = "writing"
    /\ local_queue = <<>>
    /\ writer' = IF stop THEN "returned" ELSE "ready"
    /\ UNCHANGED <<queue, local_queue, out, should_stop, stop, producer, count, main>>
-----------------------------------------------------------------------------
AllJoined == \A p \in Producers : producer[p] = "absent"

(* shutdown() sets the flag; main calls it once, and after the joins. *)
StoreStop ==
    /\ main = "listening"
    /\ should_stop' = TRUE
    /\ main' = "stopping"
    /\ UNCHANGED <<queue, local_queue, out, stop, writer, producer, count>>

NotifyStop ==
    /\ main = "stopping"
    /\ NotifyOne
    /\ main' = "joining"
    /\ UNCHANGED <<queue, local_queue, out, should_stop, stop, producer, count>>

(* worker.join() returns, and main with it. *)
Exit ==
    /\ main = "joining"
    /\ writer = "returned"
    /\ main' = "exited"
    /\ UNCHANGED <<queue, local_queue, out, should_stop, stop, writer, producer, count>>

Writer == Test \/ Park \/ ReadStop \/ WriteLine \/ EndBatch

Next ==
    \/ \E P \in SUBSET Producers : Spawn(P)
    \/ \E p \in Producers : Push(p) \/ Notify(p) \/ Join(p)
    \/ Writer
    \/ SpuriousWake
    \/ AllJoined /\ StoreStop
    \/ NotifyStop
    \/ Exit

Spec == Init /\ [][Next]_vars

(***************************************************************************)
(* Runnable threads run: the writer, a producer inside enqueue() and main  *)
(* inside shutdown().  Nothing makes a producer log, and nothing makes a   *)
(* spurious wakeup happen.                                                 *)
(***************************************************************************)
FairSpec ==
    /\ Spec
    /\ WF_vars(Writer)
    /\ \A p \in Producers : WF_vars(Notify(p))
    /\ WF_vars(NotifyStop)
    /\ WF_vars(Exit)
-----------------------------------------------------------------------------
(* Type invariant; local_queue lives in one turn of the writer's loop. *)
TypeOK ==
    /\ writer \in {"ready", "parking", "parked", "returned"} => local_queue = <<>>
    /\ queue \in Seq(Lines)
    /\ local_queue \in Seq(Lines)
    /\ out \in Seq(Lines)
    /\ should_stop \in BOOLEAN
    /\ stop \in BOOLEAN
    /\ writer \in WriterStates
    /\ producer \in [Producers -> ProducerStates]
    /\ count \in [Producers -> 0 .. MaxLines]
    /\ main \in MainStates

(* The flag only says stop once nobody can push any more, and the writer   *)
(* that has read it has swapped the last line out: nothing is left behind  *)
(* in the queue when it returns.                                           *)
StopIsLast == stop => queue = <<>> /\ AllJoined

(* Lines are written in the order in which they were pushed, none is lost  *)
(* and none written twice, and main exits only when all are out.           *)
Sink == INSTANCE LogSink WITH
    pending <- local_queue \o queue,
    written <- out,
    closed  <- main = "exited"

SinkSpec == Sink!Spec

(* A line that was pushed is written, whether or not its producer's        *)
(* notification found the writer waiting.                                  *)
EveryLineWritten ==
    \A p \in Producers : \A n \in 1 .. MaxLines :
        count[p] >= n ~> \E i \in DOMAIN out : out[i] = <<p, n>>

(* main, in log::shutdown() after app.listen() has returned, gets to exit. *)
ShutdownReturns == main = "stopping" ~> main = "exited"
=============================================================================
