----------------------------- MODULE TaskQueue -----------------------------
(***************************************************************************)
(* What a server may rely on in its task queue (class TaskQueue of         *)
(* httplib.h): jobs are started in the order in which they were submitted, *)
(* each once and on one worker, and shutdown() returns only when all that  *)
(* were submitted have ended.                                              *)
(***************************************************************************)
EXTENDS Sequences

CONSTANTS Workers,  \* threads that can run a job
          Jobs,
          None

VARIABLES pending,  \* jobs nobody has started yet
          running,  \* the job of each worker, or None
          phase     \* open, closing (no more jobs come), closed

vars == <<pending, running, phase>>

Idle == [w \in Workers |-> None]

TypeOK ==
    /\ pending \in Seq(Jobs)
    /\ running \in [Workers -> Jobs \cup {None}]
    /\ phase \in {"open", "closing", "closed"}

Init ==
    /\ pending = <<>>
    /\ running = Idle
    /\ phase = "open"

Submit(job) ==
    /\ phase = "open"
    /\ pending' = Append(pending, job)
    /\ UNCHANGED <<running, phase>>

Start(w) ==
    /\ pending # <<>>
    /\ running[w] = None
    /\ running' = [running EXCEPT ![w] = Head(pending)]
    /\ pending' = Tail(pending)
    /\ UNCHANGED phase

Finish(w) ==
    /\ running[w] # None
    /\ running' = [running EXCEPT ![w] = None]
    /\ UNCHANGED <<pending, phase>>

Shut ==
    /\ phase = "open"
    /\ phase' = "closing"
    /\ UNCHANGED <<pending, running>>

Close ==
    /\ phase = "closing"
    /\ pending = <<>>
    /\ running = Idle
    /\ phase' = "closed"
    /\ UNCHANGED <<pending, running>>

Next ==
    \/ \E job \in Jobs : Submit(job)
    \/ \E w \in Workers : Start(w) \/ Finish(w)
    \/ Shut
    \/ Close

Spec == Init /\ [][Next]_vars
=============================================================================
