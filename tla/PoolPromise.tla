---------------------------- MODULE PoolPromise ----------------------------
(***************************************************************************)
(* What the callers of ConnectionPool may rely on, with no mutex, no stack *)
(* and no condition variable: a fixed set of connections, each free or     *)
(* owned by one thread; a thread is made to wait, and is turned away, only *)
(* at an instant at which no connection is free.                           *)
(***************************************************************************)
CONSTANTS Threads, Conns, None

VARIABLES free,     \* the connections nobody owns
          owner,    \* [Threads -> Conns \cup {None}]: what each thread owns
          waiting,  \* the threads blocked in acquire()
          refused   \* the threads whose last acquire() threw

vars == <<free, owner, waiting, refused>>

Init ==
    /\ free = Conns
    /\ owner = [t \in Threads |-> None]
    /\ waiting = {}
    /\ refused = {}

(* A thread that owns nothing is given a free connection. *)
Grant(t, c) ==
    /\ owner[t] = None
    /\ c \in free
    /\ free' = free \ {c}
    /\ owner' = [owner EXCEPT ![t] = c]
    /\ waiting' = waiting \ {t}
    /\ refused' = refused \ {t}

(* A thread starts to wait: only when nothing is free. *)
Block(t) ==
    /\ owner[t] = None
    /\ t \notin waiting
    /\ free = {}
    /\ waiting' = waiting \cup {t}
    /\ refused' = refused \ {t}
    /\ UNCHANGED <<free, owner>>

(* A waiting thread is turned away: only when nothing is free. *)
Refuse(t) ==
    /\ t \in waiting
    /\ free = {}
    /\ waiting' = waiting \ {t}
    /\ refused' = refused \cup {t}
    /\ UNCHANGED <<free, owner>>

GiveBack(t) ==
    /\ owner[t] # None
    /\ free' = free \cup {owner[t]}
    /\ owner' = [owner EXCEPT ![t] = None]
    /\ UNCHANGED <<waiting, refused>>

Next ==
    \E t \in Threads :
        \/ \E c \in Conns : Grant(t, c)
        \/ Block(t)
        \/ Refuse(t)
        \/ GiveBack(t)

Spec == Init /\ [][Next]_vars
=============================================================================
