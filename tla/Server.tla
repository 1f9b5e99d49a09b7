------------------------------- MODULE Server -------------------------------
(***************************************************************************)
(* The process from main() to its end: start-up, the loop that listens     *)
(* (httplib::Server), the handlers of SIGINT and SIGTERM, the connections  *)
(* that the worker threads serve, and the end of main.  It composes        *)
(* TaskQueue, what httplib's thread pool promises (ThreadPool implements   *)
(* it), and AsyncLog, whose producers are the worker threads.              *)
(*                                                                         *)
(* A connection is a job.  A worker serves its requests one after the      *)
(* other; inside of a request it may log.                                  *)
(***************************************************************************)
EXTENDS AsyncLog

CONSTANTS Base,            \* the workers of POOL_SIZE; the others are dynamic
          MaxConnections,  \* bound on the connections accepted
          MaxRequests,     \* keep_alive_max_count_, 100
          MaxSignals,      \* bound on the signals sent
          Asserts,         \* the build does not define NDEBUG
          None

ASSUME BaseAssumption == Base \subseteq Producers /\ Base # {}
ASSUME BoundsAssumption ==
    MaxConnections \in Nat /\ MaxRequests \in Nat \ {0} /\ MaxSignals \in Nat
ASSUME AssertsAssumption == Asserts \in BOOLEAN

VARIABLES pending, running, phase,  \* the task queue
          place,       \* where main is, up to log::shutdown()
          svr_sock,    \* svr_sock_
          is_running,  \* is_running_
          signals,     \* how many have been sent
          accepted,    \* how many connections have been accepted
          left,        \* the requests each worker may serve on its connection
          inside       \* whether it is inside of one

Connections == 1 .. MaxConnections

Tasks == INSTANCE TaskQueue WITH Workers <- Producers, Jobs <- Connections

log == <<queue, local_queue, out, should_stop, stop, writer, producer, count, main>>
tasks == <<pending, running, phase>>
work == <<accepted, left, inside>>
serverVars == <<log, tasks, work, place, svr_sock, is_running, signals>>

(***************************************************************************)
(* starting: before std::signal; configured: before the socket is bound;   *)
(* bound: before is_running_ is set; running: in the loop; draining: in    *)
(* task_queue->shutdown(); returned: listen() has returned; aborted: the   *)
(* process has been ended by a signal, an exception or an assertion.       *)
(***************************************************************************)
Places == {"starting", "configured", "bound", "running", "draining", "returned", "aborted"}

(* none: not open yet; open; closed: INVALID_SOCKET; stale: closed by the  *)
(* loop itself, which leaves the descriptor's number in svr_sock_.         *)
Sockets == {"none", "open", "closed", "stale"}

ServerInit ==
    /\ Init
    /\ Tasks!Init
    /\ place = "starting"
    /\ svr_sock = "none"
    /\ is_running = FALSE
    /\ signals = 0
    /\ accepted = 0
    /\ left = [p \in Producers |-> 0]
    /\ inside = [p \in Producers |-> FALSE]
-----------------------------------------------------------------------------
(* get_env() and the connection pool may throw, which nobody catches. *)
Configure ==
    /\ place = "starting"
    /\ place' \in {"configured", "aborted"}
    /\ UNCHANGED <<log, tasks, work, svr_sock, is_running, signals>>

Bind ==
    /\ place = "configured"
    /\ place' = "bound"
    /\ svr_sock' = "open"
    /\ UNCHANGED <<log, tasks, work, is_running, signals>>

(* listen() returns false, which main does not look at. *)
BindFails ==
    /\ place = "configured"
    /\ place' = "returned"
    /\ UNCHANGED <<log, tasks, work, svr_sock, is_running, signals>>

(* listen_internal(); the pool starts its base threads, or its constructor *)
(* throws because QUEUE_SIZE is less than POOL_SIZE.                       *)
Listen ==
    /\ place = "bound"
    /\ is_running' = TRUE
    /\ \/ place' = "running" /\ Spawn(Base)
       \/ place' = "aborted" /\ UNCHANGED log
    /\ UNCHANGED <<tasks, work, svr_sock, signals>>

(* SIGINT or SIGTERM: stop(), on any thread, or the end of the process if  *)
(* the handlers are not there yet.                                         *)
Signal ==
    /\ signals < MaxSignals
    /\ signals' = signals + 1
    /\ \/ /\ place = "starting"
          /\ place' = "aborted"
          /\ UNCHANGED svr_sock
       \/ /\ place # "starting"
          /\ ~is_running
          /\ UNCHANGED <<place, svr_sock>>
       \/ /\ is_running
          /\ Asserts /\ svr_sock = "closed"
          /\ place' = "aborted"
          /\ UNCHANGED svr_sock
       \/ /\ is_running
          /\ ~(Asserts /\ svr_sock = "closed")
          /\ svr_sock' = "closed"
          /\ UNCHANGED place
    /\ UNCHANGED <<log, tasks, work, is_running>>
-----------------------------------------------------------------------------
(* accept() returns a connection; enqueue() may start a dynamic thread.    *)
Accept ==
    /\ place = "running"
    /\ svr_sock = "open"
    /\ accepted < MaxConnections
    /\ accepted' = accepted + 1
    /\ Tasks!Submit(accepted + 1)
    /\ \/ UNCHANGED log
       \/ \E p \in Producers \ Base : Spawn({p})
    /\ UNCHANGED <<left, inside, place, svr_sock, is_running, signals>>

(* accept() fails with an error that is not retried: the loop closes the   *)
(* socket and ends.                                                        *)
AcceptFails ==
    /\ place = "running"
    /\ svr_sock = "open"
    /\ svr_sock' = "stale"
    /\ place' = "draining"
    /\ Tasks!Shut
    /\ UNCHANGED <<log, work, is_running, signals>>

(* The loop finds the socket closed, and shuts the pool down. *)
LeaveLoop ==
    /\ place = "running"
    /\ svr_sock = "closed"
    /\ place' = "draining"
    /\ Tasks!Shut
    /\ UNCHANGED <<log, work, svr_sock, is_running, signals>>

(* ListenReturns with the workers detached and not joined. *)
ListenReturns_Detached ==
    /\ place = "draining"
    /\ place' = "returned"
    /\ is_running' = FALSE
    /\ UNCHANGED <<log, tasks, work, svr_sock, signals>>

(* All workers are joined. *)
ListenReturns ==
    /\ place = "draining"
    /\ AllJoined
    /\ Tasks!Close
    /\ place' = "returned"
    /\ is_running' = FALSE
    /\ UNCHANGED <<log, work, svr_sock, signals>>
-----------------------------------------------------------------------------
(* A worker takes the next connection. *)
Take(p) ==
    /\ producer[p] = "serving"
    /\ Tasks!Start(p)
    /\ left' = [left EXCEPT ![p] = MaxRequests]
    /\ UNCHANGED <<log, accepted, inside, place, svr_sock, is_running, signals>>

(* keep_alive() finds something to read.  It looks at the connection once  *)
(* before it looks at svr_sock_, so this happens after a signal, too.      *)
BeginRequest(p) ==
    /\ running[p] # None
    /\ ~inside[p]
    /\ left[p] > 0
    /\ inside' = [inside EXCEPT ![p] = TRUE]
    /\ UNCHANGED <<log, tasks, accepted, left, place, svr_sock, is_running, signals>>

(* A line is logged in a request. *)
Log(p) ==
    /\ inside[p]
    /\ Push(p) \/ Notify(p)
    /\ UNCHANGED <<tasks, work, place, svr_sock, is_running, signals>>

(* EndRequest that does not count the requests of a connection. *)
EndRequest_NoCount(p) ==
    /\ inside[p]
    /\ producer[p] = "serving"
    /\ inside' = [inside EXCEPT ![p] = FALSE]
    /\ UNCHANGED <<log, tasks, left, accepted, place, svr_sock, is_running, signals>>

(* The request has been answered, or its connection broke; the connection  *)
(* stays or is closed.                                                     *)
EndRequest(p) ==
    /\ inside[p]
    /\ producer[p] = "serving"
    /\ inside' = [inside EXCEPT ![p] = FALSE]
    /\ \/ /\ left' = [left EXCEPT ![p] = @ - 1]
          /\ UNCHANGED tasks
       \/ /\ left' = [left EXCEPT ![p] = 0]
          /\ Tasks!Finish(p)
    /\ UNCHANGED <<log, accepted, place, svr_sock, is_running, signals>>

(* The connection is over: no request is left to it, svr_sock_ is found    *)
(* closed, the client is gone or has been silent for five seconds.         *)
CloseConnection(p) ==
    /\ running[p] # None
    /\ ~inside[p]
    /\ Tasks!Finish(p)
    /\ left' = [left EXCEPT ![p] = 0]
    /\ UNCHANGED <<log, accepted, inside, place, svr_sock, is_running, signals>>

(* EndWorker that leaves connections in the queue. *)
EndWorker_AtOnce(p) ==
    /\ phase = "closing" \/ p \notin Base
    /\ running[p] = None
    /\ Join(p)
    /\ UNCHANGED <<tasks, work, place, svr_sock, is_running, signals>>

(* A worker finds no connection, and ends: a dynamic one after three       *)
(* seconds, each one when the pool is shut down.                           *)
EndWorker(p) ==
    /\ phase = "closing" \/ p \notin Base
    /\ pending = <<>>
    /\ running[p] = None
    /\ Join(p)
    /\ UNCHANGED <<tasks, work, place, svr_sock, is_running, signals>>
-----------------------------------------------------------------------------
(* CallShutdown left out: main returns after listen(). *)
CallShutdown_Not ==
    /\ place = "returned"
    /\ main = "listening"
    /\ main' = "exited"
    /\ UNCHANGED <<queue, local_queue, out, should_stop, stop, writer, producer, count>>
    /\ UNCHANGED <<tasks, work, place, svr_sock, is_running, signals>>

(* main calls log::shutdown(). *)
CallShutdown ==
    /\ place = "returned"
    /\ StoreStop
    /\ UNCHANGED <<tasks, work, place, svr_sock, is_running, signals>>

(* The log's own steps. *)
LogThread ==
    /\ Writer
    /\ UNCHANGED <<tasks, work, place, svr_sock, is_running, signals>>

LogWake ==
    /\ SpuriousWake
    /\ UNCHANGED <<tasks, work, place, svr_sock, is_running, signals>>

Shutdown ==
    /\ NotifyStop \/ Exit
    /\ UNCHANGED <<tasks, work, place, svr_sock, is_running, signals>>

Main == LeaveLoop \/ ListenReturns \/ CallShutdown \/ Shutdown

ServeOn(p) == Take(p) \/ EndRequest(p) \/ CloseConnection(p) \/ EndWorker(p)

Ended == place = "aborted" \/ main = "exited"

ServerNext ==
    /\ ~Ended
    /\ \/ Configure \/ Bind \/ BindFails \/ Listen
       \/ Signal
       \/ Accept \/ AcceptFails
       \/ Main
       \/ \E p \in Producers : BeginRequest(p) \/ Log(p) \/ ServeOn(p)
       \/ LogThread \/ LogWake

ServerSpec == ServerInit /\ [][ServerNext]_serverVars

(***************************************************************************)
(* Threads run, and a request ends: the LLM client has time limits, and    *)
(* the database is taken to answer.  A silent connection is closed after   *)
(* five seconds, but nothing keeps a client from sending its next request  *)
(* before that; none of BeginRequest, Signal, Accept and Push is fair.     *)
(***************************************************************************)
ServerFairSpec ==
    /\ ServerSpec
    /\ WF_serverVars(~Ended /\ Main)
    /\ WF_serverVars(~Ended /\ LogThread)
    /\ \A p \in Producers :
          /\ WF_serverVars(~Ended /\ ServeOn(p))
          /\ WF_serverVars(~Ended /\ producer[p] = "pushed" /\ Log(p))
-----------------------------------------------------------------------------
(* Type invariant; a worker logs inside of requests only, and main calls   *)
(* shutdown() only when it has left listen().                              *)
ServerTypeOK ==
    /\ TypeOK
    /\ Tasks!TypeOK
    /\ place \in Places
    /\ svr_sock \in Sockets
    /\ is_running \in BOOLEAN
    /\ place \in {"running", "draining"} => is_running
    /\ is_running => place \in {"running", "draining", "aborted"}
    /\ signals \in 0 .. MaxSignals
    /\ accepted \in 0 .. MaxConnections
    /\ left \in [Producers -> 0 .. MaxRequests]
    /\ inside \in [Producers -> BOOLEAN]
    /\ \A p \in Producers :
          /\ producer[p] = "pushed" => inside[p]
          /\ inside[p] => running[p] # None /\ left[p] > 0
          /\ running[p] # None => producer[p] # "absent"
    /\ main # "listening" => place = "returned"

(* The variables agree with each other, and log::shutdown() comes after    *)
(* the last line of the last worker.                                       *)
ServerConsistent == ServerTypeOK /\ StopIsLast

(* "so no log lines are lost on SIGINT / SIGTERM": however the process     *)
(* ends, each line that was logged has been written.                       *)
LinesWrittenAtEnd == Ended => queue = <<>> /\ local_queue = <<>>

(* The logger sees what AsyncLog allows: nobody logs who is not a worker   *)
(* in a request, and shutdown() is called once, when no worker is left.    *)
LogSpec == Spec

(* Once the server is told to stop, or can accept no more, listen()        *)
(* returns: no client keeps a worker for ever.                             *)
StopWorks == is_running /\ svr_sock # "open" ~> place = "returned"

(* A connection is served to its end, even if the workers are taken by     *)
(* clients that send one request after the other, and also if the server   *)
(* is told to stop meanwhile.                                              *)
ConnectionsServed ==
    \A c \in Connections :
        accepted >= c ~> /\ \A i \in DOMAIN pending : pending[i] # c
                         /\ \A p \in Producers : running[p] # c
=============================================================================
