---------------------------- MODULE ServerProofs ----------------------------
(***************************************************************************)
(* Safety of AsyncLog for any set of producers and any number of lines,    *)
(* then of Server for any number of workers, connections, requests and     *)
(* signals.  What AsyncLog guarantees is carried over by showing that the  *)
(* process uses the log as AsyncLog assumes.                               *)
(***************************************************************************)
EXTENDS Server, SequenceTheorems, TLAPS

(***************************************************************************)
(* The inductive invariant.  Nobody is left to push once should_stop is    *)
(* set, and the queue is empty from the swap until the mutex is released:  *)
(* so the writer that has read the flag leaves nothing behind.             *)
(***************************************************************************)
LogInv ==
    /\ TypeOK
    /\ should_stop <=> main # "listening"
    /\ should_stop => AllJoined
    /\ stop => should_stop
    /\ stop \/ writer = "swapped" => queue = <<>>
    /\ writer = "returned" => stop
    /\ main = "exited" => writer = "returned"

(* A line is put behind, and taken from the front of, what is pending.     *)
LEMMA PendingLines ==
    ASSUME NEW S, NEW s \in Seq(S), NEW t \in Seq(S)
    PROVE  /\ \A e \in S : s \o Append(t, e) = Append(s \o t, e)
           /\ s # <<>> =>
                 /\ s \o t # <<>>
                 /\ Head(s \o t) = Head(s)
                 /\ Tail(s \o t) = Tail(s) \o t
  OBVIOUS

-----------------------------------------------------------------------------
LEMMA InitHolds == Init => LogInv
  <1> SUFFICES ASSUME Init PROVE LogInv
    OBVIOUS
  <1>1. <<>> \in Seq(Lines)
    BY EmptySeq
  <1>2. count \in [Producers -> 0 .. MaxLines] /\ producer \in [Producers -> ProducerStates]
    BY MaxLinesAssumption DEF Init, ProducerStates
  <1>3. TypeOK
    BY <1>1, <1>2 DEF Init, TypeOK, WriterStates, MainStates
  <1> QED
    BY <1>3 DEF Init, LogInv

(* The steps of the HTTP workers. *)
LEMMA ProducerStep ==
    ASSUME LogInv,
           \/ \E P \in SUBSET Producers : Spawn(P)
           \/ \E p \in Producers : Push(p) \/ Notify(p) \/ Join(p)
    PROVE  LogInv'
  <1>1. CASE \E P \in SUBSET Producers : Spawn(P)
    BY <1>1 DEF LogInv, TypeOK, Spawn, AllJoined, ProducerStates
  <1>2. CASE \E p \in Producers : Push(p)
    <2>1. PICK p \in Producers : Push(p)
      BY <1>2
    <2>2. <<p, count[p] + 1>> \in Lines
      <3>1. count[p] \in 0 .. MaxLines /\ count[p] < MaxLines
        BY <2>1 DEF LogInv, TypeOK, Push
      <3>2. count[p] + 1 \in 1 .. MaxLines
        BY <3>1, MaxLinesAssumption
      <3> QED
        BY <3>2 DEF Lines
    <2>3. queue' \in Seq(Lines) /\ count' \in [Producers -> 0 .. MaxLines]
      BY <2>1, <2>2, AppendProperties, MaxLinesAssumption DEF LogInv, TypeOK, Push
    <2>4. ~should_stop /\ writer # "swapped"
      BY <2>1 DEF LogInv, AllJoined, Push, MutexFree
    <2> QED
      BY <2>1, <2>3, <2>4 DEF LogInv, TypeOK, Push, AllJoined, ProducerStates
  <1>3. CASE \E p \in Producers : Notify(p)
    BY <1>3 DEF LogInv, TypeOK, Notify, NotifyOne, AllJoined, ProducerStates, WriterStates
  <1>4. CASE \E p \in Producers : Join(p)
    BY <1>4 DEF LogInv, TypeOK, Join, AllJoined, ProducerStates
  <1> QED
    BY <1>1, <1>2, <1>3, <1>4

(* The steps of the log thread. *)
LEMMA WriterStep ==
    ASSUME LogInv, Writer \/ SpuriousWake
    PROVE  LogInv'
  <1>1. CASE Test
    BY <1>1, EmptySeq DEF LogInv, TypeOK, Test, AllJoined, WriterStates
  <1>2. CASE Park
    BY <1>2 DEF LogInv, TypeOK, Park, AllJoined, WriterStates
  <1>3. CASE SpuriousWake
    BY <1>3 DEF LogInv, TypeOK, SpuriousWake, AllJoined, WriterStates
  <1>4. CASE ReadStop
    BY <1>4 DEF LogInv, TypeOK, ReadStop, AllJoined, WriterStates
  <1>5. CASE WriteLine
    <2>1. out' \in Seq(Lines) /\ local_queue' \in Seq(Lines)
      BY <1>5, HeadTailProperties, AppendProperties DEF LogInv, TypeOK, WriteLine
    <2> QED
      BY <1>5, <2>1 DEF LogInv, TypeOK, WriteLine, AllJoined, WriterStates
  <1>6. CASE EndBatch
    BY <1>6 DEF LogInv, TypeOK, EndBatch, AllJoined, WriterStates
  <1> QED
    BY <1>1, <1>2, <1>3, <1>4, <1>5, <1>6 DEF Writer

(* The steps of main. *)
LEMMA MainStep ==
    ASSUME LogInv, (AllJoined /\ StoreStop) \/ NotifyStop \/ Exit
    PROVE  LogInv'
  <1>1. CASE AllJoined /\ StoreStop
    BY <1>1 DEF LogInv, TypeOK, StoreStop, AllJoined, MainStates
  <1>2. CASE NotifyStop
    BY <1>2 DEF LogInv, TypeOK, NotifyStop, NotifyOne, AllJoined, MainStates, WriterStates
  <1>3. CASE Exit
    BY <1>3 DEF LogInv, TypeOK, Exit, AllJoined, MainStates
  <1> QED
    BY <1>1, <1>2, <1>3

LEMMA LogStep ==
    ASSUME LogInv, [Next]_vars
    PROVE  LogInv'
  <1>1. CASE UNCHANGED vars
    BY <1>1 DEF LogInv, TypeOK, AllJoined, vars
  <1> QED
    BY <1>1, ProducerStep, WriterStep, MainStep DEF Next

LEMMA LogInvariance == Spec => []LogInv
  <1>1. LogInv /\ [Next]_vars => LogInv'
    BY LogStep
  <1> QED
    BY <1>1, InitHolds, PTL DEF Spec
-----------------------------------------------------------------------------
(* Each step accepts a line, writes one, closes, or leaves the sink alone. *)
LEMMA StepSink ==
    ASSUME LogInv, [Next]_vars
    PROVE  [Sink!Next]_(Sink!vars)
  <1> DEFINE lines == local_queue \o queue
             closed == main = "exited"
  <1>1. queue \in Seq(Lines) /\ local_queue \in Seq(Lines)
    BY DEF LogInv, TypeOK
  <1>2. CASE \E p \in Producers : Push(p)
    <2>1. PICK p \in Producers : Push(p)
      BY <1>2
    <2> DEFINE line == <<p, count[p] + 1>>
    <2>2. line \in Lines
      <3>1. count[p] \in 0 .. MaxLines /\ count[p] < MaxLines
        BY <2>1 DEF LogInv, TypeOK, Push
      <3>2. count[p] + 1 \in 1 .. MaxLines
        BY <3>1, MaxLinesAssumption
      <3> QED
        BY <3>2 DEF Lines
    <2>3. lines' = Append(lines, line)
      BY <1>1, <2>1, <2>2, PendingLines DEF Push
    <2>4. ~closed /\ closed' = closed /\ out' = out
      BY <2>1 DEF LogInv, AllJoined, Push
    <2>5. Sink!Accept(line)
      BY <2>3, <2>4 DEF Sink!Accept
    <2> QED
      BY <2>2, <2>5 DEF Sink!Next
  <1>3. CASE WriteLine
    <2>1. /\ lines # <<>>
          /\ Head(lines) = Head(local_queue)
          /\ lines' = Tail(lines)
      BY <1>1, <1>3, PendingLines DEF WriteLine
    <2>2. Sink!Write
      BY <1>3, <2>1 DEF WriteLine, Sink!Write
    <2> QED
      BY <2>2 DEF Sink!Next
  <1>4. CASE Test
    <2>1. local_queue = <<>> /\ lines = queue
      BY <1>1, <1>4, ConcatEmptySeq DEF Test, LogInv, TypeOK
    <2>2. lines' = queue
      BY <1>1, <1>4, <2>1, ConcatEmptySeq DEF Test
    <2> QED
      BY <1>4, <2>1, <2>2 DEF Test, Sink!vars
  <1>5. CASE Exit
    <2>1. lines = <<>>
      BY <1>1, <1>5, ConcatEmptySeq DEF Exit, LogInv, TypeOK
    <2>2. Sink!Close
      BY <1>5, <2>1 DEF Exit, Sink!Close
    <2> QED
      BY <2>2 DEF Sink!Next
  <1>6. CASE \/ \E P \in SUBSET Producers : Spawn(P)
             \/ \E p \in Producers : Notify(p) \/ Join(p)
             \/ Park \/ ReadStop \/ EndBatch \/ SpuriousWake
    BY <1>6 DEF Spawn, Notify, Join, Park, ReadStop, EndBatch, SpuriousWake, Sink!vars
  <1>7. CASE StoreStop \/ NotifyStop
    BY <1>7 DEF StoreStop, NotifyStop, Sink!vars
  <1>8. CASE UNCHANGED vars
    BY <1>8 DEF vars, Sink!vars
  <1> QED
    BY <1>2, <1>3, <1>4, <1>5, <1>6, <1>7, <1>8 DEF Next, Writer

(* The stop flag is read by the log thread only when it is the last thing  *)
(* left to do: no worker is left, and nothing in the queue.                *)
THEOREM StopComesLast == Spec => [](TypeOK /\ StopIsLast)
  <1>1. LogInv => TypeOK /\ StopIsLast
    BY DEF LogInv, StopIsLast
  <1> QED
    BY <1>1, LogInvariance, PTL

(* Lines are written in the order of their pushes, none twice, and main    *)
(* ends only when all have been written: the log implements LogSink.       *)
THEOREM KeepsLines == Spec => SinkSpec
  <1>1. Init => Sink!Init
    <2> SUFFICES ASSUME Init PROVE Sink!Init
      OBVIOUS
    <2>1. local_queue \o queue = <<>>
      BY EmptySeq, ConcatEmptySeq DEF Init
    <2> QED
      BY <2>1 DEF Init, Sink!Init
  <1>2. LogInv /\ [Next]_vars => [Sink!Next]_(Sink!vars)
    BY StepSink
  <1> QED
    BY <1>1, <1>2, LogInvariance, PTL DEF Spec, SinkSpec, Sink!Spec
-----------------------------------------------------------------------------
(***************************************************************************)
(* The inductive invariant: that of the log, the agreement of the          *)
(* variables, and that there are workers only while listen() has not       *)
(* returned.  The last is what lets shutdown() follow listen().            *)
(***************************************************************************)
ServerInv ==
    /\ LogInv
    /\ ServerTypeOK
    /\ place \in {"starting", "configured", "bound", "returned"} => AllJoined

(* Before the loop nobody logs, and nobody goes on after an early end.     *)
Silent ==
    place \in {"starting", "configured", "bound", "aborted"} =>
        AllJoined /\ queue = <<>> /\ local_queue = <<>>
-----------------------------------------------------------------------------
(* What a step does to the log's variables is a step of AsyncLog: a worker *)
(* that logs exists, and main stops the log when no worker is left.        *)
LEMMA StepLog ==
    ASSUME ServerInv, [ServerNext]_serverVars
    PROVE  [Next]_vars
  <1>1. CASE UNCHANGED log
    BY <1>1 DEF log, vars
  <1>2. CASE Listen
    BY <1>1, <1>2, BaseAssumption DEF Listen, Next
  <1>3. CASE Accept
    <2>1. CASE \E p \in Producers \ Base : Spawn({p})
      BY <2>1 DEF Next
    <2> QED
      BY <1>1, <1>3, <2>1 DEF Accept
  <1>4. CASE \E p \in Producers : Log(p)
    BY <1>4 DEF Log, Next
  <1>5. CASE \E p \in Producers : EndWorker(p)
    BY <1>5 DEF EndWorker, Next
  <1>6. CASE CallShutdown
    <2>1. AllJoined /\ StoreStop
      BY <1>6 DEF CallShutdown, ServerInv
    <2> QED
      BY <2>1 DEF Next
  <1>7. CASE LogThread \/ LogWake \/ Shutdown
    BY <1>7 DEF LogThread, LogWake, Shutdown, Next
  <1>8. CASE Configure \/ Bind \/ BindFails \/ Signal \/ AcceptFails \/ LeaveLoop \/ ListenReturns
    BY <1>1, <1>8
    DEF Configure, Bind, BindFails, Signal, AcceptFails, LeaveLoop, ListenReturns
  <1>9. CASE \E p \in Producers :
                BeginRequest(p) \/ Take(p) \/ EndRequest(p) \/ CloseConnection(p)
    BY <1>1, <1>9 DEF BeginRequest, Take, EndRequest, CloseConnection
  <1>10. CASE UNCHANGED serverVars
    BY <1>1, <1>10 DEF serverVars
  <1> QED
    BY <1>2, <1>3, <1>4, <1>5, <1>6, <1>7, <1>8, <1>9, <1>10
    DEF ServerNext, Main, ServeOn
-----------------------------------------------------------------------------
LEMMA ServerInitHolds == ServerInit => ServerInv /\ Silent
  <1> SUFFICES ASSUME ServerInit PROVE ServerInv /\ Silent
    OBVIOUS
  <1>1. LogInv
    BY InitHolds DEF ServerInit
  <1>2. AllJoined /\ queue = <<>> /\ local_queue = <<>> /\ main = "listening"
    BY DEF ServerInit, Init, AllJoined
  <1>3. Tasks!TypeOK
    <2>1. pending \in Seq(Connections)
      BY EmptySeq DEF ServerInit, Tasks!Init
    <2> QED
      BY <2>1 DEF ServerInit, Tasks!Init, Tasks!Idle, Tasks!TypeOK
  <1>4. ServerTypeOK
    <2>1. \A p \in Producers : producer[p] = "absent" /\ running[p] = None /\ ~inside[p]
      BY DEF ServerInit, Init, Tasks!Init, Tasks!Idle
    <2>2. left \in [Producers -> 0 .. MaxRequests] /\ inside \in [Producers -> BOOLEAN]
      BY BoundsAssumption DEF ServerInit
    <2>3. signals \in 0 .. MaxSignals /\ accepted \in 0 .. MaxConnections
      BY BoundsAssumption DEF ServerInit
    <2> QED
      BY <1>1, <1>2, <1>3, <2>1, <2>2, <2>3
      DEF ServerInit, ServerTypeOK, LogInv, Places, Sockets
  <1> QED
    BY <1>1, <1>2, <1>4 DEF ServerInv, Silent

(* The steps of main up to the end of listen(), and signals. *)
LEMMA ListenerStep ==
    ASSUME ServerInv,
           LogInv',
           \/ Configure \/ Bind \/ BindFails \/ Listen \/ Signal
           \/ Accept \/ AcceptFails \/ LeaveLoop \/ ListenReturns
    PROVE  ServerInv'
  <1> USE DEF ServerInv, LogInv
  <1>1. CASE Configure \/ Bind \/ BindFails
    BY <1>1
    DEF Configure, Bind, BindFails, log, tasks, work, ServerTypeOK, Tasks!TypeOK, AllJoined, Places, Sockets
  <1>2. CASE Listen
    BY <1>2
    DEF Listen, Spawn, TypeOK, log, tasks, work, ServerTypeOK, Tasks!TypeOK, Places
  <1>3. CASE Signal
    BY <1>3, BoundsAssumption
    DEF Signal, log, tasks, work, ServerTypeOK, Tasks!TypeOK, AllJoined, Places, Sockets
  <1>4. CASE Accept
    <2>1. accepted' \in 0 .. MaxConnections /\ accepted + 1 \in Connections
      BY <1>4, BoundsAssumption DEF Accept, ServerTypeOK, Connections
    <2>2. Tasks!TypeOK'
      BY <1>4, <2>1, AppendProperties DEF Accept, Tasks!Submit, ServerTypeOK, Tasks!TypeOK
    <2>3. /\ \A p \in Producers : producer[p] # "absent" => producer'[p] = producer[p]
          /\ \A p \in Producers : producer'[p] = "pushed" => producer[p] = "pushed"
          /\ main' = main
      BY <1>4 DEF Accept, Spawn, log, TypeOK
    <2> QED
      BY <1>4, <2>1, <2>2, <2>3 DEF Accept, Tasks!Submit, ServerTypeOK
  <1>5. CASE AcceptFails \/ LeaveLoop
    BY <1>5
    DEF AcceptFails, LeaveLoop, Tasks!Shut, log, work, ServerTypeOK, Tasks!TypeOK, Places, Sockets
  <1>6. CASE ListenReturns
    BY <1>6
    DEF ListenReturns, Tasks!Close, log, work, ServerTypeOK, Tasks!TypeOK, AllJoined, Places
  <1> QED
    BY <1>1, <1>2, <1>3, <1>4, <1>5, <1>6

(* The steps of a worker. *)
LEMMA WorkerStep ==
    ASSUME ServerInv,
           LogInv',
           NEW p \in Producers,
           BeginRequest(p) \/ Log(p) \/ ServeOn(p)
    PROVE  ServerInv'
  <1> USE DEF ServerInv, LogInv
  <1>1. CASE BeginRequest(p)
    BY <1>1
    DEF BeginRequest, log, tasks, ServerTypeOK, Tasks!TypeOK, AllJoined
  <1>2. CASE Log(p)
    BY <1>2
    DEF Log, Push, Notify, TypeOK, tasks, work, ServerTypeOK, Tasks!TypeOK, AllJoined, ProducerStates
  <1>3. CASE Take(p)
    <2>1. Tasks!TypeOK'
      BY <1>3, HeadTailProperties DEF Take, Tasks!Start, ServerTypeOK, Tasks!TypeOK
    <2>2. left' \in [Producers -> 0 .. MaxRequests] /\ left'[p] > 0
      BY <1>3, BoundsAssumption DEF Take, ServerTypeOK
    <2> QED
      BY <1>3, <2>1, <2>2
      DEF Take, Tasks!Start, log, ServerTypeOK, Tasks!TypeOK, AllJoined
  <1>4. CASE EndRequest(p)
    <2>1. left' \in [Producers -> 0 .. MaxRequests]
      BY <1>4, BoundsAssumption DEF EndRequest, ServerTypeOK
    <2> QED
      BY <1>4, <2>1
      DEF EndRequest, Tasks!Finish, log, tasks, ServerTypeOK, Tasks!TypeOK, AllJoined
  <1>5. CASE CloseConnection(p)
    <2>1. left' \in [Producers -> 0 .. MaxRequests]
      BY <1>5, BoundsAssumption DEF CloseConnection, ServerTypeOK
    <2> QED
      BY <1>5, <2>1
      DEF CloseConnection, Tasks!Finish, log, tasks, ServerTypeOK, Tasks!TypeOK, AllJoined
  <1>6. CASE EndWorker(p)
    BY <1>6
    DEF EndWorker, Join, TypeOK, tasks, work, ServerTypeOK, Tasks!TypeOK, AllJoined
  <1> QED
    BY <1>1, <1>2, <1>3, <1>4, <1>5, <1>6 DEF ServeOn

(* The steps of the log thread, and those of main in shutdown(). *)
LEMMA ShutdownStep ==
    ASSUME ServerInv,
           LogInv',
           CallShutdown \/ Shutdown \/ LogThread \/ LogWake
    PROVE  ServerInv'
  <1>1. /\ UNCHANGED <<tasks, work, place, svr_sock, is_running, signals, producer>>
        /\ main' # main => place = "returned"
    BY DEF CallShutdown, StoreStop, Shutdown, NotifyStop, Exit, LogThread, LogWake, Writer,
           Test, Park, ReadStop, WriteLine, EndBatch, SpuriousWake, ServerInv, ServerTypeOK
  <1> QED
    BY <1>1 DEF ServerInv, LogInv, ServerTypeOK, Tasks!TypeOK, AllJoined, tasks, work

LEMMA ServerStep ==
    ASSUME ServerInv, [ServerNext]_serverVars
    PROVE  ServerInv'
  <1>1. LogInv'
    BY StepLog, LogStep DEF ServerInv
  <1>2. CASE UNCHANGED serverVars
    BY <1>1, <1>2
    DEF serverVars, log, tasks, work, ServerInv, LogInv, ServerTypeOK, Tasks!TypeOK, AllJoined
  <1> QED
    BY <1>1, <1>2, ListenerStep, WorkerStep, ShutdownStep DEF ServerNext, Main

LEMMA ServerInvariance == ServerSpec => []ServerInv
  <1>1. ServerInv /\ [ServerNext]_serverVars => ServerInv'
    BY ServerStep
  <1> QED
    BY <1>1, ServerInitHolds, PTL DEF ServerSpec
-----------------------------------------------------------------------------
(* Without assertions only what comes before the loop can end the process  *)
(* early, and that is silent.                                              *)
LEMMA SilentStep ==
    ASSUME ~Asserts, ServerInv, Silent, [ServerNext]_serverVars
    PROVE  Silent'
  <1>1. CASE UNCHANGED log
    <2>1. place' \in {"starting", "configured", "bound", "aborted"} =>
             place \in {"starting", "configured", "bound", "aborted"}
      BY DEF ServerNext, Configure, Bind, BindFails, Listen, Signal, Accept, AcceptFails, Main,
             LeaveLoop, ListenReturns, CallShutdown, Shutdown, BeginRequest, Log, ServeOn, Take,
             EndRequest, CloseConnection, EndWorker, LogThread, LogWake, serverVars
    <2> QED
      BY <1>1, <2>1 DEF Silent, AllJoined, log
  <1>2. CASE Listen
    BY <1>1, <1>2 DEF Listen, Silent
  <1>3. CASE Accept
    BY <1>3 DEF Accept, Silent
  <1>4. CASE \E p \in Producers : Log(p)
    BY <1>4 DEF Log, Push, Notify, Silent, AllJoined
  <1>5. CASE \E p \in Producers : EndWorker(p)
    BY <1>5 DEF EndWorker, Join, Silent, AllJoined
  <1>6. CASE CallShutdown \/ Shutdown
    BY <1>6 DEF CallShutdown, StoreStop, Shutdown, NotifyStop, Exit, Silent, AllJoined
  <1>7. CASE LogThread \/ LogWake
    BY <1>7
    DEF LogThread, LogWake, Writer, Test, Park, ReadStop, WriteLine, EndBatch, SpuriousWake,
        Silent, AllJoined
  <1>8. CASE \/ Configure \/ Bind \/ BindFails \/ Signal \/ AcceptFails
             \/ LeaveLoop \/ ListenReturns
    BY <1>1, <1>8
    DEF Configure, Bind, BindFails, Signal, AcceptFails, LeaveLoop, ListenReturns
  <1>9. CASE \E p \in Producers :
                BeginRequest(p) \/ Take(p) \/ EndRequest(p) \/ CloseConnection(p)
    BY <1>1, <1>9 DEF BeginRequest, Take, EndRequest, CloseConnection
  <1>10. CASE UNCHANGED serverVars
    BY <1>1, <1>10 DEF serverVars
  <1> QED
    BY <1>2, <1>3, <1>4, <1>5, <1>6, <1>7, <1>8, <1>9, <1>10
    DEF ServerNext, Main, ServeOn
-----------------------------------------------------------------------------
(* Where main is before and after the loop. *)
Early == {"starting", "configured", "bound", "returned"}

(* What a step does to the queue of connections is a step of TaskQueue. *)
LEMMA StepTasks ==
    ASSUME ServerInv, [ServerNext]_serverVars
    PROVE  \/ \E p \in Producers : Tasks!Start(p) /\ accepted' = accepted /\ place' = place
           \/ \E p \in Producers : Tasks!Finish(p) /\ accepted' = accepted /\ place' = place
           \/ Tasks!Shut /\ accepted' = accepted /\ place' = "draining"
           \/ Tasks!Close /\ accepted' = accepted /\ place' = "returned"
           \/ /\ Tasks!Submit(accepted + 1) /\ accepted + 1 \in Connections
              /\ accepted' = accepted + 1
              /\ place' = place /\ place = "running"
           \/ /\ UNCHANGED <<tasks, accepted>>
              /\ place' \in Early => place \in Early
  <1>1. accepted \in 0 .. MaxConnections
    BY DEF ServerInv, ServerTypeOK
  <1>2. CASE Accept
    BY <1>1, <1>2, BoundsAssumption DEF Accept, Connections
  <1>3. CASE AcceptFails \/ LeaveLoop \/ ListenReturns
    BY <1>3 DEF AcceptFails, LeaveLoop, ListenReturns, work
  <1>4. CASE \E p \in Producers : Take(p) \/ EndRequest(p) \/ CloseConnection(p)
    BY <1>4 DEF Take, EndRequest, CloseConnection, tasks
  <1>5. CASE \E p \in Producers : BeginRequest(p) \/ Log(p) \/ EndWorker(p)
    BY <1>5 DEF BeginRequest, Log, EndWorker, work
  <1>6. CASE Configure \/ Bind \/ BindFails \/ Listen \/ Signal
    BY <1>6 DEF Configure, Bind, BindFails, Listen, Signal, work, Early
  <1>7. CASE CallShutdown \/ Shutdown \/ LogThread \/ LogWake \/ UNCHANGED serverVars
    BY <1>7 DEF CallShutdown, Shutdown, LogThread, LogWake, serverVars, work
  <1> QED
    BY <1>2, <1>3, <1>4, <1>5, <1>6, <1>7 DEF ServerNext, Main, ServeOn

(* Connections, numbered in the order of accept(), wait in that order: all *)
(* but the last ones have had a worker, and nobody has one twice.          *)
InTurn ==
    /\ Len(pending) <= accepted
    /\ \A i \in DOMAIN pending : pending[i] = accepted - Len(pending) + i
    /\ \A p \in Producers : running[p] # None =>
          /\ running[p] \in 1 .. accepted - Len(pending)
          /\ \A q \in Producers : running[q] = running[p] => q = p

(* Outside of listen() no connection is open. *)
NoneOpen == place \in Early => pending = <<>> /\ running = Tasks!Idle

LEMMA TurnStep ==
    ASSUME ServerInv, InTurn, NoneOpen, [ServerNext]_serverVars
    PROVE  InTurn' /\ NoneOpen'
  <1> DEFINE n == Len(pending)
  <1>1. /\ accepted \in Nat /\ n \in Nat /\ n <= accepted
        /\ pending \in Seq(Connections) /\ DOMAIN pending = 1 .. n
        /\ running \in [Producers -> Connections \cup {None}]
        /\ \A i \in 1 .. n : pending[i] = accepted - n + i
    BY BoundsAssumption DEF ServerInv, ServerTypeOK, Tasks!TypeOK, InTurn
  <1>2. ASSUME NEW p \in Producers, Tasks!Start(p), accepted' = accepted, place' = place
        PROVE  InTurn' /\ NoneOpen'
    <2>1. /\ pending # <<>> /\ pending' = Tail(pending)
          /\ running' = [running EXCEPT ![p] = Head(pending)]
      BY <1>2 DEF Tasks!Start
    <2>2. /\ n >= 1 /\ Len(pending') = n - 1 /\ DOMAIN pending' = 1 .. n - 1
          /\ \A i \in 1 .. n - 1 : pending'[i] = pending[i + 1]
          /\ Head(pending) = pending[1]
      BY <1>1, <2>1, HeadTailProperties, LenProperties
    <2> HIDE DEF n
    <2>3. Head(pending) = accepted - n + 1
      BY <1>1, <2>2
    <2>4. \A i \in 1 .. n - 1 : pending'[i] = accepted - (n - 1) + i
      <3> SUFFICES ASSUME NEW i \in 1 .. n - 1
                   PROVE  pending'[i] = accepted - (n - 1) + i
        OBVIOUS
      <3>1. i + 1 \in 1 .. n
        BY <1>1
      <3> QED
        BY <1>1, <2>2, <3>1
    <2>5. \A q \in Producers : running[q] # None => running[q] \in 1 .. accepted - n
      BY DEF InTurn, n
    <2>6. \A q \in Producers : running[q] # None =>
             running[q] # Head(pending) /\ running[q] \in 1 .. accepted - (n - 1)
      BY <1>1, <2>3, <2>5
    <2>7. Head(pending) \in 1 .. accepted - (n - 1)
      BY <1>1, <2>2, <2>3
    <2>8. /\ running'[p] = Head(pending) /\ running[p] = None
          /\ \A q \in Producers \ {p} : running'[q] = running[q]
      BY <1>1, <1>2, <2>1 DEF Tasks!Start
    <2>9. InTurn'
      <3>1. ASSUME NEW q \in Producers, running'[q] # None
            PROVE  /\ running'[q] \in 1 .. accepted - (n - 1)
                   /\ \A u \in Producers : running'[u] = running'[q] => u = q
        <4>1. CASE q = p
          <5>1. \A u \in Producers \ {p} : running[u] # Head(pending)
            BY <2>6, <2>8, <3>1, <4>1
          <5> QED
            BY <2>7, <2>8, <4>1, <5>1
        <4>2. CASE q # p
          BY <2>6, <2>8, <3>1, <4>2 DEF InTurn
        <4> QED
          BY <4>1, <4>2
      <3>2. n - 1 <= accepted
        BY <1>1
      <3> QED
        BY <1>2, <2>2, <2>4, <3>1, <3>2 DEF InTurn
    <2> QED
      BY <1>2, <2>1, <2>9 DEF NoneOpen
  <1>3. ASSUME NEW p \in Producers, Tasks!Finish(p), accepted' = accepted, place' = place
        PROVE  InTurn' /\ NoneOpen'
    <2>1. /\ pending' = pending /\ running[p] # None
          /\ running'[p] = None
          /\ \A q \in Producers \ {p} : running'[q] = running[q]
      BY <1>1, <1>3 DEF Tasks!Finish
    <2>2. place \notin Early
      BY <2>1 DEF NoneOpen, Tasks!Idle
    <2> QED
      BY <1>3, <2>1, <2>2 DEF InTurn, NoneOpen
  <1>4. CASE Tasks!Shut /\ accepted' = accepted /\ place' = "draining"
    BY <1>4 DEF Tasks!Shut, InTurn, NoneOpen, Early
  <1>5. CASE Tasks!Close /\ accepted' = accepted /\ place' = "returned"
    BY <1>5 DEF Tasks!Close, InTurn, NoneOpen
  <1>6. CASE /\ Tasks!Submit(accepted + 1) /\ accepted + 1 \in Connections
             /\ accepted' = accepted + 1
             /\ place' = place /\ place = "running"
    <2>1. pending' = Append(pending, accepted + 1) /\ running' = running
      BY <1>6 DEF Tasks!Submit
    <2>2. /\ Len(pending') = n + 1 /\ DOMAIN pending' = 1 .. n + 1
          /\ \A i \in 1 .. n : pending'[i] = pending[i]
          /\ pending'[n + 1] = accepted + 1
      BY <1>1, <1>6, <2>1, AppendProperties, LenProperties
    <2> HIDE DEF n
    <2>3. \A i \in 1 .. n + 1 : pending'[i] = accepted' - (n + 1) + i
      <3> SUFFICES ASSUME NEW i \in 1 .. n + 1
                   PROVE  pending'[i] = accepted' - (n + 1) + i
        OBVIOUS
      <3>1. CASE i = n + 1
        BY <1>1, <1>6, <2>2, <3>1
      <3>2. CASE i \in 1 .. n
        BY <1>1, <1>6, <2>2, <3>2
      <3> QED
        BY <1>1, <3>1, <3>2
    <2>4. accepted' - (n + 1) = accepted - n /\ n + 1 <= accepted'
      BY <1>1, <1>6
    <2>5. \A p \in Producers : running[p] # None =>
             /\ running[p] \in 1 .. accepted - n
             /\ \A q \in Producers : running[q] = running[p] => q = p
      BY DEF InTurn, n
    <2> QED
      BY <1>6, <2>1, <2>2, <2>3, <2>4, <2>5 DEF InTurn, NoneOpen, Early
  <1>7. CASE UNCHANGED <<tasks, accepted>> /\ (place' \in Early => place \in Early)
    BY <1>7 DEF tasks, InTurn, NoneOpen
  <1> QED
    BY <1>2, <1>3, <1>4, <1>5, <1>6, <1>7, StepTasks
-----------------------------------------------------------------------------
(* The variables of the process agree with each other in every reachable   *)
(* state, and the stop flag comes after the last line.                     *)
THEOREM StaysConsistent == ServerSpec => []ServerConsistent
  <1>1. ServerInv => ServerConsistent
    BY DEF ServerInv, LogInv, StopIsLast, ServerConsistent
  <1> QED
    BY <1>1, ServerInvariance, PTL

(* The process uses the log as AsyncLog assumes: only workers log, and     *)
(* shutdown() is called when they have been joined.                        *)
THEOREM UsesLog == ServerSpec => LogSpec
  <1>1. ServerInit => Init
    BY DEF ServerInit
  <1>2. ServerInv /\ [ServerNext]_serverVars => [Next]_vars
    BY StepLog
  <1> QED
    BY <1>1, <1>2, ServerInvariance, PTL DEF ServerSpec, LogSpec, Spec

(* Lines are written once and in order by the process as a whole.          *)
THEOREM ServerKeepsLines == ServerSpec => SinkSpec
  BY UsesLog, KeepsLines, PTL DEF LogSpec

(* However the process ends, on a signal, a failed start or a failed       *)
(* accept(), no line is lost, provided that assertions are compiled out.   *)
THEOREM NoLineLost ==
    ASSUME ~Asserts
    PROVE  ServerSpec => []LinesWrittenAtEnd
  <1>1. ServerInv /\ Silent /\ [ServerNext]_serverVars => Silent'
    BY SilentStep
  <1>2. ServerInv /\ Silent => LinesWrittenAtEnd
    BY DEF ServerInv, Silent, LogInv, TypeOK, LinesWrittenAtEnd, Ended
  <1> QED
    BY <1>1, <1>2, ServerInitHolds, ServerInvariance, PTL DEF ServerSpec

(* The process uses httplib's thread pool as TaskQueue has it, which       *)
(* ThreadPool implements.                                                  *)
THEOREM UsesTasks == ServerSpec => Tasks!Spec
  <1>1. ServerInit => Tasks!Init
    BY DEF ServerInit
  <1>2. ServerInv /\ [ServerNext]_serverVars => [Tasks!Next]_(Tasks!vars)
    BY StepTasks DEF Tasks!Next, Tasks!vars, tasks
  <1> QED
    BY <1>1, <1>2, ServerInvariance, PTL DEF ServerSpec, Tasks!Spec

(* Connections get a worker in the order in which they were accepted, each *)
(* has one worker, and when listen() has returned none is left: with keep- *)
(* alive, dynamic workers, and a stop or a failed accept() at any moment.  *)
THEOREM ServedInTurn == ServerSpec => [](InTurn /\ NoneOpen)
  <1>1. ServerInit => InTurn /\ NoneOpen
    <2> SUFFICES ASSUME ServerInit PROVE InTurn /\ NoneOpen
      OBVIOUS
    <2>1. /\ pending = <<>> /\ accepted = 0 /\ running = Tasks!Idle
          /\ \A p \in Producers : running[p] = None
      BY DEF ServerInit, Tasks!Init, Tasks!Idle
    <2>2. Len(pending) = 0 /\ DOMAIN pending = {}
      BY <2>1
    <2> QED
      BY <2>1, <2>2 DEF InTurn, NoneOpen
  <1>2. ServerInv /\ InTurn /\ NoneOpen /\ [ServerNext]_serverVars => InTurn' /\ NoneOpen'
    BY TurnStep
  <1> QED
    BY <1>1, <1>2, ServerInvariance, PTL DEF ServerSpec
=============================================================================
