---------------------------- MODULE KqueueProofs ----------------------------
(***************************************************************************)
(* Proofs about KqueueServer, for any clients and fds: fds are closed      *)
(* once, by a worker; and with one worker no echo task finds its fd closed *)
(* or given to another client.                                             *)
(***************************************************************************)
EXTENDS KqueueServer, PoolServerProofs

\* What kevent may return is about registered fds.
LEMMA KqueueReady == PoolServerInv => ReadyOK(Ready)
<1> SUFFICES ASSUME PoolServerInv PROVE ReadyOK(Ready)
  OBVIOUS
<1>1. /\ interest \subseteq FDs /\ fdc \in [FDs -> Clients \cup {None}]
      /\ Listen \notin FDs
  BY SocketsAssumption DEF PoolServerInv, TypeOK, SocketsInv, SocketsTypeOK, FDs, Listen
<1>2. \A e \in Ready :
         \/ e = [fd |-> Listen, conn |-> None, err |-> FALSE]
         \/ \E fd \in interest : e = [fd |-> fd, conn |-> fdc[fd], err |-> FALSE]
  BY DEF Ready, ListenReady, Event, Readable
<1>3. ASSUME NEW e \in Ready
      PROVE  /\ e \in [fd : FDs \cup {Listen}, conn : Clients \cup {None}, err : BOOLEAN]
             /\ e.fd # Listen => e.fd \in interest
             /\ e = IF e.fd = Listen
                   THEN [fd |-> Listen, conn |-> None, err |-> FALSE]
                   ELSE [fd |-> e.fd, conn |-> fdc[e.fd], err |-> FALSE]
  <2>1. CASE e = [fd |-> Listen, conn |-> None, err |-> FALSE]
    BY <2>1
  <2>2. ASSUME NEW fd \in interest,
               e = [fd |-> fd, conn |-> fdc[fd], err |-> FALSE]
        PROVE  /\ e \in [fd : FDs \cup {Listen}, conn : Clients \cup {None},
                         err : BOOLEAN]
               /\ e.fd = fd /\ fd # Listen
    <3>1. fd \in FDs /\ fd # Listen /\ fdc[fd] \in Clients \cup {None}
      BY <1>1
    <3> QED BY <2>2, <3>1
  <2> QED BY <1>2, <2>1, <2>2
<1>4. Ready \subseteq [fd : FDs \cup {Listen}, conn : Clients \cup {None}, err : BOOLEAN]
  BY <1>3
<1>5. \A e \in Ready : e.err => e.fd # Listen
  <2> SUFFICES ASSUME NEW e \in Ready, e.fd = Listen
               PROVE  e.err = FALSE
    OBVIOUS
  <2> QED BY <1>3
<1>6. \A e, f \in Ready : e.fd = f.fd => e = f
  <2> SUFFICES ASSUME NEW e \in Ready, NEW f \in Ready, e.fd = f.fd
               PROVE  e = f
    OBVIOUS
  <2> QED BY <1>3
<1>7. \A e \in Ready : e.fd # Listen => fdc[e.fd] = e.conn /\ e.fd \in interest
  <2> SUFFICES ASSUME NEW e \in Ready, e.fd # Listen
               PROVE  fdc[e.fd] = e.conn /\ e.fd \in interest
    OBVIOUS
  <2> QED BY <1>3
<1> QED BY <1>4, <1>5, <1>6, <1>7 DEF ReadyOK

\* One step of the server keeps PoolServerInv.
LEMMA KqueueKeeps ==
    ASSUME PoolServerInv, [Next]_vars
    PROVE  PoolServerInv'
<1>1. CASE Environment
  BY <1>1, EnvironmentKeeps
<1>2. CASE EventLoop
  <2>1. CASE Kevent
    BY <2>1, KqueueReady, WaitKeeps DEF Kevent
  <2>2. CASE EventsDone \/ LeaveLoop \/ AcceptDone \/ \E e \in events : HandleListen(e)
    BY <2>2, LoopKeeps
  <2>3. CASE \E e \in events : HandleRead(e)
    BY <2>3, ReadDataKeeps, ReadHangUpKeeps DEF HandleRead
  <2>4. CASE Accept
    BY <2>4, AcceptConnectionKeeps
  <2> QED BY <1>2, <2>1, <2>2, <2>3, <2>4 DEF EventLoop, AcceptConnection
<1>3. CASE \E w \in Workers : WorkerStep(w)
  BY <1>3, WorkerKeeps
<1>4. CASE Shutdown
  BY <1>4, LoopKeeps DEF Shutdown
<1>5. CASE UNCHANGED vars
  BY <1>5, StutterKeeps
<1> QED BY <1>1, <1>2, <1>3, <1>4, <1>5 DEF Next

\* PoolServerInv is an invariant of the kqueue server.
THEOREM KqueueInvariant == Spec => []PoolServerInv
<1>1. PoolServerInv /\ [Next]_vars => PoolServerInv'
  BY KqueueKeeps
<1> QED BY InitPoolServerInv, <1>1, PTL DEF Spec

\* No fd is leaked and none is closed twice, for any number of workers.
THEOREM KqueueFdAccounted == Spec => []FdAccounted
BY KqueueInvariant, Accounted, PTL

-----------------------------------------------------------------------------
(* One worker.                                                             *)

\* With one worker a step keeps EchoInv.
LEMMA EchoKeeps ==
    ASSUME PoolServerInv, EchoInv, \A v, w \in Workers : v = w, [Next]_vars
    PROVE  EchoInv'
<1>1. CASE Environment \/ Shutdown \/ UNCHANGED vars
  BY <1>1, EchoQuiet DEF Shutdown
<1>2. CASE EventLoop
  <2>1. CASE Kevent \/ EventsDone \/ LeaveLoop \/ AcceptDone
    BY <2>1, EchoQuiet DEF Kevent
  <2>2. CASE \E e \in events : HandleListen(e)
    BY <2>2, EchoQuiet
  <2>3. CASE \E e \in events : HandleRead(e)
    BY <2>3, EchoReadData, EchoReadHangUp DEF HandleRead
  <2>4. CASE Accept
    BY <2>4, EchoAccept
  <2> QED BY <1>2, <2>1, <2>2, <2>3, <2>4 DEF EventLoop, AcceptConnection
<1>3. CASE \E w \in Workers : WorkerStep(w)
  BY <1>3, EchoWorker
<1> QED BY <1>1, <1>2, <1>3 DEF Next

\* With one worker, what a comment of handle_read() wants of the worker that "owns
\* the fd lifecycle" holds: no echo is written to a closed fd or to a client that
\* was given the fd later, resets or not.
THEOREM KqueueEchoHitsOwnConnection ==
    ASSUME \A v, w \in Workers : v = w
    PROVE  Spec => []EchoHitsOwnConnection
<1>1. PoolServerInv /\ EchoInv /\ [Next]_vars => EchoInv'
  BY EchoKeeps
<1> QED BY KqueueInvariant, InitEchoInv, <1>1, OwnEcho, PTL DEF Spec

\* With any number of workers, a step keeps ByteInv.
LEMMA KqueueBytes ==
    ASSUME PoolServerInv, ByteInv, [Next]_vars
    PROVE  ByteInv'
<1>1. CASE Environment \/ Shutdown \/ UNCHANGED vars
  BY <1>1, QuietBytes DEF Shutdown
<1>2. CASE EventLoop
  <2>1. CASE Kevent \/ EventsDone \/ LeaveLoop \/ Accept \/ AcceptDone
    BY <2>1, QuietBytes DEF Kevent
  <2>2. CASE \E e \in events : HandleListen(e)
    BY <2>2, QuietBytes
  <2>3. CASE \E e \in events : HandleRead(e)
    BY <2>3, ReadDataBytes, HangUpBytes DEF HandleRead
  <2> QED BY <1>2, <2>1, <2>2, <2>3 DEF EventLoop, AcceptConnection
<1>3. CASE \E w \in Workers : WorkerStep(w)
  BY <1>3, WorkerBytes
<1> QED BY <1>1, <1>2, <1>3 DEF Next

\* With any number of workers, no byte is echoed twice.
THEOREM KqueueNoByteEchoedTwice == Spec => []NoByteEchoedTwice
<1>1. PoolServerInv /\ ByteInv /\ [Next]_vars => ByteInv'
  BY KqueueBytes
<1>2. PoolServerInv /\ ByteInv => NoByteEchoedTwice
  BY EchoedOnce DEF PoolServerInv
<1> QED BY KqueueInvariant, InitByteInv, <1>1, <1>2, PTL DEF Spec

-----------------------------------------------------------------------------
(* One worker: the refinement of EchoService.                              *)

\* A step of the server is a step of the echo protocol, or none, but for the close
\* of an fd that could not be registered.
LEMMA KqueueServes ==
    ASSUME PoolServerInv, ByteInv, EchoInv, ServiceInv,
           \A v, w \in Workers : v = w, [Next]_vars
    PROVE  ServiceInv' /\ (AddMayFail = FALSE => Serves)
<1>1. CASE Environment
  BY <1>1, EnvironmentServes
<1>2. CASE Shutdown \/ UNCHANGED vars
  BY <1>2, QuietServes DEF Shutdown
<1>3. CASE EventLoop
  <2>1. CASE Kevent \/ EventsDone \/ LeaveLoop \/ AcceptDone
    BY <2>1, QuietServes DEF Kevent
  <2>2. CASE \E e \in events : HandleListen(e)
    BY <2>2, QuietServes
  <2>3. CASE \E e \in events : HandleRead(e)
    BY <2>3, ReadDataServes, HangUpServes DEF HandleRead
  <2>4. CASE Accept
    BY <2>4, AcceptServes
  <2> QED BY <1>3, <2>1, <2>2, <2>3, <2>4 DEF EventLoop, AcceptConnection
<1>4. CASE \E w \in Workers : WorkerStep(w)
  BY <1>4, WorkerServes
<1> QED BY <1>1, <1>2, <1>3, <1>4 DEF Next

\* The kqueue server with one worker implements the echo protocol, whatever the
\* clients do, resets included: each client gets back its own bytes, in order and
\* once, and its connection is not closed before all of them are written, unless
\* it has reset it.
THEOREM KqueueIsEchoService ==
    ASSUME \A v, w \in Workers : v = w, AddMayFail = FALSE
    PROVE  Spec => IsEchoService
<1>1. PoolServerInv /\ ByteInv /\ [Next]_vars => ByteInv'
  BY KqueueBytes
<1>2. PoolServerInv /\ EchoInv /\ [Next]_vars => EchoInv'
  BY EchoKeeps
<1>3. PoolServerInv /\ ByteInv /\ EchoInv /\ ServiceInv /\ [Next]_vars =>
         ServiceInv' /\ [Service!Next]_(Service!echoVars)
  BY KqueueServes DEF Serves
<1> QED BY KqueueInvariant, InitByteInv, InitEchoInv, InitServiceInv,
           <1>1, <1>2, <1>3, PTL
        DEF Spec, IsEchoService, Service!Spec

=============================================================================
