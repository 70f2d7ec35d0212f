----------------------------- MODULE EpollProofs -----------------------------
(***************************************************************************)
(* Proofs about EpollServer, for any number of workers, clients and fds:   *)
(* every fd is closed once, by whoever owns it, however threads and resets *)
(* interleave.                                                             *)
(***************************************************************************)
EXTENDS EpollServer, PoolServerProofs

\* What epoll_wait may return is about registered fds.
LEMMA EpollReady == PoolServerInv => ReadyOK(Ready)
<1> SUFFICES ASSUME PoolServerInv PROVE ReadyOK(Ready)
  OBVIOUS
<1>1. /\ interest \subseteq FDs /\ fdc \in [FDs -> Clients \cup {None}]
      /\ Listen \notin FDs
  BY SocketsAssumption DEF PoolServerInv, TypeOK, SocketsInv, SocketsTypeOK, FDs, Listen
<1>2. \A e \in Ready :
         \/ e = [fd |-> Listen, conn |-> None, err |-> FALSE]
         \/ \E fd \in interest :
               e = [fd |-> fd, conn |-> fdc[fd], err |-> Failed(fdc[fd])]
  BY DEF Ready, ListenReady, Event, Readable
<1>3. ASSUME NEW e \in Ready
      PROVE  /\ e \in [fd : FDs \cup {Listen}, conn : Clients \cup {None}, err : BOOLEAN]
             /\ e.fd # Listen => e.fd \in interest
             /\ e = IF e.fd = Listen
                   THEN [fd |-> Listen, conn |-> None, err |-> FALSE]
                   ELSE [fd |-> e.fd, conn |-> fdc[e.fd], err |-> Failed(fdc[e.fd])]
  <2>1. CASE e = [fd |-> Listen, conn |-> None, err |-> FALSE]
    BY <2>1
  <2>2. ASSUME NEW fd \in interest,
               e = [fd |-> fd, conn |-> fdc[fd], err |-> Failed(fdc[fd])]
        PROVE  /\ e \in [fd : FDs \cup {Listen}, conn : Clients \cup {None},
                         err : BOOLEAN]
               /\ e.fd = fd /\ fd # Listen
    <3>1. fd \in FDs /\ fd # Listen /\ fdc[fd] \in Clients \cup {None}
      BY <1>1
    <3>2. Failed(fdc[fd]) \in BOOLEAN
      BY DEF Failed
    <3> QED BY <2>2, <3>1, <3>2
  <2> QED BY <1>2, <2>1, <2>2
<1>4. Ready \subseteq [fd : FDs \cup {Listen}, conn : Clients \cup {None}, err : BOOLEAN]
  BY <1>3
<1>5. \A e \in Ready : e.err => e.fd # Listen
  <2> SUFFICES ASSUME NEW e \in Ready, e.fd = Listen
               PROVE  e.err = FALSE
    OBVIOUS
  <2> QED BY <1>3
<1>6. \A e, f \in Ready : e.fd = f.fd => e = f
  <2> SUFFICES ASSUME NEW e \in Ready, NEW f \in Ready, e.fd = f.fd
               PROVE  e = f
    OBVIOUS
  <2> QED BY <1>3
<1>7. \A e \in Ready : e.fd # Listen => fdc[e.fd] = e.conn /\ e.fd \in interest
  <2> SUFFICES ASSUME NEW e \in Ready, e.fd # Listen
               PROVE  fdc[e.fd] = e.conn /\ e.fd \in interest
    OBVIOUS
  <2> QED BY <1>3
<1> QED BY <1>4, <1>5, <1>6, <1>7 DEF ReadyOK

\* On EPOLLERR the network thread closes an fd for which no close task exists.
LEMMA HandleErrorKeeps ==
    ASSUME PoolServerInv, NEW e \in events, HandleError(e)
    PROVE  PoolServerInv'
<1>1. /\ e.fd # Listen /\ CloseFd(e.fd)
      /\ events' = events \ {e} /\ interest' = interest \ {e.fd}
      /\ UNCHANGED <<queue, holding, open, retired, written, net, sig, proc>>
  BY DEF HandleError, Handling, PoolServerInv, EventInv, poolVars
<1>2. /\ e.fd \in FDs /\ NoClose(e.fd)
      /\ \A f \in events \ {e} : f.fd # e.fd
  BY <1>1, ClientEvent
<1>3. /\ SocketsInv' /\ fdc' = [fdc EXCEPT ![e.fd] = None]
      /\ fdc \in [FDs -> Clients \cup {None}]
  BY <1>1, <1>2, CloseKeeps DEF PoolServerInv, SocketsInv, SocketsTypeOK
<1>4. TypeOK'
  BY <1>1, <1>3 DEF PoolServerInv, TypeOK, SocketsInv
<1>5. \A fd : QueuedCloses(fd)' = QueuedCloses(fd) /\ HeldCloses(fd)' = HeldCloses(fd)
  BY <1>1 DEF QueuedCloses, HeldCloses, Busy
<1>6. FdInv'
  BY <1>1, <1>2, <1>3, <1>5 DEF PoolServerInv, FdInv, NoClose, OneClose
<1>7. TaskInv'
  <2>1. \A i \in DOMAIN queue : queue[i].op = "close" =>
           queue[i].fd \in FDs \ {e.fd}
    <3>1. \A i \in DOMAIN queue : queue[i] \in Tasks
      BY DEF PoolServerInv, TypeOK
    <3> QED BY <1>2, <3>1 DEF NoClose, QueuedCloses, Tasks
  <2>2. \A w \in Busy : holding[w].op = "close" => holding[w].fd \in FDs \ {e.fd}
    <3>1. \A w \in Busy : holding[w] \in Tasks
      BY DEF PoolServerInv, TypeOK, Busy
    <3> QED BY <1>2, <3>1 DEF NoClose, HeldCloses, Tasks
  <2> QED BY <1>1, <1>3, <2>1, <2>2 DEF PoolServerInv, TaskInv, Busy
<1>8. EventInv'
  BY <1>1, <1>2, <1>3 DEF PoolServerInv, EventInv, EventsAreFresh, TypeOK
<1> QED BY <1>3, <1>4, <1>6, <1>7, <1>8 DEF PoolServerInv

\* PoolServerInv is an invariant of the epoll server.
THEOREM EpollInvariant == Spec => []PoolServerInv
<1>1. PoolServerInv /\ [Next]_vars => PoolServerInv'
  <2> SUFFICES ASSUME PoolServerInv, [Next]_vars PROVE PoolServerInv'
    OBVIOUS
  <2>1. CASE Environment
    BY <2>1, EnvironmentKeeps
  <2>2. CASE NetStep
    <3>1. CASE EpollWait
      BY <3>1, EpollReady, WaitKeeps DEF EpollWait
    <3>2. CASE EventsDone \/ LeaveLoop \/ AcceptDone \/ \E e \in events : HandleListen(e)
      BY <3>2, LoopKeeps
    <3>3. CASE \E e \in events : HandleError(e) \/ ReadData(e) \/ ReadHangUp(e)
      BY <3>3, HandleErrorKeeps, ReadDataKeeps, ReadHangUpKeeps
    <3>4. CASE Accept
      BY <3>4, AcceptConnectionKeeps
    <3> QED BY <2>2, <3>1, <3>2, <3>3, <3>4 DEF NetStep
  <2>3. CASE \E w \in Workers : WorkerStep(w)
    BY <2>3, WorkerKeeps
  <2>4. CASE Signal \/ StopReturns
    BY <2>4, LoopKeeps
  <2>5. CASE UNCHANGED vars
    BY <2>5, StutterKeeps
  <2> QED BY <2>1, <2>2, <2>3, <2>4, <2>5 DEF Next
<1> QED BY InitPoolServerInv, <1>1, PTL DEF Spec

\* Every variable keeps its shape.
THEOREM EpollTypeOK == Spec => []TypeOK
<1>1. PoolServerInv => TypeOK
  BY DEF PoolServerInv
<1> QED BY EpollInvariant, <1>1, PTL

\* No fd is leaked, and none is closed twice: neither by two tasks, nor by a task
\* and the network thread.
THEOREM EpollFdAccounted == Spec => []FdAccounted
BY EpollInvariant, Accounted, PTL

\* A close task closes the connection it was made for, and never one that was
\* given the fd later.
THEOREM EpollCloseHitsOwnConnection == Spec => []CloseHitsOwnConnection
BY EpollInvariant, OwnConnection, PTL

\* However long ago epoll_wait returned, the events left are about open, registered
\* fds and the connections they were reported for.
THEOREM EpollEventsAreFresh == Spec => []EventsAreFresh
<1>1. PoolServerInv => EventsAreFresh
  BY DEF PoolServerInv, EventInv
<1> QED BY EpollInvariant, <1>1, PTL

\* The network thread closes an fd: no byte is involved.
LEMMA EpollBytes ==
    ASSUME PoolServerInv, ByteInv, [Next]_vars
    PROVE  ByteInv'
<1>1. CASE Environment \/ Signal \/ StopReturns \/ UNCHANGED vars
  BY <1>1, QuietBytes
<1>2. CASE NetStep
  <2>1. CASE EpollWait \/ EventsDone \/ LeaveLoop \/ Accept \/ AcceptDone
    BY <2>1, QuietBytes DEF EpollWait
  <2>2. CASE \E e \in events : HandleListen(e)
    BY <2>2, QuietBytes
  <2>3. CASE \E e \in events : HandleError(e)
    <3>1. UNCHANGED <<rcvd, echo, holding, written, queue>>
      BY <2>3 DEF HandleError, Handling, CloseFd, streamVars, poolVars
    <3>2. \A i \in QueuedEchoes' : i \in QueuedEchoes /\ queue'[i] = queue[i]
      BY <3>1 DEF QueuedEchoes
    <3> QED BY <3>1, <3>2, ByteFrame
  <2>4. CASE \E e \in events : ReadData(e) \/ ReadHangUp(e)
    BY <2>4, ReadDataBytes, HangUpBytes
  <2> QED BY <1>2, <2>1, <2>2, <2>3, <2>4 DEF NetStep
<1>3. CASE \E w \in Workers : WorkerStep(w)
  BY <1>3, WorkerBytes
<1> QED BY <1>1, <1>2, <1>3 DEF Next

\* A worker that was interrupted in its write loop, a task that waited for long, an
\* fd that was given to another client meanwhile: no byte is echoed twice, neither
\* on one connection nor on two.
THEOREM EpollNoByteEchoedTwice == Spec => []NoByteEchoedTwice
<1>1. PoolServerInv /\ ByteInv /\ [Next]_vars => ByteInv'
  BY EpollBytes
<1>2. PoolServerInv /\ ByteInv => NoByteEchoedTwice
  BY EchoedOnce DEF PoolServerInv
<1> QED BY EpollInvariant, InitByteInv, <1>1, <1>2, PTL DEF Spec

-----------------------------------------------------------------------------
(* One worker, and no client that resets its connection: epoll_single.cfg. *)

\* No connection was reset, and none is thought to be.
NoReset ==
    /\ \A c \in Clients : client[c] # "gone"
    /\ \A e \in events : ~e.err

\* The error of a socket comes from its client.
LEMMA NoResetKeeps ==
    ASSUME PoolServerInv, ServiceInv, NoReset, Aborting = {}, [Next]_vars
    PROVE  NoReset'
<1>1. client \in [Clients -> ClientStates] /\ fdc \in [FDs -> Clients \cup {None}]
  BY DEF PoolServerInv, TypeOK, SocketsTypeOK
<1>2. CASE Environment
  <2>1. PICK c \in Clients : SendByte(c) \/ ReadEcho(c) \/ HangUp(c) \/ Connect(c)
    BY <1>2 DEF Environment, ClientStep, Abort
  <2>2. events' = events
    BY <1>2 DEF Environment, serverVars
  <2>3. \A d \in Clients : client'[d] \in {client[d], "open", "shut"}
    BY <1>1, <2>1 DEF SendByte, ReadEcho, HangUp, Connect
  <2> QED BY <2>2, <2>3 DEF NoReset
<1>3. CASE EpollWait
  <2>1. client' = client /\ events' \subseteq Ready
    BY <1>3 DEF EpollWait, Wait, sockVars
  <2>2. ASSUME NEW fd \in interest
        PROVE  ~Failed(fdc[fd])
    <3>1. fdc[fd] \in Clients
      BY <1>1 DEF PoolServerInv, EventInv, TypeOK
    <3> QED BY <3>1 DEF NoReset, ServiceInv, StreamInv, SockInv, Failed
  <2>3. \A e \in Ready : ~e.err
    BY <2>2 DEF Ready, Readable, ListenReady, Event
  <2> QED BY <2>1, <2>3 DEF NoReset
<1>4. CASE \/ EventsDone \/ LeaveLoop \/ Accept \/ AcceptDone
           \/ \E e \in events :
                 HandleError(e) \/ HandleListen(e) \/ ReadData(e) \/ ReadHangUp(e)
  <2>1. client' = client
    BY <1>4 DEF EventsDone, LeaveLoop, Accept, AcceptOn, AcceptAndDrop, AcceptDone,
                HandleError, HandleListen, ReadData, ReadHangUp, CloseFd, ReadChunk,
                ReadEnd, sockVars
  <2>2. events' \subseteq events
    BY <1>4 DEF EventsDone, LeaveLoop, Accept, AcceptDone, HandleError, HandleListen,
                ReadData, ReadHangUp, Handling
  <2> QED BY <2>1, <2>2 DEF NoReset
<1>5. CASE \E w \in Workers : WorkerStep(w)
  <2>1. client' = client /\ events' = events
    BY <1>5 DEF WorkerStep, RunTask, TakeTask, RetireWorker, Close, Write, WriteFails, WriteKills,
                EchoDone, EndTask, CloseFd, WriteBytes, WriteReset, sockVars
  <2> QED BY <2>1 DEF NoReset
<1>6. CASE Signal \/ StopReturns \/ UNCHANGED vars
  <2>1. client' = client /\ events' = events
    BY <1>6 DEF Signal, StopReturns, vars, sockVars, serverVars
  <2> QED BY <2>1 DEF NoReset
<1> QED BY <1>2, <1>3, <1>4, <1>5, <1>6 DEF Next, NetStep

\* With one worker and no reset, a step keeps EchoInv: only the close tasks close.
LEMMA EpollEchoKeeps ==
    ASSUME PoolServerInv, EchoInv, NoReset, \A v, w \in Workers : v = w, [Next]_vars
    PROVE  EchoInv'
<1>1. CASE Environment \/ Signal \/ StopReturns \/ UNCHANGED vars
  BY <1>1, EchoQuiet
<1>2. CASE NetStep
  <2>1. CASE EpollWait \/ EventsDone \/ LeaveLoop \/ AcceptDone
    BY <2>1, EchoQuiet DEF EpollWait
  <2>2. CASE \E e \in events : HandleListen(e)
    BY <2>2, EchoQuiet
  <2>3. CASE \E e \in events : HandleError(e)
    BY <2>3 DEF HandleError, NoReset
  <2>4. CASE \E e \in events : ReadData(e) \/ ReadHangUp(e)
    BY <2>4, EchoReadData, EchoReadHangUp
  <2>5. CASE Accept
    BY <2>5, EchoAccept
  <2> QED BY <1>2, <2>1, <2>2, <2>3, <2>4, <2>5 DEF NetStep
<1>3. CASE \E w \in Workers : WorkerStep(w)
  BY <1>3, EchoWorker
<1> QED BY <1>1, <1>2, <1>3 DEF Next

\* A step of the server is a step of the echo protocol, or none, but for the close
\* of an fd that could not be registered.
LEMMA EpollServes ==
    ASSUME PoolServerInv, ByteInv, EchoInv, ServiceInv, NoReset,
           \A v, w \in Workers : v = w, [Next]_vars
    PROVE  ServiceInv' /\ (AddMayFail = FALSE => Serves)
<1>1. CASE Environment
  BY <1>1, EnvironmentServes
<1>2. CASE Signal \/ StopReturns \/ UNCHANGED vars
  BY <1>2, QuietServes
<1>3. CASE NetStep
  <2>1. CASE EpollWait \/ EventsDone \/ LeaveLoop \/ AcceptDone
    BY <2>1, QuietServes DEF EpollWait
  <2>2. CASE \E e \in events : HandleListen(e)
    BY <2>2, QuietServes
  <2>3. CASE \E e \in events : HandleError(e)
    BY <2>3 DEF HandleError, NoReset
  <2>4. CASE \E e \in events : ReadData(e) \/ ReadHangUp(e)
    BY <2>4, ReadDataServes, HangUpServes
  <2>5. CASE Accept
    BY <2>5, AcceptServes
  <2> QED BY <1>3, <2>1, <2>2, <2>3, <2>4, <2>5 DEF NetStep
<1>4. CASE \E w \in Workers : WorkerStep(w)
  BY <1>4, WorkerServes
<1> QED BY <1>1, <1>2, <1>3, <1>4 DEF Next

\* The inductive invariant of the server with one worker and no reset.
OneWorkerInv == PoolServerInv /\ ByteInv /\ EchoInv /\ ServiceInv /\ NoReset

LEMMA EpollOneWorker ==
    ASSUME \A v, w \in Workers : v = w, Aborting = {}
    PROVE  Spec => []OneWorkerInv
<1>1. Init => OneWorkerInv
  <2>1. Init => NoReset
    BY DEF Init, SocketsInit, NoReset
  <2> QED BY <2>1, InitPoolServerInv, InitByteInv, InitEchoInv, InitServiceInv
          DEF OneWorkerInv
<1>2. OneWorkerInv /\ PoolServerInv' /\ [Next]_vars => OneWorkerInv'
  BY NoResetKeeps, EpollBytes, EpollEchoKeeps, EpollServes DEF OneWorkerInv
<1> QED BY EpollInvariant, <1>1, <1>2, PTL DEF Spec

\* With one worker and no client that resets, what a comment of handle_read() says
\* of the worker that "owns the fd lifecycle" holds.
THEOREM EpollEchoHitsOwnConnection ==
    ASSUME \A v, w \in Workers : v = w, Aborting = {}
    PROVE  Spec => []EchoHitsOwnConnection
<1>1. OneWorkerInv => EchoHitsOwnConnection
  BY OwnEcho DEF OneWorkerInv
<1> QED BY EpollOneWorker, <1>1, PTL

\* With one worker and no client that resets, the epoll server implements the echo
\* protocol: each client gets back its own bytes, in order and once, and its
\* connection is not closed before all of them are written.
THEOREM EpollIsEchoService ==
    ASSUME \A v, w \in Workers : v = w, Aborting = {}, AddMayFail = FALSE
    PROVE  Spec => IsEchoService
<1>1. OneWorkerInv /\ [Next]_vars => [Service!Next]_(Service!echoVars)
  BY EpollServes DEF OneWorkerInv, Serves
<1> QED BY EpollOneWorker, InitServiceInv, <1>1, PTL DEF Spec, IsEchoService, Service!Spec

=============================================================================
