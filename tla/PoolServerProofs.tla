-------------------------- MODULE PoolServerProofs --------------------------
(***************************************************************************)
(* What the actions of PoolServer preserve, for any workers, clients, fds, *)
(* sizes and batches: types, who may close an fd, where the bytes are, and *)
(* with one worker the echo protocol.  EpollProofs and KqueueProofs draw   *)
(* the theorems about the two servers from it.                             *)
(***************************************************************************)
EXTENDS PoolServer, SocketsProofs, FiniteSetTheorems

\* Where the close tasks of an fd are.
QueuedCloses(fd) == {i \in DOMAIN queue : queue[i].op = "close" /\ queue[i].fd = fd}
HeldCloses(fd)   == {w \in Busy : holding[w].op = "close" /\ holding[w].fd = fd}

NoClose(fd)  == QueuedCloses(fd) = {} /\ HeldCloses(fd) = {}
OneClose(fd) ==
    \/ (\E i : QueuedCloses(fd) = {i}) /\ HeldCloses(fd) = {}
    \/ QueuedCloses(fd) = {} /\ (\E w : HeldCloses(fd) = {w})

\* An fd is free, registered, or about to be closed once.
FdInv ==
    \A fd \in FDs : IF fdc[fd] = None \/ fd \in interest THEN NoClose(fd)
                    ELSE OneClose(fd)

\* A close task still finds the connection it was made for.
TaskInv ==
    /\ \A i \in DOMAIN queue : queue[i].op = "close" => fdc[queue[i].fd] = queue[i].conn
    /\ \A w \in Busy : holding[w].op = "close" => fdc[holding[w].fd] = holding[w].conn

\* A batch has one event of an fd, which is registered and still the same
\* connection.
EventInv ==
    /\ \A fd \in interest : fdc[fd] # None
    /\ \A e \in events : e.err => e.fd # Listen
    /\ \A e, f \in events : e.fd = f.fd => e = f
    /\ EventsAreFresh

PoolServerInv == TypeOK /\ SocketsInv /\ FdInv /\ TaskInv /\ EventInv

-----------------------------------------------------------------------------
(* The queue and the workers' tasks.                                       *)

\* enqueue() of a task.
LEMMA SubmitEffect ==
    ASSUME TypeOK, NEW t \in Tasks, Pool!Submit(t)
    PROVE  /\ queue' \in Seq(Tasks) /\ Busy' = Busy
           /\ holding' = holding /\ open' = open /\ retired' = retired
           /\ \A fd : HeldCloses(fd)' = HeldCloses(fd)
           /\ \A fd : QueuedCloses(fd)' =
                QueuedCloses(fd) \cup
                IF t.op = "close" /\ t.fd = fd THEN {Len(queue) + 1} ELSE {}
           /\ \A i \in DOMAIN queue' : \/ i \in DOMAIN queue /\ queue'[i] = queue[i]
                                       \/ i = Len(queue) + 1 /\ queue'[i] = t
<1>1. /\ queue \in Seq(Tasks) /\ queue' = Append(queue, t)
      /\ holding' = holding /\ open' = open /\ retired' = retired
  BY DEF TypeOK, Pool!Submit
<1>2. /\ queue' \in Seq(Tasks)
      /\ \A i : i \in DOMAIN queue' <=> i \in DOMAIN queue \/ i = Len(queue) + 1
      /\ \A i \in DOMAIN queue : queue'[i] = queue[i]
      /\ queue'[Len(queue) + 1] = t
      /\ Len(queue) + 1 \notin DOMAIN queue
  BY <1>1
<1>3. Busy' = Busy /\ \A fd : HeldCloses(fd)' = HeldCloses(fd)
  BY <1>1 DEF Busy, HeldCloses
<1>4. \A fd : QueuedCloses(fd)' =
        QueuedCloses(fd) \cup
        IF t.op = "close" /\ t.fd = fd THEN {Len(queue) + 1} ELSE {}
  BY <1>2 DEF QueuedCloses
<1> QED BY <1>1, <1>2, <1>3, <1>4

\* A worker takes the oldest task.
LEMMA TakeEffect ==
    ASSUME TypeOK, NEW w \in Workers, Pool!Take(w)
    PROVE  /\ queue' \in Seq(Tasks) /\ holding' \in [Workers -> Tasks \cup {NoTask}]
           /\ open' = open /\ retired' = retired
           /\ Busy' = Busy \cup {w} /\ w \notin Busy
           /\ \A v \in Busy : holding'[v] = holding[v]
           /\ \A i \in DOMAIN queue' : i + 1 \in DOMAIN queue /\ queue'[i] = queue[i + 1]
           /\ 1 \in DOMAIN queue /\ holding'[w] = queue[1] /\ queue[1] \in Tasks
<1>1. /\ queue \in Seq(Tasks) /\ queue # <<>> /\ queue' = Tail(queue)
      /\ holding \in [Workers -> Tasks \cup {NoTask}]
      /\ holding' = [holding EXCEPT ![w] = Head(queue)]
      /\ holding[w] = NoTask /\ open' = open /\ retired' = retired
  BY DEF TypeOK, Pool!Take
<1>2. /\ Head(queue) = queue[1] /\ 1 \in DOMAIN queue /\ queue[1] \in Tasks
      /\ queue' \in Seq(Tasks)
      /\ \A i \in DOMAIN queue' : i + 1 \in DOMAIN queue /\ queue'[i] = queue[i + 1]
  BY <1>1
<1>3. Busy' = Busy \cup {w} /\ w \notin Busy
  BY <1>1, <1>2, PoolServerAssumption DEF Busy
<1> QED BY <1>1, <1>2, <1>3 DEF Busy

\* Taking a task moves it: there are as many close tasks as before.
LEMMA TakeMoves ==
    ASSUME TypeOK, NEW w \in Workers, Pool!Take(w), NEW fd
    PROVE  /\ NoClose(fd) => NoClose(fd)'
           /\ OneClose(fd) => OneClose(fd)'
<1>q. queue \in Seq(Tasks) /\ queue' = Tail(queue) /\ queue # <<>>
  BY DEF TypeOK, Pool!Take
<1>1. CASE 1 \in QueuedCloses(fd)
  <2>1. HeldCloses(fd)' = HeldCloses(fd) \cup {w}
    BY <1>1, TakeEffect DEF HeldCloses, QueuedCloses
  <2>2. \A i : QueuedCloses(fd) = {i} => i = 1 /\ QueuedCloses(fd)' = {}
    <3> SUFFICES ASSUME NEW i, QueuedCloses(fd) = {i}
                 PROVE  i = 1 /\ QueuedCloses(fd)' = {}
      OBVIOUS
    <3>1. i = 1
      BY <1>1
    <3>2. \A j \in QueuedCloses(fd)' : j + 1 \in QueuedCloses(fd) /\ j \in Nat \ {0}
      BY <1>q, TakeEffect DEF QueuedCloses
    <3> QED BY <3>1, <3>2
  <2> QED BY <1>1, <2>1, <2>2 DEF NoClose, OneClose
<1>2. CASE 1 \notin QueuedCloses(fd)
  <2>1. HeldCloses(fd)' = HeldCloses(fd)
    BY <1>2, TakeEffect DEF HeldCloses, QueuedCloses
  <2>2. \A j : j \in QueuedCloses(fd)' <=> j \in Nat \ {0} /\ j + 1 \in QueuedCloses(fd)
    BY <1>q DEF QueuedCloses
  <2>3. \A i \in QueuedCloses(fd) : i \in Nat \ {0, 1}
    BY <1>q, <1>2 DEF QueuedCloses
  <2>4. QueuedCloses(fd) = {} => QueuedCloses(fd)' = {}
    BY <2>2
  <2>5. \A i : QueuedCloses(fd) = {i} => QueuedCloses(fd)' = {i - 1}
    BY <2>2, <2>3
  <2> QED BY <2>1, <2>4, <2>5 DEF NoClose, OneClose
<1> QED BY <1>1, <1>2

\* A task is done.
LEMMA CompleteEffect ==
    ASSUME TypeOK, NEW w \in Workers, EndTask(w)
    PROVE  /\ holding' \in [Workers -> Tasks \cup {NoTask}]
           /\ written' \in [Workers -> 0..MaxBytes]
           /\ queue' = queue /\ open' = open /\ retired' = retired
           /\ w \in Busy /\ Busy' = Busy \ {w}
           /\ \A v \in Busy' : holding'[v] = holding[v]
           /\ \A fd : QueuedCloses(fd)' = QueuedCloses(fd)
           /\ \A fd : HeldCloses(fd)' = HeldCloses(fd) \ {w}
<1>1. /\ holding \in [Workers -> Tasks \cup {NoTask}]
      /\ holding' = [holding EXCEPT ![w] = NoTask] /\ holding[w] # NoTask
      /\ written \in [Workers -> 0..MaxBytes]
      /\ written' = [written EXCEPT ![w] = 0]
      /\ queue' = queue /\ open' = open /\ retired' = retired
  BY DEF TypeOK, EndTask, Pool!Complete
<1>2. Busy' = Busy \ {w} /\ w \in Busy
  BY <1>1 DEF Busy
<1>3. \A fd : QueuedCloses(fd)' = QueuedCloses(fd)
  BY <1>1 DEF QueuedCloses
<1>4. \A v \in Busy' : holding'[v] = holding[v]
  BY <1>1, <1>2 DEF Busy
<1>5. \A fd : HeldCloses(fd)' = HeldCloses(fd) \ {w}
  BY <1>2, <1>4 DEF HeldCloses
<1>6. written' \in [Workers -> 0..MaxBytes]
  BY <1>1, SocketsAssumption
<1> QED BY <1>1, <1>2, <1>3, <1>4, <1>5, <1>6

-----------------------------------------------------------------------------
(* The invariant.                                                          *)

LEMMA InitPoolServerInv == Init => PoolServerInv
<1> SUFFICES ASSUME Init PROVE PoolServerInv
  OBVIOUS
<1>1. SocketsInv
  BY InitSocketsInv DEF Init
<1>2. TypeOK
  BY <1>1, SocketsAssumption DEF Init, Pool!Init, SocketsInv, TypeOK
<1>3. Busy = {}
  BY DEF Init, Pool!Init, Busy
<1>4. FdInv /\ TaskInv
  BY <1>3 DEF Init, SocketsInit, Pool!Init, FdInv, TaskInv, NoClose, QueuedCloses,
              HeldCloses
<1>5. EventInv
  BY DEF Init, EventInv, EventsAreFresh
<1> QED BY <1>1, <1>2, <1>4, <1>5 DEF PoolServerInv

\* A step that opens and closes no fd, and enqueues and finishes no task.
LEMMA Frame ==
    ASSUME PoolServerInv, TypeOK', SocketsInv',
           fdc' = fdc, queue' = queue, holding' = holding,
           interest' = interest, events' \subseteq events
    PROVE  PoolServerInv'
<1>1. \A fd : QueuedCloses(fd)' = QueuedCloses(fd) /\ HeldCloses(fd)' = HeldCloses(fd)
  BY DEF QueuedCloses, HeldCloses, Busy
<1>2. FdInv'
  BY <1>1 DEF PoolServerInv, FdInv, NoClose, OneClose
<1>3. TaskInv'
  BY DEF PoolServerInv, TaskInv, Busy
<1>4. EventInv'
  BY DEF PoolServerInv, EventInv, EventsAreFresh
<1> QED BY <1>2, <1>3, <1>4 DEF PoolServerInv

\* Clients connect, send, read, hang up and reset at any time.
LEMMA EnvironmentKeeps ==
    ASSUME PoolServerInv, Environment
    PROVE  PoolServerInv'
<1> PICK c \in Clients : ClientStep(c) \/ Connect(c)
  BY DEF Environment
<1>1. SocketsInv' /\ fdc' = fdc
  BY ClientStepKeeps, ConnectKeeps DEF PoolServerInv, Connect
<1>2. UNCHANGED <<queue, holding, open, retired, written, interest, net, events, sig,
                  proc>>
  BY DEF Environment, serverVars, poolVars
<1>3. TypeOK'
  BY <1>1, <1>2 DEF PoolServerInv, TypeOK, SocketsInv
<1> QED BY <1>1, <1>2, <1>3, Frame

\* What a server may be told: registered fds and what they refer to, once each.
ReadyOK(ready) ==
    /\ ready \subseteq [fd : FDs \cup {Listen}, conn : Clients \cup {None},
                        err : BOOLEAN]
    /\ \A e \in ready : e.err => e.fd # Listen
    /\ \A e, f \in ready : e.fd = f.fd => e = f
    /\ \A e \in ready : e.fd # Listen => fdc[e.fd] = e.conn /\ e.fd \in interest

LEMMA WaitKeeps ==
    ASSUME PoolServerInv, NEW ready, ReadyOK(ready), Wait(ready)
    PROVE  PoolServerInv'
<1>1. /\ UNCHANGED <<queue, holding, open, retired, written, interest, sig, proc, fdc>>
      /\ events' \subseteq ready /\ net' = "events"
  BY DEF Wait, poolVars, sockVars
<1>2. SocketsInv'
  BY DEF PoolServerInv, SocketsInv, SocketsTypeOK, OnePlace, Wait, sockVars, streamVars
<1>3. TypeOK'
  BY <1>1, <1>2 DEF PoolServerInv, TypeOK, SocketsInv, ReadyOK
<1>4. \A fd : QueuedCloses(fd)' = QueuedCloses(fd) /\ HeldCloses(fd)' = HeldCloses(fd)
  BY <1>1 DEF QueuedCloses, HeldCloses, Busy
<1>5. FdInv' /\ TaskInv'
  BY <1>1, <1>4 DEF PoolServerInv, FdInv, NoClose, OneClose, TaskInv, Busy
<1>6. EventInv'
  BY <1>1 DEF PoolServerInv, EventInv, EventsAreFresh, ReadyOK
<1> QED BY <1>2, <1>3, <1>5, <1>6 DEF PoolServerInv

\* The steps of the network thread and the signal handler that only move on.
LEMMA LoopKeeps ==
    ASSUME PoolServerInv,
           \/ EventsDone \/ LeaveLoop \/ AcceptDone \/ Signal \/ StopReturns
           \/ \E e \in events : HandleListen(e)
    PROVE  PoolServerInv'
<1>1. /\ UNCHANGED <<sockVars, queue, holding, retired, written, interest>>
      /\ events' \subseteq events
      /\ open' \in BOOLEAN
      /\ net' \in {"wait", "events", "accept", "exit"}
      /\ sig' \in {"none", "stop", "done"}
      /\ proc' \in {"up", "exited", "killed"}
  BY DEF PoolServerInv, TypeOK, EventsDone, LeaveLoop, AcceptDone, Signal, StopReturns,
         HandleListen, Handling, poolVars, Pool!Close
<1>2. SocketsInv' /\ fdc' = fdc
  BY <1>1 DEF PoolServerInv, SocketsInv, SocketsTypeOK, OnePlace, sockVars, streamVars
<1>3. TypeOK'
  BY <1>1, <1>2 DEF PoolServerInv, TypeOK, SocketsInv
<1> QED BY <1>1, <1>2, <1>3, Frame

\* An event of a client that the loop still has is about an open, registered fd.
LEMMA ClientEvent ==
    ASSUME PoolServerInv, NEW e \in events, e.fd # Listen
    PROVE  /\ e.fd \in FDs /\ e.fd \in interest
           /\ fdc[e.fd] \in Clients /\ fdc[e.fd] = e.conn
           /\ \A f \in events \ {e} : f.fd # e.fd
           /\ NoClose(e.fd)
BY DEF PoolServerInv, TypeOK, SocketsInv, SocketsTypeOK, EventInv, EventsAreFresh, FdInv

\* handle_read() enqueues an echo.
LEMMA ReadDataKeeps ==
    ASSUME PoolServerInv, NEW e \in events, ReadData(e)
    PROVE  PoolServerInv'
<1> DEFINE c == fdc[e.fd]
           t == EchoTask(e.fd, c, rcvd[c], ChunkEnd(c))
<1>1. /\ ReadChunk(c) /\ Pool!Submit(t) /\ e.fd # Listen
      /\ events' = events \ {e}
      /\ UNCHANGED <<interest, net, written, sig, proc>>
  BY DEF ReadData, Handling, Client
<1>2. e.fd \in FDs /\ c \in Clients
  BY <1>1, ClientEvent
<1>3. SocketsInv' /\ fdc' = fdc /\ ChunkEnd(c) \in 0..MaxBytes /\ rcvd[c] \in 0..MaxBytes
  <2>1. SocketsInv /\ ReadChunk(c)
    BY <1>1 DEF PoolServerInv
  <2>2. /\ SocketsInv'
        /\ ChunkEnd(c) \in 1..MaxBytes
        /\ fdc' = fdc
    BY <1>2, <2>1, ReadChunkKeeps
  <2>3. rcvd \in [Clients -> 0..MaxBytes]
    BY <2>1 DEF SocketsInv, SocketsTypeOK
  <2>4. rcvd[c] \in 0..MaxBytes
    BY <1>2, <2>3
  <2>5. ChunkEnd(c) \in 0..MaxBytes
    BY <2>2, SocketsAssumption
  <2> QED BY <2>2, <2>4, <2>5
<1>4. t \in Tasks /\ t.op = "echo"
  BY <1>2, <1>3 DEF EchoTask, Tasks
<1> HIDE DEF t, c
<1>5. TypeOK
  BY DEF PoolServerInv
<1>6. TypeOK'
  BY <1>1, <1>3, <1>4, <1>5, SubmitEffect DEF TypeOK, SocketsInv
<1>7. \A fd : QueuedCloses(fd)' = QueuedCloses(fd) /\ HeldCloses(fd)' = HeldCloses(fd)
  <2>1. /\ \A fd : HeldCloses(fd)' = HeldCloses(fd)
        /\ \A fd : QueuedCloses(fd)' =
             QueuedCloses(fd) \cup
             IF t.op = "close" /\ t.fd = fd THEN {Len(queue) + 1} ELSE {}
    BY <1>1, <1>4, <1>5, SubmitEffect
  <2> QED BY <1>4, <2>1
<1>8. FdInv'
  BY <1>1, <1>3, <1>7 DEF PoolServerInv, FdInv, NoClose, OneClose
<1>9. TaskInv'
  BY <1>1, <1>3, <1>4, <1>5, SubmitEffect DEF PoolServerInv, TaskInv
<1>10. EventInv'
  BY <1>1, <1>3 DEF PoolServerInv, EventInv, EventsAreFresh
<1> QED BY <1>3, <1>6, <1>8, <1>9, <1>10 DEF PoolServerInv

\* handle_read() takes the fd out of epoll or kqueue and enqueues the only close.
LEMMA ReadHangUpKeeps ==
    ASSUME PoolServerInv, NEW e \in events, ReadHangUp(e)
    PROVE  PoolServerInv'
<1> DEFINE c == fdc[e.fd]
           t == CloseTask(e.fd, c)
<1>1. /\ ReadEnd(c) /\ Pool!Submit(t) /\ e.fd # Listen
      /\ events' = events \ {e}
      /\ interest' = interest \ {e.fd}
      /\ UNCHANGED <<net, written, sig, proc>>
  BY DEF ReadHangUp, Handling, Client
<1>2. /\ e.fd \in FDs /\ c \in Clients /\ NoClose(e.fd) /\ e.fd \in interest
      /\ \A f \in events \ {e} : f.fd # e.fd
  BY <1>1, ClientEvent
<1>3. SocketsInv' /\ fdc' = fdc
  BY <1>1, <1>2, ReadEndKeeps DEF PoolServerInv
<1>4. t \in Tasks /\ t.op = "close" /\ t.fd = e.fd /\ t.conn = fdc[e.fd]
  BY <1>2, SocketsAssumption DEF CloseTask, Tasks
<1> HIDE DEF t, c
<1>5. TypeOK
  BY DEF PoolServerInv
<1>6. TypeOK'
  BY <1>1, <1>3, <1>4, <1>5, SubmitEffect DEF TypeOK, SocketsInv
<1>7. /\ \A fd : HeldCloses(fd)' = HeldCloses(fd)
      /\ \A fd : fd # e.fd => QueuedCloses(fd)' = QueuedCloses(fd)
      /\ QueuedCloses(e.fd)' = {Len(queue) + 1}
  <2>1. /\ \A fd : HeldCloses(fd)' = HeldCloses(fd)
        /\ \A fd : QueuedCloses(fd)' =
             QueuedCloses(fd) \cup
             IF t.op = "close" /\ t.fd = fd THEN {Len(queue) + 1} ELSE {}
    BY <1>1, <1>4, <1>5, SubmitEffect
  <2> QED BY <1>2, <1>4, <2>1 DEF NoClose
<1>8. FdInv'
  <2>1. OneClose(e.fd)'
    BY <1>2, <1>7 DEF OneClose, NoClose
  <2>2. fdc'[e.fd] # None
    BY <1>2, <1>3, SocketsAssumption DEF c
  <2> QED BY <1>1, <1>3, <1>7, <2>1, <2>2 DEF PoolServerInv, FdInv, NoClose, OneClose
<1>9. TaskInv'
  BY <1>1, <1>3, <1>4, <1>5, SubmitEffect DEF PoolServerInv, TaskInv
<1>10. EventInv'
  BY <1>1, <1>2, <1>3 DEF PoolServerInv, EventInv, EventsAreFresh
<1> QED BY <1>3, <1>6, <1>8, <1>9, <1>10 DEF PoolServerInv

\* accept_connection() registers an fd that was free.
LEMMA AcceptConnectionKeeps ==
    ASSUME PoolServerInv, Accept
    PROVE  PoolServerInv'
<1>1. UNCHANGED <<queue, holding, open, retired, written, net, events, sig, proc>>
  BY DEF Accept, poolVars
<1>2. CASE AcceptAndDrop /\ interest' = interest
  <2>1. SocketsInv' /\ fdc' = fdc
    BY <1>2, AcceptAndDropKeeps DEF PoolServerInv
  <2>2. TypeOK'
    BY <1>1, <1>2, <2>1 DEF PoolServerInv, TypeOK, SocketsInv
  <2> QED BY <1>1, <1>2, <2>1, <2>2, Frame
<1>3. ASSUME NEW fd \in FDs, AcceptOn(fd), interest' = interest \cup {fd}
      PROVE  PoolServerInv'
  <2>1. /\ SocketsInv' /\ fdc' = [fdc EXCEPT ![fd] = Head(backlog)]
        /\ Head(backlog) \in Clients /\ fdc[fd] = None
    BY <1>3, AcceptKeeps DEF PoolServerInv
  <2>2. TypeOK'
    BY <1>1, <1>3, <2>1 DEF PoolServerInv, TypeOK, SocketsInv
  <2>3. fdc \in [FDs -> Clients \cup {None}]
    BY DEF PoolServerInv, SocketsInv, SocketsTypeOK
  <2>4. \A g : QueuedCloses(g)' = QueuedCloses(g) /\ HeldCloses(g)' = HeldCloses(g)
    BY <1>1 DEF QueuedCloses, HeldCloses, Busy
  <2>5. NoClose(fd)
    BY <2>1 DEF PoolServerInv, FdInv
  <2>6. FdInv'
    BY <1>3, <2>1, <2>3, <2>4, <2>5 DEF PoolServerInv, FdInv, NoClose, OneClose
  <2>7. TaskInv'
    <3>1. \A i \in DOMAIN queue : queue[i].op = "close" =>
             queue[i].fd \in FDs \ {fd}
      <4>1. \A i \in DOMAIN queue : queue[i] \in Tasks
        BY DEF PoolServerInv, TypeOK
      <4> QED BY <2>5, <4>1 DEF NoClose, QueuedCloses, Tasks
    <3>2. \A w \in Busy : holding[w].op = "close" => holding[w].fd \in FDs \ {fd}
      <4>1. \A w \in Busy : holding[w] \in Tasks
        BY DEF PoolServerInv, TypeOK, Busy
      <4> QED BY <2>5, <4>1 DEF NoClose, HeldCloses, Tasks
    <3> QED BY <1>1, <2>1, <2>3, <3>1, <3>2 DEF PoolServerInv, TaskInv, Busy
  <2>8. EventInv'
    <3>1. \A f \in interest : f \in FDs /\ f # fd
      BY <2>1 DEF PoolServerInv, EventInv, TypeOK
    <3>2. Head(backlog) # None
      BY <2>1, SocketsAssumption
    <3> QED BY <1>1, <1>3, <2>1, <2>3, <3>1, <3>2
            DEF PoolServerInv, EventInv, EventsAreFresh
  <2> QED BY <2>1, <2>2, <2>6, <2>7, <2>8 DEF PoolServerInv
<1>4. \/ AcceptAndDrop /\ interest' = interest
      \/ \E fd \in FDs : AcceptOn(fd) /\ interest' = interest \cup {fd}
  BY DEF Accept
<1> QED BY <1>2, <1>3, <1>4

-----------------------------------------------------------------------------
(* The workers.                                                            *)

\* A worker takes a task, or returns from worker_loop().
LEMMA TakeTaskKeeps ==
    ASSUME PoolServerInv, NEW w \in Workers, TakeTask(w) \/ RetireWorker(w)
    PROVE  PoolServerInv'
<1>1. UNCHANGED <<sockVars, written, interest, net, events, sig, proc>>
  BY DEF TakeTask, RetireWorker
<1>2. SocketsInv' /\ fdc' = fdc
  BY <1>1 DEF PoolServerInv, SocketsInv, SocketsTypeOK, OnePlace, sockVars, streamVars
<1>3. TypeOK
  BY DEF PoolServerInv
<1>4. CASE RetireWorker(w)
  <2>1. UNCHANGED <<queue, holding, open>> /\ retired' = retired \cup {w}
    BY <1>4 DEF RetireWorker, Pool!Retire
  <2>2. TypeOK'
    BY <1>1, <1>2, <1>3, <2>1 DEF TypeOK, SocketsInv
  <2> QED BY <1>1, <1>2, <2>1, <2>2, Frame
<1>5. CASE TakeTask(w)
  <2>1. Pool!Take(w)
    BY <1>5 DEF TakeTask
  <2>2. /\ queue' \in Seq(Tasks) /\ holding' \in [Workers -> Tasks \cup {NoTask}]
        /\ open' = open /\ retired' = retired
        /\ Busy' = Busy \cup {w} /\ w \notin Busy
        /\ \A v \in Busy : holding'[v] = holding[v]
        /\ \A i \in DOMAIN queue' : i + 1 \in DOMAIN queue /\ queue'[i] = queue[i + 1]
        /\ 1 \in DOMAIN queue /\ holding'[w] = queue[1]
    BY <1>3, <2>1, TakeEffect
  <2>3. TypeOK'
    BY <1>1, <1>2, <1>3, <2>2 DEF TypeOK, SocketsInv
  <2>4. \A fd : (NoClose(fd) => NoClose(fd)') /\ (OneClose(fd) => OneClose(fd)')
    BY <1>3, <2>1, TakeMoves
  <2>5. FdInv'
    BY <1>1, <1>2, <2>4 DEF PoolServerInv, FdInv
  <2>6. TaskInv'
    BY <1>2, <2>2 DEF PoolServerInv, TaskInv
  <2>7. EventInv'
    BY <1>1, <1>2 DEF PoolServerInv, EventInv, EventsAreFresh
  <2> QED BY <1>2, <2>3, <2>5, <2>6, <2>7 DEF PoolServerInv
<1> QED BY <1>4, <1>5

\* A busy worker's task is a task.
LEMMA HeldTask ==
    ASSUME TypeOK, NEW w \in Workers, NEW op, Runs(w, op)
    PROVE  w \in Busy /\ holding[w] \in Tasks /\ holding[w].op = op
BY DEF TypeOK, Runs, Busy

\* The write loop goes on, or SIGPIPE ends the process.
LEMMA WriteKeeps ==
    ASSUME PoolServerInv, NEW w \in Workers, Write(w) \/ WriteKills(w)
    PROVE  PoolServerInv'
<1>1. UNCHANGED <<queue, holding, open, retired, interest, net, events, sig>>
  BY DEF Write, WriteKills, poolVars
<1>2. CASE WriteKills(w)
  <2>1. UNCHANGED <<sockVars, written>> /\ proc' = "killed"
    BY <1>2 DEF WriteKills
  <2>2. SocketsInv' /\ fdc' = fdc
    BY <2>1 DEF PoolServerInv, SocketsInv, SocketsTypeOK, OnePlace, sockVars, streamVars
  <2>3. TypeOK'
    BY <1>1, <2>1, <2>2 DEF PoolServerInv, TypeOK, SocketsInv
  <2> QED BY <1>1, <2>2, <2>3, Frame
<1>3. CASE Write(w)
  <2> DEFINE t  == holding[w]
             at == t.from + written[w]
             d  == fdc[t.fd]
  <2>1. PICK n \in at + 1 .. t.to :
           /\ WriteBytes(d, Bytes(t.conn, at, n))
           /\ written' = [written EXCEPT ![w] = n - t.from]
    BY <1>3 DEF Write
  <2>2. t \in Tasks /\ d # None /\ proc' = proc
    BY <1>3, HeldTask DEF Write, Unfinished, PoolServerInv
  <2>3. /\ t.from \in 0..MaxBytes /\ t.to \in 0..MaxBytes /\ t.conn \in Clients
        /\ t.fd \in FDs /\ written[w] \in 0..MaxBytes
        /\ written \in [Workers -> 0..MaxBytes] /\ d \in Clients
    BY <2>2 DEF Tasks, PoolServerInv, TypeOK, SocketsTypeOK
  <2> HIDE DEF t, d
  <2>4. at \in Nat /\ n \in at..MaxBytes /\ n - t.from \in 0..MaxBytes
    BY <2>3, SocketsAssumption
  <2>5. Bytes(t.conn, at, n) \in Seq(Clients \X (1..MaxBytes))
    BY <2>3, <2>4, BytesType
  <2>6. SocketsInv' /\ fdc' = fdc
    BY <2>1, <2>3, <2>5, WriteBytesKeeps DEF PoolServerInv
  <2>7. written' \in [Workers -> 0..MaxBytes]
    BY <2>1, <2>3, <2>4
  <2>8. TypeOK'
    BY <1>1, <2>2, <2>6, <2>7 DEF PoolServerInv, TypeOK, SocketsInv
  <2> QED BY <1>1, <2>6, <2>8, Frame
<1> QED BY <1>2, <1>3

\* An echo task ends: its bytes are written, or a write failed.
LEMMA EchoEndKeeps ==
    ASSUME PoolServerInv, NEW w \in Workers, WriteFails(w) \/ EchoDone(w)
    PROVE  PoolServerInv'
<1>1. /\ Runs(w, "echo") /\ EndTask(w)
      /\ UNCHANGED <<interest, net, events, sig, proc>>
  BY DEF WriteFails, EchoDone, Unfinished, EndTask
<1>2. holding[w].op = "echo" /\ holding[w].fd \in FDs
  BY <1>1, HeldTask DEF PoolServerInv, Tasks
<1>3. SocketsInv' /\ fdc' = fdc
  <2>1. CASE UNCHANGED sockVars
    BY <2>1 DEF PoolServerInv, SocketsInv, SocketsTypeOK, OnePlace, sockVars, streamVars
  <2>2. CASE WriteReset(fdc[holding[w].fd]) /\ fdc[holding[w].fd] # None
    <3>1. fdc[holding[w].fd] \in Clients
      BY <1>2, <2>2 DEF PoolServerInv, SocketsInv, SocketsTypeOK
    <3> QED BY <2>2, <3>1, WriteResetKeeps DEF PoolServerInv
  <2> QED BY <2>1, <2>2 DEF WriteFails, EchoDone
<1>4. /\ holding' \in [Workers -> Tasks \cup {NoTask}]
      /\ written' \in [Workers -> 0..MaxBytes]
      /\ queue' = queue /\ open' = open /\ retired' = retired
      /\ Busy' = Busy \ {w}
      /\ \A v \in Busy' : holding'[v] = holding[v]
      /\ \A fd : QueuedCloses(fd)' = QueuedCloses(fd)
      /\ \A fd : HeldCloses(fd)' = HeldCloses(fd) \ {w}
  BY <1>1, CompleteEffect DEF PoolServerInv
<1>5. TypeOK'
  BY <1>1, <1>3, <1>4 DEF PoolServerInv, TypeOK, SocketsInv
<1>6. \A fd : HeldCloses(fd)' = HeldCloses(fd)
  <2>1. \A fd : w \notin HeldCloses(fd)
    BY <1>2 DEF HeldCloses
  <2> QED BY <1>4, <2>1
<1>7. FdInv'
  BY <1>1, <1>3, <1>4, <1>6 DEF PoolServerInv, FdInv, NoClose, OneClose
<1>8. TaskInv'
  BY <1>3, <1>4 DEF PoolServerInv, TaskInv
<1>9. EventInv'
  BY <1>1, <1>3 DEF PoolServerInv, EventInv, EventsAreFresh
<1> QED BY <1>3, <1>5, <1>7, <1>8, <1>9 DEF PoolServerInv

\* The close task is the only one of its fd, and closes its own connection.
LEMMA CloseTaskKeeps ==
    ASSUME PoolServerInv, NEW w \in Workers, Close(w)
    PROVE  PoolServerInv'
<1> PICK fd : fd = holding[w].fd
  OBVIOUS
<1>1. /\ Runs(w, "close") /\ EndTask(w) /\ CloseFd(fd)
      /\ interest' = interest \ {fd}
      /\ UNCHANGED <<net, events, sig, proc>>
  BY DEF Close, EndTask
<1>2. /\ w \in Busy /\ fd \in FDs /\ w \in HeldCloses(fd)
      /\ \A g : g # fd => w \notin HeldCloses(g)
  BY <1>1, HeldTask DEF PoolServerInv, Tasks, HeldCloses
<1>3. /\ HeldCloses(fd) = {w} /\ QueuedCloses(fd) = {}
      /\ fdc[fd] # None /\ fd \notin interest
  BY <1>2 DEF PoolServerInv, FdInv, NoClose, OneClose
<1>4. /\ SocketsInv' /\ fdc' = [fdc EXCEPT ![fd] = None]
      /\ fdc \in [FDs -> Clients \cup {None}]
  BY <1>1, <1>2, CloseKeeps DEF PoolServerInv, SocketsInv, SocketsTypeOK
<1>5. /\ holding' \in [Workers -> Tasks \cup {NoTask}]
      /\ written' \in [Workers -> 0..MaxBytes]
      /\ queue' = queue /\ open' = open /\ retired' = retired
      /\ Busy' = Busy \ {w}
      /\ \A v \in Busy' : holding'[v] = holding[v]
      /\ \A g : QueuedCloses(g)' = QueuedCloses(g)
      /\ \A g : HeldCloses(g)' = HeldCloses(g) \ {w}
  BY <1>1, CompleteEffect DEF PoolServerInv
<1>6. TypeOK'
  BY <1>1, <1>4, <1>5 DEF PoolServerInv, TypeOK, SocketsInv
<1>7. FdInv'
  <2>1. NoClose(fd)' /\ fdc'[fd] = None
    BY <1>2, <1>3, <1>4, <1>5 DEF NoClose
  <2>2. \A g \in FDs : g # fd => /\ QueuedCloses(g)' = QueuedCloses(g)
                                 /\ HeldCloses(g)' = HeldCloses(g)
                                 /\ fdc'[g] = fdc[g]
    BY <1>2, <1>4, <1>5
  <2>3. ASSUME NEW g \in FDs, g # fd
        PROVE  IF fdc'[g] = None \/ g \in interest' THEN NoClose(g)' ELSE OneClose(g)'
    <3>1. IF fdc[g] = None \/ g \in interest THEN NoClose(g) ELSE OneClose(g)
      BY DEF PoolServerInv, FdInv
    <3>2. g \in interest' <=> g \in interest
      BY <1>1, <2>3
    <3> QED BY <2>2, <2>3, <3>1, <3>2 DEF NoClose, OneClose
  <2> QED BY <2>1, <2>3 DEF FdInv
<1>8. TaskInv'
  <2>1. \A i \in DOMAIN queue : queue[i].op = "close" => queue[i].fd \in FDs \ {fd}
    <3>1. \A i \in DOMAIN queue : queue[i] \in Tasks
      BY DEF PoolServerInv, TypeOK
    <3> QED BY <1>3, <3>1 DEF QueuedCloses, Tasks
  <2>2. \A v \in Busy \ {w} : holding[v].op = "close" => holding[v].fd \in FDs \ {fd}
    <3>1. \A v \in Busy : holding[v] \in Tasks
      BY DEF PoolServerInv, TypeOK, Busy
    <3> QED BY <1>3, <3>1 DEF HeldCloses, Tasks
  <2> QED BY <1>4, <1>5, <2>1, <2>2 DEF PoolServerInv, TaskInv
<1>9. EventInv'
  BY <1>1, <1>3, <1>4 DEF PoolServerInv, EventInv, EventsAreFresh, TypeOK
<1> QED BY <1>4, <1>6, <1>7, <1>8, <1>9 DEF PoolServerInv

\* A step of a worker.
LEMMA WorkerKeeps ==
    ASSUME PoolServerInv, NEW w \in Workers, WorkerStep(w)
    PROVE  PoolServerInv'
BY TakeTaskKeeps, WriteKeeps, EchoEndKeeps, CloseTaskKeeps DEF WorkerStep, RunTask

\* A step without effect.
LEMMA StutterKeeps ==
    ASSUME PoolServerInv, UNCHANGED vars
    PROVE  PoolServerInv'
<1>1. UNCHANGED <<client, sent, rcvd, echo, unread, sock, backlog, fdc, queue, holding,
                  open, retired, written, interest, net, events, sig, proc>>
  BY DEF vars, sockVars, streamVars, serverVars, poolVars
<1>2. SocketsInv'
  BY <1>1 DEF PoolServerInv, SocketsInv, SocketsTypeOK, OnePlace
<1>3. TypeOK'
  BY <1>1, <1>2 DEF PoolServerInv, TypeOK, SocketsInv
<1> QED BY <1>1, <1>2, <1>3, Frame

-----------------------------------------------------------------------------
(* The bytes: where the tasks are in the streams, and what is echoed.      *)

QueuedEchoes == {i \in DOMAIN queue : queue[i].op = "echo"}
HeldEchoes   == {w \in Busy : holding[w].op = "echo"}

\* Where the write loop of a worker is.
At(w) == holding[w].from + written[w]

\* The bytes of task t after position from.
Covers(t, from, b) == t.conn = b[1] /\ from < b[2] /\ b[2] <= t.to

\* An echo task is about bytes that were read.
ReadInv ==
    /\ \A i \in QueuedEchoes : /\ queue[i].from <= queue[i].to
                               /\ queue[i].to <= rcvd[queue[i].conn]
    /\ \A w \in HeldEchoes : /\ At(w) <= holding[w].to
                             /\ holding[w].to <= rcvd[holding[w].conn]
    /\ \A w \in Workers : w \notin Busy => written[w] = 0

\* No two echo tasks are about the same byte: they were made in the order of the
\* stream, and the queue keeps it.
DisjointInv ==
    /\ \A i, j \in QueuedEchoes :
          i < j /\ queue[i].conn = queue[j].conn => queue[i].to <= queue[j].from
    /\ \A w \in HeldEchoes, j \in QueuedEchoes :
          holding[w].conn = queue[j].conn => holding[w].to <= queue[j].from
    /\ \A v, w \in HeldEchoes :
          v # w /\ holding[v].conn = holding[w].conn =>
             holding[v].to <= At(w) \/ holding[w].to <= At(v)

\* What is echoed was read, is in no task any more, and is echoed once.
EchoedInv ==
    /\ \A d \in Clients : \A k \in DOMAIN echo[d] :
          /\ echo[d][k][2] <= rcvd[echo[d][k][1]]
          /\ \A i \in QueuedEchoes : ~Covers(queue[i], queue[i].from, echo[d][k])
          /\ \A w \in HeldEchoes : ~Covers(holding[w], At(w), echo[d][k])
    /\ \A d, f \in Clients : \A k \in DOMAIN echo[d], l \in DOMAIN echo[f] :
          echo[d][k] = echo[f][l] => d = f /\ k = l

ByteInv == ReadInv /\ DisjointInv /\ EchoedInv

LEMMA InitByteInv == Init => ByteInv
<1> SUFFICES ASSUME Init PROVE ByteInv
  OBVIOUS
<1>1. QueuedEchoes = {} /\ HeldEchoes = {}
  BY DEF Init, Pool!Init, QueuedEchoes, HeldEchoes, Busy
<1>2. \A d \in Clients : DOMAIN echo[d] = {}
  BY DEF Init, SocketsInit
<1> QED BY <1>1, <1>2 DEF Init, ByteInv, ReadInv, DisjointInv, EchoedInv

\* A step that reads and writes no byte, and may enqueue a close task.
LEMMA ByteFrame ==
    ASSUME ByteInv, UNCHANGED <<rcvd, echo, holding, written>>,
           \A i \in QueuedEchoes' : i \in QueuedEchoes /\ queue'[i] = queue[i]
    PROVE  ByteInv'
<1>1. HeldEchoes' = HeldEchoes /\ Busy' = Busy /\ \A w : At(w)' = At(w)
  BY DEF HeldEchoes, Busy, At
<1>2. ReadInv'
  BY <1>1 DEF ByteInv, ReadInv
<1>3. DisjointInv'
  BY <1>1 DEF ByteInv, DisjointInv
<1>4. EchoedInv'
  BY <1>1 DEF ByteInv, EchoedInv, Covers
<1> QED BY <1>2, <1>3, <1>4 DEF ByteInv

\* The types of the positions.
LEMMA ByteTypes ==
    ASSUME TypeOK
    PROVE  /\ \A i \in QueuedEchoes : /\ queue[i] \in Tasks /\ queue[i].conn \in Clients
                                      /\ queue[i].from \in Nat /\ queue[i].to \in Nat
                                      /\ i \in 1..Len(queue)
           /\ \A w \in HeldEchoes : /\ w \in Workers /\ w \in Busy /\ holding[w] \in Tasks
                                    /\ holding[w].conn \in Clients
                                    /\ holding[w].from \in Nat /\ holding[w].to \in Nat
                                    /\ written[w] \in Nat /\ At(w) \in Nat
           /\ \A c \in Clients : rcvd[c] \in Nat
           /\ \A d \in Clients : \A k \in DOMAIN echo[d] :
                 echo[d][k][1] \in Clients /\ echo[d][k][2] \in Nat
<1>1. MaxBytes \in Nat
  BY SocketsAssumption
<1>2. \A t \in Tasks : t.conn \in Clients /\ t.from \in Nat /\ t.to \in Nat
  BY <1>1 DEF Tasks
<1>3. \A i \in QueuedEchoes : queue[i] \in Tasks /\ i \in 1..Len(queue)
  BY DEF TypeOK, QueuedEchoes
<1>4. \A w \in HeldEchoes : w \in Workers /\ w \in Busy /\ holding[w] \in Tasks
  BY DEF TypeOK, HeldEchoes, Busy
<1>5. \A w \in Workers : written[w] \in Nat
  BY <1>1 DEF TypeOK
<1>6. \A c \in Clients : rcvd[c] \in Nat
  BY <1>1 DEF TypeOK, SocketsTypeOK
<1>7. ASSUME NEW d \in Clients, NEW k \in DOMAIN echo[d]
      PROVE  echo[d][k][1] \in Clients /\ echo[d][k][2] \in Nat
  <2>1. echo[d] \in Seq(Clients \X (1..MaxBytes))
    BY DEF TypeOK, SocketsTypeOK
  <2>2. echo[d][k] \in Clients \X (1..MaxBytes)
    BY <2>1
  <2> QED BY <1>1, <2>2
<1>8. \A w \in HeldEchoes : At(w) \in Nat
  BY <1>2, <1>4, <1>5 DEF At
<1> QED BY <1>2, <1>3, <1>4, <1>5, <1>6, <1>7, <1>8

\* handle_read(): the new task has the bytes after all that were read before.
LEMMA ReadDataBytes ==
    ASSUME PoolServerInv, ByteInv, NEW e \in events, ReadData(e)
    PROVE  ByteInv'
<1>1. PICK c \in Clients, a \in Nat, z \in Nat, t \in Tasks, n \in Nat :
        /\ a = rcvd[c] /\ z = ChunkEnd(c) /\ a <= z /\ n = Len(queue)
        /\ t.op = "echo" /\ t.conn = c /\ t.from = a /\ t.to = z
        /\ Pool!Submit(t) /\ ReadChunk(c)
  <2> DEFINE c == fdc[e.fd]
             t == EchoTask(e.fd, c, rcvd[c], ChunkEnd(c))
  <2>1. /\ ReadChunk(c) /\ Pool!Submit(t) /\ e.fd # Listen
    BY DEF ReadData, Client
  <2>2. e.fd \in FDs /\ c \in Clients
    BY <2>1, ClientEvent
  <2>3. rcvd[c] \in 0..MaxBytes /\ sent[c] \in 0..MaxBytes /\ rcvd[c] < sent[c]
    BY <2>1, <2>2 DEF PoolServerInv, TypeOK, SocketsTypeOK, ReadChunk, HasBytes
  <2>4. ChunkEnd(c) \in 0..MaxBytes /\ rcvd[c] <= ChunkEnd(c)
    BY <2>3, SocketsAssumption DEF ChunkEnd
  <2>5. t \in Tasks /\ t.op = "echo" /\ t.conn = c /\ t.from = rcvd[c] /\ t.to = ChunkEnd(c)
    BY <2>2, <2>3, <2>4 DEF EchoTask, Tasks
  <2>6. rcvd[c] \in Nat /\ ChunkEnd(c) \in Nat
    BY <2>3, <2>4, SocketsAssumption
  <2>7. Len(queue) \in Nat
    BY DEF PoolServerInv, TypeOK
  <2> QED BY <2>1, <2>2, <2>4, <2>5, <2>6, <2>7
<1>2. TypeOK /\ ReadInv /\ DisjointInv /\ EchoedInv
  BY DEF PoolServerInv, ByteInv
<1>3. /\ holding' = holding /\ written' = written /\ echo' = echo
      /\ rcvd' = [rcvd EXCEPT ![c] = z] /\ rcvd \in [Clients -> 0..MaxBytes]
  BY <1>1, <1>2 DEF ReadData, Handling, ReadChunk, Pool!Submit, TypeOK, SocketsTypeOK
<1>4. /\ \A i \in QueuedEchoes' : \/ i \in QueuedEchoes /\ queue'[i] = queue[i]
                                  \/ i = n + 1 /\ queue'[i] = t
      /\ \A i \in QueuedEchoes : i <= n
  <2>1. \A i \in DOMAIN queue' : \/ i \in DOMAIN queue /\ queue'[i] = queue[i]
                                 \/ i = n + 1 /\ queue'[i] = t
    BY <1>1, <1>2, SubmitEffect
  <2> QED BY <1>1, <1>2, <2>1, ByteTypes DEF QueuedEchoes
<1>5. HeldEchoes' = HeldEchoes /\ Busy' = Busy /\ \A w : At(w)' = At(w)
  BY <1>3 DEF HeldEchoes, Busy, At
<1>6. rcvd'[c] = z /\ \A d \in Clients : rcvd[d] \in Nat /\ rcvd'[d] \in Nat /\ rcvd[d] <= rcvd'[d]
  <2>1. rcvd'[c] = z /\ \A d \in Clients \ {c} : rcvd'[d] = rcvd[d]
    BY <1>1, <1>3
  <2>2. \A d \in Clients : rcvd[d] \in Nat
    BY <1>2, ByteTypes
  <2>3. \A d \in Clients : rcvd[d] <= rcvd'[d] /\ rcvd'[d] \in Nat
    BY <1>1, <2>1, <2>2
  <2> QED BY <2>1, <2>2, <2>3
<1>7. ReadInv'
  <2>1. ASSUME NEW i \in QueuedEchoes'
        PROVE  queue'[i].from <= queue'[i].to /\ queue'[i].to <= rcvd'[queue'[i].conn]
    <3>1. CASE i = n + 1 /\ queue'[i] = t
      BY <1>1, <1>6, <3>1
    <3>2. CASE i \in QueuedEchoes /\ queue'[i] = queue[i]
      <4>1. /\ queue[i].conn \in Clients /\ queue[i].to \in Nat
            /\ queue[i].from <= queue[i].to /\ queue[i].to <= rcvd[queue[i].conn]
        BY <1>2, <3>2, ByteTypes DEF ReadInv
      <4> QED BY <1>6, <3>2, <4>1
    <3> QED BY <1>4, <3>1, <3>2
  <2>2. ASSUME NEW w \in HeldEchoes
        PROVE  At(w) <= holding[w].to /\ holding[w].to <= rcvd'[holding[w].conn]
    <3>1. /\ holding[w].conn \in Clients /\ holding[w].to \in Nat
          /\ At(w) <= holding[w].to /\ holding[w].to <= rcvd[holding[w].conn]
      BY <1>2, ByteTypes DEF ReadInv
    <3> QED BY <1>6, <3>1
  <2>3. \A w \in Workers : w \notin Busy' => written'[w] = 0
    BY <1>2, <1>3, <1>5 DEF ReadInv
  <2> QED BY <1>3, <1>5, <2>1, <2>2, <2>3 DEF ReadInv
<1>8. DisjointInv'
  <2>1. ASSUME NEW i \in QueuedEchoes', NEW j \in QueuedEchoes', i < j,
               queue'[i].conn = queue'[j].conn
        PROVE  queue'[i].to <= queue'[j].from
    <3>1. i \in QueuedEchoes /\ queue'[i] = queue[i]
      <4>1. i # n + 1
        <5>1. j <= n + 1
          BY <1>1, <1>2, <1>4, ByteTypes
        <5> QED BY <1>1, <1>2, <1>4, <2>1, <5>1, ByteTypes
      <4> QED BY <1>4, <4>1
    <3>2. CASE j = n + 1 /\ queue'[j] = t
      BY <1>1, <1>2, <2>1, <3>1, <3>2 DEF ReadInv
    <3>3. CASE j \in QueuedEchoes /\ queue'[j] = queue[j]
      BY <1>2, <2>1, <3>1, <3>3 DEF DisjointInv
    <3> QED BY <1>4, <3>2, <3>3
  <2>2. ASSUME NEW w \in HeldEchoes, NEW j \in QueuedEchoes',
               holding[w].conn = queue'[j].conn
        PROVE  holding[w].to <= queue'[j].from
    <3>1. CASE j = n + 1 /\ queue'[j] = t
      BY <1>1, <1>2, <2>2, <3>1 DEF ReadInv
    <3>2. CASE j \in QueuedEchoes /\ queue'[j] = queue[j]
      BY <1>2, <2>2, <3>2 DEF DisjointInv
    <3> QED BY <1>4, <3>1, <3>2
  <2>3. \A v, w \in HeldEchoes :
          v # w /\ holding[v].conn = holding[w].conn =>
             holding[v].to <= At(w) \/ holding[w].to <= At(v)
    BY <1>2 DEF DisjointInv
  <2> QED BY <1>3, <1>5, <2>1, <2>2, <2>3 DEF DisjointInv
<1>9. EchoedInv'
  <2>1. ASSUME NEW d \in Clients, NEW k \in DOMAIN echo[d]
        PROVE  /\ echo[d][k][2] <= rcvd'[echo[d][k][1]]
               /\ \A i \in QueuedEchoes' : ~Covers(queue'[i], queue'[i].from, echo[d][k])
               /\ \A w \in HeldEchoes : ~Covers(holding[w], At(w), echo[d][k])
    <3>1. PICK b : b = echo[d][k]
      OBVIOUS
    <3>2. b[1] \in Clients /\ b[2] \in Nat /\ b[2] <= rcvd[b[1]]
      BY <1>2, <3>1, ByteTypes DEF EchoedInv
    <3>3. b[2] <= rcvd'[b[1]]
      BY <1>6, <3>2
    <3>4. ~Covers(t, t.from, b)
      BY <1>1, <3>2 DEF Covers
    <3>5. \A i \in QueuedEchoes' : ~Covers(queue'[i], queue'[i].from, b)
      BY <1>2, <1>4, <3>1, <3>4 DEF EchoedInv
    <3> QED BY <1>2, <3>1, <3>3, <3>5 DEF EchoedInv
  <2> QED BY <1>2, <1>3, <1>5, <2>1 DEF EchoedInv, Covers
<1> QED BY <1>7, <1>8, <1>9 DEF ByteInv

\* A worker takes the oldest task: its bytes are before those of the others.
LEMMA TakeBytes ==
    ASSUME PoolServerInv, ByteInv, NEW w \in Workers, TakeTask(w)
    PROVE  ByteInv'
<1>1. TypeOK /\ ReadInv /\ DisjointInv /\ EchoedInv
  BY DEF PoolServerInv, ByteInv
<1>2. UNCHANGED <<rcvd, echo, written>> /\ Pool!Take(w)
  BY DEF TakeTask, sockVars, streamVars
<1>3. /\ Busy' = Busy \cup {w} /\ w \notin Busy
      /\ \A v \in Busy : holding'[v] = holding[v]
      /\ \A i \in DOMAIN queue' : i + 1 \in DOMAIN queue /\ queue'[i] = queue[i + 1]
      /\ 1 \in DOMAIN queue /\ holding'[w] = queue[1]
  BY <1>1, <1>2, TakeEffect
<1>4. written[w] = 0
  BY <1>1, <1>3 DEF ReadInv
<1>5. \A i \in QueuedEchoes' : /\ i + 1 \in QueuedEchoes /\ queue'[i] = queue[i + 1]
                               /\ i \in Nat \ {0}
  <2>1. queue' \in Seq(Tasks)
    BY <1>1, <1>2, TakeEffect
  <2>2. \A i \in DOMAIN queue' : i \in Nat \ {0}
    BY <2>1
  <2> QED BY <1>3, <2>2 DEF QueuedEchoes
<1>6. ASSUME NEW v \in HeldEchoes'
      PROVE  \/ v \in HeldEchoes /\ v # w /\ holding'[v] = holding[v] /\ At(v)' = At(v)
             \/ /\ v = w /\ 1 \in QueuedEchoes /\ holding'[v] = queue[1]
                /\ At(v)' = queue[1].from
  <2>1. v \in Busy' /\ holding'[v].op = "echo"
    BY DEF HeldEchoes
  <2>2. CASE v = w
    <3>1. 1 \in QueuedEchoes
      BY <1>3, <2>1, <2>2 DEF QueuedEchoes
    <3>2. queue[1].from \in Nat
      BY <1>1, <3>1, ByteTypes
    <3>3. At(v)' = queue[1].from + 0
      BY <1>2, <1>3, <1>4, <2>2 DEF At
    <3> QED BY <1>3, <2>2, <3>1, <3>2, <3>3
  <2>3. CASE v # w
    BY <1>2, <1>3, <2>1, <2>3 DEF HeldEchoes, At
  <2> QED BY <2>2, <2>3
<1>7. ReadInv'
  <2>1. \A i \in QueuedEchoes' : /\ queue'[i].from <= queue'[i].to
                                 /\ queue'[i].to <= rcvd'[queue'[i].conn]
    BY <1>1, <1>2, <1>5 DEF ReadInv
  <2>2. \A v \in HeldEchoes' : /\ At(v)' <= holding'[v].to
                               /\ holding'[v].to <= rcvd'[holding'[v].conn]
    BY <1>1, <1>2, <1>6 DEF ReadInv
  <2>3. \A v \in Workers : v \notin Busy' => written'[v] = 0
    BY <1>1, <1>2, <1>3 DEF ReadInv
  <2> QED BY <2>1, <2>2, <2>3 DEF ReadInv
<1>8. DisjointInv'
  <2>1. ASSUME NEW i \in QueuedEchoes', NEW j \in QueuedEchoes', i < j,
               queue'[i].conn = queue'[j].conn
        PROVE  queue'[i].to <= queue'[j].from
    <3>1. i + 1 < j + 1
      BY <1>5, <2>1
    <3> QED BY <1>1, <1>5, <2>1, <3>1 DEF DisjointInv
  <2>2. ASSUME NEW v \in HeldEchoes', NEW j \in QueuedEchoes',
               holding'[v].conn = queue'[j].conn
        PROVE  holding'[v].to <= queue'[j].from
    <3>1. CASE v \in HeldEchoes /\ holding'[v] = holding[v]
      BY <1>1, <1>5, <2>2, <3>1 DEF DisjointInv
    <3>2. CASE 1 \in QueuedEchoes /\ holding'[v] = queue[1]
      <4>1. 1 < j + 1
        BY <1>5
      <4> QED BY <1>1, <1>5, <2>2, <3>2, <4>1 DEF DisjointInv
    <3> QED BY <1>6, <3>1, <3>2
  <2>3. ASSUME NEW u \in HeldEchoes', NEW v \in HeldEchoes', u # v,
               holding'[u].conn = holding'[v].conn
        PROVE  holding'[u].to <= At(v)' \/ holding'[v].to <= At(u)'
    <3>1. CASE u # w /\ v # w
      BY <1>1, <1>6, <2>3, <3>1 DEF DisjointInv
    <3>2. CASE u = w
      <4>1. v \in HeldEchoes /\ holding'[v] = holding[v]
        BY <1>6, <2>3, <3>2
      <4>2. 1 \in QueuedEchoes /\ holding'[u] = queue[1] /\ At(u)' = queue[1].from
        BY <1>6, <3>2
      <4>3. holding[v].conn = queue[1].conn
        BY <2>3, <4>1, <4>2
      <4>4. holding[v].to <= queue[1].from
        BY <1>1, <4>1, <4>2, <4>3 DEF DisjointInv
      <4> QED BY <4>1, <4>2, <4>4
    <3>3. CASE v = w
      <4>1. u \in HeldEchoes /\ holding'[u] = holding[u]
        BY <1>6, <2>3, <3>3
      <4>2. 1 \in QueuedEchoes /\ holding'[v] = queue[1] /\ At(v)' = queue[1].from
        BY <1>6, <3>3
      <4>3. holding[u].conn = queue[1].conn
        BY <2>3, <4>1, <4>2
      <4>4. holding[u].to <= queue[1].from
        BY <1>1, <4>1, <4>2, <4>3 DEF DisjointInv
      <4> QED BY <4>1, <4>2, <4>4
    <3> QED BY <3>1, <3>2, <3>3
  <2> QED BY <2>1, <2>2, <2>3 DEF DisjointInv
<1>9. EchoedInv'
  <2>1. ASSUME NEW d \in Clients, NEW k \in DOMAIN echo[d]
        PROVE  /\ \A i \in QueuedEchoes' : ~Covers(queue'[i], queue'[i].from, echo[d][k])
               /\ \A v \in HeldEchoes' : ~Covers(holding'[v], At(v)', echo[d][k])
    BY <1>1, <1>5, <1>6 DEF EchoedInv
  <2> QED BY <1>1, <1>2, <2>1 DEF EchoedInv, Covers
<1> QED BY <1>7, <1>8, <1>9 DEF ByteInv

\* A task that ends, with its bytes written or not, is in no conflict any more.
LEMMA EndBytes ==
    ASSUME PoolServerInv, ByteInv, NEW w \in Workers, EndTask(w), UNCHANGED <<rcvd, echo>>
    PROVE  ByteInv'
<1>1. TypeOK /\ ReadInv /\ DisjointInv /\ EchoedInv
  BY DEF PoolServerInv, ByteInv
<1>2. /\ queue' = queue /\ Busy' = Busy \ {w}
      /\ \A v \in Busy' : holding'[v] = holding[v]
  BY <1>1, CompleteEffect
<1>3. written' = [written EXCEPT ![w] = 0] /\ written \in [Workers -> 0..MaxBytes]
  BY <1>1 DEF EndTask, TypeOK
<1>4. QueuedEchoes' = QueuedEchoes
  BY <1>2 DEF QueuedEchoes
<1>5. \A v \in HeldEchoes' : v \in HeldEchoes /\ holding'[v] = holding[v] /\ At(v)' = At(v)
  <2>1. ASSUME NEW v \in HeldEchoes'
        PROVE  v \in HeldEchoes /\ v # w /\ v \in Workers /\ holding'[v] = holding[v]
    BY <1>2 DEF HeldEchoes, Busy
  <2> QED BY <1>3, <2>1 DEF At
<1>6. ReadInv'
  <2>1. \A v \in Workers : v \notin Busy' => written'[v] = 0
    BY <1>1, <1>2, <1>3 DEF ReadInv
  <2> QED BY <1>1, <1>2, <1>4, <1>5, <2>1 DEF ReadInv
<1>7. DisjointInv'
  BY <1>1, <1>2, <1>4, <1>5 DEF DisjointInv
<1>8. EchoedInv'
  BY <1>1, <1>2, <1>4, <1>5 DEF EchoedInv, Covers
<1> QED BY <1>6, <1>7, <1>8 DEF ByteInv

\* write() takes the next bytes of a task: they were in no echo, and in no other task.
LEMMA WriteBytesOnce ==
    ASSUME PoolServerInv, ByteInv, NEW w \in Workers, Write(w)
    PROVE  ByteInv'
<1>1. TypeOK /\ ReadInv /\ DisjointInv /\ EchoedInv
  BY DEF PoolServerInv, ByteInv
<1>2. w \in HeldEchoes /\ holding[w] \in Tasks
  BY <1>1, HeldTask DEF Write, Unfinished, HeldEchoes
<1>3. PICK t \in Tasks, at \in Nat, n \in Nat, d \in Clients :
        /\ t = holding[w] /\ at = At(w) /\ at < n /\ n <= t.to
        /\ WriteBytes(d, Bytes(t.conn, at, n))
        /\ written' = [written EXCEPT ![w] = n - t.from]
  <2>1. /\ At(w) \in Nat /\ holding[w].to \in Nat /\ At(w) = holding[w].from + written[w]
    BY <1>1, <1>2, ByteTypes DEF At
  <2>2. PICK n \in At(w) + 1 .. holding[w].to :
           /\ WriteBytes(fdc[holding[w].fd], Bytes(holding[w].conn, At(w), n))
           /\ written' = [written EXCEPT ![w] = n - holding[w].from]
    BY DEF Write, At
  <2>3. n \in Nat /\ At(w) < n /\ n <= holding[w].to
    BY <2>1
  <2>4. fdc[holding[w].fd] \in Clients
    <3>1. holding[w].fd \in FDs /\ fdc[holding[w].fd] # None
      BY <1>2 DEF Write, Tasks
    <3> QED BY <1>1, <3>1 DEF TypeOK, SocketsTypeOK
  <2> QED BY <1>2, <2>1, <2>2, <2>3, <2>4
<1>4. t.conn \in Clients /\ t.from \in Nat /\ t.to \in Nat /\ t.to <= rcvd[t.conn]
  BY <1>1, <1>2, <1>3, ByteTypes DEF ReadInv
<1>5. UNCHANGED <<rcvd, queue, holding>>
  BY <1>3 DEF Write, WriteBytes, poolVars
<1>6. /\ QueuedEchoes' = QueuedEchoes /\ HeldEchoes' = HeldEchoes /\ Busy' = Busy
      /\ At(w)' = n /\ \A v \in HeldEchoes \ {w} : At(v)' = At(v)
  <2>1. QueuedEchoes' = QueuedEchoes /\ HeldEchoes' = HeldEchoes /\ Busy' = Busy
    BY <1>5 DEF QueuedEchoes, HeldEchoes, Busy
  <2>2. written'[w] = n - t.from /\ \A v \in Workers \ {w} : written'[v] = written[v]
    BY <1>1, <1>3 DEF TypeOK
  <2>3. t.from + (n - t.from) = n
    BY <1>4
  <2>4. At(w)' = n
    BY <1>3, <1>5, <2>2, <2>3 DEF At
  <2>5. \A v \in HeldEchoes \ {w} : v \in Workers /\ At(v)' = At(v)
    BY <1>5, <2>2 DEF HeldEchoes, Busy, At
  <2> QED BY <2>1, <2>4, <2>5
<1>7. PICK l \in Nat : l = Len(echo[d])
  BY <1>1 DEF TypeOK, SocketsTypeOK
\* A byte that is echoed now is one of those after at, at a place of its own.
<1>8. ASSUME NEW f \in Clients, NEW k \in DOMAIN echo'[f]
      PROVE  \/ k \in DOMAIN echo[f] /\ echo'[f][k] = echo[f][k]
             \/ /\ f = d /\ k \in Nat /\ l < k
                /\ echo'[f][k] = <<t.conn, at + (k - l)>>
                /\ at < at + (k - l) /\ at + (k - l) <= n
  <2>1. /\ echo[d] \in Seq(Clients \X (1..MaxBytes))
        /\ echo' = [echo EXCEPT ![d] = @ \o Bytes(t.conn, at, n)]
        /\ echo \in [Clients -> Seq(Clients \X (1..MaxBytes))]
    BY <1>1, <1>3 DEF WriteBytes, TypeOK, SocketsTypeOK
  <2>2. CASE f # d
    BY <2>1, <2>2
  <2>3. CASE f = d
    <3>1. PICK B : B = Bytes(t.conn, at, n)
      OBVIOUS
    <3>2. PICK m \in Nat : m = n - at /\ B = [i \in 1..m |-> <<t.conn, at + i>>]
      BY <1>3, <3>1 DEF Bytes
    <3>3. B \in Seq(Clients \X Nat) /\ Len(B) = m
      <4>1. \A i \in 1..m : at + i \in Nat
        OBVIOUS
      <4>2. \A i \in 1..m : <<t.conn, at + i>> \in Clients \X Nat
        BY <1>4, <4>1
      <4> QED BY <3>2, <4>2
    <3>4. echo'[d] = echo[d] \o B
      BY <2>1, <3>1
    <3>5. PICK E \in Seq(Clients \X Nat) : E = echo[d] /\ Len(E) = l
      <4>1. 1..MaxBytes \subseteq Nat
        BY SocketsAssumption
      <4> QED BY <1>7, <2>1, <4>1
    <3>6. \A j \in DOMAIN (E \o B) :
             /\ j \in Nat /\ 1 <= j /\ j <= l + m
             /\ (E \o B)[j] = IF j <= l THEN E[j] ELSE B[j - l]
      BY <3>3, <3>5
    <3>7. k \in DOMAIN (E \o B)
      BY <2>3, <3>4, <3>5
    <3>8. CASE k <= l
      <4>1. k \in DOMAIN E
        BY <3>5, <3>6, <3>7, <3>8
      <4> QED BY <2>3, <3>4, <3>5, <3>6, <3>7, <3>8, <4>1
    <3>9. CASE l < k
      <4>1. k \in Nat /\ k - l \in 1..m
        <5>1. k \in Nat /\ k <= l + m
          BY <3>6, <3>7
        <5> QED BY <3>9, <5>1
      <4>2. echo'[f][k] = <<t.conn, at + (k - l)>>
        <5>1. ~(k <= l)
          BY <3>9, <4>1
        <5>2. (E \o B)[k] = B[k - l]
          BY <3>6, <3>7, <5>1
        <5>3. B[k - l] = <<t.conn, at + (k - l)>>
          BY <3>2, <4>1
        <5> QED BY <2>3, <3>4, <3>5, <5>2, <5>3
      <4>3. at < at + (k - l) /\ at + (k - l) <= n
        BY <3>2, <4>1
      <4> QED BY <2>3, <3>9, <4>1, <4>2, <4>3
    <3> QED BY <3>6, <3>7, <3>8, <3>9
  <2> QED BY <2>2, <2>3
<1>9. ReadInv'
  <2>1. \A v \in HeldEchoes : /\ At(v)' <= holding[v].to
                              /\ holding[v].to <= rcvd[holding[v].conn]
    BY <1>1, <1>3, <1>6 DEF ReadInv
  <2>2. \A v \in Workers : v \notin Busy => written'[v] = 0
    <3>1. w \in Busy
      BY <1>2 DEF HeldEchoes
    <3>2. \A v \in Workers \ {w} : written'[v] = written[v]
      BY <1>1, <1>3 DEF TypeOK
    <3> QED BY <1>1, <3>1, <3>2 DEF ReadInv
  <2> QED BY <1>1, <1>5, <1>6, <2>1, <2>2 DEF ReadInv
<1>10. DisjointInv'
  <2>1. ASSUME NEW u \in HeldEchoes, NEW v \in HeldEchoes, u # v,
               holding[u].conn = holding[v].conn
        PROVE  holding[u].to <= At(v)' \/ holding[v].to <= At(u)'
    <3>1. holding[u].to <= At(v) \/ holding[v].to <= At(u)
      BY <1>1, <2>1 DEF DisjointInv
    <3>2. \A x \in HeldEchoes : At(x) \in Nat /\ At(x)' \in Nat /\ At(x) <= At(x)'
                                /\ holding[x].to \in Nat
      BY <1>1, <1>3, <1>6, ByteTypes
    <3> QED BY <3>1, <3>2
  <2> QED BY <1>1, <1>5, <1>6, <2>1 DEF DisjointInv
<1>11. EchoedInv'
  <2>1. ASSUME NEW f \in Clients, NEW k \in DOMAIN echo'[f]
        PROVE  /\ echo'[f][k][2] <= rcvd[echo'[f][k][1]]
               /\ \A i \in QueuedEchoes : ~Covers(queue[i], queue[i].from, echo'[f][k])
               /\ \A v \in HeldEchoes : ~Covers(holding[v], At(v)', echo'[f][k])
    <3>1. CASE k \in DOMAIN echo[f] /\ echo'[f][k] = echo[f][k]
      <4>1. PICK b : b = echo[f][k]
        OBVIOUS
      <4>2. /\ b[1] \in Clients /\ b[2] \in Nat /\ b[2] <= rcvd[b[1]]
            /\ \A i \in QueuedEchoes : ~Covers(queue[i], queue[i].from, b)
            /\ \A v \in HeldEchoes : ~Covers(holding[v], At(v), b)
        BY <1>1, <3>1, <4>1, ByteTypes DEF EchoedInv
      <4>3. ~Covers(holding[w], At(w)', b)
        BY <1>2, <1>3, <1>6, <4>2 DEF Covers
      <4>4. \A v \in HeldEchoes : ~Covers(holding[v], At(v)', b)
        BY <1>6, <4>2, <4>3
      <4> QED BY <3>1, <4>1, <4>2, <4>4
    <3>2. CASE \E p \in Nat : echo'[f][k] = <<t.conn, p>> /\ at < p /\ p <= n
      <4>1. PICK p \in Nat : echo'[f][k] = <<t.conn, p>> /\ at < p /\ p <= n
        BY <3>2
      <4>2. p <= rcvd[t.conn]
        <5>1. rcvd[t.conn] \in Nat
          BY <1>1, <1>4, ByteTypes
        <5> QED BY <1>3, <1>4, <4>1, <5>1
      <4>3. ASSUME NEW i \in QueuedEchoes
            PROVE  ~Covers(queue[i], queue[i].from, <<t.conn, p>>)
        <5> SUFFICES ASSUME queue[i].conn = t.conn PROVE ~(queue[i].from < p)
          BY DEF Covers
        <5>1. t.to <= queue[i].from /\ queue[i].from \in Nat
          BY <1>1, <1>2, <1>3, ByteTypes DEF DisjointInv
        <5> QED BY <1>3, <1>4, <4>1, <5>1
      <4>4. ASSUME NEW v \in HeldEchoes, v # w
            PROVE  ~Covers(holding[v], At(v), <<t.conn, p>>)
        <5> SUFFICES ASSUME holding[v].conn = t.conn
                     PROVE  ~(At(v) < p) \/ ~(p <= holding[v].to)
          BY DEF Covers
        <5>1. /\ holding[v].to <= at \/ t.to <= At(v)
              /\ holding[v].to \in Nat /\ At(v) \in Nat
          BY <1>1, <1>2, <1>3, <4>4, ByteTypes DEF DisjointInv
        <5> QED BY <1>3, <1>4, <4>1, <5>1
      <4>5. ~Covers(holding[w], n, <<t.conn, p>>)
        BY <1>3, <4>1 DEF Covers
      <4>6. \A v \in HeldEchoes : ~Covers(holding[v], At(v)', <<t.conn, p>>)
        BY <1>6, <4>4, <4>5
      <4> QED BY <4>1, <4>2, <4>3, <4>6
    <3>3. at \in Nat /\ l \in Nat
      OBVIOUS
    <3>4. \A j \in Nat : l < j => at + (j - l) \in Nat
      BY <3>3
    <3> QED BY <1>8, <3>1, <3>2, <3>4
  \* A new byte is not one of the old ones.
  <2>2. ASSUME NEW f \in Clients, NEW k \in DOMAIN echo[f], NEW q \in Nat, at < q, q <= n
        PROVE  echo[f][k] # <<t.conn, q>>
    <3>1. ~Covers(t, at, echo[f][k])
      BY <1>1, <1>2, <1>3 DEF EchoedInv
    <3> SUFFICES ASSUME echo[f][k] = <<t.conn, q>> PROVE FALSE
      OBVIOUS
    <3>2. q <= t.to
      BY <1>3, <1>4, <2>2
    <3> QED BY <2>2, <3>1, <3>2 DEF Covers
  <2>3. ASSUME NEW f \in Clients, NEW g \in Clients,
               NEW k \in DOMAIN echo'[f], NEW j \in DOMAIN echo'[g],
               echo'[f][k] = echo'[g][j]
        PROVE  f = g /\ k = j
    <3> DEFINE Old(x, y) == y \in DOMAIN echo[x] /\ echo'[x][y] = echo[x][y]
               New(x, y) == /\ x = d /\ y \in Nat /\ l < y
                            /\ echo'[x][y] = <<t.conn, at + (y - l)>>
                            /\ at < at + (y - l) /\ at + (y - l) <= n
                            /\ at + (y - l) \in Nat
    <3>1. (Old(f, k) \/ New(f, k)) /\ (Old(g, j) \/ New(g, j))
      <4>1. \A y \in Nat : l < y => at + (y - l) \in Nat
        OBVIOUS
      <4> QED BY <1>8, <4>1
    <3>2. CASE Old(f, k) /\ Old(g, j)
      <4>1. /\ k \in DOMAIN echo[f] /\ j \in DOMAIN echo[g]
            /\ echo[f][k] = echo[g][j]
        BY <2>3, <3>2
      <4> QED BY <1>1, <4>1 DEF EchoedInv
    <3>3. CASE Old(f, k) /\ New(g, j)
      BY <2>2, <2>3, <3>3
    <3>4. CASE New(f, k) /\ Old(g, j)
      BY <2>2, <2>3, <3>4
    <3>5. CASE New(f, k) /\ New(g, j)
      <4>1. at + (k - l) = at + (j - l)
        BY <2>3, <3>5
      <4> QED BY <3>5, <4>1
    <3> HIDE DEF Old, New
    <3> QED BY <3>1, <3>2, <3>3, <3>4, <3>5
  <2> QED BY <1>5, <1>6, <2>1, <2>3 DEF EchoedInv, Covers
<1> QED BY <1>9, <1>10, <1>11 DEF ByteInv

\* handle_read() at the end of the stream adds a close task, which is about no byte.
LEMMA HangUpBytes ==
    ASSUME PoolServerInv, ByteInv, NEW e \in events, ReadHangUp(e)
    PROVE  ByteInv'
<1> PICK t : t = CloseTask(e.fd, fdc[e.fd])
  OBVIOUS
<1>1. /\ Pool!Submit(t) /\ e.fd # Listen
      /\ UNCHANGED <<rcvd, echo, holding, written>>
  BY DEF ReadHangUp, Handling, Client, ReadEnd, streamVars, Pool!Submit
<1>2. t \in Tasks /\ t.op = "close"
  BY <1>1, ClientEvent, SocketsAssumption DEF CloseTask, Tasks
<1>3. \A i \in DOMAIN queue' : \/ i \in DOMAIN queue /\ queue'[i] = queue[i]
                               \/ queue'[i] = t
  BY <1>1, <1>2, SubmitEffect DEF PoolServerInv
<1>4. \A i \in QueuedEchoes' : i \in QueuedEchoes /\ queue'[i] = queue[i]
  BY <1>2, <1>3 DEF QueuedEchoes
<1> QED BY <1>1, <1>4, ByteFrame

\* The steps of the environment, the network thread and the signal handler that
\* move no byte and leave the tasks alone.
LEMMA QuietBytes ==
    ASSUME ByteInv,
           \/ Environment \/ Accept \/ (\E ready : Wait(ready))
           \/ EventsDone \/ LeaveLoop \/ AcceptDone \/ Signal \/ StopReturns
           \/ (\E e \in events : HandleListen(e))
           \/ UNCHANGED vars
    PROVE  ByteInv'
<1>1. UNCHANGED <<rcvd, echo, holding, written, queue>>
  <2>1. CASE Environment
    BY <2>1 DEF Environment, ClientStep, SendByte, ReadEcho, HangUp, Abort, Connect,
                streamVars, serverVars, poolVars
  <2>2. CASE Accept
    BY <2>2 DEF Accept, AcceptOn, AcceptAndDrop, streamVars, poolVars
  <2>3. CASE \/ (\E ready : Wait(ready)) \/ EventsDone \/ LeaveLoop \/ AcceptDone
             \/ Signal \/ StopReturns \/ (\E e \in events : HandleListen(e))
    BY <2>3 DEF Wait, EventsDone, LeaveLoop, AcceptDone, Signal, StopReturns,
                HandleListen, Handling, Pool!Close, sockVars, streamVars, poolVars
  <2>4. CASE UNCHANGED vars
    BY <2>4 DEF vars, sockVars, streamVars, serverVars, poolVars
  <2> QED BY <2>1, <2>2, <2>3, <2>4
<1>2. \A i \in QueuedEchoes' : i \in QueuedEchoes /\ queue'[i] = queue[i]
  BY <1>1 DEF QueuedEchoes
<1> QED BY <1>1, <1>2, ByteFrame

\* A step of a worker.
LEMMA WorkerBytes ==
    ASSUME PoolServerInv, ByteInv, NEW w \in Workers, WorkerStep(w)
    PROVE  ByteInv'
<1>1. CASE RetireWorker(w) \/ WriteKills(w)
  <2>1. UNCHANGED <<rcvd, echo, holding, written, queue>>
    BY <1>1 DEF RetireWorker, Pool!Retire, WriteKills, sockVars, streamVars, poolVars
  <2>2. \A i \in QueuedEchoes' : i \in QueuedEchoes /\ queue'[i] = queue[i]
    BY <2>1 DEF QueuedEchoes
  <2> QED BY <2>1, <2>2, ByteFrame
<1>2. CASE WriteFails(w) \/ EchoDone(w) \/ Close(w)
  <2>1. EndTask(w)
    BY <1>2 DEF WriteFails, EchoDone, Close
  <2>2. UNCHANGED <<rcvd, echo>>
    BY <1>2 DEF WriteFails, WriteReset, EchoDone, Close, CloseFd, sockVars, streamVars
  <2> QED BY <2>1, <2>2, EndBytes
<1> QED BY <1>1, <1>2, TakeBytes, WriteBytesOnce DEF WorkerStep, RunTask

-----------------------------------------------------------------------------
(* What follows from it.                                                   *)

\* An open fd is registered or has one close task: the cardinalities of Closing.
LEMMA Accounted == PoolServerInv => FdAccounted
<1> SUFFICES ASSUME PoolServerInv, NEW fd \in FDs, fdc[fd] # None
             PROVE  Closing(fd) = IF fd \in interest THEN 0 ELSE 1
  BY DEF FdAccounted
<1>1. Closing(fd) = Cardinality(QueuedCloses(fd)) + Cardinality(HeldCloses(fd))
  BY DEF Closing, QueuedCloses, HeldCloses
<1>2. CASE fd \in interest
  <2>1. QueuedCloses(fd) = {} /\ HeldCloses(fd) = {}
    BY <1>2 DEF PoolServerInv, FdInv, NoClose
  <2> QED BY <1>1, <1>2, <2>1, FS_EmptySet
<1>3. CASE fd \notin interest
  <2>1. OneClose(fd)
    BY <1>3 DEF PoolServerInv, FdInv
  <2>2. CASE (\E i : QueuedCloses(fd) = {i}) /\ HeldCloses(fd) = {}
    <3>1. Cardinality(QueuedCloses(fd)) = 1 /\ Cardinality(HeldCloses(fd)) = 0
      BY <2>2, FS_EmptySet, FS_Singleton
    <3> QED BY <1>1, <1>3, <3>1
  <2>3. CASE QueuedCloses(fd) = {} /\ \E w : HeldCloses(fd) = {w}
    <3>1. Cardinality(QueuedCloses(fd)) = 0 /\ Cardinality(HeldCloses(fd)) = 1
      BY <2>3, FS_EmptySet, FS_Singleton
    <3> QED BY <1>1, <1>3, <3>1
  <2> QED BY <2>1, <2>2, <2>3 DEF OneClose
<1> QED BY <1>2, <1>3

\* TaskInv in the words of CloseTasks.
LEMMA OwnConnection == PoolServerInv => CloseHitsOwnConnection
<1> SUFFICES ASSUME PoolServerInv, NEW t \in CloseTasks
             PROVE  fdc[t.fd] = t.conn
  BY DEF CloseHitsOwnConnection
<1>1. queue \in Seq(Tasks)
  BY DEF PoolServerInv, TypeOK
<1>2. \/ \E i \in DOMAIN queue : t = queue[i]
      \/ \E w \in Busy : t = holding[w]
  BY <1>1 DEF CloseTasks, Pending, Range
<1> QED BY <1>2 DEF PoolServerInv, TaskInv, CloseTasks

\* Every byte that is echoed has one place in the echoes.
LEMMA EchoedOnce == TypeOK /\ ByteInv => NoByteEchoedTwice
<1> SUFFICES ASSUME TypeOK, ByteInv PROVE NoByteEchoedTwice
  OBVIOUS
<1>1. \A d, f \in Clients : \A k \in DOMAIN echo[d], l \in DOMAIN echo[f] :
         echo[d][k] = echo[f][l] => d = f /\ k = l
  BY DEF ByteInv, EchoedInv
<1>2. \A c \in Clients : IsInjective(echo[c])
  BY <1>1 DEF IsInjective
<1>3. \A c, d \in Clients : c # d => Range(echo[c]) \cap Range(echo[d]) = {}
  BY <1>1 DEF Range
<1> QED BY <1>2, <1>3 DEF NoByteEchoedTwice

-----------------------------------------------------------------------------
(* One worker: the FIFO queue puts the close of an fd behind its echoes.   *)

\* Echo tasks find their connection; nothing follows the close of an fd.
EchoInv ==
    /\ \A i \in DOMAIN queue : queue[i].op = "echo" => fdc[queue[i].fd] = queue[i].conn
    /\ \A w \in Busy : holding[w].op = "echo" => fdc[holding[w].fd] = holding[w].conn
    /\ \A i, j \in DOMAIN queue :
          queue[i].op = "close" /\ i < j => queue[j].fd # queue[i].fd
    /\ \A w \in Busy : \A j \in DOMAIN queue :
          holding[w].op = "close" => queue[j].fd # holding[w].fd

\* Initially there is no task.
LEMMA InitEchoInv == Init => EchoInv
BY DEF Init, Pool!Init, EchoInv, Busy

\* Steps that neither enqueue, take nor end a task, and close nothing.
LEMMA EchoFrame ==
    ASSUME EchoInv, queue' = queue, holding' = holding, fdc' = fdc
    PROVE  EchoInv'
BY DEF EchoInv, Busy

\* An echo is enqueued while its fd is registered, and so has no close task.
LEMMA EchoReadData ==
    ASSUME PoolServerInv, EchoInv, NEW e \in events, ReadData(e)
    PROVE  EchoInv'
<1> PICK t : t = EchoTask(e.fd, fdc[e.fd], rcvd[fdc[e.fd]], ChunkEnd(fdc[e.fd]))
  OBVIOUS
<1>1. Pool!Submit(t) /\ e.fd # Listen /\ ReadChunk(fdc[e.fd])
  BY DEF ReadData, Client
<1>2. /\ e.fd \in FDs /\ fdc[e.fd] \in Clients /\ NoClose(e.fd)
  BY <1>1, ClientEvent
<1>3. fdc' = fdc
  BY <1>1 DEF ReadChunk
<1>4. t.op = "echo" /\ t.fd = e.fd /\ t.conn = fdc[e.fd]
  BY DEF EchoTask
<1>5. /\ queue \in Seq(Tasks) /\ queue' = Append(queue, t) /\ holding' = holding
  BY <1>1 DEF PoolServerInv, TypeOK, Pool!Submit
<1>6. \A i \in DOMAIN queue' : \/ i \in DOMAIN queue /\ queue'[i] = queue[i]
                               \/ i = Len(queue) + 1 /\ queue'[i] = t
  BY <1>5
<1>7. \A i \in DOMAIN queue : queue[i].op = "close" => queue[i].fd # e.fd
  BY <1>2 DEF NoClose, QueuedCloses
<1>8. \A w \in Busy : holding[w].op = "close" => holding[w].fd # e.fd
  BY <1>2 DEF NoClose, HeldCloses
<1>9. \A i \in DOMAIN queue : i \in Nat /\ i < Len(queue) + 1
  BY <1>5
<1>10. Busy' = Busy
  BY <1>5 DEF Busy
<1>11. \A i \in DOMAIN queue' : queue'[i].op = "echo" => fdc[queue'[i].fd] = queue'[i].conn
  BY <1>4, <1>6 DEF EchoInv
<1>12. \A i, j \in DOMAIN queue' :
          queue'[i].op = "close" /\ i < j => queue'[j].fd # queue'[i].fd
  <2> SUFFICES ASSUME NEW i \in DOMAIN queue', NEW j \in DOMAIN queue',
                      queue'[i].op = "close", i < j
               PROVE  queue'[j].fd # queue'[i].fd
    OBVIOUS
  <2>1. i \in DOMAIN queue /\ queue'[i] = queue[i]
    <3>1. i # Len(queue) + 1
      BY <1>4, <1>6, <1>9
    <3> QED BY <1>6, <3>1
  <2>2. CASE j = Len(queue) + 1 /\ queue'[j] = t
    BY <1>4, <1>7, <2>1, <2>2
  <2>3. CASE j \in DOMAIN queue /\ queue'[j] = queue[j]
    BY <2>1, <2>3 DEF EchoInv
  <2> QED BY <1>6, <2>2, <2>3
<1>13. \A w \in Busy : \A j \in DOMAIN queue' :
          holding[w].op = "close" => queue'[j].fd # holding[w].fd
  BY <1>4, <1>6, <1>8 DEF EchoInv
<1>14. \A w \in Busy : holding[w].op = "echo" => fdc[holding[w].fd] = holding[w].conn
  BY DEF EchoInv
<1> QED BY <1>3, <1>5, <1>10, <1>11, <1>12, <1>13, <1>14 DEF EchoInv

\* The close is enqueued behind the echoes of its fd.
LEMMA EchoReadHangUp ==
    ASSUME PoolServerInv, EchoInv, NEW e \in events, ReadHangUp(e)
    PROVE  EchoInv'
<1> PICK t : t = CloseTask(e.fd, fdc[e.fd])
  OBVIOUS
<1>1. Pool!Submit(t) /\ e.fd # Listen /\ ReadEnd(fdc[e.fd])
  BY DEF ReadHangUp, Client
<1>2. e.fd \in FDs /\ NoClose(e.fd)
  BY <1>1, ClientEvent
<1>3. fdc' = fdc
  BY <1>1 DEF ReadEnd
<1>4. t.op = "close" /\ t.fd = e.fd
  BY DEF CloseTask
<1>5. /\ queue \in Seq(Tasks) /\ queue' = Append(queue, t) /\ holding' = holding
  BY <1>1 DEF PoolServerInv, TypeOK, Pool!Submit
<1>6. \A i \in DOMAIN queue' : \/ i \in DOMAIN queue /\ queue'[i] = queue[i]
                               \/ i = Len(queue) + 1 /\ queue'[i] = t
  BY <1>5
<1>7. \A i \in DOMAIN queue : queue[i].op = "close" => queue[i].fd # e.fd
  BY <1>2 DEF NoClose, QueuedCloses
<1>8. \A w \in Busy : holding[w].op = "close" => holding[w].fd # e.fd
  BY <1>2 DEF NoClose, HeldCloses
<1>9. \A i \in DOMAIN queue : i \in Nat /\ i < Len(queue) + 1
  BY <1>5
<1>10. Busy' = Busy
  BY <1>5 DEF Busy
<1> QED BY <1>3, <1>4, <1>5, <1>6, <1>7, <1>8, <1>9, <1>10 DEF EchoInv

\* A free fd, which accept() may return, has no task.
LEMMA EchoAccept ==
    ASSUME PoolServerInv, EchoInv, Accept
    PROVE  EchoInv'
<1>1. queue' = queue /\ holding' = holding
  BY DEF Accept, poolVars
<1>2. CASE AcceptAndDrop
  BY <1>1, <1>2, EchoFrame DEF AcceptAndDrop
<1>3. ASSUME NEW fd \in FDs, AcceptOn(fd)
      PROVE  EchoInv'
  <2>1. fdc' = [fdc EXCEPT ![fd] = Head(backlog)] /\ fdc[fd] = None
    BY <1>3 DEF AcceptOn, FreeFDs
  <2>2. /\ \A i \in DOMAIN queue : queue[i] \in Tasks
        /\ \A w \in Busy : holding[w] \in Tasks
        /\ fdc \in [FDs -> Clients \cup {None}]
    BY DEF PoolServerInv, TypeOK, Busy, SocketsInv, SocketsTypeOK
  <2>3. \A i \in DOMAIN queue : queue[i].op = "echo" => queue[i].fd \in FDs \ {fd}
    BY <2>1, <2>2, SocketsAssumption DEF EchoInv, Tasks
  <2>4. \A w \in Busy : holding[w].op = "echo" => holding[w].fd \in FDs \ {fd}
    BY <2>1, <2>2, SocketsAssumption DEF EchoInv, Tasks
  <2> QED BY <1>1, <2>1, <2>2, <2>3, <2>4 DEF EchoInv, Busy
<1> QED BY <1>2, <1>3 DEF Accept

\* The only worker takes the oldest task; if that is a close, its fd has no other.
LEMMA EchoTake ==
    ASSUME PoolServerInv, EchoInv, \A v, w \in Workers : v = w,
           NEW w \in Workers, TakeTask(w)
    PROVE  EchoInv'
<1>1. Pool!Take(w) /\ TypeOK /\ queue \in Seq(Tasks)
  BY DEF TakeTask, PoolServerInv, TypeOK
<1>2. fdc' = fdc
  BY DEF TakeTask, sockVars
<1>3. /\ Busy' = {w}
      /\ \A i \in DOMAIN queue' : i + 1 \in DOMAIN queue /\ queue'[i] = queue[i + 1]
      /\ 1 \in DOMAIN queue /\ holding'[w] = queue[1]
  BY <1>1, TakeEffect DEF Busy
<1>4. \A i \in DOMAIN queue' : i \in Nat \ {0}
  BY <1>1, TakeEffect
<1>5. \A i \in DOMAIN queue' : queue[1].op = "close" => queue'[i].fd # queue[1].fd
  <2> SUFFICES ASSUME NEW i \in DOMAIN queue', queue[1].op = "close"
               PROVE  queue'[i].fd # queue[1].fd
    OBVIOUS
  <2>1. i + 1 \in DOMAIN queue /\ queue'[i] = queue[i + 1] /\ 1 < i + 1
    BY <1>3, <1>4
  <2> QED BY <1>3, <2>1 DEF EchoInv
<1>6. \A i, j \in DOMAIN queue' :
         queue'[i].op = "close" /\ i < j => queue'[j].fd # queue'[i].fd
  <2> SUFFICES ASSUME NEW i \in DOMAIN queue', NEW j \in DOMAIN queue',
                      queue'[i].op = "close", i < j
               PROVE  queue'[j].fd # queue'[i].fd
    OBVIOUS
  <2>1. /\ i + 1 \in DOMAIN queue /\ queue'[i] = queue[i + 1]
        /\ j + 1 \in DOMAIN queue /\ queue'[j] = queue[j + 1]
        /\ i + 1 < j + 1
    BY <1>3, <1>4
  <2> QED BY <2>1 DEF EchoInv
<1> QED BY <1>2, <1>3, <1>5, <1>6 DEF EchoInv

\* An echo task ends.
LEMMA EchoEnd ==
    ASSUME PoolServerInv, EchoInv, NEW w \in Workers, WriteFails(w) \/ EchoDone(w)
    PROVE  EchoInv'
<1>1. EndTask(w) /\ fdc' = fdc
  BY DEF WriteFails, EchoDone, WriteReset, sockVars
<1>2. /\ queue' = queue /\ Busy' = Busy \ {w}
      /\ \A v \in Busy' : holding'[v] = holding[v]
  BY <1>1, CompleteEffect DEF PoolServerInv
<1> QED BY <1>1, <1>2 DEF EchoInv

\* The close runs when no other task of its fd is left.
LEMMA EchoClose ==
    ASSUME PoolServerInv, EchoInv, \A v, w \in Workers : v = w,
           NEW w \in Workers, Close(w)
    PROVE  EchoInv'
<1> PICK fd : fd = holding[w].fd
  OBVIOUS
<1>1. Runs(w, "close") /\ EndTask(w) /\ fdc' = [fdc EXCEPT ![fd] = None]
  BY DEF Close, CloseFd
<1>2. w \in Busy /\ holding[w].op = "close"
  BY <1>1, HeldTask DEF PoolServerInv
<1>3. queue' = queue /\ Busy' = {}
  BY <1>1, CompleteEffect DEF PoolServerInv, Busy
<1>4. \A i \in DOMAIN queue : queue[i].fd # fd
  BY <1>2 DEF EchoInv
<1>5. \A i \in DOMAIN queue : queue[i].fd \in FDs
  <2>1. \A i \in DOMAIN queue : queue[i] \in Tasks
    BY DEF PoolServerInv, TypeOK
  <2> QED BY <2>1 DEF Tasks
<1>6. fdc \in [FDs -> Clients \cup {None}]
  BY DEF PoolServerInv, SocketsInv, SocketsTypeOK
<1> QED BY <1>1, <1>3, <1>4, <1>5, <1>6 DEF EchoInv

\* Steps that leave the tasks and the fds alone.
LEMMA EchoQuiet ==
    ASSUME EchoInv,
           \/ Environment \/ (\E ready : Wait(ready))
           \/ EventsDone \/ LeaveLoop \/ AcceptDone \/ Signal \/ StopReturns
           \/ (\E e \in events : HandleListen(e))
           \/ UNCHANGED vars
    PROVE  EchoInv'
<1>1. CASE Environment
  BY <1>1, EchoFrame
     DEF Environment, serverVars, poolVars, ClientStep, SendByte, ReadEcho, HangUp,
         Abort, Connect
<1>2. CASE \/ (\E ready : Wait(ready)) \/ EventsDone \/ LeaveLoop \/ AcceptDone
           \/ (\E e \in events : HandleListen(e))
  BY <1>2, EchoFrame
     DEF Wait, EventsDone, LeaveLoop, AcceptDone, HandleListen, sockVars, poolVars
<1>3. CASE Signal \/ StopReturns \/ UNCHANGED vars
  BY <1>3, EchoFrame
     DEF Signal, StopReturns, Pool!Close, vars, sockVars, serverVars, poolVars
<1> QED BY <1>1, <1>2, <1>3

\* A step of the only worker.
LEMMA EchoWorker ==
    ASSUME PoolServerInv, EchoInv, \A v, w \in Workers : v = w,
           NEW w \in Workers, WorkerStep(w)
    PROVE  EchoInv'
<1>1. CASE RetireWorker(w) \/ WriteKills(w)
  BY <1>1, EchoFrame DEF RetireWorker, Pool!Retire, WriteKills, sockVars, poolVars
<1>2. CASE Write(w)
  BY <1>2, EchoFrame DEF Write, WriteBytes, poolVars
<1> QED BY <1>1, <1>2, EchoTake, EchoEnd, EchoClose DEF WorkerStep, RunTask

\* EchoInv in the words of EchoTasks.
LEMMA OwnEcho == PoolServerInv /\ EchoInv => EchoHitsOwnConnection
<1> SUFFICES ASSUME PoolServerInv, EchoInv, NEW t \in EchoTasks
             PROVE  fdc[t.fd] = t.conn
  BY DEF EchoHitsOwnConnection
<1>1. queue \in Seq(Tasks)
  BY DEF PoolServerInv, TypeOK
<1>2. \/ \E i \in DOMAIN queue : t = queue[i]
      \/ \E w \in Busy : t = holding[w]
  BY <1>1 DEF EchoTasks, Pending, Range
<1> QED BY <1>2 DEF EchoInv, EchoTasks

-----------------------------------------------------------------------------
(* One worker: the server is an echo service, if every fd that accept4     *)
(* returns can be registered.                                              *)

\* Byte p of c is in an echo task.
InTask(c, p) ==
    \/ \E i \in QueuedEchoes : Covers(queue[i], queue[i].from, <<c, p>>)
    \/ \E w \in HeldEchoes : Covers(holding[w], At(w), <<c, p>>)

\* What was read from a connection that works is echoed or will be.
KeptInv ==
    \A c \in Clients : sock[c] = "ok" =>
        \A p \in 1..rcvd[c] : p <= Len(echo[c]) \/ InTask(c, p)

\* A close task is about a client that is finished.
EndInv ==
    /\ \A i \in DOMAIN queue : queue[i].op = "close" => Finished(queue[i].conn)
    /\ \A w \in Busy : holding[w].op = "close" => Finished(holding[w].conn)

ServiceInv == StreamInv /\ KeptInv /\ EndInv

\* The types that matter here.
LEMMA ServiceTypes ==
    ASSUME TypeOK
    PROVE  /\ queue \in Seq(Tasks)
           /\ \A i \in DOMAIN queue : queue[i] \in Tasks /\ queue[i].conn \in Clients
           /\ \A w \in Busy : /\ w \in Workers
                              /\ holding[w] \in Tasks /\ holding[w].conn \in Clients
                              /\ holding[w].fd \in FDs
<1>1. \A t \in Tasks : t.conn \in Clients /\ t.fd \in FDs
  BY DEF Tasks
<1>2. /\ queue \in Seq(Tasks)
      /\ \A i \in DOMAIN queue : queue[i] \in Tasks
      /\ \A w \in Busy : w \in Workers /\ holding[w] \in Tasks
  BY DEF TypeOK, Busy
<1> QED BY <1>1, <1>2

\* Initially nobody has sent anything.
LEMMA InitServiceInv == Init => ServiceInv /\ Service!Init
<1> SUFFICES ASSUME Init PROVE ServiceInv /\ Service!Init
  OBVIOUS
<1>1. StreamInv /\ Service!Init
  BY InitStreams DEF Init
<1>2. KeptInv
  BY DEF Init, SocketsInit, KeptInv
<1>3. EndInv
  BY DEF Init, Pool!Init, EndInv, Busy
<1> QED BY <1>1, <1>2, <1>3 DEF ServiceInv

\* A step that touches neither tasks nor bytes.
LEMMA ServiceFrame ==
    ASSUME PoolServerInv, ServiceInv, UNCHANGED <<rcvd, echo, queue, holding, written>>,
           StreamInv', FinishedStays, WorkedBefore
    PROVE  ServiceInv'
<1>1. /\ Busy' = Busy /\ HeldEchoes' = HeldEchoes /\ QueuedEchoes' = QueuedEchoes
      /\ \A w : At(w)' = At(w)
  BY DEF Busy, HeldEchoes, QueuedEchoes, At
<1>2. \A c, p : InTask(c, p)' <=> InTask(c, p)
  BY <1>1 DEF InTask, Covers
<1>3. KeptInv'
  <2>1. ASSUME NEW c \in Clients, client[c] = "idle"
        PROVE  rcvd[c] = 0
    BY <2>1, SocketTypes DEF PoolServerInv, ServiceInv, StreamInv, SockInv
  <2> QED BY <1>2, <2>1 DEF ServiceInv, KeptInv, WorkedBefore
<1>4. EndInv'
  <2>1. \A i \in DOMAIN queue : queue[i].conn \in Clients
    BY ServiceTypes DEF PoolServerInv
  <2>2. \A w \in Busy : holding[w].conn \in Clients
    BY ServiceTypes DEF PoolServerInv
  <2> QED BY <1>1, <2>1, <2>2 DEF ServiceInv, EndInv, FinishedStays
<1> QED BY <1>3, <1>4 DEF ServiceInv

\* Clients connect, send, read, hang up and reset: the protocol's own steps.
LEMMA EnvironmentServes ==
    ASSUME PoolServerInv, ServiceInv, Environment
    PROVE  ServiceInv' /\ Serves
<1>1. PICK c \in Clients : ClientStep(c) \/ Connect(c)
  BY DEF Environment
<1>2. StreamInv' /\ Serves /\ FinishedStays /\ WorkedBefore
  BY <1>1, ClientStreams DEF PoolServerInv, ServiceInv
<1>3. UNCHANGED <<rcvd, echo, queue, holding, written>>
  BY <1>1 DEF ClientStep, SendByte, ReadEcho, HangUp, Abort, Connect, streamVars,
              Environment, serverVars, poolVars
<1> QED BY <1>2, <1>3, ServiceFrame

\* The steps that leave sockets and tasks alone.
LEMMA QuietServes ==
    ASSUME PoolServerInv, ServiceInv,
           \/ (\E ready : Wait(ready))
           \/ EventsDone \/ LeaveLoop \/ AcceptDone \/ Signal \/ StopReturns
           \/ (\E e \in events : HandleListen(e))
           \/ (\E w \in Workers : RetireWorker(w) \/ WriteKills(w))
           \/ UNCHANGED vars
    PROVE  ServiceInv' /\ Serves
<1>1. UNCHANGED <<sockVars, queue, holding, written>>
  <2>1. CASE (\E ready : Wait(ready)) \/ EventsDone \/ LeaveLoop \/ AcceptDone
    BY <2>1 DEF Wait, EventsDone, LeaveLoop, AcceptDone, poolVars
  <2>2. CASE Signal \/ StopReturns \/ (\E e \in events : HandleListen(e))
    BY <2>2 DEF Signal, StopReturns, HandleListen, Handling, Pool!Close, poolVars
  <2>3. CASE \E w \in Workers : RetireWorker(w) \/ WriteKills(w)
    BY <2>3 DEF RetireWorker, Pool!Retire, WriteKills, poolVars
  <2>4. CASE UNCHANGED vars
    BY <2>4 DEF vars, serverVars, poolVars
  <2> QED BY <2>1, <2>2, <2>3, <2>4
<1>2. StreamInv' /\ Serves /\ FinishedStays /\ WorkedBefore
  BY <1>1, SameStreams DEF ServiceInv
<1>3. UNCHANGED <<rcvd, echo>>
  BY <1>1 DEF sockVars, streamVars
<1> QED BY <1>1, <1>2, <1>3, ServiceFrame

\* accept4: the protocol sees the close of an fd that could not be registered, and
\* would not have it.
LEMMA AcceptServes ==
    ASSUME PoolServerInv, ServiceInv, Accept
    PROVE  ServiceInv' /\ (AddMayFail = FALSE => Serves)
<1>1. SocketsInv /\ StreamInv
  BY DEF PoolServerInv, ServiceInv
<1>2. UNCHANGED <<rcvd, echo, queue, holding, written>>
  BY DEF Accept, AcceptAndDrop, AcceptOn, streamVars, poolVars
<1>3. CASE AddMayFail /\ AcceptAndDrop
  BY <1>1, <1>2, <1>3, DropStreams, ServiceFrame
<1>4. CASE \E fd \in FDs : AcceptOn(fd)
  BY <1>1, <1>2, <1>4, AcceptStreams, ServiceFrame
<1> QED BY <1>3, <1>4 DEF Accept

\* handle_read(): the bytes that are read get a task.
LEMMA ReadDataServes ==
    ASSUME PoolServerInv, ServiceInv, NEW e \in events, ReadData(e)
    PROVE  ServiceInv' /\ Serves
<1>1. PICK c \in Clients, t \in Tasks :
        /\ t.op = "echo" /\ t.conn = c /\ t.from = rcvd[c] /\ t.to = ChunkEnd(c)
        /\ Pool!Submit(t) /\ ReadChunk(c)
  <2> DEFINE c == fdc[e.fd]
             t == EchoTask(e.fd, c, rcvd[c], ChunkEnd(c))
  <2>1. /\ ReadChunk(c) /\ Pool!Submit(t) /\ e.fd # Listen
    BY DEF ReadData, Client
  <2>2. e.fd \in FDs /\ c \in Clients
    BY <2>1, ClientEvent
  <2>3. rcvd[c] \in 0..MaxBytes /\ ChunkEnd(c) \in 0..MaxBytes
    BY <2>1, <2>2, ReadChunkKeeps, SocketsAssumption
       DEF PoolServerInv, SocketsInv, SocketsTypeOK
  <2>4. t \in Tasks /\ t.op = "echo" /\ t.conn = c /\ t.from = rcvd[c] /\ t.to = ChunkEnd(c)
    BY <2>2, <2>3 DEF EchoTask, Tasks
  <2> QED BY <2>1, <2>2, <2>4
<1>2. /\ StreamInv' /\ Serves /\ FinishedStays
      /\ \E a \in Nat, z \in Nat : a = rcvd[c] /\ z = ChunkEnd(c) /\ a < z
  BY <1>1, ReadStreams, SocketTypes DEF PoolServerInv, ServiceInv
<1> PICK a \in Nat, z \in Nat : a = rcvd[c] /\ z = ChunkEnd(c) /\ a < z
  BY <1>2
<1>3. /\ UNCHANGED <<client, sent, echo, sock, backlog, fdc, holding, written>>
      /\ rcvd' = [rcvd EXCEPT ![c] = z]
      /\ queue' = Append(queue, t)
  BY <1>1 DEF ReadData, Handling, ReadChunk, Pool!Submit
<1>4. TypeOK /\ SocketsInv
  BY DEF PoolServerInv
<1>5. rcvd'[c] = z /\ \A d \in Clients : d # c => rcvd'[d] = rcvd[d]
  BY <1>3, <1>4, SocketTypes
<1>6. /\ \A i \in DOMAIN queue : i \in DOMAIN queue' /\ queue'[i] = queue[i]
      /\ Len(queue) + 1 \in DOMAIN queue' /\ queue'[Len(queue) + 1] = t
      /\ \A i \in DOMAIN queue' : \/ i \in DOMAIN queue /\ queue'[i] = queue[i]
                                  \/ queue'[i] = t
  BY <1>3, <1>4, ServiceTypes
<1>7. /\ Busy' = Busy /\ HeldEchoes' = HeldEchoes /\ \A w : At(w)' = At(w)
      /\ \A i \in QueuedEchoes : i \in QueuedEchoes' /\ queue'[i] = queue[i]
      /\ Len(queue) + 1 \in QueuedEchoes'
  BY <1>1, <1>3, <1>6 DEF Busy, HeldEchoes, QueuedEchoes, At
<1>8. KeptInv'
  <2> SUFFICES ASSUME NEW d \in Clients, sock[d] = "ok", NEW p \in 1..rcvd'[d],
                      ~(p <= Len(echo[d]))
               PROVE  InTask(d, p)'
    BY <1>3 DEF KeptInv
  <2>1. CASE p \in 1..rcvd[d]
    <3>1. InTask(d, p)
      BY <2>1 DEF ServiceInv, KeptInv
    <3> QED BY <1>3, <1>7, <3>1 DEF InTask, Covers
  <2>2. CASE p \notin 1..rcvd[d]
    <3>1. d = c /\ a < p /\ p <= z
      BY <1>2, <1>5, <2>2
    <3>2. Covers(t, t.from, <<d, p>>)
      BY <1>1, <1>2, <3>1 DEF Covers
    <3>3. Covers(queue'[Len(queue) + 1], queue'[Len(queue) + 1].from, <<d, p>>)
      BY <1>6, <3>2
    <3> QED BY <1>3, <1>7, <3>3 DEF InTask, Covers
  <2> QED BY <2>1, <2>2
<1>9. EndInv'
  <2>1. \A w \in Busy : holding[w].conn \in Clients
    BY <1>4, ServiceTypes
  <2>2. \A i \in DOMAIN queue : queue[i].conn \in Clients
    BY <1>4, ServiceTypes
  <2> QED BY <1>1, <1>2, <1>3, <1>6, <1>7, <2>1, <2>2
          DEF ServiceInv, EndInv, FinishedStays
<1> QED BY <1>2, <1>8, <1>9 DEF ServiceInv

\* The close task that handle_read() enqueues at the end of the stream is about a
\* client that is finished.
LEMMA HangUpServes ==
    ASSUME PoolServerInv, ServiceInv, NEW e \in events, ReadHangUp(e)
    PROVE  ServiceInv' /\ Serves
<1>1. PICK c \in Clients, t \in Tasks :
        /\ t.op = "close" /\ t.conn = c
        /\ Pool!Submit(t) /\ ReadEnd(c)
        /\ e.fd \in FDs /\ fdc[e.fd] = c
  <2> DEFINE c == fdc[e.fd]
             t == CloseTask(e.fd, c)
  <2>1. ReadEnd(c) /\ Pool!Submit(t) /\ e.fd # Listen
    BY DEF ReadHangUp, Client
  <2>2. e.fd \in FDs /\ c \in Clients
    BY <2>1, ClientEvent
  <2>3. t \in Tasks /\ t.op = "close" /\ t.conn = c
    BY <2>2, SocketsAssumption DEF CloseTask, Tasks
  <2> QED BY <2>1, <2>2, <2>3
<1>2. /\ UNCHANGED <<client, sent, rcvd, echo, backlog, fdc, holding, written>>
      /\ sock' = [sock EXCEPT ![c] = IF @ = "reset" THEN "dead" ELSE @]
      /\ queue' = Append(queue, t) /\ AtEnd(c)
  BY <1>1 DEF ReadHangUp, Handling, ReadEnd, streamVars, Pool!Submit
<1>3. TypeOK /\ SocketsInv
  BY DEF PoolServerInv
<1>4. StreamInv' /\ Serves /\ FinishedStays /\ WorkedBefore /\ Finished(c)
  BY <1>1, <1>3, ReadEndStreams DEF Accepted, ServiceInv
<1>5. \A d \in Clients : sock'[d] = "ok" => sock[d] = "ok"
  BY <1>2, <1>3, SocketTypes
<1>6. \A i \in DOMAIN queue' : \/ i \in DOMAIN queue /\ queue'[i] = queue[i]
                               \/ queue'[i] = t
  BY <1>2, <1>3, ServiceTypes
<1>7. \A i \in DOMAIN queue : i \in DOMAIN queue' /\ queue'[i] = queue[i]
  BY <1>2, <1>3, ServiceTypes
<1>8. /\ Busy' = Busy /\ HeldEchoes' = HeldEchoes /\ \A w : At(w)' = At(w)
      /\ \A i \in QueuedEchoes : i \in QueuedEchoes' /\ queue'[i] = queue[i]
  BY <1>2, <1>7 DEF Busy, HeldEchoes, QueuedEchoes, At
<1>9. KeptInv'
  <2> SUFFICES ASSUME NEW d \in Clients, sock'[d] = "ok", NEW p \in 1..rcvd[d],
                      ~(p <= Len(echo[d]))
               PROVE  InTask(d, p)'
    BY <1>2 DEF KeptInv
  <2>1. InTask(d, p)
    BY <1>5 DEF ServiceInv, KeptInv
  <2> QED BY <1>2, <1>8, <2>1 DEF InTask, Covers
<1>10. EndInv'
  <2>1. \A d : Finished(d)' <=> Finished(d)
    BY <1>2 DEF Finished
  <2> QED BY <1>1, <1>2, <1>4, <1>6, <1>8, <2>1 DEF ServiceInv, EndInv
<1> QED BY <1>4, <1>9, <1>10 DEF ServiceInv

\* A worker takes the oldest task, with all its bytes.
LEMMA TakeServes ==
    ASSUME PoolServerInv, ByteInv, ServiceInv, NEW w \in Workers, TakeTask(w)
    PROVE  ServiceInv' /\ Serves
<1>1. Pool!Take(w) /\ TypeOK
  BY DEF TakeTask, PoolServerInv
<1>2. UNCHANGED <<client, sent, rcvd, echo, sock, backlog, fdc, written>>
  BY DEF TakeTask, sockVars, streamVars
<1>3. /\ Busy' = Busy \cup {w} /\ w \notin Busy
      /\ \A v \in Busy : holding'[v] = holding[v]
      /\ \A i \in DOMAIN queue' : i + 1 \in DOMAIN queue /\ queue'[i] = queue[i + 1]
      /\ 1 \in DOMAIN queue /\ holding'[w] = queue[1] /\ queue[1] \in Tasks
  BY <1>1, TakeEffect
<1>4. written[w] = 0
  BY <1>3 DEF ByteInv, ReadInv
<1>5. \A i \in DOMAIN queue : \/ i = 1
                              \/ \E j \in DOMAIN queue' : queue'[j] = queue[i]
  <2>1. queue \in Seq(Tasks) /\ queue # <<>> /\ queue' = Tail(queue)
    BY <1>1 DEF TypeOK, Pool!Take
  <2>2. ASSUME NEW i \in DOMAIN queue, i # 1
        PROVE  i - 1 \in DOMAIN queue' /\ queue'[i - 1] = queue[i]
    BY <2>1, <2>2
  <2> QED BY <2>2
<1>6. \A v \in Busy : At(v)' = At(v)
  BY <1>2, <1>3 DEF At
<1>7. StreamInv' /\ Serves
  BY SameStreams DEF TakeTask, ServiceInv
<1>8. KeptInv'
  <2> SUFFICES ASSUME NEW c \in Clients, sock[c] = "ok", NEW p \in 1..rcvd[c],
                      ~(p <= Len(echo[c]))
               PROVE  InTask(c, p)'
    BY <1>2 DEF KeptInv
  <2>1. InTask(c, p)
    BY DEF ServiceInv, KeptInv
  <2>2. ASSUME NEW i \in QueuedEchoes, Covers(queue[i], queue[i].from, <<c, p>>)
        PROVE  InTask(c, p)'
    <3>1. CASE i = 1
      <4>1. w \in HeldEchoes' /\ holding'[w] = queue[i]
        BY <1>3, <2>2, <3>1 DEF HeldEchoes, QueuedEchoes
      <4>2. queue[i].from \in Nat
        BY <1>1, ByteTypes
      <4>3. At(w)' = queue[i].from
        BY <1>2, <1>4, <4>1, <4>2 DEF At
      <4>4. Covers(holding'[w], At(w)', <<c, p>>)
        BY <2>2, <4>1, <4>3
      <4> QED BY <4>1, <4>4 DEF InTask, Covers
    <3>2. CASE i # 1
      <4>1. PICK j \in DOMAIN queue' : queue'[j] = queue[i]
        BY <1>5, <3>2 DEF QueuedEchoes
      <4>2. j \in QueuedEchoes' /\ Covers(queue'[j], queue'[j].from, <<c, p>>)
        BY <2>2, <4>1 DEF QueuedEchoes
      <4> QED BY <4>2 DEF InTask, Covers
    <3> QED BY <3>1, <3>2
  <2>3. ASSUME NEW v \in HeldEchoes, Covers(holding[v], At(v), <<c, p>>)
        PROVE  InTask(c, p)'
    <3>1. v \in HeldEchoes' /\ holding'[v] = holding[v] /\ At(v)' = At(v)
      BY <1>3, <1>6 DEF HeldEchoes
    <3>2. Covers(holding'[v], At(v)', <<c, p>>)
      BY <2>3, <3>1
    <3> QED BY <3>1, <3>2 DEF InTask, Covers
  <2> QED BY <2>1, <2>2, <2>3 DEF InTask
<1>9. EndInv'
  <2>1. \A d : Finished(d)' <=> Finished(d)
    BY <1>2 DEF Finished
  <2> QED BY <1>3, <2>1 DEF ServiceInv, EndInv
<1> QED BY <1>7, <1>8, <1>9 DEF ServiceInv

\* The only worker writes the bytes that come next in the stream.
LEMMA WriteServes ==
    ASSUME PoolServerInv, ByteInv, EchoInv, ServiceInv, \A v, w \in Workers : v = w,
           NEW w \in Workers, Write(w)
    PROVE  ServiceInv' /\ Serves
<1>1. TypeOK /\ ReadInv /\ DisjointInv /\ EchoedInv /\ SocketsInv /\ StreamInv
  BY DEF PoolServerInv, ByteInv, ServiceInv
<1>2. PICK t \in Tasks, at \in Nat, n \in Nat :
        /\ t = holding[w] /\ at = At(w) /\ at < n /\ n <= t.to /\ at < t.to
        /\ WriteBytes(t.conn, Bytes(t.conn, at, n))
        /\ written' = [written EXCEPT ![w] = n - t.from]
        /\ w \in HeldEchoes
  <2>1. w \in HeldEchoes /\ holding[w] \in Tasks /\ holding[w].op = "echo"
    BY <1>1, HeldTask DEF Write, Unfinished, HeldEchoes
  <2>2. At(w) \in Nat /\ holding[w].to \in Nat
    BY <1>1, <2>1, ByteTypes
  <2>3. fdc[holding[w].fd] = holding[w].conn
    BY <2>1 DEF EchoInv, HeldEchoes
  <2>4. PICK n \in At(w) + 1 .. holding[w].to :
          /\ WriteBytes(holding[w].conn, Bytes(holding[w].conn, At(w), n))
          /\ written' = [written EXCEPT ![w] = n - holding[w].from]
    BY <2>3 DEF Write, At
  <2>5. n \in Nat /\ At(w) < n /\ n <= holding[w].to /\ At(w) < holding[w].to
    BY <2>2
  <2> QED BY <2>1, <2>2, <2>4, <2>5
<1>3. PICK d \in Clients : d = t.conn
  BY DEF Tasks
<1>4. /\ t.to \in Nat /\ t.from \in Nat /\ t.to <= rcvd[d] /\ rcvd[d] \in Nat
      /\ Len(echo[d]) \in Nat
  BY <1>1, <1>2, <1>3, ByteTypes, SocketTypes DEF ReadInv
\* What was written last is what is echoed.
<1>5. Len(echo[d]) = at
  <2> DEFINE l == Len(echo[d])
  <2>1. CASE at < l
    <3>1. at + 1 \in 1..l
      BY <1>4, <2>1
    <3>2. at + 1 \in DOMAIN echo[d] /\ echo[d][at + 1] = <<d, at + 1>>
      <4>1. echo[d] = [i \in 1..l |-> <<d, i>>]
        BY <1>1 DEF StreamInv, PrefixInv, Service!Stream
      <4> HIDE DEF l
      <4> QED BY <3>1, <4>1
    <3>3. Covers(t, at, <<d, at + 1>>)
      BY <1>2, <1>3, <1>4 DEF Covers
    <3> QED BY <1>1, <1>2, <3>2, <3>3 DEF EchoedInv
  <2>2. CASE l < at
    <3>1. l + 1 \in 1..rcvd[d] /\ ~(l + 1 <= l)
      BY <1>2, <1>4, <2>2
    <3>2. sock[d] = "ok"
      BY <1>2, <1>3 DEF WriteBytes
    <3>3. InTask(d, l + 1)
      BY <3>1, <3>2 DEF ServiceInv, KeptInv
    <3>4. ASSUME NEW i \in QueuedEchoes, Covers(queue[i], queue[i].from, <<d, l + 1>>)
          PROVE  FALSE
      <4>1. queue[i].conn = d /\ queue[i].from < l + 1
        BY <3>4 DEF Covers
      <4>2. t.to <= queue[i].from /\ queue[i].from \in Nat
        BY <1>1, <1>2, <1>3, <4>1, ByteTypes DEF DisjointInv
      <4> QED BY <1>2, <1>4, <2>2, <4>1, <4>2
    <3>5. ASSUME NEW v \in HeldEchoes, Covers(holding[v], At(v), <<d, l + 1>>)
          PROVE  FALSE
      <4>1. v = w
        BY DEF HeldEchoes, Busy
      <4>2. at < l + 1
        BY <1>2, <3>5, <4>1 DEF Covers
      <4> QED BY <1>2, <1>4, <2>2, <4>2
    <3> QED BY <3>3, <3>4, <3>5 DEF InTask
  <2> QED BY <1>4, <2>1, <2>2
<1>6. /\ StreamInv' /\ Serves
      /\ Len(echo'[d]) = n /\ \A c \in Clients : c # d => echo'[c] = echo[c]
  <2>1. n <= rcvd[d]
    BY <1>2, <1>4
  <2>2. WriteBytes(d, Bytes(d, Len(echo[d]), n))
    BY <1>2, <1>3, <1>5
  <2> QED BY <1>1, <1>2, <1>5, <2>1, <2>2, WriteStreams
<1>7. UNCHANGED <<client, sent, rcvd, sock, queue, holding>>
  BY <1>2 DEF WriteBytes, Write, poolVars
<1>8. /\ Busy' = Busy /\ HeldEchoes' = HeldEchoes /\ QueuedEchoes' = QueuedEchoes
      /\ At(w)' = n
  <2>1. written'[w] = n - t.from
    BY <1>1, <1>2 DEF TypeOK
  <2> QED BY <1>2, <1>4, <1>7, <2>1 DEF Busy, HeldEchoes, QueuedEchoes, At
<1>9. KeptInv'
  <2> SUFFICES ASSUME NEW c \in Clients, sock[c] = "ok", NEW p \in 1..rcvd[c],
                      ~(p <= Len(echo'[c]))
               PROVE  InTask(c, p)'
    BY <1>7 DEF KeptInv
  <2>1. InTask(c, p)
    BY <1>2, <1>4, <1>5, <1>6 DEF ServiceInv, KeptInv
  <2>2. CASE \E i \in QueuedEchoes : Covers(queue[i], queue[i].from, <<c, p>>)
    BY <1>7, <1>8, <2>2 DEF InTask, Covers
  <2>3. ASSUME NEW v \in HeldEchoes, Covers(holding[v], At(v), <<c, p>>)
        PROVE  InTask(c, p)'
    <3>1. v = w
      BY DEF HeldEchoes, Busy
    <3>2. c = d /\ p <= t.to
      BY <1>2, <1>3, <2>3, <3>1 DEF Covers
    <3>3. n < p
      BY <1>6, <3>2
    <3>4. Covers(holding'[w], At(w)', <<c, p>>)
      BY <1>2, <1>3, <1>7, <1>8, <3>2, <3>3 DEF Covers
    <3> QED BY <1>2, <1>8, <3>4 DEF InTask, Covers
  <2> QED BY <2>1, <2>2, <2>3 DEF InTask
<1>10. EndInv'
  <2>1. \A c : Finished(c)' <=> Finished(c)
    BY <1>7 DEF Finished
  <2> QED BY <1>7, <1>8, <2>1 DEF ServiceInv, EndInv
<1> QED BY <1>6, <1>9, <1>10 DEF ServiceInv

\* An echo task ends: all is written, or the client has reset the connection.
LEMMA EndServes ==
    ASSUME PoolServerInv, ByteInv, EchoInv, ServiceInv,
           NEW w \in Workers, WriteFails(w) \/ EchoDone(w)
    PROVE  ServiceInv' /\ Serves
<1>1. TypeOK /\ SocketsInv /\ StreamInv
  BY DEF PoolServerInv, ServiceInv
<1>2. EndTask(w) /\ w \in HeldEchoes /\ holding[w] \in Tasks
  BY <1>1, HeldTask DEF WriteFails, EchoDone, Unfinished, HeldEchoes
<1>3. PICK d \in Clients : d = holding[w].conn /\ d = fdc[holding[w].fd]
  BY <1>2 DEF Tasks, EchoInv, HeldEchoes
<1>4. /\ StreamInv' /\ Serves
      /\ UNCHANGED <<client, sent, rcvd, echo>>
      /\ \/ UNCHANGED sock /\ ~(written[w] < holding[w].to - holding[w].from)
         \/ sock[d] = "reset" /\ sock' = [sock EXCEPT ![d] = "dead"]
  <2>1. CASE WriteFails(w)
    <3>1. WriteReset(d)
      BY <1>3, <2>1, SocketsAssumption DEF WriteFails
    <3> QED BY <1>1, <3>1, ResetStreams DEF WriteReset, streamVars
  <2>2. CASE EchoDone(w)
    <3>1. UNCHANGED sockVars
      BY <2>2 DEF EchoDone
    <3> QED BY <1>1, <2>2, <3>1, SameStreams DEF EchoDone, Unfinished, sockVars, streamVars
  <2> QED BY <1>2, <2>1, <2>2
<1>5. \A c \in Clients : sock'[c] = sock[c] \/ (sock[c] = "reset" /\ sock'[c] = "dead")
  BY <1>1, <1>4, SocketTypes
<1>6. /\ queue' = queue /\ Busy' = Busy \ {w}
      /\ \A v \in Busy' : holding'[v] = holding[v]
      /\ written' = [written EXCEPT ![w] = 0]
  BY <1>1, <1>2, CompleteEffect DEF EndTask
<1>7. /\ QueuedEchoes' = QueuedEchoes
      /\ \A v \in HeldEchoes : v # w => v \in HeldEchoes' /\ At(v)' = At(v)
  <2>1. \A v \in Workers : v # w => written'[v] = written[v]
    BY <1>1, <1>6 DEF TypeOK
  <2> QED BY <1>6, <2>1 DEF QueuedEchoes, HeldEchoes, At, Busy
<1>8. KeptInv'
  <2> SUFFICES ASSUME NEW c \in Clients, sock'[c] = "ok", NEW p \in 1..rcvd[c],
                      ~(p <= Len(echo[c]))
               PROVE  InTask(c, p)'
    BY <1>4 DEF KeptInv
  <2>1. InTask(c, p) /\ sock[c] = "ok"
    BY <1>5 DEF ServiceInv, KeptInv
  <2>2. ASSUME NEW v \in HeldEchoes, Covers(holding[v], At(v), <<c, p>>)
        PROVE  InTask(c, p)'
    <3>1. v # w
      <4> SUFFICES ASSUME v = w PROVE FALSE
        OBVIOUS
      <4>1. c = d /\ At(w) < p /\ p <= holding[w].to
        BY <1>3, <2>2 DEF Covers
      <4>2. ~(written[w] < holding[w].to - holding[w].from)
        BY <1>1, <1>4, <2>1, <4>1, SocketTypes
      <4>3. /\ written[w] \in Nat /\ holding[w].to \in Nat /\ holding[w].from \in Nat
        BY <1>1, <1>2, ByteTypes
      <4> QED BY <4>1, <4>2, <4>3 DEF At
    <3>2. v \in HeldEchoes' /\ At(v)' = At(v) /\ holding'[v] = holding[v]
      BY <1>6, <1>7, <3>1 DEF HeldEchoes
    <3> QED BY <2>2, <3>2 DEF InTask, Covers
  <2>3. CASE \E i \in QueuedEchoes : Covers(queue[i], queue[i].from, <<c, p>>)
    BY <1>6, <1>7, <2>3 DEF InTask, Covers
  <2> QED BY <2>1, <2>2, <2>3 DEF InTask
<1>9. EndInv'
  <2>1. \A c : Finished(c)' <=> Finished(c)
    BY <1>4 DEF Finished
  <2> QED BY <1>6, <2>1 DEF ServiceInv, EndInv
<1> QED BY <1>4, <1>8, <1>9 DEF ServiceInv

\* The close task runs when the echoes of its connection are written.
LEMMA CloseServes ==
    ASSUME PoolServerInv, ByteInv, EchoInv, ServiceInv, \A v, w \in Workers : v = w,
           NEW w \in Workers, Close(w)
    PROVE  ServiceInv' /\ Serves
<1>1. TypeOK /\ TaskInv /\ SocketsInv /\ StreamInv
  BY DEF PoolServerInv, ServiceInv
<1>2. PICK fd \in FDs, c \in Clients :
        /\ fd = holding[w].fd /\ c = holding[w].conn /\ fdc[fd] = c
        /\ w \in Busy /\ holding[w].op = "close"
        /\ EndTask(w) /\ CloseFd(fd)
  <2>1. w \in Busy /\ holding[w] \in Tasks /\ holding[w].op = "close"
    BY <1>1, HeldTask DEF Close
  <2>2. fdc[holding[w].fd] = holding[w].conn
    BY <1>1, <2>1 DEF TaskInv
  <2> QED BY <2>1, <2>2 DEF Tasks, Close
<1>3. /\ UNCHANGED <<client, sent, rcvd, echo>>
      /\ sock' = [sock EXCEPT ![c] = "closed"]
  BY <1>2, SocketsAssumption DEF CloseFd, streamVars
<1>4. sock'[c] = "closed" /\ \A d \in Clients : d # c => sock'[d] = sock[d]
  BY <1>1, <1>3, SocketTypes
<1>5. queue' = queue /\ Busy' = {}
  BY <1>1, <1>2, CompleteEffect DEF Busy
<1>6. QueuedEchoes' = QueuedEchoes /\ HeldEchoes' = {} /\ HeldEchoes = {}
  BY <1>2, <1>5 DEF QueuedEchoes, HeldEchoes, Busy
<1>7. KeptInv'
  <2> SUFFICES ASSUME NEW d \in Clients, sock'[d] = "ok", NEW p \in 1..rcvd[d],
                      ~(p <= Len(echo[d]))
               PROVE  InTask(d, p)'
    BY <1>3 DEF KeptInv
  <2>1. InTask(d, p)
    BY <1>4 DEF ServiceInv, KeptInv
  <2> QED BY <1>5, <1>6, <2>1 DEF InTask, Covers
<1>8. EndInv'
  <2>1. \A d : Finished(d)' <=> Finished(d)
    BY <1>3 DEF Finished
  <2> QED BY <1>5, <2>1 DEF ServiceInv, EndInv
<1>9. Finished(c)
  BY <1>2 DEF ServiceInv, EndInv
<1>10. ASSUME sock[c] = "ok" PROVE Len(echo[c]) = rcvd[c]
  <2>1. \A i \in QueuedEchoes : queue[i].conn # c
    <3> SUFFICES ASSUME NEW i \in QueuedEchoes, queue[i].conn = c PROVE FALSE
      OBVIOUS
    <3>1. queue[i] \in Tasks /\ fdc[queue[i].fd] = c /\ queue[i].fd # fd
      BY <1>1, <1>2, ServiceTypes DEF EchoInv, QueuedEchoes
    <3>2. queue[i].fd \in FDs
      BY <3>1 DEF Tasks
    <3> QED BY <1>1, <1>2, <3>1, <3>2, SocketsAssumption DEF SocketsInv, OnePlace
  <2>2. \A p \in 1..rcvd[c] : p <= Len(echo[c])
    <3> SUFFICES ASSUME NEW p \in 1..rcvd[c] PROVE ~InTask(c, p)
      BY <1>10 DEF ServiceInv, KeptInv
    <3> QED BY <1>6, <2>1 DEF InTask, Covers
  <2>3. Len(echo[c]) <= rcvd[c] /\ Len(echo[c]) \in Nat /\ rcvd[c] \in Nat
    BY <1>1, SocketTypes DEF StreamInv, PrefixInv
  <2>4. CASE rcvd[c] # 0
    <3>1. rcvd[c] \in 1..rcvd[c]
      BY <2>3, <2>4
    <3>2. rcvd[c] <= Len(echo[c])
      BY <2>2, <3>1
    <3> QED BY <2>3, <3>2
  <2> QED BY <2>3, <2>4
<1>11. StreamInv' /\ Serves
  BY <1>1, <1>2, <1>9, <1>10, CloseStreams
<1> QED BY <1>7, <1>8, <1>11 DEF ServiceInv

\* A step of the only worker.
LEMMA WorkerServes ==
    ASSUME PoolServerInv, ByteInv, EchoInv, ServiceInv, \A v, w \in Workers : v = w,
           NEW w \in Workers, WorkerStep(w)
    PROVE  ServiceInv' /\ Serves
BY QuietServes, TakeServes, WriteServes, EndServes, CloseServes DEF WorkerStep, RunTask

=============================================================================
