----------------------------- MODULE PoolServer -----------------------------
(***************************************************************************)
(* What the epoll and the kqueue server have in common: the network        *)
(* thread, which waits for events, accepts and reads; the workers of the   *)
(* ThreadPool, which write the echoes and close the sockets; the signal    *)
(* handler, which runs on the network thread.  The pool is its abstract    *)
(* specification, TaskQueue.  Each of the two servers adds what it is told *)
(* about a socket and its own main loop.                                   *)
(*                                                                         *)
(* Each handler of the network thread makes one access that the workers    *)
(* can see (the enqueue, or the close), so a handler is one step; the loop *)
(* of accepts is one step per accept4, the loop of writes one per write.   *)
(***************************************************************************)
EXTENDS Sockets

CONSTANTS Workers,    \* the pool's threads
          MaxEvents,  \* MAX_EVENTS
          AddMayFail, \* whether registering an fd may fail
          NoTask

Tasks == [op : {"echo", "close"}, fd : FDs, conn : Clients,
          from : 0..MaxBytes, to : 0..MaxBytes]

ASSUME PoolServerAssumption ==
    /\ MaxEvents \in Nat \ {0} /\ AddMayFail \in BOOLEAN
    /\ NoTask \notin Tasks

VARIABLES
    queue, holding, open, retired,  \* the pool; open is also the server's running_
    written,   \* total_written in each worker's echo task
    interest,  \* the fds registered with epoll or kqueue
    net,       \* the network thread: "wait" (running_ was seen set and the call
               \* that waits for events is next), "events", "accept" or "exit"
    events,    \* what is left of the batch the last wait returned
    sig,       \* the signal handler: "none", "stop" or "done"
    proc       \* the process: "up", "exited" or "killed"

poolVars   == <<queue, holding, open, retired>>
serverVars == <<poolVars, written, interest, net, events, sig, proc>>
vars       == <<sockVars, serverVars>>

Listen == 0

\* The closures handle_read() enqueues.  They capture the fd only: conn is the
\* connection it referred to then, kept for the properties.
EchoTask(fd, c, from, to) ==
    [op |-> "echo", fd |-> fd, conn |-> c, from |-> from, to |-> to]
CloseTask(fd, c) ==
    [op |-> "close", fd |-> fd, conn |-> c, from |-> 0, to |-> 0]

Pool == INSTANCE TaskQueue WITH Task <- Tasks

Init ==
    /\ SocketsInit
    /\ Pool!Init
    /\ written = [w \in Workers |-> 0]
    /\ interest = {}
    /\ net = "wait"
    /\ events = {}
    /\ sig = "none"
    /\ proc = "up"

-----------------------------------------------------------------------------
(* The network thread: event_loop().                                       *)

\* The signal handler suspends the thread it runs on.
NetRuns == proc = "up" /\ sig # "stop"

Event(fd, c, err) == [fd |-> fd, conn |-> c, err |-> err]

\* Both flavors watch level-triggered, for input and its end.
Readable    == {fd \in interest : HasBytes(fdc[fd]) \/ AtEnd(fdc[fd])}
ListenReady == IF backlog = <<>> THEN {} ELSE {Event(Listen, None, FALSE)}

\* epoll_wait or kevent returns at most MAX_EVENTS of the events that are ready,
\* also after a signal that arrived between the test of running_ and the call.
Wait(ready) ==
    /\ NetRuns
    /\ net = "wait"
    /\ ready # {}
    /\ \E batch \in SUBSET ready :
          /\ batch = ready \/ Cardinality(batch) = MaxEvents
          /\ Cardinality(batch) <= MaxEvents
          /\ events' = batch
    /\ net' = "events"
    /\ UNCHANGED <<sockVars, poolVars, written, interest, sig, proc>>

\* The end of the for loop, or of a wait without events, and while (running_).
BatchDone == net = "events" /\ events = {}

EventsDone ==
    /\ NetRuns
    /\ BatchDone
    /\ open
    /\ net' = "wait"
    /\ UNCHANGED <<sockVars, poolVars, written, interest, events, sig, proc>>

\* Mutant: the loop never looks at running_.
LoopForever ==
    /\ NetRuns
    /\ BatchDone
    /\ ~open
    /\ net' = "wait"
    /\ UNCHANGED <<sockVars, poolVars, written, interest, events, sig, proc>>

\* running_ is false, or the wait returns EINTR; main() returns.
LeaveLoop ==
    /\ NetRuns
    /\ net = "wait" \/ BatchDone
    /\ ~open
    /\ net' = "exit"
    /\ proc' = "exited"
    /\ UNCHANGED <<sockVars, poolVars, written, interest, events, sig>>

Handling(e) ==
    /\ NetRuns
    /\ net = "events"
    /\ e \in events
    /\ events' = events \ {e}
    /\ UNCHANGED <<written, sig, proc>>

Client(e) == ~e.err /\ e.fd # Listen

HandleListen(e) ==
    /\ Handling(e)
    /\ e.fd = Listen
    /\ net' = "accept"
    /\ UNCHANGED <<sockVars, poolVars, interest>>

\* handle_read(), when read() returns bytes ...
ReadData(e) ==
    LET c == fdc[e.fd]
    IN  /\ Handling(e)
        /\ Client(e)
        /\ ReadChunk(c)
        /\ Pool!Submit(EchoTask(e.fd, c, rcvd[c], ChunkEnd(c)))
        /\ UNCHANGED <<interest, net>>

\* Mutants: the network thread closes the fd; the fd stays registered; nobody
\* closes it.
NetworkThreadCloses(e) ==
    LET c == fdc[e.fd]
    IN  /\ Handling(e)
        /\ Client(e)
        /\ AtEnd(c)
        /\ CloseFd(e.fd)
        /\ interest' = interest \ {e.fd}
        /\ UNCHANGED <<poolVars, net>>

KeepRegistered(e) ==
    LET c == fdc[e.fd]
    IN  /\ Handling(e)
        /\ Client(e)
        /\ ReadEnd(c)
        /\ Pool!Submit(CloseTask(e.fd, c))
        /\ UNCHANGED <<interest, net>>

LeakFd(e) ==
    LET c == fdc[e.fd]
    IN  /\ Handling(e)
        /\ Client(e)
        /\ ReadEnd(c)
        /\ interest' = interest \ {e.fd}
        /\ UNCHANGED <<poolVars, net>>

\* ... and when it returns 0 or an error.  (It cannot return EAGAIN: nobody else
\* reads, see EventsAreFresh.)
ReadHangUp(e) ==
    LET c == fdc[e.fd]
    IN  /\ Handling(e)
        /\ Client(e)
        /\ ReadEnd(c)
        /\ interest' = interest \ {e.fd}
        /\ Pool!Submit(CloseTask(e.fd, c))
        /\ UNCHANGED net

\* accept_connection(): accept4 and registration; an fd that is refused is closed.
Accept ==
    /\ NetRuns
    /\ net = "accept"
    /\ \/ \E fd \in FDs : AcceptOn(fd) /\ interest' = interest \cup {fd}
       \/ AddMayFail /\ AcceptAndDrop /\ interest' = interest
    /\ UNCHANGED <<poolVars, written, net, events, sig, proc>>

\* accept4 returns EAGAIN, or EMFILE with the backlog still there.
AcceptDone ==
    /\ NetRuns
    /\ net = "accept"
    /\ backlog = <<>> \/ FreeFDs = {}
    /\ net' = "events"
    /\ UNCHANGED <<sockVars, poolVars, written, interest, events, sig, proc>>

-----------------------------------------------------------------------------
(* The workers: worker_loop() around the closures of handle_read().        *)

TakeTask(w) ==
    /\ proc = "up"
    /\ Pool!Take(w)
    /\ UNCHANGED <<sockVars, written, interest, net, events, sig, proc>>

Runs(w, op) == proc = "up" /\ holding[w] # NoTask /\ holding[w].op = op

\* Mutant: write() is called once.
WriteOnce(w) == Runs(w, "echo") /\ written[w] = 0

\* total_written < buf.size()
Unfinished(w) ==
    Runs(w, "echo") /\ written[w] < holding[w].to - holding[w].from

EndTask(w) ==
    /\ Pool!Complete(w)
    /\ written' = [written EXCEPT ![w] = 0]
    /\ UNCHANGED <<net, events, sig, proc>>

\* Mutant: every write() starts at the beginning of the buffer.
WriteFromStart(w) ==
    LET t  == holding[w]
        at == t.from + written[w]
    IN  /\ Unfinished(w)
        /\ fdc[t.fd] # None
        /\ \E n \in at + 1 .. t.to :
              /\ WriteBytes(fdc[t.fd], Bytes(t.conn, t.from, t.from + n - at))
              /\ written' = [written EXCEPT ![w] = n - t.from]
        /\ UNCHANGED <<poolVars, interest, net, events, sig, proc>>

\* write() accepts a part of what is left.  With no room it returns EAGAIN and
\* the loop tries again at once: the worker stays where it is.
Write(w) ==
    LET t  == holding[w]
        at == t.from + written[w]
    IN  /\ Unfinished(w)
        /\ fdc[t.fd] # None
        /\ \E n \in at + 1 .. t.to :
              /\ WriteBytes(fdc[t.fd], Bytes(t.conn, at, n))
              /\ written' = [written EXCEPT ![w] = n - t.from]
        /\ UNCHANGED <<poolVars, interest, net, events, sig, proc>>

\* Mutant: the result of write() is added up before it is tested.
CountFailure(w) ==
    LET d == fdc[holding[w].fd]
    IN  /\ Unfinished(w)
        /\ IF d = None THEN UNCHANGED sockVars ELSE WriteReset(d)
        /\ written' = [written EXCEPT ![w] = @ - 1]
        /\ UNCHANGED <<poolVars, interest, net, events, sig, proc>>

\* EBADF or ECONNRESET: "give up".
WriteFails(w) ==
    LET d == fdc[holding[w].fd]
    IN  /\ Unfinished(w)
        /\ IF d = None THEN UNCHANGED sockVars ELSE WriteReset(d)
        /\ EndTask(w)
        /\ UNCHANGED interest

\* EPIPE comes with SIGPIPE, which nothing in the program handles.
WriteKills(w) ==
    LET d == fdc[holding[w].fd]
    IN  /\ Unfinished(w)
        /\ d # None /\ BrokenPipe(d)
        /\ proc' = "killed"
        /\ UNCHANGED <<sockVars, poolVars, written, interest, net, events, sig>>

EchoDone(w) ==
    /\ Runs(w, "echo")
    /\ ~Unfinished(w)
    /\ EndTask(w)
    /\ UNCHANGED <<sockVars, interest>>

\* The close task; epoll and kqueue forget an fd that is closed.
Close(w) ==
    /\ Runs(w, "close")
    /\ CloseFd(holding[w].fd)
    /\ interest' = interest \ {holding[w].fd}
    /\ EndTask(w)

RetireWorker(w) ==
    /\ proc = "up"
    /\ Pool!Retire(w)
    /\ UNCHANGED <<sockVars, written, interest, net, events, sig, proc>>

\* task()
RunTask(w) ==
    Close(w) \/ Write(w) \/ WriteFails(w) \/ WriteKills(w) \/ EchoDone(w)

WorkerStep(w) == TakeTask(w) \/ RetireWorker(w) \/ RunTask(w)

-----------------------------------------------------------------------------
(* The signal handler: shutdown() on the network thread, wherever it is.   *)

Signal ==
    /\ proc = "up"
    /\ sig = "none"
    /\ sig' = "stop"
    /\ Pool!Close
    /\ UNCHANGED <<sockVars, written, interest, net, events, proc>>

\* pool_.stop() returns when it has joined every worker.
StopReturns ==
    /\ proc = "up"
    /\ sig = "stop"
    /\ retired = Workers
    /\ sig' = "done"
    /\ UNCHANGED <<sockVars, poolVars, written, interest, net, events, proc>>

-----------------------------------------------------------------------------
Environment ==
    /\ \E c \in Clients : ClientStep(c) \/ (proc = "up" /\ Connect(c))
    /\ UNCHANGED serverVars

(***************************************************************************)
(* What ThreadPool keeps of this composition: a worker that has a task     *)
(* runs it, and while the pool is open queued tasks are taken              *)
(* (EveryTaskRuns).  That a worker leaves a closed pool is not promised:   *)
(* it may miss the notification or wait for the mutex.  The scheduler runs *)
(* stop() too (each server adds its network thread), and clients behave:   *)
(* they read their echoes and at last hang up.                             *)
(***************************************************************************)
Fairness ==
    /\ WF_vars(StopReturns)
    /\ WF_vars(open /\ \E w \in Workers : TakeTask(w))
    /\ \A w \in Workers : WF_vars(RunTask(w))
    /\ \A c \in Clients : /\ WF_vars(ReadEcho(c) /\ UNCHANGED serverVars)
                          /\ WF_vars(HangUp(c) /\ UNCHANGED serverVars)

-----------------------------------------------------------------------------
(* Properties                                                              *)

\* Every variable keeps its shape, and what one thread knows of the others is
\* in bounds: a chunk lies inside the stream, a send buffer inside SndBuf.
TypeOK ==
    /\ SocketsTypeOK
    /\ queue \in Seq(Tasks)
    /\ holding \in [Workers -> Tasks \cup {NoTask}]
    /\ open \in BOOLEAN
    /\ retired \subseteq Workers
    /\ written \in [Workers -> 0..MaxBytes]
    /\ interest \subseteq FDs
    /\ net \in {"wait", "events", "accept", "exit"}
    /\ events \subseteq [fd : FDs \cup {Listen}, conn : Clients \cup {None},
                         err : BOOLEAN]
    /\ sig \in {"none", "stop", "done"}
    /\ proc \in {"up", "exited", "killed"}

Busy       == {w \in Workers : holding[w] # NoTask}
Pending    == Range(queue) \cup {holding[w] : w \in Busy}
CloseTasks == {t \in Pending : t.op = "close"}
EchoTasks  == {t \in Pending : t.op = "echo"}

\* How many close tasks for fd are queued or running.
Closing(fd) ==
    Cardinality({i \in DOMAIN queue : queue[i].op = "close" /\ queue[i].fd = fd})
    + Cardinality({w \in Busy : holding[w].op = "close" /\ holding[w].fd = fd})

\* No fd is leaked and none is closed twice: an open fd is registered or
\* has exactly one close task on its way, never both.
FdAccounted ==
    \A fd \in FDs : fdc[fd] # None =>
        Closing(fd) = IF fd \in interest THEN 0 ELSE 1

\* A close task closes the connection it was created for, however long it
\* waited and whatever the network thread closed meanwhile.
CloseHitsOwnConnection == \A t \in CloseTasks : fdc[t.fd] = t.conn

\* An event the wait returned is still about the connection that caused it
\* when the loop gets to it: nothing the loop or a worker did meanwhile has
\* closed the fd or given it to another connection.
EventsAreFresh ==
    \A e \in events : e.fd # Listen => fdc[e.fd] = e.conn /\ e.fd \in interest

\* "The network thread must NOT close the fd here. A worker may still be
\* writing an echo to this fd [...] the worker owns the fd lifecycle"
\* (handle_read()): an echo task finds its own connection behind its fd.
EchoHitsOwnConnection == \A t \in EchoTasks : fdc[t.fd] = t.conn

\* However threads, resets and fd reuse interleave, no byte is echoed twice.
NoByteEchoedTwice ==
    /\ \A c \in Clients : IsInjective(echo[c])
    /\ \A c, d \in Clients : c # d => Range(echo[c]) \cap Range(echo[d]) = {}

\* "All flavors implement the same protocol: accept a TCP connection, read
\* data, echo it back, repeat until disconnect." (README.md)
IsEchoService == Service!Spec

\* While clients read and at last hang up, every byte sent on an accepted
\* connection is echoed, unless the client resets it, or a signal stops the server
\* or SIGPIPE kills it.
EveryByteEchoed ==
    \A c \in Clients : \A n \in 1..MaxBytes :
        sent[c] >= n /\ Accepted(c)
        ~> Len(echo[c]) >= n \/ client[c] = "gone" \/ ~open \/ proc = "killed"

\* Fds are recycled: a client that finds every fd taken is accepted once the
\* others have hung up, with the same exceptions.
EveryClientAccepted ==
    \A c \in Clients :
        c \in Range(backlog) ~> Accepted(c) \/ ~open \/ proc = "killed"

\* "Handle Ctrl-C / SIGTERM gracefully" (main.cpp): neither a task that a worker is
\* in the middle of nor the rest of the batch the signal interrupted keeps the
\* process from ending.  Only the pool can, in the two ways of the runs
\* pool_lost_wakeup and pool_signal_lock: a worker without a task never leaves.
LeftBehind   == \E w \in Workers \ retired : holding[w] = NoTask
ShutdownEnds == sig = "stop" ~> proc # "up" \/ []LeftBehind

=============================================================================
