---------------------------- MODULE KqueueServer ----------------------------
(***************************************************************************)
(* echo_server/flavors/kqueue/server.cpp and main.cpp: the network thread  *)
(* of PoolServer over kqueue.  EVFILT_READ also fires at the end of the    *)
(* stream and for a reset, with EV_EOF, which the code does not look at:   *)
(* both reach it as what read() returns.  kevent() reports EV_ERROR only   *)
(* for entries of a change list; event_loop() passes none, so its EV_ERROR *)
(* branch, the network thread's close(), never runs and has no action.     *)
(***************************************************************************)
EXTENDS PoolServer

Ready == {Event(fd, fdc[fd], FALSE) : fd \in Readable} \cup ListenReady

Kevent == Wait(Ready)

\* accept_connection(): accept, fcntl and EV_ADD until accept fails.
AcceptConnection == Accept \/ AcceptDone

\* handle_read(): the bytes go to an echo task; at the end of the stream or an
\* error, EV_DELETE and a close task.
HandleRead(e) == ReadData(e) \/ ReadHangUp(e)

\* event_loop(), with what it calls.
EventLoop ==
    \/ Kevent \/ EventsDone \/ LeaveLoop
    \/ \E e \in events : HandleListen(e) \/ HandleRead(e)
    \/ AcceptConnection

\* The signal handler: shutdown(), which joins the workers.
Shutdown == Signal \/ StopReturns

Next ==
    \/ Environment
    \/ EventLoop
    \/ \E w \in Workers : WorkerStep(w)
    \/ Shutdown

Spec == Init /\ [][Next]_vars

FairSpec == Spec /\ WF_vars(EventLoop) /\ Fairness

=============================================================================
