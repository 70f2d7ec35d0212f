----------------------------- MODULE EpollServer -----------------------------
(***************************************************************************)
(* echo_server/flavors/epoll/server.cpp and main.cpp: the network thread   *)
(* of PoolServer over epoll, which reports a pending socket error as an    *)
(* event of its own, EPOLLERR.                                             *)
(***************************************************************************)
EXTENDS PoolServer

\* The events of this moment.
Failed(c) == sock[c] \in {"reset", "pipe"}
Ready     == {Event(fd, fdc[fd], Failed(fdc[fd])) : fd \in Readable} \cup ListenReady

EpollWait == Wait(Ready)

\* Mutant: the error path closes the fd and enqueues a close task as well.
CloseTwice(e) ==
    /\ Handling(e)
    /\ e.err
    /\ CloseFd(e.fd)
    /\ interest' = interest \ {e.fd}
    /\ Pool!Submit(CloseTask(e.fd, e.conn))
    /\ UNCHANGED net

\* EPOLLERR: the network thread closes the socket itself.
HandleError(e) ==
    /\ Handling(e)
    /\ e.err
    /\ CloseFd(e.fd)
    /\ interest' = interest \ {e.fd}
    /\ UNCHANGED <<poolVars, net>>

NetStep ==
    \/ EpollWait \/ EventsDone \/ LeaveLoop
    \/ \E e \in events :
          HandleError(e) \/ HandleListen(e) \/ ReadData(e) \/ ReadHangUp(e)
    \/ Accept \/ AcceptDone

Next ==
    \/ Environment
    \/ NetStep
    \/ \E w \in Workers : WorkerStep(w)
    \/ Signal \/ StopReturns

Spec == Init /\ [][Next]_vars

FairSpec == Spec /\ WF_vars(NetStep) /\ Fairness

=============================================================================
