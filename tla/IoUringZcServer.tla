--------------------------- MODULE IoUringZcServer ---------------------------
(***************************************************************************)
(* echo_server/flavors/iouring_zc/server.cpp and main.cpp: the loop of     *)
(* UringLoop, its sends being SEND_ZC.  The code expects one completion of *)
(* a send; the kernel posts two with the same Request, and the loop looks  *)
(* only at the op of the Request to tell what has completed.               *)
(***************************************************************************)
EXTENDS UringLoop

\* handle_accept(), handle_recv() and handle_send_zc() with what they submit.
Handlers == HandleAccept \/ HandleRecv \/ HandleSend

EventLoop == Wait \/ Handlers \/ Phase2

Complete ==
    \/ CompleteAccept
    \/ \E c \in Clients : \/ CompleteRecv(c) \/ RecvAgain(c)
                         \/ CompleteSendZc(c) \/ CompleteNotif(c)

Kernel == pc # "exit" /\ Complete /\ UNCHANGED loopVars

\* A Request that was deleted while an operation of it is under way: the kernel
\* writes to freed memory, or the loop reads its op.
UseAfterFree == \E c \in Clients : req[c] = NoReq /\ Outstanding(c) > 0

\* A Request given to the kernel twice for the same operation.
SubmittedTwice == ~IsInjective(sq) \/ Range(sq) \cap inflight # {}

\* The behavior of the first is undefined; the second is not followed further.
Next ==
    /\ ~UseAfterFree /\ ~SubmittedTwice
    /\ EventLoop \/ Shutdown \/ Kernel \/ Environment

Spec == Init /\ [][Next]_vars

=============================================================================
