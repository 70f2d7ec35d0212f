--------------------------- MODULE IoUringServer ---------------------------
(***************************************************************************)
(* echo_server/flavors/iouring/server.cpp and main.cpp: the loop of        *)
(* UringLoop with plain sends, which complete once.                        *)
(***************************************************************************)
EXTENDS UringLoop

Complete ==
    \/ CompleteAccept
    \/ \E c \in Clients : CompleteRecv(c) \/ RecvAgain(c) \/ CompleteSend(c)

Kernel == pc # "exit" /\ Complete /\ UNCHANGED loopVars

Next == LoopStep \/ Shutdown \/ Kernel \/ Environment

Spec == Init /\ [][Next]_vars

\* The thread runs, the kernel completes an operation that has what it waits for,
\* and clients read their echoes and at last hang up.
FairSpec ==
    /\ Spec
    /\ WF_vars(LoopStep)
    /\ WF_vars(CompleteAccept /\ backlog # <<>> /\ Kernel)
    /\ \A c \in Clients :
          /\ WF_vars((CompleteRecv(c) \/ CompleteSend(c)) /\ Kernel)
          /\ WF_vars(ReadEcho(c) /\ Environment)
          /\ WF_vars(HangUp(c) /\ Environment)

-----------------------------------------------------------------------------
(* Properties                                                              *)

\* The flow per connection of event_loop()'s comment: a connection has one
\* Request, and the Request one operation, at a time; an operation belongs to
\* an open fd that still refers to the connection it was accepted for.
RequestOwnsFd ==
    \A c \in Clients :
        /\ Outstanding(c) = IF req[c] = NoReq THEN 0 ELSE 1
        /\ req[c] # NoReq => fdc[req[c].fd] = c

\* "only one ACCEPT in flight at a time" (server.h), and accept_pending_ knows.
OneAccept == Outstanding(None) = IF accept_pending THEN 1 ELSE 0

\* The accepted connections nobody will ever serve or close.
Accepts   == {cq[i].res : i \in {j \in DOMAIN cq : cq[j].sqe = AcceptSqe}}
Forgotten == {c \in Clients : /\ req[c] = NoReq
                              /\ \E fd \in FDs \ Accepts : fdc[fd] = c}

\* A connection is forgotten for two reasons only: its next operation finds the
\* submission queue full, or its recv was answered with EAGAIN.  Every other path
\* of the handlers goes on with the connection or closes it.
ForgottenOnlyThen ==
    [][\A c \in Clients : c \notin Forgotten /\ c \in Forgotten' =>
          cq # <<>> /\ (~SqHasRoom \/ Head(cq).res = Again)]_vars

\* What was sent on an accepted connection comes back, unless the connection was
\* forgotten (ForgottenOnlyThen) or reset.
EveryByteEchoed ==
    \A c \in Clients :
        Len(echo[c]) < sent[c] /\ Accepted(c)
        ~> \/ Len(echo[c]) = sent[c] \/ client[c] = "gone"
           \/ c \in Forgotten \/ ~running

\* "ring full - retry next iteration" (submit_accept()): the accept that found
\* no room is submitted later.
AcceptRetried == ~accept_pending ~> AcceptSqe \in inflight \/ ~running

\* After a signal the loop ends, whatever the clients and the kernel do.
ShutdownEnds == ~running ~> pc = "exit"

=============================================================================
