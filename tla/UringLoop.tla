------------------------------ MODULE UringLoop ------------------------------
(***************************************************************************)
(* The event loop the two io_uring flavors share, line by line the same    *)
(* code: one thread that reaps completions, prepares the follow-up         *)
(* operation of each (phase 1) and then submits everything at once         *)
(* (phase 2).  A step handles one completion or runs one phase 2: nothing  *)
(* a handler writes is seen by the kernel before submit(), and the kernel  *)
(* may complete operations between any two steps.                          *)
(***************************************************************************)
EXTENDS Uring

VARIABLES pc,              \* event_loop(): "wait", "reap", "submit" or "exit"
          running,         \* running_
          accept_pending   \* accept_pending_

loopVars == <<pc, running, accept_pending>>
vars     == <<sockVars, uringVars, loopVars>>

\* event_loop() has prepared the first accept.
Init ==
    /\ SocketsInit
    /\ UringInit(<<AcceptSqe>>)
    /\ pc = "wait"
    /\ running = TRUE
    /\ accept_pending = TRUE

-----------------------------------------------------------------------------
\* Mutant: get_sqe()'s result is not tested.
PrepareUnchecked(c, r) ==
    /\ sq' = Append(sq, Sqe(r.op, c))
    /\ req' = [req EXCEPT ![c] = r]

\* submit_recv() and submit_send(): with the submission queue full the Request
\* is deleted and nothing else is done.
Prepare(c, r) ==
    IF SqHasRoom
    THEN /\ sq' = Append(sq, Sqe(r.op, c))
         /\ req' = [req EXCEPT ![c] = r]
    ELSE /\ sq' = sq
         /\ req' = [req EXCEPT ![c] = NoReq]

\* Mutant: while (true).
WaitForever ==
    /\ pc = "wait"
    /\ pc' = IF cq # <<>> THEN "reap" ELSE "submit"
    /\ UNCHANGED <<sockVars, uringVars, running, accept_pending>>

\* while (running_), and io_uring_wait_cqe_timeout: a completion, or ETIME or
\* EINTR, after which nothing is reaped before phase 2.
Wait ==
    /\ pc = "wait"
    /\ \/ running /\ cq # <<>> /\ pc' = "reap"
       \/ running /\ cq = <<>> /\ pc' = "submit"
       \/ ~running /\ pc' = "exit"
    /\ UNCHANGED <<sockVars, uringVars, running, accept_pending>>

DeleteRequest(c) ==
    /\ req' = [req EXCEPT ![c] = NoReq]
    /\ sq' = sq

\* The loop looks at the op of the Request, not at the entry that completed.
OpOf(sqe) == IF sqe = AcceptSqe THEN "accept" ELSE req[sqe.conn].op

Reaping(op) ==
    /\ pc = "reap"
    /\ cq # <<>>
    /\ OpOf(Head(cq).sqe) = op
    /\ cq' = Tail(cq)
    /\ UNCHANGED <<inflight, pc, running>>

NewRequest(fd) == [op |-> "recv", fd |-> fd, from |-> 0, to |-> 0]

\* Mutant: the error path returns before accept_pending_ is reset.
ReturnStillPending ==
    LET fd == Head(cq).res
    IN  /\ Reaping("accept")
        /\ accept_pending' = (fd = Error)
        /\ IF fd = Error
           THEN UNCHANGED <<sq, req>>
           ELSE Prepare(fdc[fd], NewRequest(fd))
        /\ UNCHANGED sockVars

\* handle_accept()
HandleAccept ==
    LET fd == Head(cq).res
    IN  /\ Reaping("accept")
        /\ accept_pending' = FALSE
        /\ IF fd = Error
           THEN UNCHANGED <<sq, req>>
           ELSE Prepare(fdc[fd], NewRequest(fd))
        /\ UNCHANGED sockVars

\* Mutants: no return after close(); a short read is taken for end of file; only
\* the end of the stream closes the fd.
CloseAndGoOn ==
    LET c == Head(cq).sqe.conn
    IN  /\ Reaping("recv")
        /\ Prepare(c, [req[c] EXCEPT !.op = "send"])
        /\ IF Head(cq).res > 0 THEN UNCHANGED sockVars ELSE CloseFd(req[c].fd)
        /\ UNCHANGED accept_pending

ShortReadIsEnd ==
    LET c == Head(cq).sqe.conn
    IN  /\ Reaping("recv")
        /\ IF Head(cq).res = BufSize
           THEN /\ Prepare(c, [req[c] EXCEPT !.op = "send"])
                /\ UNCHANGED sockVars
           ELSE DeleteRequest(c) /\ CloseFd(req[c].fd)
        /\ UNCHANGED accept_pending

ErrorKeepsFd ==
    LET c   == Head(cq).sqe.conn
        res == Head(cq).res
    IN  /\ Reaping("recv")
        /\ \/ res > 0 /\ Prepare(c, [req[c] EXCEPT !.op = "send"]) /\ UNCHANGED sockVars
           \/ res = 0 /\ DeleteRequest(c) /\ CloseFd(req[c].fd)
           \/ res < 0 /\ DeleteRequest(c) /\ UNCHANGED sockVars
        /\ UNCHANGED accept_pending

\* handle_recv(): bytes are sent back; end of file and errors close the fd, but
\* EAGAIN only deletes the Request.
HandleRecv ==
    LET c   == Head(cq).sqe.conn
        res == Head(cq).res
    IN  /\ Reaping("recv")
        /\ \/ res > 0 /\ Prepare(c, [req[c] EXCEPT !.op = "send"]) /\ UNCHANGED sockVars
           \/ res \in {0, Error} /\ DeleteRequest(c) /\ CloseFd(req[c].fd)
           \/ res = Again /\ DeleteRequest(c) /\ UNCHANGED sockVars
        /\ UNCHANGED accept_pending

\* handle_send(), which is not given the result.
HandleSend ==
    LET c == Head(cq).sqe.conn
    IN  /\ Reaping("send")
        /\ Prepare(c, [req[c] EXCEPT !.op = "recv"])
        /\ UNCHANGED <<sockVars, accept_pending>>

\* io_uring_for_each_cqe() has caught up with the kernel, or was not entered.  What
\* completes between this and submit() is reaped next time.
Drained == pc = "submit" \/ (pc = "reap" /\ cq = <<>>)

\* Mutants: an accept that found no room goes round the loop again at once,
\* before submit(); accept_pending_ set although the queue was full.
RetryBeforeSubmit ==
    LET prepare == ~accept_pending /\ SqHasRoom
    IN  /\ Drained
        /\ IF prepare \/ accept_pending
           THEN Submit(IF prepare THEN Append(sq, AcceptSqe) ELSE sq)
           ELSE UNCHANGED <<sq, inflight>>
        /\ accept_pending' = (accept_pending \/ prepare)
        /\ pc' = "wait"
        /\ UNCHANGED <<sockVars, cq, req, running>>

MarkPending ==
    LET prepare == ~accept_pending /\ SqHasRoom
    IN  /\ Drained
        /\ Submit(IF prepare THEN Append(sq, AcceptSqe) ELSE sq)
        /\ accept_pending' = TRUE
        /\ pc' = "wait"
        /\ UNCHANGED <<sockVars, cq, req, running>>

\* submit_accept() unless an accept is pending or the queue is full, and submit.
Phase2 ==
    LET prepare == ~accept_pending /\ SqHasRoom
    IN  /\ Drained
        /\ Submit(IF prepare THEN Append(sq, AcceptSqe) ELSE sq)
        /\ accept_pending' = (accept_pending \/ prepare)
        /\ pc' = "wait"
        /\ UNCHANGED <<sockVars, cq, req, running>>

LoopStep ==
    Wait \/ HandleAccept \/ HandleRecv \/ HandleSend \/ Phase2

\* shutdown(), from the signal handler.
Shutdown ==
    /\ running
    /\ running' = FALSE
    /\ UNCHANGED <<sockVars, uringVars, pc, accept_pending>>

Environment ==
    /\ \E c \in Clients : ClientStep(c) \/ (pc # "exit" /\ Connect(c))
    /\ UNCHANGED <<uringVars, loopVars>>

-----------------------------------------------------------------------------
\* The operations of connection c (or the accepts, for c = None) that are prepared,
\* in the kernel, or completed and not yet handled.
InSq(c)     == {i \in DOMAIN sq : sq[i].conn = c}
InKernel(c) == {s \in inflight : s.conn = c}
InCq(c)     == {i \in DOMAIN cq : cq[i].sqe.conn = c}

Outstanding(c) ==
    Cardinality(InSq(c)) + Cardinality(InKernel(c)) + Cardinality(InCq(c))

\* Every variable keeps its shape, and the submission queue its depth.
TypeOK ==
    /\ SocketsTypeOK
    /\ UringTypeOK
    /\ pc \in {"wait", "reap", "submit", "exit"}
    /\ running \in BOOLEAN
    /\ accept_pending \in BOOLEAN

\* "All flavors implement the same protocol: accept a TCP connection, read
\* data, echo it back, repeat until disconnect." (README.md)
IsEchoService == Service!Spec

=============================================================================
