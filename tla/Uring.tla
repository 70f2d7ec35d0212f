------------------------------- MODULE Uring -------------------------------
(***************************************************************************)
(* External: io_uring as the two io_uring flavors use it.  A submission    *)
(* queue of SqDepth entries that get_sqe() hands out, submit() passes to   *)
(* the kernel all at once and the kernel completes in any order; every     *)
(* connection c has at most one Request object, and an entry names it by   *)
(* c.  An entry's fd is the connection it was accepted for (the invariant  *)
(* RequestOwnsFd of IoUringServer; IoUringZcServer stops where it would    *)
(* fail), so I/O is done on c.                                             *)
(***************************************************************************)
EXTENDS Sockets, Integers

CONSTANTS SqDepth,  \* entries of the submission queue
          NoReq     \* no Request object

Requests == [op : {"recv", "send"}, fd : FDs, from : 0..MaxBytes, to : 0..MaxBytes]

ASSUME UringAssumption == SqDepth \in Nat \ {0} /\ NoReq \notin Requests

VARIABLES sq,       \* entries prepared and not yet submitted
          inflight, \* entries the kernel has
          cq,       \* completions, oldest first
          req       \* the Request object of each connection: its op, its
                    \* client_fd and the bytes in its buf

uringVars == <<sq, inflight, cq, req>>

Sqe(op, c) == [op |-> op, conn |-> c]
AcceptSqe  == Sqe("accept", None)

Entries  == [op : {"accept", "recv", "send", "notif"}, conn : Clients \cup {None}]
Error    == -1
Again    == -2   \* -EAGAIN, where the code tells it from other errors
Results  == {Error, Again} \cup 0..NumFDs + MaxBytes

UringTypeOK ==
    /\ sq \in Seq(Entries) /\ Len(sq) <= SqDepth
    /\ inflight \subseteq Entries
    /\ cq \in Seq([sqe : Entries, res : Results])
    /\ req \in [Clients -> Requests \cup {NoReq}]

\* A ring in which the entries of prepared wait for the first submit().
UringInit(prepared) ==
    /\ sq = prepared
    /\ inflight = {}
    /\ cq = <<>>
    /\ req = [c \in Clients |-> NoReq]

\* io_uring_get_sqe() returns an entry.
SqHasRoom == Len(sq) < SqDepth

\* io_uring_submit() of the entries in s.
Submit(s) ==
    /\ inflight' = inflight \cup Range(s)
    /\ sq' = <<>>

Posts(sqe, res) == cq' = Append(cq, [sqe |-> sqe, res |-> res])

Completed(sqe, res) ==
    /\ inflight' = inflight \ {sqe}
    /\ Posts(sqe, res)
    /\ UNCHANGED sq

\* EMFILE needs no client, the kernel reserves the fd first; EAGAIN comes from
\* the kernels that do not wait on a nonblocking listen socket.
CompleteAccept ==
    /\ AcceptSqe \in inflight
    /\ \/ \E fd \in FDs : AcceptOn(fd) /\ Completed(AcceptSqe, fd)
       \/ /\ FreeFDs = {} \/ backlog = <<>>
          /\ Completed(AcceptSqe, Error)
          /\ UNCHANGED sockVars
    /\ UNCHANGED req

CompleteRecv(c) ==
    /\ Sqe("recv", c) \in inflight
    /\ \/ /\ ReadChunk(c)
          /\ req' = [req EXCEPT ![c].from = rcvd[c], ![c].to = ChunkEnd(c)]
          /\ Completed(Sqe("recv", c), ChunkEnd(c) - rcvd[c])
       \/ /\ ReadEnd(c)
          /\ Completed(Sqe("recv", c), IF ReadError(c) THEN Error ELSE 0)
          /\ UNCHANGED req

\* Sockets are accepted with SOCK_NONBLOCK: a kernel may end a recv that finds
\* nothing instead of waiting for bytes.
RecvAgain(c) ==
    /\ Sqe("recv", c) \in inflight
    /\ ~HasBytes(c) /\ ~AtEnd(c)
    /\ Completed(Sqe("recv", c), Again)
    /\ UNCHANGED <<sockVars, req>>

\* What a send of buf does to the connection and returns: as many bytes as fit;
\* on a reset connection an error (the kernel raises no SIGPIPE for io_uring).
Sends(c, res) ==
    LET len == req[c].to - req[c].from
    IN  \/ /\ res > 0
           /\ res = IF len <= Room(c) THEN len ELSE Room(c)
           /\ WriteBytes(c, Bytes(c, req[c].from, req[c].from + res))
        \/ res = Error /\ WriteReset(c)
        \/ res = Error /\ BrokenPipe(c) /\ UNCHANGED sockVars

SendResults == {Error} \cup 1..MaxBytes

CompleteSend(c) ==
    /\ Sqe("send", c) \in inflight
    /\ \E res \in SendResults :
          Sends(c, res) /\ Completed(Sqe("send", c), res)
    /\ UNCHANGED req

\* SEND_ZC completes twice: with its result, and once more, with result 0, when
\* the kernel no longer needs buf.  A failed one may do without the second.
CompleteSendZc(c) ==
    /\ Sqe("send", c) \in inflight
    /\ \E res \in SendResults :
          /\ Sends(c, res)
          /\ \/ /\ inflight' = (inflight \ {Sqe("send", c)}) \cup {Sqe("notif", c)}
                /\ Posts(Sqe("send", c), res)
                /\ UNCHANGED sq
             \/ res = Error /\ Completed(Sqe("send", c), res)
    /\ UNCHANGED req

CompleteNotif(c) ==
    /\ Sqe("notif", c) \in inflight
    /\ Completed(Sqe("notif", c), 0)
    /\ UNCHANGED <<sockVars, req>>

=============================================================================
