------------------------------ MODULE Sockets ------------------------------
(***************************************************************************)
(* External: the clients and the kernel's side of their TCP connections,   *)
(* as the servers under echo_server/flavors use them.  A connection has    *)
(* the name of the client that opened it; a byte stream is a count of      *)
(* bytes, byte i of client c being <<c, i>>; an fd is a number, and the    *)
(* lowest one free is the next that accept4 returns.                       *)
(***************************************************************************)
EXTENDS Naturals, Sequences, FiniteSets, Functions

CONSTANTS Clients,    \* each connects once
          NumFDs,     \* fds left to the process before EMFILE
          MaxBytes,   \* bytes a client sends at most
          BufSize,    \* bytes the server reads at once
          SndBuf,     \* bytes the kernel holds for a client that is not reading
          Aborting,   \* clients that may reset the connection
          ResetIsPipe, \* the first write to a reset connection raises EPIPE (BSD)
          None        \* "no connection"

FDs == 1..NumFDs

ASSUME SocketsAssumption ==
    /\ NumFDs \in Nat \ {0} /\ BufSize \in Nat \ {0} /\ SndBuf \in Nat \ {0}
    /\ MaxBytes \in Nat
    /\ Aborting \subseteq Clients
    /\ ResetIsPipe \in BOOLEAN
    /\ None \notin Clients

VARIABLES
    client,   \* what each client has done: "idle", "open", "shut" or "gone"
    sent,     \* bytes each client has sent, all in the server's receive buffer
    rcvd,     \* how many of them the server has read
    echo,     \* the bytes the server has written to each connection
    unread,   \* how many of those the client has not read yet
    sock,     \* the server's end of each connection
    backlog,  \* connections waiting for accept4, oldest first
    fdc       \* the connection each fd refers to, or None

streamVars == <<sent, rcvd, echo, unread>>
sockVars   == <<client, streamVars, sock, backlog, fdc>>

\* "reset" and "pipe" hold a pending ECONNRESET or EPIPE (a reset that came
\* after the client's FIN); "dead" is a reset socket whose error was reported.
SockStates   == {"none", "ok", "reset", "pipe", "dead", "closed"}
ClientStates == {"idle", "open", "shut", "gone"}

SocketsTypeOK ==
    /\ client \in [Clients -> ClientStates]
    /\ sent \in [Clients -> 0..MaxBytes]
    /\ rcvd \in [Clients -> 0..MaxBytes]
    /\ echo \in [Clients -> Seq(Clients \X (1..MaxBytes))]
    /\ unread \in [Clients -> 0..SndBuf]
    /\ sock \in [Clients -> SockStates]
    /\ backlog \in Seq(Clients)
    /\ fdc \in [FDs -> Clients \cup {None}]

SocketsInit ==
    /\ client = [c \in Clients |-> "idle"]
    /\ sent = [c \in Clients |-> 0]
    /\ rcvd = [c \in Clients |-> 0]
    /\ echo = [c \in Clients |-> <<>>]
    /\ unread = [c \in Clients |-> 0]
    /\ sock = [c \in Clients |-> "none"]
    /\ backlog = <<>>
    /\ fdc = [fd \in FDs |-> None]

-----------------------------------------------------------------------------
(* The clients.                                                            *)

Connect(c) ==
    /\ client[c] = "idle"
    /\ client' = [client EXCEPT ![c] = "open"]
    /\ sock' = [sock EXCEPT ![c] = "ok"]
    /\ backlog' = Append(backlog, c)
    /\ UNCHANGED <<streamVars, fdc>>

SendByte(c) ==
    /\ client[c] = "open"
    /\ sock[c] = "ok"
    /\ sent[c] < MaxBytes
    /\ sent' = [sent EXCEPT ![c] = @ + 1]
    /\ UNCHANGED <<client, rcvd, echo, unread, sock, backlog, fdc>>

ReadEcho(c) ==
    /\ client[c] \in {"open", "shut"}
    /\ unread[c] > 0
    /\ unread' = [unread EXCEPT ![c] = 0]
    /\ UNCHANGED <<client, sent, rcvd, echo, sock, backlog, fdc>>

\* The client sends FIN and goes on reading.
HangUp(c) ==
    /\ client[c] = "open"
    /\ client' = [client EXCEPT ![c] = "shut"]
    /\ UNCHANGED <<streamVars, sock, backlog, fdc>>

\* The client sends RST: it dies, or closes with bytes it has not read.
Abort(c) ==
    /\ c \in Aborting
    /\ client[c] \in {"open", "shut"}
    /\ client' = [client EXCEPT ![c] = "gone"]
    /\ sock' = [sock EXCEPT ![c] =
                  IF @ # "ok" THEN @
                  ELSE IF client[c] = "shut" THEN "pipe" ELSE "reset"]
    /\ UNCHANGED <<streamVars, backlog, fdc>>

ClientStep(c) ==
    SendByte(c) \/ ReadEcho(c) \/ HangUp(c) \/ Abort(c)

-----------------------------------------------------------------------------
(* The system calls of a server.                                           *)

FreeFDs     == {fd \in FDs : fdc[fd] = None}
Accepted(c) == \E fd \in FDs : fdc[fd] = c

HasBytes(c) == rcvd[c] < sent[c]
AtEnd(c)    == ~HasBytes(c) /\ (client[c] = "shut" \/ sock[c] # "ok")

\* accept4
AcceptOn(fd) ==
    /\ backlog # <<>>
    /\ fd \in FreeFDs
    /\ \A f \in FreeFDs : fd <= f
    /\ fdc' = [fdc EXCEPT ![fd] = Head(backlog)]
    /\ backlog' = Tail(backlog)
    /\ UNCHANGED <<client, streamVars, sock>>

\* accept4, and close() before the connection is used.
AcceptAndDrop ==
    /\ backlog # <<>>
    /\ FreeFDs # {}
    /\ sock' = [sock EXCEPT ![Head(backlog)] = "closed"]
    /\ backlog' = Tail(backlog)
    /\ UNCHANGED <<client, streamVars, fdc>>

\* read() of at most BufSize bytes: those after rcvd[c], up to ChunkEnd(c).
ChunkEnd(c) ==
    IF sent[c] - rcvd[c] < BufSize THEN sent[c] ELSE rcvd[c] + BufSize

ReadChunk(c) ==
    /\ HasBytes(c)
    /\ rcvd' = [rcvd EXCEPT ![c] = ChunkEnd(c)]
    /\ UNCHANGED <<client, sent, echo, unread, sock, backlog, fdc>>

\* read() that returns 0, or reports the pending ECONNRESET once.
ReadError(c) == sock[c] = "reset"

ReadEnd(c) ==
    /\ AtEnd(c)
    /\ sock' = [sock EXCEPT ![c] = IF @ = "reset" THEN "dead" ELSE @]
    /\ UNCHANGED <<client, streamVars, backlog, fdc>>

\* Bytes from + 1 to to of client c.
Bytes(c, from, to) == [i \in 1..(to - from) |-> <<c, from + i>>]

Room(c) == SndBuf - unread[c]

\* write() that the kernel accepts.
WriteBytes(d, bytes) ==
    /\ sock[d] = "ok"
    /\ Len(bytes) <= Room(d)
    /\ echo' = [echo EXCEPT ![d] = @ \o bytes]
    /\ unread' = [unread EXCEPT ![d] = @ + Len(bytes)]
    /\ UNCHANGED <<client, sent, rcvd, sock, backlog, fdc>>

\* write() on a reset connection reports ECONNRESET once, then always EPIPE; on
\* BSD, where a socket that can send no more is looked at first, EPIPE at once.
WriteReset(d) ==
    /\ ~ResetIsPipe
    /\ sock[d] = "reset"
    /\ sock' = [sock EXCEPT ![d] = "dead"]
    /\ UNCHANGED <<client, streamVars, backlog, fdc>>

BrokenPipe(d) ==
    sock[d] \in {"pipe", "dead"} \/ (ResetIsPipe /\ sock[d] = "reset")

\* close(), of an fd that may already be closed.
CloseFd(fd) ==
    /\ fdc' = [fdc EXCEPT ![fd] = None]
    /\ sock' = IF fdc[fd] = None THEN sock
               ELSE [sock EXCEPT ![fdc[fd]] = "closed"]
    /\ UNCHANGED <<client, streamVars, backlog>>

-----------------------------------------------------------------------------
\* The echo protocol over these sockets.
Service == INSTANCE EchoService
           WITH hungUp <- {c \in Clients : client[c] \in {"shut", "gone"}},
                reset  <- {c \in Clients : client[c] = "gone"},
                ended  <- {c \in Clients : sock[c] = "closed"}

=============================================================================
