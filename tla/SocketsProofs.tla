---------------------------- MODULE SocketsProofs ----------------------------
(***************************************************************************)
(* Lemmas about Sockets, for every set of clients and every size: what the *)
(* clients and the system calls of a server preserve, and which of their   *)
(* steps the echo protocol has.  The proofs about the servers cite them.   *)
(***************************************************************************)
EXTENDS Sockets, Integers, SequenceTheorems, TLAPS

\* A connection is in one place: it has not been made, waits in the backlog once,
\* or has left it, and it has at most one fd.
OnePlace ==
    /\ \A i, j \in DOMAIN backlog : backlog[i] = backlog[j] => i = j
    /\ \A i \in DOMAIN backlog : /\ client[backlog[i]] # "idle"
                                 /\ \A fd \in FDs : fdc[fd] # backlog[i]
    /\ \A fd \in FDs : fdc[fd] # None => client[fdc[fd]] # "idle"
    /\ \A f, g \in FDs : fdc[f] # None /\ fdc[f] = fdc[g] => f = g

SocketsInv == SocketsTypeOK /\ OnePlace

\* Initially nobody has connected.
LEMMA InitSocketsInv == SocketsInit => SocketsInv
<1> SUFFICES ASSUME SocketsInit PROVE SocketsInv
  OBVIOUS
<1>1. SocketsTypeOK
  BY SocketsAssumption
     DEF SocketsInit, SocketsTypeOK, ClientStates, SockStates, FDs
<1>2. OnePlace
  BY DEF SocketsInit, OnePlace
<1> QED BY <1>1, <1>2 DEF SocketsInv

\* A client that connects enters the backlog for the first time.
LEMMA ConnectKeeps ==
    ASSUME SocketsInv, NEW c \in Clients, Connect(c)
    PROVE  SocketsInv'
<1> USE DEF SocketsInv
<1>1. SocketsTypeOK'
  BY DEF SocketsTypeOK, Connect, streamVars, ClientStates, SockStates
<1>2. OnePlace'
  <2>1. backlog \in Seq(Clients) /\ backlog' = Append(backlog, c) /\ fdc' = fdc
    BY DEF SocketsTypeOK, Connect
  <2>2. /\ client \in [Clients -> ClientStates]
        /\ client[c] = "idle" /\ client' = [client EXCEPT ![c] = "open"]
        /\ fdc \in [FDs -> Clients \cup {None}]
    BY DEF SocketsTypeOK, Connect
  <2>3. \A i \in DOMAIN backlog : backlog[i] # c
    BY <2>2 DEF OnePlace
  <2>4. \A fd \in FDs : fdc[fd] # c
    BY <2>2, SocketsAssumption DEF OnePlace
  <2> QED BY <2>1, <2>2, <2>3, <2>4 DEF OnePlace
<1> QED BY <1>1, <1>2

\* Nobody changes places.
LEMMA SamePlaces ==
    ASSUME SocketsInv, backlog' = backlog, fdc' = fdc,
           \A d \in Clients : client'[d] = "idle" <=> client[d] = "idle"
    PROVE  OnePlace'
<1>1. /\ \A i \in DOMAIN backlog : backlog[i] \in Clients
      /\ \A fd \in FDs : fdc[fd] # None => fdc[fd] \in Clients
  BY DEF SocketsInv, SocketsTypeOK
<1>2. \A i \in DOMAIN backlog : client'[backlog[i]] # "idle"
  BY <1>1 DEF SocketsInv, OnePlace
<1>3. \A fd \in FDs : fdc[fd] # None => client'[fdc[fd]] # "idle"
  BY <1>1 DEF SocketsInv, OnePlace
<1> QED BY <1>2, <1>3 DEF SocketsInv, OnePlace

\* What a connected client does.
LEMMA ClientStepKeeps ==
    ASSUME SocketsInv, NEW c \in Clients, ClientStep(c)
    PROVE  /\ SocketsInv'
           /\ backlog' = backlog /\ fdc' = fdc
           /\ \A d \in Clients : client'[d] = "idle" => client[d] = "idle"
<1> USE DEF SocketsInv
<1>1. CASE SendByte(c)
  <2>1. SocketsTypeOK'
    BY <1>1, SocketsAssumption DEF SocketsTypeOK, SendByte
  <2> QED BY <1>1, <2>1 DEF SendByte, OnePlace
<1>2. CASE ReadEcho(c)
  <2>1. SocketsTypeOK'
    BY <1>2, SocketsAssumption DEF SocketsTypeOK, ReadEcho
  <2> QED BY <1>2, <2>1 DEF ReadEcho, OnePlace
<1>3. CASE HangUp(c)
  <2>1. SocketsTypeOK'
    BY <1>3 DEF SocketsTypeOK, HangUp, streamVars, ClientStates
  <2>2. /\ client' = [client EXCEPT ![c] = "shut"] /\ client[c] # "idle"
        /\ backlog' = backlog /\ fdc' = fdc /\ client \in [Clients -> ClientStates]
    BY <1>3 DEF HangUp, SocketsTypeOK
  <2>3. \A d \in Clients : client'[d] = "idle" <=> client[d] = "idle"
    BY <2>2
  <2> QED BY <2>1, <2>2, <2>3, SamePlaces
<1>4. CASE Abort(c)
  <2>1. SocketsTypeOK'
    BY <1>4 DEF SocketsTypeOK, Abort, streamVars, ClientStates, SockStates
  <2>2. /\ client' = [client EXCEPT ![c] = "gone"] /\ client[c] # "idle"
        /\ backlog' = backlog /\ fdc' = fdc /\ client \in [Clients -> ClientStates]
    BY <1>4 DEF Abort, SocketsTypeOK
  <2>3. \A d \in Clients : client'[d] = "idle" <=> client[d] = "idle"
    BY <2>2
  <2> QED BY <2>1, <2>2, <2>3, SamePlaces
<1> QED BY <1>1, <1>2, <1>3, <1>4 DEF ClientStep

\* accept4 gives a free fd to a connection that had none.
LEMMA AcceptKeeps ==
    ASSUME SocketsInv, NEW fd \in FDs, AcceptOn(fd)
    PROVE  /\ SocketsInv'
           /\ Head(backlog) \in Clients
           /\ fdc' = [fdc EXCEPT ![fd] = Head(backlog)]
           /\ \A i \in DOMAIN backlog' :
                 \E j \in DOMAIN backlog : backlog'[i] = backlog[j]
           /\ \E j \in DOMAIN backlog : Head(backlog) = backlog[j]
           /\ fdc[fd] = None
<1> USE DEF SocketsInv
<1>1. /\ backlog \in Seq(Clients) /\ backlog # <<>> /\ backlog' = Tail(backlog)
      /\ fdc \in [FDs -> Clients \cup {None}]
      /\ fdc' = [fdc EXCEPT ![fd] = Head(backlog)]
      /\ client' = client
      /\ fdc[fd] = None
  BY DEF SocketsTypeOK, AcceptOn, FreeFDs
<1>2. Head(backlog) \in Clients /\ 1 \in DOMAIN backlog /\ Head(backlog) = backlog[1]
  BY <1>1
<1>3. backlog' \in Seq(Clients)
  BY <1>1
<1>4. \A i \in DOMAIN backlog' : i + 1 \in DOMAIN backlog /\ backlog'[i] = backlog[i + 1]
  BY <1>1
<1>5. SocketsTypeOK'
  BY <1>1, <1>2, <1>3 DEF SocketsTypeOK, AcceptOn, streamVars
<1>6. OnePlace'
  <2>1. \A i, j \in DOMAIN backlog' : backlog'[i] = backlog'[j] => i = j
    BY <1>1, <1>4 DEF OnePlace
  <2>2. \A i \in DOMAIN backlog' : backlog'[i] # Head(backlog)
    BY <1>1, <1>2, <1>4 DEF OnePlace
  <2>3. \A i \in DOMAIN backlog' : /\ client'[backlog'[i]] # "idle"
                                   /\ \A f \in FDs : fdc'[f] # backlog'[i]
    BY <1>1, <1>4, <2>2 DEF OnePlace
  <2>4. \A f \in FDs : fdc'[f] # None => client'[fdc'[f]] # "idle"
    BY <1>1, <1>2 DEF OnePlace
  <2>5. \A f, g \in FDs : fdc'[f] # None /\ fdc'[f] = fdc'[g] => f = g
    BY <1>1, <1>2 DEF OnePlace
  <2> QED BY <2>1, <2>3, <2>4, <2>5 DEF OnePlace
<1> QED BY <1>1, <1>2, <1>4, <1>5, <1>6

\* accept4, and close() before the connection has an fd of its own.
LEMMA AcceptAndDropKeeps ==
    ASSUME SocketsInv, AcceptAndDrop
    PROVE  SocketsInv' /\ fdc' = fdc
<1>1. /\ backlog \in Seq(Clients) /\ backlog # <<>> /\ backlog' = Tail(backlog)
      /\ sock \in [Clients -> SockStates]
      /\ sock' = [sock EXCEPT ![Head(backlog)] = "closed"]
      /\ UNCHANGED <<client, sent, rcvd, echo, unread, fdc>>
  BY DEF SocketsInv, SocketsTypeOK, AcceptAndDrop, streamVars
<1>2. /\ backlog' \in Seq(Clients)
      /\ \A i \in DOMAIN backlog' : /\ i \in Nat /\ i + 1 \in DOMAIN backlog
                                    /\ backlog'[i] = backlog[i + 1]
  BY <1>1
<1>3. SocketsTypeOK'
  BY <1>1, <1>2 DEF SocketsInv, SocketsTypeOK, SockStates
<1>4. OnePlace'
  BY <1>1, <1>2 DEF SocketsInv, OnePlace
<1> QED BY <1>1, <1>3, <1>4 DEF SocketsInv

\* read()
LEMMA ReadChunkKeeps ==
    ASSUME SocketsInv, NEW c \in Clients, ReadChunk(c)
    PROVE  /\ SocketsInv'
           /\ ChunkEnd(c) \in 1..MaxBytes /\ ChunkEnd(c) - rcvd[c] \in 1..MaxBytes
           /\ backlog' = backlog /\ fdc' = fdc
<1> USE DEF SocketsInv
<1>1. rcvd[c] \in 0..MaxBytes /\ sent[c] \in 0..MaxBytes /\ rcvd[c] < sent[c]
  BY DEF SocketsTypeOK, ReadChunk, HasBytes
<1>2. ChunkEnd(c) \in 1..MaxBytes /\ ChunkEnd(c) - rcvd[c] \in 1..MaxBytes
  BY <1>1, SocketsAssumption DEF ChunkEnd
<1>3. SocketsTypeOK'
  <2>1. rcvd' = [rcvd EXCEPT ![c] = ChunkEnd(c)] /\ ChunkEnd(c) \in 0..MaxBytes
    BY <1>2, SocketsAssumption DEF ReadChunk
  <2>2. rcvd' \in [Clients -> 0..MaxBytes]
    BY <2>1 DEF SocketsTypeOK
  <2> QED BY <2>2 DEF SocketsTypeOK, ReadChunk
<1> QED BY <1>2, <1>3 DEF ReadChunk, OnePlace

\* read() at the end of the stream.
LEMMA ReadEndKeeps ==
    ASSUME SocketsInv, NEW c \in Clients, ReadEnd(c)
    PROVE  SocketsInv' /\ backlog' = backlog /\ fdc' = fdc
<1>1. SocketsTypeOK'
  BY DEF SocketsInv, SocketsTypeOK, ReadEnd, streamVars, SockStates
<1> QED BY <1>1 DEF SocketsInv, ReadEnd, OnePlace

\* write() of bytes that are well formed.
LEMMA WriteBytesKeeps ==
    ASSUME SocketsInv, NEW c \in Clients, NEW b \in Seq(Clients \X (1..MaxBytes)),
           WriteBytes(c, b)
    PROVE  SocketsInv' /\ backlog' = backlog /\ fdc' = fdc
<1> USE DEF SocketsInv
<1>1. unread[c] \in 0..SndBuf /\ Len(b) \in Nat /\ Len(b) <= SndBuf - unread[c]
  BY DEF SocketsTypeOK, WriteBytes, Room
<1>2. unread[c] + Len(b) \in 0..SndBuf
  BY <1>1, SocketsAssumption
<1>3. echo[c] \o b \in Seq(Clients \X (1..MaxBytes))
  BY DEF SocketsTypeOK
<1>4. SocketsTypeOK'
  BY <1>2, <1>3 DEF SocketsTypeOK, WriteBytes
<1> QED BY <1>4 DEF WriteBytes, OnePlace

\* Bytes(c, from, to) are bytes of client c.
LEMMA BytesType ==
    ASSUME NEW c \in Clients, NEW from \in Nat, NEW to \in from..MaxBytes
    PROVE  Bytes(c, from, to) \in Seq(Clients \X (1..MaxBytes))
<1>1. to - from \in Nat
  BY SocketsAssumption
<1>2. \A i \in 1..(to - from) : <<c, from + i>> \in Clients \X (1..MaxBytes)
  BY SocketsAssumption
<1> QED BY <1>1, <1>2 DEF Bytes

\* write() on a reset connection.
LEMMA WriteResetKeeps ==
    ASSUME SocketsInv, NEW c \in Clients, WriteReset(c)
    PROVE  SocketsInv' /\ backlog' = backlog /\ fdc' = fdc
<1>1. SocketsTypeOK'
  BY DEF SocketsInv, SocketsTypeOK, WriteReset, streamVars, SockStates
<1> QED BY <1>1 DEF SocketsInv, WriteReset, OnePlace

\* close()
LEMMA CloseKeeps ==
    ASSUME SocketsInv, NEW fd \in FDs, CloseFd(fd)
    PROVE  /\ SocketsInv'
           /\ backlog' = backlog
           /\ fdc' = [fdc EXCEPT ![fd] = None]
<1>1. SocketsTypeOK'
  BY DEF SocketsInv, SocketsTypeOK, CloseFd, streamVars, SockStates
<1>2. OnePlace'
  <2>1. /\ fdc \in [FDs -> Clients \cup {None}]
        /\ fdc' = [fdc EXCEPT ![fd] = None]
        /\ client' = client /\ backlog' = backlog
        /\ backlog \in Seq(Clients)
    BY DEF SocketsInv, SocketsTypeOK, CloseFd
  <2>2. \A f \in FDs : fdc'[f] = None \/ fdc'[f] = fdc[f]
    BY <2>1
  <2>3. \A i \in DOMAIN backlog : \A f \in FDs : fdc'[f] # backlog[i]
    BY <2>1, <2>2, SocketsAssumption DEF SocketsInv, OnePlace
  <2> QED BY <2>1, <2>2, <2>3 DEF SocketsInv, OnePlace
<1> QED BY <1>1, <1>2 DEF SocketsInv, CloseFd

-----------------------------------------------------------------------------
(* The echo protocol: what any server over these sockets needs to know.    *)

\* What became of a connection is in line with what its client did.
SockInv ==
    /\ \A c \in Clients : /\ client[c] = "idle" => sock[c] = "none" /\ sent[c] = 0
                          /\ client[c] = "gone" => sock[c] # "ok"
                          /\ sock[c] \in {"reset", "pipe", "dead"} => client[c] = "gone"
                          /\ rcvd[c] <= sent[c]
    /\ \A i \in DOMAIN backlog : sock[backlog[i]] \notin {"none", "closed"}
    /\ \A fd \in FDs : fdc[fd] # None => sock[fdc[fd]] \notin {"none", "closed"}

\* What is echoed is a prefix of what was read.
PrefixInv ==
    \A c \in Clients : /\ Len(echo[c]) <= rcvd[c]
                       /\ echo[c] = Service!Stream(c, Len(echo[c]))

StreamInv == SockInv /\ PrefixInv

\* The client has reset its connection, or hung up with nothing left to read.
Finished(c) == client[c] = "gone" \/ (client[c] = "shut" /\ rcvd[c] = sent[c])

\* Nobody comes back; and a connection that works did so before, or is new.
FinishedStays == \A c \in Clients : Finished(c) => Finished(c)'
WorkedBefore  ==
    \A c \in Clients : sock'[c] = "ok" => sock[c] = "ok" \/ client[c] = "idle"

\* A step of the echo protocol, or none.
Serves == [Service!Next]_(Service!echoVars)

\* The types that matter here.
LEMMA SocketTypes ==
    ASSUME SocketsInv
    PROVE  /\ OnePlace
           /\ client \in [Clients -> ClientStates] /\ sock \in [Clients -> SockStates]
           /\ sent \in [Clients -> Nat] /\ rcvd \in [Clients -> Nat]
           /\ \A c \in Clients : /\ sent[c] \in Nat /\ rcvd[c] \in Nat
                                 /\ Len(echo[c]) \in Nat
           /\ DOMAIN echo = Clients
           /\ backlog \in Seq(Clients) /\ fdc \in [FDs -> Clients \cup {None}]
           /\ \A i \in DOMAIN backlog : backlog[i] \in Clients
           /\ \A fd \in FDs : fdc[fd] # None => fdc[fd] \in Clients
<1>1. MaxBytes \in Nat /\ 0..MaxBytes \subseteq Nat
  BY SocketsAssumption
<1>2. /\ client \in [Clients -> ClientStates] /\ sock \in [Clients -> SockStates]
      /\ sent \in [Clients -> Nat] /\ rcvd \in [Clients -> Nat]
      /\ backlog \in Seq(Clients) /\ fdc \in [FDs -> Clients \cup {None}]
      /\ echo \in [Clients -> Seq(Clients \X (1..MaxBytes))]
  BY <1>1 DEF SocketsInv, SocketsTypeOK
<1>3. \A c \in Clients : /\ sent[c] \in Nat /\ rcvd[c] \in Nat
                         /\ echo[c] \in Seq(Clients \X (1..MaxBytes))
                         /\ Len(echo[c]) \in Nat
  BY <1>2
<1> QED BY <1>2, <1>3 DEF SocketsInv

\* Initially nobody has sent anything.
LEMMA InitStreams == SocketsInit => StreamInv /\ Service!Init
<1> SUFFICES ASSUME SocketsInit PROVE StreamInv /\ Service!Init
  OBVIOUS
<1>1. SockInv
  BY DEF SocketsInit, SockInv
<1>2. PrefixInv
  <2> SUFFICES ASSUME NEW c \in Clients
               PROVE  /\ Len(echo[c]) <= rcvd[c]
                      /\ echo[c] = Service!Stream(c, Len(echo[c]))
    BY DEF PrefixInv
  <2>1. echo[c] = <<>> /\ Len(echo[c]) = 0 /\ rcvd[c] = 0
    BY DEF SocketsInit
  <2>2. Service!Stream(c, 0) = <<>>
    BY DEF Service!Stream
  <2> QED BY <2>1, <2>2
<1>3. Service!Init
  BY DEF SocketsInit, Service!Init
<1> QED BY <1>1, <1>2, <1>3 DEF StreamInv

\* A step that the protocol does not see.
LEMMA Unseen ==
    ASSUME UNCHANGED <<sent, echo, client>>,
           \A c \in Clients : sock'[c] = "closed" <=> sock[c] = "closed"
    PROVE  Serves
<1>1. /\ {c \in Clients : client'[c] \in {"shut", "gone"}} =
            {c \in Clients : client[c] \in {"shut", "gone"}}
      /\ {c \in Clients : client'[c] = "gone"} = {c \in Clients : client[c] = "gone"}
      /\ {c \in Clients : sock'[c] = "closed"} = {c \in Clients : sock[c] = "closed"}
  OBVIOUS
<1> QED BY <1>1 DEF Serves, Service!echoVars

\* A step that leaves the sockets alone.
LEMMA SameStreams ==
    ASSUME StreamInv, UNCHANGED sockVars
    PROVE  StreamInv' /\ Serves /\ FinishedStays /\ WorkedBefore
<1>1. UNCHANGED <<client, sent, rcvd, echo, sock, backlog, fdc>>
  BY DEF sockVars, streamVars
<1> QED BY <1>1, Unseen
        DEF StreamInv, SockInv, PrefixInv, Finished, FinishedStays, WorkedBefore

\* A step of connection c's socket that the protocol does not see.
LEMMA SocketStep ==
    ASSUME SocketsInv, StreamInv, NEW c \in Clients,
           UNCHANGED <<client, sent, rcvd, echo, backlog, fdc>>,
           sock' = [sock EXCEPT ![c] = IF @ = "reset" THEN "dead" ELSE @]
    PROVE  StreamInv' /\ Serves /\ FinishedStays /\ WorkedBefore
<1>1. \A d \in Clients : sock'[d] = sock[d] \/ (sock[d] = "reset" /\ sock'[d] = "dead")
  BY SocketTypes
<1>2. SockInv'
  BY <1>1, SocketTypes DEF StreamInv, SockInv
<1>3. PrefixInv'
  BY DEF StreamInv, PrefixInv
<1> QED BY <1>1, <1>2, <1>3, Unseen DEF StreamInv, Finished, FinishedStays, WorkedBefore

\* A step of client c that no other client notices.
LEMMA ClientMoves ==
    ASSUME SocketsInv, StreamInv, NEW c \in Clients,
           UNCHANGED <<rcvd, echo, fdc>>,
           \A d \in Clients \ {c} : /\ client'[d] = client[d] /\ sock'[d] = sock[d]
                                    /\ sent'[d] = sent[d],
           \A i \in DOMAIN backlog' : \/ backlog'[i] = c
                                      \/ i \in DOMAIN backlog /\ backlog'[i] = backlog[i],
           client'[c] # "idle",
           client'[c] = "gone" => sock'[c] # "ok",
           sock'[c] \in {"reset", "pipe", "dead"} => client'[c] = "gone",
           sock'[c] \in {"none", "closed"} => sock'[c] = sock[c] /\ backlog' = backlog,
           rcvd[c] <= sent'[c],
           Finished(c) => Finished(c)',
           sock'[c] = "ok" => sock[c] = "ok" \/ client[c] = "idle"
    PROVE  StreamInv' /\ FinishedStays /\ WorkedBefore
<1>1. \A d \in Clients : /\ client'[d] = "idle" => sock'[d] = "none" /\ sent'[d] = 0
                         /\ client'[d] = "gone" => sock'[d] # "ok"
                         /\ sock'[d] \in {"reset", "pipe", "dead"} => client'[d] = "gone"
                         /\ rcvd[d] <= sent'[d]
  BY DEF StreamInv, SockInv
<1>2. \A i \in DOMAIN backlog' : sock'[backlog'[i]] \notin {"none", "closed"}
  <2> SUFFICES ASSUME NEW i \in DOMAIN backlog'
               PROVE  sock'[backlog'[i]] \notin {"none", "closed"}
    OBVIOUS
  <2>1. CASE backlog' = backlog
    BY <2>1, SocketTypes DEF StreamInv, SockInv
  <2>2. CASE backlog' # backlog
    <3>1. CASE backlog'[i] = c
      BY <2>2, <3>1
    <3>2. CASE backlog'[i] # c
      <4>1. i \in DOMAIN backlog /\ backlog'[i] = backlog[i] /\ backlog[i] \in Clients \ {c}
        BY <3>2, SocketTypes
      <4> QED BY <4>1 DEF StreamInv, SockInv
    <3> QED BY <3>1, <3>2
  <2> QED BY <2>1, <2>2
<1>3. \A fd \in FDs : fdc[fd] # None => sock'[fdc[fd]] \notin {"none", "closed"}
  BY SocketTypes DEF StreamInv, SockInv
<1>4. PrefixInv'
  BY DEF StreamInv, PrefixInv
<1>5. \A d \in Clients \ {c} : Finished(d)' <=> Finished(d)
  BY DEF Finished
<1> QED BY <1>1, <1>2, <1>3, <1>4, <1>5
        DEF StreamInv, SockInv, FinishedStays, WorkedBefore

\* Clients connect, send, read, hang up and reset: the protocol's own steps.
LEMMA ClientStreams ==
    ASSUME SocketsInv, StreamInv, NEW c \in Clients, ClientStep(c) \/ Connect(c)
    PROVE  StreamInv' /\ Serves /\ FinishedStays /\ WorkedBefore
<1>1. /\ client \in [Clients -> ClientStates] /\ sock \in [Clients -> SockStates]
      /\ sent \in [Clients -> Nat] /\ rcvd[c] \in Nat /\ sent[c] \in Nat
      /\ backlog \in Seq(Clients)
  BY SocketTypes
<1>2. /\ client[c] = "idle" => sock[c] = "none" /\ sent[c] = 0
      /\ client[c] = "gone" => sock[c] # "ok"
      /\ sock[c] \in {"reset", "pipe", "dead"} => client[c] = "gone"
      /\ rcvd[c] <= sent[c]
  BY DEF StreamInv, SockInv
<1>3. CASE SendByte(c)
  <2>1. /\ client[c] = "open" /\ sent' = [sent EXCEPT ![c] = @ + 1]
        /\ UNCHANGED <<client, rcvd, echo, sock, backlog, fdc>>
    BY <1>3 DEF SendByte
  <2>2. rcvd[c] <= sent'[c] /\ \A d \in Clients \ {c} : sent'[d] = sent[d]
    BY <1>1, <1>2, <2>1
  <2>3. StreamInv' /\ FinishedStays /\ WorkedBefore
    BY <1>2, <2>1, <2>2, ClientMoves DEF Finished
  <2>4. Service!SendByte(c)
    BY <2>1 DEF Service!SendByte
  <2> QED BY <2>3, <2>4 DEF Serves, Service!Next
<1>4. CASE ReadEcho(c)
  <2>1. UNCHANGED <<client, sent, rcvd, echo, sock, backlog, fdc>>
    BY <1>4 DEF ReadEcho
  <2> QED BY <2>1, Unseen
          DEF StreamInv, SockInv, PrefixInv, Finished, FinishedStays, WorkedBefore
<1>5. CASE HangUp(c)
  <2>1. /\ client[c] = "open" /\ client' = [client EXCEPT ![c] = "shut"]
        /\ UNCHANGED <<sent, rcvd, echo, sock, backlog, fdc>>
    BY <1>5 DEF HangUp, streamVars
  <2>2. client'[c] = "shut" /\ \A d \in Clients \ {c} : client'[d] = client[d]
    BY <1>1, <2>1
  <2>3. StreamInv' /\ FinishedStays /\ WorkedBefore
    BY <1>2, <2>1, <2>2, ClientMoves DEF Finished
  <2>4. Service!HangUp(c)
    BY <2>1, <2>2 DEF Service!HangUp
  <2> QED BY <2>3, <2>4 DEF Serves, Service!Next
<1>6. CASE Abort(c)
  <2>1. /\ client[c] \in {"open", "shut"} /\ client' = [client EXCEPT ![c] = "gone"]
        /\ sock' = [sock EXCEPT ![c] =
                      IF @ # "ok" THEN @
                      ELSE IF client[c] = "shut" THEN "pipe" ELSE "reset"]
        /\ UNCHANGED <<sent, rcvd, echo, backlog, fdc>>
    BY <1>6 DEF Abort, streamVars
  <2>2. /\ client'[c] = "gone" /\ sock'[c] # "ok"
        /\ sock'[c] \in {"none", "closed"} <=> sock[c] \in {"none", "closed"}
        /\ sock'[c] \in {"none", "closed"} => sock'[c] = sock[c]
        /\ \A d \in Clients \ {c} : client'[d] = client[d] /\ sock'[d] = sock[d]
    BY <1>1, <2>1
  <2>3. StreamInv' /\ FinishedStays /\ WorkedBefore
    BY <1>2, <2>1, <2>2, ClientMoves DEF Finished
  <2>4. /\ {d \in Clients : sock'[d] = "closed"} = {d \in Clients : sock[d] = "closed"}
        /\ {d \in Clients : client'[d] \in {"shut", "gone"}} =
              {d \in Clients : client[d] \in {"shut", "gone"}} \cup {c}
        /\ {d \in Clients : client'[d] = "gone"} =
              {d \in Clients : client[d] = "gone"} \cup {c}
    BY <2>2
  <2>5. Service!HangUp(c)
    BY <2>1, <2>4 DEF Service!HangUp
  <2> QED BY <2>3, <2>5 DEF Serves, Service!Next
<1>7. CASE Connect(c)
  <2>1. /\ client[c] = "idle" /\ client' = [client EXCEPT ![c] = "open"]
        /\ sock' = [sock EXCEPT ![c] = "ok"]
        /\ backlog' = Append(backlog, c)
        /\ UNCHANGED <<sent, rcvd, echo, fdc>>
    BY <1>7 DEF Connect, streamVars
  <2>2. /\ client'[c] = "open" /\ sock'[c] = "ok" /\ sock[c] = "none" /\ rcvd[c] = 0
        /\ \A d \in Clients \ {c} : client'[d] = client[d] /\ sock'[d] = sock[d]
    BY <1>1, <1>2, <2>1
  <2>3. \A i \in DOMAIN backlog' : \/ backlog'[i] = c
                                   \/ i \in DOMAIN backlog /\ backlog'[i] = backlog[i]
    BY <1>1, <2>1
  <2>4. StreamInv' /\ FinishedStays /\ WorkedBefore
    BY <1>2, <2>1, <2>2, <2>3, ClientMoves DEF Finished
  <2>5. /\ {d \in Clients : sock'[d] = "closed"} = {d \in Clients : sock[d] = "closed"}
        /\ {d \in Clients : client'[d] \in {"shut", "gone"}} =
              {d \in Clients : client[d] \in {"shut", "gone"}}
        /\ {d \in Clients : client'[d] = "gone"} = {d \in Clients : client[d] = "gone"}
    BY <2>1, <2>2
  <2> QED BY <2>1, <2>4, <2>5 DEF Serves, Service!echoVars
<1> QED BY <1>3, <1>4, <1>5, <1>6, <1>7 DEF ClientStep

\* The next bytes of a stream after a prefix of it make a longer prefix.
LEMMA StreamGrows ==
    ASSUME NEW c, NEW a \in Nat, NEW n \in Nat, a <= n
    PROVE  /\ Service!Stream(c, a) \o Bytes(c, a, n) = Service!Stream(c, n)
           /\ Len(Service!Stream(c, n)) = n
<1>1. PICK m \in Nat : m = n - a /\ n = a + m
  OBVIOUS
<1>2. PICK S : \A i \in Nat : <<c, i>> \in S
  <2>1. \A i \in Nat : <<c, i>> \in {<<c, j>> : j \in Nat}
    OBVIOUS
  <2> QED BY <2>1
<1> DEFINE P == [i \in 1..a |-> <<c, i>>]
           B == [i \in 1..m |-> <<c, a + i>>]
           R == [i \in 1..n |-> <<c, i>>]
<1>3. /\ P \in Seq(S) /\ Len(P) = a
      /\ R \in Seq(S) /\ Len(R) = n
  BY <1>2
<1>4. B \in Seq(S) /\ Len(B) = m
  <2>1. \A i \in 1..m : <<c, a + i>> \in S
    BY <1>2
  <2> QED BY <2>1
<1>5. P \o B \in Seq(S) /\ Len(P \o B) = n
  BY <1>1, <1>3, <1>4
<1>6. ASSUME NEW i \in 1..n
      PROVE  (P \o B)[i] = R[i]
  <2>1. CASE i <= a
    BY <1>3, <1>4, <2>1
  <2>2. CASE ~(i <= a)
    <3>1. i - a \in 1..m /\ a + (i - a) = i
      BY <1>1, <2>2
    <3>2. (P \o B)[i] = B[i - a]
      BY <1>1, <1>3, <1>4, <2>2
    <3> QED BY <3>1, <3>2
  <2> QED BY <2>1, <2>2
<1> HIDE DEF P, B, R
<1>7. P \o B = R
  BY <1>3, <1>5, <1>6, SeqEqual
<1> USE DEF P, B, R
<1> QED BY <1>1, <1>3, <1>7 DEF Service!Stream, Bytes

\* accept4
LEMMA AcceptStreams ==
    ASSUME SocketsInv, StreamInv, NEW fd \in FDs, AcceptOn(fd)
    PROVE  StreamInv' /\ Serves /\ FinishedStays /\ WorkedBefore
<1>1. /\ UNCHANGED <<client, sent, rcvd, echo, sock>>
      /\ fdc' = [fdc EXCEPT ![fd] = Head(backlog)]
      /\ \A i \in DOMAIN backlog' : \E j \in DOMAIN backlog : backlog'[i] = backlog[j]
      /\ \E j \in DOMAIN backlog : Head(backlog) = backlog[j]
  BY AcceptKeeps DEF AcceptOn, streamVars
<1>2. \A g \in FDs : fdc'[g] = fdc[g] \/ fdc'[g] = Head(backlog)
  BY <1>1, SocketTypes
<1>3. SockInv'
  BY <1>1, <1>2 DEF StreamInv, SockInv
<1>4. PrefixInv'
  BY <1>1 DEF StreamInv, PrefixInv
<1> QED BY <1>1, <1>3, <1>4, Unseen DEF StreamInv, Finished, FinishedStays, WorkedBefore

\* accept4, and close(): the protocol would not have it.
LEMMA DropStreams ==
    ASSUME SocketsInv, StreamInv, AcceptAndDrop
    PROVE  StreamInv' /\ FinishedStays /\ WorkedBefore
<1>1. PICK c : c = Head(backlog)
  OBVIOUS
<1>2. /\ UNCHANGED <<client, sent, rcvd, echo, fdc>>
      /\ sock' = [sock EXCEPT ![c] = "closed"]
      /\ backlog' = Tail(backlog) /\ backlog # <<>> /\ backlog \in Seq(Clients)
  BY <1>1, SocketTypes DEF AcceptAndDrop, streamVars
<1>3. /\ c \in Clients /\ 1 \in DOMAIN backlog /\ c = backlog[1]
      /\ \A i \in DOMAIN backlog' : /\ i \in Nat \ {0} /\ i + 1 \in DOMAIN backlog
                                    /\ backlog'[i] = backlog[i + 1]
  BY <1>1, <1>2
<1>4. sock'[c] = "closed" /\ \A d \in Clients : d # c => sock'[d] = sock[d]
  BY <1>2, <1>3, SocketTypes
<1>5. \A i \in DOMAIN backlog' : backlog'[i] # c /\ backlog'[i] \in Clients
  <2>1. \A i \in DOMAIN backlog' : i + 1 # 1
    BY <1>3
  <2> QED BY <1>3, <2>1, SocketTypes DEF OnePlace
<1>6. \A fd \in FDs : fdc[fd] # None => fdc[fd] # c /\ fdc[fd] \in Clients
  BY <1>3, SocketTypes DEF OnePlace
<1>7. SockInv'
  <2>1. client[c] # "idle"
    BY <1>3, SocketTypes DEF OnePlace
  <2>2. \A d \in Clients :
           /\ client[d] = "idle" => sock'[d] = "none" /\ sent[d] = 0
           /\ client[d] = "gone" => sock'[d] # "ok"
           /\ sock'[d] \in {"reset", "pipe", "dead"} => client[d] = "gone"
           /\ rcvd[d] <= sent[d]
    BY <1>4, <2>1 DEF StreamInv, SockInv
  <2>3. \A i \in DOMAIN backlog' : sock'[backlog'[i]] \notin {"none", "closed"}
    BY <1>3, <1>4, <1>5 DEF StreamInv, SockInv
  <2>4. \A fd \in FDs : fdc[fd] # None => sock'[fdc[fd]] \notin {"none", "closed"}
    BY <1>4, <1>6 DEF StreamInv, SockInv
  <2> QED BY <1>2, <2>2, <2>3, <2>4 DEF SockInv
<1>8. PrefixInv'
  BY <1>2 DEF StreamInv, PrefixInv
<1>9. FinishedStays /\ WorkedBefore
  BY <1>2, <1>4 DEF Finished, FinishedStays, WorkedBefore
<1> QED BY <1>7, <1>8, <1>9 DEF StreamInv

\* read() of some bytes.
LEMMA ReadStreams ==
    ASSUME SocketsInv, StreamInv, NEW c \in Clients, ReadChunk(c)
    PROVE  /\ StreamInv' /\ Serves /\ FinishedStays /\ WorkedBefore
           /\ rcvd' = [rcvd EXCEPT ![c] = ChunkEnd(c)]
           /\ ChunkEnd(c) \in Nat /\ rcvd[c] < ChunkEnd(c) /\ ChunkEnd(c) <= sent[c]
<1>1. /\ UNCHANGED <<client, sent, echo, sock, backlog, fdc>>
      /\ rcvd' = [rcvd EXCEPT ![c] = ChunkEnd(c)]
      /\ rcvd[c] < sent[c]
  BY DEF ReadChunk, HasBytes
<1>2. ChunkEnd(c) \in Nat /\ rcvd[c] < ChunkEnd(c) /\ ChunkEnd(c) <= sent[c]
  BY <1>1, SocketTypes, SocketsAssumption DEF ChunkEnd
<1>3. rcvd'[c] = ChunkEnd(c) /\ \A d \in Clients : d # c => rcvd'[d] = rcvd[d]
  BY <1>1, SocketTypes
<1>4. SockInv'
  BY <1>1, <1>2, <1>3 DEF StreamInv, SockInv
<1>5. PrefixInv'
  <2> SUFFICES ASSUME NEW d \in Clients PROVE Len(echo[d]) <= rcvd'[d]
    BY <1>1 DEF StreamInv, PrefixInv
  <2>1. Len(echo[d]) <= rcvd[d] /\ Len(echo[d]) \in Nat /\ rcvd[d] \in Nat
    BY SocketTypes DEF StreamInv, PrefixInv
  <2> QED BY <1>2, <1>3, <2>1
<1>6. FinishedStays
  BY <1>1, <1>3, SocketTypes DEF Finished, FinishedStays
<1> QED BY <1>1, <1>2, <1>4, <1>5, <1>6, Unseen DEF StreamInv, WorkedBefore

\* read() at the end of the stream: the client is finished.
LEMMA ReadEndStreams ==
    ASSUME SocketsInv, StreamInv, NEW c \in Clients, Accepted(c), ReadEnd(c)
    PROVE  StreamInv' /\ Serves /\ FinishedStays /\ WorkedBefore /\ Finished(c)
<1>1. /\ UNCHANGED <<client, sent, rcvd, echo, backlog, fdc>>
      /\ sock' = [sock EXCEPT ![c] = IF @ = "reset" THEN "dead" ELSE @]
      /\ AtEnd(c)
  BY DEF ReadEnd, streamVars
<1>2. Finished(c)
  <2>1. rcvd[c] <= sent[c] /\ ~(rcvd[c] < sent[c]) /\ rcvd[c] \in Nat /\ sent[c] \in Nat
    BY <1>1, SocketTypes DEF AtEnd, HasBytes, StreamInv, SockInv
  <2>2. client[c] = "shut" \/ sock[c] # "ok"
    BY <1>1 DEF AtEnd
  <2>3. sock[c] \notin {"none", "closed"} /\ sock[c] \in SockStates
    BY SocketsAssumption, SocketTypes DEF Accepted, StreamInv, SockInv
  <2> QED BY <2>1, <2>2, <2>3 DEF Finished, StreamInv, SockInv, SockStates
<1> QED BY <1>1, <1>2, SocketStep

\* write() of the next bytes of the stream, of those that were read.
LEMMA WriteStreams ==
    ASSUME SocketsInv, StreamInv, NEW c \in Clients, NEW n \in Nat,
           Len(echo[c]) < n, n <= rcvd[c],
           WriteBytes(c, Bytes(c, Len(echo[c]), n))
    PROVE  /\ StreamInv' /\ Serves /\ FinishedStays /\ WorkedBefore
           /\ Len(echo'[c]) = n /\ \A d \in Clients : d # c => echo'[d] = echo[d]
<1> DEFINE at == Len(echo[c])
<1>1. at \in Nat /\ at <= n
  BY SocketTypes
<1>2. /\ UNCHANGED <<client, sent, rcvd, sock, backlog, fdc>> /\ sock[c] = "ok"
      /\ echo' = [echo EXCEPT ![c] = Service!Stream(c, n)]
  <2>1. /\ UNCHANGED <<client, sent, rcvd, sock, backlog, fdc>> /\ sock[c] = "ok"
        /\ echo' = [echo EXCEPT ![c] = @ \o Bytes(c, at, n)]
    BY DEF WriteBytes
  <2>2. echo[c] = Service!Stream(c, at)
    BY DEF StreamInv, PrefixInv
  <2> HIDE DEF at
  <2>3. Service!Stream(c, at) \o Bytes(c, at, n) = Service!Stream(c, n)
    BY <1>1, StreamGrows
  <2> QED BY <2>1, <2>2, <2>3
<1>3. /\ echo'[c] = Service!Stream(c, n) /\ Len(echo'[c]) = n
      /\ \A d \in Clients : d # c => echo'[d] = echo[d]
  BY <1>2, SocketTypes, StreamGrows
<1>4. SockInv'
  BY <1>2 DEF StreamInv, SockInv
<1>5. PrefixInv'
  BY <1>2, <1>3 DEF StreamInv, PrefixInv
<1>6. Service!EchoBytes(c)
  <2>1. n <= sent[c]
    BY SocketTypes DEF StreamInv, SockInv
  <2>2. n \in Len(echo[c]) + 1 .. sent[c]
    BY <1>1, <2>1, SocketTypes
  <2> QED BY <1>2, <2>2 DEF Service!EchoBytes
<1> QED BY <1>2, <1>3, <1>4, <1>5, <1>6
        DEF StreamInv, Finished, FinishedStays, WorkedBefore, Serves, Service!Next

\* write() on a reset connection.
LEMMA ResetStreams ==
    ASSUME SocketsInv, StreamInv, NEW c \in Clients, WriteReset(c)
    PROVE  StreamInv' /\ Serves /\ FinishedStays /\ WorkedBefore
<1>1. /\ UNCHANGED <<client, sent, rcvd, echo, backlog, fdc>>
      /\ sock[c] = "reset" /\ sock' = [sock EXCEPT ![c] = "dead"]
  BY DEF WriteReset, streamVars
<1>2. sock' = [sock EXCEPT ![c] = IF @ = "reset" THEN "dead" ELSE @]
  BY <1>1
<1> QED BY <1>1, <1>2, SocketStep

\* close() of a connection whose client is finished; if it works, all that was read
\* must be on its way back.
LEMMA CloseStreams ==
    ASSUME SocketsInv, StreamInv, NEW c \in Clients, NEW fd \in FDs, fdc[fd] = c,
           CloseFd(fd), Finished(c), sock[c] = "ok" => Len(echo[c]) = rcvd[c]
    PROVE  StreamInv' /\ Serves /\ FinishedStays /\ WorkedBefore
<1>1. /\ UNCHANGED <<client, sent, rcvd, echo, backlog>>
      /\ fdc' = [fdc EXCEPT ![fd] = None]
      /\ sock' = [sock EXCEPT ![c] = "closed"]
  BY SocketsAssumption DEF CloseFd, streamVars
<1>2. /\ sock'[c] = "closed" /\ \A d \in Clients : d # c => sock'[d] = sock[d]
      /\ fdc'[fd] = None /\ \A f \in FDs : f # fd => fdc'[f] = fdc[f]
  BY <1>1, SocketTypes
<1>3. SockInv'
  <2>1. \A f \in FDs : f # fd /\ fdc[f] # None => fdc[f] # c /\ fdc[f] \in Clients
    BY SocketsAssumption, SocketTypes DEF OnePlace
  <2>2. \A i \in DOMAIN backlog : backlog[i] # c /\ backlog[i] \in Clients
    BY SocketTypes DEF OnePlace
  <2>3. client[c] # "idle"
    BY SocketsAssumption, SocketTypes DEF OnePlace
  <2>4. \A d \in Clients :
           /\ client[d] = "idle" => sock'[d] = "none" /\ sent[d] = 0
           /\ client[d] = "gone" => sock'[d] # "ok"
           /\ sock'[d] \in {"reset", "pipe", "dead"} => client[d] = "gone"
           /\ rcvd[d] <= sent[d]
    BY <1>2, <2>3 DEF StreamInv, SockInv
  <2>5. \A i \in DOMAIN backlog : sock'[backlog[i]] \notin {"none", "closed"}
    BY <1>2, <2>2 DEF StreamInv, SockInv
  <2>6. \A f \in FDs : fdc'[f] # None => sock'[fdc'[f]] \notin {"none", "closed"}
    BY <1>2, <2>1 DEF StreamInv, SockInv
  <2> QED BY <1>1, <2>4, <2>5, <2>6 DEF SockInv
<1>4. PrefixInv'
  BY <1>1 DEF StreamInv, PrefixInv
<1>5. FinishedStays /\ WorkedBefore
  BY <1>1, <1>2 DEF Finished, FinishedStays, WorkedBefore
<1>6. Service!End(c)
  <2>1. \/ client[c] = "gone"
        \/ client[c] = "shut" /\ echo[c] = Service!Stream(c, sent[c])
    <3>1. CASE client[c] = "shut" /\ rcvd[c] = sent[c]
      <4>1. sock[c] = "ok"
        <5>1. sock[c] \notin {"none", "closed"} /\ sock[c] \in SockStates
          BY SocketsAssumption, SocketTypes DEF StreamInv, SockInv
        <5> QED BY <3>1, <5>1 DEF StreamInv, SockInv, SockStates
      <4> QED BY <3>1, <4>1 DEF StreamInv, PrefixInv
    <3> QED BY <3>1 DEF Finished
  <2>2. {d \in Clients : sock'[d] = "closed"} = {d \in Clients : sock[d] = "closed"} \cup {c}
    BY <1>2
  <2> QED BY <1>1, <2>1, <2>2 DEF Service!End
<1> QED BY <1>3, <1>4, <1>5, <1>6 DEF StreamInv, Serves, Service!Next

=============================================================================
