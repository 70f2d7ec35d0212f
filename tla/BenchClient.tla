----------------------------- MODULE BenchClient -----------------------------
(***************************************************************************)
(* echo_server/bench/bench_client.cpp: run_benchmark().  NumThreads        *)
(* threads wait for start_flag, open their share of the connections one    *)
(* after the other, and on each send Requests messages, reading the echo   *)
(* of one before they send the next; the main thread joins them and        *)
(* reports.  A thread has one connection at a time, which here has its     *)
(* name.  The bytes of a message are all alike in the code: only their     *)
(* number is kept.                                                         *)
(*                                                                         *)
(* External: the sockets, and an echo server that holds at most HoldMax    *)
(* bytes of a connection and, if Faulty, may end a connection at any time. *)
(***************************************************************************)
EXTENDS Integers

CONSTANTS NumThreads, Connections, Requests,
          MsgLen,   \* message_size
          UpBuf,    \* bytes the kernels hold on the way to the server
          DownBuf,  \* ... and on the way back
          HoldMax,
          Faulty    \* connections may end, socket() or connect() may fail

ASSUME BenchAssumption ==
    /\ NumThreads \in Nat \ {0} /\ Connections \in Nat /\ Requests \in Nat
    /\ {MsgLen, UpBuf, DownBuf, HoldMax} \subseteq Nat \ {0}
    /\ Faulty \in BOOLEAN

Threads == 0..NumThreads - 1

VARIABLES
    spawned,     \* how many threads main has created
    start_flag,
    report,      \* what main returns: "none" yet, "empty" ({0, 0, 0}) or "stats"
    pc,          \* the place of each thread in thread_func()
    job,         \* its connections still to open, requests still to make on this
                 \* one, and bytes sent and received of the present request
    conn,        \* its connection: bytes on the way up, held by the server and on
                 \* the way down, and how the client's end stands
    latencies,   \* latencies_ms.size()
    completed,
    killed,      \* by SIGPIPE
    connected,   \* history: how many connections were opened ...
    faulted      \* ... and whether any failed or ended early

mainVars  == <<spawned, start_flag, report>>
countVars == <<latencies, completed, connected, faulted>>
vars      == <<mainVars, pc, job, conn, countVars, killed>>

PCs   == {"none", "gate", "open", "request", "write", "read", "record", "count",
          "done"}
\* "reset" has ECONNRESET pending; on "pipe" a write raises SIGPIPE.
Links == {"open", "eof", "reset", "pipe"}

Jobs  == [todo : 0..Connections, requests : 0..Requests, sent : 0..MsgLen,
          recvd : 0..MsgLen]
Conns == [up : 0..UpBuf, held : 0..HoldMax, down : 0..DownBuf, link : Links]

NoJob == [todo |-> 0, requests |-> 0, sent |-> 0, recvd |-> 0]
Fresh == [up |-> 0, held |-> 0, down |-> 0, link |-> "open"]

Init ==
    /\ spawned = 0 /\ start_flag = FALSE /\ report = "none"
    /\ pc = [t \in Threads |-> "none"]
    /\ job = [t \in Threads |-> NoJob]
    /\ conn = [t \in Threads |-> Fresh]
    /\ latencies = 0 /\ completed = 0 /\ connected = 0 /\ faulted = FALSE
    /\ killed = FALSE

-----------------------------------------------------------------------------
(* The main thread.                                                        *)

\* Mutant: the remainder is not handed out.
EvenShare(t) == Connections \div NumThreads

\* conns_per, and one of the extra connections for each of the first threads.
Share(t) ==
    Connections \div NumThreads + IF t < Connections % NumThreads THEN 1 ELSE 0

Spawn ==
    /\ spawned < NumThreads
    /\ spawned' = spawned + 1
    /\ pc' = [pc EXCEPT ![spawned] = "gate"]
    /\ job' = [job EXCEPT ![spawned].todo = Share(spawned)]
    /\ UNCHANGED <<start_flag, report, conn, countVars, killed>>

Start ==
    /\ spawned = NumThreads
    /\ ~start_flag
    /\ start_flag' = TRUE
    /\ UNCHANGED <<spawned, report, pc, job, conn, countVars, killed>>

\* p99_idx of n latencies: ceil(0.99 * n) - 1, but for the rounding of doubles.
P99Index(n) == (99 * n + 99) \div 100 - 1

\* The joins, and what main makes of the counters.
Report ==
    /\ start_flag
    /\ report = "none"
    /\ \A t \in Threads : pc[t] = "done"
    /\ report' = IF latencies = 0 THEN "empty" ELSE "stats"
    /\ UNCHANGED <<spawned, start_flag, pc, job, conn, countVars, killed>>

Main == Spawn \/ Start \/ Report

-----------------------------------------------------------------------------
(* A thread: thread_func().                                                *)

Goes(t, from, to) == pc[t] = from /\ pc' = [pc EXCEPT ![t] = to]

\* while (!start_flag) yield
Gate(t) ==
    /\ start_flag
    /\ Goes(t, "gate", "open")
    /\ UNCHANGED <<mainVars, job, conn, countVars, killed>>

Open(t) ==
    /\ Goes(t, "open", "request")
    /\ job[t].todo > 0
    /\ job' = [job EXCEPT ![t].todo = @ - 1, ![t].requests = Requests]
    /\ conn' = [conn EXCEPT ![t] = Fresh]
    /\ connected' = connected + 1
    /\ UNCHANGED <<mainVars, latencies, completed, faulted, killed>>

\* socket() or connect() fails: "continue", without another attempt.
OpenFails(t) ==
    /\ Faulty
    /\ Goes(t, "open", "open")
    /\ job[t].todo > 0
    /\ job' = [job EXCEPT ![t].todo = @ - 1]
    /\ faulted' = TRUE
    /\ UNCHANGED <<mainVars, conn, latencies, completed, connected, killed>>

Return(t) ==
    /\ Goes(t, "open", "done")
    /\ job[t].todo = 0
    /\ UNCHANGED <<mainVars, job, conn, countVars, killed>>

\* Mutant: r <= requests_per_conn.
OneMoreRequest(t) ==
    /\ Goes(t, "request", "write")
    /\ job[t].requests >= 0
    /\ job' = [job EXCEPT ![t].requests = @ - 1, ![t].sent = 0, ![t].recvd = 0]
    /\ UNCHANGED <<mainVars, conn, countVars, killed>>

NextRequest(t) ==
    /\ Goes(t, "request", "write")
    /\ job[t].requests > 0
    /\ job' = [job EXCEPT ![t].requests = @ - 1, ![t].sent = 0, ![t].recvd = 0]
    /\ UNCHANGED <<mainVars, conn, countVars, killed>>

\* close(fd)
CloseConn(t) ==
    /\ Goes(t, "request", "open")
    /\ job[t].requests = 0
    /\ UNCHANGED <<mainVars, job, conn, countVars, killed>>

Writing(t) == pc[t] = "write" /\ job[t].sent < MsgLen

\* write() blocks while there is no room.
Write(t) ==
    /\ Writing(t)
    /\ conn[t].link = "open"
    /\ \E n \in 1..MsgLen - job[t].sent :
          /\ conn[t].up + n <= UpBuf
          /\ conn' = [conn EXCEPT ![t].up = @ + n]
          /\ job' = [job EXCEPT ![t].sent = @ + n]
    /\ UNCHANGED <<mainVars, pc, countVars, killed>>

\* The server has closed: the kernel takes the bytes, and the server's answers,
\* at once or later, with a reset.
WriteToClosed(t) ==
    /\ Writing(t)
    /\ conn[t].link = "eof"
    /\ \E link \in {"eof", "pipe"} : conn' = [conn EXCEPT ![t].link = link]
    /\ job' = [job EXCEPT ![t].sent = MsgLen]
    /\ UNCHANGED <<mainVars, pc, countVars, killed>>

\* ECONNRESET: "break", to the read loop.
WriteFails(t) ==
    /\ Writing(t)
    /\ conn[t].link = "reset"
    /\ conn' = [conn EXCEPT ![t].link = "pipe"]
    /\ Goes(t, "write", "read")
    /\ UNCHANGED <<mainVars, job, countVars, killed>>

WriteKills(t) ==
    /\ Writing(t)
    /\ conn[t].link = "pipe"
    /\ killed' = TRUE
    /\ UNCHANGED <<mainVars, pc, job, conn, countVars>>

WriteDone(t) ==
    /\ Goes(t, "write", "read")
    /\ job[t].sent = MsgLen
    /\ UNCHANGED <<mainVars, job, conn, countVars, killed>>

Reading(t) == pc[t] = "read" /\ job[t].recvd < MsgLen

Read(t) ==
    /\ Reading(t)
    /\ \E n \in 1..MsgLen - job[t].recvd :
          /\ n <= conn[t].down
          /\ n = conn[t].down \/ job[t].recvd + n = MsgLen
          /\ conn' = [conn EXCEPT ![t].down = @ - n]
          /\ job' = [job EXCEPT ![t].recvd = @ + n]
    /\ UNCHANGED <<mainVars, pc, countVars, killed>>

\* Mutant: if (n < 0) break, so at the end of the stream the loop reads again.
ReadFailsOnly(t) ==
    /\ Reading(t)
    /\ conn[t].down = 0 /\ conn[t].link = "reset"
    /\ conn' = [conn EXCEPT ![t].link = "pipe"]
    /\ Goes(t, "read", "record")
    /\ UNCHANGED <<mainVars, job, countVars, killed>>

\* read() returns 0 or an error: "break".
ReadEnds(t) ==
    /\ Reading(t)
    /\ conn[t].down = 0 /\ conn[t].link # "open"
    /\ conn' = [conn EXCEPT ![t].link = IF @ = "reset" THEN "pipe" ELSE @]
    /\ Goes(t, "read", "record")
    /\ UNCHANGED <<mainVars, job, countVars, killed>>

\* Mutant: one read() is taken for the whole reply.
ReadOnce(t) ==
    /\ Goes(t, "read", "record")
    /\ job[t].recvd > 0
    /\ UNCHANGED <<mainVars, job, conn, countVars, killed>>

ReadDone(t) ==
    /\ Goes(t, "read", "record")
    /\ job[t].recvd = MsgLen
    /\ UNCHANGED <<mainVars, job, conn, countVars, killed>>

\* A latency only for a full reply, under lat_mutex ...
Record(t) ==
    /\ Goes(t, "record", "count")
    /\ latencies' = latencies + IF job[t].recvd = MsgLen THEN 1 ELSE 0
    /\ UNCHANGED <<mainVars, job, conn, completed, connected, faulted, killed>>

\* ... and a completed request in any case.
Count(t) ==
    /\ Goes(t, "count", "request")
    /\ completed' = completed + 1
    /\ UNCHANGED <<mainVars, job, conn, latencies, connected, faulted, killed>>

Thread(t) ==
    \/ Gate(t) \/ Open(t) \/ OpenFails(t) \/ Return(t)
    \/ NextRequest(t) \/ CloseConn(t)
    \/ Write(t) \/ WriteToClosed(t) \/ WriteFails(t) \/ WriteKills(t)
    \/ WriteDone(t) \/ Read(t) \/ ReadEnds(t) \/ ReadDone(t)
    \/ Record(t) \/ Count(t)

-----------------------------------------------------------------------------
(* The server.                                                             *)

Connected(t) == pc[t] \in {"request", "write", "read", "record", "count"}
Served(t)    == Connected(t) /\ conn[t].link = "open"

Receive(t) ==
    /\ Served(t)
    /\ \E n \in 1..conn[t].up :
          /\ conn[t].held + n <= HoldMax
          /\ conn' = [conn EXCEPT ![t].up = @ - n, ![t].held = @ + n]
    /\ UNCHANGED <<mainVars, pc, job, countVars, killed>>

Echo(t) ==
    /\ Served(t)
    /\ \E n \in 1..conn[t].held :
          /\ conn[t].down + n <= DownBuf
          /\ conn' = [conn EXCEPT ![t].held = @ - n, ![t].down = @ + n]
    /\ UNCHANGED <<mainVars, pc, job, countVars, killed>>

\* The server closes the connection or dies: a reset if it has not read all.
End(t) ==
    /\ Faulty
    /\ Served(t)
    /\ conn' = [conn EXCEPT ![t].up = 0, ![t].held = 0,
                            ![t].link = IF conn[t].up > 0 THEN "reset" ELSE "eof"]
    /\ faulted' = TRUE
    /\ UNCHANGED <<mainVars, pc, job, latencies, completed, connected, killed>>

-----------------------------------------------------------------------------
Next ==
    /\ ~killed
    /\ \/ Main
       \/ \E t \in Threads : Thread(t) \/ Receive(t) \/ Echo(t) \/ End(t)

Spec == Init /\ [][Next]_vars

\* Threads run, and the server serves.
FairSpec ==
    /\ Spec
    /\ WF_vars(~killed /\ Main)
    /\ \A t \in Threads : /\ WF_vars(~killed /\ Thread(t))
                          /\ WF_vars(~killed /\ Receive(t))
                          /\ WF_vars(~killed /\ Echo(t))

-----------------------------------------------------------------------------
(* Properties                                                              *)

\* Every variable keeps its shape; the buffers keep their sizes.
TypeOK ==
    /\ spawned \in 0..NumThreads
    /\ start_flag \in BOOLEAN
    /\ report \in {"none", "empty", "stats"}
    /\ pc \in [Threads -> PCs]
    /\ job \in [Threads -> Jobs]
    /\ conn \in [Threads -> Conns]
    /\ {latencies, completed, connected} \subseteq Nat
    /\ faulted \in BOOLEAN
    /\ killed \in BOOLEAN

\* "Read echo (exactly message_size bytes)": what is on the way on a connection
\* belongs to the present request, so a reply, and its latency, is never made of
\* what an earlier one left.
ReplyIsOwn ==
    \A t \in Threads : Served(t) /\ pc[t] # "request" =>
        conn[t].up + conn[t].held + conn[t].down = job[t].sent - job[t].recvd

\* What the report is made of: every request of every opened connection was
\* counted, failed or not; if nothing failed, every connection was opened and
\* every request has its latency; the percentile is one of the latencies.
CountsAddUp ==
    report # "none" =>
        /\ completed = Requests * connected
        /\ latencies <= completed
        /\ report = "stats" => P99Index(latencies) \in 0..latencies - 1
        /\ ~faulted => connected = Connections /\ latencies = completed

\* "for (auto& t : threads) t.join()": whenever and wherever connections fail, the
\* benchmark reports, or SIGPIPE ends it; given that a message fits into the
\* buffers and the server together.
BenchEnds == <>(report # "none" \/ killed)

=============================================================================
