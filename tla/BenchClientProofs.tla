-------------------------- MODULE BenchClientProofs --------------------------
(***************************************************************************)
(* Type correctness, ReplyIsOwn and CountsAddUp of BenchClient, for any    *)
(* numbers of threads, connections and requests and any sizes of messages  *)
(* and buffers, and that the percentile is always one of the latencies.    *)
(***************************************************************************)
EXTENDS BenchClient, FiniteSetTheorems, TLAPS

\* ReplyIsOwn is not inductive: nothing may be left on a connection when a request
\* begins, which holds since the thread leaves the write loop of an open
\* connection with everything sent and the read loop with everything received.
Progress ==
    \A t \in Threads :
        /\ Served(t) /\ pc[t] \in {"read", "record", "count"} => job[t].sent = MsgLen
        /\ Served(t) /\ pc[t] \in {"record", "count"} => job[t].recvd = MsgLen
        /\ Served(t) /\ pc[t] = "request" =>
              conn[t].up = 0 /\ conn[t].held = 0 /\ conn[t].down = 0

BenchInv == TypeOK /\ ReplyIsOwn /\ Progress

\* ceil(0.99 * n) - 1 is a position among n latencies, for n = 1 as for any other:
\* the report never reads beyond the sorted vector.
THEOREM P99InRange ==
    ASSUME NEW n \in Nat \ {0}
    PROVE  P99Index(n) \in 0..n - 1
BY DEF P99Index

\* No thread is given more connections than there are.
LEMMA ShareBounded ==
    ASSUME NEW t \in Threads
    PROVE  Share(t) \in 0..Connections
BY BenchAssumption DEF Share, Threads

\* The sizes are positive.
LEMMA Sizes ==
    /\ MsgLen \in Nat /\ UpBuf \in Nat /\ DownBuf \in Nat /\ HoldMax \in Nat
    /\ MsgLen > 0 /\ UpBuf > 0 /\ DownBuf > 0 /\ HoldMax > 0
    /\ Connections \in Nat /\ Requests \in Nat /\ NumThreads \in Nat
  BY BenchAssumption

\* The inductive invariant holds initially.
LEMMA InitBenchInv == Init => BenchInv
<1> SUFFICES ASSUME Init PROVE BenchInv
  OBVIOUS
<1>1. TypeOK
  <2>1. NoJob \in Jobs /\ Fresh \in Conns
    BY Sizes DEF NoJob, Jobs, Fresh, Conns, Links
  <2>2. /\ pc \in [Threads -> PCs]
        /\ job \in [Threads -> Jobs]
        /\ conn \in [Threads -> Conns]
    BY <2>1 DEF Init, PCs
  <2>3. {latencies, completed, connected} \subseteq Nat /\ spawned \in 0..NumThreads
    BY Sizes DEF Init
  <2>4. /\ start_flag \in BOOLEAN /\ faulted \in BOOLEAN /\ killed \in BOOLEAN
        /\ report \in {"none", "empty", "stats"}
    BY DEF Init
  <2> QED BY <2>2, <2>3, <2>4 DEF TypeOK
<1>2. ReplyIsOwn /\ Progress
  BY DEF Init, ReplyIsOwn, Progress, Served, Connected
<1> QED BY <1>1, <1>2 DEF BenchInv

\* The main thread preserves it.
LEMMA MainBenchInv == BenchInv /\ Main => BenchInv'
<1> SUFFICES ASSUME BenchInv, Main PROVE BenchInv'
  OBVIOUS
<1> USE BenchAssumption
    DEF BenchInv, TypeOK, ReplyIsOwn, Progress, Served, Connected, PCs, countVars
<1>1. CASE Spawn
  <2>1. spawned \in Threads
    BY <1>1 DEF Spawn, Threads
  <2>2. Share(spawned) \in 0..Connections
    BY <2>1, ShareBounded
  <2>3. TypeOK'
    BY <1>1, <2>1, <2>2 DEF Spawn, Jobs
  <2>4. (ReplyIsOwn /\ Progress)'
    BY <1>1, <2>1 DEF Spawn
  <2> QED BY <2>3, <2>4
<1>2. CASE Start
  BY <1>2 DEF Start
<1>3. CASE Report
  BY <1>3 DEF Report
<1> QED BY <1>1, <1>2, <1>3 DEF Main

\* A thread preserves it.
LEMMA ThreadBenchInv ==
    ASSUME NEW t \in Threads, BenchInv, Thread(t)
    PROVE  BenchInv'
<1> USE Sizes DEF Served, Connected, PCs, mainVars, countVars
<1>inv. TypeOK /\ ReplyIsOwn /\ Progress
  BY DEF BenchInv
<1>types. /\ job \in [Threads -> Jobs]
          /\ conn \in [Threads -> Conns]
          /\ pc \in [Threads -> PCs]
  BY <1>inv DEF TypeOK
<1> SUFFICES TypeOK' /\ ReplyIsOwn' /\ Progress'
  BY DEF BenchInv
<1>1. CASE Gate(t)
  BY <1>1, <1>inv DEF Gate, Goes, TypeOK, ReplyIsOwn, Progress
<1>2. CASE Open(t)
  <2>1. job'[t] = [todo |-> job[t].todo - 1, requests |-> Requests,
                   sent |-> job[t].sent, recvd |-> job[t].recvd]
    BY <1>2, <1>types DEF Open, Jobs
  <2>2. job'[t] \in Jobs
    BY <1>2, <1>types, <2>1 DEF Open, Jobs
  <2>3. job' \in [Threads -> Jobs] /\ conn' \in [Threads -> Conns]
    BY <1>2, <1>types, <2>2 DEF Open, Fresh, Conns, Links
  <2>4. TypeOK'
    BY <1>2, <1>inv, <2>3 DEF Open, Goes, TypeOK
  <2>5. ReplyIsOwn'
    BY <1>2, <1>inv, <1>types DEF Open, Goes, ReplyIsOwn, Fresh
  <2>6. Progress'
    BY <1>2, <1>inv, <1>types DEF Open, Goes, Progress, Fresh
  <2> QED BY <2>4, <2>5, <2>6
<1>3. CASE OpenFails(t)
  <2>1. job' \in [Threads -> Jobs]
    BY <1>3, <1>types DEF OpenFails, Goes, Jobs
  <2>2. TypeOK'
    BY <1>3, <1>inv, <2>1 DEF OpenFails, Goes, TypeOK
  <2>3. ReplyIsOwn'
    BY <1>3, <1>inv, <1>types DEF OpenFails, Goes, ReplyIsOwn, Progress, Jobs
  <2>4. Progress'
    BY <1>3, <1>inv, <1>types DEF OpenFails, Goes, ReplyIsOwn, Progress, Jobs
  <2> QED BY <2>2, <2>3, <2>4
<1>4. CASE Return(t)
  BY <1>4, <1>inv DEF Return, Goes, TypeOK, ReplyIsOwn, Progress
<1>5. CASE NextRequest(t)
  <2>1. job'[t] = [todo |-> job[t].todo, requests |-> job[t].requests - 1,
                   sent |-> 0, recvd |-> 0]
    BY <1>5, <1>types DEF NextRequest, Jobs
  <2>2. job'[t] \in Jobs
    BY <1>5, <1>types, <2>1 DEF NextRequest, Jobs
  <2>3. job' \in [Threads -> Jobs]
    BY <1>5, <1>types, <2>2 DEF NextRequest
  <2>4. TypeOK'
    BY <1>5, <1>inv, <2>3 DEF NextRequest, Goes, TypeOK
  <2>5. ReplyIsOwn'
    BY <1>5, <1>inv, <1>types DEF NextRequest, Goes, ReplyIsOwn, Progress, Jobs
  <2>6. Progress'
    BY <1>5, <1>inv, <1>types DEF NextRequest, Goes, Progress, Jobs
  <2> QED BY <2>4, <2>5, <2>6
<1>6. CASE CloseConn(t)
  BY <1>6, <1>inv DEF CloseConn, Goes, TypeOK, ReplyIsOwn, Progress
<1>7. CASE Write(t)
  <2>1. PICK n \in 1..MsgLen - job[t].sent :
           /\ conn[t].up + n <= UpBuf
           /\ conn' = [conn EXCEPT ![t].up = @ + n]
           /\ job' = [job EXCEPT ![t].sent = @ + n]
    BY <1>7 DEF Write
  <2>2. conn' \in [Threads -> Conns]
    BY <1>types, <2>1 DEF Conns
  <2>3. job' \in [Threads -> Jobs]
    BY <1>types, <2>1 DEF Jobs
  <2>4. TypeOK'
    BY <1>7, <1>inv, <2>2, <2>3 DEF Write, Writing, TypeOK
  <2>5. /\ \A u \in Threads \ {t} : conn'[u] = conn[u] /\ job'[u] = job[u]
        /\ conn'[t].link = conn[t].link
        /\ conn'[t].up + conn'[t].held + conn'[t].down
              = conn[t].up + conn[t].held + conn[t].down + n
        /\ job'[t].sent - job'[t].recvd = job[t].sent - job[t].recvd + n
    BY <1>types, <2>1 DEF Conns, Jobs
  <2>6. pc' = pc /\ pc[t] = "write"
    BY <1>7 DEF Write, Writing
  <2>7. ReplyIsOwn'
    BY <1>inv, <2>5, <2>6 DEF ReplyIsOwn
  <2>8. Progress'
    BY <1>inv, <2>5, <2>6 DEF Progress
  <2> QED BY <2>4, <2>7, <2>8
<1>8. CASE WriteToClosed(t)
  <2>1. job' \in [Threads -> Jobs] /\ conn' \in [Threads -> Conns]
    BY <1>8, <1>types DEF WriteToClosed, Writing, Jobs, Conns, Links
  <2>2. TypeOK'
    BY <1>8, <1>inv, <2>1 DEF WriteToClosed, Writing, TypeOK
  <2>3. ReplyIsOwn'
    BY <1>8, <1>inv, <1>types DEF WriteToClosed, Writing,
      ReplyIsOwn, Progress, Jobs, Conns, Links
  <2>4. Progress'
    BY <1>8, <1>inv, <1>types DEF WriteToClosed, Writing,
      ReplyIsOwn, Progress, Jobs, Conns, Links
  <2> QED BY <2>2, <2>3, <2>4
<1>9. CASE WriteFails(t)
  <2>1. conn' \in [Threads -> Conns]
    BY <1>9, <1>types DEF WriteFails, Writing, Goes, Conns, Links
  <2>2. TypeOK'
    BY <1>9, <1>inv, <2>1 DEF WriteFails, Writing, Goes, TypeOK
  <2>3. ReplyIsOwn'
    BY <1>9, <1>inv, <1>types DEF WriteFails, Writing, Goes,
      ReplyIsOwn, Progress, Conns, Links
  <2>4. Progress'
    BY <1>9, <1>inv, <1>types DEF WriteFails, Writing, Goes,
      ReplyIsOwn, Progress, Conns, Links
  <2> QED BY <2>2, <2>3, <2>4
<1>10. CASE WriteKills(t)
  BY <1>10, <1>inv DEF WriteKills, Writing, TypeOK, ReplyIsOwn, Progress
<1>11. CASE WriteDone(t)
  BY <1>11, <1>inv DEF WriteDone, Goes, TypeOK, ReplyIsOwn, Progress
<1>12. CASE Read(t)
  <2>1. PICK n \in 1..MsgLen - job[t].recvd :
           /\ n <= conn[t].down
           /\ conn' = [conn EXCEPT ![t].down = @ - n]
           /\ job' = [job EXCEPT ![t].recvd = @ + n]
    BY <1>12 DEF Read
  <2>2. conn' \in [Threads -> Conns]
    BY <1>types, <2>1 DEF Conns
  <2>3. job' \in [Threads -> Jobs]
    BY <1>types, <2>1 DEF Jobs
  <2>4. TypeOK'
    BY <1>12, <1>inv, <2>2, <2>3 DEF Read, Reading, TypeOK
  <2>5. ReplyIsOwn'
    BY <1>12, <1>inv, <1>types, <2>1 DEF Read, Reading, ReplyIsOwn, Conns, Jobs
  <2>6. Progress'
    BY <1>12, <1>inv, <1>types, <2>1 DEF Read, Reading, Progress, Conns, Jobs
  <2> QED BY <2>4, <2>5, <2>6
<1>13. CASE ReadEnds(t)
  <2>1. conn' \in [Threads -> Conns]
    BY <1>13, <1>types DEF ReadEnds, Reading, Goes, Conns, Links
  <2>2. TypeOK'
    BY <1>13, <1>inv, <2>1 DEF ReadEnds, Reading, Goes, TypeOK
  <2>3. ReplyIsOwn'
    BY <1>13, <1>inv, <1>types DEF ReadEnds, Reading, Goes,
      ReplyIsOwn, Progress, Conns, Links
  <2>4. Progress'
    BY <1>13, <1>inv, <1>types DEF ReadEnds, Reading, Goes,
      ReplyIsOwn, Progress, Conns, Links
  <2> QED BY <2>2, <2>3, <2>4
<1>14. CASE ReadDone(t)
  BY <1>14, <1>inv DEF ReadDone, Goes, TypeOK, ReplyIsOwn, Progress
<1>15. CASE Record(t)
  BY <1>15, <1>inv DEF Record, Goes, TypeOK, ReplyIsOwn, Progress
<1>16. CASE Count(t)
  <2>1. {latencies', completed', connected'} \subseteq Nat
    BY <1>16, <1>inv DEF Count, TypeOK
  <2>2. TypeOK'
    BY <1>16, <1>inv, <2>1, Zenon DEF Count, Goes, TypeOK
  <2>3. /\ job' = job /\ conn' = conn
        /\ pc[t] = "count" /\ pc' = [pc EXCEPT ![t] = "request"]
    BY <1>16 DEF Count, Goes
  <2>4. Served(t) => conn[t].up + conn[t].held + conn[t].down = 0
    BY <1>inv, <1>types, <2>3 DEF ReplyIsOwn, Progress
  <2>5. Served(t) => conn[t].up = 0 /\ conn[t].held = 0 /\ conn[t].down = 0
    BY <1>types, <2>4 DEF Conns
  <2>6. ReplyIsOwn'
    BY <1>inv, <1>types, <2>3 DEF ReplyIsOwn
  <2>7. Progress'
    BY <1>inv, <1>types, <2>3, <2>5 DEF Progress
  <2> QED BY <2>2, <2>6, <2>7
<1> QED
  BY <1>1, <1>2, <1>3, <1>4, <1>5, <1>6, <1>7, <1>8,
     <1>9, <1>10, <1>11, <1>12, <1>13, <1>14, <1>15, <1>16 DEF Thread

\* The server preserves it.
LEMMA ServerBenchInv ==
    ASSUME NEW t \in Threads, BenchInv, Receive(t) \/ Echo(t) \/ End(t)
    PROVE  BenchInv'
<1> USE Sizes DEF Served, Connected, PCs, mainVars, countVars
<1>inv. TypeOK /\ ReplyIsOwn /\ Progress
  BY DEF BenchInv
<1>types. /\ job \in [Threads -> Jobs]
          /\ conn \in [Threads -> Conns]
          /\ pc \in [Threads -> PCs]
  BY <1>inv DEF TypeOK
<1> SUFFICES TypeOK' /\ ReplyIsOwn' /\ Progress'
  BY DEF BenchInv
<1>1. CASE Receive(t)
  <2>1. PICK n \in 1..conn[t].up :
           /\ conn[t].held + n <= HoldMax
           /\ conn' = [conn EXCEPT ![t].up = @ - n, ![t].held = @ + n]
    BY <1>1 DEF Receive
  <2>2. conn' \in [Threads -> Conns]
    BY <1>types, <2>1 DEF Conns
  <2>3. /\ \A u \in Threads \ {t} : conn'[u] = conn[u]
        /\ conn'[t].link = conn[t].link
        /\ conn'[t].up + conn'[t].held + conn'[t].down
              = conn[t].up + conn[t].held + conn[t].down
    BY <1>types, <2>1 DEF Conns
  <2>4. TypeOK'
    BY <1>1, <1>inv, <2>2 DEF Receive, TypeOK
  <2>5. pc' = pc /\ job' = job
    BY <1>1 DEF Receive
  <2>6. ReplyIsOwn'
    BY <1>inv, <2>3, <2>5 DEF ReplyIsOwn
  <2>7. conn[t].up # 0 \/ conn[t].held # 0
    BY <1>types, <2>1 DEF Conns
  <2>8. Progress'
    BY <1>inv, <2>3, <2>5, <2>7 DEF Progress
  <2> QED BY <2>4, <2>6, <2>8
<1>2. CASE Echo(t)
  <2>1. PICK n \in 1..conn[t].held :
           /\ conn[t].down + n <= DownBuf
           /\ conn' = [conn EXCEPT ![t].held = @ - n, ![t].down = @ + n]
    BY <1>2 DEF Echo
  <2>2. conn' \in [Threads -> Conns]
    BY <1>types, <2>1 DEF Conns
  <2>3. /\ \A u \in Threads \ {t} : conn'[u] = conn[u]
        /\ conn'[t].link = conn[t].link
        /\ conn'[t].up + conn'[t].held + conn'[t].down
              = conn[t].up + conn[t].held + conn[t].down
    BY <1>types, <2>1 DEF Conns
  <2>4. TypeOK'
    BY <1>2, <1>inv, <2>2 DEF Echo, TypeOK
  <2>5. pc' = pc /\ job' = job
    BY <1>2 DEF Echo
  <2>6. ReplyIsOwn'
    BY <1>inv, <2>3, <2>5 DEF ReplyIsOwn
  <2>7. conn[t].up # 0 \/ conn[t].held # 0
    BY <1>types, <2>1 DEF Conns
  <2>8. Progress'
    BY <1>inv, <2>3, <2>5, <2>7 DEF Progress
  <2> QED BY <2>4, <2>6, <2>8
<1>3. CASE End(t)
  <2>1. conn' \in [Threads -> Conns]
    BY <1>3, <1>types DEF End, Conns, Links
  <2>2. TypeOK'
    BY <1>3, <1>inv, <2>1 DEF End, TypeOK
  <2>3. ReplyIsOwn'
    BY <1>3, <1>inv, <1>types DEF End, ReplyIsOwn, Progress, Conns, Links
  <2>4. Progress'
    BY <1>3, <1>inv, <1>types DEF End, ReplyIsOwn, Progress, Conns, Links
  <2> QED BY <2>2, <2>3, <2>4
<1> QED BY <1>1, <1>2, <1>3

\* BenchInv is an invariant of the benchmark.
THEOREM BenchInvariant == Spec => []BenchInv
<1>1. BenchInv /\ [Next]_vars => BenchInv'
  <2> SUFFICES ASSUME BenchInv, [Next]_vars PROVE BenchInv'
    OBVIOUS
  <2>1. CASE Next
    BY <2>1, MainBenchInv, ThreadBenchInv, ServerBenchInv DEF Next
  <2>2. CASE UNCHANGED vars
    BY <2>2 DEF vars, mainVars, countVars, BenchInv, TypeOK, ReplyIsOwn, Progress,
                Served, Connected
  <2> QED BY <2>1, <2>2
<1> QED BY InitBenchInv, <1>1, PTL DEF Spec

\* Every variable keeps its shape, and the buffers their sizes, for every number of
\* threads: in particular no thread counts its connections or requests below 0.
THEOREM BenchTypeOK == Spec => []TypeOK
<1>1. BenchInv => TypeOK
  BY DEF BenchInv
<1> QED BY BenchInvariant, <1>1, PTL

\* No reply is made of what an earlier request left on the connection.
THEOREM BenchReplyIsOwn == Spec => []ReplyIsOwn
<1>1. BenchInv => ReplyIsOwn
  BY DEF BenchInv
<1> QED BY BenchInvariant, <1>1, PTL

-----------------------------------------------------------------------------
(* CountsAddUp.  What the threads have still to do is a sum over them,     *)
(* taken as the size of a set: f[t] cells for each thread t.               *)

Most     == Connections + Requests + 1
Cells(f) == {p \in Threads \X (1..Most) : p[2] <= f[p[1]]}
Total(f) == Cardinality(Cells(f))

\* The requests still to be counted on the open connections ...
due == [t \in Threads |->
           IF ~Connected(t) THEN 0
           ELSE job[t].requests + IF pc[t] = "request" THEN 0 ELSE 1]
\* ... the requests that Record has seen and Count has not ...
counting == [t \in Threads |-> IF pc[t] = "count" THEN 1 ELSE 0]
\* ... and the connections still to be opened.
toOpen == [t \in Threads |-> IF t < spawned THEN job[t].todo ELSE Share(t)]

\* No thread has left the loops it is counted in, and nothing has ended unnoticed.
Steady ==
    /\ \A t \in Threads : pc[t] = "none" \/ t < spawned
    /\ \A t \in Threads : pc[t] = "done" => job[t].todo = 0
    /\ \A t \in Threads : ~faulted /\ Connected(t) => conn[t].link = "open"
    /\ report # "none" => \A t \in Threads : pc[t] = "done"
    /\ report = "stats" => latencies > 0

\* CountsAddUp at any time, with what is still under way on the other side.
Tally ==
    /\ Requests * connected = completed + Total(due)
    /\ latencies <= completed + Total(counting)
    /\ ~faulted => latencies = completed + Total(counting)
    /\ ~faulted => connected + Total(toOpen) = Connections

\* Totals are numbers.
LEMMA TotalType ==
    ASSUME NEW f
    PROVE  IsFiniteSet(Cells(f)) /\ Total(f) \in Nat
<1>1. IsFiniteSet(Threads) /\ IsFiniteSet(1..Most)
  BY Sizes, FS_Interval DEF Threads, Most
<1>2. IsFiniteSet(Threads \X (1..Most))
  BY <1>1, FS_Product
<1>3. Cells(f) \subseteq Threads \X (1..Most)
  BY DEF Cells
<1> QED BY <1>2, <1>3, FS_Subset, FS_CardinalityType DEF Total

\* The total grows by what one thread gets.
LEMMA TotalAdd ==
    ASSUME NEW f \in [Threads -> 0..Most], NEW g \in [Threads -> 0..Most],
           NEW t \in Threads, NEW n \in Nat,
           g[t] = f[t] + n, \A u \in Threads \ {t} : g[u] = f[u]
    PROVE  Total(g) = Total(f) + n
<1> DEFINE Gain == {t} \X (f[t] + 1..f[t] + n)
<1>1. IsFiniteSet({t}) /\ Cardinality({t}) = 1
  BY FS_Singleton
<1>2. f[t] \in Nat /\ f[t] + n <= Most /\ Most \in Nat
  BY Sizes DEF Most
<1>3. IsFiniteSet(Gain) /\ Cardinality(Gain) = n
  <2> DEFINE New == f[t] + 1..f[t] + n
  <2>1. f[t] + 1 \in Int /\ f[t] + n \in Int
    BY <1>2
  <2>2. IsFiniteSet(New)
        /\ Cardinality(New)
              = IF f[t] + 1 > f[t] + n THEN 0 ELSE f[t] + n - (f[t] + 1) + 1
    <3> PICK a \in Int, b \in Int : a = f[t] + 1 /\ b = f[t] + n
      BY <2>1
    <3>1. IsFiniteSet(a..b) /\ Cardinality(a..b) = IF a > b THEN 0 ELSE b - a + 1
      BY FS_Interval
    <3> QED BY <3>1
  <2>3. Cardinality(New) = n
    BY <1>2, <2>2
  <2> HIDE DEF New
  <2>4. IsFiniteSet({t} \X New) /\ Cardinality({t} \X New) = 1 * n
    BY <1>1, <2>2, <2>3, FS_Product
  <2> QED BY <2>4 DEF New
<1>5. Cells(g) = Cells(f) \cup Gain
  <2>1. ASSUME NEW u \in Threads, NEW k \in 1..Most
        PROVE  <<u, k>> \in Cells(g) <=> <<u, k>> \in Cells(f) \/ <<u, k>> \in Gain
    <3>1. CASE u = t
      BY <1>2, <3>1 DEF Cells
    <3>2. CASE u # t
      BY <3>2 DEF Cells
    <3> QED BY <3>1, <3>2
  <2>2. Gain \subseteq Threads \X (1..Most)
    BY <1>2
  <2>3. Cells(g) \subseteq Threads \X (1..Most) /\ Cells(f) \subseteq Threads \X (1..Most)
    BY DEF Cells
  <2> HIDE DEF Gain
  <2>4. ASSUME NEW p \in Threads \X (1..Most)
        PROVE  p \in Cells(g) <=> p \in Cells(f) \cup Gain
    <3> PICK u \in Threads, k \in 1..Most : p = <<u, k>>
      OBVIOUS
    <3> QED BY <2>1
  <2> QED BY <2>2, <2>3, <2>4
<1>6. Cells(f) \cap Gain = {}
  BY DEF Cells
<1>7. Cardinality(Cells(f) \cap Gain) = 0
  BY <1>6, FS_EmptySet
<1>8. IsFiniteSet(Cells(f)) /\ Cardinality(Cells(f)) \in Nat
  BY TotalType DEF Total
<1> HIDE DEF Gain
<1>9. Cardinality(Cells(f) \cup Gain) = Cardinality(Cells(f)) + n
  BY <1>3, <1>7, <1>8, FS_Union
<1> QED BY <1>5, <1>9 DEF Total

\* Threads that have nothing have nothing together.
LEMMA TotalZero ==
    ASSUME NEW f \in [Threads -> 0..Most], \A t \in Threads : f[t] = 0
    PROVE  Total(f) = 0
<1>1. Cells(f) = {}
  BY Sizes DEF Cells, Most
<1> QED BY <1>1, FS_EmptySet DEF Total

\* The shares of the threads are all the connections: each has the quotient, and
\* the first ones, as many as the remainder, one more.
LEMMA SharesAreAll ==
    Total([t \in Threads |-> Share(t)]) = Connections
<1> DEFINE each == Connections \div NumThreads
           extra == Connections % NumThreads
           shares == [t \in Threads |-> Share(t)]
           All == Threads \X (1..each)
           First == (0..extra - 1) \X {each + 1}
<1>1. /\ each \in Nat /\ extra \in 0..NumThreads - 1
      /\ Connections = NumThreads * each + extra
      /\ NumThreads \in Nat /\ NumThreads > 0 /\ Connections \in Nat
  BY BenchAssumption
<1>2. each + 1 <= Most
  <2>1. NumThreads * each >= each
    BY <1>1
  <2> QED BY <1>1, <2>1, Sizes DEF Most
<1>3. \A t \in Threads : shares[t] = each + (IF t < extra THEN 1 ELSE 0)
  BY DEF Share
<1> HIDE DEF each, extra, shares
<1>4. Cells(shares) = All \cup First
  <2>1. ASSUME NEW p \in Cells(shares) PROVE p \in All \cup First
    BY <1>1, <1>3, <2>1 DEF Cells, Threads
  <2>2. ASSUME NEW p \in All PROVE p \in Cells(shares)
    <3>1. p[1] \in Threads /\ p[2] \in 1..each /\ p = <<p[1], p[2]>>
      OBVIOUS
    <3>2. p[2] <= shares[p[1]] /\ p[2] \in 1..Most
      BY <1>1, <1>2, <1>3, <3>1, Sizes DEF Most
    <3> QED BY <3>1, <3>2 DEF Cells
  <2>3. ASSUME NEW p \in First PROVE p \in Cells(shares)
    BY <1>1, <1>2, <1>3 DEF Cells, Threads
  <2> QED BY <2>1, <2>2, <2>3
<1>5. IsFiniteSet(All) /\ Cardinality(All) = NumThreads * each
  <2>1. IsFiniteSet(Threads) /\ Cardinality(Threads) = NumThreads
    BY <1>1, FS_Interval DEF Threads
  <2>2. IsFiniteSet(1..each) /\ Cardinality(1..each) = each
    BY <1>1, FS_Interval
  <2> QED BY <2>1, <2>2, FS_Product
<1>6. IsFiniteSet(First) /\ Cardinality(First) = extra
  <2>1. IsFiniteSet(0..extra - 1) /\ Cardinality(0..extra - 1) = extra
    BY <1>1, FS_Interval
  <2>2. IsFiniteSet({each + 1}) /\ Cardinality({each + 1}) = 1
    BY FS_Singleton
  <2> QED BY <1>1, <2>1, <2>2, FS_Product
<1>7. All \cap First = {}
  BY <1>1
<1>8. NumThreads * each \in Nat
  BY <1>1
<1> HIDE DEF All, First
<1>9. Cardinality(All \cup First) = NumThreads * each + extra
  BY <1>1, <1>5, <1>6, <1>7, <1>8, FS_Union, FS_EmptySet
<1> QED BY <1>1, <1>4, <1>9 DEF Total, shares

\* The summands are within the bound of the totals.
LEMMA Summands ==
    ASSUME TypeOK
    PROVE  /\ due \in [Threads -> 0..Most]
           /\ counting \in [Threads -> 0..Most]
           /\ toOpen \in [Threads -> 0..Most]
<1>1. \A t \in Threads : job[t].todo \in 0..Connections /\ job[t].requests \in 0..Requests
  BY DEF TypeOK, Jobs
<1>2. \A t \in Threads : Share(t) \in 0..Connections
  BY ShareBounded
<1>3. Connections \in Nat /\ Requests \in Nat
  BY Sizes
<1> QED BY <1>1, <1>2, <1>3 DEF due, counting, toOpen, Most

\* Initially nothing is open, and the shares are all there is to open.
LEMMA InitTally == Init => Steady /\ Tally
<1> SUFFICES ASSUME Init PROVE Steady /\ Tally
  OBVIOUS
<1>1. TypeOK
  BY InitBenchInv DEF BenchInv
<1>2. \A t \in Threads : due[t] = 0 /\ counting[t] = 0
  BY DEF Init, due, counting, Connected
<1>3. Total(due) = 0 /\ Total(counting) = 0
  BY <1>1, <1>2, Summands, TotalZero
<1>4. \A t \in Threads : ~(t < spawned)
  BY DEF Init, Threads
<1>5. toOpen = [t \in Threads |-> Share(t)]
  BY <1>4 DEF toOpen
<1>6. Total(toOpen) = Connections
  BY <1>5, SharesAreAll
<1>7. Requests * 0 = 0
  BY Sizes
<1>8. Tally
  BY <1>3, <1>6, <1>7, Sizes DEF Init, Tally
<1>9. Steady
  BY DEF Init, Steady, Connected
<1> QED BY <1>8, <1>9

\* Spawning a thread gives it the share that was counted as its own.
LEMMA MainTally ==
    ASSUME BenchInv, Steady, Tally, Main
    PROVE  (Steady /\ Tally)'
<1> USE DEF countVars
<1>types. TypeOK
  BY DEF BenchInv
<1>1. CASE Spawn
  <2>1. spawned \in Threads /\ spawned \in Nat
    BY <1>1, <1>types, Sizes DEF Spawn, Threads, TypeOK
  <2>2. pc[spawned] = "none"
    BY <2>1 DEF Steady
  <2>3. pc'[spawned] = "gate" /\ \A t \in Threads \ {spawned} : pc'[t] = pc[t]
    BY <1>1, <1>types, <2>1 DEF Spawn, TypeOK
  <2>4. /\ job'[spawned].todo = Share(spawned)
        /\ \A t \in Threads \ {spawned} : job'[t] = job[t]
    BY <1>1, <1>types, <2>1 DEF Spawn, TypeOK, Jobs
  <2>5. \A t \in Threads : Connected(t)' <=> Connected(t)
    BY <2>2, <2>3 DEF Connected
  <2>6. due' = due
    BY <2>2, <2>3, <2>4, <2>5 DEF due, Connected
  <2>7. counting' = counting
    BY <2>2, <2>3 DEF counting
  <2>8. toOpen' = toOpen
    <3>1. \A t \in Threads \ {spawned} : t < spawned + 1 <=> t < spawned
      BY <2>1 DEF Threads
    <3>2. spawned < spawned + 1 /\ ~(spawned < spawned)
      BY <2>1
    <3>3. spawned' = spawned + 1
      BY <1>1 DEF Spawn
    <3> QED BY <2>1, <2>4, <3>1, <3>2, <3>3 DEF toOpen
  <2>9. Tally'
    BY <1>1, <2>6, <2>7, <2>8 DEF Spawn, Tally
  <2>10. Steady'
    <3>1. report = "none"
      BY <2>1, <2>2 DEF Steady, TypeOK
    <3>2. \A t \in Threads : pc'[t] = "none" \/ t < spawned'
      BY <1>1, <2>1, <2>3 DEF Spawn, Steady, Threads
    <3> QED BY <1>1, <2>1, <2>3, <2>4, <2>5, <3>1, <3>2 DEF Spawn, Steady
  <2> QED BY <2>9, <2>10
<1>2. CASE Start
  <2>1. due' = due /\ counting' = counting /\ toOpen' = toOpen
    BY <1>2 DEF Start, due, counting, toOpen, Connected
  <2> QED BY <1>2, <2>1 DEF Start, Tally, Steady, Connected
<1>3. CASE Report
  <2>1. due' = due /\ counting' = counting /\ toOpen' = toOpen
    BY <1>3 DEF Report, due, counting, toOpen, Connected
  <2>2. latencies \in Nat
    BY <1>types DEF TypeOK
  <2> QED BY <1>3, <2>1, <2>2 DEF Report, Tally, Steady, Connected
<1> QED BY <1>1, <1>2, <1>3 DEF Main

\* A thread: what Open adds to the requests due, it takes from the connections to be
\* opened; Record and Count move a request on.
LEMMA ThreadTally ==
    ASSUME NEW t \in Threads, BenchInv, Steady, Tally, Thread(t)
    PROVE  (Steady /\ Tally)'
<1> DEFINE A == Gate(t) \/ Return(t) \/ NextRequest(t) \/ CloseConn(t)
           B == Write(t) \/ WriteToClosed(t) \/ WriteFails(t) \/ WriteKills(t)
           C == WriteDone(t) \/ Read(t) \/ ReadEnds(t) \/ ReadDone(t)
<1> USE Sizes DEF mainVars, countVars, Goes, Writing, Reading
<1>types. TypeOK /\ TypeOK'
  BY ThreadBenchInv DEF BenchInv
<1>jobs. /\ pc \in [Threads -> PCs] /\ job \in [Threads -> Jobs]
         /\ conn \in [Threads -> Conns]
         /\ latencies \in Nat /\ completed \in Nat /\ connected \in Nat
  BY <1>types DEF TypeOK
<1>sums. /\ due \in [Threads -> 0..Most] /\ due' \in [Threads -> 0..Most]
         /\ counting \in [Threads -> 0..Most] /\ counting' \in [Threads -> 0..Most]
         /\ toOpen \in [Threads -> 0..Most] /\ toOpen' \in [Threads -> 0..Most]
  <2>1. \A u \in Threads : Share(u)' = Share(u)
    BY DEF Share
  <2>2. /\ due' \in [Threads -> 0..Most]
        /\ counting' \in [Threads -> 0..Most]
        /\ toOpen' \in [Threads -> 0..Most]
    <3>1. \A u \in Threads : /\ job'[u].todo \in 0..Connections
                             /\ job'[u].requests \in 0..Requests
      BY <1>types DEF TypeOK, Jobs
    <3>2. \A u \in Threads : Share(u) \in 0..Connections
      BY ShareBounded
    <3> QED BY <3>1, <3>2 DEF due, counting, toOpen, Most
  <2> QED BY <1>types, <2>2, Summands
<1>totals. /\ Total(due) \in Nat /\ Total(counting) \in Nat /\ Total(toOpen) \in Nat
           /\ Total(due)' \in Nat /\ Total(counting)' \in Nat /\ Total(toOpen)' \in Nat
  BY TotalType DEF Total, Cells
<1>1. /\ spawned' = spawned /\ report' = report /\ start_flag' = start_flag
      /\ \A u \in Threads \ {t} :
            pc'[u] = pc[u] /\ job'[u] = job[u] /\ conn'[u] = conn[u]
  <2>1. CASE A
    BY <1>jobs, <2>1 DEF Gate, Return, NextRequest, CloseConn
  <2>2. CASE B
    BY <1>jobs, <2>2 DEF Write, WriteToClosed, WriteFails, WriteKills
  <2>3. CASE C
    BY <1>jobs, <2>3 DEF WriteDone, Read, ReadEnds, ReadDone
  <2>4. CASE Open(t) \/ OpenFails(t) \/ Record(t) \/ Count(t)
    BY <1>jobs, <2>4 DEF Open, OpenFails, Record, Count
  <2> QED BY <2>1, <2>2, <2>3, <2>4 DEF Thread
<1>2. \A u \in Threads \ {t} :
         due'[u] = due[u] /\ counting'[u] = counting[u] /\ toOpen'[u] = toOpen[u]
  BY <1>1 DEF due, counting, toOpen, Connected
<1>3. pc[t] \notin {"none", "done"} /\ t < spawned /\ report = "none"
  <2>1. pc[t] \notin {"none", "done"}
    BY DEF Thread, Gate, Open, OpenFails, Return, NextRequest, CloseConn, Write,
      WriteToClosed, WriteFails, WriteKills, WriteDone, Read, ReadEnds, ReadDone,
      Record, Count
  <2> QED BY <2>1 DEF Steady
<1>here. /\ due[t] = IF ~Connected(t) THEN 0
                     ELSE job[t].requests + IF pc[t] = "request" THEN 0 ELSE 1
         /\ due'[t] = IF ~Connected(t)' THEN 0
                      ELSE job'[t].requests + IF pc'[t] = "request" THEN 0 ELSE 1
         /\ counting[t] = IF pc[t] = "count" THEN 1 ELSE 0
         /\ counting'[t] = IF pc'[t] = "count" THEN 1 ELSE 0
         /\ toOpen[t] = job[t].todo /\ toOpen'[t] = job'[t].todo
  BY <1>1, <1>3 DEF due, counting, toOpen
<1>4. ASSUME A \/ B \/ C PROVE (Steady /\ Tally)'
  <2>1. /\ UNCHANGED countVars
        /\ due'[t] = due[t] /\ counting'[t] = counting[t] /\ toOpen'[t] = toOpen[t]
    <3>1. CASE A
      <4>1. CASE Gate(t) \/ Return(t)
        BY <1>jobs, <1>here, <4>1 DEF Gate, Return, Connected
      <4>2. CASE NextRequest(t)
        BY <1>jobs, <1>here, <4>2 DEF NextRequest, Connected, Jobs
      <4>3. CASE CloseConn(t)
        BY <1>jobs, <1>here, <4>3 DEF CloseConn, Connected
      <4> QED BY <3>1, <4>1, <4>2, <4>3
    <3>2. CASE B
      BY <1>jobs, <1>here, <3>2
         DEF Write, WriteToClosed, WriteFails, WriteKills, Connected, Jobs
    <3>3. CASE C
      BY <1>jobs, <1>here, <3>3
         DEF WriteDone, Read, ReadEnds, ReadDone, Connected, Jobs
    <3> QED BY <1>4, <3>1, <3>2, <3>3
  <2>2. due' = due /\ counting' = counting /\ toOpen' = toOpen
    BY <1>sums, <1>2, <2>1
  <2>3. Tally'
    BY <2>1, <2>2 DEF Tally
  <2>4. ~faulted /\ Connected(t)' => conn'[t].link = "open"
    <3>1. CASE A
      BY <1>jobs, <3>1 DEF Gate, Return, NextRequest, CloseConn, Connected, Steady
    <3>2. CASE B
      BY <1>jobs, <3>2 DEF Write, WriteToClosed, WriteFails, WriteKills, Connected,
        Steady, Conns
    <3>3. CASE C
      <4>1. CASE WriteDone(t) \/ ReadDone(t)
        BY <1>jobs, <4>1 DEF WriteDone, ReadDone, Connected, Steady
      <4>2. CASE Read(t)
        BY <1>jobs, <4>2 DEF Read, Connected, Steady, Conns
      <4>3. CASE ReadEnds(t)
        BY <1>jobs, <4>3 DEF ReadEnds, Connected, Steady
      <4> QED BY <3>3, <4>1, <4>2, <4>3
    <3> QED BY <1>4, <3>1, <3>2, <3>3
  <2>5. pc'[t] = "done" => job'[t].todo = 0
    <3>1. CASE A
      BY <1>jobs, <3>1 DEF Gate, Return, NextRequest, CloseConn
    <3>2. CASE B
      BY <1>jobs, <3>2 DEF Write, WriteToClosed, WriteFails, WriteKills
    <3>3. CASE C
      BY <1>jobs, <3>3 DEF WriteDone, Read, ReadEnds, ReadDone
    <3> QED BY <1>4, <3>1, <3>2, <3>3
  <2>6. Steady'
    BY <1>1, <1>3, <2>1, <2>4, <2>5 DEF Steady, Connected
  <2> QED BY <2>3, <2>6
<1>5. CASE Open(t)
  <2>1. /\ due[t] = 0 /\ due'[t] = Requests
        /\ counting'[t] = counting[t]
        /\ toOpen[t] = toOpen'[t] + 1
    BY <1>jobs, <1>here, <1>5 DEF Open, Connected, Jobs
  <2>2. Total(due') = Total(due) + Requests
    BY <1>sums, <1>2, <2>1, TotalAdd
  <2>3. Total(toOpen) = Total(toOpen') + 1
    BY <1>sums, <1>2, <2>1, TotalAdd
  <2>4. counting' = counting
    BY <1>sums, <1>2, <2>1
  <2>5. Requests * (connected + 1) = Requests * connected + Requests
    BY <1>jobs
  <2>6. Requests * connected' = completed' + Total(due')
    <3>1. Requests * connected = completed + Total(due)
      BY DEF Tally
    <3>2. connected' = connected + 1 /\ completed' = completed
      BY <1>5 DEF Open
    <3> QED BY <1>jobs, <1>totals, <2>2, <2>5, <3>1, <3>2
  <2>7. Tally'
    BY <1>5, <1>jobs, <1>totals, <2>3, <2>4, <2>6 DEF Open, Tally, Total, Cells
  <2>8. conn'[t].link = "open" /\ pc'[t] = "request"
    BY <1>5, <1>jobs DEF Open, Fresh
  <2>9. Steady'
    BY <1>1, <1>3, <1>5, <2>8 DEF Open, Steady, Connected
  <2> QED BY <2>7, <2>9
<1>6. CASE OpenFails(t)
  <2>1. due'[t] = due[t] /\ counting'[t] = counting[t]
    BY <1>jobs, <1>here, <1>6 DEF OpenFails, Connected, Jobs
  <2>2. due' = due /\ counting' = counting
    BY <1>sums, <1>2, <2>1
  <2>3. faulted' /\ completed' = completed /\ latencies' = latencies
        /\ connected' = connected /\ pc'[t] = "open"
    BY <1>6, <1>jobs DEF OpenFails
  <2>4. Tally'
    BY <2>2, <2>3 DEF Tally
  <2>5. Steady'
    BY <1>1, <1>3, <2>3 DEF Steady, Connected
  <2> QED BY <2>4, <2>5
<1>7. CASE Record(t)
  <2>1. due'[t] = due[t] /\ counting'[t] = counting[t] + 1 /\ toOpen'[t] = toOpen[t]
    BY <1>jobs, <1>here, <1>7 DEF Record, Connected, Jobs
  <2>2. due' = due /\ toOpen' = toOpen
    BY <1>sums, <1>2, <2>1
  <2>3. Total(counting') = Total(counting) + 1
    BY <1>sums, <1>2, <2>1, TotalAdd
  <2>4. ~faulted => job[t].recvd = MsgLen
    BY <1>7 DEF Record, Steady, BenchInv, Progress, Served, Connected
  <2>5. /\ latencies' \in {latencies, latencies + 1}
        /\ ~faulted => latencies' = latencies + 1
        /\ faulted' = faulted /\ completed' = completed /\ connected' = connected
    BY <1>7, <1>jobs, <2>4 DEF Record
  <2>6. Tally'
    BY <1>jobs, <1>totals, <2>2, <2>3, <2>5 DEF Tally, Total, Cells
  <2>7. conn' = conn /\ job' = job /\ pc'[t] = "count"
    BY <1>7, <1>jobs DEF Record
  <2>8. Steady'
    BY <1>1, <1>3, <1>7, <2>5, <2>7 DEF Record, Steady, Connected
  <2> QED BY <2>6, <2>8
<1>8. CASE Count(t)
  <2>1. due[t] = due'[t] + 1 /\ counting[t] = counting'[t] + 1 /\ toOpen'[t] = toOpen[t]
    BY <1>jobs, <1>here, <1>8 DEF Count, Connected, Jobs
  <2>2. toOpen' = toOpen
    BY <1>sums, <1>2, <2>1
  <2>3. Total(counting) = Total(counting') + 1 /\ Total(due) = Total(due') + 1
    <3>1. /\ counting[t] = counting'[t] + 1
          /\ \A u \in Threads \ {t} : counting[u] = counting'[u]
      BY <1>2, <2>1
    <3>2. counting \in [Threads -> 0..Most] /\ counting' \in [Threads -> 0..Most]
      BY <1>sums
    <3>3. Total(counting) = Total(counting') + 1
      BY <3>1, <3>2, TotalAdd
    <3>4. /\ due[t] = due'[t] + 1
          /\ \A u \in Threads \ {t} : due[u] = due'[u]
      BY <1>2, <2>1
    <3>5. due \in [Threads -> 0..Most] /\ due' \in [Threads -> 0..Most]
      BY <1>sums
    <3>6. Total(due) = Total(due') + 1
      BY <3>4, <3>5, TotalAdd
    <3> QED BY <3>3, <3>6
  <2>4. /\ completed' = completed + 1
        /\ latencies' = latencies /\ faulted' = faulted /\ connected' = connected
    BY <1>8 DEF Count
  <2>5. Tally'
    BY <1>jobs, <1>totals, <2>2, <2>3, <2>4 DEF Tally, Total, Cells
  <2>6. conn' = conn /\ job' = job /\ pc'[t] = "request"
    BY <1>8, <1>jobs DEF Count
  <2>7. Steady'
    BY <1>1, <1>3, <1>8, <2>4, <2>6 DEF Count, Steady, Connected
  <2> QED BY <2>5, <2>7
<1> QED BY <1>4, <1>5, <1>6, <1>7, <1>8 DEF Thread

\* The server moves bytes; when it ends a connection, that is on record.
LEMMA ServerTally ==
    ASSUME NEW t \in Threads, BenchInv, Steady, Tally, Receive(t) \/ Echo(t) \/ End(t)
    PROVE  (Steady /\ Tally)'
<1> USE DEF mainVars, countVars
<1>1. /\ UNCHANGED <<mainVars, pc, job, latencies, completed, connected>>
      /\ faulted' = faulted \/ faulted' = TRUE
  BY DEF Receive, Echo, End
<1>2. due' = due /\ counting' = counting /\ toOpen' = toOpen
  BY <1>1 DEF due, counting, toOpen, Connected
<1>3. Tally'
  BY <1>1, <1>2 DEF Tally
<1>4. faulted' = TRUE \/ (faulted' = faulted /\ \A u \in Threads : conn'[u].link = conn[u].link)
  <2>1. conn \in [Threads -> Conns]
    BY DEF BenchInv, TypeOK
  <2>2. CASE Receive(t) \/ Echo(t)
    <3>1. faulted' = faulted
      BY <2>2 DEF Receive, Echo
    <3>2. \A u \in Threads : conn'[u].link = conn[u].link
      <4>1. CASE Receive(t)
        <5>1. PICK n \in 1..conn[t].up :
                 conn' = [conn EXCEPT ![t].up = @ - n, ![t].held = @ + n]
          BY <4>1 DEF Receive
        <5> QED BY <2>1, <5>1 DEF Conns
      <4>2. CASE Echo(t)
        <5>1. PICK n \in 1..conn[t].held :
                 conn' = [conn EXCEPT ![t].held = @ - n, ![t].down = @ + n]
          BY <4>2 DEF Echo
        <5> QED BY <2>1, <5>1 DEF Conns
      <4> QED BY <2>2, <4>1, <4>2
    <3> QED BY <3>1, <3>2
  <2>3. CASE End(t)
    BY <2>3 DEF End
  <2> QED BY <2>2, <2>3
<1>5. Steady'
  BY <1>1, <1>4 DEF Steady, Connected
<1> QED BY <1>3, <1>5

\* Steady and Tally are invariants of the benchmark.
THEOREM BenchTally == Spec => [](Steady /\ Tally)
<1>1. BenchInv /\ Steady /\ Tally /\ [Next]_vars => (Steady /\ Tally)'
  <2> SUFFICES ASSUME BenchInv, Steady, Tally, [Next]_vars PROVE (Steady /\ Tally)'
    OBVIOUS
  <2>1. CASE Next
    BY <2>1, MainTally, ThreadTally, ServerTally DEF Next
  <2>2. CASE UNCHANGED vars
    BY <2>2 DEF vars, mainVars, countVars, Steady, Tally, Connected, due, counting,
                toOpen, Total, Cells
  <2> QED BY <2>1, <2>2
<1> QED BY InitTally, BenchInvariant, <1>1, PTL DEF Spec

\* What the report is made of, for every number of threads, connections and
\* requests: when it is made, every thread is done, so nothing is due, nothing
\* waits to be counted and nothing is left to open.
THEOREM BenchCountsAddUp == Spec => []CountsAddUp
<1>1. BenchInv /\ Steady /\ Tally => CountsAddUp
  <2> SUFFICES ASSUME BenchInv, Steady, Tally, report # "none" PROVE CountsAddUp
    BY DEF CountsAddUp
  <2>1. TypeOK /\ latencies \in Nat /\ completed \in Nat /\ connected \in Nat
    BY DEF BenchInv, TypeOK
  <2>2. \A t \in Threads : pc[t] = "done" /\ t < spawned /\ job[t].todo = 0
    BY DEF Steady
  <2>3. \A t \in Threads : due[t] = 0 /\ counting[t] = 0 /\ toOpen[t] = 0
    BY <2>2 DEF due, counting, toOpen, Connected
  <2>4. Total(due) = 0 /\ Total(counting) = 0 /\ Total(toOpen) = 0
    BY <2>1, <2>3, Summands, TotalZero
  <2>5. report = "stats" => P99Index(latencies) \in 0..latencies - 1
    BY <2>1, P99InRange DEF Steady
  <2>6. completed = Requests * connected
    BY <2>1, <2>4 DEF Tally
  <2> QED BY <2>1, <2>4, <2>5, <2>6 DEF Tally, CountsAddUp
<1> QED BY BenchInvariant, BenchTally, <1>1, PTL

=============================================================================
