-------------------------- MODULE ThreadPoolProofs --------------------------
(***************************************************************************)
(* Proofs about ThreadPool, for every set of workers and tasks and every   *)
(* set of points at which stop() may interrupt Main.                       *)
(***************************************************************************)
EXTENDS ThreadPool, SequenceTheorems, TLAPS

\* mtx_ is held exactly where the code is between lock and unlock.
LockInv ==
    /\ \A w \in Workers : mtx = w <=> wpc[w] \in {"pred", "block"}
    /\ mtx = Main <=> mpc = "push"

\* A worker that decided to block saw an empty queue, and still holds mtx_.
BlockInv == \A w \in Workers : wpc[w] = "block" => tasks = <<>>

\* No worker leaves worker_loop() while the pool runs.
ExitInv == \A w \in Workers : wpc[w] = "exited" => ~running

\* Locals hold a task exactly while they are in use.
LocalInv ==
    /\ \A w \in Workers : wpc[w] = "exec" <=> task[w] # NoTask
    /\ mpc = "push" <=> arg # NoTask

PoolInv ==
    /\ TypeOK
    /\ LockInv
    /\ BlockInv
    /\ ExitInv
    /\ LocalInv
    /\ NoStrandedTask

\* The inductive invariant holds initially.
LEMMA InitPoolInv == Init => PoolInv
  BY PoolAssumption
     DEF Init, PoolInv, TypeOK, LockInv, BlockInv, ExitInv, LocalInv,
         NoStrandedTask, WorkerPoints, MainPoints, StopPoints

\* Every step of enqueue() preserves it.
LEMMA EnqueuePoolInv == PoolInv /\ Enqueue => PoolInv'
<1> SUFFICES ASSUME PoolInv, Enqueue PROVE PoolInv'
  OBVIOUS
<1> USE PoolAssumption DEF PoolInv, LockInv, BlockInv, ExitInv, LocalInv,
        NoStrandedTask, MainPoints, WorkerPoints, StopPoints
<1>1. ASSUME NEW t \in Tasks, EnqueueLock(t) PROVE PoolInv'
  <2>1. TypeOK'
    BY <1>1 DEF EnqueueLock, TypeOK
  <2>2. (LockInv /\ BlockInv /\ ExitInv /\ LocalInv /\ NoStrandedTask)'
    BY <1>1 DEF EnqueueLock, TypeOK
  <2> QED BY <2>1, <2>2
<1>2. CASE EnqueuePush
  <2>1. TypeOK'
    BY <1>2 DEF EnqueuePush, TypeOK
  <2>2. (LockInv /\ BlockInv /\ ExitInv /\ LocalInv /\ NoStrandedTask)'
    BY <1>2 DEF EnqueuePush, TypeOK
  <2> QED BY <2>1, <2>2
<1>3. CASE EnqueueNotify
  <2>1. TypeOK'
    BY <1>3 DEF EnqueueNotify, TypeOK, Asleep
  <2>2. (LockInv /\ BlockInv /\ ExitInv /\ LocalInv)'
    BY <1>3 DEF EnqueueNotify, TypeOK, Asleep
  <2>3. NoStrandedTask'
    BY <1>3 DEF EnqueueNotify, TypeOK, Asleep
  <2> QED BY <2>1, <2>2, <2>3
<1> QED BY <1>1, <1>2, <1>3 DEF Enqueue

\* Every step of a worker preserves it.
LEMMA WorkerPoolInv ==
    ASSUME NEW w \in Workers, PoolInv, Step(w) \/ SpuriousWakeup(w)
    PROVE  PoolInv'
<1> USE PoolAssumption DEF PoolInv, LockInv, BlockInv, ExitInv, LocalInv,
        NoStrandedTask, MainPoints, WorkerPoints, StopPoints, TypeOK
<1>1. CASE Loop(w)
  BY <1>1 DEF Loop
<1>2. CASE Lock(w)
  BY <1>2 DEF Lock
<1>3. CASE PredFalse(w)
  BY <1>3 DEF PredFalse
<1>4. CASE Block(w)
  BY <1>4 DEF Block
<1>5. CASE SpuriousWakeup(w)
  BY <1>5 DEF SpuriousWakeup
<1>6. CASE Return(w)
  BY <1>6 DEF Return
<1>7. CASE Pop(w)
  <2>1. Head(tasks) \in Tasks /\ Tail(tasks) \in Seq(Tasks)
    BY <1>7, HeadTailProperties DEF Pop
  <2>2. TypeOK' /\ LockInv'
    BY <1>7, <2>1 DEF Pop
  <2>3. BlockInv' /\ ExitInv' /\ LocalInv' /\ NoStrandedTask'
    BY <1>7, <2>1 DEF Pop
  <2> QED BY <2>2, <2>3
<1>8. CASE Execute(w)
  BY <1>8 DEF Execute
<1> QED BY <1>1, <1>2, <1>3, <1>4, <1>5, <1>6, <1>7, <1>8 DEF Step

\* Every step of stop() preserves it.
LEMMA StopPoolInv == PoolInv /\ (StopCall \/ Stop) => PoolInv'
<1> SUFFICES ASSUME PoolInv, StopCall \/ Stop PROVE PoolInv'
  OBVIOUS
<1> USE PoolAssumption DEF PoolInv, LockInv, BlockInv, ExitInv, LocalInv,
        NoStrandedTask, MainPoints, WorkerPoints, StopPoints, TypeOK
<1>1. CASE StopCall
  BY <1>1 DEF StopCall
<1>2. CASE StopFlag
  BY <1>2 DEF StopFlag
<1>3. CASE StopNotify
  BY <1>3 DEF StopNotify, Asleep
<1>4. CASE StopJoin
  BY <1>4 DEF StopJoin
<1> QED BY <1>1, <1>2, <1>3, <1>4 DEF Stop

\* The inductive invariant of the pool.
THEOREM PoolInvariant == Spec => []PoolInv
<1>1. PoolInv /\ UNCHANGED vars => PoolInv'
  BY DEF PoolInv, TypeOK, LockInv, BlockInv, ExitInv, LocalInv,
         NoStrandedTask, vars
<1>2. PoolInv /\ [Next]_vars => PoolInv'
  BY <1>1, EnqueuePoolInv, WorkerPoolInv, StopPoolInv DEF Next
<1> QED BY <1>2, InitPoolInv, PTL DEF Spec

\* Type correctness of the pool: every variable keeps the shape of its C++
\* counterpart, and the queue never holds an empty std::function.
THEOREM PoolTypeOK == Spec => []TypeOK
<1>1. PoolInv => TypeOK
  BY DEF PoolInv
<1> QED BY <1>1, PoolInvariant, PTL

\* enqueue() loses no wake-up, for any number of workers and tasks.
THEOREM PoolNoStrandedTask == Spec => []NoStrandedTask
<1>1. PoolInv => NoStrandedTask
  BY DEF PoolInv
<1> QED BY <1>1, PoolInvariant, PTL

-----------------------------------------------------------------------------
(* No task is lost or run twice.                                           *)

\* What enqueue()'s push does to the set of queued tasks, and that a task which
\* was not queued is then queued once.
LEMMA RangeAppend ==
    ASSUME NEW S, NEW s \in Seq(S), NEW e \in S
    PROVE  /\ Range(Append(s, e)) = Range(s) \cup {e}
           /\ IsInjective(s) /\ e \notin Range(s) => IsInjective(Append(s, e))
<1>1. /\ Append(s, e) \in Seq(S)
      /\ Len(Append(s, e)) = Len(s) + 1
      /\ \A i \in 1..Len(s) : Append(s, e)[i] = s[i]
      /\ Append(s, e)[Len(s) + 1] = e
  BY AppendProperties
<1>2. DOMAIN s = 1..Len(s) /\ DOMAIN Append(s, e) = 1..(Len(s) + 1) /\ Len(s) \in Nat
  BY <1>1, LenProperties
<1>3. Range(Append(s, e)) \subseteq Range(s) \cup {e}
  BY <1>1, <1>2 DEF Range
<1>4. Range(s) \cup {e} \subseteq Range(Append(s, e))
  BY <1>1, <1>2 DEF Range
<1>5. ASSUME IsInjective(s), e \notin Range(s) PROVE IsInjective(Append(s, e))
  BY <1>1, <1>2, <1>5 DEF Range, IsInjective
<1> QED BY <1>3, <1>4, <1>5

\* What a worker's pop does to it.
LEMMA RangeTail ==
    ASSUME NEW S, NEW s \in Seq(S), s # <<>>, IsInjective(s)
    PROVE  /\ Range(s) = Range(Tail(s)) \cup {Head(s)}
           /\ Head(s) \notin Range(Tail(s))
           /\ IsInjective(Tail(s))
<1>1. /\ Head(s) \in S /\ Tail(s) \in Seq(S)
      /\ Len(Tail(s)) = Len(s) - 1
      /\ \A i \in 1..Len(Tail(s)) : Tail(s)[i] = s[i + 1]
      /\ Head(s) = s[1]
  BY HeadTailProperties
<1>2. /\ Len(s) \in Nat /\ Len(s) >= 1
      /\ DOMAIN s = 1..Len(s) /\ DOMAIN Tail(s) = 1..(Len(s) - 1)
  BY <1>1, LenProperties, EmptySeq
<1>3. Range(s) \subseteq Range(Tail(s)) \cup {Head(s)}
  <2> SUFFICES ASSUME NEW i \in 1..Len(s), i # 1 PROVE s[i] \in Range(Tail(s))
    BY <1>1, <1>2 DEF Range
  <2>1. i - 1 \in 1..(Len(s) - 1) /\ Tail(s)[i - 1] = s[i]
    BY <1>1, <1>2
  <2> QED BY <1>2, <2>1 DEF Range
<1>4. Range(Tail(s)) \cup {Head(s)} \subseteq Range(s)
  BY <1>1, <1>2 DEF Range
<1>5. Head(s) \notin Range(Tail(s))
  BY <1>1, <1>2 DEF Range, IsInjective
<1>6. IsInjective(Tail(s))
  BY <1>1, <1>2 DEF IsInjective
<1> QED BY <1>3, <1>4, <1>5, <1>6

\* Every step of enqueue() keeps each task in one place.
LEMMA EnqueueConserves == PoolInv /\ TaskConserved /\ Enqueue => TaskConserved'
<1> SUFFICES ASSUME PoolInv, TaskConserved, Enqueue PROVE TaskConserved'
  OBVIOUS
<1> USE PoolAssumption DEF PoolInv, TypeOK, LocalInv, TaskConserved, InFlight, Held
<1>1. ASSUME NEW t \in Tasks, EnqueueLock(t) PROVE TaskConserved'
  BY <1>1 DEF EnqueueLock
<1>2. CASE EnqueuePush
  <2>1. arg \in Tasks /\ arg # NoTask /\ arg \notin Range(tasks)
    BY <1>2 DEF EnqueuePush
  <2>2. Range(tasks') = Range(tasks) \cup {arg} /\ IsInjective(tasks')
    BY <1>2, <2>1, RangeAppend DEF EnqueuePush
  <2> QED BY <1>2, <2>1, <2>2 DEF EnqueuePush
<1>3. CASE EnqueueNotify
  BY <1>3 DEF EnqueueNotify
<1> QED BY <1>1, <1>2, <1>3 DEF Enqueue

\* So does every step of a worker.
LEMMA WorkerConserves ==
    ASSUME NEW w \in Workers, PoolInv, TaskConserved, Step(w) \/ SpuriousWakeup(w)
    PROVE  TaskConserved'
<1> USE PoolAssumption DEF PoolInv, TypeOK, LocalInv
<1>1. CASE Pop(w)
  <2>1. task[w] = NoTask
    BY <1>1 DEF Pop
  <2>2. /\ Range(tasks) = Range(tasks') \cup {Head(tasks)}
        /\ Head(tasks) \notin Range(tasks') /\ IsInjective(tasks')
    BY <1>1, RangeTail DEF Pop, TaskConserved
  <2>3. Head(tasks) \in Tasks
    BY <1>1, HeadTailProperties DEF Pop
  <2>4. Held' = Held \cup {Head(tasks)}
    BY <1>1, <2>1, <2>3 DEF Pop, Held
  <2>5. Head(tasks) \in Range(tasks)
    BY <2>2
  <2>6. \A u, v \in Workers : task'[u] = task'[v] /\ task'[u] # NoTask => u = v
    BY <1>1, <2>5 DEF Pop, TaskConserved, Held
  <2>7. finished' = finished /\ submitted' = submitted /\ InFlight' = InFlight
    BY <1>1 DEF Pop, InFlight
  <2> HIDE DEF PoolInv, TypeOK, LocalInv
  <2> QED BY <2>2, <2>4, <2>5, <2>6, <2>7 DEF TaskConserved
<1>2. CASE Execute(w)
  <2>1. task[w] \in Tasks /\ task[w] # NoTask
    BY <1>2 DEF Execute
  <2>2. Held' = Held \ {task[w]} /\ task[w] \in Held
    BY <1>2, <2>1 DEF Execute, Held, TaskConserved
  <2>3. \A u, v \in Workers : task'[u] = task'[v] /\ task'[u] # NoTask => u = v
    BY <1>2 DEF Execute, TaskConserved
  <2>4. /\ finished' = finished \cup {task[w]} /\ submitted' = submitted
        /\ tasks' = tasks /\ InFlight' = InFlight
    BY <1>2 DEF Execute, InFlight
  <2> HIDE DEF PoolInv, TypeOK, LocalInv
  <2> QED BY <2>2, <2>3, <2>4 DEF TaskConserved
<1>3. CASE UNCHANGED <<tasks, task, arg, submitted, finished>>
  BY <1>3 DEF TaskConserved, InFlight, Held
<1> QED
  BY <1>1, <1>2, <1>3
     DEF Step, Loop, Lock, PredFalse, Block, SpuriousWakeup, Return

\* Each task handed to enqueue() is queued, held by one worker, or finished,
\* for any number of workers and tasks: none is lost, none runs twice.
THEOREM PoolTaskConserved == Spec => []TaskConserved
<1>1. Init => TaskConserved
  BY DEF Init, TaskConserved, InFlight, Held, Range, IsInjective
<1>2. ASSUME TaskConserved, UNCHANGED vars \/ StopCall \/ Stop
      PROVE  TaskConserved'
  <2>1. UNCHANGED <<tasks, task, arg, submitted, finished>>
    BY <1>2 DEF vars, StopCall, Stop, StopFlag, StopNotify, StopJoin
  <2> QED BY <1>2, <2>1 DEF TaskConserved, InFlight, Held
<1>3. PoolInv /\ TaskConserved /\ [Next]_vars => TaskConserved'
  BY <1>2, EnqueueConserves, WorkerConserves DEF Next
<1> QED BY <1>1, <1>3, PoolInvariant, PTL DEF Spec

-----------------------------------------------------------------------------
(* Refinement of TaskQueue.                                                *)

\* Every step of the pool is a step of the queue seen from outside, or none.
LEMMA PoolStepSimulation == PoolInv /\ [Next]_vars => [Queue!Next]_(Queue!poolVars)
<1> SUFFICES ASSUME PoolInv, [Next]_vars
             PROVE  Queue!Next \/ UNCHANGED Queue!poolVars
  OBVIOUS
<1> USE PoolAssumption DEF Queue!poolVars, Exited
<1>1. CASE UNCHANGED vars
  BY <1>1 DEF vars
<1>2. CASE Enqueue
  <2>1. ASSUME NEW t \in Tasks, EnqueueLock(t) PROVE UNCHANGED Queue!poolVars
    BY <2>1 DEF EnqueueLock
  <2>2. CASE EnqueuePush
    <3>1. arg \in Tasks
      BY <2>2 DEF EnqueuePush, PoolInv, LocalInv, TypeOK
    <3>2. Queue!Submit(arg)
      BY <2>2 DEF EnqueuePush, Queue!Submit
    <3> QED BY <3>1, <3>2 DEF Queue!Next
  <2>3. CASE EnqueueNotify
    BY <2>3 DEF EnqueueNotify, Asleep, PoolInv, TypeOK
  <2> QED BY <1>2, <2>1, <2>2, <2>3 DEF Enqueue
<1>3. ASSUME NEW w \in Workers, Step(w) \/ SpuriousWakeup(w)
      PROVE  Queue!Next \/ UNCHANGED Queue!poolVars
  <2> USE DEF PoolInv, TypeOK, LocalInv
  <2>1. CASE Loop(w)
    <3>1. CASE running
      BY <2>1, <3>1 DEF Loop
    <3>2. CASE ~running
      <4>1. Exited' = Exited \cup {w}
        BY <2>1, <3>2 DEF Loop
      <4>2. Queue!Retire(w)
        BY <2>1, <3>2, <4>1 DEF Loop, Queue!Retire
      <4> QED BY <4>2 DEF Queue!Next
    <3> QED BY <3>1, <3>2
  <2>2. CASE Lock(w)
    BY <2>2 DEF Lock
  <2>3. CASE PredFalse(w)
    BY <2>3 DEF PredFalse
  <2>4. CASE Block(w)
    BY <2>4 DEF Block
  <2>5. CASE SpuriousWakeup(w)
    BY <2>5 DEF SpuriousWakeup
  <2>6. CASE Return(w)
    <3>1. Exited' = Exited \cup {w}
      BY <2>6 DEF Return
    <3>2. Queue!Retire(w)
      BY <2>6, <3>1 DEF Return, Queue!Retire
    <3> QED BY <3>2 DEF Queue!Next
  <2>7. CASE Pop(w)
    <3>1. Exited' = Exited
      BY <2>7 DEF Pop
    <3>2. Queue!Take(w)
      BY <2>7, <3>1 DEF Pop, Queue!Take
    <3> QED BY <3>2 DEF Queue!Next
  <2>8. CASE Execute(w)
    <3>1. Exited' = Exited
      BY <2>8 DEF Execute
    <3>2. Queue!Complete(w)
      BY <2>8, <3>1 DEF Execute, Queue!Complete
    <3> QED BY <3>2 DEF Queue!Next
  <2> QED BY <1>3, <2>1, <2>2, <2>3, <2>4, <2>5, <2>6, <2>7, <2>8 DEF Step
<1>4. CASE StopCall \/ Stop
  <2>1. CASE StopCall
    BY <2>1 DEF StopCall
  <2>2. CASE StopFlag
    <3>1. Queue!Close
      BY <2>2 DEF StopFlag, Queue!Close
    <3> QED BY <3>1 DEF Queue!Next
  <2>3. CASE StopNotify
    <3>1. Exited' = Exited
      BY <2>3 DEF StopNotify, Asleep, PoolInv, TypeOK
    <3> QED BY <2>3, <3>1 DEF StopNotify
  <2>4. CASE StopJoin
    BY <2>4 DEF StopJoin
  <2> QED BY <1>4, <2>1, <2>2, <2>3, <2>4 DEF Stop
<1> QED BY <1>1, <1>2, <1>3, <1>4 DEF Next

\* The pool with its mutex, condition variable and stop() protocol implements
\* the FIFO task queue the servers rely on.
THEOREM PoolImplementsTaskQueue == Spec => IsTaskQueue
<1>1. Init => Queue!Init
  BY PoolAssumption DEF Init, Queue!Init, Exited
<1> QED BY <1>1, PoolInvariant, PoolStepSimulation, PTL
        DEF Spec, IsTaskQueue, Queue!Spec
=============================================================================
