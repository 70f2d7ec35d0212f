----------------------------- MODULE ThreadPool -----------------------------
(***************************************************************************)
(* echo_server/common/thread_pool.{h,cpp}: tasks_, mtx_, cv_, running_ and *)
(* the threads that touch them.  Main is the network thread, the only      *)
(* caller of enqueue(); stop() runs on Main too, from the destructor or    *)
(* from the signal handler of main.cpp, which suspends whatever Main was   *)
(* doing until it returns.  A step is one access to state that another     *)
(* thread can see: the mutex, the atomic flag, the wait set of cv_.        *)
(***************************************************************************)
EXTENDS Naturals, Sequences, Functions

CONSTANTS Workers,   \* the threads in workers_
          Tasks,     \* the closures Main enqueues, each at most once
          NoTask,    \* an empty std::function
          Main,      \* the network thread
          Nobody,    \* the owner of a free mutex
          StopAt     \* the points of Main at which stop() may be called

MainPoints == {"idle", "push", "notify"}

ASSUME PoolAssumption ==
    /\ Workers # {}
    /\ NoTask \notin Tasks
    /\ Main \notin Workers
    /\ Nobody \notin Workers \cup {Main}
    /\ StopAt \subseteq MainPoints

VARIABLES
    tasks,      \* tasks_, oldest first
    mtx,        \* the thread that holds mtx_, or Nobody
    running,    \* running_
    wpc,        \* where each worker is in worker_loop()
    task,       \* worker_loop()'s local task, NoTask when empty
    mpc,        \* where Main is in enqueue()
    arg,        \* enqueue()'s argument
    spc,        \* where Main is in stop()
    submitted,  \* history: the tasks enqueue() was called with
    finished    \* history: the tasks whose call has returned

vars == <<tasks, mtx, running, wpc, task, mpc, arg, spc, submitted, finished>>

WorkerPoints == {"loop", "lock", "pred", "block", "asleep", "exec", "exited"}
StopPoints   == {"none", "flag", "notify", "join", "done"}

Asleep == {w \in Workers : wpc[w] = "asleep"}
Exited == {w \in Workers : wpc[w] = "exited"}

\* Main executes stop(); its interrupted enqueue() makes no step meanwhile.
InStop == spc \in {"flag", "notify", "join"}

Init ==
    /\ tasks = <<>>
    /\ mtx = Nobody
    /\ running = TRUE
    /\ wpc = [w \in Workers |-> "loop"]
    /\ task = [w \in Workers |-> NoTask]
    /\ mpc = "idle"
    /\ arg = NoTask
    /\ spc = "none"
    /\ submitted = {}
    /\ finished = {}

-----------------------------------------------------------------------------
(* enqueue(): lock, push, unlock, notify_one.                              *)

EnqueueLock(t) ==
    /\ ~InStop
    /\ mpc = "idle"
    /\ t \notin submitted
    /\ mtx = Nobody
    /\ mtx' = Main
    /\ arg' = t
    /\ submitted' = submitted \cup {t}
    /\ mpc' = "push"
    /\ UNCHANGED <<tasks, running, wpc, task, spc, finished>>

\* Mutant: the queue gets the closure after it has been moved from.
PushMovedFrom ==
    /\ ~InStop
    /\ mpc = "push"
    /\ tasks' = Append(tasks, NoTask)
    /\ arg' = NoTask
    /\ mtx' = Nobody
    /\ mpc' = "notify"
    /\ UNCHANGED <<running, wpc, task, spc, submitted, finished>>

EnqueuePush ==
    /\ ~InStop
    /\ mpc = "push"
    /\ tasks' = Append(tasks, arg)
    /\ arg' = NoTask
    /\ mtx' = Nobody
    /\ mpc' = "notify"
    /\ UNCHANGED <<running, wpc, task, spc, submitted, finished>>

\* Mutant: no notify_one().
NoNotify ==
    /\ ~InStop
    /\ mpc = "notify"
    /\ mpc' = "idle"
    /\ UNCHANGED <<tasks, mtx, running, wpc, task, arg, spc, submitted, finished>>

\* A woken worker contends for the mutex again; with nobody asleep the
\* notification is lost.
EnqueueNotify ==
    /\ ~InStop
    /\ mpc = "notify"
    /\ \/ \E w \in Asleep : wpc' = [wpc EXCEPT ![w] = "lock"]
       \/ Asleep = {} /\ wpc' = wpc
    /\ mpc' = "idle"
    /\ UNCHANGED <<tasks, mtx, running, task, arg, spc, submitted, finished>>

-----------------------------------------------------------------------------
(* worker_loop()                                                           *)

\* while (running_)
Loop(w) ==
    /\ wpc[w] = "loop"
    /\ wpc' = [wpc EXCEPT ![w] = IF running THEN "lock" ELSE "exited"]
    /\ UNCHANGED <<tasks, mtx, running, task, mpc, arg, spc, submitted, finished>>

\* unique_lock, and the re-acquisition inside cv_.wait after a wake-up.
Lock(w) ==
    /\ wpc[w] = "lock"
    /\ mtx = Nobody
    /\ mtx' = w
    /\ wpc' = [wpc EXCEPT ![w] = "pred"]
    /\ UNCHANGED <<tasks, running, task, mpc, arg, spc, submitted, finished>>

\* Mutants: the mutex is released before the worker is in the wait set; the
\* predicate does not look at running_.
UnlockThenWait(w) ==
    /\ wpc[w] = "pred"
    /\ tasks = <<>>
    /\ running
    /\ wpc' = [wpc EXCEPT ![w] = "block"]
    /\ mtx' = Nobody
    /\ UNCHANGED <<tasks, running, task, mpc, arg, spc, submitted, finished>>

PredIgnoresRunning(w) ==
    /\ wpc[w] = "pred"
    /\ tasks = <<>>
    /\ wpc' = [wpc EXCEPT ![w] = "block"]
    /\ UNCHANGED <<tasks, mtx, running, task, mpc, arg, spc, submitted, finished>>

\* The predicate of cv_.wait is false: the worker is about to block, still
\* holding the mutex but having read running_ for the last time.
PredFalse(w) ==
    /\ wpc[w] = "pred"
    /\ tasks = <<>>
    /\ running
    /\ wpc' = [wpc EXCEPT ![w] = "block"]
    /\ UNCHANGED <<tasks, mtx, running, task, mpc, arg, spc, submitted, finished>>

\* cv_.wait releases the mutex and joins the wait set in one step.
Block(w) ==
    /\ wpc[w] = "block"
    /\ wpc' = [wpc EXCEPT ![w] = "asleep"]
    /\ mtx' = Nobody
    /\ UNCHANGED <<tasks, running, task, mpc, arg, spc, submitted, finished>>

\* A condition variable may wake a thread that nobody notified.
SpuriousWakeup(w) ==
    /\ wpc[w] = "asleep"
    /\ wpc' = [wpc EXCEPT ![w] = "lock"]
    /\ UNCHANGED <<tasks, mtx, running, task, mpc, arg, spc, submitted, finished>>

\* if (!running_ && tasks_.empty()) return;
Return(w) ==
    /\ wpc[w] = "pred"
    /\ tasks = <<>>
    /\ ~running
    /\ wpc' = [wpc EXCEPT ![w] = "exited"]
    /\ mtx' = Nobody
    /\ UNCHANGED <<tasks, running, task, mpc, arg, spc, submitted, finished>>

\* Mutants: front() without pop(); the newest task first.
FrontWithoutPop(w) ==
    /\ wpc[w] = "pred"
    /\ tasks # <<>>
    /\ task' = [task EXCEPT ![w] = Head(tasks)]
    /\ mtx' = Nobody
    /\ wpc' = [wpc EXCEPT ![w] = "exec"]
    /\ UNCHANGED <<tasks, running, mpc, arg, spc, submitted, finished>>

PopNewest(w) ==
    /\ wpc[w] = "pred"
    /\ tasks # <<>>
    /\ task' = [task EXCEPT ![w] = tasks[Len(tasks)]]
    /\ tasks' = SubSeq(tasks, 1, Len(tasks) - 1)
    /\ mtx' = Nobody
    /\ wpc' = [wpc EXCEPT ![w] = "exec"]
    /\ UNCHANGED <<running, mpc, arg, spc, submitted, finished>>

\* task = std::move(tasks_.front()); tasks_.pop(); and the mutex is released.
Pop(w) ==
    /\ wpc[w] = "pred"
    /\ tasks # <<>>
    /\ task' = [task EXCEPT ![w] = Head(tasks)]
    /\ tasks' = Tail(tasks)
    /\ mtx' = Nobody
    /\ wpc' = [wpc EXCEPT ![w] = "exec"]
    /\ UNCHANGED <<running, mpc, arg, spc, submitted, finished>>

\* task() returns and the local task is destroyed.
Execute(w) ==
    /\ wpc[w] = "exec"
    /\ finished' = finished \cup {task[w]}
    /\ task' = [task EXCEPT ![w] = NoTask]
    /\ wpc' = [wpc EXCEPT ![w] = "loop"]
    /\ UNCHANGED <<tasks, mtx, running, mpc, arg, spc, submitted>>

-----------------------------------------------------------------------------
(* stop(), called again by the destructor after the signal handler's call. *)

StopCall ==
    /\ ~InStop
    /\ mpc \in StopAt
    /\ spc' = "flag"
    /\ UNCHANGED <<tasks, mtx, running, wpc, task, mpc, arg, submitted, finished>>

\* running_ = false, without the mutex.
StopFlag ==
    /\ spc = "flag"
    /\ running' = FALSE
    /\ spc' = "notify"
    /\ UNCHANGED <<tasks, mtx, wpc, task, mpc, arg, submitted, finished>>

StopNotify ==
    /\ spc = "notify"
    /\ wpc' = [w \in Workers |-> IF w \in Asleep THEN "lock" ELSE wpc[w]]
    /\ spc' = "join"
    /\ UNCHANGED <<tasks, mtx, running, task, mpc, arg, submitted, finished>>

\* The loop of joins ends when every worker's thread function has returned.
StopJoin ==
    /\ spc = "join"
    /\ Exited = Workers
    /\ spc' = "done"
    /\ UNCHANGED <<tasks, mtx, running, wpc, task, mpc, arg, submitted, finished>>

-----------------------------------------------------------------------------
Enqueue == (\E t \in Tasks : EnqueueLock(t)) \/ EnqueuePush \/ EnqueueNotify

Step(w) ==
    \/ Loop(w) \/ Lock(w) \/ PredFalse(w) \/ Block(w)
    \/ Return(w) \/ Pop(w) \/ Execute(w)

Stop == StopFlag \/ StopNotify \/ StopJoin

Next ==
    \/ Enqueue
    \/ \E w \in Workers : Step(w) \/ SpuriousWakeup(w)
    \/ StopCall \/ Stop

Spec == Init /\ [][Next]_vars

(***************************************************************************)
(* The scheduler runs every thread that can run: a worker that can step    *)
(* eventually steps (task() returns, cv_ is not woken spuriously by right) *)
(* and Main ends the enqueue() or stop() it has begun.  Calling enqueue()  *)
(* or stop() is never obligatory.                                          *)
(***************************************************************************)
Fairness ==
    /\ \A w \in Workers : WF_vars(Step(w))
    /\ WF_vars(EnqueuePush \/ EnqueueNotify)
    /\ WF_vars(Stop)

FairSpec == Spec /\ Fairness

-----------------------------------------------------------------------------
(* Properties                                                              *)

\* Every variable has the shape its C++ counterpart can have; in particular
\* the queue never holds an empty (moved-from) std::function.
TypeOK ==
    /\ tasks \in Seq(Tasks)
    /\ mtx \in Workers \cup {Main, Nobody}
    /\ running \in BOOLEAN
    /\ wpc \in [Workers -> WorkerPoints]
    /\ task \in [Workers -> Tasks \cup {NoTask}]
    /\ mpc \in MainPoints
    /\ arg \in Tasks \cup {NoTask}
    /\ spc \in StopPoints
    /\ submitted \subseteq Tasks
    /\ finished \subseteq Tasks

\* No lost wake-up in enqueue(): while the pool runs, a task left in the queue
\* by a completed enqueue() finds a worker that will look at the queue again
\* before it sleeps ("the notification is lost - that's fine", enqueue()'s
\* comment).
NoStrandedTask ==
    running /\ tasks # <<>> /\ mpc # "notify" =>
        \E w \in Workers : wpc[w] \in {"loop", "lock", "pred", "exec"}

\* The four places a submitted task can be in.
Held     == {task[w] : w \in Workers} \ {NoTask}
InFlight == {arg} \ {NoTask}

\* No task is lost or run twice, whatever the interleaving of enqueue(), the
\* workers and stop(): each submitted task is in exactly one place.
TaskConserved ==
    /\ submitted = InFlight \cup Range(tasks) \cup Held \cup finished
    /\ InFlight \cap (Range(tasks) \cup Held \cup finished) = {}
    /\ Range(tasks) \cap (Held \cup finished) = {}
    /\ Held \cap finished = {}
    /\ IsInjective(tasks)
    /\ \A v, w \in Workers : task[v] = task[w] /\ task[v] # NoTask => v = w

\* The pool is a FIFO task queue to its producer: the mutex, the condition
\* variable and the order of the accesses in stop() are invisible outside.
Queue == INSTANCE TaskQueue
         WITH Task <- Tasks, queue <- tasks, holding <- task,
              open <- running, retired <- Exited

IsTaskQueue == Queue!Spec

\* A task passed to enqueue() is run unless the pool is stopped.
EveryTaskRuns ==
    \A t \in Tasks : t \in submitted ~> t \in finished \/ ~running

\* stop() hangs in no other way than the two below: once notify_all found every
\* worker awake or in the wait set, and Main was not interrupted with mtx_
\* held, the joins return.
StopReturnsWhenSeen ==
    /\ spc = "join"
    /\ mtx # Main
    /\ \A w \in Workers : wpc[w] \notin {"block", "asleep"}
    ~> spc = "done"

\* "Sets running_=false, wakes all workers, joins their threads."
\* (thread_pool.h, about stop()): a call of stop() returns.
StopReturns == spc = "flag" ~> spc = "done"

\* "Wait for each worker thread to finish (join)" (thread_pool.cpp, about
\* stop()): stop() does not join a worker that waits for a mutex held by the
\* very thread that stop() suspended.
JoinCanReturn ==
    spc = "join" /\ mtx = Main => \A w \in Workers : wpc[w] # "lock"

=============================================================================
