------------------------------ MODULE TaskQueue ------------------------------
(***************************************************************************)
(* What echo_server/common/thread_pool promises to the network thread: a   *)
(* FIFO queue of tasks, each handed to one worker, which runs it outside   *)
(* the queue's lock; stop() closes the pool and lets the workers go.       *)
(* ThreadPool.tla implements this specification with the mutex and the     *)
(* condition variable; EpollServer.tla is composed with it.                *)
(***************************************************************************)
EXTENDS Sequences

CONSTANTS Workers,  \* the threads in workers_
          Task,     \* the closures that may be enqueued
          NoTask    \* "this worker is not running a task"

VARIABLES queue,    \* tasks waiting, oldest first
          holding,  \* the task each worker is running
          open,     \* FALSE once stop() has begun
          retired   \* workers whose thread function has returned

poolVars == <<queue, holding, open, retired>>

Init ==
    /\ queue = <<>>
    /\ holding = [w \in Workers |-> NoTask]
    /\ open = TRUE
    /\ retired = {}

\* enqueue(): accepted whether or not the pool is still open.
Submit(t) ==
    /\ queue' = Append(queue, t)
    /\ UNCHANGED <<holding, open, retired>>

\* A worker pops the oldest task; a pool that is closing still hands out tasks.
Take(w) ==
    /\ w \notin retired
    /\ holding[w] = NoTask
    /\ queue # <<>>
    /\ holding' = [holding EXCEPT ![w] = Head(queue)]
    /\ queue' = Tail(queue)
    /\ UNCHANGED <<open, retired>>

\* task() returns.
Complete(w) ==
    /\ holding[w] # NoTask
    /\ holding' = [holding EXCEPT ![w] = NoTask]
    /\ UNCHANGED <<queue, open, retired>>

Close ==
    /\ open' = FALSE
    /\ UNCHANGED <<queue, holding, retired>>

\* A worker leaves worker_loop(): only once the pool is closed, never in the
\* middle of a task, and with or without tasks left in the queue.
Retire(w) ==
    /\ ~open
    /\ w \notin retired
    /\ holding[w] = NoTask
    /\ retired' = retired \cup {w}
    /\ UNCHANGED <<queue, holding, open>>

Next ==
    \/ \E t \in Task : Submit(t)
    \/ \E w \in Workers : Take(w) \/ Complete(w) \/ Retire(w)
    \/ Close

Spec == Init /\ [][Next]_poolVars

=============================================================================
