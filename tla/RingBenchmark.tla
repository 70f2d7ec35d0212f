---------------------------- MODULE RingBenchmark ----------------------------
(***************************************************************************)
(* ring_buffer_benchmark.cc: main() times bench_ring(), which is SpscRing, *)
(* and then bench_mutex(), which is MutexQueue.  Each builds its queue,    *)
(* starts its two threads and joins them; main() makes no other access to  *)
(* either queue.                                                           *)
(***************************************************************************)
EXTENDS SpscRing

VARIABLES q, i, consumed, cpc, popped,  \* bench_mutex(); popped is its history
          main                          \* main(): "ring", "mutex" or "report"

mutexVars == <<q, i, consumed, cpc, popped>>
mainVars  == <<vars, mutexVars, main>>

Mutex == INSTANCE MutexQueue WITH Capacity <- Size, received <- popped

MainInit ==
    /\ Init
    /\ Mutex!Init
    /\ main = "ring"

InRing(step)  == main = "ring" /\ step /\ UNCHANGED <<mutexVars, main>>
InMutex(step) == main = "mutex" /\ step /\ UNCHANGED <<vars, main>>

\* t1.join(); t2.join();
JoinRing ==
    /\ main = "ring"
    /\ p.pc = "exit"
    /\ c.pc = "exit"
    /\ main' = "mutex"
    /\ UNCHANGED <<vars, mutexVars>>

JoinMutex ==
    /\ main = "mutex"
    /\ i = Messages
    /\ cpc = "exit"
    /\ main' = "report"
    /\ UNCHANGED <<vars, mutexVars>>

MainNext ==
    \/ InRing(Next) \/ JoinRing
    \/ InMutex(Mutex!Next) \/ JoinMutex

MainSpec == MainInit /\ [][MainNext]_mainVars

(***************************************************************************)
(* Every thread runs.  A store becomes visible in a finite amount of time: *)
(* a thread that loads an atomic again and again at last loads the newest  *)
(* store.  A thread that tries a mutex again and again at last gets it.    *)
(***************************************************************************)
FairSpec ==
    /\ MainSpec
    /\ WF_mainVars(InRing(Producer))
    /\ WF_mainVars(InRing(Consumer))
    /\ SF_mainVars(InRing(LoadReadIdx(Len(readIdx))))
    /\ SF_mainVars(InRing(LoadWriteIdx(Len(writeIdx))))
    /\ SF_mainVars(InRing(LoadDone))
    /\ WF_mainVars(InMutex(Mutex!Push))
    /\ WF_mainVars(InMutex(Mutex!Consumer))
    /\ WF_mainVars(JoinRing \/ JoinMutex)

-----------------------------------------------------------------------------
(* Properties                                                              *)

\* MutexQueue is the same bounded queue as the ring.
MutexIsBoundedQueue == Mutex!IsBoundedQueue

\* No busy-wait is for ever, for a queue that is full or empty and for the end
\* of the other thread: main() reports.
BenchmarkEnds == <>(main = "report")

=============================================================================
