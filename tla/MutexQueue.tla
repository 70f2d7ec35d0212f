----------------------------- MODULE MutexQueue -----------------------------
(***************************************************************************)
(* MutexQueue (ring_buffer_benchmark.cc) with the producer and the         *)
(* consumer of bench_mutex().  Every access to q_ is inside a lock_guard,  *)
(* so a step is one critical section, or one access to consumed.  An       *)
(* attempt that finds the queue full or empty changes nothing.             *)
(***************************************************************************)
EXTENDS Naturals, Sequences

CONSTANTS Capacity,  \* capacity_
          Messages   \* num_messages

VARIABLES q,         \* q_
          i,         \* the producer's loop variable
          consumed,  \* consumed
          cpc,       \* the consumer: "loop", "pop", "count" or "exit"
          received   \* history: the values the consumer has popped

vars == <<q, i, consumed, cpc, received>>

Init ==
    /\ q = <<>>
    /\ i = 0
    /\ consumed = 0
    /\ cpc = "loop"
    /\ received = <<>>

\* Mutant: the capacity is not tested.
PushAnyway ==
    /\ i < Messages
    /\ q' = Append(q, i)
    /\ i' = i + 1
    /\ UNCHANGED <<consumed, cpc, received>>

Push ==
    /\ i < Messages
    /\ Len(q) < Capacity
    /\ q' = Append(q, i)
    /\ i' = i + 1
    /\ UNCHANGED <<consumed, cpc, received>>

\* Mutant: one message too many is awaited.
LoopOnceMore ==
    /\ cpc = "loop"
    /\ cpc' = IF consumed <= Messages THEN "pop" ELSE "exit"
    /\ UNCHANGED <<q, i, consumed, received>>

\* while (consumed < num_messages)
Loop ==
    /\ cpc = "loop"
    /\ cpc' = IF consumed < Messages THEN "pop" ELSE "exit"
    /\ UNCHANGED <<q, i, consumed, received>>

Pop ==
    /\ cpc = "pop"
    /\ q # <<>>
    /\ received' = Append(received, Head(q))
    /\ q' = Tail(q)
    /\ cpc' = "count"
    /\ UNCHANGED <<i, consumed>>

\* consumed.fetch_add(1)
Count ==
    /\ cpc = "count"
    /\ consumed' = consumed + 1
    /\ cpc' = "loop"
    /\ UNCHANGED <<q, i, received>>

Consumer == Loop \/ Pop \/ Count

Next == Push \/ Consumer

Spec == Init /\ [][Next]_vars

-----------------------------------------------------------------------------
(* Properties                                                              *)

\* The same bounded FIFO queue as the ring ("Same bounded semantics as
\* SPSCRingBuffer").
Queue == INSTANCE BoundedQueue WITH pushed <- i

IsBoundedQueue == Queue!Spec

=============================================================================
