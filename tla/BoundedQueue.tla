---------------------------- MODULE BoundedQueue ----------------------------
(***************************************************************************)
(* What the two queues of ring_buffer_benchmark.cc promise to the threads  *)
(* around them: message i is the i-th one pushed and the i-th one popped,  *)
(* and at most Capacity messages are in between.                           *)
(***************************************************************************)
EXTENDS Naturals, Sequences

CONSTANTS Capacity,  \* RING_SIZE
          Messages   \* num_messages

VARIABLES pushed,    \* how many messages have been pushed
          received   \* the messages popped, oldest first

queueVars == <<pushed, received>>

Init ==
    /\ pushed = 0
    /\ received = <<>>

Push ==
    /\ pushed < Messages
    /\ pushed - Len(received) < Capacity
    /\ pushed' = pushed + 1
    /\ UNCHANGED received

Pop ==
    /\ Len(received) < pushed
    /\ received' = Append(received, Len(received))
    /\ UNCHANGED pushed

Spec == Init /\ [][Push \/ Pop]_queueVars

=============================================================================
