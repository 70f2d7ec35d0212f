------------------------------ MODULE SpscRing ------------------------------
(***************************************************************************)
(* SPSCRingBuffer (ring_buffer.cc, ring_buffer_benchmark.cc) with the      *)
(* producer and the consumer of bench_ring().  Indices are size_t and wrap *)
(* at IdxMod = 2^w.                                                        *)
(*                                                                         *)
(* The memory is C++'s: an atomic is the log of its stores, a load returns *)
(* any store not older than one the thread already knows of, and a load    *)
(* with memory_order_acquire makes known to its thread what the thread     *)
(* that stored with memory_order_release had done before.  Here what a     *)
(* thread has done is how often it has accessed a slot, so every store     *)
(* carries that number, and a slot carries the number of its last write    *)
(* and of its last read.                                                   *)
(***************************************************************************)
EXTENDS Naturals, Sequences, SequencesExt

CONSTANTS Size,      \* RING_SIZE
          IdxMod,    \* 2^w, w the width of size_t
          Messages   \* num_messages: the producer pushes 0 .. Messages - 1

Indices == 0 .. IdxMod - 1
Plus1(i) == (i + 1) % IdxMod
Minus(i, j) == (i + IdxMod - j) % IdxMod

\* static_assert: Size is a power of 2, so i & (Size - 1) is i % Size and two
\* indices less than Size apart, across the wrap too, are in different slots.
Slot(i) == i % Size

\* Size + 1, the largest difference push() computes, must not wrap to 0.
ASSUME RingAssumption ==
    /\ Size \in Nat \ {0} /\ IdxMod \in Nat /\ Messages \in Nat
    /\ Size + 1 < IdxMod
    /\ IdxMod % Size = 0

VARIABLES
    writeIdx,  \* write_idx_: the log of its stores
    readIdx,   \* read_idx_: the log of its stores
    done,      \* done: what the producer published with it, or NotDone
    slots,     \* buffer_
    p,         \* the producer: where it is and what it knows
    c,         \* the consumer: where it is and what it knows
    received   \* history: the values the consumer has popped

vars == <<writeIdx, readIdx, done, slots, p, c, received>>

\* A store of an index by a thread that has made n slot accesses.
Store(idx, n) == [idx |-> idx, after |-> n]
NotDone == [stores |-> 0, after |-> 0]

Larger(m, n) == IF m < n THEN n ELSE m

\* A thread with acquire-loaded the store at position k of log.
Acquire(t, log, k) ==
    [t EXCEPT !.seen = k, !.knows = Larger(@, log[k].after)]

Init ==
    /\ writeIdx = <<Store(0, 0)>>
    /\ readIdx = <<Store(0, 0)>>
    /\ done = NotDone
    /\ slots = [s \in 0 .. Size - 1 |-> [val |-> 0, written |-> 0, read |-> 0]]
    /\ p = [pc |-> "push", i |-> 0, seen |-> 1, knows |-> 0, accesses |-> 0]
    /\ c = [pc |-> "pop", draining |-> FALSE, seen |-> 1, knows |-> 0, accesses |-> 0]
    /\ received = <<>>

-----------------------------------------------------------------------------
(* push(i) and the producer's loop.                                        *)

\* The relaxed load of an index by the one thread that stores it.
W == Last(writeIdx).idx
R == Last(readIdx).idx

\* Mutant: the limit is off by one.
OffByOne(r) == Minus(Plus1(W), r) > Size + 1

\* next_write - read_idx > Size
Full(r) == Minus(Plus1(W), r) > Size

\* Mutants: i <= num_messages; the load is relaxed.
PushOneMore(k) ==
    /\ p.pc = "push"
    /\ p.i <= Messages
    /\ k \in p.seen .. Len(readIdx)
    /\ p' = [Acquire(p, readIdx, k) EXCEPT
                !.pc = IF Full(readIdx[k].idx) THEN "push" ELSE "write"]
    /\ UNCHANGED <<writeIdx, readIdx, done, slots, c, received>>

LoadReadIdxRelaxed(k) ==
    /\ p.pc = "push"
    /\ p.i < Messages
    /\ k \in p.seen .. Len(readIdx)
    /\ p' = [p EXCEPT !.seen = k,
                      !.pc = IF Full(readIdx[k].idx) THEN "push" ELSE "write"]
    /\ UNCHANGED <<writeIdx, readIdx, done, slots, c, received>>

\* Full: push() returns false and the loop calls it again.
LoadReadIdx(k) ==
    /\ p.pc = "push"
    /\ p.i < Messages
    /\ k \in p.seen .. Len(readIdx)
    /\ p' = [Acquire(p, readIdx, k) EXCEPT
                !.pc = IF Full(readIdx[k].idx) THEN "push" ELSE "write"]
    /\ UNCHANGED <<writeIdx, readIdx, done, slots, c, received>>

WriteSlot ==
    /\ p.pc = "write"
    /\ slots' = [slots EXCEPT ![Slot(W)].val = p.i,
                              ![Slot(W)].written = p.accesses + 1]
    /\ p' = [p EXCEPT !.pc = "store", !.accesses = @ + 1]
    /\ UNCHANGED <<writeIdx, readIdx, done, c, received>>

StoreWriteIdx ==
    /\ p.pc = "store"
    /\ writeIdx' = Append(writeIdx, Store(Plus1(W), p.accesses))
    /\ p' = [p EXCEPT !.pc = "push", !.i = @ + 1]
    /\ UNCHANGED <<readIdx, done, slots, c, received>>

\* done.store(true, release), and the thread ends.
SetDone ==
    /\ p.pc = "push"
    /\ p.i = Messages
    /\ done' = [stores |-> Len(writeIdx), after |-> p.accesses]
    /\ p' = [p EXCEPT !.pc = "exit"]
    /\ UNCHANGED <<writeIdx, readIdx, slots, c, received>>

-----------------------------------------------------------------------------
(* pop(val) and the consumer's loop.                                       *)

\* Empty: pop() returns false; the drain loop ends, the main loop looks at done.
LoadWriteIdx(k) ==
    /\ c.pc = "pop"
    /\ k \in c.seen .. Len(writeIdx)
    /\ c' = [Acquire(c, writeIdx, k) EXCEPT
                !.pc = IF R # writeIdx[k].idx THEN "read"
                       ELSE IF c.draining THEN "exit" ELSE "done?"]
    /\ UNCHANGED <<writeIdx, readIdx, done, slots, p, received>>

ReadSlot ==
    /\ c.pc = "read"
    /\ received' = Append(received, slots[Slot(R)].val)
    /\ slots' = [slots EXCEPT ![Slot(R)].read = c.accesses + 1]
    /\ c' = [c EXCEPT !.pc = "store", !.accesses = @ + 1]
    /\ UNCHANGED <<writeIdx, readIdx, done, p>>

StoreReadIdx ==
    /\ c.pc = "store"
    /\ readIdx' = Append(readIdx, Store(Plus1(R), c.accesses))
    /\ c' = [c EXCEPT !.pc = "pop"]
    /\ UNCHANGED <<writeIdx, done, slots, p, received>>

\* done is not set, as far as the consumer can see.
LoadNotDone ==
    /\ c.pc = "done?"
    /\ c' = [c EXCEPT !.pc = "pop"]
    /\ UNCHANGED <<writeIdx, readIdx, done, slots, p, received>>

\* Mutant: no drain loop.
ExitWhenDone ==
    /\ c.pc = "done?"
    /\ done # NotDone
    /\ c' = [c EXCEPT !.pc = "exit"]
    /\ UNCHANGED <<writeIdx, readIdx, done, slots, p, received>>

\* What the producer did before it set done is known to whoever sees done set.
LoadDone ==
    /\ c.pc = "done?"
    /\ done # NotDone
    /\ c' = [c EXCEPT !.pc = "pop", !.draining = TRUE,
                      !.seen = Larger(@, done.stores),
                      !.knows = Larger(@, done.after)]
    /\ UNCHANGED <<writeIdx, readIdx, done, slots, p, received>>

-----------------------------------------------------------------------------
Producer ==
    \/ \E k \in 1 .. Len(readIdx) : LoadReadIdx(k)
    \/ WriteSlot \/ StoreWriteIdx \/ SetDone

Consumer ==
    \/ \E k \in 1 .. Len(writeIdx) : LoadWriteIdx(k)
    \/ ReadSlot \/ StoreReadIdx \/ LoadNotDone \/ LoadDone

Next == Producer \/ Consumer

Spec == Init /\ [][Next]_vars

-----------------------------------------------------------------------------
(* Properties                                                              *)

\* Every variable keeps its shape: the producer stops at num_messages, an index
\* at the width of size_t, a load at the stores there are.
TypeOK ==
    /\ writeIdx \in Seq([idx : Indices, after : Nat])
    /\ readIdx \in Seq([idx : Indices, after : Nat])
    /\ done \in [stores : Nat, after : Nat]
    /\ slots \in [0 .. Size - 1 -> [val : Nat, written : Nat, read : Nat]]
    /\ p \in [pc : {"push", "write", "store", "exit"}, i : 0 .. Messages,
              seen : 1 .. Len(readIdx), knows : Nat, accesses : Nat]
    /\ c \in [pc : {"pop", "read", "store", "done?", "exit"}, draining : BOOLEAN,
              seen : 1 .. Len(writeIdx), knows : Nat, accesses : Nat]
    /\ received \in Seq(Nat)

\* "Release semantics ensure the data write is visible before the index update"
\* (ring_buffer.cc): the plain accesses to a slot are ordered by the indices,
\* whatever old value a load of the other index returned.
NoDataRace ==
    /\ p.pc = "write" => slots[Slot(W)].read <= p.knows
    /\ c.pc = "read" => slots[Slot(R)].written <= c.knows

\* The consumer of bench_ring() leaves no message behind ("drain remaining").
Drained == c.pc = "exit" => received = [n \in 1 .. Messages |-> n - 1]

\* The ring is a bounded FIFO queue, across the wrap of its indices as well.
Queue == INSTANCE BoundedQueue
         WITH Capacity <- Size, pushed <- Len(writeIdx) - 1

IsBoundedQueue == Queue!Spec

=============================================================================
