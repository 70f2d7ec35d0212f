------------------------ MODULE RingBenchmarkProofs ------------------------
(***************************************************************************)
(* Proofs about the two queues of RingBenchmark, for every size, index     *)
(* width and number of messages.  The ring: no data race, nothing left     *)
(* behind, and a bounded FIFO queue.  The mutex queue: the same bounded    *)
(* FIFO queue.                                                             *)
(***************************************************************************)
EXTENDS RingBenchmark, Integers, TLAPS

-----------------------------------------------------------------------------
(* Arithmetic modulo m.                                                    *)

\* What \div and % are.
LEMMA DivMod ==
    ASSUME NEW x \in Nat, NEW m \in Nat \ {0}
    PROVE  /\ x \div m \in Nat
           /\ x % m \in 0..m - 1
           /\ x = m * (x \div m) + (x % m)
OBVIOUS

LEMMA Multiple ==
    ASSUME NEW m \in Nat \ {0}, NEW d \in Int, d >= 1
    PROVE  m * d >= m
OBVIOUS

\* Quotient and remainder are unique.
LEMMA ModUnique ==
    ASSUME NEW x \in Nat, NEW m \in Nat \ {0}, NEW u \in Int, NEW r \in 0..m - 1,
           x = m * u + r
    PROVE  x % m = r
<1> PICK k \in Nat : k = x \div m
  BY DivMod
<1> PICK s \in 0..m - 1 : s = x % m /\ x = m * k + s
  BY DivMod
<1>1. m * u + r = m * k + s
  OBVIOUS
<1>2. CASE u = k
  BY <1>1, <1>2
<1>3. CASE u > k
  <2>1. m * (u - k) >= m
    BY <1>3, Multiple
  <2>2. m * (u - k) = m * u - m * k
    OBVIOUS
  <2> QED BY <1>1, <2>1, <2>2
<1>4. CASE u < k
  <2>1. m * (k - u) >= m
    BY <1>4, Multiple
  <2>2. m * (k - u) = m * k - m * u
    OBVIOUS
  <2> QED BY <1>1, <2>1, <2>2
<1> QED BY <1>2, <1>3, <1>4

\* Numbers with the same remainder are m apart.
LEMMA Apart ==
    ASSUME NEW a \in Nat, NEW b \in Nat, NEW m \in Nat \ {0}, a % m = b % m, a < b
    PROVE  a + m <= b
<1>1. PICK k \in Nat, r \in 0..m - 1 : a = m * k + r /\ r = a % m
  BY DivMod
<1>2. PICK h \in Nat, s \in 0..m - 1 : b = m * h + s /\ s = b % m
  BY DivMod
<1>3. b = m * h + r
  BY <1>1, <1>2
<1>4. h - k >= 1
  <2>1. SUFFICES ASSUME h <= k PROVE FALSE
    OBVIOUS
  <2>2. CASE h = k
    BY <1>1, <1>3, <2>2
  <2>3. CASE h < k
    <3>1. m * (k - h) >= m
      BY <2>3, Multiple
    <3>2. m * (k - h) = m * k - m * h
      OBVIOUS
    <3> QED BY <1>1, <1>3, <3>1, <3>2
  <2> QED BY <2>1, <2>2, <2>3
<1>5. m * (h - k) >= m
  BY <1>4, Multiple
<1>6. m * (h - k) = m * h - m * k
  OBVIOUS
<1> QED BY <1>1, <1>3, <1>5, <1>6

\* The steps of the four facts about indices that multiply.
LEMMA NextMod ==
    ASSUME NEW m \in Nat \ {0}, NEW k \in Nat, NEW r \in 0..m - 1
    PROVE  (r + 1) % m = (m * k + r + 1) % m
<1>1. CASE r + 1 < m
  <2>1. m * k + r + 1 = m * k + (r + 1) /\ r + 1 = m * 0 + (r + 1) /\ r + 1 \in 0..m - 1
    BY <1>1
  <2>2. m * k + r + 1 \in Nat
    OBVIOUS
  <2>3. (m * k + r + 1) % m = r + 1
    BY <2>1, <2>2, ModUnique
  <2>4. (r + 1) % m = r + 1
    BY <2>1, ModUnique
  <2> QED BY <2>3, <2>4
<1>2. CASE r + 1 = m
  <2>1. m * k + r + 1 = m * (k + 1) + 0 /\ r + 1 = m * 1 + 0 /\ 0 \in 0..m - 1
    BY <1>2
  <2>2. m * k + r + 1 \in Nat /\ k + 1 \in Int
    OBVIOUS
  <2>3. (m * k + r + 1) % m = 0
    BY <2>1, <2>2, ModUnique
  <2>4. (r + 1) % m = 0
    BY <2>1, ModUnique
  <2> QED BY <2>3, <2>4
<1> QED BY <1>1, <1>2

LEMMA DifferenceMod ==
    ASSUME NEW m \in Nat \ {0}, NEW k \in Nat, NEW h \in Nat,
           NEW r \in 0..m - 1, NEW s \in 0..m - 1, NEW d \in 0..m - 1,
           (m * k + r) - (m * h + s) = d
    PROVE  (r + m - s) % m = d
<1> PICK u \in Int : u = h - k + 1
  OBVIOUS
<1>1. m * u = m * h - m * k + m
  OBVIOUS
<1>2. r + m - s = m * u + d /\ r + m - s \in Nat
  BY <1>1
<1> QED BY <1>2, ModUnique

LEMMA SlotMod ==
    ASSUME NEW m \in Nat \ {0}, NEW h \in Nat, NEW k \in Nat, NEW j \in Nat,
           NEW s \in 0..m - 1
    PROVE  ((m * h) * k + (m * j + s)) % m = s
<1> PICK u \in Int : u = h * k + j
  OBVIOUS
<1>1. (m * h) * k = m * (h * k)
  OBVIOUS
<1>2. m * u = m * (h * k) + m * j
  OBVIOUS
<1>3. (m * h) * k + (m * j + s) = m * u + s
  BY <1>1, <1>2
<1>4. (m * h) * k + (m * j + s) \in Nat
  <2>1. (m * h) * k \in Nat /\ m * j + s \in Nat
    OBVIOUS
  <2> QED BY <2>1
<1> QED BY <1>3, <1>4, ModUnique

\* The index and the slot of position n.  The steps below do not look inside.
Index(n)  == n % IdxMod
SlotNo(n) == n % Size

\* What an index is of a position: the next one, the difference of two less
\* than IdxMod apart, and its slot.
LEMMA NextIndex ==
    ASSUME NEW n \in Nat
    PROVE  Index(n) \in Indices /\ Plus1(Index(n)) = Index(n + 1)
<1>1. IdxMod \in Nat \ {0}
  BY RingAssumption
<1>2. PICK k \in Nat, r \in 0..IdxMod - 1 : n = IdxMod * k + r /\ r = n % IdxMod
  BY <1>1, DivMod
<1>3. (r + 1) % IdxMod = (n + 1) % IdxMod
  <2>1. (r + 1) % IdxMod = (IdxMod * k + r + 1) % IdxMod
    BY <1>1, NextMod
  <2> QED BY <1>2, <2>1
<1> QED BY <1>2, <1>3 DEF Plus1, Indices, Index

LEMMA Difference ==
    ASSUME NEW a \in Nat, NEW b \in Nat, a - b \in 0..IdxMod - 1
    PROVE  Minus(Index(a), Index(b)) = a - b
<1>1. IdxMod \in Nat \ {0}
  BY RingAssumption
<1>2. PICK k \in Nat, r \in 0..IdxMod - 1 : a = IdxMod * k + r /\ r = a % IdxMod
  BY <1>1, DivMod
<1>3. PICK h \in Nat, s \in 0..IdxMod - 1 : b = IdxMod * h + s /\ s = b % IdxMod
  BY <1>1, DivMod
<1>4. (r + IdxMod - s) % IdxMod = a - b
  <2>1. PICK d \in 0..IdxMod - 1 : d = a - b
    OBVIOUS
  <2>2. (IdxMod * k + r) - (IdxMod * h + s) = d
    BY <1>2, <1>3, <2>1
  <2>3. (r + IdxMod - s) % IdxMod = d
    BY <1>1, <2>2, DifferenceMod
  <2> QED BY <2>1, <2>3
<1> QED BY <1>2, <1>3, <1>4 DEF Minus, Index

LEMMA SlotOf ==
    ASSUME NEW n \in Nat
    PROVE  Slot(Index(n)) = SlotNo(n) /\ SlotNo(n) \in 0 .. Size - 1
<1>1. IdxMod \in Nat \ {0} /\ Size \in Nat \ {0} /\ IdxMod % Size = 0
  BY RingAssumption
<1>2. PICK k \in Nat, r \in 0..IdxMod - 1 : n = IdxMod * k + r /\ r = n % IdxMod
  BY <1>1, DivMod
<1>3. PICK h \in Nat : IdxMod = Size * h + (IdxMod % Size)
  BY <1>1, DivMod
<1>4. PICK j \in Nat, s \in 0..Size - 1 : r = Size * j + s /\ s = r % Size
  <2>1. r \in Nat
    BY <1>1
  <2> QED BY <1>1, <2>1, DivMod
<1>5. IdxMod = Size * h
  BY <1>1, <1>3
<1>6. n % Size = s
  <2>1. ((Size * h) * k + (Size * j + s)) % Size = s
    BY <1>1, SlotMod
  <2> QED BY <1>2, <1>4, <1>5, <2>1
<1> QED BY <1>2, <1>4, <1>6 DEF Slot, Index, SlotNo

LEMMA IndexApart ==
    ASSUME NEW a \in Nat, NEW b \in Nat, a < b, Index(a) = Index(b)
    PROVE  a + IdxMod <= b
<1>1. IdxMod \in Nat \ {0}
  BY RingAssumption
<1>2. a % IdxMod = b % IdxMod
  BY DEF Index
<1> QED BY <1>1, <1>2, Apart

LEMMA SlotApart ==
    ASSUME NEW a \in Nat, NEW b \in Nat, a < b, SlotNo(a) = SlotNo(b)
    PROVE  a + Size <= b
<1>1. Size \in Nat \ {0}
  BY RingAssumption
<1>2. a % Size = b % Size
  BY DEF SlotNo
<1> QED BY <1>1, <1>2, Apart

-----------------------------------------------------------------------------
(* The invariant.                                                          *)

Writes == Len(writeIdx) - 1
Reads  == Len(readIdx) - 1

\* The n-th store of an index is of n modulo IdxMod, after n slot accesses.
LogInv ==
    /\ \A k \in 1..Len(writeIdx) : writeIdx[k] = Store(Index(k - 1), k - 1)
    /\ \A k \in 1..Len(readIdx) : readIdx[k] = Store(Index(k - 1), k - 1)

\* A thread has accessed as many slots as it has stored indices, but for the one
\* access it is about to publish; it knows of as many as it has seen stored.
CountInv ==
    /\ p.i = Writes
    /\ p.accesses = IF p.pc = "store" THEN Writes + 1 ELSE Writes
    /\ c.accesses = IF c.pc = "store" THEN Reads + 1 ELSE Reads
    /\ p.knows = p.seen - 1
    /\ c.knows = c.seen - 1
    /\ p.pc \in {"write", "store"} => p.i < Messages
    /\ received = [n \in 1..c.accesses |-> n - 1]

\* Neither thread goes beyond what it knows of the other.
BoundInv ==
    /\ Writes - (p.seen - 1) <= Size
    /\ p.pc \in {"write", "store"} => Writes - (p.seen - 1) < Size
    /\ Reads <= c.seen - 1
    /\ c.pc \in {"read", "store"} => Reads < c.seen - 1

\* Which accesses the last write and the last read of a slot can have been, and
\* what is in the slots that are written and not yet read.
SlotInv ==
    /\ \A s \in 0..Size - 1 :
          /\ slots[s].written # 0 =>
                slots[s].written <= p.accesses /\ SlotNo(slots[s].written - 1) = s
          /\ slots[s].read # 0 =>
                slots[s].read <= c.accesses /\ SlotNo(slots[s].read - 1) = s
    /\ \A n \in Nat : Reads <= n /\ n < p.accesses => slots[SlotNo(n)].val = n

\* Who has seen done set has seen every store; the drain loop ends with none left.
EndInv ==
    /\ done # NotDone => done = [stores |-> Len(writeIdx), after |-> Writes]
    /\ done # NotDone => p.pc = "exit"
    /\ p.pc = "exit" => p.i = Messages
    /\ c.draining => p.pc = "exit" /\ c.seen = Len(writeIdx)
    /\ c.pc = "exit" => c.draining /\ Reads = Writes

RingInv == TypeOK /\ LogInv /\ CountInv /\ BoundInv /\ SlotInv /\ EndInv

LEMMA InitRingInv == Init => RingInv
<1> SUFFICES ASSUME Init PROVE RingInv
  OBVIOUS
<1>1. Index(0) = 0 /\ 0 \in Indices
  <2>1. IdxMod \in Nat \ {0} /\ 0 = IdxMod * 0 + 0 /\ 0 \in 0..IdxMod - 1
    BY RingAssumption
  <2> QED BY <2>1, ModUnique DEF Indices, Index
<1>2. TypeOK
  BY <1>1, RingAssumption DEF Init, TypeOK, Store, NotDone
<1>3. LogInv
  BY <1>1 DEF Init, LogInv, Store
<1>4. CountInv
  <2>1. received = [n \in 1..0 |-> n - 1]
    BY DEF Init
  <2> QED BY <2>1 DEF Init, CountInv, Writes, Reads
<1>5. BoundInv /\ EndInv
  BY RingAssumption DEF Init, BoundInv, EndInv, Writes, Reads
<1>6. SlotInv
  BY DEF Init, SlotInv, Reads
<1> QED BY <1>2, <1>3, <1>4, <1>5, <1>6 DEF RingInv

\* The types of what the counts are made of.
LEMMA CountTypes ==
    ASSUME RingInv
    PROVE  /\ Len(writeIdx) \in Nat \ {0} /\ Len(readIdx) \in Nat \ {0}
           /\ p.seen \in Nat \ {0} /\ p.seen <= Len(readIdx)
           /\ c.seen \in Nat \ {0} /\ c.seen <= Len(writeIdx)
           /\ p.accesses \in Nat /\ c.accesses \in Nat /\ p.i \in 0..Messages
<1>1. Len(writeIdx) \in Nat /\ Len(readIdx) \in Nat
  <2>1. /\ writeIdx \in Seq([idx : Indices, after : Nat])
        /\ readIdx \in Seq([idx : Indices, after : Nat])
    BY DEF RingInv, TypeOK
  <2> QED BY <2>1
<1>2. p.seen \in 1..Len(readIdx) /\ p.accesses \in Nat /\ p.i \in 0..Messages
  BY DEF RingInv, TypeOK
<1>3. c.seen \in 1..Len(writeIdx) /\ c.accesses \in Nat
  BY DEF RingInv, TypeOK
<1> QED BY <1>1, <1>2, <1>3

\* What the counts have to do with each other.
LEMMA Counts ==
    ASSUME RingInv
    PROVE  /\ Writes \in Nat /\ Reads \in Nat /\ Reads <= Writes
           /\ p.seen - 1 \in Nat /\ c.seen - 1 \in Nat
           /\ p.seen - 1 <= Reads /\ c.seen - 1 <= Writes
           /\ Writes - Reads <= Size
           /\ p.accesses \in Nat /\ c.accesses \in Nat /\ p.i \in 0..Messages
           /\ W = Index(Writes) /\ R = Index(Reads)
           /\ Size \in Nat \ {0} /\ Size + 1 < IdxMod /\ IdxMod \in Nat \ {0}
<1>1. /\ Len(writeIdx) \in Nat /\ Len(readIdx) \in Nat
      /\ p.seen \in 1..Len(readIdx) /\ c.seen \in 1..Len(writeIdx)
      /\ p.accesses \in Nat /\ c.accesses \in Nat /\ p.i \in 0..Messages
  BY CountTypes
<1>2. /\ Writes - (p.seen - 1) <= Size /\ Reads <= c.seen - 1
  BY DEF RingInv, BoundInv
<1>3. Size \in Nat \ {0} /\ Size + 1 < IdxMod /\ IdxMod \in Nat \ {0}
  BY RingAssumption
<1>4. W = Index(Writes) /\ R = Index(Reads)
  <2>1. Len(writeIdx) \in 1..Len(writeIdx) /\ Len(readIdx) \in 1..Len(readIdx)
    BY <1>1
  <2>2. /\ writeIdx[Len(writeIdx)] = Store(Index(Writes), Writes)
        /\ readIdx[Len(readIdx)] = Store(Index(Reads), Reads)
    BY <2>1 DEF RingInv, LogInv, Writes, Reads
  <2> QED BY <2>2 DEF W, R, Last, Store
<1>5. Writes = Len(writeIdx) - 1 /\ Reads = Len(readIdx) - 1
  BY DEF Writes, Reads
<1>6. /\ Writes \in Nat /\ Reads \in Nat /\ Reads <= Writes
      /\ p.seen - 1 \in Nat /\ c.seen - 1 \in Nat
      /\ p.seen - 1 <= Reads /\ c.seen - 1 <= Writes
  <2>1. PICK w \in Nat, r \in Nat, ps \in Nat, cs \in Nat :
          /\ w = Len(writeIdx) /\ r = Len(readIdx)
          /\ ps = p.seen /\ cs = c.seen
          /\ 1 <= ps /\ ps <= r /\ 1 <= cs /\ cs <= w
    BY <1>1
  <2>2. Writes = w - 1 /\ Reads = r - 1 /\ p.seen - 1 = ps - 1 /\ c.seen - 1 = cs - 1
    BY <1>5, <2>1
  <2>3. r - 1 <= cs - 1
    BY <1>2, <2>2
  <2> QED BY <2>1, <2>2, <2>3
<1>7. Writes - Reads <= Size
  BY <1>2, <1>3, <1>6
<1> QED BY <1>1, <1>3, <1>4, <1>6, <1>7

\* push() finds the ring full exactly when it is, as far as the load can tell.
LEMMA FullExact ==
    ASSUME RingInv, NEW k \in 1..Len(readIdx), p.seen <= k
    PROVE  Full(readIdx[k].idx) <=> Writes - (k - 1) >= Size
<1>1. PICK w \in Nat, b \in Nat, u \in Nat :
        w = Writes /\ b = k - 1 /\ u = p.seen - 1 /\ u <= b
  <2>1. PICK w \in Nat, s \in Nat \ {0} : w = Writes /\ s = p.seen /\ s <= k
    BY CountTypes, Counts
  <2>2. k - 1 \in Nat /\ s - 1 \in Nat /\ s - 1 <= k - 1
    BY <2>1, CountTypes
  <2> QED BY <2>1, <2>2
<1>2. b <= w
  <2>1. k - 1 <= Reads
    BY CountTypes DEF Reads
  <2> QED BY <1>1, <2>1, Counts
<1>3. w - u <= Size
  BY <1>1 DEF RingInv, BoundInv
<1>4. w + 1 - b \in 1..Size + 1
  BY <1>1, <1>2, <1>3, RingAssumption
<1>5. readIdx[k].idx = Index(b)
  <2>1. readIdx[k] = Store(Index(b), b)
    BY <1>1 DEF RingInv, LogInv
  <2> QED BY <2>1 DEF Store
<1>6. Plus1(W) = Index(w + 1)
  <2>1. Plus1(Index(w)) = Index(w + 1)
    BY NextIndex
  <2> QED BY <1>1, <2>1, Counts
<1>7. Minus(Index(w + 1), Index(b)) = w + 1 - b
  <2>1. w + 1 \in Nat /\ w + 1 - b \in 0..IdxMod - 1
    BY <1>4, RingAssumption
  <2> QED BY <2>1, Difference
<1>8. Full(readIdx[k].idx) <=> w + 1 - b > Size
  BY <1>5, <1>6, <1>7 DEF Full
<1>9. w + 1 - b > Size <=> w - b >= Size
  BY RingAssumption
<1> QED BY <1>1, <1>8, <1>9

\* pop() finds the ring empty exactly when it is, as far as the load can tell.
LEMMA EmptyExact ==
    ASSUME RingInv, NEW k \in 1..Len(writeIdx), c.seen <= k
    PROVE  /\ R = writeIdx[k].idx <=> Reads = k - 1
           /\ Reads <= k - 1
<1>1. PICK b \in Nat : b = k - 1
  BY Counts DEF RingInv, TypeOK
<1>2. Reads <= b /\ b <= Writes
  <2>1. k - 1 <= Len(writeIdx) - 1 /\ c.seen - 1 <= k - 1 /\ Reads <= c.seen - 1
    BY Counts DEF RingInv, TypeOK, BoundInv
  <2> QED BY <1>1, <2>1, Counts DEF Writes
<1>3. writeIdx[k].idx = Index(b)
  <2>1. writeIdx[k] = Store(Index(b), b)
    BY <1>1 DEF RingInv, LogInv
  <2> QED BY <2>1 DEF Store
<1>4. Reads # b => Index(Reads) # Index(b)
  <2> SUFFICES ASSUME Reads < b, Index(Reads) = Index(b)
               PROVE  FALSE
    BY <1>2, Counts
  <2>1. Reads + IdxMod <= b
    BY Counts, IndexApart
  <2> QED BY <1>2, <2>1, Counts
<1> QED BY <1>1, <1>2, <1>3, <1>4, Counts

-----------------------------------------------------------------------------
(* The producer's steps.                                                   *)

\* A push that only looks leaves all that is written and read as it is.
LEMMA LoadReadIdxKeeps ==
    ASSUME RingInv, NEW k \in 1..Len(readIdx), LoadReadIdx(k)
    PROVE  RingInv'
<1> DEFINE full == Full(readIdx[k].idx)
<1>1. p.seen <= k /\ k - 1 \in Nat /\ p.pc = "push" /\ p.i < Messages
  <2>1. k \in Nat \ {0} /\ k \in p.seen..Len(readIdx)
    BY CountTypes DEF LoadReadIdx
  <2> QED BY <2>1, CountTypes DEF LoadReadIdx
<1>2. Larger(p.knows, readIdx[k].after) = k - 1
  <2>1. readIdx[k] = Store(Index(k - 1), k - 1)
    BY DEF RingInv, LogInv
  <2>2. p.knows = p.seen - 1
    BY DEF RingInv, CountInv
  <2>3. p.seen \in Nat
    BY DEF RingInv, TypeOK
  <2> QED BY <1>1, <2>1, <2>2, <2>3 DEF Store, Larger
<1>3. p' = [p EXCEPT !.seen = k, !.knows = k - 1,
                     !.pc = IF full THEN "push" ELSE "write"]
  BY <1>2 DEF LoadReadIdx, Acquire, RingInv, TypeOK
<1>4. /\ p'.pc = (IF full THEN "push" ELSE "write") /\ p'.i = p.i
      /\ p'.accesses = p.accesses /\ p'.seen = k /\ p'.knows = k - 1
  BY <1>3 DEF RingInv, TypeOK
<1>5. UNCHANGED <<writeIdx, readIdx, done, slots, c, received>>
  BY DEF LoadReadIdx
<1>6. Writes' = Writes /\ Reads' = Reads
  BY <1>5 DEF Writes, Reads
<1>7. TypeOK'
  BY <1>1, <1>3, <1>5 DEF RingInv, TypeOK
<1>8. LogInv'
  BY <1>5 DEF RingInv, LogInv
<1>9. CountInv'
  BY <1>1, <1>4, <1>5, <1>6 DEF RingInv, CountInv
<1>10. BoundInv'
  <2>1. full <=> Writes - (k - 1) >= Size
    BY <1>1, FullExact
  <2>2. Writes - (k - 1) <= Size
    <3>1. Writes - (p.seen - 1) <= Size
      BY DEF RingInv, BoundInv
    <3>2. PICK w \in Nat, u \in Nat : w = Writes /\ u = p.seen
      <4>1. p.seen \in Nat
        BY DEF RingInv, TypeOK
      <4> QED BY <4>1, Counts
    <3>3. w - (u - 1) <= Size /\ u <= k
      BY <1>1, <3>1, <3>2
    <3>4. w - (k - 1) <= Size
      BY <3>3, Counts
    <3> QED BY <3>2, <3>4
  <2>3. ~full => Writes - (k - 1) < Size
    BY <1>1, <2>1, Counts
  <2> QED BY <1>4, <1>5, <1>6, <2>2, <2>3 DEF RingInv, BoundInv
<1>11. SlotInv'
  BY <1>4, <1>5, <1>6 DEF RingInv, SlotInv
<1>12. EndInv'
  BY <1>1, <1>4, <1>5, <1>6 DEF RingInv, EndInv
<1> QED BY <1>7, <1>8, <1>9, <1>10, <1>11, <1>12 DEF RingInv

LEMMA WriteSlotKeeps ==
    ASSUME RingInv, WriteSlot
    PROVE  RingInv'
<1>1. PICK w \in Nat : w = Writes
  BY Counts
<1>2. PICK s \in 0..Size - 1 : s = Slot(W) /\ s = SlotNo(w)
  BY <1>1, Counts, SlotOf
<1>3. p.pc = "write" /\ p.accesses = w /\ p.i = w
  BY <1>1 DEF WriteSlot, RingInv, CountInv
<1>4. /\ p'.pc = "store" /\ p'.i = p.i /\ p'.seen = p.seen
      /\ p'.knows = p.knows /\ p'.accesses = w + 1
  BY <1>3 DEF WriteSlot, RingInv, TypeOK
<1>5. UNCHANGED <<writeIdx, readIdx, done, c, received>>
  BY DEF WriteSlot
<1>6. Writes' = Writes /\ Reads' = Reads
  BY <1>5 DEF Writes, Reads
<1>7. slots' = [slots EXCEPT ![s] = [@ EXCEPT !.val = w, !.written = w + 1]]
  BY <1>2, <1>3 DEF WriteSlot, RingInv, TypeOK
<1>8. TypeOK'
  <2>1. [slots[s] EXCEPT !.val = w, !.written = w + 1]
           \in [val : Nat, written : Nat, read : Nat]
    <3>1. slots[s] \in [val : Nat, written : Nat, read : Nat]
      BY DEF RingInv, TypeOK
    <3>2. w + 1 \in Nat
      OBVIOUS
    <3> QED BY <3>1, <3>2
  <2>2. slots' \in [0 .. Size - 1 -> [val : Nat, written : Nat, read : Nat]]
    BY <1>7, <2>1 DEF RingInv, TypeOK
  <2>3. p' = [p EXCEPT !.pc = "store", !.accesses = w + 1]
    BY <1>3 DEF WriteSlot
  <2>4. p' \in [pc : {"push", "write", "store", "exit"}, i : 0 .. Messages,
                seen : 1 .. Len(readIdx), knows : Nat, accesses : Nat]
    <3>1. w + 1 \in Nat
      OBVIOUS
    <3> QED BY <2>3, <3>1 DEF RingInv, TypeOK
  <2> QED BY <1>5, <2>2, <2>4 DEF RingInv, TypeOK
<1>9. LogInv'
  BY <1>5 DEF RingInv, LogInv
<1>10. CountInv'
  BY <1>1, <1>3, <1>4, <1>5, <1>6 DEF RingInv, CountInv
<1>11. BoundInv'
  BY <1>3, <1>4, <1>5, <1>6 DEF RingInv, BoundInv
<1>12. SlotInv'
  <2>1. ASSUME NEW t \in 0..Size - 1
        PROVE  /\ slots'[t].written # 0 =>
                     slots'[t].written <= w + 1 /\ SlotNo(slots'[t].written - 1) = t
               /\ slots'[t].read # 0 =>
                     slots'[t].read <= c.accesses /\ SlotNo(slots'[t].read - 1) = t
    <3>1. CASE t = s
      <4>1. slots'[t].written = w + 1 /\ slots'[t].read = slots[t].read
        BY <1>7, <3>1 DEF RingInv, TypeOK
      <4>2. w + 1 - 1 = w
        OBVIOUS
      <4> QED BY <1>2, <3>1, <4>1, <4>2 DEF RingInv, SlotInv
    <3>2. CASE t # s
      <4>1. slots'[t] = slots[t] /\ slots[t].written \in Nat
        BY <1>7, <3>2 DEF RingInv, TypeOK
      <4>2. slots[t].written # 0 =>
                slots[t].written <= w /\ SlotNo(slots[t].written - 1) = t
        BY <1>3 DEF RingInv, SlotInv
      <4>3. slots[t].written <= w => slots[t].written <= w + 1
        BY <4>1
      <4> QED BY <4>1, <4>2, <4>3 DEF RingInv, SlotInv
    <3> QED BY <3>1, <3>2
  <2>2. ASSUME NEW n \in Nat, Reads <= n, n < w + 1
        PROVE  slots'[SlotNo(n)].val = n
    <3>1. SlotNo(n) \in 0..Size - 1
      BY SlotOf
    <3>2. CASE n = w
      BY <1>2, <1>7, <3>2 DEF RingInv, TypeOK
    <3>3. CASE n < w
      <4>1. SlotNo(n) # s
        <5> SUFFICES ASSUME SlotNo(n) = SlotNo(w) PROVE FALSE
          BY <1>2
        <5>1. n + Size <= w
          BY <3>3, SlotApart
        <5>2. w - Reads < Size
          <6>1. w - (p.seen - 1) < Size
            BY <1>1, <1>3 DEF RingInv, BoundInv
          <6> QED BY <6>1, Counts
        <5> QED BY <2>2, <5>1, <5>2, Counts
      <4>2. slots'[SlotNo(n)] = slots[SlotNo(n)]
        BY <1>7, <3>1, <4>1 DEF RingInv, TypeOK
      <4> QED BY <1>3, <2>2, <3>3, <4>2 DEF RingInv, SlotInv
    <3> QED BY <2>2, <3>2, <3>3
  <2> QED BY <1>4, <1>5, <1>6, <2>1, <2>2 DEF SlotInv
<1>13. EndInv'
  BY <1>3, <1>4, <1>5, <1>6 DEF RingInv, EndInv
<1> QED BY <1>8, <1>9, <1>10, <1>11, <1>12, <1>13 DEF RingInv

LEMMA StoreWriteIdxKeeps ==
    ASSUME RingInv, StoreWriteIdx
    PROVE  RingInv'
<1>1. PICK w \in Nat : w = Writes /\ Len(writeIdx) = w + 1
  <2>1. Len(writeIdx) \in Nat
    BY DEF RingInv, TypeOK
  <2>2. Writes \in Nat /\ Len(writeIdx) = Writes + 1
    BY <2>1, Counts DEF Writes
  <2> QED BY <2>2
<1>2. p.pc = "store" /\ p.accesses = w + 1 /\ p.i = w /\ w < Messages
  BY <1>1 DEF StoreWriteIdx, RingInv, CountInv
<1>3. Plus1(W) = Index(w + 1) /\ Index(w + 1) \in Indices
  <2>1. Plus1(Index(w)) = Index(w + 1) /\ Index(w + 1) \in Indices
    BY NextIndex
  <2> QED BY <1>1, <2>1, Counts
<1>4. writeIdx' = Append(writeIdx, Store(Index(w + 1), w + 1))
  BY <1>2, <1>3 DEF StoreWriteIdx
<1>5. UNCHANGED <<readIdx, done, slots, c, received>>
  BY DEF StoreWriteIdx
<1>6. Len(writeIdx') = w + 2 /\ Writes' = w + 1 /\ Reads' = Reads
  BY <1>1, <1>4, <1>5 DEF Writes, Reads, RingInv, TypeOK
<1>7. /\ p'.pc = "push" /\ p'.i = w + 1 /\ p'.seen = p.seen
      /\ p'.knows = p.knows /\ p'.accesses = w + 1
  BY <1>2 DEF StoreWriteIdx, RingInv, TypeOK
<1>8. TypeOK'
  <2>1. writeIdx' \in Seq([idx : Indices, after : Nat])
    BY <1>3, <1>4 DEF RingInv, TypeOK, Store
  <2>2. w + 1 \in 0..Messages
    BY <1>2, RingAssumption
  <2>3. p' = [p EXCEPT !.pc = "push", !.i = w + 1]
    BY <1>2 DEF StoreWriteIdx, RingInv, TypeOK
  <2>4. p' \in [pc : {"push", "write", "store", "exit"}, i : 0 .. Messages,
                seen : 1 .. Len(readIdx), knows : Nat, accesses : Nat]
    BY <2>2, <2>3 DEF RingInv, TypeOK
  <2>5. c.seen \in 1..Len(writeIdx')
    BY <1>1, <1>6 DEF RingInv, TypeOK
  <2>6. c' \in [pc : {"pop", "read", "store", "done?", "exit"}, draining : BOOLEAN,
                seen : 1 .. Len(writeIdx'), knows : Nat, accesses : Nat]
    BY <1>5, <2>5 DEF RingInv, TypeOK
  <2> QED BY <1>5, <2>1, <2>4, <2>6 DEF RingInv, TypeOK
<1>9. LogInv'
  <2>1. ASSUME NEW k \in 1..w + 2
        PROVE  writeIdx'[k] = Store(Index(k - 1), k - 1)
    <3>1. CASE k = w + 2
      <4>1. writeIdx'[w + 2] = Store(Index(w + 1), w + 1)
        <5>1. Len(writeIdx) + 1 = w + 2
          BY <1>1
        <5> QED BY <1>4, <5>1 DEF RingInv, TypeOK
      <4>2. k - 1 = w + 1
        BY <3>1
      <4> QED BY <3>1, <4>1, <4>2
    <3>2. CASE k # w + 2
      <4>1. k \in 1..Len(writeIdx)
        BY <1>1, <3>2
      <4>2. writeIdx'[k] = writeIdx[k]
        BY <1>4, <4>1 DEF RingInv, TypeOK
      <4> QED BY <4>1, <4>2 DEF RingInv, LogInv
    <3> QED BY <3>1, <3>2
  <2> QED BY <1>5, <1>6, <2>1 DEF RingInv, LogInv
<1>10. CountInv'
  BY <1>5, <1>6, <1>7 DEF RingInv, CountInv
<1>11. BoundInv'
  <2>1. w - (p.seen - 1) < Size
    BY <1>1, <1>2 DEF RingInv, BoundInv
  <2>2. w + 1 - (p.seen - 1) <= Size
    BY <2>1, Counts
  <2>3. /\ Writes' - (p'.seen - 1) <= Size
        /\ p'.pc \notin {"write", "store"}
    <3>1. PICK u \in Nat : u = p.seen
      BY DEF RingInv, TypeOK
    <3>2. p'.seen = u /\ Writes' = w + 1 /\ w + 1 - (u - 1) <= Size
      BY <1>6, <1>7, <2>2, <3>1
    <3> QED BY <1>7, <3>2
  <2>4. Reads' <= c'.seen - 1 /\ (c'.pc \in {"read", "store"} => Reads' < c'.seen - 1)
    BY <1>5, <1>6 DEF RingInv, BoundInv
  <2> QED BY <2>3, <2>4 DEF BoundInv
<1>12. SlotInv'
  BY <1>2, <1>5, <1>6, <1>7 DEF RingInv, SlotInv
<1>13. EndInv'
  <2>1. done = NotDone /\ ~c.draining /\ c.pc # "exit"
    BY <1>2 DEF RingInv, EndInv
  <2> QED BY <1>5, <1>7, <2>1 DEF EndInv
<1> QED BY <1>8, <1>9, <1>10, <1>11, <1>12, <1>13 DEF RingInv

LEMMA SetDoneKeeps ==
    ASSUME RingInv, SetDone
    PROVE  RingInv'
<1>1. p.pc = "push" /\ p.i = Messages /\ p.accesses = Writes
  BY DEF SetDone, RingInv, CountInv
<1>2. UNCHANGED <<writeIdx, readIdx, slots, c, received>>
  BY DEF SetDone
<1>3. Writes' = Writes /\ Reads' = Reads
  BY <1>2 DEF Writes, Reads
<1>4. /\ p'.pc = "exit" /\ p'.i = p.i /\ p'.seen = p.seen
      /\ p'.knows = p.knows /\ p'.accesses = p.accesses
  BY DEF SetDone, RingInv, TypeOK
<1>5. done' = [stores |-> Len(writeIdx), after |-> Writes]
  BY <1>1 DEF SetDone
<1>6. TypeOK'
  <2>1. done' \in [stores : Nat, after : Nat]
    BY <1>5, Counts, CountTypes
  <2> QED BY <1>2, <2>1 DEF SetDone, RingInv, TypeOK
<1>7. LogInv'
  BY <1>2 DEF RingInv, LogInv
<1>8. CountInv'
  BY <1>1, <1>2, <1>3, <1>4 DEF RingInv, CountInv
<1>9. BoundInv'
  BY <1>2, <1>3, <1>4 DEF RingInv, BoundInv
<1>10. SlotInv'
  BY <1>2, <1>3, <1>4 DEF RingInv, SlotInv
<1>11. EndInv'
  BY <1>1, <1>2, <1>3, <1>4, <1>5 DEF RingInv, EndInv
<1> QED BY <1>6, <1>7, <1>8, <1>9, <1>10, <1>11 DEF RingInv

-----------------------------------------------------------------------------
(* The consumer's steps.                                                   *)

LEMMA LoadWriteIdxKeeps ==
    ASSUME RingInv, NEW k \in 1..Len(writeIdx), LoadWriteIdx(k)
    PROVE  RingInv'
<1> DEFINE pc2 == IF R # writeIdx[k].idx THEN "read"
                  ELSE IF c.draining THEN "exit" ELSE "done?"
<1>1. c.seen <= k /\ k \in Nat /\ k - 1 \in Nat /\ c.pc = "pop" /\ c.seen \in Nat
  <2>1. k \in Nat \ {0} /\ k \in c.seen..Len(writeIdx)
    BY CountTypes DEF LoadWriteIdx
  <2> QED BY <2>1, CountTypes DEF LoadWriteIdx
<1>2. Larger(c.knows, writeIdx[k].after) = k - 1
  <2>1. writeIdx[k] = Store(Index(k - 1), k - 1)
    BY DEF RingInv, LogInv
  <2>2. c.knows = c.seen - 1
    BY DEF RingInv, CountInv
  <2> QED BY <1>1, <2>1, <2>2 DEF Store, Larger
<1>3. c' = [c EXCEPT !.seen = k, !.knows = k - 1, !.pc = pc2]
  BY <1>2 DEF LoadWriteIdx, Acquire, RingInv, TypeOK
<1>4. /\ c'.pc = pc2 /\ c'.draining = c.draining
      /\ c'.accesses = c.accesses /\ c'.seen = k /\ c'.knows = k - 1
  BY <1>3 DEF RingInv, TypeOK
<1>5. UNCHANGED <<writeIdx, readIdx, done, slots, p, received>>
  BY DEF LoadWriteIdx
<1>6. Writes' = Writes /\ Reads' = Reads
  BY <1>5 DEF Writes, Reads
<1>7. TypeOK'
  BY <1>1, <1>3, <1>5 DEF RingInv, TypeOK
<1>8. LogInv'
  BY <1>5 DEF RingInv, LogInv
<1>9. CountInv'
  BY <1>1, <1>4, <1>5, <1>6 DEF RingInv, CountInv
<1>10. (R = writeIdx[k].idx <=> Reads = k - 1) /\ Reads <= k - 1
  BY <1>1, EmptyExact
<1>11. BoundInv'
  <2>1. pc2 \in {"read", "store"} => Reads < k - 1
    BY <1>1, <1>10, Counts
  <2>2. /\ Reads' <= c'.seen - 1
        /\ c'.pc \in {"read", "store"} => Reads' < c'.seen - 1
    BY <1>4, <1>6, <1>10, <2>1
  <2>3. /\ Writes' - (p'.seen - 1) <= Size
        /\ p'.pc \in {"write", "store"} => Writes' - (p'.seen - 1) < Size
    BY <1>5, <1>6 DEF RingInv, BoundInv
  <2> QED BY <2>2, <2>3 DEF BoundInv
<1>12. SlotInv'
  BY <1>4, <1>5, <1>6 DEF RingInv, SlotInv
<1>13. EndInv'
  <2>1. c.draining => p.pc = "exit" /\ k = Len(writeIdx)
    <3>1. c.draining => p.pc = "exit" /\ c.seen = Len(writeIdx)
      BY DEF RingInv, EndInv
    <3> QED BY <1>1, <3>1 DEF RingInv, TypeOK
  <2>2. pc2 = "exit" => c.draining /\ Reads = Writes
    BY <1>10, <2>1 DEF Writes
  <2>3. c'.draining => p'.pc = "exit" /\ c'.seen = Len(writeIdx')
    BY <1>4, <1>5, <2>1
  <2>4. c'.pc = "exit" => c'.draining /\ Reads' = Writes'
    BY <1>4, <1>6, <2>2
  <2>5. /\ done' # NotDone => done' = [stores |-> Len(writeIdx'), after |-> Writes']
        /\ done' # NotDone => p'.pc = "exit"
        /\ p'.pc = "exit" => p'.i = Messages
    BY <1>5, <1>6 DEF RingInv, EndInv
  <2> QED BY <2>3, <2>4, <2>5 DEF EndInv
<1> QED BY <1>7, <1>8, <1>9, <1>11, <1>12, <1>13 DEF RingInv

\* The value a pop takes is the one pushed as many pushes ago as there were pops.
LEMMA ReadsNext ==
    ASSUME RingInv, c.pc = "read"
    PROVE  slots[Slot(R)].val = Reads /\ received = [n \in 1..Reads |-> n - 1]
<1>1. PICK r \in Nat : r = Reads
  BY Counts
<1>2. Slot(R) = SlotNo(r)
  BY <1>1, Counts, SlotOf
<1>3. r < p.accesses
  <2>1. r < c.seen - 1
    BY <1>1 DEF RingInv, BoundInv
  <2>2. p.accesses = Writes \/ p.accesses = Writes + 1
    BY DEF RingInv, CountInv
  <2> QED BY <2>1, <2>2, Counts
<1>4. slots[SlotNo(r)].val = r
  BY <1>1, <1>3 DEF RingInv, SlotInv
<1> QED BY <1>1, <1>2, <1>4 DEF RingInv, CountInv

LEMMA ReadSlotKeeps ==
    ASSUME RingInv, ReadSlot
    PROVE  RingInv'
<1>1. PICK r \in Nat : r = Reads
  BY Counts
<1>2. PICK s \in 0..Size - 1 : s = Slot(R) /\ s = SlotNo(r)
  BY <1>1, Counts, SlotOf
<1>3. c.pc = "read" /\ c.accesses = r
  BY <1>1 DEF ReadSlot, RingInv, CountInv
<1>4. /\ c'.pc = "store" /\ c'.draining = c.draining /\ c'.seen = c.seen
      /\ c'.knows = c.knows /\ c'.accesses = r + 1
  BY <1>3 DEF ReadSlot, RingInv, TypeOK
<1>5. UNCHANGED <<writeIdx, readIdx, done, p>>
  BY DEF ReadSlot
<1>6. Writes' = Writes /\ Reads' = Reads
  BY <1>5 DEF Writes, Reads
<1>7. slots' = [slots EXCEPT ![s] = [@ EXCEPT !.read = r + 1]]
  BY <1>2, <1>3 DEF ReadSlot, RingInv, TypeOK
<1>8. received' = Append([n \in 1..r |-> n - 1], r)
  BY <1>1, <1>3, ReadsNext DEF ReadSlot
<1>9. r + 1 \in Nat
  OBVIOUS
<1>10. TypeOK'
  <2>1. [slots[s] EXCEPT !.read = r + 1] \in [val : Nat, written : Nat, read : Nat]
    <3>1. slots[s] \in [val : Nat, written : Nat, read : Nat]
      BY DEF RingInv, TypeOK
    <3> QED BY <1>9, <3>1
  <2>2. slots' \in [0 .. Size - 1 -> [val : Nat, written : Nat, read : Nat]]
    BY <1>7, <2>1 DEF RingInv, TypeOK
  <2>3. c' = [c EXCEPT !.pc = "store", !.accesses = r + 1]
    BY <1>3 DEF ReadSlot
  <2>4. c' \in [pc : {"pop", "read", "store", "done?", "exit"}, draining : BOOLEAN,
                seen : 1 .. Len(writeIdx), knows : Nat, accesses : Nat]
    BY <1>9, <2>3 DEF RingInv, TypeOK
  <2>5. received' \in Seq(Nat)
    <3>1. received \in Seq(Nat) /\ received' = Append(received, r)
      BY <1>1, <1>3, ReadsNext DEF ReadSlot, RingInv, TypeOK
    <3> QED BY <3>1
  <2> QED BY <1>5, <2>2, <2>4, <2>5 DEF RingInv, TypeOK
<1>11. LogInv'
  BY <1>5 DEF RingInv, LogInv
<1>12. CountInv'
  <2>1. received' = [n \in 1..r + 1 |-> n - 1]
    <3> DEFINE f == [n \in 1..r |-> n - 1]
               g == [n \in 1..r + 1 |-> n - 1]
    <3>1. f \in Seq(Int) /\ g \in Seq(Int) /\ Len(f) = r /\ Len(g) = r + 1
      OBVIOUS
    <3>2. Append(f, r) \in Seq(Int) /\ Len(Append(f, r)) = r + 1
      BY <3>1
    <3>3. ASSUME NEW n \in 1..r + 1 PROVE Append(f, r)[n] = g[n]
      <4>1. CASE n = r + 1
        BY <3>1, <4>1
      <4>2. CASE n \in 1..r
        BY <3>1, <4>2
      <4> QED BY <4>1, <4>2
    <3> QED BY <1>8, <3>1, <3>2, <3>3
  <2>2. c'.accesses = r + 1 /\ Reads' = r
    BY <1>1, <1>4, <1>6
  <2>3. received' = [n \in 1..c'.accesses |-> n - 1]
    BY <2>1, <2>2
  <2> QED BY <1>4, <1>5, <1>6, <2>2, <2>3 DEF RingInv, CountInv
<1>13. BoundInv'
  BY <1>3, <1>4, <1>5, <1>6 DEF RingInv, BoundInv
<1>14. SlotInv'
  <2>1. ASSUME NEW t \in 0..Size - 1
        PROVE  /\ slots'[t].written # 0 =>
                     slots'[t].written <= p.accesses /\ SlotNo(slots'[t].written - 1) = t
               /\ slots'[t].read # 0 =>
                     slots'[t].read <= r + 1 /\ SlotNo(slots'[t].read - 1) = t
    <3>1. CASE t = s
      <4>1. slots'[t].read = r + 1 /\ slots'[t].written = slots[t].written
        BY <1>7, <3>1 DEF RingInv, TypeOK
      <4>2. r + 1 - 1 = r
        OBVIOUS
      <4> QED BY <1>2, <3>1, <4>1, <4>2 DEF RingInv, SlotInv
    <3>2. CASE t # s
      <4>1. slots'[t] = slots[t] /\ slots[t].read \in Nat
        BY <1>7, <3>2 DEF RingInv, TypeOK
      <4>2. slots[t].read # 0 =>
                slots[t].read <= r /\ SlotNo(slots[t].read - 1) = t
        BY <1>3 DEF RingInv, SlotInv
      <4>3. slots[t].read <= r => slots[t].read <= r + 1
        BY <4>1
      <4> QED BY <4>1, <4>2, <4>3 DEF RingInv, SlotInv
    <3> QED BY <3>1, <3>2
  <2>2. ASSUME NEW n \in Nat, Reads <= n, n < p.accesses
        PROVE  slots'[SlotNo(n)].val = n
    <3>1. SlotNo(n) \in 0..Size - 1
      BY SlotOf
    <3>2. slots'[SlotNo(n)].val = slots[SlotNo(n)].val
      BY <1>7, <3>1 DEF RingInv, TypeOK
    <3> QED BY <2>2, <3>2 DEF RingInv, SlotInv
  <2> QED BY <1>4, <1>5, <1>6, <2>1, <2>2 DEF SlotInv
<1>15. EndInv'
  BY <1>4, <1>5, <1>6 DEF RingInv, EndInv
<1> QED BY <1>10, <1>11, <1>12, <1>13, <1>14, <1>15 DEF RingInv

LEMMA StoreReadIdxKeeps ==
    ASSUME RingInv, StoreReadIdx
    PROVE  RingInv'
<1>1. PICK r \in Nat : r = Reads /\ Len(readIdx) = r + 1
  <2>1. Len(readIdx) \in Nat
    BY DEF RingInv, TypeOK
  <2>2. Reads \in Nat /\ Len(readIdx) = Reads + 1
    BY <2>1, Counts DEF Reads
  <2> QED BY <2>2
<1>2. c.pc = "store" /\ c.accesses = r + 1 /\ r < c.seen - 1
  BY <1>1 DEF StoreReadIdx, RingInv, CountInv, BoundInv
<1>3. Plus1(R) = Index(r + 1) /\ Index(r + 1) \in Indices
  <2>1. Plus1(Index(r)) = Index(r + 1) /\ Index(r + 1) \in Indices
    BY NextIndex
  <2> QED BY <1>1, <2>1, Counts
<1>4. readIdx' = Append(readIdx, Store(Index(r + 1), r + 1))
  BY <1>2, <1>3 DEF StoreReadIdx
<1>5. UNCHANGED <<writeIdx, done, slots, p, received>>
  BY DEF StoreReadIdx
<1>6. Len(readIdx') = r + 2 /\ Reads' = r + 1 /\ Writes' = Writes
  BY <1>1, <1>4, <1>5 DEF Writes, Reads, RingInv, TypeOK
<1>7. /\ c'.pc = "pop" /\ c'.draining = c.draining /\ c'.seen = c.seen
      /\ c'.knows = c.knows /\ c'.accesses = r + 1
  BY <1>2 DEF StoreReadIdx, RingInv, TypeOK
<1>8. TypeOK'
  <2>1. readIdx' \in Seq([idx : Indices, after : Nat])
    BY <1>3, <1>4 DEF RingInv, TypeOK, Store
  <2>2. p.seen \in 1..Len(readIdx')
    BY <1>1, <1>6 DEF RingInv, TypeOK
  <2>3. p' \in [pc : {"push", "write", "store", "exit"}, i : 0 .. Messages,
                seen : 1 .. Len(readIdx'), knows : Nat, accesses : Nat]
    BY <1>5, <2>2 DEF RingInv, TypeOK
  <2>4. c' \in [pc : {"pop", "read", "store", "done?", "exit"}, draining : BOOLEAN,
                seen : 1 .. Len(writeIdx), knows : Nat, accesses : Nat]
    BY DEF StoreReadIdx, RingInv, TypeOK
  <2> QED BY <1>5, <2>1, <2>3, <2>4 DEF RingInv, TypeOK
<1>9. LogInv'
  <2>1. ASSUME NEW k \in 1..r + 2
        PROVE  readIdx'[k] = Store(Index(k - 1), k - 1)
    <3>1. CASE k = r + 2
      <4>1. readIdx'[r + 2] = Store(Index(r + 1), r + 1)
        <5>1. Len(readIdx) + 1 = r + 2
          BY <1>1
        <5> QED BY <1>4, <5>1 DEF RingInv, TypeOK
      <4>2. k - 1 = r + 1
        BY <3>1
      <4> QED BY <3>1, <4>1, <4>2
    <3>2. CASE k # r + 2
      <4>1. k \in 1..Len(readIdx)
        BY <1>1, <3>2
      <4>2. readIdx'[k] = readIdx[k]
        BY <1>4, <4>1 DEF RingInv, TypeOK
      <4> QED BY <4>1, <4>2 DEF RingInv, LogInv
    <3> QED BY <3>1, <3>2
  <2> QED BY <1>5, <1>6, <2>1 DEF RingInv, LogInv
<1>10. CountInv'
  BY <1>2, <1>5, <1>6, <1>7 DEF RingInv, CountInv
<1>11. BoundInv'
  <2>1. r + 1 <= c.seen - 1
    BY <1>2, Counts
  <2>2. Reads' <= c'.seen - 1 /\ c'.pc \notin {"read", "store"}
    BY <1>6, <1>7, <2>1
  <2>3. /\ Writes' - (p'.seen - 1) <= Size
        /\ p'.pc \in {"write", "store"} => Writes' - (p'.seen - 1) < Size
    BY <1>5, <1>6 DEF RingInv, BoundInv
  <2> QED BY <2>2, <2>3 DEF BoundInv
<1>12. SlotInv'
  <2>1. ASSUME NEW n \in Nat, r + 1 <= n, n < p.accesses
        PROVE  slots[SlotNo(n)].val = n
    <3>1. r <= n
      BY <2>1
    <3> QED BY <1>1, <2>1, <3>1 DEF RingInv, SlotInv
  <2>2. \A s \in 0..Size - 1 :
          /\ slots[s].written # 0 =>
                slots[s].written <= p.accesses /\ SlotNo(slots[s].written - 1) = s
          /\ slots[s].read # 0 =>
                slots[s].read <= c.accesses /\ SlotNo(slots[s].read - 1) = s
    BY DEF RingInv, SlotInv
  <2> QED BY <1>2, <1>5, <1>6, <1>7, <2>1, <2>2 DEF SlotInv
<1>13. EndInv'
  <2>1. c.draining => p.pc = "exit" /\ c.seen = Len(writeIdx)
    BY DEF RingInv, EndInv
  <2> QED BY <1>5, <1>6, <1>7, <2>1 DEF RingInv, EndInv
<1> QED BY <1>8, <1>9, <1>10, <1>11, <1>12, <1>13 DEF RingInv

LEMMA LoadNotDoneKeeps ==
    ASSUME RingInv, LoadNotDone
    PROVE  RingInv'
<1>1. UNCHANGED <<writeIdx, readIdx, done, slots, p, received>>
  BY DEF LoadNotDone
<1>2. /\ c.pc = "done?" /\ c'.pc = "pop" /\ c'.draining = c.draining
      /\ c'.seen = c.seen /\ c'.knows = c.knows /\ c'.accesses = c.accesses
  BY DEF LoadNotDone, RingInv, TypeOK
<1>3. Writes' = Writes /\ Reads' = Reads
  BY <1>1 DEF Writes, Reads
<1>4. TypeOK'
  BY <1>1 DEF LoadNotDone, RingInv, TypeOK
<1>5. LogInv' /\ CountInv' /\ BoundInv' /\ SlotInv'
  BY <1>1, <1>2, <1>3 DEF RingInv, LogInv, CountInv, BoundInv, SlotInv
<1>6. EndInv'
  BY <1>1, <1>2, <1>3 DEF RingInv, EndInv
<1> QED BY <1>4, <1>5, <1>6 DEF RingInv

LEMMA LoadDoneKeeps ==
    ASSUME RingInv, LoadDone
    PROVE  RingInv'
<1>1. UNCHANGED <<writeIdx, readIdx, done, slots, p, received>>
  BY DEF LoadDone
<1>2. p.pc = "exit" /\ done.stores = Len(writeIdx) /\ done.after = Writes
  BY DEF LoadDone, RingInv, EndInv
<1>3. Larger(c.seen, done.stores) = Len(writeIdx)
  BY <1>2 DEF Larger, RingInv, TypeOK
<1>4. Larger(c.knows, done.after) = Len(writeIdx) - 1
  <2>1. c.knows = c.seen - 1
    BY DEF RingInv, CountInv
  <2>2. c.seen - 1 <= Writes /\ c.seen - 1 \in Nat /\ Writes \in Nat
    BY Counts
  <2>3. Larger(c.knows, done.after) = Writes
    BY <1>2, <2>1, <2>2 DEF Larger
  <2> QED BY <2>3 DEF Writes
<1>5. c' = [c EXCEPT !.pc = "pop", !.draining = TRUE, !.seen = Len(writeIdx),
                     !.knows = Len(writeIdx) - 1]
  BY <1>3, <1>4 DEF LoadDone
<1>6. /\ c.pc = "done?" /\ c'.pc = "pop" /\ c'.draining
      /\ c'.seen = Len(writeIdx) /\ c'.knows = Len(writeIdx) - 1
      /\ c'.accesses = c.accesses
  BY <1>5 DEF LoadDone, RingInv, TypeOK
<1>7. Writes' = Writes /\ Reads' = Reads
  BY <1>1 DEF Writes, Reads
<1>8. TypeOK'
  <2>1. Len(writeIdx) \in 1..Len(writeIdx) /\ Len(writeIdx) - 1 \in Nat
    BY DEF RingInv, TypeOK
  <2> QED BY <1>1, <1>5, <2>1 DEF RingInv, TypeOK
<1>9. LogInv' /\ CountInv' /\ SlotInv'
  BY <1>1, <1>6, <1>7 DEF RingInv, LogInv, CountInv, SlotInv
<1>10. BoundInv'
  <2>1. Reads' <= c'.seen - 1 /\ c'.pc \notin {"read", "store"}
    BY <1>6, <1>7, Counts DEF Writes
  <2>2. /\ Writes' - (p'.seen - 1) <= Size
        /\ p'.pc \in {"write", "store"} => Writes' - (p'.seen - 1) < Size
    BY <1>1, <1>7 DEF RingInv, BoundInv
  <2> QED BY <2>1, <2>2 DEF BoundInv
<1>11. EndInv'
  BY <1>1, <1>2, <1>6, <1>7 DEF RingInv, EndInv
<1> QED BY <1>8, <1>9, <1>10, <1>11 DEF RingInv

-----------------------------------------------------------------------------
(* Theorems.                                                               *)

LEMMA StepRingInv == RingInv /\ [Next]_vars => RingInv'
<1>1. SUFFICES ASSUME RingInv, [Next]_vars PROVE RingInv'
  OBVIOUS
<1>2. CASE Producer
  BY <1>1, <1>2, LoadReadIdxKeeps, WriteSlotKeeps, StoreWriteIdxKeeps, SetDoneKeeps
     DEF Producer
<1>3. CASE Consumer
  BY <1>1, <1>3, LoadWriteIdxKeeps, ReadSlotKeeps, StoreReadIdxKeeps,
     LoadNotDoneKeeps, LoadDoneKeeps DEF Consumer
<1>4. CASE UNCHANGED vars
  BY <1>1, <1>4 DEF vars, RingInv, TypeOK, LogInv, CountInv, BoundInv, SlotInv,
                    EndInv, Writes, Reads
<1> QED BY <1>1, <1>2, <1>3, <1>4 DEF Next

\* The strengthening all the other theorems follow from.
THEOREM RingInvariant == Spec => []RingInv
BY InitRingInv, StepRingInv, PTL DEF Spec

\* Type correctness, for any ring size, index width and number of messages.
THEOREM RingTypeOK == Spec => []TypeOK
<1>1. RingInv => TypeOK
  BY DEF RingInv
<1> QED BY <1>1, RingInvariant, PTL

\* The slot a thread is about to access was last accessed, by the other thread,
\* before the release store it has acquired: the n-th access of a slot and the
\* (n + Size)-th are never concurrent, however old the loaded indices are.
THEOREM RingNoDataRace == Spec => []NoDataRace
<1>1. ASSUME RingInv, p.pc = "write"
      PROVE  slots[Slot(W)].read <= p.knows
  <2>1. PICK w \in Nat, r \in Nat, s \in 0..Size - 1 :
          w = Writes /\ r = Reads /\ s = Slot(W) /\ s = SlotNo(w)
    <3>1. Slot(W) = SlotNo(Writes) /\ SlotNo(Writes) \in 0..Size - 1
      BY <1>1, Counts, SlotOf
    <3> QED BY <1>1, <3>1, Counts
  <2>2. PICK u \in Nat : u = p.knows /\ w - u < Size /\ u <= r /\ r <= w
    <3>1. p.knows = p.seen - 1
      BY <1>1 DEF RingInv, CountInv
    <3>2. w - (p.seen - 1) < Size
      BY <1>1, <2>1 DEF RingInv, BoundInv
    <3> QED BY <1>1, <2>1, <3>1, <3>2, Counts
  <2>3. PICK m \in Nat : m = slots[s].read
    BY <1>1 DEF RingInv, TypeOK
  <2>4. CASE m = 0
    BY <2>1, <2>2, <2>3, <2>4
  <2>5. CASE m # 0
    <3>1. m <= c.accesses /\ SlotNo(m - 1) = s
      BY <1>1, <2>3, <2>5 DEF RingInv, SlotInv
    <3>2. m <= w
      <4>1. CASE c.pc = "store"
        <5>1. Reads < c.seen - 1 /\ c.accesses = Reads + 1
          BY <1>1, <4>1 DEF RingInv, BoundInv, CountInv
        <5> QED BY <1>1, <2>1, <3>1, <5>1, Counts
      <4>2. CASE c.pc # "store"
        <5>1. c.accesses = Reads
          BY <1>1, <4>2 DEF RingInv, CountInv
        <5> QED BY <2>1, <2>2, <3>1, <5>1
      <4> QED BY <4>1, <4>2
    <3>3. m - 1 \in Nat /\ m - 1 < w
      BY <2>5, <3>2
    <3>4. m - 1 + Size <= w
      BY <2>1, <3>1, <3>3, SlotApart
    <3>5. m <= u
      BY <2>2, <3>4, RingAssumption
    <3> QED BY <2>1, <2>2, <2>3, <3>5
  <2> QED BY <2>4, <2>5
<1>2. ASSUME RingInv, c.pc = "read"
      PROVE  slots[Slot(R)].written <= c.knows
  <2>1. PICK w \in Nat, r \in Nat, s \in 0..Size - 1 :
          w = Writes /\ r = Reads /\ s = Slot(R) /\ s = SlotNo(r)
    <3>1. Slot(R) = SlotNo(Reads) /\ SlotNo(Reads) \in 0..Size - 1
      BY <1>2, Counts, SlotOf
    <3> QED BY <1>2, <3>1, Counts
  <2>2. PICK u \in Nat : u = c.knows /\ r < u
    <3>1. c.knows = c.seen - 1 /\ Reads < c.seen - 1
      BY <1>2 DEF RingInv, CountInv, BoundInv
    <3> QED BY <1>2, <2>1, <3>1, Counts
  <2>3. PICK m \in Nat : m = slots[s].written
    BY <1>2 DEF RingInv, TypeOK
  <2>4. CASE m <= r + 1
    <3>1. m <= u
      BY <2>2, <2>4
    <3> QED BY <2>1, <2>2, <2>3, <3>1
  <2>5. CASE m > r + 1
    <3>1. m # 0 /\ m - 1 \in Nat /\ r < m - 1
      BY <2>5
    <3>2. m <= p.accesses /\ SlotNo(m - 1) = s
      BY <1>2, <2>3, <3>1 DEF RingInv, SlotInv
    <3>3. r + Size <= m - 1
      BY <2>1, <3>1, <3>2, SlotApart
    <3>4. m - 1 < r + Size
      <4>1. CASE p.pc = "store"
        <5>1. p.accesses = w + 1 /\ w - (p.seen - 1) < Size
          BY <1>2, <2>1, <4>1 DEF RingInv, CountInv, BoundInv
        <5>2. PICK v \in Nat : v = p.seen - 1 /\ v <= r
          BY <1>2, <2>1, Counts
        <5>3. m <= w + 1 /\ w - v < Size
          BY <3>2, <5>1, <5>2
        <5> QED BY <5>2, <5>3, RingAssumption
      <4>2. CASE p.pc # "store"
        <5>1. p.accesses = w
          BY <1>2, <2>1, <4>2 DEF RingInv, CountInv
        <5>2. m <= w /\ w - r <= Size
          BY <1>2, <2>1, <3>2, <5>1, Counts
        <5> QED BY <5>2, RingAssumption
      <4> QED BY <4>1, <4>2
    <3> QED BY <3>3, <3>4, RingAssumption
  <2> QED BY <2>4, <2>5
<1>3. RingInv => NoDataRace
  BY <1>1, <1>2 DEF NoDataRace
<1> QED BY <1>3, RingInvariant, PTL

\* The consumer leaves no message behind: the drain loop after done is enough.
THEOREM RingDrained == Spec => []Drained
<1>1. ASSUME RingInv, c.pc = "exit"
      PROVE  received = [n \in 1..Messages |-> n - 1]
  <2>1. c.accesses = Reads /\ received = [n \in 1..c.accesses |-> n - 1]
    BY <1>1 DEF RingInv, CountInv
  <2>2. Reads = Writes /\ Writes = Messages
    BY <1>1 DEF RingInv, EndInv, CountInv
  <2> QED BY <2>1, <2>2
<1>2. RingInv => Drained
  BY <1>1 DEF Drained
<1> QED BY <1>2, RingInvariant, PTL

\* Every step of the two threads is a push, a pop or no step of the queue.
LEMMA RingStepSimulation ==
    RingInv /\ [Next]_vars => [Queue!Push \/ Queue!Pop]_(Queue!queueVars)
<1> SUFFICES ASSUME RingInv, [Next]_vars
             PROVE  [Queue!Push \/ Queue!Pop]_(Queue!queueVars)
  OBVIOUS
<1>1. PICK w \in Nat, r \in Nat : w = Writes /\ r = Reads /\ r <= w
  BY Counts
<1>2. Len(received) = IF c.pc = "store" THEN r + 1 ELSE r
  <2>1. PICK n \in Nat : n = c.accesses /\ received = [j \in 1..n |-> j - 1]
    BY Counts DEF RingInv, CountInv
  <2>2. Len(received) = n
    BY <2>1
  <2> QED BY <1>1, <2>1, <2>2 DEF RingInv, CountInv
<1>3. CASE StoreWriteIdx
  <2>1. p.pc = "store" /\ p.i = w /\ p.i < Messages
    BY <1>1, <1>3 DEF StoreWriteIdx, RingInv, CountInv
  <2>2. w - Len(received) < Size
    <3>1. w - (p.seen - 1) < Size
      BY <1>1, <2>1 DEF RingInv, BoundInv
    <3>2. w - r < Size
      BY <1>1, <3>1, Counts
    <3> QED BY <1>1, <1>2, <3>2, RingAssumption
  <2>3. Len(writeIdx') - 1 = Len(writeIdx) - 1 + 1
    BY <1>3 DEF StoreWriteIdx, RingInv, TypeOK
  <2>4. UNCHANGED received
    BY <1>3 DEF StoreWriteIdx
  <2>5. Queue!Push
    BY <1>1, <2>1, <2>2, <2>3, <2>4 DEF Queue!Push, Writes
  <2> QED BY <2>5
<1>4. CASE ReadSlot
  <2>1. c.pc = "read" /\ received' = Append(received, slots[Slot(R)].val)
    BY <1>4 DEF ReadSlot
  <2>2. slots[Slot(R)].val = r /\ Len(received) = r
    BY <1>1, <1>2, <2>1, ReadsNext
  <2>3. r < w
    <3>1. r < c.seen - 1
      BY <1>1, <2>1 DEF RingInv, BoundInv
    <3> QED BY <1>1, <3>1, Counts
  <2>4. UNCHANGED writeIdx
    BY <1>4 DEF ReadSlot
  <2>5. Queue!Pop
    BY <1>1, <2>1, <2>2, <2>3, <2>4 DEF Queue!Pop, Writes
  <2> QED BY <2>5
<1>5. CASE UNCHANGED <<writeIdx, received>>
  BY <1>5 DEF Queue!queueVars
<1>6. StoreWriteIdx \/ ReadSlot \/ UNCHANGED <<writeIdx, received>>
  BY DEF Next, Producer, Consumer, vars, LoadReadIdx, WriteSlot, SetDone,
         LoadWriteIdx, StoreReadIdx, LoadNotDone, LoadDone
<1> QED BY <1>3, <1>4, <1>5, <1>6

\* The lock-free ring is a bounded FIFO queue, across the wrap of its indices.
THEOREM RingIsBoundedQueue == Spec => IsBoundedQueue
<1>1. Init => Queue!Init
  BY DEF Init, Queue!Init
<1> QED BY <1>1, RingInvariant, RingStepSimulation, PTL
        DEF Spec, IsBoundedQueue, Queue!Spec

-----------------------------------------------------------------------------
(* The benchmark as a whole.                                               *)

\* bench_ring() is the two threads of SpscRing, and nothing but them has the ring:
\* what is proved of Spec holds throughout main().
THEOREM MainRunsRing == MainSpec => Spec
<1>1. MainInit => Init
  BY DEF MainInit
<1>2. [MainNext]_mainVars => [Next]_vars
  <2> SUFFICES ASSUME [MainNext]_mainVars PROVE [Next]_vars
    OBVIOUS
  <2>1. CASE InRing(Next)
    BY <2>1 DEF InRing
  <2>2. CASE InMutex(Mutex!Next) \/ JoinRing \/ JoinMutex \/ UNCHANGED mainVars
    BY <2>2 DEF InMutex, JoinRing, JoinMutex, mainVars
  <2> QED BY <2>1, <2>2 DEF MainNext
<1> QED BY <1>1, <1>2, PTL DEF MainSpec, Spec

\* The queue between the two threads of bench_mutex(): the messages that are pushed
\* and not yet popped, in their order.
MutexInv ==
    /\ i \in 0..Messages
    /\ popped \in Seq(Nat)
    /\ Len(popped) <= i
    /\ i - Len(popped) <= Size
    /\ q \in Seq(Nat)
    /\ Len(q) = i - Len(popped)
    /\ \A n \in 1..Len(q) : q[n] = Len(popped) + n - 1

\* MutexInv holds while bench_mutex() runs, as it did before.
LEMMA MutexInvariant == MainSpec => []MutexInv
<1>1. MainInit => MutexInv
  <2> SUFFICES ASSUME MainInit PROVE MutexInv
    OBVIOUS
  <2>1. q = <<>> /\ i = 0 /\ popped = <<>>
    BY DEF MainInit, Mutex!Init
  <2>2. Len(<<>>) = 0 /\ \A S : <<>> \in Seq(S)
    OBVIOUS
  <2>3. /\ i \in 0..Messages /\ Len(popped) <= i
        /\ i - Len(popped) <= Size /\ Len(q) = i - Len(popped)
    <3>1. Messages \in Nat /\ Size \in Nat
      BY RingAssumption
    <3>2. i = 0 /\ Len(popped) = 0 /\ Len(q) = 0
      BY <2>1, <2>2
    <3> QED BY <3>1, <3>2
  <2>4. \A n \in 1..Len(q) : q[n] = Len(popped) + n - 1
    BY <2>1, <2>2
  <2> QED BY <2>1, <2>2, <2>3, <2>4 DEF MutexInv
<1>2. MutexInv /\ [MainNext]_mainVars => MutexInv'
  <2> SUFFICES ASSUME MutexInv, [MainNext]_mainVars PROVE MutexInv'
    OBVIOUS
  <2>types. /\ i \in Nat /\ Messages \in Nat /\ Size \in Nat /\ popped \in Seq(Nat)
            /\ Len(popped) \in Nat /\ i - Len(popped) \in Nat
    BY RingAssumption DEF MutexInv
  <2>1. CASE Mutex!Push
    <3>1. /\ i < Messages /\ Len(q) < Size /\ q' = Append(q, i) /\ i' = i + 1
          /\ popped' = popped
      BY <2>1 DEF Mutex!Push
    <3>2. q \in Seq(Nat) /\ Len(q) \in Nat /\ Len(q) = i - Len(popped)
      BY <2>types DEF MutexInv
    <3>3. /\ q' \in Seq(Nat) /\ Len(q') = Len(q) + 1 /\ q'[Len(q) + 1] = i
          /\ \A n \in 1..Len(q) : q'[n] = q[n]
      BY <2>types, <3>1, <3>2
    <3>4. \A n \in 1..Len(q') : q'[n] = Len(popped') + n - 1
      <4> SUFFICES ASSUME NEW n \in 1..Len(q') PROVE q'[n] = Len(popped') + n - 1
        OBVIOUS
      <4>1. CASE n \in 1..Len(q)
        BY <3>1, <3>3, <4>1 DEF MutexInv
      <4>2. CASE n = Len(q) + 1
        BY <2>types, <3>1, <3>2, <3>3, <4>2
      <4> QED BY <3>2, <3>3, <4>1, <4>2
    <3> QED BY <2>types, <3>1, <3>2, <3>3, <3>4 DEF MutexInv
  <2>2. CASE Mutex!Pop
    <3>1. /\ q # <<>> /\ popped' = Append(popped, Head(q)) /\ q' = Tail(q) /\ i' = i
      BY <2>2 DEF Mutex!Pop
    <3>2. q \in Seq(Nat) /\ Len(q) \in Nat \ {0} /\ Len(q) = i - Len(popped)
      BY <2>types, <3>1 DEF MutexInv
    <3>3. popped' \in Seq(Nat) /\ Len(popped') = Len(popped) + 1
      BY <2>types, <3>1, <3>2
    <3>4. /\ q' \in Seq(Nat) /\ Len(q') = Len(q) - 1
          /\ \A n \in 1..Len(q) - 1 : q'[n] = q[n + 1]
      BY <3>1, <3>2
    <3>5. \A n \in 1..Len(q') : q'[n] = Len(popped') + n - 1
      BY <2>types, <3>2, <3>3, <3>4 DEF MutexInv
    <3>6. /\ i' \in 0..Messages /\ Len(popped') <= i'
          /\ i' - Len(popped') <= Size /\ Len(q') = i' - Len(popped')
      <4>1. i \in 0..Messages /\ i' = i /\ i - Len(popped) <= Size
        BY <3>1 DEF MutexInv
      <4>2. i - Len(popped) >= 1
        BY <2>types, <3>2
      <4>3. Len(popped') = Len(popped) + 1 /\ Len(q') = i - Len(popped) - 1
        BY <3>2, <3>3, <3>4
      <4> QED BY <2>types, <4>1, <4>2, <4>3
    <3> QED BY <3>3, <3>4, <3>5, <3>6 DEF MutexInv
  <2>3. CASE UNCHANGED <<q, i, popped>>
    BY <2>3 DEF MutexInv
  <2>4. Mutex!Push \/ Mutex!Pop \/ UNCHANGED <<q, i, popped>>
    BY DEF MainNext, InRing, InMutex, JoinRing, JoinMutex, mainVars, mutexVars,
           Mutex!Next, Mutex!Consumer, Mutex!Loop, Mutex!Count
  <2> QED BY <2>1, <2>2, <2>3, <2>4
<1> QED BY <1>1, <1>2, PTL DEF MainSpec

\* The queue behind a mutex is the same bounded FIFO queue: a critical section is a
\* push, a pop or no step of it.
THEOREM MutexQueueIsBoundedQueue == MainSpec => MutexIsBoundedQueue
<1>1. MainInit => Mutex!Queue!Init
  BY DEF MainInit, Mutex!Init, Mutex!Queue!Init
<1>2. MutexInv /\ [MainNext]_mainVars
         => [Mutex!Queue!Push \/ Mutex!Queue!Pop]_(Mutex!Queue!queueVars)
  <2> SUFFICES ASSUME MutexInv, [MainNext]_mainVars
               PROVE  [Mutex!Queue!Push \/ Mutex!Queue!Pop]_(Mutex!Queue!queueVars)
    OBVIOUS
  <2>types. /\ i \in Nat /\ Messages \in Nat /\ Size \in Nat /\ popped \in Seq(Nat)
            /\ Len(popped) \in Nat /\ i - Len(popped) \in Nat
    BY RingAssumption DEF MutexInv
  <2>1. Len(q) = i - Len(popped)
    BY <2>types DEF MutexInv
  <2>2. CASE Mutex!Push
    BY <2>types, <2>1, <2>2 DEF Mutex!Push, Mutex!Queue!Push
  <2>3. CASE Mutex!Pop
    <3>1. /\ q # <<>> /\ popped' = Append(popped, Head(q)) /\ i' = i
      BY <2>3 DEF Mutex!Pop
    <3>2. i - Len(popped) >= 1
      BY <2>types, <3>1 DEF MutexInv
    <3>3. Head(q) = Len(popped)
      BY <2>types, <2>1, <3>2 DEF MutexInv
    <3> QED BY <2>types, <3>1, <3>2, <3>3 DEF Mutex!Queue!Pop
  <2>4. CASE UNCHANGED <<q, i, popped>>
    BY <2>4 DEF Mutex!Queue!queueVars
  <2>5. Mutex!Push \/ Mutex!Pop \/ UNCHANGED <<q, i, popped>>
    BY DEF MainNext, InRing, InMutex, JoinRing, JoinMutex, mainVars, mutexVars,
           Mutex!Next, Mutex!Consumer, Mutex!Loop, Mutex!Count
  <2> QED BY <2>2, <2>3, <2>4, <2>5
<1> QED BY <1>1, <1>2, MutexInvariant, PTL
        DEF MainSpec, MutexIsBoundedQueue, Mutex!IsBoundedQueue, Mutex!Queue!Spec

\* What main() times: throughout it the ring is free of data races, is drained, and
\* is a bounded FIFO queue, and so is the queue it is compared with.
THEOREM BenchmarkQueues ==
    MainSpec => /\ [](TypeOK /\ NoDataRace /\ Drained)
                /\ IsBoundedQueue
                /\ MutexIsBoundedQueue
BY MainRunsRing, RingTypeOK, RingNoDataRace, RingDrained, RingIsBoundedQueue,
   MutexQueueIsBoundedQueue, PTL

=============================================================================
