---------------------------- MODULE IoUringProofs ----------------------------
(***************************************************************************)
(* Proofs about IoUringServer, for any clients, fds, message sizes and     *)
(* depth of the submission queue: types, OneAccept, RequestOwnsFd and      *)
(* ForgottenOnlyThen; and that it is an echo service if no send can be     *)
(* short.                                                                  *)
(***************************************************************************)
EXTENDS IoUringServer, SocketsProofs, FiniteSetTheorems

\* The places an operation of c can be in: none, or exactly one.
Idle(c) == InSq(c) = {} /\ InKernel(c) = {} /\ InCq(c) = {}
Once(c) ==
    \/ (\E i : InSq(c) = {i}) /\ InKernel(c) = {} /\ InCq(c) = {}
    \/ InSq(c) = {} /\ (\E s : InKernel(c) = {s}) /\ InCq(c) = {}
    \/ InSq(c) = {} /\ InKernel(c) = {} /\ (\E i : InCq(c) = {i})

Requested(c) == IF c = None THEN accept_pending ELSE req[c] # NoReq

\* One operation for each Request and for accept_pending_.
OnceInv == \A c \in Clients \cup {None} : IF Requested(c) THEN Once(c) ELSE Idle(c)

\* Only accepts have no Request.
EntriesInv ==
    /\ \A i \in DOMAIN sq : sq[i].conn = None => sq[i] = AcceptSqe
    /\ \A s \in inflight : s.conn = None => s = AcceptSqe
    /\ \A i \in DOMAIN cq : cq[i].sqe.conn = None => cq[i].sqe = AcceptSqe

\* Who an fd belongs to: a connection in the backlog has no Request, one whose
\* accept has completed gets its Request when that is handled.
FdInv ==
    /\ \A c \in Clients : req[c] # NoReq => fdc[req[c].fd] = c
    /\ \A i \in DOMAIN backlog : req[backlog[i]] = NoReq
    /\ \A c \in Clients : client[c] = "idle" => req[c] = NoReq
    /\ \A i \in DOMAIN cq : cq[i].sqe = AcceptSqe /\ cq[i].res # Error =>
          /\ cq[i].res \in FDs
          /\ fdc[cq[i].res] \in Clients
          /\ req[fdc[cq[i].res]] = NoReq

LoopTypeOK ==
    /\ pc \in {"wait", "reap", "submit", "exit"}
    /\ running \in BOOLEAN
    /\ accept_pending \in BOOLEAN

IInv == SocketsInv /\ UringTypeOK /\ LoopTypeOK /\ OnceInv /\ EntriesInv /\ FdInv

-----------------------------------------------------------------------------
(* The results of the operations, and the three queues.                    *)

\* A result is an fd, a count or an error; the two errors are not above 0.
LEMMA ResultFacts ==
    /\ {0, Error, Again} \subseteq Results
    /\ FDs \subseteq Results /\ Error \notin FDs
    /\ \A res \in 1..MaxBytes : res \in Results /\ res > 0 /\ res \notin {0, Error}
    /\ ~(0 > 0) /\ ~(Error > 0) /\ ~(Again > 0) /\ Again \notin {0, Error}
    /\ SendResults \subseteq Results
BY SocketsAssumption DEF Results, Error, Again, FDs, SendResults

\* Preparing an entry.
LEMMA PrepareEffect ==
    ASSUME UringTypeOK, NEW e \in Entries, sq' = Append(sq, e)
    PROVE  /\ \A c : InSq(c)' = InSq(c) \cup IF e.conn = c THEN {Len(sq) + 1} ELSE {}
           /\ sq' \in Seq(Entries)
           /\ \A i : i \in DOMAIN sq' <=> i \in DOMAIN sq \/ i = Len(sq) + 1
           /\ \A i \in DOMAIN sq : sq'[i] = sq[i]
           /\ sq'[Len(sq) + 1] = e
<1>1. sq \in Seq(Entries)
  BY DEF UringTypeOK
<1>2. /\ sq' \in Seq(Entries)
      /\ \A i : i \in DOMAIN sq' <=> i \in DOMAIN sq \/ i = Len(sq) + 1
      /\ \A i \in DOMAIN sq : sq'[i] = sq[i]
      /\ sq'[Len(sq) + 1] = e
  BY <1>1
<1>3. \A c : InSq(c)' = InSq(c) \cup IF e.conn = c THEN {Len(sq) + 1} ELSE {}
  BY <1>2 DEF InSq
<1> QED BY <1>2, <1>3

\* The oldest completion leaves the completion queue.
LEMMA ReapEffect ==
    ASSUME UringTypeOK, cq # <<>>, cq' = Tail(cq)
    PROVE  /\ \A c : InCq(c) = {} => InCq(c)' = {}
           /\ \A c, i : InCq(c) = {i} /\ Head(cq).sqe.conn = c => InCq(c)' = {}
           /\ \A c, i : InCq(c) = {i} /\ Head(cq).sqe.conn # c => InCq(c)' = {i - 1}
           /\ 1 \in InCq(Head(cq).sqe.conn)
           /\ cq' \in Seq([sqe : Entries, res : Results])
           /\ \A i \in DOMAIN cq' : i + 1 \in DOMAIN cq /\ cq'[i] = cq[i + 1]
           /\ Head(cq) = cq[1] /\ 1 \in DOMAIN cq
<1>1. cq \in Seq([sqe : Entries, res : Results])
  BY DEF UringTypeOK
<1>2. /\ cq' \in Seq([sqe : Entries, res : Results])
      /\ \A i \in DOMAIN cq' : i \in Nat \ {0} /\ i + 1 \in DOMAIN cq /\ cq'[i] = cq[i + 1]
      /\ \A i \in DOMAIN cq : i \in Nat \ {0} /\ (i = 1 \/ i - 1 \in DOMAIN cq')
      /\ Head(cq) = cq[1] /\ 1 \in DOMAIN cq
  BY <1>1
<1>3. 1 \in InCq(Head(cq).sqe.conn)
  BY <1>2 DEF InCq
<1>4. \A c, i : i \in InCq(c)' => i \in Nat \ {0} /\ i + 1 \in InCq(c)
  BY <1>2 DEF InCq
<1>5. ASSUME NEW c, NEW i \in InCq(c), i # 1
      PROVE  i - 1 \in InCq(c)'
  <2>1. i \in Nat \ {0} /\ i - 1 \in DOMAIN cq' /\ cq[i].sqe.conn = c
    BY <1>2, <1>5 DEF InCq
  <2>2. i - 1 + 1 = i
    BY <2>1
  <2>3. cq'[i - 1] = cq[i]
    BY <1>2, <2>1, <2>2
  <2> QED BY <2>1, <2>3 DEF InCq
<1>6. \A c : Head(cq).sqe.conn # c => 1 \notin InCq(c)
  BY <1>2 DEF InCq
<1>7. \A c, i : i \in InCq(c) => i \in Nat
  BY <1>2 DEF InCq
<1>8. \A c, i : InCq(c) = {i} /\ Head(cq).sqe.conn # c => InCq(c)' = {i - 1}
  <2> SUFFICES ASSUME NEW c, NEW i, InCq(c) = {i}, Head(cq).sqe.conn # c
               PROVE  InCq(c)' = {i - 1}
    OBVIOUS
  <2>1. i \in Nat /\ i # 1
    BY <1>6, <1>7
  <2>2. i - 1 \in InCq(c)'
    BY <2>1, <1>5
  <2>3. ASSUME NEW j \in InCq(c)' PROVE j = i - 1
    BY <2>1, <1>4
  <2> QED BY <2>2, <2>3
<1>9. \A c, i : InCq(c) = {i} /\ Head(cq).sqe.conn = c => InCq(c)' = {}
  BY <1>3, <1>4
<1>10. \A c : InCq(c) = {} => InCq(c)' = {}
  BY <1>4
<1> QED BY <1>2, <1>3, <1>8, <1>9, <1>10

\* A completion is of a connection or of an accept.
LEMMA CompletionType ==
    ASSUME UringTypeOK, cq # <<>>
    PROVE  Head(cq).sqe.conn \in Clients \cup {None}
<1>1. cq \in Seq([sqe : Entries, res : Results])
  BY DEF UringTypeOK
<1>2. Head(cq).sqe \in Entries
  <2>1. Head(cq) \in [sqe : Entries, res : Results]
    BY <1>1, HeadTailProperties
  <2> QED BY <2>1
<1>3. \A e \in Entries : e.conn \in Clients \cup {None}
  BY DEF Entries
<1> QED BY <1>2, <1>3

\* A completion is posted, and the kernel holds the operation no longer.
LEMMA CompleteEffect ==
    ASSUME UringTypeOK, NEW e \in inflight, NEW r \in Results,
           Completed(e, r)
    PROVE  /\ sq' = sq
           /\ \A c : InSq(c)' = InSq(c)
           /\ \A c : InKernel(c)' = InKernel(c) \ {e}
           /\ \A c : InCq(c)' = InCq(c) \cup IF e.conn = c THEN {Len(cq) + 1} ELSE {}
           /\ inflight' \subseteq Entries
           /\ cq' \in Seq([sqe : Entries, res : Results])
           /\ \A i : i \in DOMAIN cq' <=> i \in DOMAIN cq \/ i = Len(cq) + 1
           /\ \A i \in DOMAIN cq : cq'[i] = cq[i]
           /\ cq'[Len(cq) + 1] = [sqe |-> e, res |-> r]
<1> DEFINE cqe == [sqe |-> e, res |-> r]
<1>1. /\ cq \in Seq([sqe : Entries, res : Results])
      /\ cqe \in [sqe : Entries, res : Results]
      /\ cq' = Append(cq, cqe)
      /\ inflight' = inflight \ {e} /\ sq' = sq
  BY DEF UringTypeOK, Completed, Posts
<1>2. cqe.sqe = e
  OBVIOUS
<1> HIDE DEF cqe
<1>3. /\ \A i : i \in DOMAIN cq' <=> i \in DOMAIN cq \/ i = Len(cq) + 1
      /\ \A i \in DOMAIN cq : cq'[i] = cq[i]
      /\ cq'[Len(cq) + 1] = cqe
  BY <1>1
<1>4. \A c : InCq(c)' = InCq(c) \cup IF e.conn = c THEN {Len(cq) + 1} ELSE {}
  BY <1>2, <1>3 DEF InCq
<1>5. cq' \in Seq([sqe : Entries, res : Results])
  BY <1>1
<1>6. inflight' \subseteq Entries
  BY <1>1 DEF UringTypeOK
<1>7. \A c : InKernel(c)' = InKernel(c) \ {e}
  BY <1>1 DEF InKernel
<1> QED BY <1>1, <1>3, <1>4, <1>5, <1>6, <1>7 DEF InSq, cqe

\* submit(), with the accept if it is to be retried.
LEMMA SubmitEffect ==
    ASSUME UringTypeOK, Phase2
    PROVE  /\ \A c : InSq(c)' = {} /\ InCq(c)' = InCq(c)
           /\ \A c : InKernel(c)' =
                 InKernel(c) \cup {sq[i] : i \in InSq(c)}
                 \cup IF c = None /\ ~accept_pending /\ SqHasRoom THEN {AcceptSqe} ELSE {}
           /\ sq' = <<>> /\ cq' = cq
           /\ \A s \in inflight' : \/ s \in inflight
                                   \/ \E i \in DOMAIN sq : s = sq[i]
                                   \/ s = AcceptSqe
<1> DEFINE retry == ~accept_pending /\ SqHasRoom
           s == IF retry THEN Append(sq, AcceptSqe) ELSE sq
<1>1. sq \in Seq(Entries) /\ AcceptSqe \in Entries /\ AcceptSqe.conn = None
  BY DEF UringTypeOK, AcceptSqe, Sqe, Entries
<1>2. Range(s) = {sq[i] : i \in DOMAIN sq} \cup IF retry THEN {AcceptSqe} ELSE {}
  <2>1. Range(sq) = {sq[i] : i \in DOMAIN sq}
    BY DEF Range
  <2>2. Range(Append(sq, AcceptSqe)) = Range(sq) \cup {AcceptSqe}
    BY <1>1 DEF Range
  <2> QED BY <2>1, <2>2
<1>3. sq' = <<>> /\ cq' = cq /\ inflight' = inflight \cup Range(s)
  BY DEF Phase2, Submit
<1> HIDE DEF s
<1>4. \A c : InSq(c)' = {} /\ InCq(c)' = InCq(c)
  BY <1>3 DEF InSq, InCq
<1>5. \A c : InKernel(c)' =
                InKernel(c) \cup {sq[i] : i \in InSq(c)}
                \cup IF c = None /\ retry THEN {AcceptSqe} ELSE {}
  BY <1>1, <1>2, <1>3 DEF InKernel, InSq
<1> QED BY <1>2, <1>3, <1>4, <1>5

-----------------------------------------------------------------------------
(* One operation at a time.                                                *)

\* The connection whose completion is handled has no other operation.
LEMMA ReapedIsIdle ==
    ASSUME UringTypeOK, OnceInv, cq # <<>>, cq' = Tail(cq),
           NEW h, h = Head(cq).sqe.conn
    PROVE  /\ h \in Clients \cup {None}
           /\ Requested(h)
           /\ InSq(h) = {} /\ InKernel(h) = {} /\ InCq(h)' = {}
           /\ \A c \in (Clients \cup {None}) \ {h} :
                 /\ InCq(c) = {} => InCq(c)' = {}
                 /\ (\E i : InCq(c) = {i}) => (\E i : InCq(c)' = {i})
<1>1. h \in Clients \cup {None}
  BY CompletionType
<1>2. 1 \in InCq(h)
  BY ReapEffect
<1>3. Requested(h) /\ InSq(h) = {} /\ InKernel(h) = {} /\ \E i : InCq(h) = {i}
  BY <1>1, <1>2 DEF OnceInv, Once, Idle
<1>4. InCq(h)' = {}
  BY <1>3, ReapEffect
<1>5. ASSUME NEW c \in (Clients \cup {None}) \ {h}
      PROVE  /\ InCq(c) = {} => InCq(c)' = {}
             /\ (\E i : InCq(c) = {i}) => (\E i : InCq(c)' = {i})
  BY ReapEffect
<1> QED BY <1>1, <1>3, <1>4, <1>5

\* A handler prepares the next operation of the connection d it handles, or of the
\* one whose accept it handles; or the submission queue is full.
LEMMA PreparedOnce ==
    ASSUME UringTypeOK, OnceInv, EntriesInv, cq # <<>>, cq' = Tail(cq),
           inflight' = inflight,
           NEW h, h = Head(cq).sqe.conn,
           NEW d \in Clients, NEW r \in Requests, Prepare(d, r),
           d = h \/ (h = None /\ req[d] = NoReq),
           accept_pending' = IF h = None THEN FALSE ELSE accept_pending
    PROVE  UringTypeOK' /\ OnceInv' /\ EntriesInv'
<1>1. /\ h \in Clients \cup {None}
      /\ InSq(h) = {} /\ InKernel(h) = {} /\ InCq(h)' = {}
      /\ \A c \in (Clients \cup {None}) \ {h} :
            /\ InCq(c) = {} => InCq(c)' = {}
            /\ (\E i : InCq(c) = {i}) => (\E i : InCq(c)' = {i})
  BY ReapedIsIdle
<1>2. InSq(d) = {} /\ InKernel(d) = {} /\ InCq(d)' = {}
  BY <1>1, SocketsAssumption DEF OnceInv, Requested, Idle
<1>3. \A c : InKernel(c)' = InKernel(c)
  BY DEF InKernel
<1>4. req \in [Clients -> Requests \cup {NoReq}] /\ inflight \subseteq Entries
  BY DEF UringTypeOK
<1>5. /\ cq' \in Seq([sqe : Entries, res : Results])
      /\ \A i \in DOMAIN cq' : i + 1 \in DOMAIN cq /\ cq'[i] = cq[i + 1]
  BY ReapEffect
<1>6. \A i \in DOMAIN cq' : cq'[i].sqe.conn = None => cq'[i].sqe = AcceptSqe
  BY <1>5 DEF EntriesInv
<1>7. CASE SqHasRoom
  <2> DEFINE e == Sqe(r.op, d)
  <2>1. e \in Entries /\ e.conn = d
    BY DEF Sqe, Entries, Requests
  <2>2. sq' = Append(sq, e) /\ req' = [req EXCEPT ![d] = r]
    BY <1>7 DEF Prepare
  <2> HIDE DEF e
  <2>3. /\ \A c : InSq(c)' = InSq(c) \cup IF d = c THEN {Len(sq) + 1} ELSE {}
        /\ sq' \in Seq(Entries)
        /\ \A i : i \in DOMAIN sq' <=> i \in DOMAIN sq \/ i = Len(sq) + 1
        /\ \A i \in DOMAIN sq : sq'[i] = sq[i]
        /\ sq'[Len(sq) + 1] = e
    BY <2>1, <2>2, PrepareEffect
  <2>4. Len(sq') <= SqDepth
    BY <1>7, <2>2, UringAssumption DEF SqHasRoom, UringTypeOK
  <2>5. UringTypeOK'
    BY <1>4, <1>5, <2>2, <2>3, <2>4 DEF UringTypeOK
  <2>6. ASSUME NEW c \in Clients \cup {None}
        PROVE  IF Requested(c)' THEN Once(c)' ELSE Idle(c)'
    <3>1. CASE c = d
      <4>1. Requested(c)'
        BY <1>4, <2>2, <3>1, UringAssumption, SocketsAssumption DEF Requested
      <4>2. Once(c)'
        BY <1>2, <1>3, <2>3, <3>1 DEF Once
      <4> QED BY <4>1, <4>2
    <3>2. CASE c # d /\ c = h
      <4>1. ~Requested(c)'
        BY <3>2 DEF Requested
      <4>2. Idle(c)'
        BY <1>1, <1>3, <2>3, <3>2 DEF Idle
      <4> QED BY <4>1, <4>2
    <3>3. CASE c # d /\ c # h
      <4>1. Requested(c)' <=> Requested(c)
        BY <1>4, <2>2, <3>3 DEF Requested
      <4>2. InSq(c)' = InSq(c) /\ InKernel(c)' = InKernel(c)
        BY <1>3, <2>3, <3>3
      <4>3. (Once(c) => Once(c)') /\ (Idle(c) => Idle(c)')
        BY <1>1, <3>3, <4>2 DEF Once, Idle
      <4> QED BY <4>1, <4>3 DEF OnceInv
    <3> QED BY <3>1, <3>2, <3>3
  <2>7. EntriesInv'
    <3>1. \A i \in DOMAIN sq' : sq'[i].conn = None => sq'[i] = AcceptSqe
      BY <2>1, <2>3, SocketsAssumption DEF EntriesInv
    <3> QED BY <1>6, <3>1 DEF EntriesInv
  <2> QED BY <2>5, <2>6, <2>7 DEF OnceInv
<1>8. CASE ~SqHasRoom
  <2>1. sq' = sq /\ req' = [req EXCEPT ![d] = NoReq]
    BY <1>8 DEF Prepare
  <2>2. UringTypeOK'
    BY <1>4, <1>5, <2>1 DEF UringTypeOK
  <2>3. \A c : InSq(c)' = InSq(c)
    BY <2>1 DEF InSq
  <2>4. ASSUME NEW c \in Clients \cup {None}
        PROVE  IF Requested(c)' THEN Once(c)' ELSE Idle(c)'
    <3>1. CASE c = d \/ c = h
      <4>1. ~Requested(c)'
        BY <1>4, <2>1, <3>1, SocketsAssumption DEF Requested
      <4>2. Idle(c)'
        BY <1>1, <1>2, <1>3, <2>3, <3>1 DEF Idle
      <4> QED BY <4>1, <4>2
    <3>2. CASE c # d /\ c # h
      <4>1. Requested(c)' <=> Requested(c)
        BY <1>4, <2>1, <3>2 DEF Requested
      <4>2. (Once(c) => Once(c)') /\ (Idle(c) => Idle(c)')
        BY <1>1, <1>3, <2>3, <3>2 DEF Once, Idle
      <4> QED BY <4>1, <4>2 DEF OnceInv
    <3> QED BY <3>1, <3>2
  <2>5. EntriesInv'
    BY <1>6, <2>1 DEF EntriesInv
  <2> QED BY <2>2, <2>4, <2>5 DEF OnceInv
<1> QED BY <1>7, <1>8

\* A handler ends the connection it handles, or the accept it handles has failed.
LEMMA DroppedOnce ==
    ASSUME UringTypeOK, OnceInv, EntriesInv, cq # <<>>, cq' = Tail(cq),
           inflight' = inflight, sq' = sq,
           NEW h, h = Head(cq).sqe.conn,
           req' = IF h = None THEN req ELSE [req EXCEPT ![h] = NoReq],
           accept_pending' = IF h = None THEN FALSE ELSE accept_pending
    PROVE  UringTypeOK' /\ OnceInv' /\ EntriesInv'
<1>1. /\ h \in Clients \cup {None}
      /\ InSq(h) = {} /\ InKernel(h) = {} /\ InCq(h)' = {}
      /\ \A c \in (Clients \cup {None}) \ {h} :
            /\ InCq(c) = {} => InCq(c)' = {}
            /\ (\E i : InCq(c) = {i}) => (\E i : InCq(c)' = {i})
  BY ReapedIsIdle
<1>2. \A c : InKernel(c)' = InKernel(c) /\ InSq(c)' = InSq(c)
  BY DEF InKernel, InSq
<1>3. req \in [Clients -> Requests \cup {NoReq}]
  BY DEF UringTypeOK
<1>4. /\ cq' \in Seq([sqe : Entries, res : Results])
      /\ \A i \in DOMAIN cq' : i + 1 \in DOMAIN cq /\ cq'[i] = cq[i + 1]
  BY ReapEffect
<1>5. UringTypeOK'
  BY <1>3, <1>4 DEF UringTypeOK
<1>6. ASSUME NEW c \in Clients \cup {None}
      PROVE  IF Requested(c)' THEN Once(c)' ELSE Idle(c)'
  <2>1. CASE c = h
    <3>1. ~Requested(c)'
      BY <1>1, <1>3, <2>1 DEF Requested
    <3>2. Idle(c)'
      BY <1>1, <1>2, <2>1 DEF Idle
    <3> QED BY <3>1, <3>2
  <2>2. CASE c # h
    <3>1. Requested(c)' <=> Requested(c)
      BY <1>1, <1>3, <2>2 DEF Requested
    <3>2. (Once(c) => Once(c)') /\ (Idle(c) => Idle(c)')
      BY <1>1, <1>2, <2>2 DEF Once, Idle
    <3> QED BY <3>1, <3>2 DEF OnceInv
  <2> QED BY <2>1, <2>2
<1>7. EntriesInv'
  BY <1>4 DEF EntriesInv
<1> QED BY <1>5, <1>6, <1>7 DEF OnceInv

\* The kernel completes an operation.
LEMMA CompletedOnce ==
    ASSUME UringTypeOK, OnceInv, EntriesInv, NEW e \in inflight,
           NEW r \in Results, Completed(e, r),
           accept_pending' = accept_pending,
           req' \in [Clients -> Requests \cup {NoReq}],
           \A c \in Clients : req'[c] # NoReq <=> req[c] # NoReq
    PROVE  /\ UringTypeOK' /\ OnceInv' /\ EntriesInv'
           /\ Requested(e.conn) /\ InCq(e.conn) = {}
<1>1. /\ sq' = sq
      /\ \A c : InSq(c)' = InSq(c)
      /\ \A c : InKernel(c)' = InKernel(c) \ {e}
      /\ \A c : InCq(c)' = InCq(c) \cup IF e.conn = c THEN {Len(cq) + 1} ELSE {}
      /\ inflight' \subseteq Entries
      /\ cq' \in Seq([sqe : Entries, res : Results])
      /\ \A i : i \in DOMAIN cq' <=> i \in DOMAIN cq \/ i = Len(cq) + 1
      /\ \A i \in DOMAIN cq : cq'[i] = cq[i]
      /\ cq'[Len(cq) + 1] = [sqe |-> e, res |-> r]
  BY CompleteEffect
<1>2. UringTypeOK'
  BY <1>1 DEF UringTypeOK
<1>3. e.conn \in Clients \cup {None} /\ e \in InKernel(e.conn)
  BY DEF UringTypeOK, Entries, InKernel
<1>4. Requested(e.conn) /\ Once(e.conn)
  BY <1>3 DEF OnceInv, Idle
<1>5. InSq(e.conn) = {} /\ InKernel(e.conn) = {e} /\ InCq(e.conn) = {}
  BY <1>3, <1>4 DEF Once
<1>6. \A c \in Clients \cup {None} : Requested(c)' <=> Requested(c)
  BY DEF Requested
<1>7. ASSUME NEW c \in Clients \cup {None}
      PROVE  IF Requested(c)' THEN Once(c)' ELSE Idle(c)'
  <2>1. CASE c = e.conn
    <3>1. InSq(c)' = {} /\ InKernel(c)' = {} /\ InCq(c)' = {Len(cq) + 1}
      BY <1>1, <1>5, <2>1
    <3> QED BY <1>4, <1>6, <2>1, <3>1 DEF Once
  <2>2. CASE c # e.conn
    <3>1. e \notin InKernel(c)
      BY <2>2 DEF InKernel
    <3>2. InSq(c)' = InSq(c) /\ InKernel(c)' = InKernel(c) /\ InCq(c)' = InCq(c)
      BY <1>1, <2>2, <3>1
    <3>3. (Once(c) => Once(c)') /\ (Idle(c) => Idle(c)')
      BY <3>2 DEF Once, Idle
    <3> QED BY <1>6, <3>3 DEF OnceInv
  <2> QED BY <2>1, <2>2
<1>8. EntriesInv'
  <2>1. \A s \in inflight' : s.conn = None => s = AcceptSqe
    BY DEF EntriesInv, Completed
  <2>2. \A i \in DOMAIN cq' : cq'[i].sqe.conn = None => cq'[i].sqe = AcceptSqe
    BY <1>1 DEF EntriesInv
  <2> QED BY <1>1, <2>1, <2>2 DEF EntriesInv
<1> QED BY <1>2, <1>4, <1>5, <1>7, <1>8 DEF OnceInv
-----------------------------------------------------------------------------
(* The steps.                                                              *)

\* The first accept is prepared.
LEMMA InitIInv == Init => IInv
<1> SUFFICES ASSUME Init PROVE IInv
  OBVIOUS
<1>1. /\ sq = <<AcceptSqe>> /\ inflight = {} /\ cq = <<>>
      /\ req = [c \in Clients |-> NoReq]
      /\ pc = "wait" /\ running = TRUE /\ accept_pending = TRUE
  BY DEF Init, UringInit
<1>2. SocketsInv
  BY InitSocketsInv DEF Init
<1>3. AcceptSqe \in Entries /\ AcceptSqe.conn = None
  BY DEF AcceptSqe, Sqe, Entries
<1>4. UringTypeOK
  BY <1>1, <1>3, UringAssumption DEF UringTypeOK
<1>5. LoopTypeOK
  BY <1>1 DEF LoopTypeOK
<1>6. OnceInv
  <2>1. \A c : InKernel(c) = {} /\ InCq(c) = {}
    BY <1>1 DEF InKernel, InCq
  <2>2. InSq(None) = {1} /\ \A c \in Clients : InSq(c) = {}
    BY <1>1, <1>3, SocketsAssumption DEF InSq
  <2>3. Requested(None) /\ \A c \in Clients : ~Requested(c)
    BY <1>1, SocketsAssumption DEF Requested
  <2> QED BY <2>1, <2>2, <2>3 DEF OnceInv, Once, Idle
<1>7. EntriesInv
  BY <1>1 DEF EntriesInv
<1>8. FdInv
  <2>1. backlog = <<>>
    BY DEF Init, SocketsInit
  <2> QED BY <1>1, <2>1 DEF FdInv
<1> QED BY <1>2, <1>4, <1>5, <1>6, <1>7, <1>8 DEF IInv

\* The completion a handler takes, by the op the loop goes by.
LEMMA ReapedOp ==
    ASSUME IInv, NEW op \in {"accept", "recv", "send"}, Reaping(op),
           NEW h, h = Head(cq).sqe.conn
    PROVE  /\ cq # <<>> /\ cq' = Tail(cq) /\ inflight' = inflight
           /\ op = "accept" => h = None /\ cq[1].sqe = AcceptSqe
           /\ op # "accept" => h \in Clients /\ req[h] \in Requests
<1>1. cq # <<>> /\ cq' = Tail(cq) /\ inflight' = inflight /\ OpOf(Head(cq).sqe) = op
  BY DEF Reaping
<1>2. Head(cq) = cq[1] /\ 1 \in DOMAIN cq
  BY <1>1, ReapEffect DEF IInv
<1>3. h \in Clients \cup {None} /\ Requested(h)
  BY <1>1, ReapedIsIdle DEF IInv
<1>4. h \in Clients => req[h] \in Requests
  BY <1>3, SocketsAssumption DEF IInv, Requested, UringTypeOK
<1>5. h = None => cq[1].sqe = AcceptSqe
  BY <1>2 DEF IInv, EntriesInv
<1>6. \A r \in Requests : r.op # "accept"
  BY DEF Requests
<1>7. AcceptSqe.conn = None
  BY DEF AcceptSqe, Sqe
<1>8. CASE h = None
  BY <1>1, <1>2, <1>5, <1>8 DEF OpOf
<1>9. CASE h \in Clients
  <2>1. Head(cq).sqe # AcceptSqe
    BY <1>7, <1>9, SocketsAssumption
  <2>2. op # "accept"
    BY <1>1, <1>4, <1>6, <1>9, <2>1 DEF OpOf
  <2> QED BY <1>1, <1>4, <1>9, <2>2
<1> QED BY <1>3, <1>8, <1>9

\* handle_accept(): the accepted connection gets the one Request it will have.
LEMMA HandleAcceptIInv == IInv /\ HandleAccept => IInv'
<1> SUFFICES ASSUME IInv, HandleAccept PROVE IInv'
  OBVIOUS
<1> DEFINE h  == Head(cq).sqe.conn
           fd == Head(cq).res
<1>1. /\ Reaping("accept") /\ accept_pending' = FALSE /\ UNCHANGED sockVars
      /\ IF fd = Error THEN UNCHANGED <<sq, req>> ELSE Prepare(fdc[fd], NewRequest(fd))
  BY DEF HandleAccept
<1>2. /\ cq # <<>> /\ cq' = Tail(cq) /\ inflight' = inflight
      /\ h = None /\ cq[1].sqe = AcceptSqe
  BY <1>1, ReapedOp
<1>3. SocketsInv' /\ fdc' = fdc /\ backlog' = backlog /\ client' = client
  BY <1>1 DEF IInv, SocketsInv, SocketsTypeOK, OnePlace, sockVars, streamVars
<1>4. LoopTypeOK'
  BY <1>1 DEF IInv, LoopTypeOK, Reaping
<1>5. Head(cq) = cq[1] /\ 1 \in DOMAIN cq
      /\ \A i \in DOMAIN cq' : i + 1 \in DOMAIN cq /\ cq'[i] = cq[i + 1]
  BY <1>2, ReapEffect DEF IInv
<1>6. \A i \in DOMAIN cq' : cq'[i].sqe # AcceptSqe
  <2>1. InCq(None)' = {}
    BY <1>2, ReapedIsIdle DEF IInv
  <2> QED BY <2>1 DEF InCq, AcceptSqe, Sqe
<1>7. CASE fd = Error
  <2>1. sq' = sq /\ req' = req
    BY <1>1, <1>7
  <2>2. UringTypeOK' /\ OnceInv' /\ EntriesInv'
    BY <1>1, <1>2, <2>1, DroppedOnce DEF IInv
  <2>3. FdInv'
    BY <1>3, <1>6, <2>1 DEF IInv, FdInv
  <2> QED BY <1>3, <1>4, <2>2, <2>3 DEF IInv
<1>8. CASE fd # Error
  <2> DEFINE d == fdc[fd]
             r == NewRequest(fd)
  <2>1. fd \in FDs /\ d \in Clients /\ req[d] = NoReq
    BY <1>2, <1>5, <1>8 DEF IInv, FdInv
  <2>2. r \in Requests /\ r.fd = fd
    BY <2>1, SocketsAssumption DEF NewRequest, Requests
  <2>3. Prepare(d, r)
    BY <1>1, <1>8
  <2> HIDE DEF d, r
  <2>4. UringTypeOK' /\ OnceInv' /\ EntriesInv'
    BY <1>1, <1>2, <2>1, <2>2, <2>3, PreparedOnce DEF IInv
  <2>5. /\ req \in [Clients -> Requests \cup {NoReq}]
        /\ req' = [req EXCEPT ![d] = r] \/ req' = [req EXCEPT ![d] = NoReq]
    BY <2>3 DEF Prepare, IInv, UringTypeOK
  <2>6. \A i \in DOMAIN backlog : backlog[i] # d
    BY <2>1 DEF IInv, SocketsInv, OnePlace, d
  <2>7. client[d] # "idle"
    BY <2>1, SocketsAssumption DEF IInv, SocketsInv, OnePlace, d
  <2>8. \A c \in Clients : req'[c] # NoReq => fdc[req'[c].fd] = c
    BY <2>1, <2>2, <2>5 DEF IInv, FdInv, d
  <2>9. \A i \in DOMAIN backlog : backlog[i] \in Clients
    BY DEF IInv, SocketsInv, SocketsTypeOK
  <2>10. FdInv'
    BY <1>3, <1>6, <2>1, <2>5, <2>6, <2>7, <2>8, <2>9 DEF IInv, FdInv
  <2> QED BY <1>3, <1>4, <2>4, <2>10 DEF IInv
<1> QED BY <1>7, <1>8

\* handle_recv() and handle_send(): the connection keeps its Request or loses it.
LEMMA HandleRequestIInv == IInv /\ (HandleRecv \/ HandleSend) => IInv'
<1> SUFFICES ASSUME IInv, HandleRecv \/ HandleSend PROVE IInv'
  OBVIOUS
<1> DEFINE h == Head(cq).sqe.conn
<1>1. /\ Reaping("recv") \/ Reaping("send")
      /\ accept_pending' = accept_pending
      /\ \/ /\ \E op \in {"recv", "send"} : Prepare(h, [req[h] EXCEPT !.op = op])
            /\ UNCHANGED sockVars
         \/ /\ CloseFd(req[h].fd) \/ UNCHANGED sockVars
            /\ req' = [req EXCEPT ![h] = NoReq] /\ sq' = sq
  BY DEF HandleRecv, HandleSend, DeleteRequest
<1>2. /\ cq # <<>> /\ cq' = Tail(cq) /\ inflight' = inflight
      /\ h \in Clients /\ req[h] \in Requests
  BY <1>1, ReapedOp
<1>3. h # None /\ req[h] # NoReq
  BY <1>2, SocketsAssumption, UringAssumption
<1>4. LoopTypeOK'
  BY <1>1 DEF IInv, LoopTypeOK, Reaping
<1>5. \A i \in DOMAIN cq' : i + 1 \in DOMAIN cq /\ cq'[i] = cq[i + 1]
  BY <1>2, ReapEffect DEF IInv
<1>6. fdc[req[h].fd] = h /\ req[h].fd \in FDs
  BY <1>2, <1>3 DEF IInv, FdInv, Requests
<1>7. /\ \A i \in DOMAIN backlog : backlog[i] # h /\ backlog[i] \in Clients
      /\ client[h] # "idle"
      /\ req \in [Clients -> Requests \cup {NoReq}]
      /\ fdc \in [FDs -> Clients \cup {None}]
  <2>1. \A i \in DOMAIN backlog : backlog[i] \in Clients
    BY DEF IInv, SocketsInv, SocketsTypeOK
  <2>2. /\ \A i \in DOMAIN backlog : backlog[i] # h
        /\ client[h] # "idle"
    BY <1>2, <1>3 DEF IInv, FdInv
  <2>3. /\ req \in [Clients -> Requests \cup {NoReq}]
        /\ fdc \in [FDs -> Clients \cup {None}]
    BY DEF IInv, SocketsInv, SocketsTypeOK, UringTypeOK
  <2> QED BY <2>1, <2>2, <2>3
<1>8. ASSUME NEW i \in DOMAIN cq', cq'[i].sqe = AcceptSqe, cq'[i].res # Error
      PROVE  /\ cq'[i].res \in FDs \ {req[h].fd}
             /\ fdc[cq'[i].res] \in Clients \ {h}
             /\ req[fdc[cq'[i].res]] = NoReq
  BY <1>3, <1>5, <1>6, <1>8 DEF IInv, FdInv
<1>9. ASSUME NEW op \in {"recv", "send"}, Prepare(h, [req[h] EXCEPT !.op = op]),
             UNCHANGED sockVars
      PROVE  IInv'
  <2> DEFINE r == [req[h] EXCEPT !.op = op]
  <2>1. r \in Requests /\ r.fd = req[h].fd
    BY <1>2 DEF Requests
  <2>2. Prepare(h, r)
    BY <1>9
  <2> HIDE DEF r
  <2>3. UringTypeOK' /\ OnceInv' /\ EntriesInv'
    BY <1>1, <1>2, <1>3, <2>1, <2>2, PreparedOnce DEF IInv
  <2>4. SocketsInv' /\ fdc' = fdc /\ backlog' = backlog /\ client' = client
    BY <1>9 DEF IInv, SocketsInv, SocketsTypeOK, OnePlace, sockVars, streamVars
  <2>5. req' = [req EXCEPT ![h] = r] \/ req' = [req EXCEPT ![h] = NoReq]
    BY <2>2 DEF Prepare
  <2>6. FdInv'
    <3>1. \A c \in Clients : req'[c] # NoReq => fdc'[req'[c].fd] = c
      BY <1>2, <1>6, <1>7, <2>1, <2>4, <2>5 DEF IInv, FdInv
    <3>2. /\ \A i \in DOMAIN backlog' : req'[backlog'[i]] = NoReq
          /\ \A c \in Clients : client'[c] = "idle" => req'[c] = NoReq
      BY <1>7, <2>4, <2>5 DEF IInv, FdInv
    <3>3. \A i \in DOMAIN cq' : cq'[i].sqe = AcceptSqe /\ cq'[i].res # Error =>
             /\ cq'[i].res \in FDs
             /\ fdc'[cq'[i].res] \in Clients
             /\ req'[fdc'[cq'[i].res]] = NoReq
      BY <1>7, <1>8, <2>4, <2>5
    <3> QED BY <3>1, <3>2, <3>3 DEF FdInv
  <2> QED BY <1>4, <2>3, <2>4, <2>6 DEF IInv
<1>10. ASSUME CloseFd(req[h].fd), req' = [req EXCEPT ![h] = NoReq], sq' = sq
       PROVE  IInv'
  <2>1. UringTypeOK' /\ OnceInv' /\ EntriesInv'
    BY <1>1, <1>2, <1>3, <1>10, DroppedOnce DEF IInv
  <2>2. /\ SocketsInv' /\ backlog' = backlog
        /\ fdc' = [fdc EXCEPT ![req[h].fd] = None]
    BY <1>6, <1>10, CloseKeeps DEF IInv
  <2>3. client' = client
    BY <1>10 DEF CloseFd
  <2>4. FdInv'
    <3>1. \A c \in Clients : req'[c] # NoReq => fdc'[req'[c].fd] = c
      BY <1>2, <1>6, <1>7, <1>10, <2>2 DEF IInv, FdInv, UringTypeOK, Requests
    <3>2. /\ \A i \in DOMAIN backlog' : req'[backlog'[i]] = NoReq
          /\ \A c \in Clients : client'[c] = "idle" => req'[c] = NoReq
      BY <1>7, <1>10, <2>2, <2>3 DEF IInv, FdInv
    <3>3. \A i \in DOMAIN cq' : cq'[i].sqe = AcceptSqe /\ cq'[i].res # Error =>
             /\ cq'[i].res \in FDs
             /\ fdc'[cq'[i].res] \in Clients
             /\ req'[fdc'[cq'[i].res]] = NoReq
      BY <1>7, <1>8, <1>10, <2>2
    <3> QED BY <3>1, <3>2, <3>3 DEF FdInv
  <2> QED BY <1>4, <2>1, <2>2, <2>4 DEF IInv
<1>11. ASSUME UNCHANGED sockVars, req' = [req EXCEPT ![h] = NoReq], sq' = sq
       PROVE  IInv'
  <2>1. UringTypeOK' /\ OnceInv' /\ EntriesInv'
    BY <1>1, <1>2, <1>3, <1>11, DroppedOnce DEF IInv
  <2>2. SocketsInv' /\ fdc' = fdc /\ backlog' = backlog /\ client' = client
    BY <1>11 DEF IInv, SocketsInv, SocketsTypeOK, OnePlace, sockVars, streamVars
  <2>3. FdInv'
    <3>1. \A c \in Clients : req'[c] # NoReq => fdc'[req'[c].fd] = c
      BY <1>7, <1>11, <2>2 DEF IInv, FdInv
    <3>2. /\ \A i \in DOMAIN backlog' : req'[backlog'[i]] = NoReq
          /\ \A c \in Clients : client'[c] = "idle" => req'[c] = NoReq
      BY <1>7, <1>11, <2>2 DEF IInv, FdInv
    <3>3. \A i \in DOMAIN cq' : cq'[i].sqe = AcceptSqe /\ cq'[i].res # Error =>
             /\ cq'[i].res \in FDs
             /\ fdc'[cq'[i].res] \in Clients
             /\ req'[fdc'[cq'[i].res]] = NoReq
      BY <1>7, <1>8, <1>11, <2>2
    <3> QED BY <3>1, <3>2, <3>3 DEF FdInv
  <2> QED BY <1>4, <2>1, <2>2, <2>3 DEF IInv
<1> QED BY <1>1, <1>9, <1>10, <1>11

\* What depends on the sockets and the rings alone.
LEMMA SameIInv ==
    ASSUME IInv, UNCHANGED sockVars, UNCHANGED uringVars,
           accept_pending' = accept_pending
    PROVE  SocketsInv' /\ UringTypeOK' /\ OnceInv' /\ EntriesInv' /\ FdInv'
<1>1. SocketsInv'
  BY DEF IInv, SocketsInv, SocketsTypeOK, OnePlace, sockVars, streamVars
<1>2. UringTypeOK' /\ EntriesInv'
  BY DEF IInv, UringTypeOK, EntriesInv, uringVars
<1>3. FdInv'
  BY DEF IInv, FdInv, uringVars, sockVars
<1>4. OnceInv'
  BY DEF IInv, OnceInv, Once, Idle, Requested, InSq, InKernel, InCq, uringVars
<1> QED BY <1>1, <1>2, <1>3, <1>4

\* Waiting, and phase 2, where an accept that found no room is prepared again.
LEMMA WaitIInv == IInv /\ Wait => IInv'
<1> SUFFICES ASSUME IInv, Wait PROVE IInv'
  OBVIOUS
<1>1. UNCHANGED sockVars /\ UNCHANGED uringVars /\ accept_pending' = accept_pending
  BY DEF Wait
<1>2. SocketsInv' /\ UringTypeOK' /\ OnceInv' /\ EntriesInv' /\ FdInv'
  BY <1>1, SameIInv
<1>3. LoopTypeOK'
  BY DEF IInv, LoopTypeOK, Wait
<1> QED BY <1>2, <1>3 DEF IInv

\* submit_accept() if none is pending, and submit().
LEMMA Phase2IInv == IInv /\ Phase2 => IInv'
<1> SUFFICES ASSUME IInv, Phase2 PROVE IInv'
  OBVIOUS
<1> DEFINE retry == ~accept_pending /\ SqHasRoom
<1>1. /\ \A c : InSq(c)' = {} /\ InCq(c)' = InCq(c)
      /\ \A c : InKernel(c)' =
            InKernel(c) \cup {sq[i] : i \in InSq(c)}
            \cup IF c = None /\ retry THEN {AcceptSqe} ELSE {}
      /\ sq' = <<>> /\ cq' = cq
      /\ \A s \in inflight' : \/ s \in inflight
                              \/ \E i \in DOMAIN sq : s = sq[i]
                              \/ s = AcceptSqe
  BY SubmitEffect DEF IInv
<1>2. /\ accept_pending' = (accept_pending \/ retry)
      /\ pc' = "wait" /\ running' = running /\ req' = req /\ UNCHANGED sockVars
  BY DEF Phase2
<1>3. SocketsInv' /\ fdc' = fdc /\ backlog' = backlog /\ client' = client
  BY <1>2 DEF IInv, SocketsInv, SocketsTypeOK, OnePlace, sockVars, streamVars
<1>4. LoopTypeOK'
  BY <1>2 DEF IInv, LoopTypeOK
<1>5. UringTypeOK'
  <2>1. AcceptSqe \in Entries
    BY DEF AcceptSqe, Sqe, Entries
  <2>2. inflight' \subseteq Entries
    BY <1>1, <2>1 DEF IInv, UringTypeOK
  <2> QED BY <1>1, <1>2, <2>2, UringAssumption DEF IInv, UringTypeOK
<1>6. OnceInv'
  <2> SUFFICES ASSUME NEW c \in Clients \cup {None}
               PROVE  IF Requested(c)' THEN Once(c)' ELSE Idle(c)'
    BY DEF OnceInv
  <2>1. CASE c = None /\ retry
    <3>1. Idle(c)
      BY <2>1 DEF IInv, OnceInv, Requested
    <3>2. InKernel(c)' = {AcceptSqe}
      BY <1>1, <2>1, <3>1 DEF Idle
    <3> QED BY <1>1, <1>2, <2>1, <3>1, <3>2 DEF Once, Idle, Requested
  <2>2. CASE ~(c = None /\ retry)
    <3>1. Requested(c)' <=> Requested(c)
      BY <1>2, <2>2 DEF Requested
    <3>2. InKernel(c)' = InKernel(c) \cup {sq[i] : i \in InSq(c)}
      BY <1>1, <2>2
    <3>3. Idle(c) => Idle(c)'
      BY <1>1, <3>2 DEF Idle
    <3>4. ASSUME Once(c) PROVE Once(c)'
      <4>1. CASE (\E i : InSq(c) = {i}) /\ InKernel(c) = {} /\ InCq(c) = {}
        <5>1. PICK i : InSq(c) = {i}
          BY <4>1
        <5>2. InKernel(c)' = {sq[i]}
          BY <3>2, <4>1, <5>1
        <5> QED BY <1>1, <4>1, <5>2 DEF Once
      <4>2. CASE InSq(c) = {}
        <5>1. InKernel(c)' = InKernel(c)
          BY <3>2, <4>2
        <5> QED BY <1>1, <3>4, <4>2, <5>1 DEF Once
      <4> QED BY <3>4, <4>1, <4>2 DEF Once
    <3> QED BY <3>1, <3>3, <3>4 DEF IInv, OnceInv
  <2> QED BY <2>1, <2>2
<1>7. EntriesInv'
  BY <1>1 DEF IInv, EntriesInv
<1>8. FdInv'
  BY <1>1, <1>2, <1>3 DEF IInv, FdInv
<1> QED BY <1>3, <1>4, <1>5, <1>6, <1>7, <1>8 DEF IInv

\* The kernel completes an accept: the new fd is one that nobody has a Request for.
LEMMA AcceptIInv == IInv /\ CompleteAccept /\ UNCHANGED loopVars => IInv'
<1> SUFFICES ASSUME IInv, CompleteAccept, UNCHANGED loopVars PROVE IInv'
  OBVIOUS
<1>1. LoopTypeOK' /\ accept_pending' = accept_pending
  BY DEF IInv, LoopTypeOK, loopVars
<1>2. AcceptSqe \in inflight /\ req' = req /\ AcceptSqe.conn = None
  BY DEF CompleteAccept, AcceptSqe, Sqe
<1>3. ASSUME NEW r \in Results, Completed(AcceptSqe, r)
      PROVE  /\ UringTypeOK' /\ OnceInv' /\ EntriesInv'
             /\ \A i \in DOMAIN cq : cq[i].sqe # AcceptSqe
             /\ \A i \in DOMAIN cq' : cq'[i].sqe = AcceptSqe => cq'[i].res = r
  <2>1. req' \in [Clients -> Requests \cup {NoReq}]
    BY <1>2 DEF IInv, UringTypeOK
  <2>2. UringTypeOK' /\ OnceInv' /\ EntriesInv' /\ InCq(None) = {}
    BY <1>1, <1>2, <1>3, <2>1, CompletedOnce DEF IInv
  <2>3. \A i \in DOMAIN cq : cq[i].sqe # AcceptSqe
    BY <1>2, <2>2 DEF InCq
  <2>4. /\ \A i : i \in DOMAIN cq' <=> i \in DOMAIN cq \/ i = Len(cq) + 1
        /\ \A i \in DOMAIN cq : cq'[i] = cq[i]
        /\ cq'[Len(cq) + 1] = [sqe |-> AcceptSqe, res |-> r]
    BY <1>2, <1>3, CompleteEffect DEF IInv
  <2>5. \A i \in DOMAIN cq' : cq'[i].sqe = AcceptSqe => cq'[i].res = r
    BY <2>3, <2>4
  <2> QED BY <2>2, <2>3, <2>5
<1>4. ASSUME NEW fd \in FDs, AcceptOn(fd), Completed(AcceptSqe, fd) PROVE IInv'
  <2> DEFINE c == Head(backlog)
  <2>1. /\ SocketsInv' /\ c \in Clients
        /\ fdc' = [fdc EXCEPT ![fd] = c]
        /\ \A i \in DOMAIN backlog' :
              \E j \in DOMAIN backlog : backlog'[i] = backlog[j]
        /\ \E j \in DOMAIN backlog : c = backlog[j]
        /\ fdc[fd] = None
    BY <1>4, AcceptKeeps DEF IInv
  <2>2. fd \in Results /\ fd # Error
    BY ResultFacts
  <2>3. /\ UringTypeOK' /\ OnceInv' /\ EntriesInv'
        /\ \A i \in DOMAIN cq' : cq'[i].sqe = AcceptSqe => cq'[i].res = fd
    BY <1>3, <1>4, <2>2
  <2>4. client' = client
    BY <1>4 DEF AcceptOn
  <2>5. req[c] = NoReq
    BY <2>1 DEF IInv, FdInv
  <2>6. fdc \in [FDs -> Clients \cup {None}]
    BY DEF IInv, SocketsInv, SocketsTypeOK
  <2> HIDE DEF c
  <2>7. \A d \in Clients : req[d] # NoReq => req[d].fd # fd
    BY <2>1, SocketsAssumption DEF IInv, FdInv
  <2>8. \A d \in Clients : req[d] # NoReq => fdc'[req[d].fd] = d
    BY <2>1, <2>6, <2>7 DEF IInv, FdInv, UringTypeOK, Requests
  <2>9. FdInv'
    BY <1>2, <2>1, <2>3, <2>4, <2>5, <2>6, <2>8 DEF IInv, FdInv
  <2> QED BY <1>1, <2>1, <2>3, <2>9 DEF IInv
<1>5. ASSUME Completed(AcceptSqe, Error), UNCHANGED sockVars PROVE IInv'
  <2>1. /\ UringTypeOK' /\ OnceInv' /\ EntriesInv'
        /\ \A i \in DOMAIN cq' : cq'[i].sqe = AcceptSqe => cq'[i].res = Error
    BY <1>3, <1>5, ResultFacts
  <2>2. SocketsInv' /\ fdc' = fdc /\ backlog' = backlog /\ client' = client
    BY <1>5 DEF IInv, SocketsInv, SocketsTypeOK, OnePlace, sockVars, streamVars
  <2>3. FdInv'
    BY <1>2, <2>1, <2>2 DEF IInv, FdInv
  <2> QED BY <1>1, <2>1, <2>2, <2>3 DEF IInv
<1> QED BY <1>4, <1>5 DEF CompleteAccept

\* The kernel completes a recv or a send of connection c, whose Request stays.
LEMMA RequestCompletedIInv ==
    ASSUME IInv, UNCHANGED loopVars, NEW c \in Clients, NEW op \in {"recv", "send"},
           Sqe(op, c) \in inflight, NEW r \in Results,
           Completed(Sqe(op, c), r),
           SocketsInv', fdc' = fdc, backlog' = backlog, client' = client,
           req' = req \/ (\E x \in Requests : x.fd = req[c].fd
                                              /\ req' = [req EXCEPT ![c] = x])
    PROVE  IInv'
<1>1. LoopTypeOK' /\ accept_pending' = accept_pending
  BY DEF IInv, LoopTypeOK, loopVars
<1> DEFINE e == Sqe(op, c)
<1>2. e.conn = c /\ e # AcceptSqe /\ e \in inflight
  BY DEF Sqe, AcceptSqe
<1>3. req \in [Clients -> Requests \cup {NoReq}] /\ inflight \subseteq Entries
  BY DEF IInv, UringTypeOK
<1> HIDE DEF e
<1>4. req[c] # NoReq
  <2>1. InKernel(c) # {}
    BY <1>2 DEF InKernel
  <2>2. Requested(c)
    BY <2>1 DEF IInv, OnceInv, Idle
  <2> QED BY <2>2, SocketsAssumption DEF Requested
<1>5. /\ req' \in [Clients -> Requests \cup {NoReq}]
      /\ \A d \in Clients : /\ req'[d] # NoReq <=> req[d] # NoReq
                            /\ req[d] # NoReq => req'[d].fd = req[d].fd
  BY <1>3, <1>4, UringAssumption
<1>6. UringTypeOK' /\ OnceInv' /\ EntriesInv'
  BY <1>1, <1>2, <1>5, CompletedOnce DEF IInv, e
<1>7. /\ \A i : i \in DOMAIN cq' <=> i \in DOMAIN cq \/ i = Len(cq) + 1
      /\ \A i \in DOMAIN cq : cq'[i] = cq[i]
      /\ cq'[Len(cq) + 1] = [sqe |-> e, res |-> r]
  BY <1>2, CompleteEffect DEF IInv, e
<1>8. \A i \in DOMAIN cq' : cq'[i].sqe = AcceptSqe => i \in DOMAIN cq /\ cq'[i] = cq[i]
  BY <1>2, <1>7
<1>9. \A i \in DOMAIN backlog : backlog[i] \in Clients
  BY DEF IInv, SocketsInv, SocketsTypeOK
<1>10. FdInv'
  BY <1>5, <1>8, <1>9 DEF IInv, FdInv
<1> QED BY <1>1, <1>6, <1>10 DEF IInv

\* A recv fills the buffer, or ends.
LEMMA RecvIInv ==
    ASSUME IInv, UNCHANGED loopVars, NEW c \in Clients, CompleteRecv(c)
    PROVE  IInv'
<1>1. Sqe("recv", c) \in inflight
  BY DEF CompleteRecv
<1>2. req[c] \in Requests /\ req \in [Clients -> Requests \cup {NoReq}]
  <2>1. InKernel(c) # {}
    BY <1>1 DEF InKernel, Sqe
  <2>2. Requested(c)
    BY <2>1 DEF IInv, OnceInv, Idle
  <2> QED BY <2>2, SocketsAssumption DEF Requested, IInv, UringTypeOK
<1>3. CASE /\ ReadChunk(c)
           /\ req' = [req EXCEPT ![c].from = rcvd[c], ![c].to = ChunkEnd(c)]
           /\ Completed(Sqe("recv", c), ChunkEnd(c) - rcvd[c])
  <2>1. /\ SocketsInv' /\ backlog' = backlog /\ fdc' = fdc
        /\ ChunkEnd(c) \in 1..MaxBytes /\ ChunkEnd(c) - rcvd[c] \in 1..MaxBytes
    BY <1>3, ReadChunkKeeps DEF IInv
  <2>2. rcvd[c] \in 0..MaxBytes
    BY DEF IInv, SocketsInv, SocketsTypeOK
  <2> DEFINE x == [op |-> req[c].op, fd |-> req[c].fd, from |-> rcvd[c],
                   to |-> ChunkEnd(c)]
  <2>3. x \in Requests /\ x.fd = req[c].fd
    BY <1>2, <2>1, <2>2, SocketsAssumption DEF Requests
  <2>4. req' = [req EXCEPT ![c] = x]
    <3>1. req'[c] = x
      BY <1>2, <1>3 DEF Requests
    <3>2. req' = [req EXCEPT ![c] = req'[c]]
      BY <1>2, <1>3
    <3> QED BY <3>1, <3>2
  <2>5. ChunkEnd(c) - rcvd[c] \in Results
    BY <2>1, ResultFacts
  <2>6. client' = client
    BY <1>3 DEF ReadChunk
  <2> HIDE DEF x
  <2> QED BY <1>1, <1>3, <2>1, <2>3, <2>4, <2>5, <2>6, RequestCompletedIInv
<1>4. CASE /\ ReadEnd(c)
           /\ Completed(Sqe("recv", c), IF ReadError(c) THEN Error ELSE 0)
           /\ UNCHANGED req
  <2>1. SocketsInv' /\ backlog' = backlog /\ fdc' = fdc
    BY <1>4, ReadEndKeeps DEF IInv
  <2>2. client' = client
    BY <1>4 DEF ReadEnd
  <2>3. (IF ReadError(c) THEN Error ELSE 0) \in Results
    BY ResultFacts
  <2> QED BY <1>1, <1>4, <2>1, <2>2, <2>3, RequestCompletedIInv
<1> QED BY <1>3, <1>4 DEF CompleteRecv

\* A recv ends with EAGAIN.
LEMMA RecvAgainIInv ==
    ASSUME IInv, UNCHANGED loopVars, NEW c \in Clients, RecvAgain(c)
    PROVE  IInv'
<1>1. /\ Sqe("recv", c) \in inflight /\ Completed(Sqe("recv", c), Again)
      /\ UNCHANGED sockVars /\ req' = req
  BY DEF RecvAgain
<1>2. SocketsInv' /\ fdc' = fdc /\ backlog' = backlog /\ client' = client
  BY <1>1 DEF IInv, SocketsInv, SocketsTypeOK, OnePlace, sockVars, streamVars
<1>3. Again \in Results
  BY ResultFacts
<1> QED BY <1>1, <1>2, <1>3, RequestCompletedIInv

\* A send takes a part of the buffer, or fails.
LEMMA SendIInv ==
    ASSUME IInv, UNCHANGED loopVars, NEW c \in Clients, CompleteSend(c)
    PROVE  IInv'
<1>1. Sqe("send", c) \in inflight /\ req' = req
  BY DEF CompleteSend
<1>2. PICK res \in SendResults : Sends(c, res) /\ Completed(Sqe("send", c), res)
  BY DEF CompleteSend
<1>3. req[c] \in Requests
  <2>1. InKernel(c) # {}
    BY <1>1 DEF InKernel, Sqe
  <2>2. Requested(c)
    BY <2>1 DEF IInv, OnceInv, Idle
  <2> QED BY <2>2, SocketsAssumption DEF Requested, IInv, UringTypeOK
<1>4. res \in Results
  BY ResultFacts
<1>5. SocketsInv' /\ backlog' = backlog /\ fdc' = fdc /\ client' = client
  <2> DEFINE from == req[c].from
             to   == req[c].to
             b    == Bytes(c, from, from + res)
  <2>1. CASE /\ res > 0
             /\ res = IF to - from <= Room(c) THEN to - from ELSE Room(c)
             /\ WriteBytes(c, b)
    <3>1. from \in 0..MaxBytes /\ to \in 0..MaxBytes /\ Room(c) \in Int
      BY <1>3, SocketsAssumption
         DEF Requests, Room, IInv, SocketsInv, SocketsTypeOK
    <3>2. res <= to - from
      BY <2>1, <3>1
    <3>3. from \in Nat /\ from + res \in from..MaxBytes
      BY <2>1, <3>1, <3>2, SocketsAssumption
    <3>4. b \in Seq(Clients \X (1..MaxBytes))
      BY <3>3, BytesType
    <3>5. SocketsInv' /\ backlog' = backlog /\ fdc' = fdc
      BY <2>1, <3>4, WriteBytesKeeps DEF IInv
    <3> QED BY <2>1, <3>5 DEF WriteBytes
  <2>2. CASE WriteReset(c)
    <3>1. SocketsInv' /\ backlog' = backlog /\ fdc' = fdc
      BY <2>2, WriteResetKeeps DEF IInv
    <3> QED BY <2>2, <3>1 DEF WriteReset
  <2>3. CASE UNCHANGED sockVars
    BY <2>3 DEF IInv, SocketsInv, SocketsTypeOK, OnePlace, sockVars, streamVars
  <2> QED BY <1>2, <2>1, <2>2, <2>3 DEF Sends
<1> QED BY <1>1, <1>2, <1>4, <1>5, RequestCompletedIInv

\* Clients connect, send, read and hang up.
LEMMA EnvironmentIInv == IInv /\ Environment => IInv'
<1> SUFFICES ASSUME IInv, Environment PROVE IInv'
  OBVIOUS
<1>1. PICK c \in Clients : ClientStep(c) \/ Connect(c)
  BY DEF Environment
<1>2. UNCHANGED uringVars /\ UNCHANGED loopVars
  BY DEF Environment
<1>3. UringTypeOK' /\ LoopTypeOK' /\ EntriesInv'
  BY <1>2 DEF IInv, UringTypeOK, LoopTypeOK, EntriesInv, uringVars, loopVars
<1>4. OnceInv'
  BY <1>2 DEF IInv, OnceInv, Once, Idle, Requested, InSq, InKernel, InCq, uringVars,
              loopVars
<1>5. cq' = cq /\ req' = req
  BY <1>2 DEF uringVars
<1>6. CASE ClientStep(c)
  <2>1. /\ SocketsInv' /\ backlog' = backlog /\ fdc' = fdc
        /\ \A d \in Clients : client'[d] = "idle" => client[d] = "idle"
    BY <1>6, ClientStepKeeps DEF IInv
  <2>2. FdInv'
    BY <1>5, <2>1 DEF IInv, FdInv
  <2> QED BY <1>3, <1>4, <2>1, <2>2 DEF IInv
<1>7. CASE Connect(c)
  <2>1. SocketsInv'
    BY <1>7, ConnectKeeps DEF IInv
  <2>2. /\ client[c] = "idle" /\ client' = [client EXCEPT ![c] = "open"]
        /\ backlog' = Append(backlog, c) /\ fdc' = fdc
        /\ backlog \in Seq(Clients) /\ client \in [Clients -> ClientStates]
    BY <1>7 DEF Connect, IInv, SocketsInv, SocketsTypeOK
  <2>3. \A i \in DOMAIN backlog' : req[backlog'[i]] = NoReq
    BY <2>2 DEF IInv, FdInv
  <2>4. FdInv'
    BY <1>5, <2>2, <2>3 DEF IInv, FdInv
  <2> QED BY <1>3, <1>4, <2>1, <2>4 DEF IInv
<1> QED BY <1>1, <1>6, <1>7

-----------------------------------------------------------------------------
\* IInv is an invariant of the server.
THEOREM UringInvariant == Spec => []IInv
<1>1. IInv /\ [Next]_vars => IInv'
  <2> SUFFICES ASSUME IInv, [Next]_vars PROVE IInv'
    OBVIOUS
  <2>1. CASE LoopStep
    BY <2>1, WaitIInv, HandleAcceptIInv, HandleRequestIInv, Phase2IInv DEF LoopStep
  <2>2. CASE Shutdown
    <3>1. SocketsInv' /\ UringTypeOK' /\ OnceInv' /\ EntriesInv' /\ FdInv'
      BY <2>2, SameIInv DEF Shutdown
    <3>2. LoopTypeOK'
      BY <2>2 DEF IInv, LoopTypeOK, Shutdown
    <3> QED BY <3>1, <3>2 DEF IInv
  <2>3. CASE Kernel
    BY <2>3, AcceptIInv, RecvIInv, RecvAgainIInv, SendIInv DEF Kernel, Complete
  <2>4. CASE Environment
    BY <2>4, EnvironmentIInv
  <2>5. CASE UNCHANGED vars
    <3>1. SocketsInv' /\ UringTypeOK' /\ OnceInv' /\ EntriesInv' /\ FdInv'
      BY <2>5, SameIInv DEF vars, loopVars
    <3>2. LoopTypeOK'
      BY <2>5 DEF IInv, LoopTypeOK, vars, loopVars
    <3> QED BY <3>1, <3>2 DEF IInv
  <2> QED BY <2>1, <2>2, <2>3, <2>4, <2>5 DEF Next
<1> QED BY InitIInv, <1>1, PTL DEF Spec

\* None or one operation, counted.
LEMMA Counted ==
    ASSUME NEW c
    PROVE  (Idle(c) => Outstanding(c) = 0) /\ (Once(c) => Outstanding(c) = 1)
<1>1. \A x : Cardinality({x}) = 1
  BY FS_Singleton
<1>2. Cardinality({}) = 0
  BY FS_EmptySet
<1>3. Idle(c) => Outstanding(c) = 0
  BY <1>2 DEF Idle, Outstanding
<1>4. ASSUME Once(c) PROVE Outstanding(c) = 1
  <2>1. CASE (\E i : InSq(c) = {i}) /\ InKernel(c) = {} /\ InCq(c) = {}
    <3>1. Cardinality(InSq(c)) = 1
      BY <1>1, <2>1
    <3> QED BY <1>2, <2>1, <3>1 DEF Outstanding
  <2>2. CASE InSq(c) = {} /\ (\E s : InKernel(c) = {s}) /\ InCq(c) = {}
    <3>1. Cardinality(InKernel(c)) = 1
      BY <1>1, <2>2
    <3> QED BY <1>2, <2>2, <3>1 DEF Outstanding
  <2>3. CASE InSq(c) = {} /\ InKernel(c) = {} /\ (\E i : InCq(c) = {i})
    <3>1. Cardinality(InCq(c)) = 1
      BY <1>1, <2>3
    <3> QED BY <1>2, <2>3, <3>1 DEF Outstanding
  <2> QED BY <1>4, <2>1, <2>2, <2>3 DEF Once
<1> QED BY <1>3, <1>4

\* Every variable keeps its shape: the submission queue never holds more than SqDepth
\* entries, and a completion's Request is always there to be used.
THEOREM UringServerTypeOK == Spec => []TypeOK
<1>1. IInv => TypeOK
  BY DEF IInv, SocketsInv, LoopTypeOK, TypeOK
<1> QED BY UringInvariant, <1>1, PTL

\* One accept is under way exactly when accept_pending_ says so.
THEOREM UringOneAccept == Spec => []OneAccept
<1>1. IInv => OneAccept
  BY Counted, SocketsAssumption DEF IInv, OnceInv, Requested, OneAccept
<1> QED BY UringInvariant, <1>1, PTL

\* A connection has one operation exactly while it has a Request, on the fd it was
\* accepted on: no operation uses a deleted Request, a closed fd or a reused one.
THEOREM UringRequestOwnsFd == Spec => []RequestOwnsFd
<1>1. IInv => RequestOwnsFd
  BY Counted, SocketsAssumption DEF IInv, OnceInv, Requested, FdInv, RequestOwnsFd
<1> QED BY UringInvariant, <1>1, PTL

-----------------------------------------------------------------------------
(* Whom the server forgets.                                                *)

\* What was accepted is found among the completions until it is handled.
LEMMA AcceptsKept ==
    ASSUME NEW f, f \in Accepts,
           \A i \in DOMAIN cq : cq[i].sqe = AcceptSqe /\ cq[i].res = f =>
              \E j \in DOMAIN cq' : cq'[j] = cq[i]
    PROVE  f \in Accepts'
<1>1. PICK i \in DOMAIN cq : cq[i].sqe = AcceptSqe /\ cq[i].res = f
  BY DEF Accepts
<1>2. PICK j \in DOMAIN cq' : cq'[j] = cq[i]
  BY <1>1
<1>3. cq'[j].sqe = AcceptSqe /\ cq'[j].res = f
  BY <1>1, <1>2
<1> QED BY <1>3 DEF Accepts

\* The completions that wait behind the one that is handled stay.
LEMMA ReapedBehind ==
    ASSUME UringTypeOK, cq # <<>>, cq' = Tail(cq), NEW i \in DOMAIN cq, i # 1
    PROVE  \E j \in DOMAIN cq' : cq'[j] = cq[i]
<1>1. cq \in Seq([sqe : Entries, res : Results])
  BY DEF UringTypeOK
<1>2. i \in Nat /\ i - 1 \in DOMAIN cq' /\ i - 1 + 1 = i
  BY <1>1
<1>3. cq'[i - 1] = cq[i - 1 + 1]
  BY <1>1, <1>2
<1> QED BY <1>2, <1>3

\* A connection that keeps its Request, its fd and its accept is not newly forgotten.
LEMMA ForgottenBefore ==
    ASSUME NEW c \in Clients, c \in Forgotten',
           req[c] # NoReq => req'[c] # NoReq,
           \A f \in FDs \ Accepts' : fdc'[f] = c => fdc[f] = c /\ f \notin Accepts
    PROVE  c \in Forgotten
BY DEF Forgotten

\* The kernel and the clients forget nobody.
LEMMA OthersForgetNobody ==
    ASSUME IInv, Kernel \/ Environment, NEW c \in Clients, c \in Forgotten'
    PROVE  c \in Forgotten
<1>1. CASE Environment
  <2>1. cq' = cq /\ req' = req /\ fdc' = fdc
    BY <1>1 DEF Environment, uringVars, ClientStep, SendByte, ReadEcho, HangUp, Abort,
                Connect
  <2> QED BY <2>1 DEF Forgotten, Accepts
<1>2. ASSUME NEW e \in inflight, NEW r \in Results, Completed(e, r),
             req[c] # NoReq => req'[c] # NoReq,
             \/ fdc' = fdc
             \/ e = AcceptSqe /\ \E d : fdc' = [fdc EXCEPT ![r] = d]
      PROVE  c \in Forgotten
  <2>1. /\ \A i : i \in DOMAIN cq' <=> i \in DOMAIN cq \/ i = Len(cq) + 1
        /\ \A i \in DOMAIN cq : cq'[i] = cq[i]
        /\ cq'[Len(cq) + 1] = [sqe |-> e, res |-> r]
    BY <1>2, CompleteEffect DEF IInv
  <2>2. \A f \in Accepts : f \in Accepts'
    BY <2>1, AcceptsKept
  <2>3. e = AcceptSqe => r \in Accepts'
    BY <2>1 DEF Accepts
  <2>4. fdc \in [FDs -> Clients \cup {None}]
    BY DEF IInv, SocketsInv, SocketsTypeOK
  <2>5. \A f \in FDs \ Accepts' : fdc'[f] = fdc[f]
    BY <1>2, <2>3, <2>4
  <2> QED BY <1>2, <2>2, <2>5, ForgottenBefore
<1>3. CASE CompleteAccept
  <2>1. AcceptSqe \in inflight /\ req' = req
    BY <1>3 DEF CompleteAccept
  <2>2. \/ \E fd \in FDs : AcceptOn(fd) /\ Completed(AcceptSqe, fd)
        \/ Completed(AcceptSqe, Error) /\ fdc' = fdc
    BY <1>3 DEF CompleteAccept, sockVars
  <2>3. ASSUME NEW fd \in FDs, AcceptOn(fd), Completed(AcceptSqe, fd)
        PROVE  c \in Forgotten
    <3>1. \E d : fdc' = [fdc EXCEPT ![fd] = d]
      BY <2>3 DEF AcceptOn
    <3> QED BY <1>2, <2>1, <2>3, <3>1, ResultFacts
  <2> QED BY <1>2, <2>1, <2>2, <2>3, ResultFacts
<1>4. ASSUME NEW d \in Clients, CompleteRecv(d), UNCHANGED loopVars
      PROVE  c \in Forgotten
  <2>1. Sqe("recv", d) \in inflight /\ fdc' = fdc
    BY <1>4 DEF CompleteRecv, ReadChunk, ReadEnd
  <2>2. PICK r \in Results : Completed(Sqe("recv", d), r)
    BY <1>4, ReadChunkKeeps, ResultFacts DEF CompleteRecv, IInv
  <2>3. req'[d] # NoReq
    <3>1. d \in Clients /\ Len(cq) + 1 \in InCq(d)'
      BY <2>1, <2>2, CompleteEffect DEF IInv, InCq, Sqe
    <3>2. OnceInv'
      BY <1>4, RecvIInv DEF IInv
    <3> QED BY <3>1, <3>2, SocketsAssumption DEF OnceInv, Idle, Requested
  <2>4. \A b \in Clients \ {d} : req'[b] = req[b]
    BY <1>4 DEF CompleteRecv, IInv, UringTypeOK
  <2> QED BY <1>2, <2>1, <2>2, <2>3, <2>4
<1>5. ASSUME NEW d \in Clients, RecvAgain(d)
      PROVE  c \in Forgotten
  BY <1>2, <1>5, ResultFacts DEF RecvAgain, sockVars
<1>6. ASSUME NEW d \in Clients, CompleteSend(d)
      PROVE  c \in Forgotten
  <2>1. Sqe("send", d) \in inflight /\ req' = req
    BY <1>6 DEF CompleteSend
  <2>2. PICK r \in SendResults : Sends(d, r) /\ Completed(Sqe("send", d), r)
    BY <1>6 DEF CompleteSend
  <2>3. fdc' = fdc
    BY <2>2 DEF Sends, WriteBytes, WriteReset, sockVars
  <2> QED BY <1>2, <2>1, <2>2, <2>3, ResultFacts
<1> QED BY <1>1, <1>3, <1>4, <1>5, <1>6 DEF Kernel, Complete

\* A handler that prepares the next operation of d, and finds room for it.
LEMMA NextOpForgetsNobody ==
    ASSUME IInv, cq # <<>>, cq' = Tail(cq), fdc' = fdc, SqHasRoom,
           NEW d \in Clients, NEW r \in Requests, Prepare(d, r),
           Head(cq).sqe = AcceptSqe => d = fdc[Head(cq).res],
           NEW c \in Clients, c \in Forgotten'
    PROVE  c \in Forgotten
<1>1. req \in [Clients -> Requests \cup {NoReq}] /\ cq \in Seq([sqe : Entries, res : Results])
  BY DEF IInv, UringTypeOK
<1>2. req' = [req EXCEPT ![d] = r]
  BY DEF Prepare
<1>3. c # d
  BY <1>1, <1>2, UringAssumption DEF Forgotten
<1>4. \A i \in DOMAIN cq : i = 1 \/ \E j \in DOMAIN cq' : cq'[j] = cq[i]
  BY ReapedBehind DEF IInv
<1>5. ASSUME NEW f \in FDs \ Accepts', fdc[f] = c
      PROVE  f \notin Accepts
  <2>1. Head(cq) = cq[1]
    BY <1>1
  <2>2. ~(cq[1].sqe = AcceptSqe /\ cq[1].res = f)
    BY <1>3, <1>5, <2>1
  <2> QED BY <1>4, <1>5, <2>2, AcceptsKept
<1> QED BY <1>1, <1>2, <1>3, <1>5, ForgottenBefore

\* handle_accept() forgets a connection only when the submission queue is full.
LEMMA HandleAcceptForgets ==
    ASSUME IInv, HandleAccept, NEW c \in Clients, c \in Forgotten', c \notin Forgotten
    PROVE  cq # <<>> /\ ~SqHasRoom
<1> PICK fd : fd = Head(cq).res
  OBVIOUS
<1>1. /\ Reaping("accept") /\ fdc' = fdc
      /\ IF fd = Error THEN UNCHANGED <<sq, req>> ELSE Prepare(fdc[fd], NewRequest(fd))
  BY DEF HandleAccept, sockVars
<1>2. cq # <<>> /\ cq' = Tail(cq) /\ cq[1].sqe = AcceptSqe
  BY <1>1, ReapedOp
<1>3. Head(cq) = cq[1] /\ 1 \in DOMAIN cq
  BY <1>2, ReapEffect DEF IInv
<1>4. CASE fd = Error
  <2>1. req' = req
    BY <1>1, <1>4
  <2>2. ASSUME NEW f \in FDs \ Accepts' PROVE f \notin Accepts
    <3>1. ~(cq[1].res = f)
      BY <1>3, <1>4, <2>2, ResultFacts
    <3> QED BY <1>2, <2>2, <3>1, ReapedBehind, AcceptsKept DEF IInv
  <2> QED BY <1>1, <2>1, <2>2, ForgottenBefore
<1>5. CASE fd # Error
  <2> PICK d, r : d = fdc[fd] /\ r = NewRequest(fd)
    OBVIOUS
  <2>1. fd \in FDs /\ d \in Clients
    BY <1>2, <1>3, <1>5 DEF IInv, FdInv
  <2>2. r \in Requests /\ Prepare(d, r)
    BY <1>1, <1>5, <2>1, SocketsAssumption DEF NewRequest, Requests
  <2> QED BY <1>1, <1>2, <2>1, <2>2, NextOpForgetsNobody
<1> QED BY <1>4, <1>5

\* handle_recv() and handle_send() forget a connection when the submission queue is
\* full, and handle_recv() after EAGAIN; a connection they close is not forgotten.
LEMMA HandleRequestForgets ==
    ASSUME IInv, HandleRecv \/ HandleSend,
           NEW c \in Clients, c \in Forgotten', c \notin Forgotten
    PROVE  cq # <<>> /\ (~SqHasRoom \/ Head(cq).res = Again)
<1> PICK h : h = Head(cq).sqe.conn
  OBVIOUS
<1>1. /\ Reaping("recv") \/ Reaping("send")
      /\ \/ /\ \E op \in {"recv", "send"} : Prepare(h, [req[h] EXCEPT !.op = op])
            /\ fdc' = fdc
         \/ CloseFd(req[h].fd) /\ req' = [req EXCEPT ![h] = NoReq]
         \/ Head(cq).res = Again
  BY DEF HandleRecv, HandleSend, DeleteRequest, sockVars
<1>2. /\ cq # <<>> /\ cq' = Tail(cq)
      /\ h \in Clients /\ req[h] \in Requests
  BY <1>1, ReapedOp
<1>3. Head(cq).sqe # AcceptSqe
  BY <1>2, SocketsAssumption DEF AcceptSqe, Sqe
<1>4. ASSUME NEW op \in {"recv", "send"}, Prepare(h, [req[h] EXCEPT !.op = op]),
             fdc' = fdc, SqHasRoom
      PROVE  FALSE
  <2> PICK r : r = [req[h] EXCEPT !.op = op]
    OBVIOUS
  <2>1. r \in Requests /\ Prepare(h, r)
    BY <1>2, <1>4 DEF Requests
  <2> QED BY <1>2, <1>3, <1>4, <2>1, NextOpForgetsNobody
<1>5. ASSUME CloseFd(req[h].fd), req' = [req EXCEPT ![h] = NoReq]
      PROVE  FALSE
  <2> PICK fd : fd = req[h].fd
    OBVIOUS
  <2>1. fd \in FDs /\ fdc[fd] = h /\ fdc \in [FDs -> Clients \cup {None}]
    BY <1>2, UringAssumption DEF Requests, IInv, FdInv, SocketsInv, SocketsTypeOK
  <2>2. fdc' = [fdc EXCEPT ![fd] = None]
    BY <1>5 DEF CloseFd
  <2>3. \A f \in FDs : fdc'[f] # h
    BY <1>2, <2>1, <2>2, SocketsAssumption DEF IInv, SocketsInv, OnePlace
  <2>4. c # h /\ req'[c] = req[c]
    BY <1>2, <1>5, <2>3 DEF Forgotten, IInv, UringTypeOK
  <2>5. \A f \in FDs : fdc'[f] = c => fdc[f] = c
    BY <2>1, <2>2, SocketsAssumption
  <2>6. Head(cq) = cq[1]
    BY <1>2, ReapEffect DEF IInv
  <2>7. \A f \in FDs \ Accepts' : f \notin Accepts
    BY <1>2, <1>3, <2>6, ReapedBehind, AcceptsKept DEF IInv
  <2> QED BY <2>4, <2>5, <2>7, ForgottenBefore
<1> QED BY <1>1, <1>2, <1>4, <1>5

\* Nothing but a full submission queue or EAGAIN makes the server forget a connection
\* it accepted: every other path of its handlers goes on with it or closes it.
THEOREM UringForgottenOnlyThen == Spec => ForgottenOnlyThen
<1> DEFINE Step == \A c \in Clients : c \notin Forgotten /\ c \in Forgotten' =>
                      cq # <<>> /\ (~SqHasRoom \/ Head(cq).res = Again)
<1>1. ASSUME IInv, Next, NEW c \in Clients, c \notin Forgotten, c \in Forgotten'
      PROVE  cq # <<>> /\ (~SqHasRoom \/ Head(cq).res = Again)
  <2>1. CASE Wait \/ Phase2 \/ Shutdown
    <3>1. cq' = cq /\ req' = req /\ fdc' = fdc
      BY <2>1 DEF Wait, Phase2, Shutdown, uringVars, sockVars
    <3> QED BY <1>1, <3>1 DEF Forgotten, Accepts
  <2>2. CASE HandleAccept
    BY <1>1, <2>2, HandleAcceptForgets
  <2>3. CASE HandleRecv \/ HandleSend
    BY <1>1, <2>3, HandleRequestForgets
  <2>4. CASE Kernel \/ Environment
    BY <1>1, <2>4, OthersForgetNobody
  <2> QED BY <1>1, <2>1, <2>2, <2>3, <2>4 DEF Next, LoopStep
<1>2. IInv /\ [Next]_vars => [Step]_vars
  BY <1>1
<1> QED BY UringInvariant, <1>2, PTL DEF Spec, ForgottenOnlyThen

-----------------------------------------------------------------------------
(* The server is an echo service, if what a client may send fits into what *)
(* the kernel holds for it: handle_send() is not given the result of the   *)
(* send, so a short one would be taken for a whole one.                    *)

\* All that was read from c has been sent; the buffer of its Request holds what
\* has not.  A connection that does not work is not served.
CaughtUp(c) == sock[c] = "ok" => Len(echo[c]) = rcvd[c]
Unsent(c)   == sock[c] = "ok" => req[c].from = Len(echo[c]) /\ req[c].to = rcvd[c]

\* An operation of c that is prepared or in the kernel, and one that has completed:
\* a recv comes after everything was sent, a send has all that was read.
Ready(c, op) ==
    op = req[c].op /\ IF op = "recv" THEN CaughtUp(c) ELSE Unsent(c)
Done(c, op, res) ==
    /\ op = req[c].op
    /\ IF op = "recv" /\ res > 0 THEN Unsent(c) ELSE CaughtUp(c)
    /\ op = "recv" /\ res \in {0, Error} => Finished(c)

Account(c) ==
    /\ \A i \in InSq(c) : Ready(c, sq[i].op)
    /\ \A s \in InKernel(c) : Ready(c, s.op)
    /\ \A i \in InCq(c) : Done(c, cq[i].sqe.op, cq[i].res)

AccountInv == \A c \in Clients : Account(c)

\* Nothing is read from a connection before it has a Request.
FreshInv ==
    /\ \A i \in DOMAIN backlog : rcvd[backlog[i]] = 0
    /\ \A i \in DOMAIN cq : cq[i].sqe = AcceptSqe /\ cq[i].res # Error =>
          rcvd[fdc[cq[i].res]] = 0

UnreadInv == \A c \in Clients : unread[c] <= Len(echo[c])

EchoesInv == StreamInv /\ AccountInv /\ FreshInv /\ UnreadInv

\* Initially there is only the accept.
LEMMA InitEchoesInv == Init => EchoesInv
<1> SUFFICES ASSUME Init PROVE EchoesInv
  OBVIOUS
<1>1. StreamInv
  BY InitStreams DEF Init
<1>2. AccountInv /\ FreshInv
  BY SocketsAssumption
     DEF Init, UringInit, SocketsInit, AccountInv, Account, InSq, InKernel, InCq,
         FreshInv, AcceptSqe, Sqe
<1>3. UnreadInv
  BY DEF Init, SocketsInit, UnreadInv
<1> QED BY <1>1, <1>2, <1>3 DEF EchoesInv

\* Every operation is of the accept or of a connection that has a Request.
LEMMA EntriesRequested ==
    ASSUME IInv
    PROVE  /\ \A i \in DOMAIN sq : /\ sq[i].conn \in Clients \cup {None}
                                   /\ Requested(sq[i].conn)
           /\ \A s \in inflight : /\ s.conn \in Clients \cup {None}
                                  /\ Requested(s.conn)
                                  /\ InSq(s.conn) = {} /\ InCq(s.conn) = {}
                                  /\ InKernel(s.conn) = {s}
           /\ \A i \in DOMAIN cq : /\ cq[i].sqe.conn \in Clients \cup {None}
                                   /\ Requested(cq[i].sqe.conn)
<1>1. /\ \A i \in DOMAIN sq : sq[i] \in Entries
      /\ \A s \in inflight : s \in Entries
      /\ \A i \in DOMAIN cq : cq[i].sqe \in Entries
  <2>1. /\ sq \in Seq(Entries) /\ inflight \subseteq Entries
        /\ cq \in Seq([sqe : Entries, res : Results])
    BY DEF IInv, UringTypeOK
  <2>2. \A S : \A q \in Seq(S) : \A i \in DOMAIN q : q[i] \in S
    OBVIOUS
  <2>3. \A i \in DOMAIN cq : cq[i] \in [sqe : Entries, res : Results]
    BY <2>1, <2>2, Zenon
  <2> QED BY <2>1, <2>3
<1>2. \A e \in Entries : e.conn \in Clients \cup {None}
  BY DEF Entries
<1>3. \A i \in DOMAIN sq : i \in InSq(sq[i].conn)
  BY DEF InSq
<1>4. \A s \in inflight : s \in InKernel(s.conn)
  BY DEF InKernel
<1>5. \A i \in DOMAIN cq : i \in InCq(cq[i].sqe.conn)
  BY DEF InCq
<1>6. ASSUME NEW i \in DOMAIN sq
      PROVE  sq[i].conn \in Clients \cup {None} /\ Requested(sq[i].conn)
  BY <1>1, <1>2, <1>3 DEF IInv, OnceInv, Idle
<1>7. ASSUME NEW s \in inflight
      PROVE  /\ s.conn \in Clients \cup {None}
             /\ Requested(s.conn)
             /\ InSq(s.conn) = {} /\ InCq(s.conn) = {}
             /\ InKernel(s.conn) = {s}
  BY <1>1, <1>2, <1>4 DEF IInv, OnceInv, Once, Idle
<1>8. ASSUME NEW i \in DOMAIN cq
      PROVE  cq[i].sqe.conn \in Clients \cup {None} /\ Requested(cq[i].sqe.conn)
  BY <1>1, <1>2, <1>5 DEF IInv, OnceInv, Idle
<1> QED BY <1>6, <1>7, <1>8

\* A step about h, a connection or the accept, that the others do not notice.
LEMMA AccountKeeps ==
    ASSUME IInv, AccountInv, NEW h \in Clients \cup {None},
           \A i \in DOMAIN sq' : \/ sq'[i].conn \in {h, None}
                                 \/ \E j \in DOMAIN sq : sq'[i] = sq[j],
           \A s \in inflight' : \/ s.conn \in {h, None} \/ s \in inflight
                                \/ \E j \in DOMAIN sq : s = sq[j],
           \A i \in DOMAIN cq' : \/ cq'[i].sqe.conn \in {h, None}
                                 \/ \E j \in DOMAIN cq : cq'[i] = cq[j],
           \A c \in Clients \ {h} : req[c] # NoReq =>
              /\ req'[c] = req[c] /\ rcvd'[c] = rcvd[c] /\ echo'[c] = echo[c]
              /\ sock'[c] = "ok" => sock[c] = "ok"
              /\ Finished(c) => Finished(c)',
           h # None => Account(h)'
    PROVE  AccountInv'
<1>1. SUFFICES ASSUME NEW c \in Clients \ {h}
               PROVE  Account(c)'
  BY SocketsAssumption DEF AccountInv
<1>2. c # None /\ Account(c)
  BY SocketsAssumption DEF AccountInv
<1>3. ASSUME Requested(c)
      PROVE  /\ \A op : Ready(c, op) => Ready(c, op)'
             /\ \A op, res : Done(c, op, res) => Done(c, op, res)'
  <2>1. req[c] # NoReq
    BY <1>2, <1>3 DEF Requested
  <2>2. CaughtUp(c) => CaughtUp(c)'
    BY <2>1 DEF CaughtUp
  <2>3. Unsent(c) => Unsent(c)'
    BY <2>1 DEF Unsent
  <2> QED BY <2>1, <2>2, <2>3 DEF Ready, Done
<1>4. ASSUME NEW i \in InSq(c)' PROVE Ready(c, sq[i].op)'
  <2>1. i \in DOMAIN sq' /\ sq'[i].conn = c
    BY DEF InSq
  <2>2. PICK j \in DOMAIN sq : sq'[i] = sq[j]
    BY <1>2, <2>1
  <2>3. j \in InSq(c) /\ Requested(c)
    BY <2>1, <2>2, EntriesRequested DEF InSq
  <2>4. Ready(c, sq[j].op)
    BY <1>2, <2>3 DEF Account
  <2>5. PICK op : op = sq[j].op
    OBVIOUS
  <2>6. Ready(c, op)'
    BY <1>3, <2>3, <2>4, <2>5
  <2> QED BY <2>2, <2>5, <2>6 DEF Ready
<1>5. ASSUME NEW s \in InKernel(c)' PROVE Ready(c, s.op)'
  <2>1. s \in inflight' /\ s.conn = c
    BY DEF InKernel
  <2>2. Requested(c) /\ Ready(c, s.op)
    <3>1. CASE s \in inflight
      BY <1>2, <2>1, <3>1, EntriesRequested DEF Account, InKernel
    <3>2. CASE \E j \in DOMAIN sq : s = sq[j]
      BY <1>2, <2>1, <3>2, EntriesRequested DEF Account, InSq
    <3> QED BY <1>2, <2>1, <3>1, <3>2
  <2> QED BY <1>3, <2>2
<1>6. ASSUME NEW i \in InCq(c)' PROVE Done(c, cq[i].sqe.op, cq[i].res)'
  <2>1. i \in DOMAIN cq' /\ cq'[i].sqe.conn = c
    BY DEF InCq
  <2>2. PICK j \in DOMAIN cq : cq'[i] = cq[j]
    BY <1>2, <2>1
  <2>3. j \in InCq(c) /\ Requested(c)
    BY <2>1, <2>2, EntriesRequested DEF InCq
  <2>4. Done(c, cq[j].sqe.op, cq[j].res)
    BY <1>2, <2>3 DEF Account
  <2>5. PICK op, res : op = cq[j].sqe.op /\ res = cq[j].res
    OBVIOUS
  <2>6. Done(c, op, res)'
    BY <1>3, <2>3, <2>4, <2>5
  <2> QED BY <2>2, <2>5, <2>6 DEF Done
<1> QED BY <1>4, <1>5, <1>6 DEF Account

\* What a step that leaves the sockets alone keeps.
LEMMA SameSockets ==
    ASSUME EchoesInv, UNCHANGED sockVars
    PROVE  /\ StreamInv' /\ UnreadInv' /\ Serves /\ FinishedStays /\ WorkedBefore
           /\ UNCHANGED <<client, sent, rcvd, echo, unread, sock, backlog, fdc>>
<1>1. UNCHANGED <<client, sent, rcvd, echo, unread, sock, backlog, fdc>>
  BY DEF sockVars, streamVars
<1> QED BY <1>1, SameStreams DEF EchoesInv, UnreadInv

\* Waiting, phase 2 and shutdown().
LEMMA QuietStepServes ==
    ASSUME IInv, EchoesInv, Wait \/ Shutdown \/ Phase2 \/ UNCHANGED vars
    PROVE  EchoesInv' /\ Serves
<1>1. UNCHANGED sockVars /\ req' = req /\ cq' = cq
  BY DEF Wait, Shutdown, Phase2, vars, uringVars
<1>2. /\ StreamInv' /\ UnreadInv' /\ Serves /\ FinishedStays /\ WorkedBefore
      /\ UNCHANGED <<client, sent, rcvd, echo, unread, sock, backlog, fdc>>
  BY <1>1, SameSockets
<1>3. AcceptSqe.conn = None
  BY DEF AcceptSqe, Sqe
<1>4. /\ \A i \in DOMAIN sq' : \E j \in DOMAIN sq : sq'[i] = sq[j]
      /\ \A s \in inflight' : \/ s.conn = None \/ s \in inflight
                              \/ \E j \in DOMAIN sq : s = sq[j]
  <2>1. CASE Phase2
    BY <1>3, <2>1, SubmitEffect DEF IInv
  <2>2. CASE sq' = sq /\ inflight' = inflight
    BY <2>2
  <2> QED BY <2>1, <2>2 DEF Wait, Shutdown, vars, uringVars
<1>5. AccountInv'
  BY <1>1, <1>2, <1>4, AccountKeeps DEF EchoesInv, FinishedStays
<1>6. FreshInv'
  BY <1>1, <1>2 DEF EchoesInv, FreshInv
<1> QED BY <1>2, <1>5, <1>6 DEF EchoesInv

\* Clients move.
LEMMA ClientsServe ==
    ASSUME IInv, EchoesInv, Environment
    PROVE  EchoesInv' /\ Serves
<1>1. SocketsInv /\ StreamInv
  BY DEF IInv, EchoesInv
<1>2. PICK c \in Clients : ClientStep(c) \/ Connect(c)
  BY DEF Environment
<1>3. UNCHANGED <<sq, inflight, cq, req>>
  BY DEF Environment, uringVars
<1>4. StreamInv' /\ Serves /\ FinishedStays /\ WorkedBefore
  BY <1>1, <1>2, ClientStreams
<1>5. /\ UNCHANGED <<rcvd, echo, fdc>>
      /\ \/ backlog' = backlog
         \/ backlog' = Append(backlog, c) /\ client[c] = "idle"
      /\ unread' = unread \/ unread' = [unread EXCEPT ![c] = 0]
  BY <1>2 DEF ClientStep, SendByte, ReadEcho, HangUp, Abort, Connect, streamVars
<1>6. AccountInv'
  <2>1. \A d \in Clients : req[d] # NoReq => (sock'[d] = "ok" => sock[d] = "ok")
    BY <1>4 DEF WorkedBefore, IInv, FdInv
  <2> QED BY <1>3, <1>4, <1>5, <2>1, AccountKeeps DEF EchoesInv, FinishedStays
<1>7. FreshInv'
  <2>1. \A i \in DOMAIN backlog' : \/ i \in DOMAIN backlog /\ backlog'[i] = backlog[i]
                                   \/ backlog'[i] = c /\ client[c] = "idle"
    <3>1. backlog \in Seq(Clients)
      BY <1>1, SocketTypes
    <3>2. CASE backlog' = Append(backlog, c) /\ client[c] = "idle"
      BY <3>1, <3>2
    <3> QED BY <1>5, <3>2
  <2>2. client[c] = "idle" => rcvd[c] = 0
    BY <1>1, SocketTypes DEF StreamInv, SockInv
  <2> QED BY <1>3, <1>5, <2>1, <2>2 DEF EchoesInv, FreshInv
<1>8. UnreadInv'
  <2>1. unread \in [Clients -> 0..SndBuf] /\ \A d \in Clients : Len(echo[d]) \in Nat
    BY <1>1, SocketTypes DEF SocketsInv, SocketsTypeOK
  <2>2. \A d \in Clients : unread'[d] = unread[d] \/ unread'[d] = 0
    BY <1>5, <2>1
  <2>3. \A d \in Clients : Len(echo[d]) >= 0
    BY <2>1
  <2> QED BY <1>5, <2>2, <2>3 DEF EchoesInv, UnreadInv
<1> QED BY <1>4, <1>6, <1>7, <1>8 DEF EchoesInv

\* The completions that wait behind the one that is handled.
LEMMA ReapedTail ==
    ASSUME UringTypeOK, cq # <<>>, cq' = Tail(cq)
    PROVE  \A i \in DOMAIN cq' : i + 1 \in DOMAIN cq /\ cq'[i] = cq[i + 1]
BY ReapEffect

\* What a handler leaves of the entries: the other connections' and its own next.
LEMMA HandlerEntries ==
    ASSUME IInv, cq # <<>>, cq' = Tail(cq), inflight' = inflight,
           NEW h \in Clients, NEW r \in Requests,
           InSq(h) = {}, InKernel(h) = {}, InCq(h)' = {},
           Prepare(h, r)
    PROVE  /\ \A i \in DOMAIN sq' : \/ sq'[i].conn = h /\ sq'[i].op = r.op
                                       /\ req' = [req EXCEPT ![h] = r]
                                    \/ \E j \in DOMAIN sq : sq'[i] = sq[j]
           /\ \A c \in Clients \ {h} : req'[c] = req[c]
           /\ InKernel(h)' = {} /\ InCq(h)' = {}
           /\ \A i \in InSq(h)' : sq'[i].op = r.op /\ req' = [req EXCEPT ![h] = r]
<1>1. UringTypeOK /\ sq \in Seq(Entries) /\ req \in [Clients -> Requests \cup {NoReq}]
  BY DEF IInv, UringTypeOK
<1>2. \A c \in Clients \ {h} : req'[c] = req[c]
  BY <1>1 DEF Prepare
<1>3. InKernel(h)' = {}
  BY DEF InKernel
<1>4. CASE SqHasRoom
  <2> DEFINE e == Sqe(r.op, h)
  <2>1. e \in Entries /\ e.conn = h /\ e.op = r.op
    BY DEF Sqe, Entries, Requests
  <2>2. sq' = Append(sq, e) /\ req' = [req EXCEPT ![h] = r]
    BY <1>4 DEF Prepare
  <2> HIDE DEF e
  <2>3. /\ \A i : i \in DOMAIN sq' <=> i \in DOMAIN sq \/ i = Len(sq) + 1
        /\ \A i \in DOMAIN sq : sq'[i] = sq[i]
        /\ sq'[Len(sq) + 1] = e
        /\ InSq(h)' = {Len(sq) + 1}
    BY <1>1, <2>1, <2>2, PrepareEffect
  <2> QED BY <1>2, <1>3, <2>1, <2>2, <2>3
<1>5. CASE ~SqHasRoom
  <2>1. sq' = sq /\ InSq(h)' = {}
    BY <1>5 DEF Prepare, InSq
  <2> QED BY <1>2, <1>3, <2>1
<1> QED BY <1>4, <1>5

\* handle_accept(): the recv of a connection from which nothing has been read.
LEMMA HandleAcceptServes ==
    ASSUME IInv, EchoesInv, HandleAccept
    PROVE  EchoesInv' /\ Serves
<1> PICK fd, d : fd = Head(cq).res /\ d = fdc[fd]
  OBVIOUS
<1>1. /\ Reaping("accept") /\ UNCHANGED sockVars
      /\ IF fd = Error THEN UNCHANGED <<sq, req>> ELSE Prepare(d, NewRequest(fd))
  BY DEF HandleAccept
<1>2. /\ cq # <<>> /\ cq' = Tail(cq) /\ inflight' = inflight
      /\ Head(cq).sqe.conn = None /\ cq[1].sqe = AcceptSqe
  BY <1>1, ReapedOp
<1>3. /\ StreamInv' /\ UnreadInv' /\ Serves /\ FinishedStays /\ WorkedBefore
      /\ UNCHANGED <<client, sent, rcvd, echo, unread, sock, backlog, fdc>>
  BY <1>1, SameSockets
<1>4. \A i \in DOMAIN cq' : i + 1 \in DOMAIN cq /\ cq'[i] = cq[i + 1]
  BY <1>2, ReapedTail DEF IInv
<1>5. FreshInv'
  BY <1>3, <1>4 DEF EchoesInv, FreshInv
<1>6. CASE fd = Error
  <2>1. AccountInv'
    BY <1>1, <1>2, <1>3, <1>4, <1>6, AccountKeeps DEF EchoesInv, FinishedStays
  <2> QED BY <1>3, <1>5, <2>1 DEF EchoesInv
<1>7. CASE fd # Error
  <2>1. Head(cq) = cq[1] /\ 1 \in DOMAIN cq
    BY <1>2, ReapEffect DEF IInv
  <2>2. fd \in FDs /\ d \in Clients /\ req[d] = NoReq /\ rcvd[d] = 0
    BY <1>2, <1>7, <2>1 DEF IInv, FdInv, EchoesInv, FreshInv
  <2> PICK r : r = NewRequest(fd)
    OBVIOUS
  <2>3. r \in Requests /\ r.op = "recv"
    BY <2>2, SocketsAssumption DEF NewRequest, Requests
  <2>4. Prepare(d, r)
    BY <1>1, <1>7
  <2>5. InSq(d) = {} /\ InKernel(d) = {} /\ InCq(d) = {}
    BY <2>2, SocketsAssumption DEF IInv, OnceInv, Requested, Idle
  <2>6. InCq(d)' = {}
    BY <1>2, <2>5, ReapEffect DEF IInv
  <2>7. /\ \A i \in DOMAIN sq' : \/ sq'[i].conn = d
                                 \/ \E j \in DOMAIN sq : sq'[i] = sq[j]
        /\ \A c \in Clients \ {d} : req'[c] = req[c]
        /\ InKernel(d)' = {}
        /\ \A i \in InSq(d)' : sq'[i].op = "recv" /\ req' = [req EXCEPT ![d] = r]
    BY <1>2, <2>2, <2>3, <2>4, <2>5, <2>6, HandlerEntries
  <2>8. CaughtUp(d)'
    <3>1. Len(echo[d]) <= 0 /\ Len(echo[d]) \in Nat
      BY <2>2, SocketTypes DEF IInv, EchoesInv, StreamInv, PrefixInv
    <3> QED BY <1>3, <2>2, <3>1 DEF CaughtUp
  <2>9. Account(d)'
    <3>1. req \in [Clients -> Requests \cup {NoReq}]
      BY DEF IInv, UringTypeOK
    <3>2. \A i \in InSq(d)' : req'[d].op = "recv" /\ sq'[i].op = "recv"
      BY <2>2, <2>3, <2>7, <3>1
    <3> QED BY <2>6, <2>7, <2>8, <3>2 DEF Account, Ready
  <2>10. AccountInv'
    BY <1>2, <1>3, <1>4, <2>2, <2>7, <2>9, AccountKeeps DEF EchoesInv, FinishedStays
  <2> QED BY <1>3, <1>5, <2>10 DEF EchoesInv
<1> QED BY <1>6, <1>7

\* The completion that handle_recv() or handle_send() takes is in the account.
LEMMA ReapedAccount ==
    ASSUME IInv, EchoesInv, NEW op \in {"recv", "send"}, Reaping(op),
           NEW h, h = Head(cq).sqe.conn
    PROVE  /\ cq # <<>> /\ cq' = Tail(cq) /\ inflight' = inflight
           /\ h \in Clients /\ req[h] \in Requests /\ req[h].op = op
           /\ Done(h, op, Head(cq).res)
           /\ InSq(h) = {} /\ InKernel(h) = {} /\ InCq(h)' = {}
<1>1. /\ cq # <<>> /\ cq' = Tail(cq) /\ inflight' = inflight
      /\ h \in Clients /\ req[h] \in Requests
  BY ReapedOp
<1>2. Head(cq) = cq[1] /\ 1 \in InCq(h)
  BY <1>1, ReapEffect DEF IInv
<1>3. Done(h, Head(cq).sqe.op, Head(cq).res)
  BY <1>1, <1>2 DEF EchoesInv, AccountInv, Account
<1>4. Head(cq).sqe # AcceptSqe
  BY <1>1, SocketsAssumption DEF AcceptSqe, Sqe
<1>5. req[h].op = op
  BY <1>4 DEF Reaping, OpOf
<1>6. InSq(h) = {} /\ InKernel(h) = {} /\ InCq(h)' = {}
  BY <1>1, ReapedIsIdle DEF IInv
<1> QED BY <1>1, <1>3, <1>5, <1>6 DEF Done

\* handle_recv() and handle_send() prepare the other operation of the connection.
LEMMA NextOpServes ==
    ASSUME IInv, EchoesInv, NEW op \in {"recv", "send"}, Reaping(op),
           NEW h, h = Head(cq).sqe.conn, NEW next \in {"recv", "send"},
           Prepare(h, [req[h] EXCEPT !.op = next]), UNCHANGED sockVars,
           IF next = "recv" THEN CaughtUp(h) ELSE Unsent(h)
    PROVE  EchoesInv' /\ Serves
<1>1. /\ cq # <<>> /\ cq' = Tail(cq) /\ inflight' = inflight
      /\ h \in Clients /\ req[h] \in Requests
      /\ InSq(h) = {} /\ InKernel(h) = {} /\ InCq(h)' = {}
  BY ReapedAccount
<1>2. /\ StreamInv' /\ UnreadInv' /\ Serves /\ FinishedStays /\ WorkedBefore
      /\ UNCHANGED <<client, sent, rcvd, echo, unread, sock, backlog, fdc>>
  BY SameSockets
<1>3. \A i \in DOMAIN cq' : i + 1 \in DOMAIN cq /\ cq'[i] = cq[i + 1]
  BY <1>1, ReapedTail DEF IInv
<1>4. FreshInv'
  BY <1>2, <1>3 DEF EchoesInv, FreshInv
<1> PICK r : r = [req[h] EXCEPT !.op = next]
  OBVIOUS
<1>5. r \in Requests /\ r.op = next /\ r.from = req[h].from /\ r.to = req[h].to
  BY <1>1 DEF Requests
<1>6. Prepare(h, r)
  OBVIOUS
<1>7. /\ \A i \in DOMAIN sq' : \/ sq'[i].conn = h /\ sq'[i].op = r.op
                                  /\ req' = [req EXCEPT ![h] = r]
                               \/ \E j \in DOMAIN sq : sq'[i] = sq[j]
      /\ \A c \in Clients \ {h} : req'[c] = req[c]
      /\ InKernel(h)' = {} /\ InCq(h)' = {}
      /\ \A i \in InSq(h)' : sq'[i].op = r.op /\ req' = [req EXCEPT ![h] = r]
  BY <1>1, <1>5, <1>6, HandlerEntries
<1>8. Account(h)'
  <2>1. req \in [Clients -> Requests \cup {NoReq}]
    BY DEF IInv, UringTypeOK
  <2>2. ASSUME NEW i \in InSq(h)' PROVE Ready(h, sq[i].op)'
    <3>1. sq'[i].op = next /\ req'[h] = r
      BY <1>1, <1>5, <1>7, <2>1
    <3>2. CASE next = "recv"
      BY <1>2, <1>5, <3>1, <3>2 DEF Ready, CaughtUp
    <3>3. CASE next = "send"
      BY <1>2, <1>5, <3>1, <3>3 DEF Ready, Unsent
    <3> QED BY <3>2, <3>3
  <2> QED BY <1>1, <1>7, <2>2 DEF Account
<1>9. AccountInv'
  BY <1>1, <1>2, <1>3, <1>7, <1>8, AccountKeeps DEF EchoesInv, FinishedStays
<1> QED BY <1>2, <1>4, <1>9 DEF EchoesInv

\* handle_send(): everything was sent.
LEMMA HandleSendServes ==
    ASSUME IInv, EchoesInv, HandleSend
    PROVE  EchoesInv' /\ Serves
<1> PICK h : h = Head(cq).sqe.conn
  OBVIOUS
<1>1. /\ Reaping("send") /\ Prepare(h, [req[h] EXCEPT !.op = "recv"])
      /\ UNCHANGED sockVars
  BY DEF HandleSend
<1>2. CaughtUp(h)
  BY <1>1, ReapedAccount DEF Done
<1> QED BY <1>1, <1>2, NextOpServes

\* handle_recv(): what was read is to be sent, or the client is finished.
LEMMA HandleRecvServes ==
    ASSUME IInv, EchoesInv, HandleRecv
    PROVE  EchoesInv' /\ Serves
<1> PICK h : h = Head(cq).sqe.conn
  OBVIOUS
<1>1. Reaping("recv")
  BY DEF HandleRecv
<1>2. /\ cq # <<>> /\ cq' = Tail(cq) /\ inflight' = inflight
      /\ h \in Clients /\ req[h] \in Requests
      /\ Done(h, "recv", Head(cq).res)
      /\ InSq(h) = {} /\ InKernel(h) = {} /\ InCq(h)' = {}
  BY <1>1, ReapedAccount
<1>3. CASE Head(cq).res > 0
  <2>1. Prepare(h, [req[h] EXCEPT !.op = "send"]) /\ UNCHANGED sockVars
    BY <1>3, ResultFacts DEF HandleRecv
  <2>2. Unsent(h)
    BY <1>2, <1>3 DEF Done
  <2> QED BY <1>1, <2>1, <2>2, NextOpServes
<1>4. CASE Head(cq).res \in {0, Error}
  <2> PICK fd : fd = req[h].fd
    OBVIOUS
  <2>1. /\ CloseFd(fd) /\ req' = [req EXCEPT ![h] = NoReq] /\ sq' = sq
    BY <1>4, ResultFacts DEF HandleRecv, DeleteRequest
  <2>2. fd \in FDs /\ fdc[fd] = h
    BY <1>2, UringAssumption DEF Requests, IInv, FdInv
  <2>3. SocketsInv /\ StreamInv /\ Finished(h) /\ CaughtUp(h)
    BY <1>2, <1>4, ResultFacts DEF IInv, EchoesInv, Done
  <2>4. StreamInv' /\ Serves /\ FinishedStays /\ WorkedBefore
    BY <1>2, <2>1, <2>2, <2>3, CloseStreams DEF CaughtUp
  <2>5. /\ UNCHANGED <<client, rcvd, echo, unread, backlog>>
        /\ fdc' = [fdc EXCEPT ![fd] = None]
    BY <2>1 DEF CloseFd, streamVars
  <2>6. \A i \in DOMAIN cq' : i + 1 \in DOMAIN cq /\ cq'[i] = cq[i + 1]
    BY <1>2, ReapedTail DEF IInv
  <2>7. /\ InSq(h)' = {} /\ InKernel(h)' = {}
        /\ \A c \in Clients \ {h} : req'[c] = req[c]
    BY <1>2, <2>1 DEF InSq, InKernel, IInv, UringTypeOK
  <2>8. Account(h)'
    BY <1>2, <2>7 DEF Account
  <2>9. \A c \in Clients \ {h} : req[c] # NoReq => (sock'[c] = "ok" => sock[c] = "ok")
    BY <2>4 DEF WorkedBefore, IInv, FdInv
  <2>10. AccountInv'
    BY <1>2, <2>1, <2>4, <2>5, <2>6, <2>7, <2>8, <2>9, AccountKeeps
       DEF EchoesInv, FinishedStays
  <2>11. FreshInv'
    <3>1. \A i \in DOMAIN cq' : cq'[i].sqe = AcceptSqe /\ cq'[i].res # Error =>
             cq'[i].res \in FDs /\ fdc[cq'[i].res] \in Clients
             /\ req[fdc[cq'[i].res]] = NoReq
      BY <2>6 DEF IInv, FdInv
    <3>2. req[h] # NoReq
      BY <1>2, UringAssumption
    <3>3. \A f \in FDs : fdc[f] # h => fdc'[f] = fdc[f]
      BY <2>2, <2>3, <2>5, SocketTypes
    <3> QED BY <2>5, <2>6, <3>1, <3>2, <3>3 DEF EchoesInv, FreshInv
  <2>12. UnreadInv'
    BY <2>5 DEF EchoesInv, UnreadInv
  <2> QED BY <2>4, <2>10, <2>11, <2>12 DEF EchoesInv
<1>5. CASE Head(cq).res = Again
  <2>1. UNCHANGED sockVars /\ req' = [req EXCEPT ![h] = NoReq] /\ sq' = sq
    BY <1>5, ResultFacts DEF HandleRecv, DeleteRequest
  <2>2. /\ StreamInv' /\ UnreadInv' /\ Serves /\ FinishedStays /\ WorkedBefore
        /\ UNCHANGED <<client, sent, rcvd, echo, unread, sock, backlog, fdc>>
    BY <2>1, SameSockets
  <2>3. \A i \in DOMAIN cq' : i + 1 \in DOMAIN cq /\ cq'[i] = cq[i + 1]
    BY <1>2, ReapedTail DEF IInv
  <2>4. FreshInv'
    BY <2>2, <2>3 DEF EchoesInv, FreshInv
  <2>5. /\ InSq(h)' = {} /\ InKernel(h)' = {}
        /\ \A c \in Clients \ {h} : req'[c] = req[c]
    BY <1>2, <2>1 DEF InSq, InKernel, IInv, UringTypeOK
  <2>6. Account(h)'
    BY <1>2, <2>5 DEF Account
  <2>7. AccountInv'
    BY <1>2, <2>1, <2>2, <2>3, <2>5, <2>6, AccountKeeps DEF EchoesInv, FinishedStays
  <2> QED BY <2>2, <2>4, <2>7 DEF EchoesInv
<1> QED BY <1>3, <1>4, <1>5 DEF HandleRecv

\* What the completion of e leaves of the entries: the other connections' and its own.
LEMMA CompletionEntries ==
    ASSUME IInv, NEW e \in inflight, NEW res \in Results, Completed(e, res)
    PROVE  /\ sq' = sq /\ \A s \in inflight' : s \in inflight
           /\ \A i \in DOMAIN cq' :
                 \/ i \in DOMAIN cq /\ cq'[i] = cq[i]
                 \/ cq'[i].sqe = e /\ cq'[i].res = res
           /\ InSq(e.conn)' = {} /\ InKernel(e.conn)' = {}
           /\ \A i \in InCq(e.conn)' : cq'[i].sqe = e /\ cq'[i].res = res
           /\ Requested(e.conn)
<1>1. /\ sq' = sq
      /\ \A c : InSq(c)' = InSq(c)
      /\ \A c : InKernel(c)' = InKernel(c) \ {e}
      /\ \A i : i \in DOMAIN cq' <=> i \in DOMAIN cq \/ i = Len(cq) + 1
      /\ \A i \in DOMAIN cq : cq'[i] = cq[i]
      /\ cq'[Len(cq) + 1] = [sqe |-> e, res |-> res]
  BY CompleteEffect DEF IInv
<1>2. /\ Requested(e.conn) /\ InSq(e.conn) = {} /\ InCq(e.conn) = {}
      /\ InKernel(e.conn) = {e}
  BY EntriesRequested
<1>3. InSq(e.conn)' = {} /\ InKernel(e.conn)' = {}
  BY <1>1, <1>2
<1>4. \A i \in InCq(e.conn)' : i = Len(cq) + 1
  BY <1>1, <1>2 DEF InCq
<1>5. \A s \in inflight' : s \in inflight
  BY DEF Completed
<1> QED BY <1>1, <1>2, <1>3, <1>4, <1>5

\* An accept completes.
LEMMA AcceptCompletes ==
    ASSUME IInv, EchoesInv, CompleteAccept
    PROVE  EchoesInv' /\ Serves
<1>1. AcceptSqe \in inflight /\ req' = req /\ AcceptSqe.conn = None
  BY DEF CompleteAccept, AcceptSqe, Sqe
<1>2. SocketsInv /\ StreamInv
  BY DEF IInv, EchoesInv
<1>3. ASSUME NEW res \in Results, Completed(AcceptSqe, res),
             StreamInv' /\ Serves /\ FinishedStays /\ WorkedBefore,
             UNCHANGED <<rcvd, echo, unread, sock>>,
             \A i \in DOMAIN backlog' :
                \E j \in DOMAIN backlog : backlog'[i] = backlog[j],
             res # Error => rcvd[fdc'[res]] = 0
      PROVE  EchoesInv' /\ Serves
  <2>1. /\ sq' = sq /\ \A s \in inflight' : s \in inflight
        /\ \A i \in DOMAIN cq' : \/ i \in DOMAIN cq /\ cq'[i] = cq[i]
                                 \/ cq'[i].sqe = AcceptSqe /\ cq'[i].res = res
        /\ \A i \in InCq(None)' : cq'[i].res = res
    BY <1>1, <1>3, CompletionEntries
  <2>2. AccountInv'
    BY <1>1, <1>3, <2>1, AccountKeeps DEF EchoesInv, FinishedStays
  <2>3. \A i \in DOMAIN cq' : cq'[i].sqe = AcceptSqe => cq'[i].res = res
    BY <1>1, <2>1 DEF InCq
  <2>4. FreshInv'
    BY <1>3, <2>3 DEF EchoesInv, FreshInv
  <2>5. UnreadInv'
    BY <1>3 DEF EchoesInv, UnreadInv
  <2> QED BY <1>3, <2>2, <2>4, <2>5 DEF EchoesInv
<1>4. ASSUME NEW fd \in FDs, AcceptOn(fd), Completed(AcceptSqe, fd)
      PROVE  EchoesInv' /\ Serves
  <2>1. StreamInv' /\ Serves /\ FinishedStays /\ WorkedBefore
    BY <1>2, <1>4, AcceptStreams
  <2>2. /\ fdc' = [fdc EXCEPT ![fd] = Head(backlog)]
        /\ \A i \in DOMAIN backlog' :
              \E j \in DOMAIN backlog : backlog'[i] = backlog[j]
        /\ \E j \in DOMAIN backlog : Head(backlog) = backlog[j]
    BY <1>2, <1>4, AcceptKeeps
  <2>3. UNCHANGED <<rcvd, echo, unread, sock>>
    BY <1>4 DEF AcceptOn, streamVars
  <2>4. fdc'[fd] = Head(backlog)
    BY <1>2, <2>2, SocketTypes
  <2>5. rcvd[fdc'[fd]] = 0
    BY <2>2, <2>4 DEF EchoesInv, FreshInv
  <2>6. fd \in Results
    BY ResultFacts
  <2> QED BY <1>3, <1>4, <2>1, <2>2, <2>3, <2>5, <2>6
<1>5. ASSUME Completed(AcceptSqe, Error), UNCHANGED sockVars
      PROVE  EchoesInv' /\ Serves
  <2>1. /\ StreamInv' /\ Serves /\ FinishedStays /\ WorkedBefore
        /\ UNCHANGED <<rcvd, echo, unread, sock, backlog>>
    BY <1>5, SameSockets
  <2>2. Error \in Results
    BY ResultFacts
  <2> QED BY <1>3, <1>5, <2>1, <2>2
<1> QED BY <1>4, <1>5 DEF CompleteAccept

\* A recv or a send of c completes.
LEMMA RequestCompletes ==
    ASSUME IInv, EchoesInv, NEW c \in Clients, NEW op, Sqe(op, c) \in inflight,
           NEW res \in Results, Completed(Sqe(op, c), res),
           StreamInv', FinishedStays, WorkedBefore,
           UNCHANGED <<backlog, fdc>>,
           \A d \in Clients \ {c} : /\ req'[d] = req[d] /\ rcvd'[d] = rcvd[d]
                                    /\ echo'[d] = echo[d] /\ unread'[d] = unread[d],
           unread'[c] <= Len(echo'[c]),
           Done(c, op, res)'
    PROVE  EchoesInv'
<1>1. PICK e : e = Sqe(op, c)
  OBVIOUS
<1>2. e \in inflight /\ Completed(e, res) /\ e.conn = c /\ e.op = op
  BY <1>1 DEF Sqe
<1>3. /\ sq' = sq /\ \A s \in inflight' : s \in inflight
      /\ \A i \in DOMAIN cq' : \/ i \in DOMAIN cq /\ cq'[i] = cq[i]
                               \/ cq'[i].sqe = e /\ cq'[i].res = res
      /\ InSq(c)' = {} /\ InKernel(c)' = {}
      /\ \A i \in InCq(c)' : cq'[i].sqe = e /\ cq'[i].res = res
      /\ Requested(c)
  BY <1>2, CompletionEntries
<1>4. c # None /\ req[c] # NoReq
  BY <1>3, SocketsAssumption DEF Requested
<1>5. Account(c)'
  BY <1>2, <1>3 DEF Account, Done
<1>6. \A d \in Clients \ {c} : req[d] # NoReq => (sock'[d] = "ok" => sock[d] = "ok")
  BY DEF WorkedBefore, IInv, FdInv
<1>7. AccountInv'
  BY <1>2, <1>3, <1>5, <1>6, AccountKeeps DEF EchoesInv, FinishedStays
<1>8. FreshInv'
  <2>1. \A i \in DOMAIN backlog : backlog[i] \in Clients \ {c}
    BY <1>4, SocketTypes DEF IInv, FdInv
  <2>2. e # AcceptSqe
    BY <1>2, <1>4 DEF AcceptSqe, Sqe
  <2>3. \A i \in DOMAIN cq' : cq'[i].sqe = AcceptSqe /\ cq'[i].res # Error =>
           i \in DOMAIN cq /\ cq'[i] = cq[i] /\ fdc[cq[i].res] \in Clients \ {c}
    BY <1>3, <1>4, <2>2 DEF IInv, FdInv
  <2> QED BY <2>1, <2>3 DEF EchoesInv, FreshInv
<1>9. UnreadInv'
  BY DEF EchoesInv, UnreadInv
<1> QED BY <1>7, <1>8, <1>9 DEF EchoesInv

\* What the kernel has of c is as the account says.
LEMMA InKernelAccount ==
    ASSUME IInv, EchoesInv, NEW c \in Clients, NEW op, Sqe(op, c) \in inflight
    PROVE  /\ Ready(c, op) /\ req[c] # NoReq /\ req[c] \in Requests
           /\ req \in [Clients -> Requests \cup {NoReq}]
           /\ Accepted(c)
<1>1. PICK e : e = Sqe(op, c)
  OBVIOUS
<1>2. e \in inflight /\ e.conn = c /\ e.op = op
  BY <1>1 DEF Sqe
<1>3. Requested(c) /\ e \in InKernel(c)
  BY <1>2, EntriesRequested
<1>4. req[c] # NoReq /\ req \in [Clients -> Requests \cup {NoReq}]
  BY <1>3, SocketsAssumption DEF Requested, IInv, UringTypeOK
<1>5. req[c] \in Requests /\ fdc[req[c].fd] = c
  BY <1>4 DEF IInv, FdInv
<1>6. req[c].fd \in FDs
  BY <1>5 DEF Requests
<1> QED BY <1>2, <1>3, <1>4, <1>5, <1>6
        DEF Accepted, EchoesInv, AccountInv, Account

\* A recv completes: the buffer holds what was read, or the client is finished.
LEMMA RecvServes ==
    ASSUME IInv, EchoesInv, NEW c \in Clients, CompleteRecv(c)
    PROVE  EchoesInv' /\ Serves
<1>1. Sqe("recv", c) \in inflight
  BY DEF CompleteRecv
<1>2. /\ Ready(c, "recv") /\ req[c] # NoReq /\ req[c] \in Requests
      /\ req \in [Clients -> Requests \cup {NoReq}] /\ Accepted(c)
  BY <1>1, InKernelAccount
<1>3. SocketsInv /\ StreamInv /\ CaughtUp(c) /\ req[c].op = "recv"
  BY <1>2 DEF IInv, EchoesInv, Ready
<1>4. CASE /\ ReadChunk(c)
           /\ req' = [req EXCEPT ![c].from = rcvd[c], ![c].to = ChunkEnd(c)]
           /\ Completed(Sqe("recv", c), ChunkEnd(c) - rcvd[c])
  <2>1. PICK to \in Nat, from \in Nat, res \in Int :
          to = ChunkEnd(c) /\ from = rcvd[c] /\ res = to - from
    BY <1>3, <1>4, ReadStreams, SocketTypes
  <2>2. /\ StreamInv' /\ Serves /\ FinishedStays /\ WorkedBefore
        /\ rcvd' = [rcvd EXCEPT ![c] = to] /\ from < to
    BY <1>3, <1>4, <2>1, ReadStreams
  <2>3. UNCHANGED <<client, sent, echo, unread, sock, backlog, fdc>>
    BY <1>4 DEF ReadChunk
  <2>4. /\ rcvd'[c] = to /\ \A d \in Clients \ {c} : rcvd'[d] = rcvd[d]
        /\ \A d \in Clients \ {c} : req'[d] = req[d]
        /\ req'[c].op = "recv" /\ req'[c].from = from /\ req'[c].to = to
    <3>1. req' = [req EXCEPT ![c].from = from, ![c].to = to]
      BY <1>4, <2>1
    <3>2. \A d \in Clients \ {c} : req'[d] = req[d]
      BY <1>2, <3>1
    <3>3. /\ req[c] \in [op : {"recv", "send"}, fd : FDs, from : 0..MaxBytes,
                         to : 0..MaxBytes]
          /\ req'[c] = [req[c] EXCEPT !.from = from, !.to = to]
      BY <1>2, <3>1 DEF Requests
    <3>4. req'[c].op = "recv" /\ req'[c].from = from /\ req'[c].to = to
      BY <1>3, <3>3
    <3>5. rcvd'[c] = to /\ \A d \in Clients \ {c} : rcvd'[d] = rcvd[d]
      BY <1>3, <2>2, SocketTypes
    <3> QED BY <3>2, <3>4, <3>5
  <2>5. res \in 1..MaxBytes
    BY <1>3, <1>4, <2>1, ReadChunkKeeps
  <2>6. res \in Results /\ res > 0 /\ res \notin {0, Error}
    BY <2>5, ResultFacts
  <2>7. Done(c, "recv", res)'
    BY <1>3, <2>1, <2>3, <2>4, <2>6 DEF Done, Unsent, CaughtUp
  <2>8. unread'[c] <= Len(echo'[c])
    BY <2>3 DEF EchoesInv, UnreadInv
  <2>9. Completed(Sqe("recv", c), res)
    BY <1>4, <2>1
  <2> QED BY <1>1, <2>2, <2>3, <2>4, <2>6, <2>7, <2>8, <2>9, RequestCompletes
<1>5. CASE /\ ReadEnd(c)
           /\ Completed(Sqe("recv", c), IF ReadError(c) THEN Error ELSE 0)
           /\ UNCHANGED req
  <2>1. PICK res : res = IF ReadError(c) THEN Error ELSE 0
    OBVIOUS
  <2>2. res \in Results /\ ~(res > 0)
    BY <2>1, ResultFacts
  <2>3. StreamInv' /\ Serves /\ FinishedStays /\ WorkedBefore /\ Finished(c)
    BY <1>2, <1>3, <1>5, ReadEndStreams
  <2>4. UNCHANGED <<client, sent, rcvd, echo, unread, backlog, fdc, req>>
    BY <1>5 DEF ReadEnd, streamVars
  <2>5. CaughtUp(c)'
    <3>1. sock'[c] = "ok" => sock[c] = "ok"
      BY <1>2, <2>3 DEF WorkedBefore, IInv, FdInv
    <3> QED BY <1>3, <2>4, <3>1 DEF CaughtUp
  <2>6. Done(c, "recv", res)'
    BY <1>3, <2>2, <2>3, <2>4, <2>5 DEF Done, FinishedStays
  <2>7. unread'[c] <= Len(echo'[c])
    BY <2>4 DEF EchoesInv, UnreadInv
  <2>8. Completed(Sqe("recv", c), res)
    BY <1>5, <2>1
  <2> QED BY <1>1, <2>2, <2>3, <2>4, <2>6, <2>7, <2>8, RequestCompletes
<1> QED BY <1>4, <1>5 DEF CompleteRecv

\* A recv completes with EAGAIN: nothing was read.
LEMMA RecvAgainServes ==
    ASSUME IInv, EchoesInv, NEW c \in Clients, RecvAgain(c)
    PROVE  EchoesInv' /\ Serves
<1>1. /\ Sqe("recv", c) \in inflight /\ Completed(Sqe("recv", c), Again)
      /\ UNCHANGED sockVars /\ req' = req
  BY DEF RecvAgain
<1>2. CaughtUp(c) /\ req[c].op = "recv"
  BY <1>1, InKernelAccount DEF Ready
<1>3. /\ StreamInv' /\ UnreadInv' /\ Serves /\ FinishedStays /\ WorkedBefore
      /\ UNCHANGED <<client, sent, rcvd, echo, unread, sock, backlog, fdc>>
  BY <1>1, SameSockets
<1>4. Done(c, "recv", Again)'
  BY <1>1, <1>2, <1>3, ResultFacts DEF Done, CaughtUp
<1>5. Again \in Results /\ unread'[c] <= Len(echo'[c])
  BY <1>3, ResultFacts DEF UnreadInv
<1> QED BY <1>1, <1>3, <1>4, <1>5, RequestCompletes

\* A send completes: the kernel has room for all of it, or the connection is reset.
LEMMA SendServes ==
    ASSUME MaxBytes <= SndBuf, IInv, EchoesInv, NEW c \in Clients, CompleteSend(c)
    PROVE  EchoesInv' /\ Serves
<1>1. Sqe("send", c) \in inflight /\ req' = req
  BY DEF CompleteSend
<1>2. /\ Ready(c, "send") /\ req[c] # NoReq /\ req[c] \in Requests /\ Accepted(c)
  BY <1>1, InKernelAccount
<1>3. SocketsInv /\ StreamInv /\ Unsent(c) /\ req[c].op = "send"
  BY <1>2 DEF IInv, EchoesInv, Ready
<1>4. PICK res \in SendResults : Sends(c, res) /\ Completed(Sqe("send", c), res)
  BY DEF CompleteSend
<1>5. res \in Results
  BY ResultFacts
<1>6. ASSUME StreamInv', Serves, FinishedStays, WorkedBefore,
             UNCHANGED <<rcvd, backlog, fdc>>,
             \A d \in Clients \ {c} : echo'[d] = echo[d] /\ unread'[d] = unread[d],
             unread'[c] <= Len(echo'[c]),
             CaughtUp(c)'
      PROVE  EchoesInv' /\ Serves
  <2>1. Done(c, "send", res)'
    BY <1>1, <1>3, <1>6 DEF Done
  <2> QED BY <1>1, <1>4, <1>5, <1>6, <2>1, RequestCompletes
<1>7. CASE /\ res > 0
           /\ res = IF req[c].to - req[c].from <= Room(c)
                    THEN req[c].to - req[c].from ELSE Room(c)
           /\ WriteBytes(c, Bytes(c, req[c].from, req[c].from + res))
  <2>1. PICK at \in Nat, n \in Nat, u \in Nat :
          /\ at = Len(echo[c]) /\ n = rcvd[c] /\ u = unread[c]
          /\ n <= MaxBytes /\ u <= at /\ at <= n
    <3>1. unread[c] \in Nat /\ rcvd[c] <= MaxBytes
      BY <1>3, SocketsAssumption DEF SocketsInv, SocketsTypeOK
    <3> QED BY <1>3, <3>1, SocketTypes DEF EchoesInv, UnreadInv, StreamInv, PrefixInv
  <2>2. req[c].from = at /\ req[c].to = n
    BY <1>3, <1>7, <2>1 DEF WriteBytes, Unsent
  <2>3. res = n - at
    <3>1. SndBuf \in Nat /\ MaxBytes \in Nat
      BY SocketsAssumption
    <3>2. n - at <= SndBuf - u
      BY <2>1, <3>1
    <3>3. Room(c) = SndBuf - u
      BY <2>1 DEF Room
    <3> QED BY <1>7, <2>2, <3>2, <3>3
  <2>4. at + res = n /\ at < n
    BY <1>7, <2>1, <2>3
  <2>5. WriteBytes(c, Bytes(c, Len(echo[c]), n))
    BY <1>7, <2>1, <2>2, <2>4
  <2>6. /\ StreamInv' /\ Serves /\ FinishedStays /\ WorkedBefore
        /\ Len(echo'[c]) = n /\ \A d \in Clients : d # c => echo'[d] = echo[d]
    BY <1>3, <2>1, <2>4, <2>5, WriteStreams
  <2>7. /\ UNCHANGED <<rcvd, backlog, fdc>>
        /\ unread' = [unread EXCEPT ![c] = u + Len(Bytes(c, at, n))]
    BY <2>1, <2>5 DEF WriteBytes
  <2>8. Len(Bytes(c, at, n)) = n - at
    BY <2>1, <2>4 DEF Bytes
  <2>9. /\ \A d \in Clients \ {c} : unread'[d] = unread[d]
        /\ unread'[c] = u + (n - at)
    BY <1>3, <2>7, <2>8 DEF SocketsInv, SocketsTypeOK
  <2>10. unread'[c] <= Len(echo'[c])
    BY <2>1, <2>6, <2>9
  <2>11. CaughtUp(c)'
    BY <2>1, <2>6, <2>7 DEF CaughtUp
  <2> QED BY <1>6, <2>6, <2>7, <2>9, <2>10, <2>11
<1>8. CASE WriteReset(c) \/ (BrokenPipe(c) /\ UNCHANGED sockVars)
  <2>1. UNCHANGED <<rcvd, echo, unread, backlog, fdc>>
    BY <1>8 DEF WriteReset, sockVars, streamVars
  <2>2. StreamInv' /\ Serves /\ FinishedStays /\ WorkedBefore
    BY <1>3, <1>8, ResetStreams, SameStreams
  <2>3. sock'[c] # "ok"
    <3>1. sock[c] # "ok" /\ client[c] # "idle"
      BY <1>2, <1>8 DEF WriteReset, BrokenPipe, IInv, FdInv
    <3> QED BY <2>2, <3>1 DEF WorkedBefore
  <2>4. CaughtUp(c)' /\ unread'[c] <= Len(echo'[c])
    BY <2>1, <2>3 DEF CaughtUp, EchoesInv, UnreadInv
  <2> QED BY <1>6, <2>1, <2>2, <2>4
<1> QED BY <1>4, <1>7, <1>8 DEF Sends

\* As long as what a client sends fits into what the kernel holds for it, the
\* io_uring server is an echo service (README.md: "accept a TCP connection, read
\* data, echo it back, repeat until disconnect"): what comes back is a prefix of what
\* was sent, and a connection is closed only when its client has reset it, or has
\* hung up and all it sent has been echoed.
THEOREM UringIsEchoService ==
    ASSUME MaxBytes <= SndBuf
    PROVE  Spec => IsEchoService
<1>1. Init => EchoesInv /\ Service!Init
  BY InitEchoesInv, InitStreams DEF Init
<1>2. IInv /\ EchoesInv /\ [Next]_vars => EchoesInv' /\ Serves
  <2> SUFFICES ASSUME IInv, EchoesInv, [Next]_vars PROVE EchoesInv' /\ Serves
    OBVIOUS
  <2>1. CASE LoopStep
    BY <2>1, QuietStepServes, HandleAcceptServes, HandleRecvServes, HandleSendServes
       DEF LoopStep
  <2>2. CASE Shutdown \/ UNCHANGED vars
    BY <2>2, QuietStepServes
  <2>3. CASE Kernel
    BY <2>3, AcceptCompletes, RecvServes, RecvAgainServes, SendServes
       DEF Kernel, Complete
  <2>4. CASE Environment
    BY <2>4, ClientsServe
  <2> QED BY <2>1, <2>2, <2>3, <2>4 DEF Next
<1> QED BY UringInvariant, <1>1, <1>2, PTL DEF Spec, IsEchoService, Service!Spec, Serves

=============================================================================
