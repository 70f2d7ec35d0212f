# kernel_net in TLA+

kernel_net holds four echo servers built on different kernel interfaces (kqueue,
epoll, io_uring, io_uring with zero-copy send), the thread pool two of them
share, a client to measure them, and a lock-free ring buffer with a benchmark
against a mutex. This directory holds TLA+ specifications of those parts, the
configurations with which TLC checks them, and TLAPS proofs. `PROJECT.json` lists
components, runs, hazards, findings and theorems, and maps each definition to
the source lines it models. Paths below are relative to the repository's root.

    tlc -workers 2 -config pool.cfg MCThreadPool      (a run: cfg, module)
    tlapm ThreadPoolProofs.tla                        (proofs; so the other *Proofs.tla)

## 1. The system

| component | state | operations | talks to |
|---|---|---|---|
| thread pool (`echo_server/common/thread_pool`) | `tasks_`, `mtx_`, `cv_`, `running_`, the workers | `enqueue`, `worker_loop`, `stop`, destructor | the network thread enqueues closures; workers run them; the signal handler calls `stop` |
| epoll server (`flavors/epoll`) | epoll set, open fds, `running_`, its pool | `event_loop`, `accept_connection`, `handle_read`, echo and close closures, `shutdown` | clients by TCP, the pool, the signal handler of `main.cpp` |
| kqueue server (`flavors/kqueue`) | kqueue filters, open fds, `running_`, its pool | the same; `EV_DELETE` before the close task | the same |
| io_uring server (`flavors/iouring`) | submission and completion queue, `Request` objects, `accept_pending_`, `running_` | `event_loop` in two phases, `submit_*`, `handle_*`, `shutdown` | the kernel through the rings, clients by TCP |
| io_uring zero-copy server (`flavors/iouring_zc`) | the same | the same, with `SEND_ZC` and its two completions | the same |
| SPSC ring (`ring_buffer.cc`, `ring_buffer_benchmark.cc`) | two atomic indices, slots | `push`, `pop`; the threads of `bench_ring` | one producer, one consumer |
| mutex queue (`ring_buffer_benchmark.cc`) | `q_`, `mtx_` | `push`, `pop`; the threads of `bench_mutex` | the same |
| bench client (`bench/bench_client.cpp`) | `start_flag`, each thread's connection, `latencies_ms`, `completed` | `run_benchmark`, its `thread_func`, the report | the servers |
| `server_interface.h`, `main()`, Makefile, `benchmark.sh` | none worth checking | option parsing, builds, scripts | |

What is hard, and what makes each component correct:

* Thread pool. Three parties (network thread, workers, and a signal handler that
  suspends the network thread) meet on a mutex, a condition variable and an
  atomic flag. Correct means: no task is lost, duplicated or stranded by a lost
  notification, tasks are handed out in order, `stop()` comes back.
* Epoll and kqueue servers. The network thread reads, workers write and close;
  fds are small numbers that the kernel reuses at once; events are handled in
  batches that may be stale; `write` may be partial, fail or raise SIGPIPE; all
  fds may be taken. Correct means: each connection gets back its own bytes, all
  of them, in order and once; each fd is closed once, by its owner; shutdown ends.
* io_uring servers. The kernel completes operations in any order while the loop
  reaps; the submission queue may be full; a send may be short; a `Request` must
  not be used after its deletion. Correct means the echo protocol again, and that
  an accept is always pending or being retried.
* Ring and mutex queue. Loads may return old values, plain slot accesses are
  ordered by the indices only, indices wrap, and the consumer must drain what was
  pushed before `done`. Correct means a bounded FIFO queue without data races.
* Bench client. Replies come in pieces, connections end at any point, and the
  client writes a whole message before it reads. Correct means that a latency is
  that of its own reply, that the counters of the report are about the same
  requests when nothing failed, and that the benchmark ends.

## 2. Modules

    TaskQueue  what the pool promises      EchoService  what a server promises
      ^ implements  ^ composed with           ^ named by Sockets, implemented by
      |             |                         |   the servers (under conditions)
    ThreadPool    PoolServer ------------> Sockets <------------ Uring
                    ^      ^              (external)           (external)
                    |      |                                       ^
              EpollServer  KqueueServer                        UringLoop
                                                               ^       ^
                                                     IoUringServer  IoUringZcServer

    BoundedQueue  <-- implemented by --  SpscRing, MutexQueue  <-- RingBenchmark (main)
    BenchClient   (alone, with an external server)

    SocketsProofs  <--  PoolServerProofs  <--  EpollProofs, KqueueProofs
                   <--  IoUringProofs
    ThreadPoolProofs, RingBenchmarkProofs, BenchClientProofs   (an arrow reads "used by")

**ThreadPool.** One step per access that another thread can see. `wpc[w]` is the
place of worker `w` in `worker_loop()`: `"loop"` before `while (running_)`,
`"lock"` before the mutex (also after a wake-up), `"pred"` holding it with the
predicate to evaluate, `"block"` holding it with the predicate found false,
`"asleep"` in the wait set, `"exec"` in `task()`. `PredFalse` and `Block` are two
steps: `stop()` does not take the mutex and can fall in between. `mpc` is the network thread in
`enqueue()`, `spc` in `stop()`; while `stop()` runs as a signal handler,
`enqueue()` makes no step. `StopAt` says where in `enqueue()` the signal may
fall: `{"idle"}` is the destructor or a signal elsewhere in the event loop,
`MainPoints` any signal. `submitted` and `finished` are history variables.

**TaskQueue.** `queue`, the task each worker `holding`, `open`, `retired`.
ThreadPool implements it with `tasks_`, the workers' local tasks, `running_` and
the exited workers.

**Sockets (external).** TCP connections and fds as the servers use them: a
connection has its client's name, a byte is `<<client, position>>`, so a byte
echoed to the wrong client, twice or out of order is visible. Clients connect,
send, read, send FIN, or reset. An fd is a number and `accept4` returns the
lowest free one. After a reset, `read` or `write` reports ECONNRESET once, then
`write` raises EPIPE. A client reads everything there is at once.

**EchoService.** What comes back on a connection is a prefix of what was sent,
and the server closes it only when the client has hung up and every byte is on
its way back, or when the client has reset it.

**PoolServer, EpollServer, KqueueServer.** The two servers differ in what the
kernel tells them; the rest is PoolServer: the network thread (`net`, `events`),
the pool as TaskQueue, and what the closures do. A handler of the network thread
makes a single access that workers can see, so it is one step;
`accept_connection` is one step per accepted connection and the echo loop one per
`write`. A closure captures only its fd: the field `conn` of a task, and of an
event, is what the fd referred to when it was made, kept for the properties and
never consulted by an action except to name the bytes that were read. `Signal`
and `StopReturns` are the handler of `main.cpp`, which runs on the network thread
and suspends it. `net = "wait"` means that `running_` was seen set and the call that
waits for events comes next, so a batch is also handled after a signal that arrived
in between. `WriteKills` is the `write` that raises SIGPIPE, which nothing in the
program handles: the second write to a connection that was reset, or (on BSD, the
constant `ResetIsPipe`) already the first.

EpollServer adds EPOLLERR, on which the network thread closes the fd itself.
KqueueServer has no such action: `kevent` sets EV_ERROR only for entries of a
change list, and `event_loop()` passes none (kqueue/server.cpp:145), so the branch
at line 155 cannot run; a reset reaches the code as a `read` that fails, and only
workers close.

**Uring (external), UringLoop, IoUringServer, IoUringZcServer.** `sq`, `inflight`
and `cq` are the submission queue, the kernel's operations and the completion
queue; `req[c]` the `Request` of connection `c`. The two flavors run the same
loop, UringLoop. It handles one completion per step; the kernel completes
operations and clients act between any two steps. `Prepare` is `get_sqe()` with
its failure branch, `Phase2` is `submit_accept()` if none is pending and
`submit()`. `pc = "reap"` is the loop over the completions, `pc = "submit"` an
iteration whose wait ended with ETIME or EINTR and that reaps nothing, whatever has
completed meanwhile. `HandleRecv` has the three outcomes of `handle_recv()`: bytes
are sent back; 0 and errors close the fd and delete the `Request`; EAGAIN deletes the
`Request` and nothing else, which leaves the connection open and forgotten. The
kernel's side of that is `RecvAgain`: the sockets are accepted with SOCK_NONBLOCK, and
a kernel may end a recv on such a socket instead of waiting for bytes. An accept completes with an error when fds run out, or, on kernels
that do not wait on a nonblocking listen socket, when nobody connects.
IoUringServer has sends that complete once. IoUringZcServer has `SEND_ZC`: its
result, and later a notification with result 0 that the buffer is free, each a
completion with the same `Request`. `OpOf` looks at `req->op` and not at the
completed operation, as `event_loop()` does. The model stops when a `Request` is
gone with an operation still under way (`UseAfterFree`) or is given to the kernel
twice (`SubmittedTwice`).

**BenchClient.** One step per system call or access to a shared variable of a
thread. A thread has one connection at a time (it opens its share one after the
other), which is why connections are named by threads; on it, bytes are counted:
`up` to the server, `held` by it, `down` back. The server is external: it moves
bytes, holds `HoldMax` of them at most, and in `End` closes or resets.

**SpscRing, MutexQueue, BoundedQueue, RingBenchmark.** The ring is checked under
the C++ memory model, restricted to what the code uses: each atomic index is the
log of its stores; a load returns any store not older than one its thread already
knows of; an acquire load of a store makes known what its thread had done before
the release. What a thread has done is the number of slot accesses it has made,
and each slot carries the number of its last write and its last read, so
`NoDataRace` says that conflicting plain accesses are ordered by happens-before.
Indices wrap at `IdxMod`. RingBenchmark is `main()`: `bench_ring()`, its joins,
`bench_mutex()`, its joins.

Definitions introduced by the word "Mutant" are wrong variants of the definition
that follows them; `PROJECT.json` names the property each one breaks.

## 3. Runs

| run | instance | shows |
|---|---|---|
| `pool` | 2 workers, 3 tasks, a signal anywhere | types; no stranded task; tasks conserved; implements TaskQueue; tasks run; `stop()` returns except in the two ways below |
| `pool_lost_wakeup` | 2 workers, 1 task, no interruption of `enqueue()` | **violated**: `StopReturns` |
| `pool_signal_lock` | 1 worker, 1 task, a signal anywhere | **violated**: `JoinCanReturn` |
| `epoll_single` | 1 worker, 2 polite clients, 1 fd, 2 bytes, reads of 2, send buffer of 1 | implements EchoService; every byte echoed; every client accepted; shutdown ends unless the pool leaves a worker behind; an echo task finds its connection |
| `epoll_multi` | 2 workers, 2 clients that may reset, 2 fds, reads of 2, batches of at most 2 of 3 events, `epoll_ctl` may fail | types; fds accounted for; close tasks hit their own connection; events are fresh; no byte echoed twice |
| `epoll_early_close` | 2 workers, 2 polite clients, 1 fd | **violated**: `EchoHitsOwnConnection` |
| `kqueue` | 1 worker, 2 clients that may reset, 1 fd, 2 bytes, send buffer of 1 | implements EchoService also under resets; every byte echoed; fds accounted for; an echo task finds its connection |
| `uring` | 2 clients of which one may reset, 2 fds, submission queue of 1, recvs that may end with EAGAIN, sends never short | types; `Request` and fd bookkeeping; one accept; implements EchoService; a connection is forgotten only by a full queue or EAGAIN; bytes echoed on every other one; accept retried; shutdown ends |
| `uring_short_send` | 1 client, message of 2, send buffer of 1 | **violated**: `IsEchoService` |
| `uring_zc` | 1 client, 1 byte | **violated**: `IsEchoService` |
| `ring_benchmark` | 4 slots, 10 messages, indices mod 8 | types; no data race; drained; ring and mutex queue implement BoundedQueue; `main()` reports |
| `bench` | 2 threads, 3 connections, 2 requests each, a message of 4 bytes where buffers and server hold 4, faults | types; replies are their own; counters add up; the benchmark ends |

`ForgottenOnlyThen` and `EveryByteEchoed` of the io_uring server belong together. The
code really leaves connections behind, open and without an operation: when
`get_sqe()` finds the submission queue full (server.cpp:244 and :291), and when a recv
is answered with EAGAIN (server.cpp:258). The first property says that there is no
third way, the second that every other connection gets its bytes. On a kernel that
answers an early recv on a nonblocking socket with EAGAIN, every connection whose
client does not send at once is forgotten.

What the violated ones say, step by step:

* `pool_lost_wakeup`: a worker locks, finds `tasks_` empty and `running_` true;
  `stop()` sets `running_` and notifies nobody, as the worker is not asleep yet;
  the worker goes to sleep; the join waits for ever. `StopReturnsWhenSeen` (run
  `pool`) shows there is no third way to hang: when every worker is past that
  window at the notification and the mutex is not held by the suspended thread,
  `stop()` returns.
* `pool_signal_lock`: a signal between lock and unlock of `enqueue()`.
* `epoll_early_close`: worker 1 has the echo task of a connection, worker 2 takes
  its close task and finishes first; worker 1 then writes to a closed fd, or to
  the connection that got the fd next. README.md starts the server with
  `--workers 2`. With two workers two echo tasks of one connection may also be
  written in either order, so EchoService is not implemented either. With one
  worker it takes a reset: on EPOLLERR the network thread closes the fd itself
  while an echo task is queued (`epoll_early_close.cfg` with `Workers = {w1}` and
  `Aborting <- AllClients`).
* `uring_short_send`: `handle_send` is not given the result, so the tail of a send
  that was short is never sent and later bytes follow the gap.
* `uring_zc`: the client sends a byte; recv completes, `SEND_ZC` is submitted and
  completes; `handle_send_zc` turns the `Request` into a recv and prepares it; now
  the notification arrives, with result 0 and the same `Request`. Its op is recv,
  so the loop calls `handle_recv` with 0 bytes, which closes the connection and
  deletes the `Request`. The client has not hung up. It happens for every echo, with
  no fault of a client; only how far the loop has come decides which handler takes the
  notification.

SIGPIPE has no run of its own: no line of the repository promises anything about
it. It is in the models (`WriteKills` of PoolServer and of BenchClient), and the
liveness properties except it by name; without that exception `EveryByteEchoed`
is violated in `kqueue`.

Bounds. Two clients on one or two fds are what it takes for an fd to be reused
while something still refers to it; two bytes with reads of one or two, and a
send buffer of one or two, make chunks, partial writes and full buffers; a
submission queue of one entry is full in the first busy iteration; batches of two
out of three possible events make epoll leave one for the next call. `uring` has
messages of one byte and one client that resets, since resets and liveness are in
the same run; its safety properties hold as well with two bytes read one at a time
and no resets (905,000 states), as all of `kqueue` does with two fds and one client
that may reset (442,000 states). `bench` has the largest message that
fits: with five bytes `BenchEnds` is violated, which is the deadlock of a client
that writes all before it reads. Three tasks
for two workers leave one in the queue while both are busy. Ten messages take the
ring's indices around once and the slots twice; 64-bit indices do not wrap in
practice, so a small width is the only way to see it. Each client connects once
and sends `MaxBytes` at most; one signal arrives. Symmetry is used in runs of
safety properties only.

Deadlock checking is off in all runs, as all of these programs stop: workers
exit, servers shut down, clients fall silent, `main()` returns. Hanging where
that matters is the subject of the liveness properties.

## 4. Fairness

* In ThreadPool, threads that can run do (weak fairness of each worker, of the network
  thread, of `stop()`), since nothing in the code sets priorities. Spurious wake-ups, new
  calls of `enqueue()` and `stop()`, signals, connections and sends are never
  obliged to happen.
* `Fairness` of PoolServer asks of the pool no more than the runs of ThreadPool give:
  a worker that has a task runs it, and tasks are taken while the pool is open
  (`EveryTaskRuns`). That a worker leaves a closed pool is not assumed, as it may
  have missed the notification or wait for the mutex (`pool_lost_wakeup`,
  `pool_signal_lock`). `ShutdownEnds` therefore says that after a signal the process
  ends, or from some time on there is always a worker that has no task and does not
  leave: nothing in the server itself, no task and no batch of events, holds it up.
* It also asks that clients read their echoes and hang up at last. `EveryByteEchoed`,
  `EveryClientAccepted` and `ShutdownEnds` need it: a worker spins on EAGAIN
  (server.cpp:241) for as long as a client does not read, which blocks one-worker
  pools, and the join in `shutdown()`. This is a condition on clients which the
  code does not enforce.
* In BenchClient the threads and the server run; `End` never has to happen.
* The io_uring kernel completes what can be completed, per operation. It never has to
  answer an accept without a client, or a recv without bytes.
* In the ring, a store becomes visible in finite time: strong fairness of the
  loads that return the newest store and of seeing `done` set. A thread that
  tries a mutex again and again gets it.

## 5. Proofs

All theorems are about specifications without fairness and hold for every value of
the constants that satisfies the ASSUMEs of the module, named below. Each is
obtained from an inductive strengthening: one lemma for the initial states, one
per action (or per group of actions that disturb the same part), and a last one
that combines them.

`ThreadPoolProofs` (`PoolAssumption`: some worker, and a closure is not the empty
one) has any set of workers and tasks and any `StopAt`.

* `PoolInvariant`: `PoolInv` is inductive. It adds to the properties who holds the
  mutex at each program point (`LockInv`: mutual exclusion, on which every access
  to `tasks_` rests), that a worker about to block has seen an empty queue
  (`BlockInv`), that workers exit only after `running_` is cleared (`ExitInv`), and
  where the argument of `enqueue()` and the local tasks are empty (`LocalInv`).
* `PoolTypeOK`, `PoolNoStrandedTask`, `PoolTaskConserved`: the invariants of the
  run `pool`.
* `PoolImplementsTaskQueue`: every step of the pool is a step of TaskQueue or a
  stutter, which justifies composing the servers with TaskQueue.

`SocketsProofs` and `PoolServerProofs` (`SocketsAssumption`, `PoolServerAssumption`)
prove what the actions the epoll and kqueue servers share preserve; `EpollProofs`
and `KqueueProofs` add the actions of their own. The first invariant is `PoolServerInv`.
Its core is `FdInv`: an open fd is either registered and no close task names it, or
unregistered and exactly one close task does, queued or held. That is why no fd
leaks or is closed twice, but it is not enough to prove itself: the network thread
closes or unregisters the fd of an *event*, so `EventInv` says that the events of a
batch are about different, registered fds that are still the connection they were
about; and a close task frees a *number*, so `TaskInv` says the number is still the
connection's.

* `EpollFdAccounted`, `EpollCloseHitsOwnConnection`, `EpollEventsAreFresh`,
  `EpollTypeOK`: the invariants of the run `epoll_multi`, for any number of workers,
  clients and fds. `EpollNoByteEchoedTwice`, the remaining one, needs an invariant of
  its own (below).
* `KqueueFdAccounted`, `KqueueNoByteEchoedTwice`, for any number of workers.
* `KqueueEchoHitsOwnConnection`, which states its condition as an assumption: one
  worker. `EchoInv` adds that in the queue the close task of an fd is behind all
  echo tasks for it, which a single worker takes in order.
* `EpollEchoHitsOwnConnection`: the epoll server needs a second condition, that no
  client resets (`Aborting = {}`), as its network thread closes the fd of a reset
  connection at once, in front of the echo tasks in the queue. `NoReset` says that
  without resets no event has the error flag.

That no byte is echoed twice holds whether or not an echo goes to the right
connection, so it needs an account of the bytes and none of the fds. `ByteInv` has
three parts: `ReadInv` (a task is about bytes that were read, and its worker is
inside it), `DisjointInv` (of two tasks with bytes of the same connection, the one
made first has the earlier bytes: the queue keeps the order in which the network
thread read them, and tasks held by two workers no longer have an order but do not
overlap) and `EchoedInv` (a byte that is echoed is in no task any more, and has one
place in all echoes). `write()` moves the start of a held task over the bytes it
echoes, which is the step that needs all three.

`KqueueIsEchoService` and `EpollIsEchoService` prove the refinement that the runs
`kqueue` and `epoll_single` check, under the conditions of these runs: one worker,
`epoll_ctl` or `kevent` does not refuse a new connection (`AddMayFail = FALSE`; when
it does, the server closes a connection whose client still waits), and for epoll no
resets. Number of clients and fds, sizes, and where writes are short are arbitrary.
Every step is a step of EchoService or none of it, by `ServiceInv` on top of
`PoolServerInv`, `ByteInv` and `EchoInv`:

* `StreamInv` (in SocketsProofs): what comes back on a connection is a prefix of what
  was read from it, and the socket is in line with what the client did. The lemmas
  about it (`WriteStreams`, `CloseStreams` and so on, one per system call) say when a
  call is a step of the echo protocol, for any server.
* `KeptInv`: a byte that was read is echoed or in a task. `ByteInv` says that no
  byte is in two places, this one that none is nowhere; together, an echo task that
  runs with one worker continues exactly where the echoes end.
* `EndInv`: a close task is about a client that has reset, or has hung up with all it
  sent read. With `EchoInv` the bytes are then not in a task any more, so they are
  echoed.

`IoUringProofs` (`SocketsAssumption`, `UringAssumption`): `IInv` says that there is
exactly one operation, in one of `sq`, `inflight` and `cq`, for each `Request` and
for a set `accept_pending_`, and none otherwise (`OnceInv`); that only an accept has
no `Request` (`EntriesInv`); and whom an fd belongs to between the completion of its
accept and the close (`FdInv`). From it `UringServerTypeOK`, `UringOneAccept` and
`UringRequestOwnsFd`; and `UringForgottenOnlyThen`, an action property: a connection
stays unforgotten in every step that keeps its `Request`, its fd, and its place among
the accepts that have completed (`ForgottenBefore`), which only a handler that finds
the queue full or takes an EAGAIN does not do; a close is no exception, since one fd
at most refers to a connection.

`UringIsEchoService` proves the refinement with any number of clients and any depth
of the submission queue, whatever resets and whatever connections are forgotten. Its invariant is `EchoesInv`: besides `StreamInv` it has an
account of the bytes of each operation by its place (`AccountInv`: everything read
is echoed when a recv is under way; a send has exactly the bytes between, and after
its completion none are left). Its hypothesis `MaxBytes <= SndBuf` says that what a
client sends fits into what the kernel takes in one send, so that no send is short
(`UnreadInv`). It cannot be dropped: the run `uring_short_send`, where the buffer is
one byte too small, violates the property.

`RingBenchmarkProofs` (`RingAssumption`: the ring's size divides the index width and
`Size + 1` is below it; the code has powers of 2). The first part is arithmetic: the index of the
n-th store is `n % IdxMod`, two positions in the same slot are `Size` apart, and the
modular difference in `push()` is the difference of the positions, so the tests of
`push()` and `pop()` are exact for the store they have loaded (`FullExact`,
`EmptyExact`). `RingInv` then relates the logs, what each thread knows of the other,
which accesses a slot has had and what is in it.

* `RingNoDataRace`: accesses of one slot are `Size` apart in number, and a thread is
  never `Size` ahead of what it knows, so the other thread's last access of the slot
  it is about to use is one it knows of.
* `RingDrained`, `RingTypeOK`, and `RingIsBoundedQueue`: the ring implements
  BoundedQueue with `Len(writeIdx) - 1` pushes, one step of it for `StoreWriteIdx`
  and one for `ReadSlot`.

* `MutexQueueIsBoundedQueue`: so does the queue behind the mutex, of which
  `MutexInv` says that it holds the messages between the last one popped and the
  next one pushed.
* `MainRunsRing`, `BenchmarkQueues`: `main()` runs the ring's threads and nothing else
  touches the ring, so throughout it both queues are what is proved of each.

`BenchClientProofs` (`BenchAssumption`): `BenchInv` adds to `TypeOK` and
`ReplyIsOwn` how many bytes of the current message are on the connection at each
program point (`Progress`). `P99InRange` is about the index of the percentile alone.
`BenchCountsAddUp` is about counters that all threads add to, so the invariant
(`Tally`, theorem `BenchTally`) needs sums over the threads: requests due on open
connections, requests recorded and not counted yet, connections still to be opened.
What recursion computes cannot be proved here, so a sum is defined without it, as the
cardinality of the pairs of a thread and a number up to its share (`Total`); a step
of a thread changes the pairs of this thread alone. `Steady` says that a thread
ends with its loops finished and that, without faults, no connection is lost.

Every invariant and every refinement that a passing run checks is stated by a
theorem, where needed under the conditions that hold in the run too. Model-checked
only:

* liveness under fairness, which is out of the prover's reach: `EveryTaskRuns`,
  `StopReturnsWhenSeen`, `EveryByteEchoed`, `EveryClientAccepted`, `AcceptRetried`,
  `ShutdownEnds`, `BenchmarkEnds`, `BenchEnds`;
* what the runs that expect a violation show, which are counterexamples. The only
  run of IoUringZcServer is one of them, and no theorem is about that server.

## 6. Plan

Every part of the code with state worth checking is modelled, and what the runs
check of its safety is proved. Left, in this order:

1. What does hold of the zero-copy server until it closes a connection early: it
   shares UringLoop with the io_uring server, so types and the account of its
   operations, with the second completion, could be lemmas of both.
2. A weaker condition for `UringIsEchoService`: it is enough that no send is short,
   whatever the client sends altogether.

## 7. Not modelled

* Option parsing. `--workers 0`, which leaves a pool without workers, is excluded by
  `PoolAssumption`; `--size 0` and `--threads 0` of the bench client by
  `BenchAssumption`.
* The failure of socket, bind, listen, ring setup or thread creation in constructors.
* Errors of `epoll_wait`, `kevent` and `io_uring_wait_cqe_timeout` other than EINTR and
  ETIME, after which the loops end without `shutdown()`.
* A signal delivered to a worker thread, or a second one during `stop()`.
* The EV_ERROR branch of the kqueue server, which cannot run (section 2).
* The buffer of a zero-copy send: the next recv may overwrite it while the kernel
  still sends from it. IoUringZcServer takes the bytes as written when the send
  completes, and stops when a `Request` is used after its deletion. Kernels without
  SEND_ZC (before 6.0; README.md:18 asks for 5.6) are not modelled either.
* Times in the bench client: of a latency the model keeps only that it was recorded.
* Timing, repetitions and output of the ring benchmark; other memory orders than
  release, acquire and relaxed on the ring's indices do not occur in the code.
* `server_interface.h`, which has no state, the Makefile and `benchmark.sh`.

Data is abstracted to the identity of bytes.
