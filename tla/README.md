# tcp_server: TLA+ specification, model checking and proofs

`tcp_server` is a C library for a preforked TCP server.  The parent process
forks a pool of workers, waits in `select()` for connections and for the
workers' reports, and passes every accepted descriptor to a ready worker over a
socketpair; the worker runs the user's callback on it and writes one byte back.
SIGINT stops the server.  This directory specifies that program: TLA+ modules
translated from the C code, TLC configurations that check them on small
instances, and TLAPS proofs of the safety properties for every instance.
Paths below are relative to the repository's root.

## 1. The system

| component | state | operations | talks to |
|---|---|---|---|
| descriptor passing, `src/ipc_fd.c` | none; bytes and descriptors in a socketpair | `ipc_fd_write`, `ipc_fd_read` | used by parent (write) and workers (read) |
| worker pool, `src/worker_pool.c` | `worker[i].{pid,pipefd,status,count}`, `avail_workers_n`; per worker process its local `conn`, `cmd` | `worker_pool_new`, `_destroy`, `_dispatch_worker` (fork and the worker's endless routine), `_workers_submit_conn`, `_workers_find_free`, `_workers_terminate` | the server core calls it; parent and workers share the socketpairs |
| server core, `src/tcp_server_core.c` | `sock_fd`, `masterset`, `maxfdp`, `wp`, the file-scope `SERVER_STOP` | `tcp_server_new`, `_init`, `_dispatch`, `_run`, `_destroy`; the SIGINT handler | user program, kernel (accept queue, signals), worker pool |
| log, `libs/log/src/log.c` | settings, libc's time-zone and stdio locks | `log_msg` | called everywhere, also by the signal handler |
| net utilities, `libs/utils/src/net.c` | none | interface is up?, interface to IPv4 | `tcp_server_init`, example server |
| hexdump, `libs/utils/src/hexdump.c` | none | print a buffer | callbacks |
| example server, `examples/server/main.c` | arguments | default the arguments; new, init, dispatch, run, destroy | the library's user |
| example client, `examples/client/client.py` | threads with a connection each | connect, send, receive once | the server, over TCP |
| selftest, `src/tcp_server_selftest.c` | list of tests | run the classes' `_test` functions | the library's user |

What is hard in it:

* **Concurrency.** The parent and every worker are processes that interleave at
  each system call; the signal handler runs between any two instructions of the
  parent.
* **A cached count.** `avail_workers_n` shadows the `status` fields.  It is
  tested before `select()` and relied on after `accept()`.
* **The protocol over a pipe.** One byte each way: `p` with a descriptor and
  `s` downwards, anything upwards.  The worker's end of the pipe *is* its
  stderr.
* **Streams.** The echo callback and its client each make one `read()` of a TCP
  stream, which arrives in pieces, and each waits for the other's bytes.
* **Failure.** Workers die (callbacks are user code); `fork()`, `accept()`,
  `socketpair()`, `read()` of a pipe and `recvmsg()` fail and their results are
  mostly not tested; SIGPIPE is not handled.
* **Descriptor inheritance.** A worker forked later holds the parent's ends of
  the pipes of those forked earlier, which decides who sees end-of-file when.
* **Order at the end.** `s` is queued behind a job; the parent waits for all
  workers; Ctrl+C also kills the workers, `kill -INT` does not.

What makes each component correct: a message keeps its descriptor and its place
in the queue (descriptor passing); the table, the count, the pipes and the
workers agree on who has a job, and no worker has two (pool); a connection is
neither lost nor served twice, the parent blocks in `select()` only, every client
is served, a stop drains the pool and leaves no process behind (core); nobody gets
another's bytes, what is dumped is what was read, and the client ends (example).
`PROJECT.json` lists each hazard at its line with the properties about it.

## 2. Modules

```
IpcFd <- WorkerPool <- TcpServer <- TcpServerInv <- ServiceRefinement <- MCTcpServer   (TLC)
                                                        ConnService  ^ (INSTANCE)
Lifecycle <- MCLifecycle                                                               (TLC)
ConnService, Hexdump <- EchoExample <- MCExample                                       (TLC)

TcpServer, MinMaxProofs <- TcpServerProofs <- AccountingProofs <- SelectProofs       (TLAPS)
ConnService                     <- ConnServiceProofs                                 (TLAPS)
ServiceRefinement, SelectProofs <- ServiceProofs (INSTANCE ConnServiceProofs)        (TLAPS)
Lifecycle, MinMaxProofs         <- LifecycleProofs                                   (TLAPS)
EchoExample, ConnServiceProofs  <- EchoProofs                                        (TLAPS)
```

**`IpcFd`** has no variables: a pipe is a sequence of messages `[cmd, conn]`,
`IpcFdWrite` and `ByteWrite` append one, `IpcFdRead` gives the descriptors a read
may deliver.  Byte and descriptor form one message because every reader asks
for a single byte.  A descriptor of -1 (`NoConn`) makes `sendmsg()` fail before a
byte is queued; a descriptor that does not fit the receiver's table arrives as
-1 (`FdTruncation`).

**`WorkerPool`** holds the parent's table and the worker processes.

| variable | code |
|---|---|
| `status`, `count`, `avail` | `worker[i].status`, `worker[i].count`, `avail_workers_n` |
| `down[i]`, `up[i]` | the socketpair of worker i: messages to it, number of unread bytes from it (the parent never looks at their value) |
| `wpc[i]` | `unborn`, then `read` (in `ipc_fd_read`), `callback`, `report` (before `write "d"`), `dead` |
| `wconn[i]`, `wopen[i]` | the routine's `conn`, and whether it names an open descriptor |
| `parent` | `up`, `gone`, or `overrun`: written past `worker[workers_n - 1]`, where C defines nothing and the model stops following it |
| `served`, `doomed`, `crashed`, `noise` | history of served connections; workers with a pending SIGINT; workers that have died on their own; bytes printed to stderr |

Actions of the parent: `DispatchWorker`, `DispatchForkFails`, `SubmitConn`,
`SubmitOverrun`, `JobDone`, `JobReset` (`read()` = -1), `JobEof` (`read()` = 0),
`TerminateWorker`, `ParentGone`.  Of a worker: `WorkerReceive`, `WorkerStop`,
`WorkerReset` (`recvmsg()` = -1), `WorkerEof`, `WorkerServed`, `WorkerReport`,
and what may happen to it: `WorkerStderr`, `WorkerInterrupted`, `WorkerCrash`.
`Silent` is the set of connections whose client sends nothing and stays: the
callback's `read()` has no timeout, so it does not return from those
(`CallbackReturns`).

**`TcpServer`** adds the parent's control: `pc` names the system call it is
about to make and each action is one turn of `tcp_server_dispatch()`, one part
of the body of `tcp_server_run()` between two system calls, or the handler.

| `pc` | place in the code |
|---|---|
| `dispatch`, `register`, `run` | the fork loop, `signal()`, up to `SERVER_STOP = false` |
| `loop`, `blocked` | the top of the loop up to `select()`; inside it |
| `check` | `if (SERVER_STOP)`, `if (FD_ISSET(sock_fd))` |
| `accept`, `submit` | before `accept()`; from the log message to `--nsel` |
| `find`, `eof` | one descriptor of `worker_pool_workers_find_free()`; its error message |
| `terminate`, `wait`, `destroy` | the loop that writes `s`; `wait()`; `tcp_server_destroy()` |
| `exit`, `hung`, `hungInDestroy` | the process has ended; it waits for a lock it holds itself, in `tcp_server_run()` or, with every `s` written, in `tcp_server_destroy()` |

`Select` models the call as Linux performs it: it looks at descriptors below
`maxfdp` only, and copies back whole words of the set, so a bit past the last
word it looked at stays as the caller set it (`Untouched`).  `nsel` is
decremented where the code does.  `backlog` is the kernel's queue of established
connections and `Arrive` a client's `connect()`.  SIGINT may arrive wherever
`SignalPoints` says, to the parent alone or to the process group; before
`signal()` it kills the parent (`SigintDefault`), later it runs the handler
(`SigintHandler`), and if it interrupts `log_msg()` it may hang (`SigintHang`):
the handler logs too and libc's lock is not reentrant.

**`Lifecycle`** is the frame around it: one program, `main()` of the example or
`tcp_server_test()`, calls `tcp_server_new`, `_init`, `_dispatch`, `_run` and
`_destroy`, each failing as it may, over the *descriptor table* of the process.
`fds` maps a number to what it refers to: free, something open before the start,
the listening socket, or one end of worker w's pipe.  `Lowest` is the kernel's rule
that the lowest free number is given out; `Open`, `Close` and `Dup2` are the calls.
`Dispatch` is one turn of the fork loop: the parent's table afterwards, and in
`wfds[w]` the table with which worker w enters its routine, after `dup2()` and its
three `close()`.  The result of `socketpair()` is not tested.  It fails with fewer than
two numbers free (`PairFits`), and may fail with more, for want of files or memory; both
descriptors are then 0, so parent and child close descriptor 0 and the parent takes it
for its end of the pipe (`DispatchNoPair`, `PairlessTable`).  `noPair` remembers for whom.
When `fork()` fails the parent itself goes the child's way (`DispatchForkFails`,
`DispatchAllFails`).

| `pc` | place in the code |
|---|---|
| `start`, `new`, `init`, `inited` | the check of the interface; before `tcp_server_new()`, `tcp_server_init()`, the test of its result |
| `dispatch`, `run` | the fork loop; `tcp_server_run()`, which keeps no descriptor it opens and is one step here |
| `destroy`, `destroyed`, `returned` | `tcp_server_destroy()`, and behind it |
| `killed`, `spin` | the process ended by a signal or a failed `fork()`; it reads a descriptor that is no pipe for ever |
| `overrun` | `FD_SET` of a descriptor that does not fit the `fd_set`; not followed further |

`tcp_server_destroy()` closes the listening socket unless its number is 0, and
`worker_pool_destroy()` frees memory only: the parent's ends of the pipes stay
open (`Destroy`), and when `tcp_server_init()` has failed `main()` returns without
calling either (`Inited`).

The two halves meet in three facts.  `TcpServer!PipeFd(w) = SockFd + 1 + w` is
`ConsecutivePipes`; `WorkerPool!Orphaned`, that a worker sees end-of-file when the
parent and all later workers have gone, rests on `InheritedEnds`; and
`OnlyLastUnwatched` is why `Watched` leaves out one pipe.

**`ConnService`** is what a user of the library may rely on, with no table, pipe,
`select()` or signal in it: a connection waits in the accept queue (`Connect`), is
accepted in order (`AcceptNext`), given to a worker that has not died and, until a
callback prints to its stderr (`PrintsOut`), has no other (`Give`), and served once
(`Begin`, `Finish`).  A server that stops in order has dealt with all it accepted
(`Shut`).  What takes connections away is part of the state (`failed`, `fallen`,
`printed`), so that the specification says more than "anything may get lost":
`Crash(w)` costs what w has and adds w to `fallen`; `Orphan(w)` follows the end of a
server that has failed; `Abort` is that end; `Drop` needs a full descriptor table
(`Lossy`).  So it promises that nothing is lost without a failure (`NothingLost`), and
that a failure costs one client for each worker that died (`Confined`).

**`ServiceRefinement`** maps `TcpServer` to it: the queue is `backlog`, what the parent
holds is `conn`, `given[w]` is what is in w's pipe, `serving[w]` what w has open.
`fallen` are the workers that are dead and have crashed or got a SIGINT, `printed`
means `noise > 0`, and the service has failed when a worker has crashed or got a
SIGINT, or the parent has overrun its array.  A death the parent asked for with `s`, or
one after the parent's that finds the worker idle, is no failure, and the mapping has to
show that it costs nothing; `ImplementsService` is the property.

**`EchoExample`** is the program that uses the library: the threads of `client.py`
and its main thread, clients that are not `client.py` (`Strangers`, which send more
than the callback's buffer or leave in the middle, in order or with a reset), the
network between them, and the echo callback of `examples/server/main.c` (the one of
the self-test is the same).  What the library does with a connection is
`ConnService` while nothing fails, so the example composes with the server by
way of the refinement.  A byte is a pair of its sender and its number.  The network
delivers a message in one piece or, for `Splittable` clients, in any; a close with
unread bytes, or bytes that come after it, is answered by a reset, which may destroy
what was on its way back.  `ServerPort` is `main()`'s defaulting of the port, to
`DfltPort`; the port the client asks for is a constant of its own (`ClientPort`), and
where the two differ every thread fails to connect.
**`Hexdump`** is the function the callback calls, with the length an unsigned int
of `UintBits` bits: -1, the result of a failed `read()`, becomes the largest.

| `EchoExample` variable | code |
|---|---|
| `serverPort` | `args.port` of `main.c` |
| `mainPc`, `index` | `client.py`'s `main()`: starting, joining, returned, exited; the loops' index |
| `cpc`, `sent`, `left`, `received` | each client: before `connect`, `sendall`, `recv`, at its end; has it sent; how it closed; the result of `recv()` |
| `cb`, `rx`, `dump` | the callback: called, after `read()`, after `write()`; `rx_bytes`; what `hexdump()` printed |
| `arrived`, `echo`, `closed`, `whole` | the TCP connection: bytes unread at the server, bytes on their way back, how the server closed, history of splits |

**`TcpServerInv`** states the inductive invariants, **`MCTcpServer`**,
**`MCLifecycle`** and **`MCExample`** the constants for TLC.  Definitions that follow
"Mutant of" are variants of a definition with a plausible bug, one for each property,
under which that property fails; the specifications do not use them.

## 3. What TLC checks

| run | question | properties |
|---|---|---|
| `faults` | do the table, the jobs and the connections stay consistent if everything that can fail does, with a SIGINT anywhere? and does it look to clients like a service with failures? | `TypeOK`, `AvailExact`, `OneJob`, `WorkerForConnection`, `OneHolder`, `StaleOnlyOrphaned`, `StopDelivered`, `DeadForReason`, `ImplementsService` |
| `noisy` | what survives output on the callbacks' stderr, a crash and failing `accept()`? | `AvailNeverLow`, `NoBlockingCall`, `ReportsWatched`; `NoLostConnection` where nothing has crashed |
| `service` | with a silent client and no failures: is everybody else served unless a SIGINT comes first, does a worker ever drop out of service, does `kill -INT` finish the jobs, then the workers, then the parent? | `EveryClientServed`, `BusyHasJob`, `DrainedShutdown`, `GracefulStop` |
| `orphans` | with a silent client, a crash, a failed `fork()` or a SIGINT anywhere: how many clients does a dead worker cost, are reports collected, does a stop end the parent, are accepted clients served without it, do the workers follow it? | `LossBounded`, `ReportsCollected`, `StopHonoured`, `HandedOverServed`, `OrphansExit` |
| `example` | what do clients of the echo server get, and do they end, whatever the network splits and others send? | `EchoTypeOK`, `EchoIsOwn`, `WholeEcho`, `DumpShowsRead`, `ClientEnds` |
| `lifecycle` | which descriptors do parent and workers end up with, whatever was open and wherever it fails? | `TypeOK`, `WorkerPlumbing`, `OnlyZeroHarmed`, `FdSetFits`, `InheritedEnds`, `ParentEnds`, `OnlyLastUnwatched`, `ConsecutivePipes`, `FailedInitClean`, `MainListens`, `ListeningClosed` |

Six runs end in a counterexample.  Each checks one sentence of the comments or
the documentation that the code does not live up to:

| run | the sentence | what happens |
|---|---|---|
| `lost_report` | "Find any newly-available children" | `maxfdp` is the highest descriptor, not one more: the last worker's pipe is never looked at, and it takes one connection in its life |
| `dead_ready` | status "0 = ready" | a worker that died idle, or with a job unread, stays or becomes ready, and the next connection is sent to it: SIGPIPE |
| `stderr_output` | "job done" | a byte printed by the callback makes its worker ready while the callback runs |
| `lost_wakeup` | "until Ctrl+C (SIGINT) interrupt is received" | a signal between the test of `SERVER_STOP` and `select()` is not acted on |
| `closed_stderr` | "child's stream pipe to parent" | started with stderr closed, the listening socket (or an end of the first pipe) is descriptor 2; the child's `dup2()` puts the pipe there and its `close()` takes it away, so the worker has no pipe and no client is served |
| `ctrl_c` | after Ctrl+C "Deallocate the server resources" | Ctrl+C kills the workers too, the write of `s` raises SIGPIPE and the parent dies in `tcp_server_run()` |

`EveryClientServed` and `lost_report` fit together: with W workers and S silent
clients, W - 1 - S workers keep serving, so if that is positive nobody else waits for
ever.  Run `service` has just one such worker.  `BusyHasJob` has the premise that no
`accept()` fails: after a failed one the code marks a worker busy that has nothing to
do, and its `count` counts a connection that was none (`AcceptError`, run `faults`,
where `avail_workers_n` still agrees with the table).

Three properties say what failures do not reach.  `LossBounded`: the parent's table may
be wrong about a dead worker and hand it the next connection, but then the parent dies of
SIGPIPE; as long as it is there, each worker that died has taken one connection at most.
`DeadForReason`: no worker of a running server ends by itself, neither for a message
without a descriptor nor by an end-of-file or SIGPIPE that is not meant for it.
`StopDelivered`: when the parent enters `wait()`, the last message in the pipe of every
live worker is `s`, whatever the table says of it.

The liveness properties draw the line between what a failure takes away and what it
does not.  `ReportsCollected`: a worker that died idle is seen as end-of-file by every
`select()` and stops `find_free()` there, so workers behind it may starve, but those
before it do not.  `StopHonoured`: a SIGINT, once `tcp_server_run()` has begun, ends the
parent, unless it waits in `select()` with nothing ready (`lost_wakeup`), its handler
hangs in `log_msg()`, or it waits for good in `wait()`; and then a silent client holds
up every worker that is left.
`OrphansExit`: when the parent has gone, for whatever reason, the workers go too, in
reverse order, but for one that a silent client holds and those forked before it, which
never see end-of-file because it has copies of the parent's ends of their pipes.
`HandedOverServed`: a client that was handed over is served even if the parent is dead,
hung or stopping.

### Bounds

* `WorkersN` = 3 (2 in the counterexamples): one worker that is watched and first in
  every search, one in between, and the last one, which is not watched.  Descriptor
  inheritance needs three to show that workers go in reverse order, `service` one for
  the silent client, the unwatched one, and one that is used again.
* `Conn`: as many connections as workers in `faults` and `noisy` (every worker can
  be busy), four in `service`, of which the last is silent (clients have to wait and
  a worker to be used again), two where the question is about signals and ends; in
  `orphans` one of the two is silent, so the worker that has it may be any of the three.
* `Backlog` = 2: the queue can be empty, hold one, or be full.  A full queue
  only delays `Arrive`.
* `FdWord` = 2 and `SockFd` = 3: pipes 4, 5, 6, `maxfdp` = 6, and descriptor 6
  begins a word of its own.  It is the case of 61 workers with words of 64 bits,
  the smallest pool for which `select()` leaves a bit set that it has not looked
  at; that is what makes `NoBlockingCall` depend on `nsel`.
* `StderrBytes` = 2 in `noisy`: a worker may print twice in a job and be freed
  twice, or two workers once.  Where `avail` has drifted too far the parent
  overruns the array; `parent = "overrun"` marks the state and ends the
  behaviour's parent.
* `MaxCrashes` = 1, `MaxSignals` = 1.  A worker's death affects the others
  through `parent` and inheritance only; a second SIGINT sets a flag that is set.
* `lifecycle`: four workers and 13 descriptors, of which any of the first eight
  may be open at the start; stderr is.  The program needs six more (the socket,
  three pipes' ends, both ends of the fourth), so in some starts everything fits, and
  in those with eight open the fourth `socketpair()` fails for want of numbers.
  Failures for other reasons (address, `socket()`, `bind()`, `socketpair()`, `fork()`)
  may happen in each.  Four workers are enough for a failure that closes descriptor 0,
  a pipe that gets number 0, and a failure that closes it, with a worker to spare.
  `FdSetSize` = 11 lies below the limit, and two starts have the first ten and eleven
  open, so the socket, a pipe, or nothing may fail to fit `masterset`.  The last
  descriptor may be open as well, so a `socketpair()` can fail with one number left.
* `example`: two threads, one stranger, two workers of which the first is watched, an
  accept queue of 2, so the third client may find it full.  A message has 2 bytes, and
  one thread's may be split, the
  stranger's 4, more than the callback's buffer of 3, so its connection ends with bytes
  unread.  A line of the dump has 2 cells: full lines, a partial one, and none occur.
  An unsigned int has 3 bits: the wrap-around of a length of -1 is the same as with
  32, both being multiples of the line.
* Symmetry in the connections, for invariants only.  Workers are ordered by
  their index and are not symmetric.

`CHECK_DEADLOCK FALSE` is needed everywhere: the server is idle when all clients
have been served, and it ends.

### Fairness

`FairSpec` assumes weak fairness of the parent's own steps and of each worker's
own steps: the kernel schedules every runnable process, and a blocked call
returns when it can.  A callback returns unless its client is in `Silent`; the library
sets no timeout (`tcp_server_sock_set_rcv_timeout` is empty).  `EveryClientServed` and
`HandedOverServed` speak of the others, `GracefulStop` lets the workers of silent
clients stay, and the parent with them, which is what the code does.
Nothing is assumed of
clients, signals, failing calls, output or crashes.  `GracefulStop` is checked for
signals that arrive while the parent is in `select()` or before it tests
`SERVER_STOP`; `lost_wakeup` is the case left out.

`EchoSpec` assumes weak fairness of the client's threads, of the network and of the
callback.  Of the library it assumes `LibraryServes`: it accepts when a worker it watches
is free, and gives a connection to such a worker at the latest, which is what
`EveryClientServed` shows of it.  Of the last worker, whose report is never collected,
nothing is assumed: it may be given connections and need not be.  With a pool of one
`LibraryServes` never happens, and `ClientEnds` fails there, as it should
(`lost_report`).  Strangers leave in the end: one that stayed would be a silent client.
Nothing says that the server ever stops (`LibraryShuts`), or that starting a thread
fails.

## 4. What is proved

### The pool and the event loop

For every pool size, backlog, word size, descriptor number, set of connections,
number of crashes and of signals, wherever they arrive, and nothing assumed of the
constants beyond their types:

| theorem | says |
|---|---|
| `TypeCorrect` | `[]TypeOK` |
| `AvailCorrect` | `[](noise = 0 => AvailExact)` |
| `WorkerForConnectionCorrect` | `[](noise = 0 => WorkerForConnection)`: the array is not overrun |
| `OneJobCorrect` | `[](noise = 0 => OneJob)` |
| `NoBlockingCallCorrect` | `[]NoBlockingCall` |
| `StaleCorrect` | `[]StaleOnlyOrphaned` |
| `AvailNeverLowCorrect` | `[]AvailNeverLow` |
| `ReportsWatchedCorrect` | `[]ReportsWatched` |
| `BusyHasJobCorrect` | `[]BusyHasJob` |
| `DeadForReasonCorrect` | `[]DeadForReason` |
| `StopDeliveredCorrect` | `[]StopDelivered` |

`noise = 0` says that no callback has printed to stderr so far; without output these
three are invariants.  The premise is necessary: run `stderr_output` shows a worker that
is marked ready with its job unfinished, and in `noisy` the count drifts upwards.

* `TypeOK` is inductive once it is known that a descriptor a worker has open is a
  connection (`OpenConn`); together they are `ServerType`.
* `AvailExact` alone is not inductive: collecting a report adds one to `avail`
  and a ready worker only if the reporting worker was marked busy.  `Accounting`
  says why it was: `JobPlaces` (a job in the pipe, in the worker, or reported
  implies `status = 1`, and it is in one of them only), `PipeShape` (a job at
  most in the pipe and only `s` behind it, `s` only once the parent terminates).
  `AvailableIfListening` carries the test of `avail_workers_n` from before
  `select()` to `accept()`: the only steps in between are of others, and they do
  not change `avail`.
* `NoBlockingCall` needs `SelectResult`: `nsel` equals the number of bits left
  *below `maxfdp`* and each of those pipes is readable, and stays so because
  only the parent reads it.  As `Min` takes the descriptors in order and a bit
  that was not looked at lies above all that were, the loop stops by `nsel`
  before it comes to one.  The library loop meets pipes in order of the index;
  that this is the order of the descriptors follows from `PipeFd`.

The proofs are hierarchical, one step per action.  Lemmas about the data come first
(`MinElement`, `FirstFree`, `QueueType`, `PipeTail`, `OneBusier`, `OneReadier`), then
lemmas that say what a group of steps leaves alone (`JobsLocal`, `JobsQuiet`,
`ReadableStays`), so that a step only argues about the worker it touches.

`BusyHasJob` is the converse of `OneJob`, whatever callbacks print: the job of a busy
worker leaves the pipe for the worker's hands, and these for the report, without a gap.
It is inductive once it is known that a worker that is busy or has reported remembers a
connection, and that the parent has one when it submits (`AllWorking`).

`DeadForReason` is a part of `HandOver` (below).  `StopDelivered` is not inductive: it
says nothing before `wait()` is entered.  `StopsWritten` says of each turn of the loop
that the workers passed so far are dead or have an `s` somewhere in their pipe, and
`PipeOrder` that nothing is ever written behind one.

Three theorems say what exactly a counterexample needs.  Each proves a property that a
run of section 3 violates, from assumptions that exclude one thing:

| theorem | property | holds if |
|---|---|---|
| `JobDoneIsDoneCorrect` | `JobDoneIsDone` | callbacks print nothing |
| `ReadyIsAliveCorrect` | `ReadyIsAlive` | no worker crashes and SIGINT goes to the parent alone |
| `ReturnsBeforeExitCorrect` | `ReturnsBeforeExit` | besides, SIGINT comes after `signal()`, no `fork()` fails and callbacks print nothing |

### The service

| theorem | says |
|---|---|
| `ServiceTypeCorrect`, `OnePlaceCorrect`, `NothingLostCorrect`, `StopsEmptyCorrect`, `ConfinedCorrect` | what `ConnService` keeps: a connection is in one place; none is lost unless something fails; a server that stopped in order has left no worker one; a dead worker costs one at most |
| `ServiceImplemented` | `Spec => ImplementsService`: the server is such a service |
| `OneHolderCorrect`, `NoLostConnectionCorrect`, `DrainedShutdownCorrect`, `LossBoundedCorrect` | `[]OneHolder`, `[]NoLostConnection`, `[]DrainedShutdown`, `[]LossBounded` |

Nothing is assumed of the constants, output on stderr included.  Each step of the server
is a step of the service or leaves the service's state alone, in states that satisfy
`Accounting` while nothing has been printed (the chosen worker has no other job),
`SelectResult` (`accept()` finds a connection) and `HandOver`, which says where
connections can be: a message is a job with a descriptor or an `s` without
(`MessageKinds`), a worker has one open in its callback only (`OpenInCallback`), the
parent only between `accept()` and the hand-over (`ConnInHand`), and a worker is dead
only if it was told to stop or killed (`DeadForReason`, which is why a stop loses
nothing).

Without `Accounting` that is not enough: that no connection is sent twice, and that a
worker orphaned by a server that stopped in order has nothing to lose (`StoppedIdle`),
are invariants of the *service* (`OnePlace`, `StopsEmpty`).  So the two are proved by one
induction (`ServerInv`): the invariant of the service in this state gives the server's
step its meaning as a step of the service, and `ConnServiceProofs`, instantiated under
the refinement mapping (`Promise`), gives the invariant in the next.  The four properties
of the server follow from the instantiated ones without another induction over its
steps.

`Confined` counts.  It is inductive with `OneEach`: until a callback prints, a worker has
one connection at most, so a crash adds at most one to what is lost and exactly one to
`fallen`.  Nothing else loses a connection while the server is open: `Orphan` comes
after its end, and `Drop` needs a full table.

### The descriptors

For every number of workers, every limit on descriptors, every size of an `fd_set`,
and every set of descriptors open at the start:

| theorem | says | assumes |
|---|---|---|
| `LifecycleTypeCorrect` | `[]TypeOK` | |
| `FailedInitCleanCorrect` | `FailedInitClean` | |
| `OnlyLastUnwatchedCorrect` | `[]OnlyLastUnwatched` | |
| `ParentEndsCorrect` | `[]ParentEnds` | |
| `FdSetFitsCorrect` | `[]FdSetFits` | |
| `ConsecutivePipesCorrect` | `[]ConsecutivePipes` | |
| `MainListensCorrect` | `[]MainListens` | |
| `ListeningClosedCorrect` | `[]ListeningClosed` | |
| `WorkerPlumbingCorrect` | `[]WorkerPlumbing` | stderr was open |
| `InheritedEndsCorrect` | `[]InheritedEnds` | stderr was open |
| `OnlyZeroHarmedCorrect` | `[]OnlyZeroHarmed` | stderr was open |

The last three are about the workers' tables, and that stderr was open is necessary for
them (run `closed_stderr`); what is said of the parent holds without it.  All but
`TypeOK`, `FailedInitClean`, `OnlyZeroHarmed` and `ListeningClosed` speak of pools for which
no `socketpair()` has failed (`noPair = {}`).

The invariant of the parent is `ParentSide`.  Its core is `Listens`: no number up to the
last one taken is free.  From it and the rule of the lowest free number it follows that
the next pair lies above everything opened so far, the first end below the second
(`ParentTable`), so `maxfdp` is the parent's end made last (`Layout`).  `Listens` ends
with `_destroy`, `Layout` does not.  The invariant of the workers is `ChildSide`: as long
as descriptor 2 is what it was at the start (`StderrKept`), the child's three `close()`
calls miss it (`ChildTableShape`), and `Tables` adds worker by worker what each has
inherited from the parent's table.

`OnlyZeroHarmed` and `ListeningClosed` hold whatever fails, where `ParentSide` says
nothing.  After a failed `socketpair()` the order of the descriptors is lost: 0 is free,
the next pipe gets it, and a further failure closes it, so a worker can lose its pipe to
the failure of a later one.  What remains is that no other number is touched.  The parent's half is `PipesKept` (a new pipe takes a free number, so none that
is in use, and a failure changes 0 only), the worker's `StderrKept`.  `ListeningClosed`
rests on `OneListening`.
`FdSetFits` is a counting argument: when the `fd_set` overflows every number below
`FD_SETSIZE` is taken (`Full`), by the socket, by one pipe for each worker so far, or
by what was open before, and the pipes have different numbers.

### The example

For every number of threads, strangers and workers, every size of message, buffer and
queue:

| theorem | says |
|---|---|
| `EchoUsesService` | `EchoSpec => ServiceSpec` |
| `EchoTypeCorrect` | `[]EchoTypeOK`: among others, `read()` does not exceed the buffer |
| `EchoIsOwnCorrect` | `[]EchoIsOwn` |
| `WholeEchoCorrect` | `[]WholeEcho` |
| `DumpShowsReadCorrect` | `[]DumpShowsRead`, if `DumpFits` |

The message of a thread is assumed to fit the callback's buffer and its own
`recv()` (19 bytes for the first ten threads; 1500 and 1024 in the code).  `EchoInv`
is the invariant of the service and, for each connection, `Wire` (what the callback has
read and what has arrived is a beginning of the message, and what is on its way back is
the part that was read) and `Loop` (for a thread: as long as nothing was split it is all or nothing, and
a thread whose connection is reset although it was whole has not been served).  That
takes the service's `OnePlace`: two callbacks never have the same connection.

`DumpShowsRead` is about the loop bound of `hexdump()`, computed in an unsigned int from
a length that may be -1.  Rounding up by quotient and remainder (`Division`, `Rounded`)
gives whole lines exactly if `DumpFits`: more than one column, and a buffer that can be
rounded up without passing 2^UintBits.  The proof attempt without it failed for these
reasons: with one column -1 needs no rounding and the loop prints 2^UintBits - 1 bytes;
with a larger buffer a full one wraps to 0 and prints nothing.  The code has 16 columns
(`HEXDUMP_COLS`, which a build may define otherwise), a buffer of 1500 bytes and 32 bits.

### Left to model checking

Every invariant and every action property of a passing run, and the refinement, is a
theorem.  What stays with TLC:

* Liveness (`EveryClientServed`, `GracefulStop`, `OrphansExit`, `HandedOverServed`,
  `ReportsCollected`, `StopHonoured`, `ClientEnds`), which is out of this prover's reach.
* The six counterexamples.
* What the example assumes of the library's fairness (`LibraryServes`): its reason is
  `EveryClientServed`, a liveness property of the server.

## 5. What is not modelled

* A pool with a failed `socketpair()` after it was forked: `Lifecycle` follows the
  descriptors, `TcpServer` starts from pools that have their pipes.  The parent reads
  its standard input, or a later worker's pipe that got number 0, for that worker's reports.  A failing `malloc()` ends in an
  assertion and is not modelled.
* What `tcp_server_run()` does with a server whose initialisation has failed
  (`tcp_server_test()` calls it): it has no worker and `Lifecycle` lets it return
  or end; `FD_CLR` of a descriptor -1, which C does not define, is not followed.
* The parsing of the example server's arguments, and its defaults for the interface and
  the number of workers, which `Lifecycle` and `TcpServer` have as parameters.
* `client.py`'s exit status: an exception in a thread sets a local `ret`
  (`client_thread`), so the status tells nothing about the threads.
* The text of log messages, and how a byte is written in a dump; addresses and their
  parsing.
* What a callback that is not the echo does, but for time, output on stderr and death.
* The processor's view: writes of `SERVER_STOP` are seen at once (it is
  `volatile` and written by a handler of the same thread).
* What happens after `parent = "overrun"` and `pc = "overrun"`.
* A property about workers *behind* one that died idle: the code gives none, they
  starve (`FindFreeEof`); `ReportsCollected` is about those before it.
* That some things are lost is what the code does, and no property speaks of it: a SIGINT
  between `signal()` and `SERVER_STOP = false` (`Run`), the worker chosen when `accept()`
  fails (`AcceptError`), a listening socket of number 0 and the parent's ends of the
  pipes, which stay open (`Destroy`).  The actions named model it.
* That `main.c` and `client.py` have the same default port: it is a matter of two
  constants.
* Build files and generated documentation.  `docs/` holds JavaScript that Sphinx and
  its extensions copy into the pages (jQuery, Underscore, the search, copy buttons,
  tabs).  It is third-party code, runs in a reader's browser and shares nothing with
  the server.
* The self-test's command line; the tests it calls use the library as modelled.

## 6. Plan

Done: descriptor passing, pool, event loop, signals and shutdown; the life cycle of
the object with its descriptors; the abstract service and the refinement; the
example, from the client's threads to the dump.  All safety properties are proved.
What is left, in this order:

1. A pool with a failed `socketpair()`, whose parent reads its standard input for
   reports: `PipeFd` becomes a function of what `Lifecycle` leaves behind.
2. The example server's arguments: the default number of workers.
3. `log_msg`'s levels and its lock as a module of its own.
