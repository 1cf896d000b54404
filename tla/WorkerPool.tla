----------------------------- MODULE WorkerPool -----------------------------
(***************************************************************************)
(* The worker pool of src/src/worker_pool.c: the parent's table of         *)
(* workers, one socketpair per worker, and the worker processes.           *)
(*                                                                         *)
(* The parent's functions are the actions DispatchWorker .. Terminate; the *)
(* event loop that calls them is module TcpServer.  The actions Worker...  *)
(* are the steps of the for(;;) routine every worker runs, one action per  *)
(* system call, so workers interleave freely with the parent and with one  *)
(* another.                                                                *)
(***************************************************************************)
EXTENDS IpcFd, Integers, FiniteSets, FiniteSetsExt

CONSTANTS
  WorkersN,      \* workers_n, the size of the pool
  Silent,        \* connections whose client sends nothing and stays
  StderrBytes,   \* bytes callbacks may print to their stderr, in all (bound)
  MaxCrashes     \* workers that may die on their own (bound)

ASSUME PoolAssumption ==
  /\ WorkersN \in Nat
  /\ Silent \subseteq Conn
  /\ StderrBytes \in Nat
  /\ MaxCrashes \in Nat

Worker == 0 .. WorkersN - 1

VARIABLES
  status,    \* worker[i].status: 0 = ready, 1 = busy
  count,     \* worker[i].count: "# connections handled"
  avail,     \* avail_workers_n
  parent,    \* the parent process: "up", "gone", or "overrun" once it has
             \* written past the end of the worker array, where C defines
             \* nothing and the model follows it no further
  down,      \* bytes (and descriptors) on their way to worker i
  up,        \* how many bytes worker i has written that nobody has read
  wpc,       \* where worker i is in its routine
  wconn,     \* worker i's local variable conn
  wopen,     \* is wconn[i] a descriptor worker i has open?
  served,    \* connections a callback has returned from (history)
  doomed,    \* workers with a pending SIGINT, which they do not handle
  crashed,   \* workers that have died on their own (bounded)
  noise      \* bytes callbacks have printed to stderr (bounded)

tableVars  == <<status, count, avail>>
workerVars == <<wpc, wconn, wopen, served>>
poolVars   == <<status, count, avail, parent, down, up, wpc, wconn, wopen,
                served, doomed, crashed, noise>>
faultVars  == <<doomed, crashed, noise>>

Busy  == {"callback", "report"}
Alive == {"read"} \cup Busy

PoolTypeOK ==
  /\ status \in [Worker -> {0, 1}]
  /\ count \in [Worker -> Nat]
  /\ avail \in Int
  /\ parent \in {"up", "gone", "overrun"}
  /\ down \in [Worker -> Seq(Message)]
  /\ up \in [Worker -> Nat]
  /\ wpc \in [Worker -> Alive \cup {"unborn", "dead"}]
  /\ wconn \in [Worker -> Conn \cup {NoConn}]
  /\ wopen \in [Worker -> BOOLEAN]
  /\ served \in SUBSET Conn
  /\ doomed \in SUBSET Worker
  /\ crashed \in SUBSET Worker
  /\ noise \in Nat

-----------------------------------------------------------------------------
\* What the kernel shows of the socketpairs.

\* Worker w's end of its pipe has no open peer left.  Worker v was forked
\* after the pipes of the workers before it were made and closes none of
\* them, so it holds a copy of the parent's end of each.
Orphaned(w) ==
  /\ parent = "gone"
  /\ \A v \in Worker : v > w => wpc[v] \in {"unborn", "dead"}

\* select() reports the parent's end of w's pipe: a byte to read, or the
\* hang-up of a peer that has died.
Readable(w) == up[w] > 0 \/ wpc[w] = "dead"

FreeWorkers == {w \in Worker : status[w] = 0}

-----------------------------------------------------------------------------
\* worker_pool_new(): calloc'ed workers, all of them counted available.
PoolInit ==
  /\ status = [w \in Worker |-> 0]
  /\ count = [w \in Worker |-> 0]
  /\ avail = WorkersN
  /\ parent = "up"
  /\ down = [w \in Worker |-> <<>>]
  /\ up = [w \in Worker |-> 0]
  /\ wpc = [w \in Worker |-> "unborn"]
  /\ wconn = [w \in Worker |-> NoConn]
  /\ wopen = [w \in Worker |-> FALSE]
  /\ served = {}
  /\ doomed = {}
  /\ crashed = {}
  /\ noise = 0

\* worker_pool_dispatch_worker(), the fork that succeeds: the parent records
\* the worker, the child enters its routine with conn = -1.
DispatchWorker(w) ==
  /\ status' = [status EXCEPT ![w] = 0]
  /\ wpc' = [wpc EXCEPT ![w] = "read"]
  /\ UNCHANGED <<count, avail, parent, down, up, wconn, wopen, served,
                 faultVars>>

\* worker_pool_dispatch_worker(), fork() = -1: the test "> 0" sends the
\* parent down the child's branch.  It closes both ends of the new pipe,
\* reads end-of-file from it and leaves by exit(0).
DispatchForkFails ==
  /\ parent' = "gone"
  /\ UNCHANGED <<tableVars, down, up, workerVars, faultVars>>

\* Mutant of SubmitConn: the worker is not marked busy.
SubmitConnUnmarked(c) ==
  /\ FreeWorkers # {}
  /\ LET w == Min(FreeWorkers) IN
       /\ count' = [count EXCEPT ![w] = @ + 1]
       /\ IF wpc[w] = "dead" /\ c # NoConn
          THEN parent' = "gone" /\ UNCHANGED down
          ELSE /\ down' = [down EXCEPT ![w] = IpcFdWrite(@, "p", c)]
               /\ UNCHANGED parent
  /\ UNCHANGED <<status, avail, up, workerVars, faultVars>>

\* worker_pool_workers_submit_conn(): the first ready worker is marked busy
\* and sent the connection (c = NoConn when accept() failed).
SubmitConn(c) ==
  /\ FreeWorkers # {}
  /\ LET w == Min(FreeWorkers) IN
       /\ status' = [status EXCEPT ![w] = 1]
       /\ count' = [count EXCEPT ![w] = @ + 1]
       /\ avail' = avail - 1
       /\ IF wpc[w] = "dead" /\ c # NoConn
          THEN parent' = "gone" /\ UNCHANGED down      \* SIGPIPE
          ELSE /\ down' = [down EXCEPT ![w] = IpcFdWrite(@, "p", c)]
               /\ UNCHANGED parent
  /\ UNCHANGED <<up, workerVars, faultVars>>

\* The same call when no worker is ready: it logs "no available children"
\* and goes on with worker[workers_n], outside the array.
SubmitOverrun ==
  /\ FreeWorkers = {}
  /\ parent' = "overrun"
  /\ UNCHANGED <<tableVars, down, up, workerVars, faultVars>>

\* Mutant of JobDone: the worker is ready but not counted available.
JobDoneUncounted(w) ==
  /\ up[w] > 0
  /\ up' = [up EXCEPT ![w] = @ - 1]
  /\ status' = [status EXCEPT ![w] = 0]
  /\ UNCHANGED <<avail, count, parent, down, workerVars, faultVars>>

\* worker_pool_workers_find_free(), one descriptor of the set.  Any byte is
\* "job done": the byte read is not looked at.
JobDone(w) ==
  /\ up[w] > 0
  /\ up' = [up EXCEPT ![w] = @ - 1]
  /\ status' = [status EXCEPT ![w] = 0]
  /\ avail' = avail + 1
  /\ UNCHANGED <<count, parent, down, workerVars, faultVars>>

\* Mutant of JobReset: the failed read() is counted, the worker stays busy.
JobResetKeepsBusy(w) ==
  /\ up[w] = 0 /\ wpc[w] = "dead" /\ down[w] # <<>>
  /\ down' = [down EXCEPT ![w] = <<>>]
  /\ avail' = avail + 1
  /\ UNCHANGED <<status, count, parent, up, workerVars, faultVars>>

\* The worker died with a message unread: read() fails once with ECONNRESET.
\* Only 0 is tested for, so -1 counts as "job done" as well.
JobReset(w) ==
  /\ up[w] = 0 /\ wpc[w] = "dead" /\ down[w] # <<>>
  /\ down' = [down EXCEPT ![w] = <<>>]
  /\ status' = [status EXCEPT ![w] = 0]
  /\ avail' = avail + 1
  /\ UNCHANGED <<count, parent, up, workerVars, faultVars>>

\* read() = 0, "child terminated unexpectedly": nothing is recorded and the
\* caller's loop breaks off.
JobEof(w) ==
  /\ up[w] = 0 /\ wpc[w] = "dead" /\ down[w] = <<>>
  /\ UNCHANGED poolVars

\* Mutants of TerminateWorker: the wrong command byte; busy workers skipped.
TerminateWorkerWrongByte(w) ==
  /\ IF wpc[w] = "dead"
     THEN parent' = "gone" /\ UNCHANGED down
     ELSE /\ down' = [down EXCEPT ![w] = ByteWrite(@, "d")]
          /\ UNCHANGED parent
  /\ UNCHANGED <<tableVars, up, workerVars, faultVars>>
TerminateWorkerReadyOnly(w) ==
  /\ IF wpc[w] = "dead"
     THEN parent' = "gone" /\ UNCHANGED down
     ELSE /\ down' = IF status[w] = 0
                     THEN [down EXCEPT ![w] = ByteWrite(@, "s")] ELSE down
          /\ UNCHANGED parent
  /\ UNCHANGED <<tableVars, up, workerVars, faultVars>>

\* worker_pool_workers_terminate(), one turn of its loop: write "s".  Writing
\* to a dead worker raises SIGPIPE.
TerminateWorker(w) ==
  /\ IF wpc[w] = "dead"
     THEN parent' = "gone" /\ UNCHANGED down
     ELSE /\ down' = [down EXCEPT ![w] = ByteWrite(@, "s")]
          /\ UNCHANGED parent
  /\ UNCHANGED <<tableVars, up, workerVars, faultVars>>

\* while (wait(NULL) > 0): over when no worker process is left.
AllWorkersExited == \A w \in Worker : wpc[w] \in {"unborn", "dead"}

\* The parent's process ends: its descriptors are closed.
ParentGone ==
  /\ parent' = "gone"
  /\ UNCHANGED <<tableVars, down, up, workerVars, faultVars>>

-----------------------------------------------------------------------------
\* Worker w's routine.

\* A worker process ends, whatever the reason; the kernel closes what it had
\* open and drops its unread messages.  That there were any is the error the
\* parent's next read() returns, and down[w] keeps them for that.
Dies(w) ==
  /\ wpc' = [wpc EXCEPT ![w] = "dead"]
  /\ wopen' = [wopen EXCEPT ![w] = FALSE]
  /\ UNCHANGED <<wconn, served>>

\* ipc_fd_read() delivers 's': break and exit(0).
WorkerStop(w) ==
  /\ wpc[w] = "read" /\ down[w] # <<>> /\ Head(down[w]).cmd = "s"
  /\ down' = [down EXCEPT ![w] = Tail(@)]
  /\ Dies(w)
  /\ UNCHANGED <<tableVars, parent, up, faultVars>>

\* Mutant of WorkerReceive: break instead of continue.
WorkerReceiveBreaks(w) ==
  /\ wpc[w] = "read" /\ down[w] # <<>> /\ Head(down[w]).cmd = "p"
  /\ down' = [down EXCEPT ![w] = Tail(@)]
  /\ \E c \in IpcFdRead(Head(down[w])) :
       /\ wconn' = [wconn EXCEPT ![w] = c]
       /\ wopen' = [wopen EXCEPT ![w] = c # NoConn]
       /\ wpc' = [wpc EXCEPT ![w] = IF c = NoConn THEN "dead" ELSE "callback"]
  /\ UNCHANGED <<tableVars, parent, up, served, faultVars>>

\* Mutant of WorkerReceive: conn < 0 is not tested for.
WorkerReceiveUnchecked(w) ==
  /\ wpc[w] = "read" /\ down[w] # <<>> /\ Head(down[w]).cmd = "p"
  /\ down' = [down EXCEPT ![w] = Tail(@)]
  /\ \E c \in IpcFdRead(Head(down[w])) :
       /\ wconn' = [wconn EXCEPT ![w] = c]
       /\ wopen' = [wopen EXCEPT ![w] = c # NoConn]
       /\ wpc' = [wpc EXCEPT ![w] = "callback"]
  /\ UNCHANGED <<tableVars, parent, up, served, faultVars>>

\* ipc_fd_read() delivers 'p'.  Without a descriptor the worker just
\* continues, and reports nothing.
WorkerReceive(w) ==
  /\ wpc[w] = "read" /\ down[w] # <<>> /\ Head(down[w]).cmd = "p"
  /\ down' = [down EXCEPT ![w] = Tail(@)]
  /\ \E c \in IpcFdRead(Head(down[w])) :
       /\ wconn' = [wconn EXCEPT ![w] = c]
       /\ wopen' = [wopen EXCEPT ![w] = c # NoConn]
       /\ wpc' = [wpc EXCEPT ![w] = IF c = NoConn THEN "read" ELSE "callback"]
  /\ UNCHANGED <<tableVars, parent, up, served, faultVars>>

\* The peer went away with bytes of w unread: recvmsg() fails once with
\* ECONNRESET, ipc_fd_read() returns -1 and sets neither cmd nor conn.  Only
\* 0 is tested for, so the worker acts on the values of the last job.  The
\* unread count doubles as the pending error: nobody else can read it now.
WorkerReset(w) ==
  /\ wpc[w] = "read" /\ down[w] = <<>> /\ Orphaned(w) /\ up[w] > 0
  /\ up' = [up EXCEPT ![w] = 0]
  /\ wpc' = [wpc EXCEPT ![w] =
               IF wconn[w] = NoConn THEN "read" ELSE "callback"]
  /\ UNCHANGED <<tableVars, parent, down, wconn, wopen, served, faultVars>>

\* Mutant of WorkerEof: the worker stays in its loop.
WorkerEofIgnored(w) ==
  /\ wpc[w] = "read" /\ down[w] = <<>> /\ Orphaned(w) /\ up[w] = 0
  /\ UNCHANGED poolVars

\* ipc_fd_read() = 0, end of file: break and exit(0).
WorkerEof(w) ==
  /\ wpc[w] = "read" /\ down[w] = <<>> /\ Orphaned(w) /\ up[w] = 0
  /\ Dies(w)
  /\ UNCHANGED <<tableVars, parent, down, up, faultVars>>

\* The callback prints to stderr, which dup2() made the pipe to the parent.
WorkerStderr(w) ==
  /\ wpc[w] = "callback" /\ noise < StderrBytes
  /\ IF Orphaned(w)
     THEN Dies(w) /\ UNCHANGED <<up, noise>>           \* SIGPIPE
     ELSE /\ noise' = noise + 1
          /\ up' = [up EXCEPT ![w] = @ + 1]
          /\ UNCHANGED workerVars
  /\ UNCHANGED <<tableVars, parent, down, doomed, crashed>>

\* The example callbacks read() once, without a timeout: they do not return
\* while a silent client holds the connection.
CallbackReturns(w) == wopen[w] => wconn[w] \notin Silent

\* Mutant of WorkerServed: conn is not closed.
WorkerServedUnclosed(w) ==
  /\ wpc[w] = "callback" /\ CallbackReturns(w)
  /\ served' = IF wopen[w] THEN served \cup {wconn[w]} ELSE served
  /\ wpc' = [wpc EXCEPT ![w] = "report"]
  /\ UNCHANGED <<tableVars, parent, down, up, wconn, wopen, faultVars>>

\* callback(conn, ctx) returns and close(conn) follows; conn keeps its value.
WorkerServed(w) ==
  /\ wpc[w] = "callback" /\ CallbackReturns(w)
  /\ served' = IF wopen[w] THEN served \cup {wconn[w]} ELSE served
  /\ wopen' = [wopen EXCEPT ![w] = FALSE]
  /\ wpc' = [wpc EXCEPT ![w] = "report"]
  /\ UNCHANGED <<tableVars, parent, down, up, wconn, faultVars>>

\* Mutant of WorkerReport: nothing is written.
WorkerReportSilent(w) ==
  /\ wpc[w] = "report"
  /\ wpc' = [wpc EXCEPT ![w] = "read"]
  /\ UNCHANGED <<tableVars, parent, down, up, wconn, wopen, served, faultVars>>

\* write(STDERR_FILENO, "d", 1), back to the top of the loop.
WorkerReport(w) ==
  /\ wpc[w] = "report"
  /\ IF Orphaned(w)
     THEN Dies(w) /\ UNCHANGED up                      \* SIGPIPE
     ELSE /\ up' = [up EXCEPT ![w] = @ + 1]
          /\ wpc' = [wpc EXCEPT ![w] = "read"]
          /\ UNCHANGED <<wconn, wopen, served>>
  /\ UNCHANGED <<tableVars, parent, down, faultVars>>

\* A pending SIGINT kills the worker: it was forked before signal().
WorkerInterrupted(w) ==
  /\ wpc[w] \in Alive /\ w \in doomed
  /\ Dies(w)
  /\ UNCHANGED <<tableVars, parent, down, up, faultVars>>

\* A worker dies on its own, e.g. of a fault in the user's callback.
WorkerCrash(w) ==
  /\ wpc[w] \in Alive /\ Cardinality(crashed) < MaxCrashes
  /\ crashed' = crashed \cup {w}
  /\ Dies(w)
  /\ UNCHANGED <<tableVars, parent, down, up, doomed, noise>>

\* The steps a worker takes by itself.
WorkerStep(w) ==
  \/ WorkerStop(w)
  \/ WorkerReceive(w)
  \/ WorkerReset(w)
  \/ WorkerEof(w)
  \/ WorkerServed(w)
  \/ WorkerReport(w)
  \/ WorkerInterrupted(w)
=============================================================================
