----------------------------- MODULE TcpServer ------------------------------
(***************************************************************************)
(* The server of src/src/tcp_server_core.c from tcp_server_dispatch() to   *)
(* the end of the process: preforking the pool, the select() loop of       *)
(* tcp_server_run(), the SIGINT handler and the shutdown.  The parent is   *)
(* one process; pc says which system call it is about to make, and it has  *)
(* one action per system call.  WorkerPool supplies the state and the      *)
(* steps of the pool and of the worker processes.                          *)
(***************************************************************************)
EXTENDS WorkerPool

CONSTANTS
  Backlog,       \* TCP_SERVER_BACKLOG
  SockFd,        \* the descriptor tcp_server_init() got for listening
  FdWord,        \* bits in a word of an fd_set
  AcceptFails,   \* TRUE when accept() may return -1
  ForkFails,     \* TRUE when fork() may return -1
  SignalPoints,  \* values of pc at which SIGINT may arrive
  SignalScopes,  \* "parent": kill -INT; "group": Ctrl+C on the terminal
  MaxSignals     \* how many SIGINTs may arrive (bound)

PC == {"dispatch", "register", "run", "loop", "blocked", "check", "accept",
       "submit", "find", "eof", "terminate", "wait", "destroy", "exit",
       "hung", "hungInDestroy"}

\* Where the parent stays once it waits for a lock it holds itself.
Hung == {"hung", "hungInDestroy"}

ASSUME ServerAssumption ==
  /\ Backlog \in Nat \ {0}
  /\ SockFd \in Nat
  /\ FdWord \in Nat \ {0}
  /\ AcceptFails \in BOOLEAN
  /\ ForkFails \in BOOLEAN
  /\ SignalPoints \subseteq PC \ ({"exit"} \cup Hung)
  /\ SignalScopes \subseteq {"parent", "group"}
  /\ MaxSignals \in Nat

VARIABLES
  pc,          \* where the parent is
  i,           \* the loop counter of dispatch() and of terminate()
  masterset,   \* the descriptors to wait for
  maxfdp,      \* first argument of select()
  rset,        \* select()'s result, less the bits already tested
  nsel,        \* its count, as the code decrements it
  conn,        \* the accepted descriptor
  serverStop,  \* SERVER_STOP
  backlog,     \* established connections not yet accepted, oldest first
  arrived,     \* connections clients have opened
  signals      \* SIGINTs so far (bounded)

loopVars == <<i, masterset, maxfdp>>
selVars  == <<rset, nsel, conn>>
netVars  == <<backlog, arrived>>
vars     == <<poolVars, pc, loopVars, selVars, serverStop, netVars, signals>>

\* socket() and each socketpair() take the lowest free descriptors and the
\* parent closes its copy of the child's end, so the pipes are numbered
\* consecutively after the listening socket.
PipeFd(w) == SockFd + 1 + w
WorkerOf(fd) == fd - SockFd - 1
Fds == {SockFd} \cup {PipeFd(w) : w \in Worker}

TypeOK ==
  /\ PoolTypeOK
  /\ pc \in PC
  /\ i \in 0 .. WorkersN
  /\ masterset \in SUBSET Fds
  /\ maxfdp \in Nat
  /\ rset \in SUBSET Fds
  /\ nsel \in Int
  /\ conn \in Conn \cup {NoConn}
  /\ serverStop \in BOOLEAN
  /\ backlog \in Seq(Conn)
  /\ arrived \in SUBSET Conn
  /\ signals \in Nat

\* The state after a tcp_server_init() that returned 0, as
\* tcp_server_dispatch() has made the pool.
Init ==
  /\ PoolInit
  /\ pc = "dispatch"
  /\ i = 0
  /\ masterset = {SockFd}
  /\ maxfdp = SockFd + 1
  /\ rset = {}
  /\ nsel = 0
  /\ conn = NoConn
  /\ serverStop = TRUE
  /\ backlog = <<>>
  /\ arrived = {}
  /\ signals = 0

-----------------------------------------------------------------------------
\* Mutant of Dispatch: maxfdp stays as tcp_server_init() set it.
DispatchKeepsMaxfdp ==
  /\ pc = "dispatch" /\ i < WorkersN
  /\ DispatchWorker(i)
  /\ masterset' = masterset \cup {PipeFd(i)}
  /\ i' = i + 1
  /\ UNCHANGED <<pc, maxfdp, selVars, serverStop, netVars, signals>>

\* tcp_server_dispatch(): one turn of the loop that forks the workers.
Dispatch ==
  /\ pc = "dispatch" /\ i < WorkersN
  /\ DispatchWorker(i)
  /\ masterset' = masterset \cup {PipeFd(i)}
  /\ maxfdp' = IF maxfdp > PipeFd(i) THEN maxfdp ELSE PipeFd(i)
  /\ i' = i + 1
  /\ UNCHANGED <<pc, selVars, serverStop, netVars, signals>>

\* The parent that takes the child's branch after a failed fork() exits and
\* the listening socket is closed with it.
DispatchFails ==
  /\ pc = "dispatch" /\ i < WorkersN /\ ForkFails
  /\ DispatchForkFails
  /\ pc' = "exit"
  /\ backlog' = <<>>
  /\ UNCHANGED <<loopVars, selVars, serverStop, arrived, signals>>

DispatchDone ==
  /\ pc = "dispatch" /\ i = WorkersN
  /\ pc' = "register"
  /\ UNCHANGED <<poolVars, loopVars, selVars, serverStop, netVars, signals>>

\* signal(SIGINT, tcp_server_sig_hndlr)
Register ==
  /\ pc = "register"
  /\ pc' = "run"
  /\ UNCHANGED <<poolVars, loopVars, selVars, serverStop, netVars, signals>>

\* tcp_server_run() up to its loop
Run ==
  /\ pc = "run"
  /\ pc' = "loop"
  /\ serverStop' = FALSE
  /\ UNCHANGED <<poolVars, loopVars, selVars, netVars, signals>>

-----------------------------------------------------------------------------
\* select()

\* Mutant of SelectSet: off by one in the test of avail_workers_n.
SelectSetLate == IF avail < 0 THEN masterset \ {SockFd} ELSE masterset

\* The set the loop passes: without the listening socket if no worker is
\* available.
SelectSet == IF avail <= 0 THEN masterset \ {SockFd} ELSE masterset

\* select() looks at descriptors below its first argument only.
Watched(fds) == {fd \in fds : fd < maxfdp}

Ready(fds) ==
  {fd \in Watched(fds) :
     \/ fd = SockFd /\ backlog # <<>>
     \/ fd # SockFd /\ Readable(WorkerOf(fd))}

\* It copies whole words back; a word past the one that holds the last
\* watched bit keeps what the caller put in.
Untouched(fds) ==
  {fd \in fds : \E k \in 0 .. fd : maxfdp <= k * FdWord /\ k * FdWord <= fd}

SelectReturns(fds) ==
  /\ Ready(fds) # {}
  /\ rset' = Ready(fds) \cup Untouched(fds)
  /\ nsel' = Cardinality(Ready(fds))
  /\ pc' = "check"

\* The top of the loop and the call: select() returns at once or blocks,
\* with no timeout.
Select ==
  /\ pc = "loop"
  /\ \/ SelectReturns(SelectSet)
     \/ /\ Ready(SelectSet) = {}
        /\ rset' = SelectSet
        /\ pc' = "blocked"
        /\ UNCHANGED nsel
  /\ UNCHANGED <<poolVars, loopVars, conn, serverStop, netVars, signals>>

SelectWakes ==
  /\ pc = "blocked"
  /\ SelectReturns(rset)
  /\ UNCHANGED <<poolVars, loopVars, conn, serverStop, netVars, signals>>

-----------------------------------------------------------------------------
\* The rest of the loop's body

\* if (SERVER_STOP): leave the loop for worker_pool_workers_terminate().
CheckStop ==
  /\ pc = "check" /\ serverStop
  /\ rset' = {}
  /\ i' = 0
  /\ pc' = "terminate"
  /\ UNCHANGED <<poolVars, masterset, maxfdp, nsel, conn, serverStop,
                 netVars, signals>>

CheckReady ==
  /\ pc = "check" /\ ~serverStop
  /\ pc' = IF SockFd \in rset THEN "accept"
           ELSE IF rset = {} THEN "loop" ELSE "find"
  /\ UNCHANGED <<poolVars, loopVars, selVars, serverStop, netVars, signals>>

\* accept() blocks while nobody waits.  Its result is not tested.
Accept ==
  /\ pc = "accept" /\ backlog # <<>>
  /\ conn' = Head(backlog)
  /\ backlog' = Tail(backlog)
  /\ pc' = "submit"
  /\ UNCHANGED <<poolVars, loopVars, rset, nsel, serverStop, arrived,
                 signals>>

AcceptError ==
  /\ pc = "accept" /\ AcceptFails
  /\ conn' = NoConn
  /\ pc' = "submit"
  /\ UNCHANGED <<poolVars, loopVars, rset, nsel, serverStop, netVars,
                 signals>>

\* The message that logs the connection, the hand-over to a worker,
\* close(conn), --nsel.
Submit ==
  /\ pc = "submit"
  /\ SubmitConn(conn) \/ SubmitOverrun
  /\ conn' = NoConn
  /\ rset' = rset \ {SockFd}
  /\ nsel' = nsel - 1
  /\ pc' = IF parent' # "up" THEN "exit"
           ELSE IF nsel = 1 \/ rset \ {SockFd} = {} THEN "loop" ELSE "find"
  /\ backlog' = IF parent' = "gone" THEN <<>> ELSE backlog
  /\ UNCHANGED <<loopVars, serverStop, arrived, signals>>

\* worker_pool_workers_find_free(): the for loop's next descriptor of the
\* set.  A byte read, or an error, counts one descriptor off nsel; the loop
\* ends with the last one select() counted, or with the last of the set.

\* Mutant of NextFd: the loop counts down.
NextFdDown == Max(rset \ {SockFd})

NextFd == Min(rset \ {SockFd})

\* Mutant of FindFree: nsel is not decremented.
FindFreeKeepsNsel ==
  /\ pc = "find"
  /\ LET w == WorkerOf(NextFd) IN JobDone(w) \/ JobReset(w)
  /\ rset' = rset \ {NextFd}
  /\ pc' = IF rset \ {SockFd, NextFd} = {} THEN "loop" ELSE "find"
  /\ UNCHANGED <<loopVars, nsel, conn, serverStop, netVars, signals>>

FindFree ==
  /\ pc = "find"
  /\ LET w == WorkerOf(NextFd) IN JobDone(w) \/ JobReset(w)
  /\ rset' = rset \ {NextFd}
  /\ nsel' = nsel - 1
  /\ pc' = IF nsel = 1 \/ rset \ {SockFd, NextFd} = {} THEN "loop" ELSE "find"
  /\ UNCHANGED <<loopVars, conn, serverStop, netVars, signals>>

\* A worker's end of file breaks the for loop off.
FindFreeEof ==
  /\ pc = "find"
  /\ JobEof(WorkerOf(NextFd))
  /\ rset' = {}
  /\ pc' = "eof"
  /\ UNCHANGED <<loopVars, nsel, conn, serverStop, netVars, signals>>

\* The message "child terminated unexpectedly", and back to the loop.
FindFreeEofLogged ==
  /\ pc = "eof"
  /\ pc' = "loop"
  /\ UNCHANGED <<poolVars, loopVars, selVars, serverStop, netVars, signals>>

-----------------------------------------------------------------------------
\* Shutdown

\* Mutant of Terminate: the last worker is left out.
TerminateAllButLast ==
  /\ pc = "terminate" /\ i < WorkersN
  /\ IF i < WorkersN - 1 THEN TerminateWorker(i) ELSE UNCHANGED poolVars
  /\ i' = i + 1
  /\ pc' = IF parent' = "up" THEN "terminate" ELSE "exit"
  /\ backlog' = IF parent' = "up" THEN backlog ELSE <<>>
  /\ UNCHANGED <<masterset, maxfdp, selVars, serverStop, arrived, signals>>

Terminate ==
  /\ pc = "terminate" /\ i < WorkersN
  /\ TerminateWorker(i)
  /\ i' = i + 1
  /\ pc' = IF parent' = "up" THEN "terminate" ELSE "exit"
  /\ backlog' = IF parent' = "up" THEN backlog ELSE <<>>
  /\ UNCHANGED <<masterset, maxfdp, selVars, serverStop, arrived, signals>>

TerminateDone ==
  /\ pc = "terminate" /\ i = WorkersN
  /\ pc' = "wait"
  /\ UNCHANGED <<poolVars, loopVars, selVars, serverStop, netVars, signals>>

Wait ==
  /\ pc = "wait" /\ AllWorkersExited
  /\ pc' = "destroy"
  /\ UNCHANGED <<poolVars, loopVars, selVars, serverStop, netVars, signals>>

\* tcp_server_destroy() and the return from main().
Destroy ==
  /\ pc = "destroy"
  /\ ParentGone
  /\ pc' = "exit"
  /\ backlog' = <<>>
  /\ UNCHANGED <<loopVars, selVars, serverStop, arrived, signals>>

-----------------------------------------------------------------------------
\* SIGINT

\* Where the parent runs log_msg(), which takes libc's time-zone lock.
Logging == {"submit", "eof", "destroy"}

\* Ctrl+C reaches every process of the group, kill -INT the parent alone.
Deliver(scope) ==
  /\ parent = "up" /\ pc \in SignalPoints /\ signals < MaxSignals
  /\ signals' = signals + 1
  /\ doomed' = IF scope = "parent" THEN doomed
               ELSE doomed \cup {w \in Worker : wpc[w] \in Alive}
  /\ UNCHANGED <<tableVars, down, up, workerVars, crashed, noise, arrived>>

\* Before signal() the default action ends the parent.
SigintDefault(scope) ==
  /\ Deliver(scope)
  /\ pc \in {"dispatch", "register"}
  /\ parent' = "gone"
  /\ pc' = "exit"
  /\ backlog' = <<>>
  /\ UNCHANGED <<loopVars, selVars, serverStop>>

\* tcp_server_sig_hndlr().  A select() that has blocked returns -1 with
\* EINTR and leaves rset alone; every other call is restarted.
SigintHandler(scope) ==
  /\ Deliver(scope)
  /\ pc \notin {"dispatch", "register"}
  /\ serverStop' = TRUE
  /\ pc' = IF pc = "blocked" THEN "check" ELSE pc
  /\ nsel' = IF pc = "blocked" THEN -1 ELSE nsel
  /\ UNCHANGED <<parent, loopVars, rset, conn, backlog>>

\* The handler logs too: if it interrupts log_msg() while the lock is held,
\* the parent waits for itself.
SigintHang(scope) ==
  /\ Deliver(scope)
  /\ pc \in Logging
  /\ serverStop' = TRUE
  /\ pc' = IF pc = "destroy" THEN "hungInDestroy" ELSE "hung"
  /\ UNCHANGED <<parent, loopVars, selVars, backlog>>

-----------------------------------------------------------------------------
\* A client connects; the kernel completes the handshake if there is room.
Arrive(c) ==
  /\ parent = "up" /\ c \notin arrived /\ Len(backlog) < Backlog
  /\ arrived' = arrived \cup {c}
  /\ backlog' = Append(backlog, c)
  /\ UNCHANGED <<poolVars, pc, loopVars, selVars, serverStop, signals>>

\* What the parent does by itself.
ParentStep ==
  \/ Dispatch \/ DispatchDone \/ Register \/ Run
  \/ Select \/ SelectWakes
  \/ CheckStop \/ CheckReady \/ Accept \/ Submit
  \/ FindFree \/ FindFreeEof \/ FindFreeEofLogged
  \/ Terminate \/ TerminateDone \/ Wait \/ Destroy

serverVars == <<pc, loopVars, selVars, serverStop, netVars, signals>>

\* What worker w does by itself.
WorkerRuns(w) == WorkerStep(w) /\ UNCHANGED serverVars

Sigint(scope) ==
  SigintDefault(scope) \/ SigintHandler(scope) \/ SigintHang(scope)

Next ==
  \/ ParentStep
  \/ DispatchFails
  \/ AcceptError
  \/ \E scope \in SignalScopes : Sigint(scope)
  \/ \E c \in Conn : Arrive(c)
  \/ \E w \in Worker : WorkerRuns(w)
  \/ \E w \in Worker : WorkerStderr(w) /\ UNCHANGED serverVars
  \/ \E w \in Worker : WorkerCrash(w) /\ UNCHANGED serverVars

Spec == Init /\ [][Next]_vars

\* The scheduler runs every process that can run; a callback returns if its
\* client is not silent.  No fairness is assumed of clients, signals, failures
\* and crashes.
Fairness ==
  /\ WF_vars(ParentStep)
  /\ \A w \in Worker : WF_vars(WorkerRuns(w))

FairSpec == Spec /\ Fairness

-----------------------------------------------------------------------------
\* Safety properties

\* avail_workers_n is a cached count: it always equals the number of workers
\* the table shows as ready, whatever mixture of submissions, reports, failed
\* accepts and dying workers has gone before (worker_pool.c:210, :239).
AvailExact == avail = Cardinality(FreeWorkers)

\* Output on a callback's stderr makes avail_workers_n too large but nothing
\* makes it too small: the server never stops listening while a worker is
\* ready (tcp_server_core.c:292, worker_pool.c:210, :239).
AvailNeverLow == avail >= Cardinality(FreeWorkers)

\* Worker w has been handed a connection it has not started on.
HasJob(w) == down[w] # <<>> /\ Head(down[w]).cmd = "p"

\* A worker has one job at a time and the parent knows: the job is in the
\* pipe, in the callback or reported but not collected, never two of these,
\* and as long as it is anywhere the table says busy (worker_pool.c:208-238).
OneJob ==
  \A w \in Worker :
    /\ Cardinality({k \in DOMAIN down[w] : down[w][k].cmd = "p"})
         + (IF wpc[w] \in Busy THEN 1 ELSE 0) + up[w] <= status[w]

\* The other direction: no worker is taken out of service.  If no descriptor
\* and no accept() fails, a worker the table shows as busy has a job, in its
\* pipe, in its hands or reported, unless it has died (worker_pool.c:208,
\* :238, :144-147).
BusyHasJob ==
  ~AcceptFails /\ ~FdTruncation =>
    \A w \in Worker :
      status[w] = 1 => HasJob(w) \/ wpc[w] \in Busy \cup {"dead"} \/ up[w] > 0

\* When the parent has accepted a connection there is a ready worker for it:
\* the search in worker_pool_workers_submit_conn() does not run off the end
\* of the array (worker_pool.c:203), although the test of avail_workers_n
\* that guarantees it was made before select().
WorkerForConnection ==
  pc \in {"accept", "submit"} => FreeWorkers # {}

\* No system call after select() blocks: accept() finds a connection, and
\* the read() of a worker's pipe finds a byte, an error or end of file.  The
\* second needs nsel to be exact, for rset can contain descriptors select()
\* has not looked at (tcp_server_core.c:301-326, worker_pool.c:226-243).
NoBlockingCall ==
  /\ pc = "accept" => backlog # <<>>
  /\ pc = "find" => rset \ {SockFd} # {} /\ Readable(WorkerOf(NextFd))

\* Connections on their way to worker w.
InPipe(w) ==
  IF wpc[w] = "dead" THEN {}
  ELSE {down[w][k].conn : k \in DOMAIN down[w]} \ {NoConn}

\* The places where a client's connection is: the accept queue, the parent,
\* a pipe, a worker, or "served".
Holders(c) ==
  {<<"queue", k>> : k \in {n \in DOMAIN backlog : backlog[n] = c}}
    \cup {<<"pipe", w>> : w \in {v \in Worker : c \in InPipe(v)}}
    \cup {<<"worker", w>> : w \in {v \in Worker : wopen[v] /\ wconn[v] = c}}
    \cup (IF conn = c THEN {<<"parent", 0>>} ELSE {})
    \cup (IF c \in served THEN {<<"served", 0>>} ELSE {})

\* A connection is in one place at a time: no two processes ever work on it,
\* and none works on it again after it was served (tcp_server_core.c:318-319,
\* worker_pool.c:154-156).
OneHolder == \A c \in Conn : Cardinality(Holders(c)) <= 1

NoFaults == parent = "up" /\ crashed = {} /\ doomed = {} /\ ~FdTruncation

\* While nothing has failed, a connection a client has opened is somewhere:
\* the hand-over from process to process loses none.
NoLostConnection ==
  NoFaults => \A c \in arrived : Holders(c) # {}

\* Workers that have died on their own, or been sent a SIGINT; and those of
\* them that are dead.
Killed == crashed \cup doomed
Fallen == {w \in Killed : wpc[w] = "dead"}

\* A dying worker takes no client with it but its own: while the parent is
\* there, and until a callback prints, no more connections are lost than
\* workers have died of a crash or a SIGINT (worker_pool.c:130-162, :203-213).
LossBounded ==
  parent = "up" /\ noise = 0 /\ ~FdTruncation =>
    Cardinality({c \in arrived : Holders(c) = {}}) <= Cardinality(Fallen)

\* When worker_pool_workers_terminate() returns, every connection that was
\* handed to a worker has been served: the "s" is queued behind the job, and
\* a worker in its callback finishes first (worker_pool.c:253-264).
DrainedShutdown ==
  pc = "destroy" /\ NoFaults =>
    \A c \in arrived : c \in served \/ \E k \in DOMAIN backlog : backlog[k] = c

\* wait() waits for nobody who is not on the way out: when it is called "s" is
\* the last thing in the pipe of every worker that is alive, behind whatever
\* job it has, though workers may be in their callbacks, have died since or be
\* about to be interrupted (worker_pool.c:253-264).
StopDelivered ==
  pc = "wait" =>
    \A w \in Worker :
      wpc[w] = "dead" \/ (down[w] # <<>> /\ down[w][Len(down[w])].cmd = "s")

\* A worker runs the callback on a descriptor it does not hold, left over
\* from its last job, only after the parent has gone (worker_pool.c:132-154).
StaleOnlyOrphaned ==
  \A w \in Worker : wpc[w] = "callback" /\ ~wopen[w] => parent # "up"

\* A byte in a worker's pipe while the parent blocks in select(): select()
\* is looking at that pipe.
PipeWatched(w) ==
  pc = "blocked" /\ up[w] > 0 => PipeFd(w) \in Watched(rset)

\* Every worker but the last is watched, so its report wakes the parent
\* (tcp_server_core.c:251, :301).
ReportsWatched == \A w \in Worker : w < WorkersN - 1 => PipeWatched(w)

-----------------------------------------------------------------------------
\* Liveness properties

\* A silent client keeps its worker in the callback.
HeldUp(w) == wopen[w] /\ wconn[w] \in Silent

\* Every client that sends something is served in the end, unless the server
\* is told to stop, although each silent client keeps a worker for ever and
\* the last worker serves one client only: one worker that is neither is
\* enough (tcp_server_core.c:251, :338).
EveryClientServed ==
  \A c \in Conn \ Silent : c \in arrived ~> c \in served \/ signals > 0

\* A SIGINT that interrupts select(), or comes before the test of
\* SERVER_STOP, ends the server: all workers exit, then the parent.  Only a
\* silent client keeps its worker, and with it the parent, from ending.
GracefulStop ==
  signals > 0 ~> \/ pc = "exit" /\ AllWorkersExited
                 \/ pc = "wait" /\ \A w \in Worker : wpc[w] = "dead" \/ HeldUp(w)

\* A worker serves the connection it has been sent, unless it is killed or
\* crashes itself: even if the parent has died, hangs or has told the worker to
\* stop, the worker sees the job before the end (worker_pool.c:130-162, :257).
HandedOverServed ==
  FdTruncation \/
    \A c \in Conn \ Silent, w \in Worker :
      c \in InPipe(w) \/ (wopen[w] /\ wconn[w] = c)
        ~> c \in served \/ w \in crashed \cup doomed

\* A report is collected while the server runs, from every worker that
\* select() watches and that has no dead worker before it in the array: a
\* dead one's end of file is what every select() returns, and it breaks the
\* loop off there, but those before it do not starve (worker_pool.c:224-233).
ReportsCollected ==
  \A w \in Worker :
    w < WorkersN - 1 /\ up[w] > 0
      ~> \/ up[w] = 0
         \/ parent # "up" \/ serverStop
         \/ \E v \in Worker : v < w /\ wpc[v] = "dead"

\* Once tcp_server_run() has begun, a SIGINT at any point, to the parent or
\* to the group, with a dead worker or without, has one of three outcomes.  The
\* process ends; or it hangs in log_msg(), or in select() with no descriptor
\* ready; or it waits for good in wait(), and then for workers only that silent
\* clients hold up (tcp_server_core.c:287-329, worker_pool.c:254-264).
StopHonoured ==
  serverStop /\ pc \notin {"dispatch", "register", "run"}
    ~> \/ pc \in {"exit"} \cup Hung
       \/ pc = "blocked" /\ Ready(rset) = {}
       \/ pc = "wait" /\ \A w \in Worker : wpc[w] = "dead" \/ HeldUp(w)

\* When the parent has gone the workers go in reverse order, for the later ones
\* hold copies of the parent's ends of the earlier ones' pipes.  So a worker
\* stays behind only if a silent client holds it up, or a later one
\* (worker_pool.c:102-133, :154).
OrphansExit ==
  parent = "gone" ~>
    [](\A w \in Worker : \/ wpc[w] \in {"unborn", "dead"}
                        \/ \E v \in Worker : v >= w /\ HeldUp(v))

-----------------------------------------------------------------------------
\* What the comments and the documentation say and the code does not do.

\* "Find any newly-available children": a report is collected.
EveryReportCollected == \A w \in Worker : up[w] > 0 ~> up[w] = 0

\* status "0 = ready": a worker marked ready while the server is running is
\* there to take a connection.
ReadyIsAlive ==
  \A w \in Worker : pc = "submit" /\ status[w] = 0 => wpc[w] # "dead"

\* "job done": a worker is marked ready when its callback has returned.
JobDoneIsDone ==
  [][\A w \in Worker : status[w] = 1 /\ status'[w] = 0 => wpc[w] \notin Busy]_vars

\* tcp_server_run() runs "until Ctrl+C (SIGINT) interrupt is received".
StopsOnSigint == serverStop /\ pc = "loop" ~> pc \in {"terminate", "exit"}

\* After Ctrl+C tcp_server_run() returns and the program goes on to
\* tcp_server_destroy().
ReturnsBeforeExit ==
  [][pc # "exit" /\ pc' = "exit" => pc = "destroy"]_vars
=============================================================================
