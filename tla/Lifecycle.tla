------------------------------ MODULE Lifecycle ------------------------------
(***************************************************************************)
(* The server object from tcp_server_new() to tcp_server_destroy(), called *)
(* as examples/server/main.c and tcp_server_test() call it, and the        *)
(* descriptor tables it leaves behind: the parent's, and the one with      *)
(* which every worker enters its routine.  What happens between the        *)
(* processes once the pool is forked is module TcpServer.                  *)
(***************************************************************************)
EXTENDS Integers, FiniteSetsExt

CONSTANTS
  WorkersN,    \* workers asked for
  MaxFds,      \* RLIMIT_NOFILE
  FdSetSize,   \* FD_SETSIZE
  StartSets,   \* sets of descriptors the process may start with
  Programs     \* "main": examples/server/main.c; "test": tcp_server_test()

Worker == 0 .. WorkersN - 1
Fd     == 0 .. MaxFds - 1

ASSUME LifecycleAssumption ==
  /\ WorkersN \in Nat
  /\ MaxFds \in Nat /\ MaxFds >= 3
  /\ FdSetSize \in Nat \ {0}
  /\ StartSets \subseteq SUBSET Fd
  /\ Programs \subseteq {"main", "test"}

\* What a descriptor can refer to.
Free         == <<"free", 0>>
Other        == <<"other", 0>>      \* open before the program started
Listening    == <<"listening", 0>>
ParentEnd(w) == <<"parent", w>>     \* the ends of worker w's socketpair
ChildEnd(w)  == <<"child", w>>
OwnFiles     == {Listening} \cup {ParentEnd(w) : w \in Worker}
                            \cup {ChildEnd(w) : w \in Worker}
Table        == [Fd -> {Free, Other} \cup OwnFiles]
NoFiles      == [fd \in Fd |-> Free]

VARIABLES
  prog,        \* the program that runs
  pc,          \* where it is
  server,      \* its object: "none", "live", "freed"
  ret,         \* result of tcp_server_init()
  sockFd,      \* sock_fd
  masterset,   \* masterset
  maxfdp,      \* maxfdp
  workersN,    \* workers_n of the object
  pipefd,      \* worker[i].pipefd
  i,           \* the loop counter of tcp_server_dispatch()
  fds,         \* the process's descriptor table
  wfds,        \* each worker's, where its routine begins
  noPair       \* workers for whom socketpair() has failed (history)

objVars == <<sockFd, masterset, maxfdp, workersN>>
tabVars == <<fds, wfds>>
vars    == <<prog, pc, server, ret, objVars, pipefd, i, tabVars, noPair>>

TypeOK ==
  /\ prog \in Programs
  /\ pc \in {"start", "new", "init", "inited", "dispatch", "run", "destroy",
             "destroyed", "returned", "killed", "spin", "overrun"}
  /\ server \in {"none", "live", "freed"}
  /\ ret \in {0, -1}
  /\ sockFd \in Fd \cup {-1}
  /\ masterset \in SUBSET Fd
  /\ maxfdp \in 0 .. MaxFds
  /\ workersN \in {0, WorkersN}
  /\ pipefd \in [Worker -> Fd]
  /\ i \in 0 .. WorkersN
  /\ fds \in Table
  /\ wfds \in [Worker -> Table]
  /\ noPair \in SUBSET Worker

Init ==
  /\ prog \in Programs
  /\ pc = "start"
  /\ server = "none"
  /\ ret = 0
  /\ sockFd = 0 /\ masterset = {} /\ maxfdp = 0 /\ workersN = 0
  /\ pipefd = [w \in Worker |-> 0]
  /\ i = 0
  /\ \E S \in StartSets : fds = [fd \in Fd |-> IF fd \in S THEN Other ELSE Free]
  /\ wfds = [w \in Worker |-> NoFiles]
  /\ noPair = {}

-----------------------------------------------------------------------------
\* System calls on a descriptor table

FreeFds(t) == {fd \in Fd : t[fd] = Free}

\* The kernel hands out the lowest free descriptor.
Lowest(t) == Min(FreeFds(t))

Open(t, file) == [t EXCEPT ![Lowest(t)] = file]

\* close() of a descriptor that is not open, or is none, changes nothing.
Close(t, fd) == IF fd \in Fd THEN [t EXCEPT ![fd] = Free] ELSE t

Dup2(t, old, new) == IF t[old] = Free THEN t ELSE [t EXCEPT ![new] = t[old]]

\* FD_SET of a larger number writes outside the fd_set, where C defines
\* nothing: pc = "overrun", and the program is followed no further.
InFdSet(fd) == fd < FdSetSize

-----------------------------------------------------------------------------
\* main() looks whether the interface is up, with a socket of its own.
IfaceDown ==
  /\ pc = "start" /\ prog = "main"
  /\ pc' = "returned"
  /\ UNCHANGED <<prog, server, ret, objVars, pipefd, i, tabVars, noPair>>

IfaceUp ==
  /\ pc = "start" /\ (prog = "main" => FreeFds(fds) # {})
  /\ pc' = "new"
  /\ UNCHANGED <<prog, server, ret, objVars, pipefd, i, tabVars, noPair>>

\* tcp_server_new(): all fields are 0.
New ==
  /\ pc = "new"
  /\ server' = "live"
  /\ pc' = "init"
  /\ UNCHANGED <<prog, ret, objVars, pipefd, i, tabVars, noPair>>

\* tcp_server_init(): the interface has no address, or there is no socket to
\* ask with; socket() fails; setsockopt(), bind() or listen() fails after it.
InitNoAddress ==
  /\ pc = "init"
  /\ ret' = -1
  /\ pc' = "inited"
  /\ UNCHANGED <<prog, server, objVars, pipefd, i, tabVars, noPair>>

InitNoSocket ==
  /\ pc = "init"
  /\ sockFd' = -1
  /\ ret' = -1
  /\ pc' = "inited"
  /\ UNCHANGED <<prog, server, masterset, maxfdp, workersN, pipefd, i,
                 tabVars, noPair>>

\* Mutant of InitBacksOut: the socket stays open.
InitBacksOutOpen ==
  /\ pc = "init" /\ FreeFds(fds) # {}
  /\ sockFd' = Lowest(fds)
  /\ fds' = Open(fds, Listening)
  /\ ret' = -1
  /\ pc' = "inited"
  /\ UNCHANGED <<prog, server, masterset, maxfdp, workersN, pipefd, i, wfds,
                 noPair>>

InitBacksOut ==
  /\ pc = "init" /\ FreeFds(fds) # {}
  /\ sockFd' = Lowest(fds)
  /\ fds' = Close(Open(fds, Listening), sockFd')
  /\ ret' = -1
  /\ pc' = "inited"
  /\ UNCHANGED <<prog, server, masterset, maxfdp, workersN, pipefd, i, wfds,
                 noPair>>

InitSucceeds ==
  /\ pc = "init" /\ FreeFds(fds) # {} /\ InFdSet(Lowest(fds))
  /\ sockFd' = Lowest(fds)
  /\ fds' = Open(fds, Listening)
  /\ masterset' = {sockFd'}
  /\ maxfdp' = sockFd' + 1
  /\ workersN' = WorkersN
  /\ ret' = 0
  /\ pc' = "inited"
  /\ UNCHANGED <<prog, server, pipefd, i, wfds, noPair>>

\* The socket does not fit masterset.
InitOverrun ==
  /\ pc = "init" /\ FreeFds(fds) # {} /\ ~InFdSet(Lowest(fds))
  /\ sockFd' = Lowest(fds)
  /\ fds' = Open(fds, Listening)
  /\ pc' = "overrun"
  /\ UNCHANGED <<prog, server, ret, masterset, maxfdp, workersN, pipefd, i,
                 wfds, noPair>>

\* Mutant of Inited: main() does not look at the result.
InitedUnchecked ==
  /\ pc = "inited"
  /\ pc' = "dispatch"
  /\ UNCHANGED <<prog, server, ret, objVars, pipefd, i, tabVars, noPair>>

\* main() returns if the initialisation has failed; tcp_server_test() does
\* not look at the result.
Inited ==
  /\ pc = "inited"
  /\ pc' = IF prog = "main" /\ ret = -1 THEN "returned" ELSE "dispatch"
  /\ UNCHANGED <<prog, server, ret, objVars, pipefd, i, tabVars, noPair>>

-----------------------------------------------------------------------------
\* tcp_server_dispatch() and worker_pool_dispatch_worker()

\* socketpair() needs two free descriptors.  It may fail although there are:
\* the system can be short of files or of memory.
PairFits == Cardinality(FreeFds(fds)) >= 2

\* Its two descriptors when it succeeds, and the table that goes with them.
FirstEnd == Lowest(fds)
PairTable1(w) == Open(fds, ParentEnd(w))
SecondEnd(w) == Lowest(PairTable1(w))
PairTable(w) == Open(PairTable1(w), ChildEnd(w))

\* Mutants of ChildTable: the child keeps its copy of sockfd[0]; it keeps the
\* listening socket.
ChildTableKeepsEnd(w) ==
  LET duped == Dup2(PairTable(w), SecondEnd(w), 2)
  IN  Close(Close(duped, SecondEnd(w)), sockFd)
ChildTableKeepsSocket(w) ==
  LET duped == Dup2(PairTable(w), SecondEnd(w), 2)
  IN  Close(Close(duped, FirstEnd), SecondEnd(w))

\* The child: dup2() to stderr, then close sockfd[0], sockfd[1] and the
\* listening socket.
ChildTable(w) ==
  LET duped == Dup2(PairTable(w), SecondEnd(w), 2)
  IN  Close(Close(Close(duped, FirstEnd), SecondEnd(w)), sockFd)

\* The same when socketpair() has failed and left {0, 0}.
PairlessTable == Close(Close(Dup2(fds, 0, 2), 0), sockFd)

\* Mutants of Dispatch: one turn too many; the parent keeps the child's end;
\* it closes its own instead; maxfdp stays as it was.
DispatchOneMore ==
  /\ pc = "dispatch" /\ i <= workersN /\ PairFits /\ InFdSet(FirstEnd)
  /\ wfds' = [wfds EXCEPT ![i] = ChildTable(i)]
  /\ fds' = Close(PairTable(i), SecondEnd(i))
  /\ pipefd' = [pipefd EXCEPT ![i] = FirstEnd]
  /\ masterset' = masterset \cup {FirstEnd}
  /\ maxfdp' = Max({maxfdp, FirstEnd})
  /\ i' = i + 1
  /\ UNCHANGED <<prog, pc, server, ret, sockFd, workersN, noPair>>
DispatchKeepsEnd ==
  /\ pc = "dispatch" /\ i < workersN /\ PairFits /\ InFdSet(FirstEnd)
  /\ wfds' = [wfds EXCEPT ![i] = ChildTable(i)]
  /\ fds' = PairTable(i)
  /\ pipefd' = [pipefd EXCEPT ![i] = FirstEnd]
  /\ masterset' = masterset \cup {FirstEnd}
  /\ maxfdp' = Max({maxfdp, FirstEnd})
  /\ i' = i + 1
  /\ UNCHANGED <<prog, pc, server, ret, sockFd, workersN, noPair>>
DispatchClosesOwnEnd ==
  /\ pc = "dispatch" /\ i < workersN /\ PairFits /\ InFdSet(FirstEnd)
  /\ wfds' = [wfds EXCEPT ![i] = ChildTable(i)]
  /\ fds' = Close(PairTable(i), FirstEnd)
  /\ pipefd' = [pipefd EXCEPT ![i] = FirstEnd]
  /\ masterset' = masterset \cup {FirstEnd}
  /\ maxfdp' = Max({maxfdp, FirstEnd})
  /\ i' = i + 1
  /\ UNCHANGED <<prog, pc, server, ret, sockFd, workersN, noPair>>
DispatchKeepsMaxfdp ==
  /\ pc = "dispatch" /\ i < workersN /\ PairFits /\ InFdSet(FirstEnd)
  /\ wfds' = [wfds EXCEPT ![i] = ChildTable(i)]
  /\ fds' = Close(PairTable(i), SecondEnd(i))
  /\ pipefd' = [pipefd EXCEPT ![i] = FirstEnd]
  /\ masterset' = masterset \cup {FirstEnd}
  /\ maxfdp' = maxfdp
  /\ i' = i + 1
  /\ UNCHANGED <<prog, pc, server, ret, sockFd, workersN, noPair>>

\* One worker, both calls succeed: the child's table, then the parent's.
Dispatch ==
  /\ pc = "dispatch" /\ i < workersN /\ PairFits /\ InFdSet(FirstEnd)
  /\ wfds' = [wfds EXCEPT ![i] = ChildTable(i)]
  /\ fds' = Close(PairTable(i), SecondEnd(i))
  /\ pipefd' = [pipefd EXCEPT ![i] = FirstEnd]
  /\ masterset' = masterset \cup {FirstEnd}
  /\ maxfdp' = Max({maxfdp, FirstEnd})
  /\ i' = i + 1
  /\ UNCHANGED <<prog, pc, server, ret, sockFd, workersN, noPair>>

\* socketpair() fails and fork() does not: the parent closes descriptor 0 and
\* takes it for its end of the pipe.
DispatchNoPair ==
  /\ pc = "dispatch" /\ i < workersN
  /\ wfds' = [wfds EXCEPT ![i] = PairlessTable]
  /\ fds' = Close(fds, 0)
  /\ pipefd' = [pipefd EXCEPT ![i] = 0]
  /\ masterset' = masterset \cup {0}
  /\ i' = i + 1
  /\ noPair' = noPair \cup {i}
  /\ UNCHANGED <<prog, pc, server, ret, sockFd, maxfdp, workersN>>

\* Both succeed, with a pipe that does not fit masterset: the worker has been
\* forked and recorded when worker_pool_worker_fd_set() is called.
DispatchOverrun ==
  /\ pc = "dispatch" /\ i < workersN /\ PairFits /\ ~InFdSet(FirstEnd)
  /\ wfds' = [wfds EXCEPT ![i] = ChildTable(i)]
  /\ fds' = Close(PairTable(i), SecondEnd(i))
  /\ pipefd' = [pipefd EXCEPT ![i] = FirstEnd]
  /\ pc' = "overrun"
  /\ UNCHANGED <<prog, server, ret, objVars, i, noPair>>

\* fork() = -1: the parent goes the child's way.  If descriptor 2 is its end
\* of the pipe it reads end-of-file and exits.  If not, ipc_fd_read() fails for
\* ever, unless what cmd is not initialised to is taken for an "s".
DispatchForkFails ==
  /\ pc = "dispatch" /\ i < workersN /\ PairFits
  /\ fds' = ChildTable(i)
  /\ pc' \in {"killed"} \cup (IF fds'[2] = ChildEnd(i) THEN {} ELSE {"spin"})
  /\ UNCHANGED <<prog, server, ret, objVars, pipefd, i, wfds, noPair>>

\* Both fail.
DispatchAllFails ==
  /\ pc = "dispatch" /\ i < workersN
  /\ fds' = PairlessTable
  /\ pc' \in {"killed", "spin"}
  /\ noPair' = noPair \cup {i}
  /\ UNCHANGED <<prog, server, ret, objVars, pipefd, i, wfds>>

DispatchDone ==
  /\ pc = "dispatch" /\ i = workersN
  /\ pc' = "run"
  /\ UNCHANGED <<prog, server, ret, objVars, pipefd, i, tabVars, noPair>>

-----------------------------------------------------------------------------
\* tcp_server_run() closes each descriptor it opens.  It returns after
\* SIGINT, or the process ends in it.
RunReturns ==
  /\ pc = "run"
  /\ pc' = "destroy"
  /\ UNCHANGED <<prog, server, ret, objVars, pipefd, i, tabVars, noPair>>

RunKilled ==
  /\ pc = "run"
  /\ pc' = "killed"
  /\ UNCHANGED <<prog, server, ret, objVars, pipefd, i, tabVars, noPair>>

\* Mutant of Destroy: the listening socket is left open.
DestroyFreesOnly ==
  /\ pc = "destroy"
  /\ server' = "freed"
  /\ pc' = "destroyed"
  /\ UNCHANGED <<prog, ret, objVars, pipefd, i, tabVars, noPair>>

\* tcp_server_destroy(), with worker_pool_destroy(), which frees memory only.
Destroy ==
  /\ pc = "destroy"
  /\ fds' = IF sockFd = 0 THEN fds ELSE Close(fds, sockFd)
  /\ server' = "freed"
  /\ pc' = "destroyed"
  /\ UNCHANGED <<prog, ret, objVars, pipefd, i, wfds, noPair>>

Return ==
  /\ pc = "destroyed"
  /\ pc' = "returned"
  /\ UNCHANGED <<prog, server, ret, objVars, pipefd, i, tabVars, noPair>>

Next ==
  \/ IfaceDown \/ IfaceUp \/ New
  \/ InitNoAddress \/ InitNoSocket \/ InitBacksOut \/ InitSucceeds
  \/ InitOverrun \/ Inited
  \/ Dispatch \/ DispatchNoPair \/ DispatchOverrun
  \/ DispatchForkFails \/ DispatchAllFails \/ DispatchDone
  \/ RunReturns \/ RunKilled \/ Destroy \/ Return

Spec == Init /\ [][Next]_vars

-----------------------------------------------------------------------------
\* Safety properties

Started == IF pc \in {"dispatch", "run", "destroy"} THEN 0 .. i - 1 ELSE {}

\* "child's stream pipe to parent": a worker has its own end of its own pipe,
\* as descriptor 2 and as no other, nobody else's, and not the listening
\* socket, whatever was open when the program started, if only stderr was
\* and no socketpair() has failed (worker_pool.c:119-125).
WorkerPlumbing ==
  noPair = {} =>
    \A w \in Started :
      /\ wfds[w][2] = ChildEnd(w)
      /\ \A fd \in Fd \ {2} :
           wfds[w][fd] # Listening /\ \A v \in Worker : wfds[w][fd] # ChildEnd(v)

\* A failed socketpair() takes descriptor 0 from the parent and nothing else:
\* each worker whose own has succeeded starts with its pipe, the parent keeps
\* its end of it and goes on listening, however many fail and whenever, unless
\* that end or the socket has number 0.  They may: 0 is free after the first
\* failure, the next pair gets it, and a further failure closes it again
\* (worker_pool.c:96-122).
OnlyZeroHarmed ==
  /\ \A w \in Started \ noPair :
       /\ wfds[w][2] = ChildEnd(w)
       /\ pipefd[w] # 0 => fds[pipefd[w]] = ParentEnd(w)
  /\ pc \in {"dispatch", "run", "destroy"} /\ ret = 0 /\ sockFd # 0 =>
       fds[sockFd] = Listening

\* How many workers an fd_set has room for: the parent keeps one descriptor
\* for each worker and one for the socket, besides what was open, and does
\* not run past the end of masterset before these exceed FD_SETSIZE, although
\* socketpair() takes two at a time (tcp_server_core.c:215,
\* worker_pool.c:105, :172).
FdSetFits ==
  pc = "overrun" /\ noPair = {} =>
    Cardinality({fd \in Fd : fds[fd] = Other}) + 1 + WorkersN > FdSetSize

\* A worker inherits the parent's end of exactly the pipes made before its
\* own: who sees end-of-file when (worker_pool.c:102-121).
InheritedEnds ==
  noPair = {} =>
    \A w \in Started, v \in Worker :
      (\E fd \in Fd : wfds[w][fd] = ParentEnd(v)) <=> v < w

\* The parent reaches each worker at worker[i].pipefd, and keeps no copy of a
\* child's end: the end of a worker shows as end-of-file (worker_pool.c:105).
ParentEnds ==
  noPair = {} =>
    \A fd \in Fd, v \in Worker :
      /\ (fds[fd] = ParentEnd(v) /\ pc \notin {"killed", "overrun"}) =>
           v < i /\ fd = pipefd[v]
      /\ v \in Started => fds[pipefd[v]] = ParentEnd(v)
      /\ pc # "killed" => fds[fd] # ChildEnd(v)

\* The pipes come after the listening socket in the order of the workers, so
\* the bound select() is given leaves out nobody but the last worker
\* (tcp_server_core.c:216, :251, :301).
OnlyLastUnwatched ==
  pc = "run" /\ noPair = {} /\ workersN > 0 =>
    /\ sockFd < maxfdp
    /\ \A w \in Worker : pipefd[w] >= maxfdp => w = WorkersN - 1
    /\ \A v, w \in Worker : v < w => sockFd < pipefd[v] /\ pipefd[v] < pipefd[w]

\* In a process that starts with the standard three descriptors the pipes are
\* numbered consecutively from the listening socket (TcpServer!PipeFd).
ConsecutivePipes ==
  pc = "run" /\ noPair = {} /\ (\A fd \in Fd : fds[fd] = Other <=> fd \in {0, 1, 2}) =>
    \A w \in Started : pipefd[w] = sockFd + 1 + w

\* tcp_server_init() that fails leaves no descriptor open
\* (tcp_server_core.c:174-211).
FailedInitClean == [][pc = "init" /\ ret' = -1 => fds' = fds]_vars

\* main() runs the loop only on a server that listens, with the listening
\* socket in the set, and the workers asked for (main.c:141-149).
MainListens ==
  pc = "run" /\ prog = "main" /\ noPair = {} =>
    fds[sockFd] = Listening /\ sockFd \in masterset /\ workersN = WorkersN

\* After tcp_server_destroy() the port is free again, but for a listening
\* socket that was given number 0 (tcp_server_core.c:111-114).
ListeningClosed ==
  pc = "destroyed" => \A fd \in Fd \ {0} : fds[fd] # Listening

-----------------------------------------------------------------------------
\* What a comment says and the code does not do.

\* "child's stream pipe to parent", for a worker as it starts whose
\* socketpair() has succeeded.
StreamPipeToParent == \A w \in Started \ noPair : wfds[w][2] = ChildEnd(w)
=============================================================================
