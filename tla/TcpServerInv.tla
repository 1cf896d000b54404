---------------------------- MODULE TcpServerInv -----------------------------
(***************************************************************************)
(* Inductive invariants of TcpServer: the properties of TcpServer that are *)
(* proved, with what has to be known besides for a step to preserve them.  *)
(***************************************************************************)
EXTENDS TcpServer

\* "s" has been written to worker w, or the parent has exited.
StopSent(w) ==
  \/ pc \in {"wait", "destroy", "exit", "hungInDestroy"}
  \/ pc = "terminate" /\ w < i

\* Where worker w's job is: in its pipe, in its hands, or reported.
JobPlaces(w) ==
  /\ HasJob(w) => status[w] = 1 /\ wpc[w] \notin Busy /\ up[w] = 0
  /\ wpc[w] \in Busy => status[w] = 1 /\ up[w] = 0
  /\ up[w] # 0 => status[w] = 1 /\ up[w] = 1

\* What worker w's pipe holds: a job at most, and "s" behind it.
PipeShape(w) ==
  /\ \A k \in DOMAIN down[w] : k >= 2 => down[w][k].cmd = "s"
  /\ ~StopSent(w) => down[w] = <<>> \/ (Len(down[w]) = 1 /\ HasJob(w))

\* Before the loop every worker is ready.
AllReadyAtFirst == pc \in {"dispatch", "register", "run"} => FreeWorkers = Worker

\* A set that contains the listening socket was made when a worker was
\* available, and none has been used up since.
AvailableIfListening ==
  /\ pc \in {"blocked", "check"} /\ SockFd \in rset => avail > 0
  /\ pc \in {"accept", "submit"} => avail > 0

\* worker_pool_workers_find_free() is called with a pipe in the set.
SomePipeSet == pc = "find" => rset \ {SockFd} # {}

\* Without output on the callbacks' stderr: jobs and ready workers are
\* counted right.
Accounting ==
  /\ \A w \in Worker : JobPlaces(w) /\ PipeShape(w)
  /\ AvailExact
  /\ AllReadyAtFirst
  /\ AvailableIfListening
  /\ SomePipeSet

\* What is left of select()'s result is ready, and nsel says how much it is.
ReadyLeft ==
  /\ nsel = Cardinality(Watched(rset)) /\ nsel > 0
  /\ \A fd \in Watched(rset) \ {SockFd} : Readable(WorkerOf(fd))

SelectResult ==
  /\ maxfdp > SockFd
  /\ parent = "up" <=> pc # "exit"
  /\ pc = "check" /\ ~serverStop => ReadyLeft /\ (SockFd \in rset => backlog # <<>>)
  /\ pc = "accept" => ReadyLeft /\ SockFd \in rset /\ backlog # <<>>
  /\ pc = "submit" => ReadyLeft /\ SockFd \in rset
  /\ pc = "find" => ReadyLeft /\ SockFd \notin rset
=============================================================================
