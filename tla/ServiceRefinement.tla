-------------------------- MODULE ServiceRefinement --------------------------
(***************************************************************************)
(* TcpServer implements ConnService: the refinement mapping.               *)
(***************************************************************************)
EXTENDS TcpServerInv

\* What takes connections away: a worker has died on its own or got a SIGINT,
\* or the parent has run off its array of workers.
ServiceFailed == Killed # {} \/ parent = "overrun"

InHand     == {conn} \ {NoConn}
Given      == [w \in Worker |-> InPipe(w)]
InCallback == [w \in Worker |-> IF wopen[w] THEN {wconn[w]} ELSE {}]

Service == INSTANCE ConnService WITH
  Lossy     <- FdTruncation,
  opened    <- arrived,
  queue     <- backlog,
  inHand    <- InHand,
  given     <- Given,
  serving   <- InCallback,
  open      <- parent = "up",
  failed    <- ServiceFailed,
  fallen    <- Fallen,
  printed   <- noise > 0

\* Whatever the parent, the workers, the pipes and the signals do looks to
\* clients like the abstract service: no connection is lost without a fault,
\* served twice or overtaken in the queue, nor given to a worker that has died
\* or, until a callback prints, has another (tcp_server_core.c:288-329,
\* worker_pool.c:130-162, :188-258).
ImplementsService == Service!ServiceSpec

-----------------------------------------------------------------------------
\* What has to be known, besides SelectResult and where the service says
\* connections are, to see that the steps of TcpServer are steps of the
\* service, however much callbacks print.

\* A message is a job with its descriptor or an "s" without.
MessageKinds ==
  \A w \in Worker : \A k \in DOMAIN down[w] :
    down[w][k].cmd = "s" <=> down[w][k].conn = NoConn

\* "s" is the last message of a worker, and no connection is sent twice.
PipeOrder ==
  \A w \in Worker : \A k \in DOMAIN down[w] :
    /\ down[w][k].cmd = "s" => StopSent(w) /\ k = Len(down[w])
    /\ \A j \in DOMAIN down[w] : down[w][j].conn = down[w][k].conn => j = k

\* A worker has a connection open in its callback only.
OpenInCallback == \A w \in Worker : wopen[w] => wpc[w] = "callback"

\* The parent has one only between accept() and the hand-over.
ConnInHand == conn # NoConn => pc \in {"submit", "hung"}

\* The workers are forked one after the other, before anything else.
ForkedInOrder ==
  \A w \in Worker :
    /\ pc = "dispatch" => (wpc[w] = "unborn" <=> w >= i)
    /\ pc \notin {"dispatch", "exit"} => wpc[w] # "unborn"

\* Before the loop nothing is sent and no callback runs.
IdleAtFirst ==
  pc \in {"dispatch", "register", "run"} =>
    \A w \in Worker : down[w] = <<>> /\ wpc[w] \notin Busy

\* wait() has seen every worker die.
NoneLeft == pc = "destroy" => \A w \in Worker : wpc[w] = "dead"

\* No worker of a server that runs ends by itself: not for a message without a
\* descriptor, nor by an end-of-file or a SIGPIPE while the parent is there.
\* It was told to stop, or crashed, or was interrupted (worker_pool.c:133-147).
DeadForReason ==
  \A w \in Worker : wpc[w] = "dead" => StopSent(w) \/ w \in Killed

HandOver ==
  /\ MessageKinds
  /\ PipeOrder
  /\ OpenInCallback
  /\ ConnInHand
  /\ ForkedInOrder
  /\ IdleAtFirst
  /\ NoneLeft
  /\ DeadForReason
=============================================================================
