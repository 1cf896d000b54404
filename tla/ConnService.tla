----------------------------- MODULE ConnService -----------------------------
(***************************************************************************)
(* What the library promises its user about the connections of clients,    *)
(* without a pool table, pipes, select() or signals: a connection waits in *)
(* the accept queue, is accepted, given to a worker, which has no other as *)
(* long as callbacks leave stderr alone, and served by it once.  A worker  *)
(* that dies takes with it what it has, and nothing else.  TcpServer       *)
(* implements this specification (module ServiceRefinement).               *)
(***************************************************************************)
EXTENDS Naturals, Sequences, FiniteSets

CONSTANTS
  Conn,      \* connections clients can open
  Worker,    \* the workers
  Backlog,   \* TCP_SERVER_BACKLOG
  Lossy      \* may a connection not fit the table of the worker it is
             \* passed to?

ASSUME ServiceAssumption == Backlog \in Nat /\ Lossy \in BOOLEAN

VARIABLES
  opened,    \* connections clients have opened
  queue,     \* established and not accepted, oldest first
  inHand,    \* accepted, not yet given away
  given,     \* given[w]: on the way to worker w
  serving,   \* serving[w]: in worker w's callback
  served,    \* the callback has returned
  open,      \* does the server accept connections?
  failed,    \* has a worker died or been killed, or the server run out of
             \* workers?
  fallen,    \* the workers that have died or been killed
  printed    \* has a callback written to its stderr?

connVars ==
  <<opened, queue, inHand, given, serving, served, open, failed, fallen, printed>>

Queued     == {queue[k] : k \in DOMAIN queue}
Handled(w) == given[w] \cup serving[w]
InWork     == UNION {Handled(w) : w \in Worker}

ServiceTypeOK ==
  /\ opened \in SUBSET Conn
  /\ queue \in Seq(Conn)
  /\ inHand \in SUBSET Conn
  /\ given \in [Worker -> SUBSET Conn]
  /\ serving \in [Worker -> SUBSET Conn]
  /\ served \in SUBSET Conn
  /\ open \in BOOLEAN
  /\ failed \in BOOLEAN
  /\ fallen \in SUBSET Worker
  /\ printed \in BOOLEAN

ServiceInit ==
  /\ opened = {}
  /\ queue = <<>>
  /\ inHand = {}
  /\ given = [w \in Worker |-> {}]
  /\ serving = [w \in Worker |-> {}]
  /\ served = {}
  /\ open = TRUE
  /\ failed = FALSE
  /\ fallen = {}
  /\ printed = FALSE

-----------------------------------------------------------------------------
Connect(c) ==
  /\ open /\ c \notin opened /\ Len(queue) < Backlog
  /\ opened' = opened \cup {c}
  /\ queue' = Append(queue, c)
  /\ UNCHANGED <<inHand, given, serving, served, open, failed, fallen, printed>>

\* One at a time, in the order of arrival.
AcceptNext ==
  /\ open /\ inHand = {} /\ queue # <<>>
  /\ inHand' = {Head(queue)}
  /\ queue' = Tail(queue)
  /\ UNCHANGED <<opened, given, serving, served, open, failed, fallen, printed>>

\* Never to a worker that has died; and until a callback prints, which the
\* server takes for the end of its job, only to one that has no other.
Give(c, w) ==
  /\ open /\ inHand = {c} /\ w \notin fallen
  /\ ~printed => Handled(w) = {}
  /\ inHand' = {}
  /\ given' = [given EXCEPT ![w] = @ \cup {c}]
  /\ UNCHANGED <<opened, queue, serving, served, open, failed, fallen, printed>>

Begin(c, w) ==
  /\ c \in given[w] /\ serving[w] = {}
  /\ given' = [given EXCEPT ![w] = @ \ {c}]
  /\ serving' = [serving EXCEPT ![w] = {c}]
  /\ UNCHANGED <<opened, queue, inHand, served, open, failed, fallen, printed>>

Finish(c, w) ==
  /\ serving[w] = {c}
  /\ serving' = [serving EXCEPT ![w] = {}]
  /\ served' = served \cup {c}
  /\ UNCHANGED <<opened, queue, inHand, given, open, failed, fallen, printed>>

\* The server stops in order: whoever was accepted has been dealt with,
\* whoever still waits is turned away.
Shut ==
  /\ open /\ inHand = {} /\ InWork = {}
  /\ open' = FALSE
  /\ queue' = <<>>
  /\ UNCHANGED <<opened, inHand, given, serving, served, failed, fallen, printed>>

\* A callback writes to its stderr.
PrintsOut ==
  /\ printed' = TRUE
  /\ UNCHANGED <<opened, queue, inHand, given, serving, served, open, failed,
                 fallen>>

\* Something fails: a worker is sent a signal that will kill it.
Fail ==
  /\ failed' = TRUE
  /\ UNCHANGED <<opened, queue, inHand, given, serving, served, open, fallen,
                 printed>>

LosesAll(w) ==
  /\ given' = [given EXCEPT ![w] = {}]
  /\ serving' = [serving EXCEPT ![w] = {}]
  /\ UNCHANGED <<opened, queue, inHand, served, open, printed>>

\* A worker dies with what it has.
Crash(w) ==
  /\ w \notin fallen /\ fallen' = fallen \cup {w}
  /\ failed' = TRUE
  /\ LosesAll(w)

\* A worker dies because the server has.
Orphan(w) ==
  /\ ~open /\ failed
  /\ LosesAll(w)
  /\ UNCHANGED <<failed, fallen>>

\* A connection does not reach its worker.
Drop(c, w) ==
  /\ Lossy /\ c \in given[w]
  /\ given' = [given EXCEPT ![w] = @ \ {c}]
  /\ UNCHANGED <<opened, queue, inHand, serving, served, open, failed, fallen,
                 printed>>

\* The server dies handing a connection over, or stopping, or goes astray, and
\* then the queue stays as it is.
Abort ==
  /\ open /\ failed' = TRUE
  /\ open' = FALSE
  /\ queue' \in {<<>>, queue}
  /\ inHand' = {}
  /\ UNCHANGED <<opened, given, serving, served, fallen, printed>>

ServiceNext ==
  \/ \E c \in Conn : Connect(c)
  \/ AcceptNext
  \/ \E c \in Conn, w \in Worker :
       Give(c, w) \/ Begin(c, w) \/ Finish(c, w) \/ Drop(c, w)
  \/ Shut
  \/ \E w \in Worker : Crash(w) \/ Orphan(w)
  \/ PrintsOut \/ Fail \/ Abort

ServiceSpec == ServiceInit /\ [][ServiceNext]_connVars

-----------------------------------------------------------------------------
\* Safety properties

\* A connection is in one place only: once in the queue, or accepted, or with
\* one worker, or served; so it is never served twice or by two workers.
OnePlace ==
  /\ \A j, k \in DOMAIN queue : queue[j] = queue[k] => j = k
  /\ Queued \cap inHand = {}
  /\ \A w \in Worker :
       /\ Handled(w) \cap (Queued \cup inHand) = {}
       /\ given[w] \cap serving[w] = {}
       /\ \A v \in Worker : v # w => Handled(v) \cap Handled(w) = {}
  /\ served \cap (Queued \cup inHand \cup InWork) = {}

\* While nothing fails and the server accepts connections, each one opened is
\* in one of these places.
Places == Queued \cup inHand \cup InWork \cup served

NothingLost == open /\ ~failed /\ ~Lossy => opened = Places

\* Failures are confined: while the server accepts connections, and until a
\* callback prints, each worker that has died has cost one client its
\* connection at most, and no other client notices.
Confined ==
  open /\ ~printed /\ ~Lossy => Cardinality(opened \ Places) <= Cardinality(fallen)
=============================================================================
