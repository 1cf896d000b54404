--------------------------- MODULE TcpServerProofs ---------------------------
(***************************************************************************)
(* Proofs about TcpServer for every number of workers, every set of        *)
(* clients and every value of the other constants.                         *)
(***************************************************************************)
EXTENDS TcpServer, MinMaxProofs, FiniteSetTheorems, TLAPS

-----------------------------------------------------------------------------
\* Data

\* Workers and descriptors are finite sets of integers.
LEMMA FiniteWorkers ==
  IsFiniteSet(Worker) /\ IsFiniteSet(Fds) /\ Fds \subseteq Nat
<1>1. IsFiniteSet(Worker)
  BY FS_Interval, PoolAssumption DEF Worker
<1>2. IsFiniteSet(SockFd .. SockFd + WorkersN)
  BY FS_Interval, PoolAssumption, ServerAssumption
<1>3. Fds \subseteq SockFd .. SockFd + WorkersN
  BY PoolAssumption, ServerAssumption DEF Fds, PipeFd, Worker
<1>4. IsFiniteSet(Fds)
  BY <1>2, <1>3, FS_Subset
<1>5. Fds \subseteq Nat
  BY PoolAssumption, ServerAssumption DEF Fds, PipeFd, Worker
<1> QED
  BY <1>1, <1>4, <1>5

\* The first ready worker.
LEMMA FirstFree ==
  ASSUME FreeWorkers # {}
  PROVE  Min(FreeWorkers) \in FreeWorkers /\ Min(FreeWorkers) \in Worker
<1>1. FreeWorkers \in SUBSET Nat /\ FreeWorkers \subseteq Worker
  BY PoolAssumption DEF FreeWorkers, Worker
<1> QED
  BY <1>1, MinElement

\* Sending a command keeps the type of the queue.
LEMMA QueueType ==
  ASSUME NEW q \in Seq(Message), NEW cmd \in {"p", "s"},
         NEW c \in Conn \cup {NoConn}
  PROVE  /\ IpcFdWrite(q, cmd, c) \in Seq(Message)
         /\ ByteWrite(q, cmd) \in Seq(Message)
         /\ q # <<>> => Tail(q) \in Seq(Message) /\ Head(q) \in Message
<1>1. [cmd |-> cmd, conn |-> c] \in Message /\ [cmd |-> cmd, conn |-> NoConn] \in Message
  BY DEF Message
<1>2. q # <<>> => Tail(q) \in Seq(Message) /\ Head(q) \in Message
  OBVIOUS
<1> QED
  BY <1>1, <1>2 DEF IpcFdWrite, ByteWrite

\* What select() can return, of any set of the server's descriptors.
LEMMA SelectType ==
  ASSUME NEW fds \in SUBSET Fds
  PROVE  /\ IsFiniteSet(fds) /\ IsFiniteSet(Watched(fds)) /\ IsFiniteSet(Ready(fds))
         /\ Ready(fds) \in SUBSET Fds /\ Untouched(fds) \in SUBSET Fds
         /\ Cardinality(Ready(fds)) \in Nat
<1>1. /\ Watched(fds) \subseteq fds
      /\ Ready(fds) \subseteq fds
      /\ Untouched(fds) \subseteq fds
  BY DEF Ready, Watched, Untouched
<1>2. IsFiniteSet(fds)
  BY FiniteWorkers, FS_Subset
<1>3. IsFiniteSet(Watched(fds)) /\ IsFiniteSet(Ready(fds))
  BY <1>1, <1>2, FS_Subset
<1>4. Cardinality(Ready(fds)) \in Nat
  BY <1>3, FS_CardinalityType
<1> QED
  BY <1>1, <1>2, <1>3, <1>4

-----------------------------------------------------------------------------
\* Type correctness

\* A worker's open descriptor is a connection.  TypeOK alone is not inductive:
\* what a worker has served must be known to be a connection.
OpenConn == \A w \in Worker : wopen[w] => wconn[w] # NoConn

PoolType == PoolTypeOK /\ OpenConn
ServerType == TypeOK /\ OpenConn

\* The steps of the parent that change the pool.
LEMMA PoolStepType ==
  ASSUME PoolType
  PROVE  /\ \A w \in Worker : DispatchWorker(w) => PoolType'
         /\ DispatchForkFails \/ SubmitOverrun \/ ParentGone => PoolType'
         /\ \A c \in Conn \cup {NoConn} : SubmitConn(c) => PoolType'
         /\ \A w : JobDone(w) \/ JobReset(w) \/ JobEof(w) => PoolType'
         /\ \A w \in Worker : TerminateWorker(w) => PoolType'
<1> USE DEF PoolType, PoolTypeOK, OpenConn, tableVars, workerVars, faultVars
<1>1. ASSUME NEW w \in Worker, DispatchWorker(w) PROVE PoolType'
  BY <1>1 DEF DispatchWorker, Alive
<1>2. CASE DispatchForkFails \/ SubmitOverrun \/ ParentGone
  BY <1>2 DEF DispatchForkFails, SubmitOverrun, ParentGone
<1>3. ASSUME NEW c \in Conn \cup {NoConn}, SubmitConn(c) PROVE PoolType'
  <2>1. PICK w \in Worker :
          /\ status' = [status EXCEPT ![w] = 1]
          /\ count' = [count EXCEPT ![w] = @ + 1]
          /\ \/ down' = down
             \/ down' = [down EXCEPT ![w] = IpcFdWrite(@, "p", c)]
    BY <1>3, FirstFree DEF SubmitConn
  <2>2. IpcFdWrite(down[w], "p", c) \in Seq(Message)
    BY QueueType
  <2>3. down' \in [Worker -> Seq(Message)]
    BY <2>1, <2>2
  <2>4. status' \in [Worker -> {0, 1}] /\ count' \in [Worker -> Nat]
    BY <2>1
  <2>5. avail' \in Int /\ parent' \in {"up", "gone", "overrun"}
    BY <1>3 DEF SubmitConn
  <2> QED
    BY <1>3, <2>3, <2>4, <2>5 DEF SubmitConn
<1>4. ASSUME NEW w, JobDone(w) PROVE PoolType'
  <2>1. up' \in [Worker -> Nat] /\ status' \in [Worker -> {0, 1}]
    <3>1. CASE w \in Worker
      BY <1>4, <3>1 DEF JobDone
    <3>2. CASE w \notin Worker
      <4>1. up' = up /\ status' = status
        BY <1>4, <3>2 DEF JobDone
      <4> QED
        BY <4>1
    <3> QED
      BY <3>1, <3>2
  <2> QED
    BY <1>4, <2>1 DEF JobDone
<1>5. ASSUME NEW w, JobReset(w) PROVE PoolType'
  <2>1. /\ status' = [status EXCEPT ![w] = 0]
        /\ down' = [down EXCEPT ![w] = <<>>]
        /\ avail' \in Int
    BY <1>5 DEF JobReset
  <2>2. <<>> \in Seq(Message)
    OBVIOUS
  <2>3. status' \in [Worker -> {0, 1}]
    BY <2>1
  <2>4. down' \in [Worker -> Seq(Message)]
    BY <2>1, <2>2
  <2> QED
    BY <1>5, <2>1, <2>3, <2>4 DEF JobReset
<1>6. ASSUME NEW w, JobEof(w) PROVE PoolType'
  BY <1>6 DEF JobEof, poolVars
<1>7. ASSUME NEW w \in Worker, TerminateWorker(w) PROVE PoolType'
  <2>1. ByteWrite(down[w], "s") \in Seq(Message)
    BY QueueType
  <2>2. down' \in [Worker -> Seq(Message)] /\ parent' \in {"up", "gone", "overrun"}
    BY <1>7, <2>1 DEF TerminateWorker
  <2> QED
    BY <1>7, <2>2 DEF TerminateWorker
<1> QED
  BY <1>1, <1>2, <1>3, <1>4, <1>5, <1>6, <1>7

\* The steps of a worker.
LEMMA WorkerStepType ==
  ASSUME PoolType, NEW w \in Worker,
         WorkerStep(w) \/ WorkerStderr(w) \/ WorkerCrash(w)
  PROVE  PoolType'
<1> USE DEF PoolType, PoolTypeOK, OpenConn, tableVars, faultVars
<1>1. ASSUME Dies(w), UNCHANGED <<tableVars, parent, up, doomed>>,
             down' \in [Worker -> Seq(Message)], crashed' \in SUBSET Worker, noise' \in Nat
      PROVE  PoolType'
  BY <1>1 DEF Dies
<1>2. CASE WorkerStop(w)
  <2>1. down' \in [Worker -> Seq(Message)]
    BY <1>2, QueueType DEF WorkerStop
  <2> QED
    BY <1>1, <1>2, <2>1 DEF WorkerStop
<1>3. CASE WorkerReceive(w)
  <2>1. Tail(down[w]) \in Seq(Message) /\ Head(down[w]) \in Message
    BY <1>3, QueueType DEF WorkerReceive
  <2>2. down' \in [Worker -> Seq(Message)]
    BY <1>3, <2>1 DEF WorkerReceive
  <2>3. IpcFdRead(Head(down[w])) \subseteq Conn \cup {NoConn}
    BY <2>1 DEF IpcFdRead, Message
  <2>4. PICK c \in Conn \cup {NoConn} :
          /\ wconn' = [wconn EXCEPT ![w] = c]
          /\ wopen' = [wopen EXCEPT ![w] = c # NoConn]
          /\ wpc' = [wpc EXCEPT ![w] = IF c = NoConn THEN "read" ELSE "callback"]
    BY <1>3, <2>3 DEF WorkerReceive
  <2>5. /\ wconn' \in [Worker -> Conn \cup {NoConn}]
        /\ wopen' \in [Worker -> BOOLEAN]
        /\ wpc' \in [Worker -> Alive \cup {"unborn", "dead"}]
        /\ OpenConn'
    BY <2>4 DEF Alive, Busy
  <2> QED
    BY <1>3, <2>2, <2>5 DEF WorkerReceive
<1>4. CASE WorkerReset(w)
  BY <1>4 DEF WorkerReset, Alive, Busy
<1>5. CASE WorkerEof(w)
  BY <1>1, <1>5 DEF WorkerEof
<1>6. CASE WorkerServed(w)
  <2>1. served' \in SUBSET Conn
    BY <1>6 DEF WorkerServed
  <2> QED
    BY <1>6, <2>1 DEF WorkerServed, Alive, Busy
<1>7. CASE WorkerReport(w) \/ WorkerStderr(w)
  <2>1. CASE Orphaned(w)
    BY <1>1, <1>7, <2>1 DEF WorkerReport, WorkerStderr
  <2>2. CASE ~Orphaned(w) /\ WorkerReport(w)
    <3>1. up' = [up EXCEPT ![w] = @ + 1] /\ wpc' = [wpc EXCEPT ![w] = "read"]
      BY <2>2 DEF WorkerReport
    <3>2. up' \in [Worker -> Nat]
      BY <3>1
    <3>3. wpc' \in [Worker -> Alive \cup {"unborn", "dead"}]
      BY <3>1 DEF Alive
    <3> QED
      BY <2>2, <3>2, <3>3 DEF WorkerReport
  <2>3. CASE ~Orphaned(w) /\ WorkerStderr(w)
    <3>1. up' = [up EXCEPT ![w] = @ + 1] /\ noise' = noise + 1
      BY <2>3 DEF WorkerStderr
    <3>2. up' \in [Worker -> Nat] /\ noise' \in Nat
      BY <3>1
    <3> QED
      BY <2>3, <3>2 DEF WorkerStderr, workerVars
  <2> QED
    BY <1>7, <2>1, <2>2, <2>3
<1>8. CASE WorkerInterrupted(w) \/ WorkerCrash(w)
  BY <1>1, <1>8 DEF WorkerInterrupted, WorkerCrash
<1> QED
  BY <1>2, <1>3, <1>4, <1>5, <1>6, <1>7, <1>8 DEF WorkerStep

\* The initial state has the types.
LEMMA InitType == Init => ServerType
<1> SUFFICES ASSUME Init PROVE ServerType
  OBVIOUS
<1>1. PoolTypeOK /\ OpenConn
  BY PoolAssumption, ConnAssumption DEF Init, PoolInit, PoolTypeOK, OpenConn
<1> QED
  BY <1>1, PoolAssumption, ServerAssumption
  DEF Init, ServerType, TypeOK, PC, Fds

\* Every step keeps the types.
LEMMA StepType == ServerType /\ [Next]_vars => ServerType'
<1> SUFFICES ASSUME ServerType, [Next]_vars PROVE ServerType'
  OBVIOUS
<1>pool. PoolType
  BY DEF ServerType, TypeOK, PoolType
<1> DEFINE Quiet == UNCHANGED poolVars
<1>quiet. Quiet => PoolType'
  BY <1>pool DEF PoolType, PoolTypeOK, OpenConn, poolVars
<1>frame. ASSUME UNCHANGED serverVars, PoolType' PROVE ServerType'
  BY <1>frame
  DEF PoolType, ServerType, TypeOK, serverVars, loopVars, selVars, netVars
<1> HIDE DEF Quiet
<1> USE <1>pool, <1>quiet
    DEF ServerType, TypeOK, PoolType, loopVars, selVars, netVars, PC, Quiet
<1>1. CASE Dispatch
  <2>1. /\ i \in Worker /\ i + 1 \in 0 .. WorkersN
        /\ PipeFd(i) \in Fds /\ PipeFd(i) \in Nat
    BY <1>1, PoolAssumption, ServerAssumption DEF Dispatch, Fds, PipeFd, Worker
  <2>2. PoolType'
    BY <1>1, <2>1, PoolStepType DEF Dispatch
  <2> QED
    BY <1>1, <2>1, <2>2 DEF Dispatch
<1>2. CASE DispatchDone \/ Register \/ Run
  BY <1>2 DEF DispatchDone, Register, Run
<1>3. CASE Select
  <2>1. SelectSet \in SUBSET Fds
    BY DEF SelectSet
  <2>2. nsel' \in Int /\ rset' \in SUBSET Fds
    BY <1>3, <2>1, SelectType DEF Select, SelectReturns
  <2> QED
    BY <1>3, <2>2 DEF Select, SelectReturns
<1>4. CASE SelectWakes
  <2>1. nsel' \in Int /\ rset' \in SUBSET Fds
    BY <1>4, SelectType DEF SelectWakes, SelectReturns
  <2> QED
    BY <1>4, <2>1 DEF SelectWakes, SelectReturns
<1>5. CASE CheckStop \/ CheckReady
  BY <1>5, PoolAssumption DEF CheckStop, CheckReady
<1>6. CASE Accept
  <2>1. Head(backlog) \in Conn /\ Tail(backlog) \in Seq(Conn)
    BY <1>6 DEF Accept
  <2> QED
    BY <1>6, <2>1 DEF Accept
<1>7. CASE AcceptError
  BY <1>7 DEF AcceptError
<1>8. CASE Submit
  <2>1. PoolType'
    BY <1>8, PoolStepType DEF Submit
  <2> QED
    BY <1>8, <2>1 DEF Submit
<1>9. CASE FindFree
  <2>1. PoolType'
    BY <1>9, PoolStepType DEF FindFree
  <2> QED
    BY <1>9, <2>1 DEF FindFree
<1>10. CASE FindFreeEof \/ FindFreeEofLogged
  <2>1. PoolType'
    BY <1>10, PoolStepType DEF FindFreeEof, FindFreeEofLogged
  <2> QED
    BY <1>10, <2>1 DEF FindFreeEof, FindFreeEofLogged
<1>11. CASE Terminate
  <2>1. i \in Worker /\ i + 1 \in 0 .. WorkersN
    BY <1>11, PoolAssumption DEF Terminate, Worker
  <2>2. PoolType'
    BY <1>11, <2>1, PoolStepType DEF Terminate
  <2> QED
    BY <1>11, <2>1, <2>2 DEF Terminate
<1>12. CASE TerminateDone \/ Wait
  BY <1>12 DEF TerminateDone, Wait
<1>13. CASE Destroy
  <2>1. PoolType'
    BY <1>13, PoolStepType DEF Destroy
  <2> QED
    BY <1>13, <2>1 DEF Destroy
<1>14. CASE DispatchFails
  <2>1. PoolType'
    BY <1>14, PoolStepType DEF DispatchFails
  <2> QED
    BY <1>14, <2>1 DEF DispatchFails
<1>15. ASSUME NEW scope \in SignalScopes, Sigint(scope) PROVE ServerType'
  <2>1. signals' \in Nat /\ arrived' = arrived
    BY <1>15 DEF Sigint, SigintDefault, SigintHandler, SigintHang, Deliver
  <2>2. doomed' \in SUBSET Worker /\ parent' \in {"up", "gone", "overrun"}
    BY <1>15
    DEF Sigint, SigintDefault, SigintHandler, SigintHang, Deliver, PoolTypeOK
  <2>3. PoolType'
    BY <1>15, <2>2
    DEF Sigint, SigintDefault, SigintHandler, SigintHang, Deliver,
        PoolTypeOK, OpenConn, tableVars, workerVars
  <2>4. CASE SigintDefault(scope)
    BY <2>1, <2>3, <2>4 DEF SigintDefault
  <2>5. CASE SigintHandler(scope)
    BY <2>1, <2>3, <2>5 DEF SigintHandler
  <2>6. CASE SigintHang(scope)
    BY <2>1, <2>3, <2>6 DEF SigintHang
  <2> QED
    BY <1>15, <2>4, <2>5, <2>6 DEF Sigint
<1>16. ASSUME NEW c \in Conn, Arrive(c) PROVE ServerType'
  BY <1>16 DEF Arrive
<1>17. ASSUME NEW w \in Worker,
              \/ WorkerRuns(w)
              \/ WorkerStderr(w) /\ UNCHANGED serverVars
              \/ WorkerCrash(w) /\ UNCHANGED serverVars
       PROVE  ServerType'
  BY <1>17, <1>frame, WorkerStepType DEF WorkerRuns
<1>18. CASE UNCHANGED vars
  BY <1>18 DEF vars
<1> QED
  BY <1>1, <1>2, <1>3, <1>4, <1>5, <1>6, <1>7, <1>8, <1>9, <1>10, <1>11,
     <1>12, <1>13, <1>14, <1>15, <1>16, <1>17, <1>18 DEF Next, ParentStep

\* Every variable keeps its type.
THEOREM TypeCorrect == Spec => []TypeOK
<1>1. ServerType => TypeOK
  BY DEF ServerType
<1> QED
  BY <1>1, InitType, StepType, PTL DEF Spec
=============================================================================
