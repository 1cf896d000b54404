---------------------------- MODULE ServiceProofs ----------------------------
(***************************************************************************)
(* Proofs that the server does what ConnService promises: for any number   *)
(* of workers and connections, whatever callbacks print to their stderr,   *)
(* with signals, dying workers, failing forks and accepts and descriptors  *)
(* that do not fit.                                                        *)
(***************************************************************************)
EXTENDS ServiceRefinement, SelectProofs

-----------------------------------------------------------------------------
\* What stays

\* A worker that has been told to stop stays told.
LEMMA StopsStayStep == ServerType /\ [Next]_vars => StopsStay
<1> SUFFICES ASSUME ServerType, [Next]_vars, NEW v \in Worker, StopSent(v)
             PROVE  StopSent(v)'
  BY DEF StopsStay
<1>1. /\ pc \in {"terminate", "wait", "destroy", "exit", "hungInDestroy"}
      /\ i \in Int /\ v \in Int /\ (pc = "terminate" => v < i)
  BY PoolAssumption DEF StopSent, ServerType, TypeOK, Worker
<1>2. CASE Terminate
  BY <1>1, <1>2 DEF Terminate, StopSent
<1>3. CASE TerminateDone \/ Wait \/ Destroy
  BY <1>3 DEF TerminateDone, Wait, Destroy, StopSent
<1>4. ASSUME NEW scope \in SignalScopes, Sigint(scope) PROVE StopSent(v)'
  <2>1. \/ pc' = pc /\ i' = i
        \/ pc' \in {"exit", "hungInDestroy"}
    BY <1>1, <1>4
    DEF Sigint, SigintDefault, SigintHandler, SigintHang, Logging, loopVars
  <2> QED
    BY <1>1, <2>1 DEF StopSent
<1>5. CASE UNCHANGED <<pc, i>>
  BY <1>1, <1>5 DEF StopSent
<1> QED
  BY <1>1, <1>2, <1>3, <1>4, <1>5
  DEF Next, ParentStep, Dispatch, DispatchDone, Register, Run, Select,
      SelectWakes, CheckStop, CheckReady, Accept, Submit, FindFree,
      FindFreeEof, FindFreeEofLogged, DispatchFails, AcceptError, Arrive,
      WorkerRuns, serverVars, vars, loopVars

\* What has failed stays failed.
LEMMA FailedStays ==
  SelectResult /\ [Next]_vars => /\ ServiceFailed => ServiceFailed'
                                /\ Killed \subseteq Killed'
<1> DEFINE Stays == (ServiceFailed => ServiceFailed') /\ Killed \subseteq Killed'
<1> SUFFICES ASSUME SelectResult, [Next]_vars PROVE Stays
  OBVIOUS
<1>1. parent # "up" <=> pc = "exit"
  BY DEF SelectResult
<1>2. ASSUME crashed \subseteq crashed', doomed \subseteq doomed',
             parent' = parent \/ parent = "up"
      PROVE  Stays
  BY <1>2 DEF ServiceFailed, Killed
<1>3. ASSUME NEW w \in Worker, WorkerCrash(w) PROVE Stays
  BY <1>3 DEF WorkerCrash, ServiceFailed, Killed
<1>4. ASSUME NEW scope \in SignalScopes, Sigint(scope) PROVE Stays
  <2>1. doomed \subseteq doomed' /\ crashed' = crashed /\ parent = "up"
    BY <1>4 DEF Sigint, SigintDefault, SigintHandler, SigintHang, Deliver
  <2> QED
    BY <1>2, <2>1
<1>5. ASSUME NEW w \in Worker, WorkerStep(w) \/ WorkerStderr(w)
      PROVE  UNCHANGED <<crashed, doomed, parent>>
  BY <1>5
  DEF WorkerStep, WorkerStop, WorkerReceive, WorkerReset, WorkerEof,
      WorkerServed, WorkerReport, WorkerInterrupted, WorkerStderr, faultVars
<1>6. ASSUME ParentStep \/ DispatchFails \/ AcceptError \/ \E c \in Conn : Arrive(c)
      PROVE  UNCHANGED <<crashed, doomed>> /\ parent = "up"
  BY <1>1, <1>6
  DEF ParentStep, Dispatch, DispatchDone, Register, Run, Select,
      SelectWakes, CheckStop, CheckReady, Accept, Submit, FindFree,
      FindFreeEof, FindFreeEofLogged, Terminate, TerminateDone, Wait,
      Destroy, DispatchFails, AcceptError, Arrive, DispatchWorker,
      DispatchForkFails, SubmitConn, SubmitOverrun, JobDone, JobReset,
      JobEof, TerminateWorker, ParentGone, poolVars, faultVars
<1>7. CASE UNCHANGED vars
  BY <1>2, <1>7 DEF vars, poolVars
<1> QED
  BY <1>2, <1>3, <1>4, <1>5, <1>6, <1>7 DEF Next, WorkerRuns

-----------------------------------------------------------------------------
\* The pipes

Stop == [cmd |-> "s", conn |-> NoConn]
Job(c) == [cmd |-> "p", conn |-> c]

LEMMA Messages ==
  /\ Stop \in Message /\ Stop.cmd = "s" /\ Stop.conn = NoConn
  /\ \A c \in Conn : /\ Job(c) \in Message /\ Job(c).cmd = "p" /\ Job(c).conn = c
                     /\ c # NoConn
BY ConnAssumption DEF Stop, Job, Message

LEMMA FirstMessage ==
  ASSUME NEW q \in Seq(Message), q # <<>>
  PROVE  Head(q) \in Message
<1>1. Len(q) \in Nat /\ Len(q) # 0 /\ Head(q) = q[1]
  OBVIOUS
<1>2. 1 \in 1 .. Len(q)
  BY <1>1
<1> QED
  BY <1>1, <1>2

\* What a pipe holds after a message has been taken from it, or added to it.
LEMMA Taken ==
  ASSUME NEW q \in Seq(Message), q # <<>>
  PROVE  /\ Len(q) \in Nat /\ Len(q) >= 1 /\ 1 \in DOMAIN q /\ Head(q) = q[1]
         /\ Len(Tail(q)) = Len(q) - 1
         /\ \A k \in DOMAIN Tail(q) :
              k \in Nat /\ k + 1 \in DOMAIN q /\ Tail(q)[k] = q[k + 1]
         /\ \A k \in DOMAIN q :
              k = 1 \/ (k - 1 \in DOMAIN Tail(q) /\ Tail(q)[k - 1] = q[k])
OBVIOUS

LEMMA Added ==
  ASSUME NEW q \in Seq(Message), NEW m \in Message
  PROVE  /\ Len(q) \in Nat /\ Len(Append(q, m)) = Len(q) + 1
         /\ Append(q, m) # <<>> /\ (q # <<>> => Head(Append(q, m)) = Head(q))
         /\ (q = <<>> => Head(Append(q, m)) = m)
         /\ Len(q) + 1 \in DOMAIN Append(q, m) /\ Append(q, m)[Len(q) + 1] = m
         /\ \A k \in DOMAIN Append(q, m) :
              k = Len(q) + 1 \/ (k \in DOMAIN q /\ Append(q, m)[k] = q[k])
         /\ \A k \in DOMAIN q : k \in DOMAIN Append(q, m) /\ Append(q, m)[k] = q[k]
OBVIOUS

\* The ways the contents of worker w's pipe change.
PipeStep(w) ==
  \/ down' = down
  \/ down[w] # <<>> /\ down' = [down EXCEPT ![w] = Tail(@)]
  \/ down' = [down EXCEPT ![w] = <<>>]
  \/ ~StopSent(w) /\ StopSent(w)' /\ down' = [down EXCEPT ![w] = Append(@, Stop)]
  \/ /\ ~StopSent(w)
     /\ \E c \in Conn : /\ \A k \in DOMAIN down[w] : down[w][k].conn # c
                        /\ down' = [down EXCEPT ![w] = Append(@, Job(c))]

\* Whichever it is, the order of the messages stays right.
LEMMA PipesKept ==
  ASSUME TypeOK, MessageKinds, PipeOrder, StopsStay, NEW w \in Worker, PipeStep(w)
  PROVE  MessageKinds' /\ PipeOrder'
<1> DEFINE Right(v) ==
      \A k \in DOMAIN down[v] :
        /\ down[v][k].cmd = "s" <=> down[v][k].conn = NoConn
        /\ down[v][k].cmd = "s" => StopSent(v) /\ k = Len(down[v])
        /\ \A j \in DOMAIN down[v] : down[v][j].conn = down[v][k].conn => j = k
<1>1. \A v \in Worker : Right(v) /\ down[v] \in Seq(Message)
  BY DEF MessageKinds, PipeOrder, TypeOK, PoolTypeOK
<1>2. ASSUME NEW v \in Worker, down'[v] = down[v] PROVE Right(v)'
  BY <1>1, <1>2 DEF StopsStay
<1>3. \A v \in Worker \ {w} : down'[v] = down[v]
  BY DEF PipeStep, TypeOK, PoolTypeOK
<1>4. Right(w)'
  <2>1. CASE down' = down
    BY <1>2, <2>1
  <2>2. CASE down[w] # <<>> /\ down' = [down EXCEPT ![w] = Tail(@)]
    <3>1. down'[w] = Tail(down[w]) /\ down[w] # <<>> /\ (StopSent(w) => StopSent(w)')
      BY <2>2 DEF TypeOK, PoolTypeOK, StopsStay
    <3> QED
      BY <1>1, <3>1, Taken
  <2>3. CASE down' = [down EXCEPT ![w] = <<>>]
    BY <2>3 DEF TypeOK, PoolTypeOK
  <2>4. CASE ~StopSent(w) /\ StopSent(w)' /\ down' = [down EXCEPT ![w] = Append(@, Stop)]
    <3>1. /\ down'[w] = Append(down[w], Stop) /\ StopSent(w)'
          /\ \A k \in DOMAIN down[w] : down[w][k].cmd # "s"
      BY <1>1, <2>4 DEF TypeOK, PoolTypeOK
    <3> QED
      BY <1>1, <3>1, Added, Messages
  <2>5. ASSUME ~StopSent(w), NEW c \in Conn, \A k \in DOMAIN down[w] : down[w][k].conn # c,
               down' = [down EXCEPT ![w] = Append(@, Job(c))]
        PROVE  Right(w)'
    <3>1. /\ down'[w] = Append(down[w], Job(c))
          /\ \A k \in DOMAIN down[w] : down[w][k].cmd # "s"
      BY <1>1, <2>5 DEF TypeOK, PoolTypeOK
    <3> QED
      BY <1>1, <2>5, <3>1, Added, Messages
  <2> QED
    BY <2>1, <2>2, <2>3, <2>4, <2>5 DEF PipeStep
<1>5. \A v \in Worker : Right(v)'
  BY <1>2, <1>3, <1>4
<1> QED
  BY <1>5 DEF MessageKinds, PipeOrder

-----------------------------------------------------------------------------
\* The hand-over

\* A step that leaves the pipes and the workers alone.
LEMMA QuietHandOver ==
  ASSUME HandOver, StopsStay, Killed \subseteq Killed',
         UNCHANGED <<down, wpc, wopen>>,
         ConnInHand', ForkedInOrder', NoneLeft',
         pc' \in {"dispatch", "register", "run"} => pc \in {"dispatch", "register", "run"}
  PROVE  HandOver'
<1>1. MessageKinds' /\ OpenInCallback'
  BY DEF HandOver, MessageKinds, OpenInCallback
<1>2. PipeOrder'
  BY DEF HandOver, PipeOrder, StopsStay
<1>3. DeadForReason' /\ IdleAtFirst'
  BY DEF HandOver, DeadForReason, IdleAtFirst, StopsStay
<1> QED
  BY <1>1, <1>2, <1>3 DEF HandOver

\* A worker's steps.
LEMMA WorkerHandOver ==
  ASSUME TypeOK, SelectResult, HandOver, StopsStay, Killed \subseteq Killed',
         NEW w \in Worker,
         WorkerStep(w) \/ WorkerStderr(w) \/ WorkerCrash(w),
         UNCHANGED serverVars
  PROVE  HandOver'
<1> USE DEF TypeOK, PoolTypeOK
<1>1. wpc[w] \in Alive /\ wpc'[w] # "unborn"
  BY DEF WorkerStep, WorkerStop, WorkerReceive, WorkerReset, WorkerEof,
         WorkerServed, WorkerReport, WorkerInterrupted, WorkerStderr,
         WorkerCrash, Dies, workerVars, Alive, Busy
<1>2. \A v \in Worker \ {w} : /\ wpc'[v] = wpc[v] /\ wopen'[v] = wopen[v]
                              /\ down'[v] = down[v]
  BY DEF WorkerStep, WorkerStop, WorkerReceive, WorkerReset, WorkerEof,
         WorkerServed, WorkerReport, WorkerInterrupted, WorkerStderr,
         WorkerCrash, Dies, workerVars
<1>3. UNCHANGED <<pc, i, conn>>
  BY DEF serverVars, loopVars, selVars
<1>4. \/ down' = down
      \/ down[w] # <<>> /\ down' = [down EXCEPT ![w] = Tail(@)]
  BY DEF WorkerStep, WorkerStop, WorkerReceive, WorkerReset, WorkerEof,
         WorkerServed, WorkerReport, WorkerInterrupted, WorkerStderr,
         WorkerCrash
<1>5. MessageKinds' /\ PipeOrder'
  BY <1>4, PipesKept DEF HandOver, PipeStep
<1>6. wopen'[w] => wpc'[w] = "callback"
  BY DEF HandOver, OpenInCallback, WorkerStep, WorkerStop, WorkerReceive,
         WorkerReset, WorkerEof, WorkerServed, WorkerReport,
         WorkerInterrupted, WorkerStderr, WorkerCrash, Dies, workerVars
<1>7. OpenInCallback'
  BY <1>2, <1>6 DEF HandOver, OpenInCallback
<1>8. ConnInHand'
  BY <1>3 DEF HandOver, ConnInHand
<1>9. ForkedInOrder'
  BY <1>1, <1>2, <1>3 DEF HandOver, ForkedInOrder, Alive, Busy
<1>10. NoneLeft'
  BY <1>1, <1>2, <1>3 DEF HandOver, NoneLeft, Alive, Busy
<1>11. Orphaned(w) => pc = "exit"
  BY DEF Orphaned, SelectResult
<1>12. IdleAtFirst'
  <2> SUFFICES ASSUME pc \in {"dispatch", "register", "run"}
               PROVE  down'[w] = <<>> /\ wpc'[w] \notin Busy
    BY <1>2, <1>3 DEF HandOver, IdleAtFirst
  <2>1. down[w] = <<>> /\ wpc[w] \notin Busy /\ ~Orphaned(w)
    BY <1>11 DEF HandOver, IdleAtFirst
  <2>2. WorkerInterrupted(w) \/ WorkerCrash(w)
    BY <2>1
    DEF WorkerStep, WorkerStop, WorkerReceive, WorkerReset, WorkerEof,
        WorkerServed, WorkerReport, WorkerStderr, Busy
  <2> QED
    BY <2>1, <2>2 DEF WorkerInterrupted, WorkerCrash, Dies, Busy
<1>13. wpc'[w] = "dead" => StopSent(w) \/ w \in Killed'
  <2>1. CASE WorkerStop(w)
    <3>1. down[w] # <<>> /\ Head(down[w]).cmd = "s"
      BY <2>1 DEF WorkerStop
    <3>2. 1 \in DOMAIN down[w] /\ down[w][1].cmd = "s"
      BY <3>1, Taken
    <3> QED
      BY <3>2 DEF HandOver, PipeOrder
  <2>2. CASE Orphaned(w)
    BY <1>11, <2>2 DEF StopSent
  <2>3. CASE WorkerInterrupted(w) \/ WorkerCrash(w)
    BY <2>3 DEF WorkerInterrupted, WorkerCrash, Killed, faultVars
  <2>4. CASE (WorkerReset(w) \/ WorkerReport(w) \/ WorkerStderr(w)) /\ ~Orphaned(w)
    BY <2>4 DEF WorkerReset, WorkerReport, WorkerStderr, workerVars
  <2>5. CASE WorkerReceive(w) \/ WorkerServed(w)
    BY <2>5 DEF WorkerReceive, WorkerServed
  <2>6. WorkerEof(w) => Orphaned(w)
    BY DEF WorkerEof
  <2> QED
    BY <2>1, <2>2, <2>3, <2>4, <2>5, <2>6 DEF WorkerStep
<1>14. DeadForReason'
  BY <1>2, <1>13 DEF HandOver, DeadForReason, StopsStay
<1> QED
  BY <1>5, <1>7, <1>8, <1>9, <1>10, <1>12, <1>14 DEF HandOver

\* The initial state.
LEMMA InitHandOver == Init => HandOver
<1> SUFFICES ASSUME Init PROVE HandOver
  OBVIOUS
<1>1. ForkedInOrder
  BY PoolAssumption DEF Init, PoolInit, ForkedInOrder, Worker
<1> QED
  BY <1>1
  DEF Init, PoolInit, HandOver, MessageKinds, PipeOrder, OpenInCallback,
      ConnInHand, IdleAtFirst, NoneLeft, DeadForReason, Busy

\* The connection the parent has accepted is in no pipe.
KeptApart == \A w \in Worker : conn # NoConn => conn \notin InPipe(w)

\* Every step of the server.
LEMMA StepHandOver ==
  ASSUME ServerType, SelectResult, HandOver, KeptApart, [Next]_vars
  PROVE  HandOver'
<1>type. TypeOK
  BY DEF ServerType
<1>stay. StopsStay /\ Killed \subseteq Killed'
  BY StopsStayStep, FailedStays
<1> DEFINE Quiet == UNCHANGED <<down, wpc, wopen>>
           First == {"dispatch", "register", "run"}
<1>1. CASE Dispatch
  <2>1. PICK w \in Worker : w = i /\ wpc[w] = "unborn"
    BY <1>1, <1>type, PoolAssumption
    DEF Dispatch, Worker, TypeOK, HandOver, ForkedInOrder
  <2>2. /\ pc = "dispatch" /\ pc' = pc /\ i' = i + 1 /\ UNCHANGED <<down, wopen, conn>>
        /\ wpc' = [wpc EXCEPT ![w] = "read"]
    BY <1>1, <2>1 DEF Dispatch, DispatchWorker, selVars
  <2>3. MessageKinds' /\ ConnInHand' /\ NoneLeft'
    BY <2>2 DEF HandOver, MessageKinds, ConnInHand, NoneLeft
  <2>4. PipeOrder'
    BY <1>stay, <2>2 DEF HandOver, PipeOrder, StopsStay
  <2>5. OpenInCallback' /\ IdleAtFirst'
    BY <1>type, <2>1, <2>2
    DEF HandOver, OpenInCallback, IdleAtFirst, TypeOK, PoolTypeOK, Busy
  <2>6. ForkedInOrder'
    <3>1. i \in Int /\ \A v \in Worker : v \in Int
      BY <1>type, PoolAssumption DEF TypeOK, Worker
    <3>2. \A v \in Worker : wpc'[v] = "unborn" <=> v >= i /\ v # i
      BY <1>type, <2>1, <2>2 DEF HandOver, ForkedInOrder, TypeOK, PoolTypeOK
    <3> QED
      BY <2>2, <3>1, <3>2 DEF ForkedInOrder
  <2>7. DeadForReason'
    BY <1>type, <1>stay, <2>1, <2>2
    DEF HandOver, DeadForReason, StopsStay, TypeOK, PoolTypeOK
  <2> QED
    BY <2>3, <2>4, <2>5, <2>6, <2>7 DEF HandOver
<1>2. CASE DispatchDone \/ Register \/ Run
  <2>1. Quiet /\ conn' = conn /\ i' = i /\ pc \in First
    BY <1>2 DEF DispatchDone, Register, Run, poolVars, selVars, loopVars
  <2>2. ForkedInOrder'
    <3>1. \A v \in Worker : v \in Int /\ v < WorkersN
      BY PoolAssumption DEF Worker
    <3>2. CASE DispatchDone
      BY <2>1, <3>1, <3>2, PoolAssumption DEF DispatchDone, HandOver, ForkedInOrder
    <3>3. CASE Register \/ Run
      BY <2>1, <3>3 DEF Register, Run, HandOver, ForkedInOrder
    <3> QED
      BY <1>2, <3>2, <3>3
  <2> QED
    BY <1>2, <1>stay, <2>1, <2>2, QuietHandOver
    DEF DispatchDone, Register, Run, HandOver, ConnInHand, NoneLeft
<1>3. CASE \/ Select \/ SelectWakes \/ CheckStop \/ CheckReady \/ FindFreeEof
           \/ FindFreeEofLogged \/ TerminateDone
  <2>1. /\ Quiet /\ conn' = conn
        /\ pc \notin First \cup {"submit", "hung", "exit"}
        /\ pc' \notin First \cup {"destroy", "exit"}
    BY <1>3
    DEF Select, SelectWakes, SelectReturns, CheckStop, CheckReady, FindFreeEof,
        FindFreeEofLogged, TerminateDone, JobEof, poolVars, selVars
  <2> QED
    BY <1>stay, <2>1, QuietHandOver
    DEF HandOver, ConnInHand, ForkedInOrder, NoneLeft
<1>4. CASE Accept \/ AcceptError
  <2>1. Quiet /\ pc = "accept" /\ pc' = "submit"
    BY <1>4 DEF Accept, AcceptError, poolVars
  <2> QED
    BY <1>stay, <2>1, QuietHandOver
    DEF HandOver, ConnInHand, ForkedInOrder, NoneLeft
<1>5. CASE Submit
  <2>1. /\ pc = "submit" /\ pc' \in {"exit", "loop", "find"} /\ conn' = NoConn
        /\ conn \in Conn \cup {NoConn}
    BY <1>5, <1>type DEF Submit, TypeOK
  <2>2. wpc' = wpc /\ wopen' = wopen
    BY <1>5 DEF Submit, SubmitConn, SubmitOverrun, workerVars
  <2>3. MessageKinds' /\ PipeOrder'
    <3>1. CASE SubmitOverrun
      BY <1>stay, <3>1 DEF SubmitOverrun, HandOver, MessageKinds, PipeOrder, StopsStay
    <3>2. CASE SubmitConn(conn)
      <4>1. PICK w \in Worker :
              \/ down' = down
              \/ /\ wpc[w] # "dead" \/ conn = NoConn
                 /\ down' = [down EXCEPT ![w] = IpcFdWrite(@, "p", conn)]
        BY <3>2, FirstFree DEF SubmitConn
      <4>2. CASE down' = down \/ conn = NoConn
        <5>1. down' = down
          BY <1>type, <4>1, <4>2 DEF IpcFdWrite, TypeOK, PoolTypeOK
        <5> QED
          BY <1>type, <1>stay, <5>1, PipesKept DEF HandOver, PipeStep
      <4>3. CASE down' # down /\ conn # NoConn
        <5>1. /\ conn \in Conn /\ wpc[w] # "dead"
              /\ down' = [down EXCEPT ![w] = Append(@, Job(conn))]
          BY <2>1, <4>1, <4>3 DEF IpcFdWrite, Job
        <5>2. \A k \in DOMAIN down[w] : down[w][k].conn # conn
          BY <4>3, <5>1 DEF KeptApart, InPipe
        <5>3. ~StopSent(w)
          BY <2>1 DEF StopSent
        <5> QED
          BY <1>type, <1>stay, <5>1, <5>2, <5>3, PipesKept DEF HandOver, PipeStep
      <4> QED
        BY <4>2, <4>3
    <3> QED
      BY <1>5, <3>1, <3>2 DEF Submit
  <2>4. OpenInCallback' /\ ConnInHand' /\ ForkedInOrder' /\ IdleAtFirst' /\ NoneLeft'
    BY <2>1, <2>2
    DEF HandOver, OpenInCallback, ConnInHand, ForkedInOrder, IdleAtFirst, NoneLeft
  <2>5. DeadForReason'
    BY <1>stay, <2>2 DEF HandOver, DeadForReason, StopsStay
  <2> QED
    BY <2>3, <2>4, <2>5 DEF HandOver
<1>6. CASE FindFree
  <2>1. pc = "find" /\ pc' \in {"loop", "find"} /\ conn' = conn
    BY <1>6 DEF FindFree
  <2>2. PICK w \in Worker : w = WorkerOf(NextFd)
    BY <1>type, <2>1, NextIsCounted DEF SelectResult
  <2>3. /\ wpc' = wpc /\ wopen' = wopen
        /\ down' = down \/ down' = [down EXCEPT ![w] = <<>>]
    BY <1>6, <2>2 DEF FindFree, JobDone, JobReset, workerVars
  <2>4. MessageKinds' /\ PipeOrder'
    BY <1>type, <1>stay, <2>3, PipesKept DEF HandOver, PipeStep
  <2>5. OpenInCallback' /\ ConnInHand' /\ ForkedInOrder' /\ IdleAtFirst' /\ NoneLeft'
    BY <2>1, <2>3
    DEF HandOver, OpenInCallback, ConnInHand, ForkedInOrder, IdleAtFirst, NoneLeft
  <2>6. DeadForReason'
    BY <1>stay, <2>3 DEF HandOver, DeadForReason, StopsStay
  <2> QED
    BY <2>4, <2>5, <2>6 DEF HandOver
<1>7. CASE Terminate
  <2>1. PICK w \in Worker : w = i /\ TerminateWorker(w)
    BY <1>7, <1>type, PoolAssumption DEF Terminate, Worker, TypeOK
  <2>2. /\ pc = "terminate" /\ pc' \in {"terminate", "exit"} /\ conn' = conn
        /\ i' = i + 1 /\ wpc' = wpc /\ wopen' = wopen
    BY <1>7 DEF Terminate, TerminateWorker, workerVars, selVars
  <2>3. \/ down' = down
        \/ down' = [down EXCEPT ![w] = Append(@, Stop)]
    BY <2>1 DEF TerminateWorker, ByteWrite, Stop
  <2>4. MessageKinds' /\ PipeOrder'
    <3>1. i \in Int /\ ~StopSent(w) /\ StopSent(w)'
      BY <1>type, <2>1, <2>2 DEF StopSent, TypeOK
    <3> QED
      BY <1>type, <1>stay, <2>3, <3>1, PipesKept DEF HandOver, PipeStep
  <2>5. OpenInCallback' /\ ConnInHand' /\ ForkedInOrder' /\ IdleAtFirst' /\ NoneLeft'
    BY <2>2
    DEF HandOver, OpenInCallback, ConnInHand, ForkedInOrder, IdleAtFirst, NoneLeft
  <2>6. DeadForReason'
    BY <1>stay, <2>2 DEF HandOver, DeadForReason, StopsStay
  <2> QED
    BY <2>4, <2>5, <2>6 DEF HandOver
<1>8. CASE Wait
  <2>1. /\ Quiet /\ conn' = conn /\ pc = "wait" /\ pc' = "destroy"
        /\ \A v \in Worker : wpc[v] \in {"unborn", "dead"}
    BY <1>8 DEF Wait, AllWorkersExited, poolVars, selVars
  <2> QED
    BY <1>stay, <2>1, QuietHandOver
    DEF HandOver, ConnInHand, ForkedInOrder, NoneLeft
<1>9. CASE Destroy \/ DispatchFails
  <2>1. /\ Quiet /\ conn' = conn /\ pc' = "exit" /\ pc \in {"destroy", "dispatch"}
    BY <1>9
    DEF Destroy, DispatchFails, ParentGone, DispatchForkFails, workerVars, selVars
  <2> QED
    BY <1>stay, <2>1, QuietHandOver
    DEF HandOver, ConnInHand, ForkedInOrder, NoneLeft
<1>10. ASSUME NEW scope \in SignalScopes, Sigint(scope) PROVE HandOver'
  <2>1. Quiet /\ conn' = conn /\ i' = i
    BY <1>10
    DEF Sigint, SigintDefault, SigintHandler, SigintHang, Deliver, tableVars,
        workerVars, selVars, loopVars
  <2>2. \/ pc' = pc
        \/ pc = "blocked" /\ pc' = "check"
        \/ pc \in {"dispatch", "register"} /\ pc' = "exit"
        \/ pc \in Logging \ {"destroy"} /\ pc' = "hung"
        \/ pc = "destroy" /\ pc' = "hungInDestroy"
    BY <1>10 DEF Logging, Sigint, SigintDefault, SigintHandler, SigintHang
  <2> QED
    BY <1>stay, <2>1, <2>2, QuietHandOver
    DEF HandOver, ConnInHand, ForkedInOrder, NoneLeft, Logging
<1>11. CASE UNCHANGED <<down, wpc, wopen, pc, i, conn>>
  BY <1>stay, <1>11, QuietHandOver
  DEF HandOver, ConnInHand, ForkedInOrder, NoneLeft
<1>12. ASSUME NEW w \in Worker,
              \/ WorkerRuns(w)
              \/ WorkerStderr(w) /\ UNCHANGED serverVars
              \/ WorkerCrash(w) /\ UNCHANGED serverVars
       PROVE  HandOver'
  BY <1>12, <1>type, <1>stay, WorkerHandOver DEF WorkerRuns
<1>13. ASSUME NEW c \in Conn, Arrive(c) PROVE HandOver'
  BY <1>11, <1>13 DEF Arrive, poolVars, loopVars, selVars
<1>14. CASE UNCHANGED vars
  BY <1>11, <1>14 DEF vars, poolVars, loopVars, selVars
<1> QED
  BY <1>1, <1>2, <1>3, <1>4, <1>5, <1>6, <1>7, <1>8, <1>9, <1>10, <1>12, <1>13,
     <1>14 DEF Next, ParentStep

-----------------------------------------------------------------------------
\* The mapping

\* What a pipe holds of connections.
LEMMA PipeSame ==
  ASSUME NEW v \in Worker, wpc'[v] = "dead" <=> wpc[v] = "dead", down'[v] = down[v]
  PROVE  InPipe(v)' = InPipe(v)
<1>1. {down'[v][k].conn : k \in DOMAIN down'[v]} = {down[v][k].conn : k \in DOMAIN down[v]}
  OBVIOUS
<1> QED
  BY <1>1 DEF InPipe

LEMMA OneMessage ==
  ASSUME NEW q \in Seq(Message), Len(q) = 1
  PROVE  DOMAIN q = {1} /\ Tail(q) = <<>>
<1>1. DOMAIN q = 1 .. 1 /\ q # <<>>
  OBVIOUS
<1>2. Tail(q) \in Seq(Message) /\ Len(Tail(q)) = 0
  BY <1>1
<1>3. \A r \in Seq(Message) : Len(r) = 0 => r = <<>>
  OBVIOUS
<1>4. 1 .. 1 = {1}
  OBVIOUS
<1> QED
  BY <1>1, <1>2, <1>3, <1>4

\* An "s" is the last message: behind it there is none, and it holds none.
LEMMA PipeStops ==
  ASSUME TypeOK, MessageKinds, PipeOrder, NEW w \in Worker,
         down[w] # <<>> => Head(down[w]).cmd = "s"
  PROVE  InPipe(w) = {} /\ (down[w] # <<>> => Tail(down[w]) = <<>>)
<1>1. down[w] \in Seq(Message)
  BY DEF TypeOK, PoolTypeOK
<1>2. CASE down[w] = <<>>
  BY <1>2 DEF InPipe
<1>3. CASE down[w] # <<>>
  <2>1. /\ Len(down[w]) \in Nat /\ 1 \in DOMAIN down[w] /\ Head(down[w]) = down[w][1]
        /\ Len(Tail(down[w])) = Len(down[w]) - 1
    BY <1>1, <1>3, Taken
  <2>2. Len(down[w]) = 1 /\ down[w][1].conn = NoConn
    BY <1>3, <2>1 DEF MessageKinds, PipeOrder
  <2>3. DOMAIN down[w] = {1} /\ Tail(down[w]) = <<>>
    BY <1>1, <2>2, OneMessage
  <2> QED
    BY <2>2, <2>3 DEF InPipe
<1> QED
  BY <1>2, <1>3

\* A job is taken from the pipe.
LEMMA PipeTaken ==
  ASSUME TypeOK, MessageKinds, PipeOrder, NEW w \in Worker, wpc[w] # "dead",
         down[w] # <<>>, Head(down[w]).cmd = "p",
         wpc'[w] # "dead", down'[w] = Tail(down[w])
  PROVE  /\ Head(down[w]).conn \in Conn /\ Head(down[w]).conn \in InPipe(w)
         /\ InPipe(w)' = InPipe(w) \ {Head(down[w]).conn}
<1> DEFINE q == down[w]
           t == Tail(q)
<1>1. q \in Seq(Message)
  BY DEF TypeOK, PoolTypeOK
<1>2. /\ 1 \in DOMAIN q /\ Head(q) = q[1]
      /\ \A k \in DOMAIN t : k \in Nat /\ k + 1 \in DOMAIN q /\ t[k] = q[k + 1]
      /\ \A k \in DOMAIN q : k = 1 \/ (k - 1 \in DOMAIN t /\ t[k - 1] = q[k])
      /\ \A k \in DOMAIN t : k + 1 # 1
  BY <1>1, Taken
<1>3. \A k \in DOMAIN q : k # 1 => q[k].conn # q[1].conn
  BY <1>2 DEF PipeOrder
<1>4. q[1].conn \in Conn \cup {NoConn} /\ q[1].conn # NoConn
  <2>1. q[1] \in Message /\ q[1].cmd = "p"
    BY <1>1, <1>2
  <2> QED
    BY <1>2, <2>1 DEF MessageKinds, Message
<1>5. /\ \A x : x \in InPipe(w) <=> x # NoConn /\ \E k \in DOMAIN q : x = q[k].conn
      /\ \A x : x \in InPipe(w)' <=> x # NoConn /\ \E k \in DOMAIN t : x = t[k].conn
  BY DEF InPipe
<1> HIDE DEF q, t
<1>6. \A x : (\E k \in DOMAIN t : x = t[k].conn)
               <=> (\E k \in DOMAIN q : x = q[k].conn /\ k # 1)
  BY <1>2
<1>7. \A x : x \in InPipe(w)' <=> x \in InPipe(w) /\ x # q[1].conn
  <2>1. \A x : (\E k \in DOMAIN q : x = q[k].conn /\ k # 1)
                 <=> (\E k \in DOMAIN q : x = q[k].conn) /\ x # q[1].conn
    BY <1>3
  <2> SUFFICES ASSUME NEW x PROVE x \in InPipe(w)' <=> x \in InPipe(w) /\ x # q[1].conn
    OBVIOUS
  <2>2. x \in InPipe(w)' <=> x # NoConn /\ \E k \in DOMAIN t : x = t[k].conn
    BY <1>5
  <2>3. x \in InPipe(w) <=> x # NoConn /\ \E k \in DOMAIN q : x = q[k].conn
    BY <1>5
  <2> QED
    BY <1>6, <2>1, <2>2, <2>3
<1>8. q[1].conn \in InPipe(w)
  BY <1>2, <1>4, <1>5
<1> QED
  BY <1>2, <1>4, <1>7, <1>8 DEF q

\* A message is put into it.
LEMMA PipeAdded ==
  ASSUME TypeOK, NEW w \in Worker, wpc[w] # "dead", wpc'[w] # "dead",
         NEW m \in Message, down'[w] = Append(down[w], m)
  PROVE  InPipe(w)' = InPipe(w) \cup ({m.conn} \ {NoConn})
<1> DEFINE q == down[w]
           t == Append(q, m)
<1>1. q \in Seq(Message)
  BY DEF TypeOK, PoolTypeOK
<1>2. /\ Len(q) + 1 \in DOMAIN t /\ t[Len(q) + 1] = m
      /\ \A k \in DOMAIN t : k = Len(q) + 1 \/ (k \in DOMAIN q /\ t[k] = q[k])
      /\ \A k \in DOMAIN q : k \in DOMAIN t /\ t[k] = q[k]
  BY <1>1, Added
<1>3. /\ \A x : x \in InPipe(w) <=> x # NoConn /\ \E k \in DOMAIN q : x = q[k].conn
      /\ \A x : x \in InPipe(w)' <=> x # NoConn /\ \E k \in DOMAIN t : x = t[k].conn
  BY DEF InPipe
<1> HIDE DEF q, t
<1>4. \A x : (\E k \in DOMAIN t : x = t[k].conn)
               <=> (x = m.conn \/ \E k \in DOMAIN q : x = q[k].conn)
  BY <1>2
<1> QED
  BY <1>3, <1>4

\* What the service sees of a step that touches worker w.
LEMMA MappedAt ==
  ASSUME NEW w \in Worker,
         \A v \in Worker \ {w} : /\ InPipe(v)' = InPipe(v)
                                 /\ wopen'[v] = wopen[v] /\ wconn'[v] = wconn[v]
  PROVE  /\ Given' = [Given EXCEPT ![w] = InPipe(w)']
         /\ InCallback' =
              [InCallback EXCEPT ![w] = IF wopen'[w] THEN {wconn'[w]} ELSE {}]
BY DEF Given, InCallback

\* And of one that touches none.
LEMMA MappedSame ==
  ASSUME \A v \in Worker : /\ InPipe(v)' = InPipe(v)
                           /\ wopen'[v] = wopen[v] /\ wconn'[v] = wconn[v]
  PROVE  Given' = Given /\ InCallback' = InCallback
BY DEF Given, InCallback

\* The initial states of the server are initial states of the service.
LEMMA InitImplements == Init => Service!ServiceInit
<1> SUFFICES ASSUME Init PROVE Service!ServiceInit
  OBVIOUS
<1>1. \A w \in Worker : InPipe(w) = {} /\ ~wopen[w]
  BY DEF Init, PoolInit, InPipe
<1>2. Given = [w \in Worker |-> {}] /\ InCallback = [w \in Worker |-> {}]
  BY <1>1 DEF Given, InCallback
<1>3. InHand = {} /\ arrived = {} /\ backlog = <<>> /\ served = {} /\ parent = "up"
  BY DEF Init, PoolInit, InHand
<1>4. /\ ServiceFailed = FALSE /\ (parent = "up") = TRUE
      /\ Fallen = {} /\ (noise > 0) = FALSE
  BY <1>3 DEF Init, PoolInit, ServiceFailed, Killed, Fallen
<1> QED
  BY <1>2, <1>3, <1>4 DEF Service!ServiceInit

-----------------------------------------------------------------------------
\* The steps

ServiceStep == [Service!ServiceNext]_(Service!connVars)

\* A step the service does not see, or sees as a failure at most.
LEMMA Stutter ==
  ASSUME UNCHANGED <<arrived, backlog, conn, served>>,
         parent' = "up" <=> parent = "up", ServiceFailed => ServiceFailed',
         Given' = Given, InCallback' = InCallback, Fallen' = Fallen, noise' = noise
  PROVE  ServiceStep
<1>1. InHand' = InHand
  BY DEF InHand
<1>2. (parent = "up")' = (parent = "up") /\ (noise > 0)' = (noise > 0)
  OBVIOUS
<1>3. CASE ServiceFailed' = ServiceFailed
  BY <1>1, <1>2, <1>3 DEF ServiceStep, Service!connVars
<1>4. CASE ServiceFailed' # ServiceFailed
  <2>1. ServiceFailed' = TRUE
    BY <1>4 DEF ServiceFailed
  <2>2. Service!Fail
    BY <1>1, <1>2, <2>1 DEF Service!Fail
  <2> QED
    BY <2>2 DEF ServiceStep, Service!ServiceNext
<1> QED
  BY <1>3, <1>4

\* A server that has stopped without a fault has left no worker a connection.
StoppedIdle ==
  parent # "up" /\ ~ServiceFailed => \A w \in Worker : InPipe(w) = {} /\ ~wopen[w]

\* A worker's steps: it begins or finishes a connection, or loses what it has.
LEMMA WorkerImplements ==
  ASSUME TypeOK, OpenConn, HandOver, StoppedIdle,
         ServiceFailed => ServiceFailed', NEW w \in Worker,
         WorkerStep(w) \/ WorkerStderr(w) \/ WorkerCrash(w),
         UNCHANGED serverVars
  PROVE  ServiceStep
<1> USE DEF TypeOK, PoolTypeOK
<1>1. /\ UNCHANGED <<arrived, backlog, conn, parent>>
      /\ InHand' = InHand /\ (parent = "up")' = (parent = "up")
  BY DEF serverVars, netVars, selVars, InHand, WorkerStep, WorkerStop,
         WorkerReceive, WorkerReset, WorkerEof, WorkerServed, WorkerReport,
         WorkerInterrupted, WorkerStderr, WorkerCrash
<1>2. \A v \in Worker \ {w} : /\ wpc'[v] = wpc[v] /\ down'[v] = down[v]
                              /\ wopen'[v] = wopen[v] /\ wconn'[v] = wconn[v]
  BY DEF WorkerStep, WorkerStop, WorkerReceive, WorkerReset, WorkerEof,
         WorkerServed, WorkerReport, WorkerInterrupted, WorkerStderr,
         WorkerCrash, Dies, workerVars
<1>3. \A v \in Worker \ {w} : InPipe(v)' = InPipe(v)
  BY <1>2, PipeSame
<1>4. /\ Given' = [Given EXCEPT ![w] = InPipe(w)']
      /\ InCallback' = [InCallback EXCEPT ![w] = IF wopen'[w] THEN {wconn'[w]} ELSE {}]
      /\ Given[w] = InPipe(w) /\ InCallback[w] = IF wopen[w] THEN {wconn[w]} ELSE {}
      /\ Given = [v \in Worker |-> Given[v]]
      /\ InCallback = [v \in Worker |-> InCallback[v]]
  BY <1>2, <1>3, MappedAt DEF Given, InCallback
<1>5. MessageKinds /\ PipeOrder /\ OpenInCallback
  BY DEF HandOver
<1>alive. wpc[w] # "dead" /\ (WorkerCrash(w) \/ WorkerStep(w) => noise' = noise)
  BY DEF WorkerStep, WorkerStop, WorkerReceive, WorkerReset, WorkerEof, WorkerServed,
         WorkerReport, WorkerInterrupted, WorkerStderr, WorkerCrash, faultVars, Alive,
         Busy
<1>killed. WorkerStep(w) \/ WorkerStderr(w) => Killed' = Killed
  BY DEF WorkerStep, WorkerStop, WorkerReceive, WorkerReset, WorkerEof, WorkerServed,
         WorkerReport, WorkerInterrupted, WorkerStderr, faultVars, Killed
<1>fallen. /\ wpc'[w] # "dead" /\ Killed' = Killed => Fallen' = Fallen
           /\ Killed' = Killed /\ w \notin Killed => Fallen' = Fallen
           /\ Killed' \in {Killed, Killed \cup {w}} /\ w \in Killed' /\ Dies(w) =>
                w \notin Fallen /\ Fallen' = Fallen \cup {w}
  <2>1. Killed \subseteq Worker
    BY DEF Killed
  <2>2. Dies(w) => wpc'[w] = "dead"
    BY DEF Dies
  <2> QED
    BY <1>2, <1>alive, <2>1, <2>2 DEF Fallen
<1>6. ASSUME InPipe(w)' = InPipe(w), served' = served, Fallen' = Fallen, noise' = noise,
             IF wopen'[w] THEN wopen[w] /\ wconn'[w] = wconn[w] ELSE ~wopen[w]
      PROVE  ServiceStep
  <2>1. Given' = Given /\ InCallback' = InCallback
    BY <1>4, <1>6
  <2> QED
    BY <1>1, <1>6, <2>1, Stutter
<1>dead. ASSUME Dies(w) PROVE InPipe(w)' = {} /\ ~wopen'[w] /\ served' = served
  BY <1>dead DEF Dies, InPipe
<1>7. ASSUME Dies(w), w \in Killed', Killed' \in {Killed, Killed \cup {w}},
             noise' = noise
      PROVE  ServiceStep
  <2>1. ServiceFailed' = TRUE /\ (noise > 0)' = (noise > 0)
    BY <1>7 DEF ServiceFailed
  <2>2. w \notin Fallen /\ Fallen' = Fallen \cup {w}
    BY <1>7, <1>fallen
  <2>3. Service!Crash(w)
    BY <1>1, <1>4, <1>7, <1>dead, <2>1, <2>2 DEF Service!Crash, Service!LosesAll
  <2> QED
    BY <2>3 DEF ServiceStep, Service!ServiceNext
<1>8. ASSUME Dies(w), InPipe(w) = {}, ~wopen[w], Killed' = Killed, noise' = noise
      PROVE  ServiceStep
  <2>1. CASE w \in Killed
    BY <1>7, <1>8, <2>1
  <2>2. CASE w \notin Killed
    BY <1>6, <1>8, <1>dead, <1>fallen, <2>2
  <2> QED
    BY <2>1, <2>2
<1>9. ASSUME Dies(w), Orphaned(w), Killed' = Killed, noise' = noise PROVE ServiceStep
  <2>1. CASE w \in Killed
    BY <1>7, <1>9, <2>1
  <2>2. CASE ~ServiceFailed
    <3>1. InPipe(w) = {} /\ ~wopen[w]
      BY <1>9, <2>2 DEF StoppedIdle, Orphaned
    <3> QED
      BY <1>8, <1>9, <3>1
  <2>3. CASE ServiceFailed /\ w \notin Killed
    <3>1. /\ ServiceFailed' = ServiceFailed /\ Fallen' = Fallen
          /\ (noise > 0)' = (noise > 0) /\ ~(parent = "up")
      BY <1>1, <1>9, <1>fallen, <2>3 DEF ServiceFailed, Orphaned
    <3>2. Service!Orphan(w)
      BY <1>1, <1>4, <1>9, <1>dead, <2>3, <3>1 DEF Service!Orphan, Service!LosesAll
    <3> QED
      BY <3>2 DEF ServiceStep, Service!ServiceNext
  <2> QED
    BY <2>1, <2>2, <2>3
<1>10. CASE WorkerStop(w)
  <2>1. Dies(w) /\ ~wopen[w] /\ InPipe(w) = {}
    BY <1>5, <1>10, PipeStops DEF WorkerStop, OpenInCallback
  <2> QED
    BY <1>8, <1>10, <1>alive, <1>killed, <2>1 DEF WorkerStep
<1>11. CASE WorkerEof(w)
  BY <1>9, <1>11, <1>alive, <1>killed DEF WorkerEof, WorkerStep
<1>12. CASE WorkerReport(w) \/ WorkerStderr(w)
  <2>1. CASE Orphaned(w)
    <3>1. Dies(w) /\ noise' = noise
      BY <1>12, <2>1 DEF WorkerReport, WorkerStderr, faultVars
    <3> QED
      BY <1>9, <1>12, <1>killed, <2>1, <3>1 DEF WorkerStep
  <2>2. CASE ~Orphaned(w)
    <3>1. /\ down' = down /\ UNCHANGED <<wopen, wconn, served>>
          /\ wpc[w] # "dead" /\ wpc'[w] # "dead"
      BY <1>12, <2>2 DEF WorkerReport, WorkerStderr, workerVars
    <3>2. InPipe(w)' = InPipe(w) /\ Fallen' = Fallen
      BY <1>12, <1>fallen, <1>killed, <3>1, PipeSame DEF WorkerStep
    <3>3. CASE WorkerReport(w)
      BY <1>6, <1>alive, <3>1, <3>2, <3>3 DEF WorkerStep
    <3>4. CASE WorkerStderr(w)
      <4>1. Given' = Given /\ InCallback' = InCallback
        BY <1>4, <3>1, <3>2
      <4>2. (noise > 0)' = TRUE
        BY <2>2, <3>4 DEF WorkerStderr
      <4>3. ServiceFailed' = ServiceFailed
        BY <1>1, <1>killed, <3>4 DEF ServiceFailed
      <4>4. Service!PrintsOut
        BY <1>1, <3>1, <3>2, <4>1, <4>2, <4>3 DEF Service!PrintsOut
      <4> QED
        BY <4>4 DEF ServiceStep, Service!ServiceNext
    <3> QED
      BY <1>12, <3>3, <3>4
  <2> QED
    BY <2>1, <2>2
<1>13. CASE WorkerReset(w)
  <2>1. /\ down' = down /\ UNCHANGED <<wopen, wconn, served>>
        /\ wpc[w] # "dead" /\ wpc'[w] # "dead"
    BY <1>13 DEF WorkerReset
  <2>2. InPipe(w)' = InPipe(w) /\ Fallen' = Fallen /\ noise' = noise
    BY <1>13, <1>alive, <1>fallen, <1>killed, <2>1, PipeSame DEF WorkerStep
  <2> QED
    BY <1>6, <2>1, <2>2
<1>14. CASE WorkerServed(w)
  <2>1. /\ down' = down /\ wpc[w] # "dead" /\ wpc'[w] # "dead"
        /\ ~wopen'[w] /\ UNCHANGED <<crashed, doomed, parent>>
    BY <1>14 DEF WorkerServed, faultVars
  <2>2. InPipe(w)' = InPipe(w) /\ Fallen' = Fallen /\ noise' = noise
    BY <1>14, <1>alive, <1>fallen, <1>killed, <2>1, PipeSame DEF WorkerStep
  <2>3. CASE wopen[w]
    <3>1. served' = served \cup {wconn[w]}
      BY <1>14, <2>3 DEF WorkerServed
    <3>2. Given' = Given
      BY <1>4, <2>2
    <3>3. InCallback' = [InCallback EXCEPT ![w] = {}] /\ InCallback[w] = {wconn[w]}
      BY <1>4, <2>1, <2>3
    <3>4. ServiceFailed' = ServiceFailed /\ (noise > 0)' = (noise > 0)
      BY <2>1, <2>2 DEF ServiceFailed, Killed
    <3>5. Service!Finish(wconn[w], w)
      BY <1>1, <2>2, <3>1, <3>2, <3>3, <3>4 DEF Service!Finish
    <3>6. wconn[w] \in Conn
      <4>1. wopen[w] => wconn[w] # NoConn
        BY DEF OpenConn
      <4> QED
        BY <2>3, <4>1
    <3> QED
      BY <3>5, <3>6 DEF ServiceStep, Service!ServiceNext
  <2>4. CASE ~wopen[w]
    <3>1. served' = served
      BY <1>14, <2>4 DEF WorkerServed
    <3> QED
      BY <1>6, <2>1, <2>2, <2>4, <3>1
  <2> QED
    BY <2>3, <2>4
<1>15. CASE WorkerReceive(w)
  <2> DEFINE d == Head(down[w]).conn
  <2>1. /\ wpc[w] = "read" /\ wpc'[w] # "dead" /\ down[w] # <<>>
        /\ Head(down[w]).cmd = "p" /\ down'[w] = Tail(down[w])
        /\ served' = served /\ UNCHANGED <<crashed, doomed, parent>>
    BY <1>15 DEF WorkerReceive, faultVars
  <2>2. ~wopen[w]
    BY <1>5, <2>1 DEF OpenInCallback
  <2>3. d \in Conn /\ d \in InPipe(w) /\ InPipe(w)' = InPipe(w) \ {d}
    BY <1>5, <2>1, PipeTaken
  <2>4. PICK c \in IpcFdRead(Head(down[w])) :
          wconn'[w] = c /\ (wopen'[w] <=> c # NoConn)
    BY <1>15 DEF WorkerReceive
  <2>5. /\ ServiceFailed' = ServiceFailed /\ Fallen' = Fallen
        /\ (noise > 0)' = (noise > 0)
    BY <1>15, <1>alive, <1>fallen, <1>killed, <2>1
    DEF ServiceFailed, Killed, WorkerStep
  <2>6. Given' = [Given EXCEPT ![w] = @ \ {d}] /\ d \in Given[w]
    BY <1>4, <2>3
  <2>7. CASE c # NoConn
    <3>1. c = d
      BY <2>4, <2>7 DEF IpcFdRead
    <3>2. InCallback' = [InCallback EXCEPT ![w] = {d}] /\ InCallback[w] = {}
      BY <1>4, <2>2, <2>4, <2>7, <3>1
    <3>3. Service!Begin(d, w)
      BY <1>1, <2>1, <2>5, <2>6, <3>2 DEF Service!Begin
    <3> QED
      BY <2>3, <3>3 DEF ServiceStep, Service!ServiceNext
  <2>8. CASE c = NoConn
    <3>1. FdTruncation
      BY <2>3, <2>4, <2>8, ConnAssumption DEF IpcFdRead
    <3>2. InCallback' = InCallback
      BY <1>4, <2>2, <2>4, <2>8
    <3>3. Service!Drop(d, w)
      BY <1>1, <2>1, <2>5, <2>6, <3>1, <3>2 DEF Service!Drop
    <3> QED
      BY <2>3, <3>3 DEF ServiceStep, Service!ServiceNext
  <2> QED
    BY <2>7, <2>8
<1>16. CASE WorkerInterrupted(w) \/ WorkerCrash(w)
  <2>1. /\ Dies(w) /\ noise' = noise
        /\ w \in Killed' /\ Killed' \in {Killed, Killed \cup {w}}
    BY <1>16 DEF WorkerInterrupted, WorkerCrash, Killed, faultVars
  <2> QED
    BY <1>7, <2>1
<1> QED
  BY <1>10, <1>11, <1>12, <1>13, <1>14, <1>15, <1>16 DEF WorkerStep

\* Before the loop, as before the end, no worker has a connection.
LEMMA NobodyWorks ==
  ASSUME HandOver, pc \in {"dispatch", "register"} \/ pc = "destroy"
  PROVE  Service!InWork = {} /\ InHand = {}
<1>1. ASSUME NEW w \in Worker PROVE Given[w] = {} /\ InCallback[w] = {}
  <2>1. \/ wpc[w] = "dead"
        \/ down[w] = <<>> /\ wpc[w] \notin Busy
    BY DEF HandOver, NoneLeft, IdleAtFirst
  <2>2. InPipe(w) = {}
    BY <2>1 DEF InPipe
  <2>3. ~wopen[w]
    BY <2>1 DEF HandOver, OpenInCallback, Busy
  <2> QED
    BY <2>2, <2>3 DEF Given, InCallback
<1>2. InHand = {}
  BY DEF HandOver, ConnInHand, InHand
<1> QED
  BY <1>1, <1>2 DEF Service!InWork, Service!Handled

\* What is not a worker's own step: the server's, a client's, or a signal.
OutsideWorkers ==
  \/ ParentStep \/ DispatchFails \/ AcceptError \/ UNCHANGED vars
  \/ \E scope \in SignalScopes : Sigint(scope)
  \/ \E c \in Conn : Arrive(c)

\* Workers do not die of it, and callbacks do not print.
LEMMA FallenStays ==
  ASSUME TypeOK, HandOver, OutsideWorkers
  PROVE  Fallen' = Fallen /\ noise' = noise
<1>1. CASE Dispatch
  <2>1. i \in Worker /\ wpc[i] = "unborn"
    BY <1>1, PoolAssumption DEF Dispatch, Worker, TypeOK, HandOver, ForkedInOrder
  <2>2. /\ wpc' = [wpc EXCEPT ![i] = "read"]
        /\ UNCHANGED <<crashed, doomed, noise>>
    BY <1>1 DEF Dispatch, DispatchWorker, faultVars
  <2>3. \A v \in Worker : wpc'[v] = "dead" <=> wpc[v] = "dead"
    BY <2>1, <2>2 DEF TypeOK, PoolTypeOK
  <2> QED
    BY <2>2, <2>3 DEF Fallen, Killed, TypeOK, PoolTypeOK
<1>2. ASSUME NEW scope \in SignalScopes, Sigint(scope)
      PROVE  Fallen' = Fallen /\ noise' = noise
  <2>1. /\ UNCHANGED <<wpc, crashed, noise>>
        /\ \/ doomed' = doomed
           \/ doomed' = doomed \cup {w \in Worker : wpc[w] \in Alive}
    BY <1>2
    DEF Sigint, SigintDefault, SigintHandler, SigintHang, Deliver, workerVars
  <2> QED
    BY <2>1 DEF Fallen, Killed, Alive, Busy
<1>3. CASE \/ DispatchDone \/ Register \/ Run \/ Select \/ SelectWakes \/ CheckStop
           \/ CheckReady \/ FindFreeEof \/ FindFreeEofLogged \/ TerminateDone \/ Wait
           \/ Accept \/ AcceptError \/ Submit \/ FindFree \/ Terminate \/ Destroy
           \/ DispatchFails \/ UNCHANGED vars \/ \E c \in Conn : Arrive(c)
  <2>1. UNCHANGED <<wpc, crashed, doomed, noise>>
    BY <1>3
    DEF DispatchDone, Register, Run, Select, SelectWakes, SelectReturns, CheckStop,
        CheckReady, FindFreeEof, FindFreeEofLogged, JobEof, TerminateDone, Wait,
        Accept, AcceptError, Submit, SubmitConn, SubmitOverrun, FindFree, JobDone,
        JobReset, Terminate, TerminateWorker, Destroy, ParentGone, DispatchFails,
        DispatchForkFails, Arrive, vars, poolVars, workerVars, faultVars
  <2> QED
    BY <2>1 DEF Fallen, Killed
<1> QED
  BY <1>1, <1>2, <1>3 DEF OutsideWorkers, ParentStep

\* Every step of the server is a step of the service, or none.
LEMMA StepImplements ==
  ASSUME ServerType, SelectResult, HandOver, KeptApart, StoppedIdle,
         noise = 0 => Accounting, [Next]_vars
  PROVE  ServiceStep
<1>type. TypeOK /\ OpenConn
  BY DEF ServerType
<1>fails. ServiceFailed => ServiceFailed'
  BY FailedStays
<1>open. parent = "up" <=> pc # "exit"
  BY DEF SelectResult
<1>fallen. OutsideWorkers =>
             Fallen' = Fallen /\ noise' = noise /\ (noise > 0)' = (noise > 0)
  BY <1>type, FallenStays
<1> DEFINE Workers == UNCHANGED <<wopen, wconn, served>>
<1>same. ASSUME Workers,
                \A v \in Worker : /\ wpc'[v] = "dead" <=> wpc[v] = "dead"
                                  /\ down'[v] = down[v] \/ wpc[v] = "dead"
         PROVE  Given' = Given /\ InCallback' = InCallback
  <2>1. ASSUME NEW v \in Worker PROVE InPipe(v)' = InPipe(v)
    <3>1. CASE wpc[v] = "dead"
      BY <1>same, <3>1 DEF InPipe
    <3>2. CASE wpc[v] # "dead"
      BY <1>same, <3>2, PipeSame
    <3> QED
      BY <3>1, <3>2
  <2> QED
    BY <1>same, <2>1, MappedSame
<1>quiet. ASSUME Workers, UNCHANGED <<wpc, down>>
          PROVE  Given' = Given /\ InCallback' = InCallback
  BY <1>same, <1>quiet
<1>1. CASE Dispatch
  <2>fallen. Fallen' = Fallen /\ noise' = noise /\ (noise > 0)' = (noise > 0)
    BY <1>1, <1>fallen DEF OutsideWorkers, ParentStep
  <2>1. PICK w \in Worker : w = i /\ wpc[w] = "unborn"
    BY <1>1, <1>type, PoolAssumption
    DEF Dispatch, Worker, TypeOK, HandOver, ForkedInOrder
  <2>2. /\ wpc' = [wpc EXCEPT ![w] = "read"]
        /\ UNCHANGED <<down, parent, conn, arrived, backlog>> /\ Workers
    BY <1>1, <2>1 DEF Dispatch, DispatchWorker, selVars, netVars
  <2>3. \A v \in Worker : wpc'[v] = "dead" <=> wpc[v] = "dead"
    BY <1>type, <2>1, <2>2 DEF TypeOK, PoolTypeOK
  <2>4. Given' = Given /\ InCallback' = InCallback
    BY <1>same, <2>2, <2>3
  <2> QED
    BY <1>fails, <2>2, <2>4, <2>fallen, Stutter
<1>2. CASE \/ DispatchDone \/ Register \/ Run \/ Select \/ SelectWakes \/ CheckStop
           \/ CheckReady \/ FindFreeEof \/ FindFreeEofLogged \/ TerminateDone \/ Wait
           \/ UNCHANGED vars
  <2>fallen. Fallen' = Fallen /\ noise' = noise /\ (noise > 0)' = (noise > 0)
    BY <1>2, <1>fallen DEF OutsideWorkers, ParentStep
  <2>1. Workers /\ UNCHANGED <<wpc, down, parent, conn, arrived, backlog>>
    BY <1>2
    DEF DispatchDone, Register, Run, Select, SelectWakes, SelectReturns, CheckStop,
        CheckReady, FindFreeEof, FindFreeEofLogged, JobEof, TerminateDone, Wait,
        vars, poolVars, selVars, netVars
  <2> QED
    BY <1>fails, <1>quiet, <2>1, <2>fallen, Stutter
<1>3. CASE Accept \/ AcceptError
  <2>fallen. Fallen' = Fallen /\ noise' = noise /\ (noise > 0)' = (noise > 0)
    BY <1>3, <1>fallen DEF OutsideWorkers, ParentStep
  <2>1. /\ pc = "accept" /\ Workers /\ UNCHANGED <<wpc, down, parent, arrived>>
        /\ UNCHANGED <<crashed, doomed>>
    BY <1>3 DEF Accept, AcceptError, poolVars, netVars
  <2>2. /\ conn = NoConn /\ InHand = {} /\ parent = "up"
        /\ ServiceFailed' = ServiceFailed
    BY <1>open, <2>1 DEF HandOver, ConnInHand, InHand, ServiceFailed, Killed
  <2>3. Given' = Given /\ InCallback' = InCallback
    BY <1>quiet, <2>1
  <2>4. CASE AcceptError
    <3>1. conn' = conn /\ backlog' = backlog
      BY <2>2, <2>4 DEF AcceptError, netVars
    <3> QED
      BY <1>fails, <2>1, <2>3, <3>1, <2>fallen, Stutter
  <2>5. CASE Accept
    <3>1. backlog # <<>> /\ backlog' = Tail(backlog) /\ conn' = Head(backlog)
      BY <2>5 DEF Accept
    <3>2. Head(backlog) # NoConn
      BY <1>type, <3>1, ConnAssumption DEF TypeOK
    <3>3. InHand' = {Head(backlog)}
      BY <3>1, <3>2 DEF InHand
    <3>4. Service!AcceptNext
      BY <2>1, <2>2, <2>3, <3>1, <3>3, <2>fallen DEF Service!AcceptNext
    <3> QED
      BY <3>4 DEF ServiceStep, Service!ServiceNext
  <2> QED
    BY <1>3, <2>4, <2>5
<1>4. CASE Submit
  <2>fallen. Fallen' = Fallen /\ noise' = noise /\ (noise > 0)' = (noise > 0)
    BY <1>4, <1>fallen DEF OutsideWorkers, ParentStep
  <2>1. /\ pc = "submit" /\ conn' = NoConn /\ InHand' = {} /\ parent = "up"
        /\ arrived' = arrived /\ conn \in Conn \cup {NoConn}
        /\ backlog' = IF parent' = "gone" THEN <<>> ELSE backlog
    BY <1>4, <1>type, <1>open DEF Submit, InHand, TypeOK
  <2>2. Workers /\ wpc' = wpc /\ UNCHANGED <<crashed, doomed>>
    BY <1>4 DEF Submit, SubmitConn, SubmitOverrun, workerVars, faultVars
  <2>3. CASE SubmitOverrun
    <3>1. parent' = "overrun" /\ down' = down /\ backlog' = backlog
      BY <2>1, <2>3 DEF SubmitOverrun
    <3>2. Given' = Given /\ InCallback' = InCallback
      BY <1>quiet, <2>2, <3>1
    <3>3. ServiceFailed' = TRUE
      BY <3>1 DEF ServiceFailed
    <3>4. Service!Abort
      BY <2>1, <2>2, <3>1, <3>2, <3>3, <2>fallen DEF Service!Abort
    <3> QED
      BY <3>4 DEF ServiceStep, Service!ServiceNext
  <2>4. CASE SubmitConn(conn)
    <3>1. PICK w \in FreeWorkers :
            /\ w \in Worker
            /\ IF wpc[w] = "dead" /\ conn # NoConn
               THEN parent' = "gone" /\ down' = down
               ELSE /\ parent' = parent
                    /\ down' = [down EXCEPT ![w] = IpcFdWrite(@, "p", conn)]
      BY <2>4, FirstFree DEF SubmitConn
    <3>2. CASE conn = NoConn
      <4>1. parent' = parent /\ down' = down
        BY <1>type, <3>1, <3>2 DEF IpcFdWrite, TypeOK, PoolTypeOK
      <4> QED
        BY <1>fails, <1>quiet, <2>1, <2>2, <3>2, <4>1, <2>fallen, Stutter
    <3>3. CASE conn # NoConn /\ wpc[w] = "dead"
      <4>1. parent' = "gone" /\ down' = down /\ backlog' = <<>>
        BY <2>1, <3>1, <3>3
      <4>2. ServiceFailed'
        BY <1>fails, <2>1, <3>1, <3>3
        DEF HandOver, DeadForReason, StopSent, Killed, ServiceFailed
      <4>3. Given' = Given /\ InCallback' = InCallback /\ ServiceFailed' = TRUE
        BY <1>quiet, <2>2, <4>1, <4>2 DEF ServiceFailed
      <4>4. Service!Abort
        BY <2>1, <2>2, <4>1, <4>3, <2>fallen DEF Service!Abort
      <4> QED
        BY <4>4 DEF ServiceStep, Service!ServiceNext
    <3>4. CASE conn # NoConn /\ wpc[w] # "dead"
      <4>1. /\ parent' = "up" /\ backlog' = backlog /\ ServiceFailed' = ServiceFailed
            /\ down' = [down EXCEPT ![w] = Append(@, Job(conn))]
        BY <2>1, <2>2, <3>1, <3>4 DEF IpcFdWrite, Job, ServiceFailed, Killed
      <4>2. conn \in Conn /\ down'[w] = Append(down[w], Job(conn))
        BY <1>type, <2>1, <3>1, <3>4, <4>1 DEF TypeOK, PoolTypeOK
      <4>3. InPipe(w)' = InPipe(w) \cup {conn}
        BY <1>type, <2>2, <3>1, <3>4, <4>2, PipeAdded, Messages
      <4>4. \A v \in Worker \ {w} : InPipe(v)' = InPipe(v)
        BY <1>type, <2>2, <3>1, <4>1, PipeSame DEF TypeOK, PoolTypeOK
      <4>5. Given' = [Given EXCEPT ![w] = @ \cup {conn}] /\ InCallback' = InCallback
        BY <2>2, <3>1, <4>3, <4>4, MappedAt DEF Given, InCallback
      <4>6. ~(noise > 0) => Given[w] = {} /\ InCallback[w] = {}
        <5> SUFFICES ASSUME noise = 0 PROVE InPipe(w) = {} /\ ~wopen[w]
          BY <1>type, <3>1 DEF Given, InCallback, TypeOK, PoolTypeOK
        <5>1. ~HasJob(w) /\ wpc[w] \notin Busy /\ down[w] = <<>>
          BY <2>1, <3>1 DEF Accounting, JobPlaces, PipeShape, StopSent, FreeWorkers
        <5> QED
          BY <3>1, <5>1 DEF InPipe, HandOver, OpenInCallback, Busy
      <4>7. InHand = {conn} /\ w \notin Fallen
        BY <3>4 DEF InHand, Fallen
      <4>8. Service!Give(conn, w)
        BY <2>1, <2>2, <4>1, <4>5, <4>6, <4>7, <2>fallen
        DEF Service!Give, Service!Handled
      <4> QED
        BY <3>1, <4>2, <4>8 DEF ServiceStep, Service!ServiceNext
    <3> QED
      BY <3>2, <3>3, <3>4
  <2> QED
    BY <1>4, <2>3, <2>4 DEF Submit
<1>5. CASE FindFree
  <2>fallen. Fallen' = Fallen /\ noise' = noise /\ (noise > 0)' = (noise > 0)
    BY <1>5, <1>fallen DEF OutsideWorkers, ParentStep
  <2>1. pc = "find" /\ UNCHANGED <<conn, arrived, backlog>>
    BY <1>5 DEF FindFree, netVars
  <2>2. PICK w \in Worker : w = WorkerOf(NextFd)
    BY <1>type, <2>1, NextIsCounted DEF SelectResult
  <2>3. /\ wpc' = wpc /\ parent' = parent /\ Workers
        /\ \/ down' = down
           \/ wpc[w] = "dead" /\ down' = [down EXCEPT ![w] = <<>>]
    BY <1>5, <2>2 DEF FindFree, JobDone, JobReset, workerVars
  <2>4. Given' = Given /\ InCallback' = InCallback
    BY <1>type, <1>same, <2>3 DEF TypeOK, PoolTypeOK
  <2> QED
    BY <1>fails, <2>1, <2>3, <2>4, <2>fallen, Stutter
<1>6. CASE Terminate
  <2>fallen. Fallen' = Fallen /\ noise' = noise /\ (noise > 0)' = (noise > 0)
    BY <1>6, <1>fallen DEF OutsideWorkers, ParentStep
  <2>1. PICK w \in Worker : w = i /\ TerminateWorker(w)
    BY <1>6, <1>type, PoolAssumption DEF Terminate, Worker, TypeOK
  <2>2. /\ pc = "terminate" /\ Workers /\ UNCHANGED <<wpc, conn, arrived>>
        /\ backlog' = IF parent' = "up" THEN backlog ELSE <<>>
        /\ UNCHANGED <<crashed, doomed>>
    BY <1>6 DEF Terminate, TerminateWorker, workerVars, selVars, faultVars
  <2>3. conn = NoConn /\ InHand = {} /\ InHand' = {} /\ parent = "up"
    BY <1>open, <2>2 DEF HandOver, ConnInHand, InHand
  <2>4. CASE wpc[w] = "dead"
    <3>1. parent' = "gone" /\ down' = down
      BY <2>1, <2>4 DEF TerminateWorker
    <3>2. ServiceFailed' = TRUE
      <4>1. ~StopSent(w)
        BY <1>type, <2>1, <2>2, PoolAssumption DEF StopSent, TypeOK
      <4>2. ServiceFailed'
        BY <1>fails, <2>4, <4>1 DEF HandOver, DeadForReason, Killed, ServiceFailed
      <4> QED
        BY <4>2 DEF ServiceFailed
    <3>3. Given' = Given /\ InCallback' = InCallback
      BY <1>quiet, <2>2, <3>1
    <3>4. Service!Abort
      BY <2>2, <2>3, <3>1, <3>2, <3>3, <2>fallen DEF Service!Abort
    <3> QED
      BY <3>4 DEF ServiceStep, Service!ServiceNext
  <2>5. CASE wpc[w] # "dead"
    <3>1. /\ parent' = parent
          /\ down' = [down EXCEPT ![w] = Append(@, Stop)]
      BY <2>1, <2>5 DEF TerminateWorker, ByteWrite, Stop
    <3>2. InPipe(w)' = InPipe(w)
      <4>1. down'[w] = Append(down[w], Stop)
        BY <1>type, <3>1 DEF TypeOK, PoolTypeOK
      <4>2. InPipe(w)' = InPipe(w) \cup ({Stop.conn} \ {NoConn})
        BY <1>type, <2>2, <2>5, <4>1, PipeAdded, Messages
      <4> QED
        BY <4>2, Messages
    <3>3. \A v \in Worker : InPipe(v)' = InPipe(v)
      BY <1>type, <2>2, <3>1, <3>2, PipeSame DEF TypeOK, PoolTypeOK
    <3>4. Given' = Given /\ InCallback' = InCallback
      BY <2>2, <3>3, MappedSame
    <3> QED
      BY <1>fails, <2>2, <2>3, <3>1, <3>4, <2>fallen, Stutter
  <2> QED
    BY <2>4, <2>5
<1>7. CASE Destroy \/ DispatchFails
  <2>fallen. Fallen' = Fallen /\ noise' = noise /\ (noise > 0)' = (noise > 0)
    BY <1>7, <1>fallen DEF OutsideWorkers, ParentStep
  <2>1. /\ pc \in {"destroy", "dispatch"} /\ parent' = "gone" /\ backlog' = <<>>
        /\ Workers /\ UNCHANGED <<wpc, down, conn, arrived, crashed, doomed>>
    BY <1>7 DEF Destroy, DispatchFails, ParentGone, DispatchForkFails, workerVars,
                selVars, faultVars
  <2>2. Service!InWork = {} /\ InHand = {} /\ InHand' = {}
    BY <2>1, NobodyWorks DEF InHand
  <2>3. Given' = Given /\ InCallback' = InCallback
    BY <1>quiet, <2>1
  <2>4. ServiceFailed' = ServiceFailed /\ parent = "up"
    BY <1>open, <2>1 DEF ServiceFailed, Killed
  <2>5. Service!Shut
    BY <2>1, <2>2, <2>3, <2>4, <2>fallen DEF Service!Shut
  <2> QED
    BY <2>5 DEF ServiceStep, Service!ServiceNext
<1>8. ASSUME NEW scope \in SignalScopes, Sigint(scope) PROVE ServiceStep
  <2>fallen. Fallen' = Fallen /\ noise' = noise /\ (noise > 0)' = (noise > 0)
    BY <1>8, <1>fallen DEF OutsideWorkers, ParentStep
  <2>1. Workers /\ UNCHANGED <<wpc, down, conn, arrived, crashed>>
    BY <1>8
    DEF Sigint, SigintDefault, SigintHandler, SigintHang, Deliver, tableVars,
        workerVars, selVars
  <2>2. Given' = Given /\ InCallback' = InCallback
    BY <1>quiet, <2>1
  <2>3. CASE SigintDefault(scope)
    <3>1. /\ pc \in {"dispatch", "register"} /\ parent = "up" /\ parent' = "gone"
          /\ backlog' = <<>>
      BY <2>3 DEF SigintDefault, Deliver
    <3>2. Service!InWork = {} /\ InHand = {} /\ InHand' = {}
      BY <2>1, <3>1, NobodyWorks DEF InHand
    <3>3. CASE ServiceFailed' = ServiceFailed
      <4>1. Service!Shut
        BY <2>1, <2>2, <3>1, <3>2, <3>3, <2>fallen DEF Service!Shut
      <4> QED
        BY <4>1 DEF ServiceStep, Service!ServiceNext
    <3>4. CASE ServiceFailed' # ServiceFailed
      <4>1. ServiceFailed' = TRUE
        BY <1>fails, <3>4 DEF ServiceFailed
      <4>2. Service!Abort
        BY <2>1, <2>2, <3>1, <3>2, <4>1, <2>fallen DEF Service!Abort
      <4> QED
        BY <4>2 DEF ServiceStep, Service!ServiceNext
    <3> QED
      BY <3>3, <3>4
  <2>4. CASE SigintHandler(scope) \/ SigintHang(scope)
    <3>1. UNCHANGED <<parent, backlog>>
      BY <2>4 DEF SigintHandler, SigintHang
    <3> QED
      BY <1>fails, <2>1, <2>2, <3>1, <2>fallen, Stutter
  <2> QED
    BY <1>8, <2>3, <2>4 DEF Sigint
<1>9. ASSUME NEW c \in Conn, Arrive(c) PROVE ServiceStep
  <2>fallen. Fallen' = Fallen /\ noise' = noise /\ (noise > 0)' = (noise > 0)
    BY <1>9, <1>fallen DEF OutsideWorkers, ParentStep
  <2>1. /\ parent = "up" /\ c \notin arrived /\ Len(backlog) < Backlog
        /\ arrived' = arrived \cup {c} /\ backlog' = Append(backlog, c)
        /\ Workers /\ UNCHANGED <<wpc, down, conn, parent, crashed, doomed>>
    BY <1>9 DEF Arrive, poolVars, selVars
  <2>2. Given' = Given /\ InCallback' = InCallback
    BY <1>quiet, <2>1
  <2>3. InHand' = InHand /\ ServiceFailed' = ServiceFailed
    BY <2>1 DEF InHand, ServiceFailed, Killed
  <2>4. Service!Connect(c)
    BY <2>1, <2>2, <2>3, <2>fallen DEF Service!Connect
  <2> QED
    BY <2>4 DEF ServiceStep, Service!ServiceNext
<1>10. ASSUME NEW w \in Worker,
              \/ WorkerRuns(w)
              \/ WorkerStderr(w) /\ UNCHANGED serverVars
              \/ WorkerCrash(w) /\ UNCHANGED serverVars
       PROVE  ServiceStep
  BY <1>10, <1>type, <1>fails, WorkerImplements DEF WorkerRuns
<1> QED
  BY <1>1, <1>2, <1>3, <1>4, <1>5, <1>6, <1>7, <1>8, <1>9, <1>10
  DEF Next, ParentStep


-----------------------------------------------------------------------------
\* The server implements the service

\* What ConnServiceProofs shows for every service.
Promise == INSTANCE ConnServiceProofs WITH
  Lossy     <- FdTruncation,
  opened    <- arrived,
  queue     <- backlog,
  inHand    <- InHand,
  given     <- Given,
  serving   <- InCallback,
  open      <- parent = "up",
  failed    <- ServiceFailed,
  fallen    <- Fallen,
  printed   <- noise > 0

\* The two instances of ConnService are the same.
LEMMA SameService ==
  /\ Service!ServiceInit => Promise!ServiceInit
  /\ ServiceStep => [Promise!ServiceNext]_(Promise!connVars)
BY DEF ServiceStep, Service!ServiceInit, Promise!ServiceInit,
       Service!ServiceNext, Promise!ServiceNext,
       Service!connVars, Promise!connVars, Service!Connect, Promise!Connect,
       Service!AcceptNext, Promise!AcceptNext, Service!Give, Promise!Give,
       Service!Begin, Promise!Begin, Service!Finish, Promise!Finish,
       Service!Shut, Promise!Shut, Service!Fail, Promise!Fail,
       Service!Crash, Promise!Crash, Service!Orphan, Promise!Orphan,
       Service!LosesAll, Promise!LosesAll, Service!Drop, Promise!Drop,
       Service!PrintsOut, Promise!PrintsOut,
       Service!Abort, Promise!Abort, Service!Handled, Promise!Handled,
       Service!InWork, Promise!InWork

\* The invariant of the service says what the steps of the server need.
LEMMA PromiseSays == Promise!ServiceInv => KeptApart /\ StoppedIdle
<1> SUFFICES ASSUME Promise!ServiceInv, NEW w \in Worker
             PROVE  /\ conn # NoConn => conn \notin InPipe(w)
                    /\ parent # "up" /\ ~ServiceFailed => InPipe(w) = {} /\ ~wopen[w]
  BY DEF KeptApart, StoppedIdle
<1>1. /\ InPipe(w) \subseteq Promise!Handled(w)
      /\ wopen[w] => wconn[w] \in Promise!Handled(w)
      /\ Promise!Handled(w) \subseteq Promise!InWork
  BY DEF Promise!Handled, Promise!InWork, Given, InCallback
<1>2. conn # NoConn => conn \notin Promise!Handled(w)
  BY DEF Promise!ServiceInv, Promise!OnePlace, InHand
<1>3. parent # "up" /\ ~ServiceFailed => Promise!InWork = {}
  BY DEF Promise!ServiceInv, Promise!StopsEmpty
<1> QED
  BY <1>1, <1>2, <1>3

\* What is known of a reachable state.  The server's own invariants and the
\* service's hold together: that a step of the server is one of the service
\* depends on where the service has the connections before.
ServerInv ==
  /\ ServerType
  /\ SelectResult
  /\ HandOver
  /\ noise = 0 => Accounting
  /\ Promise!ServiceInv
  /\ Promise!ConfinedInv

LEMMA InitServer == Init => ServerInv
<1>1. Promise!ServiceInit => Promise!ServiceInv /\ Promise!ConfinedInv
  BY ServerAssumption, ConnAssumption, Promise!ServiceInitInv, Promise!InitConfined
<1> QED
  BY <1>1, InitType, InitAccounting, InitSelect, InitHandOver, InitImplements,
     SameService DEF ServerInv

LEMMA StepServer == ServerInv /\ [Next]_vars => ServiceStep /\ ServerInv'
<1> SUFFICES ASSUME ServerInv, [Next]_vars PROVE ServiceStep /\ ServerInv'
  OBVIOUS
<1>1. KeptApart /\ StoppedIdle
  BY PromiseSays DEF ServerInv
<1>2. ServiceStep
  BY <1>1, StepImplements DEF ServerInv
<1>3. Promise!ServiceInv' /\ Promise!ConfinedInv'
  BY <1>2, SameService, ServerAssumption, ConnAssumption, Promise!ServiceStepInv,
     Promise!StepConfined DEF ServerInv
<1>4. ServerType' /\ SelectResult' /\ HandOver'
  BY <1>1, StepType, StepSelect, StepHandOver DEF ServerInv
<1>5. noise' = 0 => Accounting'
  BY NoiseGrows, StepAccounting DEF ServerInv, ServerType, TypeOK, PoolTypeOK
<1> QED
  BY <1>2, <1>3, <1>4, <1>5 DEF ServerInv

LEMMA ServerInvariant == Spec => []ServerInv
BY InitServer, StepServer, PTL DEF Spec

\* The server implements the service: however the steps of the parent, the
\* workers, the signals and the failures interleave, and whatever callbacks
\* print, a client sees what ConnService allows.
THEOREM ServiceImplemented == Spec => ImplementsService
<1>1. Spec => Service!ServiceInit /\ [][Service!ServiceNext]_(Service!connVars)
  BY InitImplements, StepServer, ServerInvariant, PTL DEF Spec, ServiceStep
<1> QED
  BY <1>1, PTL DEF ImplementsService, Service!ServiceSpec

-----------------------------------------------------------------------------
\* What the promise of the service says of the server

\* A set of which any two elements are the same has one at most.
LEMMA AtMostOne ==
  ASSUME NEW S, \A x, y \in S : x = y
  PROVE  Cardinality(S) <= 1
<1>1. CASE S = {}
  BY <1>1, FS_EmptySet
<1>2. CASE S # {}
  <2>1. PICK x : x \in S
    BY <1>2
  <2>2. S = {x}
    BY <2>1
  <2> QED
    BY <2>2, FS_Singleton
<1> QED
  BY <1>1, <1>2

\* No connection is in two places: no two processes work on it at a time, and
\* none does after it was served.
THEOREM OneHolderCorrect == Spec => []OneHolder
<1>1. Promise!OnePlace => OneHolder
  <2> SUFFICES ASSUME Promise!OnePlace, NEW c \in Conn
               PROVE  Cardinality(Holders(c)) <= 1
    BY DEF OneHolder
  <2> DEFINE InQueue(k)  == k \in DOMAIN backlog /\ backlog[k] = c
             PipeOf(w)   == w \in Worker /\ c \in InPipe(w)
             WorkerHas(w) == w \in Worker /\ wopen[w] /\ wconn[w] = c
  <2>1. /\ \A j, k : InQueue(j) /\ InQueue(k) => j = k
        /\ \A k : InQueue(k) => c \in Promise!Queued
    BY DEF Promise!OnePlace, Promise!Queued
  <2>2. /\ \A w : PipeOf(w) => w \in Worker /\ c \in Given[w] /\ c \in Promise!Handled(w)
        /\ \A w : WorkerHas(w) =>
                 w \in Worker /\ c \in InCallback[w] /\ c \in Promise!Handled(w)
    BY DEF Given, InCallback, Promise!Handled
  <2>3. \A w \in Worker : c \in Promise!Handled(w) => c \in Promise!InWork
    BY DEF Promise!InWork
  <2>4. conn = c => c \in InHand
    BY ConnAssumption DEF InHand
  <2>5. \A v, w \in Worker :
          c \in Promise!Handled(v) /\ c \in Promise!Handled(w) => v = w
    BY DEF Promise!OnePlace
  <2>6. \A w : ~(PipeOf(w) /\ WorkerHas(w))
    BY <2>2 DEF Promise!OnePlace
  <2>7. /\ ~(c \in Promise!Queued /\ c \in InHand)
        /\ \A w \in Worker :
             ~(c \in Promise!Handled(w) /\ c \in Promise!Queued \cup InHand)
        /\ ~(c \in served /\ c \in Promise!Queued \cup InHand \cup Promise!InWork)
    BY DEF Promise!OnePlace
  <2>8. ASSUME NEW x \in Holders(c)
        PROVE  \/ \E k : InQueue(k) /\ x = <<"queue", k>>
               \/ \E w : PipeOf(w) /\ x = <<"pipe", w>>
               \/ \E w : WorkerHas(w) /\ x = <<"worker", w>>
               \/ conn = c /\ x = <<"parent", 0>>
               \/ c \in served /\ x = <<"served", 0>>
    BY DEF Holders
  <2> HIDE DEF InQueue, PipeOf, WorkerHas
  <2>9. ASSUME NEW x \in Holders(c), NEW y \in Holders(c) PROVE x = y
    <3>1. CASE \E k : InQueue(k) /\ x = <<"queue", k>>
      BY <2>1, <2>2, <2>4, <2>7, <2>8, <3>1
    <3>2. CASE \E w : PipeOf(w) /\ x = <<"pipe", w>>
      BY <2>1, <2>2, <2>3, <2>4, <2>5, <2>6, <2>7, <2>8, <3>2
    <3>3. CASE \E w : WorkerHas(w) /\ x = <<"worker", w>>
      BY <2>1, <2>2, <2>3, <2>4, <2>5, <2>6, <2>7, <2>8, <3>3
    <3>4. CASE conn = c /\ x = <<"parent", 0>>
      BY <2>1, <2>2, <2>4, <2>7, <2>8, <3>4
    <3>5. CASE c \in served /\ x = <<"served", 0>>
      BY <2>1, <2>2, <2>3, <2>4, <2>7, <2>8, <3>5
    <3> QED
      BY <2>8, <3>1, <3>2, <3>3, <3>4, <3>5
  <2> QED
    BY <2>9, AtMostOne
<1> QED
  BY <1>1, ServerInvariant, PTL DEF ServerInv, Promise!ServiceInv

\* Where a connection is that the service knows a place of.
LEMMA SomewhereOrServed ==
  ASSUME NEW c \in Promise!Places
  PROVE  \/ \E k \in DOMAIN backlog : backlog[k] = c
         \/ conn = c
         \/ \E w \in Worker : c \in InPipe(w) \/ (wopen[w] /\ wconn[w] = c)
         \/ c \in served
<1>1. c \in Promise!Queued \cup InHand \cup Promise!InWork \cup served
  BY DEF Promise!Places
<1>2. c \in Promise!InWork =>
        \E w \in Worker : c \in InPipe(w) \/ (wopen[w] /\ wconn[w] = c)
  BY DEF Promise!InWork, Promise!Handled, Given, InCallback
<1>3. c \in Promise!Queued => \E k \in DOMAIN backlog : backlog[k] = c
  BY DEF Promise!Queued
<1> QED
  BY <1>1, <1>2, <1>3 DEF InHand

LEMMA Held ==
  ASSUME NEW c \in Promise!Places
  PROVE  Holders(c) # {}
<1>1. CASE \E k \in DOMAIN backlog : backlog[k] = c
  BY <1>1 DEF Holders
<1>2. CASE conn = c
  BY <1>2 DEF Holders
<1>3. CASE \E w \in Worker : c \in InPipe(w) \/ (wopen[w] /\ wconn[w] = c)
  BY <1>3 DEF Holders
<1>4. CASE c \in served
  BY <1>4 DEF Holders
<1> QED
  BY <1>1, <1>2, <1>3, <1>4, SomewhereOrServed

LEMMA NothingLostHere ==
  ASSUME Promise!NothingLost, NoFaults
  PROVE  arrived = Promise!Places
<1>1. parent = "up" /\ ~ServiceFailed
  BY DEF NoFaults, ServiceFailed, Killed
<1> QED
  BY <1>1 DEF Promise!NothingLost, NoFaults

\* Until something fails no connection is lost between the processes.
THEOREM NoLostConnectionCorrect == Spec => []NoLostConnection
<1>1. Promise!NothingLost => NoLostConnection
  BY NothingLostHere, Held DEF NoLostConnection
<1> QED
  BY <1>1, ServerInvariant, PTL DEF ServerInv, Promise!ServiceInv

\* The instances count alike.
LEMMA SameCount ==
  ASSUME NEW S
  PROVE  /\ Promise!IsFiniteSet(S) <=> IsFiniteSet(S)
         /\ Promise!Cardinality(S) = Cardinality(S)
<1>1. Promise!IsFiniteSet(S) <=> IsFiniteSet(S)
  BY DEF Promise!IsFiniteSet, IsFiniteSet
<1>2. Promise!Cardinality(S) = Cardinality(S)
  BY DEF Promise!Cardinality, Cardinality
<1> QED
  BY <1>1, <1>2

\* A worker that dies of a crash or a SIGINT costs one connection at most:
\* until a callback prints, no more are lost than such workers have died.
THEOREM LossBoundedCorrect == Spec => []LossBounded
<1>1. ServerInv => LossBounded
  <2> SUFFICES ASSUME ServerInv, parent = "up", noise = 0, ~FdTruncation
               PROVE  Cardinality({c \in arrived : Holders(c) = {}})
                        <= Cardinality(Fallen)
    BY DEF LossBounded
  <2> DEFINE Lost   == {c \in arrived : Holders(c) = {}}
             Placed == Promise!Places
  <2>1. Cardinality(arrived \ Placed) <= Cardinality(Fallen)
    BY SameCount DEF ServerInv, Promise!ConfinedInv, Promise!Confined
  <2>2. IsFiniteSet(arrived) /\ IsFiniteSet(Fallen)
    BY SameCount DEF ServerInv, Promise!ConfinedInv
  <2>3. Lost \subseteq arrived \ Placed
    BY Held
  <2> HIDE DEF Placed
  <2>4. IsFiniteSet(arrived \ Placed)
    BY <2>2, FS_Difference
  <2>5. IsFiniteSet(Lost) /\ Cardinality(Lost) <= Cardinality(arrived \ Placed)
    BY <2>3, <2>4, FS_Subset
  <2> QED
    BY <2>1, <2>2, <2>4, <2>5, FS_CardinalityType
<1> QED
  BY <1>1, ServerInvariant, PTL

\* When wait() has returned, every connection a worker was handed has been
\* served, unless something has failed.
THEOREM DrainedShutdownCorrect == Spec => []DrainedShutdown
<1>1. ServerInv => DrainedShutdown
  <2> SUFFICES ASSUME ServerInv, pc = "destroy", NoFaults, NEW c \in arrived
               PROVE  c \in served \/ \E k \in DOMAIN backlog : backlog[k] = c
    BY DEF DrainedShutdown
  <2>1. \A w \in Worker : wpc[w] = "dead" /\ ~wopen[w] /\ InPipe(w) = {}
    BY DEF ServerInv, HandOver, NoneLeft, OpenInCallback, InPipe
  <2>2. conn = NoConn
    BY DEF ServerInv, HandOver, ConnInHand
  <2>3. c # NoConn
    BY ConnAssumption DEF ServerInv, ServerType, TypeOK
  <2>4. c \in Promise!Places
    BY NothingLostHere DEF ServerInv, Promise!ServiceInv
  <2> QED
    BY <2>1, <2>2, <2>3, <2>4, SomewhereOrServed
<1> QED
  BY <1>1, ServerInvariant, PTL

-----------------------------------------------------------------------------
\* wait() waits for workers that are on the way out

\* The loop of worker_pool_workers_terminate() has passed worker w.
Told(w) == pc = "wait" \/ (pc = "terminate" /\ w < i)

StopInPipe(w) == \E k \in DOMAIN down[w] : down[w][k].cmd = "s"

StopsWritten == \A w \in Worker : Told(w) => wpc[w] = "dead" \/ StopInPipe(w)

\* A worker takes "s" from its pipe only to die.
LEMMA WorkerKeepsStop ==
  ASSUME TypeOK, NEW w \in Worker, WorkerStep(w) \/ WorkerStderr(w) \/ WorkerCrash(w),
         NEW v \in Worker, wpc[v] = "dead" \/ StopInPipe(v)
  PROVE  (wpc[v] = "dead" \/ StopInPipe(v))'
<1> USE DEF TypeOK, PoolTypeOK
<1>1. CASE v # w
  <2>1. wpc'[v] = wpc[v] /\ down'[v] = down[v]
    BY <1>1
    DEF WorkerStep, WorkerStop, WorkerReceive, WorkerReset, WorkerEof,
        WorkerServed, WorkerReport, WorkerInterrupted, WorkerStderr,
        WorkerCrash, Dies, workerVars
  <2> QED
    BY <2>1 DEF StopInPipe
<1>2. CASE WorkerReceive(w) /\ v = w
  <2>1. /\ down[w] # <<>> /\ Head(down[w]).cmd = "p" /\ down'[w] = Tail(down[w])
        /\ down[w] \in Seq(Message) /\ wpc[w] # "dead"
    BY <1>2 DEF WorkerReceive
  <2>2. PICK k \in DOMAIN down[w] : down[w][k].cmd = "s"
    BY <1>2, <2>1 DEF StopInPipe
  <2>3. k # 1
    BY <2>1, <2>2, Taken
  <2>4. k - 1 \in DOMAIN down'[w] /\ down'[w][k - 1] = down[w][k]
    BY <2>1, <2>2, <2>3, Taken
  <2> QED
    BY <1>2, <2>2, <2>4 DEF StopInPipe
<1>3. CASE WorkerStop(w) /\ v = w
  BY <1>3 DEF WorkerStop, Dies
<1>4. CASE ~WorkerReceive(w) /\ ~WorkerStop(w) /\ v = w
  <2>1. down' = down /\ wpc[w] # "dead"
    BY <1>4
    DEF WorkerStep, WorkerReset, WorkerEof, WorkerServed, WorkerReport,
        WorkerInterrupted, WorkerStderr, WorkerCrash, Alive, Busy
  <2> QED
    BY <1>4, <2>1 DEF StopInPipe
<1> QED
  BY <1>1, <1>2, <1>3, <1>4

\* Every step keeps that whoever has been told has "s" in its pipe, or is dead.
LEMMA StepStopsWritten ==
  ServerType /\ SelectResult /\ StopsWritten /\ [Next]_vars => StopsWritten'
<1> SUFFICES ASSUME ServerType, SelectResult, StopsWritten, [Next]_vars
             PROVE  StopsWritten'
  OBVIOUS
<1>type. TypeOK /\ i \in Int /\ \A w \in Worker : w \in Int /\ w < WorkersN
  BY PoolAssumption DEF ServerType, TypeOK, Worker
<1> DEFINE Idle == pc' \notin {"terminate", "wait"}
<1>1. CASE Terminate
  <2>1. PICK w \in Worker : w = i /\ TerminateWorker(w)
    BY <1>1, <1>type, PoolAssumption DEF Terminate, Worker, TypeOK
  <2>2. /\ pc = "terminate" /\ i' = i + 1 /\ wpc' = wpc
        /\ pc' = "terminate" => parent' = "up"
        /\ pc' \in {"terminate", "exit"} /\ parent = "up"
    BY <1>1 DEF Terminate, TerminateWorker, workerVars, SelectResult
  <2>3. CASE pc' = "exit"
    BY <2>3 DEF StopsWritten, Told
  <2>4. CASE pc' = "terminate"
    <3>1. down' = [down EXCEPT ![w] = Append(@, Stop)]
      BY <2>1, <2>2, <2>4 DEF TerminateWorker, ByteWrite, Stop
    <3>2. down \in [Worker -> Seq(Message)]
      BY <1>type DEF TypeOK, PoolTypeOK
    <3>3. StopInPipe(w)'
      <4>1. down'[w] = Append(down[w], Stop)
        BY <3>1, <3>2
      <4>2. /\ Len(down[w]) + 1 \in DOMAIN down'[w]
            /\ down'[w][Len(down[w]) + 1].cmd = "s"
        BY <3>2, <4>1, Added, Messages
      <4> QED
        BY <4>2 DEF StopInPipe
    <3>4. ASSUME NEW v \in Worker, v # w, Told(v)'
          PROVE  (wpc[v] = "dead" \/ StopInPipe(v))'
      <4>1. Told(v) /\ down'[v] = down[v]
        BY <1>type, <2>1, <2>2, <2>4, <3>1, <3>2, <3>4 DEF Told
      <4> QED
        BY <2>2, <4>1 DEF StopsWritten, StopInPipe
    <3> QED
      BY <3>3, <3>4 DEF StopsWritten
  <2> QED
    BY <2>2, <2>3, <2>4
<1>2. CASE TerminateDone \/ UNCHANGED <<pc, i, down, wpc>>
  <2>1. /\ UNCHANGED <<down, wpc>>
        /\ \A w \in Worker : Told(w)' => Told(w)
    BY <1>2, <1>type DEF TerminateDone, Told, poolVars
  <2> QED
    BY <2>1 DEF StopsWritten, StopInPipe
<1>3. CASE CheckStop
  <2>1. \A w \in Worker : ~Told(w)'
    BY <1>3, PoolAssumption DEF CheckStop, Told, Worker
  <2> QED
    BY <2>1 DEF StopsWritten
<1>4. CASE Idle
  BY <1>4 DEF StopsWritten, Told
<1>5. ASSUME NEW scope \in SignalScopes, Sigint(scope) PROVE StopsWritten'
  <2>1. /\ UNCHANGED <<i, down, wpc>>
        /\ pc' = pc \/ Idle
    BY <1>5
    DEF Sigint, SigintDefault, SigintHandler, SigintHang, Deliver, tableVars,
        workerVars, loopVars
  <2> QED
    BY <1>2, <1>4, <2>1
<1>6. ASSUME NEW w \in Worker,
             \/ WorkerRuns(w)
             \/ WorkerStderr(w) /\ UNCHANGED serverVars
             \/ WorkerCrash(w) /\ UNCHANGED serverVars
      PROVE  StopsWritten'
  <2>1. UNCHANGED <<pc, i>>
    BY <1>6 DEF WorkerRuns, serverVars, loopVars
  <2>2. WorkerStep(w) \/ WorkerStderr(w) \/ WorkerCrash(w)
    BY <1>6 DEF WorkerRuns
  <2> QED
    BY <1>type, <2>1, <2>2, WorkerKeepsStop DEF StopsWritten, Told
<1>7. CASE UNCHANGED vars
  BY <1>2, <1>7 DEF vars, poolVars, loopVars
<1>8. ASSUME NEW c \in Conn, Arrive(c) PROVE StopsWritten'
  BY <1>2, <1>8 DEF Arrive, poolVars, loopVars
<1>9. CASE ParentStep \/ DispatchFails \/ AcceptError
  <2>1. Terminate \/ TerminateDone \/ CheckStop \/ Idle
    BY <1>9
    DEF ParentStep, Dispatch, DispatchDone, Register, Run, Select, SelectWakes,
        SelectReturns, CheckReady, Accept, Submit, FindFree, FindFreeEof,
        FindFreeEofLogged, Wait, Destroy, DispatchFails, AcceptError
  <2> QED
    BY <1>1, <1>2, <1>3, <1>4, <2>1
<1> QED
  BY <1>5, <1>6, <1>7, <1>8, <1>9 DEF Next

\* When wait() is called, "s" is the last message of every worker alive, for
\* any number of workers, whatever they are doing and whatever has failed.
THEOREM StopDeliveredCorrect == Spec => []StopDelivered
<1>1. Init => StopsWritten
  BY DEF Init, StopsWritten, Told
<1>2. Spec => []StopsWritten
  BY <1>1, StepStopsWritten, ServerInvariant, PTL DEF Spec, ServerInv
<1>3. ServerInv /\ StopsWritten => StopDelivered
  <2> SUFFICES ASSUME ServerInv, StopsWritten, pc = "wait", NEW w \in Worker,
                      wpc[w] # "dead"
               PROVE  down[w] # <<>> /\ down[w][Len(down[w])].cmd = "s"
    BY DEF StopDelivered
  <2>1. PICK k \in DOMAIN down[w] : down[w][k].cmd = "s"
    BY DEF StopsWritten, Told, StopInPipe
  <2>2. k = Len(down[w])
    BY <2>1 DEF ServerInv, HandOver, PipeOrder
  <2>3. down[w] \in Seq(Message)
    BY DEF ServerInv, ServerType, TypeOK, PoolTypeOK
  <2> QED
    BY <2>1, <2>2, <2>3
<1> QED
  BY <1>2, <1>3, ServerInvariant, PTL

-----------------------------------------------------------------------------
\* Who dies

\* While the server runs a worker dies of a crash or a SIGINT only.
THEOREM DeadForReasonCorrect == Spec => []DeadForReason
BY ServerInvariant, PTL DEF ServerInv, HandOver

\* Nobody is killed if no worker crashes and no SIGINT reaches the workers.
LEMMA NobodyKilled ==
  ASSUME MaxCrashes = 0, SignalScopes \subseteq {"parent"}
  PROVE  Spec => [](Killed = {})
<1>1. Init => Killed = {}
  BY DEF Init, PoolInit, Killed
<1>2. TypeOK /\ Killed = {} /\ [Next]_vars => (Killed = {})'
  <2> SUFFICES ASSUME TypeOK, crashed = {}, doomed = {}, [Next]_vars
               PROVE  crashed' = {} /\ doomed' = {}
    BY DEF Killed
  <2>1. ASSUME NEW w \in Worker, WorkerCrash(w) PROVE FALSE
    BY <2>1, FS_EmptySet DEF WorkerCrash
  <2>2. ASSUME NEW scope \in SignalScopes, Sigint(scope)
        PROVE  UNCHANGED <<crashed, doomed>>
    BY <2>2 DEF Sigint, SigintDefault, SigintHandler, SigintHang, Deliver
  <2>3. ASSUME NEW w \in Worker, WorkerStep(w) \/ WorkerStderr(w)
        PROVE  UNCHANGED <<crashed, doomed>>
    BY <2>3
    DEF WorkerStep, WorkerStop, WorkerReceive, WorkerReset, WorkerEof,
        WorkerServed, WorkerReport, WorkerInterrupted, WorkerStderr, faultVars
  <2>4. ASSUME ParentStep \/ DispatchFails \/ AcceptError \/ \E c \in Conn : Arrive(c)
        PROVE  UNCHANGED <<crashed, doomed>>
    BY <2>4
    DEF ParentStep, Dispatch, DispatchDone, Register, Run, Select,
        SelectWakes, CheckStop, CheckReady, Accept, Submit, FindFree,
        FindFreeEof, FindFreeEofLogged, Terminate, TerminateDone, Wait,
        Destroy, DispatchFails, AcceptError, Arrive, DispatchWorker,
        DispatchForkFails, SubmitConn, SubmitOverrun, JobDone, JobReset,
        JobEof, TerminateWorker, ParentGone, poolVars, faultVars
  <2>5. CASE UNCHANGED vars
    BY <2>5 DEF vars, poolVars
  <2> QED
    BY <2>1, <2>2, <2>3, <2>4, <2>5 DEF Next, WorkerRuns
<1> QED
  BY <1>1, <1>2, TypeCorrect, PTL DEF Spec

\* "0 = ready" is right then: the worker that is marked ready when a connection
\* is submitted is alive.
THEOREM ReadyIsAliveCorrect ==
  ASSUME MaxCrashes = 0, SignalScopes \subseteq {"parent"}
  PROVE  Spec => []ReadyIsAlive
<1>1. DeadForReason /\ Killed = {} => ReadyIsAlive
  BY DEF DeadForReason, ReadyIsAlive, StopSent
<1> QED
  BY <1>1, NobodyKilled, DeadForReasonCorrect, PTL

\* After a SIGINT tcp_server_run() returns and the program goes on to
\* tcp_server_destroy() if, besides, it comes after signal(), no fork() fails
\* and callbacks leave stderr alone.
THEOREM ReturnsBeforeExitCorrect ==
  ASSUME MaxCrashes = 0, SignalScopes \subseteq {"parent"}, ~ForkFails,
         SignalPoints \cap {"dispatch", "register"} = {}, StderrBytes = 0
  PROVE  Spec => ReturnsBeforeExit
<1>1. ASSUME ServerInv, Killed = {}, WorkerForConnection, Next,
             pc' = "exit", pc \notin {"exit", "destroy"}
      PROVE  FALSE
  <2>1. CASE Submit
    <3>1. FreeWorkers # {} /\ pc = "submit" /\ parent' # "up" /\ parent = "up"
      BY <1>1, <2>1 DEF Submit, WorkerForConnection, ServerInv, SelectResult
    <3>2. PICK w \in Worker : wpc[w] = "dead"
      BY <2>1, <3>1, FirstFree DEF Submit, SubmitConn, SubmitOverrun
    <3> QED
      BY <1>1, <3>1, <3>2 DEF ServerInv, HandOver, DeadForReason, StopSent
  <2>2. CASE Terminate
    <3>1. PICK w \in Worker : w = i /\ TerminateWorker(w)
      BY <1>1, <2>2, PoolAssumption
      DEF Terminate, Worker, ServerInv, ServerType, TypeOK
    <3>2. pc = "terminate" /\ parent' # "up" /\ parent = "up" /\ i \in Int
      BY <1>1, <2>2 DEF Terminate, ServerInv, ServerType, SelectResult, TypeOK
    <3>3. wpc[w] = "dead"
      BY <3>1, <3>2 DEF TerminateWorker
    <3> QED
      BY <1>1, <3>1, <3>2, <3>3 DEF ServerInv, HandOver, DeadForReason, StopSent
  <2>3. CASE DispatchFails
    BY <2>3 DEF DispatchFails
  <2>4. ASSUME NEW scope \in SignalScopes, Sigint(scope) PROVE FALSE
    BY <1>1, <2>4
    DEF Sigint, SigintDefault, SigintHandler, SigintHang, Deliver, ServerInv,
        SelectResult
  <2>5. CASE \/ Dispatch \/ DispatchDone \/ Register \/ Run \/ Select \/ SelectWakes
             \/ CheckStop \/ CheckReady \/ Accept \/ AcceptError \/ FindFree
             \/ FindFreeEof \/ FindFreeEofLogged \/ TerminateDone \/ Wait \/ Destroy
    BY <1>1, <2>5
    DEF Dispatch, DispatchDone, Register, Run, Select, SelectWakes, SelectReturns,
        CheckStop, CheckReady, Accept, AcceptError, FindFree, FindFreeEof,
        FindFreeEofLogged, TerminateDone, Wait, Destroy
  <2>6. CASE pc' = pc
    BY <1>1, <2>6
  <2> QED
    BY <1>1, <2>1, <2>2, <2>3, <2>4, <2>5, <2>6
    DEF Next, ParentStep, Arrive, WorkerRuns, serverVars
<1>2. ServerInv /\ Killed = {} /\ WorkerForConnection /\ [Next]_vars =>
        [pc # "exit" /\ pc' = "exit" => pc = "destroy"]_vars
  BY <1>1
<1> QED
  BY <1>2, ServerInvariant, NobodyKilled, NothingPrinted, WorkerForConnectionCorrect,
     PTL DEF Spec, ReturnsBeforeExit

-----------------------------------------------------------------------------
\* No worker is taken out of service

\* A worker that is busy or has reported remembers a connection, and the
\* parent has one to submit: what else is known while nothing fails to get a
\* descriptor.
Working(w) ==
  /\ status[w] = 1 => HasJob(w) \/ wpc[w] \in Busy \cup {"dead"} \/ up[w] > 0
  /\ wpc[w] \in Busy \/ up[w] > 0 => wconn[w] # NoConn

AllWorking ==
  /\ \A w \in Worker : Working(w)
  /\ pc = "submit" => conn # NoConn

\* A step that touches worker w only.
LEMMA WorkingLocal ==
  ASSUME \A v \in Worker : Working(v), NEW w \in Worker, Working(w)',
         \A v \in Worker \ {w} :
           /\ status'[v] = status[v] /\ down'[v] = down[v] /\ up'[v] = up[v]
           /\ wpc'[v] = wpc[v] /\ wconn'[v] = wconn[v]
  PROVE  \A v \in Worker : Working(v)'
<1> SUFFICES ASSUME NEW v \in Worker \ {w} PROVE Working(v)'
  OBVIOUS
<1> QED
  BY DEF Working, HasJob

\* A worker's steps.
LEMMA WorkerWorking ==
  ASSUME ~FdTruncation, TypeOK, MessageKinds, PipeOrder, NEW w \in Worker,
         \A v \in Worker : Working(v), WorkerStep(w) \/ WorkerStderr(w) \/ WorkerCrash(w)
  PROVE  \A v \in Worker : Working(v)'
<1> USE DEF TypeOK, PoolTypeOK
<1>1. \A v \in Worker \ {w} :
        /\ status'[v] = status[v] /\ down'[v] = down[v] /\ up'[v] = up[v]
        /\ wpc'[v] = wpc[v] /\ wconn'[v] = wconn[v]
  BY DEF WorkerStep, WorkerStop, WorkerReceive, WorkerReset, WorkerEof,
         WorkerServed, WorkerReport, WorkerInterrupted, WorkerStderr,
         WorkerCrash, Dies, tableVars, workerVars
<1>2. ASSUME Dies(w), up' = up PROVE Working(w)'
  <2>1. wpc'[w] = "dead" /\ wconn' = wconn /\ up'[w] = up[w]
    BY <1>2 DEF Dies
  <2> QED
    BY <2>1 DEF Working, Busy
<1>3. CASE WorkerStop(w) \/ WorkerEof(w) \/ WorkerInterrupted(w) \/ WorkerCrash(w)
  BY <1>1, <1>2, <1>3, WorkingLocal
  DEF WorkerStop, WorkerEof, WorkerInterrupted, WorkerCrash
<1>4. CASE WorkerReceive(w)
  <2>1. Head(down[w]).conn # NoConn
    <3>1. down[w] # <<>> /\ Head(down[w]).cmd = "p"
      BY <1>4 DEF WorkerReceive
    <3>2. 1 \in DOMAIN down[w] /\ Head(down[w]) = down[w][1]
      BY <3>1, Taken
    <3> QED
      BY <3>1, <3>2 DEF MessageKinds
  <2>2. wpc'[w] = "callback" /\ wconn'[w] # NoConn
    BY <1>4, <2>1 DEF WorkerReceive, IpcFdRead
  <2>3. Working(w)'
    BY <2>2 DEF Working, Busy
  <2> QED
    BY <1>1, <2>3, WorkingLocal
<1>5. CASE WorkerReset(w)
  <2>1. wconn[w] # NoConn /\ wpc'[w] = "callback" /\ wconn' = wconn
    BY <1>5 DEF WorkerReset, Working
  <2>2. Working(w)'
    BY <2>1 DEF Working, Busy
  <2> QED
    BY <1>1, <2>2, WorkingLocal
<1>6. CASE WorkerServed(w)
  <2>1. wconn[w] # NoConn /\ wpc'[w] = "report" /\ wconn' = wconn
    BY <1>6 DEF WorkerServed, Working, Busy
  <2>2. Working(w)'
    BY <2>1 DEF Working, Busy
  <2> QED
    BY <1>1, <2>2, WorkingLocal
<1>7. CASE WorkerReport(w)
  <2>1. CASE Orphaned(w)
    BY <1>1, <1>2, <1>7, <2>1, WorkingLocal DEF WorkerReport
  <2>2. CASE ~Orphaned(w)
    <3>1. /\ wconn[w] # NoConn /\ wconn' = wconn
          /\ up'[w] = up[w] + 1 /\ up[w] \in Nat
      BY <1>7, <2>2 DEF WorkerReport, Working, Busy
    <3>2. Working(w)'
      BY <3>1 DEF Working
    <3> QED
      BY <1>1, <3>2, WorkingLocal
  <2> QED
    BY <2>1, <2>2
<1>8. CASE WorkerStderr(w)
  <2>1. CASE Orphaned(w)
    BY <1>1, <1>2, <1>8, <2>1, WorkingLocal DEF WorkerStderr
  <2>2. CASE ~Orphaned(w)
    <3>1. wpc[w] = "callback" /\ wpc' = wpc /\ wconn' = wconn
      BY <1>8, <2>2 DEF WorkerStderr, workerVars
    <3>2. Working(w)'
      BY <3>1 DEF Working, Busy
    <3> QED
      BY <1>1, <3>2, WorkingLocal
  <2> QED
    BY <2>1, <2>2
<1> QED
  BY <1>3, <1>4, <1>5, <1>6, <1>7, <1>8 DEF WorkerStep

\* Every step of the server.
LEMMA StepWorking ==
  ASSUME ~AcceptFails, ~FdTruncation, ServerInv, AllWorking, [Next]_vars
  PROVE  AllWorking'
<1>type. TypeOK
  BY DEF ServerInv, ServerType
<1>all. \A v \in Worker : Working(v)
  BY DEF AllWorking
<1> DEFINE Quiet == UNCHANGED <<status, down, up, wpc, wconn>>
<1>quiet. ASSUME Quiet, pc' = "submit" => conn' # NoConn PROVE AllWorking'
  <2>1. \A v \in Worker : Working(v)'
    BY <1>quiet DEF AllWorking, Working, HasJob
  <2> QED
    BY <1>quiet, <2>1 DEF AllWorking
<1>1. CASE Dispatch
  <2>1. PICK w \in Worker : w = i /\ DispatchWorker(w)
    BY <1>1, <1>type, PoolAssumption DEF Dispatch, Worker, TypeOK
  <2>2. /\ pc' # "submit" /\ UNCHANGED <<down, up, wconn>>
        /\ wpc' = [wpc EXCEPT ![w] = "read"] /\ status' = [status EXCEPT ![w] = 0]
    BY <1>1, <2>1 DEF Dispatch, DispatchWorker
  <2>3. status'[w] = 0 /\ wpc'[w] = "read"
    BY <1>type, <2>1, <2>2 DEF TypeOK, PoolTypeOK
  <2>4. Working(w)'
    BY <1>all, <2>2, <2>3 DEF Working, Busy
  <2>5. \A v \in Worker : Working(v)'
    BY <1>type, <1>all, <2>1, <2>2, <2>4, WorkingLocal DEF TypeOK, PoolTypeOK
  <2> QED
    BY <2>2, <2>5 DEF AllWorking
<1>2. CASE Accept
  <2>1. conn' \in Conn
    BY <1>2, <1>type DEF Accept, TypeOK
  <2> QED
    BY <1>2, <1>quiet, <2>1, ConnAssumption DEF Accept, poolVars
<1>3. CASE Submit
  <2>1. /\ pc = "submit" /\ pc' # "submit" /\ conn # NoConn
        /\ UNCHANGED <<up, wpc, wconn>>
    BY <1>3 DEF Submit, SubmitConn, SubmitOverrun, workerVars, AllWorking
  <2>2. CASE SubmitOverrun
    BY <1>quiet, <2>1, <2>2 DEF SubmitOverrun, tableVars
  <2>3. CASE SubmitConn(conn)
    <3>1. PICK w \in FreeWorkers :
            /\ w \in Worker /\ status' = [status EXCEPT ![w] = 1]
            /\ \/ wpc[w] = "dead" /\ down' = down
               \/ down' = [down EXCEPT ![w] = Append(@, [cmd |-> "p", conn |-> conn])]
      BY <2>1, <2>3, FirstFree DEF SubmitConn, IpcFdWrite
    <3>2. ASSUME wpc[w] = "dead" PROVE Working(w)'
      BY <1>all, <2>1, <3>1, <3>2 DEF Working, Busy
    <3>3. ASSUME wpc[w] # "dead" PROVE Working(w)'
      <4>1. down'[w] = Append(down[w], Job(conn)) /\ conn \in Conn
        <5>1. down' = [down EXCEPT ![w] = Append(@, Job(conn))]
          BY <3>1, <3>3 DEF Job
        <5> QED
          BY <1>type, <2>1, <3>1, <5>1 DEF TypeOK, PoolTypeOK
      <4>2. down[w] \in Seq(Message) /\ ~StopSent(w)
        <5>1. down[w] \in Seq(Message)
          BY <1>type, <3>1 DEF TypeOK, PoolTypeOK
        <5> QED
          BY <2>1, <5>1 DEF StopSent
      <4>3. HasJob(w)'
        <5>1. CASE down[w] = <<>>
          BY <4>1, <4>2, <5>1, Added, Messages DEF HasJob
        <5>2. CASE down[w] # <<>>
          <6>1. /\ 1 \in DOMAIN down[w] /\ Head(down[w]) = down[w][1]
                /\ Head(down[w]) \in Message
            BY <4>2, <5>2, Taken, FirstMessage
          <6>2. Head(down[w]).cmd = "p"
            BY <3>1, <4>2, <6>1 DEF ServerInv, HandOver, PipeOrder, Message
          <6> QED
            BY <4>1, <4>2, <5>2, <6>2, Added, Messages DEF HasJob
        <5> QED
          BY <5>1, <5>2
      <4> QED
        BY <1>all, <2>1, <3>1, <4>3 DEF Working
    <3>4. Working(w)'
      BY <3>2, <3>3
    <3>5. \A v \in Worker : Working(v)'
      BY <1>type, <1>all, <2>1, <3>1, <3>4, WorkingLocal DEF TypeOK, PoolTypeOK
    <3> QED
      BY <2>1, <3>5 DEF AllWorking
  <2> QED
    BY <1>3, <2>2, <2>3 DEF Submit
<1>4. CASE FindFree
  <2>1. pc = "find" /\ pc' # "submit"
    BY <1>4 DEF FindFree
  <2>2. PICK w \in Worker : w = WorkerOf(NextFd)
    BY <1>type, <2>1, NextIsCounted DEF ServerInv, SelectResult
  <2>3. /\ wpc' = wpc /\ wconn' = wconn /\ status' = [status EXCEPT ![w] = 0]
        /\ \/ down' = down /\ up[w] > 0 /\ up' = [up EXCEPT ![w] = @ - 1]
           \/ up' = up /\ down' = [down EXCEPT ![w] = <<>>]
    BY <1>4, <2>2 DEF FindFree, JobDone, JobReset, workerVars
  <2>4. Working(w)'
    <3>1. status'[w] = 0 /\ (up'[w] > 0 => up[w] > 0)
      BY <1>type, <2>3 DEF TypeOK, PoolTypeOK
    <3> QED
      BY <1>all, <2>3, <3>1 DEF Working
  <2>5. \A v \in Worker : Working(v)'
    BY <1>type, <1>all, <2>3, <2>4, WorkingLocal DEF TypeOK, PoolTypeOK
  <2> QED
    BY <2>1, <2>5 DEF AllWorking
<1>5. CASE Terminate
  <2>1. PICK w \in Worker : w = i /\ TerminateWorker(w)
    BY <1>5, <1>type, PoolAssumption DEF Terminate, Worker, TypeOK
  <2>2. pc' # "submit" /\ UNCHANGED <<status, up, wpc, wconn>>
    BY <1>5 DEF Terminate, TerminateWorker, tableVars, workerVars
  <2>3. \/ down' = down
        \/ down' = [down EXCEPT ![w] = Append(@, [cmd |-> "s", conn |-> NoConn])]
    BY <2>1 DEF TerminateWorker, ByteWrite
  <2>4. HasJob(w) => HasJob(w)'
    <3>1. down[w] \in Seq(Message) /\ [cmd |-> "s", conn |-> NoConn] \in Message
      BY <1>type DEF TypeOK, PoolTypeOK, Message
    <3>2. \/ down'[w] = down[w]
          \/ down'[w] = Append(down[w], [cmd |-> "s", conn |-> NoConn])
      BY <1>type, <2>3 DEF TypeOK, PoolTypeOK
    <3>3. down[w] # <<>> => down'[w] # <<>> /\ Head(down'[w]) = Head(down[w])
      BY <3>1, <3>2
    <3> QED
      BY <3>3 DEF HasJob
  <2>5. Working(w)'
    BY <1>all, <2>2, <2>4 DEF Working
  <2>6. \A v \in Worker : Working(v)'
    BY <1>type, <1>all, <2>2, <2>3, <2>5, WorkingLocal DEF TypeOK, PoolTypeOK
  <2> QED
    BY <2>2, <2>6 DEF AllWorking
<1>6. CASE \/ DispatchDone \/ Register \/ Run \/ Select \/ SelectWakes \/ CheckStop
           \/ CheckReady \/ FindFreeEof \/ FindFreeEofLogged \/ TerminateDone \/ Wait
           \/ Destroy \/ DispatchFails
  BY <1>6, <1>quiet
  DEF DispatchDone, Register, Run, Select, SelectWakes, SelectReturns, CheckStop,
      CheckReady, FindFreeEof, FindFreeEofLogged, JobEof, TerminateDone, Wait,
      Destroy, ParentGone, DispatchFails, DispatchForkFails, poolVars, tableVars,
      workerVars
<1>7. ASSUME NEW scope \in SignalScopes, Sigint(scope) PROVE AllWorking'
  <2>1. Quiet /\ conn' = conn /\ (pc' = "submit" => pc = "submit")
    BY <1>7
    DEF Sigint, SigintDefault, SigintHandler, SigintHang, Deliver, tableVars,
        workerVars, selVars
  <2> QED
    BY <1>quiet, <2>1 DEF AllWorking
<1>8. CASE UNCHANGED vars \/ \E c \in Conn : Arrive(c)
  BY <1>8, <1>quiet DEF Arrive, vars, poolVars, selVars, AllWorking
<1>9. ASSUME NEW w \in Worker, WorkerStep(w) \/ WorkerStderr(w) \/ WorkerCrash(w),
             UNCHANGED serverVars
      PROVE  AllWorking'
  BY <1>9, <1>type, <1>all, WorkerWorking
  DEF serverVars, selVars, AllWorking, ServerInv, HandOver
<1>10. ~AcceptError
  BY DEF AcceptError
<1> QED
  BY <1>1, <1>2, <1>3, <1>4, <1>5, <1>6, <1>7, <1>8, <1>9, <1>10
  DEF Next, ParentStep, WorkerRuns

\* A worker marked busy has a job or is dead, if every descriptor arrives.
THEOREM BusyHasJobCorrect == Spec => []BusyHasJob
<1>1. CASE AcceptFails \/ FdTruncation
  <2>1. BusyHasJob
    BY <1>1 DEF BusyHasJob
  <2> QED
    BY <2>1, PTL
<1>2. CASE ~AcceptFails /\ ~FdTruncation
  <2>1. Init => AllWorking
    BY DEF Init, PoolInit, AllWorking, Working, Busy
  <2>2. ServerInv /\ AllWorking /\ [Next]_vars => AllWorking'
    BY <1>2, StepWorking
  <2>3. AllWorking => BusyHasJob
    BY DEF AllWorking, Working, BusyHasJob
  <2> QED
    BY <2>1, <2>2, <2>3, ServerInvariant, PTL DEF Spec
<1> QED
  BY <1>1, <1>2
=============================================================================
