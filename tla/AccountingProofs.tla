-------------------------- MODULE AccountingProofs ---------------------------
(***************************************************************************)
(* Proofs that the server counts its workers and their jobs right until a  *)
(* callback prints the first byte to its stderr (noise = 0): for every     *)
(* size of the pool, with signals, crashing workers, failing forks and     *)
(* accepts and descriptors that do not fit.                                *)
(***************************************************************************)
EXTENDS TcpServerInv, TcpServerProofs

-----------------------------------------------------------------------------
\* The number of ready workers is a natural number.
LEMMA FreeType == IsFiniteSet(FreeWorkers) /\ Cardinality(FreeWorkers) \in Nat
<1>1. FreeWorkers \subseteq Worker
  BY DEF FreeWorkers
<1> QED
  BY <1>1, FiniteWorkers, FS_Subset, FS_CardinalityType

\* Marking a ready worker busy makes one ready worker less.
LEMMA OneBusier ==
  ASSUME TypeOK, NEW w \in FreeWorkers, status' = [status EXCEPT ![w] = 1]
  PROVE  Cardinality(FreeWorkers') = Cardinality(FreeWorkers) - 1
<1>1. FreeWorkers' = FreeWorkers \ {w}
  BY DEF FreeWorkers, TypeOK, PoolTypeOK
<1> QED
  BY <1>1, FreeType, FS_RemoveElement

\* Marking a busy worker ready makes one ready worker more.
LEMMA OneReadier ==
  ASSUME TypeOK, NEW w \in Worker, status[w] = 1,
         status' = [status EXCEPT ![w] = 0]
  PROVE  Cardinality(FreeWorkers') = Cardinality(FreeWorkers) + 1
<1>1. FreeWorkers' = FreeWorkers \cup {w} /\ w \notin FreeWorkers
  BY DEF FreeWorkers, TypeOK, PoolTypeOK
<1> QED
  BY <1>1, FreeType, FS_AddElement

\* The next descriptor worker_pool_workers_find_free() looks at is a pipe.
LEMMA NextPipe ==
  ASSUME TypeOK, rset \ {SockFd} # {}
  PROVE  /\ NextFd \in rset \ {SockFd} /\ WorkerOf(NextFd) \in Worker
         /\ \A fd \in rset \ {SockFd} : NextFd <= fd
<1>1. rset \ {SockFd} \subseteq Nat /\ rset \ {SockFd} \subseteq Fds
  BY FiniteWorkers DEF TypeOK
<1>2. NextFd \in rset \ {SockFd} /\ \A fd \in rset \ {SockFd} : NextFd <= fd
  BY <1>1, MinElement DEF NextFd
<1>3. \A fd \in Fds \ {SockFd} : WorkerOf(fd) \in Worker
  BY PoolAssumption, ServerAssumption DEF Fds, PipeFd, WorkerOf, Worker
<1> QED
  BY <1>1, <1>2, <1>3

-----------------------------------------------------------------------------
\* A step disturbs one worker

Jobs == \A w \in Worker : JobPlaces(w) /\ PipeShape(w)

OthersSame(w) ==
  \A v \in Worker \ {w} : /\ status'[v] = status[v] /\ down'[v] = down[v]
                          /\ up'[v] = up[v] /\ wpc'[v] = wpc[v]

\* Nobody who has been told to stop is not.
StopsStay == \A v \in Worker : StopSent(v) => StopSent(v)'

\* A step that touches one worker leaves the jobs of the others alone.
LEMMA JobsLocal ==
  ASSUME Jobs, NEW w \in Worker, OthersSame(w), StopsStay,
         JobPlaces(w)', PipeShape(w)'
  PROVE  Jobs'
<1>1. ASSUME NEW v \in Worker \ {w} PROVE JobPlaces(v)' /\ PipeShape(v)'
  BY <1>1 DEF Jobs, OthersSame, StopsStay, JobPlaces, PipeShape, HasJob
<1> QED
  BY <1>1 DEF Jobs

\* A step that touches no worker leaves every job where it is.
LEMMA JobsQuiet ==
  ASSUME Jobs, UNCHANGED <<status, down, up, wpc>>, StopsStay
  PROVE  Jobs'
BY DEF Jobs, StopsStay, JobPlaces, PipeShape, HasJob

\* What a queue of PipeShape looks like after a command was read.
LEMMA PipeTail ==
  ASSUME NEW w \in Worker, NEW q \in Seq(Message), q # <<>>,
         \A k \in DOMAIN q : k >= 2 => q[k].cmd = "s"
  PROVE  /\ \A k \in DOMAIN Tail(q) : Tail(q)[k].cmd = "s"
         /\ Tail(q) # <<>> => Len(q) > 1 /\ Head(Tail(q)).cmd = "s"
<1>1. /\ DOMAIN Tail(q) = 1 .. Len(q) - 1 /\ Len(Tail(q)) = Len(q) - 1
      /\ \A k \in 1 .. Len(q) - 1 : Tail(q)[k] = q[k + 1] /\ k + 1 \in DOMAIN q
  OBVIOUS
<1>2. \A k \in DOMAIN Tail(q) : Tail(q)[k].cmd = "s"
  BY <1>1
<1>3. Tail(q) # <<>> => Len(q) > 1 /\ Head(Tail(q)) = Tail(q)[1] /\ 1 \in DOMAIN Tail(q)
  BY <1>1
<1> QED
  BY <1>2, <1>3

\* A worker's steps move its job along and leave the parent's table alone.
LEMMA WorkerAccounting ==
  ASSUME TypeOK, Jobs, noise' = 0, NEW w \in Worker,
         WorkerStep(w) \/ WorkerStderr(w) \/ WorkerCrash(w),
         UNCHANGED serverVars
  PROVE  Jobs' /\ UNCHANGED <<status, avail>>
<1> USE DEF TypeOK, PoolTypeOK
<1>1. UNCHANGED <<status, count, avail>>
  BY DEF WorkerStep, WorkerStop, WorkerReceive, WorkerReset, WorkerEof,
         WorkerServed, WorkerReport, WorkerInterrupted, WorkerStderr,
         WorkerCrash, tableVars
<1>2. StopsStay
  BY DEF StopsStay, StopSent, serverVars, loopVars
<1>3. JobPlaces(w) /\ PipeShape(w) /\ status[w] \in {0, 1}
  BY DEF Jobs
<1>4. ASSUME Dies(w), UNCHANGED <<down, up>> PROVE Jobs'
  <2>1. OthersSame(w) /\ wpc'[w] = "dead"
    BY <1>1, <1>4 DEF Dies, OthersSame
  <2>2. JobPlaces(w)' /\ PipeShape(w)'
    BY <1>1, <1>2, <1>3, <1>4, <2>1 DEF JobPlaces, PipeShape, HasJob, StopsStay, Busy
  <2> QED
    BY <1>2, <2>1, <2>2, JobsLocal
<1>5. CASE WorkerStop(w)
  <2>1. OthersSame(w) /\ wpc'[w] = "dead" /\ down'[w] = Tail(down[w]) /\ up' = up
    BY <1>1, <1>5 DEF WorkerStop, Dies, OthersSame
  <2>2. down[w] \in Seq(Message) /\ down[w] # <<>>
    BY <1>5 DEF WorkerStop
  <2>3. /\ \A k \in DOMAIN Tail(down[w]) : Tail(down[w])[k].cmd = "s"
        /\ Tail(down[w]) # <<>> => Len(down[w]) > 1 /\ Head(Tail(down[w])).cmd = "s"
    BY <1>3, <2>2, PipeTail DEF PipeShape
  <2>4. JobPlaces(w)'
    BY <1>1, <1>3, <2>1, <2>3 DEF JobPlaces, HasJob, Busy
  <2>5. PipeShape(w)'
    BY <1>2, <1>3, <2>1, <2>3 DEF PipeShape, StopsStay
  <2> QED
    BY <1>1, <1>2, <2>1, <2>4, <2>5, JobsLocal
<1>6. CASE WorkerReceive(w)
  <2>1. /\ OthersSame(w) /\ wpc'[w] \in {"read", "callback"}
        /\ down'[w] = Tail(down[w]) /\ up' = up
    BY <1>1, <1>6 DEF WorkerReceive, OthersSame
  <2>2. down[w] \in Seq(Message) /\ down[w] # <<>> /\ HasJob(w)
    BY <1>6 DEF WorkerReceive, HasJob
  <2>3. /\ \A k \in DOMAIN Tail(down[w]) : Tail(down[w])[k].cmd = "s"
        /\ Tail(down[w]) # <<>> => Len(down[w]) > 1 /\ Head(Tail(down[w])).cmd = "s"
    BY <1>3, <2>2, PipeTail DEF PipeShape
  <2>4. JobPlaces(w)'
    BY <1>1, <1>3, <2>1, <2>2, <2>3 DEF JobPlaces, HasJob
  <2>5. PipeShape(w)'
    BY <1>2, <1>3, <2>1, <2>3 DEF PipeShape, StopsStay
  <2> QED
    BY <1>1, <1>2, <2>1, <2>4, <2>5, JobsLocal
<1>7. CASE WorkerReset(w)
  <2>1. /\ OthersSame(w) /\ down' = down /\ down[w] = <<>>
        /\ up[w] # 0 /\ up'[w] = 0
    BY <1>1, <1>7 DEF WorkerReset, OthersSame
  <2>2. JobPlaces(w)' /\ PipeShape(w)'
    BY <1>1, <1>2, <1>3, <2>1 DEF JobPlaces, PipeShape, HasJob, StopsStay
  <2> QED
    BY <1>1, <1>2, <2>1, <2>2, JobsLocal
<1>8. CASE WorkerEof(w)
  BY <1>1, <1>4, <1>8 DEF WorkerEof
<1>9. CASE WorkerServed(w)
  <2>1. /\ OthersSame(w) /\ down' = down /\ up' = up
        /\ wpc[w] \in Busy /\ wpc'[w] = "report"
    BY <1>1, <1>9 DEF WorkerServed, OthersSame, Busy
  <2>2. JobPlaces(w)' /\ PipeShape(w)'
    BY <1>1, <1>2, <1>3, <2>1 DEF JobPlaces, PipeShape, HasJob, StopsStay
  <2> QED
    BY <1>1, <1>2, <2>1, <2>2, JobsLocal
<1>10. CASE WorkerReport(w)
  <2>1. CASE Orphaned(w)
    BY <1>1, <1>4, <1>10, <2>1 DEF WorkerReport
  <2>2. CASE ~Orphaned(w)
    <3>1. /\ OthersSame(w) /\ down' = down /\ wpc[w] \in Busy
          /\ up'[w] = up[w] + 1 /\ wpc'[w] = "read"
      BY <1>1, <1>10, <2>2 DEF WorkerReport, OthersSame, Busy
    <3>2. JobPlaces(w)' /\ PipeShape(w)'
      BY <1>1, <1>2, <1>3, <3>1
      DEF JobPlaces, PipeShape, HasJob, StopsStay, Busy
    <3> QED
      BY <1>1, <1>2, <3>1, <3>2, JobsLocal
  <2> QED
    BY <2>1, <2>2
<1>11. CASE WorkerInterrupted(w) \/ WorkerCrash(w)
  BY <1>1, <1>4, <1>11 DEF WorkerInterrupted, WorkerCrash
<1>12. CASE WorkerStderr(w)
  BY <1>1, <1>4, <1>12 DEF WorkerStderr
<1> QED
  BY <1>1, <1>5, <1>6, <1>7, <1>8, <1>9, <1>10, <1>11, <1>12 DEF WorkerStep

-----------------------------------------------------------------------------
\* The parent's steps

\* Before the first fork the accounts are right.
LEMMA InitAccounting == Init => Accounting
<1> SUFFICES ASSUME Init PROVE Accounting
  OBVIOUS
<1>1. FreeWorkers = Worker
  BY DEF Init, PoolInit, FreeWorkers
<1>2. Cardinality(Worker) = WorkersN
  BY FS_Interval, PoolAssumption DEF Worker
<1>3. \A w \in Worker : JobPlaces(w) /\ PipeShape(w)
  BY DEF Init, PoolInit, JobPlaces, PipeShape, HasJob, Busy
<1> QED
  BY <1>1, <1>2, <1>3
  DEF Init, PoolInit, Accounting, AvailExact, AllReadyAtFirst,
      AvailableIfListening, SomePipeSet

\* A step that leaves the pool's accounts alone.
LEMMA QuietAccounting ==
  ASSUME Accounting, UNCHANGED <<status, avail, down, up, wpc>>, StopsStay,
         AllReadyAtFirst', AvailableIfListening', SomePipeSet'
  PROVE  Accounting'
<1>1. Jobs'
  BY JobsQuiet DEF Accounting, Jobs
<1>2. AvailExact'
  BY DEF Accounting, AvailExact, FreeWorkers
<1> QED
  BY <1>1, <1>2 DEF Accounting, Jobs

\* Every step of the server keeps the accounts right.
LEMMA StepAccounting ==
  ASSUME noise' = 0, ServerType, Accounting, [Next]_vars
  PROVE  Accounting'
<1>type. TypeOK
  BY DEF ServerType
<1>jobs. Jobs /\ AvailExact
  BY DEF Accounting, Jobs
<1> DEFINE PoolQuiet == UNCHANGED <<status, avail, down, up, wpc>>
<1>free. PoolQuiet => FreeWorkers' = FreeWorkers
  BY DEF FreeWorkers
<1>1. CASE Dispatch
  <2>1. PICK w \in Worker : w = i /\ status[w] = 0
    BY <1>1, <1>type, PoolAssumption
    DEF Dispatch, Worker, Accounting, AllReadyAtFirst, FreeWorkers, TypeOK
  <2>2. status' = status /\ UNCHANGED <<avail, down, up, pc>>
    BY <1>1, <1>type, <2>1 DEF Dispatch, DispatchWorker, TypeOK, PoolTypeOK
  <2>3. OthersSame(w) /\ wpc'[w] = "read"
    BY <1>1, <1>type, <2>1, <2>2
    DEF Dispatch, DispatchWorker, TypeOK, PoolTypeOK, OthersSame
  <2>4. StopsStay
    BY <1>1, <2>2 DEF Dispatch, StopsStay, StopSent
  <2>5. JobPlaces(w)' /\ PipeShape(w)'
    BY <1>jobs, <2>1, <2>2, <2>3, <2>4
    DEF Jobs, JobPlaces, PipeShape, HasJob, StopsStay, Busy
  <2>6. Jobs'
    BY <1>jobs, <2>3, <2>4, <2>5, JobsLocal
  <2>7. FreeWorkers' = FreeWorkers
    BY <2>2 DEF FreeWorkers
  <2>8. AvailExact' /\ AllReadyAtFirst'
    BY <2>2, <2>7 DEF Accounting, AvailExact, AllReadyAtFirst
  <2>9. AvailableIfListening' /\ SomePipeSet'
    BY <1>1, <2>2 DEF Dispatch, AvailableIfListening, SomePipeSet
  <2> QED
    BY <2>6, <2>8, <2>9 DEF Accounting, Jobs
<1>2. CASE DispatchDone \/ Register \/ Run
  <2>1. PoolQuiet /\ StopsStay
    BY <1>2 DEF DispatchDone, Register, Run, poolVars, StopsStay, StopSent
  <2> QED
    BY <1>2, <1>free, <2>1, QuietAccounting
    DEF DispatchDone, Register, Run, Accounting, AllReadyAtFirst,
        AvailableIfListening, SomePipeSet
<1>3. CASE Select \/ SelectWakes
  <2>1. PoolQuiet /\ StopsStay
    BY <1>3 DEF Select, SelectWakes, SelectReturns, poolVars, StopsStay, StopSent
  <2>2. SockFd \in rset' => avail > 0
    <3>1. \A fds : SockFd \in Ready(fds) \cup Untouched(fds) => SockFd \in fds
      BY DEF Ready, Watched, Untouched
    <3>2. SockFd \in SelectSet => avail > 0
      BY <1>type DEF SelectSet, TypeOK, PoolTypeOK
    <3> QED
      BY <1>3, <3>1, <3>2
      DEF Select, SelectWakes, SelectReturns, Accounting, AvailableIfListening
  <2>3. pc' \in {"check", "blocked"}
    BY <1>3 DEF Select, SelectWakes, SelectReturns
  <2> QED
    BY <2>1, <2>2, <2>3, QuietAccounting
    DEF AllReadyAtFirst, AvailableIfListening, SomePipeSet
<1>4. CASE CheckStop \/ CheckReady
  <2>1. PoolQuiet /\ StopsStay
    BY <1>4 DEF CheckStop, CheckReady, poolVars, StopsStay, StopSent
  <2> QED
    BY <1>4, <2>1, QuietAccounting
    DEF CheckStop, CheckReady, selVars, Accounting, AllReadyAtFirst,
        AvailableIfListening, SomePipeSet
<1>5. CASE Accept \/ AcceptError
  <2>1. PoolQuiet /\ StopsStay
    BY <1>5 DEF Accept, AcceptError, poolVars, StopsStay, StopSent
  <2> QED
    BY <1>5, <2>1, QuietAccounting
    DEF Accept, AcceptError, Accounting, AllReadyAtFirst,
        AvailableIfListening, SomePipeSet
<1>6. CASE Submit
  <2>1. /\ pc = "submit" /\ avail > 0
        /\ pc' \in {"exit", "loop", "find"}
        /\ pc' = "find" => rset' # {} /\ rset' = rset \ {SockFd}
    BY <1>6 DEF Submit, Accounting, AvailableIfListening
  <2>2. StopsStay
    BY <2>1 DEF StopsStay, StopSent
  <2>3. FreeWorkers # {}
    BY <1>jobs, <2>1, FS_EmptySet DEF AvailExact
  <2>4. SubmitConn(conn)
    BY <1>6, <2>3 DEF Submit, SubmitOverrun
  <2>5. PICK w \in FreeWorkers :
          /\ w = Min(FreeWorkers) /\ w \in Worker
          /\ status' = [status EXCEPT ![w] = 1]
    BY <2>4, FirstFree DEF SubmitConn
  <2>6. avail' = avail - 1 /\ UNCHANGED <<up, wpc>>
    BY <2>4 DEF SubmitConn, workerVars
  <2>7. \/ down' = down
        \/ down' = [down EXCEPT ![w] = Append(@, [cmd |-> "p", conn |-> conn])]
    <3>1. \/ down' = down
          \/ down' = [down EXCEPT ![w] = IpcFdWrite(@, "p", conn)]
      BY <2>4, <2>5 DEF SubmitConn
    <3>2. conn = NoConn => [down EXCEPT ![w] = IpcFdWrite(@, "p", conn)] = down
      BY <1>type DEF IpcFdWrite, TypeOK, PoolTypeOK
    <3> QED
      BY <3>1, <3>2 DEF IpcFdWrite
  <2>8. AvailExact'
    BY <1>type, <1>jobs, <2>5, <2>6, OneBusier, FreeType DEF AvailExact
  <2>9. OthersSame(w) /\ status'[w] = 1
    BY <1>type, <2>5, <2>6, <2>7 DEF OthersSame, TypeOK, PoolTypeOK
  <2>10. status[w] = 0 /\ down[w] = <<>> /\ up[w] = 0 /\ wpc[w] \notin Busy
    BY <1>jobs, <2>1, <2>5
    DEF Jobs, JobPlaces, PipeShape, StopSent, FreeWorkers
  <2>11. \/ down'[w] = <<>>
         \/ down'[w] = <<[cmd |-> "p", conn |-> conn]>>
    BY <1>type, <2>5, <2>7, <2>10 DEF TypeOK, PoolTypeOK
  <2>12. JobPlaces(w)' /\ PipeShape(w)'
    <3>1. JobPlaces(w)'
      BY <2>6, <2>9, <2>10 DEF JobPlaces
    <3>2. \/ down'[w] = <<>>
          \/ /\ Len(down'[w]) = 1 /\ DOMAIN down'[w] = 1 .. 1
             /\ down'[w] # <<>> /\ Head(down'[w]).cmd = "p"
      <4>1. \A m : /\ Len(<<m>>) = 1 /\ DOMAIN <<m>> = 1 .. 1
                   /\ <<m>> # <<>> /\ Head(<<m>>) = m
        OBVIOUS
      <4>2. ASSUME NEW q, q = <<[cmd |-> "p", conn |-> conn]>>
            PROVE  /\ Len(q) = 1 /\ DOMAIN q = 1 .. 1
                   /\ q # <<>> /\ Head(q).cmd = "p"
        BY <4>1, <4>2
      <4> QED
        BY <2>11, <4>2
    <3>3. PipeShape(w)'
      BY <3>2 DEF PipeShape, HasJob
    <3> QED
      BY <3>1, <3>3
  <2>13. Jobs'
    BY <1>jobs, <2>2, <2>5, <2>9, <2>12, JobsLocal
  <2> QED
    BY <2>1, <2>8, <2>13
    DEF Accounting, Jobs, AllReadyAtFirst, AvailableIfListening, SomePipeSet
<1>7. CASE FindFree
  <2>1. /\ pc = "find" /\ pc' \in {"loop", "find"}
        /\ rset' = rset \ {NextFd}
        /\ pc' = "find" => rset' \ {SockFd} # {}
    BY <1>7 DEF FindFree
  <2>2. StopsStay
    BY <2>1 DEF StopsStay, StopSent
  <2>3. PICK w \in Worker : w = WorkerOf(NextFd)
    BY <1>type, <2>1, NextPipe DEF Accounting, SomePipeSet
  <2>4. /\ JobDone(w) \/ JobReset(w)
        /\ status' = [status EXCEPT ![w] = 0] /\ avail' = avail + 1 /\ wpc' = wpc
    BY <1>7, <2>3 DEF FindFree, JobDone, JobReset, workerVars
  <2>5. /\ status[w] = 1 /\ wpc[w] \notin Busy
        /\ down'[w] = <<>> /\ up'[w] = 0 /\ OthersSame(w)
    <3>1. CASE JobDone(w)
      <4>1. /\ up' = [up EXCEPT ![w] = @ - 1] /\ down' = down
            /\ up[w] > 0
        BY <3>1 DEF JobDone
      <4>2. up[w] = 1 /\ status[w] = 1 /\ ~HasJob(w) /\ wpc[w] \notin Busy
        BY <1>jobs, <2>3, <4>1 DEF Jobs, JobPlaces
      <4>3. down[w] = <<>>
        BY <1>jobs, <2>1, <2>3, <4>2 DEF Jobs, PipeShape, StopSent
      <4> QED
        BY <1>type, <2>3, <2>4, <4>1, <4>2, <4>3 DEF OthersSame, TypeOK, PoolTypeOK
    <3>2. CASE JobReset(w)
      <4>1. /\ down' = [down EXCEPT ![w] = <<>>] /\ up' = up
            /\ up[w] = 0 /\ down[w] # <<>>
        BY <3>2 DEF JobReset
      <4>2. HasJob(w)
        BY <1>jobs, <2>1, <2>3, <4>1 DEF Jobs, PipeShape, StopSent
      <4>3. status[w] = 1 /\ wpc[w] \notin Busy
        BY <1>jobs, <2>3, <4>2 DEF Jobs, JobPlaces
      <4> QED
        BY <1>type, <2>3, <2>4, <4>1, <4>3 DEF OthersSame, TypeOK, PoolTypeOK
    <3> QED
      BY <2>4, <3>1, <3>2
  <2>6. AvailExact'
    BY <1>type, <1>jobs, <2>3, <2>4, <2>5, OneReadier, FreeType DEF AvailExact
  <2>7. JobPlaces(w)' /\ PipeShape(w)'
    BY <2>4, <2>5 DEF JobPlaces, PipeShape, HasJob
  <2>8. Jobs'
    BY <1>jobs, <2>2, <2>3, <2>5, <2>7, JobsLocal
  <2> QED
    BY <2>1, <2>6, <2>8
    DEF Accounting, Jobs, AllReadyAtFirst, AvailableIfListening, SomePipeSet
<1>8. CASE FindFreeEof \/ FindFreeEofLogged
  <2>1. PoolQuiet /\ StopsStay
    BY <1>8
    DEF FindFreeEof, FindFreeEofLogged, JobEof, poolVars, StopsStay, StopSent
  <2> QED
    BY <1>8, <2>1, QuietAccounting
    DEF FindFreeEof, FindFreeEofLogged, AllReadyAtFirst,
        AvailableIfListening, SomePipeSet
<1>9. CASE Terminate
  <2>1. PICK w \in Worker :
          /\ w = i /\ pc = "terminate" /\ i' = i + 1
          /\ pc' \in {"terminate", "exit"}
    BY <1>9, <1>type, PoolAssumption DEF Terminate, Worker, TypeOK
  <2>2. UNCHANGED <<status, avail, up, wpc>>
    BY <1>9 DEF Terminate, TerminateWorker, tableVars, workerVars
  <2>3. StopsStay /\ StopSent(w)'
    BY <2>1, <1>type, PoolAssumption DEF StopsStay, StopSent, Worker
  <2>4. \/ down' = down
        \/ down' = [down EXCEPT ![w] = Append(@, [cmd |-> "s", conn |-> NoConn])]
    BY <1>9, <2>1 DEF Terminate, TerminateWorker, ByteWrite
  <2>5. OthersSame(w)
    BY <1>type, <2>1, <2>2, <2>4 DEF OthersSame, TypeOK, PoolTypeOK
  <2>6. JobPlaces(w) /\ PipeShape(w) /\ down[w] \in Seq(Message)
    BY <1>jobs, <1>type, <2>1 DEF Jobs, TypeOK, PoolTypeOK
  <2>7. ASSUME down' = down PROVE Jobs'
    <3>1. JobPlaces(w)' /\ PipeShape(w)'
      BY <2>2, <2>3, <2>6, <2>7 DEF JobPlaces, PipeShape, HasJob
    <3> QED
      BY <1>jobs, <2>1, <2>3, <2>5, <3>1, JobsLocal
  <2>8. ASSUME down' # down PROVE Jobs'
    <3>1. /\ Len(down'[w]) = Len(down[w]) + 1 /\ down'[w] \in Seq(Message)
          /\ \A k \in 1 .. Len(down[w]) : down'[w][k] = down[w][k]
          /\ down'[w][Len(down[w]) + 1].cmd = "s"
      <4>1. down'[w] = Append(down[w], [cmd |-> "s", conn |-> NoConn])
        BY <1>type, <2>4, <2>8 DEF TypeOK, PoolTypeOK
      <4>2. [cmd |-> "s", conn |-> NoConn] \in Message
        BY DEF Message
      <4> QED
        BY <2>6, <4>1, <4>2
    <3>2. HasJob(w)' => HasJob(w)
      BY <3>1, <2>6 DEF HasJob
    <3>3. PipeShape(w)'
      <4>1. \A k \in DOMAIN down'[w] : k >= 2 => down'[w][k].cmd = "s"
        <5>1. DOMAIN down'[w] = 1 .. Len(down[w]) + 1 /\ DOMAIN down[w] = 1 .. Len(down[w])
          BY <2>6, <3>1
        <5>2. ASSUME NEW k \in 1 .. Len(down[w]) + 1, k >= 2
              PROVE  down'[w][k].cmd = "s"
          <6>1. CASE k \in 1 .. Len(down[w])
            BY <2>6, <3>1, <5>1, <5>2, <6>1 DEF PipeShape
          <6>2. CASE k = Len(down[w]) + 1
            BY <3>1, <6>2
          <6> QED
            BY <2>6, <6>1, <6>2
        <5> QED
          BY <5>1, <5>2
      <4> QED
        BY <2>3, <4>1 DEF PipeShape
    <3>4. JobPlaces(w)'
      BY <2>2, <2>6, <3>2 DEF JobPlaces
    <3> QED
      BY <1>jobs, <2>1, <2>3, <2>5, <3>3, <3>4, JobsLocal
  <2>9. Jobs'
    BY <2>7, <2>8
  <2>10. AvailExact'
    BY <1>jobs, <2>2 DEF AvailExact, FreeWorkers
  <2> QED
    BY <2>1, <2>9, <2>10
    DEF Accounting, Jobs, AllReadyAtFirst, AvailableIfListening, SomePipeSet
<1>10. CASE TerminateDone \/ Wait \/ Destroy \/ DispatchFails
  <2>1. PoolQuiet /\ StopsStay
    BY <1>10, <1>type
    DEF TerminateDone, Wait, Destroy, ParentGone, DispatchFails,
        DispatchForkFails, poolVars, tableVars, workerVars, StopsStay, StopSent
  <2>2. pc' \in {"wait", "destroy", "exit"}
    BY <1>10 DEF TerminateDone, Wait, Destroy, DispatchFails
  <2> QED
    BY <2>1, <2>2, QuietAccounting
    DEF AllReadyAtFirst, AvailableIfListening, SomePipeSet
<1>11. ASSUME NEW scope \in SignalScopes, Sigint(scope) PROVE Accounting'
  <2>1. PoolQuiet
    BY <1>11
    DEF Sigint, SigintDefault, SigintHandler, SigintHang, Deliver, tableVars,
        workerVars
  <2>2. \/ pc' = pc /\ rset' = rset /\ i' = i
        \/ pc = "blocked" /\ pc' = "check" /\ rset' = rset
        \/ pc \in {"submit", "eof"} /\ pc' = "hung"
        \/ pc' \in {"exit", "hungInDestroy"}
    BY <1>11
    DEF Sigint, SigintDefault, SigintHandler, SigintHang, Logging, loopVars
  <2>3. StopsStay
    BY <2>2 DEF StopsStay, StopSent
  <2> QED
    BY <1>free, <2>1, <2>2, <2>3, QuietAccounting
    DEF Accounting, AllReadyAtFirst, AvailableIfListening, SomePipeSet
<1>12. ASSUME NEW c \in Conn, Arrive(c) PROVE Accounting'
  <2>1. PoolQuiet /\ StopsStay /\ UNCHANGED <<pc, rset>>
    BY <1>12 DEF Arrive, poolVars, loopVars, selVars, StopsStay, StopSent
  <2> QED
    BY <1>free, <2>1, QuietAccounting
    DEF Accounting, AllReadyAtFirst, AvailableIfListening, SomePipeSet
<1>13. ASSUME NEW w \in Worker,
              \/ WorkerRuns(w)
              \/ WorkerStderr(w) /\ UNCHANGED serverVars
              \/ WorkerCrash(w) /\ UNCHANGED serverVars
       PROVE  Accounting'
  <2>1. Jobs' /\ UNCHANGED <<status, avail>> /\ UNCHANGED serverVars
    BY <1>13, <1>type, <1>jobs, WorkerAccounting DEF WorkerRuns
  <2> QED
    BY <2>1
    DEF Accounting, Jobs, AvailExact, FreeWorkers, AllReadyAtFirst,
        AvailableIfListening, SomePipeSet, serverVars, selVars
<1>14. CASE UNCHANGED vars
  <2>1. PoolQuiet /\ StopsStay /\ UNCHANGED <<pc, rset>>
    BY <1>14 DEF vars, poolVars, loopVars, selVars, StopsStay, StopSent
  <2> QED
    BY <1>free, <2>1, QuietAccounting
    DEF Accounting, AllReadyAtFirst, AvailableIfListening, SomePipeSet
<1> QED
  BY <1>1, <1>2, <1>3, <1>4, <1>5, <1>6, <1>7, <1>8, <1>9, <1>10, <1>11,
     <1>12, <1>13, <1>14 DEF Next, ParentStep

-----------------------------------------------------------------------------
\* What follows

\* A byte a callback has printed stays counted.
LEMMA NoiseGrows ==
  ASSUME [Next]_vars
  PROVE  noise' = noise \/ (noise < StderrBytes /\ noise' = noise + 1)
<1> DEFINE Goal == noise' = noise \/ (noise < StderrBytes /\ noise' = noise + 1)
<1>1. CASE \/ ParentStep \/ DispatchFails \/ AcceptError
           \/ (\E c \in Conn : Arrive(c)) \/ UNCHANGED vars
  BY <1>1
  DEF ParentStep, Dispatch, DispatchWorker, DispatchDone, Register, Run, Select,
      SelectWakes, SelectReturns, CheckStop, CheckReady, Accept, AcceptError, Submit,
      SubmitConn, SubmitOverrun, FindFree, JobDone, JobReset, FindFreeEof,
      FindFreeEofLogged, JobEof, Terminate, TerminateWorker, TerminateDone, Wait,
      Destroy, ParentGone, DispatchFails, DispatchForkFails, Arrive, vars, poolVars,
      faultVars
<1>2. ASSUME NEW scope \in SignalScopes, Sigint(scope) PROVE Goal
  BY <1>2 DEF Sigint, SigintDefault, SigintHandler, SigintHang, Deliver
<1>3. ASSUME NEW w \in Worker, WorkerRuns(w) \/ WorkerStderr(w) \/ WorkerCrash(w)
      PROVE  Goal
  BY <1>3
  DEF WorkerRuns, WorkerStep, WorkerStop, WorkerReceive, WorkerReset, WorkerEof,
      WorkerServed, WorkerReport, WorkerInterrupted, WorkerStderr, WorkerCrash,
      faultVars
<1> QED
  BY <1>1, <1>2, <1>3 DEF Next

\* Nothing is printed if callbacks leave stderr alone.
LEMMA NothingPrinted ==
  ASSUME StderrBytes = 0
  PROVE  Spec => [](noise = 0)
<1>1. Init => noise = 0
  BY DEF Init, PoolInit
<1>2. noise = 0 /\ [Next]_vars => (noise = 0)'
  <2> SUFFICES ASSUME noise = 0, [Next]_vars PROVE noise' = 0
    OBVIOUS
  <2>1. noise' = noise \/ (noise < StderrBytes /\ noise' = noise + 1)
    BY NoiseGrows
  <2> QED
    BY <2>1
<1> QED
  BY <1>1, <1>2, PTL DEF Spec

\* Until a callback has printed the accounts are right.
LEMMA AccountingInvariant == Spec => [](TypeOK /\ (noise = 0 => Accounting))
<1> DEFINE Inv == ServerType /\ (noise = 0 => Accounting)
<1>1. Init => Inv
  BY InitType, InitAccounting
<1>2. Inv /\ [Next]_vars => Inv'
  <2> SUFFICES ASSUME Inv, [Next]_vars PROVE Inv'
    OBVIOUS
  <2>1. ServerType'
    BY StepType
  <2>2. noise' = 0 => Accounting'
    <3>1. noise' = 0 => noise = 0
      BY NoiseGrows DEF ServerType, TypeOK, PoolTypeOK
    <3> QED
      BY <3>1, StepAccounting
  <2> QED
    BY <2>1, <2>2
<1>3. Inv => TypeOK /\ (noise = 0 => Accounting)
  BY DEF ServerType
<1> QED
  BY <1>1, <1>2, <1>3, PTL DEF Spec

\* avail_workers_n is the number of workers whose status is "ready", until a
\* callback has printed to its stderr.
THEOREM AvailCorrect == Spec => [](noise = 0 => AvailExact)
<1>1. Accounting => AvailExact
  BY DEF Accounting
<1> QED
  BY <1>1, AccountingInvariant, PTL

\* A connection that was accepted finds a ready worker: the search of
\* worker_pool_workers_submit_conn() stays inside the array, until a callback
\* has printed to its stderr.
THEOREM WorkerForConnectionCorrect == Spec => [](noise = 0 => WorkerForConnection)
<1>1. Accounting => WorkerForConnection
  <2> SUFFICES ASSUME Accounting, pc \in {"accept", "submit"}, FreeWorkers = {}
               PROVE  FALSE
    BY DEF WorkerForConnection
  <2>1. avail > 0 /\ avail = Cardinality(FreeWorkers)
    BY DEF Accounting, AvailableIfListening, AvailExact
  <2> QED
    BY <2>1, FS_EmptySet
<1> QED
  BY <1>1, AccountingInvariant, PTL

\* A worker has one job at a time, and is marked busy for as long, until a
\* callback has printed to its stderr.
THEOREM OneJobCorrect == Spec => [](noise = 0 => OneJob)
<1>1. TypeOK /\ Accounting => OneJob
  <2> SUFFICES ASSUME TypeOK, Accounting, NEW w \in Worker
               PROVE  Cardinality({k \in DOMAIN down[w] : down[w][k].cmd = "p"})
                        + (IF wpc[w] \in Busy THEN 1 ELSE 0) + up[w] <= status[w]
    BY DEF OneJob
  <2> DEFINE J == {k \in DOMAIN down[w] : down[w][k].cmd = "p"}
  <2>1. down[w] \in Seq(Message) /\ up[w] \in Nat /\ status[w] \in {0, 1}
    BY DEF TypeOK, PoolTypeOK
  <2>2. JobPlaces(w) /\ PipeShape(w)
    BY DEF Accounting
  <2>3. J = IF HasJob(w) THEN {1} ELSE {}
    <3>1. ASSUME NEW k \in J PROVE k = 1 /\ HasJob(w)
      <4>1. k \in DOMAIN down[w] /\ k \in Nat \ {0} /\ ~(k >= 2)
        BY <2>1, <2>2 DEF PipeShape
      <4>2. k = 1
        BY <4>1
      <4> QED
        BY <2>1, <4>2 DEF HasJob
    <3>2. HasJob(w) => 1 \in J
      BY <2>1 DEF HasJob
    <3> QED
      BY <3>1, <3>2
  <2>4. Cardinality(J) = IF HasJob(w) THEN 1 ELSE 0
    BY <2>3, FS_EmptySet, FS_Singleton
  <2> HIDE DEF J
  <2>5. Cardinality(J) + (IF wpc[w] \in Busy THEN 1 ELSE 0) + up[w] <= status[w]
    <3>1. CASE HasJob(w)
      <4>1. Cardinality(J) = 1 /\ status[w] = 1 /\ wpc[w] \notin Busy /\ up[w] = 0
        BY <2>2, <2>4, <3>1 DEF JobPlaces
      <4> QED
        BY <4>1
    <3>2. CASE ~HasJob(w) /\ wpc[w] \in Busy
      <4>1. Cardinality(J) = 0 /\ status[w] = 1 /\ up[w] = 0
        BY <2>2, <2>4, <3>2 DEF JobPlaces
      <4> QED
        BY <3>2, <4>1
    <3>3. CASE ~HasJob(w) /\ wpc[w] \notin Busy
      <4>1. Cardinality(J) = 0 /\ up[w] <= status[w]
        BY <2>1, <2>2, <2>4, <3>3 DEF JobPlaces
      <4> QED
        BY <2>1, <3>3, <4>1
    <3> QED
      BY <3>1, <3>2, <3>3
  <2> QED
    BY <2>5 DEF J
<1> QED
  BY <1>1, AccountingInvariant, PTL

\* The comment "job done" is right if callbacks leave stderr alone: a worker is
\* marked ready when its callback has returned, or when it has died.
THEOREM JobDoneIsDoneCorrect ==
  ASSUME StderrBytes = 0
  PROVE  Spec => JobDoneIsDone
<1>1. ASSUME TypeOK, Accounting, Next, NEW w \in Worker,
             status[w] = 1, status'[w] = 0, wpc[w] \in Busy
      PROVE  FALSE
  <2>1. CASE Dispatch
    BY <1>1, <2>1 DEF Dispatch, Accounting, AllReadyAtFirst, FreeWorkers
  <2>2. CASE FindFree
    <3>1. PICK v : JobDone(v) \/ JobReset(v)
      BY <2>2 DEF FindFree
    <3>2. v = w
      BY <1>1, <3>1 DEF JobDone, JobReset, TypeOK, PoolTypeOK
    <3>3. up[w] = 0 /\ wpc[w] # "dead"
      BY <1>1 DEF Accounting, JobPlaces, Busy
    <3> QED
      BY <3>1, <3>2, <3>3 DEF JobDone, JobReset
  <2>3. CASE Submit
    BY <1>1, <2>3 DEF Submit, SubmitConn, SubmitOverrun, tableVars, TypeOK, PoolTypeOK
  <2>4. CASE Terminate
    BY <1>1, <2>4 DEF Terminate, TerminateWorker, tableVars
  <2>5. CASE \/ DispatchDone \/ Register \/ Run \/ Select \/ SelectWakes
             \/ CheckStop \/ CheckReady \/ Accept \/ FindFreeEof
             \/ FindFreeEofLogged \/ TerminateDone \/ Wait \/ Destroy
             \/ DispatchFails \/ AcceptError
    BY <1>1, <2>5
    DEF DispatchDone, Register, Run, Select, SelectWakes, CheckStop, CheckReady,
        Accept, FindFreeEof, FindFreeEofLogged, TerminateDone, Wait, Destroy,
        DispatchFails, DispatchForkFails, AcceptError, JobEof, ParentGone,
        poolVars, tableVars
  <2>6. ASSUME NEW scope \in SignalScopes, Sigint(scope) PROVE FALSE
    BY <1>1, <2>6
    DEF Sigint, SigintDefault, SigintHandler, SigintHang, Deliver, tableVars
  <2>7. ASSUME NEW c \in Conn, Arrive(c) PROVE FALSE
    BY <1>1, <2>7 DEF Arrive, poolVars
  <2>8. ASSUME NEW v \in Worker, WorkerRuns(v) \/ WorkerStderr(v) \/ WorkerCrash(v)
        PROVE  FALSE
    BY <1>1, <2>8
    DEF WorkerRuns, WorkerStep, WorkerStop, WorkerReceive, WorkerReset, WorkerEof,
        WorkerServed, WorkerReport, WorkerInterrupted, WorkerStderr, WorkerCrash,
        tableVars
  <2> QED
    BY <1>1, <2>1, <2>2, <2>3, <2>4, <2>5, <2>6, <2>7, <2>8 DEF Next, ParentStep
<1>2. TypeOK /\ Accounting /\ [Next]_vars =>
        [\A w \in Worker : status[w] = 1 /\ status'[w] = 0 => wpc[w] \notin Busy]_vars
  BY <1>1
<1> QED
  BY NothingPrinted, <1>2, AccountingInvariant, PTL DEF Spec, JobDoneIsDone
=============================================================================
