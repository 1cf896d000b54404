---------------------------- MODULE SelectProofs -----------------------------
(***************************************************************************)
(* Proofs that the parent's calls after select() do not block, whatever    *)
(* the width of a word of an fd_set, and that a worker keeps to the        *)
(* connections it was handed while the parent is there.                    *)
(***************************************************************************)
EXTENDS AccountingProofs

-----------------------------------------------------------------------------
\* select()

\* A readable pipe stays readable until the parent reads it.
ReadableStays == \A v \in Worker : Readable(v) => Readable(v)'

\* A worker's own step never takes back what its pipe shows the parent.
LEMMA WorkerReadable ==
  ASSUME TypeOK, parent = "up", NEW w \in Worker,
         WorkerStep(w) \/ WorkerStderr(w) \/ WorkerCrash(w)
  PROVE  ReadableStays
<1>1. ~Orphaned(w)
  BY DEF Orphaned
<1>2. wpc[w] # "dead"
  BY DEF WorkerStep, WorkerStop, WorkerReceive, WorkerReset, WorkerEof,
         WorkerServed, WorkerReport, WorkerInterrupted, WorkerStderr,
         WorkerCrash, Alive, Busy
<1>3. /\ up' = up \/ up' = [up EXCEPT ![w] = @ + 1]
      /\ \A v \in Worker \ {w} : wpc'[v] = wpc[v]
  BY <1>1
  DEF WorkerStep, WorkerStop, WorkerReceive, WorkerReset, WorkerEof,
      WorkerServed, WorkerReport, WorkerInterrupted, WorkerStderr,
      WorkerCrash, Dies, workerVars, TypeOK, PoolTypeOK
<1>4. ASSUME NEW v \in Worker PROVE up[v] > 0 => up'[v] > 0
  <2>1. up[v] \in Nat /\ (up'[v] = up[v] \/ up'[v] = up[v] + 1)
    BY <1>3 DEF TypeOK, PoolTypeOK
  <2> QED
    BY <2>1
<1> QED
  BY <1>2, <1>3, <1>4 DEF ReadableStays, Readable

\* The pipe a descriptor belongs to.
LEMMA FdOfWorker ==
  /\ \A fd \in Fds \ {SockFd} : WorkerOf(fd) \in Worker /\ PipeFd(WorkerOf(fd)) = fd
  /\ \A fd \in Fds : fd \in Nat
BY PoolAssumption, ServerAssumption DEF Fds, PipeFd, WorkerOf, Worker

\* What select() copies back beyond maxfdp is not counted.
LEMMA ReturnedSet ==
  ASSUME NEW fds \in SUBSET Fds, maxfdp \in Nat
  PROVE  Watched(Ready(fds) \cup Untouched(fds)) = Ready(fds)
<1>1. \A fd \in Untouched(fds) : ~(fd < maxfdp)
  <2> SUFFICES ASSUME NEW fd \in Untouched(fds) PROVE ~(fd < maxfdp)
    OBVIOUS
  <2>1. fd \in Nat
    BY FdOfWorker DEF Untouched
  <2>2. PICK k \in 0 .. fd : maxfdp <= k * FdWord /\ k * FdWord <= fd
    BY DEF Untouched
  <2>3. k * FdWord \in Int
    BY <2>1, <2>2, ServerAssumption
  <2> QED
    BY <2>1, <2>2, <2>3
<1>2. \A fd \in Ready(fds) : fd < maxfdp
  BY DEF Ready, Watched
<1> QED
  BY <1>1, <1>2 DEF Watched

\* A step that changes neither the set nor nsel keeps what is left of
\* select()'s result right.
LEMMA LeftStays ==
  ASSUME TypeOK, ReadyLeft, UNCHANGED <<rset, nsel, maxfdp>>, ReadableStays
  PROVE  ReadyLeft'
<1>1. \A fd \in Watched(rset) \ {SockFd} : WorkerOf(fd) \in Worker
  BY FdOfWorker DEF Watched, TypeOK
<1>2. Watched(rset)' = Watched(rset)
  BY DEF Watched
<1> QED
  BY <1>1, <1>2 DEF ReadyLeft, ReadableStays, WorkerOf

\* One descriptor has been dealt with.
LEMMA LeftOneLess ==
  ASSUME TypeOK, ReadyLeft, NEW fd \in Watched(rset),
         rset' = rset \ {fd}, maxfdp' = maxfdp, nsel' = nsel - 1, nsel # 1,
         \A x \in Watched(rset) \ {SockFd, fd} : Readable(WorkerOf(x))'
  PROVE  ReadyLeft'
<1>1. Watched(rset)' = Watched(rset) \ {fd}
  BY DEF Watched
<1>2. IsFiniteSet(Watched(rset))
  BY SelectType DEF TypeOK
<1>3. Cardinality(Watched(rset)') = Cardinality(Watched(rset)) - 1
  BY <1>1, <1>2, FS_RemoveElement
<1>4. nsel' > 0 /\ nsel' = Cardinality(Watched(rset)')
  BY <1>3 DEF ReadyLeft, TypeOK
<1> QED
  BY <1>1, <1>4 DEF ReadyLeft, WorkerOf

\* The descriptor find_free() comes to is one select() has counted.
LEMMA NextIsCounted ==
  ASSUME TypeOK, ReadyLeft, SockFd \notin rset
  PROVE  /\ rset \ {SockFd} # {} /\ NextFd \in Watched(rset) \ {SockFd}
         /\ Readable(WorkerOf(NextFd)) /\ WorkerOf(NextFd) \in Worker
<1>1. Watched(rset) # {}
  BY FS_EmptySet DEF ReadyLeft
<1>2. PICK x \in rset : x < maxfdp
  BY <1>1 DEF Watched
<1>3. /\ NextFd \in rset \ {SockFd} /\ NextFd <= x /\ WorkerOf(NextFd) \in Worker
  BY <1>2, NextPipe
<1>4. NextFd \in Nat /\ x \in Nat /\ maxfdp \in Nat
  BY <1>2, <1>3, FdOfWorker DEF TypeOK
<1>5. NextFd \in Watched(rset) \ {SockFd}
  BY <1>2, <1>3, <1>4 DEF Watched
<1> QED
  BY <1>3, <1>5 DEF ReadyLeft

-----------------------------------------------------------------------------
\* Every step

\* Before the loop nothing is claimed of a result of select().
LEMMA InitSelect == Init => SelectResult
BY ServerAssumption DEF Init, PoolInit, SelectResult

\* Every step of the server keeps what is left of select()'s result right.
LEMMA StepSelect ==
  ASSUME ServerType, SelectResult, [Next]_vars
  PROVE  SelectResult'
<1>type. TypeOK /\ maxfdp \in Nat /\ maxfdp > SockFd
  BY DEF ServerType, TypeOK, SelectResult
<1>quiet. UNCHANGED <<up, wpc>> => ReadableStays
  BY DEF ReadableStays, Readable
<1>1. CASE Dispatch
  <2>1. maxfdp' > SockFd
    BY <1>1, <1>type, ServerAssumption, PoolAssumption DEF Dispatch, PipeFd, TypeOK
  <2> QED
    BY <1>1, <2>1 DEF Dispatch, DispatchWorker, SelectResult
<1>2. CASE DispatchDone \/ Register \/ Run
  BY <1>2
  DEF DispatchDone, Register, Run, SelectResult, poolVars, loopVars
<1>3. CASE Select \/ SelectWakes
  <2>1. UNCHANGED <<poolVars, maxfdp, serverStop, backlog>> /\ pc # "exit"
    BY <1>3 DEF Select, SelectWakes, loopVars, netVars
  <2>2. CASE pc' = "blocked"
    BY <2>1, <2>2 DEF SelectResult, poolVars
  <2>3. CASE pc' # "blocked"
    <3>1. PICK fds \in SUBSET Fds : SelectReturns(fds)
      <4>1. SelectSet \in SUBSET Fds /\ rset \in SUBSET Fds
        BY <1>type DEF SelectSet, TypeOK
      <4> QED
        BY <1>3, <2>3, <4>1 DEF Select, SelectWakes
    <3>2. pc' = "check" /\ Watched(rset)' = Ready(fds)
      BY <1>type, <2>1, <3>1, ReturnedSet DEF SelectReturns, Watched
    <3>3. nsel' = Cardinality(Ready(fds)) /\ nsel' > 0
      <4>1. IsFiniteSet(Ready(fds)) /\ Cardinality(Ready(fds)) \in Nat
        BY SelectType
      <4> QED
        BY <3>1, <4>1, FS_EmptySet DEF SelectReturns
    <3>4. \A fd \in Ready(fds) \ {SockFd} : Readable(WorkerOf(fd))'
      BY <2>1 DEF Ready, Readable, WorkerOf, poolVars
    <3>5. SockFd \in rset' => backlog' # <<>>
      <4>1. SockFd \in rset' => SockFd \in Watched(rset)'
        BY <1>type, <2>1 DEF Watched
      <4> QED
        BY <2>1, <3>2, <4>1 DEF Ready
    <3>6. ReadyLeft'
      BY <3>2, <3>3, <3>4 DEF ReadyLeft, WorkerOf
    <3> QED
      BY <2>1, <3>2, <3>5, <3>6 DEF SelectResult, poolVars
  <2> QED
    BY <2>2, <2>3
<1>4. CASE CheckStop
  BY <1>4 DEF CheckStop, SelectResult, poolVars
<1>5. CASE CheckReady
  <2>1. /\ pc = "check" /\ ~serverStop /\ pc' \in {"accept", "loop", "find"}
        /\ UNCHANGED <<poolVars, rset, nsel, maxfdp, backlog>>
        /\ pc' = "accept" => SockFd \in rset
        /\ pc' = "find" => SockFd \notin rset
    BY <1>5 DEF CheckReady, loopVars, selVars, netVars
  <2>2. ReadyLeft' /\ (SockFd \in rset => backlog # <<>>)
    BY <1>type, <1>quiet, <2>1, LeftStays DEF SelectResult, poolVars
  <2> QED
    BY <2>1, <2>2 DEF SelectResult, poolVars
<1>6. CASE Accept \/ AcceptError
  <2>1. /\ pc = "accept" /\ pc' = "submit"
        /\ UNCHANGED <<poolVars, rset, nsel, maxfdp>>
    BY <1>6 DEF Accept, AcceptError, loopVars
  <2>2. ReadyLeft'
    BY <1>type, <1>quiet, <2>1, LeftStays DEF SelectResult, poolVars
  <2> QED
    BY <2>1, <2>2 DEF SelectResult, poolVars
<1>7. CASE Submit
  <2>1. /\ pc = "submit" /\ parent = "up" /\ ReadyLeft /\ SockFd \in rset
        /\ maxfdp' = maxfdp /\ rset' = rset \ {SockFd} /\ nsel' = nsel - 1
        /\ pc' = "exit" <=> parent' # "up"
        /\ pc' = "find" => nsel # 1
        /\ pc' \in {"exit", "loop", "find"}
    BY <1>7 DEF Submit, SelectResult, loopVars
  <2>2. UNCHANGED <<up, wpc>>
    BY <1>7 DEF Submit, SubmitConn, SubmitOverrun, workerVars
  <2>3. nsel # 1 => ReadyLeft'
    <3>1. SockFd \in Watched(rset)
      BY <1>type, <2>1 DEF Watched
    <3>2. \A x \in Watched(rset) \ {SockFd} : Readable(WorkerOf(x))'
      BY <2>1, <2>2 DEF ReadyLeft, Readable, WorkerOf
    <3> QED
      BY <1>type, <2>1, <3>1, <3>2, LeftOneLess
  <2> QED
    BY <1>type, <2>1, <2>3 DEF SelectResult
<1>8. CASE FindFree
  <2>1. /\ pc = "find" /\ parent = "up" /\ ReadyLeft /\ SockFd \notin rset
        /\ maxfdp' = maxfdp /\ rset' = rset \ {NextFd} /\ nsel' = nsel - 1
        /\ pc' = "find" => nsel # 1
        /\ pc' \in {"loop", "find"} /\ parent' = parent
    BY <1>8 DEF FindFree, SelectResult, loopVars, JobDone, JobReset
  <2>2. PICK fd \in Watched(rset) \ {SockFd} :
          fd = NextFd /\ WorkerOf(fd) \in Worker
    BY <1>type, <2>1, NextIsCounted
  <2>3. \A v \in Worker \ {WorkerOf(fd)} : Readable(v) => Readable(v)'
    BY <1>8, <1>type, <2>2
    DEF FindFree, JobDone, JobReset, Readable, workerVars, TypeOK, PoolTypeOK
  <2>4. ASSUME NEW x \in Watched(rset) \ {SockFd, fd}
        PROVE  Readable(WorkerOf(x))'
    <3>1. x \in Fds \ {SockFd} /\ fd \in Fds \ {SockFd} /\ x # fd
      BY <1>type, <2>2, <2>4 DEF Watched, TypeOK
    <3>2. WorkerOf(x) \in Worker /\ WorkerOf(x) # WorkerOf(fd)
      BY <3>1, FdOfWorker
    <3>3. Readable(WorkerOf(x))
      BY <2>1, <2>4 DEF ReadyLeft
    <3> QED
      BY <2>3, <3>2, <3>3 DEF WorkerOf
  <2>5. nsel # 1 => ReadyLeft'
    BY <1>type, <2>1, <2>2, <2>4, LeftOneLess
  <2> QED
    BY <1>type, <2>1, <2>5 DEF SelectResult
<1>9. CASE FindFreeEof \/ FindFreeEofLogged
  BY <1>9
  DEF FindFreeEof, FindFreeEofLogged, JobEof, SelectResult, poolVars, loopVars
<1>10. CASE Terminate
  <2>1. /\ pc = "terminate" /\ pc' \in {"terminate", "exit"}
        /\ pc' = "exit" <=> parent' # "up"
        /\ maxfdp' = maxfdp
    BY <1>10 DEF Terminate
  <2> QED
    BY <2>1 DEF SelectResult
<1>11. CASE TerminateDone \/ Wait
  BY <1>11 DEF TerminateDone, Wait, SelectResult, poolVars, loopVars
<1>12. CASE Destroy \/ DispatchFails
  BY <1>12
  DEF Destroy, ParentGone, DispatchFails, DispatchForkFails, SelectResult,
      loopVars
<1>13. ASSUME NEW scope \in SignalScopes, Sigint(scope) PROVE SelectResult'
  <2>1. parent = "up" /\ UNCHANGED <<up, wpc, rset, maxfdp>>
    BY <1>13
    DEF Sigint, SigintDefault, SigintHandler, SigintHang, Deliver,
        tableVars, workerVars, loopVars, selVars
  <2>2. \/ pc' = "exit" /\ parent' = "gone"
        \/ pc' \in Hung /\ parent' = parent
        \/ pc' = "check" /\ parent' = parent /\ serverStop'
        \/ UNCHANGED <<pc, parent, nsel, backlog>> /\ serverStop'
    BY <1>13
    DEF Sigint, SigintDefault, SigintHandler, SigintHang, Hung
  <2>3. CASE UNCHANGED <<pc, parent, nsel, backlog>> /\ serverStop'
    <3>1. ReadyLeft => ReadyLeft'
      BY <1>type, <1>quiet, <2>1, <2>3, LeftStays
    <3> QED
      BY <2>1, <2>3, <3>1 DEF SelectResult
  <2>4. CASE \/ pc' = "exit" /\ parent' = "gone"
             \/ pc' \in Hung /\ parent' = parent
             \/ pc' = "check" /\ parent' = parent /\ serverStop'
    BY <2>1, <2>4 DEF SelectResult, Hung
  <2> QED
    BY <2>2, <2>3, <2>4
<1>14. ASSUME NEW c \in Conn, Arrive(c) PROVE SelectResult'
  <2>1. /\ backlog' # <<>>
        /\ UNCHANGED <<up, wpc, parent, pc, rset, nsel, maxfdp, serverStop>>
    <3>1. Append(backlog, c) # <<>>
      BY <1>type DEF TypeOK
    <3> QED
      BY <1>14, <3>1 DEF Arrive, poolVars, loopVars, selVars
  <2>2. ReadyLeft => ReadyLeft'
    BY <1>type, <1>quiet, <2>1, LeftStays
  <2> QED
    BY <2>1, <2>2 DEF SelectResult
<1>15. ASSUME NEW w \in Worker,
              \/ WorkerRuns(w)
              \/ WorkerStderr(w) /\ UNCHANGED serverVars
              \/ WorkerCrash(w) /\ UNCHANGED serverVars
       PROVE  SelectResult'
  <2>1. UNCHANGED serverVars /\ parent' = parent
    BY <1>15
    DEF WorkerRuns, WorkerStep, WorkerStop, WorkerReceive, WorkerReset,
        WorkerEof, WorkerServed, WorkerReport, WorkerInterrupted,
        WorkerStderr, WorkerCrash
  <2>2. CASE pc = "exit"
    BY <2>1, <2>2 DEF SelectResult, serverVars, loopVars
  <2>3. CASE pc # "exit"
    <3>1. ReadableStays
      BY <1>15, <1>type, <2>3, WorkerReadable DEF WorkerRuns, SelectResult
    <3>2. ReadyLeft => ReadyLeft'
      BY <1>type, <2>1, <3>1, LeftStays DEF serverVars, selVars, loopVars
    <3> QED
      BY <2>1, <3>2 DEF SelectResult, serverVars, selVars, loopVars, netVars
  <2> QED
    BY <2>2, <2>3
<1>16. CASE UNCHANGED vars
  <2>1. UNCHANGED <<up, wpc, parent, pc, rset, nsel, maxfdp, serverStop, backlog>>
    BY <1>16 DEF vars, poolVars, loopVars, selVars, netVars
  <2>2. ReadyLeft => ReadyLeft'
    BY <1>type, <1>quiet, <2>1, LeftStays
  <2> QED
    BY <2>1, <2>2 DEF SelectResult
<1> QED
  BY <1>1, <1>2, <1>3, <1>4, <1>5, <1>6, <1>7, <1>8, <1>9, <1>10, <1>11,
     <1>12, <1>13, <1>14, <1>15, <1>16 DEF Next, ParentStep

\* accept() finds a connection and the read() of a pipe returns at once.
THEOREM NoBlockingCallCorrect == Spec => []NoBlockingCall
<1> DEFINE Inv == ServerType /\ SelectResult
<1>1. Init => Inv
  BY InitType, InitSelect
<1>2. Inv /\ [Next]_vars => Inv'
  BY StepType, StepSelect
<1>3. Inv => NoBlockingCall
  BY NextIsCounted DEF ServerType, SelectResult, NoBlockingCall
<1> QED
  BY <1>1, <1>2, <1>3, PTL DEF Spec

\* A worker acts on a descriptor left over from its last job only when the
\* parent has gone.
THEOREM StaleCorrect == Spec => []StaleOnlyOrphaned
<1> DEFINE Inv == ServerType /\ StaleOnlyOrphaned
<1>1. Init => Inv
  BY InitType DEF Init, PoolInit, StaleOnlyOrphaned
<1>2. Inv /\ [Next]_vars => Inv'
  <2> SUFFICES ASSUME ServerType, StaleOnlyOrphaned, [Next]_vars
               PROVE  StaleOnlyOrphaned'
    BY StepType
  <2> USE DEF ServerType, TypeOK, PoolTypeOK
  <2>1. CASE UNCHANGED <<wpc, wopen>> /\ (parent' = "up" => parent = "up")
    BY <2>1 DEF StaleOnlyOrphaned
  <2>2. CASE Dispatch
    BY <2>2, PoolAssumption
    DEF Dispatch, DispatchWorker, StaleOnlyOrphaned, Worker
  <2>3. CASE ParentStep /\ ~Dispatch
    BY <2>1, <2>3
    DEF ParentStep, DispatchDone, Register, Run, Select, SelectWakes,
        CheckStop, CheckReady, Accept, Submit, SubmitConn, SubmitOverrun,
        FindFree, JobDone, JobReset, FindFreeEof, JobEof, FindFreeEofLogged,
        Terminate, TerminateWorker, TerminateDone, Wait, Destroy, ParentGone,
        poolVars, workerVars
  <2>4. CASE DispatchFails \/ AcceptError \/ \E c \in Conn : Arrive(c)
    BY <2>1, <2>4
    DEF DispatchFails, DispatchForkFails, AcceptError, Arrive, poolVars,
        workerVars
  <2>5. ASSUME NEW scope \in SignalScopes, Sigint(scope)
        PROVE  StaleOnlyOrphaned'
    BY <2>1, <2>5
    DEF Sigint, SigintDefault, SigintHandler, SigintHang, Deliver, workerVars
  <2>6. ASSUME NEW w \in Worker,
               WorkerStep(w) \/ WorkerStderr(w) \/ WorkerCrash(w)
        PROVE  StaleOnlyOrphaned'
    <3>1. /\ parent' = parent
          /\ \A v \in Worker \ {w} : wpc'[v] = wpc[v] /\ wopen'[v] = wopen[v]
      BY <2>6
      DEF WorkerStep, WorkerStop, WorkerReceive, WorkerReset, WorkerEof,
          WorkerServed, WorkerReport, WorkerInterrupted, WorkerStderr,
          WorkerCrash, Dies, workerVars
    <3>2. wpc'[w] = "callback" /\ ~wopen'[w] =>
            (wpc[w] = "callback" /\ ~wopen[w]) \/ parent = "gone"
      BY <2>6
      DEF WorkerStep, WorkerStop, WorkerReceive, WorkerReset, WorkerEof,
          WorkerServed, WorkerReport, WorkerInterrupted, WorkerStderr,
          WorkerCrash, Dies, workerVars, Orphaned
    <3> QED
      BY <3>1, <3>2 DEF StaleOnlyOrphaned
  <2>7. CASE UNCHANGED vars
    BY <2>1, <2>7 DEF vars, poolVars
  <2> QED
    BY <2>2, <2>3, <2>4, <2>5, <2>6, <2>7 DEF Next, WorkerRuns
<1>3. Inv => StaleOnlyOrphaned
  OBVIOUS
<1> QED
  BY <1>1, <1>2, <1>3, PTL DEF Spec

\* What a callback prints to its stderr makes avail_workers_n too large, but
\* nothing makes it too small.
THEOREM AvailNeverLowCorrect == Spec => []AvailNeverLow
<1> DEFINE FreeAtFirst == pc = "dispatch" => FreeWorkers = Worker
           Inv == ServerType /\ SelectResult /\ FreeAtFirst /\ AvailNeverLow
<1>1. Init => Inv
  <2> SUFFICES ASSUME Init PROVE FreeAtFirst /\ AvailNeverLow
    BY InitType, InitSelect
  <2>1. FreeWorkers = Worker /\ avail = WorkersN /\ WorkersN \in Nat
    BY PoolAssumption DEF Init, PoolInit, FreeWorkers
  <2>2. Cardinality(Worker) = WorkersN
    BY FS_Interval, PoolAssumption DEF Worker
  <2> QED
    BY <2>1, <2>2 DEF AvailNeverLow
<1>2. Inv /\ [Next]_vars => Inv'
  <2> SUFFICES ASSUME ServerType, SelectResult, FreeAtFirst, AvailNeverLow, [Next]_vars
               PROVE  FreeAtFirst' /\ AvailNeverLow'
    BY StepType, StepSelect
  <2>type. TypeOK /\ avail \in Int /\ status \in [Worker -> {0, 1}]
    BY DEF ServerType, TypeOK, PoolTypeOK
  <2>1. UNCHANGED <<status, avail>> => AvailNeverLow'
    BY DEF AvailNeverLow, FreeWorkers
  <2>2. CASE Dispatch
    <3>1. /\ pc = "dispatch" /\ i \in Worker /\ avail' = avail
          /\ status' = [status EXCEPT ![i] = 0]
      BY <2>2, <2>type, PoolAssumption DEF Dispatch, DispatchWorker, Worker, TypeOK
    <3>2. status[i] = 0
      BY <3>1 DEF FreeWorkers
    <3>3. status' = status
      BY <2>type, <3>1, <3>2
    <3> QED
      BY <2>1, <3>1, <3>3 DEF FreeWorkers
  <2>first. pc' = "dispatch" => pc = "dispatch" /\ (Dispatch \/ status' = status)
    <3>1. ASSUME ParentStep, ~Dispatch PROVE pc' # "dispatch"
      BY <3>1
      DEF ParentStep, DispatchDone, Register, Run, Select, SelectWakes, SelectReturns,
          CheckStop, CheckReady, Accept, Submit, FindFree, FindFreeEof,
          FindFreeEofLogged, Terminate, TerminateDone, Wait, Destroy
    <3>2. ASSUME NEW scope \in SignalScopes, Sigint(scope)
          PROVE  status' = status /\ (pc' = pc \/ pc' # "dispatch")
      BY <3>2 DEF Sigint, SigintDefault, SigintHandler, SigintHang, Deliver, tableVars
    <3>3. ASSUME NEW w \in Worker,
                 WorkerStep(w) \/ WorkerStderr(w) \/ WorkerCrash(w)
          PROVE  status' = status
      BY <3>3
      DEF WorkerStep, WorkerStop, WorkerReceive, WorkerReset, WorkerEof, WorkerServed,
          WorkerReport, WorkerInterrupted, WorkerStderr, WorkerCrash, tableVars
    <3>4. CASE DispatchFails \/ AcceptError \/ UNCHANGED vars \/ \E c \in Conn : Arrive(c)
      BY <3>4 DEF DispatchFails, AcceptError, Arrive, vars, poolVars
    <3>5. Dispatch => pc = "dispatch"
      BY DEF Dispatch
    <3>6. UNCHANGED serverVars => pc' = pc
      BY DEF serverVars
    <3> QED
      BY <3>1, <3>2, <3>3, <3>4, <3>5, <3>6 DEF Next, WorkerRuns
  <2>later. FreeAtFirst'
    BY <2>2, <2>first DEF FreeWorkers
  <2>3. ASSUME Submit PROVE AvailNeverLow'
    <3>1. CASE SubmitOverrun
      BY <2>1, <3>1 DEF SubmitOverrun, tableVars
    <3>2. CASE SubmitConn(conn)
      <4>1. PICK w \in FreeWorkers :
              status' = [status EXCEPT ![w] = 1] /\ avail' = avail - 1
        BY <3>2, FirstFree DEF SubmitConn
      <4>2. Cardinality(FreeWorkers') = Cardinality(FreeWorkers) - 1
        BY <2>type, <4>1, OneBusier
      <4> QED
        BY <2>type, <4>1, <4>2, FreeType DEF AvailNeverLow
    <3> QED
      BY <2>3, <3>1, <3>2 DEF Submit
  <2>4. ASSUME FindFree PROVE AvailNeverLow'
    <3>1. PICK w \in Worker : w = WorkerOf(NextFd)
      BY <2>4, <2>type, NextIsCounted DEF FindFree, SelectResult
    <3>2. status' = [status EXCEPT ![w] = 0] /\ avail' = avail + 1
      BY <2>4, <3>1 DEF FindFree, JobDone, JobReset
    <3>3. CASE status[w] = 1
      <4>1. Cardinality(FreeWorkers') = Cardinality(FreeWorkers) + 1
        BY <2>type, <3>2, <3>3, OneReadier
      <4> QED
        BY <2>type, <3>2, <4>1, FreeType DEF AvailNeverLow
    <3>4. CASE status[w] = 0
      <4>1. status' = status
        BY <2>type, <3>2, <3>4
      <4> QED
        BY <2>type, <3>2, <4>1, FreeType DEF AvailNeverLow, FreeWorkers
    <3> QED
      BY <2>type, <3>3, <3>4
  <2>5. ASSUME ParentStep /\ ~Dispatch /\ ~Submit /\ ~FindFree PROVE AvailNeverLow'
    BY <2>1, <2>5
    DEF ParentStep, DispatchDone, Register, Run, Select, SelectWakes, CheckStop,
        CheckReady, Accept, FindFreeEof, JobEof, FindFreeEofLogged, Terminate,
        TerminateWorker, TerminateDone, Wait, Destroy, ParentGone, poolVars, tableVars
  <2>6. ASSUME DispatchFails \/ AcceptError \/ UNCHANGED vars \/ \E c \in Conn : Arrive(c)
        PROVE  AvailNeverLow'
    BY <2>1, <2>6
    DEF DispatchFails, DispatchForkFails, AcceptError, Arrive, vars, poolVars, tableVars
  <2>7. ASSUME NEW scope \in SignalScopes, Sigint(scope) PROVE AvailNeverLow'
    BY <2>1, <2>7
    DEF Sigint, SigintDefault, SigintHandler, SigintHang, Deliver, tableVars
  <2>8. ASSUME NEW w \in Worker, WorkerStep(w) \/ WorkerStderr(w) \/ WorkerCrash(w)
        PROVE  AvailNeverLow'
    BY <2>1, <2>8
    DEF WorkerStep, WorkerStop, WorkerReceive, WorkerReset, WorkerEof,
        WorkerServed, WorkerReport, WorkerInterrupted, WorkerStderr,
        WorkerCrash, tableVars
  <2> QED
    BY <2>later, <2>2, <2>3, <2>4, <2>5, <2>6, <2>7, <2>8 DEF Next, WorkerRuns
<1>3. Inv => AvailNeverLow
  OBVIOUS
<1> QED
  BY <1>1, <1>2, <1>3, PTL DEF Spec

-----------------------------------------------------------------------------
\* Who is watched

\* While the parent runs: tcp_server_dispatch() has put the worker's pipe in
\* the set.
Forked(w) == pc # "exit" /\ (pc = "dispatch" => w < i)

\* maxfdp is the descriptor of the last pipe, so all before it are looked at.
WatchedSet ==
  /\ \A w \in Worker : Forked(w) => PipeFd(w) \in masterset /\ maxfdp >= PipeFd(w)
  /\ pc = "blocked" => \A w \in Worker : PipeFd(w) \in rset

\* Every worker but the last is watched while the parent blocks.
THEOREM ReportsWatchedCorrect == Spec => []ReportsWatched
<1> DEFINE Inv == ServerType /\ WatchedSet
<1>1. Init => Inv
  BY InitType, PoolAssumption DEF Init, WatchedSet, Forked, Worker
<1>2. Inv /\ [Next]_vars => Inv'
  <2> SUFFICES ASSUME ServerType, WatchedSet, [Next]_vars PROVE WatchedSet'
    BY StepType
  <2>type. /\ TypeOK /\ maxfdp \in Nat /\ i \in Int
           /\ \A w \in Worker :
                w \in Nat /\ w < WorkersN /\ PipeFd(w) \in Nat /\ PipeFd(w) # SockFd
    BY PoolAssumption, ServerAssumption DEF ServerType, TypeOK, Worker, PipeFd
  <2>1. CASE /\ UNCHANGED <<masterset, maxfdp>> /\ pc \notin {"dispatch", "exit"}
             /\ pc' \notin {"dispatch", "blocked"}
    BY <2>1 DEF WatchedSet, Forked
  <2>2. CASE UNCHANGED <<pc, i, masterset, maxfdp, rset>>
    BY <2>2 DEF WatchedSet, Forked
  <2>10. CASE pc' = "exit"
    BY <2>10 DEF WatchedSet, Forked
  <2>3. CASE Dispatch
    <3>1. /\ pc = "dispatch" /\ pc' = "dispatch" /\ i' = i + 1
          /\ masterset' = masterset \cup {PipeFd(i)}
          /\ maxfdp' = IF maxfdp > PipeFd(i) THEN maxfdp ELSE PipeFd(i)
          /\ PipeFd(i) \in Int
      BY <2>3, <2>type, ServerAssumption DEF Dispatch, PipeFd
    <3>2. \A w \in Worker : w < i + 1 => w < i \/ w = i
      BY <2>type
    <3> QED
      BY <2>type, <3>1, <3>2 DEF WatchedSet, Forked
  <2>4. CASE DispatchDone
    BY <2>4, <2>type DEF DispatchDone, WatchedSet, Forked, loopVars
  <2>5. CASE Select
    <3>1. UNCHANGED <<masterset, maxfdp>> /\ pc = "loop" /\ pc' \in {"check", "blocked"}
      BY <2>5 DEF Select, SelectReturns, loopVars
    <3>2. pc' = "blocked" => rset' = SelectSet
      BY <2>5 DEF Select, SelectReturns
    <3> QED
      BY <2>type, <3>1, <3>2 DEF WatchedSet, Forked, SelectSet
  <2>6. ASSUME NEW scope \in SignalScopes, Sigint(scope) PROVE WatchedSet'
    <3>1. /\ UNCHANGED <<i, masterset, maxfdp, rset>>
          /\ \/ pc' = pc
             \/ pc' \in {"check"} \cup Hung /\ pc \notin {"dispatch", "exit"}
             \/ pc' = "exit"
      BY <2>6
      DEF Sigint, SigintDefault, SigintHandler, SigintHang, loopVars, selVars,
          Logging, Hung
    <3> QED
      BY <2>1, <2>2, <2>10, <3>1 DEF Hung
  <2>7. CASE ParentStep /\ ~Dispatch /\ ~DispatchDone /\ ~Select
    BY <2>1, <2>7
    DEF ParentStep, Register, Run, SelectWakes, SelectReturns, CheckStop, CheckReady,
        Accept, Submit, FindFree, FindFreeEof, FindFreeEofLogged, Terminate,
        TerminateDone, Wait, Destroy, loopVars
  <2>8. CASE DispatchFails \/ AcceptError \/ UNCHANGED vars \/ \E c \in Conn : Arrive(c)
    BY <2>1, <2>2, <2>8, <2>10
    DEF DispatchFails, AcceptError, Arrive, vars, loopVars, selVars
  <2>9. CASE UNCHANGED serverVars
    BY <2>2, <2>9 DEF serverVars, loopVars, selVars
  <2> QED
    BY <2>3, <2>4, <2>5, <2>6, <2>7, <2>8, <2>9 DEF Next, WorkerRuns
<1>3. Inv => ReportsWatched
  <2> SUFFICES ASSUME ServerType, WatchedSet, pc = "blocked",
                      NEW w \in Worker, w < WorkersN - 1
               PROVE  PipeFd(w) \in Watched(rset)
    BY DEF ReportsWatched, PipeWatched
  <2>1. w \in Nat /\ w + 1 \in Worker /\ maxfdp \in Nat
    BY PoolAssumption DEF Worker, ServerType, TypeOK
  <2>2. maxfdp >= PipeFd(w + 1) /\ PipeFd(w + 1) = PipeFd(w) + 1 /\ PipeFd(w) \in Nat
    BY <2>1, ServerAssumption DEF WatchedSet, Forked, PipeFd
  <2> QED
    BY <2>1, <2>2 DEF WatchedSet, Watched
<1> QED
  BY <1>1, <1>2, <1>3, PTL DEF Spec
=============================================================================
