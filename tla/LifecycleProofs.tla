--------------------------- MODULE LifecycleProofs ---------------------------
(***************************************************************************)
(* Proofs about Lifecycle.  Whatever descriptors were open when the        *)
(* program started, the parent keeps one end of each pipe, the pipes are   *)
(* ordered, and what init opens is closed again.  If stderr was among them *)
(* every worker gets its own pipe as descriptor 2.  Most properties are    *)
(* about the case that no socketpair() has failed; OnlyZeroHarmed says     *)
(* what is left when some have.                                            *)
(***************************************************************************)
EXTENDS Lifecycle, MinMaxProofs, FiniteSetTheorems, TLAPS

-----------------------------------------------------------------------------
\* Descriptor tables

\* The files a table can refer to are different from one another.
LEMMA FilesDiffer ==
  /\ Free # Other /\ Free # Listening /\ Other # Listening
  /\ \A v \in Worker : /\ ParentEnd(v) \notin {Free, Other, Listening}
                       /\ ChildEnd(v) \notin {Free, Other, Listening}
  /\ \A v, w \in Worker : /\ ParentEnd(v) # ChildEnd(w)
                          /\ ParentEnd(v) = ParentEnd(w) => v = w
                          /\ ChildEnd(v) = ChildEnd(w) => v = w
BY DEF Free, Other, Listening, ParentEnd, ChildEnd

\* The descriptor a new file gets is the first one that is free.
LEMMA LowestFree ==
  ASSUME NEW t \in Table, FreeFds(t) # {}
  PROVE  /\ Lowest(t) \in Fd /\ t[Lowest(t)] = Free
         /\ \A fd \in Fd : fd < Lowest(t) => t[fd] # Free
<1>1. FreeFds(t) \in SUBSET Nat
  BY LifecycleAssumption DEF FreeFds, Fd
<1>2. Lowest(t) \in FreeFds(t) /\ \A n \in FreeFds(t) : Lowest(t) <= n
  BY <1>1, MinElement DEF Lowest
<1>3. ASSUME NEW fd \in Fd, fd < Lowest(t) PROVE t[fd] # Free
  BY <1>1, <1>2, <1>3, LifecycleAssumption DEF FreeFds, Fd
<1> QED
  BY <1>2, <1>3 DEF FreeFds

\* A socketpair() that succeeds: its first end has the first free descriptor,
\* its second end a later one.
LEMMA Pair ==
  ASSUME fds \in Table, PairFits, NEW w \in Worker
  PROVE  /\ FirstEnd \in Fd /\ fds[FirstEnd] = Free
         /\ SecondEnd(w) \in Fd /\ fds[SecondEnd(w)] = Free
         /\ FirstEnd # SecondEnd(w)
         /\ \A fd \in Fd : fd < FirstEnd => fds[fd] # Free
         /\ PairTable(w) = [fds EXCEPT ![FirstEnd] = ParentEnd(w),
                                       ![SecondEnd(w)] = ChildEnd(w)]
<1> DEFINE a == Lowest(fds)
           t == Open(fds, ParentEnd(w))
<1>1. IsFiniteSet(FreeFds(fds)) /\ FreeFds(fds) # {}
  <2>1. IsFiniteSet(Fd)
    BY FS_Interval, LifecycleAssumption DEF Fd
  <2>2. IsFiniteSet(FreeFds(fds))
    BY <2>1, FS_Subset DEF FreeFds
  <2>3. FreeFds(fds) # {}
    BY FS_EmptySet DEF PairFits
  <2> QED
    BY <2>2, <2>3
<1>2. a \in Fd /\ fds[a] = Free /\ \A fd \in Fd : fd < a => fds[fd] # Free
  BY <1>1, LowestFree
<1>3. t = [fds EXCEPT ![a] = ParentEnd(w)] /\ t \in Table
  BY <1>2 DEF Open, Table, OwnFiles
<1>4. FreeFds(t) = FreeFds(fds) \ {a} /\ a \in FreeFds(fds)
  BY <1>2, <1>3, FilesDiffer DEF FreeFds, Table
<1>5. FreeFds(t) # {}
  <2>1. Cardinality(FreeFds(t)) = Cardinality(FreeFds(fds)) - 1
    BY <1>1, <1>4, FS_RemoveElement
  <2>2. Cardinality(FreeFds(fds)) \in Nat /\ Cardinality(FreeFds(fds)) >= 2
    BY <1>1, FS_CardinalityType DEF PairFits
  <2>3. Cardinality(FreeFds(t)) # 0 /\ Cardinality({}) = 0
    BY <2>1, <2>2, FS_EmptySet
  <2> HIDE DEF t
  <2> QED
    BY <2>3
<1>6. Lowest(t) \in Fd /\ t[Lowest(t)] = Free
  BY <1>3, <1>5, LowestFree
<1>7. Lowest(t) # a /\ fds[Lowest(t)] = Free
  BY <1>2, <1>3, <1>6, FilesDiffer DEF Table
<1>8. FirstEnd = a /\ SecondEnd(w) = Lowest(t) /\ PairTable(w) = Open(t, ChildEnd(w))
  BY DEF FirstEnd, SecondEnd, PairTable, PairTable1
<1> QED
  BY <1>2, <1>3, <1>6, <1>7, <1>8 DEF Open

\* After the parent's close() one descriptor has been taken, for its end.
LEMMA ParentTable ==
  ASSUME fds \in Table, PairFits, NEW w \in Worker
  PROVE  Close(PairTable(w), SecondEnd(w)) = [fds EXCEPT ![FirstEnd] = ParentEnd(w)]
BY Pair DEF Close, Table

\* The child has its end as descriptor 2, unless it has closed that number
\* with the pair's or the listening socket.
LEMMA ChildTableShape ==
  ASSUME fds \in Table, PairFits, NEW w \in Worker, sockFd \in Fd \cup {-1}
  PROVE  /\ ChildTable(w) \in Table
         /\ \A fd \in Fd :
              ChildTable(w)[fd] =
                IF fd \in {FirstEnd, SecondEnd(w), sockFd} THEN Free
                ELSE IF fd = 2 THEN ChildEnd(w)
                ELSE fds[fd]
<1> DEFINE a == FirstEnd
           b == SecondEnd(w)
           d == Dup2(PairTable(w), b, 2)
           e == Close(Close(d, a), b)
<1>1. 2 \in Fd /\ a \in Fd /\ b \in Fd /\ a # b
  BY Pair, LifecycleAssumption DEF Fd
<1>2. PairTable(w) = [fds EXCEPT ![a] = ParentEnd(w), ![b] = ChildEnd(w)]
  BY Pair
<1>3. fds \in [Fd -> {Free, Other} \cup OwnFiles]
  BY DEF Table
<1>4. ChildTable(w) = Close(e, sockFd)
  BY DEF ChildTable
<1> HIDE DEF a, b
<1>5. PairTable(w) \in [Fd -> {Free, Other} \cup OwnFiles]
      /\ \A fd \in Fd : PairTable(w)[fd] = IF fd = b THEN ChildEnd(w)
                                         ELSE IF fd = a THEN ParentEnd(w)
                                         ELSE fds[fd]
  BY <1>1, <1>2, <1>3 DEF OwnFiles
<1>6. d = [PairTable(w) EXCEPT ![2] = ChildEnd(w)]
  BY <1>1, <1>5, FilesDiffer DEF Dup2
<1>7. e = [d EXCEPT ![a] = Free, ![b] = Free]
  BY <1>1 DEF Close
<1> HIDE DEF d, e
<1>8. e \in [Fd -> {Free, Other} \cup OwnFiles]
      /\ \A fd \in Fd : e[fd] = IF fd \in {a, b} THEN Free
                             ELSE IF fd = 2 THEN ChildEnd(w) ELSE fds[fd]
  BY <1>1, <1>5, <1>6, <1>7 DEF OwnFiles
<1>9. /\ ChildTable(w) \in [Fd -> {Free, Other} \cup OwnFiles]
      /\ \A fd \in Fd : ChildTable(w)[fd] = IF fd = sockFd THEN Free ELSE e[fd]
  BY <1>4, <1>8 DEF Close
<1>10. \A fd \in Fd : ChildTable(w)[fd] = IF fd \in {a, b, sockFd} THEN Free
                                        ELSE IF fd = 2 THEN ChildEnd(w)
                                        ELSE fds[fd]
  BY <1>8, <1>9
<1> QED
  BY <1>9, <1>10 DEF Table, a, b

-----------------------------------------------------------------------------
\* The invariant

Early == pc \in {"start", "new", "init"}

\* The last descriptor that dispatching has taken so far.
LastTaken == IF i = 0 THEN sockFd ELSE pipefd[i - 1]

\* Nothing has been opened: before tcp_server_init(), or it has failed.
NothingOpened ==
  /\ i = 0 /\ workersN = 0
  /\ \A fd \in Fd : fds[fd] \notin OwnFiles

\* The process has no end of a pipe but its own of those recorded.
OnlyPipes ==
  \A fd \in Fd, v \in Worker :
    /\ fds[fd] = ParentEnd(v) => v < i /\ fd = pipefd[v]
    /\ fds[fd] # ChildEnd(v)

\* The object while its server listens and after.
Layout ==
  /\ workersN = WorkersN /\ i <= WorkersN
  /\ sockFd \in masterset
  /\ \A v \in Worker : v < i => sockFd < pipefd[v]
  /\ \A v, w \in Worker : v < w /\ w < i => pipefd[v] < pipefd[w]
  /\ maxfdp = IF i = 0 THEN sockFd + 1 ELSE pipefd[i - 1]
  /\ OnlyPipes
  /\ \A v \in Worker : v < i => fds[pipefd[v]] = ParentEnd(v)

\* The listening socket, and no hole below the last descriptor taken.
Listens ==
  /\ \A fd \in Fd : fds[fd] = Listening <=> fd = sockFd
  /\ \A fd \in Fd : fd <= LastTaken => fds[fd] # Free

\* What the workers forked so far have.
Tables ==
  \A w \in Worker : w < i =>
    /\ wfds[w][2] = ChildEnd(w)
    /\ \A fd \in Fd \ {2} :
         wfds[w][fd] # Listening /\ \A v \in Worker : wfds[w][fd] # ChildEnd(v)
    /\ \A v \in Worker : (\E fd \in Fd : wfds[w][fd] = ParentEnd(v)) <=> v < w

\* The fd_set has overflowed: no number that would have fitted is left.
Full ==
  /\ FdSetSize < MaxFds
  /\ \A fd \in Fd, v \in Worker : fds[fd] # ChildEnd(v)
  /\ \/ \A fd \in Fd : fd < FdSetSize => fds[fd] = Other
     \/ /\ i < WorkersN
        /\ \A fd \in Fd : fd < FdSetSize =>
             fds[fd] = Other \/ fd = sockFd \/ \E v \in 0 .. i - 1 : fd = pipefd[v]

\* The process: what is open in it, and where it is.
ParentSide ==
  /\ Early => NothingOpened /\ noPair = {}
  /\ pc \in {"start", "new"} => server = "none"
  /\ pc = "init" => server = "live"
  /\ pc = "run" => i = workersN
  /\ server = "none" /\ ~Early => pc = "returned" /\ NothingOpened
  /\ server # "none" /\ ~Early /\ noPair = {} /\ pc \notin {"killed", "overrun", "spin"} =>
       /\ ret = -1 => NothingOpened
       /\ ret = 0 => sockFd \in Fd /\ Layout
       /\ ret = 0 /\ pc \in {"inited", "dispatch", "run", "destroy"} => Listens
  /\ pc = "overrun" /\ noPair = {} => Full
  /\ pc = "spin" /\ noPair = {} => OnlyPipes

\* The workers, if no socketpair() has failed.
ChildSide == noPair = {} => Tables

\* Descriptor 2 stays as it was, and a worker whose socketpair() has succeeded
\* has its end of that pair there.
StderrKept ==
  /\ pc \notin {"killed", "spin"} => fds[2] = Other /\ sockFd # 2
  /\ workersN # 0 => ~Early /\ sockFd \in Fd
  /\ \A w \in Worker \ noPair : w < i => wfds[w][2] = ChildEnd(w)

-----------------------------------------------------------------------------
\* Types

\* System calls keep the type of a table.
LEMMA CallType ==
  ASSUME NEW t \in Table, NEW file \in {Free, Other} \cup OwnFiles
  PROVE  /\ FreeFds(t) # {} => Open(t, file) \in Table
         /\ \A fd \in Fd \cup {-1} : Close(t, fd) \in Table
         /\ \A fd, gd \in Fd : Dup2(t, fd, gd) \in Table
<1>1. FreeFds(t) # {} => Open(t, file) \in Table
  BY LowestFree DEF Open, Table
<1>2. \A fd \in Fd \cup {-1} : Close(t, fd) \in Table
  BY DEF Close, Table
<1>3. \A fd, gd \in Fd : Dup2(t, fd, gd) \in Table
  BY DEF Dup2, Table
<1> QED
  BY <1>1, <1>2, <1>3

\* So do socketpair() and what parent and child do after it.
LEMMA PairType ==
  ASSUME fds \in Table, NEW w \in Worker, sockFd \in Fd \cup {-1}
  PROVE  /\ Close(fds, 0) \in Table /\ PairlessTable \in Table
         /\ PairFits => /\ FirstEnd \in Fd
                        /\ Close(PairTable(w), SecondEnd(w)) \in Table
                        /\ ChildTable(w) \in Table
<1>1. 0 \in Fd /\ 2 \in Fd /\ Free \in {Free, Other} \cup OwnFiles
  BY LifecycleAssumption DEF Fd
<1>2. Close(fds, 0) \in Table
  BY <1>1, CallType
<1>3. Dup2(fds, 0, 2) \in Table
  BY <1>1, CallType
<1>4. Close(Dup2(fds, 0, 2), 0) \in Table
  BY <1>1, <1>3, CallType
<1>5. PairlessTable \in Table
  BY <1>1, <1>4, CallType DEF PairlessTable
<1>6. ASSUME PairFits
      PROVE  /\ FirstEnd \in Fd
             /\ Close(PairTable(w), SecondEnd(w)) \in Table
             /\ ChildTable(w) \in Table
  BY <1>6, Pair, ParentTable, ChildTableShape DEF Table, OwnFiles
<1> QED
  BY <1>2, <1>5, <1>6

\* The initial state has the types.
LEMMA LifecycleInitType == Init => TypeOK
<1> SUFFICES ASSUME Init PROVE TypeOK
  OBVIOUS
<1>1. fds \in Table
  <2>1. PICK S \in StartSets : fds = [fd \in Fd |-> IF fd \in S THEN Other ELSE Free]
    BY DEF Init
  <2> QED
    BY <2>1 DEF Table
<1>2. wfds \in [Worker -> Table]
  BY DEF Init, NoFiles, Table
<1> QED
  BY <1>1, <1>2, LifecycleAssumption DEF Init, TypeOK, Fd

\* Every step keeps the types.
LEMMA LifecycleStepType == TypeOK /\ [Next]_vars => TypeOK'
<1> SUFFICES ASSUME TypeOK, [Next]_vars PROVE TypeOK'
  OBVIOUS
<1> USE DEF TypeOK
<1>1. CASE IfaceDown \/ IfaceUp \/ New \/ Inited \/ DispatchDone \/ RunReturns
             \/ RunKilled \/ Return
  BY <1>1 DEF IfaceDown, IfaceUp, New, Inited, DispatchDone, RunReturns,
              RunKilled, Return, objVars, tabVars
<1>2. CASE InitNoAddress \/ InitNoSocket
  BY <1>2 DEF InitNoAddress, InitNoSocket, objVars, tabVars
<1>3. ASSUME FreeFds(fds) # {}
      PROVE  /\ Lowest(fds) \in Fd
             /\ Open(fds, Listening) \in Table
             /\ Close(Open(fds, Listening), Lowest(fds)) \in Table
  <2>1. Listening \in {Free, Other} \cup OwnFiles
    BY DEF OwnFiles
  <2>2. Lowest(fds) \in Fd /\ Open(fds, Listening) \in Table
    BY <1>3, <2>1, LowestFree, CallType
  <2> QED
    BY <2>1, <2>2, CallType
<1>4. CASE InitBacksOut
  BY <1>3, <1>4 DEF InitBacksOut
<1>5. CASE InitSucceeds
  BY <1>3, <1>5, LifecycleAssumption DEF InitSucceeds, Fd
<1>11. CASE InitOverrun
  BY <1>3, <1>11 DEF InitOverrun
<1>6. ASSUME pc = "dispatch" /\ i < workersN
      PROVE  /\ i \in Worker /\ i + 1 \in 0 .. WorkersN /\ 0 \in Fd
             /\ Close(fds, 0) \in Table /\ PairlessTable \in Table
             /\ PairFits => /\ FirstEnd \in Fd /\ ChildTable(i) \in Table
                            /\ Close(PairTable(i), SecondEnd(i)) \in Table
                            /\ Max({maxfdp, FirstEnd}) \in 0 .. MaxFds
  <2>1. i \in Worker /\ i + 1 \in 0 .. WorkersN /\ 0 \in Fd
    BY <1>6, LifecycleAssumption DEF Worker, Fd
  <2>2. /\ Close(fds, 0) \in Table /\ PairlessTable \in Table
        /\ PairFits => /\ FirstEnd \in Fd /\ ChildTable(i) \in Table
                       /\ Close(PairTable(i), SecondEnd(i)) \in Table
    BY <2>1, PairType
  <2>3. PairFits => Max({maxfdp, FirstEnd}) \in 0 .. MaxFds
    BY <2>2, MaxOfTwo, LifecycleAssumption DEF Fd
  <2> QED
    BY <2>1, <2>2, <2>3
<1>7. CASE Dispatch
  BY <1>6, <1>7 DEF Dispatch
<1>12. CASE DispatchOverrun
  BY <1>6, <1>12 DEF DispatchOverrun, objVars
<1>8. CASE DispatchForkFails
  BY <1>6, <1>8 DEF DispatchForkFails, objVars
<1>13. CASE DispatchNoPair
  BY <1>6, <1>13 DEF DispatchNoPair
<1>14. CASE DispatchAllFails
  BY <1>6, <1>14 DEF DispatchAllFails, objVars
<1>9. CASE Destroy
  <2>1. Close(fds, sockFd) \in Table
    BY DEF Close, Table
  <2> QED
    BY <1>9, <2>1 DEF Destroy, objVars
<1>10. CASE UNCHANGED vars
  BY <1>10 DEF vars, objVars, tabVars
<1> QED
  BY <1>1, <1>2, <1>4, <1>5, <1>7, <1>8, <1>9, <1>10, <1>11, <1>12, <1>13, <1>14
  DEF Next

-----------------------------------------------------------------------------
\* The parent's side

\* Before tcp_server_init() nothing has been opened.
LEMMA ParentInit == Init => ParentSide
<1> SUFFICES ASSUME Init PROVE ParentSide
  OBVIOUS
<1>1. PICK S \in StartSets : fds = [fd \in Fd |-> IF fd \in S THEN Other ELSE Free]
  BY DEF Init
<1>2. \A fd \in Fd : fds[fd] \notin OwnFiles
  BY <1>1, FilesDiffer DEF OwnFiles
<1> QED
  BY <1>2 DEF Init, ParentSide, Early, NothingOpened

\* tcp_server_init()
LEMMA ParentOfInit ==
  ASSUME TypeOK, ParentSide,
         InitNoAddress \/ InitNoSocket \/ InitBacksOut \/ InitSucceeds
  PROVE  ParentSide'
<1> USE DEF TypeOK
<1>1. CASE InitNoAddress \/ InitNoSocket
  BY <1>1 DEF InitNoAddress, InitNoSocket, objVars, tabVars, ParentSide, Early,
              NothingOpened
<1>2. ASSUME FreeFds(fds) # {}, pc = "init"
      PROVE  /\ Lowest(fds) \in Fd /\ fds[Lowest(fds)] = Free
             /\ \A fd \in Fd : fd < Lowest(fds) => fds[fd] # Free
  BY <1>2, LowestFree
<1>3. CASE InitBacksOut
  <2>1. fds' = fds
    <3> DEFINE a == Lowest(fds)
    <3>1. a \in Fd /\ fds[a] = Free
      BY <1>2, <1>3 DEF InitBacksOut
    <3>2. Close(Open(fds, Listening), a) = [fds EXCEPT ![a] = Free]
      BY <3>1 DEF Close, Open, Table
    <3>3. [fds EXCEPT ![a] = Free] = fds
      BY <3>1 DEF Table
    <3> QED
      BY <1>3, <3>2, <3>3 DEF InitBacksOut
  <2> QED
    BY <1>2, <1>3, <2>1 DEF InitBacksOut, ParentSide, Early, NothingOpened
<1>4. CASE InitSucceeds
  <2> DEFINE a == Lowest(fds)
  <2>1. /\ a \in Fd /\ fds[a] = Free
        /\ \A fd \in Fd : fd < a => fds[fd] # Free
        /\ fds' = [fds EXCEPT ![a] = Listening] /\ sockFd' = a
        /\ i = 0 /\ i' = i /\ noPair = {} /\ noPair' = noPair
        /\ \A fd \in Fd : fds[fd] \notin OwnFiles
        /\ masterset' = {a} /\ maxfdp' = a + 1 /\ workersN' = WorkersN
        /\ pc' = "inited" /\ ret' = 0
    <3>1. pc = "init" /\ FreeFds(fds) # {}
      BY <1>4 DEF InitSucceeds
    <3>2. NothingOpened /\ noPair = {}
      BY <3>1 DEF ParentSide, Early
    <3> QED
      BY <1>2, <1>4, <3>1, <3>2 DEF InitSucceeds, Open, NothingOpened
  <2>2. Layout'
    <3>1. ASSUME NEW fd \in Fd, NEW v \in Worker
          PROVE  fds'[fd] # ParentEnd(v) /\ fds'[fd] # ChildEnd(v)
      BY <2>1, FilesDiffer DEF OwnFiles
    <3>2. \A v \in Worker : ~(v < i')
      BY <2>1, LifecycleAssumption DEF Worker
    <3> QED
      BY <2>1, <3>1, <3>2, LifecycleAssumption DEF Layout, OnlyPipes, Worker
  <2>3. Listens'
    <3>1. \A fd \in Fd : fds'[fd] = Listening <=> fd = a
      BY <2>1 DEF OwnFiles, Table
    <3>2. \A fd \in Fd : fd <= a => fds'[fd] # Free
      BY <2>1, FilesDiffer, LifecycleAssumption DEF Fd, Table
    <3> QED
      BY <2>1, <3>1, <3>2 DEF Listens, LastTaken
  <2> QED
    BY <2>1, <2>2, <2>3, <1>4 DEF InitSucceeds, ParentSide, Early
<1> QED
  BY <1>1, <1>3, <1>4

\* A worker is forked.
LEMMA ParentOfDispatch ==
  ASSUME TypeOK, ParentSide, Dispatch
  PROVE  ParentSide'
<1> USE DEF TypeOK
<1>1. /\ ~Early /\ pc = "dispatch" /\ pc' = pc /\ server' = server
      /\ i < workersN /\ i' = i + 1 /\ ret' = ret /\ sockFd' = sockFd
      /\ workersN' = workersN
  BY DEF Dispatch, Early
<1>2. CASE noPair' # {}
  BY <1>1, <1>2 DEF ParentSide, Early
<1>3. CASE noPair' = {}
  <2>1. PairFits /\ noPair = {}
    BY <1>3 DEF Dispatch
  <2>2. server # "none" /\ ret = 0
    BY <1>1, <2>1, LifecycleAssumption DEF ParentSide, NothingOpened
  <2>3. sockFd \in Fd /\ Layout /\ Listens
    BY <1>1, <2>1, <2>2 DEF ParentSide
  <2> DEFINE a == FirstEnd
             b == SecondEnd(i)
  <2>4. i \in Worker /\ i \in Nat /\ \A v \in Worker : v \in Nat
    BY <1>1, LifecycleAssumption DEF Worker
  <2>5. /\ a \in Fd /\ fds[a] = Free /\ b \in Fd /\ fds[b] = Free /\ a # b
        /\ \A fd \in Fd : fd < a => fds[fd] # Free
    BY <2>1, <2>4, Pair
  <2>6. fds' = [fds EXCEPT ![a] = ParentEnd(i)]
    BY <2>1, <2>4, ParentTable DEF Dispatch
  <2>7. /\ pipefd' = [pipefd EXCEPT ![i] = a]
        /\ masterset' = masterset \cup {a}
        /\ maxfdp' = IF maxfdp > a THEN maxfdp ELSE a
    <3>1. maxfdp \in Int /\ a \in Int
      BY <2>5, LifecycleAssumption DEF Fd
    <3> QED
      BY <3>1, MaxOfTwo DEF Dispatch
  <2>9. LastTaken \in Fd /\ LastTaken < a /\ sockFd < a
        /\ \A v \in Worker : v < i => pipefd[v] < a
    <3>1. LastTaken \in Fd /\ sockFd <= LastTaken
          /\ \A v \in Worker : v < i => pipefd[v] <= LastTaken
      <4>1. CASE i = 0
        BY <4>1, <2>3, <2>4, LifecycleAssumption DEF LastTaken, Fd
      <4>2. CASE i # 0
        <5>1. i - 1 \in Worker /\ i - 1 < i
          BY <4>2, <2>4, LifecycleAssumption DEF Worker
        <5>2. pipefd[i - 1] \in Fd /\ sockFd < pipefd[i - 1]
          BY <2>3, <5>1 DEF Layout
        <5>3. \A v \in Worker : v < i - 1 => pipefd[v] < pipefd[i - 1]
          BY <2>3, <5>1 DEF Layout
        <5>4. \A v \in Worker : v < i => v < i - 1 \/ v = i - 1
          BY <2>4
        <5> QED
          BY <4>2, <5>2, <5>3, <5>4, <2>3, LifecycleAssumption DEF LastTaken, Fd
      <4> QED
        BY <4>1, <4>2
    <3>2. LastTaken < a
      BY <2>3, <2>5, <3>1, LifecycleAssumption DEF Listens, Fd
    <3> QED
      BY <2>3, <2>5, <3>1, <3>2, LifecycleAssumption DEF Fd
  <2>10. Layout'
    <3>1. workersN' = WorkersN /\ i' <= WorkersN /\ sockFd' \in masterset'
      BY <1>1, <2>3, <2>4, <2>7, LifecycleAssumption DEF Layout
    <3>2. \A v \in Worker : pipefd'[v] = IF v = i THEN a ELSE pipefd[v]
      BY <2>4, <2>7
    <3>3. \A v \in Worker : v < i' <=> v < i \/ v = i
      BY <1>1, <2>4
    <3>4. \A v \in Worker : v < i' => sockFd' < pipefd'[v]
      BY <1>1, <2>3, <2>9, <3>2, <3>3 DEF Layout
    <3>5. ASSUME NEW v \in Worker, NEW w \in Worker, v < w, w < i'
          PROVE  pipefd'[v] < pipefd'[w]
      <4>1. v < i /\ v # i
        BY <3>3, <3>5, <2>4
      <4>2. CASE w = i
        BY <4>1, <4>2, <2>9, <3>2
      <4>3. CASE w < i
        BY <4>1, <4>3, <2>3, <3>2, <3>5, <2>4 DEF Layout
      <4> QED
        BY <4>2, <4>3, <3>3, <3>5
    <3>6. maxfdp' = IF i' = 0 THEN sockFd' + 1 ELSE pipefd'[i' - 1]
      <4>1. i' # 0 /\ i' - 1 = i
        BY <1>1, <2>4
      <4>2. maxfdp' = a
        <5>1. maxfdp <= a
          <6>1. CASE i = 0
            BY <6>1, <2>3, <2>5, <2>9, LifecycleAssumption DEF Layout, Fd
          <6>2. CASE i # 0
            BY <6>2, <2>3, <2>5, <2>9, LifecycleAssumption
            DEF Layout, Fd, LastTaken
          <6> QED
            BY <6>1, <6>2
        <5> QED
          BY <5>1, <2>5, <2>7, LifecycleAssumption DEF Fd
      <4> QED
        BY <4>1, <4>2, <3>2, <2>4
    <3>7. ASSUME NEW fd \in Fd, NEW v \in Worker
          PROVE  /\ fds'[fd] = ParentEnd(v) => v < i' /\ fd = pipefd'[v]
                 /\ fds'[fd] # ChildEnd(v)
      <4>1. CASE fd = a
        BY <4>1, <2>4, <2>5, <2>6, <3>2, <3>3, FilesDiffer DEF Table
      <4>2. CASE fd # a
        <5>1. fds'[fd] = fds[fd]
          BY <4>2, <2>5, <2>6 DEF Table
        <5>2. v < i => v # i
          BY <2>4
        <5> QED
          BY <5>1, <5>2, <2>3, <3>2, <3>3 DEF Layout, OnlyPipes
      <4> QED
        BY <4>1, <4>2
    <3>8. ASSUME NEW v \in Worker, v < i' PROVE fds'[pipefd'[v]] = ParentEnd(v)
      <4>1. CASE v = i
        BY <4>1, <2>5, <2>6, <3>2 DEF Table
      <4>2. CASE v # i
        <5>1. v < i /\ pipefd[v] \in Fd
          BY <4>2, <3>3, <3>8
        <5>2. pipefd[v] # a
          BY <5>1, <2>9, <2>5, LifecycleAssumption DEF Fd
        <5> QED
          BY <4>2, <5>1, <5>2, <2>3, <2>6, <3>2 DEF Table, Layout
      <4> QED
        BY <4>1, <4>2
    <3> QED
      BY <3>1, <3>4, <3>5, <3>6, <3>7, <3>8 DEF Layout, OnlyPipes
  <2>11. Listens'
    <3>1. ASSUME NEW fd \in Fd PROVE fds'[fd] = Listening <=> fd = sockFd'
      BY <1>1, <2>3, <2>4, <2>5, <2>6, <2>9, FilesDiffer DEF Listens, Table
    <3>2. LastTaken' = a
      BY <1>1, <2>4, <2>7 DEF LastTaken
    <3>3. ASSUME NEW fd \in Fd, fd <= a PROVE fds'[fd] # Free
      <4>1. fd < a \/ fd = a
        BY <2>5, <3>3, LifecycleAssumption DEF Fd
      <4> QED
        BY <4>1, <2>4, <2>5, <2>6, FilesDiffer DEF Table
    <3> QED
      BY <3>1, <3>2, <3>3 DEF Listens
  <2> QED
    BY <1>1, <2>2, <2>3, <2>10, <2>11 DEF ParentSide, Early
<1> QED
  BY <1>2, <1>3

\* The listening socket does not fit the fd_set: all lower numbers were taken
\* before the program started.
LEMMA ParentOfInitOverrun ==
  ASSUME TypeOK, ParentSide, InitOverrun
  PROVE  ParentSide'
<1> USE DEF TypeOK
<1> DEFINE a == Lowest(fds)
<1>1. /\ pc = "init" /\ FreeFds(fds) # {} /\ ~(a < FdSetSize)
      /\ pc' = "overrun" /\ fds' = [fds EXCEPT ![a] = Listening]
      /\ server' = server
  BY DEF InitOverrun, InFdSet, Open
<1>2. /\ a \in Fd /\ \A fd \in Fd : fd < a => fds[fd] # Free
  BY <1>1, LowestFree
<1>3. \A fd \in Fd : fds[fd] \notin OwnFiles
  BY <1>1 DEF ParentSide, Early, NothingOpened
<1>4. a \in Nat /\ a < MaxFds /\ FdSetSize \in Nat /\ MaxFds \in Nat
      /\ \A fd \in Fd : fd \in Nat
  BY <1>2, LifecycleAssumption DEF Fd
<1>5. fds \in [Fd -> {Free, Other} \cup OwnFiles]
  BY DEF Table
<1> HIDE DEF a
<1>6. \A fd \in Fd : fds'[fd] = IF fd = a THEN Listening ELSE fds[fd]
  BY <1>1, <1>5
<1>7. \A fd \in Fd : fd < FdSetSize => fds'[fd] = Other
  BY <1>1, <1>2, <1>3, <1>4, <1>5, <1>6
<1>8. \A fd \in Fd, v \in Worker : fds'[fd] # ChildEnd(v)
  BY <1>3, <1>6, FilesDiffer DEF OwnFiles
<1>9. FdSetSize < MaxFds
  BY <1>1, <1>4
<1>10. Full'
  BY <1>7, <1>8, <1>9 DEF Full
<1>11. server = "live"
  BY <1>1 DEF ParentSide
<1> QED
  BY <1>1, <1>10, <1>11 DEF ParentSide, Early

\* A pipe does not fit it: all lower numbers were taken before, or hold the
\* socket or the parent's end of an earlier pipe.
LEMMA ParentOfOverrun ==
  ASSUME TypeOK, ParentSide, DispatchOverrun
  PROVE  ParentSide'
<1> USE DEF TypeOK
<1>1. /\ ~Early /\ pc = "dispatch" /\ pc' = "overrun" /\ server' = server
      /\ i < workersN /\ i' = i /\ sockFd' = sockFd /\ ~(FirstEnd < FdSetSize)
  BY DEF DispatchOverrun, InFdSet, Early, objVars
<1>2. CASE noPair' # {}
  BY <1>1, <1>2 DEF ParentSide, Early
<1>3. CASE noPair' = {}
  <2>1. PairFits /\ noPair = {}
    BY <1>3 DEF DispatchOverrun
  <2>2. server # "none" /\ ret = 0
    BY <1>1, <2>1, LifecycleAssumption DEF ParentSide, NothingOpened
  <2>3. Layout /\ Listens
    BY <1>1, <2>1, <2>2 DEF ParentSide
  <2>4. i \in Worker /\ i \in Nat /\ i < WorkersN
    BY <1>1, <2>3, LifecycleAssumption DEF Worker, Layout
  <2>5. /\ FirstEnd \in Fd /\ \A fd \in Fd : fd < FirstEnd => fds[fd] # Free
    BY <2>1, <2>4, Pair
  <2>6. fds' = [fds EXCEPT ![FirstEnd] = ParentEnd(i)]
    BY <2>1, <2>4, ParentTable DEF DispatchOverrun
  <2>7. pipefd' = [pipefd EXCEPT ![i] = FirstEnd]
    BY DEF DispatchOverrun
  <2>8. FirstEnd \in Nat /\ FirstEnd < MaxFds /\ FdSetSize \in Nat /\ MaxFds \in Nat
        /\ \A fd \in Fd : fd \in Nat
    BY <2>5, LifecycleAssumption DEF Fd
  <2>9. FdSetSize < MaxFds
    BY <1>1, <2>8
  <2>10. \A fd \in Fd : fds'[fd] = IF fd = FirstEnd THEN ParentEnd(i) ELSE fds[fd]
    BY <2>6 DEF Table
  <2>11. \A fd \in Fd, v \in Worker : fds'[fd] # ChildEnd(v)
    BY <2>3, <2>4, <2>10, FilesDiffer DEF Layout, OnlyPipes
  <2>12. ASSUME NEW fd \in Fd, fd < FdSetSize
         PROVE  \/ fds'[fd] = Other \/ fd = sockFd'
                \/ \E v \in 0 .. i' - 1 : fd = pipefd'[v]
    <3>1. fds'[fd] = fds[fd] /\ fds[fd] # Free
      BY <1>1, <2>5, <2>8, <2>10, <2>12
    <3>2. CASE fds[fd] = Other
      BY <3>1, <3>2
    <3>3. CASE fds[fd] = Listening
      BY <1>1, <2>3, <3>3 DEF Listens
    <3>4. ASSUME NEW v \in Worker, fds[fd] = ParentEnd(v)
          PROVE  v \in 0 .. i' - 1 /\ fd = pipefd'[v]
      <4>1. v < i /\ fd = pipefd[v]
        BY <2>3, <3>4 DEF Layout, OnlyPipes
      <4> QED
        BY <1>1, <2>4, <2>7, <4>1, LifecycleAssumption DEF Worker
    <3>5. \A v \in Worker : fds[fd] # ChildEnd(v)
      BY <2>3 DEF Layout, OnlyPipes
    <3> QED
      BY <3>1, <3>2, <3>3, <3>4, <3>5 DEF Table, OwnFiles
  <2>13. Full'
    BY <1>1, <2>4, <2>9, <2>11, <2>12 DEF Full
  <2> QED
    BY <1>1, <2>2, <2>13 DEF ParentSide, Early
<1> QED
  BY <1>2, <1>3

\* The parent that goes the child's way, and does not find its end of the pipe
\* as descriptor 2, has closed both ends.
LEMMA ParentOfForkFails ==
  ASSUME TypeOK, ParentSide, DispatchForkFails
  PROVE  ParentSide'
<1> USE DEF TypeOK
<1>1. /\ ~Early /\ ~Early' /\ pc = "dispatch" /\ pc' \in {"killed", "spin"}
      /\ server' = server /\ i < workersN /\ UNCHANGED <<i, pipefd>>
      /\ fds' = ChildTable(i)
  BY DEF DispatchForkFails, Early
<1>2. ASSUME pc' = "spin", noPair' = {} PROVE OnlyPipes'
  <2>1. PairFits /\ noPair = {} /\ ChildTable(i)[2] # ChildEnd(i)
    BY <1>2 DEF DispatchForkFails
  <2>2. i \in Worker
    BY <1>1, LifecycleAssumption DEF Worker
  <2>3. OnlyPipes
    BY <1>1, <2>1, LifecycleAssumption DEF ParentSide, NothingOpened, Layout
  <2>4. \A fd \in Fd : ChildTable(i)[fd] =
                         IF fd \in {FirstEnd, SecondEnd(i), sockFd} THEN Free
                         ELSE IF fd = 2 THEN ChildEnd(i) ELSE fds[fd]
    BY <2>1, <2>2, ChildTableShape
  <2>5. ASSUME NEW fd \in Fd PROVE ChildTable(i)[fd] \in {Free, fds[fd]}
    BY <2>1, <2>4
  <2> QED
    BY <1>1, <2>3, <2>5, FilesDiffer DEF OnlyPipes
<1> QED
  BY <1>1, <1>2 DEF ParentSide, Early

\* tcp_server_destroy() closes the listening socket, or nothing.
LEMMA ParentOfDestroy ==
  ASSUME TypeOK, ParentSide, Destroy
  PROVE  ParentSide'
<1>1. /\ ~Early /\ ~Early' /\ pc = "destroy" /\ pc' = "destroyed"
      /\ server' = "freed" /\ UNCHANGED <<ret, objVars, pipefd, i, noPair>>
      /\ fds' = IF sockFd = 0 THEN fds ELSE Close(fds, sockFd)
  BY DEF Destroy, Early
<1>2. ASSUME noPair = {}
      PROVE  /\ ret = -1 => NothingOpened
             /\ ret = 0 => sockFd \in Fd /\ Layout /\ Listens
  BY <1>1, <1>2 DEF ParentSide
<1>3. \A fd \in Fd : fds'[fd] = fds[fd] \/ (fd = sockFd /\ fds'[fd] = Free)
  <2>1. fds \in [Fd -> {Free, Other} \cup OwnFiles]
    BY DEF TypeOK, Table
  <2>2. fds' = fds \/ fds' = [fds EXCEPT ![sockFd] = Free]
    BY <1>1 DEF Close
  <2>3. CASE fds' = fds
    BY <2>3
  <2>4. CASE fds' = [fds EXCEPT ![sockFd] = Free]
    <3>1. ASSUME NEW fd \in Fd, fd # sockFd PROVE fds'[fd] = fds[fd]
      BY <2>1, <2>4, <3>1
    <3>2. ASSUME NEW fd \in Fd, fd = sockFd PROVE fds'[fd] = Free
      BY <2>1, <2>4, <3>2
    <3> QED
      BY <3>1, <3>2
  <2> QED
    BY <2>2, <2>3, <2>4
<1>4. ASSUME noPair = {}, ret = -1 PROVE NothingOpened'
  <2>1. NothingOpened
    BY <1>2, <1>4
  <2>2. \A fd \in Fd : fds'[fd] \notin OwnFiles
    BY <1>3, <2>1, FilesDiffer DEF NothingOpened, OwnFiles
  <2> QED
    BY <1>1, <2>1, <2>2 DEF NothingOpened, objVars
<1>5. ASSUME noPair = {}, ret = 0 PROVE sockFd \in Fd /\ Layout'
  <2>1. sockFd \in Fd /\ Layout /\ Listens
    BY <1>2, <1>5
  <2>2. ASSUME NEW fd \in Fd, NEW v \in Worker
        PROVE  /\ fds'[fd] = ParentEnd(v) <=> fds[fd] = ParentEnd(v)
               /\ fds'[fd] # ChildEnd(v)
    BY <1>3, <2>1, FilesDiffer DEF Layout, OnlyPipes, Listens
  <2>3. \A v \in Worker : pipefd[v] \in Fd
    BY DEF TypeOK
  <2> QED
    BY <1>1, <2>1, <2>2, <2>3 DEF Layout, OnlyPipes, objVars
<1> QED
  BY <1>1, <1>4, <1>5 DEF ParentSide, Early, objVars

\* Every step keeps the parent's descriptors in order.
LEMMA ParentStep == TypeOK /\ ParentSide /\ [Next]_vars => ParentSide'
<1> SUFFICES ASSUME TypeOK, ParentSide, [Next]_vars PROVE ParentSide'
  OBVIOUS
<1>1. CASE IfaceUp \/ New
  <2>1. Early /\ UNCHANGED <<i, workersN, fds, noPair>>
    BY <1>1 DEF IfaceUp, New, objVars, tabVars, Early
  <2>2. /\ Early' /\ pc' \notin {"run", "overrun"}
        /\ IF pc' = "init" THEN server' = "live" ELSE server' = "none"
    BY <1>1 DEF IfaceUp, New, Early, ParentSide
  <2>3. NothingOpened' /\ noPair' = {}
    BY <2>1 DEF ParentSide, NothingOpened
  <2> QED
    BY <2>2, <2>3 DEF ParentSide, Early
<1>2. CASE IfaceDown
  BY <1>2 DEF IfaceDown, objVars, tabVars, ParentSide, Early, NothingOpened
<1>3. CASE RunKilled
  BY <1>3 DEF RunKilled, objVars, tabVars, ParentSide, Early, NothingOpened
<1>4. CASE InitNoAddress \/ InitNoSocket \/ InitBacksOut \/ InitSucceeds
  BY <1>4, ParentOfInit
<1>5. CASE Inited \/ DispatchDone \/ RunReturns \/ Return
  <2>1. /\ ~Early /\ ~Early' /\ pc \notin {"killed", "overrun", "spin"}
        /\ pc' \notin {"spin", "killed", "init", "overrun"}
        /\ UNCHANGED <<server, ret, objVars, pipefd, i, tabVars, noPair>>
        /\ pc' \in {"inited", "dispatch", "run", "destroy"} =>
             pc \in {"inited", "dispatch", "run", "destroy"}
        /\ pc # "returned" /\ (pc' = "run" => i = workersN)
    BY <1>5 DEF Inited, DispatchDone, RunReturns, Return, Early
  <2>2. UNCHANGED <<NothingOpened, Layout, Listens>>
    BY <2>1 DEF objVars, tabVars, NothingOpened, Layout, OnlyPipes, Listens, LastTaken
  <2> QED
    BY <2>1, <2>2 DEF ParentSide, Early, objVars, tabVars
<1>6. CASE InitOverrun
  BY <1>6, ParentOfInitOverrun
<1>7. CASE Dispatch
  BY <1>7, ParentOfDispatch
<1>8. CASE DispatchOverrun
  BY <1>8, ParentOfOverrun
<1>9. CASE DispatchForkFails
  BY <1>9, ParentOfForkFails
<1>12. CASE DispatchNoPair \/ DispatchAllFails
  <2>1. /\ ~Early /\ ~Early' /\ pc = "dispatch" /\ pc' \in {"dispatch", "killed", "spin"}
        /\ server' = server /\ noPair' # {}
    BY <1>12 DEF DispatchNoPair, DispatchAllFails, Early
  <2> QED
    BY <2>1 DEF ParentSide, Early
<1>10. CASE Destroy
  BY <1>10, ParentOfDestroy
<1>11. CASE UNCHANGED vars
  <2>1. UNCHANGED <<NothingOpened, Layout, Listens, Early, Full, OnlyPipes>>
    BY <1>11 DEF vars, objVars, tabVars, NothingOpened, Layout, Listens,
                 LastTaken, Early, Full, OnlyPipes
  <2> QED
    BY <1>11, <2>1 DEF ParentSide, vars, objVars, tabVars
<1> QED
  BY <1>1, <1>2, <1>3, <1>4, <1>5, <1>6, <1>7, <1>8, <1>9, <1>10, <1>11, <1>12
  DEF Next

\* The parent's descriptors are in order in every reachable state, whatever
\* was open at the start.
LEMMA ParentInvariant == Spec => [](TypeOK /\ ParentSide)
<1>1. Init => TypeOK /\ ParentSide
  BY LifecycleInitType, ParentInit
<1>2. TypeOK /\ ParentSide /\ [Next]_vars => (TypeOK /\ ParentSide)'
  BY LifecycleStepType, ParentStep
<1> QED
  BY <1>1, <1>2, PTL DEF Spec

-----------------------------------------------------------------------------
\* What follows for the parent

\* Workers are started with a server that listens.
LEMMA StartedWorkers ==
  ASSUME TypeOK, ParentSide, noPair = {}, NEW w \in Started
  PROVE  w \in Worker /\ w < i /\ Layout
<1>1. pc \in {"dispatch", "run", "destroy"} /\ w \in 0 .. i - 1
  BY DEF Started
<1>2. w \in Worker /\ w < i /\ i # 0
  BY <1>1, LifecycleAssumption DEF TypeOK, Worker
<1>3. server # "none" /\ ~Early
  BY <1>1 DEF ParentSide, Early
<1>4. ret = 0
  BY <1>1, <1>2, <1>3 DEF ParentSide, NothingOpened, TypeOK
<1> QED
  BY <1>1, <1>2, <1>3, <1>4 DEF ParentSide

\* The bound given to select() leaves out no worker but the last.
THEOREM OnlyLastUnwatchedCorrect == Spec => []OnlyLastUnwatched
<1>1. TypeOK /\ ParentSide => OnlyLastUnwatched
  <2> SUFFICES ASSUME TypeOK, ParentSide, pc = "run", noPair = {}, workersN > 0
               PROVE  /\ sockFd < maxfdp
                      /\ \A w \in Worker : pipefd[w] >= maxfdp => w = WorkersN - 1
                      /\ \A v, w \in Worker :
                           v < w => sockFd < pipefd[v] /\ pipefd[v] < pipefd[w]
    BY DEF OnlyLastUnwatched
  <2>1. i = WorkersN /\ WorkersN > 0 /\ Layout
    <3>1. server # "none" /\ ~Early /\ ret = 0
      BY DEF ParentSide, Early, NothingOpened, TypeOK
    <3> QED
      BY <3>1 DEF ParentSide, Early, Layout
  <2>2. WorkersN - 1 \in Worker /\ maxfdp = pipefd[WorkersN - 1]
        /\ \A w \in Worker : w \in Int /\ w < i /\ (w = WorkersN - 1 \/ w < WorkersN - 1)
    BY <2>1, LifecycleAssumption DEF Layout, Worker
  <2>3. \A w \in Worker : pipefd[w] \in Int
    BY LifecycleAssumption DEF TypeOK, Fd
  <2>4. ASSUME NEW w \in Worker, pipefd[w] >= maxfdp PROVE w = WorkersN - 1
    BY <2>1, <2>2, <2>3, <2>4 DEF Layout
  <2> QED
    BY <2>1, <2>2, <2>4 DEF Layout
<1> QED
  BY <1>1, ParentInvariant, PTL

\* The parent reaches every worker through its own end of that worker's pipe
\* and keeps no copy of the other end.
THEOREM ParentEndsCorrect == Spec => []ParentEnds
<1>1. TypeOK /\ ParentSide => ParentEnds
  <2> SUFFICES
        ASSUME TypeOK, ParentSide, noPair = {}, NEW fd \in Fd, NEW v \in Worker
        PROVE  /\ (fds[fd] = ParentEnd(v) /\ pc \notin {"killed", "overrun"}) =>
                    v < i /\ fd = pipefd[v]
               /\ v \in Started => fds[pipefd[v]] = ParentEnd(v)
               /\ pc # "killed" => fds[fd] # ChildEnd(v)
    BY DEF ParentEnds
  <2>1. CASE pc = "overrun"
    BY <2>1 DEF ParentSide, Full, Started
  <2>2. ASSUME pc \notin {"killed", "overrun"} PROVE NothingOpened \/ OnlyPipes
    BY <2>2 DEF ParentSide, Layout, TypeOK
  <2>3. ASSUME v \in Started PROVE fds[pipefd[v]] = ParentEnd(v)
    BY <2>3, StartedWorkers DEF Layout
  <2> QED
    BY <2>1, <2>2, <2>3 DEF NothingOpened, OwnFiles, OnlyPipes
<1> QED
  BY <1>1, ParentInvariant, PTL

\* The object and the descriptor tables keep their types, whatever was open
\* when the program started.
THEOREM LifecycleTypeCorrect == Spec => []TypeOK
BY LifecycleInitType, LifecycleStepType, PTL DEF Spec

\* tcp_server_init() closes what it has opened when it fails.
THEOREM FailedInitCleanCorrect == Spec => FailedInitClean
<1>1. Spec => [](Early => ret = 0)
  <2>1. Init => (Early => ret = 0)
    BY DEF Init
  <2>2. (Early => ret = 0) /\ [Next]_vars => (Early => ret = 0)'
    BY DEF Next, vars, objVars, tabVars, Early, IfaceDown, IfaceUp, New,
           InitNoAddress, InitNoSocket, InitBacksOut, InitSucceeds, InitOverrun,
           Inited, Dispatch, DispatchNoPair, DispatchOverrun, DispatchForkFails,
           DispatchAllFails, DispatchDone, RunReturns, RunKilled, Destroy, Return
  <2> QED
    BY <2>1, <2>2, PTL DEF Spec
<1>2. TypeOK /\ (Early => ret = 0) /\ [Next]_vars =>
        [pc = "init" /\ ret' = -1 => fds' = fds]_vars
  <2> SUFFICES ASSUME TypeOK, Next, pc = "init", ret = 0, ret' = -1
               PROVE  fds' = fds
    BY DEF Early
  <2>1. InitNoAddress \/ InitNoSocket \/ InitBacksOut
    BY DEF Next, IfaceDown, IfaceUp, New, InitSucceeds, InitOverrun, Inited,
           Dispatch, DispatchNoPair, DispatchOverrun, DispatchForkFails,
           DispatchAllFails, DispatchDone, RunReturns, RunKilled, Destroy, Return
  <2>2. CASE InitNoAddress \/ InitNoSocket
    BY <2>2 DEF InitNoAddress, InitNoSocket, tabVars
  <2>3. CASE InitBacksOut
    <3> DEFINE fd == Lowest(fds)
    <3>1. /\ FreeFds(fds) # {}
          /\ fds' = Close(Open(fds, Listening), fd)
      BY <2>3 DEF InitBacksOut
    <3>2. fd \in Fd /\ fds[fd] = Free /\ fds \in [Fd -> {Free, Other} \cup OwnFiles]
      BY <3>1, LowestFree DEF TypeOK, Table
    <3> HIDE DEF fd
    <3>3. Open(fds, Listening) = [fds EXCEPT ![fd] = Listening]
      BY DEF Open, fd
    <3>4. fds' = [[fds EXCEPT ![fd] = Listening] EXCEPT ![fd] = Free]
      BY <3>1, <3>2, <3>3 DEF Close
    <3> QED
      BY <3>2, <3>4
  <2> QED
    BY <2>1, <2>2, <2>3
<1> QED
  BY <1>1, <1>2, LifecycleTypeCorrect, PTL DEF Spec, FailedInitClean

-----------------------------------------------------------------------------
\* Whatever fails

\* main() goes on only after a tcp_server_init() that has succeeded; and
\* whoever listens listens at sock_fd.
MainInitialised == prog = "main" /\ pc \in {"dispatch", "run"} => ret = 0

Waits == pc \notin {"killed", "spin", "overrun"}

OneListening ==
  /\ Early => \A fd \in Fd : fds[fd] # Listening
  /\ Waits => \A fd \in Fd : fds[fd] = Listening => fd = sockFd
  /\ pc = "destroyed" => \A fd \in Fd : fds[fd] = Listening => fd = 0

\* The steps that change no descriptor table.
TablesKept ==
  \/ IfaceDown \/ IfaceUp \/ New \/ InitNoAddress \/ InitNoSocket \/ Inited
  \/ DispatchDone \/ RunReturns \/ RunKilled \/ Return \/ UNCHANGED vars

\* Every step keeps these two.
LEMMA ListeningStep ==
  TypeOK /\ MainInitialised /\ OneListening /\ [Next]_vars =>
    MainInitialised' /\ OneListening'
<1> SUFFICES ASSUME TypeOK, MainInitialised, OneListening, [Next]_vars
             PROVE  MainInitialised' /\ OneListening'
  OBVIOUS
<1>1. MainInitialised'
  BY DEF Next, MainInitialised, TypeOK, vars, objVars, tabVars, IfaceDown, IfaceUp,
         New, InitNoAddress, InitNoSocket, InitBacksOut, InitSucceeds, InitOverrun,
         Inited, Dispatch, DispatchNoPair, DispatchOverrun, DispatchForkFails,
         DispatchAllFails, DispatchDone, RunReturns, RunKilled, Destroy, Return
<1>2. OneListening'
  <2> USE DEF OneListening, Early, Waits
  <2>1. CASE TablesKept
    <3>1. fds' = fds
      BY <2>1 DEF TablesKept, IfaceDown, IfaceUp, New, InitNoAddress, InitNoSocket,
                  Inited, DispatchDone, RunReturns, RunKilled, Return, vars, tabVars
    <3>2. \/ sockFd' = sockFd /\ (Early' => Early) /\ (Waits' => Waits)
             /\ pc' # "destroyed"
          \/ pc = "init" /\ pc' = "inited"
          \/ sockFd' = sockFd /\ pc' = pc
      BY <2>1 DEF TablesKept, IfaceDown, IfaceUp, New, InitNoAddress, InitNoSocket,
                  Inited, DispatchDone, RunReturns, RunKilled, Return, vars, objVars
    <3> QED
      BY <3>1, <3>2
  <2>2. CASE InitBacksOut \/ InitSucceeds \/ InitOverrun
    <3> DEFINE a == Lowest(fds)
    <3>1. /\ pc = "init" /\ FreeFds(fds) # {} /\ sockFd' = a
          /\ fds' \in {Open(fds, Listening), Close(Open(fds, Listening), a)}
          /\ pc' \in {"inited", "overrun"}
      BY <2>2 DEF InitBacksOut, InitSucceeds, InitOverrun
    <3>2. a \in Fd /\ fds \in [Fd -> {Free, Other} \cup OwnFiles]
      BY <3>1, LowestFree DEF TypeOK, Table
    <3>3. \A fd \in Fd : fd # a => fds'[fd] = fds[fd]
      BY <3>1, <3>2 DEF Open, Close
    <3> HIDE DEF a
    <3> QED
      BY <3>1, <3>3
  <2>3. CASE Dispatch \/ DispatchOverrun
    <3>1. /\ i \in Worker /\ pc = "dispatch" /\ sockFd' = sockFd /\ PairFits
          /\ fds' = Close(PairTable(i), SecondEnd(i)) /\ pc' \in {"dispatch", "overrun"}
      BY <2>3, LifecycleAssumption DEF Dispatch, DispatchOverrun, TypeOK, Worker,
                                       objVars
    <3>2. \A fd \in Fd : fds'[fd] = Listening => fds[fd] = Listening
      <4>1. fds \in [Fd -> {Free, Other} \cup OwnFiles]
        BY DEF TypeOK, Table
      <4>2. fds' = [fds EXCEPT ![FirstEnd] = ParentEnd(i)]
        BY <3>1, ParentTable DEF TypeOK
      <4> QED
        BY <4>1, <4>2, <3>1, FilesDiffer
    <3> QED
      BY <3>1, <3>2
  <2>4. CASE DispatchForkFails \/ DispatchAllFails
    BY <2>4 DEF DispatchForkFails, DispatchAllFails
  <2>6. CASE DispatchNoPair
    <3>1. pc = "dispatch" /\ pc' = pc /\ sockFd' = sockFd /\ fds' = Close(fds, 0)
      BY <2>6 DEF DispatchNoPair
    <3>2. \A fd \in Fd : fds'[fd] \in {Free, fds[fd]}
      BY <3>1 DEF Close, TypeOK, Table
    <3> QED
      BY <3>1, <3>2, FilesDiffer
  <2>5. CASE Destroy
    <3>1. /\ pc = "destroy" /\ pc' = "destroyed" /\ sockFd' = sockFd
          /\ fds' = IF sockFd = 0 THEN fds ELSE Close(fds, sockFd)
      BY <2>5 DEF Destroy, objVars
    <3>2. fds \in [Fd -> {Free, Other} \cup OwnFiles]
      BY DEF TypeOK, Table
    <3>3. CASE sockFd = 0
      BY <3>1, <3>3
    <3>4. CASE sockFd # 0
      <4>1. \A fd \in Fd : fds'[fd] = IF fd = sockFd THEN Free ELSE fds[fd]
        BY <3>1, <3>2, <3>4 DEF Close
      <4> QED
        BY <3>1, <4>1, FilesDiffer
    <3> QED
      BY <3>3, <3>4
  <2> QED
    BY <2>1, <2>2, <2>3, <2>4, <2>5, <2>6 DEF Next, TablesKept
<1> QED
  BY <1>1, <1>2

\* They hold in every reachable state, whatever was open at the start.
LEMMA ListeningInvariant == Spec => [](TypeOK /\ MainInitialised /\ OneListening)
<1>1. Init => TypeOK /\ MainInitialised /\ OneListening
  <2> SUFFICES ASSUME Init PROVE MainInitialised /\ OneListening
    BY LifecycleInitType
  <2>1. PICK S \in StartSets : fds = [fd \in Fd |-> IF fd \in S THEN Other ELSE Free]
    BY DEF Init
  <2>2. \A fd \in Fd : fds[fd] # Listening
    BY <2>1, FilesDiffer
  <2> QED
    BY <2>2 DEF Init, MainInitialised, OneListening
<1>2. TypeOK /\ MainInitialised /\ OneListening /\ [Next]_vars =>
        (TypeOK /\ MainInitialised /\ OneListening)'
  BY LifecycleStepType, ListeningStep
<1> QED
  BY <1>1, <1>2, PTL DEF Spec

\* After tcp_server_destroy() the listening socket is closed, unless its
\* number is 0.
THEOREM ListeningClosedCorrect == Spec => []ListeningClosed
<1>1. OneListening => ListeningClosed
  BY DEF OneListening, ListeningClosed
<1> QED
  BY <1>1, ListeningInvariant, PTL

\* main() runs its loop on a server that listens, with the workers asked for.
THEOREM MainListensCorrect == Spec => []MainListens
<1>1. TypeOK /\ ParentSide /\ MainInitialised => MainListens
  <2> SUFFICES ASSUME TypeOK, ParentSide, MainInitialised, pc = "run", prog = "main",
                      noPair = {}
               PROVE  /\ fds[sockFd] = Listening /\ sockFd \in masterset
                      /\ workersN = WorkersN
    BY DEF MainListens
  <2>1. ret = 0 /\ server # "none" /\ ~Early
    BY DEF MainInitialised, ParentSide, Early
  <2> QED
    BY <2>1 DEF ParentSide, Layout, Listens
<1> QED
  BY <1>1, ParentInvariant, ListeningInvariant, PTL

-----------------------------------------------------------------------------
\* The workers' side

\* Every step keeps descriptor 2, and that of the workers.
LEMMA StderrStep == TypeOK /\ StderrKept /\ [Next]_vars => StderrKept'
<1> SUFFICES ASSUME TypeOK, StderrKept, [Next]_vars PROVE StderrKept'
  OBVIOUS
<1>1. 2 \in Fd /\ 0 \in Fd /\ fds \in [Fd -> {Free, Other} \cup OwnFiles]
  BY LifecycleAssumption DEF Fd, TypeOK, Table
<1>2. CASE TablesKept
  <2>1. /\ UNCHANGED <<fds, wfds, i, noPair, workersN>>
        /\ pc' \notin {"killed", "spin"} => pc \notin {"killed", "spin"}
        /\ ~Early => ~Early'
        /\ sockFd' = sockFd \/ (sockFd' = -1 /\ Early)
    BY <1>2 DEF TablesKept, Early, IfaceDown, IfaceUp, New, InitNoAddress, InitNoSocket,
                Inited, DispatchDone, RunReturns, RunKilled, Return, vars, tabVars,
                objVars
  <2> QED
    BY <2>1 DEF StderrKept
<1>3. CASE InitBacksOut \/ InitSucceeds \/ InitOverrun
  <2> DEFINE a == Lowest(fds)
  <2>1. /\ pc = "init" /\ FreeFds(fds) # {} /\ sockFd' = a
        /\ fds' \in {Open(fds, Listening), Close(Open(fds, Listening), a)}
        /\ UNCHANGED <<wfds, i, noPair>> /\ ~Early'
    BY <1>3 DEF InitBacksOut, InitSucceeds, InitOverrun, Early
  <2>2. a \in Fd /\ fds[a] = Free /\ fds[2] = Other
    BY <2>1, LowestFree DEF TypeOK, StderrKept
  <2>3. a # 2
    BY <2>2, FilesDiffer
  <2>4. fds'[2] = Other
    BY <1>1, <2>1, <2>2, <2>3 DEF Open, Close
  <2> HIDE DEF a
  <2> QED
    BY <2>1, <2>2, <2>3, <2>4 DEF StderrKept
<1>4. ASSUME i < workersN, pc = "dispatch"
      PROVE  /\ i \in Worker /\ sockFd \in Fd /\ fds[2] = Other
             /\ PairFits => ChildTable(i)[2] = ChildEnd(i)
  <2>1. i \in Worker /\ workersN # 0
    BY <1>4, LifecycleAssumption DEF TypeOK, Worker
  <2>2. sockFd \in Fd /\ fds[2] = Other /\ sockFd # 2
    BY <1>4, <2>1 DEF StderrKept
  <2>3. PairFits => 2 \notin {FirstEnd, SecondEnd(i), sockFd}
    BY <2>1, <2>2, Pair, FilesDiffer DEF TypeOK
  <2>4. PairFits => ChildTable(i)[2] = ChildEnd(i)
    BY <1>1, <2>1, <2>3, ChildTableShape DEF TypeOK
  <2> QED
    BY <2>1, <2>2, <2>4
<1>5. CASE Dispatch \/ DispatchOverrun \/ DispatchNoPair
  <2>1. /\ i < workersN /\ pc = "dispatch" /\ UNCHANGED <<sockFd, workersN>> /\ ~Early'
        /\ i' \in {i, i + 1} /\ noPair \subseteq noPair'
        /\ \/ PairFits /\ fds' = Close(PairTable(i), SecondEnd(i))
              /\ wfds' = [wfds EXCEPT ![i] = ChildTable(i)]
           \/ fds' = Close(fds, 0) /\ i \in noPair'
              /\ wfds' = [wfds EXCEPT ![i] = PairlessTable]
    BY <1>5 DEF Dispatch, DispatchOverrun, DispatchNoPair, objVars, Early
  <2>2. fds'[2] = Other
    <3>1. CASE PairFits /\ fds' = Close(PairTable(i), SecondEnd(i))
      <4>1. fds' = [fds EXCEPT ![FirstEnd] = ParentEnd(i)] /\ fds[FirstEnd] = Free
        BY <1>4, <2>1, <3>1, ParentTable, Pair DEF TypeOK
      <4> QED
        BY <1>1, <1>4, <2>1, <4>1, FilesDiffer
    <3>2. CASE fds' = Close(fds, 0)
      BY <1>1, <1>4, <2>1, <3>2 DEF Close
    <3> QED
      BY <2>1, <3>1, <3>2
  <2>3. ASSUME NEW w \in Worker \ noPair', w < i' PROVE wfds'[w][2] = ChildEnd(w)
    <3>1. wfds \in [Worker -> Table] /\ w \in Int /\ i \in Int
      BY LifecycleAssumption DEF TypeOK, Worker
    <3>2. CASE w = i
      BY <1>4, <2>1, <2>3, <3>1, <3>2
    <3>3. CASE w # i
      <4>1. w < i /\ w \notin noPair /\ wfds'[w] = wfds[w]
        BY <2>1, <2>3, <3>1, <3>3
      <4> QED
        BY <4>1 DEF StderrKept
    <3> QED
      BY <3>2, <3>3
  <2> QED
    BY <1>4, <2>1, <2>2, <2>3 DEF StderrKept
<1>6. CASE DispatchForkFails \/ DispatchAllFails
  <2>1. /\ pc = "dispatch" /\ i < workersN /\ pc' \in {"killed", "spin"}
        /\ UNCHANGED <<sockFd, workersN, wfds, i>> /\ noPair \subseteq noPair' /\ ~Early'
    BY <1>6 DEF DispatchForkFails, DispatchAllFails, objVars, Early
  <2> QED
    BY <1>4, <2>1 DEF StderrKept
<1>7. CASE Destroy
  <2>1. /\ pc = "destroy" /\ UNCHANGED <<sockFd, workersN, wfds, i, noPair>>
        /\ fds' \in {fds, Close(fds, sockFd)} /\ ~Early'
    BY <1>7 DEF Destroy, objVars, Early
  <2>2. fds'[2] = Other
    BY <1>1, <2>1 DEF StderrKept, Close
  <2> QED
    BY <2>1, <2>2 DEF StderrKept
<1> QED
  BY <1>2, <1>3, <1>5, <1>6, <1>7 DEF Next, TablesKept

\* A worker is forked: it has its own pipe and what its parent had before, but
\* not the listening socket.
LEMMA ChildOfDispatch ==
  ASSUME TypeOK, ParentSide, ChildSide, StderrKept, Dispatch
  PROVE  ChildSide'
<1> USE DEF TypeOK
<1> SUFFICES ASSUME noPair' = {} PROVE Tables'
  BY DEF ChildSide
<1>1. PairFits /\ noPair = {} /\ Tables
  BY DEF Dispatch, ChildSide
<1>2. /\ ~Early /\ pc = "dispatch" /\ i < workersN /\ i' = i + 1
      /\ wfds' = [wfds EXCEPT ![i] = ChildTable(i)]
      /\ fds[2] = Other /\ sockFd # 2
  BY DEF Dispatch, StderrKept, Early
<1>3. server # "none" /\ ret = 0
  BY <1>1, <1>2, LifecycleAssumption DEF ParentSide, NothingOpened
<1>4. sockFd \in Fd /\ Layout /\ Listens
  BY <1>1, <1>2, <1>3 DEF ParentSide
<1>5. i \in Worker /\ i \in Nat /\ 2 \in Fd /\ \A v \in Worker : v \in Nat
  BY <1>2, LifecycleAssumption DEF Worker, Fd
<1> DEFINE a == FirstEnd
           b == SecondEnd(i)
<1>6. a \in Fd /\ fds[a] = Free /\ b \in Fd /\ fds[b] = Free /\ a # b
  BY <1>1, <1>5, Pair
<1>7. \A fd \in Fd : ChildTable(i)[fd] = IF fd = 2 THEN ChildEnd(i)
                                         ELSE IF fd \in {a, b, sockFd} THEN Free
                                         ELSE fds[fd]
  <2>1. 2 \notin {a, b, sockFd}
    BY <1>2, <1>6, FilesDiffer
  <2>2. \A fd \in Fd : ChildTable(i)[fd] = IF fd \in {a, b, sockFd} THEN Free
                                           ELSE IF fd = 2 THEN ChildEnd(i)
                                           ELSE fds[fd]
    BY <1>1, <1>5, ChildTableShape
  <2> HIDE DEF a, b
  <2> QED
    BY <2>1, <2>2
<1> SUFFICES
      ASSUME NEW w \in Worker, w < i'
      PROVE  /\ wfds'[w][2] = ChildEnd(w)
             /\ \A fd \in Fd \ {2} :
                  /\ wfds'[w][fd] # Listening
                  /\ \A v \in Worker : wfds'[w][fd] # ChildEnd(v)
             /\ \A v \in Worker :
                  (\E fd \in Fd : wfds'[w][fd] = ParentEnd(v)) <=> v < w
  BY DEF Tables
<1>8. CASE w # i
  <2>1. w < i /\ wfds'[w] = wfds[w]
    BY <1>2, <1>5, <1>8
  <2> QED
    BY <1>1, <2>1 DEF Tables
<1>9. CASE w = i
  <2>1. wfds'[w] = ChildTable(i)
    BY <1>2, <1>5, <1>9
  <2>2. ASSUME NEW fd \in Fd \ {2}
        PROVE  /\ wfds'[w][fd] # Listening
               /\ \A v \in Worker : wfds'[w][fd] # ChildEnd(v)
    BY <1>4, <1>7, <2>1, FilesDiffer DEF Listens, Layout, OnlyPipes
  <2>3. ASSUME NEW v \in Worker, v < i
        PROVE  wfds'[w][pipefd[v]] = ParentEnd(v) /\ pipefd[v] \in Fd
    <3>1. fds[pipefd[v]] = ParentEnd(v) /\ pipefd[v] \in Fd
      BY <1>4, <2>3 DEF Layout
    <3>2. pipefd[v] \notin {2, a, b, sockFd}
      BY <1>2, <1>4, <1>6, <3>1, FilesDiffer DEF Listens
    <3> QED
      BY <1>7, <2>1, <3>1, <3>2
  <2>4. ASSUME NEW v \in Worker, NEW fd \in Fd, wfds'[w][fd] = ParentEnd(v)
        PROVE  v < i
    <3>1. fds[fd] = ParentEnd(v)
      BY <1>5, <1>7, <2>1, <2>4, FilesDiffer
    <3> QED
      BY <1>4, <3>1 DEF Layout, OnlyPipes
  <2>5. wfds'[w][2] = ChildEnd(w)
    BY <1>5, <1>7, <1>9, <2>1
  <2> QED
    BY <1>9, <2>2, <2>3, <2>4, <2>5
<1> QED
  BY <1>8, <1>9

\* No other step touches the workers forked so far.
LEMMA ChildStep ==
  TypeOK /\ ParentSide /\ ChildSide /\ StderrKept /\ [Next]_vars => ChildSide'
<1> SUFFICES ASSUME TypeOK, ParentSide, ChildSide, StderrKept, [Next]_vars
             PROVE  ChildSide'
  OBVIOUS
<1>1. CASE Dispatch
  BY <1>1, ChildOfDispatch
<1>2. CASE DispatchOverrun
  <2>1. /\ i' = i /\ noPair \subseteq noPair'
        /\ \A w \in Worker : w # i => wfds'[w] = wfds[w]
    BY <1>2 DEF DispatchOverrun, TypeOK
  <2>2. \A w \in Worker : w < i => w # i
    BY LifecycleAssumption DEF TypeOK, Worker
  <2>3. ASSUME noPair' = {} PROVE Tables'
    <3>1. Tables
      BY <2>1, <2>3 DEF ChildSide
    <3> QED
      BY <2>1, <2>2, <3>1 DEF Tables
  <2> QED
    BY <2>3 DEF ChildSide
<1>3. CASE TablesKept \/ InitBacksOut \/ InitSucceeds \/ InitOverrun
             \/ DispatchForkFails \/ Destroy
  <2>1. UNCHANGED <<wfds, i>> /\ noPair \subseteq noPair'
    BY <1>3 DEF TablesKept, IfaceDown, IfaceUp, New, InitNoAddress, InitNoSocket,
                InitBacksOut, InitSucceeds, InitOverrun, Inited, DispatchForkFails,
                DispatchDone, RunReturns, RunKilled, Destroy, Return, vars, tabVars
  <2> QED
    BY <2>1 DEF ChildSide, Tables
<1>4. CASE DispatchNoPair \/ DispatchAllFails
  BY <1>4 DEF DispatchNoPair, DispatchAllFails, ChildSide
<1> QED
  BY <1>1, <1>2, <1>3, <1>4 DEF Next, TablesKept

\* If stderr was open at the start, descriptor 2 and the workers' tables are
\* as they should be in every reachable state.
LEMMA ChildInvariant ==
  ASSUME \A S \in StartSets : 2 \in S
  PROVE  Spec => [](TypeOK /\ ParentSide /\ StderrKept /\ ChildSide)
<1>1. Init => StderrKept /\ ChildSide
  <2> SUFFICES ASSUME Init PROVE StderrKept /\ ChildSide
    OBVIOUS
  <2>1. PICK S \in StartSets : fds = [fd \in Fd |-> IF fd \in S THEN Other ELSE Free]
    BY DEF Init
  <2>2. fds[2] = Other
    BY <2>1, LifecycleAssumption DEF Fd
  <2> QED
    BY <2>2, LifecycleAssumption DEF Init, StderrKept, ChildSide, Tables, Worker
<1>2. TypeOK /\ ParentSide /\ StderrKept /\ ChildSide /\ [Next]_vars =>
        (StderrKept /\ ChildSide)'
  BY StderrStep, ChildStep
<1> QED
  BY <1>1, <1>2, ParentInvariant, PTL DEF Spec

\* Once tcp_server_init() has succeeded the parent keeps the listening socket,
\* and its end of each pipe, unless they have number 0.
PipesKept ==
  /\ Early => i = 0
  /\ pc \in {"inited", "dispatch", "run", "destroy"} =>
       /\ ret = 0 /\ sockFd # 0 => sockFd \in Fd /\ fds[sockFd] = Listening
       /\ \A w \in Worker \ noPair :
            w < i /\ pipefd[w] # 0 => fds[pipefd[w]] = ParentEnd(w)

\* Every step keeps them there.
LEMMA PipesStep == TypeOK /\ PipesKept /\ [Next]_vars => PipesKept'
<1> SUFFICES ASSUME TypeOK, PipesKept, [Next]_vars PROVE PipesKept'
  OBVIOUS
<1>1. /\ 0 \in Fd /\ fds \in [Fd -> {Free, Other} \cup OwnFiles]
      /\ pipefd \in [Worker -> Fd] /\ i \in Int /\ \A w \in Worker : w \in Int
  BY LifecycleAssumption DEF Fd, TypeOK, Table, Worker
<1>2. CASE TablesKept
  <2>1. /\ UNCHANGED <<fds, i, noPair, pipefd>> /\ (Early' => Early)
        /\ \/ UNCHANGED <<ret, sockFd>>
              /\ (pc' \in {"inited", "dispatch", "run", "destroy"} =>
                    pc \in {"inited", "dispatch", "run", "destroy"})
           \/ Early /\ ret' = -1
    BY <1>2 DEF TablesKept, Early, IfaceDown, IfaceUp, New, InitNoAddress, InitNoSocket,
                Inited, DispatchDone, RunReturns, RunKilled, Return, vars, tabVars,
                objVars
  <2>2. CASE Early /\ ret' = -1
    <3>1. i' = 0 /\ \A w \in Worker : ~(w < i')
      BY <2>1, <2>2, LifecycleAssumption DEF PipesKept, Worker
    <3> QED
      BY <2>2, <3>1 DEF PipesKept
  <2> QED
    BY <2>1, <2>2 DEF PipesKept
<1>3. CASE InitBacksOut \/ InitSucceeds \/ InitOverrun
  <2> DEFINE a == Lowest(fds)
  <2>1. /\ pc = "init" /\ FreeFds(fds) # {} /\ sockFd' = a /\ i' = i /\ ~Early'
        /\ ret' = 0 /\ pc' = "inited" => fds' = Open(fds, Listening)
        /\ pc' \in {"inited", "overrun"}
    BY <1>3 DEF InitBacksOut, InitSucceeds, InitOverrun, Early
  <2>2. a \in Fd
    BY <2>1, LowestFree DEF TypeOK
  <2>3. i = 0 /\ \A w \in Worker : ~(w < i)
    BY <2>1, LifecycleAssumption DEF PipesKept, Early, Worker
  <2>4. fds' = Open(fds, Listening) => fds'[a] = Listening
    BY <1>1, <2>2 DEF Open
  <2> HIDE DEF a
  <2> QED
    BY <2>1, <2>2, <2>3, <2>4 DEF PipesKept
<1>4. CASE Dispatch
  <2>1. /\ pc = "dispatch" /\ pc' = pc /\ i < workersN /\ i' = i + 1
        /\ UNCHANGED <<ret, sockFd, noPair>> /\ PairFits /\ i \in Worker /\ ~Early'
        /\ pipefd' = [pipefd EXCEPT ![i] = FirstEnd]
        /\ fds' = Close(PairTable(i), SecondEnd(i))
    BY <1>4, LifecycleAssumption DEF Dispatch, TypeOK, Worker, Early
  <2>2. FirstEnd \in Fd /\ fds[FirstEnd] = Free
    BY <2>1, Pair DEF TypeOK
  <2>3. \A fd \in Fd : fds'[fd] = IF fd = FirstEnd THEN ParentEnd(i) ELSE fds[fd]
    <3>1. fds' = [fds EXCEPT ![FirstEnd] = ParentEnd(i)]
      BY <2>1, ParentTable DEF TypeOK
    <3> QED
      BY <1>1, <3>1
  <2>4. ret = 0 /\ sockFd # 0 => sockFd \in Fd /\ fds'[sockFd] = Listening
    BY <2>1, <2>2, <2>3, FilesDiffer DEF PipesKept
  <2>5. ASSUME NEW w \in Worker \ noPair, w < i', pipefd'[w] # 0
        PROVE  fds'[pipefd'[w]] = ParentEnd(w)
    <3>1. CASE w = i
      BY <1>1, <2>1, <2>2, <2>3, <3>1
    <3>2. CASE w # i
      <4>1. w < i /\ pipefd'[w] = pipefd[w] /\ pipefd[w] \in Fd
        BY <1>1, <2>1, <2>5, <3>2
      <4>2. fds[pipefd[w]] = ParentEnd(w)
        BY <2>1, <2>5, <4>1 DEF PipesKept
      <4> QED
        BY <2>2, <2>3, <4>1, <4>2, FilesDiffer
    <3> QED
      BY <3>1, <3>2
  <2> QED
    BY <2>1, <2>4, <2>5 DEF PipesKept
<1>5. CASE DispatchNoPair
  <2>1. /\ pc = "dispatch" /\ pc' = pc /\ i < workersN /\ i' = i + 1
        /\ UNCHANGED <<ret, sockFd>> /\ noPair' = noPair \cup {i} /\ ~Early'
        /\ pipefd' = [pipefd EXCEPT ![i] = 0] /\ fds' = Close(fds, 0)
    BY <1>5 DEF DispatchNoPair, Early
  <2>2. \A fd \in Fd : fd # 0 => fds'[fd] = fds[fd]
    BY <1>1, <2>1 DEF Close
  <2>3. ASSUME NEW w \in Worker \ noPair', w < i', pipefd'[w] # 0
        PROVE  fds'[pipefd'[w]] = ParentEnd(w)
    <3>1. w < i /\ w \notin noPair /\ pipefd'[w] = pipefd[w] /\ pipefd[w] \in Fd
      BY <1>1, <2>1, <2>3
    <3> QED
      BY <2>1, <2>2, <2>3, <3>1 DEF PipesKept
  <2> QED
    BY <2>1, <2>2, <2>3 DEF PipesKept
<1>6. CASE DispatchOverrun \/ DispatchForkFails \/ DispatchAllFails \/ Destroy
  BY <1>6 DEF DispatchOverrun, DispatchForkFails, DispatchAllFails, Destroy,
              PipesKept, Early
<1> QED
  BY <1>2, <1>3, <1>4, <1>5, <1>6 DEF Next, TablesKept

\* However many socketpair() calls fail and in whatever order, each worker
\* whose own has succeeded starts with its pipe, and until the server is
\* destroyed the parent keeps its end of it and the listening socket.  An end
\* or a socket with number 0 is excepted: it may be closed by a later failure.
THEOREM OnlyZeroHarmedCorrect ==
  ASSUME \A S \in StartSets : 2 \in S
  PROVE  Spec => []OnlyZeroHarmed
<1>1. Init => PipesKept
  BY LifecycleAssumption DEF Init, PipesKept, Worker
<1>2. TypeOK /\ StderrKept /\ PipesKept => OnlyZeroHarmed
  <2> SUFFICES ASSUME TypeOK, StderrKept, PipesKept PROVE OnlyZeroHarmed
    OBVIOUS
  <2>1. ASSUME NEW w \in Started \ noPair
        PROVE  /\ wfds[w][2] = ChildEnd(w)
               /\ pipefd[w] # 0 => fds[pipefd[w]] = ParentEnd(w)
    <3>1. w \in Worker /\ w < i /\ pc \in {"dispatch", "run", "destroy"}
      BY LifecycleAssumption DEF Started, TypeOK, Worker
    <3> QED
      BY <2>1, <3>1 DEF StderrKept, PipesKept
  <2> QED
    BY <2>1 DEF OnlyZeroHarmed, PipesKept
<1> QED
  BY <1>1, <1>2, PipesStep, ChildInvariant, PTL DEF Spec

\* Whatever was open besides stderr, every worker starts with its own end of
\* its own pipe as descriptor 2, and with no other worker's and without the
\* listening socket.
THEOREM WorkerPlumbingCorrect ==
  ASSUME \A S \in StartSets : 2 \in S
  PROVE  Spec => []WorkerPlumbing
<1>1. TypeOK /\ ParentSide /\ ChildSide => WorkerPlumbing
  BY StartedWorkers DEF WorkerPlumbing, ChildSide, Tables
<1> QED
  BY <1>1, ChildInvariant, PTL

\* A worker inherits the parent's ends of the pipes made before its own, and
\* of no others.
THEOREM InheritedEndsCorrect ==
  ASSUME \A S \in StartSets : 2 \in S
  PROVE  Spec => []InheritedEnds
<1>1. TypeOK /\ ParentSide /\ ChildSide => InheritedEnds
  BY StartedWorkers DEF InheritedEnds, ChildSide, Tables
<1> QED
  BY <1>1, ChildInvariant, PTL

-----------------------------------------------------------------------------
\* Counting descriptors

\* The descriptors of the first pipes are as many as the pipes, or fewer.
LEMMA PipesCounted ==
  ASSUME TypeOK, NEW n \in 0 .. WorkersN
  PROVE  LET P == {pipefd[v] : v \in 0 .. n - 1}
         IN  IsFiniteSet(P) /\ Cardinality(P) <= n
<1> DEFINE P == {pipefd[v] : v \in 0 .. n - 1}
           f == [v \in 0 .. n - 1 |-> pipefd[v]]
<1>1. f \in Surjection(0 .. n - 1, P)
  BY DEF Surjection
<1>2. IsFiniteSet(0 .. n - 1) /\ Cardinality(0 .. n - 1) = n
  BY FS_Interval, LifecycleAssumption
<1> HIDE DEF f, P
<1>3. IsFiniteSet(P) /\ Cardinality(P) <= n
  BY <1>1, <1>2, FS_Surjection
<1> QED
  BY <1>3 DEF P

\* masterset overflows only when what was open before the program, the socket
\* and one descriptor for each worker are more than fit it.
THEOREM FdSetFitsCorrect == Spec => []FdSetFits
<1>1. TypeOK /\ ParentSide => FdSetFits
  <2> DEFINE Others == {fd \in Fd : fds[fd] = Other}
             P == {pipefd[v] : v \in 0 .. i - 1}
             Low == 0 .. FdSetSize - 1
  <2> SUFFICES ASSUME TypeOK, ParentSide, pc = "overrun", noPair = {}
               PROVE  Cardinality(Others) + 1 + WorkersN > FdSetSize
    BY DEF FdSetFits
  <2>1. Full /\ FdSetSize \in Nat /\ WorkersN \in Nat /\ i \in 0 .. WorkersN
        /\ FdSetSize < MaxFds /\ MaxFds \in Nat
    BY LifecycleAssumption DEF ParentSide, TypeOK, Full
  <2>2. IsFiniteSet(Others) /\ Cardinality(Others) \in Nat
    <3>1. IsFiniteSet(Fd)
      BY FS_Interval, LifecycleAssumption DEF Fd
    <3> QED
      BY <3>1, FS_Subset, FS_CardinalityType
  <2>3. IsFiniteSet(Low) /\ Cardinality(Low) = FdSetSize
        /\ \A fd \in Low : fd \in Fd /\ fd < FdSetSize
    BY <2>1, FS_Interval DEF Fd
  <2>4. CASE \A fd \in Fd : fd < FdSetSize => fds[fd] = Other
    <3>1. Low \in SUBSET Others
      BY <2>3, <2>4
    <3>2. Cardinality(Low) <= Cardinality(Others)
      BY <2>2, <3>1, FS_Subset
    <3> HIDE DEF Others, Low
    <3> QED
      BY <2>1, <2>2, <2>3, <3>2
  <2>5. CASE /\ i < WorkersN
             /\ \A fd \in Fd : fd < FdSetSize =>
                  fds[fd] = Other \/ fd = sockFd \/ \E v \in 0 .. i - 1 : fd = pipefd[v]
    <3>1. IsFiniteSet(P) /\ Cardinality(P) <= i /\ Cardinality(P) \in Nat
      BY <2>1, PipesCounted, FS_CardinalityType
    <3>2. Low \in SUBSET ((Others \cup {sockFd}) \cup P)
      BY <2>3, <2>5
    <3> HIDE DEF Others, Low, P
    <3>3. IsFiniteSet(Others \cup {sockFd})
          /\ Cardinality(Others \cup {sockFd}) <= Cardinality(Others) + 1
          /\ Cardinality(Others \cup {sockFd}) \in Nat
      BY <2>2, FS_AddElement, FS_CardinalityType
    <3>4. IsFiniteSet((Others \cup {sockFd}) \cup P)
          /\ Cardinality((Others \cup {sockFd}) \cup P)
               <= Cardinality(Others \cup {sockFd}) + Cardinality(P)
          /\ Cardinality((Others \cup {sockFd}) \cup P) \in Nat
      <4>1. IsFiniteSet((Others \cup {sockFd}) \cap P)
        BY <3>1, FS_Subset
      <4>2. Cardinality((Others \cup {sockFd}) \cap P) \in Nat
        BY <4>1, FS_CardinalityType
      <4>3. /\ IsFiniteSet((Others \cup {sockFd}) \cup P)
            /\ Cardinality((Others \cup {sockFd}) \cup P) =
                 Cardinality(Others \cup {sockFd}) + Cardinality(P)
                   - Cardinality((Others \cup {sockFd}) \cap P)
        BY <3>1, <3>3, FS_Union
      <4>4. Cardinality((Others \cup {sockFd}) \cup P) \in Nat
        BY <4>3, FS_CardinalityType
      <4> QED
        BY <3>1, <3>3, <4>2, <4>3, <4>4
    <3>5. Cardinality(Low) <= Cardinality((Others \cup {sockFd}) \cup P)
      BY <3>2, <3>4, FS_Subset
    <3> QED
      BY <2>1, <2>2, <2>3, <2>5, <3>1, <3>3, <3>4, <3>5
  <2> QED
    BY <2>1, <2>4, <2>5 DEF Full
<1> QED
  BY <1>1, ParentInvariant, PTL

\* A process that starts with descriptors 0 to 2 numbers the pipes one after
\* the other from the listening socket: between the two there is no hole, and
\* what there is are the pipes of the workers up to this one.
THEOREM ConsecutivePipesCorrect == Spec => []ConsecutivePipes
<1>1. TypeOK /\ ParentSide => ConsecutivePipes
  <2> SUFFICES ASSUME TypeOK, ParentSide, pc = "run", noPair = {},
                      \A fd \in Fd : fds[fd] = Other <=> fd \in {0, 1, 2},
                      NEW w \in Started
               PROVE  pipefd[w] = sockFd + 1 + w
    BY DEF ConsecutivePipes
  <2>1. w \in Worker /\ w < i /\ Layout
    BY StartedWorkers
  <2>2. Listens /\ sockFd \in Fd /\ i = WorkersN
    <3>1. server # "none" /\ ~Early
      BY DEF ParentSide, Early
    <3>2. i # 0
      BY <2>1, LifecycleAssumption DEF Worker
    <3>3. ret = 0
      BY <3>1, <3>2 DEF ParentSide, NothingOpened, TypeOK
    <3> QED
      BY <3>1, <3>3, <2>1 DEF ParentSide, Layout
  <2>3. /\ w \in Nat /\ WorkersN \in Nat /\ WorkersN # 0 /\ WorkersN - 1 \in Worker
        /\ \A v \in Worker : v \in Nat /\ (v = WorkersN - 1 \/ v < WorkersN - 1)
        /\ \A fd \in Fd : fd \in Nat
        /\ \A v \in Worker : pipefd[v] \in Fd
    BY <2>1, LifecycleAssumption DEF Worker, Fd, TypeOK
  <2>4. sockFd \notin {0, 1, 2}
    BY <2>2, FilesDiffer DEF Listens
  <2>5. sockFd < pipefd[w] /\ pipefd[w] <= LastTaken
    <3>1. sockFd < pipefd[w] /\ LastTaken = pipefd[WorkersN - 1]
      BY <2>1, <2>2, <2>3 DEF Layout, LastTaken
    <3>2. CASE w = WorkersN - 1
      BY <2>3, <3>1, <3>2
    <3>3. CASE w < WorkersN - 1
      BY <2>1, <2>2, <2>3, <3>1, <3>3 DEF Layout
    <3> QED
      BY <2>3, <3>1, <3>2, <3>3, <2>1
  <2> DEFINE I == sockFd + 1 .. pipefd[w]
             W == 0 .. w
             f == [v \in W |-> pipefd[v]]
  <2>6. W \subseteq Worker /\ \A v \in W : v < i /\ (v = w \/ v < w)
    BY <2>1, <2>2, <2>3, LifecycleAssumption DEF Worker
  <2>7. f \in [W -> I]
    <3>1. ASSUME NEW v \in W PROVE pipefd[v] \in I
      <4>1. sockFd < pipefd[v] /\ (v = w \/ pipefd[v] < pipefd[w])
        BY <2>1, <2>6 DEF Layout
      <4> QED
        BY <2>1, <2>2, <2>3, <2>6, <4>1
    <3> QED
      BY <3>1
  <2>8. ASSUME NEW fd \in I PROVE \E v \in W : pipefd[v] = fd
    <3>1. fd \in Fd /\ fd <= LastTaken /\ fd # sockFd /\ fd \notin {0, 1, 2}
          /\ fd <= pipefd[w]
      BY <2>1, <2>2, <2>3, <2>4, <2>5, LifecycleAssumption
         DEF Fd, LastTaken, TypeOK
    <3>2. fds[fd] # Free /\ fds[fd] # Listening /\ fds[fd] # Other
      BY <2>2, <3>1 DEF Listens
    <3>3. \A v \in Worker : fds[fd] # ChildEnd(v)
      BY <2>1, <3>1 DEF Layout, OnlyPipes
    <3>4. PICK v \in Worker : fds[fd] = ParentEnd(v)
      BY <3>1, <3>2, <3>3 DEF TypeOK, Table, OwnFiles
    <3>5. fd = pipefd[v]
      BY <2>1, <3>1, <3>4 DEF Layout, OnlyPipes
    <3>6. ~(w < v)
      BY <2>1, <2>2, <2>3, <3>1, <3>5, <3>4, LifecycleAssumption DEF Layout, Worker
    <3> QED
      BY <2>3, <3>5, <3>6
  <2>9. f \in Surjection(W, I)
    BY <2>7, <2>8 DEF Surjection
  <2>10. f \in Injection(W, I)
    <3>1. ASSUME NEW u \in W, NEW v \in W, pipefd[u] = pipefd[v] PROVE u = v
      <4>1. ~(u < v) /\ ~(v < u)
        BY <2>1, <2>3, <2>6, <3>1 DEF Layout
      <4> QED
        BY <4>1, <2>3, <2>6
    <3> QED
      BY <2>7, <3>1 DEF Injection, IsInjective
  <2>11. IsFiniteSet(W) /\ Cardinality(W) = w + 1
    BY <2>3, FS_Interval
  <2>12. Cardinality(I) = pipefd[w] - sockFd
    <3>1. sockFd \in Int /\ sockFd + 1 \in Int /\ pipefd[w] \in Int
          /\ sockFd + 1 <= pipefd[w]
      BY <2>1, <2>2, <2>3, <2>5
    <3>2. Cardinality(I) = IF sockFd + 1 > pipefd[w] THEN 0
                           ELSE pipefd[w] - (sockFd + 1) + 1
      BY <3>1, FS_Interval
    <3> HIDE DEF I
    <3> QED
      BY <3>1, <3>2
  <2>13. Cardinality(I) = Cardinality(W)
    <3> HIDE DEF f, I, W
    <3> QED
      BY <2>9, <2>10, <2>11, FS_Surjection
  <2> HIDE DEF I, W
  <2> QED
    BY <2>1, <2>2, <2>3, <2>11, <2>12, <2>13
<1> QED
  BY <1>1, ParentInvariant, PTL
=============================================================================
