-------------------------- MODULE ConnServiceProofs --------------------------
(***************************************************************************)
(* Proofs about ConnService, the promise to the library's user: for any    *)
(* number of connections and workers and any backlog.                      *)
(***************************************************************************)
EXTENDS ConnService, FiniteSetTheorems, TLAPS

-----------------------------------------------------------------------------
\* The accept queue

\* A connection that joins the queue is its last element.
LEMMA QueueGrows ==
  ASSUME queue \in Seq(Conn), NEW c \in Conn, queue' = Append(queue, c), c \notin Queued
  PROVE  /\ queue' \in Seq(Conn)
         /\ Queued' = Queued \cup {c}
         /\ (\A j, k \in DOMAIN queue : queue[j] = queue[k] => j = k) =>
               \A j, k \in DOMAIN queue' : queue'[j] = queue'[k] => j = k
<1>1. /\ queue' \in Seq(Conn) /\ Len(queue) \in Nat
      /\ DOMAIN queue' = 1 .. Len(queue) + 1 /\ DOMAIN queue = 1 .. Len(queue)
      /\ \A k \in 1 .. Len(queue) : queue'[k] = queue[k]
      /\ queue'[Len(queue) + 1] = c
  OBVIOUS
<1>2. \A k \in DOMAIN queue' : k \in DOMAIN queue \/ k = Len(queue) + 1
  BY <1>1
<1>3. Queued' = Queued \cup {c}
  BY <1>1, <1>2 DEF Queued
<1>4. \A k \in DOMAIN queue : queue[k] # c
  BY DEF Queued
<1> QED
  BY <1>1, <1>2, <1>3, <1>4

\* The first one leaves it.
LEMMA QueueShrinks ==
  ASSUME queue \in Seq(Conn), queue # <<>>, queue' = Tail(queue),
         \A j, k \in DOMAIN queue : queue[j] = queue[k] => j = k
  PROVE  /\ queue' \in Seq(Conn)
         /\ Head(queue) \in Conn /\ Head(queue) \in Queued
         /\ Queued' = Queued \ {Head(queue)}
         /\ \A j, k \in DOMAIN queue' : queue'[j] = queue'[k] => j = k
<1>1. /\ queue' \in Seq(Conn) /\ Len(queue) \in Nat /\ Len(queue) > 0
      /\ DOMAIN queue' = 1 .. Len(queue) - 1 /\ DOMAIN queue = 1 .. Len(queue)
      /\ \A k \in 1 .. Len(queue) - 1 : queue'[k] = queue[k + 1]
      /\ Head(queue) = queue[1] /\ Head(queue) \in Conn
  OBVIOUS
<1>2. \A k \in DOMAIN queue' : k \in Nat /\ k + 1 \in DOMAIN queue /\ k + 1 # 1
  BY <1>1
<1>3. \A k \in DOMAIN queue : k = 1 \/ (k - 1 \in DOMAIN queue' /\ queue'[k - 1] = queue[k])
  BY <1>1
<1>4. 1 \in DOMAIN queue
  BY <1>1
<1>5. Queued' = Queued \ {Head(queue)}
  <2>1. ASSUME NEW c \in Queued' PROVE c \in Queued \ {Head(queue)}
    <3>1. PICK k \in DOMAIN queue' : c = queue'[k]
      BY DEF Queued
    <3> QED
      BY <3>1, <1>1, <1>2, <1>4 DEF Queued
  <2>2. ASSUME NEW c \in Queued \ {Head(queue)} PROVE c \in Queued'
    <3>1. PICK k \in DOMAIN queue : c = queue[k]
      BY DEF Queued
    <3> QED
      BY <3>1, <1>1, <1>3 DEF Queued
  <2> QED
    BY <2>1, <2>2
<1>6. ASSUME NEW j \in DOMAIN queue', NEW k \in DOMAIN queue', queue'[j] = queue'[k]
      PROVE  j = k
  BY <1>1, <1>2, <1>6
<1> QED
  BY <1>1, <1>4, <1>5, <1>6 DEF Queued

-----------------------------------------------------------------------------
\* The invariant

\* A server that has stopped without a fault has left no connection in work.
StopsEmpty == ~open /\ ~failed => inHand = {} /\ InWork = {}

\* Whatever is somewhere has been opened by a client.
ServiceInv ==
  /\ ServiceTypeOK
  /\ OnePlace
  /\ Places \subseteq opened
  /\ NothingLost
  /\ StopsEmpty

\* What Confined needs besides: until a callback prints a worker has one
\* connection at most, and there are finitely many to count.
OneEach == ~printed => \A w \in Worker : \A c, d \in Handled(w) : c = d

ConfinedInv ==
  /\ IsFiniteSet(opened) /\ IsFiniteSet(fallen)
  /\ OneEach
  /\ Confined

\* The initial state.
LEMMA ServiceInitInv == ServiceInit => ServiceInv
<1> SUFFICES ASSUME ServiceInit PROVE ServiceInv
  OBVIOUS
<1>1. Queued = {} /\ InWork = {} /\ \A w \in Worker : Handled(w) = {}
  BY DEF ServiceInit, Queued, InWork, Handled
<1>2. ServiceTypeOK
  <2>1. open \in BOOLEAN /\ failed \in BOOLEAN /\ printed \in BOOLEAN
    BY DEF ServiceInit
  <2> QED
    BY <2>1 DEF ServiceInit, ServiceTypeOK
<1> QED
  BY <1>1, <1>2
  DEF ServiceInit, ServiceInv, OnePlace, NothingLost, Places, StopsEmpty

\* What changes when only one worker's connections do.
LEMMA WorkChanges ==
  ASSUME NEW w \in Worker,
         \A v \in Worker : v # w => given'[v] = given[v] /\ serving'[v] = serving[v]
  PROVE  /\ \A v \in Worker : v # w => Handled(v)' = Handled(v)
         /\ \A x : x \in InWork' <=>
                   x \in Handled(w)' \/ \E v \in Worker : v # w /\ x \in Handled(v)
         /\ \A x : x \in InWork <=>
                   x \in Handled(w) \/ \E v \in Worker : v # w /\ x \in Handled(v)
         /\ \A v \in Worker : Handled(v) \subseteq InWork
<1>1. \A v \in Worker : v # w => Handled(v)' = Handled(v)
  BY DEF Handled
<1>2. \A x : x \in InWork <=> \E v \in Worker : x \in Handled(v)
  BY DEF InWork
<1>3. \A x : x \in InWork' <=> \E v \in Worker : x \in Handled(v)'
  BY DEF InWork
<1> QED
  BY <1>1, <1>2, <1>3

\* Every step.
LEMMA ServiceStepInv == ServiceInv /\ [ServiceNext]_connVars => ServiceInv'
<1> SUFFICES ASSUME ServiceInv, [ServiceNext]_connVars PROVE ServiceInv'
  OBVIOUS
<1> USE DEF ServiceInv
<1>1. ASSUME NEW c \in Conn, Connect(c) PROVE ServiceInv'
  <2>1. /\ opened' = opened \cup {c} /\ queue' = Append(queue, c) /\ c \notin opened
        /\ UNCHANGED <<inHand, given, serving, served, open, failed, fallen, printed, InWork>>
        /\ \A w \in Worker : Handled(w)' = Handled(w)
    BY <1>1 DEF Connect, InWork, Handled
  <2>2. c \notin Queued /\ c \notin inHand /\ c \notin InWork /\ c \notin served
    BY <2>1 DEF Places
  <2>3. /\ queue' \in Seq(Conn) /\ Queued' = Queued \cup {c}
        /\ \A j, k \in DOMAIN queue' : queue'[j] = queue'[k] => j = k
    BY <2>1, <2>2, QueueGrows DEF ServiceTypeOK, OnePlace
  <2>4. \A w \in Worker : c \notin Handled(w)
    BY <2>2 DEF InWork
  <2>5. OnePlace'
    BY <2>1, <2>2, <2>3, <2>4 DEF OnePlace
  <2> QED
    BY <2>1, <2>3, <2>5 DEF ServiceTypeOK, NothingLost, Places, StopsEmpty
<1>2. CASE AcceptNext
  <2>1. /\ inHand = {} /\ queue # <<>> /\ queue' = Tail(queue)
        /\ inHand' = {Head(queue)}
        /\ UNCHANGED <<opened, given, serving, served, open, failed, fallen, printed, InWork>>
        /\ \A w \in Worker : Handled(w)' = Handled(w)
    BY <1>2 DEF AcceptNext, InWork, Handled
  <2>2. /\ queue' \in Seq(Conn) /\ Head(queue) \in Conn /\ Head(queue) \in Queued
        /\ Queued' = Queued \ {Head(queue)}
        /\ \A j, k \in DOMAIN queue' : queue'[j] = queue'[k] => j = k
    BY <2>1, QueueShrinks DEF ServiceTypeOK, OnePlace
  <2>3. OnePlace'
    BY <2>1, <2>2 DEF OnePlace
  <2> QED
    BY <1>2, <2>1, <2>2, <2>3
    DEF AcceptNext, ServiceTypeOK, NothingLost, Places, StopsEmpty
<1>3. ASSUME NEW c \in Conn, NEW w \in Worker, Give(c, w) \/ Begin(c, w)
      PROVE  ServiceInv'
  <2>1. /\ given' \in [Worker -> SUBSET Conn] /\ serving' \in [Worker -> SUBSET Conn]
        /\ \A v \in Worker : v # w => given'[v] = given[v] /\ serving'[v] = serving[v]
        /\ UNCHANGED <<opened, queue, served, open, failed, fallen, printed, Queued>>
    BY <1>3 DEF Give, Begin, ServiceTypeOK, Queued
  <2>2. /\ \A v \in Worker : v # w => Handled(v)' = Handled(v)
        /\ \A x : x \in InWork' <=>
                  x \in Handled(w)' \/ \E v \in Worker : v # w /\ x \in Handled(v)
        /\ \A x : x \in InWork <=>
                  x \in Handled(w) \/ \E v \in Worker : v # w /\ x \in Handled(v)
        /\ \A v \in Worker : Handled(v) \subseteq InWork
    BY <2>1, WorkChanges
  <2>3. /\ inHand' \cup Handled(w)' = inHand \cup Handled(w)
        /\ inHand' \subseteq inHand /\ inHand' \cap Handled(w)' = {}
        /\ given'[w] \cap serving'[w] = {}
    <3>1. given[w] \cap serving[w] = {} /\ Handled(w) \cap inHand = {}
      BY DEF OnePlace
    <3>2. given \in [Worker -> SUBSET Conn] /\ serving \in [Worker -> SUBSET Conn]
      BY DEF ServiceTypeOK
    <3>3. CASE Give(c, w)
      <4>1. /\ inHand = {c} /\ inHand' = {} /\ serving'[w] = serving[w]
            /\ given'[w] = given[w] \cup {c}
        BY <3>2, <3>3 DEF Give
      <4> QED
        BY <3>1, <4>1 DEF Handled
    <3>4. CASE Begin(c, w)
      <4>1. /\ inHand' = inHand /\ serving[w] = {} /\ serving'[w] = {c}
            /\ c \in given[w] /\ given'[w] = given[w] \ {c}
        BY <3>2, <3>4 DEF Begin
      <4> QED
        BY <3>1, <4>1 DEF Handled
    <3> QED
      BY <1>3, <3>3, <3>4
  <2>4. \A v \in Worker : v # w => Handled(v) \cap (inHand \cup Handled(w)) = {}
    BY DEF OnePlace
  <2>5. OnePlace'
    <3>1. Handled(w)' \cap (Queued \cup served) = {}
      BY <2>2, <2>3 DEF OnePlace
    <3>2. served' \cap (Queued' \cup inHand' \cup InWork') = {}
      BY <2>1, <2>2, <2>3 DEF OnePlace
    <3>3. ASSUME NEW v \in Worker
          PROVE  /\ Handled(v)' \cap (Queued' \cup inHand') = {}
                 /\ given'[v] \cap serving'[v] = {}
      <4>1. CASE v = w
        BY <2>1, <2>3, <3>1, <4>1
      <4>2. CASE v # w
        BY <2>1, <2>2, <2>3, <4>2 DEF OnePlace
      <4> QED
        BY <4>1, <4>2
    <3>4. ASSUME NEW v \in Worker, NEW u \in Worker, u # v
          PROVE  Handled(u)' \cap Handled(v)' = {}
      <4>1. CASE u # w /\ v # w
        BY <2>2, <3>4, <4>1 DEF OnePlace
      <4>2. CASE u = w \/ v = w
        BY <2>2, <2>3, <2>4, <3>4, <4>2
      <4> QED
        BY <4>1, <4>2
    <3>5. Queued' \cap inHand' = {}
      BY <2>1, <2>3 DEF OnePlace
    <3> QED
      BY <2>1, <3>2, <3>3, <3>4, <3>5 DEF OnePlace
  <2>8. InWork' \cup inHand' = InWork \cup inHand
    BY <2>2, <2>3
  <2>6. Places' = Places
    BY <2>1, <2>8 DEF Places
  <2>7. inHand' \in SUBSET Conn
    BY <2>3 DEF ServiceTypeOK
  <2> QED
    BY <2>1, <2>5, <2>6, <2>7, <2>8 DEF ServiceTypeOK, NothingLost, Places, StopsEmpty
<1>4. ASSUME NEW c \in Conn, NEW w \in Worker, Finish(c, w) PROVE ServiceInv'
  <2>1. /\ given' = given /\ serving' \in [Worker -> SUBSET Conn]
        /\ \A v \in Worker : v # w => given'[v] = given[v] /\ serving'[v] = serving[v]
        /\ UNCHANGED <<opened, queue, inHand, open, failed, fallen, printed, Queued>>
        /\ served' = served \cup {c} /\ serving'[w] = {} /\ serving[w] = {c}
    BY <1>4 DEF Finish, ServiceTypeOK, Queued
  <2>2. /\ \A v \in Worker : v # w => Handled(v)' = Handled(v)
        /\ \A x : x \in InWork' <=>
                  x \in Handled(w)' \/ \E v \in Worker : v # w /\ x \in Handled(v)
        /\ \A x : x \in InWork <=>
                  x \in Handled(w) \/ \E v \in Worker : v # w /\ x \in Handled(v)
        /\ \A v \in Worker : Handled(v) \subseteq InWork
    BY <2>1, WorkChanges
  <2>3. Handled(w)' = Handled(w) \ {c} /\ c \in Handled(w)
    BY <2>1 DEF Handled, OnePlace
  <2>4. c \notin Queued \cup inHand /\ \A v \in Worker : v # w => c \notin Handled(v)
    BY <2>3 DEF OnePlace
  <2>5. InWork' = InWork \ {c} /\ c \in InWork
    BY <2>2, <2>3, <2>4
  <2>6. OnePlace'
    <3>1. \A v \in Worker : Handled(v)' \subseteq Handled(v)
      BY <2>2, <2>3
    <3>2. \A v \in Worker : given'[v] \cap serving'[v] = {}
      BY <2>1 DEF OnePlace
    <3> QED
      BY <2>1, <2>4, <2>5, <3>1, <3>2 DEF OnePlace
  <2> QED
    BY <2>1, <2>5, <2>6 DEF ServiceTypeOK, NothingLost, Places, StopsEmpty
<1>5. CASE Shut \/ Abort
  <2>1. /\ queue' = <<>> \/ queue' = queue
        /\ open' = FALSE /\ failed' \in BOOLEAN
        /\ (inHand' = inHand \/ inHand' = {})
        /\ UNCHANGED <<opened, given, serving, served, fallen, printed, InWork>>
        /\ \A v \in Worker : Handled(v)' = Handled(v)
    BY <1>5 DEF Shut, Abort, InWork, Handled, ServiceTypeOK
  <2>2. Queued' \subseteq Queued
    BY <2>1 DEF Queued
  <2>3. OnePlace'
    BY <2>1, <2>2 DEF OnePlace
  <2>4. ServiceTypeOK'
    <3>1. queue \in Seq(Conn) /\ <<>> \in Seq(Conn)
      BY DEF ServiceTypeOK
    <3> QED
      BY <2>1, <3>1 DEF ServiceTypeOK
  <2>5. Places' \subseteq opened'
    BY <2>1, <2>2 DEF Places
  <2>6. StopsEmpty'
    BY <1>5, <2>1 DEF Shut, Abort, StopsEmpty
  <2> QED
    BY <2>1, <2>3, <2>4, <2>5, <2>6 DEF NothingLost
<1>6. ASSUME NEW w \in Worker, Crash(w) \/ Orphan(w) \/ \E c \in Conn : Drop(c, w)
      PROVE  ServiceInv'
  <2>1. /\ given' \in [Worker -> SUBSET Conn] /\ serving' \in [Worker -> SUBSET Conn]
        /\ \A v \in Worker :
             given'[v] \subseteq given[v] /\ serving'[v] \subseteq serving[v]
        /\ UNCHANGED <<opened, queue, inHand, served, open, Queued>>
        /\ fallen' \in SUBSET Worker /\ printed' \in BOOLEAN /\ failed' \in BOOLEAN
        /\ (failed => failed') /\ (open => failed' \/ Lossy)
    <3>1. CASE Crash(w) \/ Orphan(w)
      <4>1. LosesAll(w) /\ fallen' \in SUBSET Worker
        BY <3>1 DEF Crash, Orphan, ServiceTypeOK
      <4>2. failed' \in BOOLEAN /\ (failed => failed') /\ (open => failed')
        BY <3>1 DEF Crash, Orphan, ServiceTypeOK
      <4> QED
        BY <4>1, <4>2 DEF LosesAll, ServiceTypeOK, Queued
    <3>2. CASE \E c \in Conn : Drop(c, w)
      <4>1. PICK c \in Conn : Drop(c, w)
        BY <3>2
      <4>2. /\ given' = [given EXCEPT ![w] = @ \ {c}]
            /\ UNCHANGED <<opened, queue, inHand, serving, served, open, failed>>
            /\ UNCHANGED <<fallen, printed>> /\ Lossy
        BY <4>1 DEF Drop
      <4>3. \A v \in Worker : given'[v] \subseteq given[v]
        BY <4>2 DEF ServiceTypeOK
      <4> QED
        BY <4>2, <4>3 DEF ServiceTypeOK, Queued
    <3> QED
      BY <1>6, <3>1, <3>2
  <2>2. (\A v \in Worker : Handled(v)' \subseteq Handled(v)) /\ InWork' \subseteq InWork
    <3>1. \A v \in Worker : Handled(v)' \subseteq Handled(v)
      BY <2>1 DEF Handled
    <3>2. \A x \in InWork' : \E v \in Worker : x \in Handled(v)'
      BY DEF InWork
    <3>3. \A x : (\E v \in Worker : x \in Handled(v)) => x \in InWork
      BY DEF InWork
    <3> QED
      BY <3>1, <3>2, <3>3
  <2>3. OnePlace'
    BY <2>1, <2>2 DEF OnePlace
  <2> QED
    BY <2>1, <2>2, <2>3 DEF ServiceTypeOK, NothingLost, Places, StopsEmpty
<1>7. CASE Fail \/ PrintsOut \/ UNCHANGED connVars
  <2>1. /\ UNCHANGED <<opened, queue, inHand, given, serving, served, open, fallen>>
        /\ failed' = TRUE \/ failed' = failed
        /\ printed' = TRUE \/ printed' = printed
    BY <1>7 DEF Fail, PrintsOut, connVars
  <2>2. /\ UNCHANGED <<Queued, InWork>>
        /\ \A w \in Worker : Handled(w)' = Handled(w)
    BY <2>1 DEF Queued, InWork, Handled
  <2>3. ServiceTypeOK'
    BY <2>1 DEF ServiceTypeOK
  <2>4. OnePlace'
    BY <2>1, <2>2 DEF OnePlace
  <2> QED
    BY <2>1, <2>2, <2>3, <2>4 DEF NothingLost, Places, StopsEmpty
<1> QED
  BY <1>1, <1>2, <1>3, <1>4, <1>5, <1>6, <1>7 DEF ServiceNext

-----------------------------------------------------------------------------
\* Failures are confined

\* Nobody is lost at first.
LEMMA InitConfined == ServiceInit => ConfinedInv
<1> SUFFICES ASSUME ServiceInit PROVE ConfinedInv
  OBVIOUS
<1>1. opened \ Places = {} /\ fallen = {} /\ opened = {}
  BY DEF ServiceInit
<1>2. Cardinality(opened \ Places) <= Cardinality(fallen)
  BY <1>1, FS_EmptySet
<1>3. IsFiniteSet(opened) /\ IsFiniteSet(fallen)
  BY <1>1, FS_EmptySet
<1>4. OneEach
  BY DEF ServiceInit, OneEach, Handled
<1> QED
  BY <1>2, <1>3, <1>4 DEF ConfinedInv, Confined

\* A step that loses nobody and lets no worker die.
LEMMA LosesNobody ==
  ASSUME ConfinedInv, fallen' = fallen, printed' = printed, open' => open,
         IsFiniteSet(opened'), OneEach', open' => opened' \ Places' \subseteq opened \ Places
  PROVE  ConfinedInv'
<1>1. IsFiniteSet(opened \ Places)
  BY FS_Difference DEF ConfinedInv
<1>2. ASSUME open' PROVE Cardinality(opened' \ Places') <= Cardinality(opened \ Places)
  BY <1>1, <1>2, FS_Subset
<1>3. IsFiniteSet(opened' \ Places')
  BY FS_Difference
<1>4. /\ Cardinality(opened' \ Places') \in Nat /\ Cardinality(opened \ Places) \in Nat
      /\ Cardinality(fallen) \in Nat
  BY <1>1, <1>3, FS_CardinalityType DEF ConfinedInv
<1>5. Confined'
  BY <1>2, <1>4 DEF ConfinedInv, Confined
<1> QED
  BY <1>5 DEF ConfinedInv

\* A worker that dies loses the connection it has, if any.
LEMMA LosesItsOwn ==
  ASSUME ServiceInv, ConfinedInv, NEW w \in Worker, Crash(w)
  PROVE  ConfinedInv'
<1> DEFINE L == opened \ Places
<1>1. /\ UNCHANGED <<opened, queue, inHand, served, open, printed, Queued>>
      /\ fallen' = fallen \cup {w} /\ w \notin fallen
      /\ \A v \in Worker : v # w => given'[v] = given[v] /\ serving'[v] = serving[v]
      /\ Handled(w)' = {}
  BY DEF Crash, LosesAll, Queued, Handled, ServiceInv, ServiceTypeOK
<1>2. /\ \A v \in Worker : v # w => Handled(v)' = Handled(v)
      /\ \A x \in InWork : x \in Handled(w) \/ x \in InWork'
  BY <1>1, WorkChanges
<1>3. L' \subseteq L \cup Handled(w)
  BY <1>1, <1>2 DEF Places
<1>4. OneEach'
  BY <1>1, <1>2 DEF ConfinedInv, OneEach
<1>5. /\ IsFiniteSet(opened') /\ IsFiniteSet(L) /\ IsFiniteSet(L')
      /\ IsFiniteSet(fallen') /\ Cardinality(fallen') = Cardinality(fallen) + 1
  BY <1>1, FS_AddElement, FS_Difference DEF ConfinedInv
<1>6. ASSUME ~printed PROVE Cardinality(L') <= Cardinality(L) + 1
  <2>1. PICK x : Handled(w) \subseteq {x}
    BY <1>6 DEF ConfinedInv, OneEach
  <2>2. L' \subseteq L \cup {x}
    BY <1>3, <2>1
  <2> HIDE DEF L
  <2>3. IsFiniteSet(L \cup {x}) /\ Cardinality(L \cup {x}) <= Cardinality(L) + 1
    <3>1. /\ IsFiniteSet(L \cup {x})
          /\ Cardinality(L \cup {x}) = IF x \in L THEN Cardinality(L)
                                       ELSE Cardinality(L) + 1
      BY <1>5, FS_AddElement
    <3>2. Cardinality(L) \in Nat
      BY <1>5, FS_CardinalityType
    <3> QED
      BY <3>1, <3>2
  <2>4. Cardinality(L') <= Cardinality(L \cup {x})
    BY <2>2, <2>3, FS_Subset
  <2>5. /\ Cardinality(L') \in Nat /\ Cardinality(L) \in Nat
        /\ Cardinality(L \cup {x}) \in Nat
    BY <1>5, <2>3, FS_CardinalityType
  <2> QED
    BY <2>3, <2>4, <2>5
<1>7. Confined'
  <2> SUFFICES ASSUME open', ~printed', ~Lossy
               PROVE  Cardinality(L') <= Cardinality(fallen')
    BY DEF Confined
  <2>1. Cardinality(L) <= Cardinality(fallen)
    BY <1>1 DEF ConfinedInv, Confined
  <2>2. Cardinality(L') <= Cardinality(L) + 1
    <3>1. ~printed
      BY <1>1
    <3> QED
      BY <1>6, <3>1
  <2> HIDE DEF L
  <2>3. /\ Cardinality(L') \in Nat /\ Cardinality(L) \in Nat
        /\ Cardinality(fallen) \in Nat
    BY <1>5, FS_CardinalityType DEF ConfinedInv
  <2> QED
    BY <1>5, <2>1, <2>2, <2>3
<1> QED
  BY <1>4, <1>5, <1>7 DEF ConfinedInv

\* Every step.
LEMMA StepConfined ==
  ASSUME ServiceInv, ConfinedInv, [ServiceNext]_connVars
  PROVE  ConfinedInv'
<1>type. ServiceTypeOK /\ OnePlace
  BY DEF ServiceInv
<1>1. ASSUME NEW c \in Conn, Connect(c) PROVE ConfinedInv'
  <2>1. /\ opened' = opened \cup {c} /\ queue' = Append(queue, c) /\ c \notin opened
        /\ UNCHANGED <<inHand, served, open, fallen, printed, InWork>>
        /\ \A w \in Worker : Handled(w)' = Handled(w)
    BY <1>1 DEF Connect, InWork, Handled
  <2>2. Queued' = Queued \cup {c}
    <3>1. c \notin Queued
      BY <2>1 DEF ServiceInv, Places
    <3> QED
      BY <1>type, <2>1, <3>1, QueueGrows DEF ServiceTypeOK
  <2>3. opened' \ Places' \subseteq opened \ Places
    BY <2>1, <2>2 DEF Places
  <2>4. OneEach' /\ IsFiniteSet(opened')
    BY <2>1, FS_AddElement DEF ConfinedInv, OneEach
  <2> QED
    BY <2>1, <2>3, <2>4, LosesNobody
<1>2. CASE AcceptNext
  <2>1. /\ queue # <<>> /\ queue' = Tail(queue) /\ inHand = {}
        /\ inHand' = {Head(queue)}
        /\ UNCHANGED <<opened, served, open, fallen, printed, InWork>>
        /\ \A w \in Worker : Handled(w)' = Handled(w)
    BY <1>2 DEF AcceptNext, InWork, Handled
  <2>2. Queued' = Queued \ {Head(queue)}
    BY <1>type, <2>1, QueueShrinks DEF ServiceTypeOK, OnePlace
  <2>3. opened' \ Places' \subseteq opened \ Places
    BY <2>1, <2>2 DEF Places
  <2>4. OneEach'
    BY <2>1 DEF ConfinedInv, OneEach
  <2> QED
    BY <2>1, <2>3, <2>4, LosesNobody DEF ConfinedInv
<1>3. ASSUME NEW c \in Conn, NEW w \in Worker, Give(c, w) \/ Begin(c, w) \/ Finish(c, w)
      PROVE  ConfinedInv'
  <2>1. /\ \A v \in Worker : v # w => given'[v] = given[v] /\ serving'[v] = serving[v]
        /\ UNCHANGED <<opened, open, fallen, printed, Queued>>
    BY <1>type, <1>3 DEF Give, Begin, Finish, Queued, ServiceTypeOK
  <2>2. /\ \A v \in Worker : v # w => Handled(v)' = Handled(v)
        /\ \A x : x \in InWork' <=>
                  x \in Handled(w)' \/ \E v \in Worker : v # w /\ x \in Handled(v)
        /\ \A x : x \in InWork <=>
                  x \in Handled(w) \/ \E v \in Worker : v # w /\ x \in Handled(v)
    BY <2>1, WorkChanges
  <2>3. /\ inHand \cup Handled(w) \cup served = inHand' \cup Handled(w)' \cup served'
        /\ Handled(w)' \subseteq Handled(w) \/ (~printed => Handled(w)' = {c})
    <3>1. given \in [Worker -> SUBSET Conn] /\ serving \in [Worker -> SUBSET Conn]
      BY <1>type DEF ServiceTypeOK
    <3>2. CASE Give(c, w)
      <4>1. /\ inHand = {c} /\ inHand' = {} /\ serving'[w] = serving[w]
            /\ given'[w] = given[w] \cup {c} /\ served' = served
            /\ ~printed => Handled(w) = {}
        BY <3>1, <3>2 DEF Give
      <4> QED
        BY <4>1 DEF Handled
    <3>3. CASE Begin(c, w)
      <4>1. /\ inHand' = inHand /\ serving[w] = {} /\ serving'[w] = {c}
            /\ c \in given[w] /\ given'[w] = given[w] \ {c} /\ served' = served
        BY <3>1, <3>3 DEF Begin
      <4> QED
        BY <4>1 DEF Handled
    <3>4. CASE Finish(c, w)
      <4>1. /\ inHand' = inHand /\ serving[w] = {c} /\ serving'[w] = {}
            /\ given' = given /\ served' = served \cup {c}
        BY <3>1, <3>4 DEF Finish
      <4> QED
        BY <4>1 DEF Handled
    <3> QED
      BY <1>3, <3>2, <3>3, <3>4
  <2>4. Places' = Places
    <3>1. \A x : x \in inHand' \cup InWork' \cup served' <=>
                x \in inHand \cup InWork \cup served
      BY <2>2, <2>3
    <3> QED
      BY <2>1, <3>1 DEF Places
  <2>5. OneEach'
    BY <2>1, <2>2, <2>3 DEF ConfinedInv, OneEach
  <2> QED
    BY <2>1, <2>4, <2>5, LosesNobody DEF ConfinedInv
<1>4. ASSUME NEW w \in Worker, Crash(w) PROVE ConfinedInv'
  BY <1>4, LosesItsOwn
<1>5. ASSUME NEW w \in Worker, Orphan(w) \/ \E c \in Conn : Drop(c, w)
      PROVE  ConfinedInv'
  <2>1. /\ UNCHANGED <<opened, fallen, printed, open>> /\ (Lossy \/ ~open)
        /\ \A v \in Worker : Handled(v)' \subseteq Handled(v)
    <3>1. CASE Orphan(w)
      BY <1>type, <3>1 DEF Orphan, LosesAll, Handled, ServiceTypeOK
    <3>2. ASSUME NEW c \in Conn, Drop(c, w) PROVE <2>1
      BY <1>type, <3>2 DEF Drop, Handled, ServiceTypeOK
    <3> QED
      BY <1>5, <3>1, <3>2
  <2>2. OneEach'
    BY <2>1 DEF ConfinedInv, OneEach
  <2>3. Confined'
    BY <2>1 DEF Confined
  <2> QED
    BY <2>1, <2>2, <2>3 DEF ConfinedInv
<1>6. CASE Shut \/ Abort \/ PrintsOut
  <2>1. /\ UNCHANGED <<opened, fallen>> /\ (open' = FALSE \/ printed' = TRUE)
        /\ printed' = printed \/ printed' = TRUE
        /\ \A v \in Worker : Handled(v)' = Handled(v)
    BY <1>6 DEF Shut, Abort, PrintsOut, Handled
  <2>2. OneEach'
    BY <2>1 DEF ConfinedInv, OneEach
  <2>3. Confined'
    BY <2>1 DEF Confined
  <2> QED
    BY <2>1, <2>2, <2>3 DEF ConfinedInv
<1>7. CASE Fail \/ UNCHANGED connVars
  <2>1. /\ UNCHANGED <<opened, queue, inHand, given, serving, served, open, fallen,
                      printed>>
    BY <1>7 DEF Fail, connVars
  <2>2. Places' = Places /\ \A v \in Worker : Handled(v)' = Handled(v)
    BY <2>1 DEF Places, Queued, InWork, Handled
  <2> QED
    BY <2>1, <2>2 DEF ConfinedInv, Confined, OneEach
<1> QED
  BY <1>1, <1>2, <1>3, <1>4, <1>5, <1>6, <1>7 DEF ServiceNext

\* The invariant holds of the abstract service.
LEMMA ServiceInvariant == ServiceSpec => [](ServiceInv /\ ConfinedInv)
<1>1. ServiceInit => ServiceInv /\ ConfinedInv
  BY ServiceInitInv, InitConfined
<1>2. ServiceInv /\ ConfinedInv /\ [ServiceNext]_connVars =>
        (ServiceInv /\ ConfinedInv)'
  BY ServiceStepInv, StepConfined
<1> QED
  BY <1>1, <1>2, PTL DEF ServiceSpec

-----------------------------------------------------------------------------
\* What follows

\* The promised service keeps its types.
THEOREM ServiceTypeCorrect == ServiceSpec => []ServiceTypeOK
BY ServiceInvariant, PTL DEF ServiceInv

\* A server that stops without a fault has dealt with every connection it had
\* accepted, and nothing is in work afterwards.
THEOREM StopsEmptyCorrect == ServiceSpec => []StopsEmpty
BY ServiceInvariant, PTL DEF ServiceInv

\* A connection is in one place: it is never served twice or by two workers,
\* however workers die and connections are dropped.
THEOREM OnePlaceCorrect == ServiceSpec => []OnePlace
BY ServiceInvariant, PTL DEF ServiceInv

\* Without faults every connection opened is waiting, in work or served.
THEOREM NothingLostCorrect == ServiceSpec => []NothingLost
BY ServiceInvariant, PTL DEF ServiceInv

\* Each worker that dies costs one client its connection at most, while the
\* server is there and until a callback prints.
THEOREM ConfinedCorrect == ServiceSpec => []Confined
BY ServiceInvariant, PTL DEF ConfinedInv
=============================================================================
