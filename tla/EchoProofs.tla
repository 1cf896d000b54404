----------------------------- MODULE EchoProofs ------------------------------
(***************************************************************************)
(* Proofs about EchoExample: it uses the library as ConnService allows,    *)
(* and whatever the network does to a thread's message, and however many   *)
(* threads and strangers there are, a thread receives its own bytes; all   *)
(* of them, if nothing was split.  The server prints what it has read.     *)
(***************************************************************************)
EXTENDS EchoExample, ConnServiceProofs, MinMaxProofs

-----------------------------------------------------------------------------
\* Messages

MsgSize(c) == IF c \in Thread THEN MsgLen ELSE StrangeLen

\* The first n bytes of c's message.
Part(c, n) == [k \in 1 .. n |-> Message(c)[k]]

\* The sizes are as the configuration says.
LEMMA Sizes ==
  /\ MsgLen \in Nat /\ MsgLen > 0 /\ MsgLen <= RxSize /\ MsgLen <= RecvSize
  /\ RxSize \in Nat /\ StrangeLen \in Nat /\ StrangeLen > 0 /\ RecvSize \in Nat
  /\ \A c \in Conn : MsgSize(c) \in Nat /\ MsgSize(c) > 0
BY EchoAssumption DEF MsgSize

\* A message is a sequence, and so are its parts.
LEMMA MessageParts ==
  ASSUME NEW c \in Conn
  PROVE  /\ Len(Message(c)) = MsgSize(c)
         /\ Message(c) = Part(c, MsgSize(c))
         /\ \A n \in 0 .. MsgSize(c) :
              /\ Len(Part(c, n)) = n
              /\ SubSeq(Message(c), 1, n) = Part(c, n)
              /\ \A m \in 0 .. n : SubSeq(Part(c, n), 1, m) = Part(c, m)
<1>1. MsgSize(c) \in Nat
  BY Sizes
<1>2. Message(c) = [k \in 1 .. MsgSize(c) |-> <<c, k>>]
  BY DEF Message, MsgSize
<1> HIDE DEF MsgSize, Message
<1>3. Message(c) \in Seq(Conn \X Nat) /\ Len(Message(c)) = MsgSize(c)
  BY <1>1, <1>2
<1>4. Message(c) = Part(c, MsgSize(c))
  BY <1>2 DEF Part
<1>5. ASSUME NEW n \in 0 .. MsgSize(c)
      PROVE  /\ Part(c, n) \in Seq(Conn \X Nat)
             /\ Len(Part(c, n)) = n
             /\ SubSeq(Message(c), 1, n) = Part(c, n)
  BY <1>1, <1>2, <1>3 DEF Part
<1>6. ASSUME NEW n \in 0 .. MsgSize(c), NEW m \in 0 .. n
      PROVE  SubSeq(Part(c, n), 1, m) = Part(c, m)
  BY <1>1, <1>2, <1>3, <1>5 DEF Part
<1> QED
  BY <1>3, <1>4, <1>5, <1>6

-----------------------------------------------------------------------------
\* The library as the example uses it

\* Each step of the example is one of the service, or none.
LEMMA EchoStepOfService == [EchoNext]_vars => [ServiceNext]_connVars
<1> SUFFICES ASSUME [EchoNext]_vars PROVE [ServiceNext]_connVars
  OBVIOUS
<1>1. CASE Main
  BY <1>1 DEF Main, StartThread, StartFails, Started, Join, Exit
<1>2. ASSUME NEW c \in Conn,
             Client(c) \/ StrangerLeaves(c) \/ Served(c) \/ Arrive(c) \/ ArriveLate(c)
      PROVE  [ServiceNext]_connVars
  <2>1. CASE Client(c)
    BY <2>1 DEF Client, ClientConnects, ClientSends, ThreadReceives, ServiceNext
  <2>2. CASE StrangerLeaves(c) \/ Arrive(c) \/ ArriveLate(c)
    BY <2>2 DEF StrangerLeaves, Arrive, ArriveLate
  <2>3. CASE Served(c)
    BY <2>3 DEF Served, CallbackRead, CallbackWrite, CallbackCalled,
                CallbackReturns, ServiceNext
  <2> QED
    BY <1>2, <2>1, <2>2, <2>3
<1>3. CASE Library \/ LibraryShuts
  BY <1>3 DEF Library, LibraryShuts, ServiceNext
<1>4. CASE UNCHANGED vars
  BY <1>4 DEF vars
<1> QED
  BY <1>1, <1>2, <1>3, <1>4 DEF EchoNext

\* The example makes of the library what ConnService says.
THEOREM EchoUsesService == EchoSpec => ServiceSpec
<1>1. EchoInit => ServiceInit
  BY DEF EchoInit
<1> QED
  BY <1>1, EchoStepOfService, PTL DEF EchoSpec, ServiceSpec

\* Is c in a callback?
InCallback(c) == \E w \in Worker : c \in serving[w]

\* What a step does to the places of connections: none comes to have one that
\* had none, unless it has just been opened.
LEMMA NoReturn ==
  ASSUME ServiceInv, NEW d \in Conn,
         \/ Connect(d) \/ AcceptNext \/ Shut \/ UNCHANGED connVars
         \/ \E w \in Worker : Give(d, w) \/ Begin(d, w) \/ Finish(d, w)
  PROVE  /\ \A c \in Conn : c \in Places' =>
              c \in Places \/ (c \notin opened /\ c \in opened')
         /\ opened \subseteq opened'
<1> USE DEF ServiceInv, ServiceTypeOK
<1>1. CASE Connect(d)
  <2>1. /\ Queued' = Queued \cup {d} /\ d \notin opened
        /\ opened' = opened \cup {d} /\ UNCHANGED <<inHand, given, serving, served>>
    BY <1>1, QueueGrows DEF Connect, Places
  <2> QED
    BY <2>1 DEF Places, InWork, Handled
<1>2. CASE AcceptNext
  <2>1. /\ Queued' \subseteq Queued /\ inHand' \subseteq Queued
        /\ UNCHANGED <<opened, given, serving, served>>
    BY <1>2, QueueShrinks DEF AcceptNext, OnePlace
  <2> QED
    BY <2>1 DEF Places, InWork, Handled
<1>3. ASSUME NEW w \in Worker, Give(d, w)
      PROVE  /\ \A c \in Conn : c \in Places' =>
                  c \in Places \/ (c \notin opened /\ c \in opened')
             /\ opened \subseteq opened'
  <2>1. /\ inHand = {d} /\ inHand' = {} /\ UNCHANGED <<opened, queue, serving, served>>
        /\ \A v \in Worker : given'[v] \subseteq given[v] \cup {d}
    BY <1>3 DEF Give
  <2>2. Queued' = Queued
    BY <2>1 DEF Queued
  <2> QED
    BY <2>1, <2>2 DEF Places, InWork, Handled
<1>4. ASSUME NEW w \in Worker, Begin(d, w)
      PROVE  /\ \A c \in Conn : c \in Places' =>
                  c \in Places \/ (c \notin opened /\ c \in opened')
             /\ opened \subseteq opened'
  <2>1. /\ d \in given[w] /\ UNCHANGED <<opened, queue, inHand, served>>
        /\ \A v \in Worker : /\ given'[v] \subseteq given[v]
                             /\ serving'[v] \subseteq serving[v] \cup given[v]
    BY <1>4 DEF Begin
  <2>2. Queued' = Queued
    BY <2>1 DEF Queued
  <2> QED
    BY <2>1, <2>2 DEF Places, InWork, Handled
<1>5. ASSUME NEW w \in Worker, Finish(d, w)
      PROVE  /\ \A c \in Conn : c \in Places' =>
                  c \in Places \/ (c \notin opened /\ c \in opened')
             /\ opened \subseteq opened'
  <2>1. /\ d \in serving[w] /\ UNCHANGED <<opened, queue, inHand, given>>
        /\ served' = served \cup {d}
        /\ \A v \in Worker : serving'[v] \subseteq serving[v]
    BY <1>5 DEF Finish
  <2>2. Queued' = Queued /\ d \in InWork
    BY <2>1 DEF Queued, InWork, Handled
  <2> QED
    BY <2>1, <2>2 DEF Places, InWork, Handled
<1>6. CASE Shut
  <2>1. Queued' = {} /\ UNCHANGED <<opened, inHand, given, serving, served>>
    BY <1>6 DEF Shut, Queued
  <2> QED
    BY <2>1 DEF Places, InWork, Handled
<1>7. CASE UNCHANGED connVars
  BY <1>7 DEF connVars, Places, Queued, InWork, Handled
<1> QED
  BY <1>1, <1>2, <1>3, <1>4, <1>5, <1>6, <1>7

\* Begin takes one connection into a callback, Finish takes it out.
LEMMA CallbackStep ==
  ASSUME ServiceInv, NEW d \in Conn, NEW w \in Worker
  PROVE  /\ Begin(d, w) =>
              /\ ~InCallback(d) /\ d \notin served /\ d \in Places /\ served' = served
              /\ \A c \in Conn : InCallback(c)' <=> InCallback(c) \/ c = d
         /\ Finish(d, w) =>
              /\ InCallback(d) /\ d \in Places /\ served' = served \cup {d}
              /\ \A c \in Conn : InCallback(c)' <=> InCallback(c) /\ c # d
<1> USE DEF ServiceInv, ServiceTypeOK
<1>1. ASSUME Begin(d, w)
      PROVE  /\ ~InCallback(d) /\ d \notin served /\ d \in Places /\ served' = served
             /\ \A c \in Conn : InCallback(c)' <=> InCallback(c) \/ c = d
  <2>1. d \in given[w] /\ serving[w] = {} /\ served' = served
        /\ serving' = [serving EXCEPT ![w] = {d}]
    BY <1>1 DEF Begin
  <2>2. d \in Handled(w) /\ d \in InWork
    BY <2>1 DEF Handled, InWork
  <2>3. ~InCallback(d) /\ d \notin served
    BY <2>1, <2>2 DEF OnePlace, InCallback, Handled
  <2>4. /\ \A v \in Worker : v # w => serving'[v] = serving[v]
        /\ serving'[w] = {d}
    BY <2>1
  <2> QED
    BY <2>1, <2>2, <2>3, <2>4 DEF InCallback, Places
<1>2. ASSUME Finish(d, w)
      PROVE  /\ InCallback(d) /\ d \in Places /\ served' = served \cup {d}
             /\ \A c \in Conn : InCallback(c)' <=> InCallback(c) /\ c # d
  <2>1. serving[w] = {d} /\ served' = served \cup {d}
        /\ serving' = [serving EXCEPT ![w] = {}]
    BY <1>2 DEF Finish
  <2>2. d \in Handled(w) /\ d \in InWork
    BY <2>1 DEF Handled, InWork
  <2>3. \A v \in Worker : v # w => d \notin serving[v]
    BY <2>2 DEF OnePlace, Handled
  <2>4. /\ \A v \in Worker : v # w => serving'[v] = serving[v]
        /\ serving'[w] = {}
    BY <2>1
  <2> QED
    BY <2>1, <2>2, <2>3, <2>4 DEF InCallback, Places
<1> QED
  BY <1>1, <1>2

-----------------------------------------------------------------------------
\* The invariant

\* A connection that has no place any more, or has failed to get one.
Gone(c) == c \notin Places /\ (c \in opened \/ cpc[c] = "failed")

\* A connection between its client and its callback.
Wire(c) ==
  /\ cpc[c] \in {"idle", "connect"} => c \notin opened
  /\ left[c] # "no" => cpc[c] = "done"
  /\ (cb[c] # "none") <=> (InCallback(c) \/ c \in served)
  /\ closed[c] = "fin" => cb[c] = "done"
  /\ cb[c] \in {"none", "called"} => rx[c] = 0
  /\ rx[c] = -1 => left[c] = "rst"
  /\ arrived[c] + rx[c] <= MsgSize(c)
  /\ \E n \in 0 .. MsgSize(c) : echo[c] = Part(c, n)
  /\ cb[c] # "done" => Len(echo[c]) = 0

\* A thread of client.py.
Loop(c) ==
  /\ left[c] # "rst" /\ (left[c] = "fin" => cb[c] = "done")
  /\ \E n \in 0 .. MsgLen : received[c] = Part(c, n)
  /\ whole[c] =>
       /\ arrived[c] + rx[c] \in {0, MsgLen}
       /\ cb[c] \in {"read", "done"} => rx[c] = MsgLen
       /\ cb[c] = "done" => echo[c] = Message(c)
       /\ cpc[c] = "done" => received[c] = Message(c)
       /\ (closed[c] = "rst" \/ cpc[c] = "failed") => Gone(c)

\* The threads that have not been started.
NotStarted == mainPc = "start" => \A t \in Thread : t >= index => cpc[t] = "idle"

Shapes ==
  DOMAIN arrived = Conn /\ DOMAIN echo = Conn /\ DOMAIN received = Conn

EchoInv ==
  /\ ServiceInv /\ EchoTypeOK /\ Shapes /\ NotStarted
  /\ \A c \in Conn : Wire(c)
  /\ \A c \in Thread : Loop(c)

\* A step that does not concern c.
LEMMA Frame ==
  ASSUME NEW c \in Conn, Wire(c), c \in Thread => Loop(c),
         UNCHANGED <<cpc[c], left[c], cb[c], rx[c], closed[c], arrived[c], echo[c],
                     received[c], whole[c]>>,
         c \in opened' <=> c \in opened, c \in served' <=> c \in served,
         InCallback(c)' <=> InCallback(c), c \in Places' => c \in Places
  PROVE  Wire(c)' /\ (c \in Thread => Loop(c)')
<1>1. Wire(c)'
  BY DEF Wire
<1>2. Gone(c) => Gone(c)'
  BY DEF Gone
<1>3. c \in Thread => Loop(c)'
  BY <1>2 DEF Loop
<1> QED
  BY <1>1, <1>3

\* A step that does not concern the places of connections.
LEMMA NoPlaces ==
  ASSUME UNCHANGED connVars
  PROVE  /\ \A c : InCallback(c)' <=> InCallback(c)
         /\ Places' = Places /\ opened' = opened /\ served' = served
BY DEF connVars, InCallback, Places, Queued, InWork, Handled

\* client.py's main thread.
LEMMA MainStep ==
  ASSUME EchoInv, Main
  PROVE  /\ EchoTypeOK' /\ Shapes' /\ NotStarted'
         /\ \A c \in Conn : Wire(c)'
         /\ \A c \in Thread : Loop(c)'
<1> USE DEF EchoInv
<1>1. /\ UNCHANGED <<connVars, serverPort, sent, left, received, netVars, cbVars>>
      /\ \/ StartThread
         \/ cpc' = cpc /\ mainPc' \in {"join", "returned", "exited"}
            /\ index' \in 0 .. ThreadsN
  BY EchoAssumption DEF Main, StartThread, StartFails, Started, Join, Exit, EchoTypeOK
<1>2. EchoTypeOK' /\ Shapes'
  <2>1. cpc' \in [Conn -> {"idle", "connect", "send", "recv", "done", "failed"}]
        /\ index' \in 0 .. ThreadsN
        /\ mainPc' \in {"start", "join", "returned", "exited"}
    BY <1>1, EchoAssumption DEF StartThread, EchoTypeOK
  <2> QED
    BY <1>1, <2>1 DEF EchoTypeOK, Shapes, netVars, cbVars
<1>3. NotStarted'
  <2>1. CASE StartThread
    <3>1. /\ mainPc = "start" /\ index' = index + 1 /\ index \in Nat
          /\ cpc' = [cpc EXCEPT ![index] = "connect"]
      BY <2>1 DEF StartThread, EchoTypeOK
    <3>2. ASSUME NEW t \in Thread, t >= index' PROVE cpc'[t] = "idle"
      <4>1. t \in Nat /\ t >= index /\ t # index
        BY <3>1, <3>2 DEF Thread
      <4> QED
        BY <3>1, <4>1 DEF NotStarted
    <3> QED
      BY <3>2 DEF NotStarted
  <2> QED
    BY <1>1, <2>1 DEF NotStarted
<1>4. ASSUME NEW c \in Conn PROVE Wire(c)' /\ (c \in Thread => Loop(c)')
  <2>1. UNCHANGED <<left[c], cb[c], rx[c], closed[c], arrived[c], echo[c],
                    received[c], whole[c]>>
        /\ (InCallback(c)' <=> InCallback(c)) /\ Places' = Places /\ opened' = opened
        /\ served' = served
    BY <1>1, NoPlaces DEF netVars, cbVars
  <2>2. CASE cpc'[c] = cpc[c]
    BY <2>1, <2>2, Frame
  <2>3. CASE cpc'[c] # cpc[c]
    <3>1. cpc[c] = "idle" /\ cpc'[c] = "connect"
      <4>1. StartThread
        BY <1>1, <2>3
      <4>2. /\ mainPc = "start" /\ index \in Thread
            /\ cpc' = [cpc EXCEPT ![index] = "connect"]
            /\ cpc \in [Conn -> {"idle", "connect", "send", "recv", "done", "failed"}]
        BY <4>1, EchoAssumption DEF StartThread, EchoTypeOK, Thread
      <4>3. c = index
        BY <2>3, <4>2
      <4>4. cpc[index] = "idle"
        BY <4>2 DEF NotStarted, Thread
      <4> QED
        BY <4>2, <4>3, <4>4
    <3>2. Wire(c)'
      BY <2>1, <3>1 DEF Wire
    <3>3. c \in Thread => Loop(c)'
      BY <2>1, <3>1 DEF Loop, Gone
    <3> QED
      BY <3>2, <3>3
  <2> QED
    BY <2>2, <2>3
<1> QED
  BY <1>2, <1>3, <1>4, EchoAssumption

\* A client connects, or fails to.
LEMMA ConnectStep ==
  ASSUME EchoInv, NEW d \in Conn, ClientConnects(d)
  PROVE  /\ EchoTypeOK' /\ Shapes' /\ NotStarted'
         /\ \A c \in Conn : Wire(c)'
         /\ \A c \in Thread : Loop(c)'
<1> USE DEF EchoInv
<1>1. /\ cpc[d] = "connect"
      /\ UNCHANGED <<serverPort, mainPc, index, sent, left, received, netVars, cbVars>>
      /\ UNCHANGED <<served, serving>>
      /\ \/ Connect(d) /\ cpc' = [cpc EXCEPT ![d] = "send"] /\ opened' = opened \cup {d}
         \/ UNCHANGED connVars /\ cpc' = [cpc EXCEPT ![d] = "failed"] /\ opened' = opened
  BY DEF ClientConnects, Connect, connVars
<1>2. cpc \in [Conn -> {"idle", "connect", "send", "recv", "done", "failed"}]
  BY DEF EchoTypeOK
<1>3. EchoTypeOK' /\ Shapes'
  <2>1. cpc' \in [Conn -> {"idle", "connect", "send", "recv", "done", "failed"}]
    BY <1>1, <1>2
  <2>2. sent' \in SUBSET Conn
    BY <1>1 DEF EchoTypeOK
  <2> QED
    BY <1>1, <2>1, <2>2 DEF EchoTypeOK, Shapes, netVars, cbVars
<1>4. NotStarted'
  <2>1. ASSUME mainPc = "start", NEW t \in Thread, t >= index PROVE cpc'[t] = "idle"
    <3>1. cpc[t] = "idle" /\ t # d
      BY <1>1, <2>1 DEF NotStarted
    <3> QED
      BY <1>1, <1>2, <3>1, EchoAssumption
  <2> QED
    BY <1>1, <2>1 DEF NotStarted
<1>5. /\ \A c \in Conn : c \in Places' => c \in Places \/ (c \notin opened /\ c \in opened')
      /\ \A c \in Conn : InCallback(c)' <=> InCallback(c)
  BY <1>1, NoReturn DEF InCallback
<1>6. \A c \in Conn : UNCHANGED <<left[c], cb[c], rx[c], closed[c], arrived[c], echo[c],
                                  received[c], whole[c]>>
  BY <1>1 DEF netVars, cbVars
<1>7. ASSUME NEW c \in Conn, c # d PROVE Wire(c)' /\ (c \in Thread => Loop(c)')
  <2>1. cpc'[c] = cpc[c] /\ (c \in opened' <=> c \in opened)
        /\ (c \in Places' => c \in Places)
    BY <1>1, <1>2, <1>5, <1>7
  <2> QED
    BY <1>1, <1>5, <1>6, <2>1, Frame
<1>8. d \notin opened /\ d \notin Places /\ left[d] = "no"
  BY <1>1 DEF Wire, ServiceInv, EchoTypeOK
<1>9. cpc'[d] \in {"send", "failed"}
  BY <1>1, <1>2
<1>10. Wire(d)'
  BY <1>1, <1>5, <1>6, <1>8, <1>9 DEF Wire
<1>11. ASSUME d \in Thread PROVE Loop(d)'
  <2>1. whole[d] => closed[d] # "rst"
    BY <1>1, <1>8, <1>11 DEF Loop, Gone
  <2>2. cpc'[d] = "failed" => Gone(d)'
    <3>1. ASSUME cpc'[d] = "failed" PROVE UNCHANGED connVars
      BY <1>1, <1>2, <3>1
    <3>2. cpc'[d] = "failed" => Places' = Places
      BY <3>1, NoPlaces
    <3> QED
      BY <1>8, <3>2 DEF Gone
  <2> QED
    BY <1>6, <1>9, <1>11, <2>1, <2>2 DEF Loop
<1> QED
  BY <1>3, <1>4, <1>7, <1>10, <1>11, EchoAssumption

\* A step of which only d's client, connection or callback knows.
LEMMA OthersFrame ==
  ASSUME EchoInv, NEW d \in Conn, UNCHANGED connVars,
         \A c \in Conn : c # d =>
           UNCHANGED <<cpc[c], left[c], cb[c], rx[c], closed[c], arrived[c], echo[c],
                       received[c], whole[c]>>,
         Wire(d)', d \in Thread => Loop(d)'
  PROVE  /\ \A c \in Conn : Wire(c)'
         /\ \A c \in Thread : Loop(c)'
<1>1. ASSUME NEW c \in Conn, c # d PROVE Wire(c)' /\ (c \in Thread => Loop(c)')
  <2>1. Wire(c) /\ (c \in Thread => Loop(c))
    BY DEF EchoInv
  <2>2. /\ c \in opened' <=> c \in opened
        /\ c \in served' <=> c \in served
        /\ InCallback(c)' <=> InCallback(c)
        /\ c \in Places' => c \in Places
    BY NoPlaces
  <2>3. UNCHANGED <<cpc[c], left[c], cb[c], rx[c], closed[c], arrived[c], echo[c],
                    received[c], whole[c]>>
    BY <1>1
  <2> QED
    BY <2>1, <2>2, <2>3, Frame
<1>2. Thread \subseteq Conn
  BY EchoAssumption
<1> QED
  BY <1>1, <1>2

\* A client sends, unless the connection has been reset.
LEMMA SendStep ==
  ASSUME EchoInv, NEW d \in Conn, ClientSends(d)
  PROVE  /\ EchoTypeOK' /\ Shapes' /\ NotStarted'
         /\ \A c \in Conn : Wire(c)'
         /\ \A c \in Thread : Loop(c)'
<1> USE DEF EchoInv
<1>1. /\ cpc[d] = "send"
      /\ UNCHANGED <<connVars, serverPort, mainPc, index, left, received, netVars, cbVars>>
      /\ \/ cpc' = [cpc EXCEPT ![d] = "failed"] /\ sent' = sent /\ closed[d] = "rst"
         \/ cpc' = [cpc EXCEPT ![d] = "recv"] /\ sent' = sent \cup {d}
  BY DEF ClientSends
<1>2. cpc \in [Conn -> {"idle", "connect", "send", "recv", "done", "failed"}]
  BY DEF EchoTypeOK
<1>3. EchoTypeOK' /\ Shapes'
  <2>1. cpc' \in [Conn -> {"idle", "connect", "send", "recv", "done", "failed"}]
    BY <1>1, <1>2
  <2>2. sent' \in SUBSET Conn
    BY <1>1 DEF EchoTypeOK
  <2> QED
    BY <1>1, <2>1, <2>2 DEF EchoTypeOK, Shapes, netVars, cbVars
<1>4. NotStarted'
  <2>1. ASSUME mainPc = "start", NEW t \in Thread, t >= index PROVE cpc'[t] = "idle"
    <3>1. cpc[t] = "idle" /\ t # d
      BY <1>1, <2>1 DEF NotStarted
    <3> QED
      BY <1>1, <1>2, <3>1, EchoAssumption
  <2> QED
    BY <1>1, <2>1 DEF NotStarted
<1>5. /\ \A c \in Conn : c # d => cpc'[c] = cpc[c]
      /\ UNCHANGED <<left, cb, rx, closed, arrived, echo, received, whole>>
  BY <1>1, <1>2 DEF netVars, cbVars
<1>6. /\ cpc'[d] \in {"recv", "failed"}
      /\ cpc'[d] = "failed" => closed[d] = "rst"
      /\ left[d] = "no"
  BY <1>1, <1>2 DEF Wire, EchoTypeOK
<1>7. /\ Places' = Places /\ opened' = opened /\ served' = served
      /\ InCallback(d)' <=> InCallback(d)
  BY <1>1, NoPlaces
<1>8. Wire(d)'
  BY <1>5, <1>6, <1>7 DEF Wire
<1>9. ASSUME d \in Thread PROVE Loop(d)'
  <2>1. Gone(d) => Gone(d)'
    BY <1>1, <1>7 DEF Gone
  <2> QED
    BY <1>5, <1>6, <1>9, <2>1 DEF Loop
<1> QED
  BY <1>1, <1>3, <1>4, <1>5, <1>8, <1>9, OthersFrame

\* A thread receives what is there of its echo, or a reset.
LEMMA ReceiveStep ==
  ASSUME EchoInv, NEW d \in Conn, ThreadReceives(d)
  PROVE  /\ EchoTypeOK' /\ Shapes' /\ NotStarted'
         /\ \A c \in Conn : Wire(c)'
         /\ \A c \in Thread : Loop(c)'
<1> USE DEF EchoInv
<1> DEFINE Got(n) ==
      /\ received' = [received EXCEPT ![d] = SubSeq(echo[d], 1, n)]
      /\ whole' = [whole EXCEPT ![d] = @ /\ n = Len(echo[d])]
      /\ cpc' = [cpc EXCEPT ![d] = "done"]
      /\ left' = [left EXCEPT ![d] = "fin"]
<1>1. /\ d \in Thread /\ cpc[d] = "recv"
      /\ UNCHANGED <<connVars, serverPort, mainPc, index, sent, arrived, echo, closed,
                     cbVars>>
      /\ \/ \E n \in 1 .. Min({Len(echo[d]), RecvSize}) : Got(n)
         \/ closed[d] = "rst" /\ cpc' = [cpc EXCEPT ![d] = "failed"]
            /\ UNCHANGED <<left, received, whole>>
  BY DEF ThreadReceives
<1>2. /\ cpc \in [Conn -> {"idle", "connect", "send", "recv", "done", "failed"}]
      /\ left \in [Conn -> {"no", "fin", "rst"}]
      /\ whole \in [Conn -> BOOLEAN]
      /\ DOMAIN received = Conn
  BY DEF EchoTypeOK, Shapes
<1>3. PICK m \in 0 .. MsgLen : echo[d] = Part(d, m)
  BY <1>1 DEF Wire, MsgSize
<1>4. /\ Len(echo[d]) = m /\ m \in Nat /\ MsgLen \in Nat
      /\ \A n \in 0 .. m : SubSeq(echo[d], 1, n) = Part(d, n)
      /\ Message(d) = Part(d, MsgLen)
  BY <1>1, <1>3, MessageParts, Sizes DEF MsgSize
<1>5. \A n \in 1 .. Min({Len(echo[d]), RecvSize}) : n \in 1 .. m
  <2>1. {m, RecvSize} \in SUBSET Nat /\ {m, RecvSize} # {}
    BY <1>4, Sizes
  <2>2. Min({m, RecvSize}) \in {m, RecvSize} /\ Min({m, RecvSize}) <= m
    BY <2>1, MinElement
  <2> QED
    BY <1>4, <2>2, Sizes
<1>6. \/ \E n \in 1 .. m : Got(n)
      \/ closed[d] = "rst" /\ cpc' = [cpc EXCEPT ![d] = "failed"]
         /\ UNCHANGED <<left, received, whole>>
  BY <1>1, <1>5
<1>7. EchoTypeOK' /\ Shapes'
  <2>1. cpc' \in [Conn -> {"idle", "connect", "send", "recv", "done", "failed"}]
    BY <1>2, <1>6
  <2>2. left' \in [Conn -> {"no", "fin", "rst"}]
    BY <1>2, <1>6
  <2>3. whole' \in [Conn -> BOOLEAN]
    BY <1>2, <1>6
  <2>4. DOMAIN received' = Conn
    BY <1>2, <1>6
  <2> QED
    BY <1>1, <2>1, <2>2, <2>3, <2>4 DEF EchoTypeOK, Shapes, cbVars
<1>8. NotStarted'
  <2>1. ASSUME mainPc = "start", NEW t \in Thread, t >= index PROVE cpc'[t] = "idle"
    <3>1. cpc[t] = "idle" /\ t # d
      BY <1>1, <2>1 DEF NotStarted
    <3> QED
      BY <1>2, <1>6, <3>1, EchoAssumption
  <2> QED
    BY <1>1, <2>1 DEF NotStarted
<1>9. \A c \in Conn : c # d => UNCHANGED <<cpc[c], left[c], received[c], whole[c]>>
  BY <1>2, <1>6
<1>10. /\ Places' = Places /\ opened' = opened /\ served' = served
       /\ InCallback(d)' <=> InCallback(d)
       /\ UNCHANGED <<cb, rx, arrived, echo, closed>>
  BY <1>1, NoPlaces DEF cbVars
<1>11. Wire(d)' /\ Loop(d)'
  <2>1. ASSUME NEW n \in 1 .. m, Got(n) PROVE Wire(d)' /\ Loop(d)'
    <3>1. /\ received'[d] = Part(d, n) /\ cpc'[d] = "done" /\ left'[d] = "fin"
          /\ whole'[d] => whole[d] /\ n = m
      <4>1. received'[d] = SubSeq(echo[d], 1, n) /\ n \in 0 .. m
        BY <1>2, <1>4, <2>1
      <4>2. cpc'[d] = "done" /\ left'[d] = "fin"
        BY <1>2, <2>1
      <4>3. whole'[d] = (whole[d] /\ n = m)
        BY <1>2, <1>4, <2>1
      <4> QED
        BY <1>4, <4>1, <4>2, <4>3
    <3>2. cb[d] = "done"
      BY <1>4 DEF Wire
    <3>3. Wire(d)'
      BY <1>1, <1>10, <3>1, <3>2 DEF Wire
    <3>4. ASSUME whole'[d] PROVE received'[d] = Message(d)
      <4>1. whole[d] /\ n = m
        BY <3>1, <3>4
      <4>2. echo[d] = Message(d)
        BY <1>1, <3>2, <4>1 DEF Loop
      <4> QED
        BY <1>3, <3>1, <4>1, <4>2
    <3>5. Gone(d) => Gone(d)'
      BY <1>1, <1>10 DEF Gone
    <3>6. n \in 0 .. MsgLen
      BY <1>3, <1>4
    <3> QED
      BY <1>1, <1>10, <3>1, <3>2, <3>3, <3>4, <3>5, <3>6 DEF Loop
  <2>2. ASSUME closed[d] = "rst", cpc' = [cpc EXCEPT ![d] = "failed"],
               UNCHANGED <<left, received, whole>>
        PROVE  Wire(d)' /\ Loop(d)'
    <3>1. cpc'[d] = "failed"
      BY <1>2, <2>2
    <3>2. left[d] = "no"
      BY <1>1, <1>2 DEF Wire
    <3>3. Wire(d)'
      BY <1>10, <2>2, <3>1, <3>2 DEF Wire
    <3>4. Gone(d) => Gone(d)'
      BY <1>1, <1>10 DEF Gone
    <3> QED
      BY <1>1, <1>10, <2>2, <3>1, <3>3, <3>4 DEF Loop
  <2> HIDE DEF Got
  <2> QED
    BY <1>6, <2>1, <2>2
<1> HIDE DEF Got
<1> QED
  BY <1>1, <1>7, <1>8, <1>9, <1>10, <1>11, OthersFrame

\* A stranger leaves.
LEMMA LeaveStep ==
  ASSUME EchoInv, NEW d \in Conn, StrangerLeaves(d)
  PROVE  /\ EchoTypeOK' /\ Shapes' /\ NotStarted'
         /\ \A c \in Conn : Wire(c)'
         /\ \A c \in Thread : Loop(c)'
<1> USE DEF EchoInv
<1>1. PICK how \in {"fin", "rst"} :
        /\ cpc[d] \in {"send", "recv"} /\ d \notin Thread
        /\ UNCHANGED <<connVars, serverPort, mainPc, index, sent, received, netVars,
                       cbVars>>
        /\ cpc' = [cpc EXCEPT ![d] = "done"]
        /\ left' = [left EXCEPT ![d] = how]
  BY EchoAssumption DEF StrangerLeaves
<1>2. /\ cpc \in [Conn -> {"idle", "connect", "send", "recv", "done", "failed"}]
      /\ left \in [Conn -> {"no", "fin", "rst"}]
  BY DEF EchoTypeOK
<1>3. EchoTypeOK' /\ Shapes'
  <2>1. cpc' \in [Conn -> {"idle", "connect", "send", "recv", "done", "failed"}]
        /\ left' \in [Conn -> {"no", "fin", "rst"}]
    BY <1>1, <1>2
  <2> QED
    BY <1>1, <2>1 DEF EchoTypeOK, Shapes, netVars, cbVars
<1>4. NotStarted'
  <2>1. \A t \in Thread : cpc'[t] = cpc[t]
    BY <1>1, <1>2, EchoAssumption
  <2> QED
    BY <1>1, <2>1 DEF NotStarted
<1>5. /\ \A c \in Conn : c # d => UNCHANGED <<cpc[c], left[c]>>
      /\ cpc'[d] = "done" /\ left'[d] = how
      /\ UNCHANGED <<received, arrived, echo, closed, whole, cb, rx>>
  BY <1>1, <1>2 DEF netVars, cbVars
<1>6. /\ Places' = Places /\ opened' = opened /\ served' = served
      /\ InCallback(d)' <=> InCallback(d)
  BY <1>1, NoPlaces
<1>7. rx[d] # -1
  BY <1>1, <1>2 DEF Wire
<1>8. Wire(d)'
  BY <1>5, <1>6, <1>7 DEF Wire
<1> QED
  BY <1>1, <1>3, <1>4, <1>5, <1>8, OthersFrame

\* Bytes of the message reach the server, or find its end closed.
LEMMA ArriveStep ==
  ASSUME EchoInv, NEW d \in Conn, Arrive(d) \/ ArriveLate(d)
  PROVE  /\ EchoTypeOK' /\ Shapes' /\ NotStarted'
         /\ \A c \in Conn : Wire(c)'
         /\ \A c \in Thread : Loop(c)'
<1> USE DEF EchoInv
<1>1. /\ UNCHANGED <<connVars, clientVars, echo, cbVars>>
      /\ Unarrived(d) = MsgSize(d) - arrived[d] - rx[d]
      /\ d \in sent /\ left[d] # "rst" /\ Unarrived(d) > 0
  <2>1. UNCHANGED <<connVars, clientVars, echo, cbVars>> /\ Unarrived(d) > 0
    <3>1. CASE ArriveLate(d)
      BY <3>1 DEF ArriveLate
    <3>2. CASE Arrive(d)
      <4>1. /\ UNCHANGED <<connVars, clientVars, echo, cbVars>>
            /\ 1 .. Unarrived(d) # {}
        BY <3>2 DEF Arrive
      <4>2. Unarrived(d) \in Int
        BY MessageParts, Sizes DEF Unarrived, EchoTypeOK
      <4> QED
        BY <4>1, <4>2
    <3> QED
      BY <3>1, <3>2
  <2> QED
    BY <2>1, MessageParts DEF Unarrived
<1>2. /\ arrived[d] \in Nat /\ rx[d] \in Nat /\ MsgSize(d) \in Nat
      /\ closed \in [Conn -> {"no", "fin", "rst"}] /\ whole \in [Conn -> BOOLEAN]
      /\ DOMAIN arrived = Conn
  <2>1. rx[d] \in -1 .. RxSize /\ rx[d] # -1 /\ RxSize \in Nat
    BY <1>1, Sizes DEF EchoTypeOK, Wire
  <2> QED
    BY <2>1, Sizes, MessageParts DEF EchoTypeOK, Shapes
<1>3. /\ Places' = Places /\ opened' = opened /\ served' = served
      /\ InCallback(d)' <=> InCallback(d)
      /\ UNCHANGED <<cpc, left, received, cb, rx, echo>>
      /\ NotStarted'
  BY <1>1, NoPlaces DEF cbVars, clientVars, NotStarted
<1>4. Gone(d) => Gone(d)'
  BY <1>3 DEF Gone
<1>5. CASE Arrive(d)
  <2>1. PICK n \in 1 .. Unarrived(d) :
          /\ arrived' = [arrived EXCEPT ![d] = @ + n]
          /\ whole' = [whole EXCEPT ![d] = @ /\ n = Len(Message(d))]
          /\ UNCHANGED closed
    BY <1>5 DEF Arrive
  <2>2. /\ n \in Nat /\ n > 0 /\ arrived'[d] = arrived[d] + n
        /\ arrived'[d] + rx[d] <= MsgSize(d)
        /\ arrived'[d] \in 0 .. MsgSize(d)
        /\ DOMAIN arrived' = Conn
        /\ \A c \in Conn : c # d => arrived'[c] = arrived[c]
    BY <1>1, <1>2, <2>1
  <2>3. whole' \in [Conn -> BOOLEAN] /\ \A c \in Conn : c # d => whole'[c] = whole[c]
    BY <1>2, <2>1
  <2>4. whole'[d] => whole[d] /\ n = MsgSize(d)
    <3>1. whole'[d] = (whole[d] /\ n = Len(Message(d)))
      BY <1>2, <2>1
    <3> QED
      BY <3>1, MessageParts
  <2>5. EchoTypeOK' /\ Shapes'
    <3>1. \A c \in Conn : arrived'[c] \in 0 .. Len(Message(c))
      BY <2>2, MessageParts DEF EchoTypeOK
    <3> QED
      BY <1>1, <1>3, <2>1, <2>2, <2>3, <3>1 DEF EchoTypeOK, Shapes, clientVars, cbVars
  <2>6. Wire(d)'
    BY <1>3, <2>1, <2>2 DEF Wire
  <2>7. ASSUME d \in Thread PROVE Loop(d)'
    <3>1. MsgSize(d) = MsgLen
      BY <2>7 DEF MsgSize
    <3>2. ASSUME whole'[d] PROVE whole[d] /\ arrived'[d] + rx'[d] = MsgLen
                                 /\ cb[d] \notin {"read", "done"}
      <4>1. whole[d] /\ n = MsgLen
        BY <2>4, <3>1, <3>2
      <4>2. arrived[d] = 0 /\ rx[d] = 0
        BY <1>2, <2>2, <3>1, <4>1
      <4>3. cb[d] \in {"read", "done"} => rx[d] = MsgLen
        BY <2>7, <4>1 DEF Loop
      <4> QED
        BY <1>2, <1>3, <2>2, <3>1, <4>1, <4>2, <4>3, Sizes
    <3> QED
      BY <1>3, <1>4, <2>1, <2>7, <3>2 DEF Loop
  <2> QED
    BY <1>1, <1>3, <2>1, <2>2, <2>3, <2>5, <2>6, <2>7, OthersFrame
<1>6. CASE ArriveLate(d)
  <2>1. /\ closed[d] = "fin" /\ closed' = [closed EXCEPT ![d] = "rst"]
        /\ UNCHANGED <<arrived, whole>>
    BY <1>6 DEF ArriveLate
  <2>2. /\ closed'[d] = "rst" /\ \A c \in Conn : c # d => closed'[c] = closed[c]
        /\ closed' \in [Conn -> {"no", "fin", "rst"}]
    BY <1>2, <2>1
  <2>3. EchoTypeOK' /\ Shapes'
    BY <1>1, <1>3, <2>1, <2>2 DEF EchoTypeOK, Shapes, clientVars, cbVars
  <2>4. Wire(d)'
    BY <1>3, <2>1, <2>2 DEF Wire
  <2>5. ASSUME d \in Thread PROVE Loop(d)'
    <3>1. cb[d] = "done" /\ MsgSize(d) = MsgLen
      BY <2>1, <2>5 DEF Wire, MsgSize
    <3>2. whole[d] => rx[d] = MsgLen
      BY <2>5, <3>1 DEF Loop
    <3>3. ~whole[d]
      BY <1>1, <1>2, <3>1, <3>2
    <3> QED
      BY <1>3, <2>1, <2>5, <3>3 DEF Loop
  <2> QED
    BY <1>1, <1>3, <2>1, <2>2, <2>3, <2>4, <2>5, OthersFrame
<1> QED
  BY <1>5, <1>6

\* The callback's read().
LEMMA ReadStep ==
  ASSUME EchoInv, NEW d \in Conn, CallbackRead(d)
  PROVE  /\ EchoTypeOK' /\ Shapes' /\ NotStarted'
         /\ \A c \in Conn : Wire(c)'
         /\ \A c \in Thread : Loop(c)'
<1> USE DEF EchoInv
<1>1. /\ cb[d] = "called" /\ Readable(d)
      /\ rx' = [rx EXCEPT ![d] = IF arrived[d] > 0 THEN Min({arrived[d], RxSize})
                                 ELSE IF left[d] = "rst" THEN -1 ELSE 0]
      /\ arrived' = [arrived EXCEPT ![d] = IF @ > 0 THEN @ - rx'[d] ELSE @]
      /\ cb' = [cb EXCEPT ![d] = "read"]
      /\ UNCHANGED <<connVars, clientVars, echo, closed, whole>>
  BY DEF CallbackRead
<1>2. /\ arrived[d] \in Nat /\ arrived[d] <= MsgSize(d) /\ MsgSize(d) \in Nat
      /\ RxSize \in Nat
      /\ rx \in [Conn -> -1 .. RxSize] /\ DOMAIN arrived = Conn
      /\ cb \in [Conn -> {"none", "called", "read", "done"}]
  BY Sizes, MessageParts DEF EchoTypeOK, Shapes
<1>3. /\ rx'[d] \in -1 .. RxSize /\ arrived'[d] \in 0 .. MsgSize(d)
      /\ arrived'[d] + rx'[d] <= arrived[d]
      /\ rx'[d] = -1 => left[d] = "rst"
      /\ arrived[d] > 0 /\ arrived[d] <= RxSize =>
           rx'[d] = arrived[d] /\ arrived'[d] = 0
  <2>1. ASSUME arrived[d] > 0
        PROVE  /\ rx'[d] \in Nat /\ rx'[d] <= RxSize /\ rx'[d] <= arrived[d]
               /\ arrived[d] <= RxSize => rx'[d] = arrived[d]
               /\ arrived'[d] = arrived[d] - rx'[d]
    <3> DEFINE m == Min({arrived[d], RxSize})
    <3>1. {arrived[d], RxSize} \in SUBSET Nat /\ {arrived[d], RxSize} # {}
      BY <1>2
    <3>2. m \in {arrived[d], RxSize} /\ \A n \in {arrived[d], RxSize} : m <= n
      BY <3>1, MinElement
    <3>3. rx'[d] = m /\ arrived'[d] = arrived[d] - rx'[d]
      BY <1>1, <1>2, <2>1
    <3> HIDE DEF m
    <3> QED
      BY <1>2, <3>2, <3>3
  <2>2. ASSUME ~(arrived[d] > 0)
        PROVE  arrived'[d] = arrived[d] /\ rx'[d] = IF left[d] = "rst" THEN -1 ELSE 0
    BY <1>1, <1>2, <2>2
  <2> QED
    BY <1>2, <2>1, <2>2
<1>4. /\ cb'[d] = "read" /\ UNCHANGED <<cpc, left, received, echo, closed, whole>>
      /\ \A c \in Conn : c # d => UNCHANGED <<cb[c], rx[c], arrived[c]>>
  BY <1>1, <1>2 DEF clientVars
<1>5. EchoTypeOK' /\ Shapes' /\ NotStarted'
  <2>1. cb' \in [Conn -> {"none", "called", "read", "done"}] /\ DOMAIN arrived' = Conn
    BY <1>1, <1>2
  <2>2. rx' \in [Conn -> -1 .. RxSize]
    <3>1. rx' = [rx EXCEPT ![d] = rx'[d]]
      BY <1>1, <1>2
    <3> QED
      BY <1>2, <1>3, <3>1
  <2>3. \A c \in Conn : arrived'[c] \in 0 .. Len(Message(c))
    BY <1>3, <1>4, MessageParts DEF EchoTypeOK
  <2>4. EchoTypeOK'
    <3>1. UNCHANGED <<serverPort, mainPc, index, cpc, sent, left, closed, whole>>
      BY <1>1 DEF clientVars
    <3> QED
      BY <2>1, <2>2, <2>3, <3>1 DEF EchoTypeOK
  <2>5. Shapes' /\ NotStarted'
    BY <1>1, <2>1 DEF Shapes, clientVars, NotStarted
  <2> QED
    BY <2>4, <2>5
<1>6. /\ Places' = Places /\ opened' = opened /\ served' = served
      /\ InCallback(d)' <=> InCallback(d)
  BY <1>1, NoPlaces
<1>7. rx[d] = 0
  BY <1>1 DEF Wire
<1>8. Wire(d)'
  <2>1. arrived'[d] + rx'[d] <= MsgSize(d)
    BY <1>2, <1>3
  <2> QED
    BY <1>1, <1>3, <1>4, <1>6, <2>1 DEF Wire
<1>9. ASSUME d \in Thread PROVE Loop(d)'
  <2>1. Gone(d) => Gone(d)'
    BY <1>4, <1>6 DEF Gone
  <2>2. arrived[d] > 0
    BY <1>1, <1>2, <1>9 DEF Readable, Loop, EchoTypeOK
  <2>3. whole[d] => arrived[d] = MsgLen
    BY <1>2, <1>7, <1>9, <2>2 DEF Loop
  <2>4. whole[d] => rx'[d] = MsgLen /\ arrived'[d] + rx'[d] = MsgLen
    BY <1>3, <2>2, <2>3, Sizes
  <2> QED
    BY <1>1, <1>4, <1>9, <2>1, <2>4 DEF Loop
<1> QED
  BY <1>1, <1>4, <1>5, <1>8, <1>9, OthersFrame

\* The callback's write().
LEMMA WriteStep ==
  ASSUME EchoInv, NEW d \in Conn, CallbackWrite(d)
  PROVE  /\ EchoTypeOK' /\ Shapes' /\ NotStarted'
         /\ \A c \in Conn : Wire(c)'
         /\ \A c \in Thread : Loop(c)'
<1> USE DEF EchoInv
<1>1. /\ cb[d] = "read"
      /\ echo' = [echo EXCEPT ![d] =
           IF left[d] # "rst" /\ rx[d] >= 0
             THEN [k \in 1 .. rx[d] |-> Buffer(d, rx[d])[k - 1]] ELSE @]
      /\ cb' = [cb EXCEPT ![d] = "done"]
      /\ UNCHANGED <<connVars, clientVars, arrived, closed, whole, rx, dump>>
  BY DEF CallbackWrite
<1>2. /\ arrived[d] \in Nat /\ MsgSize(d) \in Nat /\ DOMAIN echo = Conn
      /\ rx[d] \in -1 .. RxSize /\ RxSize \in Nat
      /\ cb \in [Conn -> {"none", "called", "read", "done"}]
  BY Sizes, MessageParts DEF EchoTypeOK, Shapes
<1>3. rx[d] <= MsgSize(d)
  BY <1>2 DEF Wire
<1>4. ASSUME rx[d] >= 0
      PROVE  [k \in 1 .. rx[d] |-> Buffer(d, rx[d])[k - 1]] = Part(d, rx[d])
  <2>1. ASSUME NEW k \in 1 .. rx[d] PROVE Buffer(d, rx[d])[k - 1] = Message(d)[k]
    <3>1. k - 1 \in 0 .. 2^UintBits - 1 /\ k - 1 < rx[d] /\ (k - 1) + 1 = k
      BY <1>2, EchoAssumption
    <3> QED
      BY <3>1 DEF Buffer
  <2> QED
    BY <2>1 DEF Part
<1>5. /\ cb'[d] = "done" /\ UNCHANGED <<cpc, left, received, arrived, closed, whole, rx>>
      /\ \A c \in Conn : c # d => UNCHANGED <<cb[c], echo[c]>>
      /\ left[d] # "rst" /\ rx[d] >= 0 => echo'[d] = Part(d, rx[d])
      /\ ~(left[d] # "rst" /\ rx[d] >= 0) => echo'[d] = echo[d]
  BY <1>1, <1>2, <1>4 DEF clientVars
<1>6. EchoTypeOK' /\ Shapes' /\ NotStarted'
  <2>1. cb' \in [Conn -> {"none", "called", "read", "done"}] /\ DOMAIN echo' = Conn
    BY <1>1, <1>2
  <2> QED
    BY <1>1, <1>5, <2>1 DEF EchoTypeOK, Shapes, clientVars, NotStarted
<1>7. /\ Places' = Places /\ opened' = opened /\ served' = served
      /\ InCallback(d)' <=> InCallback(d)
  BY <1>1, NoPlaces
<1>8. Wire(d)'
  <2>1. \E n \in 0 .. MsgSize(d) : echo'[d] = Part(d, n)
    <3>1. CASE left[d] # "rst" /\ rx[d] >= 0
      BY <1>2, <1>3, <1>5, <3>1
    <3>2. CASE ~(left[d] # "rst" /\ rx[d] >= 0)
      BY <1>5, <3>2 DEF Wire
    <3> QED
      BY <3>1, <3>2
  <2> QED
    BY <1>1, <1>5, <1>7, <2>1 DEF Wire
<1>9. ASSUME d \in Thread PROVE Loop(d)'
  <2>1. Gone(d) => Gone(d)'
    BY <1>5, <1>7 DEF Gone
  <2>2. whole[d] => rx[d] = MsgLen /\ rx[d] >= 0 /\ left[d] # "rst"
    BY <1>1, <1>9, Sizes DEF Loop
  <2>3. whole[d] => echo'[d] = Message(d)
    BY <1>5, <1>9, <2>2, MessageParts DEF MsgSize
  <2> QED
    BY <1>1, <1>5, <1>9, <2>1, <2>2, <2>3 DEF Loop
<1> QED
  BY <1>1, <1>5, <1>6, <1>8, <1>9, OthersFrame

\* The library calls the callback.
LEMMA CalledStep ==
  ASSUME EchoInv, NEW d \in Conn, NEW w \in Worker, CallbackCalled(d, w)
  PROVE  /\ EchoTypeOK' /\ Shapes' /\ NotStarted'
         /\ \A c \in Conn : Wire(c)'
         /\ \A c \in Thread : Loop(c)'
<1> USE DEF EchoInv
<1>1. /\ Begin(d, w)
      /\ cb' = [cb EXCEPT ![d] = "called"]
      /\ UNCHANGED <<clientVars, netVars, rx, dump>>
  BY DEF CallbackCalled
<1>2. /\ cb \in [Conn -> {"none", "called", "read", "done"}]
      /\ UNCHANGED <<serverPort, mainPc, index, cpc, sent, left, received, arrived, echo,
                     closed, whole, rx, dump>>
      /\ UNCHANGED opened
  BY <1>1 DEF EchoTypeOK, clientVars, netVars, Begin
<1>3. /\ ~InCallback(d) /\ d \notin served /\ d \in Places /\ served' = served
      /\ \A c \in Conn : InCallback(c)' <=> InCallback(c) \/ c = d
      /\ \A c \in Conn : c \in Places' => c \in Places
  BY <1>1, <1>2, CallbackStep, NoReturn
<1>4. cb[d] = "none"
  BY <1>3 DEF Wire
<1>5. cb'[d] = "called" /\ \A c \in Conn : c # d => cb'[c] = cb[c]
  BY <1>1, <1>2
<1>6. EchoTypeOK' /\ Shapes' /\ NotStarted'
  <2>1. cb' \in [Conn -> {"none", "called", "read", "done"}]
    BY <1>1, <1>2
  <2> QED
    BY <1>2, <2>1 DEF EchoTypeOK, Shapes, NotStarted
<1>7. ASSUME NEW c \in Conn, c # d PROVE Wire(c)' /\ (c \in Thread => Loop(c)')
  <2>1. InCallback(c)' <=> InCallback(c)
    BY <1>3, <1>7
  <2> QED
    BY <1>2, <1>3, <1>5, <1>7, <2>1, Frame
<1>8. Wire(d)'
  BY <1>2, <1>3, <1>4, <1>5 DEF Wire
<1>9. ASSUME d \in Thread PROVE Loop(d)'
  <2>1. Gone(d) => Gone(d)'
    BY <1>2, <1>3 DEF Gone
  <2> QED
    BY <1>2, <1>4, <1>5, <1>9, <2>1 DEF Loop
<1> QED
  BY <1>6, <1>7, <1>8, <1>9, EchoAssumption

\* The callback returns and the worker closes the connection.
LEMMA ReturnsStep ==
  ASSUME EchoInv, NEW d \in Conn, NEW w \in Worker, CallbackReturns(d, w)
  PROVE  /\ EchoTypeOK' /\ Shapes' /\ NotStarted'
         /\ \A c \in Conn : Wire(c)'
         /\ \A c \in Thread : Loop(c)'
<1> USE DEF EchoInv
<1>1. /\ cb[d] = "done" /\ Finish(d, w)
      /\ closed' = [closed EXCEPT ![d] = IF arrived[d] > 0 THEN "rst" ELSE "fin"]
      /\ UNCHANGED <<clientVars, arrived, echo, whole, cbVars>>
  BY DEF CallbackReturns
<1>2. /\ closed \in [Conn -> {"no", "fin", "rst"}]
      /\ UNCHANGED <<serverPort, mainPc, index, cpc, sent, left, received, arrived, echo,
                     whole, cb, rx, dump>>
      /\ UNCHANGED opened
  BY <1>1 DEF EchoTypeOK, clientVars, cbVars, Finish
<1>3. /\ d \in Places /\ served' = served \cup {d}
      /\ \A c \in Conn : InCallback(c)' <=> InCallback(c) /\ c # d
      /\ \A c \in Conn : c \in Places' => c \in Places
  BY <1>1, <1>2, CallbackStep, NoReturn
<1>4. /\ closed'[d] = IF arrived[d] > 0 THEN "rst" ELSE "fin"
      /\ \A c \in Conn : c # d => closed'[c] = closed[c]
  BY <1>1, <1>2
<1>5. EchoTypeOK' /\ Shapes' /\ NotStarted'
  <2>1. closed' \in [Conn -> {"no", "fin", "rst"}]
    BY <1>1, <1>2
  <2> QED
    BY <1>2, <2>1 DEF EchoTypeOK, Shapes, NotStarted
<1>6. ASSUME NEW c \in Conn, c # d PROVE Wire(c)' /\ (c \in Thread => Loop(c)')
  <2>1. (InCallback(c)' <=> InCallback(c)) /\ (c \in served' <=> c \in served)
    BY <1>3, <1>6
  <2> QED
    BY <1>2, <1>3, <1>4, <1>6, <2>1, Frame
<1>7. Wire(d)'
  BY <1>1, <1>2, <1>3, <1>4 DEF Wire
<1>8. ASSUME d \in Thread PROVE Loop(d)'
  <2>1. ASSUME whole[d] PROVE closed'[d] = "fin" /\ cpc[d] # "failed"
    <3>1. arrived[d] + rx[d] \in {0, MsgLen} /\ rx[d] = MsgLen
      BY <1>1, <1>8, <2>1 DEF Loop
    <3>2. arrived[d] \in Nat
      BY MessageParts, Sizes DEF EchoTypeOK
    <3>3. arrived[d] = 0
      BY <3>1, <3>2, Sizes
    <3>4. cpc[d] # "failed"
      BY <1>3, <1>8, <2>1 DEF Loop, Gone
    <3> QED
      BY <1>4, <3>3, <3>4
  <2> QED
    BY <1>1, <1>2, <1>8, <2>1 DEF Loop
<1> QED
  BY <1>5, <1>6, <1>7, <1>8, EchoAssumption

\* The library accepts a connection and gives it to a worker, or shuts.
LEMMA LibraryStep ==
  ASSUME EchoInv, Library \/ LibraryShuts
  PROVE  /\ EchoTypeOK' /\ Shapes' /\ NotStarted'
         /\ \A c \in Conn : Wire(c)'
         /\ \A c \in Thread : Loop(c)'
<1> USE DEF EchoInv
<1>1. /\ \/ AcceptNext \/ Shut
         \/ \E c \in Conn, w \in Worker : Give(c, w)
      /\ UNCHANGED <<clientVars, arrived, echo, whole, cbVars>>
      /\ \/ UNCHANGED closed
         \/ Shut /\ closed' = [c \in Conn |-> IF c \in Queued THEN "rst" ELSE closed[c]]
  BY DEF Library, LibraryShuts, netVars
<1>2. /\ UNCHANGED <<serverPort, mainPc, index, cpc, sent, left, received, arrived, echo,
                     whole, cb, rx, dump>>
      /\ UNCHANGED <<opened, served, serving>>
  BY <1>1 DEF clientVars, cbVars, AcceptNext, Shut, Give
<1>3. EchoTypeOK' /\ Shapes' /\ NotStarted'
  <2>1. closed' \in [Conn -> {"no", "fin", "rst"}]
    BY <1>1 DEF EchoTypeOK
  <2> QED
    BY <1>2, <2>1 DEF EchoTypeOK, Shapes, NotStarted
<1>4. ASSUME NEW c \in Conn PROVE Wire(c)' /\ (c \in Thread => Loop(c)')
  <2>1. c \in Places' => c \in Places
    BY <1>1, <1>2, <1>4, NoReturn
  <2>2. InCallback(c)' <=> InCallback(c)
    BY <1>2 DEF InCallback
  <2>3. CASE closed'[c] = closed[c]
    BY <1>2, <2>1, <2>2, <2>3, Frame
  <2>4. CASE closed'[c] # closed[c]
    <3>1. Shut /\ c \in Queued /\ closed'[c] = "rst"
      BY <1>1, <2>4
    <3>2. Gone(c)'
      <4>1. c \in opened /\ c \notin inHand \cup InWork \cup served
        BY <3>1 DEF ServiceInv, Places, OnePlace, InWork
      <4>2. Places' = inHand \cup InWork \cup served
        BY <3>1 DEF Shut, Places, Queued, InWork, Handled
      <4> QED
        BY <1>2, <4>1, <4>2 DEF Gone
    <3>3. Wire(c)'
      BY <1>2, <2>2, <3>1 DEF Wire
    <3>4. c \in Thread => Loop(c)'
      BY <1>2, <3>2 DEF Loop
    <3> QED
      BY <3>3, <3>4
  <2> QED
    BY <2>3, <2>4
<1> QED
  BY <1>3, <1>4, EchoAssumption

-----------------------------------------------------------------------------
\* What follows

\* The initial state.
LEMMA EchoInitInv == EchoInit => EchoInv
<1> SUFFICES ASSUME EchoInit PROVE EchoInv
  OBVIOUS
<1>1. ServiceInv /\ ServiceInit
  BY ServiceInitInv DEF EchoInit
<1>2. Places = {} /\ opened = {} /\ \A c \in Conn : ~InCallback(c)
  BY <1>1 DEF ServiceInit, ServiceInv, InCallback
<1>3. serverPort \in PortMin .. PortMax
  BY EchoAssumption DEF EchoInit, ServerPort
<1>4. EchoTypeOK /\ Shapes
  <2>1. ASSUME NEW c \in Conn PROVE 0 \in 0 .. Len(Message(c))
    BY MessageParts, Sizes
  <2> QED
    BY <1>3, <2>1, Sizes, EchoAssumption DEF EchoInit, EchoTypeOK, Shapes
<1>5. NotStarted
  BY EchoAssumption DEF EchoInit, NotStarted
<1>6. \A c \in Conn : Part(c, 0) = <<>>
  BY DEF Part
<1>7. ASSUME NEW c \in Conn PROVE Wire(c)
  <2>1. /\ left[c] = "no" /\ cb[c] = "none" /\ closed[c] = "no" /\ rx[c] = 0
        /\ arrived[c] = 0 /\ echo[c] = <<>> /\ served = {}
    BY <1>1 DEF EchoInit, ServiceInit
  <2> QED
    BY <1>2, <1>6, <2>1, Sizes DEF Wire
<1>8. ASSUME NEW c \in Thread PROVE Loop(c)
  <2>1. /\ left[c] = "no" /\ cb[c] = "none" /\ closed[c] = "no" /\ rx[c] = 0
        /\ arrived[c] = 0 /\ received[c] = <<>> /\ cpc[c] = "idle"
    BY EchoAssumption DEF EchoInit
  <2> QED
    BY <1>6, <2>1, Sizes, EchoAssumption DEF Loop
<1> QED
  BY <1>1, <1>4, <1>5, <1>7, <1>8 DEF EchoInv

\* Every step.
LEMMA EchoStepInv == EchoInv /\ [EchoNext]_vars => EchoInv'
<1> SUFFICES ASSUME EchoInv, [EchoNext]_vars PROVE EchoInv'
  OBVIOUS
<1> DEFINE Goal == /\ EchoTypeOK' /\ Shapes' /\ NotStarted'
                   /\ \A c \in Conn : Wire(c)'
                   /\ \A c \in Thread : Loop(c)'
<1>1. ServiceInv'
  BY EchoStepOfService, ServiceStepInv DEF EchoInv
<1>2. ASSUME Main PROVE Goal
  BY <1>2, MainStep
<1>3. ASSUME NEW d \in Conn,
             Client(d) \/ StrangerLeaves(d) \/ Served(d) \/ Arrive(d) \/ ArriveLate(d)
      PROVE  Goal
  <2>1. CASE Client(d)
    BY <2>1, ConnectStep, SendStep, ReceiveStep DEF Client
  <2>2. CASE StrangerLeaves(d)
    BY <2>2, LeaveStep
  <2>3. CASE Served(d)
    BY <2>3, ReadStep, WriteStep, CalledStep, ReturnsStep DEF Served
  <2>4. CASE Arrive(d) \/ ArriveLate(d)
    BY <2>4, ArriveStep
  <2> QED
    BY <1>3, <2>1, <2>2, <2>3, <2>4
<1>4. ASSUME Library \/ LibraryShuts PROVE Goal
  BY <1>4, LibraryStep
<1>5. ASSUME UNCHANGED vars PROVE Goal
  <2>1. UNCHANGED <<connVars, serverPort, mainPc, index, cpc, sent, left, received,
                    arrived, echo, closed, whole, cb, rx, dump>>
    BY <1>5 DEF vars, clientVars, netVars, cbVars
  <2>2. EchoTypeOK' /\ Shapes' /\ NotStarted'
    BY <2>1 DEF EchoInv, EchoTypeOK, Shapes, NotStarted
  <2>3. ASSUME NEW c \in Conn PROVE Wire(c)' /\ (c \in Thread => Loop(c)')
    <3>1. /\ c \in opened' <=> c \in opened
          /\ c \in served' <=> c \in served
          /\ InCallback(c)' <=> InCallback(c)
          /\ c \in Places' => c \in Places
      BY <2>1, NoPlaces
    <3> QED
      BY <2>1, <3>1, Frame DEF EchoInv
  <2> QED
    BY <2>2, <2>3, EchoAssumption
<1>6. Goal
  <2> HIDE DEF Goal
  <2> QED
    BY <1>2, <1>3, <1>4, <1>5 DEF EchoNext, Goal
<1> QED
  BY <1>1, <1>6 DEF EchoInv

\* The invariant holds in every reachable state.
LEMMA EchoInvariant == EchoSpec => []EchoInv
<1> QED
  BY EchoInitInv, EchoStepInv, PTL DEF EchoSpec

\* The port is one for users, and no read is longer than what there is.
THEOREM EchoTypeCorrect == EchoSpec => []EchoTypeOK
<1>1. EchoInv => EchoTypeOK
  BY DEF EchoInv
<1> QED
  BY <1>1, EchoInvariant, PTL

\* A thread receives a beginning of its own message and nothing else, whatever
\* the network splits and whoever else there is.
THEOREM EchoIsOwnCorrect == EchoSpec => []EchoIsOwn
<1>1. EchoInv => EchoIsOwn
  <2> SUFFICES ASSUME EchoInv, NEW c \in Thread
               PROVE  received[c] = SubSeq(Message(c), 1, Len(received[c]))
    BY DEF EchoIsOwn
  <2>1. PICK n \in 0 .. MsgLen : received[c] = Part(c, n)
    BY DEF EchoInv, Loop
  <2> QED
    BY <2>1, MessageParts, EchoAssumption DEF MsgSize
<1> QED
  BY <1>1, EchoInvariant, PTL

\* A thread that has been served, and whose bytes the network has not split,
\* ends with all of them: it gets no reset, for it has no place in the server
\* when one is sent.
THEOREM WholeEchoCorrect == EchoSpec => []WholeEcho
<1>1. EchoInv => WholeEcho
  BY DEF EchoInv, WholeEcho, Ended, Loop, Gone, Places
<1> QED
  BY <1>1, EchoInvariant, PTL

-----------------------------------------------------------------------------
\* The dump

\* Division with remainder.
LEMMA Division ==
  ASSUME NEW a \in Nat, NEW d \in Nat \ {0}
  PROVE  /\ a \div d \in Nat /\ a % d \in 0 .. d - 1
         /\ a = d * (a \div d) + (a % d)
         /\ \A k \in Nat, r \in 0 .. d - 1 : a = d * k + r => a \div d = k /\ a % d = r
<1>1. a \div d \in Nat /\ a % d \in 0 .. d - 1
  OBVIOUS
<1>2. a = d * (a \div d) + (a % d)
  OBVIOUS
<1>3. ASSUME NEW k \in Nat, NEW r \in 0 .. d - 1, a = d * k + r
      PROVE  a \div d = k /\ a % d = r
  BY <1>3
<1> QED
  BY <1>1, <1>2, <1>3

\* A larger factor.
LEMMA Product ==
  ASSUME NEW d \in Nat, NEW x \in Nat, NEW y \in Nat
  PROVE  /\ d * x \in Nat
         /\ x >= y + 1 => d * x >= d * y + d
OBVIOUS

\* Lengths that can be rounded up to whole lines without a wrap-around, and
\* more than one byte to a line: with one, a failed read would be dumped as
\* 2^UintBits - 1 bytes, and with a larger buffer a full one as none.
DumpFits == Cols > 1 /\ RxSize <= 2^UintBits - Cols

\* The lines printed for a length, and where each byte goes.
LEMMA Rounded ==
  ASSUME DumpFits, NEW n \in -1 .. RxSize, NEW m \in Nat, m = IF n > 0 THEN n ELSE 0
  PROVE  /\ Bound(Unsigned(n)) \div Cols = (m + Cols - 1) \div Cols
         /\ Bound(Unsigned(n)) \div Cols \in Nat
         /\ Bound(Unsigned(n)) \div Cols > 0 => Unsigned(n) = m
<1> DEFINE M == 2^UintBits
<1>1. /\ M \in Nat /\ Cols \in Nat \ {0} /\ Cols > 1 /\ RxSize \in Nat /\ RxSize <= M - Cols
      /\ M % Cols = 0 /\ M > 1
  BY EchoAssumption, HexdumpAssumption DEF DumpFits
<1>2. \A x : Unsigned(x) = x % M
  BY DEF Unsigned
<1> HIDE DEF M
<1>3. CASE n >= 0
  <2> DEFINE q == n \div Cols
             r == n % Cols
  <2>1. n \in Nat /\ m = n /\ Unsigned(n) = n
    BY <1>1, <1>2, <1>3
  <2>2. q \in Nat /\ r \in 0 .. Cols - 1 /\ n = Cols * q + r /\ Cols * q \in Nat
    <3>1. n \in Nat /\ Cols \in Nat \ {0}
      BY <1>1, <2>1
    <3>2. q \in Nat /\ r \in 0 .. Cols - 1 /\ n = Cols * q + r
      BY <3>1, Division
    <3> HIDE DEF q, r
    <3> QED
      BY <3>1, <3>2, Product
  <2>3. CASE r = 0
    <3>1. Bound(n) = n
      BY <1>1, <1>2, <2>1, <2>3 DEF Bound, Padding
    <3> HIDE DEF q, r
    <3>2. n + Cols - 1 = Cols * q + (Cols - 1) /\ n + Cols - 1 \in Nat
          /\ Cols - 1 \in 0 .. Cols - 1
      BY <1>1, <2>1, <2>2, <2>3
    <3>3. (n + Cols - 1) \div Cols = q
      BY <1>1, <2>2, <3>2
    <3>4. n \div Cols = q
      BY DEF q
    <3> QED
      BY <2>1, <2>2, <3>1, <3>3, <3>4
  <2>4. CASE r # 0
    <3>1. Padding(n) = Cols - r
      BY <2>1, <2>4 DEF Padding
    <3>2. n + (Cols - r) \in 0 .. M - 1
      BY <1>1, <2>1, <2>2, <2>4
    <3>3. Bound(n) = n + (Cols - r)
      BY <1>1, <1>2, <3>1, <3>2 DEF Bound
    <3> HIDE DEF q, r
    <3>4. /\ n + (Cols - r) = Cols * (q + 1) + 0
          /\ n + Cols - 1 = Cols * (q + 1) + (r - 1) /\ n + Cols - 1 \in Nat
          /\ r - 1 \in 0 .. Cols - 1 /\ 0 \in 0 .. Cols - 1 /\ q + 1 \in Nat
      BY <1>1, <2>2, <2>4
    <3>5. (n + (Cols - r)) \div Cols = q + 1
      BY <1>1, <3>2, <3>4
    <3>6. (n + Cols - 1) \div Cols = q + 1
      <4> DEFINE a == n + Cols - 1
                 t == r - 1
                 p == q + 1
      <4>1. /\ a = Cols * p + t /\ a \in Nat /\ p \in Nat /\ Cols \in Nat \ {0}
            /\ t \in 0 .. Cols - 1
        BY <1>1, <3>4
      <4> HIDE DEF a, t, p
      <4>2. a \div Cols = p
        BY <4>1, Division
      <4> QED
        BY <4>2 DEF a, p
    <3> QED
      BY <2>1, <3>3, <3>4, <3>5, <3>6
  <2> QED
    BY <2>3, <2>4
<1>4. CASE n = -1
  <2> DEFINE k == M \div Cols
  <2>1. Unsigned(n) = M - 1 /\ m = 0
    BY <1>1, <1>2, <1>4
  <2>2. k \in Nat /\ M = Cols * k
    <3>1. M \in Nat /\ Cols \in Nat \ {0}
      BY <1>1
    <3>2. k \in Nat /\ M = Cols * k + (M % Cols)
      BY <3>1, Division
    <3> HIDE DEF k
    <3>3. Cols * k \in Nat
      BY <3>1, <3>2, Product
    <3> QED
      BY <1>1, <3>2, <3>3
  <2>3. (M - 1) % Cols = Cols - 1
    <3> HIDE DEF k
    <3>1. k > 0
      BY <1>1, <2>2
    <3>2. /\ M - 1 = Cols * (k - 1) + (Cols - 1) /\ M - 1 \in Nat
          /\ k - 1 \in Nat /\ Cols - 1 \in 0 .. Cols - 1
      BY <1>1, <2>2, <3>1
    <3> DEFINE a == M - 1
               t == Cols - 1
               p == k - 1
    <3>3. /\ a = Cols * p + t /\ a \in Nat /\ p \in Nat /\ Cols \in Nat \ {0}
          /\ t \in 0 .. Cols - 1
      BY <1>1, <3>2
    <3> HIDE DEF a, t, p
    <3>4. a % Cols = t
      BY <3>3, Division
    <3> QED
      BY <3>4 DEF a, t
  <2>4. Padding(M - 1) = 1
    BY <1>1, <2>3 DEF Padding
  <2>5. Bound(Unsigned(n)) = 0
    BY <1>1, <1>2, <2>1, <2>4 DEF Bound
  <2>6. 0 \div Cols = 0 /\ (0 + Cols - 1) \div Cols = 0
    BY <1>1
  <2> QED
    BY <2>1, <2>5, <2>6
<1> QED
  BY <1>3, <1>4

\* What the lines show.
LEMMA LinesShow ==
  ASSUME DumpFits, NEW c \in Conn, NEW n \in -1 .. RxSize, n <= MsgSize(c),
         NEW m \in Nat, m = IF n > 0 THEN n ELSE 0
  PROVE  LET d == Lines(Buffer(c, n), n)
         IN  /\ Len(d) = (m + Cols - 1) \div Cols
             /\ \A l \in DOMAIN d, k \in 1 .. Cols :
                  LET pos == (l - 1) * Cols + k
                  IN  /\ d[l].offset = (l - 1) * Cols
                      /\ d[l].hex[k] = IF pos <= m THEN Message(c)[pos] ELSE Blank
                      /\ d[l].text[k] \in IF pos <= m THEN {Message(c)[pos], Dot}
                                                      ELSE {Blank}
<1> DEFINE N    == Bound(Unsigned(n)) \div Cols
           mem  == Buffer(c, n)
           d    == Lines(mem, n)
<1>1. /\ N = (m + Cols - 1) \div Cols /\ N \in Nat
      /\ N > 0 => Unsigned(n) = m
  BY Rounded
<1>2. d = [l \in 1 .. N |->
             [offset |-> (l - 1) * Cols,
              hex  |-> [k \in 1 .. Cols |->
                          HexCell(mem, Unsigned(n), (l - 1) * Cols + k - 1)],
              text |-> [k \in 1 .. Cols |->
                          TextCell(mem, Unsigned(n), (l - 1) * Cols + k - 1)]]]
  BY DEF Lines
<1> HIDE DEF d, N
<1>3. Len(d) = N /\ DOMAIN d = 1 .. N
  BY <1>1, <1>2
<1>4. ASSUME NEW l \in 1 .. N, NEW k \in 1 .. Cols
      PROVE  LET pos == (l - 1) * Cols + k
             IN  /\ d[l].offset = (l - 1) * Cols
                 /\ d[l].hex[k] = IF pos <= m THEN Message(c)[pos] ELSE Blank
                 /\ d[l].text[k] \in IF pos <= m THEN {Message(c)[pos], Dot} ELSE {Blank}
  <2> DEFINE i == (l - 1) * Cols + k - 1
  <2>1. l - 1 \in Nat /\ Cols \in Nat /\ (l - 1) * Cols \in Nat
    BY <1>1, HexdumpAssumption, Product
  <2>2. i \in Nat /\ i + 1 = (l - 1) * Cols + k
    BY <2>1
  <2>3. /\ d[l].offset = (l - 1) * Cols
        /\ d[l].hex[k] = HexCell(mem, m, i)
        /\ d[l].text[k] = TextCell(mem, m, i)
    BY <1>1, <1>2
  <2>4. ASSUME i < m PROVE mem[i] = Message(c)[i + 1]
    <3>1. i \in 0 .. 2^UintBits - 1 /\ i < n
      BY <2>2, <2>4, EchoAssumption
    <3> HIDE DEF i
    <3> QED
      BY <3>1 DEF Buffer
  <2> HIDE DEF i, mem
  <2> QED
    BY <2>2, <2>3, <2>4 DEF HexCell, TextCell
<1> QED
  BY <1>1, <1>3, <1>4 DEF d

\* What a callback has printed is hexdump()'s work on what it has read.
Printed ==
  /\ DOMAIN dump = Conn
  /\ \A c \in Conn :
       cb[c] \in {"read", "done"} => dump[c] = Lines(Buffer(c, rx[c]), rx[c])

LEMMA PrintedStep == EchoInv /\ Printed /\ [EchoNext]_vars => Printed'
<1> SUFFICES ASSUME EchoInv, Printed, [EchoNext]_vars PROVE Printed'
  OBVIOUS
<1>1. /\ cb \in [Conn -> {"none", "called", "read", "done"}]
      /\ rx \in [Conn -> -1 .. RxSize]
  BY DEF EchoInv, EchoTypeOK
<1>2. CASE UNCHANGED cbVars
  BY <1>2 DEF Printed, cbVars
<1>3. ASSUME NEW c \in Conn, CallbackRead(c) PROVE Printed'
  BY <1>1, <1>3 DEF Printed, CallbackRead
<1>4. ASSUME NEW c \in Conn, CallbackWrite(c) PROVE Printed'
  BY <1>1, <1>4 DEF Printed, CallbackWrite
<1>5. ASSUME NEW c \in Conn, NEW w \in Worker, CallbackCalled(c, w) PROVE Printed'
  BY <1>1, <1>5 DEF Printed, CallbackCalled
<1>6. UNCHANGED cbVars \/ \E c \in Conn : Served(c)
  BY DEF EchoNext, vars, Main, StartThread, StartFails, Started, Join, Exit, Client,
         ClientConnects, ClientSends, ThreadReceives, StrangerLeaves, Arrive, ArriveLate,
         Library, LibraryShuts
<1> QED
  BY <1>2, <1>3, <1>4, <1>5, <1>6 DEF Served, CallbackReturns

\* hexdump() prints what was read, each byte once and in order, in whole lines,
\* and nothing for a read that has failed.
THEOREM DumpShowsReadCorrect ==
  ASSUME DumpFits
  PROVE  EchoSpec => []DumpShowsRead
<1>1. EchoInit => Printed
  BY DEF EchoInit, Printed
<1>2. EchoInv /\ Printed => DumpShowsRead
  <2> SUFFICES ASSUME EchoInv, Printed, NEW c \in Conn, cb[c] \in {"read", "done"}
               PROVE  LET n == Max({rx[c], 0})
                      IN  /\ Len(dump[c]) = (n + Cols - 1) \div Cols
                          /\ \A l \in DOMAIN dump[c], k \in 1 .. Cols :
                               LET pos == (l - 1) * Cols + k
                               IN  /\ dump[c][l].offset = (l - 1) * Cols
                                   /\ dump[c][l].hex[k] =
                                        IF pos <= n THEN Message(c)[pos] ELSE Blank
                                   /\ dump[c][l].text[k] \in
                                        IF pos <= n THEN {Message(c)[pos], Dot}
                                                    ELSE {Blank}
    BY DEF DumpShowsRead
  <2>1. rx[c] \in -1 .. RxSize /\ RxSize \in Nat
    BY EchoAssumption DEF EchoInv, EchoTypeOK
  <2>2. rx[c] <= MsgSize(c)
    <3>1. arrived[c] \in Nat /\ MsgSize(c) \in Nat
      BY Sizes, MessageParts DEF EchoInv, EchoTypeOK
    <3>2. arrived[c] + rx[c] <= MsgSize(c)
      BY DEF EchoInv, Wire
    <3> QED
      BY <2>1, <3>1, <3>2
  <2>3. Max({rx[c], 0}) \in Nat /\ Max({rx[c], 0}) = IF rx[c] > 0 THEN rx[c] ELSE 0
    BY <2>1, MaxOfTwo
  <2>4. dump[c] = Lines(Buffer(c, rx[c]), rx[c])
    BY DEF Printed
  <2>5. rx[c] <= MsgSize(c) /\ DumpFits
    BY <2>2
  <2> DEFINE n == rx[c]
             m == Max({rx[c], 0})
             d == Lines(Buffer(c, n), n)
  <2>6. /\ n \in -1 .. RxSize /\ n <= MsgSize(c) /\ DumpFits /\ m \in Nat
        /\ m = IF n > 0 THEN n ELSE 0
    BY <2>1, <2>3, <2>5
  <2> HIDE DEF n, m
  <2>7. /\ Len(d) = (m + Cols - 1) \div Cols
        /\ \A l \in DOMAIN d, k \in 1 .. Cols :
             LET pos == (l - 1) * Cols + k
             IN  /\ d[l].offset = (l - 1) * Cols
                 /\ d[l].hex[k] = IF pos <= m THEN Message(c)[pos] ELSE Blank
                 /\ d[l].text[k] \in IF pos <= m THEN {Message(c)[pos], Dot} ELSE {Blank}
    BY <2>6, LinesShow
  <2> QED
    BY <2>4, <2>7 DEF n, m
<1> QED
  BY <1>1, <1>2, PrintedStep, EchoInvariant, EchoInitInv, PTL DEF EchoSpec
=============================================================================
