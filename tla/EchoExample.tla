----------------------------- MODULE EchoExample -----------------------------
(***************************************************************************)
(* The example: examples/client/client.py, some clients that are not       *)
(* client.py, and examples/server/main.c with its callback, between them   *)
(* TCP connections.  What the library does with a connection is taken from *)
(* its abstract specification, ConnService, while nothing fails.           *)
(***************************************************************************)
EXTENDS ConnService, Hexdump, FiniteSetsExt

CONSTANTS
  ThreadsN,     \* client.py -n
  Strangers,    \* the other clients
  Splittable,   \* the clients whose message may arrive in pieces (bound)
  MsgLen,       \* length of what a thread sends
  StrangeLen,   \* length of what a stranger sends
  RxSize,       \* size of the callback's buffer
  Garbage,      \* what the stack holds in the buffer and after it
  RecvSize,     \* size of the thread's recv()
  PortOptions,  \* main.c -p: values given, 0 for none
  PortMin, PortMax,
  DfltPort,     \* the server's, for an option it does not accept
  ClientPort,   \* client.py --port, or its own default
  Watched       \* the workers whose reports the server collects

Thread == 0 .. ThreadsN - 1

ASSUME EchoAssumption ==
  /\ ThreadsN \in Nat
  /\ Conn = Thread \cup Strangers /\ Thread \cap Strangers = {}
  /\ MsgLen \in 1 .. RxSize /\ MsgLen <= RecvSize
  /\ 2^UintBits \in Nat /\ RxSize < 2^UintBits - 1
  /\ StrangeLen \in Nat \ {0} /\ RxSize \in Nat /\ RecvSize \in Nat
  /\ PortOptions \subseteq Nat /\ PortMin \in Nat /\ PortMax \in Nat
  /\ DfltPort \in PortMin .. PortMax /\ ClientPort \in Nat
  /\ Watched \subseteq Worker

VARIABLES
  serverPort,   \* the port main.c has chosen
  mainPc,       \* client.py's main thread
  index,        \* the loop's
  cpc,          \* each client
  sent,         \* has the client sent its message?
  arrived,      \* bytes that wait at the server's end of its connection
  left,         \* how the client's end was closed
  cb,           \* how far its callback has come
  rx,           \* the result of the callback's read()
  dump,         \* what the callback has printed
  echo,         \* bytes on their way back to the client
  closed,       \* how the server's end was closed
  received,     \* what recv() has returned
  whole         \* nothing of the connection's was split on the way (history)

clientVars == <<serverPort, mainPc, index, cpc, sent, left, received>>
netVars    == <<arrived, echo, closed, whole>>
cbVars     == <<cb, rx, dump>>
vars       == <<connVars, clientVars, netVars, cbVars>>

Message(c) ==
  [k \in 1 .. IF c \in Thread THEN MsgLen ELSE StrangeLen |-> <<c, k>>]

EchoTypeOK ==
  /\ serverPort \in PortMin .. PortMax
  /\ mainPc \in {"start", "join", "returned", "exited"}
  /\ index \in 0 .. ThreadsN
  /\ cpc \in [Conn -> {"idle", "connect", "send", "recv", "done", "failed"}]
  /\ sent \in SUBSET Conn
  /\ \A c \in Conn : arrived[c] \in 0 .. Len(Message(c))
  /\ left \in [Conn -> {"no", "fin", "rst"}]
  /\ cb \in [Conn -> {"none", "called", "read", "done"}]
  /\ rx \in [Conn -> -1 .. RxSize]
  /\ closed \in [Conn -> {"no", "fin", "rst"}]
  /\ whole \in [Conn -> BOOLEAN]

\* main.c: a port outside the range for users is replaced.

\* Mutant of ServerPort: the range starts at 1.
ServerPortFromOne(port) ==
  IF port < 1 \/ port > PortMax THEN DfltPort ELSE port

ServerPort(port) ==
  IF port < PortMin \/ port > PortMax THEN DfltPort ELSE port

EchoInit ==
  /\ ServiceInit
  /\ \E port \in PortOptions : serverPort = ServerPort(port)
  /\ mainPc = "start" /\ index = 0
  /\ cpc = [c \in Conn |-> IF c \in Thread THEN "idle" ELSE "connect"]
  /\ sent = {}
  /\ left = [c \in Conn |-> "no"]
  /\ received = [c \in Conn |-> <<>>]
  /\ arrived = [c \in Conn |-> 0]
  /\ echo = [c \in Conn |-> <<>>]
  /\ closed = [c \in Conn |-> "no"]
  /\ whole = [c \in Conn |-> TRUE]
  /\ cb = [c \in Conn |-> "none"]
  /\ rx = [c \in Conn |-> 0]
  /\ dump = [c \in Conn |-> <<>>]

Ended(c) == cpc[c] \in {"done", "failed"}

-----------------------------------------------------------------------------
\* client.py, main()

StartThread ==
  /\ mainPc = "start" /\ index < ThreadsN
  /\ cpc' = [cpc EXCEPT ![index] = "connect"]
  /\ index' = index + 1
  /\ UNCHANGED <<connVars, serverPort, mainPc, sent, left, received, netVars, cbVars>>

\* start() raises: the threads that run are not waited for here.
StartFails ==
  /\ mainPc = "start" /\ index < ThreadsN
  /\ mainPc' = "returned"
  /\ UNCHANGED <<connVars, serverPort, index, cpc, sent, left, received, netVars,
                 cbVars>>

Started ==
  /\ mainPc = "start" /\ index = ThreadsN
  /\ mainPc' = "join" /\ index' = 0
  /\ UNCHANGED <<connVars, serverPort, cpc, sent, left, received, netVars, cbVars>>

Join ==
  /\ mainPc = "join"
  /\ \/ /\ index < ThreadsN /\ Ended(index)
        /\ index' = index + 1 /\ mainPc' = mainPc
     \/ /\ index = ThreadsN
        /\ mainPc' = "returned" /\ index' = index
  /\ UNCHANGED <<connVars, serverPort, cpc, sent, left, received, netVars, cbVars>>

\* The interpreter waits for the threads that are left.
Exit ==
  /\ mainPc = "returned" /\ \A c \in Thread : cpc[c] = "idle" \/ Ended(c)
  /\ mainPc' = "exited"
  /\ UNCHANGED <<connVars, serverPort, index, cpc, sent, left, received, netVars,
                 cbVars>>

-----------------------------------------------------------------------------
\* client_thread(), and what another client does

\* It fails if nobody listens where the client asks, and may if the accept
\* queue stays full.
ClientConnects(c) ==
  /\ cpc[c] = "connect"
  /\ \/ /\ serverPort = ClientPort /\ Connect(c)
        /\ cpc' = [cpc EXCEPT ![c] = "send"]
     \/ /\ ~open \/ serverPort # ClientPort \/ Len(queue) >= Backlog
        /\ cpc' = [cpc EXCEPT ![c] = "failed"]
        /\ UNCHANGED connVars
  /\ UNCHANGED <<serverPort, mainPc, index, sent, left, received, netVars, cbVars>>

ClientSends(c) ==
  /\ cpc[c] = "send"
  /\ IF closed[c] = "rst"
       THEN cpc' = [cpc EXCEPT ![c] = "failed"] /\ sent' = sent
       ELSE cpc' = [cpc EXCEPT ![c] = "recv"] /\ sent' = sent \cup {c}
  /\ UNCHANGED <<connVars, serverPort, mainPc, index, left, received, netVars, cbVars>>

\* recv() returns what has come of the echo; a reset may destroy it.  Then the
\* thread closes its end.  (It does not see the end of the stream first: the
\* callback has written back what the thread has sent.)
ThreadReceives(c) ==
  /\ c \in Thread /\ cpc[c] = "recv"
  /\ \/ \E n \in 1 .. Min({Len(echo[c]), RecvSize}) :
          /\ received' = [received EXCEPT ![c] = SubSeq(echo[c], 1, n)]
          /\ whole' = [whole EXCEPT ![c] = @ /\ n = Len(echo[c])]
          /\ cpc' = [cpc EXCEPT ![c] = "done"]
          /\ left' = [left EXCEPT ![c] = "fin"]
     \/ /\ closed[c] = "rst"
        /\ cpc' = [cpc EXCEPT ![c] = "failed"]
        /\ UNCHANGED <<left, received, whole>>
  /\ UNCHANGED <<connVars, serverPort, mainPc, index, sent, arrived, echo, closed,
                 cbVars>>

\* A stranger leaves whenever it likes, in order or with a reset, whether it
\* has sent something or not.
StrangerLeaves(c) ==
  /\ c \in Strangers /\ cpc[c] \in {"send", "recv"}
  /\ cpc' = [cpc EXCEPT ![c] = "done"]
  /\ \E how \in {"fin", "rst"} : left' = [left EXCEPT ![c] = how]
  /\ UNCHANGED <<connVars, serverPort, mainPc, index, sent, received, netVars, cbVars>>

\* What is still on its way to the server.
Unarrived(c) ==
  IF c \in sent /\ left[c] # "rst" THEN Len(Message(c)) - arrived[c] - rx[c] ELSE 0

\* A message reaches the server at once or in pieces.
Arrive(c) ==
  /\ closed[c] = "no"
  /\ \E n \in 1 .. Unarrived(c) :
       /\ c \in Splittable \/ n = Unarrived(c)
       /\ arrived' = [arrived EXCEPT ![c] = @ + n]
       /\ whole' = [whole EXCEPT ![c] = @ /\ n = Len(Message(c))]
  /\ UNCHANGED <<connVars, clientVars, echo, closed, cbVars>>

\* A piece that comes after the server has closed its end is answered with a
\* reset.
ArriveLate(c) ==
  /\ closed[c] = "fin" /\ Unarrived(c) > 0
  /\ closed' = [closed EXCEPT ![c] = "rst"]
  /\ UNCHANGED <<connVars, clientVars, arrived, echo, whole, cbVars>>

-----------------------------------------------------------------------------
\* The library, and the callback it calls

Library ==
  /\ \/ AcceptNext
     \/ \E c \in Conn, w \in Worker : Give(c, w)
  /\ UNCHANGED <<clientVars, netVars, cbVars>>

\* What the server does not put off: it accepts when a worker it watches is
\* free, and gives the connection to such a worker at the latest.  Of the last
\* worker, whose report it never sees, nothing is expected: with a pool of one
\* the second thread may wait for ever.
LibraryServes ==
  /\ \/ AcceptNext /\ \E w \in Watched : Handled(w) = {}
     \/ \E c \in Conn, w \in Watched : Give(c, w)
  /\ UNCHANGED <<clientVars, netVars, cbVars>>

\* The connections that wait when the server stops are reset.
LibraryShuts ==
  /\ Shut
  /\ closed' = [c \in Conn |-> IF c \in Queued THEN "rst" ELSE closed[c]]
  /\ UNCHANGED <<clientVars, arrived, echo, whole, cbVars>>

CallbackCalled(c, w) ==
  /\ Begin(c, w)
  /\ cb' = [cb EXCEPT ![c] = "called"]
  /\ UNCHANGED <<clientVars, netVars, rx, dump>>

\* The callback's buffer, and the stack after it, once n bytes of c's message
\* have been read.
Buffer(c, n) ==
  [k \in 0 .. 2^UintBits - 1 |-> IF k < n THEN Message(c)[k + 1] ELSE Garbage]

\* read() has something to return: bytes, the end of the stream or an error.
Readable(c) ==
  arrived[c] > 0 \/ left[c] = "rst" \/ (left[c] = "fin" /\ Unarrived(c) = 0)

\* Mutants of CallbackRead: it asks for a byte; it reads until the client has
\* closed.
CallbackReadByte(c) ==
  /\ cb[c] = "called" /\ Readable(c)
  /\ rx' = [rx EXCEPT ![c] = IF arrived[c] > 0 THEN 1
                             ELSE IF left[c] = "rst" THEN -1 ELSE 0]
  /\ arrived' = [arrived EXCEPT ![c] = IF @ > 0 THEN @ - 1 ELSE @]
  /\ dump' = [dump EXCEPT ![c] = Lines(Buffer(c, rx'[c]), rx'[c])]
  /\ cb' = [cb EXCEPT ![c] = "read"]
  /\ UNCHANGED <<connVars, clientVars, echo, closed, whole>>
CallbackReadToEnd(c) ==
  /\ cb[c] = "called" /\ left[c] # "no"
  /\ rx' = [rx EXCEPT ![c] = Min({arrived[c], RxSize})]
  /\ arrived' = [arrived EXCEPT ![c] = @ - rx'[c]]
  /\ dump' = [dump EXCEPT ![c] = Lines(Buffer(c, rx'[c]), rx'[c])]
  /\ cb' = [cb EXCEPT ![c] = "read"]
  /\ UNCHANGED <<connVars, clientVars, echo, closed, whole>>

\* One read(), of what has arrived, and hexdump() of it, with -1 for the
\* length when read() has failed.
CallbackRead(c) ==
  /\ cb[c] = "called" /\ Readable(c)
  /\ rx' = [rx EXCEPT ![c] = IF arrived[c] > 0 THEN Min({arrived[c], RxSize})
                             ELSE IF left[c] = "rst" THEN -1 ELSE 0]
  /\ arrived' = [arrived EXCEPT ![c] = IF @ > 0 THEN @ - rx'[c] ELSE @]
  /\ dump' = [dump EXCEPT ![c] = Lines(Buffer(c, rx'[c]), rx'[c])]
  /\ cb' = [cb EXCEPT ![c] = "read"]
  /\ UNCHANGED <<connVars, clientVars, echo, closed, whole>>

\* Mutant of CallbackWrite: it writes the whole buffer.
CallbackWriteBuffer(c) ==
  /\ cb[c] = "read"
  /\ echo' = [echo EXCEPT ![c] =
       IF left[c] # "rst" THEN [k \in 1 .. RxSize |-> Buffer(c, rx[c])[k - 1]]
       ELSE @]
  /\ cb' = [cb EXCEPT ![c] = "done"]
  /\ UNCHANGED <<connVars, clientVars, arrived, closed, whole, rx, dump>>

\* write() of as many bytes; it fails for a length of -1, and when the
\* client has reset the connection.
CallbackWrite(c) ==
  /\ cb[c] = "read"
  /\ echo' = [echo EXCEPT ![c] =
       IF left[c] # "rst" /\ rx[c] >= 0
         THEN [k \in 1 .. rx[c] |-> Buffer(c, rx[c])[k - 1]] ELSE @]
  /\ cb' = [cb EXCEPT ![c] = "done"]
  /\ UNCHANGED <<connVars, clientVars, arrived, closed, whole, rx, dump>>

\* The callback returns and the worker closes the connection, which resets it
\* if something has been left unread.
CallbackReturns(c, w) ==
  /\ cb[c] = "done" /\ Finish(c, w)
  /\ closed' = [closed EXCEPT ![c] = IF arrived[c] > 0 THEN "rst" ELSE "fin"]
  /\ UNCHANGED <<clientVars, arrived, echo, whole, cbVars>>

Main == StartThread \/ StartFails \/ Started \/ Join \/ Exit
Client(c) == ClientConnects(c) \/ ClientSends(c) \/ ThreadReceives(c)
Served(c) ==
  \/ CallbackRead(c) \/ CallbackWrite(c)
  \/ \E w \in Worker : CallbackCalled(c, w) \/ CallbackReturns(c, w)

EchoNext ==
  \/ Main
  \/ \E c \in Conn : Client(c) \/ StrangerLeaves(c) \/ Served(c)
                   \/ Arrive(c) \/ ArriveLate(c)
  \/ Library \/ LibraryShuts

\* The client's threads and the network go on; the library uses the workers
\* it watches (TcpServer!EveryClientServed); strangers do not stay for ever.
EchoSpec ==
  /\ EchoInit /\ [][EchoNext]_vars
  /\ WF_vars(Main) /\ WF_vars(LibraryServes)
  /\ \A c \in Conn : /\ WF_vars(Client(c)) /\ WF_vars(StrangerLeaves(c))
                     /\ WF_vars(Arrive(c)) /\ WF_vars(Served(c))

-----------------------------------------------------------------------------
\* Properties

\* hexdump() prints what was read, each byte once and in order, in lines that
\* are full but for blanks at the end, and reads nothing beyond it: for a
\* read that has failed its loop bound wraps around to 0 (main.c:81-82,
\* hexdump.c:20).
DumpShowsRead ==
  \A c \in Conn : cb[c] \in {"read", "done"} =>
    LET n == Max({rx[c], 0})
    IN  /\ Len(dump[c]) = (n + Cols - 1) \div Cols
        /\ \A l \in DOMAIN dump[c], k \in 1 .. Cols :
             LET pos == (l - 1) * Cols + k
             IN  /\ dump[c][l].offset = (l - 1) * Cols
                 /\ dump[c][l].hex[k] = IF pos <= n THEN Message(c)[pos] ELSE Blank
                 /\ dump[c][l].text[k] \in IF pos <= n THEN {Message(c)[pos], Dot}
                                                      ELSE {Blank}

\* A thread receives a beginning of its own message and nothing else, however
\* the network splits it (main.c:81-84, client.py:48).
EchoIsOwn ==
  \A c \in Thread : received[c] = SubSeq(Message(c), 1, Len(received[c]))

\* A thread that has been served, and whose message and echo the network has
\* not split, ends with all of it and no error ("Just loopback", main.c:83).
WholeEcho ==
  \A c \in Thread \cap served : Ended(c) /\ whole[c] => received[c] = Message(c)

\* The client comes to its end: each thread gets an answer or an error,
\* though client and callback both wait for the other's bytes, and one worker
\* may be all that goes on serving (client.py:47-48, :100-101, main.c:81,
\* tcp_server_core.c:301).
ClientEnds == <>(mainPc = "exited")
=============================================================================
