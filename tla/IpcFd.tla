------------------------------- MODULE IpcFd -------------------------------
(***************************************************************************)
(* Descriptor passing over one socketpair(AF_LOCAL, SOCK_STREAM), as       *)
(* src/src/ipc_fd.c wraps it: a one-byte command travels with at most one  *)
(* descriptor.  A command byte and its descriptor are one message, because *)
(* every reader asks for a single byte.                                    *)
(***************************************************************************)
EXTENDS Naturals, Sequences

CONSTANTS
  Conn,          \* connected sockets a client can open
  NoConn,        \* the descriptor -1
  FdTruncation   \* TRUE when the receiver's descriptor table can be full

ASSUME ConnAssumption ==
  /\ NoConn \notin Conn
  /\ FdTruncation \in BOOLEAN

Message == [cmd : {"p", "s"}, conn : Conn \cup {NoConn}]

\* Mutant of IpcFdWrite: the byte is sent, the control message is not.
IpcFdWriteByteOnly(queue, cmd, sendfd) ==
  Append(queue, [cmd |-> cmd, conn |-> NoConn])

\* ipc_fd_write(): sendmsg() with SCM_RIGHTS.  A descriptor of -1 makes it
\* fail with EBADF before a byte is queued.
IpcFdWrite(queue, cmd, sendfd) ==
  IF sendfd = NoConn THEN queue
  ELSE Append(queue, [cmd |-> cmd, conn |-> sendfd])

\* Mutant of ByteWrite: the byte overtakes what is queued.
ByteWriteUrgent(queue, cmd) == <<[cmd |-> cmd, conn |-> NoConn]>> \o queue

\* write() of a command byte without a descriptor.
ByteWrite(queue, cmd) == Append(queue, [cmd |-> cmd, conn |-> NoConn])

\* ipc_fd_read() of message m: the values it may leave in *recvfd.  A
\* descriptor that does not fit the receiver's table is dropped by the
\* kernel (MSG_CTRUNC), and the reader sees "descriptor was not passed".
IpcFdRead(m) ==
  {m.conn} \cup (IF FdTruncation THEN {NoConn} ELSE {})
=============================================================================
