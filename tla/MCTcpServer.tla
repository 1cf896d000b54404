----------------------------- MODULE MCTcpServer -----------------------------
(***************************************************************************)
(* Constants for model-checking TcpServer.                                 *)
(*                                                                         *)
(* The listening socket is descriptor 3, as in a process started with the  *)
(* standard three open, so a pool of three has pipes 4, 5 and 6 and select *)
(* is called with maxfdp = 6.  A word of an fd_set has 2 bits instead of   *)
(* 64: descriptor 6 then starts a word of its own that select() does not   *)
(* copy back, as descriptor 64 does in a pool of 61 workers.               *)
(***************************************************************************)
EXTENDS ServiceRefinement, TLC

CONSTANTS c1, c2, c3, c4

TwoConns   == {c1, c2}
ThreeConns == {c1, c2, c3}
FourConns  == {c1, c2, c3, c4}

LastSilent   == {c4}
SecondSilent == {c2}

Symmetry == Permutations(Conn)

\* Where SIGINT may arrive.
Nowhere    == {}
Anywhere   == PC \ ({"exit"} \cup Hung)
BeforeTest == {"blocked", "check"}
Loop       == {"loop"}
Blocked    == {"blocked"}

NoScope     == {}
ParentOnly  == {"parent"}
GroupOnly   == {"group"}
BothScopes  == {"parent", "group"}
=============================================================================
