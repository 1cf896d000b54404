------------------------------ MODULE MCExample ------------------------------
(***************************************************************************)
(* Constants for model-checking EchoExample: a thread's message is a whole *)
(* line of the dump, a stranger's is longer than the callback's buffer,    *)
(* and what the callback reads of it ends inside a line.  Of two workers   *)
(* the server watches the first.                                           *)
(***************************************************************************)
EXTENDS EchoExample

CONSTANTS s1, w1, w2

AllConns    == Thread \cup {s1}
TwoWorkers  == {w1, w2}
FirstOnly   == {w1}
Stranger    == {s1}
FirstThread == {0}
FirstBytes  == {<<c, 1>> : c \in AllConns}
Options     == {0, 1023, 1024, 49152}
=============================================================================
