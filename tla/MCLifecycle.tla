---------------------------- MODULE MCLifecycle -----------------------------
(***************************************************************************)
(* Constants for model-checking Lifecycle.                                 *)
(***************************************************************************)
EXTENDS Lifecycle

\* Any of the first eight descriptors and the last one may be open when the
\* program starts, or the first ten or eleven, as many as fit an fd_set of run
\* lifecycle; stderr is.
WithStderr ==
  {S \in SUBSET ((0 .. 7) \cup {12}) : 2 \in S} \cup {0 .. 9, 0 .. 10}

\* The program is started with stderr closed.
NoStderr == {{0, 1}}
=============================================================================
