------------------------------- MODULE Hexdump -------------------------------
(***************************************************************************)
(* hexdump(): which bytes of a buffer it reads, and what it prints of      *)
(* them.  The length is an unsigned int, and its arithmetic wraps.         *)
(***************************************************************************)
EXTENDS Integers, Sequences

CONSTANTS
  Cols,        \* HEXDUMP_COLS
  UintBits,    \* width of an unsigned int
  Printable,   \* bytes that isprint() accepts
  Blank, Dot   \* what is printed where there is no byte, or none printable

ASSUME HexdumpAssumption ==
  /\ Cols \in Nat \ {0}
  /\ UintBits \in Nat \ {0}
  /\ 2^UintBits % Cols = 0

\* The conversion of the argument: -1 becomes the largest length.
Unsigned(n) == n % 2^UintBits

Padding(len) == IF len % Cols = 0 THEN 0 ELSE Cols - (len % Cols)

\* Mutant of Bound: computed in a wider type, it does not wrap.
BoundWide(len) == len + Padding(len)

\* The length rounded up to whole lines.
Bound(len) == Unsigned(len + Padding(len))

HexCell(mem, len, k)  == IF k < len THEN mem[k] ELSE Blank
TextCell(mem, len, k) ==
  IF k >= len THEN Blank ELSE IF mem[k] \in Printable THEN mem[k] ELSE Dot

\* The lines printed for a buffer with what follows
\* it in memory, mem.
Lines(mem, n) ==
  LET len == Unsigned(n)
      Line(l) == [offset |-> l * Cols,
                  hex    |-> [k \in 1 .. Cols |-> HexCell(mem, len, l * Cols + k - 1)],
                  text   |-> [k \in 1 .. Cols |-> TextCell(mem, len, l * Cols + k - 1)]]
  IN  [l \in 1 .. Bound(len) \div Cols |-> Line(l - 1)]
=============================================================================
