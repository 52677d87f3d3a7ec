------------------------- MODULE WireRepresentation -------------------------
(***************************************************************************)
(* What the progressive output layer of wire-repr promises, without any    *)
(* of its machinery: a representation is a partial map from offsets to the *)
(* bytes the caller put there.  It grows, it is rewritten only inside the  *)
(* window that is currently open, and nothing that was put is ever lost.   *)
(* Buffers, growth requests, relocation, cursors and errors do not exist   *)
(* at this level.                                                          *)
(*                                                                         *)
(* Abstracts wire-repr/src/output.rs and output/integer.rs.                *)
(***************************************************************************)
EXTENDS Integers

CONSTANTS
  UsizeMax,  \* largest representable offset (usize::MAX, scaled down)
  Byte       \* byte values a caller may put

Offset == 0..UsizeMax

VARIABLES
  written,   \* function from the offsets put so far to their bytes
  extent,    \* offset one past the represented range
  lo, hi,    \* the open window: only lo..hi-1 may be put
  sealed     \* the representation was finished

absVars == <<written, extent, lo, hi, sealed>>

Init ==
  /\ written = [a \in {} |-> 0]
  /\ extent = 0
  /\ lo = 0 /\ hi = UsizeMax
  /\ sealed = FALSE

(* Bytes from..to-1 are put; every other byte keeps its value. *)
Put(from, to) ==
  /\ lo <= from /\ from <= to /\ to <= hi
  /\ DOMAIN written' = DOMAIN written \cup (from..(to - 1))
  /\ \A a \in DOMAIN written' :
       written'[a] \in (IF a \in from..(to - 1) THEN Byte ELSE {written[a]})
  /\ extent' = IF to > extent THEN to ELSE extent
  /\ UNCHANGED <<lo, hi, sealed>>

(* The byte at `at' is replaced by `n' bytes and at+1..end-1 slides right. *)
Splice(at, end, n) ==
  /\ lo <= at /\ at < end /\ n >= 1 /\ end <= extent /\ end + n - 1 <= hi
  /\ LET after   == end + n - 1
         touched == at..(after - 1)
         Slid(a) == a - (n - 1)
     IN  /\ DOMAIN written' =
              (DOMAIN written \ touched) \cup (at..(at + n - 1))
                \cup {a \in (at + n)..(after - 1) : Slid(a) \in DOMAIN written}
         /\ \A a \in DOMAIN written' :
              written'[a] \in (IF a \in at..(at + n - 1) THEN Byte
                               ELSE IF a \in touched THEN {written[Slid(a)]}
                               ELSE {written[a]})
         /\ extent' = IF after > extent THEN after ELSE extent
  /\ UNCHANGED <<lo, hi, sealed>>

(* A narrower window opens; reserving a gap may raise the extent to it. *)
Narrow(newLo, newHi) ==
  /\ lo <= newLo /\ newLo <= newHi /\ newHi <= hi
  /\ lo' = newLo /\ hi' = newHi
  /\ extent' \in {extent, IF newLo > extent THEN newLo ELSE extent}
  /\ UNCHANGED <<written, sealed>>

(* The window closes to an enclosing one. *)
Widen ==
  /\ lo' \in 0..lo /\ hi' \in hi..UsizeMax
  /\ UNCHANGED <<written, extent, sealed>>

(* The representation is handed to the caller as 0..extent-1. *)
Seal ==
  /\ sealed' = TRUE
  /\ UNCHANGED <<written, extent, lo, hi>>

Next ==
  /\ ~sealed
  /\ \/ \E from, to \in Offset : Put(from, to)
     \/ \E at, end \in Offset, n \in 1..UsizeMax : Splice(at, end, n)
     \/ \E newLo, newHi \in Offset : Narrow(newLo, newHi)
     \/ Widen
     \/ Seal

Spec == Init /\ [][Next]_absVars
=============================================================================
