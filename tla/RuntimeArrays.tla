--------------------------- MODULE RuntimeArrays ---------------------------
(***************************************************************************)
(* The consumers of consecutive items side by side: a caller either reads  *)
(* a stream of representations (WireStream, over this module's stream      *)
(* variables) or one counted array (CountedArray, over its own).  They     *)
(* share the item contract and no state.                                   *)
(***************************************************************************)
EXTENDS WireStream

CONSTANTS ArrayContents, Counts, MaxLength, UsizeMax

VARIABLES
  reads, \* "stream" or "array"
  item, content, count, available, view, index, cursor, failed, reply

arrayVars == <<item, content, count, available, view, index, cursor, failed, reply>>

Counted == INSTANCE CountedArray WITH
             Contents <- ArrayContents, text <- content, answer <- reply

ASSUME RuntimeArraysAssumption == Counted!CountedArrayAssumption

Unread ==
  /\ item = Schema(0, TRUE) /\ content = <<>> /\ count = 0 /\ available = 0
  /\ view = [length |-> 0, proved |-> FALSE] /\ index = 0 /\ cursor = 0
  /\ failed = FALSE /\ reply = "unframed"

ArraysInit ==
  /\ Init
  /\ \/ reads = "stream" /\ Unread
     \/ reads = "array" /\ Counted!Init

Streaming == reads = "stream" /\ UNCHANGED <<reads, arrayVars>>
Counting  == reads = "array" /\ UNCHANGED <<reads, vars>>

ArraysNext ==
  \/ \E n \in 1..StreamLength : Streaming /\ Arrive(n)
  \/ \E s \in Schemas :
       \/ Streaming /\ Open("cursor", s)
       \/ Streaming /\ Open("variable", s)
       \/ Streaming /\ CursorRead(s)
       \/ Streaming /\ RefuseFixed(s)
  \/ Streaming /\ \E s \in {t \in Schemas : t.fixed > 0} :
       \E contents \in BoundedSeq(Contents, 1 + StreamLength \div s.fixed) :
         OpenFixed(s, contents)
  \/ Streaming /\ NextFixed
  \/ Streaming /\ NextVariable
  \/ Counting /\ Counted!FrameLeading
  \/ Counting /\ Counted!FrameTerminal
  \/ Counting /\ Counted!Iter
  \/ Counting /\ Counted!NextItem

ArraysSpec == ArraysInit /\ [][ArraysNext]_<<vars, reads, arrayVars>>

(* The eager checks of one array agree with reading it lazily: copying a   *)
(* facade succeeds exactly when iterating it does, and what the parent     *)
(* proved about the extent still holds then (CountedArray).                *)
EagerMatchesLazy ==
  reads = "array" => Counted!ExactBytesAgrees /\ Counted!ProvedExtentHolds
=============================================================================
