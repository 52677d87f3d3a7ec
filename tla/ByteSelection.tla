--------------------------- MODULE ByteSelection ---------------------------
(***************************************************************************)
(* Physical byte selections: the merged chunks of the fields a caller      *)
(* includes, or of everything but the fields it excludes, computed without *)
(* sorting or storing the ranges.                                          *)
(*                                                                         *)
(* Source: wire-repr/src/schema/selection.rs.                              *)
(*                                                                         *)
(* The expression is the sequence of ranges its fields resolve to, in the  *)
(* order they were named: in any order, nested, repeated, empty, and for a *)
(* manual schema beyond the represented bytes.                             *)
(***************************************************************************)
EXTENDS Integers, Sequences, FiniteSets, FiniteSetsExt, SequencesExt

CONSTANTS
  MaxLength, \* longest representation (model bound)
  MaxFields  \* most fields in an expression (model bound)

ASSUME ByteSelectionAssumption == MaxLength \in Nat /\ MaxFields \in Nat

VARIABLES
  length, \* represented bytes
  fields, \* the ranges of the expression
  kept,   \* include (TRUE) or exclude
  cursor,
  done,
  chunks  \* handed out so far, as ranges

vars == <<length, fields, kept, cursor, done, chunks>>

-----------------------------------------------------------------------------
(* for_each_range: what the expression visits.                             *)
Visits(r) == r.start < r.end /\ r.end <= length
Visited   == {r \in Range(fields) : Visits(r)}

(* Mutant: ranges that only touch are kept apart.                          *)
AbsorbedApart(from, end, r) ==
  IF Visits(r) /\ r.start < end /\ r.end > from /\ r.end > end THEN r.end ELSE end

(* An end moves over a range that overlaps or touches it.                  *)
Absorbed(from, end, r) ==
  IF Visits(r) /\ r.start <= end /\ r.end > from /\ r.end > end THEN r.end ELSE end

(* One pass over the ranges, in the order they were named.                 *)
Grown(from, end) ==
  LET grown[k \in 0..Len(fields)] ==
        IF k = 0 THEN end ELSE Absorbed(from, grown[k - 1], fields[k])
  IN  grown[Len(fields)]

(* Mutant: one pass is taken to be enough.                                 *)
MergedOnce(from, end) == Grown(from, end)

(* Passes until one changes nothing; as every other moves the end on, and  *)
(* not beyond the input, it has stopped after `length' of them.            *)
Merged(from, end) ==
  LET merged[pass \in 0..length] ==
        IF pass = 0 THEN end ELSE Grown(from, merged[pass - 1])
  IN  merged[length]

Ends(from)   == {r \in Visited : r.end > from}
Starts(from) == {r.start : r \in {q \in Visited : q.start > from}}

(* next_included: an empty result is the end of the iteration.             *)
NextIncluded ==
  IF Ends(cursor) = {} THEN [start |-> cursor, end |-> cursor]
  ELSE LET start == Min({Max({r.start, cursor}) : r \in Ends(cursor)})
       IN  [start |-> start, end |-> Merged(start, start)]

(* next_excluded: skip what is covered, then run to the next range.        *)
NextExcluded ==
  LET from == Merged(cursor, cursor)
  IN  IF from >= length THEN [start |-> length, end |-> length]
      ELSE [start |-> from, end |-> Min(Starts(from) \cup {length})]

Init ==
  /\ length \in 0..MaxLength /\ kept \in BOOLEAN
  /\ fields \in BoundedSeq([start : 0..MaxLength, end : 0..(MaxLength + 1)], MaxFields)
  /\ cursor = 0 /\ done = FALSE /\ chunks = <<>>

(* SelectionChunks::next                                                   *)
NextChunk ==
  LET chunk == IF kept THEN NextIncluded ELSE NextExcluded
  IN  /\ ~done
      /\ cursor' = chunk.end
      /\ IF chunk.start = chunk.end
         THEN done' = TRUE /\ UNCHANGED chunks
         ELSE chunks' = Append(chunks, chunk) /\ UNCHANGED done
      /\ UNCHANGED <<length, fields, kept>>

Next == NextChunk

Spec == Init /\ [][Next]_vars

-----------------------------------------------------------------------------
Bytes(r) == r.start..(r.end - 1)

(* The bytes the caller means.                                             *)
Selected ==
  LET named == UNION {Bytes(r) : r \in {q \in Range(fields) : q.end <= length}}
  IN  IF kept THEN named ELSE (0..(length - 1)) \ named

(* At every moment the chunks handed out hold the selected bytes up to the *)
(* cursor, none missing, none twice, none that was not asked for: in       *)
(* physical order and maximally merged, so that between two of them lies a *)
(* byte that was not selected.                                             *)
ChunksExact ==
  /\ UNION {Bytes(c) : c \in Range(chunks)} = {b \in Selected : b < cursor}
  /\ done => \A b \in Selected : b < cursor
  /\ \A k \in 2..Len(chunks) : chunks[k].start > chunks[k - 1].end
=============================================================================
