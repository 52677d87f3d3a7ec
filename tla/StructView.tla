----------------------------- MODULE StructView -----------------------------
(***************************************************************************)
(* The view half of the derive for a struct: a declaration is normalised   *)
(* field by field and accepted; the generated frame, or frame_exact, walks *)
(* the fields over the available bytes and retains a partial descriptor;   *)
(* the generated getters later recompute every field's range from that     *)
(* descriptor and the length of the represented bytes.                     *)
(*                                                                         *)
(* Source: wire-repr-macros/src/derive/schema/view.rs, on the field-wise   *)
(* framing of WireFraming.                                                 *)
(*                                                                         *)
(* Bytes are abstracted to what framing reads from a field wherever it     *)
(* starts: the value of a controller, the extent of a child or an encoded  *)
(* integer, and whether it is acceptable.  Fields never overlap, so this   *)
(* content does not depend on how many bytes are available.                *)
(***************************************************************************)
EXTENDS WireFraming

CONSTANTS
  Families,    \* field declarations to combine into one struct, and the
               \* most fields of such a struct (model bound)
  Values,      \* controller values
  Extents,     \* encoded lengths of variable children and integers
  Lengths      \* lengths of available input

ASSUME StructViewAssumption ==
  /\ \A family \in Families : family.longest \in Nat /\ family.fields \subseteq Field
  /\ Values \subseteq Nat /\ Lengths \subseteq Nat
  /\ Extents \subseteq Nat \ {0}
  /\ \A n \in Lengths : FrameOffset + n <= UsizeMax

VARIABLES
  fields,     \* the struct
  stage,      \* "declaring", "framing", "framed" or "failed"
  exact,      \* frame_exact instead of frame
  available,  \* length of the input
  text,       \* content met so far, one record per framed field
  cursor,     \* geometry_cursor
  spans,      \* range of each framed field
  descriptor, \* the range ends the view retains
  fault       \* why framing stopped

vars == <<fields, stage, exact, available, text, cursor, spans, descriptor,
          fault>>

-----------------------------------------------------------------------------
Nothing == [starts |-> <<>>, ends |-> <<>>]

Init ==
  /\ fields = <<>> /\ stage = "declaring"
  /\ exact = FALSE /\ available = 0 /\ text = <<>> /\ cursor = 0
  /\ spans = <<>> /\ descriptor = Nothing /\ fault = Span(0, 0)

Framing == <<text, cursor, spans, descriptor, fault>>

(* One round of Schema::parse.                                             *)
Declare(f) ==
  /\ stage = "declaring" /\ Normalizes(fields, f)
  /\ fields' = Append(fields, f)
  /\ UNCHANGED <<stage, exact, available, Framing>>

(* The derive accepts the struct and a caller frames some input with it.   *)
Derive(exactly, length) ==
  /\ stage = "declaring" /\ Accepted(fields)
  /\ stage' = "framing" /\ exact' = exactly /\ available' = length
  /\ UNCHANGED <<fields, Framing>>

(* Content of a field, as far as it matters for its kind.                  *)
Contents(s, i) ==
  LET f == s[i]
      values  == IF Controller(s, i) THEN Values
                 ELSE IF Numeric(f) /\ f.type = "bool" THEN {0, 1} ELSE {0}
      extents == IF f.kind \in {"varint", "nested", "array"} THEN Extents ELSE {1}
      fine    == IF \/ f.kind \in {"nested", "array", "varint"} \/ f.const
                    \/ (Numeric(f) /\ f.type \in {"bool", "custom"})
                 THEN BOOLEAN ELSE {TRUE}
  IN  [ok : fine, value : values, extent : extents]

(* One field of the generated frame function.                              *)
Frame(content) ==
  LET i     == Len(text) + 1
      read  == Append(text, content)
      taken == FrameField(fields, read, i, cursor, available, exact)
  IN  /\ stage = "framing" /\ i <= Len(fields)
      /\ text' = read
      /\ IF taken.tag = "ok"
         THEN /\ cursor' = taken.end /\ spans' = Append(spans, taken)
              /\ UNCHANGED <<stage, fault>>
         ELSE /\ fault' = taken /\ stage' = "failed"
              /\ UNCHANGED <<cursor, spans>>
      /\ UNCHANGED <<fields, exact, available, descriptor>>

(* Frame::new with the descriptor; view additionally rejects a remainder.  *)
Finish ==
  /\ stage = "framing" /\ Len(text) = Len(fields)
  /\ IF exact /\ cursor < available
     THEN stage' = "failed" /\ fault' = Fault("trailing") /\ UNCHANGED descriptor
     ELSE /\ stage' = "framed" /\ descriptor' = Retained(fields, spans)
          /\ UNCHANGED fault
  /\ UNCHANGED <<fields, exact, available, text, cursor, spans>>

(* The fields that a caller of the model may declare next.                 *)
Candidates ==
  LET open == {family \in Families : /\ Len(fields) < family.longest
                                     /\ Range(fields) \subseteq family.fields}
  IN  UNION {family.fields : family \in open}

Next ==
  \/ /\ stage = "declaring"
     /\ \E f \in Candidates : Declare(f)
  \/ /\ stage = "declaring"
     /\ \E exactly \in BOOLEAN, length \in Lengths : Derive(exactly, length)
  \/ \E i \in {Len(text) + 1} \cap DOMAIN fields :
       \E content \in Contents(fields, i) : Frame(content)
  \/ Finish

Spec == Init /\ [][Next]_vars

-----------------------------------------------------------------------------
(* Framing the same bytes again, with another boundary.                    *)
Refield(run, i, length, exactly) ==
  LET taken == FrameField(fields, text, i, run.at, length, exactly)
  IN  IF run.fault.tag # "ok" THEN run
      ELSE IF taken.tag # "ok" THEN [run EXCEPT !.fault = taken]
      ELSE [run EXCEPT !.at = taken.end, !.spans = Append(@, taken)]

Reframe(length, exactly) ==
  LET run[i \in 0..Len(text)] ==
        IF i = 0 THEN [at |-> 0, spans |-> <<>>, fault |-> Span(0, 0)]
        ELSE Refield(run[i - 1], i, length, exactly)
  IN  run[Len(text)]

(* Properties.  The represented bytes of a framed view are those up to the *)
(* cursor.                                                                 *)
Framed == stage = "framed"

(* A view keeps only some starts and ends.  Its getters nevertheless       *)
(* answer the very range that framing checked, for every field.            *)
RangesReconstructed ==
  Framed => LET ranges == Ranges(fields, descriptor, cursor)
            IN  \A i \in DOMAIN fields :
                  ranges[i] = [start |-> spans[i].start, end |-> spans[i].end]

(* FIXED_SIZE, on which parents, arrays and FixedViews compute offsets, is *)
(* the length of every representation.                                     *)
FixedSizeHonest ==
  Framed /\ FIXED_SIZE(fields) # None => cursor = FIXED_SIZE(fields)

(* A schema with a leading extent finds the same boundary and the same     *)
(* ranges whatever follows its representation; framed again with exactly   *)
(* its own bytes it is accepted as a whole.                                *)
PrefixDetermined ==
  Framed /\ ~exact /\ LEADING_EXTENT(fields) =>
    /\ \A length \in {n \in Lengths : cursor <= n} : Reframe(length, FALSE).spans = spans
    /\ Reframe(cursor, TRUE).spans = spans

(* Every proper prefix of a representation is reported as incomplete, by   *)
(* an amount that never exceeds what is missing.                           *)
IncompleteNeedsMore ==
  Framed /\ ~exact /\ LEADING_EXTENT(fields) =>
    \A length \in 0..(cursor - 1) :
      LET cut == Reframe(length, FALSE).fault
      IN  cut.tag = "need_more" /\ cut.more \in 1..(cursor - length)
=============================================================================
