---------------------------- MODULE WireFraming ----------------------------
(***************************************************************************)
(* What the generated view code of a struct does to one field: where the   *)
(* field starts, where it ends, what the view retains of that, and how its *)
(* getters recompute the rest.                                             *)
(*                                                                         *)
(* Source: wire-repr-macros/src/derive/schema/view.rs, on the schema model *)
(* of WireSchema.                                                          *)
(*                                                                         *)
(* Bytes are abstracted to what framing reads from a field wherever it     *)
(* starts: the value of a controller, the extent of a child or an encoded  *)
(* integer, and whether it is acceptable.  t[i] is that content of field i.*)
(***************************************************************************)
EXTENDS WireSchema, FiniteSets, FiniteSetsExt

CONSTANTS
  FrameOffset, \* absolute offset of the frame
  UsizeMax

ASSUME WireFramingAssumption == FrameOffset \in Nat /\ UsizeMax \in Nat

-----------------------------------------------------------------------------
(* Outcomes of one framing step.                                           *)

Span(start, end) == [tag |-> "ok", start |-> start, end |-> end, more |-> 0]
Fault(tag)       == [tag |-> tag, start |-> 0, end |-> 0, more |-> 0]
NeedMore(n)      == [tag |-> "need_more", start |-> 0, end |-> 0, more |-> n]

(* Mutants: the bound is forgotten; the whole field is reported missing.   *)
TakenUnbounded(start, end, length) ==
  IF end > UsizeMax THEN Fault("layout") ELSE Span(start, end)

TakenWholeField(start, end, length) ==
  IF end > UsizeMax THEN Fault("layout")
  ELSE IF end > length THEN NeedMore(end - start)
  ELSE Span(start, end)

(* input.get(start..end), its end computed with checked_add.               *)
Taken(start, end, length) ==
  IF end > UsizeMax THEN Fault("layout")
  ELSE IF end > length THEN NeedMore(end - length)
  ELSE Span(start, end)

Checked(result, fine, tag) ==
  IF result.tag = "ok" /\ ~fine THEN Fault(tag) ELSE result

(* What a child schema answers over `length' bytes.  A child without a     *)
(* leading extent reads a header and takes everything; one that ends with  *)
(* a counted array defers its items when the boundary is given.            *)
ChildFrame(child, content, length, exactly) ==
  CASE child.fixed # None ->
         Checked(Taken(0, child.fixed, length), content.ok, "schema")
    [] child.fixed = None /\ (~child.leading \/ (exactly /\ child.deferred)) ->
         IF length = 0 THEN NeedMore(1)
         ELSE Checked(Span(0, length), content.ok \/ child.leading, "schema")
    [] OTHER ->
         IF length < content.extent THEN NeedMore(1)
         ELSE Checked(Span(0, content.extent), content.ok, "schema")

(* Mutant: the shortage is counted from the first item.                    *)
ArrayExtentAll(child, content, start, n, length) ==
  LET each  == IF child.fixed >= 0 THEN child.fixed ELSE content.extent
      whole == start + each * n
  IN  IF whole > length THEN NeedMore(each * n) ELSE Span(start, whole)

(* frame_array_extent: the items from `start' on.                          *)
ArrayExtent(child, content, start, n, length) ==
  CASE child.fixed = 0 /\ n # 0 -> Fault("no_progress")
    [] child.fixed >= 0 /\ (child.fixed # 0 \/ n = 0) ->
         IF child.fixed * n > UsizeMax THEN Fault("extent")
         ELSE IF start + child.fixed * n > length
              THEN NeedMore(start + child.fixed * n - length)
         ELSE Span(start, start + child.fixed * n)
    [] OTHER ->
         LET whole == (length - start) \div content.extent
         IN  IF n > 0 /\ whole > 0 /\ ~content.ok THEN Fault("schema")
             ELSE IF n > whole THEN NeedMore(1)
             ELSE Span(start, start + n * content.extent)

-----------------------------------------------------------------------------
(* Where a field starts.                                                   *)

Present(s, t, i) == s[i].cond = 0 \/ t[s[s[i].cond].ctrl].value = 1

CheckedAlign(position, alignment) ==
  IF alignment = 0 \/ position % alignment = 0 THEN position
  ELSE position + (alignment - (position % alignment))

Position(s, t, i, at) ==
  CASE ~Present(s, t, i)      -> at
    [] s[i].at # <<>>         -> IF s[i].at[1] = "static" THEN s[i].at[2]
                                 ELSE t[s[i].at[2]].value
    [] OTHER                  -> CheckedAlign(at + s[i].pad, s[i].align)

(* Mutant: a position is taken as it comes.                                *)
FieldStartAnywhere(s, t, i, at) ==
  LET start == IF HasSequentialGeometry(s) THEN Position(s, t, i, at)
               ELSE StaticOffset(s, i)
  IN  IF start = None \/ FrameOffset + start > UsizeMax THEN Fault("layout")
      ELSE Span(start, start)

(* Structs whose offsets are all compile-time sums keep no cursor.         *)
FieldStart(s, t, i, at) ==
  LET start == IF HasSequentialGeometry(s) THEN Position(s, t, i, at)
               ELSE StaticOffset(s, i)
  IN  IF start = None THEN Fault("layout")
      ELSE IF HasSequentialGeometry(s) /\ start < at THEN Fault("before_cursor")
      ELSE IF FrameOffset + start > UsizeMax THEN Fault("layout")
      ELSE Span(start, start)

(* Where it ends: one operator per kind of field.                          *)

ScalarEnd(s, t, i, start, length) ==
  LET content == t[i]
      taken   == IF s[i].kind = "varint"
                 THEN IF start > length THEN NeedMore(start - length + 1)
                      ELSE IF start + content.extent > length THEN NeedMore(1)
                      ELSE Span(start, start + content.extent)
                 ELSE Taken(start, start + s[i].width, length)
  IN  IF ~Present(s, t, i) THEN Span(start, start)
      ELSE Checked(Checked(taken, content.ok, "schema"),
                   Controller(s, i) => content.value <= UsizeMax, "layout")

ArrayEnd(s, t, i, start, length, exactly) ==
  LET n == t[s[i].ctrl].value
  IN  IF start > length THEN NeedMore(start - length)
      ELSE IF Terminal(s, i) /\ exactly THEN Span(start, length)
      ELSE IF n # 0 /\ ~s[i].child.leading THEN Fault("layout")
      ELSE ArrayExtent(s[i].child, t[i], start, n, length)

BoundedChildEnd(s, t, i, start, length) ==
  LET declared == t[s[i].ctrl].value
      taken    == Taken(start, start + declared, length)
      framed   == ChildFrame(s[i].child, t[i], declared, TRUE)
  IN  IF taken.tag # "ok" THEN taken
      ELSE IF framed.tag # "ok" THEN Fault("child")
      ELSE Checked(taken, framed.end = declared, "extent")

ChildEnd(s, t, i, start, length, exactly) ==
  LET child    == s[i].child
      terminal == Terminal(s, i)
      framed   == ChildFrame(child, t[i], length - start, exactly /\ terminal)
  IN  IF ~terminal /\ ~Leading(child) THEN Fault("layout")
      ELSE IF ~terminal /\ child.fixed # None
           THEN Checked(Taken(start, start + child.fixed, length), t[i].ok, "schema")
      ELSE IF start > length THEN NeedMore(start - length)
      ELSE IF framed.tag = "ok" THEN Span(start, start + framed.end)
      ELSE framed

FieldEnd(s, t, i, start, length, exactly) ==
  LET f == s[i]
  IN  CASE Numeric(f)               -> ScalarEnd(s, t, i, start, length)
        [] f.kind = "bytes"         -> Checked(Taken(start, start + f.width, length),
                                               t[i].ok, "schema")
        [] f.kind \in {"flag", "bits"} -> Span(start, start)
        [] f.kind = "raw"           -> Taken(start, start + t[f.ctrl].value, length)
        [] f.kind = "rest"          -> Taken(start, Max({start, length}), length)
        [] f.kind = "array"         -> ArrayEnd(s, t, i, start, length, exactly)
        [] f.kind = "nested" /\ f.ctrl # 0 -> BoundedChildEnd(s, t, i, start, length)
        [] OTHER                    -> ChildEnd(s, t, i, start, length, exactly)

FrameField(s, t, i, at, length, exactly) ==
  LET From(start) == IF start.tag # "ok" THEN start
                     ELSE FieldEnd(s, t, i, start.start, length, exactly)
  IN  From(FieldStart(s, t, i, at))

-----------------------------------------------------------------------------
(* What the view retains, and the ranges its getters recompute from it.    *)

(* Mutant: alignment is taken for a compile-time matter.                   *)
RetainsStartUnaligned(s, i) ==
  HasSequentialGeometry(s) /\ (s[i].pad # 0 \/ s[i].at # <<>>)

RetainsStart(s, i) == HasSequentialGeometry(s) /\ Placed(s[i])

(* Mutant: children after this one pass for fixed.                         *)
HasSuffix(s, i) == ~HasExplicitGeometry(s)

HasFixedSuffix(s, i) ==
  /\ ~HasExplicitGeometry(s)
  /\ \A j \in (i + 1)..Len(s) : s[j].kind \in {"scalar", "bytes", "bits"}

(* Mutants: the end of a variable-width integer, or of an optional field,  *)
(* is left to be computed.                                                 *)
RetainsEndFixedIntegers(s, i) ==
  /\ HasSequentialGeometry(s)
  /\ \/ s[i].kind \in {"raw", "rest", "array"} \/ s[i].cond # 0
     \/ s[i].kind = "nested" /\ ~HasFixedSuffix(s, i)
     \/ s[i].kind \notin {"flag", "bits"} /\ Placed(s[i])

RetainsEndPresent(s, i) ==
  /\ HasSequentialGeometry(s)
  /\ \/ s[i].kind \in {"raw", "rest", "array", "varint"}
     \/ s[i].kind = "nested" /\ ~HasFixedSuffix(s, i)
     \/ s[i].kind \notin {"flag", "bits"} /\ Placed(s[i])

RetainsEnd(s, i) ==
  /\ HasSequentialGeometry(s)
  /\ s[i].kind \notin {"flag", "bits"}
  /\ \/ s[i].kind \in {"raw", "rest", "array", "varint"}
     \/ s[i].kind = "nested" /\ ~HasFixedSuffix(s, i)
     \/ s[i].cond # 0 \/ Placed(s[i])

Retained(s, framed) ==
  LET n == Len(framed)
  IN  [starts |-> [i \in {j \in 1..n : RetainsStart(s, j)} |-> framed[i].start],
       ends   |-> [i \in {j \in 1..n : RetainsEnd(s, j)} |-> framed[i].end]]

GeometryStart(s, d, i, previousEnd) ==
  LET static == StaticOffset(s, i)
      nested == HasNestedGeometry(s) /\ \E j \in 1..(i - 1) : s[j].kind = "nested"
  IN  CASE RetainsStart(s, i)                -> d.starts[i]
        [] ~RetainsStart(s, i) /\ ~DynamicOffset(s, i) ->
             IF nested /\ static = None THEN previousEnd ELSE static
        [] OTHER                             -> previousEnd

GeometryEnd(s, d, i, start, length) ==
  CASE RetainsEnd(s, i)                      -> d.ends[i]
    [] ~RetainsEnd(s, i) /\ s[i].kind = "nested" ->
         IF Terminal(s, i) THEN length ELSE length - SumOfSizes(s, i + 1, Len(s))
    [] OTHER                                 -> start + Size(s[i])

(* The ranges of all fields, as the getters compute them.                  *)
Ranges(s, d, length) ==
  LET range[i \in 0..Len(s)] ==
        IF i = 0 THEN [start |-> 0, end |-> 0]
        ELSE LET start == GeometryStart(s, d, i, range[i - 1].end)
             IN  [start |-> start,
                  end   |-> GeometryEnd(s, d, i, start, length)]
  IN  [i \in 1..Len(s) |-> range[i]]

=============================================================================
