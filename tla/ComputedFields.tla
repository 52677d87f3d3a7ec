--------------------------- MODULE ComputedFields ---------------------------
(***************************************************************************)
(* Computed fields: stored scalars whose values callbacks derive from the  *)
(* bytes of the finished struct, patched in the order of a dependency      *)
(* graph while each callback reads a view of what has been written so far. *)
(*                                                                         *)
(* Sources: wire-repr-macros/src/derive/schema/computed.rs,                *)
(* model/validation.rs, writer.rs and writer/automatic.rs (the progressive *)
(* writer), builder.rs (the detached one).  A selection a callback is      *)
(* passed iterates by the module this one extends.                         *)
(*                                                                         *)
(* Every field takes whole cells.  A cell holds a number, or what a        *)
(* callback returned: the field it was called for and the cells of each of *)
(* its arguments, so that two results are equal exactly when the callback  *)
(* saw the same bytes.  The progressive writer writes at the front of its  *)
(* output; a detached builder may follow bytes of its parent.              *)
(***************************************************************************)
EXTENDS ByteSelection

CONSTANTS
  Structs,  \* declarations (model bound)
  Parents,  \* what a parent has written before a detached builder runs
  Contents  \* Contents[kind]: what a caller may set a field of a kind to

VARIABLES
  schema, given, writer, stage,
  parent,    \* the bytes in front of the struct
  bytes,     \* the output
  retained,  \* offsets kept for fields behind a child or a payload
  set,       \* slots in the order a progressive caller has set them
  todo,      \* computed fields still to be patched, in order
  passed     \* arguments the running callback has received

structVars == <<schema, given, writer, parent, set>>
computedVars ==
  <<schema, given, writer, stage, parent, bytes, retained, set, todo, passed>>

None == -1
Num(n) == [of |-> 0 - n, from |-> <<>>]
Size(cell) == 0 - cell.of

-----------------------------------------------------------------------------
(* Acceptance.  A field is [kind, ctrl, args, fallible]; an argument is    *)
(* [op, paths], a path names a field, whole or (in a child) its first cell.*)

Computed(s) == {i \in DOMAIN s : s[i].kind = "computed"}
Slots(s)    == {i \in DOMAIN s : s[i].kind \in {"scalar", "fixed", "child", "raw"}}

(* computed_dependency_names                                               *)
Names(s, arg) ==
  IF arg.op = "exclude"
  THEN DOMAIN s \ {p.field : p \in {q \in Range(arg.paths) : q.whole}}
  ELSE {p.field : p \in Range(arg.paths)}

Dependencies(s, i) ==
  Computed(s) \cap UNION {Names(s, arg) : arg \in Range(s[i].args)}

(* Mutant: what a callback reads does not delay it.                        *)
DeclaredOrder(s) == SetToSortSeq(Computed(s), <)

(* Again and again the first declared field that waits for nobody.         *)
ComputedOrder(s) ==
  LET Another(order, i) ==
        LET remaining == Computed(s) \ Range(order)
            ready     == {c \in remaining : Dependencies(s, c) \cap remaining = {}}
        IN  IF ready = {} THEN order ELSE Append(order, Min(ready))
  IN  FoldLeftDomain(Another, <<>>, s)

(* No cycle, no control of geometry, no place behind demand geometry.      *)
Accepted(s) ==
  /\ Range(ComputedOrder(s)) = Computed(s)
  /\ \A i \in Computed(s), j \in DOMAIN s :
       s[j].kind = "raw" => i < j /\ s[j].ctrl # i

-----------------------------------------------------------------------------
(* Geometry.                                                               *)
Width(f) == CASE f.kind = "fixed" -> 2
              [] f.kind \in {"child", "raw"} -> None
              [] OTHER -> 1

(* builder_offset: the sum of the sizes before, if they are all known.     *)
Offset(s, i) ==
  IF \E j \in 1..(i - 1) : Width(s[j]) = None THEN None
  ELSE FoldLeftDomain(LAMBDA sum, j : IF j < i THEN sum + Width(s[j]) ELSE sum, 0, s)

BehindChild(s, i)   == \E j \in 1..(i - 1) : s[j].kind \in {"fixed", "child"}
BehindPayload(s, i) == \E j \in 1..(i - 1) : s[j].kind = "raw"

(* computed_offset_state and retained_controller_offsets: fields whose     *)
(* placeholders are written on the way and whose offsets are kept, also    *)
(* when the children before are of fixed size and the offset is static.    *)
Retains(s, i) ==
  \/ s[i].kind = "computed" /\ BehindChild(s, i)
  \/ s[i].kind = "length" /\ (BehindChild(s, i) \/ BehindPayload(s, i))

(* A payload, or a child that is not the last field.                       *)
Sequential(s) ==
  \E i \in DOMAIN s : \/ s[i].kind = "raw"
                      \/ s[i].kind \in {"fixed", "child"} /\ i < Len(s)

WriteAt(b, offset, cells) ==
  [k \in 1..Max({Len(b), offset + Len(cells)}) |->
     IF k - offset \in DOMAIN cells THEN cells[k - offset]
     ELSE IF k \in DOMAIN b THEN b[k] ELSE Num(0)]

(* select_view: the ranges of the fields in bytes that must be the whole   *)
(* struct; empty when they are not.  A child says its size in its first    *)
(* cell, a raw field's is in its controller.                               *)
View(s, span) ==
  LET Extent(ranges, i) ==
        LET from == IF ranges = <<>> THEN 0 ELSE Last(ranges).end
            size == CASE s[i].kind = "child" -> IF from < Len(span) THEN Size(span[from + 1]) ELSE None
                      [] s[i].kind = "raw"   -> Size(span[ranges[s[i].ctrl].start + 1])
                      [] OTHER               -> Width(s[i])
        IN  IF Len(ranges) # i - 1 \/ size < 0 \/ from + size > Len(span) THEN ranges
            ELSE Append(ranges, [start |-> from, end |-> from + size])
      framed == FoldLeftDomain(Extent, <<>>, s)
  IN  IF Len(framed) = Len(s) /\ Last(framed).end = Len(span) THEN framed ELSE <<>>

Route(ranges, path) ==
  LET r == ranges[path.field]
  IN  IF path.whole THEN r ELSE [r EXCEPT !.end = r.start + 1]

-----------------------------------------------------------------------------
(* Writing the fields.                                                     *)

(* The static offset, else the cursor.  A child of unknown size lies there *)
(* or beyond: what is behind it has no static offset.                      *)
Place(s, b, front, i) ==
  IF Offset(s, i) # None THEN front + Offset(s, i) ELSE Len(b)

(* What is first stored for a field.                                       *)
Initial(s, i, value) ==
  CASE s[i].kind = "constant" -> <<Num(i)>>
    [] s[i].kind = "computed" -> <<Num(0)>>
    [] OTHER                  -> value

(* One field at its place.                                                 *)
Emit(s, w, front, i, value) ==
  LET at == Place(s, w.bytes, front, i)
  IN  [w EXCEPT !.retained[i] = IF Retains(s, i) THEN at ELSE @,
                !.bytes = WriteAt(@, at, Initial(s, i, value))]

EmitAll(s, w, front, which, values) ==
  FoldLeftDomain(LAMBDA v, i : IF i \in which THEN Emit(s, v, front, i, values[i]) ELSE v, w, s)

(* render_length_patch: the setter of a payload settles its length.        *)
PatchLength(s, w, i, payload) ==
  LET c  == s[i].ctrl
      at == IF Offset(s, c) # None THEN Offset(s, c) ELSE w.retained[c]
  IN  IF s[i].kind = "raw" THEN [w EXCEPT !.bytes = WriteAt(@, at, <<Num(Len(payload))>>)]
      ELSE w

PreviousSlot(s, i) == Max({0} \cup {j \in Slots(s) : j < i})

(* Fields nobody sets that are written on the way: constants, placeholders *)
(* of computed fields and of lengths whose offsets are kept.               *)
Automatic(s, from, to) ==
  {i \in from..to : s[i].kind = "constant" \/ Retains(s, i)}

(* Those between a slot and the one before, written by its setter.         *)
Pending(s, i) ==
  IF Sequential(s) THEN Automatic(s, PreviousSlot(s, i) + 1, i - 1) ELSE {}

(* The typestate: behind a payload the slot before comes first.            *)
Offered(s, i, before) ==
  BehindPayload(s, i) => PreviousSlot(s, i) \in before \cup {0}

(* Mutant: a setter behind a child is called whenever the caller likes.    *)
NeverTooEarly(s, i, before) == FALSE

(* The check at run time, where a child before has no fixed size.          *)
TooEarly(s, i, before) ==
  /\ Sequential(s) /\ ~BehindPayload(s, i) /\ Offset(s, i) = None
  /\ PreviousSlot(s, i) \notin before \cup {0}

StructInit ==
  /\ schema \in {s \in Structs : Accepted(s)}
  /\ given \in {v \in [DOMAIN schema -> UNION Range(Contents)] :
                  \A i \in DOMAIN schema : v[i] \in Contents[schema[i].kind]}
  /\ writer \in {"progressive", "detached"}
  /\ parent \in (IF writer = "detached" THEN Parents ELSE {<<>>})
  /\ bytes = parent /\ retained = [i \in DOMAIN schema |-> 0]
  /\ stage = "write" /\ set = <<>> /\ todo = <<>> /\ passed = <<>>
  /\ length = 0 /\ fields = <<>> /\ kept = TRUE
  /\ cursor = 0 /\ done = TRUE /\ chunks = <<>>

(* A setter of the progressive writer, in any order the typestate admits;  *)
(* the one that fails consumes the writer.                                 *)
Set(i) ==
  /\ stage = "write" /\ writer = "progressive"
  /\ i \in Slots(schema) \ Range(set) /\ Offered(schema, i, Range(set))
  /\ IF TooEarly(schema, i, Range(set))
     THEN stage' = "early" /\ UNCHANGED <<bytes, retained, set>>
     ELSE LET which   == {i} \cup Pending(schema, i)
              emitted == EmitAll(schema, [bytes |-> bytes, retained |-> retained], 0, which, given)
              w       == PatchLength(schema, emitted, i, given[i])
          IN  /\ bytes' = w.bytes /\ retained' = w.retained
              /\ set' = Append(set, i) /\ UNCHANGED stage
  /\ UNCHANGED <<schema, given, writer, parent, todo, passed, vars>>

(* finish: trailing automatic fields or all constants, then the            *)
(* placeholders of computed fields that no child precedes.                 *)
Closed(s, w, values) ==
  LET trailing  == IF Sequential(s) THEN Automatic(s, PreviousSlot(s, Len(s) + 1) + 1, Len(s))
                   ELSE {i \in DOMAIN s : s[i].kind = "constant"}
      automatic == EmitAll(s, w, 0, trailing, values)
  IN  EmitAll(s, automatic, 0, {i \in Computed(s) : ~Retains(s, i)}, values)

Finish ==
  /\ stage = "write" /\ writer = "progressive" /\ Range(set) = Slots(schema)
  /\ LET w == Closed(schema, [bytes |-> bytes, retained |-> retained], given)
     IN  bytes' = w.bytes /\ retained' = w.retained
  /\ stage' = "patch" /\ todo' = ComputedOrder(schema)
  /\ UNCHANGED <<structVars, passed, vars>>

PayloadLength(s, c) == LET payload == CHOOSE r \in Slots(s) : s[r].ctrl = c
                       IN  <<Num(Len(given[payload]))>>

(* WireWrite::write up to the patches: every field in physical order, a    *)
(* length as the payload has it.                                           *)
WriteDetached ==
  /\ stage = "write" /\ writer = "detached"
  /\ LET values == [i \in DOMAIN schema |->
                     IF schema[i].kind = "length" THEN PayloadLength(schema, i) ELSE given[i]]
         w      == EmitAll(schema, [bytes |-> bytes, retained |-> retained],
                           Len(parent), DOMAIN schema, values)
     IN  bytes' = w.bytes /\ retained' = w.retained
  /\ stage' = "patch" /\ todo' = ComputedOrder(schema)
  /\ UNCHANGED <<structVars, passed, vars>>

-----------------------------------------------------------------------------
(* render_patches: one computed field after the other.                     *)

(* Mutant: the view takes the whole output.                                *)
WholeOutput(b, front) == b

Span(b, front) == SubSeq(b, front + 1, Len(b))

Ranges == View(schema, Span(bytes, Len(parent)))

Current == schema[Head(todo)]
Waiting == stage = "patch" /\ todo # <<>> /\ Len(passed) < Len(Current.args)
Argument == Current.args[Len(passed) + 1]

Cells(span, r) == SubSeq(span, r.start + 1, r.end)

(* The next argument is read from a view of the bytes written so far; if   *)
(* they are not a view of the struct, the writer fails.                    *)
PassArgument ==
  /\ Waiting
  /\ IF Ranges = <<>>
     THEN stage' = "layout" /\ UNCHANGED <<passed, vars>>
     ELSE IF Argument.op = "get"
     THEN /\ passed' = Append(passed, Cells(Span(bytes, Len(parent)),
                                            Ranges[Argument.paths[1].field]))
          /\ UNCHANGED <<stage, vars>>
     ELSE /\ stage' = "select"
          /\ length' = Len(Span(bytes, Len(parent)))
          /\ fields' = [k \in DOMAIN Argument.paths |-> Route(Ranges, Argument.paths[k])]
          /\ kept' = (Argument.op = "include")
          /\ cursor' = 0 /\ done' = FALSE /\ chunks' = <<>>
          /\ UNCHANGED passed
  /\ UNCHANGED <<structVars, bytes, retained, todo>>

(* The callback iterates the selection to its end.                         *)
Iterate ==
  /\ stage \in {"select", "expression"}
  /\ NextChunk
  /\ UNCHANGED computedVars

Iterated ==
  /\ stage = "select" /\ done
  /\ passed' = Append(passed, FlattenSeq([k \in DOMAIN chunks |->
                                            Cells(Span(bytes, Len(parent)), chunks[k])]))
  /\ stage' = "patch"
  /\ length' = 0 /\ fields' = <<>> /\ kept' = TRUE
  /\ cursor' = 0 /\ done' = TRUE /\ chunks' = <<>>
  /\ UNCHANGED <<structVars, bytes, retained, todo>>

(* Mutant: a relative offset is used in the parent's output.               *)
PatchOffsetRelative(s, i, front, kept_) ==
  IF Offset(s, i) # None THEN Offset(s, i) ELSE kept_ - front

(* The static offset, else the retained one, from the struct's start.      *)
PatchOffset(s, i, front, kept_) ==
  front + IF Offset(s, i) # None THEN Offset(s, i) ELSE kept_ - front

Return ==
  /\ stage = "patch" /\ todo # <<>> /\ Len(passed) = Len(Current.args)
  /\ bytes' = WriteAt(bytes, PatchOffset(schema, Head(todo), Len(parent), retained[Head(todo)]),
                      <<[of |-> Head(todo), from |-> passed]>>)
  /\ todo' = Tail(todo) /\ passed' = <<>>
  /\ UNCHANGED <<structVars, stage, retained, vars>>

Refuse ==
  /\ stage = "patch" /\ todo # <<>> /\ Len(passed) = Len(Current.args)
  /\ Current.fallible
  /\ stage' = "refused"
  /\ UNCHANGED <<structVars, bytes, retained, todo, passed, vars>>

Finished ==
  /\ stage = "patch" /\ todo = <<>>
  /\ stage' = "finished"
  /\ UNCHANGED <<structVars, bytes, retained, todo, passed, vars>>

(* A selection of any view, outside of a callback.                         *)
ExpressionInit ==
  /\ Init
  /\ schema = <<>> /\ given = <<>> /\ writer = "none" /\ parent = <<>>
  /\ bytes = <<>> /\ retained = <<>> /\ set = <<>> /\ todo = <<>> /\ passed = <<>>
  /\ stage = "expression"

ComputedInit == ExpressionInit \/ StructInit

ComputedNext ==
  \/ \E i \in DOMAIN schema : Set(i)
  \/ Finish \/ WriteDetached
  \/ PassArgument \/ Iterate \/ Iterated
  \/ Return \/ Refuse \/ Finished

ComputedSpec == ComputedInit /\ [][ComputedNext]_<<vars, computedVars>>

-----------------------------------------------------------------------------
(* The cells an argument stands for.                                       *)
Means(ranges, span, arg) ==
  LET named == UNION {Bytes(Route(ranges, p)) : p \in Range(arg.paths)}
      whose == IF arg.op = "exclude" THEN (0..(Len(span) - 1)) \ named ELSE named
      order == SetToSortSeq(whose, <)
  IN  [k \in DOMAIN order |-> span[order[k] + 1]]

(* A payload was set before the slot right behind its length, whose setter *)
(* then wrote the length's placeholder over what the payload had patched:  *)
(* what ReorderedRoundTrip of StructWriter finds.  It takes a length at a  *)
(* static offset behind a child of fixed size; no other order is excluded. *)
LengthErased ==
  \E p, q \in DOMAIN set :
    p < q /\ schema[set[p]].kind = "raw" /\ schema[set[p]].ctrl \in Pending(schema, set[q])

(* In a finished struct every computed field holds what its callback       *)
(* returns for the bytes that were finished, other computed fields         *)
(* included: none of them was calculated too early (ARCHITECTURE.md: the   *)
(* dependency DAG patches callbacks in topological order after payload     *)
(* controllers are authoritative).  Nor did patching touch anything else:  *)
(* the parent's bytes stay, and every other field reads back what the      *)
(* caller gave, the schema says or the payload has.                        *)
ComputedConsistent ==
  stage = "finished" /\ ~LengthErased =>
    LET span == Span(bytes, Len(parent))
    IN  /\ Ranges # <<>>
        /\ SubSeq(bytes, 1, Len(parent)) = parent
        /\ \A i \in DOMAIN schema :
             Cells(span, Ranges[i]) =
               CASE i \in Computed(schema) ->
                      <<[of |-> i, from |-> [a \in DOMAIN schema[i].args |->
                                              Means(Ranges, span, schema[i].args[a])]]>>
                 [] i \in Slots(schema) -> given[i]
                 [] schema[i].kind = "constant" -> <<Num(i)>>
                 [] schema[i].kind = "length" -> PayloadLength(schema, i)

(* What has been written when the callbacks run is a view of the struct,   *)
(* in whatever order the setters came: a writer whose setters succeeded    *)
(* fails in finish only because a callback refuses, or because a setter    *)
(* has erased a length.                                                    *)
CallbacksSeeTheStruct == stage = "layout" => LengthErased
=============================================================================
