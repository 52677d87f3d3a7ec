---------------------------- MODULE WireEmission ----------------------------
(***************************************************************************)
(* The bytes a generated writer emits: setters write at static offsets, or *)
(* at the cursor when the offset is not static; controllers have no setter *)
(* and are patched from their payloads.  StructWriter runs the setters in  *)
(* the order a caller chooses, DetachedBuilder in physical order.          *)
(*                                                                         *)
(* Sources: wire-repr-macros/src/derive/schema/writer.rs,                  *)
(* writer/automatic.rs, write_fields.rs, integer/controller.rs; output.rs  *)
(* for the cursor, whose growth and errors WireOutput models.              *)
(*                                                                         *)
(* A byte is the triple of the field it encodes, its place in that field   *)
(* and the value the field carries.  given[i] is what the caller sets      *)
(* field i to: the size of a payload or of one item, and a value, which    *)
(* is the number of items of an array and the presence of a group.         *)
(***************************************************************************)
EXTENDS WireFraming

CONSTANTS
  ShortValues, \* variable-width integers below this take one byte, others two
  WireMax      \* largest value a controller can carry

ASSUME WireEmissionAssumption ==
  ShortValues \in Nat \ {0} /\ WireMax \in Nat

Filler == <<0, 0, 0>>
Stale  == <<-1, 0, 0>>   \* whatever the output held before

Image(i, size, value) == [k \in 1..size |-> <<i, k, value>>]

EncodedLength(value) == IF value < ShortValues THEN 1 ELSE 2

(* A writer: its bytes up to the cursor, the start of the field at hand,   *)
(* and the offsets, lengths and bits it retains for controllers.           *)
Fresh(s) ==
  [out |-> <<>>, at |-> 0, fault |-> "none",
   offsets |-> [i \in DOMAIN s |-> 0], values |-> [i \in DOMAIN s |-> 0],
   bits |-> [i \in DOMAIN s |-> 0]]

Cursor(w)      == Len(w.out)
Fails(w, why)  == [w EXCEPT !.fault = why]

(* Go on with what a step left, unless it failed.                          *)
Then(w, Go(_)) == IF w.fault = "none" THEN Go(w) ELSE w

Put(w, offset, image) ==
  LET end == offset + Len(image)
  IN  [w EXCEPT !.out =
        [p \in 1..Max({Cursor(w), end}) |->
           IF p \in (offset + 1)..end THEN image[p - offset]
           ELSE IF p <= Cursor(w) THEN w.out[p] ELSE Stale]]

(* Mutant: the gap keeps what the output held.                             *)
FillNothing(w, position) ==
  IF position > Cursor(w)
  THEN Put(w, Cursor(w), [k \in 1..(position - Cursor(w)) |-> Stale]) ELSE w

Fill(w, position) ==
  IF position > Cursor(w)
  THEN Put(w, Cursor(w), [k \in 1..(position - Cursor(w)) |-> Filler]) ELSE w

(* A child, or a group, that starts at the cursor or beyond.               *)
PutChild(w, offset, image) ==
  IF offset < Cursor(w) THEN Fails(w, "backwards") ELSE Put(w, offset, image)

Expand(w, offset, image) ==
  [w EXCEPT !.out = SubSeq(w.out, 1, offset) \o image
                      \o SubSeq(w.out, offset + 2, Cursor(w))]

-----------------------------------------------------------------------------
(* Roles of fields in a writer.                                            *)

Dependents(s, c) == {i \in LengthRoles(s) : s[i].ctrl = c}
Group(s, flag)   == {i \in DOMAIN s : s[i].cond = flag}

LengthController(s, i)   == i \in Controllers(s, LengthRoles(s))
CountController(s, i)    == i \in Controllers(s, CountRoles(s))
PresenceController(s, i) == i \in Controllers(s, FlagRoles(s))
BitController(s, i)      == i \in Controllers(s, BitRoles(s))

Derived(s, i) ==
  \/ LengthController(s, i) \/ CountController(s, i)
  \/ PresenceController(s, i) \/ BitController(s, i)

(* Fields with a setter.                                                   *)
Slots(s) ==
  {i \in DOMAIN s : ~s[i].const /\ ~Derived(s, i) /\ s[i].cond = 0}

PreviousSlot(s, i) == Max({0} \cup {j \in Slots(s) : j < i})

AfterNested(s, i) == \E j \in 1..(i - 1) : s[j].kind = "nested"

(* Controllers whose offset is recorded when they are written.             *)
RetainsOffset(s, i) ==
  /\ Derived(s, i) \/ i \in Anchors(s)
  /\ s[i].kind = "varint" \/ DynamicOffset(s, i) \/ AfterNested(s, i)

VariableController(s, i) ==
  s[i].kind = "varint" /\ (LengthController(s, i) \/ CountController(s, i))

ControllerOffset(s, w, c) ==
  IF StaticOffset(s, c) # None THEN StaticOffset(s, c) ELSE w.offsets[c]

(* One-bit projections, the first in bit 0.                                *)
BitValue(s, j, part) ==
  part * 2 ^ Cardinality({k \in BitRoles(s) : s[k].ctrl = s[j].ctrl /\ k < j})

-----------------------------------------------------------------------------
(* Where a setter writes.                                                  *)

WriterBase(s, w, i) ==
  IF s[i].at # <<>>
  THEN IF s[i].at[1] = "static" THEN s[i].at[2]
       ELSE LET offset == ControllerOffset(s, w, s[i].at[2])
            IN  IF offset < Cursor(w) THEN w.out[offset + 1][3] ELSE None
  ELSE IF StaticOffset(s, i) # None THEN StaticOffset(s, i) ELSE Cursor(w)

(* Mutant: a position before the cursor is accepted.                       *)
WriterStartAnywhere(s, w, i) ==
  LET Begin(start) == [Fill(w, start) EXCEPT !.at = start]
      From(base)   == IF base = None THEN Fails(w, "layout")
                      ELSE Begin(CheckedAlign(base + s[i].pad, s[i].align))
  IN  IF HasSequentialGeometry(s) THEN From(WriterBase(s, w, i))
      ELSE [w EXCEPT !.at = StaticOffset(s, i)]

WriterStart(s, w, i) ==
  LET forward      == s[i].at # <<>> \/ DynamicOffset(s, i)
      Begin(start) == IF forward /\ start < Cursor(w) THEN Fails(w, "layout")
                      ELSE [Fill(w, start) EXCEPT !.at = start]
      From(base)   == IF base = None THEN Fails(w, "layout")
                      ELSE Begin(CheckedAlign(base + s[i].pad, s[i].align))
  IN  IF HasSequentialGeometry(s) THEN From(WriterBase(s, w, i))
      ELSE [w EXCEPT !.at = StaticOffset(s, i)]

(* Fields without a setter that are written on the way: placeholders of    *)
(* controllers whose offset is recorded, and constants.                    *)
Constant(s, w, i) ==
  Then(WriterStart(s, w, i),
       LAMBDA placed : Put(placed, placed.at, Image(i, s[i].width, 0)))

Placeholder(s, w, i) ==
  LET width == IF s[i].kind = "varint" THEN 1 ELSE s[i].width
  IN  Then(WriterStart(s, w, i),
           LAMBDA placed : [Put(placed, placed.at, Image(i, width, 0))
                              EXCEPT !.offsets[i] = placed.at])

Automatic(s, start, from, to) ==
  LET Write(w, i) ==
        Then(w, LAMBDA v : IF Derived(s, i) /\ RetainsOffset(s, i)
                           THEN Placeholder(s, v, i)
                           ELSE IF s[i].const THEN Constant(s, v, i) ELSE v)
  IN  FoldLeft(Write, start, [k \in 1..(to - from + 1) |-> from + k - 1])

-----------------------------------------------------------------------------
(* Patching controllers.                                                   *)

Fits(w, value, next) == IF value > WireMax THEN Fails(w, "layout") ELSE next

PatchLength(s, w, i, length) ==
  LET c        == s[i].ctrl
      first    == i = Min(Dependents(s, c))
      offset   == ControllerOffset(s, w, c)
      expected == IF s[c].kind = "varint" THEN w.values[c]
                  ELSE w.out[offset + 1][3]
  IN  CASE first /\ s[c].kind = "varint" ->
             Fits(w, length, [w EXCEPT !.values[c] = length])
        [] first /\ s[c].kind # "varint" ->
             Fits(w, length, Put(w, offset, Image(c, s[c].width, length)))
        [] ~first -> IF length # expected THEN Fails(w, "conflict") ELSE w

PatchCount(s, w, i, count) ==
  LET c == s[i].ctrl
  IN  Fits(w, count,
        IF s[c].kind = "varint" THEN [w EXCEPT !.values[c] = count]
        ELSE Put(w, ControllerOffset(s, w, c), Image(c, s[c].width, count)))

PatchPresence(s, w, flag, present) ==
  LET c == s[flag].ctrl
  IN  Put(w, ControllerOffset(s, w, c), Image(c, s[c].width, present))

(* Mutant: the projections set before are lost.                            *)
PatchBitsForgetting(s, w, i, part) ==
  LET c == s[i].ctrl
  IN  IF part > 1 THEN Fails(w, "layout")
      ELSE Put(w, ControllerOffset(s, w, c),
               Image(c, s[c].width, BitValue(s, i, part)))

PatchBits(s, w, i, part) ==
  LET c   == s[i].ctrl
      raw == w.bits[c] + BitValue(s, i, part)
  IN  IF part > 1 THEN Fails(w, "layout")
      ELSE [Put(w, ControllerOffset(s, w, c), Image(c, s[c].width, raw))
              EXCEPT !.bits[c] = raw]

(* The group of a flag, field after field.                                 *)
GroupImage(s, flag) ==
  FoldLeftDomain(LAMBDA image, j :
                   IF s[j].cond = flag THEN image \o Image(j, s[j].width, 0)
                   ELSE image, <<>>, s)

=============================================================================
