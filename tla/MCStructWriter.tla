--------------------------- MODULE MCStructWriter ---------------------------
(* Field declarations for model checking, one set per question.            *)
EXTENDS StructWriter

Child(fixed) == [fixed |-> fixed, leading |-> TRUE, deferred |-> FALSE]

FixedChild  == Child(2)
EmptyChild  == Child(0)
PrefixChild == Child(None)  \* ends where its own bytes say

Uint(width)      == [Plain("scalar") EXCEPT !.width = width]
Const            == [Uint(1) EXCEPT !.const = TRUE]
Bool             == [Uint(1) EXCEPT !.type = "bool"]
Varint           == Plain("varint")
Rest             == Plain("rest")
Raw(c)           == [Plain("raw") EXCEPT !.ctrl = c]
Flag(c)          == [Plain("flag") EXCEPT !.ctrl = c]
Bits(c)          == [Plain("bits") EXCEPT !.ctrl = c]
Array(c, child)  == [Plain("array") EXCEPT !.ctrl = c, !.child = child]
Nested(c, child) == [Plain("nested") EXCEPT !.ctrl = c, !.child = child]
Padded(f, n)     == [f EXCEPT !.pad = n]
Aligned(f, n)    == [f EXCEPT !.align = n]
Fixed(f, n)      == [f EXCEPT !.at = <<"static", n>>]
Anchored(f, c)   == [f EXCEPT !.at = <<"field", c>>]
When(f, flag)    == [f EXCEPT !.cond = flag]

(* Lengths and counts, some shared, some of variable width.                *)
DynamicFields ==
  {Uint(1), Varint, Raw(1), Raw(2), Rest, Nested(1, PrefixChild),
   Array(1, EmptyChild), Array(2, PrefixChild)}

(* Padding, alignment and positions.                                       *)
PlacedFields ==
  {Uint(1), Uint(2), Const, Raw(1), Padded(Uint(1), 1), Aligned(Uint(2), 2),
   Aligned(Padded(Raw(1), 1), 2), Fixed(Uint(1), 3), Fixed(Const, 4),
   Anchored(Uint(1), 1), Anchored(Raw(2), 1), Anchored(Nested(0, FixedChild), 2)}

(* Children before other fields, controllers among them.                   *)
NestedFields ==
  {Uint(1), Const, Nested(0, FixedChild), Nested(0, PrefixChild), Raw(2),
   Array(2, FixedChild), Bits(2), Nested(3, PrefixChild),
   Anchored(Uint(1), 2)}

(* Optional groups and bit projections.                                    *)
OptionalFields ==
  {Bool, Uint(1), Const, Flag(1), Flag(2), When(Uint(1), 2), When(Uint(2), 3),
   When(Uint(1), 3), Bits(1), Bits(2), Nested(0, PrefixChild), Raw(2)}

(* A child of fixed size before a controller.                              *)
ReorderedFields == {Uint(1), Nested(0, FixedChild), Raw(2)}

(* A position, and a length between it and what it places.                 *)
OverlapFields == {Uint(1), Anchored(Raw(2), 1)}

-----------------------------------------------------------------------------
Family(declarations, longest) == [fields |-> declarations, longest |-> longest]

MCFamilies ==
  {Family(DynamicFields, 5),
   Family(PlacedFields, 4),
   Family(NestedFields, 5),
   Family(OptionalFields, 5)}

Reordered == {Family(ReorderedFields, 4)}
Overlap   == {Family(OverlapFields, 3)}
=============================================================================
