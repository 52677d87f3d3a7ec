--------------------------- MODULE MCStructView ---------------------------
(* Field declarations for model checking, one set per question.            *)
EXTENDS StructView

Child(fixed, leading, deferred) ==
  [fixed |-> fixed, leading |-> leading, deferred |-> deferred]

FixedChild  == Child(2, TRUE, FALSE)
EmptyChild  == Child(0, TRUE, FALSE)
PrefixChild == Child(None, TRUE, FALSE)  \* ends where its own bytes say
ListChild   == Child(None, TRUE, TRUE)   \* ends with a counted array
OpenChild   == Child(None, FALSE, FALSE) \* ends with a rest field

Uint(width)      == [Plain("scalar") EXCEPT !.width = width]
Sint             == [Uint(1) EXCEPT !.type = "sint"]
Bool             == [Uint(1) EXCEPT !.type = "bool"]
Custom           == [Uint(2) EXCEPT !.type = "custom"]
Varint           == Plain("varint")
Bytes            == [Plain("bytes") EXCEPT !.width = 2, !.const = TRUE]
Rest             == Plain("rest")
Raw(c)           == [Plain("raw") EXCEPT !.ctrl = c]
Flag(c)          == [Plain("flag") EXCEPT !.ctrl = c]
Bits(c)          == [Plain("bits") EXCEPT !.ctrl = c]
Array(c, child)  == [Plain("array") EXCEPT !.ctrl = c, !.child = child]
Nested(c, child) == [Plain("nested") EXCEPT !.ctrl = c, !.child = child]
Padded(f, n)     == [f EXCEPT !.pad = n]
Aligned(f, n)    == [f EXCEPT !.align = n]
Fixed(f, n)      == [f EXCEPT !.at = <<"static", n>>]
Anchored(f, c)   == [f EXCEPT !.at = <<"field", c>>]
When(f, flag)    == [f EXCEPT !.cond = flag]

(* Schemas whose only geometry is that of their children.                  *)
NestedFields ==
  {Uint(1), Custom, Bytes, Bits(1)} \cup
  {Nested(0, child) : child \in {FixedChild, EmptyChild, PrefixChild,
                                 ListChild, OpenChild}}

(* Lengths, counts and variable-width integers.                            *)
DynamicFields ==
  {Uint(1), Sint, Varint, Raw(1), Raw(2), Rest} \cup
  {Array(c, child) : c \in {1, 2}, child \in {FixedChild, EmptyChild, PrefixChild,
                                              OpenChild}} \cup
  {Nested(1, child) : child \in {FixedChild, PrefixChild, ListChild, OpenChild}}

(* Padding, alignment and absolute positions.                              *)
PlacedFields ==
  {Uint(1), Nested(0, PrefixChild), Raw(1), Padded(Uint(1), 1),
   Aligned(Uint(2), 2), Aligned(Padded(Raw(1), 1), 2), Fixed(Uint(1), 3),
   Fixed(Rest, 2), Anchored(Uint(1), 1), Anchored(Nested(0, FixedChild), 1),
   Anchored(Raw(2), 1), Aligned(Varint, 2), Fixed(Array(1, FixedChild), 3)}

(* Optional groups between other fields.                                   *)
OptionalFields ==
  {Bool, Uint(1), Flag(1), Flag(2), When(Uint(2), 2), When(Uint(1), 3),
   When(Uint(2), 3), Nested(0, PrefixChild), Nested(0, OpenChild), Raw(2)}

-----------------------------------------------------------------------------
Family(declarations, longest) == [fields |-> declarations, longest |-> longest]

MCFamilies ==
  {Family(NestedFields, 3),
   Family(DynamicFields, 3),
   Family(PlacedFields, 3),
   Family(OptionalFields, 5)}
=============================================================================
