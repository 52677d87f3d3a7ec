------------------------ MODULE MCRecursiveGeometry ------------------------
(* RecursiveGeometry with capacities of a few items: 4 ranked items in     *)
(* blocks of 2, periods of at most 2, 2 intervals, 2 axes of 2 digits.     *)
EXTENDS RecursiveGeometry

Measured(w, s, n) == [consumed |-> w, shape |-> s, nested |-> n]

(* Leaf items: the skip machine leaves their shape at 0.  5 is wider than  *)
(* a u16, 17 wider than a u32.                                             *)
FlatMeasures == {Measured(w, 0, FALSE) : w \in {1, 2, 3, 4, 5, 17}}

(* Leaves between recursive roots whose hashes may or may not separate the *)
(* widths; a recursive root without children has a shape and no depth.     *)
(* Four hashes are one more than a palette holds.                          *)
NestedMeasures ==
  {Measured(1, 0, FALSE), Measured(2, 0, FALSE), Measured(2, 1, FALSE),
   Measured(2, 1, TRUE), Measured(3, 2, TRUE), Measured(1, 2, TRUE),
   Measured(5, 2, TRUE), Measured(2, 3, TRUE)}

MCMeasures == FlatMeasures \cup NestedMeasures

(* An array has leaves only, in any number of items, or mixes them with    *)
(* roots beyond what is ranked; no item wider than a u32 then (PushShape). *)
Mixture ==
  \/ ToSet(items) \subseteq FlatMeasures
  \/ count \in {5, 6} /\ ToSet(items) \subseteq NestedMeasures

MCLengths == <<2, 2>>
MCBlocks  == <<1, 2>>
=============================================================================
