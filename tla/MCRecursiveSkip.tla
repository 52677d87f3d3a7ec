--------------------------- MODULE MCRecursiveSkip ---------------------------
(* RecursiveSkip over two grammars and the inputs long enough for a body   *)
(* of every kind, and for one inside another; 9 stands for a byte that is  *)
(* no length and no count.                                                 *)
EXTENDS RecursiveSkip, TLC

MCInputs ==
  UNION {[1..n -> {0, 1, 2, 3, 9}] : n \in 0..4}
    \cup UNION {[1..n -> 0..3] : n \in 5..6}
    \cup {<<outer, inner>> \o rest : outer, inner \in 2..3, rest \in [1..5 -> 0..2]}

(* Lists of units, checked leaves and objects with two children.           *)
Listed ==
  0 :> Unit @@ 1 :> Leaf(1, FALSE, 3) @@ 2 :> List(1, 3, "layout")
  @@ 3 :> Object(<<Child, 1, 1, Child>>)

(* Demand bodies, and leaves whose extent the input or nothing decides.    *)
Demanding ==
  0 :> Unit @@ 1 :> Leaf(1, TRUE, 3) @@ 2 :> Demand(1, 1, 3, 1)
  @@ 3 :> Object(<<Child>>) @@ 9 :> Rogue(2)

MCGrammars == {Listed, Demanding}
=============================================================================
