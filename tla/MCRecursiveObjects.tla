-------------------------- MODULE MCRecursiveObjects --------------------------
(* One grammar with a body of every kind, in bytes of five values.         *)
EXTENDS RecursiveObjects, TLC

MCGrammar ==
  0 :> Unit @@ 1 :> Leaf(1, TRUE, 3) @@ 2 :> List(1, 3, "layout")
  @@ 3 :> Object(<<Child, Child, 2>>) @@ 4 :> Demand(1, 1, 3, 1)

MCContents == {<<>>, <<2>>, <<1, 0>>}

(* Short inputs, and longer ones that start like a list or a demand body.  *)
MCForeign ==
  UNION {[1..n -> 0..4] : n \in 1..4}
    \cup {<<2, 2>> \o rest : rest \in [1..5 -> 0..3]}
    \cup {<<3, 1>> \o rest : rest \in [1..5 -> 0..1]}
    \cup {<<4>> \o rest : rest \in [1..5 -> 0..2]}
    \cup {<<4, 1>> \o rest : rest \in [1..7 -> 0..1]}
    \cup {<<2, 1, 4>> \o rest : rest \in [1..5 -> 0..1]}

MCCopied == {<<>>, <<2, 1, 1, 0>>}
=============================================================================
