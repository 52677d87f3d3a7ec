-------------------------- MODULE MCRuntimeArrays --------------------------
(* A fixed schema, a variable one, one without a leading extent and a      *)
(* zero-width one, over a stream of a few bytes and as the items of an     *)
(* array.                                                                  *)
EXTENDS RuntimeArrays

MCSchemas ==
  {Schema(2, TRUE), Schema(None, TRUE), Schema(None, FALSE), Schema(0, TRUE)}

MCContents ==
  [kind : {"good"}, extent : {0, 1, 2}] \cup
  [kind : {"bad", "invalid"}, extent : {2}] \cup
  [kind : {"rogue"}, extent : {3}]

MCArrayContents ==
  [kind : {"good"}, extent : {0, 1, 2}] \cup
  [kind : {"bad", "rogue"}, extent : {2}]
=============================================================================
