-------------------------- MODULE MCComputedFields --------------------------
EXTENDS ComputedFields

MCParents == {<<>>, <<Num(7)>>}

MCContents ==
  [scalar   |-> {<<Num(1)>>, <<Num(2)>>},
   fixed    |-> {<<Num(3), Num(4)>>},
   child    |-> {<<Num(1)>>, <<Num(2), Num(5)>>},
   raw      |-> {<<>>, <<Num(1), Num(2)>>},
   constant |-> {<<Num(0)>>}, length |-> {<<Num(0)>>}, computed |-> {<<Num(0)>>}]

Field(kind)    == [kind |-> kind, ctrl |-> 0, args |-> <<>>, fallible |-> FALSE]
Raw(ctrl)      == [Field("raw") EXCEPT !.ctrl = ctrl]
Callback(args) == [Field("computed") EXCEPT !.args = args]

Whole(i) == [field |-> i, whole |-> TRUE]
Part(i)  == [field |-> i, whole |-> FALSE]

(* Getters, one or two selected fields in either order, all but a field.   *)
Arguments(n) ==
  [op : {"get"}, paths : {<<Whole(i)>> : i \in 1..n}]
  \cup [op : {"include", "exclude"}, paths : {<<Whole(i)>> : i \in 1..n}]
  \cup [op : {"include"}, paths : {<<Whole(i), Whole(j)>> : i, j \in 1..n}]

Calls(n) == {<<a>> : a \in Arguments(n)}

(* Two callbacks over a scalar, and over a payload with its length.        *)
Pairs ==
  {<<Callback(a), Field("scalar"), Callback(b)>> : a, b \in Calls(3)}
  \cup {<<Callback(a), Callback(b), Field("length"), Raw(3)>> : a, b \in Calls(4)}

(* Three callbacks that may read each other.                               *)
Chains ==
  {<<Callback(<<a>>), Callback(<<b>>), Callback(<<c>>), Field("constant")>> :
     a, b, c \in [op : {"get", "exclude"}, paths : {<<Whole(i)>> : i \in 1..4}]}

(* A callback behind or in front of children, some paths going into them.  *)
Children ==
  {<<Field("constant"), child, Callback(a), Field("scalar")>> :
     child \in {Field("fixed"), Field("child")}, a \in Calls(4)}
  \cup {<<Field("fixed"), Callback(<<[op |-> op, paths |-> <<Part(1), Whole(3)>>]>>), Field("child"),
          Callback(<<[op |-> "include", paths |-> <<Whole(3), Part(1)>>]>>)>> : op \in {"include", "exclude"}}

(* Arguments of both kinds, none at all, one that may refuse, a computed   *)
(* controller.                                                             *)
Others ==
  {<<Field("scalar"), Callback(<<[op |-> "get", paths |-> <<Whole(1)>>],
                                 [op |-> "exclude", paths |-> <<Whole(2)>>]>>), Field("constant")>>,
   <<Callback(<<>>), Field("scalar"),
     [Callback(<<[op |-> "exclude", paths |-> <<Whole(3)>>]>>) EXCEPT !.fallible = TRUE]>>,
   <<Callback(<<>>), Raw(1)>>}

(* Setters that come in other orders than the fields: around a child of    *)
(* fixed size, whose lengths keep a static offset; around one of unknown   *)
(* size; with a last child; behind a payload.                              *)
Reordered ==
  UNION {{<<Callback(a), child, Field("length"), Field("scalar"), Raw(3)>>,
          <<Field("scalar"), child, Callback(a), Field("scalar")>>,
          <<child, Field("length"), Callback(a), Raw(2)>>,
          <<Field("scalar"), Callback(a), Field("scalar"), child>>} :
           child \in {Field("fixed"), Field("child")},
           a \in {<<[op |-> "get", paths |-> <<Whole(3)>>]>>,
                  <<[op |-> "exclude", paths |-> <<Whole(1)>>]>>}}
  \cup {<<Callback(a), Field("length"), Raw(2), Field("length"), Raw(4), Field("constant")>> :
          a \in {<<[op |-> "exclude", paths |-> <<Whole(1)>>]>>,
                 <<[op |-> "include", paths |-> <<Whole(4), Whole(2)>>]>>}}

MCStructs == Pairs \cup Chains \cup Children \cup Reordered \cup Others
=============================================================================
