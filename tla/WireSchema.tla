----------------------------- MODULE WireSchema -----------------------------
(***************************************************************************)
(* The schema model of the derive macros: the fields of a struct, which    *)
(* declarations are accepted, and the compile-time geometry every renderer *)
(* derives from them.                                                      *)
(*                                                                         *)
(* Sources: wire-repr-macros/src/derive/schema/model.rs,                   *)
(* model/{normalization,validation,controller}.rs, geometry.rs, view.rs.   *)
(*                                                                         *)
(* Names are positions in the sequence of fields, 0 standing for no name.  *)
(* Of the types only what decides acceptance or geometry is kept; computed *)
(* and recursive fields and the ranges of bit projections are left out.    *)
(***************************************************************************)
EXTENDS Integers, Sequences, SequencesExt

None == -1

(* A field without attributes; the layouts below override parts of it.     *)
(*   ctrl   the controller named by bytes, counted_by, flag or bits_of     *)
(*   at     <<>>, <<"static", n>> or <<"field", j>>                        *)
(*   child  what a nested schema or an array item promises: FIXED_SIZE,    *)
(*          LEADING_EXTENT, and whether frame_exact defers array items     *)
Plain(kind) ==
  [kind |-> kind, width |-> 0, type |-> "uint", const |-> FALSE, ctrl |-> 0,
   cond |-> 0, pad |-> 0, align |-> 0, at |-> <<>>, child |-> [fixed |-> 0, leading |-> TRUE, deferred |-> FALSE]]

Promise == [fixed : Nat \cup {None}, leading : BOOLEAN, deferred : BOOLEAN]

Field ==
  {f \in [kind : {"scalar", "varint", "bytes", "flag", "bits", "raw", "rest",
                  "array", "nested"},
          width : Nat, type : {"uint", "sint", "bool", "custom"},
          const : BOOLEAN, ctrl : Nat, cond : Nat, pad : Nat, align : Nat,
          at : {<<>>} \cup ({"static", "field"} \X Nat), child : Promise] :
     f.kind = "raw" => f.ctrl # 0}

Placed(f)      == f.pad # 0 \/ f.align # 0 \/ f.at # <<>>
Numeric(f)     == f.kind \in {"scalar", "varint"}
Unbounded(f)   == f.kind = "nested" /\ f.ctrl = 0
Terminal(s, i) == i = Len(s)

(* Whether field i's value decides where other fields start or end.        *)
LengthRoles(s) ==
  {i \in DOMAIN s : s[i].kind \in {"raw", "nested"} /\ s[i].ctrl # 0}
CountRoles(s)  == {i \in DOMAIN s : s[i].kind = "array"}
FlagRoles(s)   == {i \in DOMAIN s : s[i].kind = "flag"}
BitRoles(s)    == {i \in DOMAIN s : s[i].kind = "bits"}
PlaceRoles(s)  == {i \in DOMAIN s : s[i].at # <<>> /\ s[i].at[1] = "field"}

Controllers(s, roles) == {s[i].ctrl : i \in roles}
Anchors(s)            == {s[i].at[2] : i \in PlaceRoles(s)}

Controller(s, i) ==
  \/ i \in Controllers(s, LengthRoles(s)) \cup Controllers(s, CountRoles(s))
  \/ i \in Anchors(s)

-----------------------------------------------------------------------------
(* Compile-time geometry.                                                  *)

DynamicSize(f) == f.kind \in {"varint", "raw", "rest", "array"}

(* The width a field contributes to later offsets, if it has one.          *)
Size(f) ==
  CASE DynamicSize(f)             -> None
    [] f.kind = "nested"          -> f.child.fixed
    [] f.kind \in {"flag", "bits"} -> 0
    [] OTHER                      -> f.width

(* After such a field no later offset is a sum of sizes any more.          *)
Resets(f) ==
  DynamicSize(f) \/ Placed(f) \/ f.cond # 0 \/ (f.kind = "nested" /\ f.ctrl # 0)

DynamicOffset(s, i) == \E j \in 1..(i - 1) : Resets(s[j])

(* Mutant: a child of unknown width counts as empty.                       *)
SumOfKnownSizes(s, from, to) ==
  LET sum[k \in (from - 1)..to] ==
        IF k < from THEN 0
        ELSE sum[k - 1] + (IF Size(s[k]) = None THEN 0 ELSE Size(s[k]))
  IN  sum[to]

SumOfSizes(s, from, to) ==
  LET sum[k \in (from - 1)..to] == IF k < from THEN 0 ELSE sum[k - 1] + Size(s[k])
  IN  IF \E j \in from..to : Size(s[j]) = None THEN None ELSE sum[to]

StaticOffset(s, i) ==
  IF DynamicOffset(s, i) THEN None ELSE SumOfSizes(s, 1, i - 1)

HasExplicitGeometry(s) ==
  \E i \in DOMAIN s : \/ s[i].kind \in {"raw", "rest", "array", "flag", "varint"}
                      \/ Placed(s[i]) \/ s[i].cond # 0
                      \/ (s[i].kind = "nested" /\ s[i].ctrl # 0)

HasNestedGeometry(s) ==
  \E i \in DOMAIN s : Unbounded(s[i]) /\ ~Terminal(s, i)

HasSequentialGeometry(s) == HasExplicitGeometry(s) \/ HasNestedGeometry(s)

FIXED_SIZE(s) ==
  IF HasExplicitGeometry(s) THEN None ELSE SumOfSizes(s, 1, Len(s))

Leading(child) == child.fixed # None \/ child.leading

(* Mutant: a final child is trusted to find its own end.                   *)
LEADING_EXTENT_Trusting(s) ==
  /\ s # <<>> => s[Len(s)].kind # "rest"
  /\ \A i \in DOMAIN s : Unbounded(s[i]) /\ ~Terminal(s, i)
                           => Leading(s[i].child)

(* Mutant: a final rest field is forgotten.                                *)
LEADING_EXTENT_Endless(s) ==
  \A i \in DOMAIN s : Unbounded(s[i]) => Leading(s[i].child)

LEADING_EXTENT(s) ==
  /\ s # <<>> => LET last == s[Len(s)]
                 IN  CASE last.kind = "rest"  -> FALSE
                       [] last.kind = "array" -> last.child.leading
                       [] Unbounded(last)     -> last.child.leading
                       [] OTHER               -> TRUE
  /\ \A i \in DOMAIN s : Unbounded(s[i]) /\ ~Terminal(s, i)
                           => Leading(s[i].child)

-----------------------------------------------------------------------------
(* Acceptance.                                                             *)

(* validate_controller                                                     *)
ControllerFor(s, i, c, role, dynamicAllowed) ==
  /\ c \in 1..(i - 1)
  /\ ~Placed(s[c]) /\ s[c].cond = 0
  /\ dynamicAllowed \/ ~DynamicOffset(s, c)
  /\ Numeric(s[c])
  /\ role \in {"bits", "position"} => s[c].kind # "varint"
  /\ s[c].type \in IF role = "count" THEN {"uint", "sint"} ELSE {"uint"}
  /\ ~s[c].const

(* normalize_field: what is checked when field f follows those parsed.     *)
Normalizes(parsed, f) ==
  /\ parsed # <<>> => parsed[Len(parsed)].kind # "rest"
  /\ f.at # <<>> => f.pad = 0 /\ f.align = 0
  /\ f.kind \in {"flag", "bits"} => ~Placed(f) /\ f.cond = 0
  /\ f.kind = "varint" => f.cond = 0
  /\ f.kind = "bits" => ControllerFor(Append(parsed, f), Len(parsed) + 1,
                                      f.ctrl, "bits", FALSE)
  /\ LET known == \A j \in DOMAIN parsed : parsed[j].kind # "nested"
         end   == StaticOffset(Append(parsed, f), Len(parsed) + 1)
     IN  (f.at # <<>> /\ f.at[1] = "static" /\ known /\ end # None)
           => f.at[2] >= end

(* A variable-width integer that controls an extent is written before the  *)
(* extent is known: nothing after it may sit at a fixed place.             *)
VariableIntegersAccepted(s) ==
  /\ \A i \in DOMAIN s : \A j \in 1..(i - 1) :
       (/\ s[j].kind = "varint"
        /\ j \in Controllers(s, LengthRoles(s)) \cup
                 Controllers(s, CountRoles(s)))
         => s[i].at = <<>> /\ s[i].align = 0
  /\ \A i \in FlagRoles(s) :
       s[i].ctrl \in DOMAIN s => s[s[i].ctrl].kind # "varint"

ConditionsAccepted(s) ==
  /\ \A i, j \in FlagRoles(s) : s[i].ctrl = s[j].ctrl => i = j
  /\ \A i \in FlagRoles(s) :
       LET c == s[i].ctrl
       IN  /\ c \in 1..(i - 1) /\ Numeric(s[c])
           /\ s[c].type = "bool" /\ ~s[c].const
           /\ ~Placed(s[c]) /\ s[c].cond = 0 /\ ~DynamicOffset(s, c)
  /\ \A i \in DOMAIN s : s[i].cond # 0 =>
       /\ s[i].cond \in 1..(i - 1) /\ s[s[i].cond].kind = "flag"
       /\ ~Placed(s[i]) /\ Numeric(s[i])
       /\ ~s[i].const /\ s[i].type \in {"uint", "sint"}
  /\ \A g \in FlagRoles(s) :
       \E last \in (g + 1)..Len(s) :
         {i \in DOMAIN s : s[i].cond = g} = (g + 1)..last

LengthsAccepted(s) ==
  /\ \A i \in LengthRoles(s) :
       LET c == s[i].ctrl
       IN  ControllerFor(s, i, c, "length",
             \E j \in DOMAIN s : j <= c /\ s[j].kind = "varint")
  /\ \A i \in PlaceRoles(s) :
       /\ s[i].at[2] \notin Controllers(s, LengthRoles(s))
       /\ ControllerFor(s, i, s[i].at[2], "position", FALSE)

ArraysAccepted(s) ==
  /\ \A i, j \in CountRoles(s) : s[i].ctrl = s[j].ctrl => i = j
  /\ \A i \in CountRoles(s) :
       /\ s[i].cond = 0
       /\ s[i].ctrl \notin
            Controllers(s, LengthRoles(s) \cup FlagRoles(s) \cup BitRoles(s))
              \cup Anchors(s)
       /\ ControllerFor(s, i, s[i].ctrl, "count", TRUE)

BitProjectionsAccepted(s) ==
  \A i \in BitRoles(s) :
    s[i].ctrl \notin
      Controllers(s, LengthRoles(s) \cup CountRoles(s) \cup FlagRoles(s))
        \cup Anchors(s)

Accepted(s) ==
  /\ VariableIntegersAccepted(s)
  /\ ConditionsAccepted(s)
  /\ LengthsAccepted(s)
  /\ ArraysAccepted(s)
  /\ BitProjectionsAccepted(s)
=============================================================================
