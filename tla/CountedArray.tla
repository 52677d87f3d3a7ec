---------------------------- MODULE CountedArray ----------------------------
(***************************************************************************)
(* A counted runtime array between two other pieces of a message: what the *)
(* parent's framing proves about its extent, the facade it hands out, the  *)
(* lazy iterator over the items, and the exact-bytes check that copying a  *)
(* facade into a writer relies on.                                         *)
(*                                                                         *)
(* Source: wire-repr/src/schema/array.rs and the array step of             *)
(* wire-repr-macros/src/derive/schema/view.rs.  Offsets inside the array   *)
(* cannot overflow: the parent checked the end of its input.               *)
(***************************************************************************)
EXTENDS WireItem

CONSTANTS
  Schemas,   \* item schemas
  Contents,  \* contents of a position (model bound)
  Counts,    \* values of the count controller
  MaxLength, \* longest input from the start of the array on (model bound)
  UsizeMax

(* Assumed where the module is instantiated.                               *)
CountedArrayAssumption ==
  /\ UsizeMax \in Nat /\ MaxLength \in 0..UsizeMax
  /\ Counts \subseteq Nat
  /\ \A s \in Schemas : s.fixed \in Nat \cup {None} /\ s.leading \in BOOLEAN
  /\ \A c \in Contents : c.extent \in Nat

VARIABLES
  item,      \* the item schema
  text,      \* content of every position
  count,     \* the authoritative count
  available, \* bytes from the start of the array to the end of the input
  view,      \* the facade: its length, and whether its extent was proved
  index,     \* items handed out by the current iterator
  cursor,    \* bytes they took
  failed,    \* the iterator's fuse
  answer     \* what the last call returned

vars == <<item, text, count, available, view, index, cursor, failed, answer>>

-----------------------------------------------------------------------------
(* frame_array_items: where it stands after k items, each framed within    *)
(* `length' bytes.  It stops at the first failure.                         *)

(* Mutant: an item may be empty.                                           *)
PastResting(run, length) ==
  LET left == length - run.at
      next == Frame(item, text[run.at], left)
  IN  IF run.tag # "ok" THEN run
      ELSE IF next.consumed > left THEN [tag |-> "extent", at |-> run.at]
      ELSE [tag |-> next.tag, at |-> run.at + next.consumed]

Past(run, length) ==
  LET left == length - run.at
      next == Progressing(Frame(item, text[run.at], left), left)
  IN  IF run.tag # "ok" THEN run
      ELSE [tag |-> next.tag, at |-> run.at + next.consumed]

Walk(length) ==
  LET run[k \in 0..count] ==
        IF k = 0 THEN [tag |-> "ok", at |-> 0] ELSE Past(run[k - 1], length)
  IN  run

Items(length) == Walk(length)[count]

(* frame_array_extent                                                      *)
Extent(length) ==
  IF item.fixed = None THEN Items(length)
  ELSE IF item.fixed = 0 /\ count # 0 THEN [tag |-> "no_progress", at |-> 0]
  ELSE IF item.fixed * count > UsizeMax THEN [tag |-> "extent", at |-> 0]
  ELSE IF item.fixed * count > length THEN [tag |-> "need_more", at |-> 0]
  ELSE [tag |-> "ok", at |-> item.fixed * count]

(* Mutant: a proved extent is taken for proved items.                      *)
ExactBytesTrusting ==
  view.proved \/ (Extent(view.length).tag = "ok" /\ Extent(view.length).at = view.length)

(* ArrayView::exact_bytes: whether the facade's bytes are exactly its items. *)
ExactBytes ==
  LET extent == Extent(view.length)
  IN  /\ view.proved \/ (extent.tag = "ok" /\ extent.at = view.length)
      /\ item.fixed # None => Items(view.length).tag = "ok"

(* FIXED_SIZE is exact by the WireView contract.                           *)
Init ==
  /\ item \in Schemas /\ text \in [0..MaxLength -> Contents]
  /\ item.fixed # None => \A at \in 0..MaxLength : text[at].kind # "rogue"
  /\ count \in Counts /\ available \in 0..MaxLength
  /\ view = [length |-> 0, proved |-> FALSE] /\ index = 0 /\ cursor = 0
  /\ failed = FALSE /\ answer = "unframed"

Message == <<item, text, count, available>>

(* The parent finds the end of the array before the fields that follow.    *)
FrameLeading ==
  LET extent == Extent(available)
  IN  /\ answer = "unframed"
      /\ IF (count # 0 /\ ~item.leading) \/ extent.tag # "ok"
         THEN answer' = "rejected" /\ UNCHANGED view
         ELSE answer' = "framed" /\ view' = [length |-> extent.at, proved |-> TRUE]
      /\ UNCHANGED <<Message, index, cursor, failed>>

(* A final array of an exact message takes what is left and is checked     *)
(* when it is used.                                                        *)
FrameTerminal ==
  /\ answer = "unframed"
  /\ answer' = "framed" /\ view' = [length |-> available, proved |-> FALSE]
  /\ UNCHANGED <<Message, index, cursor, failed>>

(* ArrayView::iter: a fresh traversal.                                     *)
Iter ==
  /\ answer \notin {"unframed", "rejected"}
  /\ index' = 0 /\ cursor' = 0 /\ failed' = FALSE /\ answer' = "framed"
  /\ UNCHANGED <<Message, view>>

Fail(tag) ==
  failed' = TRUE /\ answer' = tag /\ UNCHANGED <<index, cursor>>

(* ArrayIter::next                                                         *)
NextItem ==
  LET left  == view.length - cursor
      bound == IF item.fixed > 0 /\ item.fixed <= left THEN item.fixed ELSE left
      taken == Progressing(Frame(item, text[cursor], bound), left)
  IN  /\ answer \notin {"unframed", "rejected"}
      /\ IF failed
         THEN answer' = "none" /\ UNCHANGED <<index, cursor, failed>>
         ELSE IF index = count
         THEN IF left # 0 THEN Fail("trailing")
              ELSE answer' = "none" /\ UNCHANGED <<index, cursor, failed>>
         ELSE IF taken.tag # "ok" THEN Fail(taken.tag)
         ELSE IF item.fixed # None /\ taken.consumed # item.fixed THEN Fail("extent")
         ELSE /\ index' = index + 1 /\ cursor' = cursor + taken.consumed
              /\ answer' = "item" /\ UNCHANGED failed
      /\ UNCHANGED <<Message, view>>

Next == FrameLeading \/ FrameTerminal \/ Iter \/ NextItem

Spec == Init /\ [][Next]_vars

-----------------------------------------------------------------------------
(* The eager check that lets a facade be copied as bytes agrees with lazy  *)
(* iteration: it accepts exactly when a traversal hands out all the items  *)
(* and finds nothing behind them.                                          *)
ExactBytesAgrees ==
  /\ answer = "none" /\ ~failed => ExactBytes /\ Items(view.length).at = view.length
  /\ failed => ~ExactBytes

(* After an extent proved by the parent a traversal can only fail on the   *)
(* content of a fixed-size item, never on the layout.                      *)
ProvedExtentHolds ==
  view.proved /\ answer \notin {"item", "none", "framed"} => item.fixed # None /\ answer = "schema"
=============================================================================
