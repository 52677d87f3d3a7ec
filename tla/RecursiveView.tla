---------------------------- MODULE RecursiveView ----------------------------
(***************************************************************************)
(* The views of a recursive root.  Opening frames the root: its children   *)
(* are skipped, not framed, so what is below them is only known to be      *)
(* measurable.  A getter frames one child again, over the exact span the   *)
(* parent kept, one level further down, and yields its view.               *)
(*                                                                         *)
(* Sources: wire-repr-macros/src/derive/schema/enumeration/recursive.rs,   *)
(* recursive.rs, recursive_object.rs, recursive_demand.rs,                 *)
(* wire-repr/src/recursive.rs.                                             *)
(*                                                                         *)
(* Skipping answers what RecursiveExtent promises (RecursiveSkip shows it  *)
(* does) and the geometry of an array answers the exact spans              *)
(* (RecursiveGeometry).                                                    *)
(***************************************************************************)
EXTENDS RecursiveGrammar

CONSTANTS Grammar

Skipping == INSTANCE RecursiveExtent WITH
  Grammars <- {}, Inputs <- {}, Bases <- {}, DEPTH <- 0,
  grammar <- 0, input <- 0, base <- 0, remaining <- 0, answer <- 0

VARIABLES
  source, \* the bytes the root view was opened over
  views,  \* the open views, each one yielded by a getter of the one before
  reply   \* what the last call answered

Said(tag) == [tag |-> tag]

(* flatten_recursive: what the root error was wrapped in is forgotten.     *)
Flatten(failure) == [failure EXCEPT !.via = "recursive"]

Framed(boundaries, consumed) ==
  [tag |-> "ok", boundaries |-> boundaries, consumed |-> consumed]

-----------------------------------------------------------------------------
(* frame_recursive: the boundaries a body's state keeps.  Each piece is    *)
(* framed from the boundary the pieces before it have reached.             *)

Payload == -2   \* the bytes of a demand body
Aligned == -3   \* its scalar

(* Mutant: what is missing is said to be the whole width.                  *)
FixedWhole(input, absolute, width, at) ==
  IF at + width > Len(input)
  THEN NeedMore("recursive", absolute + Len(input), width)
  ELSE Framed(<<>>, at + width)

Fixed(input, absolute, width, at) ==
  IF at + width > Len(input)
  THEN NeedMore("recursive", absolute + Len(input), at + width - Len(input))
  ELSE Framed(<<>>, at + width)

Measured(root, absolute, at) ==
  IF root.tag # "ok" THEN Flatten(root)
  ELSE IF root.end = 0 THEN Failure("recursive", "child", absolute + at, 0)
  ELSE Framed(<<>>, at + root.end)

(* skip of one child, its depth being the budget left below this body.     *)
Skipped(input, absolute, depth, at) ==
  Measured(Skipping!Measure(Grammar, Suffix(input, at), absolute + at,
                            depth.remaining),
           absolute, at)

(* The bytes go on from the first child for as many as the length says.    *)
PayloadEnd(input, absolute, length, at) ==
  IF at + length > UsizeMax THEN Failure("recursive", "layout", absolute, 0)
  ELSE Fixed(input, absolute, length, at)

(* Mutant: the scalar is expected right after the bytes.                   *)
ScalarEndUnpadded(body, input, absolute, at) ==
  Fixed(input, absolute, body.scalar, at)

ScalarEnd(body, input, absolute, at) ==
  Fixed(input, absolute, body.scalar, CheckedAlign(at + body.pad, body.align))

PieceEnd(body, input, absolute, depth, piece, at) ==
  CASE piece = Child   -> Skipped(input, absolute, depth, at)
    [] piece = Payload ->
         PayloadEnd(input, absolute, Decode(Bytes(input, 0, body.width)), at)
    [] piece = Aligned -> ScalarEnd(body, input, absolute, at)
    [] OTHER           -> Fixed(input, absolute, piece, at)

Extended(framed, end) ==
  IF end.tag # "ok" THEN end
  ELSE Framed(Append(framed.boundaries, end.consumed), end.consumed)

FramePieces(body, input, absolute, depth, pieces, first) ==
  FoldLeft(LAMBDA framed, piece :
             IF framed.tag # "ok" THEN framed
             ELSE Extended(framed, PieceEnd(body, input, absolute, depth, piece,
                                            framed.consumed)),
           Framed(<<first>>, first), pieces)

(* What follows the start of a body: of a list, its items.                 *)
Pieces(body, step) ==
  CASE body.kind = "list"   -> [item \in 1..(IF step.tag = "done" THEN 0
                                             ELSE step.continuation) |-> Child]
    [] body.kind = "object" -> body.parts
    [] body.kind = "demand" -> <<body.width, Child, Payload, Aligned, Child>>

FrameFrom(body, input, absolute, depth, step) ==
  IF step.tag \notin {"done", "child"} THEN step
  ELSE FramePieces(body, input, absolute, depth, Pieces(body, step), step.advance)

FrameRecursive(body, input, absolute, depth) ==
  FrameFrom(body, input, absolute, depth,
            IF body.kind = "list" THEN StartList(body, input, absolute) ELSE Done(0))

FrameLeaf(leaf) ==
  IF leaf.tag = "done" THEN Framed(<<>>, leaf.advance) ELSE leaf

FrameBody(body, rest, absolute, depth) ==
  CASE body.kind = "unit"             -> Framed(<<>>, 0)
    [] body.kind \in {"leaf", "rogue"} -> FrameLeaf(LeafFrame(body, rest, absolute))
    [] OTHER                          -> FrameRecursive(body, rest, absolute, depth)

(* The extent of the body must lie in the input.                           *)
Accepted(framed, available, absolute) ==
  IF framed.tag # "ok" THEN framed
  ELSE IF framed.consumed > available
  THEN Failure("root", "invalid_frame", absolute, 0)
  ELSE Framed(framed.boundaries, SelectorWidth + framed.consumed)

(* RecursiveFrame::frame, the level of the root being entered already.     *)
Frame(input, offset, depth) ==
  LET selector == Decode(Bytes(input, 0, SelectorWidth))
      absolute == offset + SelectorWidth
  IN  IF Len(input) < SelectorWidth
      THEN NeedMore("root", offset + Len(input), SelectorWidth - Len(input))
      ELSE IF selector \notin DOMAIN Grammar THEN Failure("root", "unknown", offset, 0)
      ELSE Accepted(FrameBody(Grammar[selector], Suffix(input, SelectorWidth),
                              absolute, depth),
                    Len(input) - SelectorWidth, absolute)

View(input, offset, depth, framed, from, index) ==
  [bytes |-> input, offset |-> offset, depth |-> depth,
   boundaries |-> framed.boundaries, from |-> from, index |-> index,
   cursor |-> 0, next |-> 0]

-----------------------------------------------------------------------------
(* Calls of the caller.                                                    *)

(* Root::view: the whole input is one root.                                *)
Whole(framed, length) ==
  IF framed.tag = "ok" /\ framed.consumed < length
  THEN Failure("root", "trailing", framed.consumed, 0)
  ELSE framed

Opened(bytes, limit) ==
  IF limit = 0 THEN Failure("root", "depth", 0, 0)
  ELSE Whole(Frame(bytes, 0, Enter(NewDepth(limit))), Len(bytes))

Show(bytes, limit, framed) ==
  /\ source' = bytes
  /\ IF framed.tag # "ok" THEN views' = <<>> /\ reply' = framed
     ELSE /\ views' = <<View(bytes, 0, Enter(NewDepth(limit)), framed, "root", 0)>>
          /\ reply' = Said("view")

Open(bytes, limit) == Show(bytes, limit, Opened(bytes, limit))

Parent   == Last(views)
VariantBody(view) == Grammar[Decode(Bytes(view.bytes, 0, SelectorWidth))]
BodyBytes(view)   == Suffix(view.bytes, SelectorWidth)
BodyOffset(view)  == view.offset + SelectorWidth

(* The children of a view, and the span the view keeps for each.           *)
Slots(view) ==
  LET body == VariantBody(view)
  IN  CASE body.kind = "list"   -> 1..(Len(view.boundaries) - 1)
        [] body.kind = "object" -> {i \in DOMAIN body.parts : body.parts[i] = Child}
        [] body.kind = "demand" -> {2, 5}
        [] OTHER                -> {}

(* Framing a child again: entering its level, then its exact span.         *)
(* Mutant: the level is not entered.                                       *)
ChildAtSameLevel(view, input, start, framed, from, index) ==
  View(input, BodyOffset(view) + start, view.depth, framed, from, index)

ChildView(view, input, start, framed, from, index) ==
  View(input, BodyOffset(view) + start, Enter(view.depth), framed, from, index)

Refuse(failure) == reply' = failure /\ UNCHANGED <<source, views>>

(* The getter of a child frames its exact span again.                      *)
Yield(slot, start, item, framed) ==
  IF framed.tag # "ok" THEN Refuse(Flatten(framed))
  ELSE IF framed.consumed # Len(item)
  THEN Refuse(Failure("recursive", "invalid_frame", BodyOffset(Parent) + start, 0))
  ELSE /\ views' = Append(views, ChildView(Parent, item, start, framed, "get", slot))
       /\ reply' = Said("view") /\ UNCHANGED source

Get(slot) ==
  LET start    == Parent.boundaries[slot]
      item     == Bytes(BodyBytes(Parent), start, Parent.boundaries[slot + 1])
      absolute == BodyOffset(Parent) + start
  IN  /\ views # <<>> /\ slot \in Slots(Parent)
      /\ IF Parent.depth.remaining = 0
         THEN Refuse(Failure("recursive", "depth", absolute, 0))
         ELSE Yield(slot, start, item, Frame(item, absolute, Enter(Parent.depth)))

(* RecursiveArrayIter::next walks the same items without the boundaries:   *)
(* each is framed at the start of what is left of the array.               *)
(* Mutant: the cursor is where the last item began.                        *)
MoveOnce(start, left, framed) ==
  IF framed.tag # "ok" THEN Refuse(Flatten(framed))
  ELSE /\ views' = Append([views EXCEPT ![Len(views)].cursor = framed.consumed,
                                        ![Len(views)].next = @ + 1],
                          ChildView(Parent, SubSeq(left, 1, framed.consumed), start,
                                    framed, "iterate", Parent.next + 1))
       /\ reply' = Said("view") /\ UNCHANGED source

Move(start, left, framed) ==
  LET moved == [views EXCEPT ![Len(views)].cursor = @ + framed.consumed,
                             ![Len(views)].next = @ + 1]
      item  == SubSeq(left, 1, framed.consumed)
  IN  IF framed.tag # "ok" THEN Refuse(Flatten(framed))
      ELSE IF framed.consumed \notin 1..Len(left)
      THEN Refuse(Failure("recursive", "invalid_frame", BodyOffset(Parent) + start, 0))
      ELSE /\ views' = Append(moved, ChildView(Parent, item, start, framed,
                                               "iterate", Parent.next + 1))
           /\ reply' = Said("view") /\ UNCHANGED source

Iterate ==
  LET count    == Len(Parent.boundaries) - 1
      start    == Parent.boundaries[1] + Parent.cursor
      left     == Bytes(BodyBytes(Parent), start, Last(Parent.boundaries))
      absolute == BodyOffset(Parent) + start
  IN  /\ views # <<>> /\ VariantBody(Parent).kind = "list"
      /\ IF Parent.next = count
         THEN /\ reply' = Said(IF left = <<>> THEN "end" ELSE "trailing")
              /\ UNCHANGED <<source, views>>
         ELSE IF Parent.depth.remaining = 0
         THEN Refuse(Failure("recursive", "depth", absolute, 0))
         ELSE Move(start, left, Frame(left, absolute, Enter(Parent.depth)))

(* The caller drops the innermost view.                                    *)
Release ==
  /\ views # <<>> /\ views' = Front(views) /\ reply' = Said("none")
  /\ UNCHANGED source

-----------------------------------------------------------------------------
(* Properties                                                              *)

(* Once a root is open, no getter and no iterator below it can fail: what  *)
(* skipping measured can be framed, and the depth it was opened with is    *)
(* enough for every child in it.                                           *)
OpenedIsWalkable ==
  views # <<>> => reply.tag \in {"view", "end", "none"}

(* A view shows exactly one root of the source, at its absolute offset,    *)
(* with one level less to spend than the view it came from; and whether an *)
(* iterator or a getter handed it out, it spans what get(n) answers for    *)
(* its index.                                                              *)
ViewsAreRoots ==
  \A i \in DOMAIN views :
    LET view == views[i]
        root == Skipping!Measure(Grammar, view.bytes, view.offset,
                                 view.depth.remaining + 1)
        parent == views[i - 1]
        start  == parent.boundaries[view.index]
    IN  /\ view.bytes = Bytes(source, view.offset, view.offset + Len(view.bytes))
        /\ root.tag = "ok" /\ root.end = Len(view.bytes)
        /\ view.depth.remaining = view.depth.limit - i
        /\ i > 1 =>
             /\ view.offset = BodyOffset(parent) + start
             /\ Len(view.bytes) = parent.boundaries[view.index + 1] - start
=============================================================================
