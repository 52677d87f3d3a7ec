-------------------------- MODULE RecursiveGrammar --------------------------
(***************************************************************************)
(* The grammar of a recursive enum, as its generated code sees it: a       *)
(* selector, then the body of the variant it names.  A recursive body is a *)
(* machine of two calls, recursive_start and recursive_resume, each of     *)
(* which advances over plain bytes up to the next child root, or to the    *)
(* end of the body.                                                        *)
(*                                                                         *)
(* Sources: wire-repr-macros/src/derive/schema/recursive.rs (lists),       *)
(* recursive_object.rs (objects), recursive_demand.rs (demand bodies),     *)
(* wire-repr/src/recursive.rs.                                             *)
(*                                                                         *)
(* A grammar is a function from selectors to bodies:                       *)
(*   unit    no body                                                       *)
(*   leaf    an ordinary schema: `width' bytes, then, if it has a tail, as *)
(*           many bytes as the last of them says; it refuses a first byte  *)
(*           `bad'                                                         *)
(*   rogue   a hand-written schema reporting `width' whatever the input is *)
(*   list    a count of `width' bytes, then that many roots; `limit' is    *)
(*           the largest count u32 and the field's value type accept       *)
(*   object  `parts', each a width or Child                                *)
(*   demand  a length of `width' bytes, a root, that many bytes, padding,  *)
(*           a scalar, a root                                              *)
(***************************************************************************)
EXTENDS Integers, Sequences, FiniteSets, SequencesExt, FiniteSetsExt

CONSTANTS
  Radix,         \* values of one byte, scaled down
  SelectorWidth,
  UsizeMax

ASSUME RecursiveGrammarAssumption ==
  Radix \in Nat /\ SelectorWidth \in Nat \ {0} /\ UsizeMax \in Nat

Child == -1

Unit                     == [kind |-> "unit"]
Leaf(width, tail, bad)   == [kind |-> "leaf", width |-> width, tail |-> tail, bad |-> bad]
Rogue(width)             == [kind |-> "rogue", width |-> width]
List(width, limit, fault) ==
  [kind |-> "list", width |-> width, limit |-> limit, fault |-> fault]
Object(parts)            == [kind |-> "object", parts |-> parts]
Demand(width, pad, align, scalar) ==
  [kind |-> "demand", width |-> width, pad |-> pad, align |-> align,
   scalar |-> scalar]

Recursive(body) == body.kind \in {"list", "object", "demand"}

(* An error: its kind, where it says it happened, and, of NeedMore, how    *)
(* many bytes are missing at least.  `via' tells which error type of the   *)
(* generated code it is wrapped in: the root's own variant, RecursiveError *)
(* or the error of a leaf variant.                                         *)
Failure(via, tag, offset, more) ==
  [tag |-> tag, via |-> via, offset |-> offset, more |-> more]
NeedMore(via, offset, more) == Failure(via, "need_more", offset, more)

Decode(bytes) == FoldLeft(LAMBDA value, byte : value * Radix + byte, 0, bytes)

Suffix(input, cursor) == SubSeq(input, cursor + 1, Len(input))
Bytes(input, start, end) == SubSeq(input, start + 1, end)

(* RecursiveDepth.                                                         *)
NewDepth(limit) == [remaining |-> limit, limit |-> limit]
Enter(depth)    == [depth EXCEPT !.remaining = @ - 1]

-----------------------------------------------------------------------------
(* Transitions of a body over `rest', the input from its cursor on, which  *)
(* lies at `absolute'.                                                     *)

Done(advance)     == [tag |-> "done", advance |-> advance]
Visit(advance, c) == [tag |-> "child", advance |-> advance, continuation |-> c]

Over(rest, absolute, advance, step) ==
  IF Len(rest) < advance
  THEN NeedMore("recursive", absolute + Len(rest), advance - Len(rest))
  ELSE step

StartList(body, rest, absolute) ==
  LET count == Decode(Bytes(rest, 0, body.width))
  IN  Over(rest, absolute, body.width,
        IF count > body.limit THEN Failure("recursive", body.fault, absolute, 0)
        ELSE IF count = 0 THEN Done(body.width)
        ELSE Visit(body.width, count))

(* Mutant: the last child is visited once more.                            *)
ResumeListOnceMore(c) == IF c = 0 THEN Done(0) ELSE Visit(0, c - 1)

ResumeList(c) == IF c = 1 THEN Done(0) ELSE Visit(0, c - 1)

(* The positions of an object's children; the k-th one is continuation k.  *)
Children(body) == SetToSortSeq({i \in DOMAIN body.parts : body.parts[i] = Child}, <)

WidthOf(body, from, to) ==
  FoldLeft(+, 0, SubSeq(body.parts, from, to))

(* From part `from' up to the next child, or to the end.                   *)
Transition(body, from, rest, absolute) ==
  LET ahead == {i \in from..Len(body.parts) : body.parts[i] = Child}
      next  == Min(ahead)
  IN  IF ahead = {}
      THEN LET advance == WidthOf(body, from, Len(body.parts))
           IN  Over(rest, absolute, advance, Done(advance))
      ELSE LET advance == WidthOf(body, from, next - 1)
               ordinal == Cardinality({i \in 1..next : body.parts[i] = Child})
           IN  Over(rest, absolute, advance, Visit(advance, ordinal))

CheckedAlign(position, alignment) ==
  IF alignment = 0 \/ position % alignment = 0 THEN position
  ELSE position + (alignment - (position % alignment))

AfterLeft(length, start) ==
  [resume |-> 1, controller |-> length, body_start |-> start]
AfterRight == [resume |-> 2, controller |-> 0, body_start |-> 0]

StartDemand(body, rest, absolute) ==
  Over(rest, absolute, body.width,
    Visit(body.width, AfterLeft(Decode(Bytes(rest, 0, body.width)), absolute)))

(* Mutant: alignment counts from the first byte of the message.            *)
ScalarStartAbsolute(body, bytes_end, body_start) ==
  CheckedAlign(bytes_end + body.pad, body.align)

(* Alignment counts from the start of the body.                            *)
ScalarStart(body, bytes_end, body_start) ==
  body_start + CheckedAlign(bytes_end - body_start + body.pad, body.align)

ResumeDemand(body, rest, absolute, c) ==
  LET start   == ScalarStart(body, absolute + c.controller, c.body_start)
      advance == start - absolute + body.scalar
  IN  IF c.resume = 2 THEN Done(0)
      ELSE IF absolute + c.controller > UsizeMax \/ start > UsizeMax
      THEN Failure("recursive", "layout", absolute, 0)
      ELSE Over(rest, absolute, advance, Visit(advance, AfterRight))

RecursiveStart(body, rest, absolute) ==
  CASE body.kind = "list"   -> StartList(body, rest, absolute)
    [] body.kind = "object" -> Transition(body, 1, rest, absolute)
    [] body.kind = "demand" -> StartDemand(body, rest, absolute)

RecursiveResume(body, rest, absolute, c) ==
  CASE body.kind = "list"   -> ResumeList(c)
    [] body.kind = "object" ->
         Transition(body, Children(body)[c] + 1, rest, absolute)
    [] body.kind = "demand" -> ResumeDemand(body, rest, absolute, c)

(* WireView::frame of an ordinary body.                                    *)
LeafFrame(body, rest, absolute) ==
  LET extent == body.width + (IF body.tail THEN rest[body.width] ELSE 0)
      Missing(n) == NeedMore("variant", absolute + Len(rest), n - Len(rest))
  IN  IF body.kind = "rogue" THEN Done(body.width)
      ELSE IF Len(rest) < body.width THEN Missing(body.width)
      ELSE IF rest[1] = body.bad THEN Failure("variant", "child", absolute, 0)
      ELSE IF Len(rest) < extent THEN Missing(extent)
      ELSE Done(extent)

=============================================================================
