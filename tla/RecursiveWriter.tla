--------------------------- MODULE RecursiveWriter ---------------------------
(***************************************************************************)
(* The progressive writer of a recursive root.  One cursor is moved through*)
(* the writers of roots and bodies as the caller's closures nest; a body   *)
(* writes zeros where its count or its length belongs and patches them     *)
(* when its items, or its bytes, are known.                                *)
(*                                                                         *)
(* Sources: wire-repr-macros/src/derive/schema/recursive_writer.rs,        *)
(* recursive_demand_writer.rs, enumeration/recursive/writer.rs; the cursor *)
(* is the Writer of wire-repr/src/recursive.rs over a fixed output, whose  *)
(* other behaviours WireOutput models.                                     *)
(*                                                                         *)
(* The type of the value a closure is handed tells what it may call next:  *)
(* `mode' and the stage of the innermost body.                             *)
(***************************************************************************)
EXTENDS RecursiveGrammar

CONSTANTS
  Schema,       \* the grammar written
  Capacity,     \* of the output
  Contents      \* what a caller gives leaves, parts and bytes (model bound)

VARIABLES
  out,     \* the bytes written, up to the cursor
  open,    \* the bodies being written, outermost first
  mode,    \* "root", "body", "complete", "finished" or "failed"
  error,   \* why the writer failed
  roots    \* the roots written so far: where, and how many items (history)

written == <<out, open, mode, error, roots>>

Blank ==
  /\ out = <<>> /\ open = <<>> /\ mode = "root" /\ error = "none"
  /\ roots = {}

position == Len(out)
Top      == Last(open)
Zeros(n) == [k \in 1..n |-> 0]
Encode(value, width) ==
  [k \in 1..width |-> (value \div Radix ^ (width - k)) % Radix]
Fits(value, width) == value < Radix ^ width

(* An error returns the writer to nobody: the closure and every writer     *)
(* around it are gone, and nothing says what the output then holds.        *)
Abandon(why) ==
  /\ mode' = "failed" /\ error' = why
  /\ UNCHANGED <<out, open, roots>>

(* RecursiveCursor::write, then what follows if it succeeds.               *)
Write(bytes, rest) ==
  IF position + Len(bytes) > Capacity THEN Abandon("full")
  ELSE out' = out \o bytes /\ error' = error /\ rest

(* RecursiveCursor::patch_at, of what the cursor has passed.               *)
Patched(bytes, offset, image) ==
  [p \in DOMAIN bytes |-> IF p \in (offset + 1)..(offset + Len(image))
                          THEN image[p - offset] ELSE bytes[p]]

-----------------------------------------------------------------------------
(* A root: its selector, then its body.                                    *)

Uncounted == -1  \* the root is no list, or copied

Record(start, end, items) ==
  roots' = roots \cup {[start |-> start, end |-> end, items |-> items]}

Selector(s) == Encode(s, SelectorWidth)

WriteUnit(s) ==
  /\ mode = "root" /\ Schema[s].kind = "unit"
  /\ Write(Selector(s),
           /\ mode' = "complete" /\ Record(position, Len(out'), Uncounted)
           /\ UNCHANGED open)

(* What the writer of an ordinary body emits; it may refuse its value.     *)
LeafBytes(body, content) ==
  IF body.tail THEN Zeros(body.width - 1) \o <<Len(content)>> \o content ELSE content

(* Its schema error is replaced by Child, an error of the output is not.   *)
WriteLeaf(s, content) ==
  LET body  == Schema[s]
      bytes == LeafBytes(body, content)
  IN  /\ mode = "root" /\ body.kind = "leaf"
      /\ body.tail \/ Len(content) = body.width
      /\ IF position + SelectorWidth <= Capacity /\ bytes[1] = body.bad
         THEN Abandon("child")
         ELSE Write(Selector(s) \o bytes,
                    /\ mode' = "complete" /\ Record(position, Len(out'), Uncounted)
                    /\ UNCHANGED open)

(* The header of a body: its zeros are written before its writer exists.   *)
HeaderWidth(body) == IF body.kind = "object" THEN 0 ELSE body.width

BeginBody(s) ==
  LET body == Schema[s]
      at   == position + SelectorWidth
  IN  /\ mode = "root" /\ Recursive(body)
      /\ Write(Selector(s) \o Zeros(HeaderWidth(body)),
               /\ open' = Append(open, [body |-> body, start |-> at,
                                        next |-> 1, count |-> 0])
               /\ mode' = "body" /\ UNCHANGED roots)

(* copy_from: the exact bytes of a root some view shows.                   *)
CopyRoot(bytes) ==
  /\ mode = "root"
  /\ Write(bytes, /\ mode' = "complete" /\ UNCHANGED open
                  /\ Record(position, Len(out'), Uncounted))

-----------------------------------------------------------------------------
(* A list: items, then the count over the zeros.                           *)

InList == mode = "body" /\ Top.body.kind = "list"

BeginItem == InList /\ mode' = "root" /\ UNCHANGED <<out, open, error, roots>>

(* Mutant: a copied item is not counted.                                   *)
CopyItemUncounted(bytes) ==
  /\ InList
  /\ Write(bytes, Record(position, Len(out'), Uncounted) /\ UNCHANGED <<mode, open>>)

CopyItem(bytes) ==
  /\ InList
  /\ Write(bytes, /\ open' = [open EXCEPT ![Len(open)].count = @ + 1]
                  /\ Record(position, Len(out'), Uncounted)
                  /\ UNCHANGED mode)

(* Leaving a body completes the root around it.                            *)
Leave ==
  /\ open' = Front(open) /\ mode' = "complete" /\ UNCHANGED error
  /\ Record(Top.start - SelectorWidth, position,
            IF Top.body.kind = "list" THEN Top.count ELSE Uncounted)

(* Mutant: the count lands in the header of the outermost body.            *)
EndItemsOutermost ==
  /\ InList /\ Leave
  /\ out' = Patched(out, open[1].start, Encode(Top.count, Top.body.width))

EndItems ==
  /\ InList
  /\ IF Top.count > Top.body.limit \/ ~Fits(Top.count, Top.body.width)
     THEN Abandon("count")
     ELSE Leave /\ out' = Patched(out, Top.start, Encode(Top.count, Top.body.width))

-----------------------------------------------------------------------------
(* Objects and demand bodies: one setter per field, in order.              *)

Turn(kind) == mode = "body" /\ Top.body.kind = kind

Advanced == open' = [open EXCEPT ![Len(open)].next = @ + 1]

ExpectsChild ==
  \/ Turn("object") /\ Top.next \in DOMAIN Top.body.parts
                    /\ Top.body.parts[Top.next] = Child
  \/ Turn("demand") /\ Top.next \in {1, 4}

BeginChild == ExpectsChild /\ mode' = "root" /\ UNCHANGED <<out, open, error, roots>>

WritePart(content) ==
  /\ Turn("object") /\ Top.next \in DOMAIN Top.body.parts
  /\ Len(content) = Top.body.parts[Top.next]
  /\ Write(content, Advanced /\ UNCHANGED <<mode, roots>>)

WriteBytes(source) ==
  /\ Turn("demand") /\ Top.next = 2
  /\ IF ~Fits(Len(source), Top.body.width) THEN Abandon("count")
     ELSE IF position + Len(source) > Capacity THEN Abandon("full")
     ELSE /\ out' = Patched(out \o source, Top.start,
                            Encode(Len(source), Top.body.width))
          /\ Advanced /\ UNCHANGED <<mode, error, roots>>

(* Mutant: a scalar that is aligned counts from the start of the message.  *)
ScalarPositionAbsolute == CheckedAlign(position + Top.body.pad, Top.body.align)

(* An aligned scalar counts from the start of the body, a padded one from  *)
(* the cursor.                                                             *)
ScalarPosition ==
  IF Top.body.align # 0
  THEN Top.start + CheckedAlign(position - Top.start + Top.body.pad, Top.body.align)
  ELSE position + Top.body.pad

WriteScalar(content) ==
  /\ Turn("demand") /\ Top.next = 3 /\ Len(content) = Top.body.scalar
  /\ Write(Zeros(ScalarPosition - position) \o content,
           Advanced /\ UNCHANGED <<mode, roots>>)

FinishBody ==
  /\ \/ Turn("object") /\ Top.next = Len(Top.body.parts) + 1
     \/ Turn("demand") /\ Top.next = 5
  /\ Leave /\ UNCHANGED out

(* The closure of a child returns its complete root: the body goes on.     *)
ReturnChild ==
  /\ mode = "complete" /\ open # <<>> /\ mode' = "body"
  /\ IF Top.body.kind = "list"
     THEN open' = [open EXCEPT ![Len(open)].count = @ + 1]
     ELSE Advanced
  /\ UNCHANGED <<out, error, roots>>

Finish ==
  /\ mode = "complete" /\ open = <<>> /\ mode' = "finished"
  /\ UNCHANGED <<out, open, error, roots>>

(* One call; `copies' are the roots it may copy.                           *)
WriterStep(copies) ==
  \/ \E s \in DOMAIN Schema : WriteUnit(s) \/ BeginBody(s)
  \/ \E s \in DOMAIN Schema, content \in Contents : WriteLeaf(s, content)
  \/ \E bytes \in copies : CopyRoot(bytes) \/ CopyItem(bytes)
  \/ \E content \in Contents :
       WritePart(content) \/ WriteBytes(content) \/ WriteScalar(content)
  \/ BeginItem \/ EndItems \/ BeginChild \/ FinishBody \/ ReturnChild \/ Finish
=============================================================================
