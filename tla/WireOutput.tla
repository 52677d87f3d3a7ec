----------------------------- MODULE WireOutput -----------------------------
(***************************************************************************)
(* The progressive output layer of wire-repr: an Output adapter (fixed     *)
(* slice, extendable owner, bounded owner, caller-controlled growth), the  *)
(* Writer that owns it, the ChildWriters that borrow the writer, and the   *)
(* ArrayWriter facade.                                                     *)
(*                                                                         *)
(* Sources: wire-repr/src/output.rs, output/integer.rs and                 *)
(* output/array_source.rs.                                                 *)
(*                                                                         *)
(* One step is one call on the runtime API.  Rust's borrow rules are the   *)
(* control: while a child exists only the innermost one may be called.     *)
(* A call either succeeds or returns an error that is recorded in          *)
(* `result'; the caller may go on after an error, as a hand-written        *)
(* WireWrite implementation can.                                           *)
(***************************************************************************)
EXTENDS Integers, Sequences

CONSTANTS
  UsizeMax,    \* usize::MAX, scaled down: offsets are 0..UsizeMax
  Byte,        \* byte values callers write
  Zero,        \* the fill byte
  Junk,        \* content of a cell this writer never wrote (caller garbage,
               \* growth filler): reading it would expose stale bytes
  NoLimit,     \* ChildWriter.limit = None
  Closed,      \* no ArrayWriter is open
  Adapters,    \* the Output implementations to consider
  Limits,      \* limits a Bounded adapter may be given
  InitialLens, \* lengths the caller's buffer may have at the start
  MaxChunk,    \* longest byte string of one call (model bound)
  MaxFrames    \* deepest nesting of child writers (model bound)

ASSUME OutputAssumption ==
  /\ UsizeMax \in Nat \ {0}
  /\ Zero \in Byte /\ Junk \notin Byte
  /\ NoLimit \notin Int /\ Closed \notin Int
  /\ Adapters \subseteq {"fixed", "extend", "bounded", "grow_with"}
  /\ Limits \subseteq 0..UsizeMax
  /\ InitialLens \subseteq 0..UsizeMax
  /\ MaxChunk \in Nat /\ MaxFrames \in Nat

VARIABLES
  adapter,   \* which Output implementation the writer owns
  bound,     \* Bounded.limit (meaningful for that adapter only)
  buf,       \* the address space; only cells below `len' are exposed
  len,       \* output.bytes().len()
  cursor,    \* Writer.cursor (Writer.start is always 0)
  array,     \* ArrayWriter.count, or Closed
  origin,    \* where the open ArrayWriter began (history)
  frames,    \* the live ChildWriters, outermost first
  abandoned, \* an item was dropped half-way by an error (history)
  phase,     \* "open" until Writer::finish consumes the writer
  result     \* answer of the last call

outputVars == <<adapter, bound, buf, len, cursor>>
callVars   == <<array, origin, frames, abandoned, phase, result>>
vars       == <<outputVars, callVars>>

Addr    == 0..(UsizeMax - 1)
Offset  == 0..UsizeMax
Cell    == Byte \cup {Junk}
Chunk   == UNION {[1..n -> Byte] : n \in 0..MaxChunk}
Frame   == [start : Offset, cursor : Offset, limit : Offset \cup {NoLimit},
            count : Nat]
Errors  == {"NeedMore", "Limit", "Grow", "GrowthRefused", "Backwards",
            "ChildOverflow", "ChildIncomplete", "NonProgressItem",
            "LengthOverflow", "Schema"}

Larger(a, b)  == IF a >= b THEN a ELSE b
Smaller(a, b) == IF a <= b THEN a ELSE b

-----------------------------------------------------------------------------
(* The output state a call sees, and the state with an answer it leaves.   *)

Out == [buf : [Addr -> Cell], len : Offset, cursor : Offset]

Here == [buf |-> buf, len |-> len, cursor |-> cursor]

Answers == [out : Out, res : {"Ok"} \cup Errors]

Ok(o)      == [out |-> o, res |-> "Ok"]
Err(o, e)  == [out |-> o, res |-> e]

(* growth_target: the suggestion, at least the minimum, at least double.   *)
GrowthTarget(current, min, suggested) ==
  Larger(Larger(suggested, min), Smaller(2 * current, UsizeMax))

(* Extend<u8> appends filler up to `target' and keeps everything else.     *)
Extended(o, target) ==
  [buf |-> [a \in Addr |-> IF o.len <= a /\ a < target
                           THEN Junk ELSE o.buf[a]],
   len |-> Larger(o.len, target), cursor |-> o.cursor]

(* A relocating callback keeps 0..kept-1 and nothing else.                 *)
Relocated(o, kept, newLen) ==
  [buf |-> [a \in Addr |-> IF a < kept THEN o.buf[a] ELSE Junk],
   len |-> newLen, cursor |-> o.cursor]

EnsureFixed(o, min) ==
  IF o.len < min THEN {Err(o, "NeedMore")} ELSE {Ok(o)}

EnsureExtend(o, min, suggested) ==
  IF o.len >= min THEN {Ok(o)}
  ELSE {Ok(Extended(o, GrowthTarget(o.len, min, suggested)))}

(* Mutant: the minimum is checked, the doubled target is not clamped.      *)
EnsureBoundedUnclamped(o, min, suggested) ==
  IF min > bound THEN {Err(o, "Limit")}
  ELSE IF o.len >= min THEN {Ok(o)}
  ELSE {Ok(Extended(o, GrowthTarget(o.len, min, suggested)))}

EnsureBounded(o, min, suggested) ==
  IF min > bound THEN {Err(o, "Limit")}
  ELSE IF o.len >= min THEN {Ok(o)}
  ELSE {Ok(Extended(o, Smaller(GrowthTarget(o.len, min, suggested), bound)))}

(* The callback fails, or reports success having exposed some length; a    *)
(* success that exposes too little is refused by verify_growth.            *)
EnsureGrowWith(o, hwm, min) ==
  IF o.len >= min THEN {Ok(o)}
  ELSE {Err(o, "Grow")}
       \cup {Err(Relocated(o, hwm, n), "GrowthRefused") : n \in o.len..(min - 1)}
       \cup {Ok(Relocated(o, hwm, n)) : n \in min..UsizeMax}

OutputEnsure(o, hwm, min, suggested) ==
  CASE adapter = "fixed"     -> EnsureFixed(o, min)
    [] adapter = "extend"    -> EnsureExtend(o, min, suggested)
    [] adapter = "bounded"   -> EnsureBounded(o, min, suggested)
    [] adapter = "grow_with" -> EnsureGrowWith(o, hwm, min)

(* Writer::ensure: everything below the cursor is declared precious.       *)
WriterEnsure(o, min, suggested) ==
  OutputEnsure(o, o.cursor, min, Larger(suggested, min))

-----------------------------------------------------------------------------
(* Writer operations, as functions from an output state to its answers.    *)

Stored(b, at, bytes) ==
  [a \in Addr |-> IF at <= a /\ a < at + Len(bytes) THEN bytes[a - at + 1]
                  ELSE b[a]]

Filled(b, from, to) ==
  [a \in Addr |-> IF from <= a /\ a < to THEN Zero ELSE b[a]]

Spliced(b, at, end, bytes) ==
  LET n == Len(bytes)
  IN  [a \in Addr |->
         IF at <= a /\ a < at + n THEN bytes[a - at + 1]
         ELSE IF at + n <= a /\ a < end + n - 1 THEN b[a - (n - 1)]
         ELSE b[a]]

(* Apply `Change' to the buffer of a successful ensure and raise the       *)
(* cursor to `end'; a failed ensure is passed on.                          *)
Committed(answers, end, Change(_)) ==
  {IF r.res = "Ok"
   THEN Ok([buf |-> Change(r.out.buf), len |-> r.out.len,
            cursor |-> Larger(r.out.cursor, end)])
   ELSE r : r \in answers}

(* Mutants: the addition is unchecked; a patch pulls the cursor back.      *)
WriteAtUnchecked(o, at, bytes) ==
  LET end == at + Len(bytes)
      Change(b) == Stored(b, at, bytes)
  IN  Committed(WriterEnsure(o, end, Larger(end, o.cursor)), end, Change)

WriteAtNoMax(o, at, bytes) ==
  LET end == at + Len(bytes)
  IN  IF end > UsizeMax THEN {Err(o, "LengthOverflow")}
      ELSE {IF r.res = "Ok"
            THEN Ok([buf |-> Stored(r.out.buf, at, bytes), len |-> r.out.len,
                     cursor |-> end])
            ELSE r : r \in WriterEnsure(o, end, Larger(end, o.cursor))}

WriteAt(o, at, bytes) ==
  LET end == at + Len(bytes)
      Change(b) == Stored(b, at, bytes)
  IN  IF end > UsizeMax THEN {Err(o, "LengthOverflow")}
      ELSE Committed(WriterEnsure(o, end, Larger(end, o.cursor)), end, Change)

(* Mutant: the gap is exposed but not zeroed.                              *)
FillAtReserved(o, at, n) ==
  LET end == at + n
      Change(b) == b
  IN  IF end > UsizeMax THEN {Err(o, "LengthOverflow")}
      ELSE Committed(WriterEnsure(o, end, Larger(end, o.cursor)), end, Change)

FillAt(o, at, n) ==
  LET end == at + n
      Change(b) == Filled(b, at, end)
  IN  IF end > UsizeMax THEN {Err(o, "LengthOverflow")}
      ELSE Committed(WriterEnsure(o, end, Larger(end, o.cursor)), end, Change)

Within(end, limit) == limit = NoLimit \/ end <= limit

ExpandSpan(o, at, end, bytes, limit) ==
  LET after == end + Len(bytes) - 1
      Change(b) == Spliced(b, at, end, bytes)
  IN  IF at + 1 > UsizeMax THEN {Err(o, "LengthOverflow")}
      ELSE IF at + 1 > end \/ end > o.cursor THEN {Err(o, "Backwards")}
      ELSE IF Len(bytes) = 0 \/ after > UsizeMax
           THEN {Err(o, "LengthOverflow")}
      ELSE IF ~Within(after, limit) THEN {Err(o, "ChildOverflow")}
      ELSE Committed(WriterEnsure(o, after, Larger(after, o.cursor)), after,
                     Change)

-----------------------------------------------------------------------------
(* Bookkeeping shared by the actions.                                      *)

Depth == Len(frames)
Top   == frames[Depth]
Popped(s) == [i \in 1..(Len(s) - 1) |-> s[i]]

Become(r) ==
  /\ buf' = r.out.buf /\ len' = r.out.len /\ cursor' = r.out.cursor
  /\ result' = r.res

Same == UNCHANGED <<adapter, bound, abandoned, phase>>

(* Only the owner may be called: no child and no array facade borrows it.  *)
AtWriter == phase = "open" /\ array = Closed /\ frames = <<>>
AtArray  == phase = "open" /\ array # Closed /\ frames = <<>>
AtChild  == phase = "open" /\ frames # <<>>

Init ==
  /\ adapter \in Adapters
  /\ bound \in (IF adapter = "bounded" THEN Limits ELSE {0})
  /\ len \in InitialLens
  /\ buf = [a \in Addr |-> Junk]
  /\ cursor = 0
  /\ array = Closed /\ origin = 0
  /\ frames = <<>>
  /\ abandoned = FALSE
  /\ phase = "open"
  /\ result = "Ok"

-----------------------------------------------------------------------------
(* Writer                                                                  *)

OnWriter(answers) ==
  /\ AtWriter
  /\ \E r \in answers : Become(r)
  /\ UNCHANGED <<array, origin, frames>>
  /\ Same

WriterWrite(bytes) == OnWriter(WriteAt(Here, cursor, bytes))

WriterWriteAt(at, bytes) == OnWriter(WriteAt(Here, at, bytes))

WriterFillAt(at, n) == OnWriter(FillAt(Here, at, n))

WriterReserve(min, suggested) == OnWriter(WriterEnsure(Here, min, suggested))

WriterExpandIntegerAt(at, bytes) ==
  OnWriter(ExpandSpan(Here, at, cursor, bytes, NoLimit))

NewFrame(start, limit) ==
  [start |-> start, cursor |-> start, limit |-> limit, count |-> 0]

(* Writer::child_at: the gap up to `position' joins the represented range. *)
ChildAt(position) ==
  /\ AtWriter /\ MaxFrames > 0
  /\ IF position < cursor
     THEN Become(Err(Here, "Backwards")) /\ UNCHANGED frames
     ELSE \E r \in WriterEnsure(Here, position, position) :
            IF r.res = "Ok"
            THEN /\ Become(Ok([r.out EXCEPT !.cursor = position]))
                 /\ frames' = <<NewFrame(position, NoLimit)>>
            ELSE Become(r) /\ UNCHANGED frames
  /\ UNCHANGED <<array, origin>> /\ Same

(* Writer::fixed_child_at: the region is exposed, the cursor stays.        *)
FixedChildAt(position, n) ==
  /\ AtWriter /\ MaxFrames > 0
  /\ LET end == position + n
     IN  IF end > UsizeMax
         THEN Become(Err(Here, "LengthOverflow")) /\ UNCHANGED frames
         ELSE \E r \in WriterEnsure(Here, end, Larger(end, cursor)) :
                /\ Become(r)
                /\ IF r.res = "Ok"
                   THEN frames' = <<NewFrame(position, end)>>
                   ELSE UNCHANGED frames
  /\ UNCHANGED <<array, origin>> /\ Same

Finish ==
  /\ AtWriter
  /\ phase' = "finished" /\ result' = "Ok"
  /\ UNCHANGED <<outputVars, array, origin, frames, abandoned>>

-----------------------------------------------------------------------------
(* ArrayWriter                                                             *)

ArrayOpen ==
  /\ AtWriter
  /\ array' = 0 /\ origin' = cursor /\ result' = "Ok"
  /\ UNCHANGED <<outputVars, frames, abandoned, phase>>

(* The closure returns the facade; the generated step reads its count.     *)
ArrayClose ==
  /\ AtArray
  /\ array' = Closed /\ origin' = 0 /\ result' = "Ok"
  /\ UNCHANGED <<outputVars, frames, abandoned, phase>>

(* item(): child_at(position) and the nested item cursor of array_item.    *)
ArrayItem ==
  /\ AtArray /\ MaxFrames > 1
  /\ \E r \in WriterEnsure(Here, cursor, cursor) :
       /\ Become(r)
       /\ IF r.res = "Ok"
          THEN /\ frames' = <<[NewFrame(cursor, NoLimit) EXCEPT !.count = array],
                              NewFrame(cursor, NoLimit)>>
               /\ UNCHANGED <<array, origin>>
          ELSE UNCHANGED frames /\ array' = Closed /\ origin' = 0
  /\ Same

(* item_view, item_result and copy_from: exact bytes with their count.     *)
ArrayCopy(n, bytes) ==
  /\ AtArray
  /\ n <= Len(bytes) \/ Len(bytes) = 0
  /\ n = 0 => Len(bytes) = 0
  /\ IF n > 0 /\ Len(bytes) = 0
     THEN /\ Become(Err(Here, "NonProgressItem"))
          /\ array' = Closed /\ origin' = 0
     ELSE \E r \in WriteAt(Here, cursor, bytes) :
            /\ Become(r)
            /\ IF r.res = "Ok"
               THEN array' = array + n /\ UNCHANGED origin
               ELSE array' = Closed /\ origin' = 0
  /\ UNCHANGED frames /\ Same

-----------------------------------------------------------------------------
(* ChildWriter: every call goes to the innermost child.                    *)

Advanced(position) == [frames EXCEPT ![Depth].cursor = position]

ChildError(e) == Become(Err(Here, e)) /\ UNCHANGED frames

(* Mutant: the child's cursor moves before the answer is known.            *)
ThroughEager(answers, position) ==
  \E r \in answers : Become(r) /\ frames' = Advanced(position)

(* Pass the call on to the writer; move this cursor only on success.       *)
Through(answers, position) ==
  \E r \in answers :
    /\ Become(r)
    /\ frames' = IF r.res = "Ok" THEN Advanced(position) ELSE frames

OnChild == AtChild /\ UNCHANGED <<array, origin>> /\ Same

(* Mutant: a write does not respect the fixed region.                      *)
ChildWriteUnlimited(bytes) ==
  /\ OnChild
  /\ LET end == Top.cursor + Len(bytes)
     IN  IF end > UsizeMax THEN ChildError("LengthOverflow")
         ELSE Through(WriteAt(Here, Top.cursor, bytes), end)

ChildWrite(bytes) ==
  /\ OnChild
  /\ LET end == Top.cursor + Len(bytes)
     IN  IF end > UsizeMax THEN ChildError("LengthOverflow")
         ELSE IF ~Within(end, Top.limit) THEN ChildError("ChildOverflow")
         ELSE Through(WriteAt(Here, Top.cursor, bytes), end)

ChildFillTo(position) ==
  /\ OnChild
  /\ IF position < Top.cursor THEN ChildError("Backwards")
     ELSE IF ~Within(position, Top.limit) THEN ChildError("ChildOverflow")
     ELSE Through(FillAt(Here, Top.cursor, position - Top.cursor), position)

(* Mutant: a patch may reach behind the child.                             *)
ChildPatchAtAnywhere(at, bytes) ==
  /\ OnChild
  /\ LET end == at + Len(bytes)
     IN  IF end > UsizeMax THEN ChildError("LengthOverflow")
         ELSE IF end > Top.cursor THEN ChildError("Backwards")
         ELSE Through(WriteAt(Here, at, bytes), Top.cursor)

ChildPatchAt(at, bytes) ==
  /\ OnChild
  /\ LET end == at + Len(bytes)
     IN  IF end > UsizeMax THEN ChildError("LengthOverflow")
         ELSE IF at < Top.start \/ end > Top.cursor THEN ChildError("Backwards")
         ELSE Through(WriteAt(Here, at, bytes), Top.cursor)

(* Mutant: the child does not follow the bytes it shifted.                 *)
ChildExpandIntegerAtStill(at, bytes) ==
  /\ OnChild
  /\ IF at < Top.start THEN ChildError("Backwards")
     ELSE Through(ExpandSpan(Here, at, Top.cursor, bytes, Top.limit), Top.cursor)

ChildExpandIntegerAt(at, bytes) ==
  /\ OnChild
  /\ IF at < Top.start THEN ChildError("Backwards")
     ELSE Through(ExpandSpan(Here, at, Top.cursor, bytes, Top.limit),
                  Top.cursor + Len(bytes) - 1)

(* array_item: the item gets a cursor of its own under the same limit.     *)
BeginItem ==
  /\ OnChild
  /\ Depth < MaxFrames
  /\ frames' = Append(frames, NewFrame(Top.cursor, Top.limit))
  /\ result' = "Ok"
  /\ UNCHANGED <<buf, len, cursor>>

(* Mutant: every delivered item is counted, also an empty one.             *)
DeliveredAlways ==
  LET parent  == frames[Depth - 1]
      resumed == [start |-> parent.start, cursor |-> Top.cursor,
                  limit |-> parent.limit, count |-> parent.count + 1]
  IN  [i \in 1..(Depth - 1) |-> IF i = Depth - 1 THEN resumed ELSE frames[i]]

(* The rest of array_item after WireWrite::write returned Ok.              *)
Delivered ==
  LET parent == frames[Depth - 1]
      emitted == IF Top.cursor # parent.cursor THEN 1 ELSE 0
      resumed == [start |-> parent.start, cursor |-> Top.cursor,
                  limit |-> parent.limit, count |-> parent.count + emitted]
  IN  [i \in 1..(Depth - 1) |-> IF i = Depth - 1 THEN resumed ELSE frames[i]]

EndItem ==
  /\ AtChild /\ Depth > 1
  /\ LET parent == frames[Depth - 1]
         progress == Top.cursor # parent.cursor
     IN  /\ result' = IF progress THEN "Ok" ELSE "NonProgressItem"
         /\ IF array # Closed /\ Depth = 2
            THEN \* back in ArrayWriter::item, whose child is unlimited
                 /\ frames' = <<>>
                 /\ array' = IF progress THEN parent.count + 1 ELSE Closed
                 /\ origin' = IF progress THEN origin ELSE 0
            ELSE frames' = Delivered /\ UNCHANGED <<array, origin>>
  /\ UNCHANGED <<outputVars, abandoned, phase>>

(* WireWrite::write returned Err: `?' drops the item's cursor and leaves   *)
(* the parent's where it was; an ArrayWriter is consumed with it.          *)
FailItem ==
  /\ AtChild /\ Depth > 1
  /\ abandoned' = TRUE
  /\ result' = "Schema"
  /\ IF array # Closed /\ Depth = 2
     THEN frames' = <<>> /\ array' = Closed /\ origin' = 0
     ELSE frames' = Popped(frames) /\ UNCHANGED <<array, origin>>
  /\ UNCHANGED <<outputVars, phase>>

(* ChildWriter::finish consumes the child whatever it answers.             *)
ChildFinish ==
  /\ OnChild
  /\ Depth = 1
  /\ frames' = <<>>
  /\ result' = IF Top.limit # NoLimit /\ Top.cursor # Top.limit
               THEN "ChildIncomplete" ELSE "Ok"
  /\ UNCHANGED <<buf, len, cursor>>

-----------------------------------------------------------------------------
WriterNext ==
  \/ \E bytes \in Chunk : WriterWrite(bytes)
  \/ \E at \in Offset, bytes \in Chunk : WriterWriteAt(at, bytes)
  \/ \E at, n \in Offset : WriterFillAt(at, n)
  \/ \E min, suggested \in Offset : WriterReserve(min, suggested)
  \/ \E at \in Offset, bytes \in Chunk : WriterExpandIntegerAt(at, bytes)
  \/ \E position \in Offset : ChildAt(position)
  \/ \E position, n \in Offset : FixedChildAt(position, n)
  \/ Finish

ArrayNext ==
  \/ ArrayOpen
  \/ ArrayClose
  \/ ArrayItem
  \/ \E bytes \in Chunk, n \in 0..MaxChunk : ArrayCopy(n, bytes)

ChildNext ==
  \/ \E bytes \in Chunk : ChildWrite(bytes)
  \/ \E position \in Offset : ChildFillTo(position)
  \/ \E at \in Offset, bytes \in Chunk : ChildPatchAt(at, bytes)
  \/ \E at \in Offset, bytes \in Chunk : ChildExpandIntegerAt(at, bytes)
  \/ BeginItem
  \/ EndItem
  \/ FailItem
  \/ ChildFinish

Next == WriterNext \/ ArrayNext \/ ChildNext

Spec == Init /\ [][Next]_vars

-----------------------------------------------------------------------------
(* Properties                                                              *)

(* Every variable stays in its domain (the Rust types of the fields).      *)
TypeOK ==
  /\ adapter \in {"fixed", "extend", "bounded", "grow_with"}
  /\ bound \in Offset
  /\ buf \in [Addr -> Cell] /\ len \in Offset /\ cursor \in Offset
  /\ array \in Nat \cup {Closed} /\ origin \in Offset
  /\ frames \in Seq(Frame)
  /\ abandoned \in BOOLEAN
  /\ phase \in {"open", "finished"}
  /\ result \in {"Ok"} \cup Errors

(* Writer.cursor is an honest high-water mark: the adapter still exposes   *)
(* every byte below it (as_bytes and Written::as_bytes cannot go out of    *)
(* range) and no written byte lies at or above it, so the growth request   *)
(* built from the cursor protects everything written so far.               *)
HighWaterMarkCovers ==
  /\ cursor <= len
  /\ \A a \in Addr : buf[a] # Junk => a < cursor

(* Child cursors are nested: a child stays inside its region, an item      *)
(* starts where its parent stands and inherits the parent's limit, and the *)
(* exposed buffer holds the whole region of a fixed child.                 *)
ChildrenNested ==
  /\ \A i \in 1..Len(frames) :
       /\ frames[i].start <= frames[i].cursor
       /\ Within(frames[i].cursor, frames[i].limit)
       /\ frames[i].limit # NoLimit => frames[i].limit <= len
       /\ i > 1 => /\ frames[i].start = frames[i - 1].cursor
                   /\ frames[i].limit = frames[i - 1].limit
  /\ (array # Closed /\ frames # <<>>) =>
       /\ frames[1].limit = NoLimit
       /\ Len(frames) > 1 => origin <= frames[1].start
       /\ Len(frames) > 1

(* Whatever a child reports as emitted (start..cursor, as_bytes,           *)
(* bytes_from) was really put by this writer: no stale byte of the         *)
(* caller's buffer or of a growth step shows through, also after an item   *)
(* failed half-way and its parent went on.                                 *)
EmittedIsWritten ==
  \A i \in 1..Len(frames) :
    \A a \in frames[i].start..(frames[i].cursor - 1) : buf[a] # Junk

(* An array never counts more items than it emitted bytes: the NonProgress *)
(* guards of array_item, item_view and copy_from make the count that a     *)
(* controller field records reproducible by a reader, which refuses        *)
(* zero-width items.                                                       *)
CountCovered ==
  /\ AtArray => array <= cursor - origin
  /\ \A i \in 1..Len(frames) :
       frames[i].count <=
         frames[i].cursor - (IF i = 1 /\ array # Closed THEN origin
                             ELSE frames[i].start)

(* As long as no item was abandoned, the innermost sequential child and    *)
(* the writer agree on the end of the output: nothing is represented       *)
(* behind the child's back.                                                *)
SequentialTail ==
  (~abandoned /\ frames # <<>>) =>
    (frames[Len(frames)].limit = NoLimit =>
       frames[Len(frames)].cursor = cursor)

(* Growth policy of the adapters: a fixed slice never grows, a Bounded     *)
(* target never grows past its limit, and no call shrinks the output.      *)
GrowthPolicy ==
  [][ /\ len' >= len
      /\ len' > len => /\ adapter # "fixed"
                       /\ adapter = "bounded" => len' <= bound ]_vars

(* A call that reports an error leaves the representation as it was: no    *)
(* cursor moved, no written byte changed, at most children were consumed.  *)
ErrorsChangeNothing ==
  [][ result' # "Ok" =>
        /\ cursor' = cursor
        /\ \A a \in Addr : buf'[a] = buf[a]
        /\ \A i \in 1..Len(frames') : frames'[i] = frames[i] ]_vars

(* The output layer implements WireRepresentation: growth, relocation and  *)
(* errors are invisible, nothing put is lost or moved except by the        *)
(* announced integer expansion, and a child never touches a byte outside   *)
(* its window.                                                             *)
Rep == INSTANCE WireRepresentation WITH
         written <- [a \in {x \in Addr : buf[x] # Junk} |-> buf[a]],
         extent <- cursor,
         lo <- IF frames # <<>> THEN frames[Len(frames)].start
               ELSE IF array # Closed THEN origin ELSE 0,
         hi <- IF frames # <<>> /\ frames[Len(frames)].limit # NoLimit
               THEN frames[Len(frames)].limit ELSE UsizeMax,
         sealed <- phase = "finished"

ImplementsRepresentation == Rep!Spec
=============================================================================
