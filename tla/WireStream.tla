----------------------------- MODULE WireStream -----------------------------
(***************************************************************************)
(* Consecutive representations in one buffer: the fixed and the variable   *)
(* views of one schema, and the cursor that reads different schemas.  The  *)
(* buffer is fed by a caller that drops the facade, keeps the bytes after  *)
(* its position, appends what has arrived and opens a new one, as the      *)
(* documentation of NeedMore asks for.                                     *)
(*                                                                         *)
(* Source: wire-repr/src/schema/sequence.rs.  The caller is external.      *)
(*                                                                         *)
(* Bytes are chosen when they are first looked at; `text' remembers them,  *)
(* so that a retry, or another schema's reading, finds the same ones.      *)
(***************************************************************************)
EXTENDS WireItem, SequencesExt

CONSTANTS
  Schemas,     \* schemas the caller reads
  Contents,    \* contents of a position (model bound)
  StreamLength \* bytes that ever arrive (model bound)

ASSUME WireStreamAssumption ==
  /\ StreamLength \in Nat
  /\ \A s \in Schemas : s.fixed \in Nat \cup {None} /\ s.leading \in BOOLEAN
  /\ \A c \in Contents : c.extent \in Nat

VARIABLES
  text,      \* content of the positions looked at
  arrived,   \* bytes of the stream that have arrived
  base,      \* position in the stream of the buffer's first byte
  facade,    \* the open facade, if any
  offset,    \* its position in the buffer
  delivered, \* the items handed out: schema, start and end in the stream
  answer     \* what the last call returned

vars == <<text, arrived, base, facade, offset, delivered, answer>>

Closed == [kind |-> "none", schema |-> Schema(None, FALSE), count |-> 0]
Length == arrived - base

(* The content found at a position of the stream, and its memory.          *)
Reading(at)           == IF at \in DOMAIN text THEN {text[at]} ELSE Contents
Noted(t, at, content) ==
  [p \in DOMAIN t \cup {at} |-> IF p = at THEN content ELSE t[p]]

Init ==
  /\ text = <<>> /\ arrived = 0 /\ base = 0
  /\ facade = Closed /\ offset = 0
  /\ delivered = <<>> /\ answer = "none"

(* The caller drops the facade and appends n bytes to what it left.        *)
Arrive(n) ==
  /\ arrived + n <= StreamLength
  /\ arrived' = arrived + n
  /\ base' = base + offset /\ facade' = Closed /\ offset' = 0
  /\ answer' = "none"
  /\ UNCHANGED <<text, delivered>>

(* Cursor::new and VariableViews::new accept anything.                     *)
Open(kind, s) ==
  /\ facade.kind = "none"
  /\ facade' = [kind |-> kind, schema |-> s, count |-> 0]
  /\ offset' = 0 /\ answer' = "opened"
  /\ UNCHANGED <<text, arrived, base, delivered>>

-----------------------------------------------------------------------------
(* FixedViews::new frames and validates every item of the buffer.          *)

(* Mutant: any extent within the buffer will do.                           *)
WidthAny(s, content, length) ==
  Validated(Progressing(Frame(s, content, length), length), content)

Width(s, content, length) ==
  LET frame == Frame(s, content, length)
  IN  IF frame.tag # "ok" THEN frame
      ELSE IF frame.consumed > length \/ frame.consumed # s.fixed
           THEN Rejected("extent")
      ELSE Validated(frame, content)

(* Prevalidation walks from item to item and stops at the first failure.   *)
OpenFixed(s, contents) ==
  LET items    == Len(contents)
      at(k)    == base + (k - 1) * s.fixed
      check(k) == Width(s, contents[k], Length - (k - 1) * s.fixed)
      failed   == {k \in 1..items : check(k).tag # "ok"}
  IN  /\ facade.kind = "none" /\ s.fixed > 0 /\ s.leading
      /\ \A k \in 1..items : contents[k] \in Reading(at(k))
      /\ failed \subseteq {items}
      /\ failed = {} => items * s.fixed >= Length
      /\ items > 0 => (items - 1) * s.fixed < Length
      /\ text' = [p \in DOMAIN text \cup {at(k) : k \in 1..items} |->
                    IF p \in DOMAIN text THEN text[p]
                    ELSE contents[1 + (p - base) \div s.fixed]]
      /\ IF failed = {}
         THEN /\ facade' = [kind |-> "fixed", schema |-> s,
                            count |-> Length \div s.fixed]
              /\ answer' = "opened"
         ELSE facade' = Closed /\ answer' = check(items).tag
      /\ offset' = 0
      /\ UNCHANGED <<arrived, base, delivered>>

(* Without a width, or with none to advance by, there is nothing to walk.  *)
RefuseFixed(s) ==
  /\ facade.kind = "none" /\ s.fixed \in {0, None}
  /\ answer' = "no_progress"
  /\ UNCHANGED <<text, arrived, base, facade, offset, delivered>>

(* FixedViews::next frames the item again, now alone.                      *)
NextFixed ==
  LET s     == facade.schema
      index == offset \div s.fixed
      frame == Frame(s, text[base + offset], s.fixed)
  IN  /\ facade.kind = "fixed"
      /\ IF index = facade.count
         THEN answer' = "end" /\ UNCHANGED <<offset, delivered>>
         ELSE IF frame.tag # "ok" \/ frame.consumed # s.fixed
         THEN answer' = "panic" /\ UNCHANGED <<offset, delivered>>
         ELSE /\ offset' = offset + s.fixed
              /\ delivered' = Append(delivered,
                   [schema |-> s, start |-> base + offset,
                    end |-> base + offset + s.fixed])
              /\ answer' = "item"
      /\ UNCHANGED <<text, arrived, base, facade>>

-----------------------------------------------------------------------------
(* Cursor::read and the framing half of VariableViews::next.               *)

(* Mutant: the position moves before the validator has spoken.             *)
ReadEager(s, content) ==
  LET length == Length - offset
      frame  == Progressing(Frame(s, content, length), length)
      checked == Validated(frame, content)
  IN  /\ text' = Noted(text, base + offset, content)
      /\ offset' = offset + frame.consumed
      /\ IF checked.tag # "ok"
         THEN answer' = checked.tag /\ UNCHANGED delivered
         ELSE /\ delivered' = Append(delivered,
                   [schema |-> s, start |-> base + offset,
                    end |-> base + offset + checked.consumed])
              /\ answer' = "item"

Read(s, content) ==
  LET length == Length - offset
      frame  == Validated(Progressing(Frame(s, content, length), length), content)
  IN  /\ text' = Noted(text, base + offset, content)
      /\ IF frame.tag # "ok"
         THEN answer' = frame.tag /\ UNCHANGED <<offset, delivered>>
         ELSE /\ offset' = offset + frame.consumed
              /\ delivered' = Append(delivered,
                   [schema |-> s, start |-> base + offset,
                    end |-> base + offset + frame.consumed])
              /\ answer' = "item"

Unavailable ==
  answer' = "unavailable" /\ UNCHANGED <<text, offset, delivered>>

CursorRead(s) ==
  /\ facade.kind = "cursor"
  /\ IF s.leading
     THEN \E content \in Reading(base + offset) : Read(s, content)
     ELSE Unavailable
  /\ UNCHANGED <<arrived, base, facade>>

(* Mutant: an incomplete item counts as the end of the sequence.           *)
NextVariableQuiet ==
  LET s == facade.schema
  IN  /\ facade.kind = "variable"
      /\ \E content \in Reading(base + offset) :
           IF Frame(s, content, Length - offset).tag = "need_more" \/ offset = Length
           THEN answer' = "end" /\ UNCHANGED <<text, offset, delivered>>
           ELSE Read(s, content)
      /\ UNCHANGED <<arrived, base, facade>>

NextVariable ==
  LET s == facade.schema
  IN  /\ facade.kind = "variable"
      /\ IF ~s.leading THEN Unavailable
         ELSE IF offset = Length
         THEN answer' = "end" /\ UNCHANGED <<text, offset, delivered>>
         ELSE \E content \in Reading(base + offset) : Read(s, content)
      /\ UNCHANGED <<arrived, base, facade>>

Next ==
  \/ \E n \in 1..StreamLength : Arrive(n)
  \/ \E s \in Schemas : Open("cursor", s) \/ Open("variable", s)
  \/ \E s \in Schemas : CursorRead(s) \/ RefuseFixed(s)
  \/ \E s \in {t \in Schemas : t.fixed > 0} :
       \E contents \in BoundedSeq(Contents, 1 + StreamLength \div s.fixed) :
         OpenFixed(s, contents)
  \/ NextFixed
  \/ NextVariable

Spec == Init /\ [][Next]_vars

-----------------------------------------------------------------------------
(* One reading of the whole stream, without retries, by the schemas in the *)
(* order in which items were delivered: where it stands after k of them,   *)
(* and what it finds there.                                                *)
Reached(k) == IF k = 0 THEN 0 ELSE delivered[k].end

Replayed(k) ==
  LET at == Reached(k - 1)
  IN  IF at \in DOMAIN text
      THEN Frame(delivered[k].schema, text[at], StreamLength - at)
      ELSE Rejected("unread")

(* However the stream is cut into buffers, and whatever fails in between,  *)
(* the items handed out are those of one reading of the whole stream: no   *)
(* item is skipped, repeated, split or cut short by a retry.               *)
ChunkingInvisible ==
  /\ \A k \in 1..Len(delivered) :
       /\ delivered[k].start = Reached(k - 1)
       /\ Replayed(k) = Consumed(delivered[k].end - delivered[k].start)
  /\ Reached(Len(delivered)) = base + offset

(* Nothing that a schema or its validator rejects is ever handed out.      *)
OnlyValidItems ==
  \A k \in DOMAIN delivered :
    text[delivered[k].start].kind \notin {"bad", "invalid"}

(* Items validated once are framed again without a check on the way out:   *)
(* the unreachable branch of FixedViews::next is unreachable.              *)
PrevalidationSuffices ==
  /\ answer # "panic"
  /\ facade.kind = "fixed" => facade.count * facade.schema.fixed = Length

(* A view sequence ends only where every byte of the buffer was handed out.*)
EndMeansConsumed == answer = "end" => base + offset = arrived
=============================================================================
