------------------------ MODULE RuntimeArrays_proofs ------------------------
(***************************************************************************)
(* Proofs about the consumers of consecutive items: first the stream       *)
(* decoder of WireStream, then the arrays that are counted, for every set  *)
(* of item schemas and contents, every count and every length of the       *)
(* input.                                                                  *)
(***************************************************************************)
EXTENDS RuntimeArrays, Iteration

(* Arithmetic of item boundaries.                                          *)
LEMMA DivExact ==
  \A d \in Nat \ {0}, q \in Nat : (q * d) \div d = q
OBVIOUS

LEMMA TimesMonotone ==
  \A d \in Nat, p, q \in Nat : p <= q => p * d <= q * d
OBVIOUS

LEMMA TimesNext ==
  \A d \in Nat, q \in Nat : q * d \in Nat /\ (q + 1) * d = q * d + d
OBVIOUS

-----------------------------------------------------------------------------
(* What is found at a boundary does not depend on how much of the stream   *)
(* has arrived, once it was found at all.                                  *)
LEMMA FrameMonotone ==
  ASSUME NEW s \in Schemas, s.leading, NEW c \in Contents,
         NEW length \in Nat, NEW more \in Nat, length <= more,
         Frame(s, c, length).tag = "ok"
  PROVE  /\ Frame(s, c, more) = Frame(s, c, length)
         /\ Frame(s, c, length) = Consumed(Frame(s, c, length).consumed)
         /\ Frame(s, c, length).consumed \in Nat
         /\ c.kind # "bad"
<1>1. /\ s.fixed # None => s.fixed \in Nat
      /\ c.extent \in Nat
  BY WireStreamAssumption
<1>2. /\ ExtentIn(s, c, more) = ExtentIn(s, c, length)
      /\ ExtentIn(s, c, length) \in Nat
  BY <1>1 DEF ExtentIn
<1>3. Frame(s, c, length) =
        IF c.kind = "rogue" THEN Consumed(c.extent)
        ELSE Consumed(ExtentIn(s, c, length))
  BY <1>2 DEF Frame, Rejected, Consumed
<1>4. c.kind # "bad" /\ (c.kind # "rogue" => ExtentIn(s, c, length) <= length)
  BY <1>2 DEF Frame, Rejected
<1>5. Frame(s, c, more) = Frame(s, c, length)
  BY <1>2, <1>3, <1>4 DEF Frame
<1> QED BY <1>1, <1>2, <1>3, <1>4, <1>5 DEF Consumed

-----------------------------------------------------------------------------
(* The inductive invariant.  The four checked properties need the types,   *)
(* the facade's position inside the buffer, and what FixedViews::new found *)
(* out about the bytes that its iterator frames again.                     *)
Item == [schema : Schemas, start : Nat, end : Nat]

StreamType ==
  /\ DOMAIN text \subseteq Nat
  /\ \A p \in DOMAIN text : text[p] \in Contents
  /\ arrived \in Nat /\ base \in Nat /\ offset \in Nat
  /\ base + offset <= arrived /\ arrived <= StreamLength
  /\ IF facade.kind = "none" THEN offset = 0 ELSE facade.schema \in Schemas
  /\ delivered \in Seq(Item)

(* Content that a fixed schema accepts and its validator too.              *)
Sized(s, c) == Frame(s, c, s.fixed) = Consumed(s.fixed) /\ c.kind # "invalid"

Prevalidated ==
  facade.kind = "fixed" =>
    /\ facade.schema.fixed \in Nat \ {0} /\ facade.schema.leading
    /\ facade.count \in Nat /\ facade.count * facade.schema.fixed = Length
    /\ \E i \in 0..facade.count : offset = i * facade.schema.fixed
    /\ \A i \in 0..(facade.count - 1) :
         /\ base + i * facade.schema.fixed \in DOMAIN text
         /\ Sized(facade.schema, text[base + i * facade.schema.fixed])

IInv ==
  /\ StreamType
  /\ Prevalidated
  /\ ChunkingInvisible
  /\ OnlyValidItems
  /\ PrevalidationSuffices
  /\ EndMeansConsumed

(* Content once looked at is never forgotten.                              *)
TextKept ==
  /\ DOMAIN text \subseteq DOMAIN text'
  /\ \A p \in DOMAIN text : text'[p] = text[p]

LEMMA SameText == UNCHANGED text => TextKept
BY DEF TextKept

LEMMA NotedText ==
  ASSUME StreamType, NEW at \in Nat, NEW reading \in Reading(at),
         text' = Noted(text, at, reading)
  PROVE  /\ TextKept /\ at \in DOMAIN text' /\ text'[at] = reading
         /\ reading \in Contents
         /\ DOMAIN text' \subseteq Nat /\ \A p \in DOMAIN text' : text'[p] \in Contents
BY DEF StreamType, TextKept, Noted, Reading

(* A delivered item starts at a position whose content is known.           *)
LEMMA ItemsKnown ==
  ASSUME IInv, NEW k \in 1..Len(delivered)
  PROVE  /\ delivered[k] \in Item
         /\ Reached(k - 1) \in DOMAIN text /\ delivered[k].start = Reached(k - 1)
<1>1. Replayed(k) = Consumed(delivered[k].end - delivered[k].start)
      /\ delivered[k].start = Reached(k - 1)
  BY DEF IInv, ChunkingInvisible
<1>2. Reached(k - 1) \in DOMAIN text
  BY <1>1 DEF Replayed, Rejected, Consumed
<1> QED BY <1>1, <1>2 DEF IInv, StreamType

(* A step that hands out nothing keeps the reading of the stream.          *)
LEMMA NothingDelivered ==
  ASSUME IInv, TextKept, UNCHANGED delivered, base' + offset' = base + offset
  PROVE  ChunkingInvisible' /\ OnlyValidItems'
<1>1. \A k \in 1..Len(delivered) : Replayed(k)' = Replayed(k)
  BY ItemsKnown DEF Replayed, Reached, TextKept
<1>2. \A k \in 0..Len(delivered) : Reached(k)' = Reached(k)
  BY DEF Reached
<1>3. /\ Len(delivered) \in Nat
      /\ \A k \in 1..Len(delivered) : k - 1 \in 0..Len(delivered)
      /\ Len(delivered) \in 0..Len(delivered)
      /\ \A k \in DOMAIN delivered : k \in 1..Len(delivered)
  BY DEF IInv, StreamType
<1>4. ChunkingInvisible'
  BY <1>1, <1>2, <1>3 DEF IInv, ChunkingInvisible
<1>5. OnlyValidItems'
  BY <1>3, ItemsKnown DEF IInv, OnlyValidItems, TextKept
<1> QED BY <1>4, <1>5

(* A step that hands out the item at the position continues it.            *)
LEMMA ItemDelivered ==
  ASSUME IInv, TextKept, NEW s \in Schemas, NEW n \in Nat,
         base + offset \in DOMAIN text',
         Frame(s, text'[base + offset], StreamLength - (base + offset)) = Consumed(n),
         text'[base + offset].kind \notin {"bad", "invalid"},
         delivered' = Append(delivered, [schema |-> s, start |-> base + offset,
                                         end |-> base + offset + n]),
         base' = base, offset' = offset + n
  PROVE  /\ ChunkingInvisible' /\ OnlyValidItems'
         /\ delivered' \in Seq(Item)
<1> DEFINE at == base + offset
           found == [schema |-> s, start |-> at, end |-> at + n]
           last == Len(delivered) + 1
<1>1. /\ base \in Nat /\ offset \in Nat /\ delivered \in Seq(Item) /\ Len(delivered) \in Nat
      /\ Reached(Len(delivered)) = at
  BY DEF IInv, StreamType, ChunkingInvisible
<1>2. /\ found \in Item /\ found.schema = s /\ found.start = at
      /\ found.end - found.start = n
  <2>1. at \in Nat /\ at + n \in Nat /\ (at + n) - at = n
    BY <1>1
  <2> HIDE DEF at
  <2> QED BY <2>1 DEF Item
<1>3. /\ delivered' \in Seq(Item) /\ Len(delivered') = last
      /\ \A k \in 1..Len(delivered) : delivered'[k] = delivered[k]
      /\ delivered'[last] = found
  BY <1>1, <1>2
<1>4. \A k \in 0..Len(delivered) : Reached(k)' = Reached(k)
  BY <1>1, <1>3 DEF Reached
<1>5. ASSUME NEW CONSTANT k, k = last PROVE Reached(k)' = at + n /\ Reached(k - 1)' = at
  BY <1>1, <1>3, <1>4, <1>5 DEF Reached
<1>6. \A k \in 1..Len(delivered) :
        /\ delivered'[k].start = Reached(k - 1)'
        /\ Replayed(k)' = Consumed(delivered'[k].end - delivered'[k].start)
  <2> SUFFICES ASSUME NEW k \in 1..Len(delivered)
               PROVE  /\ delivered'[k].start = Reached(k - 1)'
                      /\ Replayed(k)' = Consumed(delivered'[k].end - delivered'[k].start)
    OBVIOUS
  <2>1. Reached(k - 1)' = Reached(k - 1)
    BY <1>1, <1>4
  <2>2. Replayed(k)' = Replayed(k)
    BY <2>1, <1>3, ItemsKnown DEF Replayed, TextKept
  <2> QED BY <2>1, <2>2, <1>3 DEF IInv, ChunkingInvisible
<1>7. ASSUME NEW CONSTANT k, k = last
      PROVE  /\ delivered'[k].start = Reached(k - 1)'
             /\ Replayed(k)' = Consumed(delivered'[k].end - delivered'[k].start)
  <2>1. Reached(k - 1)' = at /\ delivered'[k] = found
    BY <1>3, <1>5, <1>7
  <2> HIDE DEF found
  <2>2. /\ delivered'[k].schema = s /\ delivered'[k].start = at
        /\ delivered'[k].end - delivered'[k].start = n
    BY <1>2, <2>1
  <2>3. Replayed(k)' = Frame(s, text'[at], StreamLength - at)
    BY <2>1, <2>2 DEF Replayed
  <2> QED BY <2>1, <2>2, <2>3
<1>8. ChunkingInvisible'
  <2>1. \A k \in 1..Len(delivered') : k = last \/ k \in 1..Len(delivered)
    BY <1>1, <1>3
  <2>2. (Reached(Len(delivered)))' = (base + offset)'
    BY <1>1, <1>3 DEF Reached
  <2> QED BY <1>6, <1>7, <2>1, <2>2 DEF ChunkingInvisible
<1>9. OnlyValidItems'
  <2> SUFFICES ASSUME NEW k \in 1..last
               PROVE  text'[delivered'[k].start].kind \notin {"bad", "invalid"}
    BY <1>1, <1>3 DEF OnlyValidItems
  <2>1. CASE k = last
    BY <2>1, <1>3
  <2>2. CASE k # last
    <3>1. k \in 1..Len(delivered)
      BY <2>2, <1>1
    <3>2. text[delivered[k].start].kind \notin {"bad", "invalid"}
      BY <3>1, <1>1 DEF IInv, OnlyValidItems
    <3> QED BY <3>1, <3>2, <1>3, ItemsKnown DEF TextKept
  <2> QED BY <2>1, <2>2
<1> QED BY <1>3, <1>8, <1>9

-----------------------------------------------------------------------------
LEMMA InitEstablishes == ASSUME Init PROVE IInv
<1>1. StreamType
  BY WireStreamAssumption DEF Init, StreamType, Closed
<1>2. Prevalidated /\ PrevalidationSuffices /\ EndMeansConsumed
  BY DEF Init, Prevalidated, PrevalidationSuffices, EndMeansConsumed, Closed
<1>3. delivered = <<>> /\ Len(delivered) = 0 /\ base + offset = 0
  BY DEF Init
<1>4. ChunkingInvisible /\ OnlyValidItems
  BY <1>3 DEF ChunkingInvisible, OnlyValidItems, Reached
<1> QED BY <1>1, <1>2, <1>4 DEF IInv

LEMMA ArrivePreserves ==
  ASSUME IInv, NEW n \in 1..StreamLength, Arrive(n) PROVE IInv'
<1>1. ChunkingInvisible' /\ OnlyValidItems'
  <2>1. base' + offset' = base + offset
    BY DEF Arrive, IInv, StreamType
  <2> QED BY <2>1, SameText, NothingDelivered DEF Arrive
<1>2. StreamType'
  BY WireStreamAssumption DEF IInv, StreamType, Arrive, Closed
<1>3. Prevalidated' /\ PrevalidationSuffices' /\ EndMeansConsumed'
  BY DEF Prevalidated, PrevalidationSuffices, EndMeansConsumed, Arrive, Closed
<1> QED BY <1>1, <1>2, <1>3 DEF IInv

LEMMA OpenPreserves ==
  ASSUME IInv, NEW s \in Schemas, NEW kind \in {"cursor", "variable"}, Open(kind, s)
  PROVE  IInv'
<1>1. /\ UNCHANGED <<text, arrived, base, offset, delivered>>
      /\ facade'.kind = kind /\ facade'.schema = s /\ answer' = "opened"
  BY DEF Open, IInv, StreamType
<1>2. ChunkingInvisible' /\ OnlyValidItems'
  BY <1>1, SameText, NothingDelivered
<1>3. StreamType'
  BY <1>1 DEF IInv, StreamType
<1>4. Prevalidated' /\ PrevalidationSuffices' /\ EndMeansConsumed'
  BY <1>1 DEF Prevalidated, PrevalidationSuffices, EndMeansConsumed
<1> QED BY <1>2, <1>3, <1>4 DEF IInv

LEMMA RefuseFixedPreserves ==
  ASSUME IInv, NEW s \in Schemas, RefuseFixed(s) PROVE IInv'
<1>1. ChunkingInvisible' /\ OnlyValidItems'
  BY SameText, NothingDelivered DEF RefuseFixed
<1>2. StreamType' /\ Prevalidated' /\ PrevalidationSuffices' /\ EndMeansConsumed'
  BY DEF IInv, StreamType, Prevalidated, PrevalidationSuffices, EndMeansConsumed,
         RefuseFixed, Length
<1> QED BY <1>1, <1>2 DEF IInv

(* FixedViews::new: what it found out about every item is what its         *)
(* iterator will need.                                                     *)
LEMMA OpenFixedPreserves ==
  ASSUME IInv, NEW s \in Schemas, s.fixed > 0, NEW limit \in Nat,
         NEW contents \in BoundedSeq(Contents, limit), OpenFixed(s, contents)
  PROVE  IInv'
<1> DEFINE d == s.fixed
           items == Len(contents)
           at(k) == base + (k - 1) * d
           check(k) == Width(s, contents[k], Length - (k - 1) * d)
           refused == {k \in 1..items : check(k).tag # "ok"}
<1>1. /\ items \in Nat /\ \A k \in 1..items : contents[k] \in Contents
      /\ DOMAIN contents = 1..items
  BY DEF BoundedSeq, SeqOf
<1>2. d \in Nat \ {0} /\ s.leading /\ facade.kind = "none" /\ offset = 0
  BY WireStreamAssumption DEF OpenFixed, None, IInv, StreamType
<1>3. /\ UNCHANGED <<arrived, base, offset, delivered>>
      /\ base \in Nat /\ arrived \in Nat /\ Length \in Nat
  BY <1>2 DEF OpenFixed, IInv, StreamType, Length
<1>4. /\ text' = [p \in DOMAIN text \cup {at(k) : k \in 1..items} |->
                    IF p \in DOMAIN text THEN text[p]
                    ELSE contents[1 + (p - base) \div d]]
      /\ \A k \in 1..items : contents[k] \in Reading(at(k))
      /\ refused = {} => items * d >= Length
      /\ IF refused = {}
         THEN /\ facade' = [kind |-> "fixed", schema |-> s, count |-> Length \div d]
              /\ answer' = "opened"
         ELSE facade' = Closed /\ answer' = check(items).tag
  BY DEF OpenFixed
<1>5. \A k \in 1..items :
        /\ k - 1 \in Nat /\ (k - 1) * d \in Nat /\ at(k) \in Nat
        /\ at(k) \in DOMAIN text' /\ text'[at(k)] = contents[k]
  <2> SUFFICES ASSUME NEW k \in 1..items
               PROVE  /\ k - 1 \in Nat /\ (k - 1) * d \in Nat /\ at(k) \in Nat
                      /\ at(k) \in DOMAIN text' /\ text'[at(k)] = contents[k]
    OBVIOUS
  <2>1. k - 1 \in Nat /\ (k - 1) * d \in Nat
    BY <1>1, <1>2, TimesNext
  <2>2. at(k) - base = (k - 1) * d /\ at(k) \in Nat
    BY <1>3, <2>1
  <2>3. 1 + (at(k) - base) \div d = k
    <3>1. ((k - 1) * d) \div d = k - 1
      BY <1>2, <2>1, DivExact
    <3> QED BY <2>1, <2>2, <3>1
  <2>4. text'[at(k)] = IF at(k) \in DOMAIN text THEN text[at(k)]
                       ELSE contents[1 + (at(k) - base) \div d]
    BY <1>4
  <2>5. contents[k] \in Reading(at(k))
    BY <1>4
  <2>6. at(k) \in DOMAIN text'
    BY <1>4
  <2> QED BY <2>1, <2>2, <2>3, <2>4, <2>5, <2>6 DEF Reading
<1>6. TextKept /\ DOMAIN text' \subseteq Nat /\ \A p \in DOMAIN text' : text'[p] \in Contents
  <2>1. DOMAIN text' = DOMAIN text \cup {at(k) : k \in 1..items}
    BY <1>4
  <2>2. \A p \in DOMAIN text : text'[p] = text[p]
    BY <1>4
  <2> QED BY <1>1, <1>5, <2>1, <2>2 DEF TextKept, IInv, StreamType
<1>7. ChunkingInvisible' /\ OnlyValidItems'
  BY <1>3, <1>6, NothingDelivered
<1>8. CASE refused = {}
  <2>1. \A k \in 1..items : d <= Length - (k - 1) * d /\ Sized(s, contents[k])
    <3> SUFFICES ASSUME NEW k \in 1..items
                 PROVE  d <= Length - (k - 1) * d /\ Sized(s, contents[k])
      OBVIOUS
    <3> DEFINE left == Length - (k - 1) * d
               frame == Frame(s, contents[k], left)
    <3>1. /\ frame.tag = "ok" /\ ~(frame.consumed > left) /\ frame.consumed = d
          /\ contents[k].kind # "invalid"
      <4>1. check(k).tag = "ok"
        BY <1>8
      <4> QED BY <4>1 DEF Width, Rejected, Validated
    <3>2. left \in Int
      BY <1>3, <1>5
    <3>3. d <= left
      BY <1>2, <3>1, <3>2
    <3>4. Frame(s, contents[k], d) = Consumed(d)
      <4>1. contents[k] \in Contents /\ contents[k].extent \in Nat
        BY <1>1, WireStreamAssumption
      <4>2. contents[k].kind = "rogue" => contents[k].extent = d
        BY <3>1 DEF Frame, Consumed
      <4>3. contents[k].kind # "bad"
        BY <3>1 DEF Frame, Rejected
      <4>4. d # None
        BY <1>2 DEF None
      <4> QED BY <1>2, <4>1, <4>2, <4>3, <4>4 DEF Frame, ExtentIn
    <3> QED BY <3>1, <3>3, <3>4 DEF Sized
  <2>2. items * d = Length
    <3>1. CASE items = 0
      BY <1>2, <1>3, <1>4, <1>8, <3>1
    <3>2. CASE items # 0
      <4>1. items \in 1..items /\ items - 1 \in Nat
        BY <1>1, <3>2
      <4>2. d <= Length - (items - 1) * d
        BY <4>1, <2>1
      <4>3. items * d = (items - 1) * d + d /\ (items - 1) * d \in Nat
        BY <1>2, <4>1, TimesNext
      <4>4. items * d >= Length
        BY <1>4, <1>8
      <4> QED BY <1>2, <1>3, <4>2, <4>3, <4>4, SMTT(30)
    <3> QED BY <3>1, <3>2
  <2>3. Length \div d = items
    BY <1>1, <1>2, <2>2, DivExact
  <2>4. facade' = [kind |-> "fixed", schema |-> s, count |-> items] /\ answer' = "opened"
    BY <1>4, <1>8, <2>3
  <2>5. \A i \in 0..(items - 1) :
          base + i * d \in DOMAIN text' /\ Sized(s, text'[base + i * d])
    <3> SUFFICES ASSUME NEW i \in 0..(items - 1)
                 PROVE  base + i * d \in DOMAIN text' /\ Sized(s, text'[base + i * d])
      OBVIOUS
    <3>1. i + 1 \in 1..items /\ (i + 1) - 1 = i
      BY <1>1
    <3>2. base + i * d = at(i + 1)
      BY <3>1
    <3> HIDE DEF at
    <3> QED BY <1>5, <2>1, <3>1, <3>2
  <2>6. offset' = 0 * d /\ 0 \in 0..items
    BY <1>1, <1>2, <1>3
  <2>7. Prevalidated'
    BY <1>1, <1>2, <1>3, <2>2, <2>4, <2>5, <2>6 DEF Prevalidated, Length
  <2>8. PrevalidationSuffices' /\ EndMeansConsumed'
    BY <1>3, <2>2, <2>4 DEF PrevalidationSuffices, EndMeansConsumed, Length
  <2>9. StreamType'
    BY <1>3, <1>6, <2>4 DEF IInv, StreamType
  <2> QED BY <1>7, <2>7, <2>8, <2>9 DEF IInv
<1>9. CASE refused # {}
  <2>1. facade' = Closed /\ answer' = check(items).tag
    BY <1>4, <1>9
  <2>2. answer' \in {"need_more", "schema", "extent", "ok"}
    BY <2>1 DEF Width, Validated, Rejected, Frame, Consumed
  <2>3. Prevalidated' /\ PrevalidationSuffices' /\ EndMeansConsumed'
    BY <2>1, <2>2 DEF Prevalidated, PrevalidationSuffices, EndMeansConsumed, Closed
  <2>4. StreamType'
    BY <1>2, <1>3, <1>6, <2>1 DEF IInv, StreamType, Closed
  <2> QED BY <1>7, <2>3, <2>4 DEF IInv
<1> QED BY <1>8, <1>9
(* FixedViews::next.                                                       *)
LEMMA NextFixedPreserves == ASSUME IInv, NextFixed PROVE IInv'
<1> DEFINE s == facade.schema
           d == s.fixed
           at == base + offset
           frame == Frame(s, text[at], d)
<1>1. /\ facade.kind = "fixed" /\ UNCHANGED <<text, arrived, base, facade>>
      /\ IF offset \div d = facade.count
         THEN answer' = "end" /\ UNCHANGED <<offset, delivered>>
         ELSE IF frame.tag # "ok" \/ frame.consumed # d
         THEN answer' = "panic" /\ UNCHANGED <<offset, delivered>>
         ELSE /\ offset' = offset + d
              /\ delivered' = Append(delivered,
                   [schema |-> s, start |-> at, end |-> at + d])
              /\ answer' = "item"
  BY DEF NextFixed
<1>2. /\ d \in Nat \ {0} /\ s.leading /\ s \in Schemas
      /\ facade.count \in Nat /\ facade.count * d = Length
      /\ \A i \in 0..(facade.count - 1) :
           base + i * d \in DOMAIN text /\ Sized(s, text[base + i * d])
      /\ base \in Nat /\ arrived \in Nat /\ offset \in Nat /\ StreamLength \in Nat
      /\ arrived <= StreamLength
  BY <1>1, WireStreamAssumption DEF IInv, Prevalidated, StreamType
<1>3. PICK i \in 0..facade.count : offset = i * d
  BY <1>1 DEF IInv, Prevalidated
<1>4. offset \div d = i /\ i \in Nat
  BY <1>2, <1>3, DivExact
<1>5. CASE i = facade.count
  <2>1. answer' = "end" /\ UNCHANGED <<offset, delivered>>
    BY <1>1, <1>4, <1>5
  <2>2. base + offset = arrived
    BY <1>2, <1>3, <1>5 DEF Length
  <2>3. ChunkingInvisible' /\ OnlyValidItems'
    BY <1>1, <2>1, SameText, NothingDelivered
  <2>4. StreamType' /\ Prevalidated' /\ PrevalidationSuffices' /\ EndMeansConsumed'
    BY <1>1, <2>1, <2>2
    DEF IInv, StreamType, Prevalidated, PrevalidationSuffices, EndMeansConsumed, Length
  <2> QED BY <2>3, <2>4 DEF IInv
<1>6. CASE i # facade.count
  <2>1. /\ i \in 0..(facade.count - 1) /\ i + 1 \in 0..facade.count /\ i + 1 <= facade.count
        /\ i + 1 \in Nat
    <3>1. facade.count \in Nat
      BY <1>2
    <3> QED BY <3>1, <1>6
  <2>2. at \in DOMAIN text /\ Sized(s, text[at])
    BY <1>2, <1>3, <2>1
  <2>3. frame = Consumed(d) /\ frame.tag = "ok" /\ frame.consumed = d
    BY <2>2 DEF Sized, Consumed
  <2>4. /\ offset' = offset + d /\ answer' = "item"
        /\ delivered' = Append(delivered, [schema |-> s, start |-> at, end |-> at + d])
    BY <1>1, <1>4, <1>6, <2>3
  <2>5. /\ offset + d = (i + 1) * d /\ (i + 1) * d <= Length
    BY <1>2, <1>3, <1>4, <2>1, TimesNext, TimesMonotone
  <2>6. at + d <= arrived
    BY <1>2, <2>5 DEF Length
  <2>7. text[at] \in Contents
    BY <2>2 DEF IInv, StreamType
  <2>8. /\ Frame(s, text[at], StreamLength - at) = Consumed(d)
        /\ text[at].kind \notin {"bad", "invalid"}
    <3>1. StreamLength - at \in Nat /\ d <= StreamLength - at
      BY <1>2, <2>6
    <3> QED BY <1>2, <2>2, <2>3, <2>7, <3>1, FrameMonotone DEF Sized
  <2>9. ChunkingInvisible' /\ OnlyValidItems' /\ delivered' \in Seq(Item)
    <3> HIDE DEF s, d, frame
    <3>1. d \in Nat /\ at \in DOMAIN text' /\ text' = text /\ base' = base
      BY <1>1, <1>2, <2>2
    <3> QED BY <1>2, <2>4, <2>8, <3>1, SameText, ItemDelivered
  <2>10. StreamType'
    <3>1. offset + d \in Nat /\ base + (offset + d) <= arrived
      BY <1>2, <2>6
    <3> QED BY <1>1, <2>4, <2>9, <3>1 DEF IInv, StreamType
  <2>11. Prevalidated'
    <3>1. UNCHANGED <<text, arrived, base, facade>> /\ offset' = (i + 1) * d
      BY <1>1, <2>4, <2>5
    <3> QED BY <1>1, <2>1, <3>1 DEF IInv, Prevalidated, Length
  <2>12. PrevalidationSuffices' /\ EndMeansConsumed'
    BY <1>1, <2>4 DEF IInv, PrevalidationSuffices, EndMeansConsumed, Length
  <2> QED BY <2>9, <2>10, <2>11, <2>12 DEF IInv
<1> QED BY <1>5, <1>6

(* The framing that cursors and variable views share: the position moves   *)
(* only when the item's whole check succeeded.                             *)
LEMMA ReadPreserves ==
  ASSUME IInv, NEW s \in Schemas, s.leading, facade.kind \in {"cursor", "variable"},
         NEW reading \in Reading(base + offset), Read(s, reading),
         UNCHANGED <<arrived, base, facade>>
  PROVE  IInv'
<1> DEFINE at == base + offset
           length == Length - offset
           framed == Frame(s, reading, length)
           frame == Validated(Progressing(framed, length), reading)
<1>1. /\ base \in Nat /\ offset \in Nat /\ arrived \in Nat /\ StreamLength \in Nat
      /\ base + offset <= arrived /\ arrived <= StreamLength /\ at \in Nat
      /\ length \in Nat /\ length <= StreamLength - at /\ StreamLength - at \in Nat
      /\ at + length = arrived
  BY WireStreamAssumption DEF IInv, StreamType, Length
<1>2. /\ text' = Noted(text, at, reading)
      /\ IF frame.tag # "ok"
         THEN answer' = frame.tag /\ UNCHANGED <<offset, delivered>>
         ELSE /\ offset' = offset + frame.consumed
              /\ delivered' = Append(delivered,
                   [schema |-> s, start |-> at, end |-> at + frame.consumed])
              /\ answer' = "item"
  BY DEF Read
<1>3. /\ TextKept /\ at \in DOMAIN text' /\ text'[at] = reading /\ reading \in Contents
      /\ DOMAIN text' \subseteq Nat /\ \A p \in DOMAIN text' : text'[p] \in Contents
  <2> HIDE DEF at
  <2> QED BY <1>1, <1>2, NotedText DEF IInv, at
<1>4. Prevalidated'
  BY DEF Prevalidated
<1>5. facade'.kind # "fixed"
  OBVIOUS
<1>6. CASE frame.tag # "ok"
  <2>1. answer' = frame.tag /\ UNCHANGED <<offset, delivered>>
    BY <1>2, <1>6
  <2>2. frame.tag \in {"ok", "need_more", "schema", "no_progress", "extent"}
    BY DEF Validated, Progressing, Frame, Rejected, Consumed
  <2>3. ChunkingInvisible' /\ OnlyValidItems'
    BY <1>3, <2>1, NothingDelivered
  <2>4. StreamType'
    BY <1>3, <2>1 DEF IInv, StreamType
  <2>5. PrevalidationSuffices' /\ EndMeansConsumed'
    BY <1>5, <2>1, <2>2 DEF PrevalidationSuffices, EndMeansConsumed
  <2> QED BY <1>4, <2>3, <2>4, <2>5 DEF IInv
<1>7. CASE frame.tag = "ok"
  <2>1. /\ framed.tag = "ok" /\ framed.consumed <= length
        /\ frame = framed /\ reading.kind # "invalid"
    <3>1. framed.tag = "ok"
      BY <1>7 DEF Validated, Progressing, Rejected
    <3>2. framed.consumed \in Nat
      BY <1>1, <1>3, <3>1, FrameMonotone
    <3>3. Progressing(framed, length) = framed /\ framed.consumed <= length
      BY <1>1, <1>7, <3>2 DEF Validated, Progressing, Rejected
    <3>4. reading.kind # "invalid" /\ frame = framed
      BY <1>7, <3>1, <3>3 DEF Validated, Rejected
    <3> QED BY <3>1, <3>3, <3>4
  <2> DEFINE n == framed.consumed
  <2>2. /\ Frame(s, reading, StreamLength - at) = Consumed(n) /\ n \in Nat
        /\ reading.kind # "bad"
    BY <1>1, <1>3, <2>1, FrameMonotone
  <2>3. /\ offset' = offset + n /\ answer' = "item"
        /\ delivered' = Append(delivered, [schema |-> s, start |-> at, end |-> at + n])
    BY <1>2, <1>7, <2>1
  <2>4. ChunkingInvisible' /\ OnlyValidItems' /\ delivered' \in Seq(Item)
    <3> HIDE DEF n, length
    <3> QED BY <1>3, <2>1, <2>2, <2>3, ItemDelivered
  <2>5. StreamType'
    <3>1. offset + n \in Nat /\ base + (offset + n) <= arrived
      BY <1>1, <2>1, <2>2
    <3>2. facade' = facade /\ base' = base /\ arrived' = arrived
      OBVIOUS
    <3> QED BY <1>3, <2>3, <2>4, <3>1, <3>2 DEF IInv, StreamType
  <2>6. PrevalidationSuffices' /\ EndMeansConsumed'
    BY <1>5, <2>3 DEF PrevalidationSuffices, EndMeansConsumed
  <2> QED BY <1>4, <2>4, <2>5, <2>6 DEF IInv
<1> QED BY <1>6, <1>7

(* A call that answers without looking at the input.                       *)
LEMMA AnswerPreserves ==
  ASSUME IInv, UNCHANGED <<text, arrived, base, facade, offset, delivered>>,
         \/ answer' = "unavailable"
         \/ answer' = "end" /\ base + offset = arrived
  PROVE  IInv'
<1>1. ChunkingInvisible' /\ OnlyValidItems'
  BY SameText, NothingDelivered
<1>2. StreamType' /\ Prevalidated' /\ PrevalidationSuffices' /\ EndMeansConsumed'
  BY DEF IInv, StreamType, Prevalidated, PrevalidationSuffices, EndMeansConsumed, Length
<1> QED BY <1>1, <1>2 DEF IInv

LEMMA CursorReadPreserves ==
  ASSUME IInv, NEW s \in Schemas, CursorRead(s) PROVE IInv'
<1>1. CASE s.leading
  BY <1>1, ReadPreserves DEF CursorRead
<1>2. CASE ~s.leading
  BY <1>2, AnswerPreserves DEF CursorRead, Unavailable
<1> QED BY <1>1, <1>2

LEMMA NextVariablePreserves ==
  ASSUME IInv, NextVariable PROVE IInv'
<1>1. facade.schema \in Schemas /\ facade.kind = "variable"
  BY DEF NextVariable, IInv, StreamType
<1>2. CASE ~facade.schema.leading
  BY <1>2, AnswerPreserves DEF NextVariable, Unavailable
<1>3. CASE facade.schema.leading /\ offset = Length
  <2>1. base + offset = arrived
    BY <1>3 DEF IInv, StreamType, Length
  <2> QED BY <1>3, <2>1, AnswerPreserves DEF NextVariable
<1>4. CASE facade.schema.leading /\ offset # Length
  BY <1>1, <1>4, ReadPreserves DEF NextVariable
<1> QED BY <1>2, <1>3, <1>4

LEMMA StepPreserves == ASSUME IInv, [Next]_vars PROVE IInv'
<1>1. CASE UNCHANGED vars
  <2>1. ChunkingInvisible' /\ OnlyValidItems'
    BY <1>1, SameText, NothingDelivered DEF vars
  <2>2. StreamType' /\ Prevalidated' /\ PrevalidationSuffices' /\ EndMeansConsumed'
    BY <1>1 DEF vars, IInv, StreamType, Prevalidated, PrevalidationSuffices,
                EndMeansConsumed, Length
  <2> QED BY <2>1, <2>2 DEF IInv
<1>2. ASSUME NEW s \in Schemas, s.fixed > 0,
             NEW contents \in BoundedSeq(Contents, 1 + StreamLength \div s.fixed),
             OpenFixed(s, contents)
      PROVE  IInv'
  <2>1. 1 + StreamLength \div s.fixed \in Nat
    BY <1>2, WireStreamAssumption DEF None
  <2> QED BY <1>2, <2>1, OpenFixedPreserves
<1> QED
  BY <1>1, <1>2, ArrivePreserves, OpenPreserves, CursorReadPreserves,
     RefuseFixedPreserves, NextFixedPreserves, NextVariablePreserves
  DEF Next

THEOREM StreamInvariance == Spec => []IInv
<1>1. Init => IInv
  BY InitEstablishes
<1>2. IInv /\ [Next]_vars => IInv'
  BY StepPreserves
<1> QED BY <1>1, <1>2, PTL DEF Spec

(* However the stream is cut into buffers, and whatever fails in between,  *)
(* the items handed out by cursors and sequences are those of one reading  *)
(* of the whole stream.                                                    *)
THEOREM RetriesAreInvisible == Spec => []ChunkingInvisible
<1>1. IInv => ChunkingInvisible
  BY DEF IInv
<1> QED BY <1>1, StreamInvariance, PTL

(* Nothing that framing or a validator rejects is handed out.              *)
THEOREM ItemsAreValid == Spec => []OnlyValidItems
<1>1. IInv => OnlyValidItems
  BY DEF IInv
<1> QED BY <1>1, StreamInvariance, PTL

(* What FixedViews::new checked is enough for its iterator, which frames   *)
(* every item a second time and panics should the answer differ.           *)
THEOREM NoPanicAfterPrevalidation == Spec => []PrevalidationSuffices
<1>1. IInv => PrevalidationSuffices
  BY DEF IInv
<1> QED BY <1>1, StreamInvariance, PTL

(* A sequence ends only where every byte of its buffer was handed out.     *)
THEOREM EndIsTheEnd == Spec => []EndMeansConsumed
<1>1. IInv => EndMeansConsumed
  BY DEF IInv
<1> QED BY <1>1, StreamInvariance, PTL

-----------------------------------------------------------------------------
(* Framing items one after the other.                                      *)
Tags == {"ok", "need_more", "schema", "no_progress", "extent"}
Runs(length) == [tag : Tags, at : 0..length]

(* What is given with the array and never changes.                         *)
ArrayType ==
  /\ item \in Schemas /\ content \in [0..MaxLength -> ArrayContents]
  /\ item.fixed # None => \A at \in 0..MaxLength : content[at].kind # "rogue"
  /\ count \in Nat /\ available \in 0..MaxLength
  /\ MaxLength \in 0..UsizeMax /\ UsizeMax \in Nat
  /\ item.fixed \in Nat \cup {None} /\ item.leading \in BOOLEAN
  /\ \A at \in 0..MaxLength : content[at].extent \in Nat

LEMMA Framed ==
  ASSUME ArrayType, NEW at \in 0..MaxLength, NEW length \in 0..MaxLength,
         NEW frame, frame = Counted!Frame(item, content[at], length)
  PROVE  /\ frame \in [tag : {"ok", "need_more", "schema"}, consumed : Nat]
         /\ frame.tag # "ok" => frame.consumed = 0
<1>1. /\ Counted!ExtentIn(item, content[at], length) \in Nat
      /\ content[at].extent \in Nat
  BY DEF Counted!ExtentIn, Counted!None, None, ArrayType
<1> QED BY <1>1 DEF Counted!Frame, Counted!Consumed, Counted!Rejected

LEMMA PastRuns ==
  ASSUME ArrayType, NEW length \in 0..MaxLength, NEW run \in Runs(length)
  PROVE  /\ Counted!Past(run, length) \in Runs(length)
         /\ run.tag # "ok" => Counted!Past(run, length) = run
         /\ Counted!Past(run, length).tag = "ok" =>
              run.tag = "ok" /\ run.at < Counted!Past(run, length).at
<1> DEFINE left == length - run.at
           frame == Counted!Frame(item, content[run.at], left)
           next == Counted!Progressing(frame, left)
<1>1. CASE run.tag # "ok"
  BY <1>1 DEF Counted!Past
<1>2. CASE run.tag = "ok"
  <2>1. /\ run.at \in 0..MaxLength /\ left \in 0..MaxLength /\ left \in Nat /\ run.at \in Nat
        /\ run.at + left = length
    BY DEF Runs, ArrayType
  <2>2. /\ frame \in [tag : {"ok", "need_more", "schema"}, consumed : Nat]
        /\ frame.tag # "ok" => frame.consumed = 0
    <3> HIDE DEF left
    <3> QED BY <2>1, Framed
  <2>3. /\ next.tag \in Tags /\ next.consumed \in 0..left
        /\ next.tag = "ok" => next.consumed > 0
    <3> HIDE DEF frame, left
    <3> QED BY <2>1, <2>2 DEF Counted!Progressing, Counted!Rejected, Tags
  <2>4. Counted!Past(run, length) = [tag |-> next.tag, at |-> run.at + next.consumed]
    BY <1>2 DEF Counted!Past
  <2> HIDE DEF next, left
  <2>5. run.at + next.consumed \in 0..length
    BY <2>1, <2>3
  <2> QED BY <1>2, <2>1, <2>3, <2>4, <2>5 DEF Runs
<1> QED BY <1>1, <1>2

LEMMA WalkFacts ==
  ASSUME ArrayType, NEW length \in 0..MaxLength
  PROVE  /\ Counted!Walk(length) \in [0..count -> Runs(length)]
         /\ Counted!Walk(length)[0] = [tag |-> "ok", at |-> 0]
         /\ \A k \in 1..count :
              Counted!Walk(length)[k] = Counted!Past(Counted!Walk(length)[k - 1], length)
<1> DEFINE S == Runs(length)
           start == [tag |-> "ok", at |-> 0]
           step == [k \in Nat |-> [r \in S |-> Counted!Past(r, length)]]
           Solves(f) == f = [k \in 0..count |->
                               IF k = 0 THEN start ELSE Counted!Past(f[k - 1], length)]
<1>1. start \in S /\ step \in [Nat -> [S -> S]] /\ count \in Nat
  BY PastRuns DEF Runs, Tags, ArrayType
<1>2. PICK f \in [0..count -> S] :
        f[0] = start /\ \A k \in 1..count : f[k] = step[k][f[k - 1]]
  <2> HIDE DEF S, start, step
  <2>1. Iterable(count, S, start, step)
    BY <1>1, IterationExists
  <2> QED BY <2>1 DEF Iterable
<1>3. ASSUME NEW k \in 0..count, k # 0
      PROVE  k - 1 \in 0..count /\ f[k] = Counted!Past(f[k - 1], length)
  <2>1. k - 1 \in 0..count /\ k \in 1..count
    BY <1>1, <1>3
  <2>2. f[k - 1] \in S /\ f[k] = step[k][f[k - 1]]
    <3> HIDE DEF S, step
    <3> QED BY <1>2, <2>1
  <2> HIDE DEF S
  <2> QED BY <2>1, <2>2
<1>4. Solves(f)
  <2> HIDE DEF S, start, step
  <2> QED BY <1>2, <1>3
<1> DEFINE walk == Counted!Walk(length)
<1>5. walk = CHOOSE g : Solves(g)
  BY DEF Counted!Walk
<1>6. Solves(walk)
  <2> HIDE DEF Solves, walk
  <2> QED BY <1>4, <1>5
<1>7. /\ walk[0] = start
      /\ \A k \in 1..count : k \in 0..count /\ k - 1 \in 0..count
                           /\ walk[k] = Counted!Past(walk[k - 1], length)
  <2> HIDE DEF walk, start
  <2> QED BY <1>1, <1>6
<1> DEFINE T == {k \in 0..count : walk[k] \in S}
<1>8. \A k \in 0..count : k \in T
  <2> HIDE DEF walk, S
  <2>1. 0 \in T
    BY <1>1, <1>7
  <2>2. ASSUME NEW k \in 0..(count - 1), k \in T PROVE k + 1 \in T
    <3>1. k + 1 \in 1..count /\ (k + 1) - 1 = k
      BY <1>1
    <3>2. walk[k + 1] = Counted!Past(walk[k], length) /\ k + 1 \in 0..count
      BY <1>7, <3>1
    <3>3. Counted!Past(walk[k], length) \in S
      BY <2>2, PastRuns DEF S
    <3> QED BY <3>2, <3>3
  <2> HIDE DEF T
  <2> QED BY <1>1, <2>1, <2>2, BoundedInduction
<1>9. walk \in [0..count -> S]
  <2> HIDE DEF walk, S
  <2> QED BY <1>6, <1>8
<1> QED BY <1>7, <1>9

(* Where the items as a whole are accepted, so is every run of the first   *)
(* ones, and it ends no later.                                             *)
LEMMA Climbs ==
  ASSUME ArrayType, NEW length \in 0..MaxLength, NEW k \in 0..count,
         Counted!Items(length).tag = "ok"
  PROVE  /\ Counted!Walk(length)[k].tag = "ok"
         /\ Counted!Walk(length)[k].at <= Counted!Items(length).at
<1> DEFINE walk == Counted!Walk(length)
           T == {j \in 0..count : walk[j].tag = "ok" =>
                                   walk[k].tag = "ok" /\ walk[k].at <= walk[j].at}
<1>1. /\ walk \in [0..count -> Runs(length)]
      /\ \A j \in 1..count : walk[j] = Counted!Past(walk[j - 1], length)
  BY WalkFacts
<1>2. count \in Nat
  BY DEF ArrayType
<1> HIDE DEF walk
<1>3. \A j \in 0..count : walk[j].at \in Nat
  BY <1>1 DEF Runs
<1>4. k \in T
  BY <1>3
<1>5. ASSUME NEW j \in k..(count - 1), j \in T PROVE j + 1 \in T
  <2>1. j \in 0..count /\ j + 1 \in 0..count /\ j + 1 \in 1..count /\ (j + 1) - 1 = j
    BY <1>2
  <2>2. walk[j] \in Runs(length) /\ walk[j + 1] = Counted!Past(walk[j], length)
    BY <1>1, <2>1
  <2>3. walk[j + 1].tag = "ok" => walk[j].tag = "ok" /\ walk[j].at < walk[j + 1].at
    BY <2>2, PastRuns
  <2> QED BY <1>3, <1>5, <2>1, <2>3
<1>6. count \in k..count /\ k \in Nat
  BY <1>2
<1>7. count \in T
  <2> HIDE DEF T
  <2>1. \A j \in k..count : j \in T
    BY <1>2, <1>4, <1>5, <1>6, BoundedInduction
  <2> QED BY <1>6, <2>1
<1> QED BY <1>7 DEF Counted!Items, walk

(* What follows the items does not matter to a schema with a leading       *)
(* extent: it finds the same item in fewer bytes, if it is all in them.    *)
LEMMA PastShorter ==
  ASSUME ArrayType, item.fixed = None, item.leading,
         NEW length \in 0..MaxLength, NEW end \in 0..length, NEW run \in Runs(length),
         Counted!Past(run, length).tag = "ok", Counted!Past(run, length).at <= end
  PROVE  Counted!Past(run, end) = Counted!Past(run, length)
<1> DEFINE at == run.at
           long == Counted!Frame(item, content[at], length - at)
           short == Counted!Frame(item, content[at], end - at)
           extent == content[at].extent
           past == Counted!Past(run, length)
<1>1. run.tag = "ok" /\ run.at < past.at /\ past.at \in 0..length
  BY PastRuns DEF Runs
<1>2. /\ at \in 0..length /\ at \in 0..MaxLength /\ extent \in Nat /\ end \in Nat /\ length \in Nat
      /\ at < end
  BY <1>1 DEF Runs, ArrayType
<1> HIDE DEF at, past
<1>3. past = [tag |-> Counted!Progressing(long, length - at).tag,
              at |-> at + Counted!Progressing(long, length - at).consumed]
  BY <1>1 DEF Counted!Past, at, past
<1>4. Counted!Progressing(long, length - at).tag = "ok"
  BY <1>3 DEF past
<1>5. long.tag = "ok" /\ Counted!Progressing(long, length - at) = long
  BY <1>4 DEF Counted!Progressing, Counted!Rejected
<1>6. long = Counted!Consumed(extent) /\ content[at].kind \notin {"bad"} \ {"rogue"}
  BY <1>2, <1>5
  DEF Counted!Frame, Counted!ExtentIn, Counted!Consumed, Counted!Rejected, Counted!None, None
<1>7. past = [tag |-> "ok", at |-> at + extent]
  BY <1>3, <1>5, <1>6 DEF Counted!Consumed
<1>8. 0 < extent /\ extent <= end - at
  BY <1>1, <1>2, <1>7 DEF past, at
<1>9. short = Counted!Consumed(extent)
  BY <1>2, <1>6, <1>8
  DEF Counted!Frame, Counted!ExtentIn, Counted!Consumed, Counted!Rejected, Counted!None, None
<1>10. Counted!Progressing(short, end - at) = Counted!Consumed(extent)
  <2> HIDE DEF short
  <2> QED BY <1>2, <1>8, <1>9 DEF Counted!Progressing, Counted!Consumed
<1> QED BY <1>1, <1>7, <1>10 DEF Counted!Past, Counted!Consumed, at, past

(* The items found before the fields that follow are those found in        *)
(* exactly the bytes they take.                                            *)
LEMMA ItemsAlone ==
  ASSUME ArrayType, item.fixed = None, count = 0 \/ item.leading,
         NEW length \in 0..MaxLength, NEW end, Counted!Items(length) = [tag |-> "ok", at |-> end]
  PROVE  end \in 0..length /\ Counted!Items(end) = [tag |-> "ok", at |-> end]
<1> DEFINE long == Counted!Walk(length)
           short == Counted!Walk(end)
           T == {k \in 0..count : short[k] = long[k]}
<1>1. count \in Nat /\ count \in 0..count /\ 0 \in 0..count /\ MaxLength \in Nat
  BY DEF ArrayType
<1>2. /\ long \in [0..count -> Runs(length)]
      /\ long[0] = [tag |-> "ok", at |-> 0]
      /\ \A k \in 1..count : long[k] = Counted!Past(long[k - 1], length)
  BY WalkFacts
<1>3. long[count] = [tag |-> "ok", at |-> end] /\ Counted!Items(end) = short[count]
  BY DEF Counted!Items
<1>4. end \in 0..length /\ end \in 0..MaxLength
  <2> HIDE DEF long
  <2>1. long[count].at \in 0..length
    BY <1>1, <1>2 DEF Runs
  <2> QED BY <1>1, <1>3, <2>1
<1>5. /\ short[0] = [tag |-> "ok", at |-> 0]
      /\ \A k \in 1..count : short[k] = Counted!Past(short[k - 1], end)
  BY <1>4, WalkFacts
<1>6. \A k \in 0..count : long[k].tag = "ok" /\ long[k].at <= end
  BY <1>3, Climbs DEF Counted!Items
<1> HIDE DEF long, short
<1>7. 0 \in T
  BY <1>1, <1>2, <1>5
<1>8. ASSUME NEW k \in 0..(count - 1), k \in T PROVE k + 1 \in T
  <2>1. k \in 0..count /\ k + 1 \in 0..count /\ k + 1 \in 1..count /\ (k + 1) - 1 = k
    BY <1>1
  <2>2. item.leading
    BY <1>1, <2>1
  <2>3. /\ long[k] \in Runs(length) /\ long[k + 1] = Counted!Past(long[k], length)
        /\ short[k + 1] = Counted!Past(short[k], end) /\ short[k] = long[k]
    BY <1>2, <1>5, <1>8, <2>1
  <2>4. Counted!Past(long[k], end) = Counted!Past(long[k], length)
    BY <1>4, <1>6, <2>1, <2>2, <2>3, PastShorter
  <2> QED BY <2>1, <2>3, <2>4
<1>9. count \in T
  <2> HIDE DEF T
  <2>1. \A k \in 0..count : k \in T
    BY <1>1, <1>7, <1>8, BoundedInduction
  <2> QED BY <1>1, <2>1
<1> QED BY <1>3, <1>4, <1>9

-----------------------------------------------------------------------------
(* The inductive invariant of an array being read.  The iterator stands    *)
(* where the eager walk stands after as many items, and a proved extent is *)
(* what that walk, or the width of the items, says it is.                  *)
ViewType ==
  /\ view \in [length : 0..MaxLength, proved : BOOLEAN]
  /\ reply \in {"unframed", "rejected"} => ~view.proved
  /\ reply = "unframed" => index = 0 /\ cursor = 0 /\ ~failed

Measured ==
  view.proved =>
    IF item.fixed = None THEN Counted!Items(view.length) = [tag |-> "ok", at |-> view.length]
    ELSE view.length = item.fixed * count /\ (item.fixed = 0 => count = 0)

Standing ==
  /\ index \in 0..count
  /\ Counted!Walk(view.length)[index] = [tag |-> "ok", at |-> cursor]
  /\ item.fixed # None => cursor = index * item.fixed /\ (item.fixed = 0 => index = 0)

ArrayInv ==
  /\ ArrayType
  /\ ViewType
  /\ Measured
  /\ Standing
  /\ Counted!ExactBytesAgrees
  /\ Counted!ProvedExtentHolds

ReadInv == reads \in {"stream", "array"} /\ (reads = "array" => ArrayInv)

(* The iterator's shortcut for items of a fixed size frames what the eager *)
(* walk frames.                                                            *)
Left  == view.length - cursor
Bound == IF item.fixed > 0 /\ item.fixed <= Left THEN item.fixed ELSE Left
Taken == Counted!Progressing(Counted!Frame(item, content[cursor], Bound), Left)

LEMMA LazyStep ==
  ASSUME ArrayInv
  PROVE  /\ cursor \in 0..view.length /\ view.length \in 0..MaxLength
         /\ Left \in Nat /\ cursor \in Nat
         /\ Counted!Past([tag |-> "ok", at |-> cursor], view.length)
              = [tag |-> Taken.tag, at |-> cursor + Taken.consumed]
         /\ Taken.tag = "ok" => /\ Taken.consumed \in 1..Left
                                /\ item.fixed # None => Taken.consumed = item.fixed
<1>1. view.length \in 0..MaxLength /\ MaxLength \in Nat /\ index \in 0..count
  BY DEF ArrayInv, ViewType, ArrayType, Standing
<1>2. cursor \in 0..view.length
  <2>1. Counted!Walk(view.length)[index] \in Runs(view.length)
    BY <1>1, WalkFacts DEF ArrayInv
  <2> QED BY <2>1 DEF ArrayInv, Standing, Runs
<1>3. /\ Left \in 0..MaxLength /\ Left \in Nat /\ cursor \in 0..MaxLength /\ cursor \in Nat
  BY <1>1, <1>2 DEF Left
<1> DEFINE eager == Counted!Frame(item, content[cursor], Left)
           lazy  == Counted!Frame(item, content[cursor], Bound)
<1>4. /\ item.fixed \in Nat \cup {None} /\ content[cursor].extent \in Nat
      /\ item.fixed # None => content[cursor].kind # "rogue"
  BY <1>3 DEF ArrayInv, ArrayType
<1>5. lazy = eager
  <2>1. CASE item.fixed > 0 /\ item.fixed <= Left
    BY <1>3, <1>4, <2>1
    DEF Bound, Counted!Frame, Counted!ExtentIn, Counted!None, None
  <2>2. CASE ~(item.fixed > 0 /\ item.fixed <= Left)
    BY <2>2 DEF Bound
  <2> QED BY <2>1, <2>2
<1>6. eager.tag = "ok" /\ item.fixed # None => eager.consumed = item.fixed
  BY <1>4
  DEF Counted!Frame, Counted!ExtentIn, Counted!None, None, Counted!Consumed, Counted!Rejected
<1>7. eager \in [tag : {"ok", "need_more", "schema"}, consumed : Nat]
  <2> HIDE DEF eager
  <2>1. ArrayType
    BY DEF ArrayInv
  <2> QED BY <1>3, <2>1, Framed DEF eager
<1>8. Taken = Counted!Progressing(eager, Left)
  BY <1>5 DEF Taken
<1>9. Taken.tag = "ok" => /\ Taken.consumed \in 1..Left /\ Taken = eager
  <2> HIDE DEF eager
  <2> QED BY <1>3, <1>7, <1>8 DEF Counted!Progressing, Counted!Rejected
<1>10. Counted!Past([tag |-> "ok", at |-> cursor], view.length)
         = [tag |-> Taken.tag, at |-> cursor + Taken.consumed]
  <2>1. view.length - cursor = Left
    BY DEF Left
  <2> QED BY <1>8, <2>1 DEF Counted!Past
<1> QED BY <1>1, <1>2, <1>3, <1>6, <1>9, <1>10

(* One more item: the eager walk goes on in the same way.                  *)
LEMMA WalkOn ==
  ASSUME ArrayInv, index # count
  PROVE  /\ index + 1 \in 0..count
         /\ Counted!Walk(view.length)[index + 1]
              = [tag |-> Taken.tag, at |-> cursor + Taken.consumed]
         /\ Taken.tag # "ok" => Counted!Items(view.length).tag # "ok"
<1>1. ArrayType /\ count \in Nat /\ index \in 0..count /\ view.length \in 0..MaxLength
  BY DEF ArrayInv, ArrayType, ViewType, Standing
<1>2. index + 1 \in 1..count /\ index + 1 \in 0..count /\ (index + 1) - 1 = index
  BY <1>1
<1>3. Counted!Walk(view.length)[index + 1]
        = Counted!Past(Counted!Walk(view.length)[index], view.length)
  BY <1>1, <1>2, WalkFacts
<1>4. Counted!Walk(view.length)[index + 1]
        = [tag |-> Taken.tag, at |-> cursor + Taken.consumed]
  BY <1>3, LazyStep DEF ArrayInv, Standing
<1> QED BY <1>1, <1>2, <1>4, Climbs

(* How the eager checks answer, by where the traversal stands.             *)
LEMMA AllItems ==
  ASSUME ArrayInv, index = count, cursor = view.length
  PROVE  Counted!ExactBytes /\ Counted!Items(view.length).at = view.length
<1> DEFINE d == item.fixed
           length == view.length
<1>1. Counted!Items(length) = [tag |-> "ok", at |-> length]
  BY DEF ArrayInv, Standing, Counted!Items
<1>2. Counted!Extent(length).tag = "ok" /\ Counted!Extent(length).at = length
  <2>1. CASE d = None
    BY <1>1, <2>1 DEF Counted!Extent, Counted!None, None
  <2>2. CASE d # None
    <3>1. length = d * count /\ (d = 0 => count = 0)
      BY <2>2 DEF ArrayInv, Standing, ArrayType
    <3>2. length <= UsizeMax /\ length \in Nat /\ UsizeMax \in Nat
      BY DEF ArrayInv, ArrayType, ViewType
    <3> HIDE DEF length
    <3>3. ~(d * count > UsizeMax) /\ ~(d * count > length)
      BY <3>1, <3>2
    <3> QED BY <2>2, <3>1, <3>3 DEF Counted!Extent, Counted!None, None
  <2> QED BY <2>1, <2>2
<1> QED BY <1>1, <1>2 DEF Counted!ExactBytes

LEMMA Leftover ==
  ASSUME ArrayInv, index = count, cursor # view.length
  PROVE  ~Counted!ExactBytes /\ ~view.proved
<1> DEFINE d == item.fixed
           length == view.length
<1>1. Counted!Items(length) = [tag |-> "ok", at |-> cursor]
  BY DEF ArrayInv, Standing, Counted!Items
<1>2. Counted!Extent(length).tag = "ok" => Counted!Extent(length).at = cursor
  <2>1. CASE d = None
    BY <1>1, <2>1 DEF Counted!Extent, Counted!None, None
  <2>2. CASE d # None
    <3>1. cursor = d * count
      BY <2>2 DEF ArrayInv, Standing, ArrayType
    <3> HIDE DEF length
    <3> QED BY <2>2, <3>1 DEF Counted!Extent, Counted!None, None
  <2> QED BY <2>1, <2>2
<1>3. ~view.proved
  BY <1>1 DEF ArrayInv, Measured, Standing, ArrayType
<1> QED BY <1>2, <1>3 DEF Counted!ExactBytes

LEMMA ItemsFail ==
  ASSUME ArrayInv, Counted!Items(view.length).tag # "ok"
  PROVE  ~Counted!ExactBytes /\ (view.proved => item.fixed # None)
<1>1. view.proved => item.fixed # None
  BY DEF ArrayInv, Measured
<1> QED BY <1>1 DEF Counted!ExactBytes, Counted!Extent, Counted!None, None

(* Inside an extent that is a multiple of the width, only the content of   *)
(* an item can be wrong.                                                   *)
LEMMA OnlyContent ==
  ASSUME ArrayInv, view.proved, index # count, Taken.tag # "ok"
  PROVE  item.fixed # None /\ Taken.tag = "schema"
<1> DEFINE d == item.fixed
<1>1. d # None
  BY WalkOn, ItemsFail
<1>2. /\ d \in Nat /\ count \in Nat /\ index \in 0..count /\ index + 1 \in Nat
      /\ index + 1 <= count /\ index \in Nat
      /\ view.length = count * d /\ cursor = index * d /\ (d = 0 => count = 0)
  BY <1>1 DEF ArrayInv, ArrayType, Standing, Measured
<1>3. d > 0
  BY <1>2
<1>4. d <= Left /\ Left \in Nat
  <2>1. (index + 1) * d <= count * d /\ (index + 1) * d = index * d + d
    BY <1>2, TimesMonotone, TimesNext
  <2>2. index * d \in Nat /\ count * d \in Nat
    BY <1>2, TimesNext
  <2> QED BY <1>2, <2>1, <2>2 DEF Left
<1>5. Bound = d
  BY <1>3, <1>4 DEF Bound
<1>6. content[cursor].kind # "rogue"
  BY <1>1, LazyStep DEF ArrayInv, ArrayType
<1>7. Counted!Frame(item, content[cursor], Bound) \in
        {Counted!Rejected("schema"), Counted!Consumed(d)}
  BY <1>1, <1>2, <1>5, <1>6 DEF Counted!Frame, Counted!ExtentIn, Counted!None, None
<1> QED BY <1>1, <1>2, <1>3, <1>4, <1>7
        DEF Taken, Counted!Progressing, Counted!Rejected, Counted!Consumed

-----------------------------------------------------------------------------
(* What an operation that leaves the array and its facade alone keeps.     *)
Untouched == UNCHANGED <<item, content, count, available, view>>

LEMMA SameWalk ==
  ASSUME Untouched
  PROVE  /\ Counted!Walk(view.length)' = Counted!Walk(view.length)
         /\ Counted!Items(view.length)' = Counted!Items(view.length)
         /\ Counted!ExactBytes' = Counted!ExactBytes
         /\ ArrayType' = ArrayType
         /\ Measured' = Measured
<1>1. UNCHANGED item /\ UNCHANGED content /\ UNCHANGED count /\ UNCHANGED view /\ UNCHANGED available
  BY DEF Untouched
<1>2. ASSUME NEW CONSTANT length
      PROVE  Counted!Walk(length)' = Counted!Walk(length)
  BY <1>1
  DEF Counted!Walk, Counted!Past, Counted!Progressing, Counted!Frame, Counted!ExtentIn
<1>3. Counted!Walk(view.length)' = Counted!Walk(view.length)
  BY <1>1, <1>2
<1>4. Counted!Items(view.length)' = Counted!Items(view.length)
  BY <1>1, <1>3 DEF Counted!Items
<1>5. Counted!Extent(view.length)' = Counted!Extent(view.length)
  BY <1>1, <1>4 DEF Counted!Extent
<1>6. Counted!ExactBytes' = Counted!ExactBytes
  BY <1>1, <1>4, <1>5 DEF Counted!ExactBytes
<1>7. ArrayType' = ArrayType
  BY <1>1 DEF ArrayType
<1>8. Measured' = Measured
  BY <1>1, <1>4 DEF Measured
<1> QED BY <1>3, <1>4, <1>6, <1>7, <1>8

LEMMA ArrayInit == ASSUME ArraysInit PROVE ReadInv
<1>1. CASE reads = "stream"
  BY <1>1 DEF ReadInv
<1>2. CASE reads = "array" /\ Counted!Init
  <2>1. /\ item \in Schemas /\ content \in [0..MaxLength -> ArrayContents]
        /\ item.fixed # None => \A at \in 0..MaxLength : content[at].kind # "rogue"
        /\ count \in Counts /\ available \in 0..MaxLength
        /\ view = [length |-> 0, proved |-> FALSE] /\ index = 0 /\ cursor = 0
        /\ failed = FALSE /\ reply = "unframed"
    BY <1>2 DEF Counted!Init, Counted!None, None
  <2>2. /\ UsizeMax \in Nat /\ MaxLength \in 0..UsizeMax /\ Counts \subseteq Nat
        /\ \A s \in Schemas : s.fixed \in Nat \cup {None} /\ s.leading \in BOOLEAN
        /\ \A c \in ArrayContents : c.extent \in Nat
    BY RuntimeArraysAssumption DEF Counted!CountedArrayAssumption, Counted!None, None
  <2>3. ArrayType
    BY <2>1, <2>2 DEF ArrayType
  <2>4. 0 \in 0..MaxLength
    BY <2>2
  <2>5. Counted!Walk(0)[0] = [tag |-> "ok", at |-> 0]
    BY <2>3, <2>4, WalkFacts
  <2>6. Standing
    BY <2>1, <2>2, <2>5 DEF Standing
  <2>7. ViewType /\ Measured
    BY <2>1, <2>4 DEF ViewType, Measured
  <2>8. Counted!ExactBytesAgrees /\ Counted!ProvedExtentHolds
    BY <2>1 DEF Counted!ExactBytesAgrees, Counted!ProvedExtentHolds
  <2> QED BY <1>2, <2>3, <2>6, <2>7, <2>8 DEF ReadInv, ArrayInv
<1> QED BY <1>1, <1>2 DEF ArraysInit

(* A facade over `length' bytes, before anything was read from it.         *)
LEMMA Facade ==
  ASSUME ArrayInv, UNCHANGED <<item, content, count, available>>,
         index' = 0, cursor' = 0, ~failed', reply' = "framed",
         view' \in [length : 0..MaxLength, proved : BOOLEAN], Measured'
  PROVE  ArrayInv'
<1>1. ArrayType' /\ ArrayType /\ count \in Nat /\ item.fixed \in Nat \cup {None}
  BY DEF ArrayInv, ArrayType
<1>2. ViewType'
  BY DEF ViewType
<1>3. Counted!Walk(view.length)'[0] = [tag |-> "ok", at |-> 0]
  <2>1. ASSUME NEW CONSTANT length \in 0..MaxLength
        PROVE  Counted!Walk(length)'[0] = [tag |-> "ok", at |-> 0]
    <3>1. UNCHANGED item /\ UNCHANGED content /\ UNCHANGED count
      OBVIOUS
    <3>2. Counted!Walk(length)' = Counted!Walk(length)
      BY <3>1
      DEF Counted!Walk, Counted!Past, Counted!Progressing, Counted!Frame, Counted!ExtentIn
    <3> QED BY <1>1, <3>2, WalkFacts
  <2>2. view'.length \in 0..MaxLength
    OBVIOUS
  <2> QED BY <2>1, <2>2
<1>4. Standing'
  <2>1. 0 \in 0..count /\ (item.fixed # None => 0 = 0 * item.fixed)
    BY <1>1
  <2> QED BY <1>3, <2>1 DEF Standing
<1>5. Counted!ExactBytesAgrees' /\ Counted!ProvedExtentHolds'
  BY DEF Counted!ExactBytesAgrees, Counted!ProvedExtentHolds
<1> QED BY <1>1, <1>2, <1>4, <1>5 DEF ArrayInv

LEMMA FrameLeadingPreserves == ASSUME ArrayInv, Counted!FrameLeading PROVE ArrayInv'
<1> DEFINE extent == Counted!Extent(available)
           d == item.fixed
<1>1. /\ reply = "unframed" /\ UNCHANGED <<item, content, count, available, index, cursor, failed>>
      /\ IF (count # 0 /\ ~item.leading) \/ extent.tag # "ok"
         THEN reply' = "rejected" /\ UNCHANGED view
         ELSE reply' = "framed" /\ view' = [length |-> extent.at, proved |-> TRUE]
  BY DEF Counted!FrameLeading, Counted!Message
<1>2. index = 0 /\ cursor = 0 /\ ~failed /\ ~view.proved
  BY <1>1 DEF ArrayInv, ViewType
<1>3. CASE reply' = "rejected" /\ UNCHANGED view
  <2>1. Untouched
    BY <1>1, <1>3 DEF Untouched
  <2>2. ViewType' /\ Standing'
    BY <1>1, <1>2, <1>3, <2>1, SameWalk DEF ArrayInv, ViewType, Standing
  <2>3. Counted!ExactBytesAgrees' /\ Counted!ProvedExtentHolds'
    BY <1>1, <1>2, <1>3 DEF Counted!ExactBytesAgrees, Counted!ProvedExtentHolds
  <2> QED BY <2>1, <2>2, <2>3, SameWalk DEF ArrayInv
<1>4. CASE /\ reply' = "framed" /\ view' = [length |-> extent.at, proved |-> TRUE]
           /\ count = 0 \/ item.leading
           /\ extent.tag = "ok"
  <2>1. /\ extent.at \in 0..MaxLength
        /\ IF d = None THEN Counted!Items(extent.at) = [tag |-> "ok", at |-> extent.at]
           ELSE extent.at = d * count /\ (d = 0 => count = 0)
    <3>1. ArrayType /\ available \in 0..MaxLength /\ MaxLength \in Nat /\ count \in Nat
          /\ d \in Nat \cup {None}
      BY DEF ArrayInv, ArrayType
    <3>2. CASE d = None
      <4>1. extent = Counted!Items(available)
        BY <3>2 DEF Counted!Extent, Counted!None, None
      <4>2. Counted!Items(available) \in Runs(available)
        BY <3>1, WalkFacts DEF Counted!Items
      <4>3. extent = [tag |-> "ok", at |-> extent.at]
        <5> HIDE DEF extent
        <5> QED BY <1>4, <4>1, <4>2 DEF Runs
      <4>4. extent.at \in 0..available /\ Counted!Items(extent.at) = [tag |-> "ok", at |-> extent.at]
        <5> HIDE DEF extent
        <5> QED BY <1>4, <3>1, <3>2, <4>1, <4>3, ItemsAlone
      <4> QED BY <3>1, <3>2, <4>4
    <3>3. CASE d # None
      <4>1. extent = [tag |-> "ok", at |-> d * count] /\ ~(d * count > available)
            /\ ~(d = 0 /\ count # 0)
        BY <1>4, <3>3 DEF Counted!Extent, Counted!None, None
      <4>2. d * count \in Nat
        BY <3>1, <3>3
      <4>3. d * count \in 0..MaxLength
        BY <3>1, <4>1, <4>2
      <4> QED BY <3>3, <4>1, <4>3
    <3> QED BY <3>2, <3>3
  <2>2. Measured'
    <3>1. ASSUME NEW CONSTANT length
          PROVE  Counted!Items(length)' = Counted!Items(length)
      <4>1. UNCHANGED item /\ UNCHANGED content /\ UNCHANGED count
        BY <1>1
      <4> QED BY <4>1
        DEF Counted!Items, Counted!Walk, Counted!Past, Counted!Progressing, Counted!Frame,
            Counted!ExtentIn
    <3> HIDE DEF extent
    <3> QED BY <1>1, <1>4, <2>1, <3>1 DEF Measured
  <2> HIDE DEF extent
  <2> QED BY <1>1, <1>2, <1>4, <2>1, <2>2, Facade
<1> QED BY <1>1, <1>3, <1>4

LEMMA FrameTerminalPreserves == ASSUME ArrayInv, Counted!FrameTerminal PROVE ArrayInv'
<1>1. /\ reply = "unframed" /\ reply' = "framed"
      /\ UNCHANGED <<item, content, count, available, index, cursor, failed>>
      /\ view' = [length |-> available, proved |-> FALSE]
  BY DEF Counted!FrameTerminal, Counted!Message
<1>2. index = 0 /\ cursor = 0 /\ ~failed /\ available \in 0..MaxLength
  BY <1>1 DEF ArrayInv, ViewType, ArrayType
<1>3. Measured'
  BY <1>1 DEF Measured
<1> QED BY <1>1, <1>2, <1>3, Facade

LEMMA IterPreserves == ASSUME ArrayInv, Counted!Iter PROVE ArrayInv'
<1>1. /\ index' = 0 /\ cursor' = 0 /\ failed' = FALSE /\ reply' = "framed" /\ Untouched
      /\ UNCHANGED <<item, content, count, available>> /\ view' = view
  BY DEF Counted!Iter, Counted!Message, Untouched
<1>2. Measured'
  BY <1>1, SameWalk DEF ArrayInv
<1>3. view' \in [length : 0..MaxLength, proved : BOOLEAN]
  BY <1>1 DEF ArrayInv, ViewType
<1> QED BY <1>1, <1>2, <1>3, Facade

LEMMA NextItemPreserves == ASSUME ArrayInv, Counted!NextItem PROVE ArrayInv'
<1>1. /\ reply \notin {"unframed", "rejected"} /\ Untouched
      /\ UNCHANGED <<item, content, count, available>> /\ view' = view
  BY DEF Counted!NextItem, Counted!Message, Untouched
<1>2. IF failed
      THEN reply' = "none" /\ UNCHANGED <<index, cursor, failed>>
      ELSE IF index = count
      THEN IF Left # 0 THEN Counted!Fail("trailing")
           ELSE reply' = "none" /\ UNCHANGED <<index, cursor, failed>>
      ELSE IF Taken.tag # "ok" THEN Counted!Fail(Taken.tag)
      ELSE IF item.fixed # None /\ Taken.consumed # item.fixed THEN Counted!Fail("extent")
      ELSE /\ index' = index + 1 /\ cursor' = cursor + Taken.consumed
           /\ reply' = "item" /\ UNCHANGED failed
  BY DEF Counted!NextItem, Left, Bound, Taken, Counted!None, None
<1>3. ArrayType' /\ Measured'
  BY <1>1, SameWalk DEF ArrayInv
<1>4. ASSUME UNCHANGED <<index, cursor>> PROVE Standing'
  BY <1>1, <1>4, SameWalk DEF ArrayInv, Standing
<1>5. ASSUME reply' \notin {"unframed", "rejected"} PROVE ViewType'
  BY <1>1, <1>5 DEF ArrayInv, ViewType
<1>6. ASSUME NEW CONSTANT tag, Counted!Fail(tag), tag \notin {"none", "unframed", "rejected"},
             ~Counted!ExactBytes, view.proved => item.fixed # None /\ tag = "schema"
      PROVE  ArrayInv'
  <2>1. failed' = TRUE /\ reply' = tag /\ UNCHANGED <<index, cursor>>
    BY <1>6 DEF Counted!Fail
  <2>2. ~Counted!ExactBytes'
    BY <1>1, <1>6, SameWalk
  <2>3. Counted!ExactBytesAgrees'
    BY <1>6, <2>1, <2>2 DEF Counted!ExactBytesAgrees
  <2>4. Counted!ProvedExtentHolds'
    BY <1>1, <1>6, <2>1 DEF Counted!ProvedExtentHolds, Counted!None, None
  <2> QED BY <1>3, <1>4, <1>5, <1>6, <2>1, <2>3, <2>4 DEF ArrayInv
<1>7. ASSUME reply' = "none", UNCHANGED <<index, cursor, failed>>,
             ~failed => Counted!ExactBytes /\ Counted!Items(view.length).at = view.length
      PROVE  ArrayInv'
  <2>1. Counted!ExactBytesAgrees'
    <3>1. failed => ~Counted!ExactBytes
      BY DEF ArrayInv, Counted!ExactBytesAgrees
    <3> QED BY <1>1, <1>7, <3>1, SameWalk DEF Counted!ExactBytesAgrees
  <2>2. Counted!ProvedExtentHolds'
    BY <1>7 DEF Counted!ProvedExtentHolds
  <2> QED BY <1>3, <1>4, <1>5, <1>7, <2>1, <2>2 DEF ArrayInv
<1>8. CASE failed
  BY <1>2, <1>7, <1>8
<1>9. CASE ~failed /\ index = count
  <2>1. CASE Left # 0
    <3>1. ~Counted!ExactBytes /\ ~view.proved
      <4>1. cursor # view.length
        BY <2>1, LazyStep DEF Left
      <4> QED BY <1>9, <4>1, Leftover
    <3> QED BY <1>2, <1>6, <1>9, <2>1, <3>1
  <2>2. CASE Left = 0
    <3>1. cursor = view.length
      BY <2>2, LazyStep DEF Left
    <3> QED BY <1>2, <1>7, <1>9, <2>2, <3>1, AllItems
  <2> QED BY <2>1, <2>2
<1>10. CASE ~failed /\ index # count /\ Taken.tag # "ok"
  <2>1. Counted!Fail(Taken.tag)
    BY <1>2, <1>10
  <2>2. ~Counted!ExactBytes /\ (view.proved => item.fixed # None /\ Taken.tag = "schema")
    BY <1>10, WalkOn, ItemsFail, OnlyContent
  <2>3. Taken.tag \notin {"none", "unframed", "rejected"}
    BY DEF Taken, Counted!Progressing, Counted!Frame, Counted!Rejected, Counted!Consumed
  <2> DEFINE tag == Taken.tag
  <2> HIDE DEF tag
  <2>4. Counted!Fail(tag)
    BY <2>1 DEF tag
  <2> QED BY <1>6, <2>2, <2>3, <2>4 DEF tag
<1>11. CASE ~failed /\ index # count /\ Taken.tag = "ok"
  <2>1. /\ index' = index + 1 /\ cursor' = cursor + Taken.consumed
        /\ reply' = "item" /\ UNCHANGED failed
    BY <1>2, <1>11, LazyStep
  <2>2. /\ index + 1 \in 0..count
        /\ Counted!Walk(view.length)[index + 1] = [tag |-> "ok", at |-> cursor + Taken.consumed]
    BY <1>11, WalkOn
  <2>3. item.fixed # None => /\ cursor + Taken.consumed = (index + 1) * item.fixed
                             /\ item.fixed # 0
    <3> SUFFICES ASSUME item.fixed # None
                 PROVE  /\ cursor + Taken.consumed = (index + 1) * item.fixed
                        /\ item.fixed # 0
      OBVIOUS
    <3>1. item.fixed \in Nat /\ index \in Nat /\ cursor = index * item.fixed
      BY DEF ArrayInv, ArrayType, Standing
    <3>2. Taken.consumed = item.fixed /\ item.fixed \in 1..Left /\ Left \in Nat
      BY <1>11, LazyStep
    <3> QED BY <3>1, <3>2, TimesNext
  <2>4. Standing'
    BY <1>1, <2>1, <2>2, <2>3, SameWalk DEF Standing
  <2>5. Counted!ExactBytesAgrees' /\ Counted!ProvedExtentHolds'
    BY <1>1, <1>11, <2>1 DEF Counted!ExactBytesAgrees, Counted!ProvedExtentHolds
  <2> QED BY <1>3, <1>5, <2>1, <2>4, <2>5 DEF ArrayInv
<1> QED BY <1>8, <1>9, <1>10, <1>11

LEMMA ReadStep == ASSUME ReadInv, [ArraysNext]_<<vars, reads, arrayVars>> PROVE ReadInv'
<1>1. CASE UNCHANGED <<reads, arrayVars>>
  <2>1. Untouched /\ UNCHANGED <<reads, index, cursor, failed, reply>>
    BY <1>1 DEF arrayVars, Untouched
  <2>2. ArrayInv => ArrayInv'
    <3> SUFFICES ASSUME ArrayInv PROVE ArrayInv'
      OBVIOUS
    <3>1. ViewType' /\ Standing'
      BY <2>1, SameWalk DEF ArrayInv, ViewType, Standing, Untouched
    <3>2. Counted!ExactBytesAgrees' /\ Counted!ProvedExtentHolds'
      BY <2>1, SameWalk
      DEF ArrayInv, Counted!ExactBytesAgrees, Counted!ProvedExtentHolds, Untouched
    <3> QED BY <2>1, <3>1, <3>2, SameWalk DEF ArrayInv
  <2> QED BY <2>1, <2>2 DEF ReadInv
<1>2. CASE Counting /\ Counted!FrameLeading
  BY <1>2, FrameLeadingPreserves DEF Counting, ReadInv
<1>3. CASE Counting /\ Counted!FrameTerminal
  BY <1>3, FrameTerminalPreserves DEF Counting, ReadInv
<1>4. CASE Counting /\ Counted!Iter
  BY <1>4, IterPreserves DEF Counting, ReadInv
<1>5. CASE Counting /\ Counted!NextItem
  BY <1>5, NextItemPreserves DEF Counting, ReadInv
<1> QED BY <1>1, <1>2, <1>3, <1>4, <1>5 DEF ArraysNext, Streaming

(* Every behaviour of the two consumers side by side is, for the streams,  *)
(* one of WireStream: what is proved of the streams holds here.            *)
LEMMA StreamsEmbedded == ArraysSpec => Spec
<1>1. ArraysInit => Init
  BY DEF ArraysInit
<1>2. [ArraysNext]_<<vars, reads, arrayVars>> => [Next]_vars
  BY DEF ArraysNext, Next, Streaming, Counting
<1> QED BY <1>1, <1>2, PTL DEF ArraysSpec, Spec

(* Copying a facade as bytes is accepted exactly when a traversal hands    *)
(* out all its items and finds nothing behind them, and in an extent the   *)
(* parent proved only the content of a fixed-size item can still be wrong. *)
THEOREM CopyMatchesIteration == ArraysSpec => []EagerMatchesLazy
<1>1. ArraysInit => ReadInv
  BY ArrayInit
<1>2. ReadInv /\ [ArraysNext]_<<vars, reads, arrayVars>> => ReadInv'
  BY ReadStep
<1>3. ReadInv => EagerMatchesLazy
  BY DEF ReadInv, ArrayInv, EagerMatchesLazy
<1> QED BY <1>1, <1>2, <1>3, PTL DEF ArraysSpec

(* The guarantees of the streams hold where streams and arrays are read    *)
(* side by side: no retry is visible, nothing rejected is handed out,      *)
(* prevalidated items never panic, and an end is an end.                   *)
THEOREM StreamsBesideArrays ==
  ArraysSpec => [](/\ ChunkingInvisible /\ OnlyValidItems
                   /\ PrevalidationSuffices /\ EndMeansConsumed)
<1>1. IInv => /\ ChunkingInvisible /\ OnlyValidItems
              /\ PrevalidationSuffices /\ EndMeansConsumed
  BY DEF IInv
<1> QED BY <1>1, StreamInvariance, StreamsEmbedded, PTL
=============================================================================
