-------------------------- MODULE WireOutput_proofs --------------------------
(***************************************************************************)
(* Proofs about WireOutput for every address space, byte set, adapter,     *)
(* limit, buffer and nesting depth.                                        *)
(***************************************************************************)
EXTENDS WireOutput, TLAPS

(* An output state whose cursor is an honest high-water mark.              *)
Sound(o) ==
  /\ o \in Out
  /\ o.cursor <= o.len
  /\ \A a \in Addr : o.buf[a] # Junk => a < o.cursor

(* What a request for exposure may do to a sound output: because nothing   *)
(* is written at or above the cursor, no adapter can disturb a cell.       *)
EnsureEffect(o, min, r) ==
  /\ r \in Answers
  /\ r.out.buf = o.buf /\ r.out.cursor = o.cursor
  /\ o.len <= r.out.len
  /\ r.res = "Ok" => min <= r.out.len

(* Type facts shared by all lemmas.                                        *)
LEMMA Domains ==
  /\ UsizeMax \in Nat /\ 0 \in Offset
  /\ \A x \in Offset : x \in Nat /\ x <= UsizeMax
  /\ \A a \in Addr : a \in Nat /\ a < UsizeMax
BY OutputAssumption DEF Offset, Addr

LEMMA LargerType == \A a, b \in Int : Larger(a, b) \in {a, b} /\ a <= Larger(a, b) /\ b <= Larger(a, b)
BY DEF Larger

LEMMA SmallerType == \A a, b \in Int : Smaller(a, b) \in {a, b} /\ Smaller(a, b) <= a /\ Smaller(a, b) <= b
BY DEF Smaller

(* The amortised growth target respects the request and the address space. *)
LEMMA GrowthTargetBounds ==
  ASSUME NEW current \in Offset, NEW min \in Offset, NEW suggested \in Offset
  PROVE  /\ GrowthTarget(current, min, suggested) \in Offset
         /\ min <= GrowthTarget(current, min, suggested)
BY OutputAssumption DEF GrowthTarget, Larger, Smaller, Offset

(* Output::ensure of every adapter keeps its contract.                     *)
LEMMA EnsureContract ==
  ASSUME NEW o, Sound(o), NEW min \in Offset, NEW suggested \in Offset,
         adapter \in {"fixed", "extend", "bounded", "grow_with"}, bound \in Offset
  PROVE  \A r \in WriterEnsure(o, min, suggested) : EnsureEffect(o, min, r)
<1> DEFINE s == Larger(suggested, min)
<1>1. /\ o \in Out /\ o.len \in Offset /\ o.cursor \in Offset
      /\ o.buf \in [Addr -> Cell] /\ o.cursor <= o.len
      /\ \A a \in Addr : o.cursor <= a => o.buf[a] = Junk
  BY Domains DEF Sound, Out
<1>2. s \in Offset
  BY Domains DEF Larger
<1>3. ASSUME NEW t \in Offset, min <= t, o.len <= t
      PROVE  EnsureEffect(o, min, Ok(Extended(o, t)))
  <2>1. Extended(o, t).buf = o.buf
    BY <1>1, Domains DEF Extended, Out
  <2>2. Extended(o, t).len = t /\ Extended(o, t).cursor = o.cursor
    BY <1>1, <1>3, Domains DEF Extended, Out, Larger
  <2>3. Extended(o, t) \in Out
    BY <1>1, <2>1, <2>2, <1>3 DEF Extended, Out
  <2> QED
    BY <2>1, <2>2, <2>3, <1>3 DEF EnsureEffect, Ok, Answers
<1>4. ASSUME NEW e \in Errors PROVE EnsureEffect(o, min, Err(o, e))
  BY <1>1, Domains, <1>4 DEF EnsureEffect, Err, Answers, Errors
<1>5. ASSUME min <= o.len PROVE EnsureEffect(o, min, Ok(o))
  BY <1>1, Domains, <1>5 DEF EnsureEffect, Ok, Answers
<1>6. ASSUME NEW n \in Offset, o.len <= n
      PROVE  /\ Relocated(o, o.cursor, n) \in Out
             /\ Relocated(o, o.cursor, n).buf = o.buf
             /\ Relocated(o, o.cursor, n).cursor = o.cursor
             /\ Relocated(o, o.cursor, n).len = n
  BY <1>1, Domains, <1>6 DEF Relocated, Out
<1>7. CASE adapter = "fixed"
  <2>1. WriterEnsure(o, min, suggested) = EnsureFixed(o, min)
    BY <1>7 DEF WriterEnsure, OutputEnsure
  <2> QED
    BY <2>1, <1>1, <1>4, <1>5, Domains DEF EnsureFixed, Errors
<1>8. CASE adapter = "extend"
  <2>1. WriterEnsure(o, min, suggested) = EnsureExtend(o, min, s)
    BY <1>8 DEF WriterEnsure, OutputEnsure
  <2> DEFINE t == GrowthTarget(o.len, min, s)
  <2>2. t \in Offset /\ min <= t
    BY <1>1, <1>2, GrowthTargetBounds
  <2>3. CASE o.len >= min
    BY <2>1, <2>3, <1>5, <1>1, Domains DEF EnsureExtend
  <2>4. CASE ~(o.len >= min)
    <3>1. o.len <= t
      BY <2>2, <2>4, <1>1, Domains
    <3>2. WriterEnsure(o, min, suggested) = {Ok(Extended(o, t))}
      BY <2>1, <2>4 DEF EnsureExtend
    <3> QED BY <3>1, <3>2, <2>2, <1>3
  <2> QED BY <2>3, <2>4
<1>9. CASE adapter = "bounded"
  <2>1. WriterEnsure(o, min, suggested) = EnsureBounded(o, min, s)
    BY <1>9 DEF WriterEnsure, OutputEnsure
  <2> DEFINE t == Smaller(GrowthTarget(o.len, min, s), bound)
  <2>2. GrowthTarget(o.len, min, s) \in Offset /\ min <= GrowthTarget(o.len, min, s)
    BY <1>1, <1>2, GrowthTargetBounds
  <2>3. CASE min > bound
    BY <2>1, <2>3, <1>4 DEF EnsureBounded, Errors
  <2>4. CASE ~(min > bound) /\ o.len >= min
    BY <2>1, <2>4, <1>5, <1>1, Domains DEF EnsureBounded
  <2>5. CASE ~(min > bound) /\ ~(o.len >= min)
    <3>1. t \in Offset /\ min <= t /\ o.len <= t
      BY <2>2, <2>5, <1>1, Domains DEF Smaller
    <3>2. WriterEnsure(o, min, suggested) = {Ok(Extended(o, t))}
      BY <2>1, <2>5 DEF EnsureBounded
    <3> QED BY <3>1, <3>2, <1>3
  <2> QED BY <2>3, <2>4, <2>5
<1>10. CASE adapter = "grow_with"
  <2>1. WriterEnsure(o, min, suggested) = EnsureGrowWith(o, o.cursor, min)
    BY <1>10 DEF WriterEnsure, OutputEnsure
  <2>2. CASE o.len >= min
    BY <2>1, <2>2, <1>5, <1>1, Domains DEF EnsureGrowWith
  <2>3. CASE ~(o.len >= min)
    <3>1. ASSUME NEW n \in o.len..(min - 1)
          PROVE  EnsureEffect(o, min, Err(Relocated(o, o.cursor, n), "GrowthRefused"))
      <4>1. n \in Offset /\ o.len <= n
        BY <1>1, Domains DEF Offset
      <4> QED BY <4>1, <1>6, <1>1 DEF EnsureEffect, Err, Answers, Errors
    <3>2. ASSUME NEW n \in min..UsizeMax
          PROVE  EnsureEffect(o, min, Ok(Relocated(o, o.cursor, n)))
      <4>1. n \in Offset /\ o.len <= n /\ min <= n
        BY <1>1, <2>3, Domains DEF Offset
      <4> QED BY <4>1, <1>6, <1>1 DEF EnsureEffect, Ok, Answers
    <3>3. EnsureEffect(o, min, Err(o, "Grow"))
      BY <1>4 DEF Errors
    <3> QED BY <2>1, <2>3, <3>1, <3>2, <3>3 DEF EnsureGrowWith
  <2> QED BY <2>2, <2>3
<1> QED BY <1>7, <1>8, <1>9, <1>10

-----------------------------------------------------------------------------
(* What a mutating call may do: on success the buffer is exactly `new' and *)
(* the cursor covers `end'; on failure cells and cursor are untouched.     *)
CallEffect(o, new, end, r) ==
  /\ r \in Answers
  /\ Sound(r.out)
  /\ o.len <= r.out.len /\ o.cursor <= r.out.cursor
  /\ r.res = "Ok" => /\ r.out.buf = new
                     /\ r.out.cursor = Larger(o.cursor, end)
  /\ r.res # "Ok" => /\ r.out.buf = o.buf
                     /\ r.out.cursor = o.cursor

(* An error answered before anything was touched.                          *)
LEMMA ErrEffect ==
  ASSUME NEW o, Sound(o), NEW new, NEW end, NEW e \in Errors
  PROVE  CallEffect(o, new, end, Err(o, e))
<1>1. o \in Out /\ o.len \in Offset /\ o.cursor \in Offset
  BY DEF Sound, Out
<1> QED
  BY <1>1, Domains DEF CallEffect, Err, Answers, Sound, Errors

(* Committing a buffer whose written cells lie below `end' or below the    *)
(* old cursor keeps the high-water mark honest.                            *)
LEMMA CommitEffect ==
  ASSUME NEW o, Sound(o), NEW end \in Offset, NEW new \in [Addr -> Cell],
         \A a \in Addr : new[a] # Junk => a < Larger(o.cursor, end),
         NEW r, EnsureEffect(o, end, r), r.res = "Ok",
         NEW q, q = Ok([buf |-> new, len |-> r.out.len,
                        cursor |-> Larger(r.out.cursor, end)])
  PROVE  CallEffect(o, new, end, q)
<1>1. /\ o \in Out /\ o.len \in Offset /\ o.cursor \in Offset
      /\ o.cursor <= o.len /\ r.out \in Out /\ r.out.len \in Offset
      /\ r.out.cursor = o.cursor /\ o.len <= r.out.len /\ end <= r.out.len
  BY DEF Sound, Out, EnsureEffect, Answers
<1>2. /\ Larger(o.cursor, end) \in Offset /\ Larger(o.cursor, end) <= r.out.len
      /\ o.cursor <= Larger(o.cursor, end)
  BY <1>1, Domains DEF Larger
<1>3. q.res = "Ok" /\ q.out.buf = new /\ q.out.len = r.out.len
      /\ q.out.cursor = Larger(o.cursor, end)
  BY <1>1 DEF Ok
<1>4. q.out \in Out /\ q \in Answers
  BY <1>1, <1>2 DEF Ok, Out, Answers
<1>5. Sound(q.out)
  BY <1>2, <1>3, <1>4 DEF Sound
<1> QED BY <1>1, <1>2, <1>3, <1>4, <1>5 DEF CallEffect

(* Writer::write_at and Writer::write.                                     *)
LEMMA WriteAtEffect ==
  ASSUME NEW o, Sound(o), NEW at \in Offset, NEW bytes \in Chunk,
         adapter \in {"fixed", "extend", "bounded", "grow_with"}, bound \in Offset
  PROVE  /\ Len(bytes) \in Nat
         /\ \A r \in WriteAt(o, at, bytes) :
              /\ CallEffect(o, Stored(o.buf, at, bytes), at + Len(bytes), r)
              /\ r.res = "Ok" => at + Len(bytes) <= UsizeMax
<1> DEFINE end == at + Len(bytes)
           new == Stored(o.buf, at, bytes)
<1>1. /\ Len(bytes) \in Nat
      /\ \A i \in 1..Len(bytes) : bytes[i] \in Byte
  BY OutputAssumption DEF Chunk
<1>2. /\ o.cursor \in Offset /\ o.buf \in [Addr -> Cell]
      /\ \A a \in Addr : o.buf[a] # Junk => a < o.cursor
  BY DEF Sound, Out
<1>3. CASE end > UsizeMax
  <2>1. WriteAt(o, at, bytes) = {Err(o, "LengthOverflow")}
    BY <1>3 DEF WriteAt
  <2>2. CallEffect(o, new, end, Err(o, "LengthOverflow"))
    BY ErrEffect DEF Errors
  <2> QED BY <1>1, <2>1, <2>2 DEF Err
<1>4. CASE ~(end > UsizeMax)
  <2>1. end \in Offset /\ Larger(end, o.cursor) \in Offset
    BY <1>1, <1>2, <1>4, Domains DEF Offset, Larger
  <2>2. new \in [Addr -> Cell]
    <3>1. ASSUME NEW a \in Addr, at <= a, a < at + Len(bytes)
          PROVE  bytes[a - at + 1] \in Cell
      <4>1. a - at + 1 \in 1..Len(bytes)
        BY <1>1, <3>1, Domains
      <4> QED BY <4>1, <1>1 DEF Cell
    <3> QED BY <3>1, <1>2 DEF Stored
  <2>3. \A a \in Addr : new[a] # Junk => a < Larger(o.cursor, end)
    BY <1>1, <1>2, <2>1, Domains DEF Stored, Larger
  <2>4. \A r \in WriterEnsure(o, end, Larger(end, o.cursor)) : EnsureEffect(o, end, r)
    BY <2>1, EnsureContract
  <2>5. ASSUME NEW r \in WriterEnsure(o, end, Larger(end, o.cursor)), r.res = "Ok"
        PROVE  CallEffect(o, new, end,
                 Ok([buf |-> Stored(r.out.buf, at, bytes), len |-> r.out.len,
                     cursor |-> Larger(r.out.cursor, end)]))
    <3>1. r.out.buf = o.buf
      BY <2>4, <2>5 DEF EnsureEffect
    <3> QED BY <3>1, <2>1, <2>2, <2>3, <2>4, <2>5, CommitEffect
  <2>6. ASSUME NEW r \in WriterEnsure(o, end, Larger(end, o.cursor)), r.res # "Ok"
        PROVE  CallEffect(o, new, end, r)
    BY <2>4, <2>6, <1>2, Domains DEF CallEffect, EnsureEffect, Sound, Answers, Out
  <2>7. WriteAt(o, at, bytes) =
          {IF r.res = "Ok"
           THEN Ok([buf |-> Stored(r.out.buf, at, bytes), len |-> r.out.len,
                    cursor |-> Larger(r.out.cursor, end)])
           ELSE r : r \in WriterEnsure(o, end, Larger(end, o.cursor))}
    BY <1>4 DEF WriteAt, Committed
  <2> QED BY <1>1, <2>1, <2>5, <2>6, <2>7, Domains
<1> QED BY <1>1, <1>3, <1>4

(* Writer::fill_at.                                                        *)
LEMMA FillAtEffect ==
  ASSUME NEW o, Sound(o), NEW at \in Offset, NEW n \in Nat,
         adapter \in {"fixed", "extend", "bounded", "grow_with"}, bound \in Offset
  PROVE  \A r \in FillAt(o, at, n) :
           /\ CallEffect(o, Filled(o.buf, at, at + n), at + n, r)
           /\ r.res = "Ok" => at + n <= UsizeMax
<1> DEFINE end == at + n
           new == Filled(o.buf, at, end)
<1>2. /\ o.cursor \in Offset /\ o.buf \in [Addr -> Cell]
      /\ \A a \in Addr : o.buf[a] # Junk => a < o.cursor
  BY DEF Sound, Out
<1>3. CASE end > UsizeMax
  <2>1. FillAt(o, at, n) = {Err(o, "LengthOverflow")}
    BY <1>3 DEF FillAt
  <2>2. CallEffect(o, new, end, Err(o, "LengthOverflow"))
    BY ErrEffect DEF Errors
  <2> QED BY <2>1, <2>2 DEF Err
<1>4. CASE ~(end > UsizeMax)
  <2>1. end \in Offset /\ Larger(end, o.cursor) \in Offset
    BY <1>2, <1>4, Domains DEF Offset, Larger
  <2>2. new \in [Addr -> Cell]
    BY <1>2, OutputAssumption DEF Filled, Cell
  <2>3. \A a \in Addr : new[a] # Junk => a < Larger(o.cursor, end)
    BY <1>2, <2>1, Domains DEF Filled, Larger
  <2>4. \A r \in WriterEnsure(o, end, Larger(end, o.cursor)) : EnsureEffect(o, end, r)
    BY <2>1, EnsureContract
  <2>5. ASSUME NEW r \in WriterEnsure(o, end, Larger(end, o.cursor)), r.res = "Ok"
        PROVE  CallEffect(o, new, end,
                 Ok([buf |-> Filled(r.out.buf, at, end), len |-> r.out.len,
                     cursor |-> Larger(r.out.cursor, end)]))
    <3>1. r.out.buf = o.buf
      BY <2>4, <2>5 DEF EnsureEffect
    <3> QED BY <3>1, <2>1, <2>2, <2>3, <2>4, <2>5, CommitEffect
  <2>6. ASSUME NEW r \in WriterEnsure(o, end, Larger(end, o.cursor)), r.res # "Ok"
        PROVE  CallEffect(o, new, end, r)
    BY <2>4, <2>6, <1>2, Domains DEF CallEffect, EnsureEffect, Sound, Answers, Out
  <2>7. FillAt(o, at, n) =
          {IF r.res = "Ok"
           THEN Ok([buf |-> Filled(r.out.buf, at, end), len |-> r.out.len,
                    cursor |-> Larger(r.out.cursor, end)])
           ELSE r : r \in WriterEnsure(o, end, Larger(end, o.cursor))}
    BY <1>4 DEF FillAt, Committed
  <2> QED BY <2>1, <2>5, <2>6, <2>7, Domains
<1> QED BY <1>3, <1>4

(* Writer::expand_integer_span.  Success implies that the whole expanded   *)
(* span lies inside the limit and inside the address space.                *)
LEMMA ExpandSpanEffect ==
  ASSUME NEW o, Sound(o), NEW at \in Offset, NEW end \in Offset,
         NEW bytes \in Chunk, NEW limit \in Offset \cup {NoLimit},
         adapter \in {"fixed", "extend", "bounded", "grow_with"}, bound \in Offset
  PROVE  /\ Len(bytes) \in Nat
         /\ \A r \in ExpandSpan(o, at, end, bytes, limit) :
              /\ CallEffect(o, Spliced(o.buf, at, end, bytes),
                            end + Len(bytes) - 1, r)
              /\ r.res = "Ok" => /\ end + Len(bytes) - 1 \in Offset
                                 /\ at < end /\ end <= o.cursor
                                 /\ Len(bytes) >= 1
                                 /\ Within(end + Len(bytes) - 1, limit)
<1> DEFINE after == end + Len(bytes) - 1
           new == Spliced(o.buf, at, end, bytes)
           blocked == \/ at + 1 > UsizeMax
                      \/ at + 1 > end \/ end > o.cursor
                      \/ Len(bytes) = 0 \/ after > UsizeMax
                      \/ ~Within(after, limit)
<1>1. /\ Len(bytes) \in Nat
      /\ \A i \in 1..Len(bytes) : bytes[i] \in Byte
  BY OutputAssumption DEF Chunk
<1>2. /\ o.cursor \in Offset /\ o.buf \in [Addr -> Cell]
      /\ \A a \in Addr : o.buf[a] # Junk => a < o.cursor
  BY DEF Sound, Out
<1>3. CASE blocked
  <2>1. \E e \in Errors : ExpandSpan(o, at, end, bytes, limit) = {Err(o, e)}
    BY <1>3 DEF ExpandSpan, Errors
  <2>2. \A e \in Errors : CallEffect(o, new, after, Err(o, e)) /\ Err(o, e).res # "Ok"
    BY ErrEffect DEF Errors, Err
  <2> QED BY <1>1, <2>1, <2>2
<1>4. CASE ~blocked
  <2>1. /\ after \in Offset /\ Larger(after, o.cursor) \in Offset
        /\ at < end /\ end <= o.cursor /\ Len(bytes) >= 1 /\ Within(after, limit)
    BY <1>1, <1>2, <1>4, Domains DEF Offset, Larger
  <2>2. new \in [Addr -> Cell]
    <3>1. ASSUME NEW a \in Addr, at <= a, a < at + Len(bytes)
          PROVE  bytes[a - at + 1] \in Cell
      <4>1. a - at + 1 \in 1..Len(bytes)
        BY <1>1, <3>1, Domains
      <4> QED BY <4>1, <1>1 DEF Cell
    <3>2. ASSUME NEW a \in Addr, at + Len(bytes) <= a, a < after
          PROVE  o.buf[a - (Len(bytes) - 1)] \in Cell
      <4>1. a - (Len(bytes) - 1) \in Addr
        BY <1>1, <3>2, <2>1, Domains DEF Addr
      <4> QED BY <4>1, <1>2
    <3> QED BY <3>1, <3>2, <1>2 DEF Spliced
  <2>3. \A a \in Addr : new[a] # Junk => a < Larger(o.cursor, after)
    BY <1>1, <1>2, <2>1, Domains DEF Spliced, Larger
  <2>4. \A r \in WriterEnsure(o, after, Larger(after, o.cursor)) : EnsureEffect(o, after, r)
    BY <2>1, EnsureContract
  <2>5. ASSUME NEW r \in WriterEnsure(o, after, Larger(after, o.cursor)), r.res = "Ok"
        PROVE  CallEffect(o, new, after,
                 Ok([buf |-> Spliced(r.out.buf, at, end, bytes), len |-> r.out.len,
                     cursor |-> Larger(r.out.cursor, after)]))
    <3>1. r.out.buf = o.buf
      BY <2>4, <2>5 DEF EnsureEffect
    <3> QED BY <3>1, <2>1, <2>2, <2>3, <2>4, <2>5, CommitEffect
  <2>6. ASSUME NEW r \in WriterEnsure(o, after, Larger(after, o.cursor)), r.res # "Ok"
        PROVE  CallEffect(o, new, after, r)
    BY <2>4, <2>6, <1>2, Domains DEF CallEffect, EnsureEffect, Sound, Answers, Out
  <2>7. ExpandSpan(o, at, end, bytes, limit) =
          {IF r.res = "Ok"
           THEN Ok([buf |-> Spliced(r.out.buf, at, end, bytes), len |-> r.out.len,
                    cursor |-> Larger(r.out.cursor, after)])
           ELSE r : r \in WriterEnsure(o, after, Larger(after, o.cursor))}
    BY <1>4 DEF ExpandSpan, Committed
  <2> QED BY <1>1, <2>1, <2>5, <2>6, <2>7
<1> QED BY <1>3, <1>4

-----------------------------------------------------------------------------
(* The inductive invariant.  ChildrenNested relates neighbouring frames    *)
(* only; what a step of the innermost child needs is the relation between  *)
(* that child and every frame below it, so it is part of the invariant.    *)
FramesOrdered ==
  \A i, j \in 1..Len(frames) : i < j => frames[i].cursor <= frames[j].start

(* An array facade began at or before the point the writer has reached,    *)
(* and the facade's count is covered by the bytes emitted since then.      *)
OriginBehind ==
  /\ origin <= cursor
  /\ (array # Closed /\ frames = <<>>) => array <= cursor - origin

IInv ==
  /\ TypeOK
  /\ OriginBehind
  /\ HighWaterMarkCovers
  /\ ChildrenNested
  /\ FramesOrdered
  /\ EmittedIsWritten
  /\ CountCovered
  /\ SequentialTail

LEMMA SoundHere ==
  ASSUME IInv PROVE Sound(Here) /\ Here \in Out
BY DEF IInv, TypeOK, HighWaterMarkCovers, Sound, Here, Out

LEMMA HereCursor == Here.cursor = cursor /\ Here.len = len /\ Here.buf = buf
BY DEF Here

(* The frame sequences the actions build, read index by index.             *)
LEMMA FrameFacts ==
  ASSUME frames \in Seq(Frame)
  PROVE  /\ Len(frames) \in Nat
         /\ \A i \in 1..Len(frames) :
              /\ frames[i] \in Frame
              /\ frames[i].start \in Offset /\ frames[i].cursor \in Offset
              /\ frames[i].limit \in Offset \cup {NoLimit}
              /\ frames[i].count \in Nat
         /\ frames # <<>> => Depth \in 1..Len(frames)
         /\ frames = <<>> => Len(frames) = 0
<1>1. Len(frames) \in Nat /\ \A i \in 1..Len(frames) : frames[i] \in Frame
  OBVIOUS
<1>2. \A f \in Frame : /\ f.start \in Offset /\ f.cursor \in Offset
                       /\ f.limit \in Offset \cup {NoLimit} /\ f.count \in Nat
  BY DEF Frame
<1>3. (frames = <<>>) <=> (Len(frames) = 0)
  OBVIOUS
<1> QED BY <1>1, <1>2, <1>3 DEF Depth

LEMMA AdvancedFacts ==
  ASSUME frames \in Seq(Frame), frames # <<>>, NEW position \in Offset
  PROVE  LET fs == Advanced(position)
         IN  /\ fs \in Seq(Frame) /\ Len(fs) = Len(frames)
             /\ \A i \in 1..Len(frames) :
                  /\ fs[i].start = frames[i].start
                  /\ fs[i].limit = frames[i].limit
                  /\ fs[i].count = frames[i].count
                  /\ fs[i].cursor = IF i = Depth THEN position ELSE frames[i].cursor
<1> DEFINE Moved(f) == [f EXCEPT !.cursor = position]
<1>0. \A f \in Frame : /\ Moved(f) \in Frame
                       /\ Moved(f).start = f.start /\ Moved(f).limit = f.limit
                       /\ Moved(f).count = f.count
                       /\ Moved(f).cursor = position
  BY DEF Frame
<1>1. \A i \in 1..Len(frames) : frames[i] \in Frame /\ Moved(frames[i]) \in Frame
  BY <1>0
<1> HIDE DEF Moved
<1>2. Advanced(position) \in Seq(Frame) /\ Len(Advanced(position)) = Len(frames)
  <2>1. Advanced(position) = [i \in 1..Len(frames) |->
                                IF i = Depth THEN Moved(frames[i]) ELSE frames[i]]
    BY DEF Advanced, Depth, Moved
  <2> QED BY <1>1, <2>1
<1>3. \A i \in 1..Len(frames) :
        Advanced(position)[i] = IF i = Depth THEN Moved(frames[i]) ELSE frames[i]
  BY DEF Advanced, Depth, Moved
<1> QED BY <1>0, <1>1, <1>2, <1>3

LEMMA PoppedFacts ==
  ASSUME frames \in Seq(Frame), frames # <<>>
  PROVE  LET fs == Popped(frames)
         IN  /\ fs \in Seq(Frame) /\ Len(fs) = Len(frames) - 1
             /\ \A i \in 1..(Len(frames) - 1) : fs[i] = frames[i]
<1>1. Len(frames) - 1 \in Nat
  OBVIOUS
<1>2. Popped(frames) \in [1..(Len(frames) - 1) -> Frame]
  BY DEF Popped
<1> QED BY <1>1, <1>2 DEF Popped

-----------------------------------------------------------------------------
(* Steps that go through to the writer.                                    *)

(* Whatever a call answers, the output state it leaves is well-typed and   *)
(* its cursor is an honest high-water mark.                                *)
LEMMA SoundNext ==
  ASSUME NEW r, Become(r), r \in Answers, Sound(r.out)
  PROVE  /\ buf' \in [Addr -> Cell] /\ len' \in Offset /\ cursor' \in Offset
         /\ result' \in {"Ok"} \cup Errors
         /\ HighWaterMarkCovers'
BY DEF Become, Answers, Sound, Out, HighWaterMarkCovers

(* A step without children keeps the invariant if the output stays sound.  *)
LEMMA ChildlessPreserves ==
  ASSUME IInv, frames' = <<>>, HighWaterMarkCovers',
         buf' \in [Addr -> Cell] /\ len' \in Offset /\ cursor' \in Offset,
         result' \in {"Ok"} \cup Errors,
         array' \in Nat \cup {Closed} /\ origin' \in Offset,
         phase' \in {"open", "finished"} /\ abandoned' \in BOOLEAN,
         origin' <= cursor', array' # Closed => array' <= cursor' - origin',
         UNCHANGED <<adapter, bound>>
  PROVE  IInv'
<1>1. TypeOK'
  <2>1. <<>> \in Seq(Frame)
    OBVIOUS
  <2> QED BY <2>1 DEF IInv, TypeOK
<1>2. Len(frames') = 0
  OBVIOUS
<1> QED
  BY <1>1, <1>2
  DEF IInv, OriginBehind, ChildrenNested, FramesOrdered, EmittedIsWritten,
      CountCovered, AtArray, SequentialTail

LEMMA OnWriterPreserves ==
  ASSUME IInv, NEW answers, OnWriter(answers),
         \A r \in answers : r \in Answers /\ Sound(r.out) /\ cursor <= r.out.cursor
  PROVE  IInv'
<1>1. PICK r \in answers : Become(r)
  BY DEF OnWriter
<1>2. frames' = <<>> /\ UNCHANGED <<adapter, bound, abandoned, phase, array, origin>>
  BY DEF OnWriter, AtWriter, Same
<1>3. /\ buf' \in [Addr -> Cell] /\ len' \in Offset /\ cursor' \in Offset
      /\ result' \in {"Ok"} \cup Errors /\ HighWaterMarkCovers'
  BY <1>1, SoundNext
<1>4. /\ array' \in Nat \cup {Closed} /\ origin' \in Offset
      /\ phase' \in {"open", "finished"} /\ abandoned' \in BOOLEAN
  BY <1>2 DEF IInv, TypeOK
<1>5. array' = Closed /\ origin' <= cursor'
  BY <1>1, <1>2, <1>3, Domains DEF IInv, TypeOK, OriginBehind, OnWriter, AtWriter, Become
<1> QED BY <1>2, <1>3, <1>4, <1>5, ChildlessPreserves

(* A request for exposure leaves a sound output sound.                     *)
LEMMA EnsureSound ==
  ASSUME NEW o, Sound(o), NEW min, NEW r, EnsureEffect(o, min, r)
  PROVE  r \in Answers /\ Sound(r.out) /\ o.cursor <= r.out.cursor
<1>1. o.cursor \in Offset /\ o.len \in Offset /\ r.out.len \in Offset
      /\ r.out \in Out /\ r \in Answers
  BY DEF Sound, EnsureEffect, Answers, Out
<1> QED BY <1>1, Domains DEF EnsureEffect, Sound

(* The innermost child passes a call on to the writer and moves its own    *)
(* cursor to `position' when the call succeeds.                            *)
LEMMA ThroughPreserves ==
  ASSUME IInv, OnChild, NEW answers, NEW position, Through(answers, position),
         NEW new, NEW end,
         \A r \in answers : CallEffect(Here, new, end, r),
         \A r \in answers : r.res = "Ok" =>
           /\ position \in Offset /\ Top.cursor <= position
           /\ Within(position, Top.limit)
           /\ \A a \in Addr : a < Top.start => new[a] = buf[a]
           /\ \A a \in Addr : Top.start <= a /\ a < position => new[a] # Junk
           /\ (Top.limit = NoLimit /\ Top.cursor = cursor) =>
                 Larger(cursor, end) = position
  PROVE  IInv'
<1>1. PICK r \in answers :
        Become(r) /\ frames' = (IF r.res = "Ok" THEN Advanced(position) ELSE frames)
  BY DEF Through
<1>2. /\ frames # <<>> /\ frames \in Seq(Frame)
      /\ UNCHANGED <<adapter, bound, abandoned, phase, array, origin>>
  BY DEF OnChild, AtChild, Same, IInv, TypeOK
<1>3. /\ r \in Answers /\ Sound(r.out)
      /\ buf' \in [Addr -> Cell] /\ len' \in Offset /\ cursor' \in Offset
      /\ result' \in {"Ok"} \cup Errors /\ HighWaterMarkCovers'
  BY <1>1, SoundNext DEF CallEffect
<1>4. /\ Depth \in 1..Len(frames) /\ Depth = Len(frames) /\ Len(frames) \in Nat
      /\ Top = frames[Len(frames)]
      /\ \A i \in 1..Len(frames) :
           /\ frames[i] \in Frame
           /\ frames[i].start \in Offset /\ frames[i].cursor \in Offset
           /\ frames[i].limit \in Offset \cup {NoLimit}
           /\ frames[i].count \in Nat
  BY <1>2, FrameFacts DEF Depth, Top
<1>5. /\ len \in Offset /\ cursor \in Offset /\ len <= len' /\ cursor <= cursor'
      /\ origin \in Offset
  BY <1>1 DEF IInv, TypeOK, CallEffect, Here, Become
<1>8. OriginBehind'
  BY <1>1, <1>2, <1>3, <1>4, <1>5, AdvancedFacts, Domains DEF IInv, OriginBehind
<1>6. CASE r.res # "Ok"
  <2>1. frames' = frames /\ buf' = buf /\ cursor' = cursor
    BY <1>1, <1>6 DEF CallEffect, Here, Become
  <2>2. TypeOK'
    BY <1>2, <1>3, <2>1 DEF IInv, TypeOK
  <2>3. ChildrenNested'
    BY <1>2, <1>4, <1>5, <1>3, <2>1, Domains DEF IInv, ChildrenNested, Within
  <2> QED
    BY <1>2, <1>3, <1>8, <2>1, <2>2, <2>3
    DEF IInv, FramesOrdered, EmittedIsWritten, CountCovered, AtArray, SequentialTail
<1>7. CASE r.res = "Ok"
  <2>1. /\ frames' = Advanced(position) /\ buf' = new
        /\ cursor' = Larger(cursor, end)
    BY <1>1, <1>7 DEF CallEffect, Here, Become
  <2>2. /\ position \in Offset /\ Top.cursor <= position
        /\ Within(position, Top.limit)
        /\ \A a \in Addr : a < Top.start => new[a] = buf[a]
        /\ \A a \in Addr : Top.start <= a /\ a < position => new[a] # Junk
        /\ (Top.limit = NoLimit /\ Top.cursor = cursor) =>
              Larger(cursor, end) = position
    BY <1>1, <1>7
  <2>3. /\ frames' \in Seq(Frame) /\ Len(frames') = Len(frames)
        /\ \A i \in 1..Len(frames) :
             /\ frames'[i].start = frames[i].start
             /\ frames'[i].limit = frames[i].limit
             /\ frames'[i].count = frames[i].count
             /\ frames'[i].cursor = IF i = Len(frames) THEN position
                                    ELSE frames[i].cursor
    BY <1>2, <1>4, <2>1, <2>2, AdvancedFacts
  <2>4. TypeOK'
    BY <1>2, <1>3, <2>3 DEF IInv, TypeOK
  <2>5. FramesOrdered'
    BY <1>4, <2>3, Domains DEF IInv, FramesOrdered
  <2>6. ChildrenNested'
    <3>1. \A i \in 1..Len(frames) :
            /\ frames'[i].start <= frames'[i].cursor
            /\ Within(frames'[i].cursor, frames'[i].limit)
      BY <1>4, <2>2, <2>3, Domains, SMTT(30) DEF IInv, ChildrenNested, Within
    <3>2. \A i \in 1..Len(frames) :
            frames'[i].limit # NoLimit => frames'[i].limit <= len'
      <4>1. \A i \in 1..Len(frames) : frames[i].limit # NoLimit =>
              frames[i].limit \in Nat /\ frames[i].limit <= len
        BY <1>4, Domains DEF IInv, ChildrenNested
      <4>2. len \in Nat /\ len' \in Nat /\ len <= len'
        BY <1>3, <1>5, Domains
      <4> QED BY <4>1, <4>2, <2>3
    <3>3. \A i \in 1..Len(frames) :
            i > 1 => /\ frames'[i].start = frames'[i - 1].cursor
                     /\ frames'[i].limit = frames'[i - 1].limit
      <4>1. \A i \in 1..Len(frames) : i > 1 => i - 1 \in 1..Len(frames) /\ i - 1 # Len(frames)
        BY <1>4
      <4>2. \A i \in 1..Len(frames) :
              i > 1 => /\ frames[i].start = frames[i - 1].cursor
                       /\ frames[i].limit = frames[i - 1].limit
        BY DEF IInv, ChildrenNested
      <4> QED BY <4>1, <4>2, <2>3
    <3>4. (array' # Closed /\ frames' # <<>>) =>
            /\ frames'[1].limit = NoLimit
            /\ Len(frames') > 1 => origin' <= frames'[1].start
            /\ Len(frames') > 1
      BY <1>2, <1>4, <2>3 DEF IInv, ChildrenNested
    <3> QED BY <2>3, <3>1, <3>2, <3>3, <3>4 DEF ChildrenNested, Within
  <2>7. EmittedIsWritten'
    <3> SUFFICES ASSUME NEW i \in 1..Len(frames),
                        NEW a \in frames'[i].start..(frames'[i].cursor - 1)
                 PROVE  buf'[a] # Junk
      BY <2>3 DEF EmittedIsWritten
    <3>1. CASE i = Len(frames)
      <4>1. a \in Addr /\ Top.start <= a /\ a < position
        BY <3>1, <1>4, <2>2, <2>3, Domains DEF Addr
      <4> QED BY <4>1, <2>1, <2>2
    <3>2. CASE i # Len(frames)
      <4>1. /\ a \in frames[i].start..(frames[i].cursor - 1)
            /\ frames[i].cursor <= Top.start
        BY <3>2, <1>4, <2>3 DEF IInv, FramesOrdered
      <4>2. a \in Addr /\ a < Top.start
        BY <4>1, <3>2, <1>4, Domains DEF Addr
      <4>3. buf[a] # Junk
        BY <4>1 DEF IInv, EmittedIsWritten
      <4> QED BY <4>2, <4>3, <2>1, <2>2
    <3> QED BY <3>1, <3>2
  <2>8. SequentialTail'
    BY <1>2, <1>4, <2>1, <2>2, <2>3 DEF IInv, SequentialTail
  <2>9. CountCovered'
    <3>1. frames' # <<>>
      BY <1>2, <1>4, <2>3
    <3>2. \A i \in 1..Len(frames) : /\ frames[i].cursor <= frames'[i].cursor
                                    /\ frames[i].cursor \in Nat /\ frames'[i].cursor \in Nat
                                    /\ frames[i].start \in Nat /\ frames[i].count \in Nat
      BY <1>4, <2>2, <2>3, Domains
    <3>3. origin \in Nat /\ origin' = origin /\ array' = array
      BY <1>2, <1>5, Domains
    <3>4. ASSUME NEW i \in 1..Len(frames)
          PROVE  frames'[i].count <= frames'[i].cursor -
                   (IF i = 1 /\ array' # Closed THEN origin' ELSE frames'[i].start)
      <4>1. frames[i].count <= frames[i].cursor -
              (IF i = 1 /\ array # Closed THEN origin ELSE frames[i].start)
        BY DEF IInv, CountCovered
      <4>2. frames'[i].count = frames[i].count /\ frames'[i].start = frames[i].start
        BY <2>3
      <4> QED BY <3>2, <3>3, <4>1, <4>2
    <3> QED
      BY <2>3, <3>1, <3>4 DEF CountCovered, AtArray
  <2> QED BY <1>3, <1>8, <2>4, <2>5, <2>6, <2>7, <2>8, <2>9 DEF IInv
<1> QED BY <1>6, <1>7

-----------------------------------------------------------------------------
(* One lemma per group of actions.                                         *)

LEMMA AdapterType ==
  ASSUME IInv
  PROVE  /\ adapter \in {"fixed", "extend", "bounded", "grow_with"} /\ bound \in Offset
         /\ cursor \in Offset /\ len \in Offset /\ cursor <= len
         /\ \A a \in Addr : buf[a] # Junk => a < cursor
BY DEF IInv, TypeOK, HighWaterMarkCovers

LEMMA WriterOpsPreserve ==
  ASSUME IInv,
         \/ \E bytes \in Chunk : WriterWrite(bytes)
         \/ \E at \in Offset, bytes \in Chunk : WriterWriteAt(at, bytes)
         \/ \E at, n \in Offset : WriterFillAt(at, n)
         \/ \E min, suggested \in Offset : WriterReserve(min, suggested)
         \/ \E at \in Offset, bytes \in Chunk : WriterExpandIntegerAt(at, bytes)
  PROVE  IInv'
<1>1. ASSUME NEW bytes \in Chunk, NEW at \in Offset, OnWriter(WriteAt(Here, at, bytes))
      PROVE  IInv'
  <2>1. \A r \in WriteAt(Here, at, bytes) : r \in Answers /\ Sound(r.out)
                    /\ cursor <= r.out.cursor
    BY HereCursor, SoundHere, AdapterType, WriteAtEffect DEF CallEffect
  <2> QED BY <1>1, <2>1, OnWriterPreserves
<1>2. ASSUME NEW at \in Offset, NEW n \in Offset, OnWriter(FillAt(Here, at, n))
      PROVE  IInv'
  <2>1. \A r \in FillAt(Here, at, n) : r \in Answers /\ Sound(r.out)
                    /\ cursor <= r.out.cursor
    BY HereCursor, SoundHere, AdapterType, FillAtEffect, Domains DEF CallEffect
  <2> QED BY <1>2, <2>1, OnWriterPreserves
<1>3. ASSUME NEW min \in Offset, NEW suggested \in Offset,
             OnWriter(WriterEnsure(Here, min, suggested))
      PROVE  IInv'
  <2>1. \A r \in WriterEnsure(Here, min, suggested) : r \in Answers /\ Sound(r.out)
                    /\ cursor <= r.out.cursor
    BY HereCursor, SoundHere, AdapterType, EnsureContract, EnsureSound
  <2> QED BY <1>3, <2>1, OnWriterPreserves
<1>4. ASSUME NEW at \in Offset, NEW bytes \in Chunk,
             OnWriter(ExpandSpan(Here, at, cursor, bytes, NoLimit))
      PROVE  IInv'
  <2>1. \A r \in ExpandSpan(Here, at, cursor, bytes, NoLimit) : r \in Answers /\ Sound(r.out)
                    /\ cursor <= r.out.cursor
    BY HereCursor, SoundHere, AdapterType, ExpandSpanEffect DEF CallEffect
  <2> QED BY <1>4, <2>1, OnWriterPreserves
<1> QED
  BY <1>1, <1>2, <1>3, <1>4, AdapterType
  DEF WriterWrite, WriterWriteAt, WriterFillAt, WriterReserve, WriterExpandIntegerAt

(* One fresh frame over an untouched buffer.                               *)
LEMMA FirstFramePreserves ==
  ASSUME IInv, array = Closed, NEW position \in Offset, NEW limit \in Offset \cup {NoLimit},
         frames' = <<NewFrame(position, limit)>>,
         NEW r, Become(r), r \in Answers, Sound(r.out),
         UNCHANGED <<adapter, bound, abandoned, phase, array, origin>>,
         limit = NoLimit => position = cursor', cursor <= cursor',
         limit # NoLimit => position <= limit /\ limit <= len'
  PROVE  IInv'
<1>1. /\ buf' \in [Addr -> Cell] /\ len' \in Offset /\ cursor' \in Offset
      /\ result' \in {"Ok"} \cup Errors /\ HighWaterMarkCovers'
  BY SoundNext
<1>2. /\ NewFrame(position, limit) \in Frame
      /\ NewFrame(position, limit).start = position
      /\ NewFrame(position, limit).cursor = position
      /\ NewFrame(position, limit).limit = limit
      /\ NewFrame(position, limit).count = 0
  BY DEF NewFrame, Frame
<1>3. /\ frames' \in Seq(Frame) /\ Len(frames') = 1
      /\ \A i \in 1..1 : /\ frames'[i].start = position /\ frames'[i].cursor = position
                          /\ frames'[i].limit = limit /\ frames'[i].count = 0
  BY <1>2
<1>4. TypeOK'
  BY <1>1, <1>3 DEF IInv, TypeOK
<1>5. ChildrenNested'
  BY <1>1, <1>3, Domains DEF ChildrenNested, Within
<1>6. FramesOrdered' /\ EmittedIsWritten'
  BY <1>3, Domains DEF FramesOrdered, EmittedIsWritten
<1>7. SequentialTail'
  BY <1>3 DEF SequentialTail
<1>8. OriginBehind' /\ CountCovered'
  BY <1>1, <1>3, Domains DEF IInv, TypeOK, OriginBehind, CountCovered, AtArray
<1> QED BY <1>1, <1>4, <1>5, <1>6, <1>7, <1>8 DEF IInv

LEMMA ChildAtPreserves ==
  ASSUME IInv, NEW position \in Offset, ChildAt(position) PROVE IInv'
<1>1. /\ frames = <<>> /\ array = Closed
      /\ UNCHANGED <<adapter, bound, abandoned, phase, array, origin>>
  BY DEF ChildAt, AtWriter, Same
<1>2. Sound(Here) /\ cursor \in Offset
  BY SoundHere, AdapterType
<1>3. ASSUME NEW r, r \in Answers, Sound(r.out), cursor <= r.out.cursor, Become(r),
             UNCHANGED frames
      PROVE  IInv'
  <2>1. /\ buf' \in [Addr -> Cell] /\ len' \in Offset /\ cursor' \in Offset
        /\ result' \in {"Ok"} \cup Errors /\ HighWaterMarkCovers'
    BY <1>3, SoundNext
  <2>2. /\ array' \in Nat \cup {Closed} /\ origin' \in Offset
        /\ phase' \in {"open", "finished"} /\ abandoned' \in BOOLEAN
    BY <1>1 DEF IInv, TypeOK
  <2>3. array' = Closed /\ origin' <= cursor'
    BY <1>1, <1>3, <2>1, <2>2, Domains DEF IInv, TypeOK, OriginBehind, Become
  <2> QED BY <1>1, <1>3, <2>1, <2>2, <2>3, ChildlessPreserves
<1>4. CASE position < cursor
  <2>1. CallEffect(Here, buf, 0, Err(Here, "Backwards"))
    BY <1>2, ErrEffect DEF Errors
  <2>2. Become(Err(Here, "Backwards")) /\ UNCHANGED frames
    BY <1>4 DEF ChildAt
  <2> QED BY <1>3, <2>1, <2>2, HereCursor DEF CallEffect
<1>5. CASE ~(position < cursor)
  <2>1. PICK r \in WriterEnsure(Here, position, position) :
          IF r.res = "Ok"
          THEN /\ Become(Ok([r.out EXCEPT !.cursor = position]))
               /\ frames' = <<NewFrame(position, NoLimit)>>
          ELSE Become(r) /\ UNCHANGED frames
    BY <1>5 DEF ChildAt
  <2>2. /\ EnsureEffect(Here, position, r) /\ r \in Answers /\ Sound(r.out)
        /\ cursor <= r.out.cursor
    BY HereCursor, <1>2, AdapterType, EnsureContract, EnsureSound
  <2>3. CASE r.res # "Ok"
    BY <1>3, <2>1, <2>2, <2>3
  <2>4. CASE r.res = "Ok"
    <3> DEFINE q == Ok([r.out EXCEPT !.cursor = position])
    <3>1. r.out \in Out /\ r.out.cursor = cursor /\ position <= r.out.len /\ r.out.len \in Offset
      BY <2>2, <2>4 DEF EnsureEffect, Answers, Here, Out
    <3>2. q \in Answers /\ Sound(q.out) /\ q.out.cursor = position
      BY <1>2, <1>5, <2>2, <3>1, Domains DEF Ok, Answers, Sound, Out
    <3>3. Become(q) /\ frames' = <<NewFrame(position, NoLimit)>>
      BY <2>1, <2>4
    <3>4. cursor' = position
      BY <3>2, <3>3 DEF Become
    <3> HIDE DEF q
    <3>5. cursor <= cursor'
      BY <1>2, <1>5, <3>4, Domains
    <3> QED BY <1>1, <3>2, <3>3, <3>4, <3>5, FirstFramePreserves
  <2> QED BY <2>3, <2>4
<1> QED BY <1>4, <1>5

LEMMA FixedChildAtPreserves ==
  ASSUME IInv, NEW position \in Offset, NEW n \in Offset, FixedChildAt(position, n)
  PROVE  IInv'
<1> DEFINE end == position + n
<1>1. /\ frames = <<>> /\ array = Closed
      /\ UNCHANGED <<adapter, bound, abandoned, phase, array, origin>>
  BY DEF FixedChildAt, AtWriter, Same
<1>2. Sound(Here) /\ cursor \in Offset
  BY SoundHere, AdapterType
<1>3. ASSUME NEW r, r \in Answers, Sound(r.out), cursor <= r.out.cursor, Become(r),
             UNCHANGED frames
      PROVE  IInv'
  <2>1. /\ buf' \in [Addr -> Cell] /\ len' \in Offset /\ cursor' \in Offset
        /\ result' \in {"Ok"} \cup Errors /\ HighWaterMarkCovers'
    BY <1>3, SoundNext
  <2>2. /\ array' \in Nat \cup {Closed} /\ origin' \in Offset
        /\ phase' \in {"open", "finished"} /\ abandoned' \in BOOLEAN
    BY <1>1 DEF IInv, TypeOK
  <2>3. array' = Closed /\ origin' <= cursor'
    BY <1>1, <1>3, <2>1, <2>2, Domains DEF IInv, TypeOK, OriginBehind, Become
  <2> QED BY <1>1, <1>3, <2>1, <2>2, <2>3, ChildlessPreserves
<1>4. CASE end > UsizeMax
  <2>1. CallEffect(Here, buf, 0, Err(Here, "LengthOverflow"))
    BY <1>2, ErrEffect DEF Errors
  <2>2. Become(Err(Here, "LengthOverflow")) /\ UNCHANGED frames
    BY <1>4 DEF FixedChildAt
  <2> QED BY <1>3, <2>1, <2>2, HereCursor DEF CallEffect
<1>5. CASE ~(end > UsizeMax)
  <2>1. PICK r \in WriterEnsure(Here, end, Larger(end, cursor)) :
          /\ Become(r)
          /\ IF r.res = "Ok" THEN frames' = <<NewFrame(position, end)>> ELSE UNCHANGED frames
    BY <1>5 DEF FixedChildAt
  <2>2. end \in Offset /\ Larger(end, cursor) \in Offset /\ position <= end
    BY <1>2, <1>5, Domains DEF Offset, Larger
  <2>3. /\ EnsureEffect(Here, end, r) /\ r \in Answers /\ Sound(r.out)
        /\ cursor <= r.out.cursor
    BY HereCursor, <1>2, <2>2, AdapterType, EnsureContract, EnsureSound
  <2>4. CASE r.res # "Ok"
    BY <1>3, <2>1, <2>3, <2>4
  <2>5. CASE r.res = "Ok"
    <3>1. end <= len' /\ end # NoLimit /\ cursor <= cursor'
      BY <2>1, <2>2, <2>3, <2>5, OutputAssumption DEF EnsureEffect, Become, Offset
    <3> QED BY <1>1, <2>1, <2>2, <2>3, <2>5, <3>1, FirstFramePreserves
  <2> QED BY <2>4, <2>5
<1> QED BY <1>4, <1>5

LEMMA FinishPreserves ==
  ASSUME IInv, Finish \/ ArrayOpen \/ ArrayClose PROVE IInv'
<1>1. /\ frames' = <<>> /\ UNCHANGED <<adapter, bound, buf, len, cursor, abandoned>>
      /\ result' = "Ok"
  BY DEF Finish, ArrayOpen, ArrayClose, AtWriter, AtArray, outputVars
<1>2. /\ array' \in Nat \cup {Closed} /\ origin' \in Offset
      /\ phase' \in {"open", "finished"} /\ abandoned' \in BOOLEAN
  BY Domains DEF Finish, ArrayOpen, ArrayClose, IInv, TypeOK, outputVars
<1>3. /\ buf' \in [Addr -> Cell] /\ len' \in Offset /\ cursor' \in Offset
      /\ HighWaterMarkCovers'
  BY <1>1 DEF IInv, TypeOK, HighWaterMarkCovers
<1>4. origin' <= cursor' /\ (array' # Closed => array' <= cursor' - origin')
  BY <1>1, <1>3, Domains
  DEF Finish, ArrayOpen, ArrayClose, AtWriter, AtArray, outputVars, IInv, TypeOK, OriginBehind
<1> QED BY <1>1, <1>2, <1>3, <1>4, ChildlessPreserves

LEMMA CountShift ==
  \A x, y, z, k, w \in Nat :
    (z <= y /\ x <= y - z /\ y + k <= w) => (z <= w /\ x + k <= w - z)
OBVIOUS

LEMMA ArrayCopyPreserves ==
  ASSUME IInv, NEW n \in 0..MaxChunk, NEW bytes \in Chunk, ArrayCopy(n, bytes)
  PROVE  IInv'
<1>1. /\ frames = <<>> /\ frames' = <<>> /\ array \in Nat /\ array # Closed
      /\ UNCHANGED <<adapter, bound, abandoned, phase>>
      /\ n \in Nat /\ origin \in Offset
  BY OutputAssumption DEF ArrayCopy, AtArray, Same, IInv, TypeOK
<1>2. /\ phase' \in {"open", "finished"} /\ abandoned' \in BOOLEAN
  BY <1>1 DEF IInv, TypeOK
<1>3. /\ origin <= cursor /\ array <= cursor - origin
      /\ cursor \in Nat /\ origin \in Nat
  BY <1>1, AdapterType, Domains DEF IInv, OriginBehind
<1>4. ASSUME NEW r, r \in Answers, Sound(r.out), cursor <= r.out.cursor, Become(r),
             \/ array' = Closed /\ origin' = 0
             \/ array' = array + n /\ origin' = origin /\ cursor + n <= r.out.cursor
      PROVE  IInv'
  <2>1. /\ buf' \in [Addr -> Cell] /\ len' \in Offset /\ cursor' \in Offset
        /\ result' \in {"Ok"} \cup Errors /\ HighWaterMarkCovers'
        /\ cursor' = r.out.cursor
    BY <1>4, SoundNext DEF Become
  <2>2. /\ array' \in Nat \cup {Closed} /\ origin' \in Offset
        /\ origin' <= cursor' /\ (array' # Closed => array' <= cursor' - origin')
    <3>1. CASE array' = Closed /\ origin' = 0
      BY <2>1, <3>1, Domains
    <3>2. CASE array' = array + n /\ origin' = origin /\ cursor + n <= r.out.cursor
      <4>1. array' \in Nat /\ cursor' \in Nat /\ cursor + n <= cursor'
        BY <1>1, <2>1, <3>2, Domains
      <4>2. array + n <= cursor' - origin /\ origin <= cursor'
        BY <1>1, <1>3, <4>1, CountShift
      <4> QED BY <1>1, <3>2, <4>1, <4>2
    <3> QED BY <1>4, <3>1, <3>2
  <2> QED BY <1>1, <1>2, <2>1, <2>2, ChildlessPreserves
<1>5. CASE n > 0 /\ Len(bytes) = 0
  <2>1. CallEffect(Here, buf, 0, Err(Here, "NonProgressItem"))
    BY SoundHere, ErrEffect DEF Errors
  <2>2. Become(Err(Here, "NonProgressItem")) /\ array' = Closed /\ origin' = 0
    BY <1>5 DEF ArrayCopy
  <2> QED BY <1>4, <2>1, <2>2, HereCursor DEF CallEffect
<1>6. CASE ~(n > 0 /\ Len(bytes) = 0)
  <2>1. PICK r \in WriteAt(Here, cursor, bytes) :
          /\ Become(r)
          /\ IF r.res = "Ok"
             THEN array' = array + n /\ UNCHANGED origin
             ELSE array' = Closed /\ origin' = 0
    BY <1>6 DEF ArrayCopy
  <2>2. /\ CallEffect(Here, Stored(buf, cursor, bytes), cursor + Len(bytes), r)
        /\ Len(bytes) \in Nat
    BY SoundHere, HereCursor, AdapterType, WriteAtEffect
  <2>3. n <= Len(bytes)
    BY <1>1, <1>6, <2>2 DEF ArrayCopy
  <2>4. r.res = "Ok" => cursor + n <= r.out.cursor
    <3>1. r.res = "Ok" => r.out.cursor = Larger(cursor, cursor + Len(bytes))
      BY <2>2, HereCursor DEF CallEffect
    <3>2. cursor + n <= cursor + Len(bytes)
      BY <1>1, <1>3, <2>2, <2>3
    <3> QED BY <1>1, <1>3, <2>2, <3>1, <3>2 DEF Larger
  <2> QED BY <1>4, <2>1, <2>2, <2>4, HereCursor DEF CallEffect
<1> QED BY <1>5, <1>6

LEMMA ArrayItemPreserves ==
  ASSUME IInv, ArrayItem PROVE IInv'
<1>1. /\ frames = <<>> /\ array \in Nat /\ array # Closed /\ origin \in Offset
      /\ UNCHANGED <<adapter, bound, abandoned, phase>>
  BY DEF ArrayItem, AtArray, Same, IInv, TypeOK
<1>2. PICK r \in WriterEnsure(Here, cursor, cursor) :
        /\ Become(r)
        /\ IF r.res = "Ok"
           THEN /\ frames' = <<[NewFrame(cursor, NoLimit) EXCEPT !.count = array],
                               NewFrame(cursor, NoLimit)>>
                /\ UNCHANGED <<array, origin>>
           ELSE UNCHANGED frames /\ array' = Closed /\ origin' = 0
  BY DEF ArrayItem
<1>3. EnsureEffect(Here, cursor, r) /\ r \in Answers /\ Sound(r.out)
  BY SoundHere, AdapterType, EnsureContract, EnsureSound
<1>4. /\ buf' \in [Addr -> Cell] /\ len' \in Offset /\ cursor' \in Offset
      /\ result' \in {"Ok"} \cup Errors /\ HighWaterMarkCovers' /\ cursor' = cursor
  BY <1>2, <1>3, SoundNext DEF EnsureEffect, Become, Here
<1>5. CASE r.res # "Ok"
  <2>1. frames' = <<>> /\ array' \in Nat \cup {Closed} /\ origin' \in Offset
    BY <1>1, <1>2, <1>5, Domains
  <2>2. phase' \in {"open", "finished"} /\ abandoned' \in BOOLEAN
    BY <1>1 DEF IInv, TypeOK
  <2>3. origin' <= cursor' /\ array' = Closed
    BY <1>2, <1>4, <1>5, Domains
  <2> QED BY <1>1, <1>4, <2>1, <2>2, <2>3, ChildlessPreserves
<1>6. CASE r.res = "Ok"
  <2> DEFINE f == [NewFrame(cursor, NoLimit) EXCEPT !.count = array]
             g == NewFrame(cursor, NoLimit)
  <2>1. /\ f \in Frame /\ f.start = cursor /\ f.cursor = cursor /\ f.limit = NoLimit
        /\ f.count = array /\ g.count = 0
        /\ g \in Frame /\ g.start = cursor /\ g.cursor = cursor /\ g.limit = NoLimit
    BY <1>1, AdapterType DEF NewFrame, Frame
  <2>2. frames' = <<f, g>> /\ array' = array /\ origin' = origin
    BY <1>2, <1>6
  <2> HIDE DEF f, g
  <2>3. /\ frames' \in Seq(Frame) /\ Len(frames') = 2
        /\ \A i \in 1..2 : /\ frames'[i].start = cursor /\ frames'[i].cursor = cursor
                            /\ frames'[i].limit = NoLimit
                            /\ frames'[i].count = IF i = 1 THEN array ELSE 0
    BY <2>1, <2>2
  <2>4. TypeOK'
    BY <1>1, <1>4, <2>2, <2>3 DEF IInv, TypeOK
  <2>5. origin <= cursor /\ array <= cursor - origin
    BY <1>1 DEF IInv, OriginBehind
  <2>6. ChildrenNested'
    BY <1>1, <2>2, <2>3, <2>5, AdapterType, Domains DEF ChildrenNested, Within
  <2>7. FramesOrdered' /\ EmittedIsWritten' /\ SequentialTail'
    BY <2>3, <1>4, AdapterType, Domains DEF FramesOrdered, EmittedIsWritten, SequentialTail
  <2>8. OriginBehind' /\ CountCovered'
    BY <1>1, <1>4, <2>2, <2>3, <2>5, AdapterType, Domains
    DEF OriginBehind, CountCovered, AtArray
  <2> QED BY <1>4, <2>4, <2>6, <2>7, <2>8 DEF IInv
<1> QED BY <1>5, <1>6

-----------------------------------------------------------------------------
(* Steps of the innermost child.                                           *)

LEMMA TopFacts ==
  ASSUME IInv, AtChild
  PROVE  /\ frames # <<>> /\ frames \in Seq(Frame)
         /\ Len(frames) \in Nat /\ Len(frames) >= 1
         /\ Depth = Len(frames) /\ Top = frames[Len(frames)]
         /\ Top.start \in Offset /\ Top.cursor \in Offset
         /\ Top.limit \in Offset \cup {NoLimit}
         /\ Top.start <= Top.cursor /\ Within(Top.cursor, Top.limit)
         /\ \A a \in Addr : Top.start <= a /\ a < Top.cursor => buf[a] # Junk
<1>1. /\ frames # <<>> /\ frames \in Seq(Frame)
      /\ Len(frames) \in Nat /\ Len(frames) \in 1..Len(frames)
      /\ Depth = Len(frames) /\ Top = frames[Len(frames)]
      /\ Top.start \in Offset /\ Top.cursor \in Offset
      /\ Top.limit \in Offset \cup {NoLimit}
  BY FrameFacts DEF IInv, TypeOK, AtChild, Depth, Top
<1>2. Top.start <= Top.cursor /\ Within(Top.cursor, Top.limit)
  BY <1>1 DEF IInv, ChildrenNested, Within
<1>3. \A a \in Top.start..(Top.cursor - 1) : buf[a] # Junk
  BY <1>1 DEF IInv, EmittedIsWritten
<1> QED BY <1>1, <1>2, <1>3, Domains

(* An error answered by the child itself changes nothing.                  *)
LEMMA ChildErrorPreserves ==
  ASSUME IInv, OnChild, NEW e \in Errors, ChildError(e)
  PROVE  IInv'
<1>1. CallEffect(Here, buf, 0, Err(Here, e)) /\ Err(Here, e).res # "Ok"
  <2>1. Err(Here, e).res = e /\ e # "Ok"
    BY DEF Err, Errors
  <2> QED BY <2>1, SoundHere, ErrEffect
<1>2. Through({Err(Here, e)}, 0)
  <2>1. Become(Err(Here, e)) /\ frames' = frames
    BY DEF ChildError
  <2> QED BY <1>1, <2>1 DEF Through
<1> HIDE DEF Err
<1> QED BY <1>1, <1>2, ThroughPreserves

LEMMA ChildWritePreserves ==
  ASSUME IInv, NEW bytes \in Chunk, ChildWrite(bytes) PROVE IInv'
<1> DEFINE end == Top.cursor + Len(bytes)
<1>1. OnChild /\ AtChild
  BY DEF ChildWrite, OnChild
<1>2. CASE end > UsizeMax \/ ~Within(end, Top.limit)
  BY <1>1, <1>2, ChildErrorPreserves DEF ChildWrite, Errors
<1>3. CASE ~(end > UsizeMax) /\ Within(end, Top.limit)
  <2> DEFINE new == Stored(buf, Top.cursor, bytes)
             answers == WriteAt(Here, Top.cursor, bytes)
  <2>1. /\ Len(bytes) \in Nat
        /\ \A r \in answers : CallEffect(Here, new, end, r)
    BY <1>1, SoundHere, HereCursor, AdapterType, TopFacts, WriteAtEffect
  <2>2. Through(answers, end)
    BY <1>3 DEF ChildWrite
  <2>3. end \in Offset /\ Top.cursor <= end
    BY <1>1, <1>3, <2>1, TopFacts, Domains DEF Offset
  <2>4. \A i \in 1..Len(bytes) : bytes[i] # Junk
    BY OutputAssumption DEF Chunk
  <2>5. \A a \in Addr : a < Top.start => new[a] = buf[a]
    BY <1>1, TopFacts, Domains DEF Stored
  <2>6. ASSUME NEW a \in Addr, Top.start <= a, a < end PROVE new[a] # Junk
    <3>1. CASE a < Top.cursor
      BY <1>1, <2>6, <3>1, TopFacts, Domains DEF Stored
    <3>2. CASE ~(a < Top.cursor)
      <4>1. a - Top.cursor + 1 \in 1..Len(bytes)
        BY <1>1, <2>1, <2>6, <3>2, TopFacts, Domains
      <4> QED BY <4>1, <2>4, <2>6, <3>2, <1>1, <2>1, TopFacts, Domains DEF Stored
    <3> QED BY <3>1, <3>2
  <2>7. Top.cursor = cursor => Larger(cursor, end) = end
    BY <1>1, <2>3, TopFacts, Domains DEF Larger
  <2> HIDE DEF new, answers, end
  <2> QED BY <1>1, <1>3, <2>1, <2>2, <2>3, <2>5, <2>6, <2>7, ThroughPreserves
<1> QED BY <1>2, <1>3

LEMMA ChildFillToPreserves ==
  ASSUME IInv, NEW position \in Offset, ChildFillTo(position) PROVE IInv'
<1>1. OnChild /\ AtChild
  BY DEF ChildFillTo, OnChild
<1>2. CASE position < Top.cursor \/ ~Within(position, Top.limit)
  BY <1>1, <1>2, ChildErrorPreserves DEF ChildFillTo, Errors
<1>3. CASE ~(position < Top.cursor) /\ Within(position, Top.limit)
  <2> DEFINE new == Filled(buf, Top.cursor, position)
             answers == FillAt(Here, Top.cursor, position - Top.cursor)
  <2>1. /\ position - Top.cursor \in Nat /\ Top.cursor <= position
        /\ Top.cursor + (position - Top.cursor) = position
    BY <1>1, <1>3, TopFacts, Domains
  <2>2. \A r \in answers : CallEffect(Here, new, position, r)
    BY <1>1, <2>1, SoundHere, HereCursor, AdapterType, TopFacts, FillAtEffect
  <2>3. Through(answers, position)
    BY <1>3 DEF ChildFillTo
  <2>4. \A a \in Addr : a < Top.start => new[a] = buf[a]
    BY <1>1, TopFacts, Domains DEF Filled
  <2>5. \A a \in Addr : Top.start <= a /\ a < position => new[a] # Junk
    BY <1>1, TopFacts, Domains, OutputAssumption DEF Filled
  <2>6. Top.cursor = cursor => Larger(cursor, position) = position
    BY <1>1, <2>1, TopFacts, Domains DEF Larger
  <2> HIDE DEF new, answers
  <2> QED BY <1>1, <1>3, <2>1, <2>2, <2>3, <2>4, <2>5, <2>6, ThroughPreserves
<1> QED BY <1>2, <1>3

LEMMA ChildPatchAtPreserves ==
  ASSUME IInv, NEW at \in Offset, NEW bytes \in Chunk, ChildPatchAt(at, bytes) PROVE IInv'
<1> DEFINE end == at + Len(bytes)
<1>1. OnChild /\ AtChild
  BY DEF ChildPatchAt, OnChild
<1>2. CASE end > UsizeMax \/ at < Top.start \/ end > Top.cursor
  BY <1>1, <1>2, ChildErrorPreserves DEF ChildPatchAt, Errors
<1>3. CASE ~(end > UsizeMax \/ at < Top.start \/ end > Top.cursor)
  <2> DEFINE new == Stored(buf, at, bytes)
             answers == WriteAt(Here, at, bytes)
  <2>1. /\ Len(bytes) \in Nat
        /\ \A r \in answers : CallEffect(Here, new, end, r)
    BY <1>1, SoundHere, HereCursor, AdapterType, WriteAtEffect
  <2>2. Through(answers, Top.cursor)
    BY <1>3 DEF ChildPatchAt
  <2>3. Top.start <= at /\ end <= Top.cursor /\ end \in Nat
    BY <1>1, <1>3, <2>1, TopFacts, Domains
  <2>4. \A i \in 1..Len(bytes) : bytes[i] # Junk
    BY OutputAssumption DEF Chunk
  <2>5. \A a \in Addr : a < Top.start => new[a] = buf[a]
    BY <1>1, <2>3, TopFacts, Domains DEF Stored
  <2>6. ASSUME NEW a \in Addr, Top.start <= a, a < Top.cursor PROVE new[a] # Junk
    <3>1. CASE ~(at <= a /\ a < end)
      BY <1>1, <2>6, <3>1, TopFacts, Domains DEF Stored
    <3>2. CASE at <= a /\ a < end
      <4>1. a - at + 1 \in 1..Len(bytes)
        BY <2>1, <3>2, Domains
      <4> QED BY <4>1, <2>4, <3>2 DEF Stored
    <3> QED BY <3>1, <3>2
  <2>7. Top.cursor = cursor => Larger(cursor, end) = Top.cursor
    BY <1>1, <2>3, TopFacts, Domains DEF Larger
  <2>8. Top.cursor \in Offset /\ Top.cursor <= Top.cursor /\ Within(Top.cursor, Top.limit)
    BY <1>1, TopFacts, Domains
  <2> HIDE DEF new, answers, end
  <2> QED BY <1>1, <2>1, <2>2, <2>5, <2>6, <2>7, <2>8, ThroughPreserves
<1> QED BY <1>2, <1>3

LEMMA ChildExpandPreserves ==
  ASSUME IInv, NEW at \in Offset, NEW bytes \in Chunk, ChildExpandIntegerAt(at, bytes)
  PROVE  IInv'
<1> DEFINE n == Len(bytes)
           after == Top.cursor + n - 1
<1>1. OnChild /\ AtChild
  BY DEF ChildExpandIntegerAt, OnChild
<1>2. CASE at < Top.start
  BY <1>1, <1>2, ChildErrorPreserves DEF ChildExpandIntegerAt, Errors
<1>3. CASE ~(at < Top.start)
  <2> DEFINE new == Spliced(buf, at, Top.cursor, bytes)
             answers == ExpandSpan(Here, at, Top.cursor, bytes, Top.limit)
  <2>1. /\ n \in Nat
        /\ \A r \in answers :
             /\ CallEffect(Here, new, after, r)
             /\ r.res = "Ok" => /\ after \in Offset /\ at < Top.cursor
                                /\ Top.cursor <= cursor
                                /\ n >= 1 /\ Within(after, Top.limit)
    BY <1>1, SoundHere, HereCursor, AdapterType, TopFacts, ExpandSpanEffect
  <2>2. Through(answers, after)
    BY <1>3 DEF ChildExpandIntegerAt
  <2>3. Top.start <= at
    BY <1>1, <1>3, TopFacts, Domains
  <2>4. \A i \in 1..n : bytes[i] # Junk
    BY OutputAssumption DEF Chunk
  <2>5. \A a \in Addr : a < Top.start => new[a] = buf[a]
    BY <1>1, <2>1, <2>3, TopFacts, Domains DEF Spliced
  <2>6. ASSUME after \in Offset, at < Top.cursor, n >= 1,
               NEW a \in Addr, Top.start <= a, a < after
        PROVE  new[a] # Junk
    <3>1. CASE at <= a /\ a < at + n
      <4>1. a - at + 1 \in 1..n
        BY <2>1, <3>1, Domains
      <4> QED BY <4>1, <2>4, <3>1 DEF Spliced
    <3>2. CASE at + n <= a
      <4>1. /\ a - (n - 1) \in Addr /\ Top.start <= a - (n - 1)
            /\ a - (n - 1) < Top.cursor
        BY <1>1, <2>1, <2>3, <2>6, <3>2, TopFacts, Domains, SMTT(30) DEF Addr
      <4>2. new[a] = buf[a - (n - 1)]
        BY <2>1, <2>6, <3>2, Domains DEF Spliced
      <4> QED BY <1>1, <4>1, <4>2, TopFacts
    <3>3. CASE a < at
      <4>1. new[a] = buf[a]
        BY <2>1, <3>3, Domains DEF Spliced
      <4>2. a < Top.cursor
        BY <1>1, <2>6, <3>3, TopFacts, Domains
      <4> QED BY <1>1, <2>6, <4>1, <4>2, TopFacts
    <3> QED BY <2>1, <3>1, <3>2, <3>3, Domains
  <2>7. n >= 1 => /\ Top.cursor <= after
                  /\ Top.cursor = cursor => Larger(cursor, after) = after
    BY <1>1, <2>1, TopFacts, Domains DEF Larger
  <2> HIDE DEF new, answers, after, n
  <2> QED BY <1>1, <2>1, <2>2, <2>5, <2>6, <2>7, ThroughPreserves
<1> QED BY <1>2, <1>3

-----------------------------------------------------------------------------
(* Opening and closing children over an untouched buffer.                  *)

LEMMA BeginItemPreserves ==
  ASSUME IInv, BeginItem PROVE IInv'
<1> DEFINE g == NewFrame(Top.cursor, Top.limit)
<1>1. /\ OnChild /\ AtChild
      /\ frames' = Append(frames, g) /\ result' = "Ok"
      /\ UNCHANGED <<adapter, bound, buf, len, cursor, array, origin, abandoned, phase>>
  BY DEF BeginItem, OnChild, Same
<1>2. /\ g \in Frame /\ g.start = Top.cursor /\ g.cursor = Top.cursor
      /\ g.limit = Top.limit /\ g.count = 0
  BY <1>1, TopFacts DEF NewFrame, Frame
<1> HIDE DEF g
<1>3. /\ frames' \in Seq(Frame) /\ Len(frames') = Len(frames) + 1
      /\ Len(frames) \in Nat /\ Len(frames) >= 1
      /\ \A i \in 1..Len(frames) : frames'[i] = frames[i]
      /\ frames'[Len(frames) + 1] = g
      /\ \A i \in 1..Len(frames') : i \in 1..Len(frames) \/ i = Len(frames) + 1
  BY <1>1, <1>2, TopFacts
<1>4. \A i \in 1..Len(frames) :
        /\ frames[i].start \in Nat /\ frames[i].cursor \in Nat
        /\ frames[i].count \in Nat
  BY <1>1, FrameFacts, TopFacts, Domains
<1>5. /\ Top = frames[Len(frames)] /\ Top.start <= Top.cursor
      /\ Top.start \in Nat /\ Top.cursor \in Nat /\ Within(Top.cursor, Top.limit)
  BY <1>1, TopFacts, Domains
<1>6. TypeOK' /\ HighWaterMarkCovers'
  BY <1>1, <1>3 DEF IInv, TypeOK, HighWaterMarkCovers
<1>7. OriginBehind'
  BY <1>1, <1>3 DEF IInv, OriginBehind
<1>8. FramesOrdered'
  <2> SUFFICES ASSUME NEW i \in 1..Len(frames'), NEW j \in 1..Len(frames'), i < j
               PROVE  frames'[i].cursor <= frames'[j].start
    BY DEF FramesOrdered
  <2>1. CASE j \in 1..Len(frames)
    BY <1>3, <2>1 DEF IInv, FramesOrdered
  <2>2. CASE j = Len(frames) + 1 /\ i = Len(frames)
    BY <1>2, <1>3, <1>5, <2>2
  <2>3. CASE j = Len(frames) + 1 /\ i # Len(frames)
    <3>1. i \in 1..Len(frames) /\ i < Len(frames) /\ Len(frames) \in 1..Len(frames)
      BY <1>3, <2>3
    <3>2. frames[i].cursor <= Top.start
      BY <3>1, <1>5 DEF IInv, FramesOrdered
    <3> QED BY <1>2, <1>3, <1>4, <1>5, <2>3, <3>1, <3>2
  <2> QED BY <1>3, <2>1, <2>2, <2>3
<1>9. ChildrenNested'
  <2>1. ASSUME NEW i \in 1..Len(frames')
        PROVE  /\ frames'[i].start <= frames'[i].cursor
               /\ Within(frames'[i].cursor, frames'[i].limit)
               /\ frames'[i].limit # NoLimit => frames'[i].limit <= len'
               /\ i > 1 => /\ frames'[i].start = frames'[i - 1].cursor
                           /\ frames'[i].limit = frames'[i - 1].limit
    <3>1. CASE i \in 1..Len(frames)
      <4>1. i > 1 => i - 1 \in 1..Len(frames)
        BY <1>3, <3>1
      <4> QED BY <1>1, <1>3, <3>1, <4>1 DEF IInv, ChildrenNested, Within
    <3>2. CASE i = Len(frames) + 1
      <4>1. Top.limit # NoLimit => Top.limit <= len
        BY <1>3, <1>5 DEF IInv, ChildrenNested
      <4>2. frames'[i - 1] = Top
        BY <1>3, <1>5, <3>2
      <4> QED BY <1>1, <1>2, <1>3, <1>5, <3>2, <4>1, <4>2 DEF Within
    <3> QED BY <1>3, <3>1, <3>2
  <2>2. (array' # Closed /\ frames' # <<>>) =>
          /\ frames'[1].limit = NoLimit
          /\ Len(frames') > 1 => origin' <= frames'[1].start
          /\ Len(frames') > 1
    BY <1>1, <1>3, TopFacts DEF IInv, ChildrenNested
  <2> QED BY <2>1, <2>2 DEF ChildrenNested, Within
<1>10. EmittedIsWritten'
  BY <1>1, <1>2, <1>3, <1>5 DEF IInv, EmittedIsWritten
<1>11. CountCovered'
  <2>1. ASSUME NEW i \in 1..Len(frames')
        PROVE  frames'[i].count <= frames'[i].cursor -
                 (IF i = 1 /\ array' # Closed THEN origin' ELSE frames'[i].start)
    <3>1. CASE i \in 1..Len(frames)
      BY <1>1, <1>3, <3>1 DEF IInv, CountCovered
    <3>2. CASE i = Len(frames) + 1
      BY <1>2, <1>3, <1>5, <3>2
    <3> QED BY <1>3, <3>1, <3>2
  <2>2. frames' # <<>>
    BY <1>3
  <2> QED BY <2>1, <2>2 DEF CountCovered, AtArray
<1>12. SequentialTail'
  BY <1>1, <1>2, <1>3, <1>5, TopFacts DEF IInv, SequentialTail
<1> QED BY <1>6, <1>7, <1>8, <1>9, <1>10, <1>11, <1>12 DEF IInv

LEMMA ChildFinishPreserves ==
  ASSUME IInv, ChildFinish PROVE IInv'
<1>1. /\ OnChild /\ AtChild /\ frames' = <<>> /\ Len(frames) = 1
      /\ UNCHANGED <<adapter, bound, buf, len, cursor, array, origin, abandoned, phase>>
      /\ result' \in {"Ok"} \cup Errors
  BY DEF ChildFinish, OnChild, Same, Depth, Errors
<1>2. array = Closed
  BY <1>1, TopFacts DEF IInv, ChildrenNested
<1>3. HighWaterMarkCovers'
  BY <1>1 DEF IInv, HighWaterMarkCovers
<1> QED
  BY <1>1, <1>2, <1>3, ChildlessPreserves DEF IInv, TypeOK, OriginBehind

(* An item that returns leaves its parent with the item's end; an item     *)
(* that failed leaves its parent where it was.                             *)
LEMMA ItemPopPreserves ==
  ASSUME IInv, AtChild, Len(frames) > 1,
         NEW fs \in Seq(Frame), frames' = fs, Len(fs) = Len(frames) - 1,
         \A i \in 1..(Len(frames) - 1) :
           /\ fs[i].start = frames[i].start /\ fs[i].limit = frames[i].limit
           /\ i # Len(frames) - 1 => /\ fs[i].cursor = frames[i].cursor
                                     /\ fs[i].count = frames[i].count,
         \/ /\ fs[Len(frames) - 1].cursor = Top.cursor
            /\ abandoned' = abandoned
            /\ \/ fs[Len(frames) - 1].count = frames[Len(frames) - 1].count
               \/ /\ fs[Len(frames) - 1].count = frames[Len(frames) - 1].count + 1
                  /\ Top.cursor # frames[Len(frames) - 1].cursor
         \/ /\ fs[Len(frames) - 1].cursor = frames[Len(frames) - 1].cursor
            /\ abandoned' = TRUE
            /\ fs[Len(frames) - 1].count = frames[Len(frames) - 1].count,
         array = Closed \/ Len(frames) > 2,
         result' \in {"Ok"} \cup Errors,
         UNCHANGED <<adapter, bound, buf, len, cursor, array, origin, phase>>
  PROVE  IInv'
<1> DEFINE m == Len(frames) - 1
<1>1. /\ m \in Nat /\ m >= 1 /\ Len(frames) = m + 1 /\ Len(fs) = m
      /\ m \in 1..Len(frames) /\ m \in 1..m
      /\ \A i \in 1..m : i \in 1..Len(frames) /\ fs[i] \in Frame
  BY TopFacts
<1>2. \A i \in 1..Len(frames) :
        /\ frames[i].start \in Nat /\ frames[i].cursor \in Nat
        /\ frames[i].count \in Nat
  BY FrameFacts, TopFacts, Domains
<1>3. /\ Top = frames[m + 1] /\ Top.start \in Nat /\ Top.cursor \in Nat
      /\ Top.start <= Top.cursor /\ Within(Top.cursor, Top.limit)
      /\ Top.start = frames[m].cursor /\ Top.limit = frames[m].limit
  <2>1. m + 1 \in 1..Len(frames) /\ m + 1 > 1 /\ (m + 1) - 1 = m
    BY <1>1
  <2>2. frames[m + 1].start = frames[m].cursor /\ frames[m + 1].limit = frames[m].limit
    BY <2>1 DEF IInv, ChildrenNested
  <2> QED BY <1>1, <2>2, TopFacts, Domains
<1> DEFINE kept == fs[m].cursor
<1>4. /\ kept \in {frames[m].cursor, Top.cursor} /\ kept \in Nat
      /\ frames[m].cursor <= kept
      /\ \/ fs[m].count = frames[m].count
         \/ /\ fs[m].count = frames[m].count + 1
            /\ frames[m].cursor < kept
  BY <1>1, <1>2, <1>3
<1>5. \A i \in 1..m : i # m => fs[i].cursor = frames[i].cursor /\ fs[i].count = frames[i].count
  BY <1>1
<1>6. \A i \in 1..m : fs[i].start = frames[i].start /\ fs[i].limit = frames[i].limit
  BY <1>1
<1>7. \/ abandoned' = TRUE
      \/ abandoned' = abandoned /\ kept = Top.cursor
  OBVIOUS
<1> HIDE DEF m
<1>8. TypeOK' /\ HighWaterMarkCovers'
  BY <1>7 DEF IInv, TypeOK, HighWaterMarkCovers
<1>9. fs # <<>> /\ OriginBehind'
  BY <1>1 DEF IInv, OriginBehind
<1>10. FramesOrdered'
  <2>1. ASSUME NEW i \in 1..m, NEW j \in 1..m, i < j PROVE fs[i].cursor <= fs[j].start
    <3>1. i # m /\ i \in 1..Len(frames) /\ j \in 1..Len(frames)
      BY <1>1, <2>1
    <3> QED BY <1>5, <1>6, <2>1, <3>1 DEF IInv, FramesOrdered
  <2> QED BY <1>1, <2>1 DEF FramesOrdered
<1>11. ChildrenNested'
  <2>1. ASSUME NEW i \in 1..m
        PROVE  /\ fs[i].start <= fs[i].cursor /\ Within(fs[i].cursor, fs[i].limit)
               /\ fs[i].limit # NoLimit => fs[i].limit <= len
               /\ i > 1 => /\ fs[i].start = fs[i - 1].cursor
                           /\ fs[i].limit = fs[i - 1].limit
    <3>1. i \in 1..Len(frames) /\ (i > 1 => i - 1 \in 1..m /\ i - 1 # m)
      BY <1>1, <2>1
    <3>2. /\ frames[i].start <= frames[i].cursor /\ Within(frames[i].cursor, frames[i].limit)
          /\ frames[i].limit # NoLimit => frames[i].limit <= len
          /\ i > 1 => /\ frames[i].start = frames[i - 1].cursor
                      /\ frames[i].limit = frames[i - 1].limit
      BY <3>1 DEF IInv, ChildrenNested
    <3>3. CASE i # m
      BY <1>5, <1>6, <2>1, <3>1, <3>2, <3>3
    <3>4. CASE i = m
      <4>1. Within(kept, frames[m].limit)
        BY <1>3, <1>4, <3>2, <3>4
      <4>2. frames[m].start <= kept
        BY <1>1, <1>2, <1>4, <3>2, <3>4
      <4> QED BY <1>5, <1>6, <3>1, <3>2, <3>4, <4>1, <4>2, <2>1
    <3> QED BY <3>3, <3>4
  <2>2. array # Closed => /\ fs[1].limit = NoLimit /\ m > 1 /\ origin <= fs[1].start
    BY <1>1, <1>6, TopFacts DEF IInv, ChildrenNested
  <2> QED BY <1>1, <2>1, <2>2 DEF ChildrenNested, Within
<1>12. EmittedIsWritten'
  <2>1. ASSUME NEW i \in 1..m, NEW a \in fs[i].start..(fs[i].cursor - 1)
        PROVE  buf[a] # Junk
    <3>1. i \in 1..Len(frames) /\ m + 1 \in 1..Len(frames)
      BY <1>1
    <3>2. CASE i # m \/ a < frames[m].cursor
      <4>1. a \in frames[i].start..(frames[i].cursor - 1)
        BY <1>2, <1>5, <1>6, <2>1, <3>1, <3>2, SMTT(30)
      <4> QED BY <3>1, <4>1 DEF IInv, EmittedIsWritten
    <3>3. CASE i = m /\ ~(a < frames[m].cursor)
      <4>1. a \in frames[m + 1].start..(frames[m + 1].cursor - 1)
        BY <1>1, <1>2, <1>3, <1>4, <1>6, <2>1, <3>3
      <4> QED BY <3>1, <4>1 DEF IInv, EmittedIsWritten
    <3> QED BY <3>2, <3>3
  <2> QED BY <1>1, <2>1 DEF EmittedIsWritten
<1>13. CountCovered'
  <2>1. ASSUME NEW i \in 1..m
        PROVE  fs[i].count <= fs[i].cursor -
                 (IF i = 1 /\ array # Closed THEN origin ELSE fs[i].start)
    <3>1. i \in 1..Len(frames) /\ origin \in Nat
      BY <1>1, Domains DEF IInv, TypeOK
    <3>2. frames[i].count <= frames[i].cursor -
            (IF i = 1 /\ array # Closed THEN origin ELSE frames[i].start)
      BY <3>1 DEF IInv, CountCovered
    <3>3. CASE i # m
      BY <1>5, <1>6, <2>1, <3>2, <3>3
    <3>4. CASE i = m
      <4>1. fs[m].count - frames[m].count <= kept - frames[m].cursor
        BY <1>2, <1>1, <1>4
      <4>2. /\ frames[m].count \in Nat /\ fs[m].count \in Nat
            /\ frames[m].cursor \in Nat /\ kept \in Nat
        BY <1>1, <1>2, <1>4
      <4>3. ASSUME NEW b \in Nat, frames[m].count <= frames[m].cursor - b
            PROVE  fs[m].count <= fs[m].cursor - b
        <5>1. PICK x \in Nat : x = frames[m].count BY <4>2
        <5>2. PICK y \in Nat : y = fs[m].count BY <4>2
        <5>3. PICK u \in Nat : u = frames[m].cursor BY <4>2
        <5>4. PICK v \in Nat : v = fs[m].cursor BY <4>2
        <5>5. y - x <= v - u
          BY <4>1, <5>1, <5>2, <5>3, <5>4
        <5>6. x <= u - b
          BY <4>3, <5>1, <5>3
        <5>7. y <= v - b
          BY <5>5, <5>6
        <5> QED BY <5>2, <5>4, <5>7
      <4>4. fs[m].start = frames[m].start /\ frames[m].start \in Nat
        BY <1>1, <1>2, <1>6
      <4>5. CASE m = 1 /\ array # Closed
        BY <3>1, <3>2, <3>4, <4>3, <4>5
      <4>6. CASE ~(m = 1 /\ array # Closed)
        BY <3>2, <3>4, <4>3, <4>4, <4>6
      <4> QED BY <4>5, <4>6
    <3> QED BY <3>3, <3>4
  <2> QED BY <1>1, <1>9, <2>1 DEF CountCovered, AtArray
<1>14. SequentialTail'
  <2>1. (~abandoned' /\ fs[m].limit = NoLimit) => kept = cursor
    <3>1. ASSUME ~abandoned', fs[m].limit = NoLimit PROVE kept = cursor
      <4>1. ~abandoned /\ kept = Top.cursor /\ Top.limit = NoLimit
        BY <1>1, <1>3, <1>6, <1>7, <3>1 DEF IInv, TypeOK
      <4> QED BY <1>1, <1>3, <4>1 DEF IInv, SequentialTail, AtChild
    <3> QED BY <3>1
  <2> QED BY <1>1, <2>1 DEF SequentialTail
<1> QED BY <1>8, <1>9, <1>10, <1>11, <1>12, <1>13, <1>14 DEF IInv

LEMMA EndItemPreserves ==
  ASSUME IInv, EndItem PROVE IInv'
<1> DEFINE m == Len(frames) - 1
           parent == frames[m]
           progress == Top.cursor # parent.cursor
<1>1. /\ AtChild /\ Depth = Len(frames) /\ Len(frames) > 1
      /\ UNCHANGED <<adapter, bound, buf, len, cursor, abandoned, phase>>
      /\ result' \in {"Ok"} \cup Errors
  BY DEF EndItem, outputVars, Errors, Depth
<1>2. /\ m \in Nat /\ m >= 1 /\ m \in 1..Len(frames) /\ m \in 1..m
      /\ Len(frames) = m + 1 /\ m + 1 \in 1..Len(frames)
      /\ frames \in Seq(Frame) /\ Top = frames[m + 1]
  BY <1>1, TopFacts
<1>3. /\ parent \in Frame /\ parent.start \in Offset /\ parent.cursor \in Offset
      /\ parent.limit \in Offset \cup {NoLimit} /\ parent.count \in Nat
      /\ Top.cursor \in Offset
  BY <1>1, <1>2, FrameFacts, TopFacts
<1>4. CASE array # Closed /\ Depth = 2
  <2>1. /\ frames' = <<>>
        /\ array' = IF progress THEN parent.count + 1 ELSE Closed
        /\ origin' = IF progress THEN origin ELSE 0
    BY <1>1, <1>4 DEF EndItem
  <2>2. m = 1 /\ frames # <<>>
    BY <1>1, <1>2, <1>4, TopFacts
  <2>3. /\ Top.start = parent.cursor /\ Top.start <= Top.cursor
        /\ origin \in Nat /\ parent.cursor \in Nat /\ Top.cursor \in Nat
        /\ cursor \in Nat /\ origin <= cursor /\ origin <= parent.cursor
    <3>1. Top.start = frames[(m + 1) - 1].cursor
      BY <1>2, <2>2 DEF IInv, ChildrenNested
    <3>2. origin <= parent.start /\ parent.start <= parent.cursor
      BY <1>2, <1>4, <2>2 DEF IInv, ChildrenNested
    <3> QED
      BY <1>1, <1>2, <1>3, <3>1, <3>2, TopFacts, AdapterType, Domains
      DEF IInv, TypeOK, OriginBehind
  <2>4. parent.count <= parent.cursor - origin
    BY <1>2, <1>4, <2>2 DEF IInv, CountCovered
  <2>5. progress => Top.cursor <= cursor
    <3> SUFFICES ASSUME progress PROVE Top.cursor <= cursor
      OBVIOUS
    <3>1. Top.cursor - 1 \in Addr /\ Top.start <= Top.cursor - 1
      BY <1>3, <2>3, Domains DEF Addr
    <3>2. buf[Top.cursor - 1] # Junk
      BY <1>1, <2>3, <3>1, TopFacts
    <3> QED BY <2>3, <3>1, <3>2, AdapterType
  <2>6. /\ array' \in Nat \cup {Closed} /\ origin' \in Offset /\ origin' <= cursor'
        /\ array' # Closed => array' <= cursor' - origin'
    <3>1. CASE progress
      <4>1. parent.count + 1 <= cursor - origin
        BY <1>3, <2>3, <2>4, <2>5, <3>1
      <4> QED BY <1>1, <1>3, <2>1, <2>3, <3>1, <4>1, SMTT(30) DEF IInv, TypeOK
    <3>2. CASE ~progress
      BY <1>1, <2>1, <2>3, <3>2, Domains
    <3> QED BY <3>1, <3>2
  <2>7. HighWaterMarkCovers'
    BY <1>1 DEF IInv, HighWaterMarkCovers
  <2> QED BY <1>1, <2>1, <2>6, <2>7, ChildlessPreserves DEF IInv, TypeOK
<1>5. CASE ~(array # Closed /\ Depth = 2)
  <2> DEFINE emitted == IF progress THEN 1 ELSE 0
             resumed == [start |-> parent.start, cursor |-> Top.cursor,
                         limit |-> parent.limit, count |-> parent.count + emitted]
  <2>1. /\ frames' = Delivered /\ UNCHANGED <<array, origin>>
    BY <1>1, <1>5 DEF EndItem
  <2>2. Delivered = [i \in 1..m |-> IF i = m THEN resumed ELSE frames[i]]
    BY <1>1 DEF Delivered
  <2>3. /\ resumed \in Frame /\ resumed.start = parent.start
        /\ resumed.limit = parent.limit /\ resumed.cursor = Top.cursor
        /\ resumed.count = parent.count + (IF progress THEN 1 ELSE 0)
    BY <1>3 DEF Frame
  <2> HIDE DEF resumed
  <2>4. \A i \in 1..m : frames[i] \in Frame
    BY <1>2
  <2>5. /\ Delivered \in Seq(Frame) /\ Len(Delivered) = m
        /\ Delivered[m] = resumed
        /\ \A i \in 1..m : i # m => Delivered[i] = frames[i]
    <3>1. Delivered \in [1..m -> Frame]
      BY <2>2, <2>3, <2>4
    <3>2. m \in Nat /\ m \in 1..m
      BY <1>2
    <3> QED BY <2>2, <3>1, <3>2, SMTT(30)
  <2>6. \A i \in 1..m :
          /\ Delivered[i].start = frames[i].start /\ Delivered[i].limit = frames[i].limit
          /\ i # m => /\ Delivered[i].cursor = frames[i].cursor
                      /\ Delivered[i].count = frames[i].count
    BY <2>3, <2>5
  <2>7. \/ Delivered[m].count = parent.count
        \/ Delivered[m].count = parent.count + 1 /\ progress
    BY <1>3, <2>3, <2>5
  <2>8. Delivered[m].cursor = Top.cursor
    BY <2>3, <2>5
  <2>9. array = Closed \/ Len(frames) > 2
    BY <1>1, <1>2, <1>5
  <2> QED
    BY <1>1, <1>2, <2>1, <2>5, <2>6, <2>7, <2>8, <2>9, ItemPopPreserves
<1> QED BY <1>4, <1>5

LEMMA FailItemPreserves ==
  ASSUME IInv, FailItem PROVE IInv'
<1> DEFINE m == Len(frames) - 1
<1>1. /\ AtChild /\ Depth = Len(frames) /\ Len(frames) > 1
      /\ UNCHANGED <<adapter, bound, buf, len, cursor, phase>>
      /\ result' \in {"Ok"} \cup Errors /\ abandoned' = TRUE
  BY DEF FailItem, outputVars, Errors, Depth
<1>2. CASE array # Closed /\ Depth = 2
  <2>1. frames' = <<>> /\ array' = Closed /\ origin' = 0
    BY <1>2 DEF FailItem
  <2>2. HighWaterMarkCovers' /\ 0 <= cursor
    BY <1>1, AdapterType, Domains DEF IInv, HighWaterMarkCovers
  <2> QED BY <1>1, <2>1, <2>2, Domains, ChildlessPreserves DEF IInv, TypeOK
<1>3. CASE ~(array # Closed /\ Depth = 2)
  <2>1. frames' = Popped(frames) /\ UNCHANGED <<array, origin>>
    BY <1>3 DEF FailItem
  <2>2. /\ Popped(frames) \in Seq(Frame) /\ Len(Popped(frames)) = m
        /\ \A i \in 1..m : Popped(frames)[i] = frames[i]
        /\ m \in 1..m
    BY <1>1, PoppedFacts, TopFacts
  <2>3. array = Closed \/ Len(frames) > 2
    BY <1>1, <1>3, TopFacts
  <2> QED BY <1>1, <2>1, <2>2, <2>3, ItemPopPreserves
<1> QED BY <1>2, <1>3

-----------------------------------------------------------------------------
LEMMA InitEstablishes == ASSUME Init PROVE IInv
<1>1. /\ frames = <<>> /\ Len(frames) = 0 /\ frames \in Seq(Frame)
      /\ \A a \in Addr : buf[a] = Junk
      /\ cursor = 0 /\ origin = 0 /\ array = Closed
  BY DEF Init
<1>2. /\ buf \in [Addr -> Cell] /\ len \in Offset /\ bound \in Offset
      /\ adapter \in {"fixed", "extend", "bounded", "grow_with"}
  BY OutputAssumption DEF Init, Cell, Offset
<1>3. TypeOK
  BY <1>1, <1>2, Domains DEF Init, TypeOK
<1> QED
  BY <1>1, <1>2, <1>3, Domains
  DEF IInv, OriginBehind, HighWaterMarkCovers, ChildrenNested, FramesOrdered,
      EmittedIsWritten, CountCovered, AtArray, SequentialTail

LEMMA StepPreserves == ASSUME IInv, [Next]_vars PROVE IInv'
<1>1. CASE WriterNext
  BY <1>1, WriterOpsPreserve, ChildAtPreserves, FixedChildAtPreserves, FinishPreserves
  DEF WriterNext
<1>2. CASE ArrayNext
  BY <1>2, FinishPreserves, ArrayItemPreserves, ArrayCopyPreserves DEF ArrayNext
<1>3. CASE ChildNext
  BY <1>3, ChildWritePreserves, ChildFillToPreserves, ChildPatchAtPreserves,
     ChildExpandPreserves, BeginItemPreserves, EndItemPreserves, FailItemPreserves,
     ChildFinishPreserves
  DEF ChildNext
<1>4. CASE UNCHANGED vars
  BY <1>4
  DEF vars, outputVars, callVars, IInv, TypeOK, OriginBehind, HighWaterMarkCovers,
      ChildrenNested, FramesOrdered, EmittedIsWritten, CountCovered, AtArray,
      SequentialTail
<1> QED BY <1>1, <1>2, <1>3, <1>4 DEF Next

(* The inductive invariant holds in every reachable state.                 *)
THEOREM Invariance == Spec => []IInv
<1>1. Init => IInv
  BY InitEstablishes
<1>2. IInv /\ [Next]_vars => IInv'
  BY StepPreserves
<1> QED BY <1>1, <1>2, PTL DEF Spec

(* The values of every variable stay within the Rust field types, for      *)
(* every address space, byte alphabet, limit and nesting.                  *)
THEOREM TypeCorrect == Spec => []TypeOK
<1>1. IInv => TypeOK
  BY DEF IInv
<1> QED BY <1>1, Invariance, PTL

(* Writer.cursor is always exposed by the adapter and covers every byte    *)
(* written, so no growth step of any adapter can lose output.              *)
THEOREM CursorIsHighWaterMark == Spec => []HighWaterMarkCovers
<1>1. IInv => HighWaterMarkCovers
  BY DEF IInv
<1> QED BY <1>1, Invariance, PTL

(* Child cursors nest and stay inside their regions.                       *)
THEOREM ChildrenStayInside == Spec => []ChildrenNested
<1>1. IInv => ChildrenNested
  BY DEF IInv
<1> QED BY <1>1, Invariance, PTL

(* Everything a child reports as emitted was written by this writer.       *)
THEOREM NoStaleByteEmitted == Spec => []EmittedIsWritten
<1>1. IInv => EmittedIsWritten
  BY DEF IInv
<1> QED BY <1>1, Invariance, PTL

(* An array's count never exceeds the bytes it emitted.                    *)
THEOREM ArrayCountReproducible == Spec => []CountCovered
<1>1. IInv => CountCovered
  BY DEF IInv
<1> QED BY <1>1, Invariance, PTL

(* A sequential child and the writer agree on the end of the output.       *)
THEOREM TailAgrees == Spec => []SequentialTail
<1>1. IInv => SequentialTail
  BY DEF IInv
<1> QED BY <1>1, Invariance, PTL

-----------------------------------------------------------------------------
(* The steps of the output layer: how an output may grow, what an error     *)
(* leaves behind, and that the whole layer implements WireRepresentation.   *)

(* The growth an adapter may answer a request with.                        *)
AllowedGrowth(old, new) ==
  /\ old <= new
  /\ old < new => /\ adapter # "fixed"
                  /\ adapter = "bounded" => new <= bound

(* A call grows the output only as its adapter may, and an error leaves    *)
(* cells and cursor alone.                                                 *)
Honest(o, r) ==
  /\ AllowedGrowth(o.len, r.out.len)
  /\ r.res # "Ok" => r.out.buf = o.buf /\ r.out.cursor = o.cursor

LEMMA GrowthReflexive == \A n \in Offset : AllowedGrowth(n, n)
BY Domains DEF AllowedGrowth

(* Output::ensure of every adapter grows as that adapter may.              *)
LEMMA EnsureHonest ==
  ASSUME NEW o, Sound(o), NEW min \in Offset, NEW suggested \in Offset,
         adapter \in {"fixed", "extend", "bounded", "grow_with"}, bound \in Offset
  PROVE  \A r \in WriterEnsure(o, min, suggested) : Honest(o, r)
<1> DEFINE s == Larger(suggested, min)
<1>1. /\ o.len \in Offset /\ s \in Offset
      /\ \A r \in WriterEnsure(o, min, suggested) :
           r.out.buf = o.buf /\ r.out.cursor = o.cursor /\ o.len <= r.out.len
  BY EnsureContract, Domains DEF Sound, Out, EnsureEffect, Larger
<1>2. ASSUME NEW r \in WriterEnsure(o, min, suggested), adapter = "fixed"
      PROVE  r.out.len = o.len
  BY <1>2 DEF WriterEnsure, OutputEnsure, EnsureFixed, Ok, Err
<1>3. ASSUME NEW r \in WriterEnsure(o, min, suggested), adapter = "bounded"
      PROVE  r.out.len = o.len \/ r.out.len <= bound
  <2>1. WriterEnsure(o, min, suggested) = EnsureBounded(o, min, s)
    BY <1>3 DEF WriterEnsure, OutputEnsure
  <2> DEFINE t == Smaller(GrowthTarget(o.len, min, s), bound)
  <2>2. /\ GrowthTarget(o.len, min, s) \in Offset
        /\ min <= GrowthTarget(o.len, min, s)
    BY <1>1, GrowthTargetBounds
  <2>3. r \in {Err(o, "Limit"), Ok(o)} \/ (min <= bound /\ o.len < min /\ r = Ok(Extended(o, t)))
    BY <2>1, <1>1, Domains DEF EnsureBounded
  <2>4. CASE r \in {Err(o, "Limit"), Ok(o)}
    BY <2>4 DEF Err, Ok
  <2>5. CASE min <= bound /\ o.len < min /\ r = Ok(Extended(o, t))
    <3>1. t \in Offset /\ t <= bound /\ min <= t
      BY <2>2, <2>5, Domains DEF Smaller
    <3>2. r.out.len = Larger(o.len, t)
      BY <2>5 DEF Ok, Extended
    <3> QED BY <3>1, <3>2, <2>5, <1>1, Domains DEF Larger
  <2> QED BY <2>3, <2>4, <2>5
<1> QED
  BY <1>1, <1>2, <1>3, EnsureContract, Domains
  DEF Honest, AllowedGrowth, EnsureEffect, Answers, Out

(* Committing the answers of a request changes no length.                  *)
LEMMA CommittedHonest ==
  ASSUME NEW o, NEW answers, \A r \in answers : Honest(o, r),
         NEW q, NEW b, NEW c,
         NEW r \in answers,
         q = IF r.res = "Ok"
             THEN Ok([buf |-> b, len |-> r.out.len, cursor |-> c]) ELSE r
  PROVE  Honest(o, q)
BY DEF Honest, Ok

LEMMA CallsHonest ==
  ASSUME NEW o, Sound(o), NEW at \in Offset,
         adapter \in {"fixed", "extend", "bounded", "grow_with"}, bound \in Offset
  PROVE  /\ \A bytes \in Chunk : \A r \in WriteAt(o, at, bytes) : Honest(o, r)
         /\ \A n \in Nat : \A r \in FillAt(o, at, n) : Honest(o, r)
         /\ \A end \in Offset, bytes \in Chunk, limit \in Offset \cup {NoLimit} :
              \A r \in ExpandSpan(o, at, end, bytes, limit) : Honest(o, r)
<1>1. o.len \in Offset /\ o.cursor \in Offset
  BY DEF Sound, Out
<1>2. \A e \in Errors : Honest(o, Err(o, e))
  BY <1>1, GrowthReflexive DEF Honest, Err, Errors
<1>3. \A end \in Offset : \A r \in WriterEnsure(o, end, Larger(end, o.cursor)) : Honest(o, r)
  BY <1>1, EnsureHonest, Domains DEF Larger
<1>4. \A bytes \in Chunk : Len(bytes) \in Nat
  BY OutputAssumption DEF Chunk
<1>5. ASSUME NEW bytes \in Chunk, NEW r \in WriteAt(o, at, bytes) PROVE Honest(o, r)
  <2> DEFINE end == at + Len(bytes)
  <2>1. CASE end > UsizeMax
    BY <2>1, <1>2 DEF WriteAt, Errors
  <2>2. CASE ~(end > UsizeMax)
    <3>1. end \in Offset
      BY <2>2, <1>4, Domains DEF Offset
    <3>2. PICK q \in WriterEnsure(o, end, Larger(end, o.cursor)) :
            r = IF q.res = "Ok"
                THEN Ok([buf |-> Stored(q.out.buf, at, bytes), len |-> q.out.len,
                         cursor |-> Larger(q.out.cursor, end)])
                ELSE q
      BY <2>2 DEF WriteAt, Committed
    <3> QED BY <3>1, <3>2, <1>3, CommittedHonest
  <2> QED BY <2>1, <2>2
<1>6. ASSUME NEW n \in Nat, NEW r \in FillAt(o, at, n) PROVE Honest(o, r)
  <2> DEFINE end == at + n
  <2>1. CASE end > UsizeMax
    BY <2>1, <1>2 DEF FillAt, Errors
  <2>2. CASE ~(end > UsizeMax)
    <3>1. end \in Offset
      BY <2>2, Domains DEF Offset
    <3>2. PICK q \in WriterEnsure(o, end, Larger(end, o.cursor)) :
            r = IF q.res = "Ok"
                THEN Ok([buf |-> Filled(q.out.buf, at, end), len |-> q.out.len,
                         cursor |-> Larger(q.out.cursor, end)])
                ELSE q
      BY <2>2 DEF FillAt, Committed
    <3> QED BY <3>1, <3>2, <1>3, CommittedHonest
  <2> QED BY <2>1, <2>2
<1>7. ASSUME NEW end \in Offset, NEW bytes \in Chunk, NEW limit \in Offset \cup {NoLimit},
             NEW r \in ExpandSpan(o, at, end, bytes, limit)
      PROVE  Honest(o, r)
  <2> DEFINE after == end + Len(bytes) - 1
             blocked == \/ at + 1 > UsizeMax
                        \/ at + 1 > end \/ end > o.cursor
                        \/ Len(bytes) = 0 \/ after > UsizeMax
                        \/ ~Within(after, limit)
  <2>1. CASE blocked
    <3>1. \E e \in Errors : ExpandSpan(o, at, end, bytes, limit) = {Err(o, e)}
      BY <2>1 DEF ExpandSpan, Errors
    <3> QED BY <3>1, <1>2
  <2>2. CASE ~blocked
    <3>1. after \in Offset
      BY <2>2, <1>1, <1>4, Domains DEF Offset
    <3>2. PICK q \in WriterEnsure(o, after, Larger(after, o.cursor)) :
            r = IF q.res = "Ok"
                THEN Ok([buf |-> Spliced(q.out.buf, at, end, bytes), len |-> q.out.len,
                         cursor |-> Larger(q.out.cursor, after)])
                ELSE q
      BY <2>2 DEF ExpandSpan, Committed
    <3> QED BY <3>1, <3>2, <1>3, CommittedHonest
  <2> QED BY <2>1, <2>2
<1> QED BY <1>5, <1>6, <1>7

-----------------------------------------------------------------------------
(* What every step does to the output: it grows as the adapter allows, and *)
(* a step that answers with an error has touched no cell and no cursor.    *)
OutputStep ==
  /\ AllowedGrowth(len, len')
  /\ result' # "Ok" => buf' = buf /\ cursor' = cursor

LEMMA BecomeStep ==
  ASSUME NEW r, Become(r), Honest(Here, r) PROVE OutputStep
BY HereCursor DEF Become, Honest, OutputStep

LEMMA QuietStep ==
  ASSUME IInv, UNCHANGED outputVars PROVE OutputStep
BY GrowthReflexive DEF IInv, TypeOK, OutputStep, outputVars

(* The calls of this state, all at once.                                   *)
LEMMA HereHonest ==
  ASSUME IInv, NEW at \in Offset
  PROVE  /\ \A suggested \in Offset :
              \A r \in WriterEnsure(Here, at, suggested) : Honest(Here, r)
         /\ \A bytes \in Chunk : \A r \in WriteAt(Here, at, bytes) : Honest(Here, r)
         /\ \A n \in Nat : \A r \in FillAt(Here, at, n) : Honest(Here, r)
         /\ \A end \in Offset, bytes \in Chunk, limit \in Offset \cup {NoLimit} :
              \A r \in ExpandSpan(Here, at, end, bytes, limit) : Honest(Here, r)
         /\ \A e \in Errors : Honest(Here, Err(Here, e))
<1>1. Sound(Here) /\ Here.len \in Offset
  BY SoundHere, HereCursor, AdapterType
<1>2. \A e \in Errors : Honest(Here, Err(Here, e))
  BY <1>1, GrowthReflexive DEF Honest, Err, Errors
<1> QED BY <1>1, <1>2, AdapterType, EnsureHonest, CallsHonest

LEMMA WriterSteps == ASSUME IInv, WriterNext PROVE OutputStep
<1>1. ASSUME NEW answers, OnWriter(answers), \A r \in answers : Honest(Here, r)
      PROVE  OutputStep
  BY <1>1, BecomeStep DEF OnWriter
<1>2. ASSUME NEW bytes \in Chunk, WriterWrite(bytes) PROVE OutputStep
  BY <1>1, <1>2, HereHonest, AdapterType DEF WriterWrite
<1>3. ASSUME NEW at \in Offset, NEW bytes \in Chunk, WriterWriteAt(at, bytes)
      PROVE  OutputStep
  BY <1>1, <1>3, HereHonest DEF WriterWriteAt
<1>4. ASSUME NEW at \in Offset, NEW n \in Offset, WriterFillAt(at, n) PROVE OutputStep
  BY <1>1, <1>4, HereHonest, Domains DEF WriterFillAt
<1>5. ASSUME NEW min \in Offset, NEW suggested \in Offset, WriterReserve(min, suggested)
      PROVE  OutputStep
  BY <1>1, <1>5, HereHonest DEF WriterReserve
<1>6. ASSUME NEW at \in Offset, NEW bytes \in Chunk, WriterExpandIntegerAt(at, bytes)
      PROVE  OutputStep
  BY <1>1, <1>6, HereHonest, AdapterType DEF WriterExpandIntegerAt
<1>7. ASSUME NEW position \in Offset, ChildAt(position) PROVE OutputStep
  <2>1. CASE position < cursor
    BY <2>1, <1>7, HereHonest, BecomeStep DEF ChildAt, Errors
  <2>2. CASE ~(position < cursor)
    <3>1. PICK r \in WriterEnsure(Here, position, position) :
            IF r.res = "Ok"
            THEN Become(Ok([r.out EXCEPT !.cursor = position])) ELSE Become(r)
      BY <2>2, <1>7 DEF ChildAt
    <3>2. Honest(Here, r) /\ r \in Answers
      BY HereHonest, HereCursor, SoundHere, AdapterType, EnsureContract DEF EnsureEffect
    <3>3. CASE r.res = "Ok"
      <4>1. Ok([r.out EXCEPT !.cursor = position]).out.len = r.out.len
        BY <3>2 DEF Ok, Answers, Out
      <4>2. Honest(Here, Ok([r.out EXCEPT !.cursor = position]))
        BY <3>2, <4>1 DEF Honest, Ok
      <4> QED BY <3>1, <3>3, <4>2, BecomeStep
    <3> QED BY <3>1, <3>2, <3>3, BecomeStep
  <2> QED BY <2>1, <2>2
<1>8. ASSUME NEW position \in Offset, NEW n \in Offset, FixedChildAt(position, n)
      PROVE  OutputStep
  <2> DEFINE end == position + n
  <2>1. CASE end > UsizeMax
    BY <2>1, <1>8, HereHonest, BecomeStep DEF FixedChildAt, Errors
  <2>2. CASE ~(end > UsizeMax)
    <3>1. end \in Offset /\ Larger(end, cursor) \in Offset
      BY <2>2, AdapterType, Domains DEF Offset, Larger
    <3>2. PICK r \in WriterEnsure(Here, end, Larger(end, cursor)) : Become(r)
      BY <2>2, <1>8 DEF FixedChildAt
    <3> QED BY <3>1, <3>2, HereHonest, BecomeStep
  <2> QED BY <2>1, <2>2
<1>9. CASE Finish
  BY <1>9, QuietStep DEF Finish
<1> QED
  BY <1>2, <1>3, <1>4, <1>5, <1>6, <1>7, <1>8, <1>9 DEF WriterNext

LEMMA ArraySteps == ASSUME IInv, ArrayNext PROVE OutputStep
<1>1. CASE ArrayOpen \/ ArrayClose
  BY <1>1, QuietStep DEF ArrayOpen, ArrayClose
<1>2. CASE ArrayItem
  <2>1. PICK r \in WriterEnsure(Here, cursor, cursor) : Become(r)
    BY <1>2 DEF ArrayItem
  <2> QED BY <2>1, AdapterType, HereHonest, BecomeStep
<1>3. ASSUME NEW bytes \in Chunk, NEW n \in 0..MaxChunk, ArrayCopy(n, bytes)
      PROVE  OutputStep
  <2>1. CASE n > 0 /\ Len(bytes) = 0
    BY <2>1, <1>3, HereHonest, BecomeStep, AdapterType DEF ArrayCopy, Errors
  <2>2. CASE ~(n > 0 /\ Len(bytes) = 0)
    <3>1. PICK r \in WriteAt(Here, cursor, bytes) : Become(r)
      BY <2>2, <1>3 DEF ArrayCopy
    <3> QED BY <3>1, AdapterType, HereHonest, BecomeStep
  <2> QED BY <2>1, <2>2
<1> QED BY <1>1, <1>2, <1>3 DEF ArrayNext

LEMMA ChildSteps == ASSUME IInv, ChildNext PROVE OutputStep
<1>1. ASSUME NEW e \in Errors, ChildError(e) PROVE OutputStep
  BY <1>1, HereHonest, BecomeStep, AdapterType DEF ChildError
<1>2. ASSUME NEW answers, NEW position, Through(answers, position),
             \A r \in answers : Honest(Here, r)
      PROVE  OutputStep
  BY <1>2, BecomeStep DEF Through
<1>3. ASSUME frames # <<>>
      PROVE  /\ Top.cursor \in Offset /\ Top.start \in Offset
             /\ Top.limit \in Offset \cup {NoLimit}
  BY <1>3, FrameFacts DEF IInv, TypeOK, Top
<1>4. ASSUME NEW bytes \in Chunk, ChildWrite(bytes) PROVE OutputStep
  <2>1. frames # <<>>
    BY <1>4 DEF ChildWrite, OnChild, AtChild
  <2>2. \A r \in WriteAt(Here, Top.cursor, bytes) : Honest(Here, r)
    BY <2>1, <1>3, HereHonest
  <2> QED BY <2>2, <1>1, <1>2, <1>4 DEF ChildWrite, Errors
<1>5. ASSUME NEW position \in Offset, ChildFillTo(position) PROVE OutputStep
  <2>1. frames # <<>>
    BY <1>5 DEF ChildFillTo, OnChild, AtChild
  <2>2. CASE position < Top.cursor
    BY <2>2, <1>1, <1>5 DEF ChildFillTo, Errors
  <2>3. CASE ~(position < Top.cursor)
    <3>1. position - Top.cursor \in Nat
      BY <2>1, <2>3, <1>3, Domains
    <3>2. \A r \in FillAt(Here, Top.cursor, position - Top.cursor) : Honest(Here, r)
      BY <2>1, <3>1, <1>3, HereHonest
    <3> QED BY <3>2, <2>3, <1>1, <1>2, <1>5 DEF ChildFillTo, Errors
  <2> QED BY <2>2, <2>3
<1>6. ASSUME NEW at \in Offset, NEW bytes \in Chunk, ChildPatchAt(at, bytes)
      PROVE  OutputStep
  <2>1. \A r \in WriteAt(Here, at, bytes) : Honest(Here, r)
    BY HereHonest
  <2> QED BY <2>1, <1>1, <1>2, <1>6 DEF ChildPatchAt, Errors
<1>7. ASSUME NEW at \in Offset, NEW bytes \in Chunk, ChildExpandIntegerAt(at, bytes)
      PROVE  OutputStep
  <2>1. frames # <<>>
    BY <1>7 DEF ChildExpandIntegerAt, OnChild, AtChild
  <2>2. \A r \in ExpandSpan(Here, at, Top.cursor, bytes, Top.limit) : Honest(Here, r)
    BY <2>1, <1>3, HereHonest
  <2> QED BY <2>2, <1>1, <1>2, <1>7 DEF ChildExpandIntegerAt, Errors
<1>8. CASE BeginItem \/ ChildFinish
  <2>1. UNCHANGED outputVars
    BY <1>8 DEF BeginItem, ChildFinish, OnChild, Same, outputVars
  <2> QED BY <2>1, QuietStep
<1>9. CASE EndItem \/ FailItem
  BY <1>9, QuietStep DEF EndItem, FailItem
<1> QED BY <1>4, <1>5, <1>6, <1>7, <1>8, <1>9 DEF ChildNext

LEMMA StepOutput == ASSUME IInv, [Next]_vars PROVE OutputStep
<1>1. CASE UNCHANGED vars
  BY <1>1, QuietStep DEF vars
<1> QED BY <1>1, WriterSteps, ArraySteps, ChildSteps DEF Next

(* No call shrinks the output, a fixed slice never grows and a bounded     *)
(* target never grows past its limit: the growth policy of the adapters.   *)
THEOREM GrowthIsLawful == Spec => GrowthPolicy
<1>1. IInv /\ [Next]_vars =>
        [/\ len' >= len
         /\ len' > len => /\ adapter # "fixed"
                          /\ adapter = "bounded" => len' <= bound]_vars
  <2> SUFFICES ASSUME IInv, [Next]_vars
               PROVE  /\ len' >= len
                      /\ len' > len => /\ adapter # "fixed"
                                       /\ adapter = "bounded" => len' <= bound
    OBVIOUS
  <2>1. IInv'
    BY StepPreserves
  <2>2. len \in Nat /\ len' \in Nat
    BY <2>1, Domains DEF IInv, TypeOK
  <2> QED BY <2>2, StepOutput DEF OutputStep, AllowedGrowth
<1> QED BY <1>1, Invariance, PTL DEF Spec, GrowthPolicy

-----------------------------------------------------------------------------
(* The frames a step leaves are frames it found.                           *)
FramesKept == \A i \in 1..Len(frames') : frames'[i] = frames[i]

LEMMA NoFrameKept == frames' = <<>> => FramesKept
<1>1. frames' = <<>> => Len(frames') = 0
  OBVIOUS
<1> QED BY <1>1 DEF FramesKept

LEMMA PoppedKept ==
  ASSUME IInv, frames # <<>>, frames' = Popped(frames) PROVE FramesKept
BY PoppedFacts DEF IInv, TypeOK, FramesKept

(* An item without progress leaves its parent exactly as it was.           *)
LEMMA NonProgressKept ==
  ASSUME IInv, Depth > 1, frames' = Delivered, Top.cursor = frames[Depth - 1].cursor
  PROVE  FramesKept
<1>1. Depth \in Nat /\ Depth - 1 \in 1..Depth /\ Len(frames) = Depth
  BY FrameFacts DEF IInv, TypeOK, Depth
<1> DEFINE parent == frames[Depth - 1]
<1>2. parent \in Frame
  BY <1>1, FrameFacts DEF IInv, TypeOK
<1>3. [start |-> parent.start, cursor |-> Top.cursor, limit |-> parent.limit,
       count |-> parent.count + 0] = parent
  BY <1>2 DEF Frame
<1>4. Delivered = [i \in 1..(Depth - 1) |-> frames[i]]
  BY <1>1, <1>3 DEF Delivered
<1>5. Delivered \in Seq(Frame) /\ Len(Delivered) = Depth - 1
  <2>1. [i \in 1..(Depth - 1) |-> frames[i]] \in [1..(Depth - 1) -> Frame]
    BY <1>1, FrameFacts DEF IInv, TypeOK
  <2> QED BY <2>1, <1>1, <1>4
<1> QED BY <1>4, <1>5 DEF FramesKept

(* A step that answers with an error keeps every frame that it leaves.     *)
LEMMA ErrorKeepsFrames ==
  ASSUME IInv, [Next]_vars, result' # "Ok" PROVE FramesKept
<1>1. UNCHANGED frames => FramesKept
  BY DEF FramesKept
<1>2. CASE UNCHANGED vars
  BY <1>1, <1>2 DEF vars, callVars
<1>3. CASE WriterNext
  <2>1. ASSUME NEW position \in Offset, ChildAt(position) PROVE UNCHANGED frames
    BY <2>1 DEF ChildAt, Become, Ok
  <2>2. ASSUME NEW position \in Offset, NEW n \in Offset, FixedChildAt(position, n)
        PROVE  UNCHANGED frames
    BY <2>2 DEF FixedChildAt, Become, Ok
  <2> QED
    BY <1>1, <1>3, <2>1, <2>2
    DEF WriterNext, WriterWrite, WriterWriteAt, WriterFillAt, WriterReserve,
        WriterExpandIntegerAt, OnWriter, Finish
<1>4. CASE ArrayNext
  <2>1. CASE ArrayItem
    BY <1>1, <2>1 DEF ArrayItem, Become
  <2> QED BY <1>1, <1>4, <2>1 DEF ArrayNext, ArrayOpen, ArrayClose, ArrayCopy
<1>5. CASE ChildNext
  <2>1. ASSUME NEW answers, NEW position, Through(answers, position)
        PROVE  UNCHANGED frames
    BY <2>1 DEF Through, Become
  <2>2. ASSUME NEW e, ChildError(e) PROVE UNCHANGED frames
    BY <2>2 DEF ChildError
  <2>3. CASE \/ \E bytes \in Chunk : ChildWrite(bytes)
             \/ \E position \in Offset : ChildFillTo(position)
             \/ \E at \in Offset, bytes \in Chunk : ChildPatchAt(at, bytes)
             \/ \E at \in Offset, bytes \in Chunk : ChildExpandIntegerAt(at, bytes)
    BY <1>1, <2>1, <2>2, <2>3
    DEF ChildWrite, ChildFillTo, ChildPatchAt, ChildExpandIntegerAt
  <2>4. CASE BeginItem
    BY <2>4 DEF BeginItem
  <2>5. CASE EndItem
    <3>1. CASE frames' = <<>>
      BY <3>1, NoFrameKept
    <3>2. CASE frames' # <<>>
      <4>1. Depth > 1 /\ frames' = Delivered /\ Top.cursor = frames[Depth - 1].cursor
        BY <2>5, <3>2 DEF EndItem
      <4> QED BY <4>1, NonProgressKept
    <3> QED BY <3>1, <3>2
  <2>6. CASE FailItem
    BY <2>6, NoFrameKept, PoppedKept DEF FailItem, AtChild
  <2>7. CASE ChildFinish
    BY <2>7, NoFrameKept DEF ChildFinish
  <2> QED BY <1>5, <2>3, <2>4, <2>5, <2>6, <2>7 DEF ChildNext
<1> QED BY <1>2, <1>3, <1>4, <1>5 DEF Next

(* A call that reports an error has written nothing, moved no cursor and   *)
(* changed no surviving child: the caller can go on as if it had not been  *)
(* made.                                                                   *)
THEOREM ErrorsAreHarmless == Spec => ErrorsChangeNothing
<1>1. IInv /\ [Next]_vars =>
        [result' # "Ok" =>
           /\ cursor' = cursor
           /\ \A a \in Addr : buf'[a] = buf[a]
           /\ \A i \in 1..Len(frames') : frames'[i] = frames[i]]_vars
  BY StepOutput, ErrorKeepsFrames DEF OutputStep, FramesKept
<1> QED BY <1>1, Invariance, PTL DEF Spec, ErrorsChangeNothing

-----------------------------------------------------------------------------
(* The refinement mapping, by name: the bytes put so far and the window    *)
(* that the innermost open facade may write to.                            *)
Written == [a \in {x \in Addr : buf[x] # Junk} |-> buf[a]]
Lo == IF frames # <<>> THEN frames[Len(frames)].start
      ELSE IF array # Closed THEN origin ELSE 0
Hi == IF frames # <<>> /\ frames[Len(frames)].limit # NoLimit
      THEN frames[Len(frames)].limit ELSE UsizeMax

LEMMA WindowFacts ==
  ASSUME IInv
  PROVE  /\ Lo \in Offset /\ Hi \in Offset
         /\ buf \in [Addr -> Cell] /\ cursor \in Offset /\ origin \in Offset
         /\ frames # <<>> =>
              /\ Lo = Top.start /\ Depth = Len(frames) /\ Depth \in Nat \ {0}
              /\ Top.start \in Offset /\ Top.cursor \in Offset
              /\ Top.limit \in Offset \cup {NoLimit}
              /\ Top.start <= Top.cursor /\ Top.cursor <= Hi
              /\ Hi = IF Top.limit # NoLimit THEN Top.limit ELSE UsizeMax
              /\ \A p \in Offset : Within(p, Top.limit) => p <= Hi
         /\ frames = <<>> =>
              Hi = UsizeMax /\ Lo = (IF array # Closed THEN origin ELSE 0) /\ Lo <= cursor
<1>1. /\ frames \in Seq(Frame) /\ cursor \in Offset /\ origin \in Offset
      /\ buf \in [Addr -> Cell] /\ origin <= cursor
  BY DEF IInv, TypeOK, OriginBehind
<1>2. CASE frames # <<>>
  <2>1. /\ Depth = Len(frames) /\ Depth \in 1..Len(frames) /\ Len(frames) \in Nat
        /\ Top.start \in Offset /\ Top.cursor \in Offset
        /\ Top.limit \in Offset \cup {NoLimit}
    BY <1>1, <1>2, FrameFacts DEF Top, Depth
  <2>2. Top.start <= Top.cursor /\ Within(Top.cursor, Top.limit)
    BY <2>1 DEF IInv, ChildrenNested, Top
  <2>3. Lo = Top.start /\ Hi = IF Top.limit # NoLimit THEN Top.limit ELSE UsizeMax
    BY <1>2 DEF Lo, Hi, Top, Depth
  <2> QED BY <1>1, <1>2, <2>1, <2>2, <2>3, Domains, OutputAssumption DEF Within, Offset
<1>3. CASE frames = <<>>
  BY <1>1, <1>3, Domains, OutputAssumption DEF Lo, Hi, Offset
<1> QED BY <1>1, <1>2, <1>3

(* Putting bytes: only from..to-1 changes, inside the window.              *)
LEMMA PutStep ==
  ASSUME IInv, phase = "open", NEW from \in Offset, NEW to \in Offset,
         Lo <= from, from <= to, to <= Hi, buf' \in [Addr -> Cell],
         \A a \in Addr : from <= a /\ a < to => buf'[a] \in Byte,
         \A a \in Addr : ~(from <= a /\ a < to) => buf'[a] = buf[a],
         cursor' = Larger(cursor, to), Lo' = Lo, Hi' = Hi, phase' = phase
  PROVE  Rep!Next
<1>1. cursor \in Offset /\ Junk \notin Byte
  BY WindowFacts, OutputAssumption
<1>2. /\ \A a \in from..(to - 1) : a \in Addr /\ from <= a /\ a < to
      /\ \A a \in Addr : a \in from..(to - 1) <=> from <= a /\ a < to
  BY Domains DEF Addr
<1>3. DOMAIN Written' = DOMAIN Written \cup (from..(to - 1))
  <2>1. {x \in Addr : buf'[x] # Junk} = {x \in Addr : buf[x] # Junk} \cup (from..(to - 1))
    BY <1>1, <1>2
  <2> QED BY <2>1 DEF Written
<1>4. \A a \in DOMAIN Written' :
        Written'[a] \in (IF a \in from..(to - 1) THEN Byte ELSE {Written[a]})
  <2> SUFFICES ASSUME NEW a \in Addr, buf'[a] # Junk
               PROVE  Written'[a] \in (IF a \in from..(to - 1) THEN Byte ELSE {Written[a]})
    BY DEF Written
  <2>1. Written'[a] = buf'[a]
    BY DEF Written
  <2>2. CASE a \in from..(to - 1)
    BY <2>1, <2>2, <1>2
  <2>3. CASE a \notin from..(to - 1)
    <3>1. buf'[a] = buf[a]
      BY <2>3, <1>2
    <3>2. Written[a] = buf[a]
      BY <3>1 DEF Written
    <3> QED BY <2>1, <2>3, <3>1, <3>2
  <2> QED BY <2>2, <2>3
<1>5. cursor' = IF to > cursor THEN to ELSE cursor
  BY <1>1, Domains DEF Larger
<1>6. Rep!Put(from, to)
  BY <1>3, <1>4, <1>5 DEF Rep!Put, Lo, Hi, Written
<1>7. from \in Rep!Offset /\ to \in Rep!Offset
  BY DEF Rep!Offset, Offset
<1> QED BY <1>6, <1>7 DEF Rep!Next

(* The integer expansion: at..at+n-1 is put, at+1..end-1 slides right.     *)
LEMMA SpliceStep ==
  ASSUME IInv, phase = "open", NEW at \in Offset, NEW end \in Offset, NEW bytes \in Chunk,
         Lo <= at, at < end, Len(bytes) >= 1, end <= cursor,
         end + Len(bytes) - 1 \in Offset, end + Len(bytes) - 1 <= Hi,
         buf' = Spliced(buf, at, end, bytes),
         cursor' = Larger(cursor, end + Len(bytes) - 1),
         Lo' = Lo, Hi' = Hi, phase' = phase
  PROVE  Rep!Next
<1> DEFINE n == Len(bytes)
           after == end + n - 1
           touched == at..(after - 1)
           Slid(a) == a - (n - 1)
           moved == {a \in (at + n)..(after - 1) : Slid(a) \in DOMAIN Written}
<1>1. /\ cursor \in Offset /\ Junk \notin Byte
      /\ n \in Nat /\ \A i \in 1..n : bytes[i] \in Byte
  BY WindowFacts, OutputAssumption DEF Chunk
<1>2. /\ at \in Nat /\ end \in Nat /\ after \in Nat /\ after <= UsizeMax
      /\ n \in 1..UsizeMax
  BY <1>1, Domains DEF Offset
<1>3. /\ \A a \in at..(at + n - 1) : a \in Addr /\ buf'[a] \in Byte
      /\ \A a \in (at + n)..(after - 1) :
           a \in Addr /\ Slid(a) \in Addr /\ buf'[a] = buf[Slid(a)]
      /\ \A a \in Addr \ touched : buf'[a] = buf[a]
  <2>1. ASSUME NEW a \in at..(at + n - 1) PROVE a \in Addr /\ buf'[a] \in Byte
    <3>1. a \in Addr /\ a - at + 1 \in 1..n /\ at <= a /\ a < at + n
      BY <1>1, <1>2, Domains DEF Addr
    <3> QED BY <3>1, <1>1 DEF Spliced
  <2>2. ASSUME NEW a \in (at + n)..(after - 1)
        PROVE  a \in Addr /\ Slid(a) \in Addr /\ buf'[a] = buf[Slid(a)]
    <3>1. a \in Addr /\ Slid(a) \in Addr /\ at + n <= a /\ a < after
      BY <1>1, <1>2, Domains DEF Addr
    <3>2. ~(at <= a /\ a < at + n)
      BY <1>1, <1>2, <3>1
    <3> QED BY <3>1, <3>2 DEF Spliced
  <2>3. ASSUME NEW a \in Addr \ touched PROVE buf'[a] = buf[a]
    <3>1. ~(at <= a /\ a < at + n) /\ ~(at + n <= a /\ a < after)
      BY <1>1, <1>2, Domains
    <3> QED BY <3>1 DEF Spliced
  <2> QED BY <2>1, <2>2, <2>3
<1>4. /\ DOMAIN Written = {x \in Addr : buf[x] # Junk}
      /\ \A a \in Addr : buf[a] # Junk => Written[a] = buf[a]
      /\ DOMAIN Written' = {x \in Addr : buf'[x] # Junk}
      /\ \A a \in Addr : buf'[a] # Junk => Written'[a] = buf'[a]
  BY DEF Written
<1>5. \A a \in Int : a \in touched <=> (a \in at..(at + n - 1) \/ a \in (at + n)..(after - 1))
  BY <1>1, <1>2
<1>6. \A a \in Int : ~(a \in at..(at + n - 1) /\ a \in (at + n)..(after - 1))
  BY <1>1, <1>2
<1>7. DOMAIN Written' = (DOMAIN Written \ touched) \cup (at..(at + n - 1)) \cup moved
  <2>1. \A a \in Addr : a \in Int
    BY Domains
  <2>2. ASSUME NEW a \in Addr
        PROVE  buf'[a] # Junk <=>
                 a \in (DOMAIN Written \ touched) \cup (at..(at + n - 1)) \cup moved
    <3>1. CASE a \in at..(at + n - 1)
      BY <3>1, <1>1, <1>3
    <3>2. CASE a \in (at + n)..(after - 1)
      BY <3>2, <2>1, <1>3, <1>4, <1>5, <1>6
    <3>3. CASE a \notin touched
      BY <3>3, <2>1, <1>3, <1>4, <1>5
    <3> QED BY <3>1, <3>2, <3>3, <2>1, <1>5
  <2>3. \A a : a \in (DOMAIN Written \ touched) \cup (at..(at + n - 1)) \cup moved => a \in Addr
    BY <1>3, <1>4
  <2> HIDE DEF moved, touched
  <2> QED BY <2>2, <2>3, <1>4
<1>8. \A a \in DOMAIN Written' :
        Written'[a] \in (IF a \in at..(at + n - 1) THEN Byte
                         ELSE IF a \in touched THEN {Written[Slid(a)]}
                         ELSE {Written[a]})
  <2> SUFFICES ASSUME NEW a \in Addr, buf'[a] # Junk
               PROVE  Written'[a] \in (IF a \in at..(at + n - 1) THEN Byte
                                       ELSE IF a \in touched THEN {Written[Slid(a)]}
                                       ELSE {Written[a]})
    BY <1>4
  <2>0. a \in Int /\ Written'[a] = buf'[a]
    BY <1>4, Domains
  <2>1. CASE a \in at..(at + n - 1)
    BY <2>0, <2>1, <1>3
  <2>2. CASE a \in (at + n)..(after - 1)
    <3>1. buf'[a] = Written[Slid(a)]
      BY <2>2, <1>3, <1>4
    <3>2. a \in touched /\ a \notin at..(at + n - 1)
      BY <2>0, <2>2, <1>5, <1>6
    <3> QED BY <2>0, <3>1, <3>2
  <2>3. CASE a \notin touched
    <3>1. buf'[a] = Written[a] /\ a \notin at..(at + n - 1)
      BY <2>0, <2>3, <1>3, <1>4, <1>5
    <3> QED BY <2>0, <2>3, <3>1
  <2> QED BY <2>0, <2>1, <2>2, <2>3, <1>5
<1>9. cursor' = IF after > cursor THEN after ELSE cursor
  BY <1>1, <1>2, Domains DEF Larger
<1>10. Rep!Splice(at, end, n)
  BY <1>7, <1>8, <1>9, <1>2 DEF Rep!Splice, Lo, Hi, Written
<1>11. at \in Rep!Offset /\ end \in Rep!Offset
  BY DEF Rep!Offset, Offset
<1> QED BY <1>2, <1>10, <1>11 DEF Rep!Next

-----------------------------------------------------------------------------
(* Opening a window, closing one, sealing, and changing nothing.           *)
LEMMA NarrowStep ==
  ASSUME IInv, phase = "open", buf' = buf, phase' = phase,
         Lo <= Lo', Lo' <= Hi', Hi' <= Hi, Lo' \in Offset, Hi' \in Offset,
         cursor' \in {cursor, IF Lo' > cursor THEN Lo' ELSE cursor}
  PROVE  Rep!Next
<1>1. Rep!Narrow(Lo', Hi')
  BY DEF Rep!Narrow, Lo, Hi, Written
<1>2. Lo' \in Rep!Offset /\ Hi' \in Rep!Offset
  BY DEF Rep!Offset, Offset
<1> QED BY <1>1, <1>2 DEF Rep!Next

LEMMA WidenStep ==
  ASSUME IInv, phase = "open", buf' = buf, cursor' = cursor, phase' = phase,
         Lo' \in Offset, Lo' <= Lo, Hi' \in Offset, Hi <= Hi'
  PROVE  Rep!Next
<1>1. Lo' \in 0..Lo /\ Hi' \in Hi..UsizeMax
  BY WindowFacts, Domains DEF Offset
<1>2. Rep!Widen
  BY <1>1 DEF Rep!Widen, Lo, Hi, Written
<1> QED BY <1>2 DEF Rep!Next

LEMMA StutterStep ==
  ASSUME buf' = buf, cursor' = cursor, phase' = phase, Lo' = Lo, Hi' = Hi
  PROVE  UNCHANGED Rep!absVars
BY DEF Rep!absVars, Lo, Hi, Written

(* The window depends on the facades only.                                 *)
LEMMA WindowKept ==
  ASSUME UNCHANGED <<frames, array, origin>> PROVE Lo' = Lo /\ Hi' = Hi
BY DEF Lo, Hi

LEMMA WindowClosed ==
  ASSUME frames' = <<>>
  PROVE  /\ Hi' = UsizeMax
         /\ array' = Closed => Lo' = 0
         /\ array' # Closed => Lo' = origin'
BY DEF Lo, Hi

(* What a call leaves: nothing represented changes when it fails, and the  *)
(* bytes named by the call change when it succeeds.                        *)
LEMMA FailedStep ==
  ASSUME IInv, NEW r, Become(r), Honest(Here, r), r.res # "Ok"
  PROVE  buf' = buf /\ cursor' = cursor
BY HereCursor DEF Become, Honest

(* Writer::write_at, in whatever facade it is called from.                 *)
LEMMA WriteStep ==
  ASSUME IInv, phase = "open", phase' = phase, NEW at \in Offset, NEW bytes \in Chunk,
         NEW r \in WriteAt(Here, at, bytes), Become(r), r.res = "Ok",
         Lo <= at, at + Len(bytes) <= Hi, Lo' = Lo, Hi' = Hi
  PROVE  Rep!Next
<1> DEFINE to == at + Len(bytes)
<1>1. /\ Sound(Here) /\ Here.buf = buf /\ Here.cursor = cursor
  BY SoundHere, HereCursor
<1>2. /\ CallEffect(Here, Stored(buf, at, bytes), to, r)
      /\ to <= UsizeMax /\ Len(bytes) \in Nat
  BY <1>1, AdapterType, WriteAtEffect
<1>3. \A i \in 1..Len(bytes) : bytes[i] \in Byte
  BY OutputAssumption DEF Chunk
<1>4. /\ buf' = Stored(buf, at, bytes) /\ cursor' = Larger(cursor, to)
      /\ buf' \in [Addr -> Cell]
  BY <1>1, <1>2 DEF CallEffect, Become, Sound, Out
<1>5. to \in Offset /\ at <= to
  BY <1>2, Domains DEF Offset
<1>6. \A a \in Addr : at <= a /\ a < to => buf'[a] \in Byte
  <2> SUFFICES ASSUME NEW a \in Addr, at <= a, a < to PROVE buf'[a] \in Byte
    OBVIOUS
  <2>1. a - at + 1 \in 1..Len(bytes)
    BY <1>2, Domains
  <2> QED BY <2>1, <1>3, <1>4 DEF Stored
<1>7. \A a \in Addr : ~(at <= a /\ a < to) => buf'[a] = buf[a]
  BY <1>4 DEF Stored
<1> HIDE DEF to
<1> QED BY <1>4, <1>5, <1>6, <1>7, PutStep DEF to

(* Writer::fill_at.                                                        *)
LEMMA FillStep ==
  ASSUME IInv, phase = "open", phase' = phase, NEW at \in Offset, NEW n \in Nat,
         NEW r \in FillAt(Here, at, n), Become(r), r.res = "Ok",
         Lo <= at, at + n <= Hi, Lo' = Lo, Hi' = Hi
  PROVE  Rep!Next
<1> DEFINE to == at + n
<1>1. /\ Sound(Here) /\ Here.buf = buf /\ Here.cursor = cursor
  BY SoundHere, HereCursor
<1>2. CallEffect(Here, Filled(buf, at, to), to, r) /\ to <= UsizeMax
  BY <1>1, AdapterType, FillAtEffect
<1>3. /\ buf' = Filled(buf, at, to) /\ cursor' = Larger(cursor, to)
      /\ buf' \in [Addr -> Cell]
  BY <1>1, <1>2 DEF CallEffect, Become, Sound, Out
<1>4. to \in Offset /\ at <= to
  BY <1>2, Domains DEF Offset
<1>5. /\ \A a \in Addr : at <= a /\ a < to => buf'[a] \in Byte
      /\ \A a \in Addr : ~(at <= a /\ a < to) => buf'[a] = buf[a]
  BY <1>3, OutputAssumption DEF Filled
<1> HIDE DEF to
<1> QED BY <1>3, <1>4, <1>5, PutStep DEF to

(* Writer::expand_integer_span.                                            *)
LEMMA ExpandStep ==
  ASSUME IInv, phase = "open", phase' = phase, NEW at \in Offset, NEW end \in Offset,
         NEW bytes \in Chunk, NEW limit \in Offset \cup {NoLimit},
         NEW r \in ExpandSpan(Here, at, end, bytes, limit), Become(r), r.res = "Ok",
         Lo <= at, \A p \in Offset : Within(p, limit) => p <= Hi, Lo' = Lo, Hi' = Hi
  PROVE  /\ Rep!Next
         /\ Len(bytes) \in Nat /\ end + Len(bytes) - 1 \in Offset
<1>1. /\ Sound(Here) /\ Here.buf = buf /\ Here.cursor = cursor
  BY SoundHere, HereCursor
<1>2. /\ CallEffect(Here, Spliced(buf, at, end, bytes), end + Len(bytes) - 1, r)
      /\ end + Len(bytes) - 1 \in Offset /\ at < end /\ end <= cursor
      /\ Len(bytes) >= 1 /\ Within(end + Len(bytes) - 1, limit) /\ Len(bytes) \in Nat
  BY <1>1, AdapterType, ExpandSpanEffect
<1>3. /\ buf' = Spliced(buf, at, end, bytes)
      /\ cursor' = Larger(cursor, end + Len(bytes) - 1)
  BY <1>1, <1>2 DEF CallEffect, Become
<1> QED BY <1>2, <1>3, SpliceStep

-----------------------------------------------------------------------------
(* Every action of the writer is a step of the representation.             *)
LEMMA WriterRefines ==
  ASSUME IInv, WriterNext PROVE Rep!Next \/ UNCHANGED Rep!absVars
<1>1. phase = "open" /\ array = Closed /\ frames = <<>>
  BY DEF WriterNext, WriterWrite, WriterWriteAt, WriterFillAt, WriterReserve,
         WriterExpandIntegerAt, OnWriter, ChildAt, FixedChildAt, Finish, AtWriter
<1>2. /\ Lo = 0 /\ Hi = UsizeMax /\ cursor \in Offset /\ 0 \in Offset
      /\ \A x \in Offset : x \in Nat /\ x <= UsizeMax
  BY <1>1, WindowFacts, Domains
<1>3. ASSUME NEW answers, OnWriter(answers), NEW r \in answers, Honest(Here, r), Become(r),
             r.res # "Ok"
      PROVE  UNCHANGED Rep!absVars
  BY <1>3, FailedStep, WindowKept, StutterStep DEF OnWriter, Same
<1>4. ASSUME NEW at \in Offset, NEW bytes \in Chunk, OnWriter(WriteAt(Here, at, bytes))
      PROVE  Rep!Next \/ UNCHANGED Rep!absVars
  <2>1. PICK r \in WriteAt(Here, at, bytes) : Become(r)
    BY <1>4 DEF OnWriter
  <2>2. /\ Lo' = Lo /\ Hi' = Hi /\ phase' = phase
    BY <1>4, WindowKept DEF OnWriter, Same
  <2>3. CASE r.res = "Ok"
    <3>1. at + Len(bytes) <= UsizeMax
      BY <2>3, SoundHere, AdapterType, WriteAtEffect
    <3> QED BY <2>1, <2>2, <2>3, <3>1, <1>1, <1>2, WriteStep
  <2>4. CASE r.res # "Ok"
    BY <2>1, <2>4, <1>3, <1>4, HereHonest
  <2> QED BY <2>3, <2>4
<1>5. ASSUME NEW at \in Offset, NEW n \in Offset, WriterFillAt(at, n)
      PROVE  Rep!Next \/ UNCHANGED Rep!absVars
  <2>1. PICK r \in FillAt(Here, at, n) : Become(r)
    BY <1>5 DEF WriterFillAt, OnWriter
  <2>2. /\ Lo' = Lo /\ Hi' = Hi /\ phase' = phase /\ n \in Nat
    BY <1>5, <1>2, WindowKept DEF WriterFillAt, OnWriter, Same
  <2>3. CASE r.res = "Ok"
    <3>1. at + n <= UsizeMax
      BY <2>2, <2>3, SoundHere, AdapterType, FillAtEffect
    <3> QED BY <2>1, <2>2, <2>3, <3>1, <1>1, <1>2, FillStep
  <2>4. CASE r.res # "Ok"
    BY <2>1, <2>2, <2>4, <1>3, <1>5, HereHonest DEF WriterFillAt
  <2> QED BY <2>3, <2>4
<1>6. ASSUME NEW min \in Offset, NEW suggested \in Offset, WriterReserve(min, suggested)
      PROVE  UNCHANGED Rep!absVars
  <2>1. PICK r \in WriterEnsure(Here, min, suggested) : Become(r)
    BY <1>6 DEF WriterReserve, OnWriter
  <2>2. EnsureEffect(Here, min, r)
    BY <2>1, SoundHere, AdapterType, EnsureContract
  <2>3. buf' = buf /\ cursor' = cursor
    BY <2>1, <2>2, HereCursor DEF EnsureEffect, Become
  <2> QED BY <2>3, <1>6, WindowKept, StutterStep DEF WriterReserve, OnWriter, Same
<1>7. ASSUME NEW at \in Offset, NEW bytes \in Chunk, WriterExpandIntegerAt(at, bytes)
      PROVE  Rep!Next \/ UNCHANGED Rep!absVars
  <2>1. PICK r \in ExpandSpan(Here, at, cursor, bytes, NoLimit) : Become(r)
    BY <1>7 DEF WriterExpandIntegerAt, OnWriter
  <2>2. /\ Lo' = Lo /\ Hi' = Hi /\ phase' = phase
    BY <1>7, WindowKept DEF WriterExpandIntegerAt, OnWriter, Same
  <2>3. CASE r.res = "Ok"
    BY <2>1, <2>2, <2>3, <1>1, <1>2, ExpandStep
  <2>4. CASE r.res # "Ok"
    <3>1. Honest(Here, r)
      BY <1>2, HereHonest
    <3> QED BY <2>1, <2>4, <3>1, <1>3, <1>7 DEF WriterExpandIntegerAt
  <2> QED BY <2>3, <2>4
<1>8. ASSUME NEW position \in Offset, ChildAt(position)
      PROVE  Rep!Next \/ UNCHANGED Rep!absVars
  <2>1. UNCHANGED <<array, origin, phase>>
    BY <1>8 DEF ChildAt, Same
  <2>2. CASE position < cursor
    <3>1. buf' = buf /\ cursor' = cursor /\ frames' = frames
      BY <1>8, <2>2, HereCursor DEF ChildAt, Become, Err
    <3> QED BY <3>1, <2>1, WindowKept, StutterStep
  <2>3. CASE ~(position < cursor)
    <3>1. PICK r \in WriterEnsure(Here, position, position) :
            IF r.res = "Ok"
            THEN /\ Become(Ok([r.out EXCEPT !.cursor = position]))
                 /\ frames' = <<NewFrame(position, NoLimit)>>
            ELSE Become(r) /\ UNCHANGED frames
      BY <1>8, <2>3 DEF ChildAt
    <3>2. EnsureEffect(Here, position, r)
      BY SoundHere, AdapterType, HereCursor, EnsureContract
    <3>3. CASE r.res # "Ok"
      <4>1. buf' = buf /\ cursor' = cursor
        BY <3>1, <3>2, <3>3, HereCursor DEF EnsureEffect, Become
      <4> QED BY <4>1, <3>1, <3>3, <2>1, WindowKept, StutterStep
    <3>4. CASE r.res = "Ok"
      <4>1. buf' = buf /\ cursor' = position
        BY <3>1, <3>2, <3>4, HereCursor DEF EnsureEffect, Answers, Out, Become, Ok
      <4>2. frames' = <<NewFrame(position, NoLimit)>>
        BY <3>1, <3>4
      <4>3. Lo' = position /\ Hi' = UsizeMax
        BY <4>2 DEF Lo, Hi, NewFrame
      <4>4. position = IF position > cursor THEN position ELSE cursor
        BY <2>3, <1>2
      <4>5. UsizeMax \in Offset
        BY <1>2, OutputAssumption DEF Offset
      <4> QED BY <4>1, <4>3, <4>4, <4>5, <2>1, <1>1, <1>2, NarrowStep
    <3> QED BY <3>3, <3>4
  <2> QED BY <2>2, <2>3
<1>9. ASSUME NEW position \in Offset, NEW n \in Offset, FixedChildAt(position, n)
      PROVE  Rep!Next \/ UNCHANGED Rep!absVars
  <2> DEFINE end == position + n
  <2>1. UNCHANGED <<array, origin, phase>>
    BY <1>9 DEF FixedChildAt, Same
  <2>2. CASE end > UsizeMax
    <3>1. buf' = buf /\ cursor' = cursor /\ frames' = frames
      BY <1>9, <2>2, HereCursor DEF FixedChildAt, Become, Err
    <3> QED BY <3>1, <2>1, WindowKept, StutterStep
  <2>3. CASE ~(end > UsizeMax)
    <3>1. end \in Offset /\ position <= end /\ Larger(end, cursor) \in Offset
      BY <2>3, <1>2, Domains DEF Offset, Larger
    <3>2. PICK r \in WriterEnsure(Here, end, Larger(end, cursor)) :
            /\ Become(r)
            /\ IF r.res = "Ok" THEN frames' = <<NewFrame(position, end)>>
               ELSE UNCHANGED frames
      BY <1>9, <2>3 DEF FixedChildAt
    <3>3. EnsureEffect(Here, end, r)
      BY <3>1, SoundHere, AdapterType, EnsureContract
    <3>4. buf' = buf /\ cursor' = cursor
      BY <3>2, <3>3, HereCursor DEF EnsureEffect, Become
    <3>5. CASE r.res # "Ok"
      BY <3>2, <3>4, <3>5, <2>1, WindowKept, StutterStep
    <3>6. CASE r.res = "Ok"
      <4>1. frames' = <<NewFrame(position, end)>> /\ end # NoLimit
        BY <3>1, <3>2, <3>6, OutputAssumption, Domains
      <4>2. Lo' = position /\ Hi' = end
        BY <4>1 DEF Lo, Hi, NewFrame
      <4> QED BY <4>2, <3>1, <3>4, <2>1, <1>1, <1>2, NarrowStep
    <3> QED BY <3>5, <3>6
  <2> QED BY <2>2, <2>3
<1>10. CASE Finish
  <2>1. Rep!Seal
    BY <1>10 DEF Rep!Seal, Finish, outputVars
  <2> QED BY <2>1, <1>1 DEF Rep!Next
<1> QED
  BY <1>2, <1>4, <1>5, <1>6, <1>7, <1>8, <1>9, <1>10
  DEF WriterNext, WriterWrite, WriterWriteAt

(* Every action of the array facade is.                                    *)
LEMMA ArrayRefines ==
  ASSUME IInv, ArrayNext PROVE Rep!Next \/ UNCHANGED Rep!absVars
<1>1. phase = "open" /\ frames = <<>> /\ phase' = phase
  BY DEF ArrayNext, ArrayOpen, ArrayClose, ArrayItem, ArrayCopy, AtWriter, AtArray, Same
<1>2. /\ Lo \in Offset /\ Lo <= cursor /\ Hi = UsizeMax /\ Hi \in Offset
      /\ Lo = (IF array # Closed THEN origin ELSE 0)
      /\ cursor \in Offset /\ origin \in Offset /\ 0 \in Offset
      /\ \A x \in Offset : x \in Nat /\ x <= UsizeMax
  BY <1>1, WindowFacts, Domains
<1>3. ASSUME frames' = <<>>, array' = Closed, buf' = buf, cursor' = cursor
      PROVE  Rep!Next
  <2>1. Lo' = 0 /\ Hi' = UsizeMax
    BY <1>3, WindowClosed
  <2> QED BY <1>1, <1>2, <1>3, <2>1, WidenStep
<1>4. CASE ArrayOpen
  <2>1. frames' = <<>> /\ array' # Closed /\ origin' = cursor /\ array = Closed
        /\ buf' = buf /\ cursor' = cursor
    BY <1>1, <1>4, OutputAssumption DEF ArrayOpen, AtWriter, outputVars
  <2>2. Lo' = cursor /\ Hi' = UsizeMax
    BY <2>1, WindowClosed
  <2> QED BY <1>1, <1>2, <2>1, <2>2, NarrowStep
<1>5. CASE ArrayClose
  BY <1>1, <1>3, <1>5 DEF ArrayClose, outputVars
<1>6. CASE ArrayItem
  <2>1. PICK r \in WriterEnsure(Here, cursor, cursor) :
          /\ Become(r)
          /\ IF r.res = "Ok"
             THEN frames' = <<[NewFrame(cursor, NoLimit) EXCEPT !.count = array],
                              NewFrame(cursor, NoLimit)>>
             ELSE UNCHANGED frames /\ array' = Closed
    BY <1>6 DEF ArrayItem
  <2>2. EnsureEffect(Here, cursor, r)
    BY <1>2, SoundHere, AdapterType, EnsureContract
  <2>3. buf' = buf /\ cursor' = cursor
    BY <2>1, <2>2, HereCursor DEF EnsureEffect, Become
  <2>4. CASE r.res = "Ok"
    <3>1. /\ Len(frames') = 2 /\ frames' # <<>>
          /\ frames'[2] = NewFrame(cursor, NoLimit)
      BY <2>1, <2>4
    <3>2. Lo' = cursor /\ Hi' = UsizeMax
      BY <3>1 DEF Lo, Hi, NewFrame
    <3> QED BY <1>1, <1>2, <2>3, <3>2, NarrowStep
  <2>5. CASE r.res # "Ok"
    BY <1>1, <1>3, <2>1, <2>3, <2>5
  <2> QED BY <2>4, <2>5
<1>7. ASSUME NEW bytes \in Chunk, NEW n \in 0..MaxChunk, ArrayCopy(n, bytes)
      PROVE  Rep!Next \/ UNCHANGED Rep!absVars
  <2>1. CASE n > 0 /\ Len(bytes) = 0
    <3>1. frames' = <<>> /\ array' = Closed /\ buf' = buf /\ cursor' = cursor
      BY <1>1, <1>7, <2>1, HereCursor DEF ArrayCopy, Become, Err
    <3> QED BY <3>1, <1>3
  <2>2. CASE ~(n > 0 /\ Len(bytes) = 0)
    <3>1. PICK r \in WriteAt(Here, cursor, bytes) :
            /\ Become(r)
            /\ IF r.res = "Ok" THEN array' = array + n /\ UNCHANGED origin
               ELSE array' = Closed /\ origin' = 0
      BY <1>7, <2>2 DEF ArrayCopy
    <3>2. frames' = <<>> /\ array # Closed
      BY <1>1, <1>7 DEF ArrayCopy, AtArray
    <3>3. CASE r.res = "Ok"
      <4>1. array' \in Int /\ array' # Closed /\ origin' = origin
        BY <3>1, <3>2, <3>3, OutputAssumption DEF IInv, TypeOK
      <4>2. Lo' = Lo /\ Hi' = Hi
        BY <1>2, <3>2, <4>1, WindowClosed
      <4>3. cursor + Len(bytes) <= UsizeMax
        BY <1>2, <3>3, SoundHere, AdapterType, WriteAtEffect
      <4> QED BY <1>1, <1>2, <3>1, <3>3, <4>2, <4>3, WriteStep
    <3>4. CASE r.res # "Ok"
      BY <1>2, <1>3, <3>1, <3>2, <3>4, HereHonest, FailedStep
    <3> QED BY <3>3, <3>4
  <2> QED BY <2>1, <2>2
<1> QED BY <1>4, <1>5, <1>6, <1>7 DEF ArrayNext

(* Every call on the innermost child is.                                   *)
LEMMA ChildRefines ==
  ASSUME IInv, ChildNext PROVE Rep!Next \/ UNCHANGED Rep!absVars
<1>1. phase = "open" /\ frames # <<>> /\ phase' = phase
  BY DEF ChildNext, ChildWrite, ChildFillTo, ChildPatchAt, ChildExpandIntegerAt,
         BeginItem, EndItem, FailItem, ChildFinish, OnChild, AtChild, Same
<1>2. /\ Lo = Top.start /\ Depth = Len(frames) /\ Depth \in Nat \ {0}
      /\ Top.start \in Offset /\ Top.cursor \in Offset
      /\ Top.limit \in Offset \cup {NoLimit}
      /\ Top.start <= Top.cursor /\ Top.cursor <= Hi
      /\ Hi = IF Top.limit # NoLimit THEN Top.limit ELSE UsizeMax
      /\ \A p \in Offset : Within(p, Top.limit) => p <= Hi
      /\ Lo \in Offset /\ Hi \in Offset /\ cursor \in Offset /\ origin \in Offset
      /\ 0 \in Offset /\ \A x \in Offset : x \in Nat /\ x <= UsizeMax
      /\ \A x \in Nat : x <= UsizeMax => x \in Offset
  BY <1>1, WindowFacts, Domains DEF Offset
<1>3. /\ frames \in Seq(Frame) /\ Len(frames) \in Nat
      /\ \A i \in 1..Len(frames) :
           /\ frames[i].start \in Offset /\ frames[i].cursor \in Offset
           /\ frames[i].limit \in Offset \cup {NoLimit}
           /\ frames[i].start <= frames[i].cursor
           /\ i > 1 => /\ frames[i].start = frames[i - 1].cursor
                       /\ frames[i].limit = frames[i - 1].limit
  BY FrameFacts DEF IInv, TypeOK, ChildrenNested
<1>4. ASSUME OnChild, NEW e, ChildError(e) PROVE UNCHANGED Rep!absVars
  BY <1>1, <1>4, HereCursor, WindowKept, StutterStep DEF OnChild, ChildError, Become, Err
<1>5. ASSUME OnChild, NEW answers, NEW position, Through(answers, position),
             \A r \in answers : Honest(Here, r),
             \A r \in answers : r.res = "Ok" => position \in Offset,
             \A r \in answers :
               r.res = "Ok" /\ Become(r) /\ Lo' = Lo /\ Hi' = Hi => Rep!Next
      PROVE  Rep!Next \/ UNCHANGED Rep!absVars
  <2>1. PICK r \in answers :
          Become(r) /\ frames' = (IF r.res = "Ok" THEN Advanced(position) ELSE frames)
    BY <1>5 DEF Through
  <2>2. UNCHANGED <<array, origin>>
    BY <1>5 DEF OnChild
  <2>3. CASE r.res = "Ok"
    <3>1. /\ frames' \in Seq(Frame) /\ Len(frames') = Len(frames)
          /\ frames'[Len(frames)].start = frames[Len(frames)].start
          /\ frames'[Len(frames)].limit = frames[Len(frames)].limit
      BY <1>1, <1>2, <1>3, <1>5, <2>1, <2>3, AdvancedFacts
    <3>2. frames' # <<>>
      BY <1>2, <3>1
    <3>3. Lo' = Lo /\ Hi' = Hi
      BY <1>1, <3>1, <3>2 DEF Lo, Hi
    <3> QED BY <1>5, <2>1, <2>3, <3>3
  <2>4. CASE r.res # "Ok"
    BY <1>1, <1>5, <2>1, <2>2, <2>4, FailedStep, WindowKept, StutterStep
  <2> QED BY <2>3, <2>4
<1>6. ASSUME NEW bytes \in Chunk, ChildWrite(bytes)
      PROVE  Rep!Next \/ UNCHANGED Rep!absVars
  <2> DEFINE end == Top.cursor + Len(bytes)
  <2>1. OnChild /\ Len(bytes) \in Nat
    BY <1>6, OutputAssumption DEF ChildWrite, Chunk
  <2>2. CASE end > UsizeMax \/ ~Within(end, Top.limit)
    BY <1>4, <1>6, <2>1, <2>2 DEF ChildWrite
  <2>3. CASE ~(end > UsizeMax) /\ Within(end, Top.limit)
    <3>1. Through(WriteAt(Here, Top.cursor, bytes), end)
      BY <1>6, <2>3 DEF ChildWrite
    <3>2. end \in Offset /\ end <= Hi
      <4>1. end \in Nat /\ end <= UsizeMax
        BY <1>2, <2>1, <2>3, Domains
      <4> QED BY <4>1, <1>2, <2>3
    <3>3. ASSUME NEW r \in WriteAt(Here, Top.cursor, bytes), r.res = "Ok", Become(r),
                 Lo' = Lo, Hi' = Hi
          PROVE  Rep!Next
      BY <1>1, <1>2, <3>2, <3>3, WriteStep
    <3>4. \A r \in WriteAt(Here, Top.cursor, bytes) : Honest(Here, r)
      BY <1>2, HereHonest
    <3> HIDE DEF end
    <3> QED BY <1>5, <2>1, <3>1, <3>2, <3>3, <3>4
  <2> QED BY <2>2, <2>3
<1>7. ASSUME NEW position \in Offset, ChildFillTo(position)
      PROVE  Rep!Next \/ UNCHANGED Rep!absVars
  <2> DEFINE n == position - Top.cursor
  <2>1. OnChild
    BY <1>7 DEF ChildFillTo
  <2>2. CASE position < Top.cursor \/ ~Within(position, Top.limit)
    BY <1>4, <1>7, <2>1, <2>2 DEF ChildFillTo
  <2>3. CASE ~(position < Top.cursor) /\ Within(position, Top.limit)
    <3>1. Through(FillAt(Here, Top.cursor, n), position)
      BY <1>7, <2>3 DEF ChildFillTo
    <3>2. n \in Nat /\ Top.cursor + n = position /\ position <= Hi
      BY <1>2, <2>3
    <3>3. ASSUME NEW r \in FillAt(Here, Top.cursor, n), r.res = "Ok", Become(r),
                 Lo' = Lo, Hi' = Hi
          PROVE  Rep!Next
      BY <1>1, <1>2, <3>2, <3>3, FillStep
    <3>4. \A r \in FillAt(Here, Top.cursor, n) : Honest(Here, r)
      BY <1>2, <3>2, HereHonest
    <3> HIDE DEF n
    <3> QED BY <1>5, <2>1, <3>1, <3>3, <3>4
  <2> QED BY <2>2, <2>3
<1>8. ASSUME NEW at \in Offset, NEW bytes \in Chunk, ChildPatchAt(at, bytes)
      PROVE  Rep!Next \/ UNCHANGED Rep!absVars
  <2> DEFINE end == at + Len(bytes)
  <2>1. OnChild /\ Len(bytes) \in Nat
    BY <1>8, OutputAssumption DEF ChildPatchAt, Chunk
  <2>2. CASE end > UsizeMax \/ at < Top.start \/ end > Top.cursor
    BY <1>4, <1>8, <2>1, <2>2 DEF ChildPatchAt
  <2>3. CASE ~(end > UsizeMax \/ at < Top.start \/ end > Top.cursor)
    <3>1. Through(WriteAt(Here, at, bytes), Top.cursor)
      BY <1>8, <2>3 DEF ChildPatchAt
    <3>2. end <= Hi /\ Lo <= at
      BY <1>2, <2>1, <2>3
    <3>3. ASSUME NEW r \in WriteAt(Here, at, bytes), r.res = "Ok", Become(r),
                 Lo' = Lo, Hi' = Hi
          PROVE  Rep!Next
      BY <1>1, <3>2, <3>3, WriteStep
    <3>4. \A r \in WriteAt(Here, at, bytes) : Honest(Here, r)
      BY HereHonest
    <3> HIDE DEF end
    <3> QED BY <1>2, <1>5, <2>1, <3>1, <3>3, <3>4
  <2> QED BY <2>2, <2>3
<1>9. ASSUME NEW at \in Offset, NEW bytes \in Chunk, ChildExpandIntegerAt(at, bytes)
      PROVE  Rep!Next \/ UNCHANGED Rep!absVars
  <2> DEFINE answers == ExpandSpan(Here, at, Top.cursor, bytes, Top.limit)
             after == Top.cursor + Len(bytes) - 1
  <2>1. OnChild
    BY <1>9 DEF ChildExpandIntegerAt
  <2>2. CASE at < Top.start
    BY <1>4, <1>9, <2>1, <2>2 DEF ChildExpandIntegerAt
  <2>3. CASE ~(at < Top.start)
    <3>1. Through(answers, after)
      BY <1>9, <2>3 DEF ChildExpandIntegerAt
    <3>2. Lo <= at
      BY <1>2, <2>3
    <3>3. ASSUME NEW r \in answers, r.res = "Ok", Become(r), Lo' = Lo, Hi' = Hi
          PROVE  Rep!Next
      BY <1>1, <1>2, <3>2, <3>3, ExpandStep
    <3>4. \A r \in answers : Honest(Here, r)
      BY <1>2, HereHonest
    <3>5. \A r \in answers : r.res = "Ok" => after \in Offset
      BY <1>2, SoundHere, AdapterType, ExpandSpanEffect
    <3> HIDE DEF answers, after
    <3> QED BY <1>5, <2>1, <3>1, <3>3, <3>4, <3>5
  <2> QED BY <2>2, <2>3
<1>10. CASE BeginItem
  <2>1. /\ frames' = Append(frames, NewFrame(Top.cursor, Top.limit))
        /\ buf' = buf /\ cursor' = cursor
    BY <1>10 DEF BeginItem
  <2>2. /\ Len(frames') = Len(frames) + 1 /\ frames' # <<>>
        /\ frames'[Len(frames) + 1] = NewFrame(Top.cursor, Top.limit)
    BY <1>3, <2>1
  <2>3. Lo' = Top.cursor /\ Hi' = Hi
    BY <1>2, <2>2 DEF Lo, Hi, NewFrame
  <2> QED BY <1>1, <1>2, <2>1, <2>3, NarrowStep
<1>11. ASSUME Depth > 1, Len(frames') = Depth - 1, frames' # <<>>,
              frames'[Depth - 1].start = frames[Depth - 1].start,
              frames'[Depth - 1].limit = frames[Depth - 1].limit,
              buf' = buf, cursor' = cursor
       PROVE  Rep!Next
  <2>1. /\ Depth \in 1..Len(frames) /\ Depth - 1 \in 1..Len(frames)
        /\ Top = frames[Depth]
    BY <1>2, <1>11 DEF Top
  <2>2. Lo' = frames[Depth - 1].start /\ Lo' \in Offset /\ Lo' <= Lo
    <3>1. Lo' = frames[Depth - 1].start
      BY <1>11 DEF Lo
    <3>2. frames[Depth - 1].start <= frames[Depth - 1].cursor
      BY <1>3, <2>1
    <3>3. frames[Depth - 1].cursor = Top.start
      BY <1>3, <1>11, <2>1
    <3> QED BY <3>1, <3>2, <3>3, <1>2, <1>3, <2>1
  <2>3. Hi' = Hi
    <3>1. frames[Depth - 1].limit = Top.limit
      BY <1>3, <1>11, <2>1
    <3> QED BY <3>1, <1>2, <1>11 DEF Hi
  <2> QED BY <1>1, <1>2, <1>11, <2>2, <2>3, WidenStep
<1>12. ASSUME frames' = <<>>, array' = Closed \/ (array # Closed /\ origin' = origin),
              buf' = buf, cursor' = cursor
       PROVE  Rep!Next
  <2>1. Hi' = UsizeMax /\ Hi' \in Offset /\ Hi <= Hi'
    BY <1>2, <1>12, WindowClosed, OutputAssumption
  <2>2. Lo' = 0 \/ (array # Closed /\ Lo' = origin)
    BY <1>12, WindowClosed
  <2>3. array # Closed => origin <= Lo
    <3> SUFFICES ASSUME array # Closed PROVE origin <= Lo
      OBVIOUS
    <3>1. Len(frames) > 1 /\ origin <= frames[1].start
      BY <1>1 DEF IInv, ChildrenNested
    <3>2. 1 \in 1..Len(frames) /\ frames[1].start <= frames[1].cursor
      BY <1>3, <3>1
    <3>3. frames[1].cursor <= frames[Len(frames)].start
      BY <1>3, <3>1 DEF IInv, FramesOrdered
    <3>4. Lo = frames[Len(frames)].start
      BY <1>1 DEF Lo
    <3> QED BY <3>1, <3>2, <3>3, <3>4, <1>2, <1>3
  <2> QED BY <1>1, <1>2, <1>12, <2>1, <2>2, <2>3, WidenStep
<1>13. CASE EndItem
  <2>1. Depth > 1 /\ buf' = buf /\ cursor' = cursor
    BY <1>13 DEF EndItem, outputVars
  <2>2. CASE array # Closed /\ Depth = 2
    BY <1>12, <1>13, <2>1, <2>2 DEF EndItem
  <2>3. CASE ~(array # Closed /\ Depth = 2)
    <3>1. frames' = Delivered
      BY <1>13, <2>3 DEF EndItem
    <3>2. Depth - 1 \in Nat /\ Depth - 1 \in 1..(Depth - 1)
      BY <1>2, <2>1
    <3>3. /\ Len(frames') = Depth - 1
          /\ frames'[Depth - 1].start = frames[Depth - 1].start
          /\ frames'[Depth - 1].limit = frames[Depth - 1].limit
      <4>1. Delivered \in [1..(Depth - 1) -> {Delivered[i] : i \in 1..(Depth - 1)}]
        BY DEF Delivered
      <4>2. Len(Delivered) = Depth - 1
        BY <3>2, <4>1
      <4> QED BY <3>1, <3>2, <4>2 DEF Delivered
    <3>4. frames' # <<>>
      BY <3>2, <3>3
    <3> QED BY <1>11, <2>1, <3>3, <3>4
  <2> QED BY <2>2, <2>3
<1>14. CASE FailItem
  <2>1. Depth > 1 /\ buf' = buf /\ cursor' = cursor
    BY <1>14 DEF FailItem, outputVars
  <2>2. CASE array # Closed /\ Depth = 2
    BY <1>12, <1>14, <2>1, <2>2 DEF FailItem
  <2>3. CASE ~(array # Closed /\ Depth = 2)
    <3>1. frames' = Popped(frames)
      BY <1>14, <2>3 DEF FailItem
    <3>2. Len(frames') = Depth - 1 /\ frames'[Depth - 1] = frames[Depth - 1]
      BY <1>1, <1>2, <1>3, <2>1, <3>1, PoppedFacts
    <3>3. frames' # <<>>
      BY <1>2, <2>1, <3>2
    <3> QED BY <1>11, <2>1, <3>2, <3>3
  <2> QED BY <2>2, <2>3
<1>15. CASE ChildFinish
  <2>1. array = Closed
    BY <1>1, <1>2, <1>15 DEF ChildFinish, IInv, ChildrenNested
  <2> QED BY <1>12, <1>15, <2>1 DEF ChildFinish, OnChild
<1> QED
  BY <1>6, <1>7, <1>8, <1>9, <1>10, <1>13, <1>14, <1>15 DEF ChildNext

-----------------------------------------------------------------------------
LEMMA InitRefines == ASSUME Init PROVE Rep!Init
<1>1. {x \in Addr : buf[x] # Junk} = {}
  BY DEF Init
<1>2. [a \in {x \in Addr : buf[x] # Junk} |-> buf[a]] = [a \in {} |-> 0]
  BY <1>1
<1> QED BY <1>2 DEF Init, Rep!Init

LEMMA StepRefines == ASSUME IInv, [Next]_vars PROVE [Rep!Next]_(Rep!absVars)
<1>1. CASE UNCHANGED vars
  <2>1. UNCHANGED Rep!absVars
    BY <1>1, WindowKept, StutterStep DEF vars, outputVars, callVars
  <2> QED BY <2>1
<1> QED BY <1>1, WriterRefines, ArrayRefines, ChildRefines DEF Next

(* The output layer implements WireRepresentation: growth, relocation and  *)
(* errors are invisible, nothing put is lost or moved except by the        *)
(* announced integer expansion, and a facade writes to its window only.    *)
THEOREM Refinement == Spec => ImplementsRepresentation
<1>1. Init => Rep!Init
  BY InitRefines
<1>2. IInv /\ [Next]_vars => [Rep!Next]_(Rep!absVars)
  BY StepRefines
<1> QED BY <1>1, <1>2, Invariance, PTL DEF Spec, ImplementsRepresentation, Rep!Spec

=============================================================================
