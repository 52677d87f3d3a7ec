-------------------------- MODULE StructView_proofs --------------------------
(***************************************************************************)
(* Proofs about StructView, for every set of field declarations, every     *)
(* content and every length of the input: what the derive computes at      *)
(* compile time is true of what the generated code does.                   *)
(***************************************************************************)
EXTENDS StructView, Iteration, SequenceTheorems

-----------------------------------------------------------------------------
(* Arithmetic of items.                                                    *)
LEMMA Product ==
  ASSUME NEW a \in Nat, NEW b \in Nat PROVE a * b \in Nat
OBVIOUS

LEMMA WholeItems ==
  ASSUME NEW d \in Nat \ {0}, NEW x \in Nat, NEW n \in Nat
  PROVE  x \div d \in Nat /\ (n <= x \div d <=> n * d <= x)
<1> DEFINE q == x \div d
<1>1. q \in Nat /\ q * d <= x /\ x < q * d + d
  OBVIOUS
<1> HIDE DEF q
<1>2. ASSUME n <= q PROVE n * d <= q * d
  BY <1>1, <1>2
<1>3. ASSUME q + 1 <= n PROVE (q + 1) * d <= n * d
  BY <1>1, <1>3
<1>4. (q + 1) * d = q * d + d /\ q * d \in Nat /\ n * d \in Nat
  BY <1>1
<1>5. n <= q <=> n * d <= x
  BY <1>1, <1>2, <1>3, <1>4
<1> QED BY <1>1, <1>5 DEF q

-----------------------------------------------------------------------------
(* What acceptance says about the fields of a struct.                      *)
Content == [ok : BOOLEAN, value : Nat, extent : Nat \ {0}]

Normalized(s) ==
  /\ s \in Seq(Field)
  /\ \A i \in DOMAIN s :
       /\ i < Len(s) => s[i].kind # "rest"
       /\ s[i].kind \in {"flag", "bits"} => ~Placed(s[i])

(* Whatever decides about a field was framed before it.                    *)
Located(s) ==
  \A i \in DOMAIN s :
    /\ s[i].cond # 0 =>
         /\ s[i].cond \in 1..(i - 1) /\ s[s[i].cond].ctrl \in 1..(i - 1)
         /\ Numeric(s[i]) /\ ~Placed(s[i])
    /\ s[i].kind = "array" => s[i].ctrl \in 1..(i - 1)
    /\ s[i].kind \in {"raw", "nested"} /\ s[i].ctrl # 0 => s[i].ctrl \in 1..(i - 1)
    /\ s[i].at # <<>> /\ s[i].at[1] = "field" => s[i].at[2] \in 1..(i - 1)

LEMMA FieldTypes ==
  ASSUME NEW f \in Field
  PROVE  /\ f.kind \in {"scalar", "varint", "bytes", "flag", "bits", "raw", "rest",
                        "array", "nested"}
         /\ f.width \in Nat /\ f.ctrl \in Nat /\ f.cond \in Nat
         /\ f.pad \in Nat /\ f.align \in Nat
         /\ f.at # <<>> => f.at[1] \in {"static", "field"} /\ f.at[2] \in Nat
         /\ f.child.fixed \in Nat \cup {None} /\ f.child.leading \in BOOLEAN
         /\ f.child.deferred \in BOOLEAN
         /\ f.kind = "raw" => f.ctrl # 0
BY DEF Field, Promise

LEMMA AcceptedLocated ==
  ASSUME NEW s, s \in Seq(Field), Accepted(s)
  PROVE  Located(s)
<1> SUFFICES ASSUME NEW i \in DOMAIN s
             PROVE  /\ s[i].cond # 0 =>
                         /\ s[i].cond \in 1..(i - 1) /\ s[s[i].cond].ctrl \in 1..(i - 1)
                         /\ Numeric(s[i]) /\ ~Placed(s[i])
                    /\ s[i].kind = "array" => s[i].ctrl \in 1..(i - 1)
                    /\ s[i].kind \in {"raw", "nested"} /\ s[i].ctrl # 0
                         => s[i].ctrl \in 1..(i - 1)
                    /\ s[i].at # <<>> /\ s[i].at[1] = "field" => s[i].at[2] \in 1..(i - 1)
  BY DEF Located
<1>1. ASSUME s[i].cond # 0
      PROVE  /\ s[i].cond \in 1..(i - 1) /\ s[s[i].cond].ctrl \in 1..(i - 1)
             /\ Numeric(s[i]) /\ ~Placed(s[i])
  <2> DEFINE g == s[i].cond
  <2>1. g \in 1..(i - 1) /\ s[g].kind = "flag" /\ Numeric(s[i]) /\ ~Placed(s[i])
    BY <1>1 DEF Accepted, ConditionsAccepted
  <2>2. i \in 1..Len(s) /\ g \in DOMAIN s
    BY <2>1
  <2>3. g \in FlagRoles(s)
    BY <2>1, <2>2 DEF FlagRoles
  <2>4. s[g].ctrl \in 1..(g - 1)
    BY <2>3 DEF Accepted, ConditionsAccepted
  <2> HIDE DEF g
  <2>5. s[g].ctrl \in 1..(i - 1)
    BY <2>1, <2>2, <2>4
  <2> QED BY <2>1, <2>5 DEF g
<1>2. ASSUME s[i].kind = "array" PROVE s[i].ctrl \in 1..(i - 1)
  BY <1>2 DEF Accepted, ArraysAccepted, CountRoles, ControllerFor
<1>3. ASSUME s[i].kind \in {"raw", "nested"}, s[i].ctrl # 0 PROVE s[i].ctrl \in 1..(i - 1)
  <2>1. i \in LengthRoles(s)
    BY <1>3 DEF LengthRoles
  <2> QED BY <2>1 DEF Accepted, LengthsAccepted, ControllerFor
<1>4. ASSUME s[i].at # <<>>, s[i].at[1] = "field" PROVE s[i].at[2] \in 1..(i - 1)
  <2>1. i \in PlaceRoles(s)
    BY <1>4 DEF PlaceRoles
  <2> QED BY <2>1 DEF Accepted, LengthsAccepted, ControllerFor
<1> QED BY <1>1, <1>2, <1>3, <1>4

-----------------------------------------------------------------------------
(* Sums of sizes.  All of them are differences of one prefix sum.          *)
PrefixSum(s, g) ==
  /\ g \in [0..Len(s) -> Int] /\ g[0] = 0
  /\ \A k \in 1..Len(s) : g[k] = g[k - 1] + Size(s[k])

LEMMA SizeInt ==
  ASSUME NEW f \in Field
  PROVE  Size(f) \in Int /\ (Size(f) = None \/ Size(f) \in Nat)
BY FieldTypes DEF Size, None, DynamicSize

LEMMA PrefixSumExists ==
  ASSUME NEW s, s \in Seq(Field)
  PROVE  \E g : PrefixSum(s, g)
<1> DEFINE step == [k \in Nat |-> [v \in Int |-> IF k \in 1..Len(s) THEN v + Size(s[k]) ELSE v]]
<1>1. Len(s) \in Nat /\ \A k \in 1..Len(s) : s[k] \in Field /\ Size(s[k]) \in Int
  BY SizeInt
<1>2. step \in [Nat -> [Int -> Int]]
  BY <1>1
<1>3. PICK g \in [0..Len(s) -> Int] :
        g[0] = 0 /\ \A k \in 1..Len(s) : g[k] = step[k][g[k - 1]]
  <2> HIDE DEF step
  <2> DEFINE n == Len(s)
  <2>1. n \in Nat /\ 0 \in Int
    BY <1>1
  <2> HIDE DEF n
  <2>2. Iterable(n, Int, 0, step)
    BY <1>2, <2>1, IterationExists
  <2> QED BY <2>2 DEF Iterable, n
<1>4. ASSUME NEW k \in 1..Len(s) PROVE g[k] = g[k - 1] + Size(s[k])
  <2>1. k - 1 \in 0..Len(s) /\ k \in Nat
    BY <1>1
  <2>2. g[k - 1] \in Int /\ g[k] = step[k][g[k - 1]]
    <3> HIDE DEF step
    <3> QED BY <1>3, <2>1
  <2> QED BY <2>1, <2>2
<1> HIDE DEF step
<1>5. PrefixSum(s, g)
  BY <1>3, <1>4 DEF PrefixSum
<1> QED BY <1>5

LEMMA SumBetween ==
  ASSUME NEW s, s \in Seq(Field), NEW g, PrefixSum(s, g),
         NEW from \in 1..(Len(s) + 1), NEW to \in (from - 1)..Len(s),
         \A j \in from..to : Size(s[j]) # None
  PROVE  SumOfSizes(s, from, to) = g[to] - g[from - 1]
<1> DEFINE low == from - 1
           Solves(f) == f = [k \in low..to |-> IF k < from THEN 0 ELSE f[k - 1] + Size(s[k])]
           h == [k \in low..to |-> g[k] - g[low]]
           sum == CHOOSE f : Solves(f)
<1>1. /\ Len(s) \in Nat /\ low \in Nat /\ to \in Nat /\ from = low + 1 /\ low <= to
      /\ to <= Len(s) /\ low \in 0..Len(s)
      /\ \A k \in 0..Len(s) : g[k] \in Int
  BY SMTT(30) DEF PrefixSum
<1>2. ASSUME NEW k \in low..to
      PROVE  h[k] = IF k < from THEN 0 ELSE h[k - 1] + Size(s[k])
  <2>1. CASE k < from
    BY <1>1, <2>1
  <2>2. CASE ~(k < from)
    <3>1. k \in 1..Len(s) /\ k - 1 \in low..to /\ k - 1 \in 0..Len(s) /\ k \in 0..Len(s)
      BY <1>1, <2>2
    <3>2. g[k] = g[k - 1] + Size(s[k]) /\ s[k] \in Field
      BY <3>1 DEF PrefixSum
    <3>3. Size(s[k]) \in Int
      BY <3>2, SizeInt
    <3>4. g[k] \in Int /\ g[k - 1] \in Int /\ g[low] \in Int
      BY <1>1, <3>1
    <3> QED BY <2>2, <3>1, <3>2, <3>3, <3>4
  <2> QED BY <2>1, <2>2
<1>3. Solves(h)
  <2> HIDE DEF low
  <2> QED BY <1>2
<1>4. Solves(sum)
  <2> HIDE DEF Solves, h
  <2> QED BY <1>3
<1>5. SumOfSizes(s, from, to) = sum[to]
  BY DEF SumOfSizes
<1> HIDE DEF sum
<1> DEFINE T == {k \in low..to : sum[k] = h[k]}
<1>6. \A k \in low..to : k \in T
  <2>1. low \in T
    BY <1>1, <1>2, <1>4, SMTT(30)
  <2>2. ASSUME NEW k \in low..(to - 1), k \in T PROVE k + 1 \in T
    <3>1. k + 1 \in low..to /\ ~(k + 1 < from) /\ (k + 1) - 1 = k
      BY <1>1
    <3>2. h[k + 1] = h[k] + Size(s[k + 1])
      <4> HIDE DEF h
      <4> QED BY <1>2, <3>1
    <3>3. sum[k + 1] = sum[k] + Size(s[k + 1])
      BY <1>4, <3>1
    <3> HIDE DEF h
    <3> QED BY <2>2, <3>1, <3>2, <3>3
  <2> HIDE DEF T, low
  <2> QED BY <1>1, <2>1, <2>2, BoundedInduction
<1>7. to \in low..to
  BY <1>1
<1> QED BY <1>5, <1>6, <1>7

-----------------------------------------------------------------------------
(* One field.  FramedAt is what the lemmas below say about: field i of an  *)
(* accepted struct, framed from `start' over `length' bytes as e.          *)
Struct(s) == Normalized(s) /\ Located(s)

FramedAt(s, t, i, start, length, exactly, e) ==
  /\ Struct(s) /\ t \in Seq(Content) /\ i \in DOMAIN s /\ i <= Len(t)
  /\ start \in Nat /\ length \in Nat /\ exactly \in BOOLEAN
  /\ e = FieldEnd(s, t, i, start, length, exactly) /\ e.tag = "ok"

(* The types of what framing reads.                                        *)
LEMMA Reading ==
  ASSUME NEW s, Struct(s), NEW t, t \in Seq(Content), NEW i \in DOMAIN s, i <= Len(t)
  PROVE  /\ i \in 1..Len(s) /\ Len(s) \in Nat /\ i \in 1..Len(t)
         /\ s[i] \in Field /\ t[i] \in Content
         /\ \A c \in 1..(i - 1) : t[c] \in Content /\ s[c] \in Field /\ c \in DOMAIN s
         /\ UsizeMax \in Nat /\ FrameOffset \in Nat
BY WireFramingAssumption DEF Struct, Normalized

(* A child never answers more than it was given.                           *)
LEMMA ChildShape ==
  ASSUME NEW child \in Promise, NEW c \in Content, NEW length \in Nat,
         NEW exactly \in BOOLEAN,
         NEW r, r = ChildFrame(child, c, length, exactly), r.tag = "ok"
  PROVE  /\ r.end \in Nat /\ r.end <= length
         /\ child.fixed # None => r.end = child.fixed
<1>1. /\ child.fixed \in Nat \cup {None} /\ child.leading \in BOOLEAN
      /\ child.deferred \in BOOLEAN
      /\ c.extent \in Nat \ {0} /\ c.ok \in BOOLEAN
  BY DEF Promise, Content
<1>2. CASE child.fixed # None
  BY <1>1, <1>2 DEF ChildFrame, Taken, Checked, Span, Fault, NeedMore
<1>3. CASE child.fixed = None /\ (~child.leading \/ (exactly /\ child.deferred))
  BY <1>1, <1>3 DEF ChildFrame, Checked, Span, Fault, NeedMore
<1>4. CASE child.fixed = None /\ child.leading /\ ~(exactly /\ child.deferred)
  BY <1>1, <1>4 DEF ChildFrame, Checked, Span, Fault, NeedMore
<1> QED BY <1>1, <1>2, <1>3, <1>4

(* Which code frames a field.                                              *)
LEMMA EndByKind ==
  ASSUME NEW s, NEW t, NEW i, NEW start, NEW length, NEW exactly, s[i] \in Field,
         NEW e, e = FieldEnd(s, t, i, start, length, exactly)
  PROVE  /\ Numeric(s[i]) => e = ScalarEnd(s, t, i, start, length)
         /\ s[i].kind = "bytes" =>
              e = Checked(Taken(start, start + s[i].width, length), t[i].ok, "schema")
         /\ s[i].kind \in {"flag", "bits"} => e = Span(start, start)
         /\ s[i].kind = "raw" => e = Taken(start, start + t[s[i].ctrl].value, length)
         /\ s[i].kind = "rest" => e = Taken(start, Max({start, length}), length)
         /\ s[i].kind = "array" => e = ArrayEnd(s, t, i, start, length, exactly)
         /\ s[i].kind = "nested" /\ s[i].ctrl # 0 =>
              e = BoundedChildEnd(s, t, i, start, length)
         /\ s[i].kind = "nested" /\ s[i].ctrl = 0 =>
              e = ChildEnd(s, t, i, start, length, exactly)
         /\ \/ Numeric(s[i])
            \/ s[i].kind \in {"bytes", "flag", "bits", "raw", "rest", "array", "nested"}
<1>1. s[i].kind \in {"scalar", "varint", "bytes", "flag", "bits", "raw", "rest",
                     "array", "nested"}
  BY FieldTypes
<1> QED BY <1>1 DEF FieldEnd, Numeric

LEMMA MaxOfTwo ==
  ASSUME NEW a \in Nat, NEW b \in Nat
  PROVE  Max({a, b}) = IF a <= b THEN b ELSE a
<1> DEFINE m == IF a <= b THEN b ELSE a
           P(x) == x \in {a, b} /\ \A y \in {a, b} : x >= y
<1>1. P(m) /\ \A x : P(x) => x = m
  OBVIOUS
<1>2. Max({a, b}) = CHOOSE x \in {a, b} : \A y \in {a, b} : x >= y
  BY DEF Max
<1> QED BY <1>1, <1>2

-----------------------------------------------------------------------------
(* The items of an array end at the same place in a longer input, and a    *)
(* shorter one lacks at least what is asked for.                           *)
LEMMA Tags ==
  /\ \A tag : Fault(tag).tag = tag
  /\ \A n : NeedMore(n).tag = "need_more" /\ NeedMore(n).more = n
  /\ \A start, end : /\ Span(start, end).tag = "ok"
                      /\ Span(start, end).start = start /\ Span(start, end).end = end
BY DEF Fault, NeedMore, Span

LEMMA ArrayExtentFacts ==
  ASSUME NEW child \in Promise, NEW c \in Content, NEW start \in Nat, NEW n \in Nat,
         NEW length \in Nat, start <= length,
         NEW a, a = ArrayExtent(child, c, start, n, length), a.tag = "ok"
  PROVE  /\ a = Span(start, a.end) /\ a.end \in Nat /\ start <= a.end
         /\ \A other \in Nat :
              a.end <= other => ArrayExtent(child, c, start, n, other) = a
         /\ \A other \in Nat : start <= other /\ other < a.end =>
              LET cut == ArrayExtent(child, c, start, n, other)
              IN  cut.tag = "need_more" /\ cut.more \in 1..(a.end - other)
<1>1. /\ child.fixed \in Nat \cup {None} /\ c.extent \in Nat \ {0} /\ c.ok \in BOOLEAN
      /\ UsizeMax \in Nat /\ None = -1
  BY WireFramingAssumption DEF Promise, Content, None
<1>2. CASE child.fixed = 0 /\ n # 0
  BY <1>2 DEF ArrayExtent, Fault
<1>3. CASE child.fixed # None /\ (child.fixed # 0 \/ n = 0)
  <2> DEFINE all == child.fixed * n
  <2>1. all \in Nat /\ child.fixed >= 0
    BY <1>1, <1>3, Product
  <2>2. \A other : ArrayExtent(child, c, start, n, other) =
          IF all > UsizeMax THEN Fault("extent")
          ELSE IF start + all > other THEN NeedMore(start + all - other)
          ELSE Span(start, start + all)
    BY <1>3, <2>1 DEF ArrayExtent
  <2> HIDE DEF all
  <2>3. a = Span(start, start + all) /\ ~(all > UsizeMax)
    BY <2>2 DEF Fault, NeedMore
  <2>4. a.end = start + all
    BY <2>3 DEF Span
  <2> QED BY <2>1, <2>2, <2>3, <2>4 DEF NeedMore
<1>4. CASE child.fixed = None
  <2> DEFINE all == n * c.extent
  <2>1. all \in Nat
    BY <1>1, Product
  <2>2. \A other \in Nat : start <= other =>
          /\ (other - start) \div c.extent \in Nat
          /\ n <= (other - start) \div c.extent <=> all <= other - start
    BY <1>1, WholeItems
  <2>3. \A other : ArrayExtent(child, c, start, n, other) =
          LET whole == (other - start) \div c.extent
          IN  IF n > 0 /\ whole > 0 /\ ~c.ok THEN Fault("schema")
              ELSE IF n > whole THEN NeedMore(1)
              ELSE Span(start, start + all)
    BY <1>1, <1>4 DEF ArrayExtent
  <2> HIDE DEF all
  <2>4. a = Span(start, start + all) /\ all <= length - start /\ (n > 0 => c.ok)
    <3> DEFINE whole == (length - start) \div c.extent
    <3>1. whole \in Nat /\ (n <= whole <=> all <= length - start)
      BY <2>2
    <3>2. a = IF n > 0 /\ whole > 0 /\ ~c.ok THEN Fault("schema")
              ELSE IF n > whole THEN NeedMore(1)
              ELSE Span(start, start + all)
      BY <2>3
    <3> HIDE DEF whole
    <3>3. Fault("schema").tag # "ok" /\ NeedMore(1).tag # "ok"
      BY DEF Fault, NeedMore
    <3>4. ~(n > 0 /\ whole > 0 /\ ~c.ok) /\ ~(n > whole)
      BY <3>2, <3>3
    <3> QED BY <3>1, <3>2, <3>4
  <2>5. a.end = start + all
    BY <2>4 DEF Span
  <2>6. ASSUME NEW other \in Nat, a.end <= other
        PROVE  ArrayExtent(child, c, start, n, other) = a
    <3>1. start <= other /\ all <= other - start
      BY <2>1, <2>5, <2>6
    <3>2. n <= (other - start) \div c.extent /\ (other - start) \div c.extent \in Nat
      BY <2>2, <3>1
    <3> QED BY <2>3, <2>4, <3>2
  <2>7. ASSUME NEW other \in Nat, start <= other, other < a.end
        PROVE  ArrayExtent(child, c, start, n, other) = NeedMore(1)
    <3>1. ~(all <= other - start)
      BY <2>1, <2>5, <2>7
    <3>2. n > (other - start) \div c.extent /\ (other - start) \div c.extent \in Nat
      BY <2>2, <2>7, <3>1
    <3> QED BY <2>3, <2>4, <3>2
  <2> QED BY <2>1, <2>4, <2>5, <2>6, <2>7 DEF NeedMore
<1> QED BY <1>1, <1>2, <1>3, <1>4

(* The boundary of frame, behind which input may follow, and of frame_exact. *)
Open   == FALSE
Closed == TRUE

(* The same of a child that finds its own end.                             *)
LEMMA ChildFrameFacts ==
  ASSUME NEW child \in Promise, NEW c \in Content, NEW length \in Nat,
         child.fixed # None \/ child.leading,
         NEW r, r = ChildFrame(child, c, length, Open), r.tag = "ok"
  PROVE  /\ ChildFrame(child, c, r.end, Closed) = r
         /\ \A other \in Nat : r.end <= other => ChildFrame(child, c, other, Open) = r
         /\ \A other \in Nat : other < r.end =>
              LET cut == ChildFrame(child, c, other, Open)
              IN  cut.tag = "need_more" /\ cut.more \in 1..(r.end - other)
<1>1. /\ child.fixed \in Nat \cup {None} /\ child.leading \in BOOLEAN
      /\ child.deferred \in BOOLEAN
      /\ c.extent \in Nat \ {0} /\ c.ok \in BOOLEAN /\ UsizeMax \in Nat
  BY WireFramingAssumption DEF Promise, Content
<1>2. CASE child.fixed # None
  <2> DEFINE n == child.fixed
  <2>1. n \in Nat /\ n >= 0
    BY <1>1, <1>2
  <2>2. c.ok /\ ~(n > UsizeMax) /\ n <= length /\ r = Span(0, n) /\ r.end = n
    BY <1>1, <1>2, <2>1 DEF Open, Closed, ChildFrame, Checked, Taken, Fault, NeedMore, Span
  <2>3. ASSUME NEW other \in Nat
        PROVE  /\ n <= other => ChildFrame(child, c, other, Open) = r
               /\ other < n => ChildFrame(child, c, other, Open) = NeedMore(n - other)
    BY <1>1, <1>2, <2>1, <2>2 DEF Open, Closed, ChildFrame, Checked, Taken, Fault, NeedMore, Span
  <2>4. ChildFrame(child, c, r.end, Closed) = r
    BY <1>1, <1>2, <2>1, <2>2 DEF Open, Closed, ChildFrame, Checked, Taken, Fault, NeedMore, Span
  <2> HIDE DEF n
  <2>5. ASSUME NEW other \in Nat, r.end <= other PROVE ChildFrame(child, c, other, Open) = r
    BY <2>1, <2>2, <2>3, <2>5
  <2>6. ASSUME NEW other \in Nat, other < r.end
        PROVE  LET cut == ChildFrame(child, c, other, Open)
               IN  cut.tag = "need_more" /\ cut.more \in 1..(r.end - other)
    <3>1. ChildFrame(child, c, other, Open) = NeedMore(n - other)
      BY <2>1, <2>2, <2>3, <2>6
    <3>2. r.end = n /\ other < n
      BY <2>2, <2>6
    <3>3. n - other \in 1..(n - other)
      BY <2>1, <3>2
    <3> QED BY <3>1, <3>2, <3>3, Tags, Zenon
  <2> QED BY <2>4, <2>5, <2>6
<1>3. CASE child.fixed = None
  <2> DEFINE n == c.extent
  <2>1. n \in Nat \ {0} /\ child.leading
    BY <1>1, <1>3
  <2>2. c.ok /\ n <= length /\ r = Span(0, n) /\ r.end = n
    BY <1>1, <1>3, <2>1 DEF Open, Closed, ChildFrame, Checked, Fault, NeedMore, Span
  <2>3. ASSUME NEW other \in Nat
        PROVE  /\ n <= other => ChildFrame(child, c, other, Open) = r
               /\ other < n => ChildFrame(child, c, other, Open) = NeedMore(1)
    BY <1>1, <1>3, <2>1, <2>2 DEF Open, Closed, ChildFrame, Checked, Fault, NeedMore, Span
  <2>4. ChildFrame(child, c, r.end, Closed) = r
    BY <1>1, <1>3, <2>1, <2>2 DEF Open, Closed, ChildFrame, Checked, Fault, NeedMore, Span
  <2> HIDE DEF n
  <2>5. ASSUME NEW other \in Nat, r.end <= other PROVE ChildFrame(child, c, other, Open) = r
    BY <2>1, <2>2, <2>3, <2>5
  <2>6. ASSUME NEW other \in Nat, other < r.end
        PROVE  LET cut == ChildFrame(child, c, other, Open)
               IN  cut.tag = "need_more" /\ cut.more \in 1..(r.end - other)
    <3>1. ChildFrame(child, c, other, Open) = NeedMore(1)
      BY <2>1, <2>2, <2>3, <2>6
    <3>2. r.end = n /\ other < n
      BY <2>2, <2>6
    <3>3. 1 \in 1..(n - other)
      BY <2>1, <3>2
    <3> QED BY <3>1, <3>2, <3>3, Tags, Zenon
  <2> QED BY <2>4, <2>5, <2>6
<1> QED BY <1>2, <1>3

-----------------------------------------------------------------------------
(* A field that is framed ends behind its start, after as many bytes as    *)
(* its size says, if it has one.                                           *)
LEMMA EndShape ==
  ASSUME NEW s, NEW t, NEW i, NEW start, NEW length, NEW exactly, NEW e,
         FramedAt(s, t, i, start, length, exactly, e)
  PROVE  /\ e = Span(start, e.end) /\ e.end \in Nat /\ start <= e.end
         /\ ~Resets(s[i]) /\ Size(s[i]) # None => e.end = start + Size(s[i])
         /\ Size(s[i]) # None /\ s[i].cond = 0 /\ ~(s[i].kind = "nested" /\ s[i].ctrl # 0)
              => e.end = start + Size(s[i])
<1> USE DEF FramedAt
<1>1. /\ s[i] \in Field /\ t[i] \in Content /\ UsizeMax \in Nat
      /\ \A c \in 1..(i - 1) : t[c] \in Content
      /\ t[i].ok \in BOOLEAN /\ t[i].extent \in Nat \ {0} /\ t[i].value \in Nat
      /\ s[i].width \in Nat /\ s[i].ctrl \in Nat /\ s[i].child \in Promise
  BY Reading, ZenonT(40) DEF Content, Field
<1>2. CASE Numeric(s[i])
  <2>1. e = ScalarEnd(s, t, i, start, length)
    BY <1>2 DEF FieldEnd, Numeric
  <2>2. s[i].cond = 0 => Present(s, t, i)
    BY DEF Present
  <2>3. CASE ~Present(s, t, i)
    BY <2>1, <2>2, <2>3 DEF ScalarEnd, Span, Resets
  <2>4. CASE Present(s, t, i) /\ s[i].kind = "varint"
    BY <1>1, <2>1, <2>4, SMTT(30) DEF ScalarEnd, Checked, Fault, NeedMore, Span, Size, DynamicSize, Resets
  <2>5. CASE Present(s, t, i) /\ s[i].kind = "scalar"
    BY <1>1, <2>1, <2>5 DEF ScalarEnd, Checked, Taken, Fault, NeedMore, Span, Size, DynamicSize
  <2> QED BY <1>2, <2>3, <2>4, <2>5 DEF Numeric
<1>3. CASE s[i].kind = "bytes"
  <2>1. e = Checked(Taken(start, start + s[i].width, length), t[i].ok, "schema")
    BY <1>3 DEF FieldEnd, Numeric
  <2> QED BY <1>1, <1>3, <2>1 DEF Checked, Taken, Fault, NeedMore, Span, Size, DynamicSize
<1>4. CASE s[i].kind \in {"flag", "bits"}
  <2>1. e = Span(start, start)
    BY <1>4 DEF FieldEnd, Numeric
  <2> QED BY <1>4, <2>1 DEF Span, Size, DynamicSize
<1>5. CASE s[i].kind = "raw"
  <2>1. e = Taken(start, start + t[s[i].ctrl].value, length)
    BY <1>5 DEF FieldEnd, Numeric
  <2>2. t[s[i].ctrl].value \in Nat
    BY <1>1, <1>5 DEF Struct, Located, Content, Field
  <2> QED BY <1>5, <2>1, <2>2 DEF Taken, Fault, NeedMore, Span, Size, DynamicSize
<1>6. CASE s[i].kind = "rest"
  <2>1. e = Taken(start, Max({start, length}), length)
    BY <1>6 DEF FieldEnd, Numeric
  <2>2. Max({start, length}) = IF start <= length THEN length ELSE start
    BY MaxOfTwo
  <2> DEFINE most == Max({start, length})
  <2>3. most \in Nat /\ e = Taken(start, most, length) /\ start <= most
    BY <2>1, <2>2
  <2> HIDE DEF most
  <2>4. Size(s[i]) = None
    BY <1>6 DEF Size, DynamicSize
  <2> QED BY <2>3, <2>4 DEF Taken, Fault, NeedMore, Span
<1>7. CASE s[i].kind = "array"
  <2> DEFINE n == t[s[i].ctrl].value
             a == ArrayExtent(s[i].child, t[i], start, n, length)
  <2>1. e = ArrayEnd(s, t, i, start, length, exactly)
    BY <1>7 DEF FieldEnd, Numeric
  <2>2. n \in Nat
    BY <1>1, <1>7 DEF Struct, Located, Content
  <2>3. start <= length /\ (e = Span(start, length) \/ e = a)
    BY <2>1 DEF ArrayEnd, NeedMore, Fault
  <2>4. Size(s[i]) = None
    BY <1>7 DEF Size, DynamicSize
  <2>5. ASSUME e = a PROVE e = Span(start, e.end) /\ e.end \in Nat /\ start <= e.end
    <3> HIDE DEF n
    <3> QED BY <1>1, <2>2, <2>3, <2>5, ArrayExtentFacts, SMTT(30)
  <2>6. ASSUME e = Span(start, length)
        PROVE  e = Span(start, e.end) /\ e.end \in Nat /\ start <= e.end
    BY <2>3, <2>6 DEF Span
  <2> QED BY <2>3, <2>4, <2>5, <2>6
<1>8. CASE s[i].kind = "nested" /\ s[i].ctrl # 0
  <2> DEFINE n == t[s[i].ctrl].value
  <2>1. e = BoundedChildEnd(s, t, i, start, length)
    BY <1>8 DEF FieldEnd, Numeric
  <2>2. n \in Nat
    BY <1>1, <1>8 DEF Struct, Located, Content
  <2> DEFINE child == s[i].child
             framed == ChildFrame(child, t[i], n, TRUE)
             taken == Taken(start, start + n, length)
  <2>3. e = IF taken.tag # "ok" THEN taken
            ELSE IF framed.tag # "ok" THEN Fault("child")
            ELSE IF framed.end # n THEN Fault("extent") ELSE taken
    BY <2>1 DEF BoundedChildEnd, Checked
  <2> HIDE DEF child, framed, taken, n
  <2>4. e = taken
    BY <2>3 DEF Fault
  <2> USE DEF taken
  <2>5. Resets(s[i])
    BY <1>8 DEF Resets
  <2> QED BY <1>8, <2>2, <2>4, <2>5 DEF Taken, Fault, NeedMore, Span
<1>9. CASE s[i].kind = "nested" /\ s[i].ctrl = 0
  <2> DEFINE framed == ChildFrame(s[i].child, t[i], length - start, exactly /\ Terminal(s, i))
             taken == Taken(start, start + s[i].child.fixed, length)
  <2>1. e = ChildEnd(s, t, i, start, length, exactly)
    BY <1>9 DEF FieldEnd, Numeric
  <2>2. \/ s[i].child.fixed # None /\ e = taken
        \/ start <= length /\ framed.tag = "ok" /\ e = Span(start, start + framed.end)
    BY <2>1 DEF ChildEnd, Checked, Fault, NeedMore
  <2>3. Size(s[i]) = s[i].child.fixed
    BY <1>9 DEF Size, DynamicSize
  <2>4. CASE s[i].child.fixed # None /\ e = taken
    <3>1. s[i].child.fixed \in Nat
      BY <1>1, <2>4 DEF Promise
    <3> QED BY <2>3, <2>4, <3>1 DEF Taken, Fault, NeedMore, Span
  <2>5. CASE start <= length /\ framed.tag = "ok" /\ e = Span(start, start + framed.end)
    <3> DEFINE child == s[i].child
               content == t[i]
               left == length - start
               whole == exactly /\ Terminal(s, i)
    <3>1. left \in Nat /\ whole \in BOOLEAN /\ child \in Promise /\ content \in Content
      BY <1>1, <2>5
    <3>2. framed = ChildFrame(child, content, left, whole) /\ framed.tag = "ok"
      BY <2>5
    <3> HIDE DEF child, content, left, whole, framed
    <3>3. /\ framed.end \in Nat
          /\ child.fixed # None => framed.end = child.fixed
      BY <3>1, <3>2, ChildShape
    <3> USE DEF child
    <3> QED BY <2>3, <2>5, <3>3 DEF Span
  <2> QED BY <2>2, <2>4, <2>5
<1> QED BY <1>1, <1>2, <1>3, <1>4, <1>5, <1>6, <1>7, <1>8, <1>9, EndByKind

-----------------------------------------------------------------------------
(* Where a field starts: behind everything framed before it, and right     *)
(* there unless it is placed.                                              *)
LEMMA AlignFacts ==
  ASSUME NEW position \in Nat, NEW alignment \in Nat
  PROVE  CheckedAlign(position, alignment) \in Nat
         /\ position <= CheckedAlign(position, alignment)
         /\ CheckedAlign(position, 0) = position
<1>1. alignment # 0 => position % alignment \in 0..(alignment - 1)
  OBVIOUS
<1> QED BY <1>1 DEF CheckedAlign

LEMMA PositionFacts ==
  ASSUME NEW s, Struct(s), NEW t, t \in Seq(Content), NEW i \in DOMAIN s, i <= Len(t),
         NEW at \in Nat
  PROVE  /\ Position(s, t, i, at) \in Nat
         /\ ~Placed(s[i]) \/ ~Present(s, t, i) => Position(s, t, i, at) = at
<1>1. /\ s[i].pad \in Nat /\ s[i].align \in Nat
      /\ s[i].at # <<>> => s[i].at[1] \in {"static", "field"} /\ s[i].at[2] \in Nat
      /\ s[i].at # <<>> /\ s[i].at[1] = "field" => t[s[i].at[2]] \in Content
  <2>1. s[i].at # <<>> /\ s[i].at[1] = "field" => s[i].at[2] \in 1..(i - 1)
    BY DEF Struct, Located
  <2> QED BY Reading, FieldTypes, <2>1
<1>2. CASE ~Present(s, t, i)
  <2>1. s[i].at = <<>>
    BY <1>2 DEF Present, Struct, Located, Placed
  <2> QED BY <1>2, <2>1 DEF Position
<1>3. CASE Present(s, t, i) /\ s[i].at # <<>>
  BY <1>1, <1>3 DEF Position, Placed, Content
<1>4. CASE Present(s, t, i) /\ s[i].at = <<>>
  <2> DEFINE pad == s[i].pad
             align == s[i].align
             position == at + pad
  <2>1. Position(s, t, i, at) = CheckedAlign(position, align)
    BY <1>4 DEF Position
  <2>2. position \in Nat /\ align \in Nat /\ (~Placed(s[i]) => position = at /\ align = 0)
    BY <1>1 DEF Placed
  <2> HIDE DEF position, align
  <2> QED BY <1>4, <2>1, <2>2, AlignFacts
<1> QED BY <1>2, <1>3, <1>4

LEMMA StartFacts ==
  ASSUME NEW s, Struct(s), NEW t, t \in Seq(Content), NEW i \in DOMAIN s, i <= Len(t),
         NEW at \in Nat, HasSequentialGeometry(s) \/ StaticOffset(s, i) \in {None, at},
         NEW r, r = FieldStart(s, t, i, at), r.tag = "ok"
  PROVE  /\ r = Span(r.start, r.start) /\ r.start \in Nat /\ at <= r.start
         /\ ~Placed(s[i]) \/ ~Present(s, t, i) => r.start = at
<1> DEFINE place == Position(s, t, i, at)
           static == StaticOffset(s, i)
           start == IF HasSequentialGeometry(s) THEN place ELSE static
<1>1. place \in Nat /\ (~Placed(s[i]) \/ ~Present(s, t, i) => place = at)
  BY PositionFacts
<1>2. r = IF start = None THEN Fault("layout")
          ELSE IF HasSequentialGeometry(s) /\ start < at THEN Fault("before_cursor")
          ELSE IF FrameOffset + start > UsizeMax THEN Fault("layout")
          ELSE Span(start, start)
  BY DEF FieldStart
<1> HIDE DEF place, static
<1>3. start # None /\ ~(HasSequentialGeometry(s) /\ start < at) /\ r = Span(start, start)
  BY <1>2, Tags
<1>4. start \in Nat /\ at <= start
  BY <1>1, <1>3 DEF static
<1>5. ~Placed(s[i]) \/ ~Present(s, t, i) => start = at
  BY <1>1, <1>3 DEF static
<1> HIDE DEF start
<1> QED BY <1>3, <1>4, <1>5, Tags

LEMMA FieldStep ==
  ASSUME NEW s, Struct(s), NEW t, t \in Seq(Content), NEW i \in DOMAIN s, i <= Len(t),
         NEW at \in Nat, HasSequentialGeometry(s) \/ StaticOffset(s, i) \in {None, at},
         NEW length \in Nat, NEW exactly \in BOOLEAN,
         NEW r, r = FrameField(s, t, i, at, length, exactly), r.tag = "ok"
  PROVE  /\ r = Span(r.start, r.end) /\ r.start \in Nat /\ r.end \in Nat
         /\ at <= r.start /\ r.start <= r.end
         /\ FieldStart(s, t, i, at) = Span(r.start, r.start)
         /\ FramedAt(s, t, i, r.start, length, exactly, r)
         /\ ~Placed(s[i]) \/ ~Present(s, t, i) => r.start = at
<1> DEFINE from == FieldStart(s, t, i, at)
<1>1. r = IF from.tag # "ok" THEN from ELSE FieldEnd(s, t, i, from.start, length, exactly)
  BY DEF FrameField
<1>2. from.tag = "ok" /\ r = FieldEnd(s, t, i, from.start, length, exactly)
  BY <1>1
<1>3. /\ from = Span(from.start, from.start) /\ from.start \in Nat /\ at <= from.start
      /\ ~Placed(s[i]) \/ ~Present(s, t, i) => from.start = at
  BY <1>2, StartFacts
<1> DEFINE start == from.start
<1>4. FramedAt(s, t, i, start, length, exactly, r)
  BY <1>2, <1>3 DEF FramedAt
<1> HIDE DEF from, start
<1>5. r = Span(start, r.end) /\ r.end \in Nat /\ start <= r.end
  BY <1>4, EndShape
<1>6. r.start = start
  BY <1>5, Tags
<1> QED BY <1>3, <1>4, <1>5, <1>6 DEF from, start

-----------------------------------------------------------------------------
(* A walk over the fields: each was framed where the one before it ended.  *)
Spans == [tag : {"ok"}, start : Nat, end : Nat, more : {0}]

Reached(sp, k) == IF k = 0 THEN 0 ELSE sp[k].end

Walk(s, t, sp, length, exactly) ==
  /\ Struct(s) /\ t \in Seq(Content) /\ sp \in Seq(Spans)
  /\ Len(t) <= Len(s) /\ Len(sp) = Len(t) /\ length \in Nat /\ exactly \in BOOLEAN
  /\ \A i \in 1..Len(sp) : sp[i] = FrameField(s, t, i, Reached(sp, i - 1), length, exactly)

(* What is known of field i after it was framed.                           *)
Stepped(s, t, sp, i, length, exactly) ==
  /\ Reached(sp, i - 1) \in Nat
  /\ sp[i] = Span(sp[i].start, sp[i].end) /\ sp[i].start \in Nat /\ sp[i].end \in Nat
  /\ Reached(sp, i - 1) <= sp[i].start /\ sp[i].start <= sp[i].end
  /\ FieldStart(s, t, i, Reached(sp, i - 1)) = Span(sp[i].start, sp[i].start)
  /\ FramedAt(s, t, i, sp[i].start, length, exactly, sp[i])
  /\ ~Placed(s[i]) \/ ~Present(s, t, i) => sp[i].start = Reached(sp, i - 1)

LEMMA WalkTypes ==
  ASSUME NEW s, NEW t, NEW sp, NEW length, NEW exactly, Walk(s, t, sp, length, exactly)
  PROVE  /\ Struct(s) /\ s \in Seq(Field) /\ t \in Seq(Content) /\ sp \in Seq(Spans)
         /\ length \in Nat /\ exactly \in BOOLEAN
         /\ Len(s) \in Nat /\ Len(sp) \in Nat /\ Len(t) = Len(sp) /\ Len(sp) <= Len(s)
         /\ \A i \in 1..Len(sp) :
              /\ i \in DOMAIN s /\ i \in 1..Len(s) /\ s[i] \in Field /\ i <= Len(t)
              /\ sp[i] \in Spans
              /\ sp[i] = FrameField(s, t, i, Reached(sp, i - 1), length, exactly)
         /\ \A i \in 0..Len(sp) : Reached(sp, i) \in Nat
<1>1. \A i \in 1..Len(sp) : sp[i] \in Spans
  BY DEF Walk
<1>2. \A i \in 0..Len(sp) : Reached(sp, i) \in Nat
  BY <1>1 DEF Reached, Spans, Walk
<1> QED BY <1>1, <1>2 DEF Walk, Struct, Normalized

(* Without a cursor every offset is the sum of the sizes before it.        *)
LEMMA StaticWalk ==
  ASSUME NEW s, NEW t, NEW sp, NEW length, NEW exactly, Walk(s, t, sp, length, exactly),
         ~HasSequentialGeometry(s), NEW g, PrefixSum(s, g)
  PROVE  \A k \in 0..Len(sp) :
           (\A j \in 1..k : Size(s[j]) # None) => Reached(sp, k) = g[k]
<1> DEFINE Known(k) == \A j \in 1..k : Size(s[j]) # None
           n == Len(sp)
           T == {k \in 0..n : Known(k) => Reached(sp, k) = g[k]}
<1>1. n \in Nat /\ 0 \in T
  BY WalkTypes DEF PrefixSum, Reached
<1>2. ASSUME NEW k \in 0..(n - 1), k \in T PROVE k + 1 \in T
  <2> SUFFICES ASSUME Known(k + 1) PROVE Reached(sp, k + 1) = g[k + 1]
    BY <1>1, <1>2
  <2> DEFINE i == k + 1
  <2>1. i \in 1..n /\ i - 1 = k /\ i \in DOMAIN s /\ i \in 1..Len(s) /\ k \in 0..Len(s)
    BY <1>1, WalkTypes
  <2>2. Known(k) /\ Size(s[i]) # None
    BY <1>1
  <2>3. Reached(sp, k) = g[k] /\ Reached(sp, k) \in Nat
    BY <1>1, <1>2, <2>2, WalkTypes
  <2>4. StaticOffset(s, i) \in {None, g[k]}
    <3> DEFINE m == Len(s)
    <3>0. m \in Nat /\ k \in 0..m /\ g \in [0..m -> Int] /\ g[0] = 0
      BY <2>1, WalkTypes DEF PrefixSum
    <3>1. k \in (1 - 1)..Len(s) /\ 1 \in 1..(Len(s) + 1) /\ g[0] = 0 /\ g[k] \in Int
      <4> HIDE DEF m
      <4>1. k \in (1 - 1)..m /\ 1 \in 1..(m + 1) /\ g[k] \in Int
        BY <3>0
      <4> QED BY <3>0, <4>1 DEF m
    <3>2. SumOfSizes(s, 1, k) = g[k] - g[1 - 1]
      BY <2>2, <3>1, SumBetween, WalkTypes
    <3> QED BY <2>1, <3>1, <3>2 DEF StaticOffset
  <2> DEFINE at == Reached(sp, k)
             r == sp[i]
  <2>5. /\ r = FrameField(s, t, i, at, length, exactly) /\ r.tag = "ok"
        /\ at \in Nat /\ StaticOffset(s, i) \in {None, at} /\ i <= Len(t)
        /\ Struct(s) /\ t \in Seq(Content) /\ length \in Nat /\ exactly \in BOOLEAN
    BY <2>1, <2>3, <2>4, WalkTypes, SMTT(30) DEF Spans
  <2>6. ~Resets(s[i]) /\ ~Placed(s[i])
    BY <2>1 DEF HasSequentialGeometry, HasExplicitGeometry, Resets, DynamicSize
  <2> HIDE DEF at, r
  <2>7. r.start = at /\ FramedAt(s, t, i, r.start, length, exactly, r)
    BY <2>1, <2>5, <2>6, FieldStep
  <2>8. r.end = r.start + Size(s[i])
    BY <2>2, <2>6, <2>7, EndShape
  <2>9. g[i] = g[k] + Size(s[i]) /\ Reached(sp, i) = r.end
    BY <2>1 DEF PrefixSum, Reached, r
  <2> QED BY <2>3, <2>7, <2>8, <2>9 DEF at
<1>3. \A k \in 0..n : k \in T
  <2> HIDE DEF T, n
  <2> QED BY <1>1, <1>2, BoundedInduction
<1> QED BY <1>3

(* So the next field starts where the walk is, as far as its offset is a   *)
(* compile-time sum.                                                       *)
LEMMA NextOffset ==
  ASSUME NEW s, NEW t, NEW sp, NEW length, NEW exactly, Walk(s, t, sp, length, exactly),
         NEW k \in 0..Len(sp), k < Len(s)
  PROVE  HasSequentialGeometry(s) \/ StaticOffset(s, k + 1) \in {None, Reached(sp, k)}
<1> SUFFICES ASSUME ~HasSequentialGeometry(s), StaticOffset(s, k + 1) # None
             PROVE  StaticOffset(s, k + 1) = Reached(sp, k)
  OBVIOUS
<1> DEFINE m == Len(s)
<1>1. s \in Seq(Field) /\ m \in Nat /\ k \in 0..m /\ k \in Nat /\ (k + 1) - 1 = k
  BY WalkTypes
<1>2. PICK g : PrefixSum(s, g)
  BY <1>1, PrefixSumExists
<1>3. StaticOffset(s, k + 1) = SumOfSizes(s, 1, k)
  BY <1>1 DEF StaticOffset
<1>4. \A j \in 1..k : Size(s[j]) # None
  BY <1>3 DEF SumOfSizes
<1>5. Reached(sp, k) = g[k]
  BY <1>2, <1>4, StaticWalk
<1>6. k \in (1 - 1)..m /\ 1 \in 1..(m + 1)
  <2> HIDE DEF m
  <2> QED BY <1>1
<1>7. SumOfSizes(s, 1, k) = g[k] - g[1 - 1]
  BY <1>1, <1>2, <1>4, <1>6, SumBetween
<1>8. g[0] = 0 /\ g[k] \in Int
  BY <1>1, <1>2 DEF PrefixSum
<1> QED BY <1>3, <1>5, <1>7, <1>8

(* Every field of a walk starts behind what was framed before it.          *)
LEMMA WalkStepped ==
  ASSUME NEW s, NEW t, NEW sp, NEW length, NEW exactly, Walk(s, t, sp, length, exactly),
         NEW i \in 1..Len(sp)
  PROVE  Stepped(s, t, sp, i, length, exactly)
<1> DEFINE at == Reached(sp, i - 1)
           r == sp[i]
<1>1. /\ i - 1 \in 0..Len(sp) /\ i \in DOMAIN s /\ i <= Len(t) /\ i \in 1..Len(s)
      /\ Struct(s) /\ t \in Seq(Content) /\ length \in Nat /\ exactly \in BOOLEAN
      /\ s \in Seq(Field)
  BY WalkTypes
<1>2. at \in Nat /\ r = FrameField(s, t, i, at, length, exactly) /\ r.tag = "ok"
  BY <1>1, WalkTypes, SMTT(30) DEF Spans
<1>3. HasSequentialGeometry(s) \/ StaticOffset(s, i) \in {None, at}
  <2>1. /\ i - 1 < Len(s) /\ (i - 1) + 1 = i
    BY <1>1
  <2> QED BY <1>1, <2>1, NextOffset
<1> HIDE DEF at, r
<1>4. /\ r = Span(r.start, r.end) /\ r.start \in Nat /\ r.end \in Nat
      /\ at <= r.start /\ r.start <= r.end
      /\ FieldStart(s, t, i, at) = Span(r.start, r.start)
      /\ FramedAt(s, t, i, r.start, length, exactly, r)
      /\ ~Placed(s[i]) \/ ~Present(s, t, i) => r.start = at
  BY <1>1, <1>2, <1>3, FieldStep
<1> QED BY <1>2, <1>4 DEF Stepped, at, r

LEMMA Shifted ==
  ASSUME NEW a \in Int, NEW b \in Int, NEW c \in Int, NEW d \in Int, NEW w \in Int,
         a - b = c - d
  PROVE  (a + w) - b = (c + w) - d
OBVIOUS

(* Between two fields with nothing but fields of known size in between,    *)
(* the distance is the sum of the sizes.                                   *)
LEMMA PlainWalk ==
  ASSUME NEW s, NEW t, NEW sp, NEW length, NEW exactly, Walk(s, t, sp, length, exactly),
         NEW g, PrefixSum(s, g), NEW from \in 0..Len(sp), NEW to \in from..Len(sp),
         \A j \in (from + 1)..to : Size(s[j]) # None /\ ~Resets(s[j])
  PROVE  Reached(sp, to) - Reached(sp, from) = g[to] - g[from]
<1> DEFINE T == {k \in from..to : Reached(sp, k) - Reached(sp, from) = g[k] - g[from]}
           n == Len(sp)
           m == Len(s)
<1>1. /\ n \in Nat /\ m \in Nat /\ n <= m /\ g \in [0..m -> Int]
      /\ \A k \in 0..n : Reached(sp, k) \in Nat
  BY WalkTypes DEF PrefixSum
<1>2. from \in 0..n /\ to \in from..n /\ from \in Nat /\ to \in Nat /\ from <= to
  BY <1>1
<1>3. from \in T
  <2> HIDE DEF n, m
  <2>1. Reached(sp, from) \in Nat /\ g[from] \in Int /\ from \in from..to
    BY <1>1, <1>2
  <2> QED BY <2>1
<1>4. ASSUME NEW k \in from..(to - 1), k \in T PROVE k + 1 \in T
  <2> DEFINE i == k + 1
  <2>1. i \in 1..n /\ i - 1 = k /\ i \in (from + 1)..to /\ i \in from..to /\ i \in 1..m
        /\ k \in 0..n /\ i \in 0..n /\ from \in 0..n
    <3> HIDE DEF n, m
    <3> QED BY <1>1, <1>2
  <2>2. Size(s[i]) # None /\ ~Resets(s[i]) /\ ~Placed(s[i]) /\ s[i] \in Field
    BY <2>1, WalkTypes DEF Resets
  <2>3. Stepped(s, t, sp, i, length, exactly)
    BY <2>1, WalkStepped
  <2>4. sp[i].start = Reached(sp, k) /\ sp[i].end = sp[i].start + Size(s[i])
    BY <2>1, <2>2, <2>3, EndShape DEF Stepped
  <2>5. g[i] = g[k] + Size(s[i]) /\ Reached(sp, i) = sp[i].end
    BY <2>1 DEF PrefixSum, Reached
  <2>6. Reached(sp, k) - Reached(sp, from) = g[k] - g[from]
    BY <1>4
  <2>7. /\ g[k] \in Int /\ g[from] \in Int /\ Size(s[i]) \in Int
        /\ Reached(sp, k) \in Nat /\ Reached(sp, from) \in Nat
    <3>1. \A j \in 0..n : j \in 0..m
      <4> HIDE DEF n, m
      <4> QED BY <1>1
    <3> QED BY <1>1, <2>1, <2>2, <3>1, SizeInt
  <2>8. Reached(sp, i) = Reached(sp, k) + Size(s[i])
    BY <2>4, <2>5
  <2>9. Reached(sp, i) - Reached(sp, from) = g[i] - g[from]
    <3> DEFINE a == Reached(sp, k)
               b == Reached(sp, from)
               w == Size(s[i])
    <3>1. a \in Int /\ b \in Int /\ g[k] \in Int /\ g[from] \in Int /\ w \in Int
      BY <2>7
    <3>2. a - b = g[k] - g[from]
      BY <2>6
    <3>3. Reached(sp, i) = a + w /\ g[i] = g[k] + w
      BY <2>5, <2>8
    <3> HIDE DEF a, b, w, i
    <3>4. (a + w) - b = (g[k] + w) - g[from]
      BY <3>1, <3>2, Shifted
    <3> QED BY <3>3, <3>4 DEF b
  <2> QED BY <2>1, <2>9
<1>5. \A k \in from..to : k \in T
  <2> HIDE DEF T, n, m
  <2> QED BY <1>2, <1>3, <1>4, BoundedInduction
<1>6. to \in from..to
  BY <1>2
<1> QED BY <1>5, <1>6

-----------------------------------------------------------------------------
(* A field whose start no descriptor keeps starts where the previous field *)
(* ended, which is its static offset when it has one.                      *)
LEMMA KnownOffset ==
  ASSUME NEW s, NEW t, NEW sp, NEW length, NEW exactly, Walk(s, t, sp, length, exactly),
         NEW i \in 1..Len(sp), ~DynamicOffset(s, i), StaticOffset(s, i) # None
  PROVE  StaticOffset(s, i) = Reached(sp, i - 1)
<1> DEFINE k == i - 1
           n == Len(sp)
           m == Len(s)
<1>1. s \in Seq(Field) /\ m \in Nat /\ n \in Nat /\ n <= m /\ i \in 1..n
  BY WalkTypes
<1>2. PICK g : PrefixSum(s, g)
  BY <1>1, PrefixSumExists
<1>3. StaticOffset(s, i) = SumOfSizes(s, 1, k)
  BY DEF StaticOffset
<1>4. \A j \in 1..k : Size(s[j]) # None /\ ~Resets(s[j])
  BY <1>3 DEF SumOfSizes, DynamicOffset
<1>5. k \in (1 - 1)..m /\ 1 \in 1..(m + 1) /\ 0 \in 0..n /\ k \in 0..n /\ 0 + 1 = 1 /\ k \in 0..m
  <2> HIDE DEF m, n
  <2> QED BY <1>1
<1>6. SumOfSizes(s, 1, k) = g[k] - g[1 - 1]
  BY <1>1, <1>2, <1>4, <1>5, SumBetween
<1>7. Reached(sp, k) - Reached(sp, 0) = g[k] - g[0]
  <2> HIDE DEF k
  <2> QED BY <1>2, <1>4, <1>5, PlainWalk
<1>8. Reached(sp, 0) = 0 /\ g[0] = 0 /\ g[k] \in Int /\ Reached(sp, k) \in Nat
  BY <1>2, <1>5, WalkTypes DEF PrefixSum, Reached
<1> QED BY <1>3, <1>6, <1>7, <1>8

LEMMA StartRecomputed ==
  ASSUME NEW s, NEW t, NEW sp, NEW length, NEW exactly, Walk(s, t, sp, length, exactly),
         Len(sp) = Len(s), NEW i \in 1..Len(s)
  PROVE  GeometryStart(s, Retained(s, sp), i, Reached(sp, i - 1)) = sp[i].start
<1> DEFINE d == Retained(s, sp)
           previous == Reached(sp, i - 1)
<1>1. Stepped(s, t, sp, i, length, exactly) /\ i \in DOMAIN s /\ s \in Seq(Field)
  BY WalkStepped, WalkTypes
<1>2. CASE RetainsStart(s, i)
  <2>1. d.starts[i] = sp[i].start
    BY <1>2 DEF Retained
  <2> QED BY <1>2, <2>1 DEF GeometryStart
<1>3. CASE ~RetainsStart(s, i)
  <2>1. Placed(s[i]) => HasSequentialGeometry(s)
    BY <1>1 DEF HasSequentialGeometry, HasExplicitGeometry
  <2>2. sp[i].start = previous
    BY <1>1, <1>3, <2>1 DEF Stepped, RetainsStart
  <2>3. CASE DynamicOffset(s, i)
    BY <1>3, <2>2, <2>3 DEF GeometryStart
  <2>4. CASE ~DynamicOffset(s, i)
    <3> DEFINE static == StaticOffset(s, i)
               nested == HasNestedGeometry(s) /\ \E j \in 1..(i - 1) : s[j].kind = "nested"
    <3>1. GeometryStart(s, d, i, previous) = IF nested /\ static = None THEN previous ELSE static
      BY <1>3, <2>4 DEF GeometryStart
    <3>2. static = None => nested
      <4> SUFFICES ASSUME static = None PROVE nested
        OBVIOUS
      <4>1. SumOfSizes(s, 1, i - 1) = None
        BY <2>4 DEF StaticOffset
      <4>2. PICK j \in 1..(i - 1) : Size(s[j]) = None
        <5> SUFFICES ASSUME \A j \in 1..(i - 1) : Size(s[j]) # None PROVE FALSE
          OBVIOUS
        <5>1. \A j \in 1..(i - 1) : ~Resets(s[j])
          BY <2>4 DEF DynamicOffset
        <5> DEFINE k == i - 1
                   m == Len(s)
        <5>2. PICK g : PrefixSum(s, g)
          BY <1>1, PrefixSumExists
        <5>3. k \in (1 - 1)..m /\ 1 \in 1..(m + 1) /\ 0 \in 0..m /\ k \in 0..m /\ 0 + 1 = 1
          <6>1. m \in Nat /\ i \in 1..m
            BY WalkTypes
          <6> HIDE DEF m
          <6> QED BY <6>1
        <5>4. SumOfSizes(s, 1, k) = g[k] - g[1 - 1]
          BY <1>1, <5>2, <5>3, SumBetween
        <5>5. Reached(sp, k) - Reached(sp, 0) = g[k] - g[0]
          <6> HIDE DEF k
          <6> QED BY <5>1, <5>2, <5>3, PlainWalk DEF k
        <5>6. Reached(sp, 0) = 0 /\ g[0] = 0 /\ g[k] \in Int /\ Reached(sp, k) \in Nat
          BY <5>2, <5>3, WalkTypes DEF PrefixSum, Reached
        <5> QED BY <4>1, <5>4, <5>5, <5>6 DEF None
      <4>3. /\ j \in DOMAIN s /\ s[j] \in Field /\ ~Resets(s[j]) /\ ~Terminal(s, j)
        <5>1. j \in 1..Len(s) /\ Len(s) \in Nat /\ j # Len(s)
          BY WalkTypes
        <5> QED BY <1>1, <2>4, <4>2, <5>1 DEF DynamicOffset, Terminal
      <4>4. s[j].kind = "nested" /\ s[j].ctrl = 0
        BY <4>2, <4>3, FieldTypes DEF Size, Resets, None, DynamicSize
      <4> QED BY <4>2, <4>3, <4>4 DEF HasNestedGeometry, Unbounded
    <3>3. static # None => static = previous
      BY <1>1, <2>4, KnownOffset
    <3> HIDE DEF static, nested
    <3> QED BY <2>2, <3>1, <3>2, <3>3
  <2> QED BY <2>3, <2>4
<1> QED BY <1>2, <1>3

LEMMA EndRecomputed ==
  ASSUME NEW s, NEW t, NEW sp, NEW length, NEW exactly, Walk(s, t, sp, length, exactly),
         Len(sp) = Len(s), NEW i \in 1..Len(s)
  PROVE  GeometryEnd(s, Retained(s, sp), i, sp[i].start, Reached(sp, Len(s))) = sp[i].end
<1> DEFINE d == Retained(s, sp)
           m == Len(s)
<1>1. /\ Stepped(s, t, sp, i, length, exactly) /\ i \in DOMAIN s /\ s \in Seq(Field)
      /\ Struct(s) /\ s[i] \in Field /\ m \in Nat /\ m = Len(sp)
  BY WalkStepped, WalkTypes
<1>2. CASE RetainsEnd(s, i)
  <2>1. d.ends[i] = sp[i].end
    BY <1>2 DEF Retained
  <2> QED BY <1>2, <2>1 DEF GeometryEnd
<1>3. CASE ~RetainsEnd(s, i) /\ s[i].kind = "nested"
  <2>1. CASE Terminal(s, i)
    BY <1>3, <2>1 DEF GeometryEnd, Terminal, Reached
  <2>2. CASE ~Terminal(s, i)
    <3>1. HasSequentialGeometry(s)
      BY <1>1, <1>3, <2>2 DEF HasSequentialGeometry, HasExplicitGeometry, HasNestedGeometry,
                              Unbounded
    <3>2. HasFixedSuffix(s, i)
      BY <1>3, <3>1 DEF RetainsEnd
    <3>3. \A j \in (i + 1)..m : Size(s[j]) # None /\ ~Resets(s[j])
      <4> SUFFICES ASSUME NEW j \in (i + 1)..m PROVE Size(s[j]) # None /\ ~Resets(s[j])
        OBVIOUS
      <4>1. j \in DOMAIN s /\ s[j] \in Field /\ s[j].kind \in {"scalar", "bytes", "bits"}
        <5>1. j \in 1..m
          BY <1>1
        <5> QED BY <1>1, <3>2, <5>1 DEF HasFixedSuffix
      <4> QED BY <3>2, <4>1, FieldTypes DEF Size, Resets, DynamicSize, None, HasFixedSuffix,
                                            HasExplicitGeometry
    <3>4. PICK g : PrefixSum(s, g)
      BY <1>1, PrefixSumExists
    <3>5. /\ i + 1 \in 1..(m + 1) /\ m \in ((i + 1) - 1)..m /\ (i + 1) - 1 = i
          /\ i \in 0..m /\ m \in i..m /\ m \in 0..m
      <4> HIDE DEF m
      <4> QED BY <1>1 DEF m
    <3>6. SumOfSizes(s, i + 1, m) = g[m] - g[i]
      BY <1>1, <3>3, <3>4, <3>5, SumBetween
    <3>7. Reached(sp, m) - Reached(sp, i) = g[m] - g[i]
      BY <1>1, <3>3, <3>4, <3>5, PlainWalk
    <3>8. /\ Reached(sp, m) \in Nat /\ Reached(sp, i) \in Nat /\ g[m] \in Int /\ g[i] \in Int
      BY <1>1, <3>4, <3>5, WalkTypes DEF PrefixSum
    <3>9. Reached(sp, i) = sp[i].end
      BY DEF Reached
    <3> QED BY <1>3, <2>2, <3>6, <3>7, <3>8, <3>9 DEF GeometryEnd
  <2> QED BY <2>1, <2>2
<1>4. CASE ~RetainsEnd(s, i) /\ s[i].kind # "nested"
  <2>1. Size(s[i]) # None /\ s[i].cond = 0
    BY <1>1, <1>4, FieldTypes DEF RetainsEnd, HasSequentialGeometry, HasExplicitGeometry, Size,
                              DynamicSize, None, Struct, Located, Numeric
  <2>2. sp[i].end = sp[i].start + Size(s[i])
    BY <1>1, <1>4, <2>1, EndShape DEF Stepped
  <2> QED BY <1>4, <2>2 DEF GeometryEnd
<1> QED BY <1>2, <1>3, <1>4

-----------------------------------------------------------------------------
(* The getters' recursion over the fields has one solution, the ranges the *)
(* walk checked.                                                           *)
LEMMA RangesAreSpans ==
  ASSUME NEW s, NEW t, NEW sp, NEW length, NEW exactly, Walk(s, t, sp, length, exactly),
         Len(sp) = Len(s), NEW i \in 1..Len(s)
  PROVE  Ranges(s, Retained(s, sp), Reached(sp, Len(s)))[i] =
           [start |-> sp[i].start, end |-> sp[i].end]
<1> DEFINE d == Retained(s, sp)
           all == Reached(sp, Len(s))
           m == Len(s)
           Next1(j, before) ==
             LET start == GeometryStart(s, d, j, before.end)
             IN  [start |-> start, end |-> GeometryEnd(s, d, j, start, all)]
           Solves(f) == f = [j \in 0..m |-> IF j = 0 THEN [start |-> 0, end |-> 0]
                                            ELSE Next1(j, f[j - 1])]
           h == [j \in 0..m |-> IF j = 0 THEN [start |-> 0, end |-> 0]
                                ELSE [start |-> sp[j].start, end |-> sp[j].end]]
           range == CHOOSE f : Solves(f)
<1>1. m \in Nat /\ i \in 1..m
  BY WalkTypes
<1>2. ASSUME NEW j \in 1..m PROVE Next1(j, h[j - 1]) = h[j]
  <2>1. j - 1 \in 0..m /\ j \in 0..m /\ j # 0
    BY <1>1
  <2>2. h[j - 1].end = Reached(sp, j - 1) /\ h[j] = [start |-> sp[j].start, end |-> sp[j].end]
    BY <2>1 DEF Reached
  <2> HIDE DEF h
  <2>3. GeometryStart(s, d, j, h[j - 1].end) = sp[j].start
    BY <2>2, StartRecomputed
  <2>4. GeometryEnd(s, d, j, sp[j].start, all) = sp[j].end
    BY EndRecomputed
  <2> HIDE DEF d, all
  <2> QED BY <2>2, <2>3, <2>4
<1> HIDE DEF Next1
<1>3. Solves(h)
  <2>1. ASSUME NEW j \in 0..m
        PROVE  h[j] = IF j = 0 THEN [start |-> 0, end |-> 0] ELSE Next1(j, h[j - 1])
    <3>1. CASE j = 0
      BY <1>1, <3>1
    <3>2. CASE j # 0
      <4>1. j \in 1..m
        BY <1>1, <3>2
      <4> HIDE DEF h, m
      <4> QED BY <1>2, <3>2, <4>1
    <3> QED BY <3>1, <3>2
  <2>2. h = [j \in 0..m |-> h[j]]
    OBVIOUS
  <2> HIDE DEF h, m
  <2> QED BY <2>1, <2>2
<1>4. Solves(range)
  <2> HIDE DEF Solves, h
  <2> QED BY <1>3
<1>5. Ranges(s, d, all) = [j \in 1..m |-> range[j]]
  BY DEF Ranges, Next1
<1> HIDE DEF range
<1> DEFINE T == {j \in 0..m : range[j] = h[j]}
<1>6. \A j \in 0..m : j \in T
  <2>1. 0 \in T
    BY <1>1, <1>4
  <2>2. ASSUME NEW j \in 0..(m - 1), j \in T PROVE j + 1 \in T
    <3>1. j + 1 \in 0..m /\ j + 1 \in 1..m /\ j + 1 # 0 /\ (j + 1) - 1 = j
      <4> HIDE DEF m
      <4> QED BY <1>1
    <3>2. range[j + 1] = Next1(j + 1, range[j])
      <4> HIDE DEF h, m
      <4> QED BY <1>4, <3>1
    <3>3. Next1(j + 1, h[j]) = h[j + 1]
      <4> HIDE DEF h, m
      <4> QED BY <1>2, <3>1
    <3> HIDE DEF h, m
    <3> QED BY <2>2, <3>1, <3>2, <3>3
  <2> HIDE DEF T, m
  <2> QED BY <1>1, <2>1, <2>2, BoundedInduction
<1>7. range[i] = h[i] /\ i \in 0..m /\ i # 0
  BY <1>1, <1>6
<1>8. h[i] = [start |-> sp[i].start, end |-> sp[i].end]
  BY <1>7
<1> HIDE DEF d, all, h
<1>9. Ranges(s, d, all)[i] = range[i]
  BY <1>1, <1>5
<1> QED BY <1>7, <1>8, <1>9 DEF d, all

(* A struct with a fixed size is as long as its sizes add up to.           *)
LEMMA FixedSizeOfWalk ==
  ASSUME NEW s, NEW t, NEW sp, NEW length, NEW exactly, Walk(s, t, sp, length, exactly),
         Len(sp) = Len(s), FIXED_SIZE(s) # None
  PROVE  FIXED_SIZE(s) = Reached(sp, Len(sp))
<1> DEFINE m == Len(s)
<1>1. m \in Nat /\ s \in Seq(Field) /\ Len(sp) = m
  BY WalkTypes
<1>2. FIXED_SIZE(s) = SumOfSizes(s, 1, m) /\ ~HasExplicitGeometry(s)
  BY DEF FIXED_SIZE
<1>3. \A j \in 1..m : Size(s[j]) # None /\ ~Resets(s[j])
  BY <1>1, <1>2 DEF SumOfSizes, HasExplicitGeometry, Resets, DynamicSize
<1>4. PICK g : PrefixSum(s, g)
  BY <1>1, PrefixSumExists
<1>5. /\ 1 \in 1..(m + 1) /\ m \in (1 - 1)..m /\ 0 \in 0..m /\ m \in 0..m /\ 0 + 1 = 1
  <2> HIDE DEF m
  <2> QED BY <1>1
<1>6. SumOfSizes(s, 1, m) = g[m] - g[1 - 1]
  BY <1>1, <1>3, <1>4, <1>5, SumBetween
<1>7. Reached(sp, m) - Reached(sp, 0) = g[m] - g[0]
  BY <1>1, <1>3, <1>4, <1>5, PlainWalk
<1>8. Reached(sp, 0) = 0 /\ g[0] = 0 /\ g[m] \in Int /\ Reached(sp, m) \in Nat
  BY <1>1, <1>4, <1>5, WalkTypes DEF PrefixSum, Reached
<1> QED BY <1>1, <1>2, <1>6, <1>7, <1>8

-----------------------------------------------------------------------------
(* Framing reads of the content only what belongs to the fields so far.    *)
LEMMA ReadsSoFar ==
  ASSUME NEW s, Struct(s), NEW t, t \in Seq(Content), NEW u, u \in Seq(Content),
         NEW i \in DOMAIN s, i <= Len(t), i <= Len(u), \A j \in 1..i : u[j] = t[j],
         NEW at, NEW length, NEW exactly
  PROVE  FrameField(s, u, i, at, length, exactly) = FrameField(s, t, i, at, length, exactly)
<1>1. /\ u[i] = t[i]
      /\ s[i].cond # 0 => u[s[s[i].cond].ctrl] = t[s[s[i].cond].ctrl]
      /\ s[i].kind \in {"array", "raw"} => u[s[i].ctrl] = t[s[i].ctrl]
      /\ s[i].kind = "nested" /\ s[i].ctrl # 0 => u[s[i].ctrl] = t[s[i].ctrl]
      /\ s[i].at # <<>> /\ s[i].at[1] = "field" => u[s[i].at[2]] = t[s[i].at[2]]
  <2>1. i \in 1..Len(s) /\ Len(s) \in Nat /\ s[i] \in Field /\ \A c \in 1..(i - 1) : c \in 1..i
    BY Reading
  <2>2. i \in 1..i
    BY <2>1
  <2>3. s[i].kind = "raw" => s[i].ctrl # 0
    BY <2>1, FieldTypes
  <2>4. /\ s[i].cond # 0 => s[s[i].cond].ctrl \in 1..(i - 1)
        /\ s[i].kind \in {"array", "raw"} => s[i].ctrl \in 1..(i - 1)
        /\ s[i].kind = "nested" /\ s[i].ctrl # 0 => s[i].ctrl \in 1..(i - 1)
        /\ s[i].at # <<>> /\ s[i].at[1] = "field" => s[i].at[2] \in 1..(i - 1)
    BY <2>3 DEF Struct, Located
  <2> QED BY <2>1, <2>2, <2>4
<1>2. Present(s, u, i) <=> Present(s, t, i)
  BY <1>1 DEF Present
<1>3. s[i].at # <<>> => s[i].at[1] \in {"static", "field"}
  BY Reading, FieldTypes
<1>4. Position(s, u, i, at) = Position(s, t, i, at)
  BY <1>1, <1>2, <1>3 DEF Position
<1>5. FieldStart(s, u, i, at) = FieldStart(s, t, i, at)
  BY <1>4 DEF FieldStart
<1>6. ASSUME NEW start PROVE FieldEnd(s, u, i, start, length, exactly) =
                             FieldEnd(s, t, i, start, length, exactly)
  <2>1. CASE Numeric(s[i])
    <3>1. ScalarEnd(s, u, i, start, length) = ScalarEnd(s, t, i, start, length)
      BY <1>1, <1>2 DEF ScalarEnd
    <3> QED BY <2>1, <3>1 DEF FieldEnd, Numeric
  <2>2. CASE s[i].kind = "bytes"
    BY <1>1, <2>2 DEF FieldEnd, Numeric
  <2>3. CASE s[i].kind \in {"flag", "bits", "rest"}
    BY <1>1, <2>3 DEF FieldEnd, Numeric
  <2>4. CASE s[i].kind = "raw"
    BY <1>1, <2>4 DEF FieldEnd, Numeric
  <2>5. CASE s[i].kind = "array"
    <3>1. ArrayEnd(s, u, i, start, length, exactly) = ArrayEnd(s, t, i, start, length, exactly)
      BY <1>1, <2>5 DEF ArrayEnd
    <3> QED BY <2>5, <3>1 DEF FieldEnd, Numeric
  <2>6. CASE s[i].kind = "nested" /\ s[i].ctrl # 0
    <3>1. BoundedChildEnd(s, u, i, start, length) = BoundedChildEnd(s, t, i, start, length)
      BY <1>1, <2>6 DEF BoundedChildEnd
    <3> QED BY <2>6, <3>1 DEF FieldEnd, Numeric
  <2>7. CASE s[i].kind = "nested" /\ s[i].ctrl = 0
    <3>1. ChildEnd(s, u, i, start, length, exactly) = ChildEnd(s, t, i, start, length, exactly)
      BY <1>1 DEF ChildEnd
    <3> QED BY <2>7, <3>1 DEF FieldEnd, Numeric
  <2> QED BY <2>1, <2>2, <2>3, <2>4, <2>5, <2>6, <2>7, Reading, FieldTypes DEF Numeric
<1> QED BY <1>5, <1>6 DEF FrameField

(* One more field extends a walk.                                          *)
LEMMA WalkExtends ==
  ASSUME NEW s, NEW t, NEW sp, NEW length, NEW exactly, Walk(s, t, sp, length, exactly),
         Len(t) < Len(s), NEW c \in Content,
         NEW r, r = FrameField(s, Append(t, c), Len(t) + 1, Reached(sp, Len(t)), length, exactly),
         r.tag = "ok"
  PROVE  Walk(s, Append(t, c), Append(sp, r), length, exactly)
<1> DEFINE u == Append(t, c)
           q == Append(sp, r)
           n == Len(t)
           i == n + 1
<1>1. /\ n \in Nat /\ Len(sp) = n /\ Len(u) = i /\ u \in Seq(Content) /\ u[i] = c
      /\ \A j \in 1..n : u[j] = t[j]
  BY WalkTypes
<1>2. /\ Len(q) = i /\ q[i] = r /\ \A j \in 1..n : q[j] = sp[j]
  BY WalkTypes
<1>3. \A j \in 0..n : Reached(q, j) = Reached(sp, j)
  BY <1>1, <1>2 DEF Reached
<1>4. Reached(q, n) = Reached(sp, n) /\ i - 1 = n /\ i \in 1..Len(s) /\ i \in DOMAIN s
  BY <1>1, <1>3, WalkTypes
<1>5. ASSUME NEW j \in 1..n
      PROVE  q[j] = FrameField(s, u, j, Reached(q, j - 1), length, exactly)
  <2>1. /\ j - 1 \in 0..n /\ j <= Len(t) /\ j <= Len(u) /\ j \in DOMAIN s
        /\ \A k \in 1..j : u[k] = t[k]
    BY <1>1, WalkTypes
  <2>2. sp[j] = FrameField(s, t, j, Reached(sp, j - 1), length, exactly)
    BY <1>1, WalkTypes
  <2>3. Struct(s) /\ t \in Seq(Content)
    BY WalkTypes
  <2>4. FrameField(s, u, j, Reached(sp, j - 1), length, exactly) =
        FrameField(s, t, j, Reached(sp, j - 1), length, exactly)
    <3> HIDE DEF u
    <3> QED BY <1>1, <2>1, <2>3, ReadsSoFar
  <2> HIDE DEF q, u
  <2> QED BY <1>2, <1>3, <2>1, <2>2, <2>4
<1>6. q \in Seq(Spans)
  <2> SUFFICES r \in Spans
    BY WalkTypes
  <2>1. i <= Len(u) /\ Struct(s) /\ length \in Nat /\ exactly \in BOOLEAN
    BY <1>1, WalkTypes
  <2> DEFINE at == Reached(sp, n)
  <2>2. at \in Nat /\ r = FrameField(s, u, i, at, length, exactly)
    BY <1>1, WalkTypes
  <2>3. HasSequentialGeometry(s) \/ StaticOffset(s, i) \in {None, at}
    BY <1>1, NextOffset
  <2> HIDE DEF u, at, i
  <2>4. r = Span(r.start, r.end) /\ r.start \in Nat /\ r.end \in Nat
    BY <1>1, <1>4, <2>1, <2>2, <2>3, FieldStep
  <2> QED BY <2>4 DEF Span, Spans
<1>7. ASSUME NEW j \in 1..Len(q)
      PROVE  q[j] = FrameField(s, u, j, Reached(q, j - 1), length, exactly)
  <2>1. j \in 1..n \/ j = i
    BY <1>1, <1>2, <1>7
  <2>2. q[i] = FrameField(s, u, i, Reached(q, i - 1), length, exactly)
    BY <1>2, <1>4
  <2> HIDE DEF q, u, i, n
  <2> QED BY <1>5, <2>1, <2>2
<1>8. Len(u) <= Len(s) /\ Len(q) = Len(u)
  BY <1>1, <1>2, WalkTypes
<1> HIDE DEF q, u
<1> QED BY <1>1, <1>6, <1>7, <1>8, WalkTypes DEF Walk, q, u

-----------------------------------------------------------------------------
(* The inductive invariant: whatever was framed is a walk.                 *)
Inv ==
  /\ Normalized(fields) /\ available \in Nat /\ exact \in BOOLEAN
  /\ stage \in {"declaring", "framing", "framed", "failed"}
  /\ stage = "declaring" => text = <<>> /\ spans = <<>> /\ cursor = 0
  /\ stage # "declaring" => Located(fields)
  /\ stage \in {"framing", "framed"} =>
       Walk(fields, text, spans, available, exact) /\ cursor = Reached(spans, Len(spans))
  /\ stage = "framed" => Len(text) = Len(fields) /\ descriptor = Retained(fields, spans)

LEMMA InitInv == Init => Inv
<1> SUFFICES ASSUME Init PROVE Inv
  OBVIOUS
<1>1. Normalized(fields)
  BY DEF Init, Normalized
<1> QED BY <1>1 DEF Init, Inv

LEMMA DeclareInv ==
  ASSUME Inv, NEW f \in Candidates, Declare(f)
  PROVE  Inv'
<1>1. f \in Field
  BY StructViewAssumption DEF Candidates
<1> DEFINE n == Len(fields)
<1>2. /\ fields \in Seq(Field) /\ n \in Nat /\ fields' = Append(fields, f)
      /\ Len(fields') = n + 1 /\ fields' \in Seq(Field) /\ fields'[n + 1] = f
      /\ \A i \in 1..n : fields'[i] = fields[i]
  BY <1>1 DEF Inv, Normalized, Declare
<1>3. ASSUME NEW i \in DOMAIN fields'
      PROVE  /\ i < Len(fields') => fields'[i].kind # "rest"
             /\ fields'[i].kind \in {"flag", "bits"} => ~Placed(fields'[i])
  <2>1. i \in 1..(n + 1)
    BY <1>2
  <2>2. CASE i = n + 1
    BY <1>2, <2>2 DEF Declare, Normalizes
  <2>3. CASE i # n + 1
    <3>1. i \in 1..n /\ i \in DOMAIN fields /\ fields # <<>>
      BY <1>2, <2>1, <2>3
    <3>2. fields'[i] = fields[i]
      BY <1>2, <3>1
    <3>3. fields[n].kind # "rest" /\ (i < n => fields[i].kind # "rest")
      BY <3>1 DEF Inv, Normalized, Declare, Normalizes
    <3>4. fields[i].kind \in {"flag", "bits"} => ~Placed(fields[i])
      BY <3>1 DEF Inv, Normalized
    <3>5. fields[i].kind # "rest"
      BY <1>2, <3>1, <3>3
    <3> QED BY <3>2, <3>4, <3>5
  <2> QED BY <2>2, <2>3
<1>4. Normalized(fields')
  BY <1>2, <1>3 DEF Normalized
<1> QED BY <1>4 DEF Inv, Declare, Framing

LEMMA DeriveInv ==
  ASSUME Inv, NEW exactly \in BOOLEAN, NEW length \in Lengths, Derive(exactly, length)
  PROVE  Inv'
<1>1. length \in Nat
  BY StructViewAssumption
<1>2. Located(fields) /\ Struct(fields)
  BY AcceptedLocated DEF Inv, Derive, Normalized, Struct
<1>3. Walk(fields, <<>>, <<>>, length, exactly) /\ 0 = Reached(<<>>, Len(<<>>))
  BY <1>1, <1>2 DEF Walk, Reached, Struct, Normalized
<1> QED BY <1>1, <1>2, <1>3 DEF Inv, Derive, Framing

LEMMA FrameInv ==
  ASSUME Inv, NEW i \in {Len(text) + 1} \cap DOMAIN fields,
         NEW content \in Contents(fields, i), Frame(content)
  PROVE  Inv'
<1>1. /\ stage = "framing" /\ Walk(fields, text, spans, available, exact)
      /\ cursor = Reached(spans, Len(spans))
  BY DEF Inv, Frame
<1>2. content \in Content
  <2> DEFINE f == fields[i]
             values  == IF Controller(fields, i) THEN Values
                        ELSE IF Numeric(f) /\ f.type = "bool" THEN {0, 1} ELSE {0}
             extents == IF f.kind \in {"varint", "nested", "array"} THEN Extents ELSE {1}
             fine    == IF \/ f.kind \in {"nested", "array", "varint"} \/ f.const
                           \/ (Numeric(f) /\ f.type \in {"bool", "custom"})
                        THEN BOOLEAN ELSE {TRUE}
  <2>1. content \in [ok : fine, value : values, extent : extents]
    BY DEF Contents
  <2>2. fine \subseteq BOOLEAN
    OBVIOUS
  <2>3. values \subseteq Nat /\ extents \subseteq Nat \ {0}
    BY StructViewAssumption
  <2> HIDE DEF values, extents, fine
  <2> QED BY <2>1, <2>2, <2>3 DEF Content
<1> DEFINE n == Len(text)
           taken == FrameField(fields, Append(text, content), n + 1, cursor, available, exact)
<1>3. n \in Nat /\ Len(spans) = n /\ Len(fields) \in Nat /\ n < Len(fields)
  BY <1>1, WalkTypes DEF Frame
<1>4. /\ text' = Append(text, content) /\ fields' = fields /\ exact' = exact
      /\ available' = available
      /\ IF taken.tag = "ok"
         THEN cursor' = taken.end /\ spans' = Append(spans, taken) /\ stage' = stage
         ELSE stage' = "failed"
  BY DEF Frame
<1> HIDE DEF taken
<1>5. CASE taken.tag = "ok"
  <2>1. Walk(fields, Append(text, content), Append(spans, taken), available, exact)
    BY <1>1, <1>2, <1>3, <1>5, WalkExtends DEF taken
  <2>2. taken.end = Reached(Append(spans, taken), Len(Append(spans, taken)))
    BY <1>1, <1>3, WalkTypes DEF Reached
  <2> QED BY <1>1, <1>4, <1>5, <2>1, <2>2 DEF Inv
<1>6. CASE taken.tag # "ok"
  BY <1>1, <1>4, <1>6 DEF Inv
<1> QED BY <1>5, <1>6

LEMMA FinishInv ==
  ASSUME Inv, Finish
  PROVE  Inv'
<1>1. /\ stage = "framing" /\ Walk(fields, text, spans, available, exact)
      /\ cursor = Reached(spans, Len(spans)) /\ Len(text) = Len(fields)
      /\ UNCHANGED <<fields, exact, available, text, cursor, spans>>
  BY DEF Inv, Finish
<1>2. \/ stage' = "failed"
      \/ stage' = "framed" /\ descriptor' = Retained(fields, spans)
  BY DEF Finish
<1> QED BY <1>1, <1>2 DEF Inv

LEMMA StepInv == Inv /\ [Next]_vars => Inv'
<1> SUFFICES ASSUME Inv, [Next]_vars PROVE Inv'
  OBVIOUS
<1>1. ASSUME NEW f \in Candidates, Declare(f) PROVE Inv'
  BY <1>1, DeclareInv
<1>2. ASSUME NEW exactly \in BOOLEAN, NEW length \in Lengths, Derive(exactly, length)
      PROVE  Inv'
  BY <1>2, DeriveInv
<1>3. ASSUME NEW i \in {Len(text) + 1} \cap DOMAIN fields,
             NEW content \in Contents(fields, i), Frame(content)
      PROVE  Inv'
  BY <1>3, FrameInv
<1>4. CASE Finish
  BY <1>4, FinishInv
<1>5. CASE UNCHANGED vars
  BY <1>5 DEF vars, Inv
<1> QED BY <1>1, <1>2, <1>3, <1>4, <1>5 DEF Next

LEMMA SpecInv == Spec => []Inv
<1> QED BY InitInv, StepInv, PTL DEF Spec

(* What a framed view is.                                                  *)
LEMMA FramedWalk ==
  ASSUME Inv, Framed
  PROVE  /\ Walk(fields, text, spans, available, exact)
         /\ Len(spans) = Len(fields) /\ Len(text) = Len(fields)
         /\ cursor = Reached(spans, Len(fields)) /\ descriptor = Retained(fields, spans)
BY DEF Inv, Framed, Walk

(* A view keeps only some of the starts and ends that framing found, and   *)
(* its getters recompute the others from static offsets and sums of sizes: *)
(* for every accepted struct, every content and every input they answer    *)
(* the range of every field that framing checked.                          *)
THEOREM GettersAnswerWhatWasFramed == Spec => []RangesReconstructed
<1>1. Inv => RangesReconstructed
  <2> SUFFICES ASSUME Inv, Framed, NEW i \in DOMAIN fields
               PROVE  Ranges(fields, descriptor, cursor)[i] =
                        [start |-> spans[i].start, end |-> spans[i].end]
    BY DEF RangesReconstructed
  <2>1. i \in 1..Len(fields)
    BY DEF Inv, Normalized
  <2> QED BY <2>1, FramedWalk, RangesAreSpans
<1> QED BY <1>1, SpecInv, PTL

(* FIXED_SIZE, a compile-time sum on which arrays and parents rely, is the *)
(* length of every representation that the struct accepts.                 *)
THEOREM FixedSizesAreHonest == Spec => []FixedSizeHonest
<1>1. Inv => FixedSizeHonest
  BY FramedWalk, FixedSizeOfWalk DEF FixedSizeHonest
<1> QED BY <1>1, SpecInv, PTL

-----------------------------------------------------------------------------
(* A field framed again, with another boundary.  Lacks: the answer asks    *)
(* for more input, and not for more than is missing.                       *)
Lacks(r, missing) == r.tag = "need_more" /\ r.more \in 1..missing

Still(s, t, i) == s[i].kind \in {"flag", "bits"} \/ ~Present(s, t, i)

LEMMA LacksMore ==
  ASSUME NEW n, NEW missing, n \in 1..missing PROVE Lacks(NeedMore(n), missing)
BY Tags DEF Lacks

LEMMA TakenAgain ==
  ASSUME NEW start \in Nat, NEW end \in Nat, NEW length \in Nat,
         NEW r, r = Taken(start, end, length), r.tag = "ok", NEW other \in Nat
  PROVE  /\ r = Span(start, end) /\ r.end = end
         /\ end <= other => Taken(start, end, other) = r
         /\ other < end => Lacks(Taken(start, end, other), end - other)
<1>1. r = Span(start, end) /\ ~(end > UsizeMax)
  BY Tags DEF Taken
<1>2. r.end = end
  BY <1>1, Tags
<1>3. end <= other => Taken(start, end, other) = r
  BY <1>1 DEF Taken
<1>4. ASSUME other < end PROVE Lacks(Taken(start, end, other), end - other)
  <2>1. end - other \in 1..(end - other)
    BY <1>4
  <2>2. Taken(start, end, other) = NeedMore(end - other)
    BY <1>1, <1>4 DEF Taken
  <2> QED BY <2>1, <2>2, LacksMore
<1> QED BY <1>1, <1>2, <1>3, <1>4

LEMMA ScalarAgain ==
  ASSUME NEW s, NEW t, NEW i, NEW start, NEW length, NEW e,
         FramedAt(s, t, i, start, length, Open, e), Numeric(s[i]), NEW other \in Nat
  PROVE  /\ e.end <= other => ScalarEnd(s, t, i, start, other) = e
         /\ other < e.end /\ ~Still(s, t, i) =>
              Lacks(ScalarEnd(s, t, i, start, other), e.end - other)
<1> DEFINE c == t[i]
           w == s[i].width
           bound == Controller(s, i) => c.value <= UsizeMax
<1>1. e = ScalarEnd(s, t, i, start, length) /\ e.tag = "ok" /\ start \in Nat /\ length \in Nat
  BY DEF FramedAt, FieldEnd, Numeric
<1>2. /\ s[i] \in Field /\ t[i] \in Content /\ UsizeMax \in Nat /\ w \in Nat
      /\ c.extent \in Nat \ {0}
  BY Reading, SMTT(30) DEF Content, Field, FramedAt
<1>3. CASE ~Present(s, t, i)
  BY <1>1, <1>3 DEF ScalarEnd, Still
<1>4. CASE Present(s, t, i) /\ s[i].kind = "varint"
  <2> DEFINE Read(l) == IF start > l THEN NeedMore(start - l + 1)
                        ELSE IF start + c.extent > l THEN NeedMore(1)
                        ELSE Span(start, start + c.extent)
  <2>1. \A l : ScalarEnd(s, t, i, start, l) = Checked(Checked(Read(l), c.ok, "schema"), bound, "layout")
    BY <1>4 DEF ScalarEnd
  <2>2. /\ c.ok /\ bound /\ e = Span(start, start + c.extent)
    <3>1. e = Checked(Checked(Read(length), c.ok, "schema"), bound, "layout")
      BY <1>1, <2>1
    <3> HIDE DEF bound, c
    <3>2. c.ok /\ bound /\ e = Read(length)
      BY <1>1, <3>1, Tags DEF Checked
    <3> QED BY <1>1, <3>2, Tags
  <2>3. ScalarEnd(s, t, i, start, other) = Read(other)
    BY <2>1, <2>2 DEF Checked
  <2> DEFINE x == c.extent
  <2>4. x \in Nat \ {0} /\ e = Span(start, start + x) /\ e.end = start + x
    BY <1>2, <2>2, Tags
  <2> HIDE DEF x
  <2>5. ScalarEnd(s, t, i, start, other) = IF start > other THEN NeedMore(start - other + 1)
                                           ELSE IF start + x > other THEN NeedMore(1)
                                           ELSE Span(start, start + x)
    BY <2>3 DEF x
  <2>6. e.end <= other => ScalarEnd(s, t, i, start, other) = e
    BY <1>1, <2>4, <2>5
  <2>7. ASSUME other < start + x
        PROVE  Lacks(ScalarEnd(s, t, i, start, other), start + x - other)
    <3>1. CASE start > other
      <4>1. start - other + 1 \in 1..(start + x - other)
        BY <1>1, <2>4, <3>1
      <4> QED BY <2>5, <3>1, <4>1, LacksMore
    <3>2. CASE ~(start > other)
      <4>1. 1 \in 1..(start + x - other)
        BY <1>1, <2>4, <2>7
      <4>2. ScalarEnd(s, t, i, start, other) = NeedMore(1)
        BY <1>1, <2>4, <2>5, <2>7, <3>2
      <4> QED BY <4>1, <4>2, LacksMore
    <3> QED BY <3>1, <3>2
  <2>8. e.end = start + x
    BY <2>4
  <2>9. other < e.end => other < start + x
    BY <2>8
  <2>10. e.end - other = start + x - other
    BY <1>1, <2>4
  <2> QED BY <2>6, <2>7, <2>9, <2>10
<1>5. CASE Present(s, t, i) /\ s[i].kind = "scalar"
  <2> DEFINE end == start + w
  <2>1. \A l : ScalarEnd(s, t, i, start, l) =
               Checked(Checked(Taken(start, end, l), c.ok, "schema"), bound, "layout")
    BY <1>5 DEF ScalarEnd
  <2>2. e = Checked(Checked(Taken(start, end, length), c.ok, "schema"), bound, "layout")
    BY <1>1, <2>1
  <2>3. end \in Nat
    BY <1>1, <1>2
  <2> HIDE DEF bound, c, end
  <2>4. c.ok /\ bound /\ e = Taken(start, end, length)
    BY <1>1, <2>2, Tags DEF Checked
  <2>5. ScalarEnd(s, t, i, start, other) = Taken(start, end, other)
    BY <2>1, <2>4 DEF Checked
  <2> QED BY <1>1, <2>3, <2>4, <2>5, TakenAgain
<1> QED BY <1>3, <1>4, <1>5 DEF Numeric

LEMMA ArrayAgain ==
  ASSUME NEW s, NEW t, NEW i, NEW start, NEW length, NEW e,
         FramedAt(s, t, i, start, length, Open, e), s[i].kind = "array", NEW other \in Nat
  PROVE  /\ e.end <= other => ArrayEnd(s, t, i, start, other, Open) = e
         /\ e.end <= other /\ (Terminal(s, i) => other = e.end) =>
              ArrayEnd(s, t, i, start, other, Closed) = e
         /\ other < e.end => Lacks(ArrayEnd(s, t, i, start, other, Open), e.end - other)
<1> DEFINE n == t[s[i].ctrl].value
           child == s[i].child
           c == t[i]
           Items(l) == ArrayExtent(child, c, start, n, l)
<1>1. /\ e = ArrayEnd(s, t, i, start, length, Open) /\ e.tag = "ok"
      /\ start \in Nat /\ length \in Nat
  BY DEF FramedAt, FieldEnd, Numeric
<1>2. child \in Promise /\ c \in Content /\ n \in Nat
  <2>1. s[i].ctrl \in 1..(i - 1)
    BY DEF FramedAt, Struct, Located
  <2> QED BY <2>1, Reading, ZenonT(40) DEF Content, Field, FramedAt
<1>3. start <= length /\ e = Items(length) /\ ~(n # 0 /\ ~child.leading)
  <2> HIDE DEF Items, n, child
  <2>1. e = IF start > length THEN NeedMore(start - length)
            ELSE IF n # 0 /\ ~child.leading THEN Fault("layout")
            ELSE Items(length)
    BY <1>1 DEF ArrayEnd, Items, n, child, Open
  <2>2. ~(start > length) /\ ~(n # 0 /\ ~child.leading) /\ e = Items(length)
    BY <1>1, <2>1, Tags
  <2> QED BY <1>1, <2>2
<1>4. /\ start <= other => ArrayEnd(s, t, i, start, other, Open) = Items(other)
      /\ start > other => ArrayEnd(s, t, i, start, other, Open) = NeedMore(start - other)
      /\ start <= other /\ ~Terminal(s, i) => ArrayEnd(s, t, i, start, other, Closed) = Items(other)
      /\ start <= other /\ Terminal(s, i) =>
           ArrayEnd(s, t, i, start, other, Closed) = Span(start, other)
  BY <1>1, <1>3 DEF ArrayEnd, Open, Closed
<1> HIDE DEF n, child, c
<1>5. /\ e = Span(start, e.end) /\ e.end \in Nat /\ start <= e.end
      /\ e.end <= other => Items(other) = e
      /\ start <= other /\ other < e.end =>
           LET cut == Items(other)
           IN  cut.tag = "need_more" /\ cut.more \in 1..(e.end - other)
  BY <1>1, <1>2, <1>3, ArrayExtentFacts
<1> HIDE DEF Items
<1>6. e.end <= other => start <= other
  BY <1>1, <1>5
<1>7. ASSUME other < e.end
      PROVE  Lacks(ArrayEnd(s, t, i, start, other, Open), e.end - other)
  <2>1. CASE start <= other
    BY <1>4, <1>5, <1>7, <2>1 DEF Lacks
  <2>2. CASE start > other
    <3>1. start - other \in 1..(e.end - other)
      BY <1>1, <1>5, <2>2
    <3> QED BY <1>4, <2>2, <3>1, LacksMore
  <2> QED BY <1>1, <2>1, <2>2
<1> QED BY <1>4, <1>5, <1>6, <1>7

LEMMA BoundedChildAgain ==
  ASSUME NEW s, NEW t, NEW i, NEW start, NEW length, NEW e,
         FramedAt(s, t, i, start, length, Open, e), s[i].kind = "nested", s[i].ctrl # 0,
         NEW other \in Nat
  PROVE  /\ e.end <= other => BoundedChildEnd(s, t, i, start, other) = e
         /\ other < e.end => Lacks(BoundedChildEnd(s, t, i, start, other), e.end - other)
<1> DEFINE n == t[s[i].ctrl].value
           end == start + n
           framed == ChildFrame(s[i].child, t[i], n, TRUE)
<1>1. e = BoundedChildEnd(s, t, i, start, length) /\ e.tag = "ok" /\ start \in Nat /\ length \in Nat
  BY DEF FramedAt, FieldEnd, Numeric
<1>2. n \in Nat /\ end \in Nat
  <2>1. s[i].ctrl \in 1..(i - 1)
    BY DEF FramedAt, Struct, Located
  <2>2. n \in Nat
    BY <2>1, Reading DEF Content, FramedAt
  <2> HIDE DEF n
  <2> QED BY <1>1, <2>2
<1>3. ASSUME NEW l
      PROVE  BoundedChildEnd(s, t, i, start, l) =
               IF Taken(start, end, l).tag # "ok" THEN Taken(start, end, l)
               ELSE IF framed.tag # "ok" THEN Fault("child")
               ELSE IF framed.end # n THEN Fault("extent") ELSE Taken(start, end, l)
  BY DEF BoundedChildEnd, Checked
<1> HIDE DEF framed, end, n
<1>4. e = Taken(start, end, length) /\ framed.tag = "ok" /\ framed.end = n
  <2>1. e = IF Taken(start, end, length).tag # "ok" THEN Taken(start, end, length)
            ELSE IF framed.tag # "ok" THEN Fault("child")
            ELSE IF framed.end # n THEN Fault("extent") ELSE Taken(start, end, length)
    BY <1>1, <1>3
  <2> QED BY <1>1, <2>1, Tags
<1>5. BoundedChildEnd(s, t, i, start, other) = Taken(start, end, other)
  BY <1>3, <1>4
<1> QED BY <1>1, <1>2, <1>4, <1>5, TakenAgain

LEMMA ChildAgain ==
  ASSUME NEW s, NEW t, NEW i, NEW start, NEW length, NEW e,
         FramedAt(s, t, i, start, length, Open, e), Unbounded(s[i]), Leading(s[i].child),
         NEW other \in Nat
  PROVE  /\ e.end <= other => ChildEnd(s, t, i, start, other, Open) = e
         /\ e.end <= other /\ (Terminal(s, i) => other = e.end) =>
              ChildEnd(s, t, i, start, other, Closed) = e
         /\ other < e.end => Lacks(ChildEnd(s, t, i, start, other, Open), e.end - other)
<1> DEFINE child == s[i].child
           c == t[i]
           fixed == child.fixed
           end == start + fixed
<1>1. /\ e = ChildEnd(s, t, i, start, length, Open) /\ e.tag = "ok"
      /\ start \in Nat /\ length \in Nat
  BY DEF FramedAt, FieldEnd, Numeric, Unbounded
<1>2. /\ child \in Promise /\ c \in Content /\ fixed \in Nat \cup {None}
      /\ fixed # None \/ child.leading
  BY Reading DEF Field, Promise, FramedAt, Leading
<1>3. CASE ~Terminal(s, i) /\ fixed # None
  <2>1. end \in Nat
    BY <1>1, <1>2, <1>3
  <2>2. ASSUME NEW l
        PROVE  /\ ChildEnd(s, t, i, start, l, Open) = Checked(Taken(start, end, l), c.ok, "schema")
               /\ ChildEnd(s, t, i, start, l, Closed) = Checked(Taken(start, end, l), c.ok, "schema")
    BY <1>3 DEF ChildEnd, Leading
  <2>3. e = Checked(Taken(start, end, length), c.ok, "schema")
    BY <1>1, <2>2
  <2> HIDE DEF end, c
  <2>4. c.ok /\ e = Taken(start, end, length)
    BY <1>1, <2>3, Tags DEF Checked
  <2>5. /\ ChildEnd(s, t, i, start, other, Open) = Taken(start, end, other)
        /\ ChildEnd(s, t, i, start, other, Closed) = Taken(start, end, other)
    BY <2>2, <2>4 DEF Checked
  <2> QED BY <1>1, <2>1, <2>4, <2>5, TakenAgain
<1>4. CASE Terminal(s, i) \/ fixed = None
  <2> DEFINE Prefix(l) == ChildFrame(child, c, l - start, Open)
             Whole(l) == ChildFrame(child, c, l - start, Closed)
             r == Prefix(length)
  <2>1. ASSUME NEW l
        PROVE  /\ start > l => ChildEnd(s, t, i, start, l, Open) = NeedMore(start - l)
               /\ ~(start > l) => ChildEnd(s, t, i, start, l, Open) =
                    IF Prefix(l).tag = "ok" THEN Span(start, start + Prefix(l).end) ELSE Prefix(l)
    BY <1>4 DEF ChildEnd, Leading, Open, Closed
  <2>2. ASSUME ~(start > other)
        PROVE  /\ ~Terminal(s, i) => ChildEnd(s, t, i, start, other, Closed) =
                    IF Prefix(other).tag = "ok" THEN Span(start, start + Prefix(other).end)
                    ELSE Prefix(other)
               /\ Terminal(s, i) => ChildEnd(s, t, i, start, other, Closed) =
                    IF Whole(other).tag = "ok" THEN Span(start, start + Whole(other).end)
                    ELSE Whole(other)
    BY <1>4, <2>2 DEF ChildEnd, Leading, Open, Closed
  <2> HIDE DEF Whole, child, c
  <2>3. start <= length /\ r.tag = "ok" /\ e = Span(start, start + r.end)
    <3> HIDE DEF Prefix, r
    <3>1. ~(start > length)
      BY <1>1, <2>1, Tags
    <3>2. e = IF Prefix(length).tag = "ok" THEN Span(start, start + Prefix(length).end)
              ELSE Prefix(length)
      BY <1>1, <2>1, <3>1
    <3> QED BY <1>1, <3>1, <3>2 DEF r
  <2> DEFINE left == length - start
  <2>4. left \in Nat /\ r = ChildFrame(child, c, left, Open) /\ Open \in BOOLEAN
    BY <1>1, <2>3 DEF Open
  <2> HIDE DEF left, r
  <2>5. r.end \in Nat
    BY <1>2, <2>3, <2>4, ChildShape
  <2>6. /\ ChildFrame(child, c, r.end, Closed) = r
        /\ \A l \in Nat : r.end <= l => ChildFrame(child, c, l, Open) = r
        /\ \A l \in Nat : l < r.end =>
             LET cut == ChildFrame(child, c, l, Open)
             IN  cut.tag = "need_more" /\ cut.more \in 1..(r.end - l)
    BY <1>2, <2>3, <2>4, ChildFrameFacts DEF fixed
  <2> DEFINE x == r.end
             m == other - start
  <2>7. x \in Nat /\ e.end = start + x /\ e = Span(start, start + r.end)
    BY <2>3, <2>5, Tags
  <2>8. ~(start > other) => m \in Nat
    BY <1>1
  <2>9. ~(start > other) /\ x <= m => Prefix(other) = r
    BY <2>6, <2>8
  <2>10. ~(start > other) /\ x = m => Whole(other) = r
    <3> SUFFICES ASSUME x = m PROVE ChildFrame(child, c, m, Closed) = r
      BY DEF Whole
    <3> QED BY <2>6
  <2>11. ASSUME ~(start > other), m < x PROVE Lacks(Prefix(other), x - m)
    BY <2>6, <2>8, <2>11 DEF Lacks
  <2> HIDE DEF Prefix
  <2>12. /\ e.end <= other => ~(start > other) /\ x <= m
         /\ other = e.end => x = m
         /\ other < e.end /\ ~(start > other) => m < x /\ x - m = e.end - other
         /\ start > other => start - other \in 1..(e.end - other)
    <3> HIDE DEF x
    <3>1. e.end = start + x /\ x \in Nat
      BY <2>7
    <3> QED BY <1>1, <3>1
  <2> HIDE DEF m, x
  <2>13. e.end <= other => ChildEnd(s, t, i, start, other, Open) = e
    BY <2>1, <2>3, <2>7, <2>9, <2>12
  <2>14. ASSUME e.end <= other, Terminal(s, i) => other = e.end
         PROVE  ChildEnd(s, t, i, start, other, Closed) = e
    BY <2>2, <2>3, <2>7, <2>9, <2>10, <2>12, <2>14
  <2>15. ASSUME other < e.end
         PROVE  Lacks(ChildEnd(s, t, i, start, other, Open), e.end - other)
    <3>1. CASE start > other
      BY <2>1, <2>12, <3>1, LacksMore
    <3>2. CASE ~(start > other)
      <4>1. Lacks(Prefix(other), e.end - other)
        BY <2>11, <2>12, <2>15, <3>2
      <4>2. ChildEnd(s, t, i, start, other, Open) = Prefix(other)
        BY <2>1, <3>2, <4>1 DEF Lacks
      <4> QED BY <4>1, <4>2
    <3> QED BY <3>1, <3>2
  <2> QED BY <2>13, <2>14, <2>15
<1> QED BY <1>3, <1>4

LEMMA FieldAgain ==
  ASSUME NEW s, NEW t, NEW i, NEW start, NEW length, NEW e,
         FramedAt(s, t, i, start, length, Open, e), s[i].kind # "rest",
         Unbounded(s[i]) => Leading(s[i].child), NEW other \in Nat
  PROVE  /\ e.end <= other => FieldEnd(s, t, i, start, other, Open) = e
         /\ e.end <= other /\ (Terminal(s, i) => other = e.end) =>
              FieldEnd(s, t, i, start, other, Closed) = e
         /\ other < e.end /\ ~Still(s, t, i) =>
              Lacks(FieldEnd(s, t, i, start, other, Open), e.end - other)
<1>1. /\ e = FieldEnd(s, t, i, start, length, Open) /\ e.tag = "ok" /\ s[i] \in Field
      /\ start \in Nat /\ length \in Nat
  BY Reading DEF FramedAt
<1>2. CASE Numeric(s[i])
  <2>1. /\ FieldEnd(s, t, i, start, other, Open) = ScalarEnd(s, t, i, start, other)
        /\ FieldEnd(s, t, i, start, other, Closed) = ScalarEnd(s, t, i, start, other)
    BY <1>2 DEF FieldEnd, Numeric
  <2> QED BY <1>2, <2>1, ScalarAgain
<1>3. CASE s[i].kind = "bytes"
  <2> DEFINE end == start + s[i].width
             ok == t[i].ok
  <2>1. /\ e = Checked(Taken(start, end, length), ok, "schema")
        /\ FieldEnd(s, t, i, start, other, Open) = Checked(Taken(start, end, other), ok, "schema")
        /\ FieldEnd(s, t, i, start, other, Closed) = Checked(Taken(start, end, other), ok, "schema")
    BY <1>1, <1>3 DEF FieldEnd, Numeric
  <2>2. end \in Nat
    BY <1>1, FieldTypes
  <2> HIDE DEF end
  <2>3. ok /\ e = Taken(start, end, length)
    BY <1>1, <2>1, Tags DEF Checked
  <2>4. /\ FieldEnd(s, t, i, start, other, Open) = Taken(start, end, other)
        /\ FieldEnd(s, t, i, start, other, Closed) = Taken(start, end, other)
    BY <2>1, <2>3 DEF Checked
  <2> QED BY <1>1, <2>2, <2>3, <2>4, TakenAgain
<1>4. CASE s[i].kind \in {"flag", "bits"}
  BY <1>1, <1>4 DEF FieldEnd, Numeric, Still
<1>5. CASE s[i].kind = "raw"
  <2> DEFINE n == t[s[i].ctrl].value
             end == start + n
  <2>1. /\ e = Taken(start, end, length)
        /\ FieldEnd(s, t, i, start, other, Open) = Taken(start, end, other)
        /\ FieldEnd(s, t, i, start, other, Closed) = Taken(start, end, other)
    BY <1>1, <1>5 DEF FieldEnd, Numeric
  <2>2. n \in Nat
    <3>1. s[i].ctrl # 0
      BY <1>1, <1>5, FieldTypes
    <3>2. s[i].ctrl \in 1..(i - 1)
      BY <1>5, <3>1 DEF FramedAt, Struct, Located
    <3> QED BY <3>2, Reading DEF Content, FramedAt
  <2> HIDE DEF n
  <2>3. end \in Nat
    BY <1>1, <2>2
  <2> HIDE DEF end
  <2> QED BY <1>1, <2>1, <2>3, TakenAgain
<1>6. CASE s[i].kind = "array"
  <2>1. /\ FieldEnd(s, t, i, start, other, Open) = ArrayEnd(s, t, i, start, other, Open)
        /\ FieldEnd(s, t, i, start, other, Closed) = ArrayEnd(s, t, i, start, other, Closed)
    BY <1>6 DEF FieldEnd, Numeric
  <2> QED BY <1>6, <2>1, ArrayAgain
<1>7. CASE s[i].kind = "nested" /\ s[i].ctrl # 0
  <2>1. /\ FieldEnd(s, t, i, start, other, Open) = BoundedChildEnd(s, t, i, start, other)
        /\ FieldEnd(s, t, i, start, other, Closed) = BoundedChildEnd(s, t, i, start, other)
    BY <1>7 DEF FieldEnd, Numeric
  <2> QED BY <1>7, <2>1, BoundedChildAgain
<1>8. CASE s[i].kind = "nested" /\ s[i].ctrl = 0
  <2>1. /\ FieldEnd(s, t, i, start, other, Open) = ChildEnd(s, t, i, start, other, Open)
        /\ FieldEnd(s, t, i, start, other, Closed) = ChildEnd(s, t, i, start, other, Closed)
    BY <1>8 DEF FieldEnd, Numeric
  <2> QED BY <1>8, <2>1, ChildAgain DEF Unbounded
<1> QED BY <1>1, <1>2, <1>3, <1>4, <1>5, <1>6, <1>7, <1>8, FieldTypes DEF Numeric

(* The same of a field in a walk, from where the walk reached it.          *)
LEMMA WalkAgain ==
  ASSUME NEW s, NEW t, NEW sp, NEW length, Walk(s, t, sp, length, Open),
         NEW i \in 1..Len(sp), s[i].kind # "rest", Unbounded(s[i]) => Leading(s[i].child),
         NEW other \in Nat
  PROVE  /\ sp[i].end <= other =>
              FrameField(s, t, i, Reached(sp, i - 1), other, Open) = sp[i]
         /\ sp[i].end <= other /\ (Terminal(s, i) => other = sp[i].end) =>
              FrameField(s, t, i, Reached(sp, i - 1), other, Closed) = sp[i]
         /\ Reached(sp, i - 1) <= other /\ other < sp[i].end =>
              Lacks(FrameField(s, t, i, Reached(sp, i - 1), other, Open), sp[i].end - other)
<1> DEFINE at == Reached(sp, i - 1)
           e == sp[i]
           start == e.start
<1>1. Stepped(s, t, sp, i, length, Open)
  BY WalkStepped
<1>2. /\ FieldStart(s, t, i, at) = Span(start, start) /\ FramedAt(s, t, i, start, length, Open, e)
      /\ at \in Nat /\ start \in Nat /\ e.end \in Nat /\ e = Span(start, e.end)
      /\ ~Placed(s[i]) \/ ~Present(s, t, i) => start = at
  BY <1>1 DEF Stepped
<1>3. /\ FrameField(s, t, i, at, other, Open) = FieldEnd(s, t, i, start, other, Open)
      /\ FrameField(s, t, i, at, other, Closed) = FieldEnd(s, t, i, start, other, Closed)
  BY <1>2, Tags DEF FrameField
<1> HIDE DEF at, e, start
<1>4. Still(s, t, i) => e.end = at
  <2>1. e = FieldEnd(s, t, i, start, length, Open) /\ Normalized(s) /\ Located(s) /\ i \in DOMAIN s
    BY <1>2 DEF FramedAt, Struct
  <2>2. CASE s[i].kind \in {"flag", "bits"}
    <3>1. e = Span(start, start)
      BY <2>1, <2>2 DEF FieldEnd, Numeric
    <3>2. ~Placed(s[i])
      BY <2>1, <2>2 DEF Normalized
    <3> QED BY <1>2, <3>1, <3>2, Tags
  <2>3. CASE ~Present(s, t, i)
    <3>1. Numeric(s[i])
      BY <2>1, <2>3 DEF Present, Located
    <3>2. e = ScalarEnd(s, t, i, start, length)
      BY <2>1, <3>1 DEF FieldEnd, Numeric
    <3>3. e = Span(start, start)
      BY <2>3, <3>2 DEF ScalarEnd
    <3> QED BY <1>2, <2>3, <3>3, Tags
  <2> QED BY <2>2, <2>3 DEF Still
<1>5. ASSUME at <= other, other < e.end PROVE ~Still(s, t, i)
  BY <1>2, <1>4, <1>5
<1> QED BY <1>2, <1>3, <1>5, FieldAgain DEF at, e

-----------------------------------------------------------------------------
(* A struct with a leading extent has no field that takes what is left.    *)
LEMMA LeadingFields ==
  ASSUME NEW s, Struct(s), LEADING_EXTENT(s), NEW i \in DOMAIN s
  PROVE  s[i].kind # "rest" /\ (Unbounded(s[i]) => Leading(s[i].child))
<1>1. s \in Seq(Field) /\ i \in 1..Len(s) /\ Len(s) \in Nat /\ s # <<>>
  BY DEF Struct, Normalized
<1>2. CASE i = Len(s)
  <2> DEFINE last == s[i]
  <2>1. TRUE = CASE last.kind = "rest" -> FALSE
                 [] last.kind = "array" -> last.child.leading
                 [] Unbounded(last) -> last.child.leading
                 [] OTHER -> TRUE
    BY <1>1, <1>2 DEF LEADING_EXTENT
  <2>2. Unbounded(last) => last.kind = "nested"
    BY DEF Unbounded
  <2> HIDE DEF last
  <2>3. last.kind # "rest" /\ (Unbounded(last) => last.child.leading)
    BY <2>1, <2>2
  <2> QED BY <2>3 DEF Leading, last
<1>3. CASE i # Len(s)
  <2>1. s[i].kind # "rest"
    BY <1>1, <1>3 DEF Struct, Normalized
  <2>2. ~Terminal(s, i)
    BY <1>3 DEF Terminal
  <2> QED BY <2>1, <2>2 DEF LEADING_EXTENT
<1> QED BY <1>2, <1>3

(* The recursion of Reframe has one solution.                              *)
RunStart == [at |-> 0, spans |-> <<>>, fault |-> Span(0, 0)]

LEMMA ReframeIs ==
  ASSUME NEW length, NEW exactly, Len(text) \in Nat,
         NEW h, h = [i \in 0..Len(text) |-> h[i]], h[0] = RunStart,
         \A i \in 1..Len(text) : h[i] = Refield(h[i - 1], i, length, exactly)
  PROVE  Reframe(length, exactly) = h[Len(text)]
<1> DEFINE n == Len(text)
           Again(run, i) == Refield(run, i, length, exactly)
           Solves(f) == f = [i \in 0..n |-> IF i = 0 THEN RunStart ELSE Again(f[i - 1], i)]
           run == CHOOSE f : Solves(f)
<1>1. Reframe(length, exactly) = run[n]
  BY DEF Reframe, RunStart
<1>2. \A i \in 1..n : h[i] = Again(h[i - 1], i)
  OBVIOUS
<1> HIDE DEF Again
<1>3. Solves(h)
  <2>1. ASSUME NEW i \in 0..n PROVE h[i] = IF i = 0 THEN RunStart ELSE Again(h[i - 1], i)
    <3>1. CASE i = 0
      BY <3>1
    <3>2. CASE i # 0
      <4>1. i \in 1..n
        BY <3>2
      <4> QED BY <1>2, <3>2, <4>1
    <3> QED BY <3>1, <3>2
  <2> HIDE DEF n
  <2> QED BY <2>1 DEF n
<1>4. Solves(run)
  <2> HIDE DEF Solves
  <2> QED BY <1>3
<1> HIDE DEF run
<1> DEFINE T == {i \in 0..n : run[i] = h[i]}
<1>5. \A i \in 0..n : i \in T
  <2>1. 0 \in T
    BY <1>4
  <2>2. ASSUME NEW i \in 0..(n - 1), i \in T PROVE i + 1 \in T
    <3>1. i + 1 \in 0..n /\ i + 1 \in 1..n /\ i + 1 # 0 /\ (i + 1) - 1 = i
      <4>1. n \in Nat
        OBVIOUS
      <4> HIDE DEF n
      <4> QED BY <4>1
    <3>2. run[i + 1] = Again(run[i], i + 1)
      <4> HIDE DEF n
      <4> QED BY <1>4, <3>1
    <3>3. h[i + 1] = Again(h[i], i + 1)
      <4> HIDE DEF n
      <4> QED BY <1>2, <3>1
    <3> HIDE DEF n
    <3> QED BY <2>2, <3>1, <3>2, <3>3
  <2>3. n \in Nat
    OBVIOUS
  <2> HIDE DEF T, n
  <2> QED BY <2>1, <2>2, <2>3, BoundedInduction
<1>6. n \in 0..n
  OBVIOUS
<1> QED BY <1>1, <1>5, <1>6

(* What is known of the run while nothing went wrong.                      *)
RunAt(sp, i) == [at |-> Reached(sp, i), spans |-> SubSeq(sp, 1, i), fault |-> Span(0, 0)]

LEMMA RunGoesOn ==
  ASSUME NEW sp, sp \in Seq(Spans), NEW i \in 1..Len(sp), NEW length, NEW exactly,
         FrameField(fields, text, i, Reached(sp, i - 1), length, exactly) = sp[i]
  PROVE  Refield(RunAt(sp, i - 1), i, length, exactly) = RunAt(sp, i)
<1> DEFINE run == RunAt(sp, i - 1)
           k == i - 1
<1>1. sp[i] \in Spans /\ sp[i].tag = "ok"
  <2>1. sp[i] \in Spans
    OBVIOUS
  <2> QED BY <2>1 DEF Spans
<1>2. Append(SubSeq(sp, 1, k), sp[i]) = SubSeq(sp, 1, i)
  <2>1. SubSeq(sp, 1, i) = SubSeq(sp, 1, i - 1) \o <<sp[i]>>
    <3>1. 1 \in 1..Len(sp) /\ i \in 1..Len(sp)
      OBVIOUS
    <3> QED BY <3>1, SubSeqRecursiveSecond
  <2>2. SubSeq(sp, 1, k) \in Seq(Spans)
    BY SubSeqProperties
  <2> QED BY <1>1, <2>1, <2>2, AppendIsConcat
<1>3. /\ run.at = Reached(sp, k) /\ run.spans = SubSeq(sp, 1, k) /\ run.fault = Span(0, 0)
  BY DEF RunAt
<1>4. FrameField(fields, text, i, run.at, length, exactly) = sp[i] /\ run.fault.tag = "ok"
  BY <1>3, Tags
<1>5. Refield(run, i, length, exactly) =
        [run EXCEPT !.at = sp[i].end, !.spans = Append(@, sp[i])]
  <2> HIDE DEF run
  <2> QED BY <1>1, <1>4 DEF Refield
<1>6. Reached(sp, i) = sp[i].end
  BY DEF Reached
<1> QED BY <1>2, <1>5, <1>6 DEF RunAt

(* A walk never goes back.                                                 *)
LEMMA WalkMonotone ==
  ASSUME NEW s, NEW t, NEW sp, NEW length, NEW exactly, Walk(s, t, sp, length, exactly),
         NEW from \in 0..Len(sp), NEW to \in from..Len(sp)
  PROVE  Reached(sp, from) <= Reached(sp, to)
<1> DEFINE n == Len(sp)
           T == {k \in from..n : Reached(sp, from) <= Reached(sp, k)}
<1>1. n \in Nat /\ from \in Nat /\ from <= n /\ \A k \in 0..n : Reached(sp, k) \in Nat
  BY WalkTypes
<1>2. from \in T
  <2> HIDE DEF n
  <2> QED BY <1>1
<1>3. ASSUME NEW k \in from..(n - 1), k \in T PROVE k + 1 \in T
  <2>1. k + 1 \in from..n /\ k + 1 \in 1..n /\ (k + 1) - 1 = k /\ k \in 0..n /\ k + 1 \in 0..n
        /\ k + 1 # 0
    <3> HIDE DEF n
    <3> QED BY <1>1
  <2>2. Reached(sp, k) <= sp[k + 1].start /\ sp[k + 1].start <= sp[k + 1].end
        /\ sp[k + 1].start \in Nat
    BY <2>1, WalkStepped DEF Stepped
  <2>3. Reached(sp, k + 1) = sp[k + 1].end
    BY <2>1 DEF Reached
  <2> DEFINE a == Reached(sp, from)
             b == Reached(sp, k)
             c == Reached(sp, k + 1)
             d == sp[k + 1].start
  <2>4. a \in Nat /\ b \in Nat /\ c \in Nat /\ d \in Nat
    BY <1>1, <2>1, <2>2
  <2>5. a <= b /\ b <= d /\ d <= c
    BY <1>3, <2>2, <2>3
  <2> HIDE DEF a, b, c, d
  <2>6. a <= c
    BY <2>4, <2>5
  <2> QED BY <2>1, <2>6 DEF a, c
<1>4. \A k \in from..n : k \in T
  <2> HIDE DEF T, n
  <2> QED BY <1>1, <1>2, <1>3, BoundedInduction
<1> QED BY <1>4

(* A framed view of a struct with a leading extent, and one of its fields. *)
LEMMA LeadingView ==
  ASSUME Inv, Framed, ~exact, LEADING_EXTENT(fields)
  PROVE  /\ Walk(fields, text, spans, available, Open) /\ spans \in Seq(Spans)
         /\ Len(text) = Len(spans) /\ Len(spans) \in Nat /\ Len(fields) = Len(spans)
         /\ cursor = Reached(spans, Len(spans)) /\ cursor \in Nat
         /\ \A k \in 0..Len(spans) : Reached(spans, k) \in Nat /\ Reached(spans, k) <= cursor
         /\ \A i \in 1..Len(spans) :
              /\ fields[i].kind # "rest"
              /\ Unbounded(fields[i]) => Leading(fields[i].child)
<1>1. exact = Open
  BY DEF Inv, Open
<1>2. /\ Walk(fields, text, spans, available, Open)
      /\ Len(spans) = Len(fields) /\ cursor = Reached(spans, Len(spans))
  BY <1>1, FramedWalk
<1>3. /\ Len(spans) \in Nat /\ Len(text) = Len(spans) /\ spans \in Seq(Spans)
      /\ Struct(fields) /\ \A i \in 1..Len(spans) : i \in DOMAIN fields
      /\ \A k \in 0..Len(spans) : Reached(spans, k) \in Nat
  BY <1>2, WalkTypes
<1>4. ASSUME NEW k \in 0..Len(spans) PROVE Reached(spans, k) <= cursor
  <2>1. Len(spans) \in k..Len(spans)
    BY <1>3
  <2> QED BY <1>2, <2>1, WalkMonotone
<1>5. \A i \in 1..Len(spans) : /\ fields[i].kind # "rest"
                               /\ Unbounded(fields[i]) => Leading(fields[i].child)
  BY <1>3, LeadingFields
<1> QED BY <1>2, <1>3, <1>4, <1>5

LEMMA SameAgain ==
  ASSUME Inv, Framed, ~exact, LEADING_EXTENT(fields), NEW length \in Nat, NEW exactly,
         \A i \in 1..Len(spans) :
           FrameField(fields, text, i, Reached(spans, i - 1), length, exactly) = spans[i]
  PROVE  Reframe(length, exactly).spans = spans
<1> DEFINE n == Len(spans)
           h == [i \in 0..n |-> RunAt(spans, i)]
<1>1. n \in Nat /\ Len(text) = n /\ spans \in Seq(Spans)
  BY LeadingView
<1>2. h = [i \in 0..n |-> h[i]]
  OBVIOUS
<1>3. h[0] = RunStart
  <2>1. SubSeq(spans, 1, 0) = <<>>
    BY SubSeqEmpty
  <2> QED BY <1>1, <2>1 DEF RunAt, RunStart, Reached
<1>4. ASSUME NEW i \in 1..n PROVE h[i] = Refield(h[i - 1], i, length, exactly)
  <2>1. h[i] = RunAt(spans, i) /\ h[i - 1] = RunAt(spans, i - 1)
    BY <1>1
  <2> HIDE DEF h
  <2> QED BY <1>1, <2>1, RunGoesOn
<1>5. h[n] = RunAt(spans, n)
  BY <1>1
<1> HIDE DEF h
<1>6. Reframe(length, exactly) = h[n]
  BY <1>1, <1>2, <1>3, <1>4, ReframeIs
<1>7. SubSeq(spans, 1, n) = spans
  BY <1>1, SubSeqFull
<1> QED BY <1>5, <1>6, <1>7 DEF RunAt

(* A struct with a leading extent finds its own end: whatever input        *)
(* follows, framing answers the same ranges, and exactly its own bytes are *)
(* framed as a whole by frame_exact.                                       *)
THEOREM PrefixesAreDetermined == Spec => []PrefixDetermined
<1>1. ASSUME Inv, Framed, ~exact, LEADING_EXTENT(fields)
      PROVE  /\ \A length \in {m \in Lengths : cursor <= m} :
                  Reframe(length, FALSE).spans = spans
             /\ Reframe(cursor, TRUE).spans = spans
  <2> DEFINE n == Len(spans)
  <2>1. /\ Walk(fields, text, spans, available, Open) /\ n \in Nat /\ Len(fields) = n
        /\ cursor = Reached(spans, n) /\ cursor \in Nat
    BY <1>1, LeadingView
  <2>2. ASSUME NEW i \in 1..n
        PROVE  /\ fields[i].kind # "rest" /\ (Unbounded(fields[i]) => Leading(fields[i].child))
               /\ spans[i].end <= cursor /\ spans[i].end \in Nat
               /\ Terminal(fields, i) => cursor = spans[i].end
    <3>1. i \in 0..n /\ Reached(spans, i) = spans[i].end
      BY <2>1 DEF Reached
    <3> QED BY <1>1, <2>1, <3>1, LeadingView DEF Terminal
  <2>3. ASSUME NEW length \in Nat, cursor <= length
        PROVE  Reframe(length, Open).spans = spans
    <3>1. ASSUME NEW i \in 1..n
          PROVE  FrameField(fields, text, i, Reached(spans, i - 1), length, Open) = spans[i]
      <4>1. spans[i].end <= length
        BY <2>1, <2>2, <2>3
      <4> QED BY <2>1, <2>2, <4>1, WalkAgain
    <3> QED BY <1>1, <3>1, SameAgain
  <2>4. Reframe(cursor, Closed).spans = spans
    <3>1. ASSUME NEW i \in 1..n
          PROVE  FrameField(fields, text, i, Reached(spans, i - 1), cursor, Closed) = spans[i]
      BY <2>1, <2>2, WalkAgain
    <3> QED BY <1>1, <2>1, <3>1, SameAgain
  <2>5. ASSUME NEW length \in {m \in Lengths : cursor <= m}
        PROVE  Reframe(length, Open).spans = spans
    <3>1. length \in Nat /\ cursor <= length
      BY StructViewAssumption
    <3> QED BY <2>3, <3>1
  <2> QED BY <2>4, <2>5 DEF Open, Closed
<1>2. Inv => PrefixDetermined
  BY <1>1 DEF PrefixDetermined
<1> QED BY <1>2, SpecInv, PTL

(* Every proper prefix of a representation of such a struct is reported as *)
(* incomplete, and never asks for more than is missing: framing stops at   *)
(* the first field that ends behind the input.                             *)
THEOREM PrefixesNeedMore == Spec => []IncompleteNeedsMore
<1>1. ASSUME Inv, Framed, ~exact, LEADING_EXTENT(fields), NEW length \in 0..(cursor - 1)
      PROVE  Lacks(Reframe(length, Open).fault, cursor - length)
  <2> DEFINE n == Len(spans)
             Late == {k \in 0..n : length < Reached(spans, k)}
  <2>1. /\ Walk(fields, text, spans, available, Open) /\ n \in Nat /\ Len(text) = n
        /\ cursor = Reached(spans, n) /\ cursor \in Nat /\ spans \in Seq(Spans)
    BY <1>1, LeadingView
  <2>2. length \in Nat /\ length < cursor
    BY <2>1
  <2>3. PICK k \in Late : \A j \in Late : k <= j
    <3>1. n \in Late
      BY <2>1, <2>2
    <3>2. Late \subseteq Nat
      BY <2>1
    <3> HIDE DEF Late
    <3> QED BY <3>1, <3>2, LeastElement
  <2>4. k \in 1..n /\ length < Reached(spans, k)
    <3>1. Reached(spans, 0) = 0
      BY DEF Reached
    <3> QED BY <2>1, <2>2, <2>3, <3>1
  <2>5. ASSUME NEW j \in 0..(k - 1) PROVE Reached(spans, j) <= length
    <3>1. j \in 0..n /\ ~(k <= j)
      BY <2>1, <2>4
    <3>2. ~(length < Reached(spans, j))
      BY <2>3, <3>1
    <3>3. Reached(spans, j) \in Nat
      BY <1>1, <3>1, LeadingView
    <3> QED BY <2>2, <3>2, <3>3
  <2> HIDE DEF Late
  <2> DEFINE cut == FrameField(fields, text, k, Reached(spans, k - 1), length, Open)
             stopped == [RunAt(spans, k - 1) EXCEPT !.fault = cut]
             h == [i \in 0..n |-> IF i < k THEN RunAt(spans, i) ELSE stopped]
  <2>6. ASSUME NEW i \in 1..n
        PROVE  /\ fields[i].kind # "rest" /\ (Unbounded(fields[i]) => Leading(fields[i].child))
               /\ Reached(spans, i) = spans[i].end
    BY <1>1, LeadingView DEF Reached
  <2>7. Lacks(cut, spans[k].end - length)
    <3>1. Reached(spans, k - 1) <= length /\ length < spans[k].end
      BY <2>4, <2>5, <2>6
    <3> QED BY <2>1, <2>2, <2>4, <2>6, <3>1, WalkAgain
  <2>8. ASSUME NEW i \in 1..(k - 1)
        PROVE  FrameField(fields, text, i, Reached(spans, i - 1), length, Open) = spans[i]
    <3>1. i \in 1..n /\ i \in 0..(k - 1)
      BY <2>1, <2>4
    <3>2. spans[i].end <= length
      BY <2>5, <2>6, <3>1
    <3> QED BY <2>1, <2>2, <2>6, <3>1, <3>2, WalkAgain
  <2> HIDE DEF cut
  <2>9. h = [i \in 0..n |-> h[i]]
    OBVIOUS
  <2>10. h[0] = RunStart
    <3>1. SubSeq(spans, 1, 0) = <<>>
      BY SubSeqEmpty
    <3> QED BY <2>1, <2>4, <3>1 DEF RunAt, RunStart, Reached
  <2>11. ASSUME NEW i \in 1..n PROVE h[i] = Refield(h[i - 1], i, length, Open)
    <3>1. CASE i < k
      <4>1. h[i] = RunAt(spans, i) /\ h[i - 1] = RunAt(spans, i - 1) /\ i \in 1..(k - 1)
        BY <2>1, <2>4, <3>1
      <4> HIDE DEF h
      <4> QED BY <2>1, <2>8, <4>1, RunGoesOn
    <3>2. CASE i = k
      <4>1. h[i] = stopped /\ h[i - 1] = RunAt(spans, k - 1)
        BY <2>1, <2>4, <3>2
      <4> HIDE DEF h
      <4> DEFINE run == RunAt(spans, k - 1)
      <4>2. run.at = Reached(spans, k - 1) /\ run.fault.tag = "ok"
        BY Tags DEF RunAt
      <4>3. FrameField(fields, text, k, run.at, length, Open) = cut /\ cut.tag # "ok"
        BY <2>7, <4>2 DEF cut, Lacks
      <4> HIDE DEF run
      <4>4. Refield(run, k, length, Open) = [run EXCEPT !.fault = cut]
        BY <4>2, <4>3 DEF Refield
      <4> QED BY <3>2, <4>1, <4>4 DEF run
    <3>3. CASE i > k
      <4>1. h[i] = stopped /\ h[i - 1] = stopped
        BY <2>1, <2>4, <3>3
      <4> HIDE DEF h
      <4>2. stopped.fault.tag # "ok"
        BY <2>7 DEF RunAt, Lacks
      <4> HIDE DEF stopped
      <4> QED BY <4>1, <4>2 DEF Refield
    <3> QED BY <2>1, <2>4, <3>1, <3>2, <3>3
  <2>12. h[n] = stopped
    BY <2>1, <2>4
  <2> HIDE DEF h
  <2>13. Reframe(length, Open) = h[n]
    BY <2>1, <2>9, <2>10, <2>11, ReframeIs
  <2>14. Reframe(length, Open).fault = cut
    BY <2>12, <2>13 DEF RunAt
  <2>15. spans[k].end \in Nat /\ spans[k].end <= cursor
    <3>1. k \in 0..n
      BY <2>1, <2>4
    <3> QED BY <1>1, <2>4, <2>6, <3>1, LeadingView
  <2> DEFINE end == spans[k].end
  <2>16. end \in Nat /\ end <= cursor /\ cut.more \in 1..(end - length) /\ cut.tag = "need_more"
    BY <2>7, <2>15 DEF Lacks
  <2> HIDE DEF end
  <2>17. cut.more \in 1..(cursor - length)
    BY <2>1, <2>2, <2>16
  <2> QED BY <2>14, <2>16, <2>17 DEF Lacks
<1>2. Inv => IncompleteNeedsMore
  BY <1>1 DEF IncompleteNeedsMore, Open, Lacks
<1> QED BY <1>2, SpecInv, PTL
=============================================================================
