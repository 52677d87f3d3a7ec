------------------------ MODULE ByteSelection_proofs ------------------------
(***************************************************************************)
(* Proofs about ByteSelection, for every representation and every sequence *)
(* of ranges an expression may resolve to.                                 *)
(***************************************************************************)
EXTENDS ByteSelection, Iteration

(* What an iteration is given and never changes.                           *)
Given ==
  /\ length \in Nat /\ kept \in BOOLEAN
  /\ fields \in Seq([start : Nat, end : Nat])

(* A byte that some range names, and a place that no range holds or begins.*)
Covered(b) == \E r \in Visited : r.start <= b /\ b < r.end
Gap(e)     == \A r \in Visited : ~(r.start <= e /\ e < r.end)

LEMMA VisitedFields ==
  ASSUME Given
  PROVE  /\ Visited \subseteq [start : Nat, end : Nat]
         /\ \A r \in Visited : r.start < r.end /\ r.end <= length
         /\ \A r : r \in Visited <=>
              \E k \in 1..Len(fields) : r = fields[k] /\ Visits(fields[k])
         /\ Len(fields) \in Nat
         /\ \A k \in 1..Len(fields) : fields[k] \in [start : Nat, end : Nat]
<1> DEFINE R == [start : Nat, end : Nat]
<1>1. /\ Len(fields) \in Nat /\ DOMAIN fields = 1..Len(fields)
      /\ \A k \in 1..Len(fields) : fields[k] \in R
  <2>1. fields \in Seq(R)
    BY DEF Given
  <2> HIDE DEF R
  <2> QED BY <2>1
<1>2. \A r : r \in Range(fields) <=> \E k \in 1..Len(fields) : r = fields[k]
  BY <1>1 DEF Range
<1>3. \A r : r \in Visited <=>
        \E k \in 1..Len(fields) : r = fields[k] /\ Visits(fields[k])
  BY <1>2 DEF Visited
<1> HIDE DEF R
<1>4. Visited \subseteq R
  BY <1>1, <1>3
<1>5. \A r \in Visited : r.start < r.end /\ r.end <= length
  BY DEF Visited, Visits
<1> QED BY <1>1, <1>3, <1>4, <1>5 DEF R

-----------------------------------------------------------------------------
(* One range, one pass, all passes.                                        *)
LEMMA AbsorbedFacts ==
  ASSUME Given, NEW from \in Nat, NEW end \in from..length, NEW k \in 1..Len(fields)
  PROVE  /\ Absorbed(from, end, fields[k]) \in end..length
         /\ \A b \in end..(Absorbed(from, end, fields[k]) - 1) : Covered(b)
         /\ Absorbed(from, end, fields[k]) = end =>
              ~(Visits(fields[k]) /\ fields[k].start <= end /\ end < fields[k].end)
         /\ Gap(end) => Absorbed(from, end, fields[k]) = end
<1> DEFINE r == fields[k]
<1>1. r \in [start : Nat, end : Nat] /\ length \in Nat
  BY VisitedFields DEF Given
<1>2. Visits(r) => r \in Visited
  BY VisitedFields
<1> HIDE DEF r
<1>3. CASE Visits(r) /\ r.start <= end /\ r.end > from /\ r.end > end
  <2>1. Absorbed(from, end, r) = r.end
    BY <1>3 DEF Absorbed
  <2>2. r \in Visited /\ r.end <= length
    BY <1>2, <1>3 DEF Visits
  <2>3. \A b \in end..(r.end - 1) : Covered(b)
    BY <1>1, <1>3, <2>2 DEF Covered
  <2>4. ~Gap(end) /\ r.end \in end..length /\ r.end # end
    BY <1>1, <1>3, <2>2 DEF Gap
  <2> QED BY <2>1, <2>3, <2>4 DEF r
<1>4. CASE ~(Visits(r) /\ r.start <= end /\ r.end > from /\ r.end > end)
  <2>1. Absorbed(from, end, r) = end
    BY <1>4 DEF Absorbed
  <2>2. ~(Visits(r) /\ r.start <= end /\ end < r.end)
    BY <1>1, <1>4
  <2>3. end \in end..length /\ \A b \in end..(end - 1) : Covered(b)
    BY <1>1
  <2> QED BY <2>1, <2>2, <2>3 DEF r
<1> QED BY <1>3, <1>4

(* What a pass computes, range by range.                                   *)
GrownBy(g, from, end) ==
  /\ g \in [0..Len(fields) -> from..length]
  /\ g[0] = end
  /\ \A k \in 1..Len(fields) : g[k] = Absorbed(from, g[k - 1], fields[k])

LEMMA GrownExists ==
  ASSUME Given, NEW from \in Nat, NEW end \in from..length
  PROVE  \E g : GrownBy(g, from, end) /\ Grown(from, end) = g[Len(fields)]
<1> DEFINE S == from..length
           n == Len(fields)
           step == [k \in Nat |-> [e \in S |->
                      IF k \in 1..n THEN Absorbed(from, e, fields[k]) ELSE e]]
           Solves(g) == g = [k \in 0..n |->
                               IF k = 0 THEN end ELSE Absorbed(from, g[k - 1], fields[k])]
<1>1. n \in Nat /\ length \in Nat
  BY VisitedFields DEF Given
<1>2. \A e \in S, k \in 1..n : Absorbed(from, e, fields[k]) \in S
  <2> SUFFICES ASSUME NEW e \in S, NEW k \in 1..n PROVE Absorbed(from, e, fields[k]) \in S
    OBVIOUS
  <2>1. Absorbed(from, e, fields[k]) \in e..length
    BY AbsorbedFacts
  <2> QED BY <1>1, <2>1
<1>3. step \in [Nat -> [S -> S]] /\ end \in S
  <2> HIDE DEF S, n
  <2> QED BY <1>2 DEF S
<1>4. PICK f \in [0..n -> S] : f[0] = end /\ \A k \in 1..n : f[k] = step[k][f[k - 1]]
  <2> HIDE DEF S, n, step
  <2>1. Iterable(n, S, end, step)
    BY <1>1, <1>3, IterationExists
  <2> QED BY <2>1 DEF Iterable
<1>5. ASSUME NEW k \in 0..n, k # 0
      PROVE  k - 1 \in 0..n /\ k \in 1..n /\ f[k] = Absorbed(from, f[k - 1], fields[k])
  <2>1. k - 1 \in 0..n /\ k \in 1..n /\ k \in Nat
    BY <1>1, <1>5
  <2>2. f[k - 1] \in S /\ f[k] = step[k][f[k - 1]]
    <3> HIDE DEF S, n, step
    <3> QED BY <1>4, <2>1
  <2> HIDE DEF S, n
  <2> QED BY <2>1, <2>2
<1>6. Solves(f)
  <2> HIDE DEF S, n, step
  <2> QED BY <1>4, <1>5
<1>7. \A g : Solves(g) => GrownBy(g, from, end)
  <2> SUFFICES ASSUME NEW g, Solves(g) PROVE GrownBy(g, from, end)
    OBVIOUS
  <2>1. /\ g[0] = end
        /\ \A k \in 1..n : k \in 0..n /\ k - 1 \in 0..n
                        /\ g[k] = Absorbed(from, g[k - 1], fields[k])
    <3> HIDE DEF n
    <3> QED BY <1>1
  <2> DEFINE T == {k \in 0..n : g[k] \in S}
  <2> HIDE DEF S
  <2>2. 0 \in T
    BY <1>1, <1>3, <2>1
  <2>3. ASSUME NEW k \in 0..(n - 1), k \in T PROVE k + 1 \in T
    <3>1. k + 1 \in 1..n /\ (k + 1) - 1 = k
      BY <1>1
    <3>2. g[k + 1] = Absorbed(from, g[k], fields[k + 1]) /\ k + 1 \in 0..n
      BY <2>1, <3>1
    <3> QED BY <1>2, <2>3, <3>1, <3>2
  <2>4. \A k \in 0..n : k \in T
    <3> HIDE DEF T, n
    <3> QED BY <1>1, <2>2, <2>3, BoundedInduction
  <2>5. g \in [0..n -> S]
    <3> HIDE DEF n
    <3> QED BY <2>4
  <2> QED BY <2>1, <2>5 DEF GrownBy, S
<1> DEFINE grown == CHOOSE g : Solves(g)
<1>8. Grown(from, end) = grown[n]
  BY DEF Grown
<1>9. Solves(grown)
  <2> HIDE DEF Solves
  <2> QED BY <1>6
<1> HIDE DEF grown, Solves
<1> QED BY <1>7, <1>8, <1>9

(* A pass moves the end only over named bytes, and changes nothing exactly *)
(* where no range goes on.                                                 *)
LEMMA GrownFacts ==
  ASSUME Given, NEW from \in Nat, NEW end \in from..length
  PROVE  /\ Grown(from, end) \in end..length
         /\ \A b \in end..(Grown(from, end) - 1) : Covered(b)
         /\ Grown(from, end) = end <=> Gap(end)
<1> DEFINE n == Len(fields)
<1>1. n \in Nat /\ length \in Nat /\ end \in Nat
  BY VisitedFields DEF Given
<1>2. PICK g : GrownBy(g, from, end) /\ Grown(from, end) = g[n]
  BY GrownExists
<1>3. /\ \A k \in 0..n : g[k] \in from..length /\ g[k] \in Nat
      /\ g[0] = end
      /\ \A k \in 1..n : g[k] = Absorbed(from, g[k - 1], fields[k])
  BY <1>2 DEF GrownBy
<1>4. ASSUME NEW k \in 0..(n - 1)
      PROVE  /\ k \in 0..n /\ k + 1 \in 0..n /\ k + 1 \in 1..n /\ (k + 1) - 1 = k
             /\ g[k + 1] = Absorbed(from, g[k], fields[k + 1])
             /\ g[k] <= g[k + 1]
             /\ \A b \in g[k]..(g[k + 1] - 1) : Covered(b)
  <2>1. k \in 0..n /\ k + 1 \in 0..n /\ k + 1 \in 1..n /\ (k + 1) - 1 = k
    BY <1>1
  <2>2. g[k + 1] = Absorbed(from, g[k], fields[k + 1]) /\ g[k] \in from..length
    BY <1>3, <2>1
  <2>3. /\ g[k + 1] \in g[k]..length
        /\ \A b \in g[k]..(g[k + 1] - 1) : Covered(b)
    BY <2>1, <2>2, AbsorbedFacts
  <2> QED BY <2>1, <2>2, <2>3
<1> HIDE DEF n
<1> DEFINE Reach == {k \in 0..n : /\ end <= g[k]
                                  /\ \A b \in end..(g[k] - 1) : Covered(b)}
<1>5. \A k \in 0..n : k \in Reach
  <2>1. 0 \in Reach
    BY <1>1, <1>3
  <2>2. ASSUME NEW k \in 0..(n - 1), k \in Reach PROVE k + 1 \in Reach
    BY <1>1, <1>3, <1>4, <2>2
  <2> HIDE DEF Reach
  <2> QED BY <1>1, <2>1, <2>2, BoundedInduction
<1>6. \A k \in 0..n : g[k] <= g[n]
  <2> SUFFICES ASSUME NEW k \in 0..n PROVE g[k] <= g[n]
    OBVIOUS
  <2> DEFINE Above == {j \in 0..n : g[k] <= g[j]}
  <2>1. k \in Above
    BY <1>3
  <2>2. ASSUME NEW j \in k..(n - 1), j \in Above PROVE j + 1 \in Above
    <3>1. j \in 0..(n - 1)
      OBVIOUS
    <3> QED BY <1>3, <1>4, <2>2, <3>1
  <2>3. \A j \in k..n : j \in Above
    <3> HIDE DEF Above
    <3> QED BY <1>1, <2>1, <2>2, BoundedInduction
  <2> QED BY <1>1, <2>3
<1>7. n \in 0..n /\ 0 \in 0..n
  BY <1>1
<1>8. ASSUME g[n] = end PROVE Gap(end)
  <2> SUFFICES ASSUME NEW r \in Visited, r.start <= end, end < r.end PROVE FALSE
    BY DEF Gap
  <2>1. PICK k \in 1..n : r = fields[k] /\ Visits(fields[k])
    BY VisitedFields DEF n
  <2>2. k - 1 \in 0..(n - 1) /\ k - 1 \in 0..n /\ k \in 0..n /\ (k - 1) + 1 = k
    BY <1>1
  <2>3. g[k - 1] = end /\ g[k] = end
    <3>1. end <= g[k - 1] /\ g[k - 1] <= end /\ end <= g[k] /\ g[k] <= end
      BY <1>5, <1>6, <1>8, <2>2
    <3>2. g[k - 1] \in Nat /\ g[k] \in Nat
      BY <1>3, <2>2
    <3> QED BY <1>1, <3>1, <3>2
  <2>4. Absorbed(from, end, fields[k]) = end
    BY <1>3, <2>3
  <2> QED BY <2>1, <2>4, AbsorbedFacts DEF n
<1>9. ASSUME Gap(end) PROVE g[n] = end
  <2> DEFINE Still == {k \in 0..n : g[k] = end}
  <2>1. 0 \in Still
    BY <1>3, <1>7
  <2>2. ASSUME NEW k \in 0..(n - 1), k \in Still PROVE k + 1 \in Still
    BY <1>4, <1>9, <2>2, AbsorbedFacts DEF n
  <2>3. \A k \in 0..n : k \in Still
    <3> HIDE DEF Still
    <3> QED BY <1>1, <2>1, <2>2, BoundedInduction
  <2> QED BY <1>7, <2>3
<1>10. Grown(from, end) = g[n]
  BY <1>2
<1>11. g[n] \in end..length
  BY <1>1, <1>3, <1>5, <1>7
<1> QED BY <1>5, <1>7, <1>8, <1>9, <1>10, <1>11

(* Passes go on until the end is a gap.                                    *)
LEMMA MergedFacts ==
  ASSUME Given, NEW from \in Nat, NEW end \in from..length
  PROVE  /\ Merged(from, end) \in end..length
         /\ \A b \in end..(Merged(from, end) - 1) : Covered(b)
         /\ Gap(Merged(from, end))
<1> DEFINE S == from..length
           n == length
           step == [k \in Nat |-> [e \in S |-> Grown(from, e)]]
           Solves(g) == g = [k \in 0..n |-> IF k = 0 THEN end ELSE Grown(from, g[k - 1])]
<1>1. n \in Nat /\ end \in Nat /\ length \in Nat /\ from \in Nat
  BY DEF Given
<1>2. \A e \in S : Grown(from, e) \in S
  <2> SUFFICES ASSUME NEW e \in S PROVE Grown(from, e) \in S
    OBVIOUS
  <2>1. Grown(from, e) \in e..length
    BY GrownFacts
  <2> QED BY <1>1, <2>1
<1>3. step \in [Nat -> [S -> S]] /\ end \in S
  <2> HIDE DEF S
  <2> QED BY <1>2 DEF S
<1>4. PICK f \in [0..n -> S] : f[0] = end /\ \A k \in 1..n : f[k] = step[k][f[k - 1]]
  <2> HIDE DEF S, n, step
  <2>1. Iterable(n, S, end, step)
    BY <1>1, <1>3, IterationExists
  <2> QED BY <2>1 DEF Iterable
<1>5. ASSUME NEW k \in 0..n, k # 0
      PROVE  k - 1 \in 0..n /\ k \in 1..n /\ f[k] = Grown(from, f[k - 1])
  <2>1. k - 1 \in 0..n /\ k \in 1..n /\ k \in Nat
    BY <1>1, <1>5
  <2>2. f[k - 1] \in S /\ f[k] = step[k][f[k - 1]]
    <3> HIDE DEF S, n, step
    <3> QED BY <1>4, <2>1
  <2> HIDE DEF S, n
  <2> QED BY <2>1, <2>2
<1>6. Solves(f)
  <2> HIDE DEF S, n, step
  <2> QED BY <1>4, <1>5
<1> DEFINE merged == CHOOSE g : Solves(g)
<1>7. Merged(from, end) = merged[n]
  BY DEF Merged
<1>8. Solves(merged)
  <2> HIDE DEF Solves
  <2> QED BY <1>6
<1> HIDE DEF n
<1>9. /\ merged[0] = end
      /\ \A k \in 1..n : merged[k] = Grown(from, merged[k - 1])
  <2>1. \A k \in 1..n : k \in 0..n /\ k # 0
    BY <1>1
  <2> HIDE DEF merged
  <2> QED BY <1>1, <1>8, <2>1
<1> HIDE DEF merged
<1> DEFINE T == {k \in 0..n : /\ merged[k] \in end..length
                              /\ \A b \in end..(merged[k] - 1) : Covered(b)
                              /\ Gap(merged[k]) \/ merged[k] >= end + k}
<1>10. 0 \in T
  BY <1>1, <1>9
<1>11. ASSUME NEW k \in 0..(n - 1), k \in T PROVE k + 1 \in T
  <2>1. k + 1 \in 1..n /\ (k + 1) - 1 = k /\ k + 1 \in 0..n
    BY <1>1
  <2>2. merged[k + 1] = Grown(from, merged[k])
    BY <1>9, <2>1
  <2>3. merged[k] \in from..length /\ merged[k] \in end..length
    BY <1>1, <1>11
  <2>4. /\ merged[k + 1] \in merged[k]..length
        /\ \A b \in merged[k]..(merged[k + 1] - 1) : Covered(b)
        /\ merged[k + 1] = merged[k] <=> Gap(merged[k])
    BY <2>2, <2>3, GrownFacts
  <2>5. merged[k + 1] \in end..length /\ \A b \in end..(merged[k + 1] - 1) : Covered(b)
    BY <1>1, <1>11, <2>3, <2>4, SMTT(30)
  <2>6. Gap(merged[k + 1]) \/ merged[k + 1] >= end + (k + 1)
    <3>1. CASE Gap(merged[k])
      BY <2>4, <3>1
    <3>2. CASE ~Gap(merged[k])
      <4>1. merged[k + 1] # merged[k] /\ merged[k] >= end + k
        BY <1>11, <2>4, <3>2
      <4>2. merged[k] \in Nat /\ merged[k + 1] \in Nat /\ merged[k] <= merged[k + 1] /\ k \in Nat
        BY <1>1, <2>3, <2>4
      <4> QED BY <1>1, <4>1, <4>2, SMTT(30)
    <3> QED BY <3>1, <3>2
  <2> QED BY <2>1, <2>5, <2>6
<1>12. n \in T
  <2> HIDE DEF T
  <2>1. \A k \in 0..n : k \in T
    BY <1>1, <1>10, <1>11, BoundedInduction
  <2> QED BY <1>1, <2>1
<1>13. Gap(length)
  <2>1. \A r \in Visited : r.end <= length /\ r.end \in Nat
    BY VisitedFields
  <2> QED BY <1>1, <2>1 DEF Gap
<1>14. Gap(merged[n])
  <2>1. CASE merged[n] >= end + n
    <3>1. n = length /\ merged[n] \in Nat /\ merged[n] <= length
      BY <1>1, <1>12 DEF n
    <3>2. merged[n] = length
      BY <1>1, <2>1, <3>1
    <3> QED BY <1>13, <3>2
  <2> QED BY <1>12, <2>1
<1> QED BY <1>7, <1>12, <1>14

-----------------------------------------------------------------------------
(* The bytes asked for, in terms of the ranges visited.                    *)
LEMMA SelectedBytes ==
  ASSUME Given
  PROVE  \A b : b \in Selected <=>
           b \in 0..(length - 1) /\ (kept <=> Covered(b))
<1> DEFINE named == UNION {Bytes(r) : r \in {q \in Range(fields) : q.end <= length}}
<1>1. \A r \in Visited : r \in [start : Nat, end : Nat] /\ r.end <= length
  BY VisitedFields
<1>2. \A r \in Range(fields) : r \in [start : Nat, end : Nat]
  <2>1. DOMAIN fields = 1..Len(fields)
    BY DEF Given
  <2> QED BY <2>1, VisitedFields DEF Range
<1>3. length \in Nat /\ kept \in BOOLEAN
  BY DEF Given
<1>4. ASSUME NEW b PROVE b \in named <=> b \in 0..(length - 1) /\ Covered(b)
  <2>1. ASSUME b \in named PROVE b \in 0..(length - 1) /\ Covered(b)
    <3>1. PICK r \in Range(fields) : r.end <= length /\ b \in Bytes(r)
      BY <2>1
    <3>2. r.start \in Nat /\ r.end \in Nat /\ b \in r.start..(r.end - 1)
      BY <1>2, <3>1 DEF Bytes
    <3>3. r \in Visited /\ r.start <= b /\ b < r.end
      BY <3>1, <3>2 DEF Visited, Visits
    <3> QED BY <1>3, <3>1, <3>2, <3>3 DEF Covered
  <2>2. ASSUME b \in 0..(length - 1), Covered(b) PROVE b \in named
    <3>1. PICK r \in Visited : r.start <= b /\ b < r.end
      BY <2>2 DEF Covered
    <3>2. r.start \in Nat /\ r.end \in Nat /\ r.end <= length /\ r \in Range(fields)
      BY <1>1, <3>1 DEF Visited
    <3>3. b \in Bytes(r)
      BY <2>2, <3>1, <3>2 DEF Bytes
    <3> QED BY <3>2, <3>3
  <2> QED BY <2>1, <2>2
<1> HIDE DEF named
<1>5. Selected = IF kept THEN named ELSE (0..(length - 1)) \ named
  BY DEF Selected, named
<1> QED BY <1>3, <1>4, <1>5

(* The inductive invariant.  Beyond what is checked, the iteration must    *)
(* know where its cursor stands after a chunk: in a gap of the named bytes *)
(* when they are included, at the start of a range when they are excluded. *)
Positioned ==
  chunks # <<>> /\ ~done =>
    /\ chunks[Len(chunks)].end = cursor
    /\ IF kept THEN Gap(cursor)
       ELSE cursor = length \/ \E r \in Visited : r.start = cursor

IInv ==
  /\ Given
  /\ cursor \in 0..length /\ done \in BOOLEAN
  /\ chunks \in Seq([start : Nat, end : Nat])
  /\ Positioned
  /\ ChunksExact

(* What one call of the iterator must find from the cursor on.             *)
Advances(start, end) ==
  /\ start \in cursor..length /\ end \in start..length
  /\ \A b \in cursor..(start - 1) : b \notin Selected
  /\ \A b \in start..(end - 1) : b \in Selected
  /\ start = end => \A b \in Selected : b < end
  /\ start # end => /\ chunks # <<>> => start > cursor
                    /\ IF kept THEN Gap(end)
                       ELSE end = length \/ \E r \in Visited : r.start = end

LEMMA Included ==
  ASSUME IInv, ~done, kept
  PROVE  Advances(NextIncluded.start, NextIncluded.end)
<1>1. /\ Given /\ cursor \in 0..length /\ length \in Nat /\ cursor \in Nat
      /\ chunks # <<>> => Gap(cursor)
  BY DEF IInv, Given, Positioned
<1>2. \A r \in Visited : /\ r.start \in Nat /\ r.end \in Nat
                          /\ r.start < r.end /\ r.end <= length
  BY <1>1, VisitedFields
<1>3. \A b : b \in Selected <=> b \in 0..(length - 1) /\ Covered(b)
  BY <1>1, SelectedBytes
<1>4. CASE Ends(cursor) = {}
  <2>1. NextIncluded.start = cursor /\ NextIncluded.end = cursor
    BY <1>4 DEF NextIncluded
  <2>2. \A r \in Visited : ~(r.end > cursor)
    BY <1>4 DEF Ends
  <2>3. \A b \in Selected : b < cursor
    BY <1>1, <1>2, <1>3, <2>2 DEF Covered
  <2> QED BY <1>1, <2>1, <2>3 DEF Advances
<1>5. CASE Ends(cursor) # {}
  <2> DEFINE First(r) == Max({r.start, cursor})
             T == {First(r) : r \in Ends(cursor)}
             start == Min(T)
             end == Merged(start, start)
  <2>1. \A r \in Visited : First(r) = IF r.start > cursor THEN r.start ELSE cursor
    <3> SUFFICES ASSUME NEW r \in Visited
                 PROVE  First(r) = IF r.start > cursor THEN r.start ELSE cursor
      OBVIOUS
    <3>1. r.start \in Nat /\ cursor \in Nat
      BY <1>1, <1>2
    <3> QED BY <3>1 DEF Max
  <2>2. NextIncluded.start = start /\ NextIncluded.end = end
    BY <1>5 DEF NextIncluded
  <2>3. start \in T /\ \A x \in T : start <= x
    <3>1. T \subseteq Nat /\ T # {}
      BY <1>1, <1>2, <1>5, <2>1 DEF Ends
    <3> HIDE DEF T
    <3>2. \E x \in T : \A y \in T : x <= y
      BY <3>1, LeastElement
    <3> QED BY <3>2 DEF Min
  <2>4. PICK r \in Visited : r.end > cursor /\ start = First(r)
    BY <2>3 DEF Ends
  <2>5. \A q \in Visited : q.end > cursor => start <= First(q)
    BY <2>3 DEF Ends
  <2> HIDE DEF start, end, First, T
  <2>6. /\ start \in cursor..length /\ start \in Nat
        /\ r.start <= start /\ start < r.end
    BY <1>1, <1>2, <2>1, <2>4
  <2>7. /\ end \in start..length
        /\ \A b \in start..(end - 1) : Covered(b)
        /\ Gap(end)
    <3>1. start \in start..length
      BY <1>1, <2>6
    <3> QED BY <1>1, <2>6, <3>1, MergedFacts DEF end
  <2>8. start # end
    BY <2>6, <2>7 DEF Gap
  <2>9. \A b \in cursor..(start - 1) : ~Covered(b)
    <3> SUFFICES ASSUME NEW b \in cursor..(start - 1), NEW q \in Visited,
                        q.start <= b, b < q.end
                 PROVE  FALSE
      BY DEF Covered
    <3>1. b \in Nat /\ cursor <= b /\ b < start
      BY <1>1, <2>6
    <3>2. q.end > cursor
      BY <1>1, <1>2, <3>1
    <3>3. start <= First(q)
      BY <2>5, <3>2
    <3> QED BY <1>1, <1>2, <2>1, <2>6, <3>1, <3>3
  <2>10. chunks # <<>> => start > cursor
    <3> SUFFICES ASSUME Gap(cursor) PROVE start > cursor
      BY <1>1
    <3>1. start # cursor
      BY <2>4, <2>6 DEF Gap
    <3> QED BY <1>1, <2>6, <3>1
  <2>11. \A b \in start..(end - 1) : b \in Selected
    <3> SUFFICES ASSUME NEW b \in start..(end - 1) PROVE b \in Selected
      OBVIOUS
    <3>1. b \in 0..(length - 1)
      BY <1>1, <2>6, <2>7
    <3> QED BY <1>3, <2>7, <3>1
  <2> QED BY <1>3, <2>2, <2>6, <2>7, <2>8, <2>9, <2>10, <2>11 DEF Advances
<1> QED BY <1>4, <1>5

LEMMA Excluded ==
  ASSUME IInv, ~done, ~kept
  PROVE  Advances(NextExcluded.start, NextExcluded.end)
<1>1. /\ Given /\ cursor \in 0..length /\ length \in Nat /\ cursor \in Nat
      /\ chunks # <<>> => cursor = length \/ \E r \in Visited : r.start = cursor
  BY DEF IInv, Given, Positioned
<1>2. \A r \in Visited : /\ r.start \in Nat /\ r.end \in Nat
                          /\ r.start < r.end /\ r.end <= length
  BY <1>1, VisitedFields
<1>3. \A b : b \in Selected <=> b \in 0..(length - 1) /\ ~Covered(b)
  BY <1>1, SelectedBytes
<1> DEFINE from == Merged(cursor, cursor)
<1>4. /\ from \in cursor..length /\ from \in Nat
      /\ \A b \in cursor..(from - 1) : Covered(b)
      /\ Gap(from)
  <2>1. cursor \in cursor..length
    BY <1>1
  <2>2. /\ from \in cursor..length
        /\ \A b \in cursor..(from - 1) : Covered(b)
        /\ Gap(from)
    BY <1>1, <2>1, MergedFacts
  <2> HIDE DEF from
  <2> QED BY <1>1, <2>2
<1>5. CASE from >= length
  <2>1. NextExcluded.start = length /\ NextExcluded.end = length
    BY <1>5 DEF NextExcluded
  <2> HIDE DEF from
  <2>2. from = length
    BY <1>1, <1>4, <1>5
  <2>3. \A b \in cursor..(length - 1) : b \notin Selected
    BY <1>3, <1>4, <2>2
  <2>4. \A b \in Selected : b < length
    BY <1>1, <1>3
  <2> QED BY <1>1, <2>1, <2>3, <2>4 DEF Advances
<1>6. CASE ~(from >= length)
  <2> DEFINE T == Starts(from) \cup {length}
             end == Min(T)
  <2>1. NextExcluded.start = from /\ NextExcluded.end = end
    BY <1>6 DEF NextExcluded
  <2> HIDE DEF from
  <2>2. end \in T /\ \A x \in T : end <= x
    <3>1. T \subseteq Nat /\ T # {}
      BY <1>1, <1>2 DEF Starts
    <3> HIDE DEF T
    <3>2. \E x \in T : \A y \in T : x <= y
      BY <3>1, LeastElement
    <3> QED BY <3>2 DEF Min
  <2> HIDE DEF end
  <2>3. /\ end = length \/ \E r \in Visited : r.start > from /\ r.start = end
        /\ end <= length
        /\ \A r \in Visited : r.start > from => end <= r.start
    BY <2>2 DEF Starts
  <2>4. end \in from..length /\ end # from /\ end \in Nat
    BY <1>1, <1>2, <1>4, <1>6, <2>3
  <2>5. \A b \in from..(end - 1) : b \in Selected
    <3> SUFFICES ASSUME NEW b \in from..(end - 1) PROVE b \in Selected
      OBVIOUS
    <3>1. b \in 0..(length - 1) /\ from <= b /\ b < end /\ b \in Nat
      BY <1>1, <1>4, <2>4
    <3>2. ASSUME NEW r \in Visited, r.start <= b, b < r.end PROVE FALSE
      <4>1. ~(r.start > from)
        BY <1>2, <2>3, <2>4, <3>1, <3>2
      <4>2. r.start <= from /\ from < r.end
        BY <1>2, <1>4, <3>1, <3>2, <4>1
      <4> QED BY <1>4, <4>2 DEF Gap
    <3> QED BY <1>3, <3>1, <3>2 DEF Covered
  <2>6. \A b \in cursor..(from - 1) : b \notin Selected
    BY <1>3, <1>4
  <2>7. chunks # <<>> => from > cursor
    <3> SUFFICES ASSUME chunks # <<>> PROVE from # cursor
      BY <1>1, <1>4
    <3>1. CASE cursor = length
      BY <1>1, <1>6, <3>1
    <3>2. CASE \E r \in Visited : r.start = cursor
      BY <1>1, <1>2, <1>4, <3>2 DEF Gap
    <3> QED BY <1>1, <3>1, <3>2
  <2> QED BY <1>4, <2>1, <2>3, <2>4, <2>5, <2>6, <2>7 DEF Advances
<1> QED BY <1>5, <1>6

-----------------------------------------------------------------------------
LEMMA InitEstablishes == ASSUME Init PROVE IInv
<1> DEFINE R == [start : 0..MaxLength, end : 0..(MaxLength + 1)]
<1>1. /\ length \in 0..MaxLength /\ kept \in BOOLEAN /\ fields \in BoundedSeq(R, MaxFields)
      /\ cursor = 0 /\ done = FALSE /\ chunks = <<>> /\ MaxLength \in Nat /\ MaxFields \in Nat
  BY ByteSelectionAssumption DEF Init
<1>2. fields \in Seq([start : Nat, end : Nat])
  <2> DEFINE S == [start : Nat, end : Nat]
  <2>1. R \subseteq S
    BY <1>1
  <2>2. PICK n \in 0..MaxFields : fields \in [1..n -> R]
    <3> HIDE DEF R
    <3> QED BY <1>1 DEF BoundedSeq, SeqOf
  <2> HIDE DEF R, S
  <2>3. n \in Nat /\ fields \in [1..n -> S]
    BY <1>1, <2>1, <2>2
  <2>4. fields \in Seq(S)
    BY <2>3
  <2> QED BY <2>4 DEF S
<1>3. Given
  BY <1>1, <1>2 DEF Given
<1>4. ChunksExact
  <2>1. Range(chunks) = {} /\ Len(chunks) = 0
    BY <1>1 DEF Range
  <2>2. \A b \in Selected : b \in 0..(length - 1)
    BY <1>3, SelectedBytes
  <2>3. {b \in Selected : b < cursor} = {}
    BY <1>1, <2>2
  <2> QED BY <1>1, <2>1, <2>3 DEF ChunksExact
<1>5. cursor \in 0..length /\ done \in BOOLEAN
  <2>1. length \in 0..MaxLength /\ cursor = 0 /\ MaxLength \in Nat
    BY <1>1
  <2>2. cursor \in 0..length
    BY <2>1
  <2>3. done \in BOOLEAN
    BY <1>1, Zenon
  <2> QED BY <2>2, <2>3
<1>6. Positioned
  BY <1>1 DEF Positioned
<1>7. chunks \in Seq([start : Nat, end : Nat])
  <2> DEFINE S == [start : Nat, end : Nat]
  <2> HIDE DEF S
  <2>1. chunks \in Seq(S)
    BY <1>1
  <2> QED BY <2>1 DEF S
<1> QED BY <1>3, <1>4, <1>5, <1>6, <1>7 DEF IInv

(* What an iteration leaves alone.                                         *)
LEMMA SameSelection ==
  ASSUME UNCHANGED <<length, fields, kept>>
  PROVE  Given' = Given /\ Selected' = Selected /\ Visited' = Visited
<1>1. UNCHANGED length /\ UNCHANGED fields /\ UNCHANGED kept
  OBVIOUS
<1> QED BY <1>1 DEF Given, Selected, Visited, Visits

(* One more chunk in the sequence, seen through its bytes.                 *)
LEMMA ChunkAppended ==
  ASSUME NEW R, NEW s \in Seq(R), NEW c \in R
  PROVE  /\ Append(s, c) \in Seq(R) /\ Append(s, c) # <<>>
         /\ Len(Append(s, c)) = Len(s) + 1 /\ Len(s) \in Nat
         /\ Append(s, c)[Len(s) + 1] = c
         /\ \A k \in 1..Len(s) : Append(s, c)[k] = s[k]
         /\ Range(Append(s, c)) = Range(s) \cup {c}
<1>1. /\ Append(s, c) \in Seq(R) /\ Append(s, c) # <<>>
      /\ Len(Append(s, c)) = Len(s) + 1 /\ Len(s) \in Nat
      /\ Append(s, c)[Len(s) + 1] = c
      /\ \A k \in 1..Len(s) : Append(s, c)[k] = s[k]
      /\ DOMAIN s = 1..Len(s) /\ DOMAIN Append(s, c) = 1..(Len(s) + 1)
  OBVIOUS
<1>2. 1..(Len(s) + 1) = 1..Len(s) \cup {Len(s) + 1}
  BY <1>1
<1>3. Range(Append(s, c)) = Range(s) \cup {c}
  BY <1>1, <1>2 DEF Range
<1> QED BY <1>1, <1>3

LEMMA NextChunkPreserves == ASSUME IInv, NextChunk PROVE IInv'
<1> DEFINE chunk == IF kept THEN NextIncluded ELSE NextExcluded
           start == chunk.start
           end == chunk.end
           R == [start : Nat, end : Nat]
<1>1. /\ ~done /\ cursor' = end
      /\ IF start = end THEN done' = TRUE /\ UNCHANGED chunks
         ELSE chunks' = Append(chunks, chunk) /\ UNCHANGED done
      /\ UNCHANGED <<length, fields, kept>>
  BY DEF NextChunk
<1>2. Advances(start, end) /\ chunk = [start |-> start, end |-> end]
  <2>1. NextIncluded = [start |-> NextIncluded.start, end |-> NextIncluded.end]
    BY DEF NextIncluded
  <2>2. NextExcluded = [start |-> NextExcluded.start, end |-> NextExcluded.end]
    BY DEF NextExcluded
  <2>3. CASE kept
    <3>1. chunk = NextIncluded
      BY <2>3
    <3> QED BY <1>1, <2>1, <2>3, <3>1, Included
  <2>4. CASE ~kept
    <3>1. chunk = NextExcluded
      BY <2>4
    <3> QED BY <1>1, <2>2, <2>4, <3>1, Excluded
  <2> QED BY <2>3, <2>4
<1> HIDE DEF chunk
<1>3. /\ length \in Nat /\ cursor \in Nat /\ start \in Nat /\ end \in Nat
      /\ cursor <= start /\ start <= end /\ end <= length
      /\ chunks \in Seq(R) /\ done' \in BOOLEAN
  <2>1. length \in Nat /\ cursor \in 0..length
    BY DEF IInv, Given
  <2>2. start \in cursor..length /\ end \in start..length
    BY <1>2 DEF Advances
  <2>3. chunks \in Seq(R) /\ done' \in BOOLEAN
    BY <1>1 DEF IInv
  <2> HIDE DEF start, end, R
  <2> QED BY <2>1, <2>2, <2>3
<1>4. /\ \A b \in Selected : b \in Nat
      /\ \A b \in Nat : cursor <= b /\ b < start => b \notin Selected
      /\ \A b \in Nat : start <= b /\ b < end => b \in Selected
  <2>1. \A b \in Selected : b \in Nat
    BY <1>3, SelectedBytes DEF IInv
  <2>2. \A b \in Nat : cursor <= b /\ b < start => b \in cursor..(start - 1)
    BY <1>3
  <2>3. \A b \in Nat : start <= b /\ b < end => b \in start..(end - 1)
    BY <1>3
  <2> HIDE DEF start, end
  <2> QED BY <1>2, <2>1, <2>2, <2>3 DEF Advances
<1>5. Given' /\ Selected' = Selected /\ Visited' = Visited
  BY <1>1, SameSelection DEF IInv
<1>6. /\ UNION {Bytes(c) : c \in Range(chunks)} = {b \in Selected : b < cursor}
      /\ \A k \in 2..Len(chunks) : chunks[k].start > chunks[k - 1].end
  BY DEF IInv, ChunksExact
<1>7. CASE start = end
  <2>1. /\ cursor' = end /\ done' = TRUE /\ chunks' = chunks
    BY <1>1, <1>7
  <2> HIDE DEF start, end
  <2>2. {b \in Selected : b < end} = {b \in Selected : b < cursor}
    BY <1>3, <1>4, <1>7
  <2>3. \A b \in Selected : b < end
    BY <1>2, <1>7 DEF Advances
  <2>4. ChunksExact'
    BY <1>5, <1>6, <2>1, <2>2, <2>3 DEF ChunksExact, Bytes
  <2> QED BY <1>1, <1>3, <1>5, <2>1, <2>4 DEF IInv, Positioned
<1>8. CASE start # end
  <2>1. /\ cursor' = end /\ done' = done /\ ~done /\ chunks' = Append(chunks, chunk)
        /\ chunk \in R
    BY <1>1, <1>2, <1>3, <1>8
  <2>2. /\ chunks' \in Seq(R) /\ chunks' # <<>>
        /\ Len(chunks') = Len(chunks) + 1 /\ Len(chunks) \in Nat
        /\ chunks'[Len(chunks) + 1] = chunk
        /\ \A k \in 1..Len(chunks) : chunks'[k] = chunks[k]
        /\ Range(chunks') = Range(chunks) \cup {chunk}
    <3> HIDE DEF R
    <3> QED BY <1>3, <2>1, ChunkAppended
  <2>3. chunk.start = start /\ chunk.end = end
    OBVIOUS
  <2> HIDE DEF start, end
  <2>4. Bytes(chunk) = {b \in Nat : start <= b /\ b < end}
    BY <1>3, <2>3 DEF Bytes
  <2>5. {b \in Selected : b < end} = {b \in Selected : b < cursor} \cup Bytes(chunk)
    BY <1>3, <1>4, <2>4
  <2>6. UNION {Bytes(c) : c \in Range(chunks')} = {b \in Selected : b < end}
    <3>1. UNION {Bytes(c) : c \in Range(chunks) \cup {chunk}}
            = (UNION {Bytes(c) : c \in Range(chunks)}) \cup Bytes(chunk)
      OBVIOUS
    <3> QED BY <1>6, <2>2, <2>5, <3>1
  <2>7. ASSUME NEW k \in 2..(Len(chunks) + 1) PROVE chunks'[k].start > chunks'[k - 1].end
    <3>1. CASE k = Len(chunks) + 1
      <4>1. chunks # <<>> /\ Len(chunks) \in 1..Len(chunks) /\ k - 1 = Len(chunks)
        BY <1>3, <2>2, <3>1
      <4>2. chunks[Len(chunks)].end = cursor /\ start > cursor
        BY <1>2, <1>8, <2>1, <4>1 DEF IInv, Positioned, Advances
      <4> QED BY <2>2, <2>3, <3>1, <4>1, <4>2
    <3>2. CASE k # Len(chunks) + 1
      <4>1. k \in 2..Len(chunks) /\ k \in 1..Len(chunks) /\ k - 1 \in 1..Len(chunks)
        BY <2>2, <3>2
      <4> QED BY <1>6, <2>2, <4>1
    <3> QED BY <3>1, <3>2
  <2>8. ChunksExact'
    <3>1. {b \in Selected' : b < cursor'} = {b \in Selected : b < end}
      BY <1>5, <2>1
    <3>2. (UNION {Bytes(c) : c \in Range(chunks)})' = UNION {Bytes(c) : c \in Range(chunks')}
      BY DEF Bytes
    <3> QED BY <2>1, <2>2, <2>6, <2>7, <3>1, <3>2 DEF ChunksExact
  <2>9. Positioned'
    <3>1. IF kept THEN Gap(end) ELSE end = length \/ \E r \in Visited : r.start = end
      BY <1>2, <1>8 DEF Advances
    <3>2. IF kept' THEN (Gap(cursor))' ELSE cursor' = length' \/ \E r \in Visited' : r.start = cursor'
      BY <1>1, <1>5, <2>1, <3>1 DEF Gap
    <3> QED BY <2>1, <2>2, <2>3, <3>2 DEF Positioned
  <2> QED BY <1>1, <1>3, <1>5, <2>1, <2>2, <2>8, <2>9 DEF IInv
<1> QED BY <1>7, <1>8

LEMMA StepPreserves == ASSUME IInv, [Next]_vars PROVE IInv'
<1>1. CASE UNCHANGED vars
  <2>1. UNCHANGED <<length, fields, kept, cursor, done, chunks>>
    BY <1>1 DEF vars
  <2>2. Given' /\ Selected' = Selected /\ Visited' = Visited
    BY <2>1, SameSelection DEF IInv
  <2>3. ChunksExact' /\ Positioned'
    BY <2>1, <2>2 DEF IInv, ChunksExact, Positioned, Bytes, Gap
  <2> QED BY <2>1, <2>2, <2>3 DEF IInv
<1> QED BY <1>1, NextChunkPreserves DEF Next

THEOREM SelectionInvariance == Spec => []IInv
<1>1. Init => IInv
  BY InitEstablishes
<1>2. IInv /\ [Next]_vars => IInv'
  BY StepPreserves
<1> QED BY <1>1, <1>2, PTL DEF Spec

(* Whatever ranges an expression names, in whatever order, nested,         *)
(* repeated, empty or out of bounds: the chunks handed out are the bytes   *)
(* asked for, each once, in physical order and maximally merged.           *)
THEOREM SelectionsAreExact == Spec => []ChunksExact
<1>1. IInv => ChunksExact
  BY DEF IInv
<1> QED BY <1>1, SelectionInvariance, PTL
=============================================================================
