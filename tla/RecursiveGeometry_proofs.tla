---------------------- MODULE RecursiveGeometry_proofs ----------------------
(***************************************************************************)
(* Proofs about RecursiveGeometry, for every capacity, every number of     *)
(* items and every sequence of measures: what the builder observes while   *)
(* framing proves the strategy it chooses.                                 *)
(***************************************************************************)
EXTENDS RecursiveGeometry, Iteration, FiniteSetTheorems

-----------------------------------------------------------------------------
(* Sums over an interval.                                                  *)
Adds(f, low, high, g) ==
  /\ g \in [low..high -> Int] /\ g[low] = 0
  /\ \A i \in low..(high - 1) : g[i + 1] = g[i] + f[i]

Summable(f, low, high) == \A i \in low..(high - 1) : f[i] \in Int

LEMMA AddedIs ==
  ASSUME NEW low \in Nat, NEW high \in Nat, low <= high, NEW f, NEW g,
         Adds(f, low, high, g)
  PROVE  \A m \in low..high : Added(f, low, m) = g[m]
<1> TAKE m \in low..high
<1> DEFINE Solves(sum) ==
             sum = [i \in low..m |-> IF i = low THEN 0 ELSE sum[i - 1] + f[i - 1]]
           h == [i \in low..m |-> g[i]]
           total == CHOOSE sum : Solves(sum)
<1>1. m \in Nat /\ low <= m /\ m <= high
  OBVIOUS
<1>2. ASSUME NEW i \in low..m
      PROVE  h[i] = IF i = low THEN 0 ELSE h[i - 1] + f[i - 1]
  <2>1. CASE i = low
    BY <1>1, <2>1 DEF Adds
  <2>2. CASE i # low
    <3>1. i - 1 \in low..m /\ i - 1 \in low..(high - 1) /\ (i - 1) + 1 = i
      BY <1>1, <2>2
    <3>2. g[i] = g[i - 1] + f[i - 1]
      BY <3>1 DEF Adds
    <3> QED BY <2>2, <3>1, <3>2
  <2> QED BY <2>1, <2>2
<1>3. Solves(h)
  BY <1>2
<1>4. Solves(total)
  <2> HIDE DEF Solves, h
  <2> QED BY <1>3
<1>5. Added(f, low, m) = total[m]
  BY DEF Added
<1> HIDE DEF total
<1> DEFINE T == {k \in low..m : total[k] = h[k]}
<1>6. low \in T
  <2>1. low \in low..m
    BY <1>1
  <2>2. total[low] = 0
    BY <1>4, <2>1
  <2>3. h[low] = 0
    <3> HIDE DEF h
    <3> QED BY <1>2, <2>1
  <2> HIDE DEF h
  <2> QED BY <2>1, <2>2, <2>3
<1>7. ASSUME NEW k \in low..(m - 1), k \in T PROVE k + 1 \in T
  <2>1. k + 1 \in low..m /\ k + 1 # low /\ (k + 1) - 1 = k
    BY <1>1
  <2>2. h[k + 1] = h[k] + f[k]
    <3> HIDE DEF h
    <3> QED BY <1>2, <2>1
  <2>3. total[k + 1] = total[k] + f[k]
    BY <1>4, <2>1
  <2> HIDE DEF h
  <2> QED BY <1>7, <2>1, <2>2, <2>3
<1>8. \A k \in low..m : k \in T
  <2> HIDE DEF T
  <2> QED BY <1>1, <1>6, <1>7, BoundedInduction
<1>9. m \in low..m
  BY <1>1
<1> QED BY <1>5, <1>8, <1>9

LEMMA SumExists ==
  ASSUME NEW low \in Nat, NEW high \in Nat, low <= high, NEW f, Summable(f, low, high)
  PROVE  \E g : Adds(f, low, high, g)
<1> DEFINE n == high - low
           step == [k \in Nat |-> [v \in Int |->
                      IF k \in 1..n THEN v + f[low + k - 1] ELSE v]]
<1>1. n \in Nat /\ \A k \in 1..n : f[low + k - 1] \in Int
  <2>1. \A k \in 1..n : low + k - 1 \in low..(high - 1)
    OBVIOUS
  <2> QED BY <2>1 DEF Summable
<1>2. step \in [Nat -> [Int -> Int]]
  <2>1. ASSUME NEW k \in Nat, NEW v \in Int
        PROVE  (IF k \in 1..n THEN v + f[low + k - 1] ELSE v) \in Int
    <3> HIDE DEF n
    <3>1. CASE k \in 1..n
      <4>1. f[low + k - 1] \in Int
        BY <1>1, <3>1
      <4> QED BY <3>1, <4>1
    <3> QED BY <3>1
  <2> HIDE DEF n
  <2> QED BY <2>1
<1>3. PICK h \in [0..n -> Int] : h[0] = 0 /\ \A k \in 1..n : h[k] = step[k][h[k - 1]]
  <2> HIDE DEF step, n
  <2>1. 0 \in Int
    OBVIOUS
  <2>2. Iterable(n, Int, 0, step)
    BY <1>1, <1>2, <2>1, IterationExists
  <2> QED BY <2>2 DEF Iterable
<1> DEFINE g == [i \in low..high |-> h[i - low]]
<1>4. g \in [low..high -> Int] /\ g[low] = 0
  BY <1>3
<1>5. ASSUME NEW i \in low..(high - 1) PROVE g[i + 1] = g[i] + f[i]
  <2>1. /\ (i + 1) - low \in 1..n /\ (i + 1) - low \in Nat
        /\ ((i + 1) - low) - 1 = i - low /\ i - low \in 0..n
        /\ low + ((i + 1) - low) - 1 = i
    OBVIOUS
  <2>2. g[i + 1] = h[(i + 1) - low] /\ g[i] = h[i - low]
    OBVIOUS
  <2> DEFINE k == (i + 1) - low
  <2>3. h[k] = step[k][h[i - low]] /\ h[i - low] \in Int
    <3> HIDE DEF step
    <3> QED BY <1>3, <2>1
  <2>4. step[k][h[i - low]] = h[i - low] + f[low + k - 1]
    <3> HIDE DEF n, k
    <3> QED BY <2>1, <2>3 DEF k
  <2> QED BY <2>1, <2>2, <2>3, <2>4
<1> HIDE DEF g, step, n
<1> QED BY <1>4, <1>5 DEF Adds

LEMMA AddedNext ==
  ASSUME NEW low \in Nat, NEW high \in Nat, low <= high, NEW f, Summable(f, low, high)
  PROVE  /\ Added(f, low, low) = 0
         /\ \A i \in low..high : Added(f, low, i) \in Int
         /\ \A i \in low..(high - 1) : Added(f, low, i + 1) = Added(f, low, i) + f[i]
<1>1. PICK g : Adds(f, low, high, g)
  BY SumExists
<1>2. \A m \in low..high : Added(f, low, m) = g[m]
  BY <1>1, AddedIs
<1>3. low \in low..high /\ \A i \in low..(high - 1) : i \in low..high /\ i + 1 \in low..high
  OBVIOUS
<1> QED BY <1>1, <1>2, <1>3 DEF Adds

LEMMA AddedSame ==
  ASSUME NEW low \in Nat, NEW high \in Nat, low <= high, NEW f, NEW h,
         Summable(f, low, high), \A i \in low..(high - 1) : h[i] = f[i]
  PROVE  Added(h, low, high) = Added(f, low, high)
<1>1. PICK g : Adds(f, low, high, g)
  BY SumExists
<1>2. Adds(h, low, high, g)
  BY <1>1 DEF Adds
<1>3. high \in low..high
  OBVIOUS
<1>4. Added(f, low, high) = g[high]
  BY <1>1, <1>3, AddedIs
<1>5. Added(h, low, high) = g[high]
  BY <1>2, <1>3, AddedIs
<1> QED BY <1>4, <1>5

LEMMA AddedPlus ==
  ASSUME NEW low \in Nat, NEW high \in Nat, low <= high, NEW f, NEW h, NEW k,
         Summable(f, low, high), Summable(h, low, high),
         \A i \in low..(high - 1) : k[i] = f[i] + h[i]
  PROVE  Added(k, low, high) = Added(f, low, high) + Added(h, low, high)
<1>1. PICK fs : Adds(f, low, high, fs)
  BY SumExists
<1>2. PICK hs : Adds(h, low, high, hs)
  BY SumExists
<1> DEFINE g == [i \in low..high |-> fs[i] + hs[i]]
<1>3. Adds(k, low, high, g)
  <2>1. g \in [low..high -> Int] /\ g[low] = 0
    BY <1>1, <1>2 DEF Adds
  <2>2. ASSUME NEW i \in low..(high - 1) PROVE g[i + 1] = g[i] + k[i]
    <3>1. i \in low..high /\ i + 1 \in low..high
      OBVIOUS
    <3>2. fs[i + 1] = fs[i] + f[i] /\ hs[i + 1] = hs[i] + h[i] /\ k[i] = f[i] + h[i]
      BY <1>1, <1>2 DEF Adds
    <3>3. fs[i] \in Int /\ hs[i] \in Int /\ f[i] \in Int /\ h[i] \in Int
      BY <1>1, <1>2, <3>1 DEF Adds, Summable
    <3> QED BY <3>1, <3>2, <3>3
  <2> HIDE DEF g
  <2> QED BY <2>1, <2>2 DEF Adds
<1>4. high \in low..high
  OBVIOUS
<1>5. /\ Added(f, low, high) = fs[high] /\ Added(h, low, high) = hs[high]
      /\ Added(k, low, high) = g[high]
  <2> HIDE DEF g
  <2>1. Added(f, low, high) = fs[high]
    BY <1>1, <1>4, AddedIs
  <2>2. Added(h, low, high) = hs[high]
    BY <1>2, <1>4, AddedIs
  <2>3. Added(k, low, high) = g[high]
    BY <1>3, <1>4, AddedIs
  <2> QED BY <2>1, <2>2, <2>3
<1> QED BY <1>4, <1>5
-----------------------------------------------------------------------------
(* Where items start.                                                      *)
W(ms, i) == ms[i + 1].consumed
H(ms, i) == ms[i + 1].shape
StartOf(ms) ==
  LET start[i \in 0..Len(ms)] ==
        IF i = 0 THEN 0 ELSE start[i - 1] + ms[(i - 1) + 1].consumed
  IN  start

LEMMA MeasureOf ==
  ASSUME NEW ms, ms \in Seq(Measures)
  PROVE  /\ Len(ms) \in Nat
         /\ \A i \in 0..(Len(ms) - 1) : /\ ms[i + 1] \in Measures
                                        /\ W(ms, i) \in Nat
                                        /\ ms[i + 1].nested \in BOOLEAN
<1>1. \A i \in 0..(Len(ms) - 1) : i + 1 \in 1..Len(ms)
  OBVIOUS
<1> QED BY <1>1, GeometryAssumption, SMTT(30) DEF W

LEMMA StartSteps ==
  ASSUME NEW ms, ms \in Seq(Measures)
  PROVE  /\ StartOf(ms)[0] = 0
         /\ \A i \in 0..Len(ms) : StartOf(ms)[i] \in Nat
         /\ \A i \in 0..(Len(ms) - 1) : StartOf(ms)[i + 1] = StartOf(ms)[i] + W(ms, i)
<1> DEFINE n == Len(ms)
           f == [i \in 0..(n - 1) |-> W(ms, i)]
           Solves(s) == s = [i \in 0..n |->
                               IF i = 0 THEN 0 ELSE s[i - 1] + ms[(i - 1) + 1].consumed]
           start == CHOOSE s : Solves(s)
<1>1. n \in Nat /\ \A i \in 0..(n - 1) : W(ms, i) \in Nat
  BY MeasureOf
<1>2. Summable(f, 0, n)
  <2> HIDE DEF n
  <2> QED BY <1>1 DEF Summable
<1>3. PICK g : Adds(f, 0, n, g)
  <2> HIDE DEF f, n
  <2> QED BY <1>1, <1>2, SumExists
<1>4. /\ g \in [0..n -> Int] /\ g[0] = 0
      /\ \A i \in 0..(n - 1) : g[i + 1] = g[i] + W(ms, i)
  <2> HIDE DEF n
  <2> QED BY <1>3 DEF Adds
<1>5. Solves(g)
  <2>1. ASSUME NEW i \in 0..n, i # 0 PROVE g[i] = g[i - 1] + ms[(i - 1) + 1].consumed
    <3>1. i - 1 \in 0..(n - 1) /\ (i - 1) + 1 = i
      BY <1>1, <2>1
    <3>2. g[(i - 1) + 1] = g[i - 1] + W(ms, i - 1)
      BY <1>4, <3>1
    <3> QED BY <3>1, <3>2 DEF W
  <2> HIDE DEF n
  <2> QED BY <1>4, <2>1
<1>6. Solves(start)
  <2> HIDE DEF Solves
  <2> QED BY <1>5
<1>7. StartOf(ms) = start
  BY DEF StartOf
<1> HIDE DEF start, f, n
<1>8. ASSUME NEW i \in 0..(n - 1) PROVE start[i + 1] = start[i] + W(ms, i)
  <2>1. i + 1 \in 0..n /\ i + 1 # 0 /\ (i + 1) - 1 = i
    BY <1>1
  <2> QED BY <1>6, <2>1 DEF W
<1>9. start[0] = 0
  <2>1. 0 \in 0..n
    BY <1>1
  <2> QED BY <1>6, <2>1
<1> HIDE DEF Solves
<1> DEFINE T == {i \in 0..n : start[i] \in Nat}
<1>10. 0 \in T
  BY <1>1, <1>9
<1>11. ASSUME NEW i \in 0..(n - 1), i \in T PROVE i + 1 \in T
  <2>1. i + 1 \in 0..n
    BY <1>1
  <2> QED BY <1>1, <1>8, <1>11, <2>1
<1>12. \A i \in 0..n : i \in T
  <2> HIDE DEF T
  <2> QED BY <1>1, <1>10, <1>11, BoundedInduction
<1> QED BY <1>7, <1>8, <1>9, <1>12 DEF n

(* Whatever grows by one width per item is where the items start.          *)
LEMMA StartsAre ==
  ASSUME NEW ms, ms \in Seq(Measures), NEW n \in 0..Len(ms), NEW g, g[0] = 0,
         \A i \in 0..(n - 1) : g[i] \in Int => g[i + 1] = g[i] + W(ms, i)
  PROVE  g[n] = StartOf(ms)[n]
<1> DEFINE T == {i \in 0..n : g[i] = StartOf(ms)[i]}
<1>1. Len(ms) \in Nat /\ n \in Nat /\ 0 \in T
  BY MeasureOf, StartSteps
<1>2. ASSUME NEW i \in 0..(n - 1), i \in T PROVE i + 1 \in T
  <2>1. i + 1 \in 0..n /\ i \in 0..Len(ms) /\ i \in 0..(Len(ms) - 1)
    BY <1>1
  <2> QED BY <1>2, <2>1, StartSteps
<1>3. \A i \in 0..n : i \in T
  <2> HIDE DEF T
  <2> QED BY <1>1, <1>2, BoundedInduction
<1> QED BY <1>1, <1>3

(* The widths of a stretch of items add up to the distance between starts. *)
LEMMA StretchAdds ==
  ASSUME NEW ms, ms \in Seq(Measures), NEW a \in 0..Len(ms), NEW n \in a..Len(ms),
         NEW f, \A i \in a..(n - 1) : f[i] = W(ms, i)
  PROVE  StartOf(ms)[n] = StartOf(ms)[a] + Added(f, a, n)
<1> DEFINE g == [i \in a..n |-> StartOf(ms)[i] - StartOf(ms)[a]]
<1>1. Len(ms) \in Nat /\ a \in Nat /\ n \in Nat /\ a <= n /\ n \in a..n
  BY MeasureOf
<1>2. \A i \in a..n : i \in 0..Len(ms) /\ StartOf(ms)[i] \in Int
  BY <1>1, StartSteps
<1>3. Adds(f, a, n, g)
  <2>1. g \in [a..n -> Int] /\ g[a] = 0
    BY <1>1, <1>2
  <2>2. ASSUME NEW i \in a..(n - 1) PROVE g[i + 1] = g[i] + f[i]
    <3>1. i \in a..n /\ i + 1 \in a..n /\ i \in 0..(Len(ms) - 1)
      BY <1>1
    <3>2. StartOf(ms)[i + 1] = StartOf(ms)[i] + W(ms, i) /\ W(ms, i) \in Int
      BY <3>1, StartSteps, MeasureOf
    <3>3. StartOf(ms)[i] \in Int /\ StartOf(ms)[a] \in Int
      BY <1>1, <1>2, <3>1
    <3> QED BY <3>1, <3>2, <3>3
  <2> HIDE DEF g
  <2> QED BY <2>1, <2>2 DEF Adds
<1>4. Added(f, a, n) = g[n]
  <2> HIDE DEF g
  <2> QED BY <1>1, <1>3, AddedIs
<1> QED BY <1>1, <1>2, <1>4

(* Equal widths.                                                           *)
LEMMA StretchEven ==
  ASSUME NEW ms, ms \in Seq(Measures), NEW a \in 0..Len(ms), NEW n \in a..Len(ms),
         NEW w \in Int, \A i \in a..(n - 1) : W(ms, i) = w
  PROVE  StartOf(ms)[n] = StartOf(ms)[a] + (n - a) * w
<1> DEFINE T == {i \in a..n : StartOf(ms)[i] = StartOf(ms)[a] + (i - a) * w}
<1>1. Len(ms) \in Nat /\ a \in Nat /\ n \in Nat /\ a <= n /\ n \in a..n
  BY MeasureOf
<1>2. StartOf(ms)[a] \in Int
  BY StartSteps
<1>3. a \in T
  <2>1. (a - a) * w = 0
    BY <1>1
  <2> QED BY <1>1, <1>2, <2>1
<1>4. ASSUME NEW i \in a..(n - 1), i \in T PROVE i + 1 \in T
  <2>1. i + 1 \in a..n /\ i \in 0..(Len(ms) - 1) /\ i - a \in Int
    BY <1>1
  <2>2. StartOf(ms)[i + 1] = StartOf(ms)[i] + w
    BY <2>1, StartSteps
  <2>3. ((i + 1) - a) * w = (i - a) * w + w /\ (i - a) * w \in Int
    BY <2>1
  <2> QED BY <1>2, <1>4, <2>1, <2>2, <2>3
<1>5. \A i \in a..n : i \in T
  <2> HIDE DEF T
  <2> QED BY <1>1, <1>3, <1>4, BoundedInduction
<1> QED BY <1>1, <1>5
-----------------------------------------------------------------------------
(* Quotients and remainders, and the prefix sums of a repeating pattern.   *)
LEMMA Times ==
  ASSUME NEW a \in Int, NEW b \in Int, NEW c \in Int
  PROVE  a * b \in Int /\ a * (b + c) = a * b + a * c /\ (b + c) * a = b * a + c * a
OBVIOUS

LEMMA DivMod ==
  ASSUME NEW n \in Nat, NEW d \in Nat \ {0}
  PROVE  /\ n \div d \in Nat /\ n % d \in 0..(d - 1) /\ n = (n \div d) * d + (n % d)
         /\ 0 \div d = 0 /\ 0 % d = 0
OBVIOUS

LEMMA DivUnique ==
  ASSUME NEW n \in Nat, NEW d \in Nat \ {0}, NEW q \in Nat, NEW r \in 0..(d - 1),
         n = q * d + r
  PROVE  n \div d = q /\ n % d = r
<1> DEFINE p == n \div d
           s == n % d
<1>1. p \in Nat /\ s \in 0..(d - 1) /\ n = p * d + s
  BY DivMod
<1> HIDE DEF p, s
<1>2. ~(p < q)
  <2> SUFFICES ASSUME p < q PROVE FALSE
    OBVIOUS
  <2> DEFINE k == q - p - 1
  <2>1. k \in Nat /\ q = p + (1 + k)
    BY <1>1
  <2> HIDE DEF k
  <2>2. q * d = p * d + (1 + k) * d /\ (1 + k) * d = d + k * d /\ k * d \in Nat
    BY <1>1, <2>1
  <2>3. p * d \in Nat
    BY <1>1
  <2> QED BY <1>1, <2>2, <2>3
<1>3. ~(q < p)
  <2> SUFFICES ASSUME q < p PROVE FALSE
    OBVIOUS
  <2> DEFINE k == p - q - 1
  <2>1. k \in Nat /\ p = q + (1 + k)
    BY <1>1
  <2> HIDE DEF k
  <2>2. p * d = q * d + (1 + k) * d /\ (1 + k) * d = d + k * d /\ k * d \in Nat
    BY <1>1, <2>1
  <2>3. q * d \in Nat
    OBVIOUS
  <2> QED BY <1>1, <2>2, <2>3
<1>4. p = q
  BY <1>1, <1>2, <1>3
<1>5. p * d \in Nat
  BY <1>1
<1>6. s = r
  BY <1>1, <1>4, <1>5
<1> QED BY <1>4, <1>6 DEF p, s

LEMMA DivNext ==
  ASSUME NEW n \in Nat, NEW d \in Nat \ {0}
  PROVE  /\ n % d = d - 1 => (n + 1) \div d = n \div d + 1 /\ (n + 1) % d = 0
         /\ n % d # d - 1 => (n + 1) \div d = n \div d /\ (n + 1) % d = (n % d) + 1
<1> DEFINE q == n \div d
           r == n % d
<1>1. q \in Nat /\ r \in 0..(d - 1) /\ n = q * d + r
  BY DivMod
<1> HIDE DEF q, r
<1>2. q * d \in Nat /\ (q + 1) * d = q * d + d
  BY <1>1
<1>3. ASSUME r = d - 1 PROVE (n + 1) \div d = q + 1 /\ (n + 1) % d = 0
  <2>1. n + 1 \in Nat /\ q + 1 \in Nat /\ 0 \in 0..(d - 1) /\ n + 1 = (q + 1) * d + 0
    BY <1>1, <1>2, <1>3
  <2> QED BY <2>1, DivUnique
<1>4. ASSUME r # d - 1 PROVE (n + 1) \div d = q /\ (n + 1) % d = r + 1
  <2>1. n + 1 \in Nat /\ r + 1 \in 0..(d - 1) /\ n + 1 = q * d + (r + 1)
    BY <1>1, <1>2, <1>4
  <2> QED BY <1>1, <2>1, DivUnique
<1> QED BY <1>3, <1>4 DEF q, r

(* The first n items of a pattern v of so many classes, each repeated      *)
(* block times before the next.                                            *)
Cycled(v, block, classes, n) ==
  ((n \div block) \div classes) * block * Added(v, 0, classes)
    + block * Added(v, 0, (n \div block) % classes)
    + (n % block) * v[(n \div block) % classes]

LEMMA CycledNext ==
  ASSUME NEW block \in Nat \ {0}, NEW classes \in Nat \ {0}, NEW v,
         Summable(v, 0, classes), NEW n \in Nat
  PROVE  /\ Cycled(v, block, classes, 0) = 0
         /\ Cycled(v, block, classes, n) \in Int
         /\ (n \div block) % classes \in 0..(classes - 1)
         /\ v[(n \div block) % classes] \in Int
         /\ Cycled(v, block, classes, n + 1) =
              Cycled(v, block, classes, n) + v[(n \div block) % classes]
<1> DEFINE q == n \div block
           r == n % block
           class == q % classes
           cycles == q \div classes
           S(c) == Added(v, 0, c)
<1>1. q \in Nat /\ r \in 0..(block - 1)
  BY DivMod
<1>2. class \in 0..(classes - 1) /\ cycles \in Nat
  <2> HIDE DEF q
  <2> QED BY <1>1, DivMod
<1>3. /\ \A i \in 0..classes : S(i) \in Int
      /\ S(0) = 0
      /\ \A i \in 0..(classes - 1) : v[i] \in Int /\ S(i + 1) = S(i) + v[i]
  <2>1. 0 \in Nat /\ classes \in Nat /\ 0 <= classes
    OBVIOUS
  <2> QED BY <2>1, AddedNext DEF Summable
<1>4. Cycled(v, block, classes, 0) = 0
  <2>1. 0 \div block = 0 /\ 0 % block = 0 /\ 0 \div classes = 0 /\ 0 % classes = 0
    BY DivMod
  <2>2. Cycled(v, block, classes, 0) = 0 * block * S(classes) + block * S(0) + 0 * v[0]
    BY <2>1 DEF Cycled
  <2>3. v[0] \in Int /\ S(classes) \in Int /\ S(0) = 0
    BY <1>3
  <2> HIDE DEF S
  <2> QED BY <2>2, <2>3
<1>5. Cycled(v, block, classes, n) =
        cycles * block * S(classes) + block * S(class) + r * v[class]
  BY DEF Cycled
<1>6. v[class] \in Int /\ S(class) \in Int /\ S(classes) \in Int
  <2> HIDE DEF class, S
  <2>1. class \in 0..classes /\ classes \in 0..classes
    BY <1>2
  <2> QED BY <1>2, <1>3, <2>1
<1>7. /\ cycles * block * S(classes) \in Int /\ block * S(class) \in Int
      /\ r * v[class] \in Int
  <2> HIDE DEF cycles, class, S, r
  <2> QED BY <1>1, <1>2, <1>6
<1>8. CASE r # block - 1
  <2>1. (n + 1) \div block = q /\ (n + 1) % block = r + 1
    BY <1>8, DivNext
  <2>2. Cycled(v, block, classes, n + 1) =
          cycles * block * S(classes) + block * S(class) + (r + 1) * v[class]
    BY <2>1 DEF Cycled
  <2>3. (r + 1) * v[class] = r * v[class] + v[class]
    <3> HIDE DEF r, class
    <3> QED BY <1>1, <1>6
  <2> HIDE DEF cycles, class, S, r
  <2>4. Cycled(v, block, classes, n + 1) = Cycled(v, block, classes, n) + v[class]
    BY <1>5, <1>6, <1>7, <2>2, <2>3
  <2>5. Cycled(v, block, classes, n) \in Int
    BY <1>5, <1>7
  <2> QED BY <1>2, <1>4, <1>6, <2>4, <2>5 DEF class
<1>9. CASE r = block - 1
  <2>1. (n + 1) \div block = q + 1 /\ (n + 1) % block = 0
    BY <1>9, DivNext
  <2> DEFINE next == (q + 1) % classes
             turns == (q + 1) \div classes
  <2>2. Cycled(v, block, classes, n + 1) =
          turns * block * S(classes) + block * S(next) + 0 * v[next]
    BY <2>1 DEF Cycled
  <2>3. next \in 0..(classes - 1)
    <3>1. q + 1 \in Nat
      BY <1>1
    <3> HIDE DEF q
    <3> QED BY <3>1, DivMod
  <2>4. turns * block * S(classes) + block * S(next)
          = cycles * block * S(classes) + block * (S(class) + v[class])
    <3>1. CASE class # classes - 1
      <4>1. turns = cycles /\ next = class + 1
        <5> HIDE DEF q
        <5> QED BY <1>1, <3>1, DivNext
      <4>2. S(class + 1) = S(class) + v[class]
        <5> HIDE DEF S, class
        <5> QED BY <1>2, <1>3
      <4> QED BY <4>1, <4>2
    <3>2. CASE class = classes - 1
      <4>1. turns = cycles + 1 /\ next = 0
        <5> HIDE DEF q
        <5> QED BY <1>1, <3>2, DivNext
      <4>2. S(classes) = S(class) + v[class] /\ S(next) = 0
        <5> HIDE DEF S, class, next
        <5> QED BY <1>2, <1>3, <3>2, <4>1
      <4>3. turns * block * S(classes) = cycles * block * S(classes) + block * S(classes)
        <5> HIDE DEF S, cycles, turns
        <5>1. turns * block = cycles * block + block /\ cycles * block \in Int
          BY <1>2, <4>1
        <5> QED BY <1>6, <5>1, Times
      <4>4. block * S(next) = 0
        <5> HIDE DEF S, next
        <5> QED BY <4>2
      <4> HIDE DEF S, cycles, turns, next, class
      <4> QED BY <1>6, <1>7, <4>2, <4>3, <4>4
    <3> QED BY <3>1, <3>2
  <2>5. block * (S(class) + v[class]) = block * S(class) + block * v[class]
    <3> HIDE DEF S, class
    <3> QED BY <1>6
  <2>6. block * v[class] = r * v[class] + v[class]
    <3>1. block = r + 1
      BY <1>1, <1>9
    <3>2. (r + 1) * v[class] = r * v[class] + v[class]
      <4> HIDE DEF r, class
      <4> QED BY <1>1, <1>6
    <3> QED BY <3>1, <3>2
  <2>7. 0 * v[next] = 0
    <3> HIDE DEF next
    <3> QED BY <1>3, <2>3
  <2> HIDE DEF S, cycles, turns, next, class, r
  <2>8. turns * block * S(classes) \in Int /\ block * S(next) \in Int
    <3>1. S(next) \in Int
      BY <1>3, <2>3
    <3>2. turns \in Nat
      <4>1. q + 1 \in Nat
        BY <1>1
      <4> HIDE DEF q
      <4> QED BY <4>1, DivMod DEF turns
    <3> QED BY <1>6, <3>1, <3>2
  <2>9. Cycled(v, block, classes, n + 1) = Cycled(v, block, classes, n) + v[class]
    BY <1>5, <1>6, <1>7, <2>2, <2>4, <2>5, <2>6, <2>7, <2>8
  <2>10. Cycled(v, block, classes, n) \in Int
    BY <1>5, <1>7
  <2> QED BY <1>2, <1>4, <1>6, <2>9, <2>10 DEF class
<1> QED BY <1>8, <1>9
-----------------------------------------------------------------------------
(* The strategies: what each retains is enough to compute every span.      *)
SpanOf(ms, n) == [start |-> StartOf(ms)[n], width |-> W(ms, n)]
Items(ms) == 0..(Len(ms) - 1)

LEMMA FixedExact ==
  ASSUME NEW ms, ms \in Seq(Measures), NEW w \in Int, \A i \in Items(ms) : W(ms, i) = w,
         NEW n \in Items(ms)
  PROVE  [start |-> n * w, width |-> w] = SpanOf(ms, n)
<1>1. Len(ms) \in Nat /\ 0 \in 0..Len(ms) /\ n \in 0..Len(ms)
  BY MeasureOf DEF Items
<1>2. \A i \in 0..(n - 1) : W(ms, i) = w
  BY <1>1 DEF Items
<1>3. StartOf(ms)[n] = StartOf(ms)[0] + (n - 0) * w
  BY <1>1, <1>2, StretchEven
<1>4. n \in Int /\ n - 0 = n /\ n * w \in Int /\ StartOf(ms)[0] = 0
  BY <1>1, StartSteps
<1>5. StartOf(ms)[n] = n * w
  BY <1>3, <1>4
<1> QED BY <1>5 DEF SpanOf

LEMMA Halves ==
  ASSUME NEW a \in Int, NEW b \in Int
  PROVE  (a + 2 * b) \div 2 = (a \div 2) + b
OBVIOUS

LEMMA FormulaExact ==
  ASSUME NEW ms, ms \in Seq(Measures), NEW g, g.base \in Int, g.slope \in Int,
         \A i \in Items(ms) : W(ms, i) = g.base + g.slope * i,
         NEW n \in Items(ms)
  PROVE  FormulaSpan(g, n) = SpanOf(ms, n)
<1> DEFINE base == g.base
           slope == g.slope
           sum == [i \in Nat |-> i * base + (slope * i * (i - 1)) \div 2]
<1>1. Len(ms) \in Nat /\ n \in 0..Len(ms) /\ n \in Nat
  BY MeasureOf DEF Items
<1>2. base \in Int /\ slope \in Int
  OBVIOUS
<1>3. sum[0] = 0
  <2> HIDE DEF base, slope
  <2>1. 0 * base = 0 /\ slope * 0 * (0 - 1) = 0
    BY <1>2
  <2> QED BY <2>1
<1>4. ASSUME NEW i \in 0..(n - 1), sum[i] \in Int PROVE sum[i + 1] = sum[i] + W(ms, i)
  <2>1. i \in Nat /\ i + 1 \in Nat /\ i \in Items(ms) /\ (i + 1) - 1 = i
    BY <1>1 DEF Items
  <2>2. W(ms, i) = base + slope * i
    BY <2>1
  <2> HIDE DEF base, slope
  <2> DEFINE before == slope * i * (i - 1)
             step == slope * i
  <2>3. before \in Int /\ step \in Int /\ slope * (i + 1) * i = before + 2 * step
    BY <1>2, <2>1
  <2>4. (slope * (i + 1) * ((i + 1) - 1)) \div 2 = (before \div 2) + step
    <3>1. slope * (i + 1) * ((i + 1) - 1) = before + 2 * step
      BY <2>1, <2>3
    <3> HIDE DEF before, step
    <3> QED BY <2>3, <3>1, Halves
  <2>5. (i + 1) * base = i * base + base /\ i * base \in Int
    BY <1>2, <2>1
  <2>6. before \div 2 \in Int
    <3> HIDE DEF before
    <3> QED BY <2>3
  <2>7. sum[i] = i * base + (before \div 2)
    BY <2>1
  <2>8. sum[i + 1] = (i + 1) * base + ((slope * (i + 1) * ((i + 1) - 1)) \div 2)
    BY <2>1
  <2> HIDE DEF before, step, sum
  <2>9. sum[i + 1] = sum[i] + (base + step)
    BY <1>2, <2>3, <2>4, <2>5, <2>6, <2>7, <2>8
  <2> QED BY <2>2, <2>9 DEF step
<1>5. sum[n] = StartOf(ms)[n]
  <2> HIDE DEF sum
  <2> QED BY <1>1, <1>3, <1>4, StartsAre
<1>6. FormulaSpan(g, n) = [start |-> sum[n], width |-> W(ms, n)]
  BY <1>1 DEF FormulaSpan
<1> QED BY <1>5, <1>6 DEF SpanOf

(* Widths that repeat in a pattern.                                        *)
Patterned(ms, v, block, classes) ==
  /\ block \in Nat \ {0} /\ classes \in Nat \ {0} /\ Summable(v, 0, classes)
  /\ \A i \in Items(ms) : W(ms, i) = v[(i \div block) % classes]

LEMMA PatternExact ==
  ASSUME NEW ms, ms \in Seq(Measures), NEW v, NEW block, NEW classes,
         Patterned(ms, v, block, classes), NEW n \in Items(ms)
  PROVE  StartOf(ms)[n] = Cycled(v, block, classes, n)
<1> DEFINE sum == [i \in Nat |-> Cycled(v, block, classes, i)]
<1>1. Len(ms) \in Nat /\ n \in 0..Len(ms) /\ n \in Nat
  BY MeasureOf DEF Items
<1>2. sum[0] = 0
  BY CycledNext DEF Patterned
<1>3. ASSUME NEW i \in 0..(n - 1) PROVE sum[i + 1] = sum[i] + W(ms, i)
  <2>1. i \in Nat /\ i + 1 \in Nat /\ i \in Items(ms)
    BY <1>1 DEF Items
  <2>2. sum[i + 1] = sum[i] + v[(i \div block) % classes]
    BY <2>1, CycledNext, ZenonT(40) DEF Patterned
  <2> QED BY <2>1, <2>2 DEF Patterned
<1>4. sum[n] = StartOf(ms)[n]
  <2> HIDE DEF sum
  <2> QED BY <1>1, <1>2, <1>3, StartsAre
<1> QED BY <1>1, <1>4

LEMMA PeriodicExact ==
  ASSUME NEW ms, ms \in Seq(Measures), NEW g,
         Patterned(ms, g.widths, g.base, g.period),
         g.cycle = Added(g.widths, 0, g.period), NEW n \in Items(ms)
  PROVE  PeriodicSpan(g, n) = SpanOf(ms, n)
<1> DEFINE v == g.widths
           run == n \div g.base
           class == run % g.period
           turns == run \div g.period
<1>1. n \in Nat
  BY MeasureOf DEF Items
<1>2. StartOf(ms)[n] = Cycled(v, g.base, g.period, n) /\ W(ms, n) = v[class]
  BY PatternExact DEF Patterned
<1>3. g.base \in Nat \ {0} /\ g.period \in Nat \ {0} /\ g.cycle \in Int
  <2>1. 0 \in Nat /\ g.period \in Nat /\ 0 <= g.period /\ g.period \in 0..g.period
    BY DEF Patterned
  <2>2. Added(v, 0, g.period) \in Int
    BY <2>1, AddedNext DEF Patterned
  <2> QED BY <2>2 DEF Patterned
<1>4. turns \in Nat
  <2>1. run \in Nat
    BY <1>1, <1>3, DivMod
  <2> HIDE DEF run
  <2> QED BY <1>3, <2>1, DivMod
<1>5. turns * g.cycle * g.base = turns * g.base * g.cycle
  <2> DEFINE a == g.base
             c == g.cycle
  <2>1. a \in Int /\ c \in Int
    BY <1>3
  <2>2. turns * c * a = turns * a * c
    <3> HIDE DEF turns, a, c
    <3> QED BY <1>4, <2>1
  <2> QED BY <2>2
<1>6. PeriodicSpan(g, n) =
        [start |-> turns * g.cycle * g.base + g.base * Added(v, 0, class)
                     + (n % g.base) * v[class],
         width |-> v[class]]
  BY DEF PeriodicSpan
<1>7. Cycled(v, g.base, g.period, n) =
        turns * g.base * g.cycle + g.base * Added(v, 0, class) + (n % g.base) * v[class]
  BY DEF Cycled
<1> HIDE DEF turns, class, run, v
<1> QED BY <1>2, <1>5, <1>6, <1>7 DEF SpanOf

(* The shape strategy: the classes are hashes, each with a width.          *)
LEMMA ShapeExact ==
  ASSUME NEW ms, ms \in Seq(Measures), NEW g, NEW n \in Items(ms),
         g.period \in Nat \ {0},
         \A i \in 0..(g.period - 1) : /\ i \in DOMAIN g.codes
                                      /\ g.codes[i] \in DOMAIN g.widths
                                      /\ g.widths[g.codes[i]] \in Int,
         \A i \in Items(ms) : W(ms, i) = g.widths[g.codes[i % g.period]],
         NEW f, \A i \in 0..(g.period - 1) : f[i] = g.widths[g.codes[i]],
         g.cycle = Added(f, 0, g.period)
  PROVE  ShapeSpan(g, n) = SpanOf(ms, n)
<1> DEFINE p == g.period
           v == [i \in 0..(p - 1) |-> At(g.widths, At(g.codes, i))]
<1>1. /\ n \in Nat /\ Len(ms) \in Nat /\ p \in Nat \ {0} /\ 1 \in Nat \ {0}
      /\ \A i \in Items(ms) : i \in Nat
  BY MeasureOf DEF Items
<1>2. ASSUME NEW i \in 0..(p - 1) PROVE v[i] = f[i] /\ f[i] \in Int
  BY DEF At
<1> HIDE DEF v, p
<1>3. Summable(v, 0, p) /\ Summable(f, 0, p)
  BY <1>2 DEF Summable
<1>4. \A i \in Nat : i \div 1 = i /\ i % 1 = 0
  OBVIOUS
<1>5. ASSUME NEW i \in Items(ms) PROVE W(ms, i) = v[(i \div 1) % p]
  <2>1. i % p \in 0..(p - 1)
    BY <1>1, DivMod
  <2>2. W(ms, i) = f[i % p]
    BY <2>1 DEF p
  <2> QED BY <1>1, <1>2, <1>4, <2>1, <2>2
<1>6. Patterned(ms, v, 1, p)
  BY <1>1, <1>3, <1>5 DEF Patterned
<1>7. StartOf(ms)[n] = Cycled(v, 1, p, n) /\ W(ms, n) = v[n % p]
  BY <1>1, <1>4, <1>5, <1>6, PatternExact
<1>8. Added(v, 0, p) = g.cycle
  <2>1. 0 \in Nat /\ p \in Nat /\ 0 <= p
    BY <1>1
  <2> QED BY <1>2, <1>3, <2>1, AddedSame DEF p
<1> DEFINE tail == n % p
           turns == n \div p
<1>9. tail \in 0..(p - 1) /\ turns \in Nat
  BY <1>1, DivMod
<1>10. Added(v, 0, tail) \in Int /\ v[tail] \in Int /\ g.cycle \in Int
  <2> HIDE DEF tail
  <2>1. 0 \in Nat /\ p \in Nat /\ 0 <= p /\ tail \in 0..p /\ p \in 0..p
    BY <1>1, <1>9
  <2>2. \A i \in 0..p : Added(v, 0, i) \in Int
    BY <1>3, <2>1, AddedNext
  <2> QED BY <1>2, <1>8, <1>9, <2>1, <2>2
<1>11. Cycled(v, 1, p, n) = turns * 1 * Added(v, 0, p) + 1 * Added(v, 0, tail) + 0 * v[tail]
  BY <1>1, <1>4 DEF Cycled
<1>12. ShapeSpan(g, n) = [start |-> turns * g.cycle + Added(v, 0, tail), width |-> v[tail]]
  BY DEF ShapeSpan, v, p
<1>13. /\ turns * 1 * g.cycle = turns * g.cycle /\ turns * g.cycle \in Int
       /\ 0 * v[tail] = 0 /\ 1 * Added(v, 0, tail) = Added(v, 0, tail)
  <2> DEFINE c == g.cycle
  <2>1. c \in Int
    BY <1>10
  <2>2. turns * 1 * c = turns * c /\ turns * c \in Int
    <3> HIDE DEF turns, c
    <3> QED BY <1>9, <2>1
  <2>3. 0 * v[tail] = 0 /\ 1 * Added(v, 0, tail) = Added(v, 0, tail)
    <3> HIDE DEF tail
    <3> QED BY <1>10
  <2> QED BY <2>2, <2>3
<1> HIDE DEF tail, turns
<1>14. StartOf(ms)[n] = turns * g.cycle + Added(v, 0, tail)
  <2>1. StartOf(ms)[n] = turns * g.cycle + Added(v, 0, tail) + 0
    BY <1>7, <1>8, <1>11, <1>13
  <2> QED BY <1>10, <1>13, <2>1
<1>15. W(ms, n) = v[tail]
  BY <1>7 DEF tail
<1> QED BY <1>12, <1>14, <1>15 DEF SpanOf

LEMMA RankedExact ==
  ASSUME NEW ms, ms \in Seq(Measures), NEW g, NEW n \in Items(ms),
         \A i \in Items(ms) : i \in DOMAIN g.codes /\ g.codes[i] = W(ms, i),
         \A i \in Items(ms) : i % RANKED_BLOCK = 0 =>
           /\ i \div RANKED_BLOCK \in DOMAIN g.prefix
           /\ g.prefix[i \div RANKED_BLOCK] = StartOf(ms)[i]
  PROVE  RankedSpan(g, n) = SpanOf(ms, n)
<1> DEFINE block == n \div RANKED_BLOCK
           from == block * RANKED_BLOCK
<1>1. RANKED_BLOCK \in Nat \ {0}
  BY GeometryAssumption
<1>2. n \in Nat /\ Len(ms) \in Nat /\ n \in 0..Len(ms) /\ n <= Len(ms) - 1
  BY MeasureOf DEF Items
<1>3. block \in Nat /\ from \in Nat /\ from <= n
  <2>1. block \in Nat /\ n % RANKED_BLOCK \in 0..(RANKED_BLOCK - 1)
        /\ n = block * RANKED_BLOCK + (n % RANKED_BLOCK)
    BY <1>1, <1>2, DivMod
  <2> HIDE DEF block
  <2>2. block * RANKED_BLOCK \in Nat
    BY <1>1, <2>1
  <2> HIDE DEF from
  <2> QED BY <1>1, <1>2, <2>1, <2>2 DEF from
<1> HIDE DEF from, block
<1>4. from \in Items(ms) /\ from \in 0..Len(ms) /\ n \in from..Len(ms)
  BY <1>2, <1>3 DEF Items
<1>5. from \div RANKED_BLOCK = block /\ from % RANKED_BLOCK = 0
  <2>1. from = block * RANKED_BLOCK + 0 /\ 0 \in 0..(RANKED_BLOCK - 1)
    BY <1>1, <1>3 DEF from
  <2> QED BY <1>1, <1>3, <2>1, DivUnique
<1>6. At(g.prefix, block) = StartOf(ms)[from]
  BY <1>4, <1>5 DEF At
<1>7. \A i \in from..(n - 1) : g.codes[i] = W(ms, i)
  BY <1>2, <1>3 DEF Items
<1>8. StartOf(ms)[n] = StartOf(ms)[from] + Added(g.codes, from, n)
  BY <1>4, <1>7, StretchAdds
<1>9. At(g.codes, n) = W(ms, n)
  BY DEF At
<1> QED BY <1>6, <1>8, <1>9 DEF RankedSpan, SpanOf, from, block
-----------------------------------------------------------------------------
(* Stretches of equal widths.  heads lists where they begin.               *)
Ends(heads, k, n) == IF k < Len(heads) THEN heads[k + 1] ELSE n

Stretches(ms, heads, n) ==
  /\ heads \in Seq(Nat)
  /\ n > 0 => Len(heads) > 0 /\ heads[1] = 0
  /\ \A k \in 1..Len(heads) :
       /\ heads[k] < Ends(heads, k, n)
       /\ \A i \in heads[k]..(Ends(heads, k, n) - 1) : W(ms, i) = W(ms, heads[k])

HeadAt(ms, n) == n = 1 \/ W(ms, n - 1) # W(ms, n - 2)

HeadsOf(ms) ==
  LET heads[n \in 0..Len(ms)] ==
        IF n = 0 THEN <<>>
        ELSE IF n = 1 \/ ms[(n - 1) + 1].consumed # ms[(n - 2) + 1].consumed
             THEN Append(heads[n - 1], n - 1) ELSE heads[n - 1]
  IN  heads[Len(ms)]

LEMMA StretchesBegin ==
  ASSUME NEW ms, ms \in Seq(Measures)
  PROVE  Stretches(ms, <<>>, 0)
<1>1. <<>> \in Seq(Nat) /\ Len(<<>>) = 0
  OBVIOUS
<1> QED BY <1>1 DEF Stretches

LEMMA StretchesNext ==
  ASSUME NEW ms, ms \in Seq(Measures), NEW n \in 0..(Len(ms) - 1), NEW heads,
         Stretches(ms, heads, n), n = 0 => heads = <<>>,
         NEW more, more = IF HeadAt(ms, n + 1) THEN Append(heads, n) ELSE heads
  PROVE  Stretches(ms, more, n + 1)
<1>1. /\ n \in Nat /\ Len(ms) \in Nat /\ heads \in Seq(Nat) /\ Len(heads) \in Nat
      /\ (n + 1) - 1 = n /\ (n + 1) - 2 = n - 1
      /\ \A k \in 1..Len(heads) : heads[k] \in Nat
  <2>1. heads \in Seq(Nat)
    BY DEF Stretches
  <2>2. Len(heads) \in Nat /\ \A k \in 1..Len(heads) : heads[k] \in Nat
    BY <2>1
  <2>3. Len(ms) \in Nat
    OBVIOUS
  <2>4. n \in Nat /\ (n + 1) - 1 = n /\ (n + 1) - 2 = n - 1
    BY <2>3
  <2> QED BY <2>1, <2>2, <2>3, <2>4
<1>2. CASE HeadAt(ms, n + 1)
  <2>1. /\ more \in Seq(Nat) /\ Len(more) = Len(heads) + 1 /\ more[Len(heads) + 1] = n
        /\ \A k \in 1..Len(heads) : more[k] = heads[k]
    BY <1>1, <1>2
  <2>2. \A k \in 1..Len(heads) : Ends(more, k, n + 1) = Ends(heads, k, n)
    BY <1>1, <2>1 DEF Ends
  <2>3. Ends(more, Len(heads) + 1, n + 1) = n + 1
    BY <1>1, <2>1 DEF Ends
  <2>4. n + 1 > 0 /\ more[1] = 0
    <3>1. CASE n = 0
      <4>1. Len(heads) = 0
        BY <3>1
      <4> QED BY <2>1, <3>1, <4>1
    <3>2. CASE n # 0
      <4>1. Len(heads) > 0 /\ heads[1] = 0
        BY <1>1, <3>2 DEF Stretches
      <4> QED BY <1>1, <2>1, <4>1
    <3> QED BY <1>1, <3>1, <3>2
  <2>5. ASSUME NEW k \in 1..Len(more)
        PROVE  /\ more[k] < Ends(more, k, n + 1)
               /\ \A i \in more[k]..(Ends(more, k, n + 1) - 1) : W(ms, i) = W(ms, more[k])
    <3>1. CASE k \in 1..Len(heads)
      BY <2>1, <2>2, <3>1 DEF Stretches
    <3>2. CASE k = Len(heads) + 1
      <4>1. more[k] = n /\ Ends(more, k, n + 1) = n + 1
        BY <2>1, <2>3, <3>2
      <4>2. \A i \in n..((n + 1) - 1) : i = n
        BY <1>1
      <4> QED BY <1>1, <4>1, <4>2
    <3> QED BY <1>1, <2>1, <3>1, <3>2
  <2> QED BY <1>1, <2>1, <2>4, <2>5 DEF Stretches
<1>3. CASE ~HeadAt(ms, n + 1)
  <2>1. more = heads /\ n >= 1 /\ W(ms, n) = W(ms, n - 1)
    BY <1>1, <1>3 DEF HeadAt
  <2>2. Len(heads) > 0 /\ heads[1] = 0
    BY <1>1, <2>1 DEF Stretches
  <2>3. ASSUME NEW k \in 1..Len(heads)
        PROVE  /\ heads[k] < Ends(heads, k, n + 1)
               /\ \A i \in heads[k]..(Ends(heads, k, n + 1) - 1) : W(ms, i) = W(ms, heads[k])
    <3>1. CASE k < Len(heads)
      BY <3>1 DEF Stretches, Ends
    <3>2. CASE k = Len(heads)
      <4>1. Ends(heads, k, n) = n /\ Ends(heads, k, n + 1) = n + 1 /\ heads[k] \in Nat
        BY <1>1, <3>2 DEF Ends
      <4>2. heads[k] < n /\ \A i \in heads[k]..(n - 1) : W(ms, i) = W(ms, heads[k])
        BY <4>1 DEF Stretches
      <4>3. n - 1 \in heads[k]..(n - 1)
        BY <1>1, <4>1, <4>2
      <4>4. W(ms, n) = W(ms, heads[k])
        BY <2>1, <4>2, <4>3
      <4>5. \A i \in heads[k]..((n + 1) - 1) : i = n \/ i \in heads[k]..(n - 1)
        BY <1>1, <4>1
      <4> QED BY <1>1, <4>1, <4>2, <4>4, <4>5
    <3> QED BY <1>1, <3>1, <3>2
  <2> QED BY <1>1, <2>1, <2>2, <2>3 DEF Stretches
<1> QED BY <1>2, <1>3

LEMMA HeadsAre ==
  ASSUME NEW ms, ms \in Seq(Measures)
  PROVE  Stretches(ms, HeadsOf(ms), Len(ms))
<1> DEFINE n == Len(ms)
           step == [k \in Nat |-> [h \in Seq(Nat) |->
                      IF k # 0 /\ HeadAt(ms, k) THEN Append(h, k - 1) ELSE h]]
           Solves(h) == h = [k \in 0..n |->
             IF k = 0 THEN <<>>
             ELSE IF k = 1 \/ ms[(k - 1) + 1].consumed # ms[(k - 2) + 1].consumed
                  THEN Append(h[k - 1], k - 1) ELSE h[k - 1]]
           heads == CHOOSE h : Solves(h)
<1>1. n \in Nat /\ <<>> \in Seq(Nat)
  BY MeasureOf
<1>2. step \in [Nat -> [Seq(Nat) -> Seq(Nat)]]
  <2>1. ASSUME NEW k \in Nat, NEW h \in Seq(Nat)
        PROVE  (IF k # 0 /\ HeadAt(ms, k) THEN Append(h, k - 1) ELSE h) \in Seq(Nat)
    <3>1. CASE k # 0 /\ HeadAt(ms, k)
      <4>1. k - 1 \in Nat
        BY <3>1
      <4>2. Append(h, k - 1) \in Seq(Nat)
        BY <4>1
      <4> QED BY <3>1, <4>2
    <3>2. CASE ~(k # 0 /\ HeadAt(ms, k))
      BY <3>2
    <3> QED BY <3>1, <3>2
  <2> QED BY <2>1
<1>3. PICK f \in [0..n -> Seq(Nat)] : f[0] = <<>> /\ \A k \in 1..n : f[k] = step[k][f[k - 1]]
  <2> HIDE DEF step, n
  <2>1. Iterable(n, Seq(Nat), <<>>, step)
    BY <1>1, <1>2, IterationExists
  <2> QED BY <2>1 DEF Iterable
<1>4. ASSUME NEW k \in 0..n, k # 0
      PROVE  f[k] = IF HeadAt(ms, k) THEN Append(f[k - 1], k - 1) ELSE f[k - 1]
  <2>1. k \in 1..n /\ k - 1 \in 0..n /\ k \in Nat
    BY <1>1, <1>4
  <2>2. f[k] = step[k][f[k - 1]] /\ f[k - 1] \in Seq(Nat)
    <3> HIDE DEF step
    <3> QED BY <1>3, <2>1
  <2> QED BY <1>4, <2>1, <2>2
<1> HIDE DEF step
<1>5. Solves(f)
  <2>1. ASSUME NEW k \in 0..n, k # 0
        PROVE  f[k] = IF k = 1 \/ ms[(k - 1) + 1].consumed # ms[(k - 2) + 1].consumed
                      THEN Append(f[k - 1], k - 1) ELSE f[k - 1]
    BY <1>4, <2>1 DEF HeadAt, W
  <2> HIDE DEF n
  <2> QED BY <1>3, <2>1
<1>6. Solves(heads)
  <2> HIDE DEF Solves
  <2> QED BY <1>5
<1>7. HeadsOf(ms) = heads[n]
  BY DEF HeadsOf
<1> HIDE DEF heads
<1>8. ASSUME NEW k \in 0..(n - 1)
      PROVE  heads[k + 1] = IF HeadAt(ms, k + 1) THEN Append(heads[k], k) ELSE heads[k]
  <2>1. k + 1 \in 0..n /\ k + 1 # 0 /\ (k + 1) - 1 = k
    BY <1>1
  <2>2. heads[k + 1] =
          IF k + 1 = 1 \/ ms[((k + 1) - 1) + 1].consumed # ms[((k + 1) - 2) + 1].consumed
          THEN Append(heads[(k + 1) - 1], (k + 1) - 1) ELSE heads[(k + 1) - 1]
    BY <1>6, <2>1
  <2> QED BY <2>1, <2>2 DEF HeadAt, W
<1>9. heads[0] = <<>>
  <2>1. 0 \in 0..n
    BY <1>1
  <2> QED BY <1>6, <2>1
<1> HIDE DEF Solves
<1> DEFINE T == {k \in 0..n : Stretches(ms, heads[k], k)}
<1>10. 0 \in T
  BY <1>1, <1>9, StretchesBegin
<1>11. ASSUME NEW k \in 0..(n - 1), k \in T PROVE k + 1 \in T
  <2>1. k + 1 \in 0..n /\ k \in 0..(Len(ms) - 1)
    BY <1>1
  <2>2. Stretches(ms, heads[k], k) /\ (k = 0 => heads[k] = <<>>)
    BY <1>9, <1>11
  <2>3. Stretches(ms, heads[k + 1], k + 1)
    BY <1>8, <2>1, <2>2, StretchesNext
  <2> QED BY <2>1, <2>3
<1>12. \A k \in 0..n : k \in T
  <2> HIDE DEF T, n
  <2> QED BY <1>1, <1>10, <1>11, BoundedInduction
<1>13. n \in 0..n
  BY <1>1
<1> QED BY <1>7, <1>12, <1>13

LEMMA HeadTypes ==
  ASSUME NEW ms, ms \in Seq(Measures), NEW heads, Stretches(ms, heads, Len(ms))
  PROVE  /\ Len(ms) \in Nat /\ heads \in Seq(Nat) /\ Len(heads) \in Nat
         /\ \A j \in 1..Len(heads) : heads[j] \in Nat /\ Ends(heads, j, Len(ms)) \in Nat
<1>1. Len(ms) \in Nat /\ heads \in Seq(Nat) /\ Len(heads) \in Nat
  BY MeasureOf DEF Stretches
<1>2. \A j \in 1..Len(heads) : heads[j] \in Nat
  BY <1>1
<1>3. \A j \in 1..Len(heads) : j < Len(heads) => j + 1 \in 1..Len(heads)
  BY <1>1
<1> QED BY <1>1, <1>2, <1>3 DEF Ends

(* Where a head stands, and the items of its stretch.                      *)
LEMMA InStretch ==
  ASSUME NEW ms, ms \in Seq(Measures), NEW heads, Stretches(ms, heads, Len(ms)),
         NEW k \in 1..Len(heads)
  PROVE  /\ heads[k] \in Items(ms) /\ heads[k] \in 0..Len(ms)
         /\ Ends(heads, k, Len(ms)) <= Len(ms)
         /\ \A n \in heads[k]..Ends(heads, k, Len(ms)) :
              /\ n \in 0..Len(ms)
              /\ StartOf(ms)[n] = StartOf(ms)[heads[k]] + (n - heads[k]) * W(ms, heads[k])
         /\ \A n \in heads[k]..(Ends(heads, k, Len(ms)) - 1) : W(ms, n) = W(ms, heads[k])
<1> DEFINE h == heads[k]
           end == Ends(heads, k, Len(ms))
           T == {j \in k..Len(heads) : Ends(heads, k, Len(ms)) <= Ends(heads, j, Len(ms))}
<1>1. /\ Len(ms) \in Nat /\ heads \in Seq(Nat) /\ Len(heads) \in Nat
      /\ \A j \in 1..Len(heads) : heads[j] \in Nat /\ Ends(heads, j, Len(ms)) \in Nat
  BY HeadTypes
<1>2. h \in Nat /\ h < end /\ end \in Nat
  BY <1>1 DEF Stretches
<1>3. k \in T
  BY <1>1
<1>4. ASSUME NEW j \in k..(Len(heads) - 1), j \in T PROVE j + 1 \in T
  <2>1. j \in 1..Len(heads) /\ j + 1 \in 1..Len(heads) /\ j < Len(heads)
    BY <1>1
  <2>2. Ends(heads, j, Len(ms)) = heads[j + 1]
    BY <2>1 DEF Ends
  <2>3. heads[j + 1] < Ends(heads, j + 1, Len(ms))
    BY <2>1 DEF Stretches
  <2> QED BY <1>1, <1>4, <2>1, <2>2, <2>3
<1>5. \A j \in k..Len(heads) : j \in T
  <2> HIDE DEF T
  <2>1. k \in Nat
    BY <1>1
  <2> QED BY <1>1, <1>3, <1>4, <2>1, BoundedInduction
<1>6. end <= Len(ms)
  <2>1. Len(heads) \in k..Len(heads) /\ Ends(heads, Len(heads), Len(ms)) = Len(ms)
    BY <1>1 DEF Ends
  <2> QED BY <1>5, <2>1
<1>7. h \in Items(ms) /\ h \in 0..Len(ms) /\ W(ms, h) \in Int
  <2>1. h \in 0..(Len(ms) - 1)
    BY <1>1, <1>2, <1>6
  <2> QED BY <1>1, <2>1, MeasureOf DEF Items
<1>8. \A i \in h..(end - 1) : W(ms, i) = W(ms, h)
  BY DEF Stretches
<1> HIDE DEF h, end
<1>9. ASSUME NEW n \in h..end
      PROVE  /\ n \in 0..Len(ms)
             /\ StartOf(ms)[n] = StartOf(ms)[h] + (n - h) * W(ms, h)
  <2>1. n \in 0..Len(ms) /\ n \in h..Len(ms)
    BY <1>1, <1>2, <1>6
  <2>2. \A i \in h..(n - 1) : W(ms, i) = W(ms, h)
    BY <1>1, <1>2, <1>8
  <2> QED BY <1>7, <2>1, <2>2, StretchEven
<1> QED BY <1>6, <1>7, <1>8, <1>9 DEF h, end
LEMMA StretchSpan ==
  ASSUME NEW ms, ms \in Seq(Measures), NEW heads, Stretches(ms, heads, Len(ms)),
         NEW k \in 1..Len(heads), NEW n \in Nat,
         heads[k] <= n, n < Ends(heads, k, Len(ms))
  PROVE  /\ StartOf(ms)[n] = StartOf(ms)[heads[k]] + (n - heads[k]) * W(ms, heads[k])
         /\ W(ms, n) = W(ms, heads[k])
<1>1. heads[k] \in Nat /\ Ends(heads, k, Len(ms)) \in Nat
  BY HeadTypes
<1>2. n \in heads[k]..Ends(heads, k, Len(ms)) /\ n \in heads[k]..(Ends(heads, k, Len(ms)) - 1)
  BY <1>1
<1> QED BY <1>2, InStretch

(* The interval strategy finds the stretch of an item by its successor.    *)
LEMMA IntervalExact ==
  ASSUME NEW ms, ms \in Seq(Measures), NEW heads, Stretches(ms, heads, Len(ms)),
         NEW g, g.segments = [k \in DOMAIN heads |->
                                [item |-> heads[k], byte |-> StartOf(ms)[heads[k]],
                                 width |-> W(ms, heads[k])]],
         NEW n \in Items(ms)
  PROVE  IntervalSpan(g, n) = SpanOf(ms, n)
<1> DEFINE later == {k \in DOMAIN g.segments : k > 1 /\ g.segments[k].item > n}
           k == IF later = {} THEN Len(g.segments) ELSE Min(later) - 1
<1>1. /\ Len(ms) \in Nat /\ n \in Nat /\ n < Len(ms) /\ heads \in Seq(Nat)
      /\ Len(heads) \in Nat /\ DOMAIN heads = 1..Len(heads)
      /\ Len(heads) > 0 /\ heads[1] = 0
      /\ \A j \in 1..Len(heads) : heads[j] \in Nat
  <2>1. Len(ms) \in Nat /\ n \in Nat /\ n < Len(ms) /\ heads \in Seq(Nat)
    BY MeasureOf DEF Items, Stretches
  <2> QED BY <2>1 DEF Stretches
<1>2. Len(g.segments) = Len(heads) /\ DOMAIN g.segments = 1..Len(heads)
  BY <1>1
<1>3. \A j \in 1..Len(heads) : /\ g.segments[j].item = heads[j]
                               /\ g.segments[j].byte = StartOf(ms)[heads[j]]
                               /\ g.segments[j].width = W(ms, heads[j])
  BY <1>1
<1>4. later = {j \in 1..Len(heads) : j > 1 /\ heads[j] > n}
  BY <1>2, <1>3
<1>5. k \in 1..Len(heads) /\ heads[k] <= n /\ n < Ends(heads, k, Len(ms))
  <2>1. CASE later = {}
    <3>1. k = Len(heads)
      BY <1>2, <2>1
    <3>2. \A j \in 1..Len(heads) : j > 1 => ~(heads[j] > n)
      BY <1>4, <2>1
    <3> HIDE DEF later, k
    <3> QED BY <1>1, <3>1, <3>2 DEF Ends
  <2>2. CASE later # {}
    <3> DEFINE least == Min(later)
    <3>1. later \subseteq Nat
      BY <1>1, <1>4
    <3>2. least \in later /\ \A j \in later : least <= j
      <4> HIDE DEF later
      <4>1. \E x \in later : \A j \in later : x <= j
        BY <2>2, <3>1, LeastElement
      <4>2. least = CHOOSE x \in later : \A j \in later : x <= j
        BY DEF Min
      <4> HIDE DEF least
      <4> QED BY <4>1, <4>2
    <3>3. k = least - 1
      BY <2>2
    <3> HIDE DEF least, k
    <3>4. least \in 1..Len(heads) /\ least > 1 /\ heads[least] > n
      <4> HIDE DEF later
      <4> QED BY <1>4, <3>2
    <3>5. k \in 1..Len(heads) /\ k < Len(heads) /\ k + 1 = least
      BY <1>1, <3>3, <3>4
    <3>6. heads[k] <= n
      <4>1. k \notin later
        <5> HIDE DEF later
        <5> QED BY <1>1, <3>2, <3>5
      <4> QED BY <1>1, <1>4, <3>5, <4>1
    <3> QED BY <3>4, <3>5, <3>6 DEF Ends
  <2> QED BY <2>1, <2>2
<1> HIDE DEF later
<1>6. IntervalSpan(g, n) =
        [start |-> g.segments[k].byte + (n - g.segments[k].item) * g.segments[k].width,
         width |-> g.segments[k].width]
  BY DEF IntervalSpan, later
<1> HIDE DEF k
<1>7. n \in Nat /\ k \in 1..Len(heads) /\ heads[k] <= n /\ n < Ends(heads, k, Len(ms))
  BY <1>1, <1>5
<1>8. /\ StartOf(ms)[n] = StartOf(ms)[heads[k]] + (n - heads[k]) * W(ms, heads[k])
      /\ W(ms, n) = W(ms, heads[k])
  BY <1>7, StretchSpan
<1> QED BY <1>3, <1>5, <1>6, <1>8 DEF SpanOf

(* Packed runs: all stretches but the last are equally long.               *)
Packed(ms, heads, len) ==
  /\ Stretches(ms, heads, Len(ms)) /\ len \in Nat \ {0}
  /\ \A k \in 1..Len(heads) :
       /\ Ends(heads, k, Len(ms)) - heads[k] <= len
       /\ k < Len(heads) => Ends(heads, k, Len(ms)) - heads[k] = len

LEMMA PackedHeads ==
  ASSUME NEW ms, ms \in Seq(Measures), NEW heads, NEW len, Packed(ms, heads, len),
         Len(ms) > 0
  PROVE  /\ \A k \in 1..Len(heads) : heads[k] = (k - 1) * len
         /\ \A n \in Items(ms) :
              LET k == n \div len + 1
              IN  k \in 1..Len(heads) /\ heads[k] <= n /\ n < Ends(heads, k, Len(ms))
<1>1. /\ Len(ms) \in Nat /\ heads \in Seq(Nat) /\ Len(heads) \in Nat /\ Len(heads) > 0
      /\ heads[1] = 0 /\ len \in Nat \ {0}
  BY MeasureOf DEF Packed, Stretches
<1>2. \A j \in 1..Len(heads) : heads[j] \in Nat
  BY <1>1
<1> DEFINE T == {k \in 1..Len(heads) : heads[k] = (k - 1) * len}
<1>3. 1 \in T
  BY <1>1
<1>4. ASSUME NEW k \in 1..(Len(heads) - 1), k \in T PROVE k + 1 \in T
  <2>1. k + 1 \in 1..Len(heads) /\ k < Len(heads) /\ k \in 1..Len(heads)
    BY <1>1
  <2>2. heads[k + 1] - heads[k] = len
    BY <2>1 DEF Packed, Ends
  <2>3. ((k + 1) - 1) * len = (k - 1) * len + len /\ (k - 1) * len \in Int
    BY <1>1
  <2> QED BY <1>2, <1>4, <2>1, <2>2, <2>3
<1>5. \A k \in 1..Len(heads) : k \in T
  <2> HIDE DEF T
  <2>1. 1 \in Nat
    OBVIOUS
  <2> QED BY <1>1, <1>3, <1>4, <2>1, BoundedInduction
<1>6. ASSUME NEW n \in Items(ms)
      PROVE  LET k == n \div len + 1
             IN  k \in 1..Len(heads) /\ heads[k] <= n /\ n < Ends(heads, k, Len(ms))
  <2> DEFINE q == n \div len
             r == n % len
             last == Len(heads)
  <2>1. q \in Nat /\ r \in 0..(len - 1) /\ n = q * len + r /\ n \in Nat /\ n < Len(ms)
    <3>1. n \in Nat /\ n < Len(ms)
      BY <1>1 DEF Items
    <3> QED BY <1>1, <3>1, DivMod
  <2>2. heads[last] = (last - 1) * len /\ Len(ms) - heads[last] <= len
    <3>1. last \in 1..last /\ Ends(heads, last, Len(ms)) = Len(ms)
      BY <1>1 DEF Ends
    <3> QED BY <1>5, <3>1 DEF Packed
  <2> HIDE DEF q, r
  <2>3. q < last
    <3> SUFFICES ASSUME last <= q PROVE FALSE
      BY <1>1, <2>1
    <3> DEFINE d == q - last
    <3>1. d \in Nat /\ q = last + d
      BY <1>1, <2>1
    <3> HIDE DEF d
    <3>2. q * len = last * len + d * len /\ d * len \in Nat
      BY <1>1, <3>1
    <3>3. last * len = (last - 1) * len + len /\ (last - 1) * len \in Int
      BY <1>1
    <3> HIDE DEF last
    <3> QED BY <1>1, <2>1, <2>2, <3>2, <3>3
  <2>4. q + 1 \in 1..last /\ heads[q + 1] = q * len
    BY <1>1, <1>5, <2>1, <2>3
  <2>5. n < Ends(heads, q + 1, Len(ms))
    <3>1. CASE q + 1 < last
      <4>1. q + 2 \in 1..last /\ (q + 1) + 1 = q + 2 /\ heads[q + 2] = (q + 1) * len
        BY <1>1, <1>5, <2>1, <3>1
      <4>2. (q + 1) * len = q * len + len /\ q * len \in Nat
        BY <1>1, <2>1
      <4> QED BY <1>1, <2>1, <3>1, <4>1, <4>2 DEF Ends
    <3>2. CASE ~(q + 1 < last)
      BY <2>1, <3>2 DEF Ends
    <3> QED BY <3>1, <3>2
  <2>6. heads[q + 1] <= n
    <3>1. q * len \in Nat
      BY <1>1, <2>1
    <3> QED BY <2>1, <2>4, <3>1
  <2> QED BY <2>4, <2>5, <2>6 DEF q
<1> QED BY <1>5, <1>6

(* The widths of whole runs, times their length, lie between their starts. *)
LEMMA PackedAdds ==
  ASSUME NEW ms, ms \in Seq(Measures), NEW heads, NEW len, Packed(ms, heads, len),
         Len(ms) > 0, NEW a \in Nat, NEW r \in Nat, a <= r, r < Len(heads),
         NEW f, \A i \in 0..(Len(heads) - 1) : f[i] = W(ms, heads[i + 1])
  PROVE  /\ len * Added(f, a, r) \in Int
         /\ StartOf(ms)[heads[r + 1]] = StartOf(ms)[heads[a + 1]] + len * Added(f, a, r)
<1> DEFINE S(i) == StartOf(ms)[heads[i + 1]]
           T == {i \in a..r : S(i) = S(a) + len * Added(f, a, i)}
<1>1. /\ Len(ms) \in Nat /\ heads \in Seq(Nat) /\ Len(heads) \in Nat /\ len \in Nat \ {0}
      /\ Stretches(ms, heads, Len(ms))
  BY MeasureOf DEF Packed, Stretches
<1>2. \A i \in a..r : /\ i \in 0..(Len(heads) - 1) /\ i + 1 \in 1..Len(heads) /\ i \in Nat
  BY <1>1
<1>3. \A i \in a..r : /\ heads[i + 1] \in 0..Len(ms) /\ heads[i + 1] \in Items(ms)
                      /\ S(i) \in Int /\ f[i] \in Int /\ f[i] = W(ms, heads[i + 1])
  <2> TAKE i \in a..r
  <2>1. heads[i + 1] \in 0..Len(ms) /\ heads[i + 1] \in Items(ms)
    BY <1>1, <1>2, InStretch
  <2> QED BY <1>2, <2>1, StartSteps, MeasureOf DEF Items
<1>4. Summable(f, a, r)
  <2>1. \A i \in a..(r - 1) : i \in a..r
    OBVIOUS
  <2> QED BY <1>3, <2>1 DEF Summable
<1>5. /\ Added(f, a, a) = 0 /\ \A i \in a..r : Added(f, a, i) \in Int
      /\ \A i \in a..(r - 1) : Added(f, a, i + 1) = Added(f, a, i) + f[i]
  BY <1>4, AddedNext
<1>6. a \in T
  <2>1. a \in a..r /\ len * 0 = 0
    BY <1>1
  <2>2. S(a) \in Int
    BY <1>3, <2>1
  <2> HIDE DEF S
  <2> QED BY <1>5, <2>1, <2>2
<1>7. ASSUME NEW i \in a..(r - 1), i \in T PROVE i + 1 \in T
  <2>1. i \in a..r /\ i + 1 \in a..r /\ a \in a..r /\ i + 1 < Len(heads) /\ i + 1 \in 1..Len(heads)
    BY <1>1, <1>2
  <2> DEFINE k == i + 1
  <2>2. Ends(heads, k, Len(ms)) = heads[k + 1] /\ heads[k + 1] - heads[k] = len
    BY <2>1 DEF Packed, Ends
  <2>3. heads[k] \in Nat /\ heads[k + 1] \in Nat
    <3>1. k \in 1..Len(heads) /\ k + 1 \in 1..Len(heads)
      BY <1>1, <2>1
    <3> HIDE DEF k
    <3> QED BY <1>1, <3>1, HeadTypes
  <2>4. heads[k + 1] \in heads[k]..heads[k + 1]
    BY <1>1, <2>2, <2>3
  <2>5. S(k) = S(i) + (heads[k + 1] - heads[k]) * W(ms, heads[k])
    BY <1>1, <2>1, <2>2, <2>4, InStretch
  <2>6. S(k) = S(i) + len * f[i]
    BY <1>3, <2>1, <2>2, <2>5
  <2>7. len * Added(f, a, k) = len * Added(f, a, i) + len * f[i]
    <3>1. Added(f, a, k) = Added(f, a, i) + f[i] /\ Added(f, a, i) \in Int /\ f[i] \in Int
      BY <1>3, <1>5, <2>1
    <3> QED BY <1>1, <3>1, Times
  <2>8. /\ len * Added(f, a, i) \in Int /\ len * f[i] \in Int /\ S(a) \in Int
        /\ S(i) = S(a) + len * Added(f, a, i)
    <3>1. Added(f, a, i) \in Int /\ f[i] \in Int
      BY <1>3, <1>5, <2>1
    <3>2. S(a) \in Int
      BY <1>3, <2>1
    <3>3. S(i) = S(a) + len * Added(f, a, i)
      BY <1>7
    <3> HIDE DEF S
    <3> QED BY <1>1, <3>1, <3>2, <3>3
  <2> HIDE DEF S
  <2> QED BY <2>1, <2>6, <2>7, <2>8 DEF k
<1>8. \A i \in a..r : i \in T
  <2> HIDE DEF T
  <2> QED BY <1>6, <1>7, BoundedInduction
<1>9. r \in a..r
  OBVIOUS
<1> QED BY <1>1, <1>5, <1>8, <1>9

LEMMA PackedExact ==
  ASSUME NEW ms, ms \in Seq(Measures), NEW heads, NEW g, Packed(ms, heads, g.base),
         \A i \in 0..(Len(heads) - 1) : g.codes[i] = W(ms, heads[i + 1]),
         \A i \in 0..(Len(heads) - 1) : i % PACKED_RUN_BLOCK = 0 =>
           /\ i \div PACKED_RUN_BLOCK \in DOMAIN g.prefix
           /\ g.prefix[i \div PACKED_RUN_BLOCK] = StartOf(ms)[heads[i + 1]],
         NEW n \in Items(ms)
  PROVE  PackedSpan(g, n) = SpanOf(ms, n)
<1> DEFINE len == g.base
           run == n \div len
           block == run \div PACKED_RUN_BLOCK
           from == block * PACKED_RUN_BLOCK
<1>1. /\ len \in Nat \ {0} /\ PACKED_RUN_BLOCK \in Nat \ {0} /\ n \in Nat
      /\ Len(ms) > 0 /\ Len(ms) \in Nat /\ heads \in Seq(Nat) /\ Len(heads) \in Nat
      /\ Stretches(ms, heads, Len(ms))
  <2>1. Len(ms) \in Nat /\ PACKED_RUN_BLOCK \in Nat \ {0}
    BY MeasureOf, GeometryAssumption
  <2>2. n \in Nat /\ Len(ms) > 0
    BY <2>1 DEF Items
  <2>3. len \in Nat \ {0} /\ Stretches(ms, heads, Len(ms))
    BY DEF Packed
  <2>4. heads \in Seq(Nat) /\ Len(heads) \in Nat
    BY <2>3, HeadTypes
  <2> QED BY <2>1, <2>2, <2>3, <2>4
<1>2. /\ run + 1 \in 1..Len(heads) /\ heads[run + 1] <= n
      /\ n < Ends(heads, run + 1, Len(ms)) /\ heads[run + 1] = run * len
      /\ run \in Nat /\ (n % len) \in 0..(len - 1) /\ n = run * len + (n % len)
  <2>1. run \in Nat /\ (n % len) \in 0..(len - 1) /\ n = run * len + (n % len)
    BY <1>1, DivMod
  <2>2. run + 1 \in 1..Len(heads) /\ heads[run + 1] <= n /\ n < Ends(heads, run + 1, Len(ms))
    BY <1>1, PackedHeads
  <2>3. heads[run + 1] = ((run + 1) - 1) * len
    BY <1>1, <2>2, PackedHeads
  <2> HIDE DEF run
  <2> QED BY <2>1, <2>2, <2>3
<1> HIDE DEF run, len
<1>3. block \in Nat /\ from \in Nat /\ from <= run /\ run < Len(heads)
  <2>1. block \in Nat /\ run % PACKED_RUN_BLOCK \in 0..(PACKED_RUN_BLOCK - 1)
        /\ run = block * PACKED_RUN_BLOCK + (run % PACKED_RUN_BLOCK)
    BY <1>1, <1>2, DivMod
  <2> HIDE DEF block
  <2>2. from \in Nat /\ from = block * PACKED_RUN_BLOCK
    BY <1>1, <2>1, SMTT(30)
  <2>3. run < Len(heads)
    BY <1>1, <1>2
  <2> HIDE DEF from
  <2>4. from <= run
    BY <1>1, <1>2, <2>1, <2>2
  <2> QED BY <2>1, <2>2, <2>3, <2>4
<1> HIDE DEF from, block
<1>4. from \div PACKED_RUN_BLOCK = block /\ from % PACKED_RUN_BLOCK = 0
  <2>1. from = block * PACKED_RUN_BLOCK + 0 /\ 0 \in 0..(PACKED_RUN_BLOCK - 1)
    BY <1>1, <1>3 DEF from
  <2> QED BY <1>1, <1>3, <2>1, DivUnique
<1>5. from \in 0..(Len(heads) - 1) /\ run \in 0..(Len(heads) - 1)
  BY <1>1, <1>2, <1>3
<1>6. At(g.prefix, block) = StartOf(ms)[heads[from + 1]]
  BY <1>4, <1>5 DEF At
<1>7. /\ len * Added(g.codes, from, run) \in Int
      /\ StartOf(ms)[heads[run + 1]]
           = StartOf(ms)[heads[from + 1]] + len * Added(g.codes, from, run)
  <2>1. /\ Packed(ms, heads, len) /\ from \in Nat /\ run \in Nat /\ from <= run
        /\ run < Len(heads) /\ Len(ms) > 0
    BY <1>1, <1>2, <1>3 DEF len
  <2>2. \A i \in 0..(Len(heads) - 1) : g.codes[i] = W(ms, heads[i + 1])
    OBVIOUS
  <2> DEFINE f == g.codes
  <2>3. \A i \in 0..(Len(heads) - 1) : f[i] = W(ms, heads[i + 1])
    BY <2>2
  <2> HIDE DEF f
  <2>4. /\ len * Added(f, from, run) \in Int
        /\ StartOf(ms)[heads[run + 1]]
             = StartOf(ms)[heads[from + 1]] + len * Added(f, from, run)
    BY <2>1, <2>3, PackedAdds
  <2> QED BY <2>4 DEF f
<1>8. /\ StartOf(ms)[n] = StartOf(ms)[heads[run + 1]] + (n - heads[run + 1]) * W(ms, heads[run + 1])
      /\ W(ms, n) = W(ms, heads[run + 1])
  <2> DEFINE k == run + 1
  <2>1. n \in Nat /\ k \in 1..Len(heads) /\ heads[k] <= n /\ n < Ends(heads, k, Len(ms))
    BY <1>1, <1>2
  <2> HIDE DEF k
  <2>2. Stretches(ms, heads, Len(ms))
    BY <1>1
  <2>3. /\ StartOf(ms)[n] = StartOf(ms)[heads[k]] + (n - heads[k]) * W(ms, heads[k])
        /\ W(ms, n) = W(ms, heads[k])
    BY ONLY <2>1, <2>2, ms \in Seq(Measures), StretchSpan
  <2> QED BY <2>3 DEF k
<1>9. n - heads[run + 1] = n % len
  <2> DEFINE product == run * len
             rest == n % len
  <2>1. product \in Nat
    BY <1>1, <1>2
  <2>2. heads[run + 1] = product /\ n = product + rest /\ rest \in Nat
    BY <1>1, <1>2
  <2> HIDE DEF product, rest
  <2>3. n - product = rest
    BY <2>1, <2>2
  <2> QED BY <2>2, <2>3 DEF rest
<1>10. g.codes[run] = W(ms, heads[run + 1])
  BY <1>5
<1>11. PackedSpan(g, n) =
         [start |-> At(g.prefix, block) + len * Added(g.codes, from, run)
                      + (n % len) * g.codes[run],
          width |-> g.codes[run]]
  BY DEF PackedSpan, block, run, from, len
<1> QED BY <1>6, <1>7, <1>8, <1>9, <1>10, <1>11 DEF SpanOf
-----------------------------------------------------------------------------
(* The factorised strategy: a table of components over axes and digits.    *)
AxisCount == Len(FACTOR_LENGTHS)

LEMMA AxisFacts ==
  /\ AxisCount \in Nat /\ Axes = 1..AxisCount
  /\ \A axis \in Axes : /\ FACTOR_LENGTHS[axis] \in Nat \ {0}
                        /\ FACTOR_BLOCKS[axis] \in Nat \ {0}
<1>1. /\ FACTOR_LENGTHS \in Seq(Nat \ {0}) /\ FACTOR_BLOCKS \in Seq(Nat \ {0})
      /\ Len(FACTOR_LENGTHS) = Len(FACTOR_BLOCKS)
  BY GeometryAssumption
<1>2. AxisCount \in Nat /\ Axes = 1..AxisCount
  BY <1>1 DEF AxisCount, Axes
<1>3. \A axis \in 1..AxisCount : /\ FACTOR_LENGTHS[axis] \in Nat \ {0}
                                 /\ FACTOR_BLOCKS[axis] \in Nat \ {0}
  BY <1>1 DEF AxisCount
<1> QED BY <1>2, <1>3

LEMMA DigitFacts ==
  ASSUME NEW n \in Nat, NEW axis \in Axes
  PROVE  FactorDigit(n, axis) \in 0..(FACTOR_LENGTHS[axis] - 1) /\ FactorDigit(n, axis) \in Nat
<1> DEFINE q == n \div FACTOR_BLOCKS[axis]
<1>1. FACTOR_LENGTHS[axis] \in Nat \ {0} /\ FACTOR_BLOCKS[axis] \in Nat \ {0}
  BY AxisFacts
<1>2. q \in Nat
  BY <1>1, DivMod
<1>3. FactorDigit(n, axis) = q % FACTOR_LENGTHS[axis]
  BY DEF FactorDigit
<1> HIDE DEF q
<1>4. q % FACTOR_LENGTHS[axis] \in 0..(FACTOR_LENGTHS[axis] - 1)
  BY <1>1, <1>2, DivMod
<1> QED BY <1>1, <1>3, <1>4

Tables == UNION {[D -> Int] : D \in SUBSET (Nat \X Nat)}
FactorState == [base : Int, components : Tables, valid : BOOLEAN, high : BOOLEAN]
Component(n, axis) == <<axis, FactorDigit(n, axis)>>

LEMMA TableIs ==
  ASSUME NEW t
  PROVE  /\ t \in Tables => /\ DOMAIN t \subseteq Nat \X Nat
                            /\ \A x \in DOMAIN t : t[x] \in Int
                            /\ \A x : At(t, x) \in Int
         /\ \A D \in SUBSET (Nat \X Nat) : t \in [D -> Int] => t \in Tables
<1>1. ASSUME t \in Tables
      PROVE  DOMAIN t \subseteq Nat \X Nat /\ \A x \in DOMAIN t : t[x] \in Int
  <2>1. PICK D \in SUBSET (Nat \X Nat) : t \in [D -> Int]
    BY <1>1 DEF Tables
  <2> QED BY <2>1
<1> QED BY <1>1 DEF Tables, At

LEMMA TablePut ==
  ASSUME NEW t \in Tables, NEW x \in Nat \X Nat, NEW v \in Int
  PROVE  /\ Put(t, x, v) \in Tables
         /\ DOMAIN Put(t, x, v) = DOMAIN t \cup {x}
         /\ \A y \in DOMAIN t : y # x => Put(t, x, v)[y] = t[y]
<1> DEFINE D == DOMAIN t \cup {x}
<1>1. D \in SUBSET (Nat \X Nat)
  BY TableIs
<1>2. Put(t, x, v) \in [D -> Int] /\ DOMAIN Put(t, x, v) = D
  BY TableIs DEF Put
<1>3. \A y \in DOMAIN t : y # x => Put(t, x, v)[y] = t[y]
  BY DEF Put
<1> QED BY <1>1, <1>2, <1>3, TableIs

LEMMA PredictedInt ==
  ASSUME NEW f \in FactorState, NEW n \in Nat
  PROVE  Predicted(f, n) \in Int
<1> DEFINE d == [axis \in Axes |-> At(f.components, <<axis, FactorDigit(n, axis)>>)]
<1>1. f.components \in Tables /\ f.base \in Int
  BY DEF FactorState
<1>2. \A axis \in Axes : d[axis] \in Int
  <2>1. \A x : At(f.components, x) \in Int
    BY <1>1, TableIs
  <2> QED BY <2>1
<1> HIDE DEF d
<1>3. Summable(d, 1, AxisCount + 1)
  BY <1>2, AxisFacts DEF Summable
<1>4. Added(d, 1, AxisCount + 1) \in Int
  <2> DEFINE high == AxisCount + 1
  <2>1. 1 \in Nat /\ high \in Nat /\ 1 <= high /\ high \in 1..high
    BY AxisFacts
  <2> HIDE DEF high
  <2> QED BY <1>3, <2>1, AddedNext DEF high
<1> QED BY <1>1, <1>4 DEF Predicted, d, AxisCount

(* More is known, nothing is known differently.                            *)
Refines(f, more) ==
  /\ more.base = f.base
  /\ \A x \in DOMAIN f.components :
       x \in DOMAIN more.components /\ more.components[x] = f.components[x]

Known(f, n) == \A axis \in Axes : Component(n, axis) \in DOMAIN f.components

LEMMA PredictedAgain ==
  ASSUME NEW f \in FactorState, NEW more, Refines(f, more), NEW n \in Nat, Known(f, n)
  PROVE  Known(more, n) /\ Predicted(more, n) = Predicted(f, n)
<1> DEFINE d == [axis \in Axes |-> At(f.components, <<axis, FactorDigit(n, axis)>>)]
           e == [axis \in Axes |-> At(more.components, <<axis, FactorDigit(n, axis)>>)]
           high == AxisCount + 1
<1>1. f.components \in Tables
  BY DEF FactorState
<1>2. \A axis \in Axes : d[axis] \in Int /\ e[axis] = d[axis]
  <2>1. \A x : At(f.components, x) \in Int
    BY <1>1, TableIs
  <2> QED BY <2>1 DEF Known, Component, Refines, At
<1> HIDE DEF d, e
<1>3. 1 \in Nat /\ high \in Nat /\ 1 <= high /\ \A i \in 1..(high - 1) : i \in Axes
  BY AxisFacts
<1> HIDE DEF high
<1>4. Summable(d, 1, high) /\ \A i \in 1..(high - 1) : e[i] = d[i]
  BY <1>2, <1>3 DEF Summable
<1>5. Added(e, 1, high) = Added(d, 1, high)
  BY <1>3, <1>4, AddedSame
<1>6. more.base = f.base
  BY DEF Refines
<1>7. Known(more, n)
  BY DEF Known, Refines
<1> QED BY <1>5, <1>6, <1>7 DEF Predicted, d, e, high, AxisCount

LEMMA LearnRefines ==
  ASSUME NEW f \in FactorState, NEW n \in Nat, NEW width \in Nat, NEW axis \in Axes,
         NEW r, r = Learn(f, n, width, axis)
  PROVE  /\ r \in FactorState /\ Refines(f, r)
         /\ r.valid => f.valid /\ Component(n, axis) \in DOMAIN r.components
<1> DEFINE x == Component(n, axis)
           delta == width - Predicted(f, n)
<1>1. /\ f.base \in Int /\ f.components \in Tables /\ f.valid \in BOOLEAN /\ f.high \in BOOLEAN
  BY DEF FactorState
<1>2. x \in Nat \X Nat /\ delta \in Int
  <2>1. axis \in Nat
    BY AxisFacts
  <2>2. FactorDigit(n, axis) \in Nat
    BY DigitFacts
  <2>3. Predicted(f, n) \in Int
    BY PredictedInt
  <2> QED BY <2>1, <2>2, <2>3 DEF Component
<1> HIDE DEF x, delta
<1>3. r = IF x \in DOMAIN f.components \/ ~f.valid THEN f
          ELSE IF delta \notin I16 THEN [f EXCEPT !.valid = FALSE]
          ELSE [f EXCEPT !.components = Put(@, x, delta),
                         !.high = @ \/ (axis > 1 /\ delta # 0)]
  BY DEF Learn, x, delta, Component
<1>4. CASE x \in DOMAIN f.components \/ ~f.valid
  BY <1>3, <1>4 DEF Refines, x
<1>5. CASE ~(x \in DOMAIN f.components \/ ~f.valid) /\ delta \notin I16
  <2>1. r = [f EXCEPT !.valid = FALSE]
    BY <1>3, <1>5
  <2>2. r \in FactorState /\ r.valid = FALSE /\ r.base = f.base /\ r.components = f.components
    BY <2>1 DEF FactorState
  <2> QED BY <2>2 DEF Refines
<1>6. CASE ~(x \in DOMAIN f.components \/ ~f.valid) /\ ~(delta \notin I16)
  <2> DEFINE t == Put(f.components, x, delta)
             high == f.high \/ (axis > 1 /\ delta # 0)
  <2>1. r = [f EXCEPT !.components = t, !.high = high]
    BY <1>3, <1>6
  <2>2. /\ t \in Tables /\ DOMAIN t = DOMAIN f.components \cup {x}
        /\ \A y \in DOMAIN f.components : y # x => t[y] = f.components[y]
    BY <1>1, <1>2, TablePut
  <2>3. high \in BOOLEAN
    OBVIOUS
  <2> HIDE DEF t, high
  <2>4. /\ r \in FactorState /\ r.valid = f.valid /\ r.base = f.base /\ r.components = t
    BY <2>1, <2>2, <2>3 DEF FactorState
  <2>5. f.valid /\ x \notin DOMAIN f.components
    BY <1>6
  <2> QED BY <2>2, <2>4, <2>5 DEF Refines, x
<1> QED BY <1>4, <1>5, <1>6

(* The components seen so far reproduce the widths of the first n items.   *)
Factored(f, ms, n) ==
  /\ f \in FactorState
  /\ f.valid => \A i \in 0..(n - 1) : Known(f, i) /\ Predicted(f, i) = W(ms, i)

LEMMA PushFactorKeeps ==
  ASSUME NEW ms, NEW n \in Nat, NEW f, Factored(f, ms, n), f.valid,
         NEW width \in Nat, width = W(ms, n), NEW r, r = PushFactor(f, n, width)
  PROVE  Factored(r, ms, n + 1)
<1> DEFINE zeros == [c \in {<<axis, 0>> : axis \in Axes} |-> 0]
           based == IF n # 0 THEN f
                    ELSE [f EXCEPT !.base = width, !.components = zeros]
           step == [k \in Nat |-> [s \in FactorState |->
                      IF k \in Axes THEN Learn(s, n, width, k) ELSE s]]
           Solves(s) == s = [axis \in 0..AxisCount |->
                          IF axis = 0 THEN based ELSE Learn(s[axis - 1], n, width, axis)]
           learnt == CHOOSE s : Solves(s)
           all == learnt[AxisCount]
<1>1. f \in FactorState /\ AxisCount \in Nat /\ Axes = 1..AxisCount
  BY AxisFacts DEF Factored
<1>2. based \in FactorState
  <2>1. CASE n # 0
    BY <1>1, <2>1
  <2>2. CASE n = 0
    <3>1. zeros \in Tables
      <4> DEFINE D == {<<axis, 0>> : axis \in Axes}
      <4>1. D \in SUBSET (Nat \X Nat)
        BY <1>1
      <4>2. zeros \in [D -> Int]
        OBVIOUS
      <4> HIDE DEF D, zeros
      <4> QED BY <4>1, <4>2, TableIs
    <3> HIDE DEF zeros
    <3>2. based = [f EXCEPT !.base = width, !.components = zeros] /\ width \in Int
      BY <2>2
    <3> QED BY <1>1, <3>1, <3>2 DEF FactorState
  <2> QED BY <2>1, <2>2
<1>3. \A i \in 0..(n - 1) : Known(based, i) /\ Predicted(based, i) = W(ms, i)
  BY DEF Factored
<1> HIDE DEF based, zeros
<1>4. step \in [Nat -> [FactorState -> FactorState]]
  <2>1. ASSUME NEW k \in Nat, NEW s \in FactorState
        PROVE  (IF k \in Axes THEN Learn(s, n, width, k) ELSE s) \in FactorState
    <3>1. CASE k \in Axes
      <4>1. Learn(s, n, width, k) \in FactorState
        BY <3>1, LearnRefines
      <4> QED BY <3>1, <4>1
    <3>2. CASE k \notin Axes
      BY <3>2
    <3> QED BY <3>1, <3>2
  <2> QED BY <2>1
<1>5. PICK h \in [0..AxisCount -> FactorState] :
        h[0] = based /\ \A k \in 1..AxisCount : h[k] = step[k][h[k - 1]]
  <2> HIDE DEF step
  <2>1. Iterable(AxisCount, FactorState, based, step)
    BY <1>1, <1>2, <1>4, IterationExists
  <2> QED BY <2>1 DEF Iterable
<1>6. ASSUME NEW k \in 0..AxisCount, k # 0 PROVE h[k] = Learn(h[k - 1], n, width, k)
  <2>1. k \in 1..AxisCount /\ k - 1 \in 0..AxisCount /\ k \in Nat /\ k \in Axes
    BY <1>1, <1>6
  <2>2. h[k] = step[k][h[k - 1]] /\ h[k - 1] \in FactorState
    <3> HIDE DEF step
    <3> QED BY <1>5, <2>1
  <2> QED BY <2>1, <2>2
<1> HIDE DEF step
<1>7. Solves(h)
  BY <1>5, <1>6
<1>8. Solves(learnt)
  <2> HIDE DEF Solves
  <2> QED BY <1>7
<1>9. r = [all EXCEPT !.valid = @ /\ Predicted(all, n) = width]
  BY DEF PushFactor, based, zeros, AxisCount
<1> HIDE DEF learnt
<1>10. learnt[0] = based /\ \A k \in 1..AxisCount : learnt[k] = Learn(learnt[k - 1], n, width, k)
  <2>1. 0 \in 0..AxisCount /\ \A k \in 1..AxisCount : k \in 0..AxisCount /\ k # 0
    BY <1>1
  <2> QED BY <1>8, <2>1
<1> HIDE DEF Solves
<1> DEFINE Good(s, k) ==
             /\ s \in FactorState /\ Refines(based, s)
             /\ s.valid => \A axis \in 1..k : Component(n, axis) \in DOMAIN s.components
           T == {k \in 0..AxisCount : Good(learnt[k], k)}
<1>11. 0 \in T
  <2>1. Good(based, 0)
    BY <1>2 DEF Refines
  <2> HIDE DEF Good
  <2> QED BY <1>1, <1>10, <2>1
<1>12. ASSUME NEW k \in 0..(AxisCount - 1), k \in T PROVE k + 1 \in T
  <2> DEFINE s == learnt[k]
             t == learnt[k + 1]
  <2>1. k + 1 \in 1..AxisCount /\ k + 1 \in 0..AxisCount /\ (k + 1) - 1 = k /\ k + 1 \in Axes
    BY <1>1
  <2>2. t = Learn(s, n, width, k + 1)
    BY <1>10, <2>1
  <2>3. Good(s, k)
    BY <1>12
  <2> HIDE DEF s, t
  <2>4. /\ t \in FactorState /\ Refines(s, t)
        /\ t.valid => s.valid /\ Component(n, k + 1) \in DOMAIN t.components
    <3> DEFINE axis == k + 1
    <3>1. axis \in Axes /\ t = Learn(s, n, width, axis) /\ s \in FactorState
      BY <2>1, <2>2, <2>3
    <3> HIDE DEF axis
    <3>2. /\ t \in FactorState /\ Refines(s, t)
          /\ t.valid => s.valid /\ Component(n, axis) \in DOMAIN t.components
      BY <3>1, LearnRefines
    <3> QED BY <3>2 DEF axis
  <2>5. Refines(based, t)
    BY <2>3, <2>4 DEF Refines
  <2>6. ASSUME t.valid, NEW axis \in 1..(k + 1) PROVE Component(n, axis) \in DOMAIN t.components
    <3>1. CASE axis = k + 1
      BY <2>4, <2>6, <3>1
    <3>2. CASE axis # k + 1
      <4>1. axis \in 1..k
        BY <2>1, <3>2
      <4>2. Component(n, axis) \in DOMAIN s.components
        BY <2>3, <2>4, <2>6, <4>1
      <4> QED BY <2>4, <4>2 DEF Refines
    <3> QED BY <3>1, <3>2
  <2>7. Good(t, k + 1)
    BY <2>4, <2>5, <2>6
  <2> HIDE DEF Good
  <2> QED BY <2>1, <2>7 DEF t
<1>13. \A k \in 0..AxisCount : k \in T
  <2> HIDE DEF T
  <2> QED BY <1>1, <1>11, <1>12, BoundedInduction
<1>14. Good(all, AxisCount)
  <2>1. AxisCount \in 0..AxisCount
    BY <1>1
  <2> HIDE DEF Good
  <2> QED BY <1>13, <2>1
<1> HIDE DEF all
<1>15. /\ all \in FactorState /\ Refines(based, all) /\ (all.valid => Known(all, n))
  BY <1>1, <1>14 DEF Known
<1> HIDE DEF Good, T
<1>16. /\ r \in FactorState /\ r.base = all.base /\ r.components = all.components
       /\ r.valid => all.valid /\ Predicted(all, n) = width
  <2> DEFINE v == all.valid /\ Predicted(all, n) = width
  <2>1. v \in BOOLEAN
    OBVIOUS
  <2>2. r = [all EXCEPT !.valid = v]
    BY <1>9
  <2>3. v => all.valid /\ Predicted(all, n) = width
    OBVIOUS
  <2> HIDE DEF v
  <2>4. r \in FactorState /\ r.base = all.base /\ r.components = all.components /\ r.valid = v
    BY <1>15, <2>1, <2>2 DEF FactorState
  <2> QED BY <2>3, <2>4
<1>17. Refines(all, r)
  BY <1>16 DEF Refines
<1>18. ASSUME r.valid, NEW i \in 0..((n + 1) - 1)
       PROVE  Known(r, i) /\ Predicted(r, i) = W(ms, i)
  <2>1. CASE i = n
    <3>1. Known(all, n) /\ Predicted(all, n) = W(ms, n)
      BY <1>15, <1>16, <1>18
    <3> QED BY <1>15, <1>17, <2>1, <3>1, PredictedAgain
  <2>2. CASE i # n
    <3>1. i \in 0..(n - 1) /\ i \in Nat
      BY <2>2
    <3>2. Known(based, i) /\ Predicted(based, i) = W(ms, i)
      BY <1>3, <3>1
    <3>3. Known(all, i) /\ Predicted(all, i) = W(ms, i)
      BY <1>2, <1>15, <3>1, <3>2, PredictedAgain
    <3> QED BY <1>15, <1>17, <3>1, <3>3, PredictedAgain
  <2> QED BY <2>1, <2>2
<1> QED BY <1>16, <1>18 DEF Factored

LEMMA FactorExact ==
  ASSUME NEW ms, ms \in Seq(Measures), NEW f, Factored(f, ms, Len(ms)), f.valid,
         NEW g, g.base = f.base, g.codes = f.components, NEW n \in Items(ms)
  PROVE  FactorSpan(g, n) = SpanOf(ms, n)
<1> DEFINE Value(axis) == [c \in 0..(FACTOR_LENGTHS[axis] - 1) |-> At(g.codes, <<axis, c>>)]
           P(i) == [axis \in Axes |->
                      Cycled(Value(axis), FACTOR_BLOCKS[axis], FACTOR_LENGTHS[axis], i)]
           d(i) == [axis \in Axes |-> At(f.components, <<axis, FactorDigit(i, axis)>>)]
           high == AxisCount + 1
           prefix == [i \in Nat |-> FactorPrefix(g, i)]
<1>1. /\ f \in FactorState /\ f.base \in Int /\ f.components \in Tables
      /\ \A x : At(g.codes, x) \in Int
  <2>1. f \in FactorState /\ f.base \in Int /\ f.components \in Tables
    BY DEF Factored, FactorState
  <2> QED BY <2>1, TableIs
<1>2. /\ Len(ms) \in Nat /\ n \in Nat /\ n \in 0..Len(ms) /\ n + 1 \in 0..Len(ms)
      /\ 1 \in Nat /\ high \in Nat /\ 1 <= high /\ Axes = 1..(high - 1)
      /\ high \in 1..high /\ 1 \in 1..high
  <2>1. Len(ms) \in Nat /\ n \in Nat /\ n \in 0..Len(ms) /\ n + 1 \in 0..Len(ms)
    BY MeasureOf DEF Items
  <2> QED BY <2>1, AxisFacts
<1>3. ASSUME NEW axis \in Axes, NEW i \in Nat
      PROVE  /\ P(0)[axis] = 0 /\ P(i)[axis] \in Int /\ d(i)[axis] \in Int
             /\ P(i + 1)[axis] = P(i)[axis] + d(i)[axis]
  <2>1. FACTOR_LENGTHS[axis] \in Nat \ {0} /\ FACTOR_BLOCKS[axis] \in Nat \ {0}
    BY AxisFacts
  <2>2. Summable(Value(axis), 0, FACTOR_LENGTHS[axis])
    BY <1>1, <2>1 DEF Summable
  <2>3. FactorDigit(i, axis) \in 0..(FACTOR_LENGTHS[axis] - 1)
    BY DigitFacts
  <2>4. Value(axis)[FactorDigit(i, axis)] = d(i)[axis]
    BY <2>3
  <2> DEFINE v == Value(axis)
             block == FACTOR_BLOCKS[axis]
             classes == FACTOR_LENGTHS[axis]
  <2>5. FactorDigit(i, axis) = (i \div block) % classes
    BY DEF FactorDigit
  <2>6. /\ P(0)[axis] = Cycled(v, block, classes, 0)
        /\ P(i)[axis] = Cycled(v, block, classes, i)
        /\ P(i + 1)[axis] = Cycled(v, block, classes, i + 1)
    OBVIOUS
  <2>7. d(i)[axis] \in Int
    BY <1>1
  <2> HIDE DEF v, block, classes, P, d
  <2>8. block \in Nat \ {0} /\ classes \in Nat \ {0} /\ Summable(v, 0, classes)
    BY <2>1, <2>2 DEF v, block, classes
  <2>9. /\ Cycled(v, block, classes, 0) = 0 /\ Cycled(v, block, classes, i) \in Int
        /\ Cycled(v, block, classes, i + 1)
             = Cycled(v, block, classes, i) + v[(i \div block) % classes]
    BY <2>8, CycledNext, ZenonT(40)
  <2>10. v[(i \div block) % classes] = d(i)[axis]
    BY <2>4, <2>5 DEF v
  <2> QED BY <2>6, <2>7, <2>9, <2>10
<1>4. ASSUME NEW i \in Nat PROVE FactorPrefix(g, i) = i * f.base + Added(P(i), 1, high)
  BY DEF FactorPrefix, Cycled, AxisCount
<1>5. ASSUME NEW i \in Nat PROVE Predicted(f, i) = f.base + Added(d(i), 1, high)
  BY DEF Predicted, AxisCount
<1> HIDE DEF P, d, high
<1>6. \A i \in Nat : Summable(P(i), 1, high) /\ Summable(d(i), 1, high)
  BY <1>2, <1>3 DEF Summable
<1>7. prefix[0] = 0
  <2> DEFINE zeros == [axis \in 1..high |-> 0]
  <2>1. \A axis \in 1..(high - 1) : P(0)[axis] = 0
    <3>1. 0 \in Nat
      OBVIOUS
    <3> QED BY <1>2, <1>3, <3>1
  <2>2. /\ zeros \in [1..high -> Int] /\ zeros[1] = 0 /\ zeros[high] = 0
        /\ \A axis \in 1..(high - 1) : zeros[axis] = 0 /\ zeros[axis + 1] = 0
    BY <1>2
  <2> HIDE DEF zeros
  <2>3. Adds(P(0), 1, high, zeros)
    BY <2>1, <2>2 DEF Adds
  <2>4. Added(P(0), 1, high) = 0
    BY <1>2, <2>2, <2>3, AddedIs
  <2>5. FactorPrefix(g, 0) = 0 * f.base + Added(P(0), 1, high)
    BY <1>4
  <2>6. 0 * f.base = 0
    BY <1>1
  <2> QED BY <2>4, <2>5, <2>6
<1>8. ASSUME NEW i \in Items(ms) PROVE prefix[i] \in Int /\ prefix[i + 1] = prefix[i] + W(ms, i)
  <2>1. i \in Nat /\ i + 1 \in Nat /\ i \in 0..(Len(ms) - 1)
    BY <1>2 DEF Items
  <2>2. W(ms, i) = f.base + Added(d(i), 1, high)
    BY <1>5, <2>1 DEF Factored
  <2>3. Added(P(i + 1), 1, high) = Added(P(i), 1, high) + Added(d(i), 1, high)
    <3>1. \A axis \in 1..(high - 1) : P(i + 1)[axis] = P(i)[axis] + d(i)[axis]
      BY <1>2, <1>3, <2>1
    <3> QED BY <1>2, <1>6, <2>1, <3>1, AddedPlus
  <2>4. Added(P(i), 1, high) \in Int /\ Added(d(i), 1, high) \in Int
    BY <1>2, <1>6, <2>1, AddedNext
  <2>5. (i + 1) * f.base = i * f.base + f.base /\ i * f.base \in Int
    <3> DEFINE base == f.base
    <3>1. base \in Int
      BY <1>1
    <3> HIDE DEF base
    <3>2. (i + 1) * base = i * base + base /\ i * base \in Int
      BY <2>1, <3>1
    <3> QED BY <3>2 DEF base
  <2>6. /\ prefix[i] = i * f.base + Added(P(i), 1, high)
        /\ prefix[i + 1] = (i + 1) * f.base + Added(P(i + 1), 1, high)
    BY <1>4, <2>1
  <2> HIDE DEF prefix
  <2> QED BY <1>1, <2>2, <2>3, <2>4, <2>5, <2>6
<1>9. \A k \in 0..Len(ms) : prefix[k] = StartOf(ms)[k]
  <2> TAKE k \in 0..Len(ms)
  <2>1. \A i \in 0..(k - 1) : prefix[i + 1] = prefix[i] + W(ms, i)
    <3>1. \A i \in 0..(k - 1) : i \in Items(ms)
      BY <1>2 DEF Items
    <3> HIDE DEF prefix
    <3> QED BY <1>8, <3>1
  <2> HIDE DEF prefix
  <2> QED BY <1>7, <2>1, StartsAre
<1>10. FactorSpan(g, n) = [start |-> prefix[n], width |-> prefix[n + 1] - prefix[n]]
  BY <1>2 DEF FactorSpan
<1>11. prefix[n + 1] = prefix[n] + W(ms, n) /\ prefix[n] \in Int
  <2> HIDE DEF prefix
  <2> QED BY <1>8
<1>12. W(ms, n) \in Int
  BY MeasureOf DEF Items
<1> HIDE DEF prefix
<1>13. prefix[n + 1] - prefix[n] = W(ms, n)
  BY <1>11, <1>12
<1> QED BY <1>2, <1>9, <1>10, <1>13 DEF SpanOf
-----------------------------------------------------------------------------
(* The builder.  Each observer changes its own fields and keeps what they  *)
(* say true of one item more.                                              *)
BuilderFields ==
  {"period_widths", "palette", "candidates", "run_count", "current_width",
   "current_len", "common_run_len", "fixed_width", "affine_base",
   "affine_slope", "items", "started", "periodic_failed",
   "common_runs_failed", "palette_failed", "affine_failed", "saw_nested",
   "compressible", "ranked_candidate", "factor_candidate", "factor_valid",
   "factor_high_component", "factor_base", "shape_period",
   "shape_attempted", "shape_candidate"}
GeometryFields ==
  {"kind", "base", "slope", "period", "cycle", "codes", "widths", "prefix", "segments"}

Keeps(b, c, fields) ==
  /\ DOMAIN b = BuilderFields /\ DOMAIN c = BuilderFields
  /\ \A x \in BuilderFields \ fields : c[x] = b[x]

KeepsGeometry(g, h, fields) ==
  /\ DOMAIN g = GeometryFields /\ DOMAIN h = GeometryFields
  /\ \A x \in GeometryFields \ fields : h[x] = g[x]

LEMMA Appended ==
  ASSUME NEW ms, ms \in Seq(Measures), NEW m \in Measures, NEW more, more = Append(ms, m)
  PROVE  /\ more \in Seq(Measures) /\ Len(more) = Len(ms) + 1 /\ Len(ms) \in Nat
         /\ Items(more) = Items(ms) \cup {Len(ms)}
         /\ \A i \in Items(ms) : /\ W(more, i) = W(ms, i) /\ H(more, i) = H(ms, i)
                                 /\ i \in Nat /\ i < Len(ms)
         /\ W(more, Len(ms)) = m.consumed /\ H(more, Len(ms)) = m.shape
         /\ m.consumed \in Nat /\ m.nested \in BOOLEAN
<1>1. more \in Seq(Measures) /\ Len(more) = Len(ms) + 1 /\ Len(ms) \in Nat
  OBVIOUS
<1>2. \A i \in Items(ms) : more[i + 1] = ms[i + 1] /\ i \in Nat /\ i < Len(ms)
  BY <1>1 DEF Items
<1>3. more[Len(ms) + 1] = m
  BY <1>1
<1>4. Items(more) = Items(ms) \cup {Len(ms)}
  BY <1>1 DEF Items
<1> QED BY <1>1, <1>2, <1>3, <1>4, GeometryAssumption DEF W, H

LEMMA AppendedItem ==
  ASSUME NEW ms, ms \in Seq(Measures), NEW m \in Measures, NEW more, more = Append(ms, m),
         NEW i \in Items(ms)
  PROVE  W(more, i) = W(ms, i) /\ H(more, i) = H(ms, i) /\ i \in Nat /\ i < Len(ms)
<1>1. i + 1 \in 1..Len(ms) /\ i \in Nat /\ i < Len(ms)
  BY DEF Items
<1>2. more[i + 1] = ms[i + 1]
  BY <1>1
<1> QED BY <1>1, <1>2 DEF W, H

LEMMA StartsKept ==
  ASSUME NEW ms, ms \in Seq(Measures), NEW m \in Measures, NEW more, more = Append(ms, m)
  PROVE  /\ \A i \in 0..Len(ms) : StartOf(more)[i] = StartOf(ms)[i]
         /\ StartOf(more)[Len(more)] = StartOf(ms)[Len(ms)] + m.consumed
<1>1. /\ more \in Seq(Measures) /\ Len(more) = Len(ms) + 1 /\ Len(ms) \in Nat
      /\ \A i \in Items(ms) : W(more, i) = W(ms, i)
      /\ W(more, Len(ms)) = m.consumed
  <2>1. more \in Seq(Measures) /\ Len(more) = Len(ms) + 1 /\ Len(ms) \in Nat
    BY Appended
  <2>2. W(more, Len(ms)) = m.consumed
    BY Appended
  <2>3. ASSUME NEW i \in Items(ms) PROVE W(more, i) = W(ms, i)
    BY Appended
  <2> QED BY <2>1, <2>2, <2>3
<1>2. ASSUME NEW i \in 0..Len(ms) PROVE StartOf(more)[i] = StartOf(ms)[i]
  <2> DEFINE start == StartOf(more)
  <2>1. start[0] = 0
    BY <1>1, StartSteps
  <2>2. ASSUME NEW j \in 0..(i - 1) PROVE start[j + 1] = start[j] + W(ms, j)
    <3>1. j \in 0..(Len(more) - 1) /\ j \in Items(ms)
      BY <1>1 DEF Items
    <3> QED BY <1>1, <3>1, StartSteps
  <2> HIDE DEF start
  <2>3. start[i] = StartOf(ms)[i]
    BY <2>1, <2>2, StartsAre
  <2> QED BY <2>3 DEF start
<1>3. Len(ms) \in 0..(Len(more) - 1) /\ Len(ms) \in 0..Len(ms)
  BY <1>1
<1>4. StartOf(more)[Len(ms) + 1] = StartOf(more)[Len(ms)] + W(more, Len(ms))
  BY <1>1, <1>3, StartSteps
<1> QED BY <1>1, <1>2, <1>3, <1>4

Fixed(b, ms) ==
  /\ b.fixed_width \in Nat \cup {Unset, Mixed}
  /\ b.fixed_width = Unset => Len(ms) = 0
  /\ b.fixed_width \in Nat => \A i \in Items(ms) : W(ms, i) = b.fixed_width

LEMMA FixedStep ==
  ASSUME NEW ms, ms \in Seq(Measures), NEW m \in Measures, NEW more, more = Append(ms, m),
         NEW b, DOMAIN b = BuilderFields, NEW r, r = ObserveFixed(b, m.consumed)
  PROVE  /\ Keeps(b, r, {"fixed_width"})
         /\ Fixed(b, ms) => Fixed(r, more)
<1> DEFINE width == m.consumed
           next == IF b.fixed_width \in {Unset, width} THEN width ELSE Mixed
<1>1. r = [b EXCEPT !.fixed_width = next]
  BY DEF ObserveFixed
<1> HIDE DEF next
<1>2. Keeps(b, r, {"fixed_width"}) /\ r.fixed_width = next
  BY <1>1 DEF Keeps, BuilderFields
<1>3. ASSUME Fixed(b, ms) PROVE Fixed(r, more)
  <2>1. /\ Items(more) = Items(ms) \cup {Len(ms)} /\ W(more, Len(ms)) = width /\ width \in Nat
        /\ \A i \in Items(ms) : W(more, i) = W(ms, i)
    BY Appended
  <2>2. CASE b.fixed_width = Unset
    <3>1. next = width /\ Len(ms) = 0 /\ Items(ms) = {}
      BY <1>3, <2>2 DEF next, Fixed, Items
    <3> QED BY <1>2, <2>1, <3>1 DEF Fixed, Unset, Mixed
  <2>3. CASE b.fixed_width = width
    <3>1. next = width
      BY <2>3 DEF next
    <3> QED BY <1>2, <1>3, <2>1, <2>3, <3>1 DEF Fixed, Unset, Mixed
  <2>4. CASE b.fixed_width \notin {Unset, width}
    <3>1. next = Mixed
      BY <2>4 DEF next
    <3> QED BY <1>2, <3>1 DEF Fixed, Unset, Mixed
  <2> QED BY <2>2, <2>3, <2>4
<1> QED BY <1>2, <1>3

Affine(b, ms) ==
  /\ b.affine_base \in Int /\ b.affine_slope \in Int
  /\ ~b.affine_failed =>
       \A i \in Items(ms) : W(ms, i) = b.affine_base + b.affine_slope * i

AffineFields == {"affine_base", "affine_slope", "affine_failed"}

LEMMA AffineStep ==
  ASSUME NEW ms, ms \in Seq(Measures), NEW m \in Measures, NEW more, more = Append(ms, m),
         NEW b, DOMAIN b = BuilderFields, b.items = Len(ms),
         NEW r, r = ObserveAffine(b, m.consumed)
  PROVE  /\ Keeps(b, r, AffineFields)
         /\ Affine(b, ms) => Affine(r, more)
<1> DEFINE width == m.consumed
<1>1. /\ Items(more) = Items(ms) \cup {Len(ms)} /\ W(more, Len(ms)) = width /\ width \in Nat
      /\ \A i \in Items(ms) : W(more, i) = W(ms, i) /\ i \in Nat
      /\ Len(ms) \in Nat
  BY Appended
<1>2. CASE b.items = 0
  <2>1. r = [b EXCEPT !.affine_base = width]
    BY <1>2 DEF ObserveAffine
  <2>2. /\ Keeps(b, r, AffineFields) /\ r.affine_base = width
        /\ r.affine_slope = b.affine_slope
    BY <2>1 DEF Keeps, BuilderFields, AffineFields
  <2>3. ASSUME Affine(b, ms) PROVE Affine(r, more)
    <3>1. Items(more) = {0} /\ W(more, 0) = width
      BY <1>1, <1>2 DEF Items
    <3>2. b.affine_slope \in Int
      BY <2>3 DEF Affine
    <3>3. b.affine_slope * 0 = 0
      BY <3>2
    <3> QED BY <1>1, <2>2, <3>1, <3>2, <3>3 DEF Affine
  <2> QED BY <2>2, <2>3
<1>3. CASE b.items = 1
  <2> DEFINE slope == width - b.affine_base
  <2>1. CASE slope \in I32
    <3>1. r = [b EXCEPT !.affine_slope = slope]
      BY <1>3, <2>1 DEF ObserveAffine
    <3> HIDE DEF slope
    <3>2. /\ Keeps(b, r, AffineFields) /\ r.affine_slope = slope
          /\ r.affine_base = b.affine_base /\ r.affine_failed = b.affine_failed
      BY <3>1 DEF Keeps, BuilderFields, AffineFields
    <3>3. ASSUME Affine(b, ms) PROVE Affine(r, more)
      <4>1. b.affine_base \in Int /\ slope \in Int /\ slope = width - b.affine_base
        BY <1>1, <3>3 DEF Affine, slope
      <4>2. Items(ms) = {0} /\ Items(more) = {0, 1} /\ W(more, 1) = width
        BY <1>1, <1>3 DEF Items
      <4>3. ASSUME ~b.affine_failed
            PROVE  \A i \in Items(more) : W(more, i) = b.affine_base + slope * i
        <5>1. W(more, 0) = b.affine_base + b.affine_slope * 0
          BY <1>1, <3>3, <4>2, <4>3 DEF Affine
        <5>2. b.affine_slope * 0 = 0 /\ slope * 0 = 0 /\ slope * 1 = slope
          BY <3>3, <4>1 DEF Affine
        <5> QED BY <1>1, <4>1, <4>2, <5>1, <5>2
      <4> QED BY <3>2, <4>1, <4>3 DEF Affine
    <3> QED BY <3>2, <3>3
  <2>2. CASE slope \notin I32
    <3>1. r = [b EXCEPT !.affine_failed = TRUE]
      BY <1>3, <2>2 DEF ObserveAffine
    <3>2. /\ Keeps(b, r, AffineFields) /\ r.affine_failed
          /\ r.affine_base = b.affine_base /\ r.affine_slope = b.affine_slope
      BY <3>1 DEF Keeps, BuilderFields, AffineFields
    <3> QED BY <3>2 DEF Affine
  <2> QED BY <2>1, <2>2
<1>4. CASE b.items # 0 /\ b.items # 1
  <2> DEFINE failed == \/ b.affine_failed
                       \/ b.affine_base + b.affine_slope * b.items # width
  <2>1. r = [b EXCEPT !.affine_failed = failed]
    BY <1>4 DEF ObserveAffine
  <2> HIDE DEF failed
  <2>2. /\ Keeps(b, r, AffineFields) /\ r.affine_failed = failed
        /\ r.affine_base = b.affine_base /\ r.affine_slope = b.affine_slope
    BY <2>1 DEF Keeps, BuilderFields, AffineFields
  <2>3. ASSUME Affine(b, ms), ~failed PROVE Affine(r, more)
    <3>1. ~b.affine_failed /\ b.affine_base + b.affine_slope * Len(ms) = width
      BY <2>3 DEF failed
    <3> QED BY <1>1, <2>2, <2>3, <3>1 DEF Affine
  <2>4. ASSUME Affine(b, ms), failed PROVE Affine(r, more)
    BY <2>2, <2>4 DEF Affine
  <2> QED BY <2>2, <2>3, <2>4
<1> QED BY <1>2, <1>3, <1>4

(* The palette of a builder, and the ranks of a small array.               *)
Palette(b) ==
  IsFiniteSet(b.palette) /\ Cardinality(b.palette) <= PALETTE_CAPACITY

Ranked(b, g, ms) ==
  b.ranked_candidate =>
    \A i \in Items(ms) :
      /\ i \in DOMAIN g.codes /\ g.codes[i] = W(ms, i)
      /\ i % RANKED_BLOCK = 0 =>
           /\ i \div RANKED_BLOCK \in DOMAIN g.prefix
           /\ g.prefix[i \div RANKED_BLOCK] = StartOf(ms)[i]

LEMMA SameMultiple ==
  ASSUME NEW i \in Nat, NEW j \in Nat, NEW d \in Nat \ {0},
         i % d = 0, j % d = 0, i \div d = j \div d
  PROVE  i = j
<1>1. i = (i \div d) * d + (i % d) /\ j = (j \div d) * d + (j % d) /\ i \div d \in Nat
  BY DivMod
<1> DEFINE t == (i \div d) * d
<1>2. t \in Int /\ i = t + 0 /\ j = t + 0
  BY <1>1, Times
<1> HIDE DEF t
<1> QED BY <1>2

LEMMA PutIs ==
  ASSUME NEW f, NEW x, NEW v
  PROVE  /\ DOMAIN Put(f, x, v) = DOMAIN f \cup {x}
         /\ Put(f, x, v)[x] = v
         /\ \A y \in DOMAIN f : y # x => Put(f, x, v)[y] = f[y]
BY DEF Put

PaletteFields == {"palette", "palette_failed", "ranked_candidate"}

(* What observe_palette keeps of a pair s, and makes true of the next, r.  *)
PaletteSeen(s, r, ms, more) ==
  /\ Keeps(s.b, r.b, PaletteFields)
  /\ KeepsGeometry(s.g, r.g, {"codes", "prefix"})
  /\ r.b.ranked_candidate => s.b.ranked_candidate
  /\ ~s.b.ranked_candidate => r.g = s.g
  /\ Palette(s.b) => Palette(r.b)
  /\ Ranked(s.b, s.g, ms) => Ranked(r.b, r.g, more)

LEMMA PaletteStep ==
  ASSUME NEW ms, ms \in Seq(Measures), NEW m \in Measures, NEW more, more = Append(ms, m),
         NEW s, DOMAIN s.b = BuilderFields, DOMAIN s.g = GeometryFields,
         NEW index, index = Len(ms), NEW start, start = StartOf(ms)[Len(ms)],
         NEW r, r = ObservePalette(s, index, start, m.consumed)
  PROVE  PaletteSeen(s, r, ms, more)
<1> DEFINE width == m.consumed
           classed == /\ ~s.b.palette_failed /\ width <= U16Max
                      /\ \/ width \in s.b.palette
                         \/ Cardinality(s.b.palette) < PALETTE_CAPACITY
           ranked == s.b.ranked_candidate /\ classed
           block == index % RANKED_BLOCK = 0
           palette == IF classed THEN s.b.palette \cup {width} ELSE s.b.palette
           failed == ~classed
           still == ranked /\ (block => start <= U32Max)
           codes == Put(s.g.codes, index, width)
           prefix == IF block /\ start <= U32Max
                     THEN Put(s.g.prefix, index \div RANKED_BLOCK, start)
                     ELSE s.g.prefix
<1>1. /\ r.b = [s.b EXCEPT !.palette = palette, !.palette_failed = failed,
                            !.ranked_candidate = still]
      /\ r.g = IF ranked THEN [s.g EXCEPT !.codes = codes, !.prefix = prefix] ELSE s.g
  BY DEF ObservePalette
<1>2. /\ still => ranked /\ (block => start <= U32Max)
      /\ ranked => s.b.ranked_candidate /\ classed
  OBVIOUS
<1> HIDE DEF palette, failed, still, codes, prefix
<1>3. Keeps(s.b, r.b, PaletteFields) /\ r.b.palette = palette /\ r.b.ranked_candidate = still
  BY <1>1 DEF Keeps, BuilderFields, PaletteFields
<1>4. /\ KeepsGeometry(s.g, r.g, {"codes", "prefix"})
      /\ ~ranked => r.g = s.g
      /\ ranked => r.g.codes = codes /\ r.g.prefix = prefix
  <2> HIDE DEF ranked
  <2>1. CASE ranked
    BY <1>1, <2>1 DEF KeepsGeometry, GeometryFields
  <2>2. CASE ~ranked
    BY <1>1, <2>2 DEF KeepsGeometry
  <2> QED BY <2>1, <2>2
<1>5. ASSUME Palette(s.b) PROVE Palette(r.b)
  <2>1. IsFiniteSet(s.b.palette) /\ Cardinality(s.b.palette) <= PALETTE_CAPACITY
    BY <1>5 DEF Palette
  <2>2. /\ IsFiniteSet(s.b.palette \cup {width})
        /\ Cardinality(s.b.palette \cup {width}) =
             IF width \in s.b.palette THEN Cardinality(s.b.palette)
             ELSE Cardinality(s.b.palette) + 1
    BY <2>1, FS_AddElement
  <2>3. Cardinality(s.b.palette) \in Nat /\ PALETTE_CAPACITY \in Nat
    BY <2>1, FS_CardinalityType, GeometryAssumption
  <2>4. IsFiniteSet(palette) /\ Cardinality(palette) <= PALETTE_CAPACITY
    <3>1. CASE classed
      <4>1. palette = s.b.palette \cup {width}
        BY <3>1 DEF palette
      <4> QED BY <2>1, <2>2, <2>3, <3>1, <4>1
    <3>2. CASE ~classed
      BY <2>1, <3>2 DEF palette
    <3> QED BY <3>1, <3>2
  <2> QED BY <1>3, <2>4 DEF Palette
<1>6. ASSUME Ranked(s.b, s.g, ms), still PROVE Ranked(r.b, r.g, more)
  <2>1. ranked /\ s.b.ranked_candidate /\ r.g.codes = codes /\ r.g.prefix = prefix
        /\ (block => start <= U32Max)
    BY <1>2, <1>4, <1>6
  <2>2. /\ index \in Nat /\ Items(more) = Items(ms) \cup {index} /\ W(more, index) = width
        /\ more \in Seq(Measures)
    BY Appended
  <2>3. \A i \in Items(ms) : W(more, i) = W(ms, i) /\ i \in Nat /\ i < index
    BY Appended
  <2>4. \A i \in 0..index : StartOf(more)[i] = StartOf(ms)[i]
    BY StartsKept
  <2>5. RANKED_BLOCK \in Nat \ {0}
    BY GeometryAssumption
  <2>6. ASSUME NEW i \in Items(more) PROVE i \in DOMAIN codes /\ codes[i] = W(more, i)
    <3>1. /\ DOMAIN codes = DOMAIN s.g.codes \cup {index} /\ codes[index] = width
          /\ \A y \in DOMAIN s.g.codes : y # index => codes[y] = s.g.codes[y]
      BY DEF codes, Put
    <3>2. CASE i = index
      BY <2>2, <3>1, <3>2
    <3>3. CASE i # index
      <4>1. i \in Items(ms)
        BY <2>2, <3>3
      <4>2. i \in DOMAIN s.g.codes /\ s.g.codes[i] = W(ms, i)
        BY <1>6, <2>1, <4>1 DEF Ranked
      <4> QED BY <2>3, <3>1, <3>3, <4>1, <4>2
    <3> QED BY <3>2, <3>3
  <2>7. ASSUME NEW i \in Items(more), i % RANKED_BLOCK = 0
        PROVE  /\ i \div RANKED_BLOCK \in DOMAIN prefix
               /\ prefix[i \div RANKED_BLOCK] = StartOf(more)[i]
    <3>1. CASE i = index
      <4>1. prefix = Put(s.g.prefix, index \div RANKED_BLOCK, start)
        BY <2>1, <2>7, <3>1 DEF prefix
      <4>2. StartOf(more)[i] = start
        BY <2>2, <2>4, <3>1
      <4> QED BY <3>1, <4>1, <4>2 DEF Put
    <3>2. CASE i # index
      <4>1. i \in Items(ms) /\ i \in 0..index /\ i \in Nat
        BY <2>2, <2>3, <3>2
      <4> DEFINE q == i \div RANKED_BLOCK
                 p == index \div RANKED_BLOCK
      <4>2. q \in DOMAIN s.g.prefix /\ s.g.prefix[q] = StartOf(ms)[i]
        BY <1>6, <2>1, <2>7, <4>1 DEF Ranked
      <4>3. StartOf(more)[i] = StartOf(ms)[i]
        BY <2>4, <4>1
      <4>4. block => q # p
        BY <2>2, <2>5, <2>7, <3>2, <4>1, SameMultiple
      <4>5. prefix = IF block /\ start <= U32Max THEN Put(s.g.prefix, p, start) ELSE s.g.prefix
        BY DEF prefix
      <4> HIDE DEF q, p
      <4>6. q \in DOMAIN prefix /\ prefix[q] = s.g.prefix[q]
        <5>1. CASE block /\ start <= U32Max
          <6>1. prefix = Put(s.g.prefix, p, start) /\ q # p
            BY <4>4, <4>5, <5>1
          <6> QED BY <4>2, <6>1 DEF Put
        <5>2. CASE ~(block /\ start <= U32Max)
          BY <4>2, <4>5, <5>2
        <5> QED BY <5>1, <5>2
      <4> QED BY <4>2, <4>3, <4>6 DEF q
    <3> QED BY <3>1, <3>2
  <2> HIDE DEF block, ranked, classed
  <2>8. \A i \in Items(more) :
          /\ i \in DOMAIN r.g.codes /\ r.g.codes[i] = W(more, i)
          /\ i % RANKED_BLOCK = 0 =>
               /\ i \div RANKED_BLOCK \in DOMAIN r.g.prefix
               /\ r.g.prefix[i \div RANKED_BLOCK] = StartOf(more)[i]
    BY <2>1, <2>6, <2>7
  <2> QED BY <2>8 DEF Ranked
<1>7. ~still => Ranked(r.b, r.g, more)
  BY <1>3 DEF Ranked
<1> QED BY <1>2, <1>3, <1>4, <1>5, <1>6, <1>7 DEF PaletteSeen

(* The factor components of a large array.                                 *)
Factor(b, g, ms) == b.factor_candidate => Factored(Factors(b, g), ms, Len(ms))

FactorFields == {"factor_base", "factor_valid", "factor_high_component"}

(* What observe_factor keeps of a pair s, and makes true of the next, r.   *)
FactorSeen(s, r, ms, more) ==
  /\ Keeps(s.b, r.b, FactorFields)
  /\ KeepsGeometry(s.g, r.g, {"codes"})
  /\ r = [b |-> r.b, g |-> r.g]
  /\ ~s.b.factor_candidate => r = s
  /\ Factor(s.b, s.g, ms) => Factor(r.b, r.g, more)

LEMMA FactorStep ==
  ASSUME NEW ms, ms \in Seq(Measures), NEW m \in Measures, NEW more, more = Append(ms, m),
         NEW s, s = [b |-> s.b, g |-> s.g], DOMAIN s.b = BuilderFields,
         DOMAIN s.g = GeometryFields,
         NEW index, index = Len(ms), NEW r, r = ObserveFactor(s, index, m.consumed)
  PROVE  FactorSeen(s, r, ms, more)
<1> DEFINE width == m.consumed
           f == PushFactor(Factors(s.b, s.g), index, width)
           observes == s.b.factor_candidate /\ s.b.factor_valid
<1>1. r = IF observes
          THEN [b |-> [s.b EXCEPT !.factor_base = f.base, !.factor_valid = f.valid,
                                  !.factor_high_component = f.high],
                g |-> [s.g EXCEPT !.codes = f.components]]
          ELSE s
  BY DEF ObserveFactor
<1>2. /\ more \in Seq(Measures) /\ Len(more) = index + 1 /\ index \in Nat
      /\ W(more, index) = width /\ width \in Nat
  BY Appended
<1>3. \A i \in 0..(index - 1) : W(more, i) = W(ms, i)
  <2>1. \A i \in Items(ms) : W(more, i) = W(ms, i)
    BY Appended
  <2> QED BY <2>1 DEF Items
<1>4. ASSUME Factor(s.b, s.g, ms), s.b.factor_candidate
      PROVE  Factored(Factors(s.b, s.g), more, index)
  <2>1. Factored(Factors(s.b, s.g), ms, index)
    BY <1>4 DEF Factor
  <2> QED BY <1>3, <2>1 DEF Factored
<1> HIDE DEF f
<1>5. CASE observes
  <2> DEFINE b == s.b
             g == s.g
             c == [b EXCEPT !.factor_base = f.base, !.factor_valid = f.valid,
                            !.factor_high_component = f.high]
             h == [g EXCEPT !.codes = f.components]
  <2>1. r = [b |-> c, g |-> h] /\ DOMAIN b = BuilderFields /\ DOMAIN g = GeometryFields
    BY ONLY <1>1, <1>5, DOMAIN s.b = BuilderFields, DOMAIN s.g = GeometryFields
  <2>2. r.b = c /\ r.g = h /\ r = [b |-> r.b, g |-> r.g]
    <3> HIDE DEF c, h
    <3> QED BY ONLY <2>1
  <2> HIDE DEF b, g
  <2>3. /\ Keeps(b, c, FactorFields) /\ KeepsGeometry(g, h, {"codes"})
        /\ c.factor_base = f.base /\ c.factor_valid = f.valid
        /\ c.factor_high_component = f.high /\ h.codes = f.components
    BY ONLY <2>1 DEF Keeps, BuilderFields, FactorFields, KeepsGeometry, GeometryFields
  <2> HIDE DEF c, h
  <2>4. /\ Keeps(s.b, r.b, FactorFields) /\ KeepsGeometry(s.g, r.g, {"codes"})
        /\ r = [b |-> r.b, g |-> r.g]
    BY ONLY <2>2, <2>3 DEF b, g
  <2>5. /\ r.b.factor_base = f.base /\ r.b.factor_valid = f.valid
        /\ r.b.factor_high_component = f.high /\ r.g.codes = f.components
    BY ONLY <2>2, <2>3
  <2>6. ASSUME Factor(s.b, s.g, ms) PROVE Factor(r.b, r.g, more)
    <3>1. Factored(Factors(s.b, s.g), more, index) /\ Factors(s.b, s.g).valid
      BY <1>4, <1>5, <2>6 DEF Factors
    <3>2. Factored(f, more, index + 1)
      <4> DEFINE old == Factors(s.b, s.g)
      <4>1. f = PushFactor(old, index, width) /\ Factored(old, more, index) /\ old.valid
        BY <3>1 DEF f
      <4> HIDE DEF old
      <4> QED BY <1>2, <4>1, PushFactorKeeps
    <3>3. f = Factors(r.b, r.g)
      <4>1. f \in FactorState
        BY <3>2 DEF Factored
      <4>2. f = [base |-> f.base, components |-> f.components, valid |-> f.valid, high |-> f.high]
        BY <4>1 DEF FactorState
      <4> QED BY <2>5, <4>2 DEF Factors
    <3> QED BY <1>2, <3>2, <3>3 DEF Factor
  <2> QED BY <1>5, <2>4, <2>6 DEF FactorSeen
<1>6. CASE ~observes
  <2>1. r = s
    BY <1>1, <1>6
  <2>2. ASSUME Factor(s.b, s.g, ms), s.b.factor_candidate PROVE Factor(s.b, s.g, more)
    <3>1. Factored(Factors(s.b, s.g), more, index) /\ ~Factors(s.b, s.g).valid
      BY <1>4, <1>6, <2>2 DEF Factors
    <3>2. Factored(Factors(s.b, s.g), more, Len(more))
      BY <3>1 DEF Factored
    <3> QED BY <3>2 DEF Factor
  <2>3. Factor(s.b, s.g, ms) => Factor(s.b, s.g, more)
    BY <2>2 DEF Factor
  <2>4. Keeps(s.b, s.b, FactorFields) /\ KeepsGeometry(s.g, s.g, {"codes"})
    BY DEF Keeps, KeepsGeometry
  <2> QED BY <2>1, <2>3, <2>4 DEF FactorSeen
<1> QED BY <1>5, <1>6

(* The runs of equal widths: what the finished ones, which cover the first *)
(* n items, say of each of these items.                                    *)
Cut(b, ms, n) ==
  /\ b.run_count \in Nat /\ b.common_run_len \in Nat
  /\ b.candidates \subseteq 1..PERIOD_CAPACITY
  /\ ~b.periodic_failed =>
       /\ b.run_count = 0 <=> b.common_run_len = 0
       /\ n <= b.run_count * b.common_run_len
       /\ \A r \in 0..(b.run_count - 1) :
            r < PERIOD_CAPACITY => r \in DOMAIN b.period_widths /\ b.period_widths[r] \in Nat
       /\ \A i \in 0..(n - 1) :
            /\ i \div b.common_run_len < PERIOD_CAPACITY =>
                 W(ms, i) = b.period_widths[i \div b.common_run_len]
            /\ \A p \in b.candidates :
                 p <= i \div b.common_run_len =>
                   W(ms, i) = b.period_widths[(i \div b.common_run_len) % p]

(* Only the last run may be shorter than the others.                       *)
Whole(b, n) == ~b.periodic_failed => n = b.run_count * b.common_run_len

LEMMA CutKept ==
  ASSUME NEW b, NEW c, NEW ms, NEW more, NEW n, Cut(b, ms, n), Whole(b, n),
         c.run_count = b.run_count, c.common_run_len = b.common_run_len,
         c.candidates = b.candidates,
         ~c.periodic_failed => ~b.periodic_failed /\ c.period_widths = b.period_widths,
         \A i \in 0..(n - 1) : W(more, i) = W(ms, i)
  PROVE  Cut(c, more, n) /\ Whole(c, n)
BY DEF Cut, Whole

RunFields ==
  {"common_run_len", "common_runs_failed", "period_widths", "candidates",
   "periodic_failed", "run_count"}

LEMMA FinishRunStep ==
  ASSUME NEW ms, NEW b, DOMAIN b = BuilderFields, NEW final \in BOOLEAN,
         NEW n \in Nat, Cut(b, ms, n), Whole(b, n), b.current_len \in Nat \ {0},
         b.current_width \in Nat,
         \A i \in n..(n + b.current_len - 1) : W(ms, i) = b.current_width,
         ~b.periodic_failed => ~b.shape_attempted,
         NEW r, r = FinishRun(b, final)
  PROVE  /\ Keeps(b, r, RunFields)
         /\ Cut(r, ms, n + b.current_len)
         /\ ~final => Whole(r, n + b.current_len)
         /\ b.shape_attempted => r.period_widths = b.period_widths
         /\ DOMAIN r.period_widths \subseteq
              DOMAIN b.period_widths \cup 0..(PERIOD_CAPACITY - 1)
         /\ ~r.periodic_failed => ~b.periodic_failed
         /\ r.run_count = b.run_count + 1
<1> DEFINE first == b.common_run_len = 0
           uneven == /\ ~first
                     /\ IF final THEN b.current_len > b.common_run_len
                        ELSE b.current_len # b.common_run_len
           index == b.run_count
           width == b.current_width
           stores == ~b.shape_attempted /\ index < PERIOD_CAPACITY
           table == IF stores THEN Put(b.period_widths, index, width)
                    ELSE b.period_widths
           failed == b.periodic_failed \/ uneven
           left == IF failed THEN b.candidates
                   ELSE {p \in b.candidates : p <= index => width = table[index % p]}
           len == IF first THEN b.current_len ELSE b.common_run_len
           uneveness == b.common_runs_failed \/ uneven
           lost == failed \/ left = {}
           end == n + b.current_len
<1>1. /\ index \in Nat /\ b.common_run_len \in Nat /\ b.candidates \subseteq 1..PERIOD_CAPACITY
      /\ PERIOD_CAPACITY \in Nat \ {0} /\ end \in Nat
  <2>1. index \in Nat /\ b.common_run_len \in Nat /\ b.candidates \subseteq 1..PERIOD_CAPACITY
    BY DEF Cut
  <2>2. PERIOD_CAPACITY \in Nat \ {0}
    BY GeometryAssumption
  <2> QED BY <2>1, <2>2
<1>2. CASE width > U16Max
  <2>1. r = [b EXCEPT !.periodic_failed = TRUE, !.common_runs_failed = TRUE,
                      !.run_count = index + 1]
    BY <1>2 DEF FinishRun
  <2>2. /\ Keeps(b, r, RunFields) /\ r.periodic_failed /\ r.run_count = index + 1
        /\ r.common_run_len = b.common_run_len /\ r.candidates = b.candidates
        /\ r.period_widths = b.period_widths
    BY <2>1 DEF Keeps, BuilderFields, RunFields
  <2> QED BY <1>1, <2>2 DEF Cut, Whole
<1>3. CASE ~(width > U16Max)
  <2>1. r = [b EXCEPT !.common_run_len = len, !.common_runs_failed = uneveness,
                      !.period_widths = table, !.candidates = left,
                      !.periodic_failed = lost, !.run_count = index + 1]
    BY <1>3 DEF FinishRun
  <2>2. lost => failed \/ left = {}
    OBVIOUS
  <2>3. ~lost => ~failed
    OBVIOUS
  <2>4. left \subseteq b.candidates /\ len \in Nat
    BY <1>1
  <2> DEFINE bad == lost
  <2>5. /\ Keeps(b, r, RunFields) /\ r.run_count = index + 1 /\ r.common_run_len = len
        /\ r.period_widths = table /\ r.candidates = left /\ r.periodic_failed = lost
    <3> HIDE DEF len, uneveness, table, left, lost, index
    <3> QED BY <2>1, ZenonT(40) DEF Keeps, BuilderFields, RunFields
  <2>6. /\ b.shape_attempted => table = b.period_widths
        /\ DOMAIN table \subseteq DOMAIN b.period_widths \cup 0..(PERIOD_CAPACITY - 1)
    <3>1. CASE stores
      <4>1. table = Put(b.period_widths, index, width)
        BY <3>1
      <4> QED BY ONLY <1>1, <3>1, <4>1 DEF Put
    <3>2. CASE ~stores
      BY <3>2
    <3> QED BY <3>1, <3>2
  <2>7. ASSUME ~lost
        PROVE  /\ len # 0 /\ end <= (index + 1) * len
               /\ ~final => end = (index + 1) * len
               /\ \A k \in 0..index :
                    k < PERIOD_CAPACITY => k \in DOMAIN table /\ table[k] \in Nat
               /\ \A i \in 0..(end - 1) :
                    /\ i \div len < PERIOD_CAPACITY => W(ms, i) = table[i \div len]
                    /\ \A p \in left : p <= i \div len => W(ms, i) = table[(i \div len) % p]
    <3>1. ~failed /\ ~b.periodic_failed /\ ~uneven /\ ~b.shape_attempted
      BY <2>3, <2>7
    <3>2. /\ index = 0 <=> first
          /\ n = index * b.common_run_len
      BY <3>1 DEF Cut, Whole
    <3>3. /\ left \subseteq b.candidates
          /\ \A p \in left : p <= index => width = table[index % p]
      BY <3>1
    <3>4. index < PERIOD_CAPACITY => table = Put(b.period_widths, index, width)
      BY <3>1
    <3>5. ~(index < PERIOD_CAPACITY) => table = b.period_widths
      BY <3>1
    <3>6. /\ index < PERIOD_CAPACITY => index \in DOMAIN table /\ table[index] = width
          /\ \A k \in DOMAIN b.period_widths :
               k # index => k \in DOMAIN table /\ table[k] = b.period_widths[k]
          /\ ~(index < PERIOD_CAPACITY) => table = b.period_widths
      <4> HIDE DEF table
      <4>1. CASE index < PERIOD_CAPACITY
        BY ONLY <3>4, <4>1 DEF Put
      <4>2. CASE ~(index < PERIOD_CAPACITY)
        BY <3>5, <4>2
      <4> QED BY <4>1, <4>2
    <3>7. \A k \in 0..(index - 1) :
            k < PERIOD_CAPACITY => k \in DOMAIN b.period_widths /\ b.period_widths[k] \in Nat
      BY <3>1 DEF Cut
    <3> HIDE DEF table, left, lost, failed
    <3>8. \A k \in 0..index : k < PERIOD_CAPACITY => k \in DOMAIN table /\ table[k] \in Nat
      <4> TAKE k \in 0..index
      <4>1. CASE k = index
        BY <3>6, <4>1
      <4>2. CASE k # index
        <5>1. k \in 0..(index - 1)
          BY <1>1, <4>2
        <5> QED BY <3>6, <3>7, <4>2, <5>1
      <4> QED BY <4>1, <4>2
    <3>9. /\ len \in Nat \ {0} /\ n = index * len /\ (index + 1) * len = n + len
          /\ b.current_len <= len /\ (~final => b.current_len = len)
          /\ index # 0 => len = b.common_run_len
      <4>1. CASE first
        <5>1. len = b.current_len /\ index = 0 /\ n = index * b.common_run_len
          BY <3>2, <4>1
        <5>2. n = 0
          BY <1>1, <5>1
        <5> HIDE DEF len
        <5>3. (index + 1) * len = len /\ index * len = 0 /\ n + len = len
          BY <5>1, <5>2
        <5> QED BY <5>1, <5>2, <5>3
      <4>2. CASE ~first
        <5>1. len = b.common_run_len /\ len \in Nat /\ len # 0 /\ n = index * len
          BY <1>1, <3>2, <4>2
        <5>2. b.current_len <= len /\ (~final => b.current_len = len)
          BY <1>1, <3>1, <4>2, <5>1
        <5> HIDE DEF len, index
        <5>3. (index + 1) * len = index * len + len
          BY <1>1, <5>1
        <5> QED BY <5>1, <5>2, <5>3
      <4> QED BY <4>1, <4>2
    <3> HIDE DEF len, first
    <3>10. end <= (index + 1) * len /\ (~final => end = (index + 1) * len)
      <4> DEFINE l == b.current_len
                 all == (index + 1) * len
      <4>1. all = n + len /\ l \in Nat /\ len \in Nat /\ l <= len /\ (~final => l = len) /\ end = n + l
        BY <3>9
      <4> HIDE DEF l, all, end
      <4> QED BY <4>1 DEF all
    <3>11. ASSUME NEW i \in 0..(end - 1)
           PROVE  /\ i \div len < PERIOD_CAPACITY => W(ms, i) = table[i \div len]
                  /\ \A p \in left : p <= i \div len => W(ms, i) = table[(i \div len) % p]
      <4>1. CASE i < n
        <5>1. i \in 0..(n - 1) /\ index # 0 /\ len = b.common_run_len /\ i \in Nat
          <6>1. i \in 0..(n - 1) /\ n # 0
            BY <4>1
          <6>2. index # 0
            BY <3>9, <6>1
          <6> QED BY <3>9, <6>1, <6>2
        <5> DEFINE q == i \div len
        <5>2. /\ q < PERIOD_CAPACITY => W(ms, i) = b.period_widths[q]
              /\ \A p \in b.candidates : p <= q => W(ms, i) = b.period_widths[q % p]
          BY <3>1, <5>1 DEF Cut
        <5>3. q \in Nat /\ q < index
          <6>1. q \in Nat /\ i % len \in 0..(len - 1) /\ i = q * len + (i % len)
            BY <3>9, <5>1, DivMod
          <6>2. i < index * len
            BY <3>9, <4>1
          <6> HIDE DEF q, index
          <6>3. q * len <= i
            <7> DEFINE t == q * len
                       m == i % len
            <7>1. t \in Nat /\ m \in Nat /\ i = t + m
              BY <3>9, <6>1, Times
            <7> HIDE DEF t, m
            <7>2. t <= i
              BY <7>1
            <7> QED BY <7>2 DEF t
          <6>4. ASSUME index <= q PROVE FALSE
            <7> DEFINE k == q - index
            <7>1. k \in Nat /\ q = index + k
              BY <1>1, <6>1, <6>4 DEF index
            <7> HIDE DEF k
            <7>2. q * len = index * len + k * len /\ k * len \in Nat /\ index * len \in Nat
              BY <1>1, <3>9, <7>1 DEF index
            <7> DEFINE x == q * len
                       y == index * len
                       z == k * len
            <7>3. x = y + z /\ z \in Nat /\ y \in Nat /\ i < y /\ x <= i /\ i \in Nat
              BY <5>1, <6>2, <6>3, <7>2
            <7> HIDE DEF x, y, z
            <7> QED BY <7>3
          <6> QED BY <1>1, <6>1, <6>4 DEF index
        <5> HIDE DEF q
        <5>4. q < PERIOD_CAPACITY => W(ms, i) = table[q]
          <6>1. q \in 0..(index - 1) /\ q # index
            BY <1>1, <5>3
          <6> QED BY <3>6, <3>7, <5>2, <6>1
        <5>5. ASSUME NEW p \in left, p <= q PROVE W(ms, i) = table[q % p]
          <6>1. p \in b.candidates /\ p \in Nat \ {0} /\ p <= PERIOD_CAPACITY
            BY <1>1, <3>3, <5>5
          <6>2. q % p \in 0..(p - 1)
            BY <5>3, <6>1, DivMod
          <6> DEFINE c == q % p
          <6>3. W(ms, i) = b.period_widths[c]
            BY <5>2, <5>5, <6>1
          <6> HIDE DEF c, index
          <6>4. c \in 0..(p - 1)
            BY <6>2 DEF c
          <6>5. c \in 0..(index - 1) /\ c < PERIOD_CAPACITY /\ c # index
            BY ONLY <1>1, <5>3, <5>5, <6>1, <6>4 DEF index
          <6>6. table[c] = b.period_widths[c]
            BY <3>6, <3>7, <6>5
          <6> QED BY <6>3, <6>6 DEF c
        <5> QED BY <5>4, <5>5 DEF q
      <4>2. CASE ~(i < n)
        <5>1. i \in n..(n + b.current_len - 1) /\ i \in Nat
          BY <4>2
        <5>2. W(ms, i) = width
          BY <5>1
        <5>3. i \div len = index
          <6> DEFINE t == index * len
                     rest == i - n
          <6>1. t \in Nat /\ n = t /\ rest \in Nat /\ rest < len /\ i = t + rest
            BY <1>1, <3>9, <5>1
          <6> HIDE DEF t, rest
          <6>2. rest \in 0..(len - 1) /\ i = index * len + rest
            BY <3>9, <6>1 DEF t
          <6> QED BY <1>1, <3>9, <5>1, <6>2, DivUnique
        <5> QED BY <3>3, <3>6, <5>2, <5>3
      <4> QED BY <4>1, <4>2
    <3> QED BY <3>8, <3>9, <3>10, <3>11
  <2> HIDE DEF lost, left, len, table, first
  <2>8. Cut(r, ms, end)
    <3>1. index + 1 \in Nat /\ left \subseteq 1..PERIOD_CAPACITY /\ index + 1 # 0
          /\ (index + 1) - 1 = index
      BY <1>1, <2>4
    <3> HIDE DEF end, index
    <3> QED BY <2>4, <2>5, <2>7, <3>1 DEF Cut
  <2>9. ~final => Whole(r, end)
    BY <2>5, <2>7 DEF Whole
  <2>10. ~lost => ~b.periodic_failed
    BY <2>3
  <2> QED BY <2>5, <2>6, <2>8, <2>9, <2>10
<1> QED BY <1>2, <1>3

(* The run that is still open, and the finished ones before it.            *)
Running(b, ms) ==
  /\ b.started => Len(ms) > 0
  /\ Len(ms) > 0 => b.started
  /\ b.current_len \in 0..Len(ms) /\ b.current_width \in Nat
  /\ Len(ms) > 0 => b.current_len # 0
  /\ \A i \in (Len(ms) - b.current_len)..(Len(ms) - 1) : W(ms, i) = b.current_width
  /\ Cut(b, ms, Len(ms) - b.current_len) /\ Whole(b, Len(ms) - b.current_len)
  /\ ~b.periodic_failed => ~b.shape_attempted

OpenFields == {"started", "current_width", "current_len"}

(* What observe_run keeps of a builder b, and makes true of the next, r.   *)
RunSeen(b, r, more) ==
  /\ Keeps(b, r, RunFields \cup OpenFields)
  /\ Running(r, more)
  /\ b.shape_attempted => r.period_widths = b.period_widths
  /\ DOMAIN r.period_widths \subseteq
       DOMAIN b.period_widths \cup 0..(PERIOD_CAPACITY - 1)
  /\ ~r.periodic_failed => ~b.periodic_failed

LEMMA RunStep ==
  ASSUME NEW ms, ms \in Seq(Measures), NEW m \in Measures, NEW more, more = Append(ms, m),
         Len(more) <= U32Max, NEW b, DOMAIN b = BuilderFields, Running(b, ms),
         NEW r, r = ObserveRun(b, m.consumed)
  PROVE  RunSeen(b, r, more)
<1> DEFINE width == m.consumed
           n == Len(ms)
           l == b.current_len
           longer == Least(l + 1, U32Max)
           continues == b.started /\ b.current_width = width
<1>1. /\ n \in Nat /\ Len(more) = n + 1 /\ W(more, n) = width /\ width \in Nat /\ U32Max \in Nat
      /\ n + 1 <= U32Max
  BY Appended, GeometryAssumption
<1>2. \A i \in Items(ms) : W(more, i) = W(ms, i)
  BY Appended
<1>3. \A i \in 0..(n - 1) : W(more, i) = W(ms, i)
  BY <1>2 DEF Items
<1>4. /\ l \in 0..n /\ b.current_width \in Nat /\ (n > 0 => l # 0)
      /\ \A i \in (n - l)..(n - 1) : W(ms, i) = b.current_width
      /\ Cut(b, ms, n - l) /\ Whole(b, n - l)
      /\ ~b.periodic_failed => ~b.shape_attempted
  BY DEF Running
<1>5. (b.started => n > 0) /\ (n > 0 => b.started)
  BY DEF Running
<1>6. /\ n - l \in Nat /\ \A i \in 0..((n - l) - 1) : W(more, i) = W(ms, i)
      /\ \A i \in (n - l)..(n - 1) : W(more, i) = W(ms, i)
  BY <1>1, <1>3, <1>4
<1>7. CASE continues
  <2>1. r = [b EXCEPT !.current_len = longer]
    BY <1>7 DEF ObserveRun
  <2>2. longer = l + 1
    BY <1>1, <1>4 DEF Least
  <2> HIDE DEF longer
  <2>3. /\ Keeps(b, r, RunFields \cup OpenFields) /\ Keeps(b, r, {"current_len"})
        /\ r.current_len = l + 1
    BY <2>1, <2>2 DEF Keeps, BuilderFields, RunFields, OpenFields
  <2>4. /\ r.run_count = b.run_count /\ r.common_run_len = b.common_run_len
        /\ r.candidates = b.candidates /\ r.periodic_failed = b.periodic_failed
        /\ r.period_widths = b.period_widths /\ r.shape_attempted = b.shape_attempted
        /\ r.started = b.started /\ r.current_width = b.current_width
    BY <2>3 DEF Keeps, BuilderFields
  <2>5. Cut(r, more, n - l) /\ Whole(r, n - l)
    <3> DEFINE k == n - l
    <3>1. Cut(b, ms, k) /\ Whole(b, k) /\ \A i \in 0..(k - 1) : W(more, i) = W(ms, i)
      BY <1>4, <1>6
    <3> HIDE DEF k
    <3>2. Cut(r, more, k) /\ Whole(r, k)
      BY <2>4, <3>1, CutKept
    <3> QED BY <3>2 DEF k
  <2>6. /\ l + 1 \in 0..(n + 1) /\ l + 1 # 0 /\ (n + 1) - (l + 1) = n - l /\ (n + 1) - 1 = n
        /\ n + 1 > 0
    <3>1. l \in Nat /\ n \in Nat /\ l <= n
      BY <1>1, <1>4
    <3> HIDE DEF l, n
    <3> QED BY ONLY <3>1
  <2>7. \A i \in (n - l)..n : W(more, i) = b.current_width
    <3> TAKE i \in (n - l)..n
    <3>1. CASE i = n
      BY <1>1, <1>7, <3>1
    <3>2. CASE i # n
      <4>1. i \in (n - l)..(n - 1)
        BY <1>1, <1>4, <3>2
      <4> QED BY <1>4, <1>6, <4>1
    <3> QED BY <3>1, <3>2
  <2>8. Running(r, more)
    <3>1. Len(more) - r.current_len = n - l /\ Len(more) - 1 = n
      BY <1>1, <2>3, <2>6
    <3> QED BY <1>1, <1>4, <1>7, <2>3, <2>4, <2>5, <2>6, <2>7, <3>1 DEF Running
  <2> QED BY <2>3, <2>4, <2>8 DEF RunSeen
<1>8. CASE ~continues
  <2> DEFINE c == IF b.started THEN FinishRun(b, FALSE) ELSE b
  <2>1. r = [c EXCEPT !.started = TRUE, !.current_width = width, !.current_len = 1]
    BY <1>8 DEF ObserveRun
  <2>2. /\ Keeps(b, c, RunFields) /\ Cut(c, more, n) /\ Whole(c, n)
        /\ b.shape_attempted => c.period_widths = b.period_widths
        /\ DOMAIN c.period_widths \subseteq
             DOMAIN b.period_widths \cup 0..(PERIOD_CAPACITY - 1)
        /\ ~c.periodic_failed => ~b.periodic_failed
    <3>1. CASE b.started
      <4>1. c = FinishRun(b, FALSE) /\ n > 0 /\ l \in Nat \ {0}
        BY <1>1, <1>4, <1>5, <3>1
      <4> DEFINE k == n - l
      <4>2. k \in Nat /\ k + l = n /\ k + l - 1 = n - 1
        BY <1>1, <1>4
      <4>3. Cut(b, more, k) /\ Whole(b, k)
        <5>1. Cut(b, ms, k) /\ Whole(b, k) /\ \A i \in 0..(k - 1) : W(more, i) = W(ms, i)
          BY <1>4, <1>6
        <5> HIDE DEF k
        <5> QED BY <5>1, CutKept
      <4>4. \A i \in k..(k + l - 1) : W(more, i) = b.current_width
        BY <1>4, <1>6, <4>2
      <4> HIDE DEF k
      <4> DEFINE last == FALSE
      <4>5. last \in BOOLEAN /\ c = FinishRun(b, last) /\ ~last
        BY <4>1
      <4> HIDE DEF c, last
      <4>6. /\ Keeps(b, c, RunFields)
            /\ Cut(c, more, k + l)
            /\ ~last => Whole(c, k + l)
            /\ b.shape_attempted => c.period_widths = b.period_widths
            /\ DOMAIN c.period_widths \subseteq
                 DOMAIN b.period_widths \cup 0..(PERIOD_CAPACITY - 1)
            /\ ~c.periodic_failed => ~b.periodic_failed
        BY <1>4, <4>1, <4>2, <4>3, <4>4, <4>5, FinishRunStep
      <4> QED BY <4>2, <4>5, <4>6
    <3>2. CASE ~b.started
      <4>1. c = b /\ n = 0 /\ l = 0 /\ n - l = n
        BY <1>1, <1>4, <1>5, <3>2
      <4>2. Cut(b, more, n) /\ Whole(b, n)
        <5>1. Cut(b, ms, n) /\ Whole(b, n)
          BY <1>4, <4>1
        <5> HIDE DEF n
        <5> QED BY <1>3, <5>1, CutKept
      <4> HIDE DEF c
      <4> QED BY <4>1, <4>2 DEF Keeps
    <3> QED BY <3>1, <3>2
  <2> HIDE DEF c
  <2>3. /\ Keeps(c, r, OpenFields) /\ r.started /\ r.current_width = width /\ r.current_len = 1
    BY <2>1, <2>2 DEF Keeps, BuilderFields, OpenFields
  <2>4. Keeps(b, r, RunFields \cup OpenFields)
    BY <2>2, <2>3 DEF Keeps
  <2>5. /\ r.run_count = c.run_count /\ r.common_run_len = c.common_run_len
        /\ r.candidates = c.candidates /\ r.periodic_failed = c.periodic_failed
        /\ r.period_widths = c.period_widths /\ r.shape_attempted = b.shape_attempted
    BY <2>2, <2>3 DEF Keeps, BuilderFields, OpenFields, RunFields
  <2>6. Cut(r, more, n) /\ Whole(r, n)
    <3> HIDE DEF n
    <3> QED BY <2>2, <2>5, CutKept
  <2>7. Running(r, more)
    <3>1. /\ Len(more) - r.current_len = n /\ Len(more) - 1 = n /\ Len(more) > 0
          /\ 1 \in 0..Len(more) /\ 1 # 0
      BY <1>1, <2>3
    <3>2. \A i \in n..n : W(more, i) = width
      BY <1>1
    <3>3. ~r.periodic_failed => ~r.shape_attempted
      BY <1>4, <2>2, <2>5
    <3> QED BY <1>1, <2>3, <2>6, <3>1, <3>2, <3>3 DEF Running
  <2> QED BY <2>2, <2>4, <2>5, <2>7 DEF RunSeen
<1> QED BY <1>7, <1>8

(* Borders: the first q of n codes are also the last q.                    *)
Bordered(codes, n, q) ==
  q \in 0..n /\ \A j \in 0..(q - 1) : codes[j] = codes[n - q + j]

LEMMA BorderOfBorder ==
  ASSUME NEW codes, NEW n \in Nat, NEW p \in Nat, NEW q \in Nat,
         Bordered(codes, n, p), Bordered(codes, p, q)
  PROVE  Bordered(codes, n, q)
<1>1. q <= p /\ p <= n
  BY DEF Bordered
<1>2. ASSUME NEW j \in 0..(q - 1) PROVE codes[j] = codes[n - q + j]
  <2> DEFINE k == p - q + j
  <2>1. k \in 0..(p - 1) /\ n - p + k = n - q + j
    BY <1>1
  <2>2. codes[j] = codes[k]
    BY DEF Bordered
  <2> HIDE DEF k
  <2>3. codes[k] = codes[n - p + k]
    BY <2>1 DEF Bordered
  <2> QED BY <2>1, <2>2, <2>3
<1> QED BY <1>1, <1>2 DEF Bordered

LEMMA BorderIs ==
  ASSUME NEW codes, NEW borders, NEW index \in Nat,
         \A i \in 0..(index - 1) : borders[i] \in 0..i /\ Bordered(codes, i + 1, borders[i])
  PROVE  /\ Border(codes, borders, index) \in 0..index
         /\ Bordered(codes, index + 1, Border(codes, borders, index))
<1> DEFINE start == IF index = 0 THEN 0 ELSE borders[index - 1]
           next(p) == IF p = 0 \/ codes[index] = codes[p] THEN p ELSE borders[p - 1]
           step == [k \in Nat |-> [p \in 0..index |-> next(p)]]
           Solves(h) == h = [k \in 0..index |->
             IF k = 0 THEN start
             ELSE LET p == h[k - 1]
                  IN  IF p = 0 \/ codes[index] = codes[p] THEN p ELSE borders[p - 1]]
           candidate == CHOOSE h : Solves(h)
           last == candidate[index]
           Settled(p) == p = 0 \/ codes[index] = codes[p]
<1>1. start \in 0..index /\ Bordered(codes, index, start) /\ (index # 0 => start <= index - 1)
  <2>1. CASE index = 0
    BY <2>1 DEF Bordered
  <2>2. CASE index # 0
    <3>1. index - 1 \in 0..(index - 1) /\ (index - 1) + 1 = index /\ index - 1 \in Nat
      BY <2>2
    <3>2. borders[index - 1] \in 0..(index - 1)
      BY <3>1
    <3>3. Bordered(codes, (index - 1) + 1, borders[index - 1])
      BY <3>1
    <3>4. start = borders[index - 1]
      BY <2>2
    <3> HIDE DEF start
    <3> QED BY <3>1, <3>2, <3>3, <3>4
  <2> QED BY <2>1, <2>2
<1>2. ASSUME NEW p \in 0..index, ~Settled(p)
      PROVE  next(p) = borders[p - 1] /\ borders[p - 1] \in 0..(p - 1)
             /\ Bordered(codes, p, borders[p - 1])
  <2>1. p - 1 \in 0..(index - 1) /\ (p - 1) + 1 = p
    BY <1>2
  <2>2. borders[p - 1] \in 0..(p - 1) /\ Bordered(codes, (p - 1) + 1, borders[p - 1])
    BY <2>1
  <2> QED BY <1>2, <2>1, <2>2
<1>3. ASSUME NEW p \in 0..index PROVE next(p) \in 0..index /\ next(p) <= p
  <2>1. CASE Settled(p)
    BY <2>1
  <2>2. CASE ~Settled(p)
    <3> HIDE DEF next, Settled
    <3> QED BY <1>2, <2>2
  <2> QED BY <2>1, <2>2
<1>4. step \in [Nat -> [0..index -> 0..index]]
  <2> HIDE DEF next
  <2> QED BY <1>3
<1> HIDE DEF start
<1>5. PICK h \in [0..index -> 0..index] :
        h[0] = start /\ \A k \in 1..index : h[k] = step[k][h[k - 1]]
  <2> DEFINE S == 0..index
  <2>1. start \in S /\ step \in [Nat -> [S -> S]]
    BY <1>1, <1>4
  <2> HIDE DEF S, step
  <2>2. Iterable(index, S, start, step)
    BY <2>1, IterationExists
  <2> QED BY <2>2 DEF Iterable, S
<1>6. ASSUME NEW k \in 0..index, k # 0 PROVE h[k] = next(h[k - 1])
  <2>1. k \in 1..index /\ k - 1 \in 0..index /\ k \in Nat
    BY <1>6
  <2>2. h[k] = step[k][h[k - 1]] /\ h[k - 1] \in 0..index
    <3> HIDE DEF step
    <3> QED BY <1>5, <2>1
  <2> HIDE DEF next
  <2> QED BY <2>1, <2>2
<1> HIDE DEF step
<1>7. Solves(h)
  BY <1>5, <1>6
<1>8. Solves(candidate)
  <2> HIDE DEF Solves
  <2> QED BY <1>7
<1>9. Border(codes, borders, index)
        = IF index # 0 /\ codes[index] = codes[last] THEN last + 1 ELSE last
  BY DEF Border, start
<1> HIDE DEF candidate
<1>10. candidate[0] = start /\ \A k \in 1..index : candidate[k] = next(candidate[k - 1])
  <2>1. 0 \in 0..index /\ \A k \in 1..index : k \in 0..index /\ k # 0
    OBVIOUS
  <2> QED BY <1>8, <2>1
<1> HIDE DEF Solves
<1> DEFINE Good(k) ==
             /\ candidate[k] \in 0..index /\ Bordered(codes, index, candidate[k])
             /\ Settled(candidate[k]) \/ candidate[k] + k <= index - 1
             /\ index # 0 => candidate[k] <= index - 1
           T == {k \in 0..index : Good(k)}
<1>11. 0 \in T
  <2>1. CASE index = 0
    BY <1>1, <1>10, <2>1
  <2>2. CASE index # 0
    <3> DEFINE p == candidate[0]
    <3>1. p = start /\ p \in 0..index /\ Bordered(codes, index, p) /\ p <= index - 1
      BY <1>1, <1>10, <2>2
    <3> HIDE DEF p, Settled
    <3>2. p + 0 <= index - 1 /\ 0 \in 0..index
      BY <3>1
    <3> QED BY <3>1, <3>2 DEF p
  <2> QED BY <2>1, <2>2
<1>12. ASSUME NEW k \in 0..(index - 1), k \in T PROVE k + 1 \in T
  <2> DEFINE p == candidate[k]
  <2>1. k + 1 \in 1..index /\ (k + 1) - 1 = k /\ k + 1 \in 0..index /\ k \in Nat
    OBVIOUS
  <2>2. candidate[k + 1] = next(p)
    <3> HIDE DEF next
    <3> QED BY <1>10, <2>1
  <2>3. /\ p \in 0..index /\ Bordered(codes, index, p)
        /\ Settled(p) \/ p + k <= index - 1
        /\ index # 0 => p <= index - 1
    BY <1>12
  <2> HIDE DEF p
  <2>4. CASE Settled(p)
    <3>1. next(p) = p
      BY <2>4
    <3> HIDE DEF next, Settled
    <3> QED BY <2>1, <2>2, <2>3, <2>4, <3>1
  <2>5. CASE ~Settled(p)
    <3>1. /\ next(p) = borders[p - 1] /\ borders[p - 1] \in 0..(p - 1)
          /\ Bordered(codes, p, borders[p - 1])
      BY <1>2, <2>3, <2>5
    <3> DEFINE q == next(p)
    <3> HIDE DEF next, Settled
    <3>2. q \in 0..(p - 1) /\ Bordered(codes, p, q) /\ p \in Nat /\ q \in Nat
      BY <2>3, <3>1
    <3> HIDE DEF q
    <3>3. Bordered(codes, index, q)
      BY <2>3, <3>2, BorderOfBorder
    <3>4. q \in 0..index /\ q + (k + 1) <= index - 1 /\ (index # 0 => q <= index - 1)
      BY <2>1, <2>3, <2>5, <3>2
    <3>5. candidate[k + 1] = q
      BY <2>2 DEF q
    <3> QED BY <2>1, <3>3, <3>4, <3>5
  <2> QED BY <2>4, <2>5
<1>13. last \in 0..index /\ Bordered(codes, index, last) /\ Settled(last)
       /\ (index # 0 => last <= index - 1)
  <2>1. \A k \in 0..index : k \in T
    <3> HIDE DEF T
    <3> QED BY <1>11, <1>12, BoundedInduction
  <2>2. Good(index)
    <3>1. index \in 0..index
      OBVIOUS
    <3> HIDE DEF Good
    <3> QED BY <2>1, <3>1
  <2>3. ~(last + index <= index - 1)
    <3>1. last \in Nat
      BY <2>2
    <3> HIDE DEF last
    <3> QED BY <3>1
  <2> QED BY <2>2, <2>3
<1> HIDE DEF last, Good, T
<1>14. CASE index # 0 /\ codes[index] = codes[last]
  <2> DEFINE q == last + 1
  <2>1. q \in 0..index /\ q \in 0..(index + 1) /\ q - 1 = last /\ last \in Nat
    BY <1>13, <1>14
  <2>2. ASSUME NEW j \in 0..(q - 1) PROVE codes[j] = codes[(index + 1) - q + j]
    <3>1. (index + 1) - q + j = index - last + j
      BY <2>1
    <3>2. CASE j = last
      <4>1. index - last + j = index
        BY <2>1, <3>2
      <4> QED BY <1>14, <3>1, <3>2, <4>1
    <3>3. CASE j # last
      <4>1. j \in 0..(last - 1)
        BY <2>1, <3>3
      <4>2. codes[j] = codes[index - last + j]
        BY <1>13, <4>1 DEF Bordered
      <4> QED BY <3>1, <4>2
    <3> QED BY <3>2, <3>3
  <2>3. Border(codes, borders, index) = q
    BY <1>9, <1>14
  <2> HIDE DEF q
  <2> QED BY <2>1, <2>2, <2>3 DEF Bordered
<1>15. CASE ~(index # 0 /\ codes[index] = codes[last])
  <2>1. last = 0
    BY <1>13, <1>15
  <2>2. Border(codes, borders, index) = 0
    BY <1>9, <1>15, <2>1
  <2> QED BY <2>2 DEF Bordered
<1> QED BY <1>14, <1>15

(* A border of q among n codes: they repeat after n - q.                   *)
LEMMA BorderPeriod ==
  ASSUME NEW codes, NEW n \in Nat, NEW q \in 0..(n - 1), Bordered(codes, n, q)
  PROVE  \A i \in 0..(n - 1) : codes[i] = codes[i % (n - q)]
<1> DEFINE p == n - q
           T == {i \in 0..(n - 1) : codes[i] # codes[i % p]}
<1>1. p \in Nat \ {0} /\ p <= n
  OBVIOUS
<1>2. ASSUME T # {} PROVE FALSE
  <2>1. PICK i \in T : \A j \in T : i <= j
    <3>1. T \subseteq Nat
      OBVIOUS
    <3> HIDE DEF T
    <3> QED BY <1>2, <3>1, LeastElement
  <2>2. i \in 0..(n - 1) /\ codes[i] # codes[i % p] /\ i \in Nat
    OBVIOUS
  <2>3. i = (i \div p) * p + (i % p) /\ i % p \in 0..(p - 1) /\ i \div p \in Nat
    BY <1>1, <2>2, DivMod
  <2>4. CASE i < p
    <3> HIDE DEF p
    <3>1. i \in 0..(p - 1) /\ i = 0 * p + i
      BY <1>1, <2>2, <2>4
    <3>2. i % p = i
      BY <1>1, <2>2, <3>1, DivUnique
    <3> QED BY <2>2, <3>2
  <2>5. CASE ~(i < p)
    <3> DEFINE j == i - p
    <3>1. j \in Nat /\ j \in 0..(q - 1) /\ j \in 0..(n - 1) /\ j < i /\ n - q + j = i
      BY <1>1, <2>2, <2>5
    <3>2. codes[j] = codes[i]
      <4> HIDE DEF j, p
      <4> QED BY <3>1 DEF Bordered
    <3>3. j \notin T
      <4> HIDE DEF T, j
      <4>1. \A x \in T : i <= x
        BY <2>1
      <4> QED BY <2>2, <3>1, <4>1
    <3>4. codes[j] = codes[j % p]
      <4> HIDE DEF j, p
      <4> QED BY <3>1, <3>3
    <3>5. j % p = i % p
      <4> DEFINE k == i \div p
                 r == i % p
      <4>1. /\ i = k * p + r /\ r \in 0..(p - 1) /\ k \in Nat /\ r \in Nat /\ j = i - p
            /\ p \in Nat \ {0} /\ i >= p
        BY <1>1, <2>2, <2>3, <2>5
      <4> HIDE DEF k, r, p, j
      <4>2. k # 0
        BY <4>1
      <4>3. k - 1 \in Nat /\ (k - 1) * p = k * p - p
        BY <4>1, <4>2
      <4> DEFINE t == (k - 1) * p
                 u == k * p
      <4>4. j = t + r
        <5>1. t = u - p /\ i = u + r /\ u \in Int
          BY <4>1, <4>3
        <5> HIDE DEF t, u
        <5> QED BY <4>1, <5>1
      <4>5. j % p = r
        <5> HIDE DEF t
        <5> DEFINE less == k - 1
        <5>1. j = less * p + r /\ less \in Nat
          BY <4>3, <4>4 DEF t
        <5> HIDE DEF less
        <5> QED BY <3>1, <4>1, <5>1, DivUnique
      <4> QED BY <4>5 DEF r
    <3> QED BY <2>2, <3>2, <3>4, <3>5
  <2> QED BY <2>4, <2>5
<1> QED BY <1>2

LEMMA BorderedSame ==
  ASSUME NEW codes, NEW more, NEW n \in Nat, NEW q, Bordered(codes, n, q),
         \A i \in 0..(n - 1) : more[i] = codes[i]
  PROVE  Bordered(more, n, q)
<1>1. q \in 0..n
  BY DEF Bordered
<1>2. ASSUME NEW j \in 0..(q - 1) PROVE more[j] = more[n - q + j]
  <2> DEFINE k == n - q + j
  <2>1. j \in 0..(n - 1) /\ k \in 0..(n - 1)
    BY <1>1
  <2>2. codes[j] = codes[k]
    BY DEF Bordered
  <2> HIDE DEF k
  <2>3. more[j] = more[k]
    BY <2>1, <2>2
  <2> QED BY <2>3 DEF k
<1> QED BY <1>1, <1>2 DEF Bordered

(* The shape classes: which hashes were met, with the width of one of      *)
(* their items, the borders of the first of them, and from there on their  *)
(* period.                                                                 *)
Hashed(g, ms) ==
  /\ \A i \in Items(ms) : H(ms, i) \in DOMAIN g.widths
  /\ \A h \in DOMAIN g.widths : \E j \in Items(ms) : H(ms, j) = h /\ g.widths[h] = W(ms, j)

Coded(b, g, ms) ==
  \A i \in Items(ms) :
    i < PERIOD_CAPACITY =>
      /\ i \in DOMAIN g.codes /\ g.codes[i] = H(ms, i)
      /\ i \in DOMAIN b.period_widths /\ b.period_widths[i] \in 0..i
      /\ Bordered(g.codes, i + 1, b.period_widths[i])

Repeating(b, ms) ==
  /\ Len(ms) < PERIOD_CAPACITY => b.shape_period = 0
  /\ Len(ms) >= PERIOD_CAPACITY =>
       /\ b.shape_period \in 1..PERIOD_CAPACITY
       /\ \A i \in Items(ms) : H(ms, i) = H(ms, i % b.shape_period)

Slots(g) ==
  IsFiniteSet(DOMAIN g.widths) /\ Cardinality(DOMAIN g.widths) <= PALETTE_CAPACITY

LEMMA HashedStep ==
  ASSUME NEW ms, ms \in Seq(Measures), NEW m \in Measures, NEW more, more = Append(ms, m),
         NEW g, NEW h, Hashed(g, ms),
         h.widths = IF m.shape \in DOMAIN g.widths THEN g.widths
                    ELSE Put(g.widths, m.shape, m.consumed)
  PROVE  Hashed(h, more)
<1>1. /\ Items(more) = Items(ms) \cup {Len(ms)}
      /\ W(more, Len(ms)) = m.consumed /\ H(more, Len(ms)) = m.shape
  BY Appended, ZenonT(40)
<1>2. ASSUME NEW i \in Items(ms) PROVE W(more, i) = W(ms, i) /\ H(more, i) = H(ms, i)
  BY AppendedItem
<1>3. /\ \A i \in Items(ms) : H(ms, i) \in DOMAIN g.widths
      /\ \A k \in DOMAIN g.widths :
           \E j \in Items(ms) : H(ms, j) = k /\ g.widths[k] = W(ms, j)
  BY DEF Hashed
<1>4. CASE m.shape \in DOMAIN g.widths
  <2>1. h.widths = g.widths
    BY <1>4
  <2> QED BY <1>1, <1>2, <1>3, <1>4, <2>1 DEF Hashed
<1>5. CASE m.shape \notin DOMAIN g.widths
  <2>1. h.widths = Put(g.widths, m.shape, m.consumed)
    BY <1>5
  <2>2. /\ DOMAIN h.widths = DOMAIN g.widths \cup {m.shape}
        /\ h.widths[m.shape] = m.consumed
        /\ \A k \in DOMAIN g.widths : h.widths[k] = g.widths[k]
    BY ONLY <1>5, <2>1 DEF Put
  <2> QED BY <1>1, <1>2, <1>3, <2>2 DEF Hashed
<1> QED BY <1>4, <1>5

LEMMA CodedStep ==
  ASSUME NEW ms, ms \in Seq(Measures), NEW m \in Measures, NEW more, more = Append(ms, m),
         NEW b, NEW c, NEW g, NEW h, Coded(b, g, ms), NEW index, index = Len(ms),
         index < PERIOD_CAPACITY, NEW codes, codes = Put(g.codes, index, m.shape),
         NEW border, border = Border(codes, b.period_widths, index),
         h.codes = codes, c.period_widths = Put(b.period_widths, index, border)
  PROVE  /\ border \in 0..index /\ Bordered(codes, index + 1, border)
         /\ Coded(c, h, more)
<1>1. Items(more) = Items(ms) \cup {index} /\ H(more, index) = m.shape /\ index \in Nat
  BY Appended
<1>2. ASSUME NEW i \in Items(ms) PROVE H(more, i) = H(ms, i) /\ i \in 0..(index - 1)
  <2>1. H(more, i) = H(ms, i)
    BY AppendedItem
  <2> QED BY <2>1 DEF Items
<1>3. PERIOD_CAPACITY \in Nat
  BY GeometryAssumption
<1>4. /\ DOMAIN codes = DOMAIN g.codes \cup {index} /\ codes[index] = m.shape
      /\ \A i \in DOMAIN g.codes : i # index => codes[i] = g.codes[i]
  BY ONLY codes = Put(g.codes, index, m.shape) DEF Put
<1>5. ASSUME NEW i \in 0..(index - 1)
      PROVE  /\ i \in DOMAIN g.codes /\ g.codes[i] = H(ms, i) /\ codes[i] = g.codes[i]
             /\ i \in DOMAIN b.period_widths /\ b.period_widths[i] \in 0..i
             /\ Bordered(g.codes, i + 1, b.period_widths[i])
  <2>1. i \in Items(ms) /\ i < PERIOD_CAPACITY /\ i # index
    BY <1>1, <1>3 DEF Items
  <2>2. /\ i \in DOMAIN g.codes /\ g.codes[i] = H(ms, i)
        /\ i \in DOMAIN b.period_widths /\ b.period_widths[i] \in 0..i
        /\ Bordered(g.codes, i + 1, b.period_widths[i])
    BY <2>1 DEF Coded
  <2> QED BY <1>4, <2>1, <2>2
<1>6. ASSUME NEW i \in 0..(index - 1) PROVE Bordered(codes, i + 1, b.period_widths[i])
  <2> DEFINE n == i + 1
             q == b.period_widths[i]
  <2>1. n \in Nat /\ \A j \in 0..(n - 1) : j \in 0..(index - 1)
    BY <1>1
  <2>2. Bordered(g.codes, n, q)
    BY <1>5
  <2>3. \A j \in 0..(n - 1) : codes[j] = g.codes[j]
    BY <1>5, <2>1
  <2> HIDE DEF n, q
  <2>4. Bordered(codes, n, q)
    BY <2>1, <2>2, <2>3, BorderedSame
  <2> QED BY <2>4 DEF n, q
<1>7. border \in 0..index /\ Bordered(codes, index + 1, border)
  <2> DEFINE borders == b.period_widths
  <2>1. \A i \in 0..(index - 1) : borders[i] \in 0..i /\ Bordered(codes, i + 1, borders[i])
    BY <1>5, <1>6
  <2> HIDE DEF borders
  <2>2. border = Border(codes, borders, index)
    BY DEF borders
  <2> QED BY <1>1, <2>1, <2>2, BorderIs
<1>8. /\ index \in DOMAIN c.period_widths /\ c.period_widths[index] = border
      /\ \A i \in DOMAIN b.period_widths :
           i # index => i \in DOMAIN c.period_widths /\ c.period_widths[i] = b.period_widths[i]
  BY ONLY c.period_widths = Put(b.period_widths, index, border) DEF Put
<1>9. ASSUME NEW i \in Items(more)
      PROVE  /\ i \in DOMAIN codes /\ codes[i] = H(more, i)
             /\ i \in DOMAIN c.period_widths /\ c.period_widths[i] \in 0..i
             /\ Bordered(codes, i + 1, c.period_widths[i])
  <2>1. CASE i = index
    BY <1>1, <1>4, <1>7, <1>8, <2>1
  <2>2. CASE i # index
    <3>1. i \in Items(ms) /\ H(more, i) = H(ms, i) /\ i \in 0..(index - 1)
      BY <1>1, <1>2, <2>2
    <3>2. i \in DOMAIN codes
      BY <1>4, <1>5, <3>1
    <3>3. c.period_widths[i] = b.period_widths[i] /\ i \in DOMAIN c.period_widths
      BY <1>5, <1>8, <2>2, <3>1
    <3>4. b.period_widths[i] \in 0..i /\ codes[i] = H(ms, i)
      BY <1>5, <3>1
    <3>5. Bordered(codes, i + 1, b.period_widths[i])
      BY <1>6, <3>1
    <3> QED BY <3>1, <3>2, <3>3, <3>4, <3>5
  <2> QED BY <2>1, <2>2
<1> QED BY <1>7, <1>9 DEF Coded

LEMMA RepeatingStep ==
  ASSUME NEW ms, ms \in Seq(Measures), NEW m \in Measures, NEW more, more = Append(ms, m),
         NEW b, NEW c, NEW g, NEW index, index = Len(ms), Repeating(b, ms),
         \/ /\ index + 1 < PERIOD_CAPACITY
            /\ c.shape_period = b.shape_period
         \/ /\ index + 1 = PERIOD_CAPACITY
            /\ c.shape_period = PERIOD_CAPACITY - c.period_widths[index]
            /\ Coded(c, g, more)
         \/ /\ index >= PERIOD_CAPACITY
            /\ c.shape_period = b.shape_period
            /\ m.shape = H(ms, index % b.shape_period)
  PROVE  Repeating(c, more)
<1>1. /\ Items(more) = Items(ms) \cup {index} /\ H(more, index) = m.shape /\ index \in Nat
      /\ Len(more) = index + 1 /\ PERIOD_CAPACITY \in Nat \ {0}
  <2>1. PERIOD_CAPACITY \in Nat \ {0}
    BY GeometryAssumption
  <2> QED BY <2>1, Appended
<1>2. ASSUME NEW i \in Items(ms) PROVE H(more, i) = H(ms, i) /\ i \in Nat /\ i < index
  BY AppendedItem
<1>3. ASSUME index + 1 < PERIOD_CAPACITY, c.shape_period = b.shape_period
      PROVE  Repeating(c, more)
  <2>1. Len(ms) < PERIOD_CAPACITY
    BY <1>1, <1>3
  <2>2. c.shape_period = 0
    BY <1>3, <2>1 DEF Repeating
  <2> QED BY <1>1, <1>3, <2>2 DEF Repeating
<1>4. ASSUME index + 1 = PERIOD_CAPACITY,
             c.shape_period = PERIOD_CAPACITY - c.period_widths[index],
             Coded(c, g, more)
      PROVE  Repeating(c, more)
  <2> DEFINE n == index + 1
             q == c.period_widths[index]
             codes == g.codes
  <2>1. \A i \in Items(more) : codes[i] = H(more, i) /\ i \in 0..index
    <3> TAKE i \in Items(more)
    <3>1. i \in 0..index
      BY <1>1 DEF Items
    <3>2. i < PERIOD_CAPACITY
      BY <1>1, <1>4, <3>1
    <3> QED BY <1>4, <3>1, <3>2 DEF Coded
  <2>2. q \in 0..index /\ Bordered(codes, n, q)
    <3>1. index \in Items(more) /\ index < PERIOD_CAPACITY
      BY <1>1, <1>4
    <3> QED BY <1>4, <3>1 DEF Coded
  <2> HIDE DEF q, codes
  <2>3. \A i \in 0..(n - 1) : codes[i] = codes[i % (n - q)]
    <3>1. n \in Nat /\ q \in 0..(n - 1)
      BY <1>1, <2>2
    <3> HIDE DEF n
    <3> QED BY <2>2, <3>1, BorderPeriod
  <2>4. c.shape_period = n - q /\ n - q \in 1..PERIOD_CAPACITY
    BY <1>1, <1>4, <2>2 DEF q
  <2>5. ASSUME NEW i \in Items(more) PROVE H(more, i) = H(more, i % (n - q))
    <3> DEFINE p == n - q
    <3>1. i \in 0..index /\ codes[i] = codes[i % p] /\ p \in Nat \ {0} /\ p <= n
      BY <1>1, <2>1, <2>2, <2>3
    <3> HIDE DEF p
    <3>2. i % p \in 0..(p - 1)
      BY <3>1, DivMod
    <3>3. i % p \in Items(more)
      BY <1>1, <3>1, <3>2 DEF Items
    <3> QED BY <2>1, <3>1, <3>3 DEF p
  <2> QED BY <1>1, <1>4, <2>4, <2>5 DEF Repeating
<1>5. ASSUME index >= PERIOD_CAPACITY, c.shape_period = b.shape_period,
             m.shape = H(ms, index % b.shape_period)
      PROVE  Repeating(c, more)
  <2> DEFINE p == b.shape_period
  <2>1. p \in 1..PERIOD_CAPACITY /\ \A i \in Items(ms) : H(ms, i) = H(ms, i % p)
    BY <1>1, <1>5 DEF Repeating
  <2> HIDE DEF p
  <2>2. ASSUME NEW i \in Items(more) PROVE H(more, i) = H(more, i % p)
    <3>1. i \in Nat /\ p \in Nat \ {0}
      BY <1>1, <1>2, <2>1
    <3>2. i % p \in 0..(p - 1)
      BY <3>1, DivMod
    <3>3. i % p \in Items(ms)
      BY <1>1, <1>5, <2>1, <3>2 DEF Items
    <3>4. H(more, i % p) = H(ms, i % p)
      BY <1>2, <3>3
    <3>5. CASE i = index
      BY <1>1, <1>5, <3>4, <3>5 DEF p
    <3>6. CASE i # index
      BY <1>1, <1>2, <2>1, <3>4, <3>6
    <3> QED BY <3>5, <3>6
  <2>3. c.shape_period = p
    BY <1>5 DEF p
  <2> QED BY <1>1, <1>5, <2>1, <2>2, <2>3 DEF Repeating
<1> QED BY <1>3, <1>4, <1>5

ShapeFields == {"shape_candidate", "period_widths", "shape_period"}

Patterns(b, g, ms) == Hashed(g, ms) /\ Coded(b, g, ms) /\ Repeating(b, ms)

(* What push_shape keeps of a pair s, and makes true of the next pair r.   *)
ShapePushed(s, r, ms, more) ==
  /\ r = [b |-> r.b, g |-> r.g]
  /\ Keeps(s.b, r.b, ShapeFields)
  /\ KeepsGeometry(s.g, r.g, {"codes", "widths"})
  /\ DOMAIN r.b.period_widths \subseteq
       DOMAIN s.b.period_widths \cup 0..(PERIOD_CAPACITY - 1)
  /\ Slots(s.g) => Slots(r.g)
  /\ Patterns(s.b, s.g, ms) /\ r.b.shape_candidate => Patterns(r.b, r.g, more)

LEMMA PushShapeStep ==
  ASSUME NEW ms, ms \in Seq(Measures), NEW m \in Measures, NEW more, more = Append(ms, m),
         NEW s, DOMAIN s.b = BuilderFields, DOMAIN s.g = GeometryFields,
         s = [b |-> s.b, g |-> s.g],
         NEW index, index = Len(ms),
         NEW r, r = PushShape(s, index, m.consumed, m.shape)
  PROVE  ShapePushed(s, r, ms, more)
<1> DEFINE b == s.b
           g == s.g
           width == m.consumed
           shape == m.shape
           known == shape \in DOMAIN g.widths
           widths == IF known THEN g.widths ELSE Put(g.widths, shape, width)
           codes == Put(g.codes, index, shape)
           border == Border(codes, b.period_widths, index)
           honest == known => g.widths[shape] = width
           table == Put(b.period_widths, index, border)
           period == IF index + 1 = PERIOD_CAPACITY THEN PERIOD_CAPACITY - border
                     ELSE b.shape_period
           again == shape = g.codes[index % b.shape_period]
           refused == \/ width > U16Max
                      \/ ~known /\ Cardinality(DOMAIN g.widths) >= PALETTE_CAPACITY
           c1 == [b EXCEPT !.shape_candidate = FALSE]
           c2 == [b EXCEPT !.shape_candidate = honest, !.period_widths = table,
                           !.shape_period = period]
           h2 == [g EXCEPT !.widths = widths, !.codes = codes]
           c3 == [b EXCEPT !.shape_candidate = again]
           h3 == [g EXCEPT !.widths = widths]
<1>1. /\ refused => r = [s EXCEPT !.b.shape_candidate = FALSE]
      /\ ~refused /\ index < PERIOD_CAPACITY => r = [b |-> c2, g |-> h2]
      /\ ~refused /\ ~(index < PERIOD_CAPACITY) => r = [b |-> c3, g |-> h3]
  BY DEF PushShape
<1>2. /\ DOMAIN b = BuilderFields /\ DOMAIN g = GeometryFields /\ s = [b |-> b, g |-> g]
      /\ index \in Nat /\ PERIOD_CAPACITY \in Nat \ {0}
  <2>1. PERIOD_CAPACITY \in Nat \ {0}
    BY GeometryAssumption
  <2> QED BY <2>1, Appended
<1>3. refused => r = [b |-> c1, g |-> g]
  BY <1>1, <1>2
<1>4. widths = IF m.shape \in DOMAIN g.widths THEN g.widths
               ELSE Put(g.widths, m.shape, m.consumed)
  OBVIOUS
<1>5. ASSUME Slots(g), ~refused, NEW h, h.widths = widths PROVE Slots(h)
  <2>1. CASE known
    BY <1>5, <2>1 DEF Slots
  <2>2. CASE ~known
    <3>1. DOMAIN widths = DOMAIN g.widths \cup {shape}
      BY <2>2 DEF Put
    <3>2. ~(Cardinality(DOMAIN g.widths) >= PALETTE_CAPACITY) /\ shape \notin DOMAIN g.widths
      BY <1>5, <2>2
    <3>3. IsFiniteSet(DOMAIN g.widths) /\ Cardinality(DOMAIN g.widths) \in Nat
      BY <1>5, FS_CardinalityType DEF Slots
    <3> DEFINE D == DOMAIN g.widths
    <3>4. PALETTE_CAPACITY \in Nat
      BY GeometryAssumption
    <3> HIDE DEF widths
    <3>5. IsFiniteSet(D \cup {shape}) /\ Cardinality(D \cup {shape}) = Cardinality(D) + 1
      <4> HIDE DEF D
      <4>1. IsFiniteSet(D) /\ shape \notin D
        BY <3>2, <3>3 DEF D
      <4> QED BY <4>1, FS_AddElement
    <3>6. Cardinality(D \cup {shape}) <= PALETTE_CAPACITY
      BY <3>2, <3>3, <3>4, <3>5
    <3>7. DOMAIN h.widths = D \cup {shape}
      BY <1>5, <3>1
    <3> QED BY <3>5, <3>6, <3>7 DEF Slots
  <2> QED BY <2>1, <2>2
<1>6. DOMAIN table = DOMAIN b.period_widths \cup {index}
  BY DEF Put
<1> HIDE DEF widths, codes, border, honest, table, period, again
<1>7. CASE refused
  <2>1. r.b = c1 /\ r.g = g /\ r = [b |-> r.b, g |-> r.g]
    <3> HIDE DEF c1
    <3> QED BY ONLY <1>3, <1>7
  <2>2. Keeps(b, c1, ShapeFields) /\ ~c1.shape_candidate /\ c1.period_widths = b.period_widths
    BY ONLY <1>2 DEF Keeps, BuilderFields, ShapeFields
  <2>3. KeepsGeometry(g, g, {"codes", "widths"})
    BY ONLY <1>2 DEF KeepsGeometry
  <2> HIDE DEF c1
  <2> QED BY <2>1, <2>2, <2>3 DEF ShapePushed
<1>8. CASE ~refused /\ index < PERIOD_CAPACITY
  <2>1. r.b = c2 /\ r.g = h2 /\ r = [b |-> r.b, g |-> r.g]
    <3>1. r = [b |-> c2, g |-> h2]
      BY <1>1, <1>8
    <3> HIDE DEF c2, h2
    <3> QED BY ONLY <3>1
  <2>2. /\ Keeps(b, c2, ShapeFields) /\ c2.shape_candidate = honest
        /\ c2.period_widths = table /\ c2.shape_period = period
    BY ONLY <1>2 DEF Keeps, BuilderFields, ShapeFields
  <2>3. KeepsGeometry(g, h2, {"codes", "widths"}) /\ h2.widths = widths /\ h2.codes = codes
    BY ONLY <1>2 DEF KeepsGeometry, GeometryFields
  <2> HIDE DEF c2, h2
  <2>4. DOMAIN table \subseteq DOMAIN b.period_widths \cup 0..(PERIOD_CAPACITY - 1)
    BY <1>2, <1>6, <1>8
  <2>5. Slots(g) => Slots(h2)
    BY <1>5, <1>8, <2>3
  <2>6. ASSUME Patterns(b, g, ms) PROVE Patterns(c2, h2, more)
    <3>1. Hashed(g, ms) /\ Coded(b, g, ms) /\ Repeating(b, ms)
      BY <2>6 DEF Patterns
    <3>2. Hashed(h2, more)
      BY <1>4, <2>3, <3>1, HashedStep
    <3> HIDE DEF b, g
    <3>3. /\ codes = Put(g.codes, index, m.shape)
          /\ border = Border(codes, b.period_widths, index)
          /\ table = Put(b.period_widths, index, border)
      BY DEF codes, border, table
    <3>4. border \in 0..index /\ Coded(c2, h2, more)
      BY <1>8, <2>2, <2>3, <3>1, <3>3, CodedStep
    <3>5. c2.period_widths[index] = border
      BY <2>2, <3>3 DEF Put
    <3>6. Repeating(c2, more)
      <4>1. CASE index + 1 = PERIOD_CAPACITY
        <5>1. c2.shape_period = PERIOD_CAPACITY - c2.period_widths[index]
          BY <2>2, <3>5, <4>1 DEF period
        <5> QED BY <3>1, <3>4, <4>1, <5>1, RepeatingStep
      <4>2. CASE index + 1 # PERIOD_CAPACITY
        <5>1. c2.shape_period = b.shape_period /\ index + 1 < PERIOD_CAPACITY
          BY <1>2, <1>8, <2>2, <4>2 DEF period
        <5> QED BY <3>1, <5>1, RepeatingStep
      <4> QED BY <4>1, <4>2
    <3> QED BY <3>2, <3>4, <3>6 DEF Patterns
  <2> QED BY <2>1, <2>2, <2>3, <2>4, <2>5, <2>6 DEF ShapePushed
<1>9. CASE ~refused /\ ~(index < PERIOD_CAPACITY)
  <2>1. r.b = c3 /\ r.g = h3 /\ r = [b |-> r.b, g |-> r.g]
    <3>1. r = [b |-> c3, g |-> h3]
      BY <1>1, <1>9
    <3> HIDE DEF c3, h3
    <3> QED BY ONLY <3>1
  <2>2. /\ Keeps(b, c3, ShapeFields) /\ c3.shape_candidate = again
        /\ c3.period_widths = b.period_widths /\ c3.shape_period = b.shape_period
    BY ONLY <1>2 DEF Keeps, BuilderFields, ShapeFields
  <2>3. KeepsGeometry(g, h3, {"codes", "widths"}) /\ h3.widths = widths /\ h3.codes = g.codes
    BY ONLY <1>2 DEF KeepsGeometry, GeometryFields
  <2> HIDE DEF c3, h3
  <2>4. Slots(g) => Slots(h3)
    BY <1>5, <1>9, <2>3
  <2>5. ASSUME Patterns(b, g, ms), again PROVE Patterns(c3, h3, more)
    <3>1. Hashed(g, ms) /\ Coded(b, g, ms) /\ Repeating(b, ms)
      BY <2>5 DEF Patterns
    <3>2. Hashed(h3, more)
      BY <1>4, <2>3, <3>1, HashedStep
    <3> HIDE DEF b, g
    <3>3. Coded(c3, h3, more)
      <4>1. Items(more) = Items(ms) \cup {index}
        BY Appended
      <4>2. ASSUME NEW i \in Items(ms) PROVE H(more, i) = H(ms, i)
        BY AppendedItem
      <4> QED BY <1>9, <2>2, <2>3, <3>1, <4>1, <4>2 DEF Coded
    <3>4. m.shape = H(ms, index % b.shape_period)
      <4> DEFINE p == b.shape_period
                 i == index % p
      <4>1. p \in 1..PERIOD_CAPACITY
        BY <1>2, <1>9, <3>1 DEF Repeating
      <4>2. i \in 0..(p - 1)
        <5> HIDE DEF p
        <5> QED BY <1>2, <4>1, DivMod
      <4>3. m.shape = g.codes[i]
        BY <2>5 DEF again
      <4> HIDE DEF i, p
      <4>4. i \in Items(ms) /\ i < PERIOD_CAPACITY
        BY <1>2, <1>9, <4>1, <4>2 DEF Items
      <4>5. g.codes[i] = H(ms, i)
        BY <3>1, <4>4 DEF Coded
      <4> QED BY <4>3, <4>5 DEF i, p
    <3>5. Repeating(c3, more)
      <4>1. index >= PERIOD_CAPACITY
        BY <1>2, <1>9
      <4> QED BY <2>2, <3>1, <3>4, <4>1, RepeatingStep
    <3> QED BY <3>2, <3>3, <3>5 DEF Patterns
  <2> QED BY <2>1, <2>2, <2>3, <2>4, <2>5 DEF ShapePushed
<1> QED BY <1>7, <1>8, <1>9

(* A small array ranks its items; a large one factors them, until its      *)
(* first item turns out to be a nested root and its shapes are observed    *)
(* instead.  Whichever it is has the geometry to itself.                   *)
Modes(b, g, total) ==
  /\ b.ranked_candidate => total <= RANKED_CAPACITY /\ g.kind = "ranked"
  /\ b.factor_candidate =>
       total > RANKED_CAPACITY /\ ~b.shape_attempted /\ g.kind = "factorized"
  /\ b.shape_candidate => b.shape_attempted /\ g.kind = "shape"
  /\ b.shape_attempted => b.periodic_failed /\ total > RANKED_CAPACITY
  /\ ~b.shape_attempted => b.shape_period = 0

Shaped(b, g, ms) == b.shape_candidate => Patterns(b, g, ms)

AttemptFields ==
  ShapeFields \cup {"shape_attempted", "factor_candidate", "periodic_failed", "factor_valid"}

LEMMA ResetFields ==
  ASSUME NEW kind
  PROVE  /\ DOMAIN Reset(kind) = GeometryFields /\ Reset(kind).kind = kind
         /\ Reset(kind).widths = Empty /\ DOMAIN Empty = {} /\ Slots(Reset(kind))
<1>1. /\ DOMAIN Reset(kind) = GeometryFields /\ Reset(kind).kind = kind
      /\ Reset(kind).widths = Empty /\ DOMAIN Empty = {}
  BY DEF Reset, GeometryFields, Empty
<1>2. IsFiniteSet({}) /\ Cardinality({}) = 0 /\ PALETTE_CAPACITY \in Nat
  BY FS_EmptySet, GeometryAssumption
<1> QED BY <1>1, <1>2 DEF Slots

(* What observe_shape keeps of a pair s, and makes true of the next, r.    *)
ShapeSeen(s, r, ms, more, total) ==
  /\ r = [b |-> r.b, g |-> r.g]
  /\ Keeps(s.b, r.b, AttemptFields) /\ DOMAIN r.g = GeometryFields
  /\ DOMAIN r.b.period_widths \subseteq
       DOMAIN s.b.period_widths \cup 0..(PERIOD_CAPACITY - 1)
  /\ Slots(s.g) => Slots(r.g)
  /\ Modes(r.b, r.g, total)
  /\ r.b.ranked_candidate \/ r.b.factor_candidate => r = s
  /\ ~r.b.periodic_failed =>
       ~s.b.periodic_failed /\ r.b.period_widths = s.b.period_widths
  /\ Shaped(s.b, s.g, ms) => Shaped(r.b, r.g, more)

LEMMA ShapeStep ==
  ASSUME NEW ms, ms \in Seq(Measures), NEW m \in Measures, NEW more, more = Append(ms, m),
         NEW s, DOMAIN s.b = BuilderFields, DOMAIN s.g = GeometryFields,
         s = [b |-> s.b, g |-> s.g], NEW total \in Nat, Modes(s.b, s.g, total),
         NEW index, index = Len(ms), NEW r, r = ObserveShape(s, index, m)
  PROVE  ShapeSeen(s, r, ms, more, total)
<1> DEFINE b == s.b
           g == s.g
           first == index = 0 /\ m.nested /\ b.factor_candidate
           c == [b EXCEPT !.shape_attempted = TRUE, !.shape_candidate = TRUE,
                          !.factor_candidate = FALSE, !.periodic_failed = TRUE,
                          !.factor_valid = FALSE]
           h == Reset("shape")
           entered == [b |-> c, g |-> h]
<1>1. /\ first => r = PushShape(entered, index, m.consumed, m.shape)
      /\ ~first /\ b.shape_candidate => r = PushShape(s, index, m.consumed, m.shape)
      /\ ~first /\ ~b.shape_candidate => r = s
  BY DEF ObserveShape
<1>2. index \in Nat /\ RANKED_CAPACITY \in Nat /\ PERIOD_CAPACITY \in Nat \ {0}
  <2>1. PERIOD_CAPACITY \in Nat \ {0} /\ RANKED_CAPACITY \in Nat
    BY GeometryAssumption
  <2> QED BY <2>1, Appended
<1>3. /\ b.ranked_candidate => total <= RANKED_CAPACITY /\ g.kind = "ranked"
      /\ b.factor_candidate =>
           total > RANKED_CAPACITY /\ ~b.shape_attempted /\ g.kind = "factorized"
      /\ b.shape_candidate => b.shape_attempted /\ g.kind = "shape"
      /\ b.shape_attempted => b.periodic_failed /\ total > RANKED_CAPACITY
      /\ ~b.shape_attempted => b.shape_period = 0
  BY DEF Modes
<1>4. CASE first
  <2>1. /\ Keeps(b, c, {"shape_attempted", "shape_candidate", "factor_candidate",
                        "periodic_failed", "factor_valid"})
        /\ c.shape_attempted /\ c.shape_candidate /\ ~c.factor_candidate
        /\ c.periodic_failed
    BY ONLY DOMAIN s.b = BuilderFields DEF Keeps, BuilderFields
  <2>2. /\ c.period_widths = b.period_widths /\ c.shape_period = b.shape_period
        /\ c.ranked_candidate = b.ranked_candidate /\ DOMAIN c = BuilderFields
    BY <2>1 DEF Keeps, BuilderFields
  <2>3. DOMAIN h = GeometryFields /\ h.kind = "shape" /\ DOMAIN h.widths = {} /\ Slots(h)
    BY ResetFields
  <2>4. entered.b = c /\ entered.g = h /\ r = PushShape(entered, index, m.consumed, m.shape)
    BY <1>1, <1>4
  <2>5. Patterns(c, h, ms)
    <3>1. Items(ms) = {} /\ Len(ms) = 0 /\ b.shape_period = 0
      BY <1>2, <1>3, <1>4 DEF Items
    <3>2. Hashed(h, ms)
      BY <2>3, <3>1 DEF Hashed
    <3>3. Coded(c, h, ms)
      BY <3>1 DEF Coded
    <3>4. Repeating(c, ms)
      BY <1>2, <2>2, <3>1 DEF Repeating
    <3> QED BY <3>2, <3>3, <3>4 DEF Patterns
  <2> HIDE DEF c, h
  <2>6. entered = [b |-> entered.b, g |-> entered.g]
    OBVIOUS
  <2> HIDE DEF entered
  <2>7. /\ r = [b |-> r.b, g |-> r.g]
        /\ Keeps(c, r.b, ShapeFields)
        /\ KeepsGeometry(h, r.g, {"codes", "widths"})
        /\ DOMAIN r.b.period_widths \subseteq
             DOMAIN c.period_widths \cup 0..(PERIOD_CAPACITY - 1)
        /\ Slots(h) => Slots(r.g)
        /\ Patterns(c, h, ms) /\ r.b.shape_candidate => Patterns(r.b, r.g, more)
    <3>1. ShapePushed(entered, r, ms, more)
      BY <2>2, <2>3, <2>4, <2>6, PushShapeStep
    <3> QED BY <2>4, <3>1 DEF ShapePushed
  <2>8. Keeps(s.b, r.b, AttemptFields) /\ DOMAIN r.g = GeometryFields
    BY <2>1, <2>7 DEF Keeps, KeepsGeometry, ShapeFields, AttemptFields
  <2>9. /\ r.b.shape_attempted /\ ~r.b.factor_candidate /\ r.b.periodic_failed
        /\ r.b.ranked_candidate = b.ranked_candidate /\ r.g.kind = "shape"
    BY <2>1, <2>2, <2>3, <2>7
       DEF Keeps, KeepsGeometry, ShapeFields, BuilderFields, GeometryFields
  <2>10. ~b.ranked_candidate /\ total > RANKED_CAPACITY
    BY <1>2, <1>3, <1>4
  <2>11. Modes(r.b, r.g, total)
    BY <2>9, <2>10 DEF Modes
  <2>12. Shaped(r.b, r.g, more)
    BY <2>5, <2>7 DEF Shaped
  <2> QED BY <2>2, <2>3, <2>7, <2>8, <2>9, <2>10, <2>11, <2>12 DEF ShapeSeen
<1>5. CASE ~first /\ b.shape_candidate
  <2>1. r = PushShape(s, index, m.consumed, m.shape)
    BY <1>1, <1>5
  <2>2. /\ r = [b |-> r.b, g |-> r.g]
        /\ Keeps(s.b, r.b, ShapeFields)
        /\ KeepsGeometry(s.g, r.g, {"codes", "widths"})
        /\ DOMAIN r.b.period_widths \subseteq
             DOMAIN s.b.period_widths \cup 0..(PERIOD_CAPACITY - 1)
        /\ Slots(s.g) => Slots(r.g)
        /\ Patterns(s.b, s.g, ms) /\ r.b.shape_candidate => Patterns(r.b, r.g, more)
    <3>1. ShapePushed(s, r, ms, more)
      BY <2>1, PushShapeStep
    <3> QED BY <3>1 DEF ShapePushed
  <2>3. Keeps(s.b, r.b, AttemptFields) /\ DOMAIN r.g = GeometryFields
    BY <2>2 DEF Keeps, KeepsGeometry, AttemptFields
  <2>4. /\ r.b.shape_attempted = b.shape_attempted /\ r.b.factor_candidate = b.factor_candidate
        /\ r.b.periodic_failed = b.periodic_failed
        /\ r.b.ranked_candidate = b.ranked_candidate /\ r.g.kind = g.kind
    BY <2>2 DEF Keeps, KeepsGeometry, ShapeFields, BuilderFields, GeometryFields
  <2>5. /\ b.shape_attempted /\ b.periodic_failed /\ total > RANKED_CAPACITY
        /\ ~b.ranked_candidate /\ ~b.factor_candidate /\ g.kind = "shape"
    BY <1>2, <1>3, <1>5
  <2>6. Modes(r.b, r.g, total)
    BY <2>4, <2>5 DEF Modes
  <2>7. Shaped(s.b, s.g, ms) => Shaped(r.b, r.g, more)
    BY <1>5, <2>2 DEF Shaped
  <2> QED BY <2>2, <2>3, <2>4, <2>5, <2>6, <2>7 DEF ShapeSeen
<1>6. CASE ~first /\ ~b.shape_candidate
  <2>1. r = s
    BY <1>1, <1>6
  <2>2. Keeps(s.b, s.b, AttemptFields)
    BY DEF Keeps
  <2>3. Shaped(s.b, s.g, more)
    BY <1>6 DEF Shaped
  <2> QED BY <2>1, <2>2, <2>3 DEF ShapeSeen
<1> QED BY <1>4, <1>5, <1>6

LEMMA RunningKept ==
  ASSUME NEW ms, NEW b, NEW c, Running(b, ms),
         c.run_count = b.run_count, c.common_run_len = b.common_run_len,
         c.candidates = b.candidates, c.started = b.started,
         c.current_len = b.current_len, c.current_width = b.current_width,
         ~c.periodic_failed =>
           ~b.periodic_failed /\ c.period_widths = b.period_widths /\ ~c.shape_attempted
  PROVE  Running(c, ms)
<1> DEFINE n == Len(ms) - b.current_len
<1>1. Cut(b, ms, n) /\ Whole(b, n)
  BY DEF Running
<1> HIDE DEF n
<1>2. Cut(c, ms, n) /\ Whole(c, n)
  BY <1>1, CutKept
<1> QED BY <1>2 DEF Running, n

LEMMA PatternsKept ==
  ASSUME NEW ms, NEW b, NEW c, NEW g, Patterns(b, g, ms),
         c.period_widths = b.period_widths, c.shape_period = b.shape_period
  PROVE  Patterns(c, g, ms)
BY DEF Patterns, Coded, Repeating

(* Whatever was observed, the table of runs stays inside its storage.      *)
LEMMA FinishRunFrame ==
  ASSUME NEW b, DOMAIN b = BuilderFields, b.run_count \in Nat, NEW final,
         NEW r, r = FinishRun(b, final)
  PROVE  /\ Keeps(b, r, RunFields) /\ r.run_count \in Nat
         /\ DOMAIN r.period_widths \subseteq
              DOMAIN b.period_widths \cup 0..(PERIOD_CAPACITY - 1)
         /\ ~r.periodic_failed => ~b.periodic_failed
         /\ r.candidates \subseteq b.candidates
<1> DEFINE first == b.common_run_len = 0
           uneven == /\ ~first
                     /\ IF final THEN b.current_len > b.common_run_len
                        ELSE b.current_len # b.common_run_len
           index == b.run_count
           stores == ~b.shape_attempted /\ index < PERIOD_CAPACITY
           table == IF stores THEN Put(b.period_widths, index, b.current_width)
                    ELSE b.period_widths
           failed == b.periodic_failed \/ uneven
           left == IF failed THEN b.candidates
                   ELSE {p \in b.candidates :
                           p <= index => b.current_width = table[index % p]}
           len == IF first THEN b.current_len ELSE b.common_run_len
           unevenness == b.common_runs_failed \/ uneven
           lost == failed \/ left = {}
<1>1. CASE b.current_width > U16Max
  <2>1. r = [b EXCEPT !.periodic_failed = TRUE, !.common_runs_failed = TRUE,
                      !.run_count = index + 1]
    BY <1>1 DEF FinishRun
  <2>2. /\ Keeps(b, r, RunFields) /\ r.run_count = index + 1 /\ r.periodic_failed
        /\ r.period_widths = b.period_widths /\ r.candidates = b.candidates
    BY <2>1 DEF Keeps, BuilderFields, RunFields
  <2> QED BY <2>2
<1>2. CASE ~(b.current_width > U16Max)
  <2>1. r = [b EXCEPT !.common_run_len = len, !.common_runs_failed = unevenness,
                      !.period_widths = table, !.candidates = left,
                      !.periodic_failed = lost, !.run_count = index + 1]
    BY <1>2 DEF FinishRun
  <2>2. (~lost => ~b.periodic_failed) /\ left \subseteq b.candidates
    OBVIOUS
  <2>3. DOMAIN table \subseteq DOMAIN b.period_widths \cup 0..(PERIOD_CAPACITY - 1)
    <3>1. CASE stores
      <4>1. table = Put(b.period_widths, index, b.current_width)
        BY <3>1
      <4>2. DOMAIN table = DOMAIN b.period_widths \cup {index}
        BY ONLY <4>1 DEF Put
      <4>3. index \in 0..(PERIOD_CAPACITY - 1)
        <5>1. PERIOD_CAPACITY \in Nat
          BY GeometryAssumption
        <5> QED BY <3>1, <5>1
      <4> QED BY <4>2, <4>3
    <3>2. CASE ~stores
      BY <3>2
    <3> QED BY <3>1, <3>2
  <2> HIDE DEF len, unevenness, table, left, lost
  <2>4. /\ Keeps(b, r, RunFields) /\ r.run_count = index + 1 /\ r.period_widths = table
        /\ r.periodic_failed = lost /\ r.candidates = left
    BY <2>1, ZenonT(40) DEF Keeps, BuilderFields, RunFields
  <2> QED BY <2>2, <2>3, <2>4
<1> QED BY <1>1, <1>2

(* What observe_run leaves of a builder b in the next, r.                  *)
RunFramed(b, r) ==
  /\ Keeps(b, r, RunFields \cup OpenFields) /\ r.run_count \in Nat
  /\ DOMAIN r.period_widths \subseteq
       DOMAIN b.period_widths \cup 0..(PERIOD_CAPACITY - 1)
  /\ ~r.periodic_failed => ~b.periodic_failed
  /\ r.candidates \subseteq b.candidates

LEMMA RunFrame ==
  ASSUME NEW b, DOMAIN b = BuilderFields, b.run_count \in Nat, NEW width,
         NEW r, r = ObserveRun(b, width)
  PROVE  RunFramed(b, r)
<1> DEFINE longer == Least(b.current_len + 1, U32Max)
           c == IF b.started THEN FinishRun(b, FALSE) ELSE b
           continues == b.started /\ b.current_width = width
<1>1. CASE continues
  <2>1. r = [b EXCEPT !.current_len = longer]
    BY <1>1 DEF ObserveRun
  <2> HIDE DEF longer
  <2> QED BY <2>1 DEF Keeps, BuilderFields, RunFields, OpenFields, RunFramed
<1>2. CASE ~continues
  <2>1. r = [c EXCEPT !.started = TRUE, !.current_width = width, !.current_len = 1]
    BY <1>2 DEF ObserveRun
  <2>2. /\ Keeps(b, c, RunFields) /\ c.run_count \in Nat
        /\ DOMAIN c.period_widths \subseteq
             DOMAIN b.period_widths \cup 0..(PERIOD_CAPACITY - 1)
        /\ ~c.periodic_failed => ~b.periodic_failed
        /\ c.candidates \subseteq b.candidates
    <3>1. CASE b.started
      <4> DEFINE last == FALSE
      <4>1. c = FinishRun(b, last)
        BY <3>1
      <4> HIDE DEF c, last
      <4> QED BY <4>1, FinishRunFrame
    <3>2. CASE ~b.started
      <4>1. c = b
        BY <3>2
      <4> HIDE DEF c
      <4> QED BY <4>1 DEF Keeps
    <3> QED BY <3>1, <3>2
  <2> HIDE DEF c
  <2>3. /\ Keeps(c, r, OpenFields) /\ r.run_count = c.run_count
        /\ r.period_widths = c.period_widths /\ r.periodic_failed = c.periodic_failed
        /\ r.candidates = c.candidates
    BY <2>1, <2>2 DEF Keeps, BuilderFields, OpenFields
  <2>4. Keeps(b, r, RunFields \cup OpenFields)
    BY <2>2, <2>3 DEF Keeps
  <2> QED BY <2>2, <2>3, <2>4 DEF RunFramed
<1> QED BY <1>1, <1>2
-----------------------------------------------------------------------------
(* One item: what the builder stores, and what its fields say true of the  *)
(* items as long as none of them was wider than a u32.                     *)
Stored(b, g, ms, total) ==
  /\ DOMAIN b = BuilderFields /\ DOMAIN g = GeometryFields
  /\ b.items = Len(ms) /\ b.run_count \in Nat
  /\ Palette(b) /\ Slots(g)
  /\ DOMAIN b.period_widths \subseteq 0..(PERIOD_CAPACITY - 1)
  /\ b.candidates \subseteq 1..PERIOD_CAPACITY
  /\ Modes(b, g, total)

Observed(b, g, ms) ==
  b.compressible =>
    /\ Fixed(b, ms) /\ Affine(b, ms) /\ Running(b, ms)
    /\ Ranked(b, g, ms) /\ Shaped(b, g, ms) /\ Factor(b, g, ms)

(* What the widths and the palette leave to the next observer.             *)
Fitted(b, g, r, ms, more, total) ==
  /\ r = [b |-> r.b, g |-> r.g] /\ Stored(r.b, r.g, ms, total)
  /\ r.b.compressible = b.compressible
  /\ b.compressible /\ Observed(b, g, ms) =>
       /\ Fixed(r.b, more) /\ Affine(r.b, more) /\ Running(r.b, ms)
       /\ Ranked(r.b, r.g, more) /\ Shaped(r.b, r.g, ms) /\ Factor(r.b, r.g, ms)

(* Widths and palette: the geometry stays, except the ranks.               *)
LEMMA FitStep ==
  ASSUME NEW ms, ms \in Seq(Measures), NEW m \in Measures, NEW more, more = Append(ms, m),
         NEW b, NEW g, NEW total \in Nat, Stored(b, g, ms, total),
         NEW seen, seen = [b EXCEPT !.saw_nested = @ \/ m.nested],
         NEW pair, pair = [b |-> ObserveAffine(ObserveFixed(seen, m.consumed), m.consumed),
                           g |-> g],
         NEW index, index = Len(ms), NEW start, start = StartOf(ms)[Len(ms)],
         NEW r, r = ObservePalette(pair, index, start, m.consumed)
  PROVE  Fitted(b, g, r, ms, more, total)
<1> DEFINE width == m.consumed
           fixed == ObserveFixed(seen, width)
           affine == ObserveAffine(fixed, width)
           flag == b.saw_nested \/ m.nested
<1>1. /\ DOMAIN b = BuilderFields /\ DOMAIN g = GeometryFields /\ b.items = Len(ms)
      /\ b.run_count \in Nat /\ Palette(b) /\ Slots(g)
      /\ DOMAIN b.period_widths \subseteq 0..(PERIOD_CAPACITY - 1)
      /\ b.candidates \subseteq 1..PERIOD_CAPACITY
      /\ Modes(b, g, total)
  BY DEF Stored
<1>2. Keeps(b, seen, {"saw_nested"})
  <2>1. seen = [b EXCEPT !.saw_nested = flag]
    OBVIOUS
  <2> HIDE DEF flag
  <2> QED BY ONLY <1>1, <2>1 DEF Keeps, BuilderFields
<1>3. Keeps(seen, fixed, {"fixed_width"}) /\ (Fixed(seen, ms) => Fixed(fixed, more))
  <2>1. DOMAIN seen = BuilderFields /\ fixed = ObserveFixed(seen, m.consumed)
    BY <1>2 DEF Keeps
  <2> HIDE DEF fixed
  <2> QED BY ONLY <2>1, FixedStep, ms \in Seq(Measures), m \in Measures, more = Append(ms, m)
<1>4. Keeps(fixed, affine, AffineFields) /\ (Affine(fixed, ms) => Affine(affine, more))
  <2>1. affine = ObserveAffine(fixed, m.consumed)
    OBVIOUS
  <2> HIDE DEF affine, fixed
  <2>2. DOMAIN fixed = BuilderFields /\ fixed.items = Len(ms)
    BY <1>1, <1>2, <1>3 DEF Keeps, BuilderFields
  <2> QED BY <2>1, <2>2, AffineStep
<1>5. pair.b = affine /\ pair.g = g
  OBVIOUS
<1> HIDE DEF fixed, affine
<1>6. /\ Keeps(affine, r.b, PaletteFields)
      /\ KeepsGeometry(g, r.g, {"codes", "prefix"})
      /\ r.b.ranked_candidate => affine.ranked_candidate
      /\ ~affine.ranked_candidate => r.g = g
      /\ Palette(affine) => Palette(r.b)
      /\ Ranked(affine, g, ms) => Ranked(r.b, r.g, more)
  <2>1. DOMAIN pair.b = BuilderFields /\ DOMAIN pair.g = GeometryFields
    BY <1>1, <1>4, <1>5 DEF Keeps
  <2>2. /\ Keeps(pair.b, r.b, PaletteFields)
        /\ KeepsGeometry(pair.g, r.g, {"codes", "prefix"})
        /\ r.b.ranked_candidate => pair.b.ranked_candidate
        /\ ~pair.b.ranked_candidate => r.g = pair.g
        /\ Palette(pair.b) => Palette(r.b)
        /\ Ranked(pair.b, pair.g, ms) => Ranked(r.b, r.g, more)
    <3>1. PaletteSeen(pair, r, ms, more)
      BY <2>1, PaletteStep
    <3> QED BY <3>1 DEF PaletteSeen
  <2> QED BY <1>5, <2>2
<1>7. r = [b |-> r.b, g |-> r.g]
  BY DEF ObservePalette
<1>8. Keeps(b, affine, {"saw_nested", "fixed_width"} \cup AffineFields)
  BY <1>2, <1>3, <1>4 DEF Keeps
<1>9. Keeps(b, r.b, {"saw_nested", "fixed_width"} \cup AffineFields \cup PaletteFields)
  BY <1>6, <1>8 DEF Keeps
<1>10. /\ affine.palette = b.palette /\ affine.ranked_candidate = b.ranked_candidate
  BY <1>8 DEF Keeps, BuilderFields, AffineFields
<1>11. /\ r.b.items = b.items /\ r.b.run_count = b.run_count
       /\ r.b.candidates = b.candidates
       /\ r.b.period_widths = b.period_widths /\ r.b.compressible = b.compressible
       /\ r.b.factor_candidate = b.factor_candidate
       /\ r.b.shape_attempted = b.shape_attempted
       /\ r.b.shape_candidate = b.shape_candidate
       /\ r.b.periodic_failed = b.periodic_failed /\ r.b.shape_period = b.shape_period
       /\ r.b.factor_base = b.factor_base /\ r.b.factor_valid = b.factor_valid
       /\ r.b.factor_high_component = b.factor_high_component
  BY <1>9 DEF Keeps, BuilderFields, AffineFields, PaletteFields
<1>12. r.g.kind = g.kind /\ r.g.widths = g.widths /\ DOMAIN r.g = GeometryFields
       /\ DOMAIN r.b = BuilderFields
  BY <1>6 DEF Keeps, KeepsGeometry, GeometryFields
<1>13. Stored(r.b, r.g, ms, total)
  <2>1. Palette(r.b)
    BY <1>1, <1>6, <1>10 DEF Palette
  <2>2. Slots(r.g)
    BY <1>1, <1>12 DEF Slots
  <2>3. Modes(r.b, r.g, total)
    BY <1>1, <1>6, <1>10, <1>11, <1>12, ZenonT(40) DEF Modes
  <2> QED BY <1>1, <1>11, <1>12, <2>1, <2>2, <2>3 DEF Stored
<1>14. ASSUME b.factor_candidate \/ b.shape_candidate PROVE r.g = g
  <2>1. total > RANKED_CAPACITY /\ (b.ranked_candidate => total <= RANKED_CAPACITY)
    BY <1>1, <1>14 DEF Modes
  <2>2. RANKED_CAPACITY \in Nat
    BY GeometryAssumption
  <2>3. ~b.ranked_candidate
    BY <2>1, <2>2
  <2> QED BY <1>6, <1>10, <2>3
<1>15. ASSUME b.compressible, Observed(b, g, ms)
       PROVE  /\ Fixed(r.b, more) /\ Affine(r.b, more) /\ Running(r.b, ms)
              /\ Ranked(r.b, r.g, more) /\ Shaped(r.b, r.g, ms) /\ Factor(r.b, r.g, ms)
  <2>1. /\ Fixed(b, ms) /\ Affine(b, ms) /\ Running(b, ms)
        /\ Ranked(b, g, ms) /\ Shaped(b, g, ms) /\ Factor(b, g, ms)
    BY <1>15 DEF Observed
  <2>2. Fixed(r.b, more)
    <3>1. seen.fixed_width = b.fixed_width
      BY <1>2 DEF Keeps, BuilderFields
    <3>2. Fixed(fixed, more)
      BY <1>3, <2>1, <3>1 DEF Fixed
    <3>3. r.b.fixed_width = fixed.fixed_width
      BY <1>4, <1>6 DEF Keeps, BuilderFields, AffineFields, PaletteFields
    <3> QED BY <3>2, <3>3 DEF Fixed
  <2>3. Affine(r.b, more)
    <3>1. /\ fixed.affine_base = b.affine_base /\ fixed.affine_slope = b.affine_slope
          /\ fixed.affine_failed = b.affine_failed
      BY <1>2, <1>3 DEF Keeps, BuilderFields
    <3>2. Affine(affine, more)
      BY <1>4, <2>1, <3>1 DEF Affine
    <3>3. /\ r.b.affine_base = affine.affine_base /\ r.b.affine_slope = affine.affine_slope
          /\ r.b.affine_failed = affine.affine_failed
      BY <1>6 DEF Keeps, BuilderFields, PaletteFields
    <3> QED BY <3>2, <3>3 DEF Affine
  <2>4. Running(r.b, ms)
    <3>1. /\ r.b.common_run_len = b.common_run_len /\ r.b.candidates = b.candidates
          /\ r.b.started = b.started /\ r.b.current_len = b.current_len
          /\ r.b.current_width = b.current_width
      BY <1>9 DEF Keeps, BuilderFields, AffineFields, PaletteFields
    <3>2. ~b.periodic_failed => ~b.shape_attempted
      BY <2>1 DEF Running
    <3> QED BY <1>11, <2>1, <3>1, <3>2, RunningKept
  <2>5. Ranked(r.b, r.g, more)
    BY <1>6, <1>10, <2>1 DEF Ranked
  <2>6. Shaped(r.b, r.g, ms)
    <3>1. ASSUME r.b.shape_candidate PROVE Patterns(r.b, r.g, ms)
      <4>1. Patterns(b, g, ms) /\ r.g = g
        BY <1>11, <1>14, <2>1, <3>1 DEF Shaped
      <4>2. Patterns(r.b, g, ms)
        BY <1>11, <4>1, PatternsKept
      <4> QED BY <4>1, <4>2
    <3> QED BY <3>1 DEF Shaped
  <2>7. Factor(r.b, r.g, ms)
    BY <1>11, <1>14, <2>1 DEF Factor, Factors
  <2> QED BY <2>2, <2>3, <2>4, <2>5, <2>6, <2>7
<1> QED BY <1>7, <1>11, <1>13, <1>15 DEF Fitted

LEMMA RankedKept ==
  ASSUME NEW ms, NEW b, NEW c, NEW g, Ranked(b, g, ms),
         c.ranked_candidate => b.ranked_candidate
  PROVE  Ranked(c, g, ms)
BY DEF Ranked

LEMMA FactorKept ==
  ASSUME NEW ms, NEW b, NEW c, NEW g, Factor(b, g, ms),
         c.factor_candidate = b.factor_candidate, c.factor_base = b.factor_base,
         c.factor_valid = b.factor_valid,
         c.factor_high_component = b.factor_high_component
  PROVE  Factor(c, g, ms)
BY DEF Factor, Factors

(* What the shapes and the factors leave to the last observer.             *)
Built(s, r, ms, more, total) ==
  /\ r = [b |-> r.b, g |-> r.g] /\ Stored(r.b, r.g, ms, total)
  /\ r.b.compressible = s.b.compressible
  /\ /\ Fixed(s.b, more) /\ Affine(s.b, more) /\ Running(s.b, ms)
     /\ Ranked(s.b, s.g, more) /\ Shaped(s.b, s.g, ms) /\ Factor(s.b, s.g, ms)
     => /\ Fixed(r.b, more) /\ Affine(r.b, more) /\ Running(r.b, ms)
        /\ Ranked(r.b, r.g, more) /\ Shaped(r.b, r.g, more) /\ Factor(r.b, r.g, more)

(* Shapes and factors.                                                     *)
LEMMA BuildStep ==
  ASSUME NEW ms, ms \in Seq(Measures), NEW m \in Measures, NEW more, more = Append(ms, m),
         NEW s, s = [b |-> s.b, g |-> s.g], NEW total \in Nat, Stored(s.b, s.g, ms, total),
         NEW index, index = Len(ms), NEW t, t = ObserveShape(s, index, m),
         NEW r, r = ObserveFactor(t, index, m.consumed)
  PROVE  Built(s, r, ms, more, total)
<1>1. /\ DOMAIN s.b = BuilderFields /\ DOMAIN s.g = GeometryFields /\ s.b.items = Len(ms)
      /\ s.b.run_count \in Nat /\ Palette(s.b) /\ Slots(s.g)
      /\ DOMAIN s.b.period_widths \subseteq 0..(PERIOD_CAPACITY - 1)
      /\ s.b.candidates \subseteq 1..PERIOD_CAPACITY
      /\ Modes(s.b, s.g, total)
  BY DEF Stored
<1>2. /\ t = [b |-> t.b, g |-> t.g]
      /\ Keeps(s.b, t.b, AttemptFields) /\ DOMAIN t.g = GeometryFields
      /\ DOMAIN t.b.period_widths \subseteq
           DOMAIN s.b.period_widths \cup 0..(PERIOD_CAPACITY - 1)
      /\ Slots(s.g) => Slots(t.g)
      /\ Modes(t.b, t.g, total)
      /\ t.b.ranked_candidate \/ t.b.factor_candidate => t = s
      /\ ~t.b.periodic_failed =>
           ~s.b.periodic_failed /\ t.b.period_widths = s.b.period_widths
      /\ Shaped(s.b, s.g, ms) => Shaped(t.b, t.g, more)
  <2>1. ShapeSeen(s, t, ms, more, total)
    BY <1>1, ShapeStep
  <2> QED BY <2>1 DEF ShapeSeen
<1>3. /\ Keeps(t.b, r.b, FactorFields)
      /\ KeepsGeometry(t.g, r.g, {"codes"})
      /\ r = [b |-> r.b, g |-> r.g]
      /\ ~t.b.factor_candidate => r = t
      /\ Factor(t.b, t.g, ms) => Factor(r.b, r.g, more)
  <2>1. DOMAIN t.b = BuilderFields
    BY <1>2 DEF Keeps
  <2>2. FactorSeen(t, r, ms, more)
    BY <1>2, <2>1, FactorStep
  <2> QED BY <2>2 DEF FactorSeen
<1>4. /\ t.b.items = s.b.items /\ t.b.run_count = s.b.run_count /\ t.b.palette = s.b.palette
      /\ t.b.compressible = s.b.compressible /\ t.b.fixed_width = s.b.fixed_width
      /\ t.b.affine_base = s.b.affine_base /\ t.b.affine_slope = s.b.affine_slope
      /\ t.b.affine_failed = s.b.affine_failed
      /\ t.b.common_run_len = s.b.common_run_len /\ t.b.candidates = s.b.candidates
      /\ t.b.started = s.b.started /\ t.b.current_len = s.b.current_len
      /\ t.b.current_width = s.b.current_width
      /\ t.b.ranked_candidate = s.b.ranked_candidate
  BY <1>2 DEF Keeps, BuilderFields, AttemptFields, ShapeFields
<1>5. /\ r.b.items = t.b.items /\ r.b.run_count = t.b.run_count /\ r.b.palette = t.b.palette
      /\ r.b.compressible = t.b.compressible /\ r.b.fixed_width = t.b.fixed_width
      /\ r.b.affine_base = t.b.affine_base /\ r.b.affine_slope = t.b.affine_slope
      /\ r.b.affine_failed = t.b.affine_failed
      /\ r.b.common_run_len = t.b.common_run_len /\ r.b.candidates = t.b.candidates
      /\ r.b.started = t.b.started /\ r.b.current_len = t.b.current_len
      /\ r.b.current_width = t.b.current_width
      /\ r.b.ranked_candidate = t.b.ranked_candidate
  BY <1>3 DEF Keeps, BuilderFields, FactorFields
<1>6. /\ r.b.period_widths = t.b.period_widths /\ r.b.periodic_failed = t.b.periodic_failed
      /\ r.b.shape_attempted = t.b.shape_attempted
      /\ r.b.shape_candidate = t.b.shape_candidate /\ r.b.shape_period = t.b.shape_period
      /\ r.b.factor_candidate = t.b.factor_candidate /\ DOMAIN r.b = BuilderFields
  BY <1>3 DEF Keeps, BuilderFields, FactorFields
<1>7. r.g.kind = t.g.kind /\ r.g.widths = t.g.widths /\ DOMAIN r.g = GeometryFields
  BY <1>3 DEF KeepsGeometry, GeometryFields
<1>8. Stored(r.b, r.g, ms, total)
  <2>1. Palette(r.b)
    BY <1>1, <1>4, <1>5 DEF Palette
  <2>2. Slots(r.g)
    BY <1>1, <1>2, <1>7 DEF Slots
  <2>3. Modes(r.b, r.g, total)
    BY <1>2, <1>5, <1>6, <1>7 DEF Modes
  <2>4. DOMAIN r.b.period_widths \subseteq 0..(PERIOD_CAPACITY - 1)
    BY <1>1, <1>2, <1>6
  <2> QED BY <1>1, <1>4, <1>5, <1>6, <1>7, <2>1, <2>2, <2>3, <2>4 DEF Stored
<1>9. ASSUME Fixed(s.b, more), Affine(s.b, more), Running(s.b, ms),
             Ranked(s.b, s.g, more), Shaped(s.b, s.g, ms), Factor(s.b, s.g, ms)
      PROVE  /\ Fixed(r.b, more) /\ Affine(r.b, more) /\ Running(r.b, ms)
             /\ Ranked(r.b, r.g, more) /\ Shaped(r.b, r.g, more) /\ Factor(r.b, r.g, more)
  <2>1. Fixed(r.b, more) /\ Affine(r.b, more)
    BY <1>4, <1>5, <1>9 DEF Fixed, Affine
  <2>2. Running(r.b, ms)
    <3>1. ~r.b.periodic_failed =>
            /\ ~s.b.periodic_failed /\ r.b.period_widths = s.b.period_widths
            /\ ~r.b.shape_attempted
      BY <1>2, <1>6 DEF Modes
    <3> QED BY <1>4, <1>5, <1>9, <3>1, RunningKept
  <2>3. Ranked(r.b, r.g, more)
    <3>1. CASE r.b.ranked_candidate
      <4>1. t = s /\ ~t.b.factor_candidate
        <5>1. t = s
          BY <1>2, <1>5, <3>1
        <5>2. total <= RANKED_CAPACITY /\ RANKED_CAPACITY \in Nat
          BY <1>2, <1>5, <3>1, GeometryAssumption DEF Modes
        <5>3. t.b.factor_candidate => total > RANKED_CAPACITY
          BY <1>2 DEF Modes
        <5> QED BY <5>1, <5>2, <5>3
      <4>2. r = s
        BY <1>3, <4>1
      <4> QED BY <1>9, <4>2
    <3>2. CASE ~r.b.ranked_candidate
      BY <3>2 DEF Ranked
    <3> QED BY <3>1, <3>2
  <2>4. Shaped(r.b, r.g, more)
    <3>1. CASE r.b.shape_candidate
      <4>1. ~t.b.factor_candidate
        BY <1>2, <1>6, <3>1 DEF Modes
      <4>2. r = t
        BY <1>3, <4>1
      <4> QED BY <1>2, <1>9, <4>2
    <3>2. CASE ~r.b.shape_candidate
      BY <3>2 DEF Shaped
    <3> QED BY <3>1, <3>2
  <2>5. Factor(r.b, r.g, more)
    <3>1. CASE r.b.factor_candidate
      <4>1. t = s
        BY <1>2, <1>6, <3>1
      <4> QED BY <1>3, <1>9, <4>1
    <3>2. CASE ~r.b.factor_candidate
      BY <3>2 DEF Factor
    <3> QED BY <3>1, <3>2
  <2> QED BY <2>1, <2>2, <2>3, <2>4, <2>5
<1> QED BY <1>3, <1>4, <1>5, <1>8, <1>9 DEF Built

(* What push keeps of a builder b and a geometry g, and makes true next.   *)
ItemPushed(b, g, r, ms, more, total) ==
  /\ Stored(r.b, r.g, more, total)
  /\ Observed(b, g, ms) /\ Len(more) <= U32Max => Observed(r.b, r.g, more)

LEMMA PushStep ==
  ASSUME NEW ms, ms \in Seq(Measures), NEW m \in Measures, NEW more, more = Append(ms, m),
         NEW b, NEW g, NEW total \in Nat, Stored(b, g, ms, total),
         NEW index, index = Len(ms), NEW start, start = StartOf(ms)[Len(ms)],
         NEW r, r = Push([b |-> b, g |-> g], index, start, m)
  PROVE  ItemPushed(b, g, r, ms, more, total)
<1> SUFFICES /\ Stored(r.b, r.g, more, total)
             /\ Observed(b, g, ms) /\ Len(more) <= U32Max => Observed(r.b, r.g, more)
  BY DEF ItemPushed
<1> DEFINE width == m.consumed
           seen == [b EXCEPT !.saw_nested = @ \/ m.nested]
           pair == [b |-> ObserveAffine(ObserveFixed(seen, width), width), g |-> g]
           fit == ObservePalette(pair, index, start, width)
           shaped == ObserveShape(fit, index, m)
           built == ObserveFactor(shaped, index, width)
           run == ObserveRun(built.b, width)
           wide == [seen EXCEPT !.compressible = FALSE, !.items = @ + 1]
           last == [run EXCEPT !.items = @ + 1]
<1>1. /\ width > U32Max => r = [b |-> wide, g |-> g]
      /\ ~(width > U32Max) => r = [built EXCEPT !.b = last]
  BY DEF Push
<1>2. /\ DOMAIN b = BuilderFields /\ DOMAIN g = GeometryFields /\ b.items = Len(ms)
      /\ b.run_count \in Nat /\ Palette(b) /\ Slots(g)
      /\ DOMAIN b.period_widths \subseteq 0..(PERIOD_CAPACITY - 1)
      /\ b.candidates \subseteq 1..PERIOD_CAPACITY
      /\ Modes(b, g, total)
  BY DEF Stored
<1>3. Len(more) = Len(ms) + 1 /\ Len(ms) \in Nat
  BY Appended
<1>4. CASE width > U32Max
  <2> DEFINE flag == b.saw_nested \/ m.nested
             n == b.items + 1
  <2>1. seen = [b EXCEPT !.saw_nested = flag]
    OBVIOUS
  <2>2. Keeps(b, seen, {"saw_nested"}) /\ seen.items = b.items
    <3> HIDE DEF flag, seen
    <3> QED BY ONLY <1>2, <2>1 DEF Keeps, BuilderFields
  <2> HIDE DEF seen, flag
  <2>3. wide = [seen EXCEPT !.compressible = FALSE, !.items = n]
    BY <2>2
  <2> HIDE DEF wide, n
  <2>4. Keeps(seen, wide, {"compressible", "items"}) /\ ~wide.compressible /\ wide.items = n
    BY ONLY <2>2, <2>3 DEF Keeps, BuilderFields
  <2>5. /\ Keeps(b, wide, {"saw_nested", "compressible", "items"})
        /\ r.b = wide /\ r.g = g
    BY <1>1, <1>4, <2>2, <2>4 DEF Keeps
  <2>6. /\ r.b.run_count = b.run_count /\ r.b.palette = b.palette
        /\ r.b.period_widths = b.period_widths /\ r.b.periodic_failed = b.periodic_failed
        /\ r.b.ranked_candidate = b.ranked_candidate
        /\ r.b.factor_candidate = b.factor_candidate
        /\ r.b.shape_candidate = b.shape_candidate
        /\ r.b.shape_attempted = b.shape_attempted /\ r.b.shape_period = b.shape_period
        /\ DOMAIN r.b = BuilderFields /\ r.b.candidates = b.candidates
    BY <2>5 DEF Keeps, BuilderFields
  <2>7. Palette(r.b) /\ Modes(r.b, r.g, total)
    BY <1>2, <2>5, <2>6 DEF Palette, Modes
  <2>8. Stored(r.b, r.g, more, total)
    BY <1>2, <1>3, <2>4, <2>5, <2>6, <2>7 DEF Stored, n
  <2>9. Observed(r.b, r.g, more)
    BY <2>4, <2>5 DEF Observed
  <2> QED BY <2>8, <2>9
<1>5. CASE ~(width > U32Max)
  <2> HIDE DEF last
  <2>1. /\ fit = [b |-> fit.b, g |-> fit.g] /\ Stored(fit.b, fit.g, ms, total)
        /\ fit.b.compressible = b.compressible
        /\ b.compressible /\ Observed(b, g, ms) =>
              /\ Fixed(fit.b, more) /\ Affine(fit.b, more) /\ Running(fit.b, ms)
              /\ Ranked(fit.b, fit.g, more) /\ Shaped(fit.b, fit.g, ms)
              /\ Factor(fit.b, fit.g, ms)
    <3>1. /\ seen = [b EXCEPT !.saw_nested = @ \/ m.nested]
          /\ pair = [b |-> ObserveAffine(ObserveFixed(seen, m.consumed), m.consumed),
                     g |-> g]
          /\ fit = ObservePalette(pair, index, start, m.consumed)
      OBVIOUS
    <3> HIDE DEF fit, pair, seen
    <3>2. Fitted(b, g, fit, ms, more, total)
      BY <3>1, FitStep
    <3> QED BY <3>2 DEF Fitted
  <2>2. /\ shaped = ObserveShape(fit, index, m)
        /\ built = ObserveFactor(shaped, index, m.consumed)
        /\ run = ObserveRun(built.b, m.consumed)
    OBVIOUS
  <2> HIDE DEF fit, shaped, built, run
  <2>3. /\ built = [b |-> built.b, g |-> built.g] /\ Stored(built.b, built.g, ms, total)
        /\ built.b.compressible = fit.b.compressible
        /\ /\ Fixed(fit.b, more) /\ Affine(fit.b, more) /\ Running(fit.b, ms)
           /\ Ranked(fit.b, fit.g, more) /\ Shaped(fit.b, fit.g, ms) /\ Factor(fit.b, fit.g, ms)
           => /\ Fixed(built.b, more) /\ Affine(built.b, more) /\ Running(built.b, ms)
              /\ Ranked(built.b, built.g, more) /\ Shaped(built.b, built.g, more)
              /\ Factor(built.b, built.g, more)
    <3>1. Built(fit, built, ms, more, total)
      BY <2>1, <2>2, BuildStep
    <3> QED BY <3>1 DEF Built
  <2>4. /\ DOMAIN built.b = BuilderFields /\ DOMAIN built.g = GeometryFields
        /\ built.b.items = Len(ms) /\ built.b.run_count \in Nat
        /\ Palette(built.b) /\ Slots(built.g)
        /\ DOMAIN built.b.period_widths \subseteq 0..(PERIOD_CAPACITY - 1)
        /\ built.b.candidates \subseteq 1..PERIOD_CAPACITY
        /\ Modes(built.b, built.g, total)
    BY <2>3 DEF Stored
  <2>5. /\ Keeps(built.b, run, RunFields \cup OpenFields) /\ run.run_count \in Nat
        /\ DOMAIN run.period_widths \subseteq
             DOMAIN built.b.period_widths \cup 0..(PERIOD_CAPACITY - 1)
        /\ ~run.periodic_failed => ~built.b.periodic_failed
        /\ run.candidates \subseteq built.b.candidates
    <3>1. RunFramed(built.b, run)
      BY <2>2, <2>4, RunFrame
    <3> QED BY <3>1 DEF RunFramed
  <2>6. Keeps(run, last, {"items"}) /\ last.items = Len(ms) + 1
    <3> DEFINE n == run.items + 1
    <3>1. run.items = Len(ms) /\ DOMAIN run = BuilderFields
      BY <2>4, <2>5 DEF Keeps, BuilderFields, RunFields, OpenFields
    <3>2. last = [run EXCEPT !.items = n]
      BY DEF last
    <3> HIDE DEF n
    <3>3. Keeps(run, last, {"items"}) /\ last.items = n
      BY ONLY <3>1, <3>2 DEF Keeps, BuilderFields
    <3> QED BY <3>1, <3>3 DEF n
  <2>7. r.b = last /\ r.g = built.g
    <3>1. r = [built EXCEPT !.b = last]
      BY <1>1, <1>5
    <3> QED BY ONLY <2>3, <3>1
  <2>8. /\ last.palette = built.b.palette
        /\ last.ranked_candidate = built.b.ranked_candidate
        /\ last.factor_candidate = built.b.factor_candidate
        /\ last.shape_candidate = built.b.shape_candidate
        /\ last.shape_attempted = built.b.shape_attempted
        /\ last.shape_period = built.b.shape_period
        /\ last.compressible = built.b.compressible
        /\ last.fixed_width = built.b.fixed_width
        /\ last.affine_base = built.b.affine_base /\ last.affine_slope = built.b.affine_slope
        /\ last.affine_failed = built.b.affine_failed
        /\ last.factor_base = built.b.factor_base /\ last.factor_valid = built.b.factor_valid
        /\ last.factor_high_component = built.b.factor_high_component
    BY <2>5, <2>6 DEF Keeps, BuilderFields, RunFields, OpenFields
  <2>9. /\ last.period_widths = run.period_widths /\ last.run_count = run.run_count
        /\ last.periodic_failed = run.periodic_failed
        /\ last.common_run_len = run.common_run_len /\ last.candidates = run.candidates
        /\ last.started = run.started /\ last.current_len = run.current_len
        /\ last.current_width = run.current_width
        /\ last.shape_attempted = run.shape_attempted
        /\ DOMAIN last = BuilderFields
    BY <2>6 DEF Keeps, BuilderFields
  <2>10. Stored(last, built.g, more, total)
    <3>1. Palette(last)
      BY <2>4, <2>8 DEF Palette
    <3>2. Modes(last, built.g, total)
      BY <2>4, <2>5, <2>8, <2>9 DEF Modes
    <3>3. DOMAIN last.period_widths \subseteq 0..(PERIOD_CAPACITY - 1)
      BY <2>4, <2>5, <2>9
    <3>4. last.candidates \subseteq 1..PERIOD_CAPACITY
      BY <2>4, <2>5, <2>9
    <3> QED BY <1>3, <2>4, <2>5, <2>6, <2>9, <3>1, <3>2, <3>3, <3>4 DEF Stored
  <2>11. ASSUME last.compressible, Observed(b, g, ms), Len(more) <= U32Max
         PROVE  /\ Fixed(last, more) /\ Affine(last, more) /\ Running(last, more)
                /\ Ranked(last, built.g, more) /\ Shaped(last, built.g, more)
                /\ Factor(last, built.g, more)
    <3>1. /\ Fixed(built.b, more) /\ Affine(built.b, more) /\ Running(built.b, ms)
          /\ Ranked(built.b, built.g, more) /\ Shaped(built.b, built.g, more)
          /\ Factor(built.b, built.g, more)
      BY <2>1, <2>3, <2>8, <2>11
    <3>2. Fixed(last, more) /\ Affine(last, more)
      BY <2>8, <3>1 DEF Fixed, Affine
    <3>3. Running(run, more) /\ (built.b.shape_attempted => run.period_widths = built.b.period_widths)
      <4>1. RunSeen(built.b, run, more)
        BY <2>2, <2>4, <2>11, <3>1, RunStep
      <4> QED BY <4>1 DEF RunSeen
    <3>4. Running(last, more)
      <4>1. ~last.periodic_failed =>
              ~run.periodic_failed /\ last.period_widths = run.period_widths
              /\ ~last.shape_attempted
        BY <2>9, <3>3 DEF Running
      <4> QED BY <2>9, <3>3, <4>1, RunningKept
    <3>5. Ranked(last, built.g, more)
      BY <2>8, <3>1, RankedKept
    <3>6. Factor(last, built.g, more)
      BY <2>8, <3>1, FactorKept
    <3>7. Shaped(last, built.g, more)
      <4>1. ASSUME last.shape_candidate PROVE Patterns(last, built.g, more)
        <5>1. Patterns(built.b, built.g, more) /\ built.b.shape_attempted
          BY <2>4, <2>8, <3>1, <4>1 DEF Shaped, Modes
        <5>2. last.period_widths = built.b.period_widths
          BY <2>9, <3>3, <5>1
        <5> QED BY <2>8, <5>1, <5>2, PatternsKept
      <4> QED BY <4>1 DEF Shaped
    <3> QED BY <3>2, <3>4, <3>5, <3>6, <3>7
  <2>12. Observed(b, g, ms) /\ Len(more) <= U32Max => Observed(last, built.g, more)
    BY <2>11 DEF Observed
  <2> QED BY <2>7, <2>10, <2>12
<1> QED BY <1>4, <1>5

(* The same, for the item that follows ms.                                 *)
PushedOn(b, g, ms, m) == Push([b |-> b, g |-> g], Len(ms), StartOf(ms)[Len(ms)], m)

LEMMA ItemPushes ==
  ASSUME NEW ms, ms \in Seq(Measures), NEW m \in Measures, NEW b, NEW g, NEW total \in Nat,
         Stored(b, g, ms, total)
  PROVE  ItemPushed(b, g, PushedOn(b, g, ms, m), ms, Append(ms, m), total)
<1> DEFINE r == PushedOn(b, g, ms, m)
           more == Append(ms, m)
           index == Len(ms)
           start == StartOf(ms)[Len(ms)]
<1>1. r = Push([b |-> b, g |-> g], index, start, m)
  BY DEF PushedOn
<1>2. more = Append(ms, m) /\ index = Len(ms) /\ start = StartOf(ms)[Len(ms)]
  OBVIOUS
<1> HIDE DEF r, more, index, start
<1>3. ItemPushed(b, g, r, ms, more, total)
  BY <1>1, <1>2, PushStep
<1> QED BY <1>3 DEF r, more
-----------------------------------------------------------------------------
(* The choice.  A geometry is Exact when it answers every lookup as a      *)
(* replay would, and Bounded when its table of widths fits.                *)
Exact(g) == \A n \in Items(items) : Span(g, n) = SpanOf(items, n)

Bounded(g) ==
  /\ IsFiniteSet(DOMAIN g.widths)
  /\ \/ Cardinality(DOMAIN g.widths) <= PALETTE_CAPACITY
     \/ Cardinality(DOMAIN g.widths) <= PERIOD_CAPACITY

LEMMA MinIs ==
  ASSUME NEW S, S \subseteq Nat, S # {}
  PROVE  Min(S) \in S /\ \A x \in S : Min(S) <= x
<1>1. PICK x \in S : \A y \in S : x <= y
  BY LeastElement
<1> QED BY <1>1 DEF Min

LEMMA FirstOption ==
  ASSUME NEW options, NEW n \in Nat, DOMAIN options = 1..n, n > 0, options[n] # {},
         NEW first, first = Min({k \in DOMAIN options : options[k] # {}})
  PROVE  /\ first \in 1..n /\ options[first] # {}
         /\ \A j \in 1..n : j < first => options[j] = {}
<1> DEFINE S == {k \in DOMAIN options : options[k] # {}}
<1>1. S \subseteq Nat /\ n \in S
  OBVIOUS
<1>2. first = Min(S)
  OBVIOUS
<1>3. first \in S /\ \A x \in S : first <= x
  <2> HIDE DEF S
  <2> QED BY <1>1, <1>2, MinIs
<1>4. first \in 1..n /\ options[first] # {}
  BY <1>3
<1>5. ASSUME NEW j \in 1..n, j < first PROVE options[j] = {}
  <2>1. SUFFICES ASSUME options[j] # {} PROVE FALSE
    OBVIOUS
  <2>2. j \in S
    BY <2>1
  <2>3. first <= j
    BY <1>3, <2>2
  <2> HIDE DEF S
  <2> QED BY <1>4, <1>5, <2>3
<1> QED BY <1>4, <1>5

LEMMA ItemsAre ==
  /\ Starts = StartOf(items) /\ Heads = HeadsOf(items) /\ Total = Len(items)
  /\ \A i : Width(i) = W(items, i) /\ Shape(i) = H(items, i)
BY DEF Starts, StartOf, Heads, HeadsOf, Total, Width, Shape, W, H

LEMMA EmptyBounded ==
  ASSUME NEW g, g.widths = Empty
  PROVE  Bounded(g)
<1>1. DOMAIN g.widths = {}
  BY DEF Empty
<1>2. IsFiniteSet({}) /\ Cardinality({}) = 0 /\ PALETTE_CAPACITY \in Nat
  BY FS_EmptySet, GeometryAssumption
<1> QED BY <1>1, <1>2 DEF Bounded

LEMMA ReplayExact ==
  ASSUME NEW g, g.kind = "replay"
  PROVE  Exact(g)
<1>1. ASSUME NEW n \in Items(items) PROVE Span(g, n) = SpanOf(items, n)
  <2>1. Span(g, n) = ReplaySpan(n)
    BY DEF Span
  <2> QED BY <2>1, ItemsAre DEF ReplaySpan, SpanOf
<1> QED BY <1>1 DEF Exact

LEMMA NoItems ==
  ASSUME NEW g, Len(items) = 0
  PROVE  Exact(g)
BY DEF Exact, Items

LEMMA FixedChoice ==
  ASSUME items \in Seq(Measures), NEW b, Fixed(b, items), b.fixed_width \in 0..U32Max,
         NEW g, g = [Reset("fixed") EXCEPT !.base = b.fixed_width]
  PROVE  Exact(g)
<1> DEFINE w == b.fixed_width
<1>1. g.kind = "fixed" /\ g.base = w
  BY DEF Reset
<1>2. w \in Nat /\ w \in Int /\ \A i \in Items(items) : W(items, i) = w
  <2>1. w \in Nat
    BY GeometryAssumption, SMTT(30)
  <2> QED BY <2>1 DEF Fixed
<1> HIDE DEF w
<1>3. ASSUME NEW n \in Items(items) PROVE Span(g, n) = SpanOf(items, n)
  <2>1. Span(g, n) = [start |-> n * g.base, width |-> g.base]
    BY <1>1 DEF Span
  <2>2. [start |-> n * w, width |-> w] = SpanOf(items, n)
    BY <1>2, FixedExact
  <2> QED BY <1>1, <2>1, <2>2
<1> QED BY <1>3 DEF Exact

LEMMA FormulaChoice ==
  ASSUME items \in Seq(Measures), NEW b, Affine(b, items), ~b.affine_failed,
         NEW g, g = [Reset("formula") EXCEPT !.base = b.affine_base, !.slope = b.affine_slope]
  PROVE  Exact(g)
<1>1. g.kind = "formula" /\ g.base = b.affine_base /\ g.slope = b.affine_slope
  BY DEF Reset
<1>2. /\ g.base \in Int /\ g.slope \in Int
      /\ \A i \in Items(items) : W(items, i) = g.base + g.slope * i
  BY <1>1 DEF Affine
<1>3. ASSUME NEW n \in Items(items) PROVE Span(g, n) = SpanOf(items, n)
  <2>1. Span(g, n) = FormulaSpan(g, n)
    BY <1>1 DEF Span
  <2> QED BY <1>2, <2>1, FormulaExact
<1> QED BY <1>3 DEF Exact

LEMMA RankedChoice ==
  ASSUME items \in Seq(Measures), NEW b, NEW g, Ranked(b, g, items), b.ranked_candidate,
         g.kind = "ranked"
  PROVE  Exact(g)
<1>1. ASSUME NEW n \in Items(items) PROVE Span(g, n) = SpanOf(items, n)
  <2>1. Span(g, n) = RankedSpan(g, n)
    BY DEF Span
  <2>2. RankedSpan(g, n) = SpanOf(items, n)
    BY RankedExact DEF Ranked
  <2> QED BY <2>1, <2>2
<1> QED BY <1>1 DEF Exact

LEMMA FactorChoice ==
  ASSUME items \in Seq(Measures), NEW f, Factored(f, items, Len(items)), f.valid,
         NEW g, g.kind = "factorized", g.base = f.base, g.codes = f.components
  PROVE  Exact(g)
<1>1. ASSUME NEW n \in Items(items) PROVE Span(g, n) = SpanOf(items, n)
  <2>1. Span(g, n) = FactorSpan(g, n)
    BY DEF Span
  <2>2. FactorSpan(g, n) = SpanOf(items, n)
    BY FactorExact
  <2> QED BY <2>1, <2>2
<1> QED BY <1>1 DEF Exact

LEMMA ShapeChoice ==
  ASSUME items \in Seq(Measures), HashesSeparateWidths,
         NEW b, NEW h, Patterns(b, h, items), b.shape_period # 0, h.kind = "shape",
         DOMAIN h = GeometryFields,
         NEW g, g = [h EXCEPT !.period = b.shape_period,
                              !.cycle = Added([i \in 0..(b.shape_period - 1) |->
                                                 h.widths[h.codes[i]]],
                                              0, b.shape_period)]
  PROVE  Exact(g)
<1> DEFINE p == b.shape_period
           f == [i \in 0..(p - 1) |-> h.widths[h.codes[i]]]
           cycle == Added(f, 0, p)
<1>1. g = [h EXCEPT !.period = p, !.cycle = cycle]
  OBVIOUS
<1> HIDE DEF cycle
<1>2. /\ g.kind = "shape" /\ g.period = p /\ g.cycle = cycle
      /\ g.codes = h.codes /\ g.widths = h.widths
  BY <1>1 DEF GeometryFields
<1>3. /\ Len(items) \in Nat /\ PERIOD_CAPACITY \in Nat
      /\ \A i \in Items(items) : W(items, i) \in Nat
  <2>1. PERIOD_CAPACITY \in Nat
    BY GeometryAssumption
  <2> QED BY <2>1, MeasureOf DEF Items
<1>4. /\ Len(items) >= PERIOD_CAPACITY /\ p \in 1..PERIOD_CAPACITY
      /\ \A i \in Items(items) : H(items, i) = H(items, i % p)
  BY <1>3 DEF Patterns, Repeating
<1>5. \A i \in 0..(p - 1) : i \in Items(items) /\ i < PERIOD_CAPACITY
  BY <1>3, <1>4 DEF Items
<1> HIDE DEF p
<1>6. ASSUME NEW i \in Items(items)
      PROVE  H(items, i) \in DOMAIN h.widths /\ h.widths[H(items, i)] = W(items, i)
  <2>1. H(items, i) \in DOMAIN h.widths
    BY DEF Patterns, Hashed
  <2>2. PICK j \in Items(items) :
          H(items, j) = H(items, i) /\ h.widths[H(items, i)] = W(items, j)
    BY <2>1 DEF Patterns, Hashed
  <2>3. i \in 0..(Total - 1) /\ j \in 0..(Total - 1)
    BY ItemsAre DEF Items
  <2>4. Width(i) = Width(j)
    BY <2>2, <2>3, ItemsAre DEF HashesSeparateWidths
  <2> QED BY <2>1, <2>2, <2>4, ItemsAre
<1>7. ASSUME NEW i \in 0..(p - 1)
      PROVE  /\ i \in DOMAIN h.codes /\ h.codes[i] = H(items, i)
             /\ h.codes[i] \in DOMAIN h.widths /\ h.widths[h.codes[i]] = W(items, i)
             /\ h.widths[h.codes[i]] \in Int
  <2>1. i \in Items(items) /\ i < PERIOD_CAPACITY
    BY <1>5
  <2>2. i \in DOMAIN h.codes /\ h.codes[i] = H(items, i)
    BY <2>1 DEF Patterns, Coded
  <2> QED BY <1>3, <1>6, <2>1, <2>2
<1>8. ASSUME NEW i \in Items(items) PROVE W(items, i) = h.widths[h.codes[i % p]]
  <2>1. i \in Nat /\ p \in Nat \ {0}
    BY <1>3, <1>4 DEF Items
  <2>2. i % p \in 0..(p - 1)
    BY <2>1, DivMod
  <2>3. h.codes[i % p] = H(items, i % p)
    BY <1>7, <2>2
  <2>4. h.codes[i % p] = H(items, i)
    BY <1>4, <2>3
  <2> QED BY <1>6, <2>4
<1>9. \A i \in 0..(p - 1) : f[i] = h.widths[h.codes[i]]
  OBVIOUS
<1> HIDE DEF f
<1>10. ASSUME NEW n \in Items(items) PROVE Span(g, n) = SpanOf(items, n)
  <2>1. Span(g, n) = ShapeSpan(g, n)
    BY <1>2 DEF Span
  <2>2. /\ g.period \in Nat \ {0} /\ g.cycle = Added(f, 0, g.period)
        /\ \A i \in 0..(g.period - 1) : f[i] = g.widths[g.codes[i]]
        /\ \A i \in Items(items) : W(items, i) = g.widths[g.codes[i % g.period]]
    BY <1>2, <1>4, <1>8, <1>9 DEF cycle
  <2>3. \A i \in 0..(g.period - 1) : /\ i \in DOMAIN g.codes
                                     /\ g.codes[i] \in DOMAIN g.widths
                                     /\ g.widths[g.codes[i]] \in Int
    BY <1>2, <1>7
  <2>4. ShapeSpan(g, n) = SpanOf(items, n)
    BY ONLY <2>2, <2>3, items \in Seq(Measures), n \in Items(items), ShapeExact
  <2> QED BY <2>1, <2>4
<1> QED BY <1>10 DEF Exact

(* The shapes of a finished array: no assumption on the hashes here, the   *)
(* pass compares the widths.                                               *)
LEMMA RecursiveShapeChoice ==
  ASSUME items \in Seq(Measures), NEW g, g \in BuildRecursiveShape
  PROVE  Exact(g) /\ Bounded(g)
<1> DEFINE all     == 0..(Total - 1)
           used    == {Shape(i) : i \in all}
           firstOf == [h \in used |-> Width(Min({i \in all : Shape(i) = h}))]
           periods == {p \in 1..PERIOD_CAPACITY :
                         \A i \in p..(Total - 1) : Shape(i) = Shape(i % p)}
           usable  == {p \in periods : p <= Total}
           p       == Min(usable)
           f       == [i \in 0..(p - 1) |-> Shape(i)]
           shape   == [Reset("shape") EXCEPT !.period = p, !.codes = f,
                                             !.widths = firstOf, !.cycle = Starts[p]]
           holds   == /\ \A i \in all : Width(i) <= U16Max /\ Width(i) = firstOf[Shape(i)]
                      /\ Cardinality(used) <= PALETTE_CAPACITY
                      /\ usable # {}
<1>1. BuildRecursiveShape = IF holds THEN {shape} ELSE {}
  BY DEF BuildRecursiveShape
<1>2. holds /\ g = shape
  <2> HIDE DEF holds, shape
  <2> QED BY <1>1
<1>3. /\ \A i \in all : Width(i) = firstOf[Shape(i)]
      /\ Cardinality(used) <= PALETTE_CAPACITY /\ usable # {}
  BY <1>2
<1>4. /\ DOMAIN firstOf = used /\ \A i \in all : Shape(i) \in used
  OBVIOUS
<1>16. IsFiniteSet(used)
  <2> DEFINE low == 0
             high == Total - 1
  <2>1. low \in Int /\ high \in Int
    BY MeasureOf, ItemsAre
  <2> HIDE DEF low, high
  <2>2. IsFiniteSet(low..high)
    BY <2>1, FS_Interval
  <2> DEFINE f0 == [i \in low..high |-> Shape(i)]
  <2>3. f0 \in Surjection(low..high, used)
    BY DEF Surjection, low, high
  <2> HIDE DEF f0
  <2> QED BY ONLY <2>2, <2>3, FS_Surjection
<1>5. usable \subseteq Nat /\ \A q \in usable : q \in 1..PERIOD_CAPACITY /\ q <= Total
                                /\ \A i \in q..(Total - 1) : Shape(i) = Shape(i % q)
  BY GeometryAssumption, SMTT(30)
<1> HIDE DEF firstOf, used, usable
<1>6. p \in usable
  BY <1>3, <1>5, MinIs
<1>7. /\ p \in Nat \ {0} /\ p <= Len(items) /\ Len(items) \in Nat
      /\ \A i \in p..(Len(items) - 1) : H(items, i) = H(items, i % p)
  <2> HIDE DEF p
  <2>1. p \in 1..PERIOD_CAPACITY /\ p <= Total
    BY <1>5, <1>6
  <2>2. Len(items) \in Nat /\ PERIOD_CAPACITY \in Nat
    BY MeasureOf, GeometryAssumption
  <2>3. \A i \in p..(Total - 1) : H(items, i) = H(items, i % p)
    BY <1>5, <1>6, ItemsAre
  <2> QED BY <2>1, <2>2, <2>3, ItemsAre
<1>8. /\ \A i \in 0..(p - 1) : f[i] = H(items, i)
      /\ DOMAIN f = 0..(p - 1)
  BY ItemsAre
<1> HIDE DEF p, f
<1>9. /\ g.kind = "shape" /\ g.period = p /\ g.codes = f /\ g.widths = firstOf
      /\ g.cycle = Starts[p]
  BY <1>2 DEF Reset
<1> HIDE DEF shape, holds
<1>10. \A i \in Items(items) : /\ i \in Nat /\ i < Len(items) /\ i \in all
                               /\ W(items, i) = firstOf[H(items, i)]
                               /\ H(items, i) \in used /\ W(items, i) \in Int
  BY <1>3, <1>4, <1>7, ItemsAre, MeasureOf DEF Items
<1>11. \A i \in 0..(p - 1) : i \in Items(items)
  BY <1>7 DEF Items
<1>12. ASSUME NEW i \in Items(items) PROVE H(items, i) = f[i % p]
  <2>1. i \in Nat /\ p \in Nat \ {0} /\ i < Len(items)
    BY <1>7, <1>10
  <2>2. i % p \in 0..(p - 1)
    BY <2>1, DivMod
  <2>3. CASE i < p
    <3>1. i \in 0..(p - 1) /\ i = 0 * p + i
      BY <2>1, <2>3
    <3>2. i % p = i
      BY <2>1, <3>1, DivUnique
    <3> QED BY <1>8, <3>1, <3>2
  <2>4. CASE ~(i < p)
    <3>1. i \in p..(Len(items) - 1)
      BY <1>7, <2>1, <2>4
    <3> QED BY <1>7, <1>8, <2>2, <3>1
  <2> QED BY <2>3, <2>4
<1> DEFINE v == [i \in 0..(p - 1) |-> W(items, i)]
<1>13. \A i \in 0..(p - 1) : v[i] = W(items, i)
  OBVIOUS
<1> HIDE DEF v, all
<1>14. Starts[p] = Added(v, 0, p)
  <2>1. Summable(v, 0, p)
    BY <1>10, <1>11, <1>13 DEF Summable
  <2>2. p \in 0..p /\ 0 <= p /\ 0 \in Nat /\ p \in Nat
    BY <1>7
  <2>3. Added(v, 0, p) \in Int
    BY <2>1, <2>2, AddedNext
  <2>4. 0 \in 0..Len(items) /\ p \in 0..Len(items)
    BY <1>7
  <2>5. StartOf(items)[p] = StartOf(items)[0] + Added(v, 0, p)
    BY <1>13, <2>4, StretchAdds
  <2>6. StartOf(items)[0] = 0
    BY StartSteps
  <2> QED BY <2>3, <2>5, <2>6, ItemsAre
<1>15. ASSUME NEW n \in Items(items) PROVE Span(g, n) = SpanOf(items, n)
  <2>1. Span(g, n) = ShapeSpan(g, n)
    BY <1>9 DEF Span
  <2>2. /\ g.period \in Nat \ {0} /\ g.cycle = Added(v, 0, g.period)
        /\ \A i \in 0..(g.period - 1) : v[i] = g.widths[g.codes[i]]
    BY <1>7, <1>8, <1>9, <1>10, <1>11, <1>13, <1>14
  <2>3. \A i \in Items(items) : W(items, i) = g.widths[g.codes[i % g.period]]
    BY <1>9, <1>10, <1>12
  <2>4. \A i \in 0..(g.period - 1) : /\ i \in DOMAIN g.codes
                                     /\ g.codes[i] \in DOMAIN g.widths
                                     /\ g.widths[g.codes[i]] \in Int
    BY <1>4, <1>8, <1>9, <1>10, <1>11
  <2>5. ShapeSpan(g, n) = SpanOf(items, n)
    BY ONLY <2>2, <2>3, <2>4, items \in Seq(Measures), n \in Items(items), ShapeExact
  <2> QED BY <2>1, <2>5
<1>17. Bounded(g)
  BY <1>3, <1>4, <1>9, <1>16 DEF Bounded
<1> QED BY <1>15, <1>17 DEF Exact

(* The runs that came back with a period.                                  *)
LEMMA PeriodicChoice ==
  ASSUME items \in Seq(Measures), NEW b, Cut(b, items, Len(items)), ~b.periodic_failed,
         NEW periods, periods = {q \in b.candidates : q <= b.run_count}, periods # {},
         NEW p, p = Min(periods), NEW v, v = [i \in 0..(p - 1) |-> b.period_widths[i]],
         NEW g, g = [Reset("periodic") EXCEPT !.period = p, !.base = b.common_run_len,
                                              !.widths = v,
                                              !.cycle = Added(b.period_widths, 0, p)]
  PROVE  Exact(g)
<1> DEFINE len == b.common_run_len
           cycle == Added(b.period_widths, 0, p)
<1>1. periods \subseteq Nat /\ p \in periods
  <2>1. b.candidates \subseteq 1..PERIOD_CAPACITY
    BY DEF Cut
  <2>2. \A q \in periods : q \in Nat
    BY <2>1
  <2> QED BY <2>2, MinIs
<1>2. /\ p \in Nat \ {0} /\ p <= PERIOD_CAPACITY /\ PERIOD_CAPACITY \in Nat
      /\ p \in b.candidates /\ p <= b.run_count
      /\ b.run_count \in Nat /\ len \in Nat
  <2>1. /\ b.candidates \subseteq 1..PERIOD_CAPACITY
        /\ b.run_count \in Nat /\ len \in Nat
    BY DEF Cut
  <2>2. PERIOD_CAPACITY \in Nat
    BY GeometryAssumption
  <2>3. p \in b.candidates /\ p <= b.run_count
    BY <1>1
  <2>4. p \in 1..PERIOD_CAPACITY
    BY <2>1, <2>3
  <2> QED BY ONLY <2>1, <2>2, <2>3, <2>4
<1>3. len \in Nat \ {0}
  BY <1>2 DEF Cut
<1>4. ASSUME NEW i \in 0..(p - 1)
      PROVE  b.period_widths[i] \in Nat /\ v[i] = b.period_widths[i]
  <2>1. i \in 0..(b.run_count - 1) /\ i < PERIOD_CAPACITY
    BY ONLY <1>2, i \in 0..(p - 1)
  <2>2. \A r \in 0..(b.run_count - 1) : r < PERIOD_CAPACITY => b.period_widths[r] \in Nat
    BY DEF Cut
  <2>3. v[i] = b.period_widths[i]
    OBVIOUS
  <2> QED BY <2>1, <2>2, <2>3
<1>5. g.kind = "periodic" /\ g.period = p /\ g.base = len /\ g.widths = v /\ g.cycle = cycle
  BY DEF Reset
<1>6. ASSUME NEW i \in Items(items) PROVE W(items, i) = v[(i \div len) % p]
  <2>1. Len(items) \in Nat /\ i \in Nat /\ i \in 0..(Len(items) - 1)
    BY MeasureOf DEF Items
  <2> DEFINE r == i \div len
  <2>2. r \in Nat
    BY <1>3, <2>1, DivMod
  <2>3. /\ r < PERIOD_CAPACITY => W(items, i) = b.period_widths[r]
        /\ p <= r => W(items, i) = b.period_widths[r % p]
    BY <1>2, <2>1 DEF Cut
  <2> HIDE DEF r, len
  <2>4. r % p \in 0..(p - 1)
    BY <1>2, <2>2, DivMod
  <2>5. CASE r < p
    <3>1. r \in 0..(p - 1) /\ r = 0 * p + r /\ 0 \in Nat
      BY <1>2, <2>2, <2>5
    <3>2. r % p = r
      BY ONLY <1>2, <2>2, <3>1, DivUnique
    <3> QED BY <1>2, <1>4, <2>2, <2>3, <2>5, <3>1, <3>2 DEF r
  <2>6. CASE ~(r < p)
    <3>1. p <= r
      BY <1>2, <2>2, <2>6
    <3> QED BY <1>4, <2>3, <2>4, <3>1 DEF r
  <2> QED BY <2>5, <2>6
<1>7. cycle = Added(v, 0, p)
  <2>1. Summable(b.period_widths, 0, p) /\ 0 \in Nat /\ p \in Nat /\ 0 <= p
    BY <1>2, <1>4 DEF Summable
  <2>2. \A i \in 0..(p - 1) : v[i] = b.period_widths[i]
    BY <1>4
  <2> QED BY ONLY <2>1, <2>2, AddedSame DEF cycle
<1>8. Patterned(items, v, len, p)
  <2>1. Summable(v, 0, p)
    BY <1>4 DEF Summable
  <2> HIDE DEF len
  <2> QED BY <1>2, <1>3, <1>6, <2>1 DEF Patterned
<1>9. ASSUME NEW n \in Items(items) PROVE Span(g, n) = SpanOf(items, n)
  <2>1. Span(g, n) = PeriodicSpan(g, n)
    BY <1>5 DEF Span
  <2>2. Patterned(items, g.widths, g.base, g.period)
    BY <1>5, <1>8
  <2>3. g.cycle = Added(g.widths, 0, g.period)
    BY <1>5, <1>7
  <2>4. PeriodicSpan(g, n) = SpanOf(items, n)
    BY ONLY <2>2, <2>3, items \in Seq(Measures), n \in Items(items), PeriodicExact
  <2> QED BY <2>1, <2>4
<1> QED BY <1>9 DEF Exact

LEMMA PeriodicBounded ==
  ASSUME NEW candidates, candidates \subseteq 1..PERIOD_CAPACITY, NEW count_of,
         NEW periods, periods = {q \in candidates : q <= count_of}, periods # {},
         NEW p, p = Min(periods), NEW g, DOMAIN g.widths = 0..(p - 1)
  PROVE  Bounded(g)
<1>1. PERIOD_CAPACITY \in Nat
  BY GeometryAssumption
<1>2. periods \subseteq Nat /\ \A q \in periods : q \in 1..PERIOD_CAPACITY
  <2>1. \A q \in periods : q \in candidates
    OBVIOUS
  <2>2. \A q \in periods : q \in 1..PERIOD_CAPACITY
    BY ONLY <2>1, candidates \subseteq 1..PERIOD_CAPACITY
  <2> QED BY ONLY <1>1, <2>2
<1>3. p \in 1..PERIOD_CAPACITY
  BY ONLY <1>2, periods # {}, p = Min(periods), MinIs
<1>4. Cardinality(0..(p - 1)) = p /\ IsFiniteSet(0..(p - 1))
  <2>1. 0 \in Int /\ p - 1 \in Int /\ ~(0 > p - 1) /\ (p - 1) - 0 + 1 = p
    BY ONLY <1>1, <1>3
  <2> DEFINE q == p - 1
  <2> HIDE DEF q
  <2>2. IsFiniteSet(0..q) /\ Cardinality(0..q) = IF 0 > q THEN 0 ELSE q - 0 + 1
    BY ONLY <2>1, FS_Interval DEF q
  <2> QED BY ONLY <2>1, <2>2 DEF q
<1> QED BY <1>1, <1>3, <1>4 DEF Bounded

(* The intervals begin where the widths change.                            *)
LEMMA IntervalChoice ==
  ASSUME items \in Seq(Measures), NEW g, g \in BuildIntervals
  PROVE  Exact(g) /\ Bounded(g)
<1> DEFINE cuts == [k \in DOMAIN Heads |->
                      [item |-> Heads[k], byte |-> Starts[Heads[k]],
                       width |-> Width(Heads[k])]]
           interval == [Reset("interval") EXCEPT !.segments = cuts]
<1>1. g = interval
  <2> HIDE DEF interval
  <2> QED BY DEF BuildIntervals, interval
<1> HIDE DEF cuts
<1>2. g.kind = "interval" /\ g.segments = cuts /\ g.widths = Empty
  BY <1>1 DEF Reset
<1>3. Stretches(items, HeadsOf(items), Len(items))
  BY HeadsAre
<1>4. cuts = [k \in DOMAIN HeadsOf(items) |->
                [item |-> HeadsOf(items)[k], byte |-> StartOf(items)[HeadsOf(items)[k]],
                 width |-> W(items, HeadsOf(items)[k])]]
  BY ItemsAre DEF cuts
<1>5. ASSUME NEW n \in Items(items) PROVE Span(g, n) = SpanOf(items, n)
  <2>1. Span(g, n) = IntervalSpan(g, n)
    BY <1>2 DEF Span
  <2>2. IntervalSpan(g, n) = SpanOf(items, n)
    BY <1>2, <1>3, <1>4, IntervalExact
  <2> QED BY <2>1, <2>2
<1>6. Bounded(g)
  BY <1>2, EmptyBounded
<1> QED BY <1>5, <1>6 DEF Exact

(* The factors of a finished array, one item after the other.              *)
LEMMA FreshFactored ==
  ASSUME NEW f, f \in FactorState, NEW ms
  PROVE  Factored(f, ms, 0)
BY DEF Factored

LEMMA NoComponents == Empty \in Tables
<1>1. {} \in SUBSET (Nat \X Nat) /\ Empty \in [{} -> Int]
  BY DEF Empty
<1> QED BY <1>1, TableIs

LEMMA FactorizedChoice ==
  ASSUME items \in Seq(Measures), NEW g, g \in BuildFactorized
  PROVE  Exact(g) /\ Bounded(g)
<1> DEFINE n == Total
           fresh == [Factors(NewBuilder, Reset("factorized")) EXCEPT !.valid = TRUE]
           Solves(s) == s = [k \in 0..n |->
             IF k = 0 THEN fresh
             ELSE LET f == s[k - 1]
                  IN  IF f.valid THEN PushFactor(f, k - 1, Width(k - 1)) ELSE f]
           observed == CHOOSE s : Solves(s)
           Goes(f, k) == Factored(f, items, k - 1) /\ f.valid /\ k \in 1..n
           step == [k \in Nat |-> [f \in FactorState |->
                      IF Goes(f, k) THEN PushFactor(f, k - 1, Width(k - 1)) ELSE f]]
<1>1. /\ n \in Nat /\ n = Len(items)
      /\ \A k \in 1..n : /\ k - 1 \in Nat /\ k - 1 \in 0..n /\ (k - 1) + 1 = k
                         /\ Width(k - 1) \in Nat /\ Width(k - 1) = W(items, k - 1)
  <2>1. n \in Nat /\ n = Len(items)
    BY MeasureOf, ItemsAre
  <2>2. ASSUME NEW k \in 1..n
        PROVE  /\ k - 1 \in Nat /\ k - 1 \in 0..n /\ (k - 1) + 1 = k
               /\ Width(k - 1) \in Nat /\ Width(k - 1) = W(items, k - 1)
    <3> HIDE DEF n
    <3> DEFINE i == k - 1
    <3>1. i \in 0..(Len(items) - 1) /\ i \in Nat /\ i \in 0..n /\ i + 1 = k
      BY <2>1
    <3> HIDE DEF i
    <3>2. W(items, i) \in Nat
      BY <3>1, MeasureOf
    <3>3. Width(i) = W(items, i)
      BY ItemsAre
    <3> QED BY <3>1, <3>2, <3>3 DEF i
  <2> QED BY <2>1, <2>2
<1>2. fresh \in FactorState
  <2>1. NewBuilder.factor_base = 0 /\ NewBuilder.factor_high_component = FALSE
    BY DEF NewBuilder
  <2>2. Reset("factorized").codes = Empty
    BY DEF Reset
  <2>3. Factors(NewBuilder, Reset("factorized"))
          = [base |-> 0, components |-> Empty, valid |-> NewBuilder.factor_valid, high |-> FALSE]
    BY ONLY <2>1, <2>2 DEF Factors
  <2>4. fresh = [base |-> 0, components |-> Empty, valid |-> TRUE, high |-> FALSE]
    <3> DEFINE first == Factors(NewBuilder, Reset("factorized"))
               yes == TRUE
               no == FALSE
               maybe == NewBuilder.factor_valid
    <3>1. first = [base |-> 0, components |-> Empty, valid |-> maybe, high |-> no]
      BY ONLY <2>3
    <3>2. fresh = [first EXCEPT !.valid = yes]
      OBVIOUS
    <3> HIDE DEF first, yes, no, maybe
    <3>3. fresh = [base |-> 0, components |-> Empty, valid |-> yes, high |-> no]
      BY ONLY <3>1, <3>2
    <3> HIDE DEF fresh
    <3> QED BY ONLY <3>3 DEF yes, no
  <2> HIDE DEF fresh
  <2>5. 0 \in Int
    OBVIOUS
  <2> QED BY ONLY <2>4, <2>5, NoComponents DEF FactorState
<1> HIDE DEF fresh, n
<1>3. ASSUME NEW f, NEW k, Goes(f, k)
      PROVE  Factored(PushFactor(f, k - 1, Width(k - 1)), items, k)
  <2> DEFINE i == k - 1
  <2>1. i \in Nat /\ i + 1 = k /\ Width(i) \in Nat /\ Width(i) = W(items, i)
    BY <1>1, <1>3
  <2>2. Factored(f, items, i) /\ f.valid
    BY <1>3
  <2> HIDE DEF i
  <2>3. Factored(PushFactor(f, i, Width(i)), items, i + 1)
    BY ONLY <2>1, <2>2, PushFactorKeeps
  <2> QED BY <2>1, <2>3 DEF i
<1>4. step \in [Nat -> [FactorState -> FactorState]]
  <2>1. ASSUME NEW k \in Nat, NEW f \in FactorState
        PROVE  (IF Goes(f, k) THEN PushFactor(f, k - 1, Width(k - 1)) ELSE f) \in FactorState
    <3>1. Goes(f, k) => PushFactor(f, k - 1, Width(k - 1)) \in FactorState
      BY <1>3 DEF Factored
    <3> HIDE DEF Goes
    <3> QED BY <3>1
  <2> HIDE DEF Goes
  <2> QED BY <2>1
<1>5. PICK h \in [0..n -> FactorState] : h[0] = fresh /\ \A k \in 1..n : h[k] = step[k][h[k - 1]]
  <2> HIDE DEF step
  <2>1. Iterable(n, FactorState, fresh, step)
    BY <1>1, <1>2, <1>4, IterationExists
  <2> QED BY <2>1 DEF Iterable
<1>6. ASSUME NEW k \in 1..n
      PROVE  h[k] = IF Goes(h[k - 1], k) THEN PushFactor(h[k - 1], k - 1, Width(k - 1))
                    ELSE h[k - 1]
  <2>1. k - 1 \in 0..n /\ k \in Nat
    BY <1>1
  <2>2. h[k] = step[k][h[k - 1]] /\ h[k - 1] \in FactorState
    <3> HIDE DEF step
    <3> QED BY <1>5, <2>1
  <2> HIDE DEF Goes
  <2> QED BY <2>1, <2>2
<1> HIDE DEF step
<1> DEFINE T == {k \in 0..n : Factored(h[k], items, k)}
<1>7. \A k \in 0..n : k \in T
  <2>1. 0 \in T
    BY <1>1, <1>2, <1>5, FreshFactored
  <2>2. ASSUME NEW j \in 0..(n - 1), j \in T PROVE j + 1 \in T
    <3> DEFINE k == j + 1
    <3>1. k \in 1..n /\ k \in 0..n /\ k - 1 = j
      BY <1>1
    <3> HIDE DEF k
    <3>2. Factored(h[j], items, j)
      BY <2>2
    <3>3. CASE Goes(h[j], k)
      <4>1. h[k] = PushFactor(h[j], k - 1, Width(k - 1))
        <5> HIDE DEF Goes
        <5> QED BY <1>6, <3>1, <3>3
      <4> QED BY <1>3, <3>1, <3>3, <4>1 DEF k
    <3>4. CASE ~Goes(h[j], k)
      <4>1. h[k] = h[j]
        <5> HIDE DEF Goes
        <5> QED BY <1>6, <3>1, <3>4
      <4>2. ~h[j].valid
        BY <3>1, <3>2, <3>4
      <4>3. Factored(h[k], items, k)
        BY <3>2, <4>1, <4>2 DEF Factored
      <4> QED BY <3>1, <4>3 DEF k
    <3> QED BY <3>3, <3>4
  <2> HIDE DEF T
  <2> QED BY <1>1, <2>1, <2>2, BoundedInduction
<1>8. Solves(h)
  <2>1. ASSUME NEW k \in 0..n
        PROVE  h[k] = IF k = 0 THEN fresh
                      ELSE LET f == h[k - 1]
                           IN  IF f.valid THEN PushFactor(f, k - 1, Width(k - 1)) ELSE f
    <3>1. CASE k = 0
      BY <1>5, <3>1
    <3>2. CASE k # 0
      <4>1. k \in 1..n /\ k - 1 \in 0..n
        BY <1>1, <3>2
      <4>2. Factored(h[k - 1], items, k - 1)
        BY <1>7, <4>1
      <4>3. Goes(h[k - 1], k) <=> h[k - 1].valid
        BY <4>1, <4>2
      <4> HIDE DEF Goes
      <4> QED BY <1>6, <3>2, <4>1, <4>3
    <3> QED BY <3>1, <3>2
  <2> QED BY <1>5, <2>1
<1>9. Solves(observed)
  <2> HIDE DEF Solves
  <2> QED BY <1>8
<1> HIDE DEF observed
<1>10. \A k \in 0..n : observed[k] = h[k]
  <2> DEFINE U == {k \in 0..n : observed[k] = h[k]}
  <2>1. 0 \in U
    <3>1. 0 \in 0..n
      BY <1>1
    <3> QED BY <1>5, <1>9, <3>1
  <2>2. ASSUME NEW j \in 0..(n - 1), j \in U PROVE j + 1 \in U
    <3> DEFINE k == j + 1
    <3>1. k \in 0..n /\ k # 0 /\ k - 1 = j
      BY <1>1
    <3> HIDE DEF k
    <3>2. observed[k] = IF observed[j].valid THEN PushFactor(observed[j], k - 1, Width(k - 1))
                        ELSE observed[j]
      BY <1>9, <3>1
    <3>3. h[k] = IF h[j].valid THEN PushFactor(h[j], k - 1, Width(k - 1)) ELSE h[j]
      BY <1>8, <3>1
    <3>4. observed[j] = h[j]
      BY <2>2
    <3>5. observed[k] = h[k]
      BY ONLY <3>2, <3>3, <3>4
    <3> QED BY <3>1, <3>5 DEF k
  <2> HIDE DEF U, Solves
  <2> QED BY <1>1, <2>1, <2>2, BoundedInduction DEF U
<1> HIDE DEF Solves
<1> DEFINE end == observed[n]
           chosen == [Reset("factorized") EXCEPT !.base = end.base, !.codes = end.components]
<1>11. BuildFactorized = IF end.valid /\ end.high THEN {chosen} ELSE {}
  BY DEF BuildFactorized, observed, Solves, fresh, n
<1>12. Factored(end, items, Len(items))
  <2>1. n \in 0..n
    BY <1>1
  <2> QED BY <1>1, <1>7, <1>10, <2>1
<1> HIDE DEF end
<1>13. g = chosen /\ end.valid
  BY <1>11
<1>14. /\ g.kind = "factorized" /\ g.base = end.base /\ g.codes = end.components
       /\ g.widths = Empty
  BY <1>13 DEF Reset
<1> QED BY <1>12, <1>13, <1>14, FactorChoice, EmptyBounded

(* The runs of one length, in blocks of absolute starts.                   *)
LEMMA PackedChoice ==
  ASSUME items \in Seq(Measures), NEW len \in Nat, NEW g, g \in BuildPackedRuns(len)
  PROVE  Exact(g)
<1> DEFINE runs   == DOMAIN Heads
           widths == {Width(Heads[k]) : k \in runs}
           blocks == {r \in 0..(Len(Heads) - 1) : r % PACKED_RUN_BLOCK = 0}
           codes  == [r \in 0..(Len(Heads) - 1) |-> Width(Heads[r + 1])]
           prefix == [q \in {r \div PACKED_RUN_BLOCK : r \in blocks} |->
                        Starts[Heads[q * PACKED_RUN_BLOCK + 1]]]
           packed == [Reset("packed_runs") EXCEPT !.base = len, !.codes = codes,
                                                  !.prefix = prefix]
           holds  == /\ len # 0
                     /\ \A k \in runs : /\ RunLength(k) <= len
                                        /\ k < Len(Heads) => RunLength(k) = len
                     /\ Len(Heads) <= PACKED_RUN_CAPACITY
                     /\ \A w \in widths : w <= U16Max
                     /\ Cardinality(widths) <= PALETTE_CAPACITY
                     /\ \A r \in blocks : Starts[Heads[r + 1]] <= U32Max
           heads  == HeadsOf(items)
<1>1. BuildPackedRuns(len) = IF holds THEN {packed} ELSE {}
  BY DEF BuildPackedRuns
<1>2. holds /\ g = packed
  <2> HIDE DEF holds, packed
  <2> QED BY <1>1
<1>3. /\ len \in Nat \ {0}
      /\ \A k \in runs : /\ RunLength(k) <= len
                         /\ k < Len(Heads) => RunLength(k) = len
  BY <1>2
<1>4. Heads = heads /\ Total = Len(items) /\ Starts = StartOf(items)
  BY ItemsAre
<1>5. /\ Stretches(items, heads, Len(items)) /\ heads \in Seq(Nat) /\ Len(heads) \in Nat
      /\ runs = 1..Len(heads)
  <2>1. Stretches(items, heads, Len(items))
    BY HeadsAre
  <2>2. heads \in Seq(Nat)
    BY <2>1 DEF Stretches
  <2> HIDE DEF heads
  <2> QED BY <1>4, <2>1, <2>2
<1> HIDE DEF codes, prefix, heads, runs
<1>6. /\ g.kind = "packed_runs" /\ g.base = len /\ g.codes = codes /\ g.prefix = prefix
  BY <1>2 DEF Reset
<1> HIDE DEF holds, packed
<1>7. Packed(items, heads, len)
  <2>1. ASSUME NEW k \in 1..Len(heads)
        PROVE  /\ Ends(heads, k, Len(items)) - heads[k] <= len
               /\ k < Len(heads) => Ends(heads, k, Len(items)) - heads[k] = len
    <3>1. RunLength(k) = Ends(heads, k, Len(items)) - heads[k]
      BY <1>4 DEF RunLength, Ends
    <3> QED BY <1>3, <1>4, <1>5, <3>1
  <2> QED BY <1>3, <1>5, <2>1 DEF Packed
<1>8. ASSUME NEW i \in 0..(Len(heads) - 1) PROVE g.codes[i] = W(items, heads[i + 1])
  BY <1>4, <1>6, ItemsAre DEF codes
<1>9. ASSUME NEW i \in 0..(Len(heads) - 1), i % PACKED_RUN_BLOCK = 0
      PROVE  /\ i \div PACKED_RUN_BLOCK \in DOMAIN g.prefix
             /\ g.prefix[i \div PACKED_RUN_BLOCK] = StartOf(items)[heads[i + 1]]
  <2> DEFINE q == i \div PACKED_RUN_BLOCK
  <2>1. i \in Nat /\ PACKED_RUN_BLOCK \in Nat \ {0}
    BY <1>5, GeometryAssumption
  <2>2. q \in Nat /\ i = q * PACKED_RUN_BLOCK + 0
    <3>1. q \in Nat /\ i = q * PACKED_RUN_BLOCK + (i % PACKED_RUN_BLOCK)
      BY <2>1, DivMod
    <3> HIDE DEF q
    <3> QED BY <1>9, <3>1
  <2>3. q \in {r \div PACKED_RUN_BLOCK : r \in blocks}
    BY <1>4, <1>9
  <2> HIDE DEF q
  <2>4. q \in DOMAIN prefix /\ prefix[q] = Starts[Heads[q * PACKED_RUN_BLOCK + 1]]
    BY <2>3 DEF prefix
  <2>5. q * PACKED_RUN_BLOCK = i
    <3>1. q * PACKED_RUN_BLOCK \in Int
      BY <2>1, <2>2, Times
    <3> QED BY <2>2, <3>1
  <2>6. prefix[q] = StartOf(items)[heads[i + 1]]
    BY <1>4, <2>4, <2>5
  <2> QED BY <1>6, <2>4, <2>6 DEF q
<1>10. ASSUME NEW n \in Items(items) PROVE Span(g, n) = SpanOf(items, n)
  <2>1. Span(g, n) = PackedSpan(g, n)
    BY <1>6 DEF Span
  <2>2. Packed(items, heads, g.base)
    BY <1>6, <1>7
  <2>3. PackedSpan(g, n) = SpanOf(items, n)
    BY ONLY <2>2, <1>8, <1>9, items \in Seq(Measures), n \in Items(items), PackedExact
  <2> QED BY <2>1, <2>3
<1> QED BY <1>10 DEF Exact

LEMMA PackedBounded ==
  ASSUME NEW len, NEW g, g \in BuildPackedRuns(len)
  PROVE  Bounded(g)
<1> DEFINE codes == [r \in 0..(Len(Heads) - 1) |-> Width(Heads[r + 1])]
           prefix == [q \in {r \div PACKED_RUN_BLOCK :
                               r \in {k \in 0..(Len(Heads) - 1) :
                                        k % PACKED_RUN_BLOCK = 0}} |->
                        Starts[Heads[q * PACKED_RUN_BLOCK + 1]]]
           packed == [Reset("packed_runs") EXCEPT !.base = len, !.codes = codes,
                                                  !.prefix = prefix]
<1>1. \A x \in BuildPackedRuns(len) : x = packed
  <2> HIDE DEF packed
  <2> QED BY DEF BuildPackedRuns, packed
<1> HIDE DEF codes, prefix
<1>2. g.widths = Empty
  BY <1>1 DEF Reset
<1> QED BY <1>2, EmptyBounded

(* The last run is finished like the others, except that it may be short.  *)
Kept(c, g, total) ==
  /\ DOMAIN g = GeometryFields /\ Palette(c) /\ Slots(g) /\ Modes(c, g, total)
  /\ DOMAIN c.period_widths \subseteq 0..(PERIOD_CAPACITY - 1)
  /\ c.candidates \subseteq 1..PERIOD_CAPACITY

Completed(c, g, ms) ==
  c.compressible =>
    /\ Fixed(c, ms) /\ Affine(c, ms) /\ Cut(c, ms, Len(ms))
    /\ Ranked(c, g, ms) /\ Shaped(c, g, ms) /\ Factor(c, g, ms)

LEMMA CompleteStep ==
  ASSUME NEW ms, ms \in Seq(Measures), NEW b, NEW g, NEW total \in Nat,
         Stored(b, g, ms, total), NEW c,
         c = IF b.started THEN [FinishRun(b, TRUE) EXCEPT !.started = FALSE] ELSE b
  PROVE  /\ Kept(c, g, total)
         /\ Observed(b, g, ms) => Completed(c, g, ms)
<1>1. /\ DOMAIN b = BuilderFields /\ DOMAIN g = GeometryFields /\ b.run_count \in Nat
      /\ Palette(b) /\ Slots(g) /\ Modes(b, g, total)
      /\ DOMAIN b.period_widths \subseteq 0..(PERIOD_CAPACITY - 1)
      /\ b.candidates \subseteq 1..PERIOD_CAPACITY
  BY DEF Stored
<1>2. b.compressible /\ Observed(b, g, ms) =>
        /\ Fixed(b, ms) /\ Affine(b, ms) /\ Running(b, ms)
        /\ Ranked(b, g, ms) /\ Shaped(b, g, ms) /\ Factor(b, g, ms)
  BY DEF Observed
<1>3. Len(ms) \in Nat
  BY MeasureOf
<1>4. CASE ~b.started
  <2>1. c = b
    BY <1>4
  <2>2. ASSUME b.compressible, Observed(b, g, ms) PROVE Cut(b, ms, Len(ms))
    <3>1. Running(b, ms)
      BY <1>2, <2>2
    <3>2. Len(ms) = 0 /\ b.current_len \in 0..Len(ms)
      BY <1>3, <1>4, <3>1 DEF Running
    <3>3. Len(ms) - b.current_len = Len(ms)
      BY <3>2
    <3>4. Cut(b, ms, Len(ms) - b.current_len)
      BY <3>1 DEF Running
    <3> QED BY <3>3, <3>4
  <2> QED BY <1>1, <1>2, <2>1, <2>2 DEF Kept, Completed
<1>5. CASE b.started
  <2> DEFINE yes == TRUE
             no == FALSE
             r == FinishRun(b, yes)
  <2>1. c = [r EXCEPT !.started = no] /\ yes \in BOOLEAN
    BY <1>5
  <2> HIDE DEF yes, no
  <2>2. /\ Keeps(b, r, RunFields)
        /\ DOMAIN r.period_widths \subseteq
             DOMAIN b.period_widths \cup 0..(PERIOD_CAPACITY - 1)
        /\ ~r.periodic_failed => ~b.periodic_failed
        /\ r.candidates \subseteq b.candidates
    BY <1>1, FinishRunFrame
  <2>3. ASSUME b.compressible, Observed(b, g, ms)
        PROVE  /\ Cut(r, ms, Len(ms))
               /\ b.shape_attempted => r.period_widths = b.period_widths
    <3> DEFINE n == Len(ms) - b.current_len
    <3>1. Running(b, ms)
      BY <1>2, <2>3
    <3>2. /\ b.current_len \in 0..Len(ms) /\ b.current_len # 0 /\ b.current_width \in Nat
          /\ \A i \in n..(Len(ms) - 1) : W(ms, i) = b.current_width
          /\ Cut(b, ms, n) /\ Whole(b, n)
          /\ ~b.periodic_failed => ~b.shape_attempted
      BY <1>5, <3>1 DEF Running
    <3>3. n \in Nat /\ n + b.current_len = Len(ms) /\ b.current_len \in Nat \ {0}
      BY <1>3, <3>2
    <3> HIDE DEF n, r
    <3>4. \A i \in n..(n + b.current_len - 1) : W(ms, i) = b.current_width
      BY <3>2, <3>3
    <3>5. /\ Cut(r, ms, n + b.current_len)
          /\ b.shape_attempted => r.period_widths = b.period_widths
      BY ONLY <1>1, <2>1, <3>2, <3>3, <3>4, FinishRunStep DEF r
    <3> QED BY <3>3, <3>5
  <2> HIDE DEF r
  <2>4. Keeps(r, c, {"started"})
    BY ONLY <2>1, <2>2 DEF Keeps, BuilderFields
  <2>5. /\ c.palette = b.palette /\ c.ranked_candidate = b.ranked_candidate
        /\ c.factor_candidate = b.factor_candidate
        /\ c.shape_candidate = b.shape_candidate
        /\ c.shape_attempted = b.shape_attempted /\ c.shape_period = b.shape_period
        /\ c.compressible = b.compressible /\ c.fixed_width = b.fixed_width
        /\ c.affine_base = b.affine_base /\ c.affine_slope = b.affine_slope
        /\ c.affine_failed = b.affine_failed
        /\ c.factor_base = b.factor_base /\ c.factor_valid = b.factor_valid
        /\ c.factor_high_component = b.factor_high_component
    BY <2>2, <2>4, ZenonT(40) DEF Keeps, BuilderFields, RunFields
  <2>6. /\ c.period_widths = r.period_widths /\ c.periodic_failed = r.periodic_failed
        /\ c.run_count = r.run_count /\ c.common_run_len = r.common_run_len
        /\ c.candidates = r.candidates
    BY <2>4 DEF Keeps, BuilderFields
  <2>7. Palette(c)
    BY <1>1, <2>5 DEF Palette
  <2>8. Modes(c, g, total)
    BY <1>1, <2>2, <2>5, <2>6 DEF Modes
  <2>9. /\ DOMAIN c.period_widths \subseteq 0..(PERIOD_CAPACITY - 1)
        /\ c.candidates \subseteq 1..PERIOD_CAPACITY
    BY <1>1, <2>2, <2>6
  <2>10. ASSUME c.compressible, Observed(b, g, ms)
         PROVE  /\ Fixed(c, ms) /\ Affine(c, ms) /\ Cut(c, ms, Len(ms))
                /\ Ranked(c, g, ms) /\ Shaped(c, g, ms) /\ Factor(c, g, ms)
    <3>1. /\ Fixed(b, ms) /\ Affine(b, ms)
          /\ Ranked(b, g, ms) /\ Shaped(b, g, ms) /\ Factor(b, g, ms)
          /\ Cut(r, ms, Len(ms))
          /\ b.shape_attempted => r.period_widths = b.period_widths
      BY <1>2, <2>3, <2>5, <2>10
    <3>2. Fixed(c, ms)
      BY <2>5, <3>1 DEF Fixed
    <3>3. Affine(c, ms)
      BY <2>5, <3>1 DEF Affine
    <3>4. Cut(c, ms, Len(ms))
      BY <2>6, <3>1 DEF Cut
    <3>5. Ranked(c, g, ms) /\ Factor(c, g, ms)
      <4>1. Ranked(c, g, ms)
        BY ONLY <2>5, <3>1, RankedKept
      <4>2. Factor(c, g, ms)
        BY ONLY <2>5, <3>1, FactorKept
      <4> QED BY <4>1, <4>2
    <3>6. Shaped(c, g, ms)
      <4>1. ASSUME c.shape_candidate PROVE Patterns(c, g, ms)
        <5>1. Patterns(b, g, ms) /\ b.shape_attempted
          BY <1>1, <2>5, <3>1, <4>1 DEF Shaped, Modes
        <5>2. c.period_widths = b.period_widths
          BY <2>6, <3>1, <5>1
        <5> QED BY ONLY <2>5, <5>1, <5>2, PatternsKept
      <4> QED BY <4>1 DEF Shaped
    <3> QED BY <3>2, <3>3, <3>4, <3>5, <3>6
  <2> QED BY <1>1, <2>7, <2>8, <2>9, <2>10 DEF Kept, Completed
<1> QED BY <1>4, <1>5

(* Whatever is chosen fits, and answers exactly if the observations hold;  *)
(* only the shapes settled while framing rest on the hashes as well.       *)
Answers(c, g) ==
  \/ Exact(g)
  \/ g.kind = "shape" /\ c.shape_attempted /\ ~HashesSeparateWidths

LEMMA ChoiceStep ==
  ASSUME items \in Seq(Measures), count \in Nat, NEW c, NEW g,
         Kept(c, g, count), count = Len(items),
         NEW r, r = ChooseGeometry(c, g)
  PROVE  /\ Bounded(r)
         /\ Completed(c, g, items) => Answers(c, r)
<1> DEFINE options == Strategies(c, g)
           periods == IF c.periodic_failed THEN {}
                      ELSE {p \in c.candidates : p <= c.run_count}
           period == Min(periods)
           shape == [g EXCEPT !.period = c.shape_period,
                              !.cycle = Added([i \in 0..(c.shape_period - 1) |->
                                                 g.widths[g.codes[i]]],
                                              0, c.shape_period)]
           factors == [g EXCEPT !.base = c.factor_base]
           v == [i \in 0..(period - 1) |-> c.period_widths[i]]
           periodic == [Reset("periodic") EXCEPT
                          !.period = period, !.base = c.common_run_len, !.widths = v,
                          !.cycle = Added(c.period_widths, 0, period)]
           fixed == [Reset("fixed") EXCEPT !.base = c.fixed_width]
           formula == [Reset("formula") EXCEPT !.base = c.affine_base,
                                               !.slope = c.affine_slope]
           o1 == If(~c.compressible, Reset("replay"))
           o2 == If(count = 0, Reset("fixed"))
           o3 == If(c.fixed_width \in 0..U32Max, fixed)
           o4 == If(count >= 2 /\ ~c.affine_failed, formula)
           o5 == If(c.shape_candidate /\ c.shape_period # 0, shape)
           o6 == If(c.factor_candidate /\ c.factor_valid /\ c.factor_high_component, factors)
           o7 == IF c.saw_nested /\ count > RANKED_CAPACITY /\ ~c.shape_attempted
                 THEN BuildRecursiveShape ELSE {}
           o8 == If(periods # {}, periodic)
           o9 == IF c.run_count <= INTERVAL_CAPACITY THEN BuildIntervals ELSE {}
           o10 == IF ~c.factor_candidate /\ ~c.ranked_candidate THEN BuildFactorized ELSE {}
           o11 == If(c.ranked_candidate, g)
           o12 == IF /\ ~c.common_runs_failed /\ ~c.palette_failed
                     /\ c.run_count <= PACKED_RUN_CAPACITY
                  THEN BuildPackedRuns(c.common_run_len) ELSE {}
           o13 == {Reset("replay")}
           first == Min({k \in DOMAIN options : options[k] # {}})
<1>1. options = <<o1, o2, o3, o4, o5, o6, o7, o8, o9, o10, o11, o12, o13>>
  BY DEF Strategies
<1>2. r = CHOOSE choice \in options[first] : TRUE
  BY DEF ChooseGeometry
<1>3. o13 # {}
  OBVIOUS
<1>4. ASSUME NEW x, x \in o1 PROVE ~c.compressible /\ x = Reset("replay")
  <2>1. x \in IF ~c.compressible THEN {Reset("replay")} ELSE {}
    BY <1>4 DEF If
  <2> QED BY ONLY <2>1
<1>5. ~c.compressible => o1 # {}
  <2>1. o1 = IF ~c.compressible THEN {Reset("replay")} ELSE {}
    BY DEF If
  <2> QED BY ONLY <2>1
<1>6. r \in o2 => count = 0 /\ r = Reset("fixed")
  BY DEF If
<1>7. r \in o3 => c.fixed_width \in 0..U32Max /\ r = fixed
  BY DEF If
<1>8. r \in o4 => ~c.affine_failed /\ r = formula
  BY DEF If
<1>9. r \in o5 => c.shape_candidate /\ c.shape_period # 0 /\ r = shape
  BY DEF If
<1>10. r \in o6 => c.factor_candidate /\ c.factor_valid /\ r = factors
  BY DEF If
<1>11. r \in o7 => r \in BuildRecursiveShape
  OBVIOUS
<1>12. r \in o8 => periods # {} /\ r = periodic
  BY DEF If
<1>13. r \in o9 => r \in BuildIntervals
  OBVIOUS
<1>14. r \in o10 => r \in BuildFactorized
  OBVIOUS
<1>15. r \in o11 => c.ranked_candidate /\ r = g
  BY DEF If
<1>16. r \in o12 => r \in BuildPackedRuns(c.common_run_len)
  OBVIOUS
<1>17. r \in o13 => r = Reset("replay")
  OBVIOUS
<1> HIDE DEF o1, o2, o3, o4, o5, o6, o7, o8, o9, o10, o11, o12, o13, options
<1>18. /\ first \in 1..13 /\ options[first] # {}
       /\ \A j \in 1..13 : j < first => options[j] = {}
  <2> DEFINE n == 13
  <2>1. DOMAIN options = 1..n /\ options[n] # {} /\ n \in Nat /\ n > 0
    BY <1>1, <1>3
  <2>2. first = Min({k \in DOMAIN options : options[k] # {}})
    OBVIOUS
  <2> HIDE DEF first, n
  <2>3. /\ first \in 1..n /\ options[first] # {}
        /\ \A j \in 1..n : j < first => options[j] = {}
    BY ONLY <2>1, <2>2, FirstOption
  <2> QED BY <2>3 DEF n
<1> HIDE DEF first
<1>19. r \in options[first]
  BY <1>2, <1>18
<1>20. \/ r \in o1 \/ r \in o13
       \/ /\ c.compressible
          /\ \/ r \in o2 \/ r \in o3 \/ r \in o4 \/ r \in o5 \/ r \in o6 \/ r \in o7
             \/ r \in o8 \/ r \in o9 \/ r \in o10 \/ r \in o11 \/ r \in o12
  <2>1. options[1] = o1
    BY <1>1
  <2>2. first # 1 => c.compressible
    BY <1>5, <1>18, <2>1
  <2>3. \/ first = 1 \/ first = 2 \/ first = 3 \/ first = 4 \/ first = 5 \/ first = 6
        \/ first = 7 \/ first = 8 \/ first = 9 \/ first = 10 \/ first = 11
        \/ first = 12 \/ first = 13
    BY <1>18
  <2> QED BY ONLY <1>1, <1>19, <2>2, <2>3
<1>21. DOMAIN g = GeometryFields /\ Slots(g) /\ Modes(c, g, count)
  BY DEF Kept
<1>22. ASSUME r = Reset("replay") PROVE Bounded(r) /\ Answers(c, r)
  <2>1. r.kind = "replay" /\ r.widths = Empty
    BY <1>22, ResetFields
  <2> QED BY <2>1, ReplayExact, EmptyBounded DEF Answers
<1>23. CASE r \in o1
  BY <1>4, <1>22, <1>23
<1>24. CASE r \in o13
  BY <1>17, <1>22, <1>24
<1> HIDE DEF shape, factors, periodic, fixed, formula, periods, period, v
<1>25. ASSUME c.compressible, Completed(c, g, items) PROVE Answers(c, r)
  <2>1. /\ Fixed(c, items) /\ Affine(c, items) /\ Cut(c, items, Len(items))
        /\ Ranked(c, g, items) /\ Shaped(c, g, items) /\ Factor(c, g, items)
    BY <1>25 DEF Completed
  <2>2. CASE r \in o2
    <3>1. Len(items) = 0
      BY <1>6, <2>2
    <3> QED BY <3>1, NoItems DEF Answers
  <2>3. CASE r \in o3
    <3>1. c.fixed_width \in 0..U32Max /\ r = [Reset("fixed") EXCEPT !.base = c.fixed_width]
      BY <1>7, <2>3 DEF fixed
    <3>2. Exact(r)
      BY <2>1, <3>1, FixedChoice
    <3> QED BY <3>2 DEF Answers
  <2>4. CASE r \in o4
    <3>1. /\ ~c.affine_failed
          /\ r = [Reset("formula") EXCEPT !.base = c.affine_base, !.slope = c.affine_slope]
      BY <1>8, <2>4 DEF formula
    <3>2. Exact(r)
      BY <2>1, <3>1, FormulaChoice
    <3> QED BY <3>2 DEF Answers
  <2>5. CASE r \in o5
    <3>1. c.shape_candidate /\ c.shape_period # 0 /\ r = shape
      BY <1>9, <2>5
    <3>2. g.kind = "shape" /\ c.shape_attempted /\ Patterns(c, g, items)
      BY <1>21, <2>1, <3>1 DEF Modes, Shaped
    <3>3. r.kind = "shape"
      BY <1>21, <3>1, <3>2 DEF shape, GeometryFields
    <3>4. HashesSeparateWidths => Exact(r)
      <4>1. r = [g EXCEPT !.period = c.shape_period,
                          !.cycle = Added([i \in 0..(c.shape_period - 1) |->
                                             g.widths[g.codes[i]]],
                                          0, c.shape_period)]
        BY <3>1 DEF shape
      <4> QED BY ONLY <1>21, <3>1, <3>2, <4>1, items \in Seq(Measures), ShapeChoice
    <3> QED BY <3>2, <3>3, <3>4 DEF Answers
  <2>6. CASE r \in o6
    <3>1. c.factor_candidate /\ c.factor_valid /\ r = factors
      BY <1>10, <2>6
    <3>2. g.kind = "factorized" /\ Factored(Factors(c, g), items, Len(items))
      BY <1>21, <2>1, <3>1 DEF Modes, Factor
    <3>3. /\ r.kind = "factorized"
          /\ r.base = c.factor_base /\ r.codes = g.codes
      BY <1>21, <3>1, <3>2 DEF factors, GeometryFields
    <3>4. /\ Factors(c, g).base = c.factor_base /\ Factors(c, g).components = g.codes
          /\ Factors(c, g).valid = c.factor_valid
      BY DEF Factors
    <3> DEFINE f == Factors(c, g)
    <3>5. f.valid
      BY <3>1, <3>4
    <3> HIDE DEF f
    <3>6. Exact(r)
      BY ONLY <3>2, <3>3, <3>4, <3>5, items \in Seq(Measures), FactorChoice DEF f
    <3> QED BY <3>6 DEF Answers
  <2>7. CASE r \in o7
    BY <1>11, <2>7, RecursiveShapeChoice DEF Answers
  <2>8. CASE r \in o8
    <3>1. periods # {} /\ r = periodic
      BY <1>12, <2>8
    <3>2. ~c.periodic_failed /\ periods = {q \in c.candidates : q <= c.run_count}
      BY <3>1 DEF periods
    <3>3. /\ period = Min(periods)
          /\ v = [i \in 0..(period - 1) |-> c.period_widths[i]]
          /\ r = [Reset("periodic") EXCEPT
                    !.period = period, !.base = c.common_run_len, !.widths = v,
                    !.cycle = Added(c.period_widths, 0, period)]
      BY <3>1 DEF periodic, v, period
    <3>4. Cut(c, items, Len(items)) /\ periods # {}
      BY <2>1, <3>1
    <3>5. Exact(r)
      BY ONLY <3>2, <3>3, <3>4, items \in Seq(Measures), PeriodicChoice
    <3> QED BY <3>5 DEF Answers
  <2>9. CASE r \in o9
    BY <1>13, <2>9, IntervalChoice DEF Answers
  <2>10. CASE r \in o10
    BY <1>14, <2>10, FactorizedChoice DEF Answers
  <2>11. CASE r \in o11
    <3>1. c.ranked_candidate /\ r = g
      BY <1>15, <2>11
    <3>2. g.kind = "ranked"
      BY <1>21, <3>1 DEF Modes
    <3>3. Exact(g)
      BY ONLY <2>1, <3>1, <3>2, items \in Seq(Measures), RankedChoice
    <3> QED BY <3>1, <3>3 DEF Answers
  <2>12. CASE r \in o12
    <3>1. c.common_run_len \in Nat
      BY <2>1 DEF Cut
    <3> QED BY <1>16, <2>12, <3>1, PackedChoice DEF Answers
  <2>13. CASE r \in o1 \/ r \in o13
    BY <1>4, <1>17, <1>22, <2>13
  <2> QED BY <1>20, <2>13, <2>2, <2>3, <2>4, <2>5, <2>6, <2>7, <2>8, <2>9, <2>10,
             <2>11, <2>12
<1>26. ASSUME r \notin o1, r \notin o13 PROVE Bounded(r)
  <2>1. Bounded(g)
    BY <1>21 DEF Slots, Bounded
  <2>2. CASE r \in o2
    BY <1>6, <2>2, ResetFields, EmptyBounded
  <2>3. CASE r \in o3
    <3>1. r.widths = Empty
      BY <1>7, <2>3 DEF fixed, Reset
    <3> QED BY <3>1, EmptyBounded
  <2>4. CASE r \in o4
    <3>1. r.widths = Empty
      BY <1>8, <2>4 DEF formula, Reset
    <3> QED BY <3>1, EmptyBounded
  <2>5. CASE r \in o5
    <3>1. r.widths = g.widths
      BY <1>9, <1>21, <2>5 DEF shape, GeometryFields
    <3> QED BY <2>1, <3>1 DEF Bounded
  <2>6. CASE r \in o6
    <3>1. r.widths = g.widths
      BY <1>10, <1>21, <2>6 DEF factors, GeometryFields
    <3> QED BY <2>1, <3>1 DEF Bounded
  <2>7. CASE r \in o7
    BY <1>11, <2>7, RecursiveShapeChoice
  <2>8. CASE r \in o8
    <3>1. periods # {} /\ r = periodic
      BY <1>12, <2>8
    <3>2. periods = {q \in c.candidates : q <= c.run_count}
      BY <3>1 DEF periods
    <3>3. period = Min(periods)
      BY DEF period
    <3>4. DOMAIN r.widths = 0..(period - 1)
      BY <3>1 DEF periodic, v, Reset
    <3>5. c.candidates \subseteq 1..PERIOD_CAPACITY
      BY DEF Kept
    <3> QED BY ONLY <3>1, <3>2, <3>3, <3>4, <3>5, PeriodicBounded
  <2>9. CASE r \in o9
    BY <1>13, <2>9, IntervalChoice
  <2>10. CASE r \in o10
    BY <1>14, <2>10, FactorizedChoice
  <2>11. CASE r \in o11
    BY <1>15, <2>1, <2>11
  <2>12. CASE r \in o12
    BY <1>16, <2>12, PackedBounded
  <2> QED BY <1>20, <1>26, <2>2, <2>3, <2>4, <2>5, <2>6, <2>7, <2>8, <2>9, <2>10, <2>11, <2>12
<1> QED BY <1>20, <1>23, <1>24, <1>25, <1>26

LEMMA AnswersKept ==
  ASSUME items' = items, NEW c, NEW g, Answers(c, g)
  PROVE  Answers(c, g)'
<1>1. /\ Starts' = Starts /\ Total' = Total
      /\ \A i : Width(i)' = Width(i) /\ Shape(i)' = Shape(i)
  BY DEF Starts, Total, Width, Shape
<1>2. HashesSeparateWidths' = HashesSeparateWidths
  BY <1>1 DEF HashesSeparateWidths
<1>3. \A n : Span(g, n)' = Span(g, n)
  BY <1>1 DEF Span, ReplaySpan
<1>4. Exact(g)' = Exact(g)
  BY <1>3 DEF Exact
<1> QED BY <1>2, <1>4 DEF Answers

(* Before the first item.                                                  *)
LEMMA PreparedBuilder ==
  ASSUME NEW total \in Nat, NEW b, b = Prepared(total), NEW g,
         g = Reset(IF total <= RANKED_CAPACITY THEN "ranked" ELSE "factorized")
  PROVE  Stored(b, g, <<>>, total) /\ Observed(b, g, <<>>)
<1> DEFINE small == total <= RANKED_CAPACITY
           large == total > RANKED_CAPACITY
           none == <<>>
<1>1. /\ DOMAIN b = BuilderFields
      /\ b.ranked_candidate = small /\ b.factor_candidate = large
      /\ b.factor_valid = large
      /\ \A x \in BuilderFields \ {"ranked_candidate", "factor_candidate", "factor_valid"} :
           b[x] = NewBuilder[x]
  BY DEF Prepared, NewBuilder, BuilderFields
<1>2. /\ NewBuilder.period_widths = Empty /\ NewBuilder.palette = {}
      /\ NewBuilder.candidates = 1..PERIOD_CAPACITY /\ NewBuilder.run_count = 0
      /\ NewBuilder.current_width = 0 /\ NewBuilder.current_len = 0
      /\ NewBuilder.common_run_len = 0 /\ NewBuilder.fixed_width = Unset
      /\ NewBuilder.affine_base = 0 /\ NewBuilder.affine_slope = 0
      /\ NewBuilder.items = 0 /\ NewBuilder.factor_base = 0 /\ NewBuilder.shape_period = 0
  BY DEF NewBuilder
<1>3. /\ ~NewBuilder.started /\ ~NewBuilder.shape_attempted /\ ~NewBuilder.shape_candidate
      /\ NewBuilder.factor_high_component = FALSE
  BY DEF NewBuilder
<1>4. /\ b.period_widths = Empty /\ b.palette = {} /\ b.candidates = 1..PERIOD_CAPACITY
      /\ b.run_count = 0 /\ b.current_width = 0 /\ b.current_len = 0
      /\ b.common_run_len = 0 /\ b.fixed_width = Unset /\ b.affine_base = 0
      /\ b.affine_slope = 0 /\ b.items = 0 /\ b.factor_base = 0 /\ b.shape_period = 0
      /\ ~b.started /\ ~b.shape_attempted /\ ~b.shape_candidate
      /\ b.factor_high_component = FALSE
  BY <1>1, <1>2, <1>3 DEF BuilderFields
<1>5. /\ DOMAIN g = GeometryFields /\ Slots(g) /\ g.widths = Empty
      /\ small => g.kind = "ranked"
      /\ ~small => g.kind = "factorized"
  BY ResetFields
<1>6. g.codes = Empty
  BY DEF Reset
<1>7. Len(none) = 0 /\ none \in Seq(Measures) /\ Items(none) = {} /\ 0..(Len(none) - 1) = {}
  BY DEF Items
<1>8. DOMAIN b.period_widths \subseteq 0..(PERIOD_CAPACITY - 1)
  BY <1>4 DEF Empty
<1>9. Palette(b)
  BY <1>4, FS_EmptySet, GeometryAssumption DEF Palette
<1>10. Modes(b, g, total)
  <2>1. large => ~small
    <3>1. RANKED_CAPACITY \in Nat
      BY GeometryAssumption
    <3> QED BY ONLY <3>1, total \in Nat
  <2> HIDE DEF small, large
  <2>2. b.ranked_candidate => small /\ g.kind = "ranked"
    BY ONLY <1>1, <1>5, Zenon
  <2>3. b.factor_candidate => large /\ g.kind = "factorized"
    BY ONLY <1>1, <1>5, <2>1, Zenon
  <2> QED BY ONLY <1>4, <2>2, <2>3 DEF Modes, small, large
<1> HIDE DEF none
<1>11. Stored(b, g, none, total)
  BY <1>1, <1>4, <1>5, <1>7, <1>8, <1>9, <1>10 DEF Stored
<1>12. Fixed(b, none)
  BY <1>4, <1>7 DEF Fixed
<1>13. Affine(b, none)
  BY <1>4, <1>7 DEF Affine
<1>14. Cut(b, none, 0) /\ Whole(b, 0)
  BY <1>4 DEF Cut, Whole
<1>15. Running(b, none)
  BY <1>4, <1>7, <1>14 DEF Running
<1>16. Ranked(b, g, none)
  BY <1>7 DEF Ranked
<1>17. Factor(b, g, none)
  <2> DEFINE f == Factors(b, g)
             valid == b.factor_valid
             no == FALSE
  <2>1. valid \in BOOLEAN
    BY <1>1
  <2>2. b.factor_high_component = no
    BY <1>4
  <2> HIDE DEF valid, no
  <2>3. f = [base |-> 0, components |-> Empty, valid |-> valid, high |-> no]
    BY ONLY <1>4, <1>6, <2>2 DEF Factors, valid
  <2>4. 0 \in Int /\ no \in BOOLEAN
    BY DEF no
  <2> HIDE DEF f
  <2>5. f \in FactorState
    BY ONLY <2>1, <2>3, <2>4, NoComponents DEF FactorState
  <2>6. Factored(f, none, 0)
    BY <2>5, FreshFactored
  <2> QED BY <1>7, <2>6 DEF Factor, f
<1> QED BY <1>4, <1>11, <1>12, <1>13, <1>15, <1>16, <1>17 DEF Observed, Shaped, none
-----------------------------------------------------------------------------
(* The invariant.  Until the array is framed the builder's fields are what *)
(* the observers make of the items so far; then the choice stands.         *)
Watching ==
  /\ Stored(builder, geometry, items, count)
  /\ count <= U32Max => Observed(builder, geometry, items)

Settled ==
  /\ Total = count /\ Palette(builder) /\ Bounded(geometry)
  /\ DOMAIN builder.period_widths \subseteq 0..(PERIOD_CAPACITY - 1)
  /\ count <= U32Max => Answers(builder, geometry)

GeometryInvariant ==
  /\ count \in Counts /\ items \in Seq(Measures) /\ Total <= count
  /\ cursor = Starts[Total]
  /\ phase \in {"framing", "framed", "rejected"}
  /\ phase # "framed" => Watching
  /\ phase = "framed" => Settled

LEMMA InvariantBegins == Init => GeometryInvariant
<1> SUFFICES ASSUME Init PROVE GeometryInvariant
  OBVIOUS
<1>1. /\ count \in Counts /\ count \in Nat /\ items = <<>> /\ cursor = 0
      /\ builder = Prepared(count) /\ phase = "framing"
      /\ geometry = Reset(IF count <= RANKED_CAPACITY THEN "ranked" ELSE "factorized")
  BY GeometryAssumption DEF Init
<1>2. Stored(builder, geometry, <<>>, count) /\ Observed(builder, geometry, <<>>)
  BY <1>1, PreparedBuilder
<1>3. items \in Seq(Measures) /\ Total = 0
  BY <1>1 DEF Total
<1>4. Starts[Total] = 0
  BY <1>3, ItemsAre, StartSteps
<1> QED BY <1>1, <1>2, <1>3, <1>4 DEF GeometryInvariant, Watching

LEMMA ItemKeepsInvariant ==
  ASSUME GeometryInvariant, NEW m \in Measures, FrameItem(m)
  PROVE  GeometryInvariant'
<1> DEFINE r == Push([b |-> builder, g |-> geometry], Total, cursor, m)
<1>1. /\ phase = "framing" /\ Total < count /\ builder' = r.b /\ geometry' = r.g
      /\ items' = Append(items, m) /\ cursor' = cursor + m.consumed
      /\ count' = count /\ phase' = phase
  BY DEF FrameItem
<1>2. /\ items \in Seq(Measures) /\ count \in Nat /\ count \in Counts
      /\ Total = Len(items) /\ Len(items) \in Nat /\ cursor = StartOf(items)[Len(items)]
      /\ Stored(builder, geometry, items, count)
      /\ count <= U32Max => Observed(builder, geometry, items)
  BY <1>1, ItemsAre, MeasureOf, GeometryAssumption DEF GeometryInvariant, Watching
<1>3. items' \in Seq(Measures) /\ Len(items') = Len(items) + 1
  BY <1>1, <1>2, Appended
<1>4. Len(items') <= count
  BY <1>1, <1>2, <1>3
<1>5. U32Max \in Nat
  BY GeometryAssumption
<1>6. /\ Stored(r.b, r.g, items', count)
      /\ Observed(builder, geometry, items) /\ Len(items') <= U32Max
           => Observed(r.b, r.g, items')
  <2>1. ItemPushed(builder, geometry, PushedOn(builder, geometry, items, m), items,
                   Append(items, m), count)
    BY <1>2, ItemPushes
  <2>2. r = PushedOn(builder, geometry, items, m)
    BY <1>2 DEF PushedOn
  <2> HIDE DEF r
  <2> QED BY <1>1, <2>1, <2>2 DEF ItemPushed
<1>7. count <= U32Max => Len(items') <= U32Max
  BY <1>2, <1>3, <1>4, <1>5
<1> HIDE DEF r
<1>8. Watching'
  BY <1>1, <1>2, <1>6, <1>7 DEF Watching
<1>9. StartOf(items')[Len(items')] = StartOf(items)[Len(items)] + m.consumed
  BY <1>1, <1>2, StartsKept
<1>10. Starts' = StartOf(items') /\ Total' = Len(items')
  BY DEF Starts, StartOf, Total, Width
<1>11. cursor' = Starts'[Total']
  BY <1>1, <1>2, <1>9, <1>10
<1> QED BY <1>1, <1>2, <1>3, <1>4, <1>8, <1>10, <1>11 DEF GeometryInvariant

LEMMA EndKeepsInvariant ==
  ASSUME GeometryInvariant, FinishFraming
  PROVE  GeometryInvariant'
<1> DEFINE c == IF builder.started THEN [FinishRun(builder, TRUE) EXCEPT !.started = FALSE]
                ELSE builder
           r == ChooseGeometry(c, geometry)
<1>1. /\ phase = "framing" /\ Total = count /\ builder' = c /\ geometry' = r
      /\ phase' = "framed" /\ items' = items /\ cursor' = cursor /\ count' = count
  BY DEF FinishFraming
<1>2. /\ items \in Seq(Measures) /\ count \in Nat /\ count \in Counts /\ count = Len(items)
      /\ Total <= count /\ cursor = Starts[Total]
      /\ Stored(builder, geometry, items, count)
      /\ count <= U32Max => Observed(builder, geometry, items)
  BY <1>1, ItemsAre, GeometryAssumption DEF GeometryInvariant, Watching
<1>3. /\ Kept(c, geometry, count)
      /\ Observed(builder, geometry, items) => Completed(c, geometry, items)
  BY <1>2, CompleteStep
<1> HIDE DEF c
<1>4. /\ Bounded(r)
      /\ Completed(c, geometry, items) => Answers(c, r)
  <2>1. r = ChooseGeometry(c, geometry)
    OBVIOUS
  <2> HIDE DEF r
  <2> QED BY ONLY <1>2, <1>3, <2>1, ChoiceStep
<1> HIDE DEF r
<1>5. Palette(c) /\ DOMAIN c.period_widths \subseteq 0..(PERIOD_CAPACITY - 1)
  BY <1>3 DEF Kept
<1>6. Starts' = Starts /\ Total' = Total
  BY <1>1 DEF Starts, Total, Width
<1>7. count <= U32Max => Answers(builder, geometry)'
  <2>1. /\ HashesSeparateWidths' = HashesSeparateWidths
        /\ \A g, n : Span(g, n)' = Span(g, n)
    <3>1. \A i : Width(i)' = Width(i) /\ Shape(i)' = Shape(i)
      BY <1>1 DEF Width, Shape
    <3> QED BY <1>6, <3>1 DEF HashesSeparateWidths, Span, ReplaySpan
  <2> QED BY <1>1, <1>2, <1>3, <1>4, <2>1 DEF Answers, Exact
<1>8. Settled'
  BY <1>1, <1>4, <1>5, <1>6, <1>7 DEF Settled, Bounded, Palette
<1> QED BY <1>1, <1>2, <1>6, <1>8 DEF GeometryInvariant

LEMMA InvariantStays == GeometryInvariant /\ [Next]_vars => GeometryInvariant'
<1> SUFFICES ASSUME GeometryInvariant, [Next]_vars PROVE GeometryInvariant'
  OBVIOUS
<1>1. CASE \E m \in Measures : FrameItem(m)
  BY <1>1, ItemKeepsInvariant
<1>2. CASE FinishFraming
  BY <1>2, EndKeepsInvariant
<1>3. ASSUME UNCHANGED <<count, items, cursor, builder, geometry>>,
             phase' = phase \/ (phase = "framing" /\ phase' = "rejected")
      PROVE  GeometryInvariant'
  <2>1. Starts' = Starts /\ Total' = Total
    BY <1>3 DEF Starts, Total, Width
  <2>2. Watching => Watching'
    BY <1>3 DEF Watching
  <2>3. Settled => Settled'
    <3>1. Answers(builder, geometry) => Answers(builder, geometry)'
      <4>1. /\ HashesSeparateWidths' = HashesSeparateWidths
            /\ \A g, n : Span(g, n)' = Span(g, n)
        <5>1. \A i : Width(i)' = Width(i) /\ Shape(i)' = Shape(i)
          BY <1>3 DEF Width, Shape
        <5> QED BY <2>1, <5>1 DEF HashesSeparateWidths, Span, ReplaySpan
      <4> QED BY <1>3, <4>1 DEF Answers, Exact
    <3> QED BY <1>3, <2>1, <3>1 DEF Settled, Bounded, Palette
  <2> QED BY <1>3, <2>1, <2>2, <2>3 DEF GeometryInvariant
<1>4. CASE RejectItem
  BY <1>3, <1>4 DEF RejectItem
<1>5. CASE UNCHANGED vars
  BY <1>3, <1>5 DEF vars
<1> QED BY <1>1, <1>2, <1>4, <1>5 DEF Next

LEMMA AlwaysInvariant == Spec => []GeometryInvariant
<1> QED BY InvariantBegins, InvariantStays, PTL DEF Spec

(* The builder and the geometry never outgrow their fixed storage, however *)
(* many items there are and however wide: the palette and the shape table  *)
(* hold at most their capacity, the periodic strategy's table at most its  *)
(* own, and the run widths and borders stay inside their array.            *)
THEOREM TypeCorrect == Spec => []TypeOK
<1>1. GeometryInvariant => TypeOK
  <2> SUFFICES ASSUME GeometryInvariant PROVE TypeOK
    OBVIOUS
  <2>1. /\ Palette(builder) /\ Bounded(geometry)
        /\ DOMAIN builder.period_widths \subseteq 0..(PERIOD_CAPACITY - 1)
    BY DEF GeometryInvariant, Watching, Settled, Stored, Slots, Bounded
  <2>2. PALETTE_CAPACITY \in Nat /\ PERIOD_CAPACITY \in Nat
    BY GeometryAssumption
  <2> DEFINE most == Max({PALETTE_CAPACITY, PERIOD_CAPACITY})
  <2>3. PALETTE_CAPACITY <= most /\ PERIOD_CAPACITY <= most /\ most \in Nat
    <3>1. \E x \in {PALETTE_CAPACITY, PERIOD_CAPACITY} :
            \A y \in {PALETTE_CAPACITY, PERIOD_CAPACITY} : x >= y
      BY <2>2
    <3> QED BY <2>2, <3>1 DEF Max
  <2> HIDE DEF most
  <2>4. IsFiniteSet(DOMAIN geometry.widths) => Cardinality(DOMAIN geometry.widths) \in Nat
    BY FS_CardinalityType
  <2>5. Cardinality(DOMAIN geometry.widths) <= most
    BY <2>1, <2>2, <2>3, <2>4 DEF Bounded
  <2> QED BY <2>1, <2>5 DEF GeometryInvariant, TypeOK, Palette, most
<1> QED BY <1>1, AlwaysInvariant, PTL

(* Every strategy the builder can settle on answers every get(n) with the  *)
(* span a replay of the items finds, for every capacity and every sequence *)
(* of measures, as long as the items are no more than a u32 counts: from   *)
(* there on the run length saturates.  Only a shape strategy settled while *)
(* framing needs hashes that separate the widths.                          *)
THEOREM LookupsAreExact == Spec => [](count <= U32Max => LookupExact)
<1>1. GeometryInvariant => (count <= U32Max => LookupExact)
  <2> SUFFICES ASSUME GeometryInvariant, count <= U32Max, phase = "framed"
               PROVE  \/ \A n \in 0..(count - 1) : ExactSpan(n)
                      \/ /\ geometry.kind = "shape" /\ builder.shape_attempted
                         /\ ~HashesSeparateWidths
    BY DEF LookupExact
  <2>1. Total = count /\ Answers(builder, geometry)
    BY DEF GeometryInvariant, Settled
  <2>2. ASSUME Exact(geometry), NEW n \in 0..(count - 1) PROVE ExactSpan(n)
    <3>1. n \in Items(items)
      BY <2>1, ItemsAre DEF Items
    <3>2. Span(geometry, n) = SpanOf(items, n)
      BY <2>2, <3>1 DEF Exact
    <3> QED BY <3>2, ItemsAre DEF ExactSpan, ReplaySpan, SpanOf
  <2> QED BY <2>1, <2>2 DEF Answers
<1> QED BY <1>1, AlwaysInvariant, PTL
=============================================================================
