------------------------- MODULE RecursiveGeometry -------------------------
(***************************************************************************)
(* The compact geometry retained for one recursive array: while the items  *)
(* are framed one after the other a fixed-size builder watches their       *)
(* widths and structural hashes; at the end it picks the strongest lookup  *)
(* strategy the observations prove, and get(n) computes item n's span from *)
(* that strategy without visiting the items before it.                     *)
(*                                                                         *)
(* Sources: wire-repr/src/recursive/geometry/{storage,build,lookup}.rs.    *)
(*                                                                         *)
(* One step frames one item; the last one chooses.  The bytes are          *)
(* abstracted to what the generated skip machine measures of each item, so *)
(* the later passes over the same input (deferred shape, intervals, factor *)
(* components, packed runs) read `items' again.  A palette class stands    *)
(* for the width, a shape class for the hash it was created from.          *)
(***************************************************************************)
EXTENDS Integers, Sequences, FiniteSets, FiniteSetsExt, SequencesExt

CONSTANTS
  PALETTE_CAPACITY, PERIOD_CAPACITY, INTERVAL_CAPACITY, RANKED_CAPACITY,
  RANKED_BLOCK, PACKED_RUN_CAPACITY, PACKED_RUN_BLOCK,
  FACTOR_LENGTHS, FACTOR_BLOCKS,
  U16Max, U32Max,  \* u16::MAX and u32::MAX, scaled down
  Measures,        \* what the skip machine may answer for one item
  Counts           \* declared item counts to explore (model bound)

(* What the code's own numbers satisfy: 64 * 65535 and 256 * 65535 fit in  *)
(* 32 bits, so neither a cycle sum nor a ranked prefix can overflow; the   *)
(* blocks of the factorised digits are the products of the lengths before. *)
ASSUME GeometryAssumption ==
  /\ {PALETTE_CAPACITY, PERIOD_CAPACITY, INTERVAL_CAPACITY, RANKED_CAPACITY,
      RANKED_BLOCK, PACKED_RUN_CAPACITY, PACKED_RUN_BLOCK, U16Max, U32Max}
       \subseteq Nat \ {0}
  /\ PERIOD_CAPACITY <= RANKED_CAPACITY
  /\ PERIOD_CAPACITY * U16Max <= U32Max /\ RANKED_CAPACITY * U16Max <= U32Max
  /\ {FACTOR_LENGTHS, FACTOR_BLOCKS} \subseteq Seq(Nat \ {0})
  /\ Len(FACTOR_LENGTHS) = Len(FACTOR_BLOCKS) /\ FACTOR_BLOCKS[1] = 1
  /\ \A axis \in 2..Len(FACTOR_BLOCKS) :
       FACTOR_BLOCKS[axis] = FACTOR_BLOCKS[axis - 1] * FACTOR_LENGTHS[axis - 1]
  /\ \A m \in Measures : /\ m.consumed \in Nat /\ m.nested \in BOOLEAN
  /\ Counts \subseteq Nat

VARIABLES
  count,     \* items the controller field announced
  items,     \* measures of the items framed so far: the input itself
  cursor,    \* where the next item starts
  builder,   \* RecursiveGeometryBuilder
  geometry,  \* RecursiveGeometry
  phase      \* "framing", "framed" or "rejected"

vars == <<count, items, cursor, builder, geometry, phase>>

Axes  == DOMAIN FACTOR_LENGTHS
Least(a, b) == IF a <= b THEN a ELSE b

(* i16 and i32 at the scaled widths. *)
I16 == (-((U16Max + 1) \div 2))..((U16Max - 1) \div 2)
I32 == (-((U32Max + 1) \div 2))..((U32Max - 1) \div 2)

Unset == -1  \* fixed_width = None
Mixed == -2  \* fixed_width = Some(usize::MAX)

-----------------------------------------------------------------------------
(* Storage: what each strategy keeps; reset clears all of it.              *)

Empty == [x \in {} |-> 0]
At(f, x) == IF x \in DOMAIN f THEN f[x] ELSE 0
Put(f, x, v) == [y \in DOMAIN f \cup {x} |-> IF y = x THEN v ELSE f[y]]

(* f[low] + ... + f[high - 1], as the loops of the code add them up.       *)
Added(f, low, high) ==
  LET sum[i \in low..high] == IF i = low THEN 0 ELSE sum[i - 1] + f[i - 1]
  IN  sum[high]

Reset(kind) ==
  [kind |-> kind, base |-> 0, slope |-> 0, period |-> 0, cycle |-> 0,
   codes |-> Empty, widths |-> Empty, prefix |-> Empty, segments |-> <<>>]

FactorDigit(index, axis) ==
  (index \div FACTOR_BLOCKS[axis]) % FACTOR_LENGTHS[axis]

NewBuilder ==
  [period_widths |-> Empty, palette |-> {}, candidates |-> 1..PERIOD_CAPACITY,
   run_count |-> 0, current_width |-> 0, current_len |-> 0,
   common_run_len |-> 0, fixed_width |-> Unset, affine_base |-> 0,
   affine_slope |-> 0, items |-> 0, started |-> FALSE,
   periodic_failed |-> FALSE, common_runs_failed |-> FALSE,
   palette_failed |-> FALSE, affine_failed |-> FALSE, saw_nested |-> FALSE,
   compressible |-> TRUE, ranked_candidate |-> FALSE,
   factor_candidate |-> FALSE, factor_valid |-> FALSE,
   factor_high_component |-> FALSE, factor_base |-> 0, shape_period |-> 0,
   shape_attempted |-> FALSE, shape_candidate |-> FALSE]

(* prepare: a small array records ranks, a large one factor components.    *)
Prepared(n) ==
  [NewBuilder EXCEPT !.ranked_candidate = n <= RANKED_CAPACITY,
                     !.factor_candidate = n > RANKED_CAPACITY,
                     !.factor_valid = n > RANKED_CAPACITY]

Init ==
  /\ count \in Counts
  /\ items = <<>> /\ cursor = 0
  /\ builder = Prepared(count)
  /\ geometry = Reset(IF count <= RANKED_CAPACITY THEN "ranked"
                      ELSE "factorized")
  /\ phase = "framing"

-----------------------------------------------------------------------------
(* push, one observer after the other; each maps a pair of a builder b and *)
(* a geometry g.                                                           *)

ObserveAffine(b, width) ==
  CASE b.items = 0 -> [b EXCEPT !.affine_base = width]
    [] b.items = 1 ->
         IF width - b.affine_base \in I32
         THEN [b EXCEPT !.affine_slope = width - b.affine_base]
         ELSE [b EXCEPT !.affine_failed = TRUE]
    [] OTHER ->
         [b EXCEPT !.affine_failed =
            @ \/ b.affine_base + b.affine_slope * b.items # width]

ObserveFixed(b, width) ==
  [b EXCEPT !.fixed_width = IF @ \in {Unset, width} THEN width ELSE Mixed]

(* Mutant: a full palette takes one more width.                            *)
ObservePaletteOverfull(s, index, start, width) ==
  [s EXCEPT !.b.palette = IF ~s.b.palette_failed /\ width <= U16Max
                          THEN @ \cup {width} ELSE @,
            !.b.ranked_candidate = FALSE]

(* The palette of distinct widths and, for a small array, the rank codes.  *)
ObservePalette(s, index, start, width) ==
  LET b == s.b
      classed == /\ ~b.palette_failed /\ width <= U16Max
                 /\ \/ width \in b.palette
                    \/ Cardinality(b.palette) < PALETTE_CAPACITY
      ranked == b.ranked_candidate /\ classed
      block  == index % RANKED_BLOCK = 0
  IN  [b |-> [b EXCEPT !.palette = IF classed THEN @ \cup {width} ELSE @,
                       !.palette_failed = ~classed,
                       !.ranked_candidate =
                          ranked /\ (block => start <= U32Max)],
       g |-> IF ranked
             THEN [s.g EXCEPT
                     !.codes = Put(@, index, width),
                     !.prefix = IF block /\ start <= U32Max
                                THEN Put(@, index \div RANKED_BLOCK, start)
                                ELSE @]
             ELSE s.g]

(* One Knuth-Morris-Pratt step: the longest border of the codes so far.    *)
(* Every pass of the loop shortens the candidate, so index are enough.     *)
Border(codes, borders, index) ==
  LET candidate[k \in 0..index] ==
        IF k = 0 THEN (IF index = 0 THEN 0 ELSE borders[index - 1])
        ELSE LET p == candidate[k - 1]
             IN  IF p = 0 \/ codes[index] = codes[p] THEN p ELSE borders[p - 1]
      p == candidate[index]
  IN  IF index # 0 /\ codes[index] = codes[p] THEN p + 1 ELSE p

(* Mutant: a full table of shapes takes one more.                          *)
PushShapeOverfull(s, index, width, shape) ==
  [s EXCEPT !.g.widths = Put(@, shape, width),
            !.b.shape_candidate = width <= U16Max]

(* push_shape: a class per shape hash, its width taken from the first item *)
(* of that hash, and the period of the class codes.  A later item of the   *)
(* same hash and another width drops the candidate, but the function goes  *)
(* on, and beyond PERIOD_CAPACITY its last line decides afresh.  An item   *)
(* wider than a u32 at index PERIOD_CAPACITY - 1 leaves shape_period at 0, *)
(* and the code then divides by it: not modelled beyond that division.     *)
PushShape(s, index, width, shape) ==
  LET b == s.b
      g == s.g
      known   == shape \in DOMAIN g.widths
      widths  == IF known THEN g.widths ELSE Put(g.widths, shape, width)
      codes   == Put(g.codes, index, shape)
      border  == Border(codes, b.period_widths, index)
      honest  == known => g.widths[shape] = width
      dropped == [s EXCEPT !.b.shape_candidate = FALSE]
  IN  IF \/ width > U16Max
         \/ ~known /\ Cardinality(DOMAIN g.widths) >= PALETTE_CAPACITY
      THEN dropped
      ELSE IF index < PERIOD_CAPACITY
      THEN [b |-> [b EXCEPT
                     !.shape_candidate = honest,
                     !.period_widths = Put(@, index, border),
                     !.shape_period = IF index + 1 = PERIOD_CAPACITY
                                      THEN PERIOD_CAPACITY - border ELSE @],
            g |-> [g EXCEPT !.widths = widths, !.codes = codes]]
      ELSE [b |-> [b EXCEPT
                     !.shape_candidate =
                        shape = g.codes[index % b.shape_period]],
            g |-> [g EXCEPT !.widths = widths]]

ObserveShape(s, index, m) ==
  LET first == index = 0 /\ m.nested /\ s.b.factor_candidate
      entered == [b |-> [s.b EXCEPT !.shape_attempted = TRUE,
                                    !.shape_candidate = TRUE,
                                    !.factor_candidate = FALSE,
                                    !.periodic_failed = TRUE,
                                    !.factor_valid = FALSE],
                  g |-> Reset("shape")]
  IN  IF first THEN PushShape(entered, index, m.consumed, m.shape)
      ELSE IF s.b.shape_candidate
      THEN PushShape(s, index, m.consumed, m.shape)
      ELSE s

(* push_factor: the components of the width's mixed-radix digits; a digit  *)
(* met for the first time absorbs what the known components leave over.    *)
(* f is what the builder and the geometry keep of it.                      *)
Factors(b, g) ==
  [base |-> b.factor_base, components |-> g.codes, valid |-> b.factor_valid,
   high |-> b.factor_high_component]

Predicted(f, index) ==
  f.base + Added(
    [axis \in Axes |-> At(f.components, <<axis, FactorDigit(index, axis)>>)],
    1, Len(FACTOR_LENGTHS) + 1)

Learn(f, index, width, axis) ==
  LET component == <<axis, FactorDigit(index, axis)>>
      delta == width - Predicted(f, index)
  IN  IF component \in DOMAIN f.components \/ ~f.valid THEN f
      ELSE IF delta \notin I16 THEN [f EXCEPT !.valid = FALSE]
      ELSE [f EXCEPT !.components = Put(@, component, delta),
                     !.high = @ \/ (axis > 1 /\ delta # 0)]

PushFactor(f, index, width) ==
  LET based == IF index # 0 THEN f
               ELSE [f EXCEPT !.base = width,
                              !.components =
                                [c \in {<<axis, 0>> : axis \in Axes} |-> 0]]
      learnt[axis \in 0..Len(FACTOR_LENGTHS)] ==
        IF axis = 0 THEN based ELSE Learn(learnt[axis - 1], index, width, axis)
      all == learnt[Len(FACTOR_LENGTHS)]
  IN  [all EXCEPT !.valid = @ /\ Predicted(all, index) = width]

ObserveFactor(s, index, width) ==
  LET f == PushFactor(Factors(s.b, s.g), index, width)
  IN  IF s.b.factor_candidate /\ s.b.factor_valid
      THEN [b |-> [s.b EXCEPT !.factor_base = f.base, !.factor_valid = f.valid,
                              !.factor_high_component = f.high],
            g |-> [s.g EXCEPT !.codes = f.components]]
      ELSE s

(* Mutant: the last run may also be longer than the common length.         *)
FinishRunLongTail(b, final) ==
  LET first  == b.common_run_len = 0
      uneven == ~first /\ ~final /\ b.current_len # b.common_run_len
      index  == b.run_count
      table  == IF index < PERIOD_CAPACITY
                THEN Put(b.period_widths, index, b.current_width)
                ELSE b.period_widths
      failed == b.periodic_failed \/ uneven \/ b.current_width > U16Max
  IN  [b EXCEPT !.common_run_len = IF first THEN b.current_len ELSE @,
                !.common_runs_failed = @ \/ uneven,
                !.period_widths = table,
                !.candidates = {p \in @ : p <= index =>
                                  b.current_width = table[index % p]},
                !.periodic_failed = failed,
                !.run_count = index + 1]

(* finish_run: a run of equal widths ends; all runs must be as long as the *)
(* first one (the last may be shorter) and the periods that stay possible  *)
(* are those the run's width does not contradict.                          *)
FinishRun(b, final) ==
  LET first  == b.common_run_len = 0
      uneven == /\ ~first
                /\ IF final THEN b.current_len > b.common_run_len
                   ELSE b.current_len # b.common_run_len
      index  == b.run_count
      table  == IF ~b.shape_attempted /\ index < PERIOD_CAPACITY
                THEN Put(b.period_widths, index, b.current_width)
                ELSE b.period_widths
      failed == b.periodic_failed \/ uneven
      left   == IF failed THEN b.candidates
                ELSE {p \in b.candidates :
                        p <= index => b.current_width = table[index % p]}
  IN  IF b.current_width > U16Max
      THEN [b EXCEPT !.periodic_failed = TRUE, !.common_runs_failed = TRUE,
                     !.run_count = index + 1]
      ELSE [b EXCEPT !.common_run_len = IF first THEN b.current_len ELSE @,
                     !.common_runs_failed = @ \/ uneven,
                     !.period_widths = table,
                     !.candidates = left,
                     !.periodic_failed = failed \/ left = {},
                     !.run_count = index + 1]

ObserveRun(b, width) ==
  IF b.started /\ b.current_width = width
  THEN [b EXCEPT !.current_len = Least(@ + 1, U32Max)]
  ELSE [(IF b.started THEN FinishRun(b, FALSE) ELSE b) EXCEPT
          !.started = TRUE, !.current_width = width, !.current_len = 1]

Push(s, index, start, m) ==
  LET width == m.consumed
      seen  == [s.b EXCEPT !.saw_nested = @ \/ m.nested]
      fit   == ObservePalette(
                 [b |-> ObserveAffine(ObserveFixed(seen, width), width),
                  g |-> s.g], index, start, width)
      built == ObserveFactor(ObserveShape(fit, index, m), index, width)
  IN  IF width > U32Max
      THEN [b |-> [seen EXCEPT !.compressible = FALSE, !.items = @ + 1],
            g |-> s.g]
      ELSE [built EXCEPT !.b = [ObserveRun(built.b, width) EXCEPT
                                  !.items = @ + 1]]

-----------------------------------------------------------------------------
(* The strategies that need a second pass over the items.                  *)

Width(i) == items[i + 1].consumed    \* items are numbered from 0
Shape(i) == items[i + 1].shape
Total    == Len(items)

Starts ==
  LET start[i \in 0..Total] ==
        IF i = 0 THEN 0 ELSE start[i - 1] + Width(i - 1)
  IN  start

(* Where a width differs from the one before it.                           *)
Heads ==
  LET heads[n \in 0..Total] ==
        IF n = 0 THEN <<>>
        ELSE IF n = 1 \/ Width(n - 1) # Width(n - 2)
             THEN Append(heads[n - 1], n - 1) ELSE heads[n - 1]
  IN  heads[Total]

(* Mutant: the second pass does not compare the widths of one hash.        *)
BuildRecursiveShapeUnproven ==
  LET used    == {Shape(i) : i \in 0..(Total - 1)}
      periods == {p \in 1..Least(PERIOD_CAPACITY, Total) :
                    \A i \in p..(Total - 1) : Shape(i) = Shape(i % p)}
  IN  IF periods = {} THEN {}
      ELSE {[Reset("shape") EXCEPT
               !.period = Min(periods),
               !.codes = [i \in 0..(Min(periods) - 1) |-> Shape(i)],
               !.widths = [h \in used |->
                             Width(Min({i \in 0..(Total - 1) : Shape(i) = h}))],
               !.cycle = Starts[Min(periods)]]}

(* build_recursive_shape: every hash has one width, and the hashes repeat. *)
BuildRecursiveShape ==
  LET used    == {Shape(i) : i \in 0..(Total - 1)}
      firstOf == [h \in used |->
                    Width(Min({i \in 0..(Total - 1) : Shape(i) = h}))]
      periods == {p \in 1..PERIOD_CAPACITY :
                    \A i \in p..(Total - 1) : Shape(i) = Shape(i % p)}
      usable  == {p \in periods : p <= Total}
  IN  IF /\ \A i \in 0..(Total - 1) : /\ Width(i) <= U16Max
                                      /\ Width(i) = firstOf[Shape(i)]
         /\ Cardinality(used) <= PALETTE_CAPACITY
         /\ usable # {}
      THEN {[Reset("shape") EXCEPT
               !.period = Min(usable),
               !.codes = [i \in 0..(Min(usable) - 1) |-> Shape(i)],
               !.widths = firstOf,
               !.cycle = Starts[Min(usable)]]}
      ELSE {}

BuildIntervals ==
  IF /\ Len(Heads) <= INTERVAL_CAPACITY
     /\ \A i \in ToSet(Heads) : Starts[i] <= U32Max /\ Width(i) <= U32Max
  THEN {[Reset("interval") EXCEPT
           !.segments = [k \in DOMAIN Heads |->
                           [item |-> Heads[k], byte |-> Starts[Heads[k]],
                            width |-> Width(Heads[k])]]]}
  ELSE {}

BuildFactorized ==
  LET fresh == [Factors(NewBuilder, Reset("factorized")) EXCEPT !.valid = TRUE]
      observed[n \in 0..Total] ==
        IF n = 0 THEN fresh
        ELSE LET f == observed[n - 1]
             IN  IF f.valid THEN PushFactor(f, n - 1, Width(n - 1)) ELSE f
      end == observed[Total]
  IN  IF end.valid /\ end.high
      THEN {[Reset("factorized") EXCEPT !.base = end.base,
                                        !.codes = end.components]}
      ELSE {}

RunLength(k) ==
  (IF k < Len(Heads) THEN Heads[k + 1] ELSE Total) - Heads[k]

BuildPackedRuns(run_len) ==
  LET runs   == DOMAIN Heads
      widths == {Width(Heads[k]) : k \in runs}
      blocks == {r \in 0..(Len(Heads) - 1) : r % PACKED_RUN_BLOCK = 0}
  IN  IF /\ run_len # 0
         /\ \A k \in runs : /\ RunLength(k) <= run_len
                            /\ k < Len(Heads) => RunLength(k) = run_len
         /\ Len(Heads) <= PACKED_RUN_CAPACITY
         /\ \A w \in widths : w <= U16Max
         /\ Cardinality(widths) <= PALETTE_CAPACITY
         /\ \A r \in blocks : Starts[Heads[r + 1]] <= U32Max
      THEN {[Reset("packed_runs") EXCEPT
               !.base = run_len,
               !.codes = [r \in 0..(Len(Heads) - 1) |-> Width(Heads[r + 1])],
               !.prefix = [q \in {r \div PACKED_RUN_BLOCK : r \in blocks} |->
                             Starts[Heads[q * PACKED_RUN_BLOCK + 1]]]]}
      ELSE {}

If(condition, choice) == IF condition THEN {choice} ELSE {}

(* choose_geometry: the strategies in the order in which the code tries    *)
(* them, each an empty set where its condition or its second pass fails.   *)
(* A failed second pass has cleared what the builder stored; it cannot     *)
(* precede a ranked answer, as the intervals of a ranked candidate whose   *)
(* runs fit always exist (GeometryAssumption).                             *)
Strategies(b, g) ==
  LET periods == IF b.periodic_failed THEN {}
                 ELSE {p \in b.candidates : p <= b.run_count}
      period  == Min(periods)
  IN << If(~b.compressible, Reset("replay")),
        If(count = 0, Reset("fixed")),
        If(b.fixed_width \in 0..U32Max,
           [Reset("fixed") EXCEPT !.base = b.fixed_width]),
        If(count >= 2 /\ ~b.affine_failed,
           [Reset("formula") EXCEPT !.base = b.affine_base,
                                    !.slope = b.affine_slope]),
        If(b.shape_candidate /\ b.shape_period # 0,
           [g EXCEPT !.period = b.shape_period,
                     !.cycle = Added([i \in 0..(b.shape_period - 1) |->
                                        g.widths[g.codes[i]]],
                                     0, b.shape_period)]),
        If(b.factor_candidate /\ b.factor_valid /\ b.factor_high_component,
           [g EXCEPT !.base = b.factor_base]),
        IF b.saw_nested /\ count > RANKED_CAPACITY /\ ~b.shape_attempted
        THEN BuildRecursiveShape ELSE {},
        If(periods # {},
           [Reset("periodic") EXCEPT
              !.period = period,
              !.base = b.common_run_len,
              !.widths = [i \in 0..(period - 1) |-> b.period_widths[i]],
              !.cycle = Added(b.period_widths, 0, period)]),
        IF b.run_count <= INTERVAL_CAPACITY THEN BuildIntervals ELSE {},
        IF ~b.factor_candidate /\ ~b.ranked_candidate
        THEN BuildFactorized ELSE {},
        If(b.ranked_candidate, g),
        IF /\ ~b.common_runs_failed /\ ~b.palette_failed
           /\ b.run_count <= PACKED_RUN_CAPACITY
        THEN BuildPackedRuns(b.common_run_len) ELSE {},
        {Reset("replay")} >>

ChooseGeometry(b, g) ==
  LET options == Strategies(b, g)
      first   == Min({k \in DOMAIN options : options[k] # {}})
  IN  CHOOSE choice \in options[first] : TRUE

-----------------------------------------------------------------------------
(* One round of measure_all with the observer of the first pass.           *)
FrameItem(m) ==
  /\ phase = "framing" /\ Total < count /\ m.consumed > 0
  /\ LET pushed == Push([b |-> builder, g |-> geometry], Total, cursor, m)
     IN  builder' = pushed.b /\ geometry' = pushed.g
  /\ items' = Append(items, m) /\ cursor' = cursor + m.consumed
  /\ UNCHANGED <<count, phase>>

(* The skip machine fails, or an item makes no progress.                   *)
RejectItem ==
  /\ phase = "framing" /\ Total < count
  /\ phase' = "rejected"
  /\ UNCHANGED <<count, items, cursor, builder, geometry>>

(* complete and choose_geometry.                                           *)
FinishFraming ==
  /\ phase = "framing" /\ Total = count
  /\ LET completed == IF builder.started
                      THEN [FinishRun(builder, TRUE) EXCEPT !.started = FALSE]
                      ELSE builder
     IN  /\ builder' = completed
         /\ geometry' = ChooseGeometry(completed, geometry)
  /\ phase' = "framed"
  /\ UNCHANGED <<count, items, cursor>>

Next ==
  \/ \E m \in Measures : FrameItem(m)
  \/ RejectItem
  \/ FinishFraming

Spec == Init /\ [][Next]_vars

-----------------------------------------------------------------------------
(* get(n): the span each strategy computes, as a pair of start and width.  *)

FormulaSpan(g, n) ==
  [start |-> n * g.base + (g.slope * n * (n - 1)) \div 2,
   width |-> g.base + g.slope * n]

IntervalSpan(g, n) ==
  LET later == {k \in DOMAIN g.segments : k > 1 /\ g.segments[k].item > n}
      last  == g.segments[IF later = {} THEN Len(g.segments)
                          ELSE Min(later) - 1]
  IN  [start |-> last.byte + (n - last.item) * last.width,
       width |-> last.width]

RankedSpan(g, n) ==
  LET block == n \div RANKED_BLOCK
  IN  [start |-> At(g.prefix, block)
                   + Added(g.codes, block * RANKED_BLOCK, n),
       width |-> At(g.codes, n)]

FactorPrefix(g, n) ==
  n * g.base + Added(
    [axis \in Axes |->
      LET block   == FACTOR_BLOCKS[axis]
          classes == FACTOR_LENGTHS[axis]
          class   == (n \div block) % classes
          value   == [c \in 0..(classes - 1) |-> At(g.codes, <<axis, c>>)]
          cycles  == (n \div block) \div classes
      IN  cycles * block * Added(value, 0, classes)
            + block * Added(value, 0, class)
            + (n % block) * value[class]],
    1, Len(FACTOR_LENGTHS) + 1)

FactorSpan(g, n) ==
  [start |-> FactorPrefix(g, n),
   width |-> FactorPrefix(g, n + 1) - FactorPrefix(g, n)]

ShapeSpan(g, n) ==
  LET tail == n % g.period
      widthOf == [i \in 0..(g.period - 1) |-> At(g.widths, At(g.codes, i))]
  IN  [start |-> (n \div g.period) * g.cycle + Added(widthOf, 0, tail),
       width |-> widthOf[tail]]

PeriodicSpan(g, n) ==
  LET run   == n \div g.base
      class == run % g.period
  IN  [start |-> (run \div g.period) * g.cycle * g.base
                   + g.base * Added(g.widths, 0, class)
                   + (n % g.base) * g.widths[class],
       width |-> g.widths[class]]

PackedSpan(g, n) ==
  LET run   == n \div g.base
      block == run \div PACKED_RUN_BLOCK
  IN  [start |-> At(g.prefix, block)
                   + g.base * Added(g.codes, block * PACKED_RUN_BLOCK, run)
                   + (n % g.base) * g.codes[run],
       width |-> g.codes[run]]

(* replay_span skips every item up to n again.                             *)
ReplaySpan(n) == [start |-> Starts[n], width |-> Width(n)]

Span(g, n) ==
  CASE g.kind = "fixed"       -> [start |-> n * g.base, width |-> g.base]
    [] g.kind = "formula"     -> FormulaSpan(g, n)
    [] g.kind = "interval"    -> IntervalSpan(g, n)
    [] g.kind = "ranked"      -> RankedSpan(g, n)
    [] g.kind = "factorized"  -> FactorSpan(g, n)
    [] g.kind = "shape"       -> ShapeSpan(g, n)
    [] g.kind = "periodic"    -> PeriodicSpan(g, n)
    [] g.kind = "packed_runs" -> PackedSpan(g, n)
    [] g.kind = "replay"      -> ReplaySpan(n)

-----------------------------------------------------------------------------
(* Properties                                                              *)

(* The builder and the geometry stay inside their bounded storage.         *)
TypeOK ==
  /\ count \in Counts /\ Total <= count
  /\ items \in Seq(Measures)
  /\ cursor = Starts[Total]
  /\ phase \in {"framing", "framed", "rejected"}
  /\ Cardinality(builder.palette) <= PALETTE_CAPACITY
  /\ Cardinality(DOMAIN geometry.widths) <=
       Max({PALETTE_CAPACITY, PERIOD_CAPACITY})
  /\ DOMAIN builder.period_widths \subseteq 0..(PERIOD_CAPACITY - 1)

(* One hash, one width: the generated structural hash told apart all items *)
(* of different widths.                                                    *)
HashesSeparateWidths ==
  \A i, j \in 0..(Total - 1) : Shape(i) = Shape(j) => Width(i) = Width(j)

ExactSpan(n) == Span(geometry, n) = ReplaySpan(n)

(* The strategy chosen for a framed array answers every get(n) with the    *)
(* span that replaying the items would find.  The one exception is the     *)
(* shape strategy settled while framing, on hashes that do not separate    *)
(* the widths (see GeometryProven).                                        *)
LookupExact ==
  phase = "framed" =>
    \/ \A n \in 0..(count - 1) : ExactSpan(n)
    \/ /\ geometry.kind = "shape" /\ builder.shape_attempted
       /\ ~HashesSeparateWidths

(* What the documentation promises: the complete observed sequence proves  *)
(* the chosen representation, whatever the hashes.                         *)
GeometryProven ==
  phase = "framed" => \A n \in 0..(count - 1) : ExactSpan(n)
=============================================================================
