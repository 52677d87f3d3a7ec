--------------------------- MODULE RecursiveExtent ---------------------------
(***************************************************************************)
(* What skipping one root promises: the measure of the root that starts    *)
(* the input, or the first error in the order of its bytes, in one step,   *)
(* and always an answer.                                                   *)
(*                                                                         *)
(* Written by descent into the grammar, one call per root and level of the *)
(* depth budget, where the generated code is a loop with a stack.          *)
(***************************************************************************)
EXTENDS RecursiveGrammar

(* A root: where it ends, how many levels of roots it holds, and the walk  *)
(* of selectors and leaf widths its structural hash is taken over.         *)
Root(end, nested, walk) ==
  [tag |-> "ok", end |-> end, nested |-> nested, walk |-> walk]

(* From a root or a run of them, go on; from an error, stay.               *)
Join(r, Next(_)) ==
  IF r.tag # "ok" THEN r
  ELSE LET s == Next(r.end)
       IN  IF s.tag # "ok" THEN s
           ELSE Root(s.end, Max({r.nested, s.nested}), r.walk \o s.walk)

(* The body that starts at `start'; From(p) is the child root at p.        *)
Extent(body, input, base, start, From(_)) ==
  LET Take(p, n) ==
        IF p + n > Len(input)
        THEN NeedMore("recursive", base + Len(input), p + n - Len(input))
        ELSE Root(p + n, 0, <<>>)
      OneChild(p) ==
        LET c == From(p)
        IN  IF c.tag # "ok" THEN c ELSE [c EXCEPT !.nested = @ + 1]
      value   == Decode(Bytes(input, start, start + body.width))
      stops   == <<0>> \o Children(body) \o <<Len(body.parts) + 1>>
      Segment(k) == WidthOf(body, stops[k] + 1, stops[k + 1] - 1)
      Gap(p)  == start + CheckedAlign(p + value + body.pad - start, body.align)
                 + body.scalar - p
      Bounded(p) ==
        IF base + p + value > UsizeMax \/ base + p + Gap(p) - body.scalar > UsizeMax
        THEN Failure("recursive", "layout", base + p, 0)
        ELSE Take(p, Gap(p))
  IN  CASE body.kind = "list" ->
             LET header == Take(start, body.width)
             IN  IF header.tag = "ok" /\ value > body.limit
                 THEN Failure("recursive", body.fault, base + start, 0)
                 ELSE FoldLeft(LAMBDA r, k : Join(r, OneChild), header,
                               [k \in 1..(IF header.tag = "ok" THEN value ELSE 0) |-> k])
        [] body.kind = "object" ->
             FoldLeft(LAMBDA r, k : Join(Join(r, OneChild),
                                         LAMBDA p : Take(p, Segment(k))),
                      Take(start, Segment(1)),
                      [k \in 1..(Len(stops) - 2) |-> k + 1])
        [] body.kind = "demand" ->
             Join(Join(Join(Take(start, body.width), OneChild), Bounded), OneChild)

(* The root at the start of the input, `remaining' levels being left.      *)
Measure(grammar, input, base, remaining) ==
  LET root[p \in 0..Len(input), levels \in 0..remaining] ==
        LET start    == p + SelectorWidth
            selector == Decode(Bytes(input, p, start))
            absolute == base + start
            body     == grammar[selector]
            leaf     == LeafFrame(body, Suffix(input, start), absolute)
            inner    == Extent(body, input, base, start,
                               LAMBDA q : root[q, levels - 1])
        IN  IF levels = 0 THEN Failure("root", "depth", base + p, 0)
            ELSE IF start > Len(input)
            THEN NeedMore("root", base + Len(input), start - Len(input))
            ELSE IF selector \notin DOMAIN grammar
            THEN Failure("root", "unknown", base + p, 0)
            ELSE IF body.kind = "unit" THEN Root(start, 0, <<<<selector, 0>>>>)
            ELSE IF Recursive(body)
            THEN IF inner.tag # "ok" THEN inner
                 ELSE [inner EXCEPT !.walk = <<<<selector>>>> \o @]
            ELSE IF leaf.tag # "done" THEN leaf
            ELSE IF start + leaf.advance > Len(input)
            THEN Failure("root", "invalid_frame", absolute, 0)
            ELSE Root(start + leaf.advance, 0, <<<<selector, leaf.advance>>>>)
      r == root[0, remaining]
  IN  IF r.tag = "ok" /\ ~Recursive(grammar[Decode(Bytes(input, 0, SelectorWidth))])
      THEN [r EXCEPT !.walk = <<>>]  \* no hash outside recursion
      ELSE r

-----------------------------------------------------------------------------
CONSTANTS Grammars, Inputs, Bases, DEPTH

VARIABLES grammar, input, base, remaining, answer

vars == <<grammar, input, base, remaining, answer>>

Unanswered == [tag |-> "none"]

Init ==
  /\ grammar \in Grammars /\ input \in Inputs /\ base \in Bases
  /\ remaining \in 0..DEPTH
  /\ answer = Unanswered

Answer ==
  /\ answer = Unanswered
  /\ answer' = Measure(grammar, input, base, remaining)
  /\ UNCHANGED <<grammar, input, base, remaining>>

Safety == Init /\ [][Answer]_vars

(* A call returns.                                                         *)
Spec == Safety /\ WF_vars(Answer)
=============================================================================
