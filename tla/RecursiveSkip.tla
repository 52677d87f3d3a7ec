---------------------------- MODULE RecursiveSkip ----------------------------
(***************************************************************************)
(* RecursiveFrame::skip: one root is measured by a loop over a stack of    *)
(* suspended bodies, instead of by calls that nest as deep as the input.   *)
(*                                                                         *)
(* Source: wire-repr-macros/src/derive/schema/enumeration/recursive/skip.rs*)
(*                                                                         *)
(* One step is one pass of 'parse (the selector and what its arm does) or  *)
(* one pass of the inner loop (one suspended body resumed).  The stack is  *)
(* an array of MaybeUninit, read with assume_init: what was never written  *)
(* is Uninit, and entries above stack_depth keep what they held.  The      *)
(* structural hash is kept as the walk it mixes.                           *)
(***************************************************************************)
EXTENDS RecursiveGrammar

CONSTANTS
  Grammars, Inputs, Bases,  \* schemas and calls to explore (model bounds)
  DEPTH                     \* the depth the view was asked for

ASSUME RecursiveSkipAssumption ==
  DEPTH \in Nat /\ Bases \subseteq Nat /\ \A s \in Inputs : s \in Seq(Nat)

VARIABLES
  grammar, input, base,  \* the schema and the call's arguments
  remaining,             \* depth.remaining()
  pending, stack_depth, cursor,
  walk,                  \* what was mixed into the hash, <<>> if not active
  active, nested_depth,
  phase,                 \* "parse", "resume" or "returned"
  answer

call == <<grammar, input, base, remaining>>
loop == <<pending, stack_depth, cursor, walk, active, nested_depth>>
vars == <<call, loop, phase, answer>>

Uninit == [written |-> FALSE, body |-> Unit, continuation |-> 0]
Suspended(body, c) == [written |-> TRUE, body |-> body, continuation |-> c]
Unanswered == [tag |-> "none"]

Init ==
  /\ grammar \in Grammars /\ input \in Inputs /\ base \in Bases
  /\ remaining \in 0..DEPTH
  /\ pending = [frame \in 0..(DEPTH - 1) |-> Uninit]
  /\ stack_depth = 0 /\ cursor = 0
  /\ walk = <<>> /\ active = FALSE /\ nested_depth = 0
  /\ phase = "parse" /\ answer = Unanswered

Fail(failure) ==
  /\ phase' = "returned" /\ answer' = failure
  /\ UNCHANGED <<call, loop>>

-----------------------------------------------------------------------------
(* 'parse: the next root starts at the cursor.                             *)

(* Mutant: one level more than the budget.                                 *)
TooDeepLate == stack_depth > remaining \/ stack_depth > DEPTH

TooDeep == stack_depth >= remaining \/ stack_depth >= DEPTH

BodyStart == cursor + SelectorWidth
Selector  == Decode(Bytes(input, cursor, BodyStart))
Body      == grammar[Selector]

ExceedDepth ==
  /\ phase = "parse" /\ TooDeep
  /\ Fail(Failure("root", "depth", base + cursor, 0))

MissSelector ==
  /\ phase = "parse" /\ ~TooDeep /\ BodyStart > Len(input)
  /\ Fail(NeedMore("root", base + Len(input), BodyStart - Len(input)))

Selected == phase = "parse" /\ ~TooDeep /\ BodyStart <= Len(input)

MeetUnknown ==
  /\ Selected /\ Selector \notin DOMAIN grammar
  /\ Fail(Failure("root", "unknown", base + cursor, 0))

Known(kinds) == Selected /\ Selector \in DOMAIN grammar /\ Body.kind \in kinds

Mixed(token) == IF active THEN Append(walk, token) ELSE walk

SkipUnit ==
  /\ Known({"unit"})
  /\ walk' = Mixed(<<Selector, 0>>)
  /\ cursor' = BodyStart /\ phase' = "resume"
  /\ UNCHANGED <<call, pending, stack_depth, active, nested_depth, answer>>

(* Mutant: what a hand-written leaf reports is believed.                   *)
SkipLeafTrusting ==
  LET frame == LeafFrame(Body, Suffix(input, BodyStart), base + BodyStart)
  IN  /\ Known({"leaf", "rogue"})
      /\ IF frame.tag # "done" THEN Fail(frame)
         ELSE /\ walk' = Mixed(<<Selector, frame.advance>>)
              /\ cursor' = BodyStart + frame.advance /\ phase' = "resume"
              /\ UNCHANGED <<call, pending, stack_depth, active, nested_depth,
                             answer>>

SkipLeaf ==
  LET frame == LeafFrame(Body, Suffix(input, BodyStart), base + BodyStart)
  IN  /\ Known({"leaf", "rogue"})
      /\ IF frame.tag # "done" THEN Fail(frame)
         ELSE IF BodyStart + frame.advance > Len(input)
         THEN Fail(Failure("root", "invalid_frame", base + BodyStart, 0))
         ELSE /\ walk' = Mixed(<<Selector, frame.advance>>)
              /\ cursor' = BodyStart + frame.advance /\ phase' = "resume"
              /\ UNCHANGED <<call, pending, stack_depth, active, nested_depth,
                             answer>>

Overrun(at) == NeedMore("root", base + Len(input), at - Len(input))

(* A step's failure: DepthExceeded is lifted out, the rest stays wrapped.  *)
StartBody ==
  LET step == RecursiveStart(Body, Suffix(input, BodyStart), base + BodyStart)
      to   == BodyStart + step.advance
  IN  /\ Known({"list", "object", "demand"})
      /\ IF step.tag \notin {"done", "child"} THEN Fail(step)
         ELSE IF to > Len(input) THEN Fail(Overrun(to))
         ELSE /\ cursor' = to
              /\ active' = TRUE /\ walk' = Append(walk, <<Selector>>)
              /\ IF step.tag = "done"
                 THEN phase' = "resume"
                      /\ UNCHANGED <<pending, stack_depth, nested_depth>>
                 ELSE /\ pending' = [pending EXCEPT ![stack_depth] =
                                       Suspended(Body, step.continuation)]
                      /\ stack_depth' = stack_depth + 1
                      /\ nested_depth' = Max({nested_depth, stack_depth + 1})
                      /\ phase' = "parse"
              /\ UNCHANGED <<call, answer>>

-----------------------------------------------------------------------------
(* The inner loop: a root has just ended at the cursor.                    *)

Return ==
  /\ phase = "resume" /\ stack_depth = 0
  /\ phase' = "returned"
  /\ answer' = [tag |-> "ok", end |-> cursor, nested |-> nested_depth,
                walk |-> walk]
  /\ UNCHANGED <<call, loop>>

Frame == stack_depth - 1
Resumed ==
  RecursiveResume(pending[Frame].body, Suffix(input, cursor), base + cursor,
                  pending[Frame].continuation)

(* Mutant: a finished body stays on the stack.                             *)
ResumeStaying ==
  /\ phase = "resume" /\ stack_depth > 0 /\ Resumed.tag = "done"
  /\ cursor' = cursor + Resumed.advance
  /\ UNCHANGED <<call, pending, stack_depth, walk, active, nested_depth, phase,
                 answer>>

ResumeFails ==
  /\ phase = "resume" /\ stack_depth > 0
  /\ IF Resumed.tag \notin {"done", "child"} THEN Fail(Resumed)
     ELSE /\ cursor + Resumed.advance > Len(input)
          /\ Fail(Overrun(cursor + Resumed.advance))

Resume(tag) ==
  /\ phase = "resume" /\ stack_depth > 0 /\ Resumed.tag = tag
  /\ cursor + Resumed.advance <= Len(input)
  /\ cursor' = cursor + Resumed.advance

ResumeDone ==
  /\ Resume("done")
  /\ stack_depth' = stack_depth - 1
  /\ UNCHANGED <<call, pending, walk, active, nested_depth, phase, answer>>

ResumeChild ==
  /\ Resume("child")
  /\ pending' = [pending EXCEPT ![Frame] =
                   Suspended(@.body, Resumed.continuation)]
  /\ nested_depth' = Max({nested_depth, stack_depth})
  /\ phase' = "parse"
  /\ UNCHANGED <<call, stack_depth, walk, active, answer>>

Next ==
  \/ ExceedDepth \/ MissSelector \/ MeetUnknown
  \/ SkipUnit \/ SkipLeaf \/ StartBody
  \/ Return \/ ResumeFails \/ ResumeDone \/ ResumeChild

(* The loop runs in one call on one thread: while it can go on, it does.   *)
Spec == Init /\ [][Next]_vars /\ WF_vars(Next)

-----------------------------------------------------------------------------
(* Properties                                                              *)

(* The stack grows neither past its array nor past the caller's budget,    *)
(* and every entry that assume_init may read was written.                  *)
StackInitialised ==
  /\ stack_depth \in 0..DEPTH /\ stack_depth <= remaining
  /\ \A frame \in 0..(stack_depth - 1) : pending[frame].written

(* The loop measures the same root, or finds the same first error, as a    *)
(* descent into the grammar does.                                          *)
Extent == INSTANCE RecursiveExtent
MeasuresRoot == Extent!Safety

(* Whatever the input, the call returns.                                   *)
Terminates == <>(phase = "returned")
=============================================================================
