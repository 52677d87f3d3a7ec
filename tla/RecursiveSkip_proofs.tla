------------------------ MODULE RecursiveSkip_proofs ------------------------
(***************************************************************************)
(* The stack of the skip machine, for every grammar, input and depth: it   *)
(* never outgrows its array or the caller's budget, and what assume_init   *)
(* reads was written.                                                      *)
(*                                                                         *)
(* StackInitialised is not inductive alone: that a write at stack_depth    *)
(* lands in the array needs the budget to be within DEPTH, which no step   *)
(* changes, and the array to keep its extent.                              *)
(***************************************************************************)
EXTENDS RecursiveSkip, TLAPS

PendingArray ==
  /\ remaining \in 0..DEPTH
  /\ pending = [frame \in 0..(DEPTH - 1) |-> pending[frame]]

StackInv == PendingArray /\ StackInitialised

(* The call starts with an empty stack.                                    *)
LEMMA StackInit == Init => StackInv
BY RecursiveSkipAssumption DEF Init, StackInv, PendingArray, StackInitialised

(* A suspended body goes to the first free entry, below both limits.       *)
LEMMA StartKeepsStack ==
  ASSUME StackInv, StartBody
  PROVE  StackInv'
<1>1. /\ stack_depth \in 0..DEPTH /\ remaining \in 0..DEPTH
      /\ pending = [frame \in 0..(DEPTH - 1) |-> pending[frame]]
      /\ \A frame \in 0..(stack_depth - 1) : pending[frame].written
  BY DEF StackInv, PendingArray, StackInitialised
<1>2. remaining' = remaining
  BY DEF StartBody, Fail, call
<1>3. CASE UNCHANGED <<pending, stack_depth>>
  BY <1>1, <1>2, <1>3 DEF StackInv, PendingArray, StackInitialised
<1>4. ASSUME NEW c,
             pending' = [pending EXCEPT ![stack_depth] = Suspended(Body, c)],
             stack_depth' = stack_depth + 1
      PROVE  StackInv'
  <2>1. stack_depth < remaining /\ stack_depth < DEPTH
    <3>1. ~TooDeep
      BY DEF StartBody, Known, Selected
    <3> QED
      BY <1>1, <3>1, RecursiveSkipAssumption DEF TooDeep
  <2>2. Suspended(Body, c).written
    BY DEF Suspended
  <2>3. pending' = [frame \in 0..(DEPTH - 1) |-> pending'[frame]]
    BY <1>1, <1>4
  <2>4. pending'[stack_depth].written
    <3>1. stack_depth \in 0..(DEPTH - 1)
      BY <1>1, <2>1, RecursiveSkipAssumption
    <3>2. pending'[stack_depth] = Suspended(Body, c)
      BY <1>1, <1>4, <3>1
    <3> QED
      BY <2>2, <3>2
  <2>5. \A frame \in 0..(stack_depth - 1) : pending'[frame] = pending[frame]
    BY <1>1, <1>4, <2>1
  <2>6. \A frame \in 0..(stack_depth' - 1) : pending'[frame].written
    <3> SUFFICES ASSUME NEW frame \in 0..(stack_depth' - 1) PROVE pending'[frame].written
      OBVIOUS
    <3>1. CASE frame = stack_depth
      BY <2>4, <3>1
    <3>2. CASE frame # stack_depth
      <4>1. frame \in 0..(stack_depth - 1)
        BY <1>1, <1>4, <3>2
      <4> QED
        BY <1>1, <2>5, <4>1
    <3> QED
      BY <3>1, <3>2
  <2>7. stack_depth' \in 0..DEPTH /\ stack_depth' <= remaining'
    BY <1>1, <1>2, <1>4, <2>1, RecursiveSkipAssumption
  <2> QED
    BY <1>1, <1>2, <2>3, <2>6, <2>7 DEF StackInv, PendingArray, StackInitialised
<1>5. \/ UNCHANGED <<pending, stack_depth>>
      \/ \E c : /\ pending' = [pending EXCEPT ![stack_depth] = Suspended(Body, c)]
                /\ stack_depth' = stack_depth + 1
  BY DEF StartBody, Fail, loop
<1> QED
  BY <1>3, <1>4, <1>5

(* A body that was finished leaves, and only its entry.                    *)
LEMMA DoneKeepsStack ==
  ASSUME StackInv, ResumeDone
  PROVE  StackInv'
<1>1. /\ stack_depth > 0 /\ stack_depth' = stack_depth - 1
      /\ pending' = pending /\ remaining' = remaining
  BY DEF ResumeDone, Resume, call
<1>2. stack_depth \in 0..DEPTH /\ stack_depth <= remaining /\ remaining \in 0..DEPTH
  BY DEF StackInv, PendingArray, StackInitialised
<1>3. stack_depth' \in 0..DEPTH /\ stack_depth' <= remaining'
  BY <1>1, <1>2, RecursiveSkipAssumption
<1>4. \A frame \in 0..(stack_depth' - 1) : pending'[frame].written
  BY <1>1, <1>2 DEF StackInv, StackInitialised
<1> QED
  BY <1>1, <1>3, <1>4 DEF StackInv, PendingArray, StackInitialised

(* A resumed body replaces its own entry, which was written.               *)
LEMMA ChildKeepsStack ==
  ASSUME StackInv, ResumeChild
  PROVE  StackInv'
<1>1. /\ stack_depth > 0 /\ stack_depth' = stack_depth /\ remaining' = remaining
      /\ pending' = [pending EXCEPT ![Frame] =
                       Suspended(pending[Frame].body, Resumed.continuation)]
  BY DEF ResumeChild, Resume, call
<1>2. /\ stack_depth \in 0..DEPTH /\ remaining \in 0..DEPTH
      /\ pending = [frame \in 0..(DEPTH - 1) |-> pending[frame]]
      /\ \A frame \in 0..(stack_depth - 1) : pending[frame].written
  BY DEF StackInv, PendingArray, StackInitialised
<1>3. pending' = [frame \in 0..(DEPTH - 1) |-> pending'[frame]]
  BY <1>1, <1>2
<1>4. Suspended(pending[Frame].body, Resumed.continuation).written
  BY DEF Suspended
<1>5. Frame \in 0..(DEPTH - 1)
  BY <1>1, <1>2, RecursiveSkipAssumption DEF Frame
<1>6. ASSUME NEW frame \in 0..(stack_depth - 1) PROVE pending'[frame].written
  <2>1. CASE frame = Frame
    BY <1>1, <1>2, <1>4, <1>5, <2>1
  <2>2. CASE frame # Frame
    <3>1. frame \in 0..(DEPTH - 1)
      BY <1>2, RecursiveSkipAssumption
    <3>2. pending'[frame] = pending[frame]
      BY <1>1, <1>2, <2>2, <3>1
    <3> QED
      BY <1>2, <3>2
  <2> QED
    BY <2>1, <2>2
<1> QED
  BY <1>1, <1>2, <1>3, <1>6 DEF StackInv, PendingArray, StackInitialised

(* Every other step leaves stack and budget alone.                         *)
LEMMA StepKeepsStack == StackInv /\ [Next]_vars => StackInv'
<1> SUFFICES ASSUME StackInv, [Next]_vars PROVE StackInv'
  OBVIOUS
<1>1. ASSUME UNCHANGED <<pending, stack_depth, remaining>> PROVE StackInv'
  BY <1>1 DEF StackInv, PendingArray, StackInitialised
<1>2. CASE ExceedDepth \/ MissSelector \/ MeetUnknown \/ ResumeFails
  BY <1>1, <1>2 DEF ExceedDepth, MissSelector, MeetUnknown, ResumeFails, Fail, call, loop
<1>3. CASE SkipUnit \/ SkipLeaf
  BY <1>1, <1>3 DEF SkipUnit, SkipLeaf, Fail, call, loop
<1>4. CASE Return
  BY <1>1, <1>4 DEF Return, call, loop
<1>5. CASE StartBody
  BY <1>5, StartKeepsStack
<1>6. CASE ResumeDone
  BY <1>6, DoneKeepsStack
<1>7. CASE ResumeChild
  BY <1>7, ChildKeepsStack
<1>8. CASE UNCHANGED vars
  BY <1>1, <1>8 DEF vars, call, loop
<1> QED
  BY <1>2, <1>3, <1>4, <1>5, <1>6, <1>7, <1>8 DEF Next

(* The skip machine never writes past its stack, never goes deeper than    *)
(* the caller allows, and never resumes an entry that was not written.     *)
THEOREM SkipStackInitialised == Spec => []StackInitialised
<1>1. StackInv => StackInitialised
  BY DEF StackInv
<1> QED
  BY StackInit, StepKeepsStack, <1>1, PTL DEF Spec
=============================================================================
