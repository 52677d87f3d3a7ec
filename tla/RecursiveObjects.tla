-------------------------- MODULE RecursiveObjects --------------------------
(***************************************************************************)
(* Writing and reading recursive messages: the writer may copy what a view *)
(* of another message shows, and what it finished is opened and walked.    *)
(***************************************************************************)
EXTENDS RecursiveView, RecursiveWriter

CONSTANTS
  Foreign,   \* inputs opened that nobody wrote here (model bounds)
  Copied,    \* those a writer is at work next to
  MaxDepth   \* depth a view may ask for

vars == <<source, views, reply, written>>
viewing == <<source, views, reply>>

Init ==
  /\ Blank
  /\ source = <<>> /\ views = <<>> /\ reply = Said("none")

Writing  == mode \notin {"finished", "failed"} /\ (out # <<>> \/ open # <<>>)

Openable ==
  IF mode = "finished" THEN {out} \ {source}
  ELSE IF out = <<>> /\ source = <<>> THEN Foreign ELSE {}

OpenRoot ==
  /\ \E bytes \in Openable, limit \in 0..MaxDepth : Open(bytes, limit)
  /\ UNCHANGED written

(* Reading waits while a message is written, and a message is written next *)
(* to a view just yielded, or to none (model bounds).                      *)
Read ==
  /\ views # <<>> /\ ~Writing /\ UNCHANGED written
  /\ (\E slot \in Slots(Parent) : Get(slot)) \/ Iterate \/ Release

Compose ==
  /\ source \in Copied /\ reply.tag \in {"none", "view"}
  /\ WriterStep({Last(views).bytes : i \in {1} \cap DOMAIN views})
  /\ UNCHANGED viewing

Next == OpenRoot \/ Read \/ Compose

Spec == Init /\ [][Next]_vars

-----------------------------------------------------------------------------
(* Properties                                                              *)

ReadBack(bytes) == Skipping!Measure(Grammar, bytes, 0, Len(bytes))

Spans(root, length) == root.tag = "ok" /\ root.end = length

(* Every root a finished writer wrote or copied, at whatever level, reads  *)
(* back as one root with the same extent and, if it is a list, as many     *)
(* items: counts, lengths, padding and alignment of the writer are those   *)
(* of the reader.                                                          *)
RoundTrip ==
  mode = "finished" =>
    \A root \in roots :
      LET bytes == Bytes(out, root.start, root.end)
          body  == Grammar[Decode(Bytes(bytes, 0, SelectorWidth))]
      IN  /\ Spans(ReadBack(bytes), Len(bytes))
          /\ root.items # Uncounted =>
               root.items = Decode(Bytes(bytes, SelectorWidth, SelectorWidth + body.width))

Nests(root, limit) == root.tag = "ok" /\ root.nested < limit

(* A written message opens exactly with a depth that its nesting fits.     *)
WrittenOpens ==
  (mode = "finished" /\ source = out /\ Len(views) < 2) =>
    \A limit \in 1..MaxDepth :
      (Opened(out, limit).tag = "ok") <=> Nests(ReadBack(out), limit)

(* A call of a writer changes, of the bytes behind the cursor, only the    *)
(* header of the innermost body: what is written stays as it is.           *)
BehindKept ==
  [][Len(out') >= Len(out) /\
     \A p \in DOMAIN out :
       out'[p] # out[p] =>
         p \in (Top.start + 1)..(Top.start + HeaderWidth(Top.body))]_written

AsksFor(refused, length, amounts) ==
  refused.tag = "need_more" /\ refused.offset = length /\ refused.more \in amounts

(* Every proper prefix of an input that opens is refused as incomplete, at *)
(* its end, and asks for no more than what is missing: a caller that reads *)
(* what it is told never overruns the root.                                *)
RootPrefixNeedsMore ==
  (Len(views) = 1 /\ reply.tag = "view") =>
    \A n \in 0..(Len(source) - 1) :
      AsksFor(Opened(Bytes(source, 0, n), views[1].depth.limit), n,
              1..(Len(source) - n))
=============================================================================
