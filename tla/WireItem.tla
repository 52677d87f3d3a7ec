------------------------------ MODULE WireItem ------------------------------
(***************************************************************************)
(* What sequences, cursors and arrays see of a schema: the WireView        *)
(* contract of wire-repr/src/schema.rs.  Derived schemas keep it (module   *)
(* StructView shows it for structs); a manual implementation may not, and  *)
(* the consumers defend themselves against a wrong extent.                 *)
(*                                                                         *)
(* A schema is FIXED_SIZE and LEADING_EXTENT.  The bytes at a position are *)
(* abstracted to the extent they encode and to what is wrong with them:    *)
(*   "good"     nothing                                                    *)
(*   "bad"      framing rejects them                                       *)
(*   "invalid"  framing accepts them and the schema's validator does not   *)
(*   "rogue"    framing reports the extent without looking at the input    *)
(***************************************************************************)
EXTENDS Integers, Sequences

None == -1

Schema(fixed, leading) == [fixed |-> fixed, leading |-> leading]

Consumed(n)   == [tag |-> "ok", consumed |-> n]
Rejected(tag) == [tag |-> tag, consumed |-> 0]

(* The extent a well-behaved schema finds in `length' available bytes.     *)
ExtentIn(schema, content, length) ==
  IF schema.fixed # None THEN schema.fixed
  ELSE IF schema.leading THEN content.extent
  ELSE IF length = 0 THEN 1 ELSE length

Frame(schema, content, length) ==
  LET extent == ExtentIn(schema, content, length)
  IN  IF content.kind = "rogue" THEN Consumed(content.extent)
      ELSE IF length < extent THEN Rejected("need_more")
      ELSE IF content.kind = "bad" THEN Rejected("schema")
      ELSE Consumed(extent)

(* Checks common to every consumer of a frame.                             *)
Progressing(frame, length) ==
  IF frame.tag # "ok" THEN frame
  ELSE IF frame.consumed = 0 THEN Rejected("no_progress")
  ELSE IF frame.consumed > length THEN Rejected("extent")
  ELSE frame

(* Mutant: validators run for the root only.                               *)
ValidatedNever(frame, content) == frame

Validated(frame, content) ==
  IF frame.tag = "ok" /\ content.kind = "invalid" THEN Rejected("schema") ELSE frame
=============================================================================
