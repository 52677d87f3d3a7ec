---------------------------- MODULE Enumerations ----------------------------
(***************************************************************************)
(* Static enums: a selector, the body its value names, and perhaps an      *)
(* unknown variant that keeps the selector and the body as they came.      *)
(*                                                                         *)
(* Source: wire-repr-macros/src/derive/schema/enumeration.rs, and          *)
(* wire-repr/src/schema.rs for unit bodies and the composition of sizes.   *)
(*                                                                         *)
(* An enum is [bytes, endian, arms, unknown]; an arm is [value, spelling,  *)
(* body], where the spelling is the constant's expression.  Bytes are sets *)
(* of bit positions, as in Bitfields.  Bodies:                             *)
(*   "unit"     nothing (the type `()')                                    *)
(*   "fixed"    a struct of `size' bytes                                   *)
(*   "bits"     the bitfield `layout'                                      *)
(*   "counted"  a struct of a length byte and that many bytes              *)
(*   "open"     a struct that ends with all the bytes there are            *)
(* They are external to this module: WireFraming frames structs.           *)
(***************************************************************************)
EXTENDS Bitfields, FiniteSets

Byte == SUBSET (0..(ByteBits - 1))
None == -1

BodyKinds == {"unit", "fixed", "bits", "counted", "open"}

(* The number a byte spells, from its most significant bit downwards.      *)
Number(byte) ==
  LET upper[n \in 0..ByteBits] ==
        IF n = 0 THEN 0
        ELSE 2 * upper[n - 1] + (IF ByteBits - n \in byte THEN 1 ELSE 0)
  IN  upper[ByteBits]

Tail_(bytes, from) == SubSeq(bytes, from + 1, Len(bytes))

Framed(arm, consumed) == [tag |-> "ok", arm |-> arm, consumed |-> consumed, more |-> 0]
NeedMore(n)           == [tag |-> "need_more", arm |-> 0, consumed |-> 0, more |-> n]
Failed(tag)           == [tag |-> tag, arm |-> 0, consumed |-> 0, more |-> 0]

-----------------------------------------------------------------------------
BodyFixed(body) ==
  CASE body.kind = "unit"               -> 0
    [] body.kind = "fixed"              -> body.size
    [] body.kind = "bits"               -> layout.bytes
    [] body.kind \in {"counted", "open"} -> None

BodyLeading(body) == body.kind # "open"

(* How many bytes a body asks for, given what there is to look at.         *)
BodyExtent(body, bytes) ==
  IF BodyFixed(body) # None THEN BodyFixed(body)
  ELSE IF body.kind = "open" THEN Len(bytes)
  ELSE IF bytes = <<>> THEN 1
  ELSE 1 + Number(bytes[1])

BodyFrame(body, bytes) ==
  LET extent == BodyExtent(body, bytes)
  IN  IF Len(bytes) < extent THEN NeedMore(extent - Len(bytes)) ELSE Framed(0, extent)

-----------------------------------------------------------------------------
Known(e)     == DOMAIN e.arms
ArmsOf(e, s) == {a \in Known(e) : e.arms[a].value = s}

(* EnumSchema::parse sees expressions, not values.                         *)
EnumAccepted(e) ==
  /\ EndianAccepted(e.bytes, e.endian) /\ e.arms # <<>>
  /\ \A a, b \in Known(e) : a # b => e.arms[a].spelling # e.arms[b].spelling

(* Two constants of one value: found when framing.                         *)
DuplicateSelector(e) == \E a, b \in Known(e) : a # b /\ e.arms[a].value = e.arms[b].value

(* checked_optional_equal: the one size all bodies have.                   *)
EqualSize(e) ==
  LET sizes == {BodyFixed(e.arms[a].body) : a \in Known(e)}
  IN  IF Cardinality(sizes) = 1 THEN CHOOSE size \in sizes : TRUE ELSE None

(* FIXED_SIZE of the view and of the builder.                              *)
FixedSize(e) ==
  IF e.unknown \/ EqualSize(e) = None THEN None ELSE e.bytes + EqualSize(e)

(* Mutant: the unknown variant is forgotten.                               *)
LeadingExtentKnown(e) == \A a \in Known(e) : BodyLeading(e.arms[a].body)

LeadingExtent(e) == ~e.unknown /\ \A a \in Known(e) : BodyLeading(e.arms[a].body)

SelectorOf(e, bytes) == Decode(SubSeq(bytes, 1, e.bytes), e.endian)

(* Mutant: what is missing is counted from the selector's start only.      *)
FrameVariantShort(e, arm, bytes) ==
  LET frame == BodyFrame(e.arms[arm].body, bytes)
  IN  IF frame.tag = "need_more" THEN NeedMore(frame.more + e.bytes)
      ELSE IF frame.consumed > Len(bytes) THEN Failed("invalid_frame")
      ELSE Framed(arm, e.bytes + frame.consumed)

(* The frame of a known variant, whose body has the bytes after the        *)
(* selector.                                                               *)
FrameVariant(e, arm, bytes) ==
  LET frame == BodyFrame(e.arms[arm].body, bytes)
  IN  IF frame.tag # "ok" THEN frame
      ELSE IF frame.consumed > Len(bytes) THEN Failed("invalid_frame")
      ELSE Framed(arm, e.bytes + frame.consumed)

(* frame and frame_exact, which differ in the method they call on a body   *)
(* only; arm 0 is the unknown variant, which takes all there is.           *)
Frame(e, bytes) ==
  IF DuplicateSelector(e) THEN Failed("duplicate")
  ELSE IF Len(bytes) < e.bytes THEN NeedMore(e.bytes - Len(bytes))
  ELSE LET known == ArmsOf(e, SelectorOf(e, bytes))
       IN  IF known # {} THEN FrameVariant(e, CHOOSE a \in known : TRUE, Tail_(bytes, e.bytes))
           ELSE IF e.unknown THEN Framed(0, Len(bytes))
           ELSE Failed("unknown_selector")

(* view: the frame must be the whole input.                                *)
View(e, bytes) ==
  LET frame == Frame(e, bytes)
  IN  IF frame.tag = "ok" /\ frame.consumed < Len(bytes) THEN Failed("trailing") ELSE frame

(* selector: the constant of the variant, or what was read.                *)
Selector(e, frame, bytes) ==
  IF frame.arm # 0 THEN e.arms[frame.arm].value ELSE SelectorOf(e, bytes)

(* What a body's view reads: a bitfield's getters, the bytes of the rest.  *)
ReadBody(body, bytes) ==
  IF body.kind = "bits"
  THEN LET w == Decode(bytes, layout.endian)
       IN  [k \in DOMAIN layout.fields |-> Got(w, layout.fields[k])]
  ELSE bytes

(* variant: the body's view, or the raw selector and bytes.                *)
Variant(e, frame, bytes) ==
  LET body == Tail_(bytes, e.bytes)
  IN  [selector |-> Selector(e, frame, bytes),
       arm      |-> frame.arm,
       body     |-> IF frame.arm = 0 THEN body ELSE ReadBody(e.arms[frame.arm].body, body)]

-----------------------------------------------------------------------------
(* WireWrite of a known variant and the progressive method: the selector,  *)
(* then the body behind it.                                                *)
WriteKnown(e, arm, body) == Encode(e.arms[arm].value, e.bytes, e.endian) \o body

(* Mutant: any selector may be passed as unknown.                          *)
UnknownAllowedAlways(e, selector) == e.unknown

(* KnownSelector                                                           *)
UnknownAllowed(e, selector) == e.unknown /\ ArmsOf(e, selector) = {}

(* Mutant: the raw selector in the machine's order.                        *)
WriteUnknownLittle(e, selector, body) == Encode(selector, e.bytes, "le") \o body

WriteUnknown(e, selector, body) == Encode(selector, e.bytes, e.endian) \o body
=============================================================================
