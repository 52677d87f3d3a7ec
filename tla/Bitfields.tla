----------------------------- MODULE Bitfields -----------------------------
(***************************************************************************)
(* Nominal bitfields: named bit ranges of one unsigned integer, the        *)
(* detached builder and the progressive writer that set them in any order, *)
(* and the getters.                                                        *)
(*                                                                         *)
(* Source: wire-repr-macros/src/derive/schema/bitfield.rs.                 *)
(*                                                                         *)
(* A word is the set of its bit positions that are 1, and so is a value: a *)
(* shift adds to the positions, a mask intersects.  A float may have bits  *)
(* behind the point, at negative positions, which a cast to an integer     *)
(* drops.  Numbers below zero, which that cast makes 0, are left out.      *)
(*                                                                         *)
(* The two builders are given the same calls; each field's setter exists   *)
(* once, in the type that has not been given the field yet.                *)
(***************************************************************************)
EXTENDS Integers, Sequences

CONSTANTS
  ByteBits, \* bits of a byte
  Layouts,  \* bitfields that are declared
  Values    \* values a caller may give to a field of a type: Values[type]

ASSUME BitfieldsAssumption ==
  /\ ByteBits \in Nat \ {0}
  /\ \A l \in Layouts :
       /\ l.bytes \in Nat \ {0}
       /\ l.fields \in Seq([start : Nat, end : Nat, type : DOMAIN Values])
  /\ \A t \in DOMAIN Values :
       /\ t.kind \in {"bool", "unsigned", "signed", "float", "named"}
       /\ t.bits \in Nat /\ (t.kind = "bool" => t.bits = 1)
       /\ Values[t] \subseteq SUBSET (-1..(t.bits - 1))
       /\ t.kind # "float" => Values[t] \subseteq SUBSET (0..(t.bits - 1))

VARIABLES
  layout,  \* the schema
  given,   \* values by field, those set so far
  raw,     \* the detached builder's word
  invalid, \* the field it will be refused for, 0 for none
  word,    \* the progressive writer's word
  lost     \* the progressive writer was given up with an error

bitVars == <<layout, given, raw, invalid, word, lost>>

-----------------------------------------------------------------------------
WidthOf(f) == f.end - f.start + 1

(* value_mask and shifted_mask, as the positions they keep.                *)
ValueMask(f) == 0..(WidthOf(f) - 1)
Mask(f)      == f.start..f.end

(* What BitfieldSchema::parse asks of one field.  A single bit may have    *)
(* any scalar type.                                                        *)
FieldAccepted(f, bits) ==
  /\ f.start <= f.end /\ f.end < bits
  /\ WidthOf(f) = 1 => f.type.kind # "named"
  /\ WidthOf(f) > 1 => f.type.kind = "unsigned"
  /\ f.type.kind \in {"bool", "named"} \/ WidthOf(f) <= f.type.bits

(* Mutant: a range is compared with the first bit used, not with all.      *)
UnusedAtStart(fields, k) ==
  \A j \in 1..(k - 1) : fields[k].start \notin Mask(fields[j])

(* used & mask == 0                                                        *)
Unused(fields, k) == \A j \in 1..(k - 1) : Mask(fields[j]) \cap Mask(fields[k]) = {}

LayoutAccepted(l) ==
  /\ l.fields # <<>>
  /\ \A k \in DOMAIN l.fields :
       FieldAccepted(l.fields[k], l.bytes * ByteBits) /\ Unused(l.fields, k)

(* scalar_endian: one byte takes no order, several need one.               *)
EndianAccepted(bytes, endian) ==
  IF bytes = 1 THEN endian = "native" ELSE endian \in {"le", "be"}

Accepts(l) == EndianAccepted(l.bytes, l.endian) /\ LayoutAccepted(l)

-----------------------------------------------------------------------------
(* Mutant: the shifted value is not masked.                                *)
PlacedUnmasked(w, f, value) ==
  (w \ Mask(f)) \cup {b + f.start : b \in value}

(* The setters' assignment to the word.                                    *)
Placed(w, f, value) ==
  (w \ Mask(f)) \cup ({b + f.start : b \in value} \cap Mask(f))

(* (value as u128) > value_mask; a bool is not asked.                      *)
Exceeds(f, value) ==
  f.type.kind # "bool" /\ \E b \in value : b >= WidthOf(f)

(* Mutant: the answer of the last setter counts.                           *)
InvalidLast(k, value) == IF Exceeds(layout.fields[k], value) THEN k ELSE 0

(* What the detached builder will be refused for.                          *)
InvalidAfter(k, value) == IF Exceeds(layout.fields[k], value) THEN k ELSE invalid

(* A getter: shift, then mask.                                             *)
Got(w, f) == {b \in ValueMask(f) : b + f.start \in w}

BitInit ==
  /\ layout \in {l \in Layouts : Accepts(l)}
  /\ given = <<>> /\ raw = {} /\ invalid = 0 /\ word = {} /\ lost = FALSE

(* A setter.  The detached builder notes a value that does not fit and     *)
(* goes on; the progressive one returns the error and is gone.             *)
SetField(k, value) ==
  LET f == layout.fields[k]
  IN  /\ k \in DOMAIN layout.fields \ DOMAIN given
      /\ value \in Values[f.type]
      /\ given' = [j \in DOMAIN given \cup {k} |-> IF j = k THEN value ELSE given[j]]
      /\ raw' = Placed(raw, f, value)
      /\ invalid' = InvalidAfter(k, value)
      /\ lost' = (lost \/ Exceeds(f, value))
      /\ word' = IF lost' THEN {} ELSE Placed(word, f, value)
      /\ UNCHANGED layout

BitNext == \E k \in DOMAIN layout.fields : \E value \in Values[layout.fields[k].type] :
             SetField(k, value)

BitSpec == BitInit /\ [][BitNext]_bitVars

(* finish exists, and a detached builder can be written, when every field  *)
(* has been given.                                                         *)
Complete == DOMAIN given = DOMAIN layout.fields

(* The bytes of a word of n bytes.                                         *)
Place(i, n, endian) == IF endian = "be" THEN n - i ELSE i - 1

Encode(w, n, endian) ==
  [i \in 1..n |-> {b \in 0..(ByteBits - 1) : Place(i, n, endian) * ByteBits + b \in w}]

Decode(bytes, endian) ==
  UNION {{Place(i, Len(bytes), endian) * ByteBits + b : b \in bytes[i]} :
           i \in DOMAIN bytes}

-----------------------------------------------------------------------------
(* Integral values: a float with bits behind the point is not kept.        *)
Integral(k) == given[k] \subseteq Nat

(* Fields do not disturb one another: in whatever order they are set, a    *)
(* field that was given a value that fits reads as that value, and the     *)
(* bits of no field are 0.                                                 *)
FieldsIndependent ==
  /\ \A k \in DOMAIN given :
       Integral(k) /\ ~Exceeds(layout.fields[k], given[k])
         => Got(raw, layout.fields[k]) = given[k]
  /\ raw \subseteq UNION {Mask(layout.fields[k]) : k \in DOMAIN given}

(* The two builders refuse the same values although one of them refuses    *)
(* them later, and what they have agreed to is the same word.              *)
BuildersAgree ==
  /\ lost <=> invalid # 0
  /\ invalid # 0 => invalid \in DOMAIN given /\ Exceeds(layout.fields[invalid], given[invalid])
  /\ invalid = 0 => \A k \in DOMAIN given : ~Exceeds(layout.fields[k], given[k])
  /\ ~lost => word = raw
=============================================================================
