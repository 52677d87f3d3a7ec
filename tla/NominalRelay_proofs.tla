------------------------ MODULE NominalRelay_proofs ------------------------
(***************************************************************************)
(* Proofs about bitfields and about enum messages on their way: for every  *)
(* accepted layout, every order of setters and every value, and for every  *)
(* declaration of a speaker, an older one of a relay, and every byte       *)
(* string.                                                                 *)
(***************************************************************************)
EXTENDS NominalRelay, Iteration, FiniteSetTheorems

-----------------------------------------------------------------------------
(* Bitfields.  The words alone are not inductive: that a setter leaves the *)
(* other fields alone rests on the ranges being disjoint, which the        *)
(* acceptance loop establishes for a field and the earlier ones only, and  *)
(* that a value comes back whole rests on the types the loop admits.       *)
(* GivenOK carries both along.                                             *)

Fields == layout.fields

GivenOK ==
  /\ layout \in Layouts /\ Accepts(layout)
  /\ DOMAIN given \subseteq DOMAIN Fields
  /\ \A k \in DOMAIN given : given[k] \in Values[Fields[k].type]
  /\ lost \in BOOLEAN

(* What acceptance says of one field.                                      *)
Sound(f) ==
  /\ f.start \in Nat /\ f.end \in Nat /\ f.start <= f.end
  /\ f.type \in DOMAIN Values
  /\ f.type.kind = "bool" => f.start = f.end

(* A value that a field can hold.                                          *)
Fits(f, value) == value \subseteq 0..(WidthOf(f) - 1)

(* An accepted field has a sound range, and a bool a single bit.           *)
LEMMA FieldSound ==
  ASSUME NEW l \in Layouts, Accepts(l), NEW k \in DOMAIN l.fields
  PROVE  Sound(l.fields[k])
<1> DEFINE f == l.fields[k]
<1>1. f \in [start : Nat, end : Nat, type : DOMAIN Values]
  <2> DEFINE S == [start : Nat, end : Nat, type : DOMAIN Values]
  <2>1. l.fields \in Seq(S)
    BY BitfieldsAssumption
  <2> HIDE DEF S
  <2>2. f \in S
    BY <2>1
  <2> QED
    BY <2>2 DEF S
<1>2. FieldAccepted(f, l.bytes * ByteBits)
  BY DEF Accepts, LayoutAccepted
<1>3. f.start \in Nat /\ f.end \in Nat /\ f.type \in DOMAIN Values
  BY <1>1
<1>4. f.start <= f.end
  BY <1>2 DEF FieldAccepted
<1>5. ASSUME f.type.kind = "bool" PROVE f.start = f.end
  <2>1. ~(WidthOf(f) > 1)
    BY <1>2, <1>5 DEF FieldAccepted
  <2> QED
    BY <2>1, <1>3, <1>4 DEF WidthOf
<1> QED
  BY <1>3, <1>4, <1>5 DEF Sound

(* Two accepted fields have no bit in common, whichever came first.        *)
LEMMA FieldsDisjoint ==
  ASSUME NEW l \in Layouts, Accepts(l),
         NEW j \in DOMAIN l.fields, NEW k \in DOMAIN l.fields, j # k
  PROVE  Mask(l.fields[j]) \cap Mask(l.fields[k]) = {}
<1>1. l.fields \in Seq([start : Nat, end : Nat, type : DOMAIN Values])
  BY BitfieldsAssumption
<1>2. j \in Nat \ {0} /\ k \in Nat \ {0}
  BY <1>1, SMTT(30)
<1>3. Unused(l.fields, j) /\ Unused(l.fields, k)
  BY DEF Accepts, LayoutAccepted
<1>4. CASE j < k
  <2>1. j \in 1..(k - 1)
    BY <1>2, <1>4
  <2> QED
    BY <1>3, <2>1 DEF Unused
<1>5. CASE k < j
  <2>1. k \in 1..(j - 1)
    BY <1>2, <1>5
  <2>2. Mask(l.fields[k]) \cap Mask(l.fields[j]) = {}
    BY <1>3, <2>1 DEF Unused
  <2> QED
    BY <2>2
<1> QED
  BY <1>2, <1>4, <1>5

(* A value that fits is read back whole from where it was put.             *)
LEMMA GotPlaced ==
  ASSUME NEW f, Sound(f), NEW w, NEW value, Fits(f, value)
  PROVE  Got(Placed(w, f, value), f) = value
<1>1. f.start \in Nat /\ f.end \in Nat /\ f.start <= f.end
  BY DEF Sound
<1>2. ASSUME NEW b \in value PROVE b \in Got(Placed(w, f, value), f)
  <2>1. b \in 0..(f.end - f.start)
    BY <1>1 DEF Fits, WidthOf
  <2>2. b + f.start \in f.start..f.end
    BY <1>1, <2>1
  <2>3. b + f.start \in {c + f.start : c \in value}
    OBVIOUS
  <2>4. b + f.start \in Placed(w, f, value)
    BY <2>2, <2>3 DEF Placed, Mask
  <2>5. b \in ValueMask(f)
    BY <1>1, <2>1 DEF ValueMask, WidthOf
  <2> QED
    BY <2>4, <2>5 DEF Got
<1>3. ASSUME NEW b \in Got(Placed(w, f, value), f) PROVE b \in value
  <2>1. b \in 0..(f.end - f.start) /\ b + f.start \in Placed(w, f, value)
    BY <1>1 DEF Got, ValueMask, WidthOf
  <2>2. b + f.start \in f.start..f.end
    BY <1>1, <2>1
  <2>3. b + f.start \in {c + f.start : c \in value}
    BY <2>1, <2>2 DEF Placed, Mask
  <2>4. PICK c \in value : b + f.start = c + f.start
    BY <2>3
  <2>5. c \in 0..(f.end - f.start)
    BY <1>1 DEF Fits, WidthOf
  <2>6. b = c
    BY <1>1, <2>1, <2>4, <2>5
  <2> QED
    BY <2>6
<1> QED
  BY <1>2, <1>3

(* A setter changes no bit outside its own field.                          *)
LEMMA GotElsewhere ==
  ASSUME NEW f, Sound(f), NEW g, Sound(g), Mask(f) \cap Mask(g) = {},
         NEW w, NEW value
  PROVE  Got(Placed(w, f, value), g) = Got(w, g)
<1>1. g.start \in Nat /\ g.end \in Nat
  BY DEF Sound
<1>2. ASSUME NEW b \in ValueMask(g)
      PROVE  b + g.start \in Placed(w, f, value) <=> b + g.start \in w
  <2>1. b \in 0..(g.end - g.start)
    BY <1>1 DEF ValueMask, WidthOf
  <2>2. b + g.start \in g.start..g.end
    BY <1>1, <2>1
  <2>3. b + g.start \notin Mask(f)
    BY <2>2 DEF Mask
  <2> QED
    BY <2>3 DEF Placed
<1> QED
  BY <1>2 DEF Got

(* A value without bits behind the point that passes the range check fits. *)
LEMMA AdmittedFits ==
  ASSUME NEW f, Sound(f), NEW value \in Values[f.type],
         value \subseteq Nat, ~Exceeds(f, value)
  PROVE  Fits(f, value)
<1>1. f.start \in Nat /\ f.end \in Nat /\ f.start <= f.end /\ f.type \in DOMAIN Values
  BY DEF Sound
<1>2. CASE f.type.kind = "bool"
  <2>1. f.type.bits = 1 /\ Values[f.type] \subseteq SUBSET (0..(f.type.bits - 1))
    BY <1>1, <1>2, BitfieldsAssumption
  <2>2. value \subseteq 0..0
    BY <2>1
  <2>3. WidthOf(f) = 1
    BY <1>1, <1>2 DEF Sound, WidthOf
  <2> QED
    BY <2>2, <2>3 DEF Fits
<1>3. CASE f.type.kind # "bool"
  <2>1. \A b \in value : ~(b >= WidthOf(f))
    BY <1>3 DEF Exceeds
  <2>2. WidthOf(f) \in Int
    BY <1>1 DEF WidthOf
  <2>3. \A b \in value : b \in 0..(WidthOf(f) - 1)
    BY <2>1, <2>2
  <2> QED
    BY <2>3 DEF Fits
<1> QED
  BY <1>2, <1>3

-----------------------------------------------------------------------------
Inv == GivenOK /\ FieldsIndependent /\ BuildersAgree

(* Nothing is given at first, and the words are empty.                     *)
LEMMA InitInv == BitInit => Inv
<1> SUFFICES ASSUME BitInit PROVE Inv
  OBVIOUS
<1>1. DOMAIN given = {} /\ layout \in Layouts /\ Accepts(layout)
  BY DEF BitInit
<1>2. GivenOK
  BY <1>1 DEF BitInit, GivenOK
<1>3. FieldsIndependent
  BY <1>1 DEF BitInit, FieldsIndependent
<1>4. BuildersAgree
  BY <1>1 DEF BitInit, BuildersAgree
<1> QED
  BY <1>2, <1>3, <1>4 DEF Inv

(* A setter keeps the invariant.                                           *)
LEMMA SetFieldInv ==
  ASSUME Inv, NEW k, NEW value, SetField(k, value)
  PROVE  Inv'
<1> DEFINE f == Fields[k]
           Others == DOMAIN given
<1>1. /\ k \in DOMAIN Fields /\ k \notin Others
      /\ value \in Values[f.type]
      /\ given' = [j \in Others \cup {k} |-> IF j = k THEN value ELSE given[j]]
      /\ raw' = Placed(raw, f, value)
      /\ invalid' = InvalidAfter(k, value)
      /\ lost' = (lost \/ Exceeds(f, value))
      /\ word' = IF lost' THEN {} ELSE Placed(word, f, value)
      /\ layout' = layout
  BY DEF SetField, Fields
<1>2. DOMAIN given' = Others \cup {k} /\ given'[k] = value
  BY <1>1
<1>3. \A j \in Others : given'[j] = given[j] /\ j # k
  BY <1>1
<1>4. layout \in Layouts /\ Accepts(layout) /\ Others \subseteq DOMAIN Fields
  BY DEF Inv, GivenOK
<1>5. \A j \in DOMAIN Fields : Sound(Fields[j])
  BY <1>4, FieldSound DEF Fields
<1>6. Fields' = Fields
  BY <1>1 DEF Fields
<1>7. GivenOK'
  <2>1. \A j \in DOMAIN given' : given'[j] \in Values[Fields[j].type]
    <3> SUFFICES ASSUME NEW j \in DOMAIN given' PROVE given'[j] \in Values[Fields[j].type]
      OBVIOUS
    <3>1. CASE j = k
      BY <1>1, <1>2, <3>1
    <3>2. CASE j \in Others
      BY <1>3, <3>2 DEF Inv, GivenOK
    <3> QED
      BY <1>2, <3>1, <3>2
  <2>2. DOMAIN given' \subseteq DOMAIN Fields
    BY <1>1, <1>2, <1>4
  <2>3. layout' \in Layouts /\ Accepts(layout')
    BY <1>1, <1>4
  <2> QED
    BY <1>1, <1>6, <2>1, <2>2, <2>3 DEF GivenOK
<1>8. FieldsIndependent'
  <2>1. ASSUME NEW j \in DOMAIN given', given'[j] \subseteq Nat,
               ~Exceeds(Fields[j], given'[j])
        PROVE  Got(raw', Fields[j]) = given'[j]
    <3>1. CASE j = k
      <4>1. Fits(f, value)
        BY <1>1, <1>2, <1>5, <2>1, <3>1, AdmittedFits
      <4> QED
        BY <1>1, <1>2, <1>5, <3>1, <4>1, GotPlaced
    <3>2. CASE j \in Others
      <4>1. given'[j] = given[j] /\ j # k /\ j \in DOMAIN Fields
        BY <1>3, <1>4, <3>2
      <4>2. Got(raw, Fields[j]) = given[j]
        BY <2>1, <3>2, <4>1 DEF Inv, FieldsIndependent, Integral, Fields
      <4>3. Mask(f) \cap Mask(Fields[j]) = {}
        BY <1>1, <1>4, <4>1, FieldsDisjoint DEF Fields
      <4>4. Got(Placed(raw, f, value), Fields[j]) = Got(raw, Fields[j])
        BY <1>1, <1>5, <4>1, <4>3, GotElsewhere
      <4> QED
        BY <1>1, <4>1, <4>2, <4>4
    <3> QED
      BY <1>2, <3>1, <3>2
  <2>2. raw' \subseteq UNION {Mask(Fields[j]) : j \in DOMAIN given'}
    <3>1. raw \subseteq UNION {Mask(Fields[j]) : j \in Others}
      BY DEF Inv, FieldsIndependent, Fields
    <3>2. raw' \subseteq raw \cup Mask(f)
      BY <1>1 DEF Placed
    <3> QED
      BY <1>2, <3>1, <3>2
  <2>3. \A j \in DOMAIN given' :
          Integral(j)' /\ ~Exceeds(Fields[j], given'[j]) => Got(raw', Fields[j]) = given'[j]
    BY <2>1 DEF Integral
  <2>4. layout'.fields = Fields
    BY <1>6 DEF Fields
  <2> QED
    BY <2>2, <2>3, <2>4 DEF FieldsIndependent
<1>9. BuildersAgree'
  <2>1. k # 0 /\ 0 \notin DOMAIN Fields
    <3>1. Fields \in Seq([start : Nat, end : Nat, type : DOMAIN Values])
      BY <1>4, BitfieldsAssumption DEF Fields
    <3>2. 0 \notin DOMAIN Fields
      BY <3>1
    <3> QED
      BY <1>1, <3>2
  <2>2. CASE Exceeds(f, value)
    <3>1. invalid' = k /\ lost' = TRUE
      BY <1>1, <2>2 DEF InvalidAfter, Fields
    <3> QED
      BY <1>2, <1>6, <2>1, <2>2, <3>1 DEF BuildersAgree, Fields
  <2>3. CASE ~Exceeds(f, value)
    <3>1. invalid' = invalid /\ lost' = lost
      <4>1. invalid' = invalid
        BY <1>1, <2>3 DEF InvalidAfter, Fields
      <4>2. lost \in BOOLEAN
        BY DEF Inv, GivenOK
      <4> QED
        BY <1>1, <2>3, <4>1, <4>2
    <3>2. ~lost' => word' = raw'
      BY <1>1, <3>1 DEF Inv, BuildersAgree
    <3>3. invalid' # 0 => /\ invalid' \in DOMAIN given'
                          /\ Exceeds(Fields[invalid'], given'[invalid'])
      BY <1>2, <1>3, <3>1 DEF Inv, BuildersAgree, Fields
    <3>4. invalid' = 0 => \A j \in DOMAIN given' : ~Exceeds(Fields[j], given'[j])
      BY <1>2, <1>3, <2>3, <3>1 DEF Inv, BuildersAgree, Fields
    <3>5. lost' <=> invalid' # 0
      BY <3>1 DEF Inv, BuildersAgree
    <3>6. layout'.fields = Fields
      BY <1>6 DEF Fields
    <3> QED
      BY <3>2, <3>3, <3>4, <3>5, <3>6 DEF BuildersAgree
  <2> QED
    BY <2>2, <2>3
<1> QED
  BY <1>7, <1>8, <1>9 DEF Inv

(* Every step of the two builders keeps the invariant.                     *)
LEMMA StepInv == Inv /\ [BitNext]_bitVars => Inv'
<1> SUFFICES ASSUME Inv, [BitNext]_bitVars PROVE Inv'
  OBVIOUS
<1>1. CASE BitNext
  BY <1>1, SetFieldInv DEF BitNext
<1>2. CASE UNCHANGED bitVars
  BY <1>2 DEF bitVars, Inv, GivenOK, FieldsIndependent, BuildersAgree, Integral, Fields
<1> QED
  BY <1>1, <1>2

(* In whatever order the fields of an accepted bitfield are set, each      *)
(* reads as the value it was given, if that fits, and no other bit is set. *)
THEOREM FieldsStayIndependent == BitSpec => []FieldsIndependent
<1>1. Inv => FieldsIndependent
  BY DEF Inv
<1> QED
  BY InitInv, StepInv, <1>1, PTL DEF BitSpec

(* The detached builder refuses at the end exactly the values for which    *)
(* the progressive writer's setter has failed, and both hold one word.     *)
THEOREM BuildersKeepAgreeing == BitSpec => []BuildersAgree
<1>1. Inv => BuildersAgree
  BY DEF Inv
<1> QED
  BY InitInv, StepInv, <1>1, PTL DEF BitSpec
-----------------------------------------------------------------------------
(* Positions of bits in bytes.                                             *)
LEMMA DivMod ==
  ASSUME NEW B \in Nat \ {0}, NEW b \in Nat
  PROVE  /\ b \div B \in Nat /\ b % B \in 0..(B - 1)
         /\ b = (b \div B) * B + (b % B)
OBVIOUS

LEMMA ByteBelow ==
  ASSUME NEW B \in Nat \ {0}, NEW p \in Nat, NEW n \in Nat, NEW r \in Nat,
         p * B + r < n * B
  PROVE  p < n
<1> SUFFICES ASSUME n <= p PROVE FALSE
  OBVIOUS
<1>1. PICK d \in Nat : p = n + d
  <2>1. p - n \in Nat /\ p = n + (p - n)
    OBVIOUS
  <2> QED BY <2>1
<1>2. p * B = n * B + d * B /\ d * B \in Nat /\ n * B \in Nat
  BY <1>1
<1> QED BY <1>2

LEMMA BitBelow ==
  ASSUME NEW B \in Nat \ {0}, NEW n \in Nat, NEW p \in 0..(n - 1), NEW r \in 0..(B - 1)
  PROVE  p * B + r \in 0..(n * B - 1)
<1>1. PICK d \in Nat : n = p + 1 + d
  <2>1. n - p - 1 \in Nat /\ n = p + 1 + (n - p - 1)
    OBVIOUS
  <2> QED BY <2>1
<1>2. n * B = p * B + B + d * B /\ d * B \in Nat /\ p * B \in Nat
  BY <1>1
<1> QED BY <1>2

LEMMA BitUnique ==
  ASSUME NEW B \in Nat \ {0}, NEW p \in Nat, NEW q \in Nat,
         NEW r \in 0..(B - 1), NEW s \in 0..(B - 1), p * B + r = q * B + s
  PROVE  p = q /\ r = s
<1>1. q * B + s < (q + 1) * B /\ p * B + r < (p + 1) * B
  <2>1. (q + 1) * B = q * B + B /\ (p + 1) * B = p * B + B
        /\ q * B \in Nat /\ p * B \in Nat
    OBVIOUS
  <2> QED BY <2>1
<1>2. p < q + 1 /\ q < p + 1
  BY <1>1, ByteBelow
<1>3. p = q
  BY <1>2
<1>4. p * B \in Nat
  OBVIOUS
<1> QED BY <1>3, <1>4

(* Every byte has its place and every place its byte.                      *)
LEMMA Places ==
  ASSUME NEW n \in Nat, NEW endian
  PROVE  /\ \A i \in 1..n : Place(i, n, endian) \in 0..(n - 1)
         /\ \A i, j \in 1..n : Place(i, n, endian) = Place(j, n, endian) => i = j
         /\ \A p \in 0..(n - 1) : \E i \in 1..n : Place(i, n, endian) = p
<1>1. ASSUME NEW p \in 0..(n - 1) PROVE \E i \in 1..n : Place(i, n, endian) = p
  <2>1. n - p \in 1..n /\ p + 1 \in 1..n /\ n - (n - p) = p /\ (p + 1) - 1 = p
    OBVIOUS
  <2> QED BY <2>1 DEF Place
<1> QED BY <1>1 DEF Place

LEMMA EncodeType ==
  ASSUME NEW w, NEW n \in Nat, NEW endian
  PROVE  /\ Encode(w, n, endian) \in Seq(Byte) /\ Len(Encode(w, n, endian)) = n
         /\ Encode(w, n, endian) \in [1..n -> Byte]
<1>1. \A i \in 1..n :
        {b \in 0..(ByteBits - 1) : Place(i, n, endian) * ByteBits + b \in w} \in Byte
  BY DEF Byte
<1>2. Encode(w, n, endian) \in [1..n -> Byte]
  BY <1>1 DEF Encode
<1> HIDE DEF Encode
<1> QED BY <1>2

(* What is written for a word reads as the word.                           *)
LEMMA DecodeEncode ==
  ASSUME NEW n \in Nat, NEW endian, NEW w, w \subseteq 0..(n * ByteBits - 1)
  PROVE  Decode(Encode(w, n, endian), endian) = w
<1> DEFINE e == Encode(w, n, endian)
<1>1. ByteBits \in Nat \ {0}
  BY BitfieldsAssumption
<1>2. /\ Len(e) = n /\ DOMAIN e = 1..n
      /\ \A i \in 1..n : e[i] = {b \in 0..(ByteBits - 1) : Place(i, n, endian) * ByteBits + b \in w}
  <2>1. Len(e) = n
    BY EncodeType
  <2>2. /\ DOMAIN e = 1..n
        /\ \A i \in 1..n :
             e[i] = {b \in 0..(ByteBits - 1) : Place(i, n, endian) * ByteBits + b \in w}
    BY DEF Encode
  <2> QED BY <2>1, <2>2
<1> HIDE DEF e
<1>3. ASSUME NEW b \in w PROVE b \in Decode(e, endian)
  <2> DEFINE p == b \div ByteBits
             r == b % ByteBits
  <2>1. n * ByteBits \in Nat /\ b \in Nat /\ b < n * ByteBits
    BY <1>1
  <2>2. p \in Nat /\ r \in 0..(ByteBits - 1) /\ b = p * ByteBits + r
    BY <1>1, <2>1, DivMod
  <2> HIDE DEF p, r
  <2>3. p \in 0..(n - 1)
    BY <1>1, <2>1, <2>2, ByteBelow
  <2>4. PICK i \in 1..n : Place(i, n, endian) = p
    BY <2>3, Places
  <2>5. r \in e[i]
    BY <1>2, <2>2, <2>4
  <2> QED BY <1>2, <2>2, <2>4, <2>5 DEF Decode
<1>4. ASSUME NEW b \in Decode(e, endian) PROVE b \in w
  <2>1. PICK i \in 1..n : b \in {Place(i, n, endian) * ByteBits + c : c \in e[i]}
    BY <1>2 DEF Decode
  <2> QED BY <1>2, <2>1
<1> QED BY <1>3, <1>4 DEF e

(* What is read from bytes is written as the same bytes.                   *)
LEMMA EncodeDecode ==
  ASSUME NEW bytes \in Seq(Byte), NEW endian
  PROVE  Encode(Decode(bytes, endian), Len(bytes), endian) = bytes
<1> DEFINE n == Len(bytes)
           e == Encode(Decode(bytes, endian), n, endian)
<1>1. ByteBits \in Nat \ {0}
  BY BitfieldsAssumption
<1>2. n \in Nat /\ DOMAIN bytes = 1..n /\ bytes \in [1..n -> Byte]
  OBVIOUS
<1>3. e \in [1..n -> Byte]
  BY <1>2, EncodeType
<1>4. ASSUME NEW i \in 1..n PROVE e[i] = bytes[i]
  <2>1. e[i] = {b \in 0..(ByteBits - 1) :
                  Place(i, n, endian) * ByteBits + b \in Decode(bytes, endian)}
    BY DEF Encode
  <2>2. bytes[i] \subseteq 0..(ByteBits - 1)
    BY <1>2 DEF Byte
  <2>3. ASSUME NEW b \in 0..(ByteBits - 1),
               Place(i, n, endian) * ByteBits + b \in Decode(bytes, endian)
        PROVE  b \in bytes[i]
    <3>1. PICK j \in 1..n : \E c \in bytes[j] :
            Place(i, n, endian) * ByteBits + b = Place(j, n, endian) * ByteBits + c
      BY <1>2, <2>3 DEF Decode
    <3> DEFINE p == Place(i, n, endian)
               q == Place(j, n, endian)
    <3>2. PICK c \in bytes[j] : p * ByteBits + b = q * ByteBits + c
      BY <3>1
    <3>3. c \in 0..(ByteBits - 1)
      BY <1>2 DEF Byte
    <3>4. p \in Nat /\ q \in Nat /\ (p = q => i = j)
      BY <1>2, Places
    <3>5. p = q /\ b = c
      <4> HIDE DEF p, q
      <4> QED BY <1>1, <3>2, <3>3, <3>4, BitUnique
    <3> QED BY <3>2, <3>4, <3>5
  <2>4. ASSUME NEW b \in bytes[i]
        PROVE  Place(i, n, endian) * ByteBits + b \in Decode(bytes, endian)
    BY <1>2 DEF Decode
  <2> QED BY <2>1, <2>2, <2>3, <2>4
<1> HIDE DEF e
<1>5. e = bytes
  BY <1>2, <1>3, <1>4
<1> QED BY <1>5 DEF e

(* A byte spells a natural number.                                         *)
LEMMA NumberNat == ASSUME NEW byte PROVE Number(byte) \in Nat
<1> DEFINE step == [k \in Nat |-> [v \in Nat |->
                      2 * v + (IF ByteBits - k \in byte THEN 1 ELSE 0)]]
           Solves(f) == f = [n \in 0..ByteBits |->
                               IF n = 0 THEN 0
                               ELSE 2 * f[n - 1] + (IF ByteBits - n \in byte THEN 1 ELSE 0)]
<1>1. ByteBits \in Nat /\ step \in [Nat -> [Nat -> Nat]]
  BY BitfieldsAssumption
<1>2. PICK f \in [0..ByteBits -> Nat] :
        f[0] = 0 /\ \A k \in 1..ByteBits : f[k] = step[k][f[k - 1]]
  <2> HIDE DEF step
  <2>1. Iterable(ByteBits, Nat, 0, step)
    BY <1>1, IterationExists
  <2> QED BY <2>1 DEF Iterable
<1>3. ASSUME NEW n \in 0..ByteBits, n # 0
      PROVE  f[n] = 2 * f[n - 1] + (IF ByteBits - n \in byte THEN 1 ELSE 0)
  <2>1. n \in 1..ByteBits /\ n \in Nat /\ n - 1 \in 0..ByteBits
    BY <1>1, <1>3
  <2>2. f[n] = step[n][f[n - 1]] /\ f[n - 1] \in Nat
    <3> HIDE DEF step
    <3> QED BY <1>2, <2>1
  <2> QED BY <2>1, <2>2
<1>4. Solves(f)
  <2> HIDE DEF step
  <2> QED BY <1>2, <1>3
<1> DEFINE upper == CHOOSE g : Solves(g)
<1>5. Number(byte) = upper[ByteBits]
  BY DEF Number
<1>6. Solves(upper)
  <2> HIDE DEF Solves
  <2> QED BY <1>4
<1> HIDE DEF upper
<1> DEFINE T == {n \in 0..ByteBits : upper[n] \in Nat}
<1>7. 0 \in T
  BY <1>1, <1>6
<1>8. ASSUME NEW k \in 0..(ByteBits - 1), k \in T PROVE k + 1 \in T
  <2>1. k + 1 \in 0..ByteBits /\ k + 1 # 0 /\ (k + 1) - 1 = k
    BY <1>1
  <2>2. upper[k + 1] = 2 * upper[k] + (IF ByteBits - (k + 1) \in byte THEN 1 ELSE 0)
    BY <1>6, <2>1
  <2> QED BY <1>8, <2>1, <2>2
<1>9. \A k \in 0..ByteBits : k \in T
  <2> HIDE DEF T, Solves
  <2> QED BY <1>1, <1>7, <1>8, BoundedInduction
<1> QED BY <1>1, <1>5, <1>9

-----------------------------------------------------------------------------
(* Selector and body of a message.                                         *)
LEMMA Joined ==
  ASSUME NEW n \in Nat, NEW endian, NEW w, w \subseteq 0..(n * ByteBits - 1),
         NEW body \in Seq(Byte)
  PROVE  LET bytes == Encode(w, n, endian) \o body
         IN  /\ bytes \in Seq(Byte) /\ Len(bytes) = n + Len(body)
             /\ Decode(SubSeq(bytes, 1, n), endian) = w
             /\ Tail_(bytes, n) = body
<1> DEFINE head == Encode(w, n, endian)
           bytes == head \o body
<1>1. head \in Seq(Byte) /\ Len(head) = n
  BY EncodeType
<1>2. Decode(head, endian) = w
  BY DecodeEncode
<1> HIDE DEF head
<1>3. /\ bytes \in Seq(Byte) /\ Len(bytes) = n + Len(body)
      /\ \A i \in 1..n : bytes[i] = head[i]
      /\ \A i \in 1..Len(body) : bytes[n + i] = body[i]
  BY <1>1
<1> HIDE DEF bytes
<1>4. SubSeq(bytes, 1, n) = head
  BY <1>1, <1>3
<1>5. Tail_(bytes, n) = body
  BY <1>1, <1>3 DEF Tail_
<1> QED BY <1>2, <1>3, <1>4, <1>5 DEF bytes, head

LEMMA Tailed ==
  ASSUME NEW bytes \in Seq(Byte), NEW n \in Nat, n <= Len(bytes)
  PROVE  /\ Tail_(bytes, n) \in Seq(Byte) /\ Len(Tail_(bytes, n)) = Len(bytes) - n
         /\ \A i \in 1..Len(Tail_(bytes, n)) : Tail_(bytes, n)[i] = bytes[n + i]
BY DEF Tail_

LEMMA Parted ==
  ASSUME NEW bytes \in Seq(Byte), NEW n \in Nat, n <= Len(bytes), NEW endian
  PROVE  /\ SubSeq(bytes, 1, n) \in Seq(Byte) /\ Len(SubSeq(bytes, 1, n)) = n
         /\ Encode(Decode(SubSeq(bytes, 1, n), endian), n, endian) \o Tail_(bytes, n) = bytes
<1> DEFINE head == SubSeq(bytes, 1, n)
           tail == Tail_(bytes, n)
           joined == head \o tail
<1>1. /\ head \in Seq(Byte) /\ Len(head) = n
      /\ \A i \in 1..n : head[i] = bytes[i]
  OBVIOUS
<1>2. /\ tail \in Seq(Byte) /\ Len(tail) = Len(bytes) - n
      /\ \A i \in 1..Len(tail) : tail[i] = bytes[n + i]
  BY Tailed
<1>3. Encode(Decode(head, endian), n, endian) = head
  <2> HIDE DEF head
  <2> QED BY <1>1, EncodeDecode
<1> HIDE DEF head, tail
<1>4. head \in Seq(Byte) /\ tail \in Seq(Byte) /\ Len(head) \in Nat /\ Len(tail) \in Nat
  BY <1>1, <1>2
<1>5. /\ joined \in Seq(Byte) /\ Len(joined) = Len(head) + Len(tail)
      /\ \A i \in 1..Len(head) : joined[i] = head[i]
      /\ \A i \in 1..Len(tail) : joined[Len(head) + i] = tail[i]
  BY <1>4
<1> HIDE DEF joined
<1>6. Len(bytes) \in Nat /\ Len(joined) = Len(bytes)
  BY <1>1, <1>2, <1>5
<1>7. ASSUME NEW i \in 1..Len(bytes) PROVE joined[i] = bytes[i]
  <2>1. CASE i \in 1..n
    BY <1>1, <1>5, <2>1
  <2>2. CASE i \notin 1..n
    <3> DEFINE j == i - n
    <3>1. j \in 1..Len(tail) /\ n + j = i
      BY <1>2, <1>6, <2>2
    <3> HIDE DEF j
    <3>2. joined[Len(head) + j] = tail[j] /\ tail[j] = bytes[n + j]
      BY <1>2, <1>5, <3>1
    <3> QED BY <1>1, <3>1, <3>2
  <2> QED BY <2>1, <2>2
<1>8. joined = bytes
  BY <1>5, <1>6, <1>7
<1> QED BY <1>1, <1>3, <1>8 DEF head, tail, joined

-----------------------------------------------------------------------------
(* What a declaration says of its arms, and a body of its extent.          *)
Declared == Speakers \cup Relays
Body     == [kind : BodyKinds, size : Nat]

LEMMA ArmTypes ==
  ASSUME NEW e \in Declared
  PROVE  /\ e.bytes \in Nat \ {0} /\ e.unknown \in BOOLEAN
         /\ Len(e.arms) \in Nat /\ Known(e) = 1..Len(e.arms)
         /\ \A a \in Known(e) : /\ e.arms[a].value \subseteq 0..(e.bytes * ByteBits - 1)
                                /\ e.arms[a].body \in Body
<1> DEFINE Arms == [value : SUBSET (0..(e.bytes * ByteBits - 1)), spelling : STRING, body : Body]
<1>1. e.bytes \in Nat \ {0} /\ e.unknown \in BOOLEAN /\ e.arms \in Seq(Arms)
  BY NominalRelayAssumption DEF Declared, Body
<1>2. Len(e.arms) \in Nat /\ Known(e) = 1..Len(e.arms) /\ \A a \in Known(e) : e.arms[a] \in Arms
  <2> HIDE DEF Arms
  <2> QED BY <1>1 DEF Known
<1> QED BY <1>1, <1>2

LEMMA BodyExtents ==
  ASSUME layout \in Layouts, NEW body \in Body, NEW bytes \in Seq(Byte)
  PROVE  /\ BodyExtent(body, bytes) \in Nat /\ BodyFixed(body) \in Nat \cup {None}
         /\ BodyFixed(body) # None => BodyExtent(body, bytes) = BodyFixed(body)
         /\ BodyFixed(body) = None => body.kind \in {"counted", "open"}
<1>1. layout.bytes \in Nat
  BY BitfieldsAssumption
<1>2. body.kind \in BodyKinds /\ body.size \in Nat
  BY DEF Body
<1>3. BodyFixed(body) \in Nat \cup {None}
  BY <1>1, <1>2 DEF BodyFixed, BodyKinds
<1>4. BodyFixed(body) = None => body.kind \in {"counted", "open"}
  BY <1>1, <1>2 DEF BodyFixed, BodyKinds, None
<1>5. BodyExtent(body, bytes) \in Nat
  BY <1>3, NumberNat DEF BodyExtent
<1> QED BY <1>3, <1>4, <1>5 DEF BodyExtent

-----------------------------------------------------------------------------
(* What opens is a whole message: its selector names one arm, whose body   *)
(* is all the rest, or it names none and the enum takes what it gets.      *)
Names(e, arm, bytes) ==
  /\ arm \in Known(e) /\ arm # 0
  /\ e.arms[arm].value = SelectorOf(e, bytes)
  /\ BodyExtent(e.arms[arm].body, Tail_(bytes, e.bytes)) = Len(bytes) - e.bytes

LEMMA Opened ==
  ASSUME layout \in Layouts, NEW e \in Declared, NEW bytes \in Seq(Byte),
         View(e, bytes).tag = "ok"
  PROVE  /\ ~DuplicateSelector(e) /\ e.bytes <= Len(bytes)
         /\ View(e, bytes) = Framed(View(e, bytes).arm, Len(bytes))
         /\ \/ Names(e, View(e, bytes).arm, bytes)
            \/ /\ View(e, bytes).arm = 0 /\ e.unknown
               /\ ArmsOf(e, SelectorOf(e, bytes)) = {}
<1> DEFINE tail == Tail_(bytes, e.bytes)
           known == ArmsOf(e, SelectorOf(e, bytes))
           arm == CHOOSE a \in known : TRUE
<1>1. e.bytes \in Nat \ {0} /\ Known(e) = 1..Len(e.arms) /\ Len(bytes) \in Nat
  BY ArmTypes
<1>2. View(e, bytes) = Frame(e, bytes) /\ ~(Frame(e, bytes).consumed < Len(bytes))
  BY DEF View, Failed
<1>3. ~DuplicateSelector(e) /\ ~(Len(bytes) < e.bytes) /\ (known # {} \/ e.unknown)
  BY <1>2 DEF Frame, Failed, NeedMore
<1>4. tail \in Seq(Byte) /\ Len(tail) = Len(bytes) - e.bytes
  BY <1>1, <1>3, Tailed
<1>5. CASE known # {}
  <2>1. arm \in Known(e) /\ arm # 0 /\ e.arms[arm].value = SelectorOf(e, bytes)
    BY <1>1, <1>5 DEF ArmsOf
  <2>2. Frame(e, bytes) = FrameVariant(e, arm, tail)
    BY <1>3, <1>5 DEF Frame
  <2> DEFINE extent == BodyExtent(e.arms[arm].body, tail)
  <2>3. extent \in Nat
    <3>1. e.arms[arm].body \in Body
      BY <2>1, ArmTypes
    <3> QED BY <1>4, <3>1, BodyExtents
  <2> HIDE DEF arm, tail, known
  <2>4. extent <= Len(tail) /\ Frame(e, bytes) = Framed(arm, e.bytes + extent)
    <3> HIDE DEF extent
    <3>1. CASE Len(tail) < extent
      BY <1>2, <2>2, <3>1 DEF FrameVariant, BodyFrame, NeedMore, extent
    <3>2. CASE ~(Len(tail) < extent)
      <4>1. BodyFrame(e.arms[arm].body, tail) = Framed(0, extent)
        BY <3>2 DEF BodyFrame, extent
      <4>2. extent <= Len(tail) /\ Framed(0, extent).tag = "ok"
            /\ Framed(0, extent).consumed = extent
        BY <1>4, <2>3, <3>2 DEF Framed
      <4>3. ~(extent > Len(tail))
        BY <1>4, <2>3, <4>2
      <4> QED BY <2>2, <4>1, <4>2, <4>3 DEF FrameVariant
    <3> QED BY <3>1, <3>2
  <2>5. extent = Len(bytes) - e.bytes /\ e.bytes + extent = Len(bytes)
    BY <1>1, <1>2, <1>4, <2>3, <2>4 DEF Framed
  <2>6. View(e, bytes) = Framed(arm, Len(bytes)) /\ Framed(arm, Len(bytes)).arm = arm
    BY <1>2, <2>4, <2>5 DEF Framed
  <2>7. Names(e, arm, bytes)
    BY <2>1, <2>5 DEF Names, tail
  <2> QED BY <1>1, <1>3, <2>6, <2>7
<1>6. CASE known = {}
  <2>1. View(e, bytes) = Framed(0, Len(bytes)) /\ Framed(0, Len(bytes)).arm = 0
    BY <1>2, <1>3, <1>6 DEF Frame, Framed
  <2> QED BY <1>1, <1>3, <1>6, <2>1
<1> QED BY <1>5, <1>6

LEMMA OpensKnown ==
  ASSUME layout \in Layouts, NEW e \in Declared, NEW bytes \in Seq(Byte),
         ~DuplicateSelector(e), e.bytes <= Len(bytes), NEW arm, Names(e, arm, bytes)
  PROVE  View(e, bytes) = Framed(arm, Len(bytes))
<1> DEFINE tail == Tail_(bytes, e.bytes)
           known == ArmsOf(e, SelectorOf(e, bytes))
           found == CHOOSE a \in known : TRUE
<1>1. e.bytes \in Nat \ {0} /\ Len(bytes) \in Nat
  BY ArmTypes
<1>2. known # {} /\ found = arm
  BY DEF Names, ArmsOf, DuplicateSelector
<1>3. Frame(e, bytes) = FrameVariant(e, found, tail)
  BY <1>1, <1>2 DEF Frame
<1>4. Len(tail) = Len(bytes) - e.bytes /\ BodyExtent(e.arms[arm].body, tail) = Len(tail)
  BY <1>1, Tailed DEF Names
<1> HIDE DEF tail, found
<1>5. BodyFrame(e.arms[arm].body, tail) = Framed(0, Len(tail))
  BY <1>1, <1>4 DEF BodyFrame
<1>6. Frame(e, bytes) = Framed(arm, Len(bytes))
  BY <1>1, <1>2, <1>3, <1>4, <1>5 DEF FrameVariant, Framed
<1> QED BY <1>1, <1>6 DEF View, Framed

LEMMA OpensUnknown ==
  ASSUME NEW e \in Declared, NEW bytes \in Seq(Byte), ~DuplicateSelector(e),
         e.bytes <= Len(bytes), e.unknown, ArmsOf(e, SelectorOf(e, bytes)) = {}
  PROVE  View(e, bytes) = Framed(0, Len(bytes))
<1>1. e.bytes \in Nat \ {0} /\ Len(bytes) \in Nat
  BY ArmTypes
<1> QED BY <1>1 DEF Frame, View, Framed

-----------------------------------------------------------------------------
(* A fixed size is the size every arm's body has.                          *)
LEMMA SizeShared ==
  ASSUME layout \in Layouts, NEW e \in Declared, FixedSize(e) # None,
         NEW arm \in Known(e)
  PROVE  /\ ~e.unknown /\ BodyFixed(e.arms[arm].body) # None
         /\ FixedSize(e) = e.bytes + BodyFixed(e.arms[arm].body)
<1> DEFINE size == [a \in Known(e) |-> BodyFixed(e.arms[a].body)]
           sizes == {BodyFixed(e.arms[a].body) : a \in Known(e)}
<1>1. ~e.unknown /\ EqualSize(e) # None /\ FixedSize(e) = e.bytes + EqualSize(e)
  BY DEF FixedSize
<1>2. Cardinality(sizes) = 1 /\ EqualSize(e) = CHOOSE s \in sizes : TRUE
  BY <1>1 DEF EqualSize
<1>3. IsFiniteSet(sizes)
  <2>1. IsFiniteSet(Known(e))
    BY ArmTypes, FS_Interval
  <2>2. size \in Surjection(Known(e), sizes)
    BY DEF Surjection
  <2> HIDE DEF size, sizes
  <2> QED BY <2>1, <2>2, FS_Surjection
<1>4. PICK one : sizes = {one}
  <2> HIDE DEF sizes
  <2> QED BY <1>2, <1>3, FS_Singleton
<1>5. BodyFixed(e.arms[arm].body) \in sizes
  OBVIOUS
<1> HIDE DEF sizes
<1>6. EqualSize(e) = BodyFixed(e.arms[arm].body)
  BY <1>2, <1>4, <1>5
<1> QED BY <1>1, <1>6

(* Every message that opens has the fixed size its declaration states.     *)
LEMMA SizeTrue ==
  ASSUME layout \in Layouts, NEW e \in Declared, NEW bytes \in Seq(Byte),
         View(e, bytes).tag = "ok"
  PROVE  FixedSize(e) \in {None, Len(bytes)}
<1> SUFFICES ASSUME FixedSize(e) # None PROVE FixedSize(e) = Len(bytes)
  OBVIOUS
<1> DEFINE arm == View(e, bytes).arm
           tail == Tail_(bytes, e.bytes)
<1>1. ~e.unknown
  BY DEF FixedSize
<1>2. Names(e, arm, bytes) /\ e.bytes <= Len(bytes)
  BY <1>1, Opened
<1>3. e.bytes \in Nat /\ Len(bytes) \in Nat /\ e.arms[arm].body \in Body /\ arm \in Known(e)
  BY <1>2, ArmTypes DEF Names
<1>4. tail \in Seq(Byte)
  BY <1>2, <1>3, Tailed
<1> HIDE DEF arm
<1>5. /\ BodyFixed(e.arms[arm].body) # None
      /\ FixedSize(e) = e.bytes + BodyFixed(e.arms[arm].body)
  BY <1>3, SizeShared
<1>6. BodyFixed(e.arms[arm].body) = Len(bytes) - e.bytes
  BY <1>2, <1>3, <1>4, <1>5, BodyExtents DEF Names
<1> QED BY <1>3, <1>5, <1>6

(* A body with a leading extent asks the same of any bytes that continue   *)
(* its own, and of fewer it asks no less than one more and no more than    *)
(* are missing.                                                            *)
LEMMA BodyLeads ==
  ASSUME layout \in Layouts, NEW body \in Body, BodyLeading(body),
         NEW bytes \in Seq(Byte), BodyExtent(body, bytes) = Len(bytes)
  PROVE  /\ \A more \in Seq(Byte) :
              /\ Len(bytes) <= Len(more)
              /\ \A i \in 1..Len(bytes) : more[i] = bytes[i]
              => BodyExtent(body, more) = Len(bytes)
         /\ \A less \in Seq(Byte) :
              /\ Len(less) < Len(bytes)
              /\ \A i \in 1..Len(less) : less[i] = bytes[i]
              => BodyExtent(body, less) \in (Len(less) + 1)..Len(bytes)
<1>1. BodyExtent(body, bytes) \in Nat /\ Len(bytes) \in Nat
  BY BodyExtents
<1>2. CASE BodyFixed(body) # None
  <2>1. \A other \in Seq(Byte) : BodyExtent(body, other) = Len(bytes) /\ Len(other) \in Nat
    BY <1>2 DEF BodyExtent
  <2> QED BY <1>1, <2>1
<1>3. CASE BodyFixed(body) = None
  <2>1. \A other \in Seq(Byte) :
          BodyExtent(body, other) = IF other = <<>> THEN 1 ELSE 1 + Number(other[1])
    BY <1>3 DEF BodyExtent, BodyLeading
  <2>2. bytes # <<>> /\ Len(bytes) = 1 + Number(bytes[1]) /\ Len(bytes) >= 1
    <3>1. bytes = <<>> => Len(bytes) = 0
      OBVIOUS
    <3> QED BY <1>1, <2>1, <3>1, NumberNat
  <2>3. \A other \in Seq(Byte) : other # <<>> => Len(other) \in Nat /\ Len(other) >= 1
    OBVIOUS
  <2>4. Len(<<>>) = 0
    OBVIOUS
  <2>5. \A other \in Seq(Byte) : Len(other) >= 1 => other # <<>>
    BY <2>4
  <2>6. ASSUME NEW more \in Seq(Byte), Len(bytes) <= Len(more),
               \A i \in 1..Len(bytes) : more[i] = bytes[i]
        PROVE  BodyExtent(body, more) = Len(bytes)
    <3>1. Len(more) \in Nat /\ 1 \in 1..Len(bytes)
      BY <1>1, <2>2
    <3>2. more # <<>> /\ more[1] = bytes[1]
      BY <1>1, <2>2, <2>5, <2>6, <3>1
    <3> QED BY <2>1, <2>2, <3>2
  <2>7. ASSUME NEW less \in Seq(Byte), Len(less) < Len(bytes),
               \A i \in 1..Len(less) : less[i] = bytes[i]
        PROVE  BodyExtent(body, less) \in (Len(less) + 1)..Len(bytes)
    <3>1. CASE less = <<>>
      <4>1. BodyExtent(body, less) = 1 /\ Len(less) = 0
        BY <2>1, <2>4, <3>1
      <4> QED BY <1>1, <2>2, <4>1
    <3>2. CASE less # <<>>
      <4>1. less[1] = bytes[1] /\ Len(less) \in Nat
        BY <2>3, <2>7, <3>2
      <4> QED BY <1>1, <2>1, <2>2, <2>7, <3>2, <4>1
    <3> QED BY <3>1, <3>2
  <2> QED BY <2>6, <2>7
<1> QED BY <1>2, <1>3

-----------------------------------------------------------------------------
(* A message and what continues or begins it.                              *)
LEMMA SameSelector ==
  ASSUME NEW e \in Declared, NEW a \in Seq(Byte), NEW b \in Seq(Byte),
         e.bytes <= Len(a), e.bytes <= Len(b), \A i \in 1..e.bytes : a[i] = b[i]
  PROVE  SelectorOf(e, a) = SelectorOf(e, b)
<1> DEFINE n == e.bytes
<1>1. n \in Nat
  BY ArmTypes
<1>2. SubSeq(a, 1, n) = SubSeq(b, 1, n)
  <2> HIDE DEF n
  <2>1. /\ SubSeq(a, 1, n) \in Seq(Byte) /\ Len(SubSeq(a, 1, n)) = n
        /\ SubSeq(b, 1, n) \in Seq(Byte) /\ Len(SubSeq(b, 1, n)) = n
    BY <1>1 DEF n
  <2>2. \A i \in 1..n : SubSeq(a, 1, n)[i] = SubSeq(b, 1, n)[i]
    BY <1>1 DEF n
  <2> QED BY <2>1, <2>2
<1> QED BY <1>2 DEF SelectorOf

LEMMA SameTail ==
  ASSUME NEW a \in Seq(Byte), NEW b \in Seq(Byte), NEW n \in Nat, n <= Len(a),
         Len(a) <= Len(b), \A i \in 1..Len(a) : a[i] = b[i]
  PROVE  /\ Len(Tail_(a, n)) <= Len(Tail_(b, n))
         /\ \A i \in 1..Len(Tail_(a, n)) : Tail_(a, n)[i] = Tail_(b, n)[i]
<1> DEFINE s == Tail_(a, n)
           t == Tail_(b, n)
<1>1. Len(a) \in Nat /\ Len(b) \in Nat /\ n <= Len(b)
  OBVIOUS
<1>2. /\ Len(s) = Len(a) - n /\ Len(t) = Len(b) - n
      /\ \A i \in 1..Len(s) : s[i] = a[n + i]
      /\ \A i \in 1..Len(t) : t[i] = b[n + i]
  BY <1>1, Tailed
<1> HIDE DEF s, t
<1>3. ASSUME NEW i \in 1..Len(s) PROVE s[i] = t[i]
  <2>1. i \in 1..Len(t) /\ n + i \in 1..Len(a)
    BY <1>1, <1>2
  <2> QED BY <1>2, <2>1
<1>4. Len(s) <= Len(t)
  BY <1>1, <1>2
<1> QED BY <1>3, <1>4 DEF s, t

LEMMA KnownArm ==
  ASSUME layout \in Layouts, NEW e \in Declared, NEW bytes \in Seq(Byte),
         View(e, bytes).tag = "ok", LeadingExtent(e)
  PROVE  /\ Names(e, View(e, bytes).arm, bytes)
         /\ e.arms[View(e, bytes).arm].body \in Body
         /\ BodyLeading(e.arms[View(e, bytes).arm].body)
         /\ BodyExtent(e.arms[View(e, bytes).arm].body, Tail_(bytes, e.bytes))
              = Len(Tail_(bytes, e.bytes))
         /\ Tail_(bytes, e.bytes) \in Seq(Byte)
         /\ Len(Tail_(bytes, e.bytes)) = Len(bytes) - e.bytes
<1>1. Names(e, View(e, bytes).arm, bytes) /\ e.bytes <= Len(bytes) /\ e.bytes \in Nat
  BY Opened, ArmTypes DEF LeadingExtent
<1>2. Tail_(bytes, e.bytes) \in Seq(Byte) /\ Len(Tail_(bytes, e.bytes)) = Len(bytes) - e.bytes
  BY <1>1, Tailed
<1> QED BY <1>1, <1>2, ArmTypes DEF Names, LeadingExtent

LEMMA FrameFound ==
  ASSUME NEW e \in Declared, NEW bytes \in Seq(Byte), ~DuplicateSelector(e),
         e.bytes <= Len(bytes), NEW arm \in Known(e), e.arms[arm].value = SelectorOf(e, bytes)
  PROVE  Frame(e, bytes) = FrameVariant(e, arm, Tail_(bytes, e.bytes))
<1> DEFINE found == CHOOSE a \in ArmsOf(e, SelectorOf(e, bytes)) : TRUE
<1>1. ArmsOf(e, SelectorOf(e, bytes)) # {} /\ found = arm
  BY DEF ArmsOf, DuplicateSelector
<1>2. e.bytes \in Nat /\ Len(bytes) \in Nat
  BY ArmTypes
<1>3. Frame(e, bytes) = FrameVariant(e, found, Tail_(bytes, e.bytes))
  BY <1>1, <1>2 DEF Frame
<1> QED BY <1>1, <1>3

LEMMA FrameLonger ==
  ASSUME layout \in Layouts, NEW e \in Declared, NEW bytes \in Seq(Byte),
         View(e, bytes).tag = "ok", LeadingExtent(e),
         NEW more \in Seq(Byte), Len(bytes) <= Len(more),
         \A i \in 1..Len(bytes) : bytes[i] = more[i]
  PROVE  Frame(e, more).consumed = Len(bytes)
<1> DEFINE arm == View(e, bytes).arm
           body == e.arms[arm].body
           s == Tail_(bytes, e.bytes)
           t == Tail_(more, e.bytes)
<1>1. /\ arm \in Known(e) /\ e.arms[arm].value = SelectorOf(e, bytes) /\ ~DuplicateSelector(e)
      /\ e.bytes \in Nat /\ e.bytes <= Len(bytes) /\ Len(bytes) \in Nat /\ Len(more) \in Nat
  BY KnownArm, Opened, ArmTypes DEF Names
<1>2. /\ body \in Body /\ BodyLeading(body) /\ BodyExtent(body, s) = Len(s)
      /\ s \in Seq(Byte) /\ Len(s) = Len(bytes) - e.bytes
  BY KnownArm
<1> HIDE DEF arm
<1>3. e.bytes <= Len(more) /\ \A i \in 1..e.bytes : i \in 1..Len(bytes)
  BY <1>1
<1>4. t \in Seq(Byte) /\ Len(t) = Len(more) - e.bytes
  BY <1>1, <1>3, Tailed
<1>5. SelectorOf(e, more) = SelectorOf(e, bytes)
  BY <1>1, <1>3, SameSelector
<1>6. Frame(e, more) = FrameVariant(e, arm, t)
  BY <1>1, <1>3, <1>5, FrameFound
<1>7. Len(s) <= Len(t) /\ \A i \in 1..Len(s) : s[i] = t[i]
  BY <1>1, SameTail
<1> HIDE DEF s, t, body
<1>8. BodyExtent(body, t) = Len(s) /\ Len(s) \in Nat
  BY <1>1, <1>2, <1>4, <1>7, BodyLeads
<1>9. BodyFrame(body, t) = Framed(0, Len(s))
  BY <1>1, <1>4, <1>7, <1>8 DEF BodyFrame
<1>10. FrameVariant(e, arm, t) = Framed(arm, e.bytes + Len(s))
  BY <1>1, <1>2, <1>4, <1>7, <1>9 DEF FrameVariant, Framed, body
<1> QED BY <1>1, <1>2, <1>6, <1>10 DEF Framed

LEMMA FrameShorter ==
  ASSUME layout \in Layouts, NEW e \in Declared, NEW bytes \in Seq(Byte),
         View(e, bytes).tag = "ok", LeadingExtent(e),
         NEW less \in Seq(Byte), Len(less) < Len(bytes),
         \A i \in 1..Len(less) : less[i] = bytes[i]
  PROVE  /\ Frame(e, less).tag = "need_more"
         /\ Frame(e, less).more \in 1..(Len(bytes) - Len(less))
<1> DEFINE arm == View(e, bytes).arm
           body == e.arms[arm].body
           s == Tail_(less, e.bytes)
           t == Tail_(bytes, e.bytes)
<1>1. /\ arm \in Known(e) /\ e.arms[arm].value = SelectorOf(e, bytes) /\ ~DuplicateSelector(e)
      /\ e.bytes \in Nat /\ e.bytes <= Len(bytes) /\ Len(bytes) \in Nat /\ Len(less) \in Nat
  BY KnownArm, Opened, ArmTypes DEF Names
<1>2. /\ body \in Body /\ BodyLeading(body) /\ BodyExtent(body, t) = Len(t)
      /\ t \in Seq(Byte) /\ Len(t) = Len(bytes) - e.bytes
  BY KnownArm
<1> HIDE DEF arm
<1>3. CASE Len(less) < e.bytes
  <2>1. Frame(e, less) = NeedMore(e.bytes - Len(less))
    BY <1>1, <1>3 DEF Frame
  <2> QED BY <1>1, <1>3, <2>1 DEF NeedMore
<1>4. CASE ~(Len(less) < e.bytes)
  <2>1. e.bytes <= Len(less) /\ \A i \in 1..e.bytes : i \in 1..Len(less)
    BY <1>1, <1>4
  <2>2. s \in Seq(Byte) /\ Len(s) = Len(less) - e.bytes
    BY <1>1, <2>1, Tailed
  <2>3. SelectorOf(e, less) = SelectorOf(e, bytes)
    BY <1>1, <2>1, SameSelector
  <2>4. Frame(e, less) = FrameVariant(e, arm, s)
    BY <1>1, <2>1, <2>3, FrameFound
  <2>5. \A i \in 1..Len(s) : s[i] = t[i]
    BY <1>1, <2>1, SameTail
  <2> HIDE DEF s, t, body
  <2>6. BodyExtent(body, s) \in (Len(s) + 1)..Len(t)
    <3>1. Len(s) < Len(t)
      BY <1>1, <1>2, <2>1, <2>2
    <3> QED BY <1>2, <2>2, <2>5, <3>1, BodyLeads
  <2>7. BodyFrame(body, s) = NeedMore(BodyExtent(body, s) - Len(s))
    BY <1>1, <1>2, <2>2, <2>6 DEF BodyFrame
  <2>8. FrameVariant(e, arm, s) = NeedMore(BodyExtent(body, s) - Len(s))
    BY <2>7 DEF FrameVariant, NeedMore, body
  <2> QED BY <1>1, <1>2, <2>1, <2>2, <2>4, <2>6, <2>8, SMTT(30) DEF NeedMore
<1> QED BY <1>3, <1>4

-----------------------------------------------------------------------------
(* The words of a bitfield.                                                *)
Word == 0..(layout.bytes * ByteBits - 1)

LEMMA MaskInWord ==
  ASSUME layout \in Layouts, Accepts(layout), NEW k \in DOMAIN Fields
  PROVE  Mask(Fields[k]) \subseteq Word
<1>1. Fields[k].start \in Nat /\ Fields[k].end \in Nat
  BY FieldSound DEF Sound, Fields
<1>2. Fields[k].end < layout.bytes * ByteBits
  BY DEF Accepts, LayoutAccepted, FieldAccepted, Fields
<1>3. layout.bytes * ByteBits \in Nat
  BY BitfieldsAssumption
<1> QED BY <1>1, <1>2, <1>3 DEF Mask, Word

(* A word that was read and set again field by field reads the same.       *)
LEMMA Again ==
  ASSUME layout \in Layouts, Accepts(layout), NEW body, body.kind = "bits",
         NEW bytes \in Seq(Byte), Len(bytes) = layout.bytes
  PROVE  /\ Rebuilt(body, bytes) \in Seq(Byte) /\ Len(Rebuilt(body, bytes)) = layout.bytes
         /\ \A k \in DOMAIN Fields :
              Got(Decode(Rebuilt(body, bytes), layout.endian), Fields[k])
                = Got(Decode(bytes, layout.endian), Fields[k])
<1> DEFINE w == Decode(bytes, layout.endian)
           n == Len(Fields)
           S == SUBSET Word
           Next_(k, v) == Placed(v, Fields[k], Got(w, Fields[k]))
           step == [k \in Nat |-> [v \in S |-> IF k \in 1..n THEN Next_(k, v) ELSE v]]
           Solves(f) == f = [k \in 0..n |-> IF k = 0 THEN {} ELSE Next_(k, f[k - 1])]
           after == CHOOSE g : Solves(g)
<1>1. n \in Nat /\ DOMAIN Fields = 1..n /\ layout.bytes \in Nat
  <2>1. Fields \in Seq([start : Nat, end : Nat, type : DOMAIN Values])
    BY BitfieldsAssumption DEF Fields
  <2> QED BY <2>1, BitfieldsAssumption
<1>2. \A k \in 1..n : \A v \in S : Next_(k, v) \in S
  <2> HIDE DEF w
  <2> QED BY <1>1, MaskInWord DEF Placed
<1>3. step \in [Nat -> [S -> S]] /\ {} \in S
  <2> HIDE DEF Next_, S
  <2>1. \A k \in Nat : [v \in S |-> IF k \in 1..n THEN Next_(k, v) ELSE v] \in [S -> S]
    BY <1>2
  <2>2. {} \in S
    BY DEF S
  <2> QED BY <2>1, <2>2
<1>4. PICK f \in [0..n -> S] : f[0] = {} /\ \A k \in 1..n : f[k] = step[k][f[k - 1]]
  <2> HIDE DEF S, step, n
  <2>1. Iterable(n, S, {}, step)
    BY <1>1, <1>3, IterationExists
  <2> QED BY <2>1 DEF Iterable
<1>5. ASSUME NEW k \in 0..n, k # 0 PROVE f[k] = Next_(k, f[k - 1])
  <2>1. k \in 1..n /\ k \in Nat /\ k - 1 \in 0..n
    BY <1>1, <1>5
  <2>2. f[k - 1] \in S /\ f[k] = step[k][f[k - 1]]
    <3> HIDE DEF S, step, n
    <3> QED BY <1>4, <2>1
  <2> HIDE DEF S, Next_, n
  <2> QED BY <2>1, <2>2
<1>6. Solves(after)
  <2>1. Solves(f)
    <3> HIDE DEF S, Next_, step, n
    <3> QED BY <1>4, <1>5
  <2> HIDE DEF Solves
  <2> QED BY <2>1
<1>7. Rebuilt(body, bytes) = Encode(after[n], layout.bytes, layout.endian)
  BY DEF Rebuilt, Fields
<1> HIDE DEF after
<1> DEFINE T == {k \in 0..n :
                   /\ after[k] \in S
                   /\ \A j \in 1..k : Got(after[k], Fields[j]) = Got(w, Fields[j])}
<1>8. 0 \in T
  <2> HIDE DEF w, n
  <2>1. after[0] = {} /\ 0 \in 0..n
    BY <1>1, <1>6
  <2> QED BY <1>3, <2>1
<1>9. ASSUME NEW k \in 0..(n - 1), k \in T PROVE k + 1 \in T
  <2> DEFINE m == k + 1
             v == after[k]
  <2>1. m \in 1..n /\ m \in 0..n /\ m # 0 /\ m - 1 = k /\ \A j \in 1..m : j = m \/ j \in 1..k
    BY <1>1
  <2>2. after[m] = Next_(m, v)
    <3> HIDE DEF Next_, n, m
    <3> QED BY <1>6, <2>1
  <2>3. v \in S /\ \A j \in 1..k : Got(v, Fields[j]) = Got(w, Fields[j])
    BY <1>9
  <2> HIDE DEF w, v, m
  <2>4. after[m] \in S
    BY <1>2, <2>1, <2>2, <2>3
  <2>5. Got(after[m], Fields[m]) = Got(w, Fields[m])
    <3>1. Sound(Fields[m])
      BY <1>1, <2>1, FieldSound DEF Fields
    <3>2. Fits(Fields[m], Got(w, Fields[m]))
      BY DEF Fits, Got, ValueMask
    <3> QED BY <2>2, <3>1, <3>2, GotPlaced
  <2>6. ASSUME NEW j \in 1..k PROVE Got(after[m], Fields[j]) = Got(w, Fields[j])
    <3>1. j \in 1..n /\ j # m
      BY <1>1, <2>1 DEF m
    <3>2. /\ Sound(Fields[m]) /\ Sound(Fields[j])
          /\ Mask(Fields[m]) \cap Mask(Fields[j]) = {}
      BY <1>1, <2>1, <3>1, FieldSound, FieldsDisjoint DEF Fields
    <3> QED BY <2>2, <2>3, <3>2, GotElsewhere
  <2>7. m \in T
    <3> HIDE DEF n, S
    <3> QED BY <2>1, <2>4, <2>5, <2>6
  <2> QED BY <2>7 DEF m
<1>10. n \in T
  <2>1. \A k \in 0..n : k \in T
    <3> HIDE DEF T, n
    <3> QED BY <1>1, <1>8, <1>9, BoundedInduction
  <2> QED BY <1>1, <2>1
<1>11. after[n] \subseteq Word /\ \A j \in DOMAIN Fields : Got(after[n], Fields[j]) = Got(w, Fields[j])
  BY <1>1, <1>10
<1> HIDE DEF w, n, T, S
<1>12. Decode(Rebuilt(body, bytes), layout.endian) = after[n]
  BY <1>1, <1>7, <1>11, DecodeEncode DEF Word
<1> QED BY <1>1, <1>7, <1>11, <1>12, EncodeType DEF w

-----------------------------------------------------------------------------
(* What a builder wrote, as the view of the same declaration sees it.      *)
LEMMA KnownBytes ==
  ASSUME NEW e \in Declared, NEW arm \in Known(e), NEW body \in Seq(Byte)
  PROVE  /\ WriteKnown(e, arm, body) \in Seq(Byte)
         /\ Len(WriteKnown(e, arm, body)) = e.bytes + Len(body)
         /\ SelectorOf(e, WriteKnown(e, arm, body)) = e.arms[arm].value
         /\ Tail_(WriteKnown(e, arm, body), e.bytes) = body
<1>1. e.bytes \in Nat /\ e.arms[arm].value \subseteq 0..(e.bytes * ByteBits - 1)
  BY ArmTypes
<1> QED BY <1>1, Joined DEF WriteKnown, SelectorOf

LEMMA KnownOpens ==
  ASSUME layout \in Layouts, NEW e \in Declared, ~DuplicateSelector(e),
         NEW arm \in Known(e), NEW body \in Seq(Byte),
         BodyExtent(e.arms[arm].body, body) = Len(body)
  PROVE  LET bytes == WriteKnown(e, arm, body)
         IN  /\ View(e, bytes) = Framed(arm, Len(bytes))
             /\ Variant(e, View(e, bytes), bytes) =
                  [selector |-> e.arms[arm].value, arm |-> arm,
                   body |-> ReadBody(e.arms[arm].body, body)]
<1> DEFINE bytes == WriteKnown(e, arm, body)
<1>1. /\ bytes \in Seq(Byte) /\ Len(bytes) = e.bytes + Len(body)
      /\ SelectorOf(e, bytes) = e.arms[arm].value /\ Tail_(bytes, e.bytes) = body
  BY KnownBytes
<1>2. e.bytes \in Nat /\ Len(body) \in Nat /\ arm # 0
  BY ArmTypes
<1> HIDE DEF bytes
<1>3. Names(e, arm, bytes) /\ e.bytes <= Len(bytes)
  BY <1>1, <1>2 DEF Names
<1>4. View(e, bytes) = Framed(arm, Len(bytes))
  BY <1>1, <1>3, OpensKnown
<1>5. Variant(e, Framed(arm, Len(bytes)), bytes) =
        [selector |-> e.arms[arm].value, arm |-> arm,
         body |-> ReadBody(e.arms[arm].body, body)]
  BY <1>1, <1>2 DEF Variant, Selector, Framed
<1> QED BY <1>4, <1>5 DEF bytes

LEMMA UnknownOpens ==
  ASSUME NEW e \in Declared, NEW selector, selector \subseteq 0..(e.bytes * ByteBits - 1),
         NEW body \in Seq(Byte)
  PROVE  LET bytes == WriteUnknown(e, selector, body)
         IN  /\ bytes \in Seq(Byte)
             /\ UnknownAllowed(e, selector) /\ ~DuplicateSelector(e) =>
                  /\ View(e, bytes) = Framed(0, Len(bytes))
                  /\ Variant(e, View(e, bytes), bytes) =
                       [selector |-> selector, arm |-> 0, body |-> body]
<1> DEFINE bytes == WriteUnknown(e, selector, body)
<1>1. e.bytes \in Nat /\ Len(body) \in Nat
  BY ArmTypes
<1>2. /\ bytes \in Seq(Byte) /\ Len(bytes) = e.bytes + Len(body)
      /\ SelectorOf(e, bytes) = selector /\ Tail_(bytes, e.bytes) = body
  BY <1>1, Joined DEF WriteUnknown, SelectorOf
<1> HIDE DEF bytes
<1>3. ASSUME UnknownAllowed(e, selector), ~DuplicateSelector(e)
      PROVE  /\ View(e, bytes) = Framed(0, Len(bytes))
             /\ Variant(e, Framed(0, Len(bytes)), bytes) =
                  [selector |-> selector, arm |-> 0, body |-> body]
  <2>1. e.unknown /\ ArmsOf(e, SelectorOf(e, bytes)) = {} /\ e.bytes <= Len(bytes)
    BY <1>1, <1>2, <1>3 DEF UnknownAllowed
  <2>2. View(e, bytes) = Framed(0, Len(bytes))
    BY <1>2, <1>3, <2>1, OpensUnknown
  <2> QED BY <1>2, <2>2 DEF Variant, Selector, Framed
<1> QED BY <1>2, <1>3 DEF bytes

-----------------------------------------------------------------------------
(* The inductive invariant: the bitfield's own, and how the bytes on the   *)
(* wire came about, in terms of the declarations and of what was set.      *)
Written ==
  \/ meant = Nobody
  \/ \E a \in Known(speaker), body \in Seq(Byte) :
       /\ Composed(speaker.arms[a].body, body) /\ wire = WriteKnown(speaker, a, body)
       /\ meant = [selector |-> speaker.arms[a].value, arm |-> a, body |-> body]
  \/ \E a \in Known(speaker) :
       /\ speaker.arms[a].body.kind = "bits" /\ Complete /\ invalid = 0
       /\ wire = WriteKnown(speaker, a, Encode(raw, layout.bytes, layout.endian))
       /\ meant = [selector |-> speaker.arms[a].value, arm |-> a, body |-> given]
  \/ \E selector \in SUBSET (0..(speaker.bytes * ByteBits - 1)), body \in Seq(Byte) :
       /\ UnknownAllowed(speaker, selector) /\ wire = WriteUnknown(speaker, selector, body)
       /\ meant = [selector |-> selector, arm |-> 0, body |-> body]

Passed ==
  LET frame == View(relay, wire)
      body  == Tail_(wire, relay.bytes)
  IN  /\ frame.tag = "ok"
      /\ \/ forwarded = wire
         \/ /\ frame.arm # 0
            /\ forwarded = WriteKnown(relay, frame.arm,
                                      Rebuilt(relay.arms[frame.arm].body, body))
         \/ /\ frame.arm = 0
            /\ forwarded = WriteUnknown(relay, SelectorOf(relay, wire), body)

Kept ==
  /\ Inv /\ given = [k \in DOMAIN given |-> given[k]]
  /\ speaker \in Speakers /\ relay \in Relays /\ Older(relay, speaker)

RelayInv ==
  /\ Kept
  /\ stage \in {"composing", "sent", "forwarded", "refused", "dropped"}
  /\ wire \in Seq(Byte)
  /\ stage = "sent" => Written
  /\ stage = "forwarded" => Passed

LEMMA RelayInit == ASSUME Init PROVE RelayInv
<1>1. Inv
  BY InitInv DEF Init
<1>2. given = [k \in DOMAIN given |-> given[k]] /\ wire \in Seq(Byte)
  BY DEF Init, BitInit
<1> QED BY <1>1, <1>2 DEF Init, RelayInv, Kept

LEMMA SetPreserves ==
  ASSUME RelayInv, NEW k, NEW value, Set(k, value) PROVE RelayInv'
<1>1. stage' = "composing" /\ SetField(k, value) /\ UNCHANGED messageVars
  BY DEF Set, messageVars
<1>2. Inv'
  BY <1>1, SetFieldInv DEF RelayInv, Kept
<1>3. (given = [j \in DOMAIN given |-> given[j]])'
  BY <1>1 DEF SetField
<1> QED BY <1>1, <1>2, <1>3 DEF RelayInv, Kept, messageVars, Older, Known

(* What a step that leaves the bitfield and the declarations alone keeps.  *)
LEMMA KeptPreserved ==
  ASSUME RelayInv, UNCHANGED <<bitVars, speaker, relay>> PROVE Kept'
BY DEF RelayInv, Kept, bitVars, Inv, GivenOK, FieldsIndependent, BuildersAgree, Integral,
       Fields, Older, Known

(* The word of the detached builder, when every field was given.           *)
LEMMA RawReads ==
  ASSUME RelayInv, Complete, invalid = 0
  PROVE  /\ layout \in Layouts /\ layout.bytes \in Nat /\ raw \subseteq Word
         /\ (\A k \in DOMAIN given : Integral(k)) =>
              [k \in DOMAIN layout.fields |-> Got(raw, layout.fields[k])] = given
<1>1. /\ layout \in Layouts /\ Accepts(layout) /\ DOMAIN given = DOMAIN layout.fields
      /\ given = [k \in DOMAIN given |-> given[k]]
  BY DEF RelayInv, Kept, Inv, GivenOK, Complete
<1>2. raw \subseteq Word
  BY <1>1, MaskInWord DEF RelayInv, Kept, Inv, FieldsIndependent, Fields
<1>3. ASSUME \A k \in DOMAIN given : Integral(k)
      PROVE  \A k \in DOMAIN given : Got(raw, layout.fields[k]) = given[k]
  BY <1>3 DEF RelayInv, Kept, Inv, FieldsIndependent, BuildersAgree
<1>4. layout.bytes \in Nat
  BY <1>1, BitfieldsAssumption
<1>5. ASSUME \A k \in DOMAIN given : Integral(k)
      PROVE  [k \in DOMAIN layout.fields |-> Got(raw, layout.fields[k])] = given
  <2>1. \A k \in DOMAIN given : Got(raw, layout.fields[k]) = given[k]
    BY <1>3, <1>5
  <2>2. [k \in DOMAIN given |-> Got(raw, layout.fields[k])] = [k \in DOMAIN given |-> given[k]]
    BY <2>1
  <2> QED BY <1>1, <2>2
<1> QED BY <1>1, <1>2, <1>4, <1>5

(* A step that ends the composing.                                         *)
LEMMA SentPreserves ==
  ASSUME RelayInv, NEW variant, NEW bytes \in Seq(Byte), Sent(variant, bytes),
         Written'
  PROVE  RelayInv'
<1>1. Kept'
  BY KeptPreserved DEF Sent
<1> QED BY <1>1 DEF Sent, RelayInv

LEMMA SendPreserves ==
  ASSUME RelayInv, NEW a \in Known(speaker), NEW bytes \in Bodies, Send(a, bytes)
  PROVE  RelayInv'
<1> DEFINE arm == speaker.arms[a]
           wired == WriteKnown(speaker, a, bytes)
           variant == [selector |-> arm.value, arm |-> a, body |-> bytes]
<1>1. bytes \in Seq(Byte) /\ speaker \in Declared
  BY NominalRelayAssumption DEF RelayInv, Kept, Declared
<1>2. wired \in Seq(Byte)
  BY <1>1, KnownBytes
<1>3. Composed(arm.body, bytes) /\ Sent(variant, wired)
  BY DEF Send
<1>4. wire' = wired /\ meant' = variant /\ UNCHANGED <<layout, speaker>>
  BY <1>3 DEF Sent, bitVars
<1>5. Written'
  <2>1. a \in Known(speaker)' /\ Composed(arm.body, bytes)'
    BY <1>3, <1>4 DEF Known, Composed, BodyFrame, BodyExtent, BodyFixed, Number, Framed, NeedMore
  <2>2. (wire = WriteKnown(speaker, a, bytes))'
    BY <1>4 DEF WriteKnown, Encode, Place
  <2> QED BY <1>1, <1>4, <2>1, <2>2 DEF Written
<1> QED BY <1>2, <1>3, <1>5, SentPreserves

LEMMA SendBitsPreserves ==
  ASSUME RelayInv, NEW a \in Known(speaker), SendBits(a)
  PROVE  RelayInv'
<1> DEFINE arm == speaker.arms[a]
           body == Encode(raw, layout.bytes, layout.endian)
           wired == WriteKnown(speaker, a, body)
           variant == [selector |-> arm.value, arm |-> a, body |-> given]
<1>1. speaker \in Declared /\ Complete /\ arm.body.kind = "bits"
  BY DEF RelayInv, Kept, Declared, SendBits
<1>2. CASE invalid # 0
  <2>1. /\ stage' = "refused" /\ wire' = WriteKnown(speaker, a, <<>>)
        /\ UNCHANGED <<bitVars, speaker, relay, meant, forwarded>>
    BY <1>2 DEF SendBits
  <2>2. WriteKnown(speaker, a, <<>>) \in Seq(Byte)
    <3>1. <<>> \in Seq(Byte)
      OBVIOUS
    <3> QED BY <1>1, <3>1, KnownBytes
  <2>3. Kept'
    BY <2>1, KeptPreserved
  <2> QED BY <2>1, <2>2, <2>3 DEF RelayInv
<1>3. CASE invalid = 0
  <2>1. Sent(variant, wired)
    BY <1>3 DEF SendBits
  <2>2. wired \in Seq(Byte)
    <3>1. body \in Seq(Byte)
      BY <1>1, <1>3, RawReads, EncodeType
    <3> HIDE DEF body
    <3> QED BY <1>1, <3>1, KnownBytes
  <2>3. wire' = wired /\ meant' = variant /\ UNCHANGED <<layout, speaker, raw, given, invalid>>
    BY <2>1 DEF Sent, bitVars
  <2>4. Written'
    <3>1. /\ a \in Known(speaker)' /\ (speaker.arms[a].body.kind = "bits")'
          /\ Complete' /\ (invalid = 0)'
      BY <1>1, <1>3, <2>3 DEF Known, Complete
    <3>2. (wire = WriteKnown(speaker, a, Encode(raw, layout.bytes, layout.endian)))'
      BY <2>3 DEF WriteKnown, Encode, Place
    <3> QED BY <2>3, <3>1, <3>2 DEF Written
  <2> QED BY <2>1, <2>2, <2>4, SentPreserves
<1> QED BY <1>2, <1>3

LEMMA SendUnknownPreserves ==
  ASSUME RelayInv, NEW selector \in SUBSET (0..(speaker.bytes * ByteBits - 1)),
         NEW bytes \in Bodies, SendUnknown(selector, bytes)
  PROVE  RelayInv'
<1> DEFINE wired == WriteUnknown(speaker, selector, bytes)
           variant == [selector |-> selector, arm |-> 0, body |-> bytes]
<1>1. bytes \in Seq(Byte) /\ speaker \in Declared
  BY NominalRelayAssumption DEF RelayInv, Kept, Declared
<1>2. CASE UnknownAllowed(speaker, selector)
  <2>1. Sent(variant, wired)
    BY <1>2 DEF SendUnknown
  <2>2. wired \in Seq(Byte)
    BY <1>1, UnknownOpens
  <2>3. wire' = wired /\ meant' = variant /\ UNCHANGED speaker
    BY <2>1 DEF Sent
  <2>4. Written'
    <3>1. UnknownAllowed(speaker, selector)'
      BY <1>2, <2>3 DEF UnknownAllowed, ArmsOf, Known
    <3>2. (wire = WriteUnknown(speaker, selector, bytes))'
      BY <2>3 DEF WriteUnknown, Encode, Place
    <3>3. selector \in SUBSET (0..(speaker'.bytes * ByteBits - 1))
      BY <2>3
    <3> QED BY <1>1, <2>3, <3>1, <3>2, <3>3 DEF Written
  <2> QED BY <2>1, <2>2, <2>4, SentPreserves
<1>3. CASE ~UnknownAllowed(speaker, selector)
  <2>1. stage' = "refused" /\ UNCHANGED <<bitVars, speaker, relay, meant, wire, forwarded>>
    BY <1>3 DEF SendUnknown
  <2>2. Kept'
    BY <2>1, KeptPreserved
  <2> QED BY <2>1, <2>2 DEF RelayInv
<1> QED BY <1>2, <1>3

LEMMA SendForeignPreserves ==
  ASSUME RelayInv, NEW bytes \in Foreign, SendForeign(bytes)
  PROVE  RelayInv'
<1>1. bytes \in Seq(Byte)
  BY NominalRelayAssumption
<1>2. Sent(Nobody, bytes)
  BY DEF SendForeign
<1>3. Written'
  BY <1>2 DEF Sent, Written, Nobody
<1> QED BY <1>1, <1>2, <1>3, SentPreserves

(* What the relay reads does not change while it writes.                   *)
LEMMA SameReading ==
  ASSUME UNCHANGED <<layout, relay, wire>>
  PROVE  /\ View(relay, wire)' = View(relay, wire)
         /\ SelectorOf(relay, wire)' = SelectorOf(relay, wire)
         /\ Tail_(wire, relay.bytes)' = Tail_(wire, relay.bytes)
<1> DEFINE known == ArmsOf(relay, SelectorOf(relay, wire))
           found == CHOOSE a \in known : TRUE
           body == relay.arms[found].body
           tail == Tail_(wire, relay.bytes)
<1>1. SelectorOf(relay, wire)' = SelectorOf(relay, wire)
  BY DEF SelectorOf, Decode, Place
<1>2. tail' = tail
  BY DEF Tail_
<1>3. known' = known
  BY <1>1 DEF ArmsOf, Known
<1>4. found' = found
  <2> HIDE DEF known
  <2> QED BY <1>3
<1>5. body' = body
  <2> HIDE DEF found
  <2> QED BY <1>4
<1> HIDE DEF body, found, tail, known
<1>6. BodyFixed(body)' = BodyFixed(body)
  BY <1>5 DEF BodyFixed
<1>7. BodyExtent(body, tail)' = BodyExtent(body, tail)
  BY <1>2, <1>5, <1>6 DEF BodyExtent, Number
<1>8. BodyFrame(body, tail)' = BodyFrame(body, tail)
  BY <1>2, <1>7 DEF BodyFrame, Framed, NeedMore
<1>9. FrameVariant(relay, found, tail)' = FrameVariant(relay, found, tail)
  BY <1>2, <1>4, <1>8 DEF FrameVariant, Framed, Failed, body
<1>10. DuplicateSelector(relay)' = DuplicateSelector(relay)
  BY DEF DuplicateSelector, Known
<1>11. Frame(relay, wire)' = Frame(relay, wire)
  BY <1>3, <1>9, <1>10 DEF Frame, Framed, NeedMore, Failed, known, found, tail
<1>12. View(relay, wire)' = View(relay, wire)
  BY <1>11 DEF View, Failed
<1> QED BY <1>1, <1>2, <1>12 DEF tail

LEMMA SameRebuilt ==
  ASSUME UNCHANGED <<layout, relay, wire>>
  PROVE  LET body == relay.arms[View(relay, wire).arm].body
             tail == Tail_(wire, relay.bytes)
         IN  Rebuilt(body, tail)' = Rebuilt(body, tail)
<1> DEFINE arm == View(relay, wire).arm
           body == relay.arms[arm].body
           tail == Tail_(wire, relay.bytes)
<1>1. arm' = arm /\ tail' = tail
  BY SameReading
<1>2. body' = body
  <2> HIDE DEF arm
  <2> QED BY <1>1
<1> HIDE DEF body, tail
<1>3. Decode(tail, layout.endian)' = Decode(tail, layout.endian)
  BY <1>1 DEF Decode, Place
<1>4. Rebuilt(body, tail)' = Rebuilt(body, tail)
  BY <1>1, <1>2, <1>3 DEF Rebuilt, Encode, Place, Placed, Mask, Got, ValueMask, WidthOf
<1> QED BY <1>4 DEF body, tail

LEMMA ForwardPreserves ==
  ASSUME RelayInv, NEW copied \in BOOLEAN, Forward(copied)
  PROVE  RelayInv'
<1> DEFINE frame == View(relay, wire)
           tail == Tail_(wire, relay.bytes)
           body == relay.arms[frame.arm].body
<1>1. UNCHANGED <<bitVars, speaker, relay, meant, wire>>
  BY DEF Forward, Stopped, Forwarded
<1>2. Kept'
  BY <1>1, KeptPreserved
<1>3. /\ frame' = frame /\ tail' = tail /\ SelectorOf(relay, wire)' = SelectorOf(relay, wire)
      /\ Rebuilt(body, tail)' = Rebuilt(body, tail)
  BY <1>1, SameReading, SameRebuilt DEF bitVars
<1>4. relay \in Declared /\ layout \in Layouts /\ wire \in Seq(Byte)
  BY DEF RelayInv, Kept, Inv, GivenOK, Declared
<1>5. CASE frame.tag # "ok"
  <2>1. stage' = "dropped"
    BY <1>5 DEF Forward, Stopped
  <2> QED BY <1>1, <1>2, <1>4, <2>1 DEF RelayInv
<1>6. CASE frame.tag = "ok" /\ copied
  <2>1. stage' = "forwarded" /\ forwarded' = wire
    BY <1>6 DEF Forward, Forwarded
  <2>2. Passed'
    BY <1>1, <1>3, <1>6, <2>1 DEF Passed
  <2> QED BY <1>1, <1>2, <1>4, <2>1, <2>2 DEF RelayInv
<1>7. CASE frame.tag = "ok" /\ ~copied /\ frame.arm # 0
  <2> DEFINE sent == WriteKnown(relay, frame.arm, Rebuilt(body, tail))
  <2>1. stage' = "forwarded" /\ forwarded' = sent
    BY <1>7 DEF Forward, Forwarded
  <2>2. sent' = sent
    <3> HIDE DEF frame, tail, body
    <3> QED BY <1>1, <1>3 DEF WriteKnown, Encode, Place
  <2>3. Passed'
    <3>1. frame'.tag = "ok" /\ frame'.arm # 0 /\ forwarded' = sent'
      BY <1>3, <1>7, <2>1, <2>2
    <3> QED BY <3>1 DEF Passed
  <2> QED BY <1>1, <1>2, <1>4, <2>1, <2>3 DEF RelayInv
<1>8. CASE frame.tag = "ok" /\ ~copied /\ frame.arm = 0
  <2> DEFINE sent == WriteUnknown(relay, SelectorOf(relay, wire), tail)
  <2>1. Selector(relay, frame, wire) = SelectorOf(relay, wire)
    BY <1>8 DEF Selector
  <2>2. UnknownAllowed(relay, SelectorOf(relay, wire))
    <3>1. ~Names(relay, 0, wire)
      BY DEF Names
    <3> QED BY <1>4, <1>8, <3>1, Opened DEF UnknownAllowed
  <2>3. stage' = "forwarded" /\ forwarded' = sent
    BY <1>8, <2>1, <2>2 DEF Forward, Forwarded
  <2>4. sent' = sent
    <3> HIDE DEF tail
    <3> QED BY <1>1, <1>3 DEF WriteUnknown, Encode, Place
  <2>5. Passed'
    <3>1. frame'.tag = "ok" /\ frame'.arm = 0 /\ forwarded' = sent'
      BY <1>3, <1>8, <2>3, <2>4
    <3> QED BY <3>1 DEF Passed
  <2> QED BY <1>1, <1>2, <1>4, <2>3, <2>5 DEF RelayInv
<1> QED BY <1>5, <1>6, <1>7, <1>8

LEMMA RelayStep == ASSUME RelayInv, [Next]_vars PROVE RelayInv'
<1>1. CASE UNCHANGED vars
  <2>1. /\ UNCHANGED <<bitVars, speaker, relay, meant, wire, forwarded, stage>>
        /\ UNCHANGED <<layout, relay, wire, given, invalid, raw>>
    BY <1>1 DEF vars, messageVars, bitVars
  <2>2. Kept'
    BY <2>1, KeptPreserved
  <2>3. ASSUME Written PROVE Written'
    <3>1. CASE meant = Nobody
      BY <2>1, <3>1 DEF Written, Nobody
    <3>2. ASSUME NEW a \in Known(speaker), NEW body \in Seq(Byte),
                 Composed(speaker.arms[a].body, body), wire = WriteKnown(speaker, a, body),
                 meant = [selector |-> speaker.arms[a].value, arm |-> a, body |-> body]
          PROVE  Written'
      <4>1. a \in Known(speaker)' /\ Composed(speaker.arms[a].body, body)'
        BY <2>1, <3>2 DEF Known, Composed, BodyFrame, BodyExtent, BodyFixed, Number, Framed, NeedMore
      <4>2. (wire = WriteKnown(speaker, a, body))'
        BY <2>1, <3>2 DEF WriteKnown, Encode, Place
      <4> QED BY <2>1, <3>2, <4>1, <4>2 DEF Written
    <3>3. ASSUME NEW a \in Known(speaker), speaker.arms[a].body.kind = "bits", Complete, invalid = 0,
                 wire = WriteKnown(speaker, a, Encode(raw, layout.bytes, layout.endian)),
                 meant = [selector |-> speaker.arms[a].value, arm |-> a, body |-> given]
          PROVE  Written'
      <4>1. /\ a \in Known(speaker)' /\ (speaker.arms[a].body.kind = "bits")'
            /\ Complete' /\ (invalid = 0)'
        BY <2>1, <3>3 DEF Known, Complete
      <4>2. (wire = WriteKnown(speaker, a, Encode(raw, layout.bytes, layout.endian)))'
        BY <2>1, <3>3 DEF WriteKnown, Encode, Place
      <4> QED BY <2>1, <3>3, <4>1, <4>2 DEF Written
    <3>4. ASSUME NEW selector \in SUBSET (0..(speaker.bytes * ByteBits - 1)),
                 NEW body \in Seq(Byte), UnknownAllowed(speaker, selector),
                 wire = WriteUnknown(speaker, selector, body),
                 meant = [selector |-> selector, arm |-> 0, body |-> body]
          PROVE  Written'
      <4>1. UnknownAllowed(speaker, selector)'
        BY <2>1, <3>4 DEF UnknownAllowed, ArmsOf, Known
      <4>2. (wire = WriteUnknown(speaker, selector, body))'
        BY <2>1, <3>4 DEF WriteUnknown, Encode, Place
      <4>3. selector \in SUBSET (0..(speaker'.bytes * ByteBits - 1))
        BY <2>1
      <4> QED BY <2>1, <3>4, <4>1, <4>2, <4>3 DEF Written
    <3> QED BY <2>3, <3>1, <3>2, <3>3, <3>4 DEF Written
  <2>4. ASSUME Passed PROVE Passed'
    <3> DEFINE frame == View(relay, wire)
               tail == Tail_(wire, relay.bytes)
               body == relay.arms[frame.arm].body
    <3>1. /\ frame' = frame /\ tail' = tail /\ SelectorOf(relay, wire)' = SelectorOf(relay, wire)
          /\ Rebuilt(body, tail)' = Rebuilt(body, tail)
      BY <2>1, SameReading, SameRebuilt
    <3>2. /\ WriteKnown(relay, frame.arm, Rebuilt(body, tail))'
               = WriteKnown(relay, frame.arm, Rebuilt(body, tail))
          /\ WriteUnknown(relay, SelectorOf(relay, wire), tail)'
               = WriteUnknown(relay, SelectorOf(relay, wire), tail)
      <4> HIDE DEF frame, tail, body
      <4> QED BY <2>1, <3>1 DEF WriteKnown, WriteUnknown, Encode, Place
    <3>3. forwarded' = forwarded /\ wire' = wire
      BY <2>1
    <3> QED BY <2>4, <3>1, <3>2, <3>3 DEF Passed
  <2> QED BY <2>1, <2>2, <2>3, <2>4 DEF RelayInv
<1>2. CASE Next
  BY <1>2, SetPreserves, SendPreserves, SendBitsPreserves, SendUnknownPreserves,
     SendForeignPreserves, ForwardPreserves DEF Next
<1> QED BY <1>1, <1>2

-----------------------------------------------------------------------------
(* What the invariant says of a message that was sent.                     *)
LEMMA SentReadsBack == ASSUME RelayInv PROVE WrittenReadsBack
<1> SUFFICES ASSUME stage = "sent", meant # Nobody, ~DuplicateSelector(speaker),
                    \A k \in DOMAIN given : Integral(k)
             PROVE  /\ View(speaker, wire).tag = "ok"
                    /\ Variant(speaker, View(speaker, wire), wire) = meant
                    /\ FixedSize(speaker) \in {None, Len(wire)}
  BY DEF WrittenReadsBack
<1>1. speaker \in Declared /\ layout \in Layouts /\ wire \in Seq(Byte) /\ Written
  BY DEF RelayInv, Kept, Inv, GivenOK, Declared
<1>2. SUFFICES /\ View(speaker, wire).tag = "ok"
               /\ Variant(speaker, View(speaker, wire), wire) = meant
  BY <1>1, SizeTrue
<1>3. ASSUME NEW a \in Known(speaker), NEW body \in Seq(Byte),
             Composed(speaker.arms[a].body, body), wire = WriteKnown(speaker, a, body),
             meant = [selector |-> speaker.arms[a].value, arm |-> a, body |-> body]
      PROVE  /\ View(speaker, wire).tag = "ok"
             /\ Variant(speaker, View(speaker, wire), wire) = meant
  <2>1. speaker.arms[a].body.kind # "bits"
        /\ BodyExtent(speaker.arms[a].body, body) = Len(body)
    BY <1>3 DEF Composed, BodyFrame, Framed, NeedMore
  <2>2. ReadBody(speaker.arms[a].body, body) = body
    BY <2>1 DEF ReadBody
  <2> QED BY <1>1, <1>3, <2>1, <2>2, KnownOpens DEF Framed
<1>4. ASSUME NEW a \in Known(speaker), speaker.arms[a].body.kind = "bits", Complete, invalid = 0,
             wire = WriteKnown(speaker, a, Encode(raw, layout.bytes, layout.endian)),
             meant = [selector |-> speaker.arms[a].value, arm |-> a, body |-> given]
      PROVE  /\ View(speaker, wire).tag = "ok"
             /\ Variant(speaker, View(speaker, wire), wire) = meant
  <2> DEFINE body == Encode(raw, layout.bytes, layout.endian)
  <2>1. /\ layout.bytes \in Nat /\ raw \subseteq Word
        /\ [k \in DOMAIN layout.fields |-> Got(raw, layout.fields[k])] = given
    BY <1>4, RawReads
  <2>2. body \in Seq(Byte) /\ Len(body) = layout.bytes
    BY <2>1, EncodeType
  <2>3. Decode(body, layout.endian) = raw
    BY <2>1, DecodeEncode DEF Word
  <2> HIDE DEF body
  <2>4. ReadBody(speaker.arms[a].body, body) = given
    BY <1>4, <2>1, <2>3 DEF ReadBody
  <2>5. BodyExtent(speaker.arms[a].body, body) = Len(body)
    <3>1. BodyFixed(speaker.arms[a].body) = layout.bytes
      BY <1>4 DEF BodyFixed
    <3> QED BY <2>1, <2>2, <3>1 DEF BodyExtent, None
  <2>6. wire = WriteKnown(speaker, a, body)
    BY <1>4 DEF body
  <2> QED BY <1>1, <1>4, <2>2, <2>4, <2>5, <2>6, KnownOpens DEF Framed
<1>5. ASSUME NEW selector \in SUBSET (0..(speaker.bytes * ByteBits - 1)),
             NEW body \in Seq(Byte), UnknownAllowed(speaker, selector),
             wire = WriteUnknown(speaker, selector, body),
             meant = [selector |-> selector, arm |-> 0, body |-> body]
      PROVE  /\ View(speaker, wire).tag = "ok"
             /\ Variant(speaker, View(speaker, wire), wire) = meant
  <2> DEFINE bytes == WriteUnknown(speaker, selector, body)
  <2>1. /\ View(speaker, bytes) = Framed(0, Len(bytes))
        /\ Variant(speaker, View(speaker, bytes), bytes) =
             [selector |-> selector, arm |-> 0, body |-> body]
    <3>1. selector \subseteq 0..(speaker.bytes * ByteBits - 1)
      OBVIOUS
    <3> QED BY <1>1, <1>5, <3>1, UnknownOpens
  <2>2. wire = bytes
    BY <1>5
  <2> HIDE DEF bytes
  <2> QED BY <1>5, <2>1, <2>2 DEF Framed
<1> QED BY <1>1, <1>3, <1>4, <1>5 DEF Written

LEMMA SentHonest == ASSUME RelayInv PROVE ExtentsHonest
<1> SUFFICES ASSUME View(speaker, wire).tag = "ok"
             PROVE  /\ FixedSize(speaker) \in {None, Len(wire)}
                    /\ LeadingExtent(speaker) =>
                         /\ \A byte \in Byte : Frame(speaker, Append(wire, byte)).consumed = Len(wire)
                         /\ \A n \in 0..(Len(wire) - 1) :
                              LET frame == Frame(speaker, SubSeq(wire, 1, n))
                              IN  frame.tag = "need_more" /\ frame.more \in 1..(Len(wire) - n)
  BY DEF ExtentsHonest
<1>1. speaker \in Declared /\ layout \in Layouts /\ wire \in Seq(Byte)
  BY DEF RelayInv, Kept, Inv, GivenOK, Declared
<1>2. ASSUME LeadingExtent(speaker), NEW byte \in Byte
      PROVE  Frame(speaker, Append(wire, byte)).consumed = Len(wire)
  <2>1. /\ Append(wire, byte) \in Seq(Byte) /\ Len(wire) <= Len(Append(wire, byte))
        /\ \A i \in 1..Len(wire) : wire[i] = Append(wire, byte)[i]
    BY <1>1
  <2> QED BY <1>1, <1>2, <2>1, FrameLonger
<1>3. ASSUME LeadingExtent(speaker), NEW n \in 0..(Len(wire) - 1)
      PROVE  /\ Frame(speaker, SubSeq(wire, 1, n)).tag = "need_more"
             /\ Frame(speaker, SubSeq(wire, 1, n)).more \in 1..(Len(wire) - n)
  <2> DEFINE less == SubSeq(wire, 1, n)
  <2>1. /\ less \in Seq(Byte) /\ Len(less) = n /\ Len(less) < Len(wire)
        /\ \A i \in 1..Len(less) : less[i] = wire[i]
    BY <1>1
  <2> HIDE DEF less
  <2>2. /\ Frame(speaker, less).tag = "need_more"
        /\ Frame(speaker, less).more \in 1..(Len(wire) - Len(less))
    BY <1>1, <1>3, <2>1, FrameShorter
  <2> QED BY <2>1, <2>2 DEF less
<1> QED BY <1>1, <1>2, <1>3, SizeTrue

LEMMA ForwardedLossless == ASSUME RelayInv PROVE RelayLossless
<1> DEFINE sent == View(speaker, wire)
           arrived == View(speaker, forwarded)
           arm == View(relay, wire).arm
           body == relay.arms[arm].body
           tail == Tail_(wire, relay.bytes)
           built == Rebuilt(body, tail)
<1>1. stage # "stuck"
  BY DEF RelayInv
<1> SUFFICES ASSUME stage = "forwarded"
             PROVE  /\ arm = 0 => forwarded = wire
                    /\ sent.tag = "ok" =>
                         /\ arrived.tag = "ok"
                         /\ Variant(speaker, arrived, forwarded) = Variant(speaker, sent, wire)
  BY <1>1 DEF RelayLossless
<1>2. /\ speaker \in Declared /\ relay \in Declared /\ layout \in Layouts /\ wire \in Seq(Byte)
      /\ Older(relay, speaker) /\ Accepts(layout) /\ Passed
  BY DEF RelayInv, Kept, Inv, GivenOK, Declared
<1>3. /\ View(relay, wire).tag = "ok" /\ relay.bytes \in Nat /\ relay.bytes <= Len(wire)
      /\ arm # 0 => Names(relay, arm, wire)
  BY <1>2, Opened, ArmTypes DEF Passed
<1>4. /\ tail \in Seq(Byte) /\ Len(tail) = Len(wire) - relay.bytes
      /\ Encode(SelectorOf(relay, wire), relay.bytes, relay.endian) \o tail = wire
  BY <1>2, <1>3, Tailed, Parted DEF SelectorOf
<1>5. CASE forwarded = wire
  BY <1>5
<1>6. CASE arm = 0 /\ forwarded = WriteUnknown(relay, SelectorOf(relay, wire), tail)
  <2>1. forwarded = wire
    BY <1>4, <1>6 DEF WriteUnknown
  <2> QED BY <2>1
<1>7. CASE arm # 0 /\ forwarded = WriteKnown(relay, arm, built)
  <2>1. /\ arm \in Known(relay) /\ relay.arms[arm].value = SelectorOf(relay, wire)
        /\ BodyExtent(body, tail) = Len(tail)
    BY <1>3, <1>4, <1>7 DEF Names
  <2>2. CASE body.kind # "bits"
    <3>1. built = tail
      BY <2>2 DEF Rebuilt
    <3>2. forwarded = wire
      <4> HIDE DEF arm, tail, built
      <4> QED BY <1>4, <1>7, <2>1, <3>1 DEF WriteKnown
    <3> QED BY <3>2
  <2>3. CASE body.kind = "bits" /\ sent.tag = "ok"
    <3>1. PICK b \in Known(speaker) : relay.arms[arm] = speaker.arms[b]
      BY <1>2, <2>1 DEF Older
    <3>2. speaker.bytes = relay.bytes /\ speaker.endian = relay.endian
      BY <1>2 DEF Older
    <3>3. Len(tail) = layout.bytes
      <4>1. BodyFixed(body) = layout.bytes /\ layout.bytes \in Nat
        BY <1>2, <2>3, BitfieldsAssumption DEF BodyFixed
      <4> HIDE DEF body, tail
      <4> QED BY <2>1, <4>1 DEF BodyExtent, None
    <3> HIDE DEF tail, body, arm
    <3>4. /\ built \in Seq(Byte) /\ Len(built) = layout.bytes
          /\ \A k \in DOMAIN layout.fields :
               Got(Decode(built, layout.endian), layout.fields[k])
                 = Got(Decode(tail, layout.endian), layout.fields[k])
      BY <1>2, <1>4, <2>3, <3>3, Again DEF Fields
    <3> HIDE DEF built
    <3>5. ReadBody(body, built) = ReadBody(body, tail)
      BY <2>3, <3>4 DEF ReadBody
    <3>6. ~DuplicateSelector(speaker) /\ speaker.arms[b].body = body
      BY <1>2, <2>3, <3>1, Opened DEF body
    <3>7. BodyExtent(body, built) = Len(built)
      <4>1. BodyFixed(body) = layout.bytes /\ layout.bytes \in Nat
        BY <1>2, <2>3, BitfieldsAssumption DEF BodyFixed
      <4> QED BY <3>4, <4>1 DEF BodyExtent, None
    <3>8. forwarded = WriteKnown(speaker, b, built)
      BY <1>7, <3>1, <3>2 DEF WriteKnown
    <3>9. /\ arrived = Framed(b, Len(forwarded))
          /\ Variant(speaker, arrived, forwarded) =
               [selector |-> speaker.arms[b].value, arm |-> b, body |-> ReadBody(body, built)]
      BY <1>2, <3>4, <3>6, <3>7, <3>8, KnownOpens
    <3>10. sent = Framed(b, Len(wire))
      <4>1. SelectorOf(speaker, wire) = speaker.arms[b].value
        BY <2>1, <3>1, <3>2 DEF SelectorOf
      <4>2. b # 0
        BY <1>2, ArmTypes
      <4>3. Names(speaker, b, wire) /\ speaker.bytes <= Len(wire)
        BY <1>3, <1>4, <2>1, <3>2, <3>6, <4>1, <4>2 DEF Names, tail
      <4> QED BY <1>2, <3>6, <4>3, OpensKnown
    <3>11. Variant(speaker, sent, wire) =
             [selector |-> speaker.arms[b].value, arm |-> b, body |-> ReadBody(body, tail)]
      <4>1. b # 0 /\ Tail_(wire, speaker.bytes) = tail
        BY <1>2, <3>2, ArmTypes DEF tail
      <4> QED BY <3>6, <3>10, <4>1 DEF Variant, Selector, Framed
    <3> QED BY <1>7, <3>5, <3>9, <3>11 DEF Framed
  <2> QED BY <1>7, <2>2, <2>3
<1> QED BY <1>2, <1>5, <1>6, <1>7 DEF Passed

-----------------------------------------------------------------------------
THEOREM RelayInvariance == Spec => []RelayInv
<1> QED BY RelayInit, RelayStep, PTL DEF Spec

(* The theorems about bitfields hold of the bodies of messages.            *)
THEOREM BodiesAreSound == Spec => [](FieldsIndependent /\ BuildersAgree)
<1>1. RelayInv => FieldsIndependent /\ BuildersAgree
  BY DEF RelayInv, Kept, Inv
<1> QED BY <1>1, RelayInvariance, PTL

(* Whatever declaration it is written with, a message opens as the variant *)
(* that was meant, with its body, in the size the declaration promises.    *)
THEOREM WhatIsWrittenReadsBack == Spec => []WrittenReadsBack
<1> QED BY RelayInvariance, SentReadsBack, PTL

(* A relay with an older declaration loses nothing, and can send on what   *)
(* it could open.                                                          *)
THEOREM RelaysLoseNothing == Spec => []RelayLossless
<1> QED BY RelayInvariance, ForwardedLossless, PTL

(* FIXED_SIZE and LEADING_EXTENT are true of every message, whoever wrote  *)
(* it, of what follows it, and of each of its prefixes.                    *)
THEOREM DeclaredExtentsHonest == Spec => []ExtentsHonest
<1> QED BY RelayInvariance, SentHonest, PTL
=============================================================================
