--------------------------- MODULE MCNominalRelay ---------------------------
(* Bytes of two bits; bitfields with gaps, in both byte orders, with every *)
(* kind of field, and two that are not accepted; enums of one and two      *)
(* selector bytes with and without an unknown variant.                     *)
EXTENDS NominalRelay, SequencesExt

Type(kind, bits) == [kind |-> kind, bits |-> bits]

MCValues ==
  [t \in {Type("bool", 1), Type("unsigned", 2), Type("unsigned", 4),
          Type("signed", 2), Type("float", 2), Type("named", 0)} |->
     IF t.kind = "float" THEN SUBSET (-1..1) ELSE SUBSET (0..(t.bits - 1))]

Field(start, end, kind, bits) == [start |-> start, end |-> end, type |-> Type(kind, bits)]
Layout(bytes, endian, fields) == [bytes |-> bytes, endian |-> endian, fields |-> fields]

MCLayouts ==
  {Layout(2, "be", <<Field(2, 3, "unsigned", 4), Field(0, 0, "bool", 1)>>),
   Layout(2, "le", <<Field(1, 2, "unsigned", 2), Field(3, 3, "float", 2)>>),
   Layout(2, "be", <<Field(3, 3, "unsigned", 2), Field(0, 0, "bool", 1),
                     Field(1, 2, "unsigned", 4)>>),
   Layout(1, "native", <<Field(0, 0, "signed", 2), Field(1, 1, "unsigned", 2)>>),
   Layout(2, "le", <<Field(1, 2, "unsigned", 2), Field(0, 1, "unsigned", 2)>>),
   Layout(2, "native", <<Field(1, 1, "named", 0)>>)}

Unit    == [kind |-> "unit", size |-> 0]
Fixed   == [kind |-> "fixed", size |-> 1]
Bits    == [kind |-> "bits", size |-> 0]
Counted == [kind |-> "counted", size |-> 0]
Open    == [kind |-> "open", size |-> 0]

Arm(value, spelling, body) == [value |-> value, spelling |-> spelling, body |-> body]
Enum(bytes, endian, arms, unknown) ==
  [bytes |-> bytes, endian |-> endian, arms |-> arms, unknown |-> unknown]

Arms == <<Arm({0}, "1", Bits), Arm({1}, "2", Fixed), Arm({}, "0", Counted)>>

MCSpeakers ==
  {Enum(1, "native", Arms, FALSE),
   Enum(1, "native", Arms, TRUE),
   Enum(2, "be", <<Arm({0}, "1", Bits), Arm({2}, "4", Open)>>, TRUE),
   Enum(1, "native", <<Arm({0}, "1", Bits), Arm({1}, "2", Fixed)>>, FALSE),
   Enum(1, "native", <<Arm({0}, "1", Fixed), Arm({1}, "2", Unit)>>, FALSE),
   Enum(1, "native", <<Arm({0}, "1", Bits), Arm({0}, "ONE", Fixed)>>, FALSE)}

MCRelays ==
  MCSpeakers \cup
  {Enum(1, "native", <<Arms[1]>>, TRUE),
   Enum(1, "native", <<Arms[2]>>, FALSE),
   Enum(2, "be", <<Arm({2}, "4", Open)>>, TRUE)}

MCBodies  == BoundedSeq({{}, {0}, {0, 1}}, 2)
MCForeign == BoundedSeq(Byte, 4)
=============================================================================
