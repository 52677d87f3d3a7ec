---------------------------- MODULE NominalRelay ----------------------------
(***************************************************************************)
(* An enum message on its way: a speaker composes it, its bitfield body    *)
(* one setter at a time, a relay that was built from an older declaration  *)
(* of the same enum opens it and sends it on, and a receiver with the      *)
(* speaker's declaration opens what arrives.  The wire may also carry what *)
(* another program wrote.                                                  *)
(*                                                                         *)
(* The three programs are external; every operation they call is           *)
(* Enumerations' or Bitfields'.                                            *)
(***************************************************************************)
EXTENDS Enumerations

CONSTANTS
  Speakers, \* declarations of the speaker's enum
  Relays,   \* declarations of the relay's
  Bodies,   \* body bytes a caller may provide (model bound)
  Foreign   \* byte strings another program may send (model bound)

ASSUME NominalRelayAssumption ==
  /\ \A e \in Speakers \cup Relays :
       /\ e.bytes \in Nat \ {0} /\ e.unknown \in BOOLEAN
       /\ e.arms \in Seq([value    : SUBSET (0..(e.bytes * ByteBits - 1)),
                         spelling : STRING,
                         body     : [kind : BodyKinds, size : Nat]])
  /\ Bodies \cup Foreign \subseteq Seq(Byte)

VARIABLES
  speaker, relay, \* the declarations
  stage,          \* how far the message is
  meant,          \* the variant the speaker composed, or Nobody (history)
  wire,           \* what the speaker sent
  forwarded       \* what the relay sent

messageVars == <<speaker, relay, stage, meant, wire, forwarded>>
vars        == <<bitVars, messageVars>>

Nobody == [selector |-> {}, arm |-> None, body |-> <<>>]

(* The relay's declaration knows no arm that the speaker's does not.       *)
Older(old, new) ==
  /\ old.bytes = new.bytes /\ old.endian = new.endian
  /\ \A a \in Known(old) : \E b \in Known(new) : old.arms[a] = new.arms[b]

Init ==
  /\ BitInit
  /\ speaker \in {e \in Speakers : EnumAccepted(e)}
  /\ relay \in {e \in Relays : EnumAccepted(e) /\ Older(e, speaker)}
  /\ stage = "composing" /\ meant = Nobody /\ wire = <<>> /\ forwarded = <<>>

Set(k, value) == stage = "composing" /\ SetField(k, value) /\ UNCHANGED messageVars

Sent(variant, bytes) ==
  /\ stage' = "sent" /\ meant' = variant /\ wire' = bytes
  /\ UNCHANGED <<bitVars, speaker, relay, forwarded>>

(* A body another builder has made of well-formed values.                  *)
Composed(body, bytes) ==
  body.kind # "bits" /\ BodyFrame(body, bytes) = Framed(0, Len(bytes))

Send(a, bytes) ==
  LET arm == speaker.arms[a]
  IN  /\ stage = "composing" /\ given = <<>> /\ Composed(arm.body, bytes)
      /\ Sent([selector |-> arm.value, arm |-> a, body |-> bytes],
              WriteKnown(speaker, a, bytes))

(* The bitfield is written behind the selector, or refused there.          *)
SendBits(a) ==
  LET arm == speaker.arms[a]
  IN  /\ stage = "composing" /\ arm.body.kind = "bits" /\ Complete
      /\ IF invalid # 0
         THEN /\ stage' = "refused" /\ wire' = WriteKnown(speaker, a, <<>>)
              /\ UNCHANGED <<bitVars, speaker, relay, meant, forwarded>>
         ELSE Sent([selector |-> arm.value, arm |-> a, body |-> given],
                   WriteKnown(speaker, a, Encode(raw, layout.bytes, layout.endian)))

SendUnknown(selector, bytes) ==
  /\ stage = "composing" /\ given = <<>> /\ speaker.unknown
  /\ IF UnknownAllowed(speaker, selector)
     THEN Sent([selector |-> selector, arm |-> 0, body |-> bytes],
               WriteUnknown(speaker, selector, bytes))
     ELSE /\ stage' = "refused"
          /\ UNCHANGED <<bitVars, speaker, relay, meant, wire, forwarded>>

SendForeign(bytes) ==
  stage = "composing" /\ given = <<>> /\ Sent(Nobody, bytes)

-----------------------------------------------------------------------------
(* A body's bytes, read and given to its builder again.                    *)
Rebuilt(body, bytes) ==
  IF body.kind # "bits" THEN bytes
  ELSE LET w == Decode(bytes, layout.endian)
           f == layout.fields
           after[k \in 0..Len(f)] ==
             IF k = 0 THEN {} ELSE Placed(after[k - 1], f[k], Got(w, f[k]))
       IN  Encode(after[Len(f)], layout.bytes, layout.endian)

Forwarded(bytes) ==
  /\ stage' = "forwarded" /\ forwarded' = bytes
  /\ UNCHANGED <<bitVars, speaker, relay, meant, wire>>

Stopped(why) ==
  stage' = why /\ UNCHANGED <<bitVars, speaker, relay, meant, wire, forwarded>>

(* The relay copies the view, or writes its variant again.                 *)
Forward(copied) ==
  LET frame == View(relay, wire)
      body  == Tail_(wire, relay.bytes)
  IN  /\ stage = "sent"
      /\ IF frame.tag # "ok" THEN Stopped("dropped")
         ELSE IF copied THEN Forwarded(wire)
         ELSE IF frame.arm # 0
         THEN Forwarded(WriteKnown(relay, frame.arm,
                                   Rebuilt(relay.arms[frame.arm].body, body)))
         ELSE IF UnknownAllowed(relay, Selector(relay, frame, wire))
         THEN Forwarded(WriteUnknown(relay, Selector(relay, frame, wire), body))
         ELSE Stopped("stuck")

Next ==
  \/ \E k \in DOMAIN layout.fields : \E value \in Values[layout.fields[k].type] :
       Set(k, value)
  \/ \E a \in Known(speaker) : \E bytes \in Bodies : Send(a, bytes)
  \/ \E a \in Known(speaker) : SendBits(a)
  \/ \E selector \in SUBSET (0..(speaker.bytes * ByteBits - 1)) : \E bytes \in Bodies :
       SendUnknown(selector, bytes)
  \/ \E bytes \in Foreign : SendForeign(bytes)
  \/ \E copied \in BOOLEAN : Forward(copied)

Spec == Init /\ [][Next]_vars

-----------------------------------------------------------------------------
(* What a builder wrote opens as the variant it was written as, with the   *)
(* body that was meant, in the size the declaration promises.  (A float    *)
(* that is given to a single bit loses what is behind its point.)          *)
WrittenReadsBack ==
  stage = "sent" /\ meant # Nobody /\ ~DuplicateSelector(speaker)
    /\ (\A k \in DOMAIN given : Integral(k)) =>
    LET frame == View(speaker, wire)
    IN  /\ frame.tag = "ok" /\ Variant(speaker, frame, wire) = meant
        /\ FixedSize(speaker) \in {None, Len(wire)}

(* A relay that does not know a variant passes it on unharmed, bit for     *)
(* bit; one that knows it and builds it again keeps what the receiver      *)
(* reads.  What the relay could open it can send.                          *)
RelayLossless ==
  /\ stage # "stuck"
  /\ stage = "forwarded" =>
       LET sent    == View(speaker, wire)
           arrived == View(speaker, forwarded)
       IN  /\ View(relay, wire).arm = 0 => forwarded = wire
           /\ sent.tag = "ok" =>
                /\ arrived.tag = "ok"
                /\ Variant(speaker, arrived, forwarded) = Variant(speaker, sent, wire)

(* FIXED_SIZE and LEADING_EXTENT, computed from the declaration, are true  *)
(* of every message: of its size, of what follows it being left alone, and *)
(* of a message cut short, which asks for more and never for more than it  *)
(* lacks.                                                                  *)
ExtentsHonest ==
  stage = "sent" /\ View(speaker, wire).tag = "ok" =>
    /\ FixedSize(speaker) \in {None, Len(wire)}
    /\ LeadingExtent(speaker) =>
         /\ \A byte \in Byte : Frame(speaker, Append(wire, byte)).consumed = Len(wire)
         /\ \A n \in 0..(Len(wire) - 1) :
              LET frame == Frame(speaker, SubSeq(wire, 1, n))
              IN  frame.tag = "need_more" /\ frame.more \in 1..(Len(wire) - n)
=============================================================================
