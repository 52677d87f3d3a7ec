--------------------------- MODULE DetachedBuilder ---------------------------
(***************************************************************************)
(* WireWrite::write of a detached builder: the caller has set every field, *)
(* nothing has been written, and the whole struct is now emitted in        *)
(* physical order into a child writer.                                     *)
(*                                                                         *)
(* Sources: wire-repr-macros/src/derive/schema/builder.rs and the detached *)
(* half of integer/controller.rs.                                          *)
(***************************************************************************)
EXTENDS WireEmission

(* The first payload of the controller is raw: its length is known.        *)
KnownLength(s, c) == s[Min(Dependents(s, c))].kind \in {"raw"}

(* The value a scalar field is first written with.                         *)
Source(s, given, i) ==
  CASE PresenceController(s, i) ->
         given[CHOOSE flag \in FlagRoles(s) : s[flag].ctrl = i].value
    [] BitController(s, i) ->
         FoldLeftDomain(LAMBDA raw, j :
                          IF j \in BitRoles(s) /\ s[j].ctrl = i
                          THEN raw + BitValue(s, j, given[j].value) ELSE raw,
                        0, s)
    [] LengthController(s, i) /\ KnownLength(s, i) ->
         given[Min(Dependents(s, i))].size
    [] i \in Slots(s) -> given[i].value
    [] OTHER -> 0

Refused(s, given, i) ==
  LET raws == {j \in Dependents(s, i) : s[j].kind = "raw"}
  IN  CASE BitController(s, i)
             /\ \E j \in BitRoles(s) : s[j].ctrl = i /\ given[j].value > 1 -> "layout"
        [] LengthController(s, i) /\ KnownLength(s, i)
             /\ \E j \in raws : given[j].size # Source(s, given, i) -> "conflict"
        [] OTHER -> IF LengthController(s, i) /\ Source(s, given, i) > WireMax
                    THEN "layout" ELSE "none"

(* Mutant: alignment counts from the padding's start.                      *)
DetachedStartUnpadded(s, w, given, i) ==
  LET position == IF s[i].at = <<>> THEN CheckedAlign(Cursor(w), s[i].align) + s[i].pad
                  ELSE IF s[i].at[1] = "static" THEN s[i].at[2]
                  ELSE given[s[i].at[2]].value
  IN  IF ~HasExplicitGeometry(s) THEN w
      ELSE IF position < Cursor(w) THEN Fails(w, "backwards")
      ELSE Fill(w, position)

DetachedStart(s, w, given, i) ==
  LET position == IF s[i].at = <<>> THEN CheckedAlign(Cursor(w) + s[i].pad, s[i].align)
                  ELSE IF s[i].at[1] = "static" THEN s[i].at[2]
                  ELSE given[s[i].at[2]].value
  IN  IF ~HasExplicitGeometry(s) THEN w
      ELSE IF position < Cursor(w) THEN Fails(w, "backwards")
      ELSE Fill(w, position)

DetachedScalar(s, w, given, i) ==
  LET value   == Source(s, given, i)
      refused == Refused(s, given, i)
      size    == IF s[i].kind = "varint" THEN EncodedLength(value) ELSE s[i].width
  IN  IF refused # "none" THEN Fails(w, refused)
      ELSE [Put(w, Cursor(w), Image(i, size, value))
              EXCEPT !.offsets[i] = Cursor(w), !.values[i] = value]

(* Mutant: payloads that share a length are not compared.                  *)
DetachedLengthLast(s, w, i, length) ==
  LET c     == s[i].ctrl
      value == [w EXCEPT !.values[c] = length]
  IN  IF i = Min(Dependents(s, c)) /\ s[i].kind = "raw" THEN w
      ELSE Fits(w, length, IF s[c].kind = "varint" THEN value
                           ELSE Put(value, w.offsets[c], Image(c, s[c].width, length)))

(* render_detached_length_patch                                            *)
DetachedLength(s, w, i, length) ==
  LET c     == s[i].ctrl
      first == i = Min(Dependents(s, c))
      value == [w EXCEPT !.values[c] = length]
  IN  CASE first /\ s[i].kind = "raw" -> w
        [] first /\ s[i].kind # "raw" ->
             Fits(w, length, IF s[c].kind = "varint" THEN value
                             ELSE Put(value, w.offsets[c], Image(c, s[c].width, length)))
        [] ~first -> IF length # w.values[c] THEN Fails(w, "conflict") ELSE w

DetachedCount(s, w, i, count) ==
  LET c == s[i].ctrl
  IN  Fits(w, count, IF s[c].kind = "varint" THEN [w EXCEPT !.values[c] = count]
                     ELSE Put(w, w.offsets[c], Image(c, s[c].width, count)))

DetachedPayload(s, w, given, i) ==
  LET f     == s[i]
      size  == given[i].size
      child == Put(w, Cursor(w), Image(i, size, 0))
      items == Put(w, Cursor(w), Image(i, size * given[i].value, 0))
  IN  CASE f.kind = "array" ->
             IF given[i].value > 0 /\ size = 0 THEN Fails(w, "no_progress")
             ELSE DetachedCount(s, items, i, given[i].value)
        [] f.kind = "raw" ->
             Then(DetachedLength(s, w, i, size),
                  LAMBDA agreed : Put(agreed, Cursor(w), Image(i, size, 0)))
        [] f.kind = "nested" /\ f.ctrl # 0 -> DetachedLength(s, child, i, size)
        [] OTHER -> child

DetachedField(s, w, given, i) ==
  LET f      == s[i]
      Write(placed) ==
        CASE Numeric(f) -> DetachedScalar(s, placed, given, i)
          [] f.kind = "bytes" -> Put(placed, Cursor(placed), Image(i, f.width, 0))
          [] f.kind \in {"raw", "rest", "array", "nested"} ->
               DetachedPayload(s, placed, given, i)
          [] OTHER -> placed
  IN  IF f.cond # 0
      THEN IF i = Min(Group(s, f.cond)) /\ given[f.cond].value = 1
           THEN Put(w, Cursor(w), GroupImage(s, f.cond)) ELSE w
      ELSE Then(DetachedStart(s, w, given, i), Write)

(* Variable-width controllers written as one byte, the last one first.     *)
DetachedExpansions(s, written) ==
  LET deferred == {c \in DOMAIN s :
                     /\ VariableController(s, c)
                     /\ CountController(s, c) \/ ~KnownLength(s, c)}
      Grow(w, k) == LET c == Len(s) + 1 - k
                    IN  IF c \notin deferred THEN w
                        ELSE Expand(w, w.offsets[c],
                                    Image(c, EncodedLength(w.values[c]), w.values[c]))
  IN  FoldLeftDomain(Grow, written, s)

Detached(s, given) ==
  LET Step(w, i) == Then(w, LAMBDA v : DetachedField(s, v, given, i))
  IN  Then(FoldLeftDomain(Step, Fresh(s), s),
           LAMBDA written : DetachedExpansions(s, written))
=============================================================================
