---------------------------- MODULE StructWriter ----------------------------
(***************************************************************************)
(* The progressive typestate writer of a struct: a caller invokes setters  *)
(* in any order the typestate admits, then finish.  Setters that fail      *)
(* consume the writer.                                                     *)
(*                                                                         *)
(* Source: wire-repr-macros/src/derive/schema/writer.rs, on the emission   *)
(* operators of WireEmission; compared with DetachedBuilder.               *)
(*                                                                         *)
(* Left out: computed fields, conversions of values, and a failing output. *)
(***************************************************************************)
EXTENDS DetachedBuilder

CONSTANTS
  Families,    \* field declarations to combine into one struct, and the
               \* most fields of such a struct (model bound)
  Positions,   \* values of position controllers
  Sizes,       \* lengths of payloads
  Counts,      \* numbers of items
  Extents      \* lengths of variable children and of items

ASSUME StructWriterAssumption ==
  /\ \A family \in Families : family.longest \in Nat
  /\ Positions \subseteq Nat /\ Sizes \subseteq Nat
  /\ Counts \subseteq Nat /\ Extents \subseteq Nat \ {0}

VARIABLES
  fields,  \* the struct
  given,   \* what the caller sets its fields to
  stage,   \* "declaring", "writing", "written" or "failed"
  done,    \* the setters already called
  ordered, \* whether they were called in physical order
  writer   \* the writer behind the typestate

vars == <<fields, given, stage, done, ordered, writer>>

-----------------------------------------------------------------------------
(* What a caller may set field i to.                                       *)
Offers(s, i) ==
  LET f == s[i]
      Of(sizes, values) == [size : sizes, value : values]
      extents == IF f.child.fixed = None THEN Extents ELSE {f.child.fixed}
  IN  CASE i \notin Slots(s)        -> Of({0}, {0})
        [] f.kind \in {"raw", "rest"} -> Of(Sizes, {0})
        [] f.kind = "array"         -> Of(extents, Counts)
        [] f.kind = "nested"        -> Of(extents, {0})
        [] f.kind = "flag"          -> Of({0}, {0, 1})
        [] f.kind = "bits"          -> Of({0}, {0, 1, 2})
        [] f.kind = "varint"        -> Of({0}, {0, ShortValues})
        [] OTHER                    -> Of({f.width}, IF i \in Anchors(s)
                                                      THEN Positions ELSE {0})

(* The setters the typestate offers.                                       *)
Offered(s, set, i) ==
  /\ i \in Slots(s) \ set
  /\ i \in PlaceRoles(s) => s[i].at[2] \in set
  /\ s[i].at # <<>> \/ DynamicOffset(s, i)
       => PreviousSlot(s, i) \in set \cup {0}

(* The check at run time when a child before the field has no fixed size.  *)
Undetermined(s, set, i) ==
  /\ s[i].at = <<>> /\ ~DynamicOffset(s, i) /\ AfterNested(s, i)
  /\ StaticOffset(s, i) = None
  /\ PreviousSlot(s, i) \notin set \cup {0}

(* The setter proper, once the fields before it are placed.                *)
SetValue(s, placed, i, content) ==
  LET f       == s[i]
      at      == placed.at
      encoded == IF f.kind = "varint" THEN EncodedLength(content.value) ELSE f.width
      payload == Image(i, content.size, content.value)
      items   == Image(i, content.size * content.value, 0)
      child   == IF f.ctrl = 0 /\ f.child.fixed # None THEN Put(placed, at, payload)
                 ELSE PutChild(placed, at, payload)
  IN  CASE Numeric(f) ->
             [Put(placed, at, Image(i, encoded, content.value)) EXCEPT
                !.offsets[i] = IF RetainsOffset(s, i) THEN at ELSE @]
        [] f.kind \in {"bytes", "rest"} -> Put(placed, at, payload)
        [] f.kind = "raw" ->
             Then(PatchLength(s, placed, i, content.size),
                  LAMBDA patched : Put(patched, at, payload))
        [] f.kind = "array" ->
             IF content.value > 0 /\ content.size = 0 THEN Fails(placed, "no_progress")
             ELSE PatchCount(s, Put(placed, Cursor(placed), items), i, content.value)
        [] f.kind = "flag" ->
             PutChild(PatchPresence(s, placed, i, content.value), at,
                      IF content.value = 1 THEN GroupImage(s, i) ELSE <<>>)
        [] f.kind = "nested" ->
             Then(child, LAMBDA written :
                           IF f.ctrl = 0 THEN written
                           ELSE PatchLength(s, written, i, content.size))

(* Mutant: fields without a setter are left to finish.                     *)
SetterAlone(s, w, set, i, content) ==
  IF Undetermined(s, set, i) THEN Fails(w, "order")
  ELSE IF s[i].kind = "bits" THEN PatchBits(s, w, i, content.value)
  ELSE Then(WriterStart(s, w, i), LAMBDA placed : SetValue(s, placed, i, content))

Setter(s, w, set, i, content) ==
  LET pending == IF HasSequentialGeometry(s)
                 THEN Automatic(s, w, PreviousSlot(s, i) + 1, i - 1) ELSE w
      Write(v) ==
        IF s[i].kind = "bits" THEN PatchBits(s, v, i, content.value)
        ELSE Then(WriterStart(s, v, i), LAMBDA placed : SetValue(s, placed, i, content))
  IN  IF Undetermined(s, set, i) THEN Fails(w, "order") ELSE Then(pending, Write)

(* finish: what follows the last slot, constants of structs that are not   *)
(* written in order, and variable-width controllers, the last one first.   *)
TrailingFields(s, w) ==
  LET last == Max({0} \cup Slots(s))
      Emit(v, i) ==
        IF s[i].const /\ (HasExplicitGeometry(s) => i > last)
        THEN Then(v, LAMBDA u : Constant(s, u, i)) ELSE v
  IN  IF HasNestedGeometry(s) THEN Automatic(s, w, last + 1, Len(s))
      ELSE FoldLeftDomain(Emit, w, s)

(* Mutant: controllers are expanded from the first to the last.            *)
ExpansionsForward(s, written) ==
  LET Grow(w, c) == IF ~VariableController(s, c) THEN w
                    ELSE Expand(w, w.offsets[c],
                                Image(c, EncodedLength(w.values[c]), w.values[c]))
  IN  FoldLeftDomain(Grow, written, s)

Expansions(s, written) ==
  LET Grow(w, k) == LET c == Len(s) + 1 - k
                    IN  IF ~VariableController(s, c) THEN w
                        ELSE Expand(w, w.offsets[c],
                                    Image(c, EncodedLength(w.values[c]), w.values[c]))
  IN  FoldLeftDomain(Grow, written, s)

Finished(s, w) ==
  Then(TrailingFields(s, w), LAMBDA trailing : Expansions(s, trailing))

-----------------------------------------------------------------------------
Init ==
  /\ fields = <<>> /\ given = <<>> /\ stage = "declaring"
  /\ done = {} /\ ordered = TRUE /\ writer = Fresh(<<>>)

Declare(f) ==
  /\ stage = "declaring" /\ Normalizes(fields, f)
  /\ fields' = Append(fields, f)
  /\ UNCHANGED <<given, stage, done, ordered, writer>>

(* Schema::builder                                                         *)
Begin(contents) ==
  /\ given' = contents /\ stage' = "writing" /\ writer' = Fresh(fields)
  /\ UNCHANGED <<fields, done, ordered>>

Set(i) ==
  /\ stage = "writing" /\ Offered(fields, done, i)
  /\ writer' = Setter(fields, writer, done, i, given[i])
  /\ done' = done \cup {i}
  /\ ordered' = (ordered /\ {j \in Slots(fields) : j < i} = done)
  /\ stage' = IF writer'.fault = "none" THEN "writing" ELSE "failed"
  /\ UNCHANGED <<fields, given>>

Finish ==
  /\ stage = "writing" /\ done = Slots(fields)
  /\ writer' = Finished(fields, writer)
  /\ stage' = IF writer'.fault = "none" THEN "written" ELSE "failed"
  /\ UNCHANGED <<fields, given, done, ordered>>

Contents(s) ==
  FoldLeftDomain(LAMBDA plans, i :
                   {Append(plan, offer) : plan \in plans, offer \in Offers(s, i)},
                 {<<>>}, s)

(* The fields that a caller of the model may declare next.                 *)
Candidates ==
  LET open == {family \in Families : /\ Len(fields) < family.longest
                                     /\ Range(fields) \subseteq family.fields}
  IN  UNION {family.fields : family \in open}

Next ==
  \/ /\ stage = "declaring"
     /\ \E f \in Candidates : Declare(f)
  \/ /\ stage = "declaring" /\ Accepted(fields)
     /\ \E contents \in Contents(fields) : Begin(contents)
  \/ /\ stage = "writing"
     /\ \E i \in Slots(fields) : Set(i)
  \/ Finish

Spec == Init /\ [][Next]_vars

-----------------------------------------------------------------------------
(* The value the field must be read back with.                             *)
Represented(s, i) ==
  CASE LengthController(s, i) -> given[Min(Dependents(s, i))].size
    [] CountController(s, i)  -> given[CHOOSE j \in CountRoles(s) : s[j].ctrl = i].value
    [] Numeric(s[i]) /\ ~LengthController(s, i) /\ ~CountController(s, i) ->
         Source(s, given, i)
    [] OTHER -> 0

(* The view of the emitted bytes, field after field: whatever a controller *)
(* says is taken from the bytes at the place where the view looks.         *)
ReadBack(s, out, exactly) ==
  LET Value(i, start) ==
        IF Numeric(s[i]) /\ start.tag = "ok" /\ start.start < Len(out)
        THEN out[start.start + 1][3] ELSE 0
      Content(i, value) ==
        [ok |-> TRUE, value |-> value,
         extent |-> IF s[i].kind = "varint" THEN EncodedLength(value) ELSE given[i].size]
      Holds(i, taken) ==
        /\ taken.tag = "ok"
        /\ SubSeq(out, taken.start + 1, taken.end)
             = Image(i, taken.end - taken.start, Represented(s, i))
      Taking(text, i, taken) == [at |-> taken.end, text |-> text, ok |-> Holds(i, taken)]
      Framing(text, i, at) ==
        Taking(text, i, FrameField(s, text, i, at, Len(out), exactly))
      Read(run, i) ==
        IF ~run.ok THEN run
        ELSE Framing(Append(run.text,
                            Content(i, Value(i, FieldStart(s, run.text, i, run.at)))),
                     i, run.at)
  IN  FoldLeftDomain(Read, [at |-> 0, text |-> <<>>, ok |-> TRUE], s)

RoundTrips ==
  \A exactly \in BOOLEAN :
    \E read \in {ReadBack(fields, writer.out, exactly)} :
      read.ok /\ read.at = Len(writer.out)

(* Controllers whose offset is recorded although children of fixed size    *)
(* keep it static, so that setters behind them may come first.             *)
PlaceholderAtStaticOffset(s) ==
  \E c \in DOMAIN s :
    Derived(s, c) /\ RetainsOffset(s, c) /\ StaticOffset(s, c) # None

(* Fields whose position is compared with the cursor before a controller   *)
(* that lies in front of them has been written.                            *)
PlacedOverController(s) ==
  \E i \in PlaceRoles(s) : \E c \in (PreviousSlot(s, i) + 1)..(i - 1) :
    Derived(s, c) /\ ~RetainsOffset(s, c)

Faithful ==
  /\ ordered \/ ~PlaceholderAtStaticOffset(fields)
  /\ ~PlacedOverController(fields)

-----------------------------------------------------------------------------
(* Properties.                                                             *)
(* The bytes of a finished writer are read back, by the view of the same   *)
(* struct, as the very fields the caller set, each where it was written,   *)
(* with controllers that name the sizes, counts, groups and bits written.  *)
RoundTrip == stage = "written" /\ Faithful => RoundTrips

(* Payload sizes, counts, groups and bits are patched into controllers     *)
(* ("Write payload intent is authoritative: generated writers patch        *)
(* lengths, counts, presence bits, and bit projections",                   *)
(* wire-repr/src/lib.md:261): a finished struct still holds every byte of  *)
(* every controller, when setters come in physical order.                  *)
ControllersSurvive ==
  stage = "written" /\ ordered =>
    \A c \in DOMAIN fields :
      Derived(fields, c) /\ fields[c].kind = "scalar" =>
        \A k \in 1..fields[c].width :
          \E p \in DOMAIN writer.out : SubSeq(writer.out[p], 1, 2) = <<c, k>>

(* The same in whatever order a caller invokes the setters the typestate   *)
(* offers: "Fixed-size instantiations keep their static offsets and permit *)
(* reordered setters" (wire-repr/src/lib.md:410).                          *)
ReorderedRoundTrip == stage = "written" => RoundTrips

(* No byte the output held before is ever part of a finished struct, of    *)
(* its padding neither.                                                    *)
NothingStale ==
  stage = "written" => \A p \in DOMAIN writer.out : writer.out[p] # Stale

(* The progressive writer and the detached builder emit the same bytes for *)
(* the same values, and refuse the same values; only a setter invoked too  *)
(* early may fail where the builder does not.                              *)
WritersAgree ==
  LET detached == Detached(fields, given)
  IN  /\ stage = "written" /\ Faithful
           => detached.fault = "none" /\ detached.out = writer.out
      /\ stage = "failed" /\ ordered => detached.fault # "none"
=============================================================================
