# A TLA+ verification of wire-repr

`wire-repr` is a `no_std` Rust library for binary representations. Derive macros
(`wire-repr-macros`) turn a struct or enum declaration into two things: a *view*, which
frames borrowed bytes exactly and reads fields from them without copying, and a *writer*,
which emits the same representation progressively into an output the caller owns. Both run
over a small runtime (`wire-repr`). This directory models the parts of the library in which
state is kept between calls and where a mistake would be silent: a wrong offset, a lost
byte, a skipped message.

The library is single-threaded: nothing runs concurrently, nothing is persisted, no call
blocks. What makes it hard is the order of calls (a caller may invoke setters, retries and
iterators in any order the types admit), calls that fail half-way while the caller goes on,
memory that moves when it grows, ranges that are recomputed rather than stored, and
arithmetic at the edge of `usize`, `u32` and `u16`.

## Components

### Output adapters and the progressive writer (`wire-repr/src/output.rs`)

*State.* An `Output` (fixed slice, `Extendable` owner, `Bounded` owner, or a caller-supplied
growth callback), its exposed length, and the `Writer`'s cursor. A `ChildWriter` mutably
borrows the writer and has its own start, cursor, optional limit and item count; children
nest. `ArrayWriter` is a facade that counts items.
*Operations.* `write`, `write_at`, `fill_at`, `reserve`, `expand_integer_at`, `child_at`,
`fixed_child_at`, `array`, `finish`; on a child `write`, `fill_to`, `patch_at`,
`expand_integer_at`, `array_item`, `finish`; on an array `item`, `item_view`, `item_result`,
`copy_from`.
*Hard.* Growth may relocate the storage and keep only what was declared precious; patches
behind the cursor, regions above it and plain writes share one routine; an item that fails
has already written bytes its parent does not know of.
*Correct when* the cursor covers every written byte, no byte is emitted that the writer did
not put, children stay in their regions, counts can be reproduced by a reader, and an error
leaves no trace.

### Integer prefixes (`wire-repr/src/output/integer.rs`)

A variable-width length is reserved as one byte and expanded once its value is known; the
suffix slides right over itself. Part of the same state machine.

### Recursive array geometry (`wire-repr/src/recursive/geometry/`)

*State.* A fixed-size builder that watches the width and the structural hash of each item of
a recursive array while it is framed: palettes, run lengths, a period table, ranked codes,
hash patterns. At the end it selects one of nine lookup strategies.
*Operations.* `push`, `finish`, several second passes over the same input, `get(n)`.
*Hard.* Every table holds a few entries, two of them are reused for another purpose
half-way, sums are kept in `u16` and `u32`.
*Correct when* `get(n)` returns the span that walking the items would find.

### Schema model and struct views (`wire-repr-macros/src/derive/schema/`)

*State.* The field list of a declaration (normalised field by field, then validated), and
for each view a partial descriptor of range ends.
*Operations.* Acceptance; `frame`, `frame_exact`, `view`; a getter per field.
*Hard.* Field placement combines static offsets, children of unknown width, padding,
alignment, positions read from the message and optional groups. A view retains only the ends
it cannot recompute; some are recomputed backwards from the end. Input may be incomplete at
any byte. `FIXED_SIZE` and `LEADING_EXTENT` are composed from children at compile time and
parents trust them.
*Correct when* getters answer the ranges that framing checked, a leading representation ends
at the same place whatever follows, and `NeedMore` never asks for bytes beyond the message.

### Sequences, cursors and runtime arrays (`wire-repr/src/schema/sequence.rs`, `array.rs`)

*State.* An offset into a buffer, the item index, a fuse after an error, and whether the
extent of an array was proved by its parent.
*Operations.* `FixedViews::new`/`next`, `VariableViews::next`, `Cursor::read`;
`frame_array_extent`, `ArrayView::iter`/`exact_bytes`, `ArrayIter::next`.
*Hard.* Callers retry after `NeedMore` with more bytes; items may be empty or lie about their
size; `FixedViews` validates once and frames again without a check.
*Correct when* retries neither skip nor split an item, and eager and lazy checks agree.

### Byte selections (`wire-repr/src/schema/selection.rs`)

*State.* The cursor of a chunk iterator over the ranges of the fields a caller includes or
excludes, in whatever order they were named, whole or by a path into a child; nothing is
sorted or stored.
*Correct when* the chunks are exactly the selected bytes, in order and maximally merged.

### Progressive struct writers and detached builders (`writer.rs`, `writer/automatic.rs`, `builder.rs`, `write_fields.rs`, `integer/controller.rs`)

*State.* The runtime writer behind a typestate: which setters were called, retained offsets of
controllers, the bits accumulated for bit projections, the values of variable-width controllers.
*Operations.* A setter per field that is not derived, `finish`; for a builder, one write in
physical order.
*Hard.* Setters may be called in several orders; controllers (lengths, counts, presence bits)
have no setter and are patched from their payloads, some at offsets known only while writing.
*Correct when* the view of the emitted bytes reads what was set, and both renderers agree.

### Computed fields (`computed.rs`, `model/validation.rs`, both writers)

*State.* A stored scalar whose value a callback derives from the bytes of the finished struct:
first a placeholder, then a patch; the offsets kept for fields behind a child.
*Operations.* Acceptance of the dependency graph and its topological order; the setters, which
also write the constants and placeholders in front of their field and patch the length of a
payload; `finish` of the progressive writer and `write` of the detached one, which view what has
been written so far, pass each callback its getters and selections, and patch what it returns.
*Hard.* Callbacks read each other's results; a patch too early is stale and nothing notices; the
setters come in any order where children are of fixed size, are checked at run time behind a
child of unknown size and by the type behind a payload; the detached writer may start behind
bytes of its parent.
*Correct when* every computed field of a finished struct is what its callback returns for the
finished bytes.

### Bitfields (`bitfield.rs`)

*State.* One integer; the detached builder also notes the last field whose value did not fit.
*Operations.* Acceptance of named bit ranges, setters in any order, getters, encoding.
*Hard.* The progressive setter refuses at once, the detached one when it is written.
*Correct when* fields do not disturb one another, both builders refuse the same values, and what
is encoded reads back in every byte order.

### Enumerations (`enumeration.rs`)

*State.* None beyond one message: a selector, the body it names, possibly an unknown variant that
keeps both as they came.
*Hard.* Programs with different declarations of one enum exchange messages; `FIXED_SIZE` and
`LEADING_EXTENT` follow from the arms.
*Correct when* what a relay could open it can send on without loss.

### Recursive views (`recursive.rs`, `recursive_object.rs`, `recursive_demand.rs`, `enumeration/recursive*`)

*State.* Skipping a root is a loop over a fixed stack of suspended bodies, allocated as
`MaybeUninit`; a body is a machine of two calls, *start* and *resume*, that advances to the next
child. A view keeps the boundaries of its children and what is left of the depth budget.
*Operations.* `open` with a depth, a getter per child, iteration, `get(n)`.
*Hard.* Opening measures children and does not frame them; each getter frames one again, on the
span the parent kept, with one level less. Stack entries are read with `assume_init`.
*Correct when* the loop measures what descending into the grammar measures, no entry is read
before it is written, and below an open root nothing can fail any more.

### Recursive writers (`recursive_writer.rs`, `recursive_demand_writer.rs`, `enumeration/recursive/writer.rs`)

*State.* One cursor handed through nested closures; counts and lengths are zeros until the
closure of the body returns. Roots of other messages may be copied in.
*Correct when* what is finished opens, with exactly the depth its nesting needs, and shows what was
written.

### Parts without a module

Integer codecs (pure functions; only the length of an encoding enters the models), attribute
parsing and error types of the macros, tooling. `PROJECT.json` lists each.

### How they interact

A generated view frames its fields with the runtime's array and integer helpers and hands
out facades (`ArrayView`, nested views, recursive arrays with their geometry). Sequences and
cursors call a schema's `frame` and decide with `FIXED_SIZE` and `LEADING_EXTENT` how far to
advance. A generated writer calls the runtime writer, one child at a time, and patches
controllers; a computed field views the bytes written so far and reads them through a
selection. A recursive view skips its children by the loop, keeps their boundaries and asks the
geometry for spans. A recursive writer moves the runtime's cursor. An enum hands its body to a
struct, a bitfield or nothing. Every interaction is a direct call; the only callbacks are growth of an output and
a schema's own `frame`, `write` and validator, and the callbacks of computed fields.

## Modules

| module | code | state and actions |
| --- | --- | --- |
| `WireRepresentation` | promise of the output layer | `written` (a partial map from offsets to bytes), `extent`, a window, `sealed`; `Put`, `Splice`, `Narrow`, `Widen`, `Seal` |
| `WireOutput` | `output.rs`, `output/integer.rs`, `output/array_source.rs` | adapter, buffer, `len`, `cursor`, array count, stack of children, last result; one action per call |
| `WireOutput_proofs` | | invariants and action properties of `WireOutput` and its refinement, proved |
| `RecursiveGeometry` | `recursive/geometry/*` | items framed so far, `builder`, `geometry`; one step per item, the last one chooses; lookups are operators |
| `RecursiveGeometry_proofs` | | theorems about `RecursiveGeometry` |
| `WireSchema` | `model.rs`, `model/*`, `geometry.rs` | fields as records; acceptance and compile-time geometry as operators |
| `WireFraming` | `view.rs`, per field | start, end, retention and reconstruction of one field |
| `StructView` | `view.rs`, per struct | declare, derive, frame one field, finish |
| `StructView_proofs` | | theorems about `StructView` |
| `WireItem` | contract of a schema in `schema.rs` | what `frame` and the validator may answer |
| `WireStream` | `schema/sequence.rs` | buffer position, open facade, items delivered; arrivals, opening, `next`, `read` |
| `CountedArray` | `schema/array.rs` | the facade, its iterator, `exact_bytes` |
| `ByteSelection` | `schema/selection.rs` | the chunk iterator |
| `ByteSelection_proofs` | | theorem about `ByteSelection` |
| `WireEmission` | `writer.rs`, `automatic.rs`, `controller.rs` | bytes with provenance; placement, fill, placeholders, patches, expansion |
| `DetachedBuilder` | `builder.rs`, `write_fields.rs` | a whole struct in physical order, as an operator |
| `StructWriter` | `writer.rs` | declare, begin with chosen contents, set one field, finish |
| `RuntimeArrays` | the two array consumers side by side | the actions of `WireStream` and `CountedArray` |
| `RuntimeArrays_proofs` | | theorems about both consumers |
| `Iteration` | | lemmas about loops: least elements, induction through sets, iterated steps |
| `ComputedFields` | `computed.rs`, `model/validation.rs`, writers | bytes, order of the setters, computed fields still to patch, arguments passed; set, finish, pass an argument, iterate a selection, return or refuse |
| `Bitfields` | `bitfield.rs` | both builders' words; one action sets one field in both |
| `Enumerations` | `enumeration.rs`, `schema.rs` | acceptance, framing, builders, sizes as operators |
| `NominalRelay` | programs that use enums | speaker, relay and receiver; the calls are those of `Enumerations` and `Bitfields` |
| `NominalRelay_proofs` | | theorems about bitfields, enumerations and the relay |
| `RecursiveGrammar` | `recursive.rs`, `recursive_object.rs`, `recursive_demand.rs` | start and resume of every kind of body, as operators |
| `RecursiveExtent` | promise of the skip machine | the measure of a root by descent; one action, `Answer` |
| `RecursiveSkip` | `enumeration/recursive/skip.rs` | stack, cursor, hash walk, phase; one action per pass of either loop |
| `RecursiveSkip_proofs` | | theorem about `RecursiveSkip` |
| `RecursiveView` | `enumeration/recursive.rs`, `wire-repr/src/recursive.rs` | source, the chain of open views; open, get, iterate, release |
| `RecursiveWriter` | `recursive_writer.rs`, `recursive_demand_writer.rs`, `enumeration/recursive/writer.rs` | bytes written, bodies being written; one action per call |
| `RecursiveObjects` | recursive messages written, copied, opened and walked | composes the two |

`StructWriter` extends `DetachedBuilder`, which extends `WireEmission`, `WireFraming` and
`WireSchema`: a declaration is accepted by the very conditions the view model uses,
written by two renderers and read back by the view. `WireStream` and `CountedArray` share
`WireItem`; `RuntimeArrays` runs either. `ComputedFields` extends `ByteSelection`, whose iterator
serves its callbacks. `NominalRelay` extends `Enumerations`, which extends `Bitfields`.
`RecursiveSkip`, `RecursiveView` and `RecursiveWriter` share `RecursiveGrammar`; `RecursiveSkip`
is shown to implement `RecursiveExtent`, and the view relies on that promise instead of the
loop. The `MC*` modules only define constants.

### How the data is abstracted

- **Output.** A byte is one of two values, or `Junk` where the writer never wrote: the caller's
  stale content, growth filler, or what a relocation did not keep. Rust's borrow rules are the
  control: while a child exists only the innermost may be called. After an error the caller may
  go on, as hand-written `WireWrite` implementations can.
- **Geometry.** An item is what the skip machine measures of it: width, hash, whether it
  recursed. `u16::MAX` and `u32::MAX` are scaled down. Errors of `direct_range` on values that
  in-range spans cannot produce are left out.
- **Views.** Of the bytes only what framing reads from a field matters: the value of a
  controller, the extent of a child or integer, whether it is acceptable. Fields do not
  overlap, so this content is independent of how much input is available.
- **Writers.** A byte is the triple of the field it encodes, its place in the field, and the
  value the field carries; `Filler` is padding and `Stale` what the output held before. Reading
  back is then a comparison of provenance, not of numbers that could agree by accident.
- **Streams and arrays.** Content is chosen when it is first looked at and remembered. A
  fixed-size schema is assumed to keep the `WireView` contract for `FIXED_SIZE`; a variable one
  may report more than it was given. Validators reject or accept.
- **Computed fields.** A cell holds a number or what a callback returned, which is the field it
  was called for with every cell it was passed: two results are equal exactly when the callback
  saw the same bytes.
- **Bitfields and enums.** A byte, a word and a value are sets of bit positions; a shift adds to
  them and a mask intersects. Bytes have two bits.
- **Recursive messages.** A byte is a digit of a small radix, so selectors, counts and lengths are
  really encoded and decoded. The structural hash is kept as the walk it mixes. Objects take their
  children in any position, lists have a count, demand bodies have a length, padding, alignment
  and a scalar. After a failed call a recursive writer is gone, closures included.

## Runs

Almost every property is a safety property: the library does something only when it is called,
and a caller may stop at any time. For the same reason the configurations switch deadlock
checking off: a finished writer, a declined struct or an exhausted iterator has no next step.
The one exception is a loop inside one call. `RecursiveSkip` is weakly fair in `Next`: the loop
runs on one thread, waits for nobody, and takes its next step as long as there is one.

### `output`

`MCWireOutput`: an address space of three bytes, two byte values, chunks of at most two bytes,
up to three nested children, the four adapters, a limit of 2 for `Bounded`, caller buffers of
length 0 and 2. Three bytes are enough for a prefix byte that expands to two and pushes one
neighbour, for a region with a neighbour on either side, and for offsets that overflow;
three children are an array, its item and an item of that item.

Shown: type correctness (no offset overflows), `HighWaterMarkCovers`, `ChildrenNested`,
`EmittedIsWritten`, `CountCovered`, `SequentialTail`; the action properties `GrowthPolicy` and
`ErrorsChangeNothing`; and `ImplementsRepresentation`: mapped to a partial map of bytes, every
call is one `Put`, `Splice`, change of window, `Seal`, or nothing. Growth, relocation and errors
are invisible at that level.

### `geometry`, `geometry_hashes`

Capacities of a few entries (palette 3, period 2, two intervals, four ranked items in blocks
of two, five packed runs, two factor axes of two digits), `u16::MAX` = 4, `u32::MAX` = 16. Up to
seven leaves of six widths: one more than any table holds, widths beyond both maxima, and
sequences that end on and inside every kind of block. Five or six items that mix leaves with
recursive roots, with hashes that do and do not separate widths.

`LookupExact`: the span `get(n)` computes is the span that replaying finds, for every strategy
and every n, with one exception: a shape strategy settled while framing, on hashes that do not
separate the widths. `TypeOK` bounds every table by its capacity. `geometry_hashes` states what
`ARCHITECTURE.md:329` promises without exception (`GeometryProven`) and finds it violated (see
*Findings*).

### `struct_view`

`MCStructView` combines field declarations freely inside four families: children, constants
and bit projections; lengths, counts and variable-width integers; padding, alignment and
positions; optional groups. Structs have up to three fields, five with optional groups, which
need a flag, its presence bit, its members and a neighbour. Inputs have 0 to 6 bytes, controllers
carry {0, 1, 2, 7, 8}, variable children and integers take one or two bytes, the frame starts
at absolute offset 1 and `usize::MAX` is 7, so 7 and 8 overflow a sum and the type itself.

Shown for every accepted struct and every input: `RangesReconstructed`, `FixedSizeHonest`,
`PrefixDetermined`, `IncompleteNeedsMore`. The last two quantify over framings of the same
bytes at other lengths, by `frame` and by `frame_exact`.

### `arrays`

Streams: five bytes that arrive in any pieces, items of zero, one or two bytes, malformed,
rejected by the validator, or claiming three bytes, read by a fixed schema, a variable one, one
without a leading extent and one of width zero. The caller drops its facade, keeps the rest of
the buffer, appends, and opens again, with a facade of any kind. Five bytes hold two items and a
part of a third, so an item is cut at each of its bytes and the retry starts at a non-zero base.
Shown: `ChunkingInvisible`, `OnlyValidItems`, `PrevalidationSuffices`, `EndMeansConsumed`.

Counted arrays: up to five items over four bytes, with every content, `usize::MAX` = 8; five
announced items of two bytes overflow, three exceed the input, two fill it. Shown:
`EagerMatchesLazy`.

### `selection`

Selections of up to three ranges over four bytes, also out of bounds and reversed, which is
all that chained merging needs: a range that is absorbed only after a later-named one. Structs of
up to six fields with up to three computed ones, whose callbacks take fields, one or two selected
fields in either order or all but one, each other included; children of fixed or variable size,
last or not, up to two payloads with their lengths, paths into a child, a callback that may refuse.
Both writers, in front and behind a byte of a parent. The progressive writer takes its setters in
every order that compiles: behind a payload the slot before comes first (`Offered`), behind a child
of unknown size a setter that comes too early fails (`TooEarly`), and everything else is free.
Three callbacks make a chain whose declared order is not the one to patch in.

- `ChunksExact`: the chunks are the selected bytes, in order and maximally merged.
- `ComputedConsistent`: every computed field of a finished struct is what its callback returns for
  the finished bytes, and every other field is what was set.
- `CallbacksSeeTheStruct`: what is written when callbacks run is a view of the struct.

The last two leave out one situation, `LengthErased`: the orders of finding 2, where the setter
right behind a length comes after that of its payload and writes the length's placeholder over the
patch. The run reaches it. Then a payload that is not empty is no longer framed: the bytes are no
view of the struct, and `finish` fails with a layout error when the first callback wants an
argument; only an empty payload still reads back. In every other order, those around a child
of fixed size included, both properties hold without exception.

### `recursive_skip`

Two grammars, one of lists, checked leaves and objects with two children, one of demand bodies, a
leaf with a tail and a hand-written leaf that reports too much, on all inputs of up to four digits
(an invalid one among them), on most of five and six, and seven where an outer body holds an inner
one; every depth budget up to a stack of three, a non-zero base, `usize::MAX` = 12.

- `StackInitialised`: the stack stays within its array and the caller's budget, and entries in use
  were written.
- `MeasuresRoot`: mapped to the module `RecursiveExtent`, the loop answers once, with the extent,
  nesting and hash walk, or with the first error, that a descent into the grammar finds.
- `Terminates`: whatever the input, the call returns.

### `recursive_objects`

One grammar with a body of every kind, radix 5, an output of eight bytes, depths up to three:
messages written call by call, next to an open view of another message whose items may be
copied, then opened and walked; and messages nobody wrote here. Eight bytes hold a list within a
list, a demand body, or an object with a list for a child; a depth of three opens a leaf two
levels below the root and refuses what is one level deeper.

- `OpenedIsWalkable`: below an open root no getter and no iterator fails.
- `ViewsAreRoots`: each view is one root of the source, at its offset, one level deeper, with the
  span `get(n)` answers, however it was reached.
- `RoundTrip`, `WrittenOpens`: everything written or copied reads back as one root with the same
  extent and count; a finished message opens exactly with the depths its nesting fits.
- `BehindKept`: behind the cursor a call changes the header of the innermost body at most.
- `RootPrefixNeedsMore`: every proper prefix is incomplete, at its end, and asks for no more than
  what is missing.

### `nominal_relay`

Bytes of two bits; six layouts of one or two bytes, with gaps, in every byte order, with unsigned,
signed, boolean and float fields, two of which must not be accepted; enums of one and two selector
bytes with and without an unknown variant; a relay whose declaration knows no more arms than the
speaker's; messages of up to four bytes that nobody here wrote.

- `FieldsIndependent`, `BuildersAgree`: see *Bitfields*; every order of setters.
- `WrittenReadsBack`: what a builder wrote opens as the variant, with the body, that was meant.
- `RelayLossless`: a relay can send what it could open, an unknown variant bit for bit.
- `ExtentsHonest`: `FIXED_SIZE` and `LEADING_EXTENT` are true of every message, of what follows it
  and of its prefixes.

### `struct_writer`, `writer_reordered`, `writer_overlap`

The same families of declarations, up to five fields (four with padding and positions), with
every content and every order of setters: payload sizes {0, 2, 3}, counts {0, 2, 3}, children
of two bytes, positions {0, 4} ({0, 1, 2} in `writer_overlap`). A controller carries at most 2, so size 3 is refused, and
variable-width integers below 2 take one byte, so 2 expands.

- `RoundTrip`: the emitted bytes, viewed with `frame` and with `frame_exact`, are the fields
  that were set, each where it was written, up to the last byte.
- `NothingStale`: no byte of the caller's buffer survives in a finished struct.
- `WritersAgree`: both renderers emit the same bytes and refuse the same values.

`RoundTrip` and `WritersAgree` are restricted by `Faithful`, which names the two situations in
which the code fails; the two violation runs show each of them.

## Findings

1. **`geometry_hashes`** (`recursive/geometry/build.rs:295`). `push` clears the shape candidate
   when an item's width disagrees with the width recorded for its hash, but `push_shape`
   assigns it again from the hash sequence alone once the table is full. All leaf items share
   hash 0, so an array of leaves of different widths can end with the shape strategy, and
   `get(n)` answers another span than iteration.
2. **`writer_reordered`** (`writer/automatic.rs:93`). Behind a child of fixed size, setters may
   be called in any order (`lib.md:410`), but the zero placeholder of a length there belongs to
   the setter of the next slot. If a later payload is set first, its length is patched and then
   erased by the placeholder: `finish` succeeds with a length of zero. In a struct whose callbacks
   read the view, `finish` fails with a layout error instead (`LengthErased` in run `selection`).
3. **`writer_overlap`** (`writer.rs:1234`). The setter of a field with a position read from an
   earlier field compares the position with the cursor, which does not yet include a
   fixed-width length in front of the field. A position that names the length's own offset is
   accepted and the payload is written over it, where the detached builder answers `Backwards`.

### Observations without a run

Behaviour that a reader of the models should know of, and that no run refutes: it needs numbers
the instances avoid, contradicts no promise, or lies outside what is modelled.

- `build.rs:196`: the length of the current run saturates at `u32::MAX` and is then used as exact.
- `build.rs:294`: an item wider than `u32::MAX` at the last index of the period table returns
  before `push_shape`, so the border is not computed and the next item divides by a period of
  zero. `ARCHITECTURE.md:329-332` has unsupported widths fail closed to replay.
- A shape mixes selectors and the widths of leaves only. With demand bodies, whose length is no
  leaf, two roots may have equal shapes and different widths without a collision of hashes.
- Nothing refuses two arms of an enum with equal selectors when a builder writes; the reader
  answers `DuplicateSelector` (`WrittenReadsBack` excludes such declarations).
- `bitfield.rs:797-802` accepts single-bit ranges of any numeric type; a float there loses its
  fraction (`WrittenReadsBack` excludes the values), and a negative one, which the cast to
  `u128` in front of the comparison makes 0, is stored as 0 without a refusal (`Values` has no
  negative floats).
- Recursive writers bound no depth; `WrittenOpens` says which depth opens the result.
- `view.rs:1054`: flattening into `RecursiveError` turns the shortage of any field into `NeedMore`,
  also inside an extent that more input cannot enlarge.

## Proofs

Eight modules hold theorems, one of them only the lemmas about loops that others use. Each
temporal theorem about an invariant follows from `Init => IInv`, `IInv /\ [Next]_vars => IInv'`
and `IInv => Inv` by PTL; action properties and the refinement from `IInv` and one lemma per action.

### `WireOutput_proofs`

Six invariants of `WireOutput!Spec` for every address space, every set of byte values, every
nesting depth and chunk length: `TypeCorrect`, `CursorIsHighWaterMark`, `ChildrenStayInside`,
`NoStaleByteEmitted`, `ArrayCountReproducible` and `TailAgrees`. The only assumption is
`OutputAssumption`, what the constants are. About the caller's growth callback the model assumes
what its contract asks for: bytes below the high-water mark are kept, the exposed length does not
shrink, and a callback that fails outright has changed nothing.

None of the six is inductive alone. The inductive invariant `IInv` is their conjunction with two
more:

- `OriginBehind`: an array began at or below the writer's cursor, and while no item is open its
  count is covered by the bytes since. `CountCovered` says this only of an array that may be
  called now; the step that opens an item must carry it over.
- `FramesOrdered`: every child stands at or below the start of every child inside it.
  `ChildrenNested` relates neighbours only, and a step of the innermost child must not disturb
  the bytes any outer child has emitted.

They lean on one another: a write is in range because children are nested; nesting survives
because the cursor is an honest high-water mark; the count of a parent is bounded by its
bytes because an item starts where its parent stands.

The argument is laid out in three layers: *effects* of the pure operators (`EnsureContract`,
`WriteAtEffect`, `FillAtEffect`, `ExpandSpanEffect`: what an answer preserves and where the
cursor ends), *preservation* by each action (`ThroughPreserves` covers every child call that
passes through to the writer), and the temporal theorems.

On the same invariant rest the action properties and the abstract promise.

- `GrowthIsLawful` (`GrowthPolicy`): through every route by which a call reaches an adapter the
  exposed length moves only as the adapter may, given a callback that keeps its contract (`AllowedGrowth`, carried by `Honest` from
  `ensure` through `write_at`, `fill_at` and the expansion).
- `ErrorsAreHarmless` (`ErrorsChangeNothing`): the same chain, read for an answer that is not `Ok`.
- `Refinement` (`ImplementsRepresentation`): each call is one action of `WireRepresentation` or a
  stutter. The steps that need `IInv` are those where a call relies on earlier ones: an
  expansion is a `Splice` only because the suffix it slides lies within what was written, and a
  child's call stays in the abstract window only because children are nested.

### `StructView_proofs`

All four properties of the run `struct_view`, for every set of declarations, content and length of
the input: `GettersAnswerWhatWasFramed` (`RangesReconstructed`), `FixedSizesAreHonest`,
`PrefixesAreDetermined` (`PrefixDetermined`) and `PrefixesNeedMore` (`IncompleteNeedsMore`).
Assumed: `StructViewAssumption`, that declarations are fields as the parser builds them and that
encodings of children are not empty.

The invariant `Inv` says that what was framed is a `Walk`: every span is `FrameField` from where the
span before it ended, over the content read so far, in a struct whose controllers, groups and
anchors all come earlier (`Located`, from acceptance; without it a step could depend on content
that is not read yet). No property is inductive alone, because each relates the last state to
all the steps before it. From a walk follow the properties by facts about pure operators:

- `EndShape`, `FieldStep`: a framed field ends behind its start, after its `Size` if that is known;
  it starts where the previous one ended unless it is placed. For structs that keep no cursor this
  is a theorem about static offsets (`StaticWalk`, `NextOffset`).
- `SumBetween`, `PlainWalk`: all sums of sizes are differences of one prefix sum, and so are the
  distances between fields with nothing dynamic in between. `StartRecomputed` and `EndRecomputed`
  compare with the getters' cases; that a struct with an unknown static offset has a cursor and
  that a field before a fixed suffix need not keep its end are cases of these.
- `FieldAgain`, `WalkAgain`: a field framed again within a boundary not before its end answers the
  same; within an earlier one it asks for more, by no more than is missing. `LeadingFields` is where
  `LEADING_EXTENT` enters: no field takes whatever is left.
- `RangesAreSpans`, `ReframeIs`: the recursions of `Ranges` and `Reframe` have one solution, by
  `BoundedInduction` over the index; for a cut input it stands still at the first late field.

### `RecursiveGeometry_proofs`

Both properties of the run `geometry`, for every capacity, every number of items and every sequence
of widths and hashes: `TypeCorrect` (`TypeOK`) and `LookupsAreExact` (`LookupExact`). Assumed:
`GeometryAssumption`, what the constants of the code satisfy. `LookupsAreExact` speaks of arrays of at
most `u32::MAX` items: from there on the run length saturates and is then used as exact (*Observations
without a run*). That bound is a condition of the theorem, not of the model; `TypeCorrect` does
without it. The exception is the one of `LookupExact`, a shape strategy settled while framing on
hashes that do not separate the widths; the theorem shows it to be the only one.

Neither property is inductive: until the last step nothing is chosen. The invariant
`GeometryInvariant` says of the builder what its tables may hold (`Stored`) and what each field
means for the items seen so far (`Observed`): `Fixed` and `Affine` of every width; `Running`, that
the finished runs form a `Cut` in which all but the last are equally long and no candidate period
has been contradicted; `Ranked` and `Factor`, that codes and components reproduce the widths;
`Shaped`, that the classes repeat. Who owns the geometry while framing is `Modes`: two of these
share its table of codes, and the run widths share their table with the borders.

- *Lookups.* `FixedExact`, `FormulaExact`, `IntervalExact`, `RankedExact`, `FactorExact`, `ShapeExact`,
  `PeriodicExact` and `PackedExact`: if a table reproduces every width, the prefix sum of the lookup is
  the start of the item. The periodic, shape and factor lookups are one sum (`Cycled`): whole cycles,
  whole blocks, part of a block; `CycledNext` follows it over every carry. Sums add up by
  `AddedNext`, whose recursion has one solution by `BoundedInduction`.
- *Observers.* `PushStep`: one lemma for each observer says which fields it keeps and what it
  makes true of one item more. The pattern of hashes is found by borders (Knuth, Morris and
  Pratt): `BorderIs` says that a step of the loop finds a border, `BorderPeriod` that a border is a
  period.
- *Choice.* `CompleteStep` finishes the open run. `ChoiceStep` takes the first strategy that
  is not empty; each either rests on what was observed or on its own second pass
  (`RecursiveShapeChoice`, `IntervalChoice`, `FactorizedChoice`, `PackedChoice`).

### `RuntimeArrays_proofs`

Streams: `RetriesAreInvisible`, `ItemsAreValid`, `NoPanicAfterPrevalidation` and `EndIsTheEnd`, for
every set of schemas and contents, every length and every way the bytes arrive. Assumed: what a
schema promises, as in `WireItem`. The central lemma is `FrameMonotone`: a frame that succeeded on a
prefix succeeds with the same extent on any longer one, so an item framed from a short buffer is
the item of the whole stream. The four properties are inductive together with the types and with
`Prevalidated`, what `FixedViews::new` has checked: every boundary of the slice frames one whole
item, so the second, unchecked frame of the iterator cannot differ. `StreamsBesideArrays`
carries the four guarantees over to the composition, whose every step is a step of the stream or
leaves it alone (`StreamsEmbedded`).

Arrays: `CopyMatchesIteration` (`EagerMatchesLazy`): for every item schema, content, count and input,
copying a facade succeeds exactly when a traversal hands out all its items and finds nothing
behind them. The eager check is a walk, a recursive function; the lazy one is a state machine. The
invariant `Standing` says that an open iterator stands where the walk of as many items ends,
`Measured` that the extent of the facade was measured by the same walk when the parent did not know
it. The walk exists by `IterationExists`, and lemmas by `BoundedInduction` say that it never leaves
the input, that it rests once it has failed, and that it repeats itself on any extent that holds it.

### `ByteSelection_proofs`

`SelectionsAreExact` (`ChunksExact`): for any number of ranges, in any order, empty, reversed,
nested, repeated or out of bounds. The iterator rescans the ranges as often as there are of them,
each time growing its chunk by every range that touches it. `Visited` grows in at most one pass
per range, so after the last pass the end of the chunk lies in no range (`Gap`); without that, two
neighbouring chunks could touch. `Positioned` keeps this between calls: an included iteration
stands in a gap, an excluded one at the start of a range or at the end. The theorem is about
`ByteSelection` alone; `ComputedFields` runs the same actions for a caller of `select` and also
for callbacks, where the property stays with TLC.

### `Iteration`

Lemmas, no theorem of the system. The library states induction with an operator as parameter,
which the installed provers cannot instantiate; it also states that `Nat` is well founded. From
the latter follows that a set of naturals with 0 and every successor is `Nat` (`SetInduction`),
and that is enough for what the proofs above need of recursive functions: a function that iterates
a step exists (`IterationExists`), and a set of indices that each step keeps is all of them
(`BoundedInduction`).

### `RecursiveSkip_proofs`

`SkipStackInitialised`: for every grammar, input, base and depth, the stack of the skip machine
never outgrows its array or the budget, and what `assume_init` reads was written. Assumed:
`RecursiveSkipAssumption`, the types of the arguments. That a write at `stack_depth` lands in the
array needs the budget to be within `DEPTH` and the array to keep its extent; `StackInv` adds
both. One lemma per action that touches the stack, the rest leave it unchanged.

### `NominalRelay_proofs`

Bitfields: `FieldsStayIndependent` and `BuildersKeepAgreeing`, for every layout the acceptance
admits, every order of setters and every value. Assumed: `BitfieldsAssumption`, which types there
are and which values a caller can pass for each. The words alone are not inductive: that a setter
leaves the others alone rests on ranges being disjoint, which the acceptance loop establishes only
between a field and earlier ones, and that a value comes back whole rests on the types it admits;
`GivenOK` carries both along.

Messages: `WhatIsWrittenReadsBack`, `RelaysLoseNothing` and `DeclaredExtentsHonest`, for every
declaration of a speaker, every older one of a relay, every body and every foreign byte string.
Assumed besides: `NominalRelayAssumption`, that a selector constant fits the selector's integer and
that bodies and foreign messages are bytes. The invariant `RelayInv` keeps how the bytes on the wire
came about (`Written`, `Passed`); the properties follow from it by facts about pure operators:

- `DecodeEncode`, `EncodeDecode`: splitting a word into bytes and joining them are inverse in both
  byte orders, which rests on the uniqueness of quotient and remainder (`BitUnique`).
- `Opened`, `OpensKnown`, `OpensUnknown`: a message opens exactly when its selector names one arm
  whose body is all the rest, or names none and the enum keeps unknown variants.
- `Again`: reading every field of a word and setting it in a fresh one, field by field, keeps
  every getter, although bits outside all fields are lost.
- `FrameLonger`, `FrameShorter`: appended bytes change no extent, and a prefix asks for at least one
  byte and for no more than are missing. `SizeShared`: a fixed size is the one all arms have.

### Model-checked only

- Termination of the skip machine: liveness is out of the prover's reach.
- `MeasuresRoot` and the round trips of writers compare a machine with a nested recursion or with
  folds over data. Each needs an induction of its own over a structure that is not a plain
  iteration of one step.
- Computed fields, recursive views and writers: no theorem yet.

The bounds of the model (`MaxFrames`, `MaxChunk`, `DEPTH`, `MaxLength`, the sets of grammars,
layouts and schemas) are constants of the theorems; only the runs give them values.

## What is left out

- Wording and structure of errors, conversions of values, decoded values of scalars: no
  property is about them.
- Failures of the output in `StructWriter`; `WireOutput` models them at every call.
- The `FIXED_SIZE` of a child as seen by `WireBuilder` is taken to equal the one of its
  `WireView`; the macros derive both from the same model.
- A child's limit that a detached builder imposes on its struct.
- Recursive objects: the `failed` flag of iterators, which nothing below an open root can set; the
  copy of a view through a `ChildWriter` cursor, which `WireOutput` models; the nesting of the
  errors of leaf bodies; `DuplicateSelector`, since a grammar is a function of selectors.
- Enumerations: the selection routes of an enum, and bodies other than the five kinds; structs are
  modelled by `WireFraming`.
- Integer codecs: only the length of an encoding enters the models.

## Plan

Done, in this order: output layer and its proofs; recursive geometry, proved as well; schema, framing and
struct views; streams and counted arrays; selections; struct writers and builders; the recursive
skip machine with its refinement and proof; recursive views and writers composed; bitfields with
their proofs, enumerations and a relay; computed fields over selections.

1. **Proofs.** That the cursor of the skip machine stays inside the input; that a finished struct
   writer holds every field it was given.
2. **Integer codecs** at scaled widths, against a reference decoder: canonicity, overflow, cut
   input.
3. **Errors.** The nesting and flattening of leaf errors in recursive bodies.
