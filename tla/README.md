# NestedSchema in TLA+

NestedSchema (C++, `src/` of the repository) stores a nested schema — STRUCT, MAP,
ARRAY, STRING and numbers — as a graph of `Data` objects, encodes it to bytes and
decodes the bytes again. This directory models that library, checks the models with
TLC and proves facts about them with TLAPS.

File and line numbers (`encoding.cc:104`) are those of the repository's `src/`
directory; `README.md:25` and `BinaryFormat.md:116` are its documents.

## 1. Inventory

| Part | State it keeps | Operations | Talks to |
|---|---|---|---|
| Variable-length integer (`VarientEncoding`, `VariantDecoder`) | none, two loops each | number -> bytes, bytes -> number | used for tags, values, counts, lengths, sizes |
| Data objects (`schema.h` 10-119) | `data_type_`, `value_`, children, field names | constructors, `add`, `Get`, `fieldName` | pointed to by each other, by Schema, by the Encoder's stream |
| Schema (`schema.h` 121-145) | `struct_`, `schema_` | `Schema(name)`, copy, `add_field`, `AddElement`, `Get` | read by `encode()`, written by `decode()` |
| Encoder | members `encodeStream_`, `meta_offset`, `meta_size_offset`; locals of one call | `encode` | reads the Schema's objects |
| Decoder | member `schema`; the recursion of one call | `decode` | allocates objects, returns its Schema by reference |
| Tests (`encoding_test.cc`, `schema_test.cc`) | two Encoders, a Decoder | encode, decode, encode, compare; traverse | all of the above |

Everything is single-threaded and nothing is persisted, so there are no
interleavings of threads, messages or crashes. What is hard is
sequencing and arithmetic:

* the encoder cannot know a composite's sizes when it meets it, writes placeholders
  and fills them later from positions and sizes recorded in two hash maps;
* it finds "the next child" by comparing type names over a flat stream;
* its members outlive the call, also when the call ended in an exception;
* the decoder trusts every count, length and size in the stream and never compares
  a position with an end;
* a zero takes no byte at all, and a byte's top payload bit can become a sign.

What makes each part correct: a number survives its encoding; the bytes of a document
are those of the format, whatever order they are produced in; a size in the stream is
the number of bytes it stands for; decoding reads each byte once and in its window;
the document that comes back is the document that was sent. PROJECT.json lists the
hazards line by line with the properties that would catch each.

## 2. Modules

```
Varint ── NestedData ──┬── SchemaClient ──┬── MCSchema
   │                   │                  └── SchemaProofs
   │                   ├── SchemaTraverse ┬── MCTraverse
   │                   │                  └── TraverseProofs (with DataLemmas)
   │                   ├── Encoder ───── EncoderRefinement ┬── MCEncoder
   │                   │                                   └── EncoderProofs (with DataLemmas) ── WireProofs
   │                   ├── WireFormat ──┬── EncodeService (abstract encoder)
   │                   │                └── DataLemmas
   │                   ├── Decoder ───── DecoderInverse ┬── MCDecoder
   │                   │                                └── DecoderProofs (with DataLemmas)
   │                   └── RoundTrip (instances of Encoder and Decoder) ┬── MCRoundTrip
   │                                                                    └── RoundTripProofs
   └── VarintLoops ──┬── MCVarint
                     └── VarintProofs (with DataLemmas)
```

**Varint** — the two functions as operators. The payload of a byte is a digit in base
`Radix` (128 in the code), `HasMore` is the high bit, `HighBitShiftedOut` is what
`c <<= 1; c >>= 1` does to a `char` (`CharIsSigned`: TRUE for g++ on x86).
`Weight` is the table of powers, a constant so that the modules with proofs need no
recursion. **VarintLoops** is the same code one loop iteration per action: the split
into groups (`TakeGroup`), the emission (`EmitGroup`), the read (`ReadByte`), clearing
the high bits and adding up. A number goes through encoder and decoder in one
behaviour.

**NestedData** — `Data` objects as records in a heap (a sequence); a pointer is an index.
The text of a number is its whole part followed by its fraction (`<<178, 87>>` for
"178.87"); `<<>>` is a text `std::stoi` cannot read. `TypeEncoding` is the tag. The type
`"OTHER"` stands for every type name without a tag, which the constructor of Primitive accepts;
`Wild` for what a pointer leads to that was never set or is null, and that nobody may follow.
`Cyclic` says that an object reaches a composite that is below itself, `ToInt` is the narrowing
of an `int64_t` to an `int`.

**SchemaClient** — a program that uses `schema.h`, one action per thing it can do:

| Action | Code |
|---|---|
| `Make` | `new` of any Data object, through the constructors or `nestedSchema`; also a pointer to no object, which `add()` takes like any other |
| `AddToArray`, `AddToStruct` | `Add2Array`/`add` of Array, `Add2Struct`/`add` of Struct, on any object |
| `ArrayWith` | `Array(Data*)`, whose `assign` throws, unless the pointer leads to no object |
| `Construct` | `Schema(name)`: a new Struct with the name as first field |
| `Copy` | the implicit copy of a Schema: two pointers, no object |
| `add_field`, `AddElement` | fields go to `struct_`, `AddElement` replaces `schema_` only |
| `UseUnset` | a pointer that `Schema()` left uninitialised is followed |

`added` and `replaced` are history variables: what was added through each Schema, and which
had their document replaced. The copies, fields added through one of them while the
other is in use, and fields added after `AddElement()` are what makes `FieldsInOrder` more than
the meaning of one `push_back`.

**SchemaTraverse** — the walk of `schema_test.cc`, one object per action. The order it has to
keep is the "order of element" of README.md:22.

**Encoder** — one Encoder object and the calls of `encode()` on it, `pc` naming the place:

| Action | Code |
|---|---|
| `Encode(r)` | entry of `encode()`; locals new, members as they were left |
| `VisitString`, `VisitNumber` | `EncodePrimitiveType`, `StringEncoding` |
| `VisitOther` | the same for a type name without a code: the tag is one of `UnsetNumbers`, what `encodeType` (encoding.cc:53) may hold that was never set |
| `NumberThrows`, `NumberDiverges`, `TypeDiverges` | `std::stoi` throws; the loop of a negative number, or of a negative `encodeType` |
| `VisitWild` | `isPrimitive()` of what is no object |
| `VisitComposite` | placeholder, `meta_offset[idx] = -1`, both stacks |
| `EndTraverse` | the bound of the metadata loop is `meta_offset.size()` |
| `BeginMeta`, `EncodeFieldName` | head of `EncodingMeta`, field names of a STRUCT |
| `ScanSkip`, `ScanTake`, `ScanNull` | one iteration of the scan; `ScanNull` dereferences an unfilled placeholder |
| `MetaOfNothing` | `top()` of an empty stack, `Get()[0]` of an empty composite |
| `EndMeta`, `SumUp`, `Return` | concatenation of the entries |

The branches for ARRAY, MAP and STRUCT of `EncodingMeta` have the same scan; they differ
in the head of the metadata, which the model keeps. Positions are 1-based, so the -1
the code stores for "not known" is 0. Three outcomes besides `returned`: `threw`
(an exception leaves the call, members keep what they hold, a further call is
possible), `diverged` and `undefined` (undefined behaviour; the model stops there).
Reading the dangling pointer of `StringEncoding` (encoding.cc:43) yields the
characters or, for a string longer than `SSO` = 15, possibly `Junk`.

**WireFormat** — the byte format as a recursive function of the document (`Wire`), read
off the format comments of `StringEncoding` and `EncodingMeta`, and for a number what
`EncodePrimitiveType` writes: its type and its value. (BinaryFormat.md:80 has no type there, see
"What the runs found".) An object whose type has no code has no format. Also the document as a
tree of values (`Tree`), and the documents the format carries (`Carried`).
**EncodeService** — the abstract encoder: answer a request with `Wire(doc, request)` or
fail if the document holds something without bytes; of a document with a type name without a
code it says nothing but that an answer needs every object to have bytes. **EncoderRefinement**
maps Encoder to it.

**Decoder** — `decode()` with the recursion of `PartialDecode` as a stack of activations:
`EnterComposite`, `ReadCount`, `ReadFieldName`, `ReadSize`, `DecodeChild`, `Complete` for
composites, `DecodeNumber` and `DecodeString` for primitives. `StringThrows` and
`FrameThrows` are the constructors that throw on a negative size; `EnterUndefined` and
`FrameUndefined` are reads outside the buffer and an exhausted stack. For an unknown type byte
(`DecodeUnknown`) the code returns a pointer it never set, which is stored like any other while
decoding goes on: it leads to an object made before or to `Wild`.
An activation has its `charBytes`, the place in the buffer where its element begins, and `at`,
which is `charBytes + decodingIdx`. A count or name length is narrowed to `int`, and so is the
index when a size is added to it (`BehindElement`). `endIdx` is not modelled: no line reads it,
and a nested activation is given one that is relative to the wrong base (decoding.cc:46-47).
`session` is the list of streams one Decoder is given, call by call; `schema` is the member
whose reference `decode()` returns, so it is also what a caller of an earlier call holds.
**DecoderInverse** states it against `Wire`, with history variables: `last`, the stream of
the last call that returned, `start`, how many objects there were when the last call began, and
`unset`, whether that call met an unknown type byte. The window of an activation (`WindowEnd`) is
computed from the sizes read: it is what the activation below will skip when it has the element
(decoding.cc:48), so that windows that nest and are filled mean that the decoder reads what it
skips. For a number or string the window is `CallEnd`. Its constant `CleanDocs` is a set of documents, of any size, and
`CleanDocsAssumption` says what they are: well built, without a cycle, nested no deeper than the
stack of the decoding thread, every number, length, count and size an `int64_t`, and `Carried`:
no object without bytes and nothing the signed char misreads, except the size of a last element.

**RoundTrip** — the scenario of `encoding_test.cc` on one heap: it instantiates Encoder
(for `e1`, then anew for `e2`) and Decoder. `Supported` says which documents the
library is sure to carry, `Carriable` which it may carry: a string longer than `SSO` can come back
if the freed memory still holds it. `unset` is a history variable: has `decode()` met an unknown type
byte. Its constant `Docs` is a set of heaps of any size, supported or not;
`RoundTripAssumption` says that their objects are those below the first, built as the constructors
build them, none below itself and nested no deeper than the stack of the thread (`Nesting`), and
that the numbers in a supported one are of type `int64_t`.

**DocSets**, **MC*** — all small documents of a size, and what the `.cfg` files assign.

Definitions commented "Slip" next to a definition are mistakes a programmer could
make there; every property of a passing run is violated when one of them takes
its definition's place (PROJECT.json, "mutants").

## 3. Runs

All runs set `CHECK_DEADLOCK FALSE`: a program that has made its calls stops, and so do
the outcomes `diverged` and `undefined`.

| Run | Instance | Shows |
|---|---|---|
| `varint_signed` | -300..4500, base 16, 4 groups, signed char | loops and operators agree; a number comes back exactly if no group but the last has its top bit set; negative numbers never end, others do, in at most 4 groups |
| `encoder_trees` | every tree of up to 4 objects over four plain leaves, of 5 over two; of up to 4 with eight leaves of which seven are impossible to encode; of up to 4 with type names without a code and pointers to no object; of up to 4 with strings of 14 and 30, arrays of 15..18; base 16 | bookkeeping invariants at every step; refinement of EncodeService: bytes or failure, and which; every call ends |
| `encoder_calls` | two calls on any objects of: heaps of 3 objects with up to 3 children, of 4 with 2, pointers shared; heaps of 2 objects with 2 children and of 3 with 1, cycles included; trees of up to 4 objects, of 3 with empty arrays and pointers to no object | bytes are wrong exactly when a composite holds its last child twice or something was left behind by the first call; with a cycle no call gets past the traversal; indices stay in bounds |
| `decoder_streams` | streams of trees of up to 5 objects, and of names, strings, counts and sizes around 127/128 in base 16 (misread as negative); every stream of up to 4 bytes over eight bytes; streams with an unknown type byte and with counts, lengths and sizes an `int` (`IntMax` = 895) does not hold; all pairs of a smaller set of streams, on one Decoder | windows nest and are filled on clean streams; every stream ends; a call that threw or met an unknown type byte leaves nothing to the next, and a Schema held by a caller changes only when a later call returns |
| `schema_client` | two Schema variables, a number and a Primitive of another type name, pointers to no object, `MaxSteps` = 5 steps in any order | the heap is always well built; fields stay in the Struct, in order, across copies, and that is the document until `AddElement()` |
| `schema_walk` | trees of up to 5 objects, shared objects, cycles, pointers to no object | values in document order at every step; walks end exactly when there is no cycle |
| `roundtrip_signed`, `roundtrip_unsigned` | trees of up to 5 objects, 15 leaves, shared objects, long names, strings of up to 128 characters with `SSO` = 15, base 16 | every supported document comes back, also those that only an unsigned char reads right; (signed) no other one does unless only its strings are too long, and the test of a supported one passes |
| `encoder_number_tag` | trees of up to 4 objects with numbers for leaves, base 128 | the bytes of a number are not those of BinaryFormat.md:80 |
| `roundtrip_zero`, `roundtrip_long_string`, `roundtrip_sign` | one to three documents each, base 128 | a document for which README.md:25 does not hold |

Why these bounds are enough: five objects give two composites inside a composite,
a composite before and after a primitive of the same or another type, and three levels,
which is what the scan, the jump over nested composites and the windows distinguish.
Base 16 moves the boundaries of the varint (one byte to two, top bit of a
group) from 128 and 64 to 16 and 8, where documents can be small; base 128 is
used where they are not the subject, and for the documents that refute README.md:25.
`MaxGroups` = 4 replaces 9, `IntMax` a smaller
limit than 2^31-1; both only have to be larger than any size of the documents of the instance
(`decoder_streams` also has streams with larger ones, for the narrowing). `SSO` is the 15 of
libstdc++ but in `encoder_trees`, which is about sizes and keeps strings of 30 readable with 40.
`UnsetNumbers` = {-1, 3, 200} are an `encodeType` that does not end, one that is the code of
another type and one of two bytes.
`MaxDepth` = 6 is the stack of the decoding thread: a misread stream
may send the decoder back to the same bytes forever, and a thread would exhaust its
stack. `MaxEncodes` and the length of the sessions bound the calls; two show what one call leaves
to the next. `MaxSteps` = 5 lets a program construct a Schema, copy it, add a field through
either and replace or overwrite one; the theorem covers any number. `MaxEntries` (entries
of a stream) and `MaxWork` (values and stack of a walk) cut off the endless walk over a
cycle; documents without a cycle stay below them (at most 30 entries in two calls against 32 in
`encoder_calls`; elsewhere `CallsEnd`, `SupportedTestPasses` and `WalkEnds` would fail if one
did not). `MaxLoops` = 5 stops the loop of a negative number, one group more than any
other number needs.

Fairness: a call that has begun is run by its thread, so the steps of a call are weakly
fair (`WF_vars(Step)`); no fairness is assumed of the client that makes calls. In RoundTrip,
SchemaTraverse and VarintLoops one thread runs the whole scenario, `WF_vars(Next)`.

### What the runs found

BinaryFormat.md:80 says that numbers "will be stored without any metadata"; the code writes the
type of each before its value (encoding.cc:207-211), and the decoder needs it
(`encoder_number_tag`).

README.md:25 says of the two streams of a round trip that they "should be identical", and
`encoding_test.cc` asserts it. For these documents they are not:

* a number 0, a string without characters, any I8: `VarientEncoding(0)` has no byte
  (encoding.cc:18), so the value, the length or the tag is missing and the decoder
  takes what follows for it;
* a string of 16 characters or more: read from freed memory (encoding.cc:43), as in ENCODING_TEST_2
  (30 characters, encoding_test.cc:61) and VARIANT_TEST (19, line 93), which pass only if that
  memory still holds the characters;
* a multi-byte number with a group of 64 or more before its last, e.g. 8192: the sign
  of `char` gets in (decoding.cc:102), 8192 becomes -8192, and encoding that never ends.

`Supported` is the other side: numbers 1..`IntMax` without a fraction and not I8, strings and
names of 1..15 characters (names of any length that reads back), composites with at least one
element that do not hold the last one twice, and all lengths, counts and sizes free
of misread groups, except the size of a last element, which is never used.

## 4. Proofs

Checked by `tlapm` for all values of the constants that satisfy the named assumptions
(`VarintAssumption`, `IntAssumption`, `VarintLoopsAssumption`, `EncoderAssumption`, `DecoderAssumption`,
`CleanDocsAssumption`, `ClientAssumption`, `TraverseAssumption`; TLC evaluates them in the runs).

**DataLemmas.** Facts about the operators the models share.

* Varint. A non-negative number is encoded to a sequence of bytes; every tag except I8's is
  exactly one byte, from the fact that the weights grow. A byte sequence that can be read has
  its last byte where `VarintEnd` says, and an integer for a value. `DecodeEncoding`: what
  `VariantDecoder` makes of `VarientEncoding(v)`, exactly. `DecodeMisread`: what the signed
  char takes off a number is a multiple of `Radix` times the weight of the first group misread; so
  `SurvivorIsRight`, a number that would survive and was read from the bytes of `v` is `v`. The value is a `SumFunction`, which
  unfolds over a finite set only by taking one element out at a time; the lemmas on sums do
  that, and the inductions are sets of numbers that hold 0 and are closed under `+ 1`
  (`NatSet`), because an induction theorem with a predicate for a parameter cannot be used here.
* Sequences of parts. `FlattenSeq` is unfolded part by part (`FlattenAppend`, `FlattenConcat`);
  `Joined(c, n)` are its first `n` parts.
* Heaps. `HeapInduction`: where no object is below itself (`Grounded`), a set of objects that
  holds each object whose elements it holds holds them all; a counterexample would keep itself
  alive, and `Cyclic` is the existence of such a set. `HeapRecursion`: a function of
  the objects can be defined from its values at their elements (solutions on parts of the heap
  agree where they overlap, and by the induction every object is in one), so that `Wire` and
  `Below` unfold (`WireOfKids`, `BelowOfKids`); `BelowLeast`: `Below` is the
  least set closed under elements. `WireExtended`: what is appended to a heap leaves the bytes of
  what is there alone.
* Bytes in a stream. `Stands(b, p, s)`: the bytes `s` stand in `b` at position `p`. They can be
  taken apart (`StandsParts`, `StandsJoined`), a number that stands somewhere is read there with
  its value and the position behind it (`ReadBack`, `TagByte`), and a composite is its head
  and its items (`ItemsAre`, `FlattenItems`): the count, then for each element its name, its size
  and itself, in the order `PartialDecode` reads them. `StackStaysAlive`: a stack of objects to visit that holds
  one of a cycle still does after a step of a walk.

**VarintProofs.** `LoopsTyped` (type correctness), `NegativeDiverges`, `GroupsAreBounded` and
the variant `LoopVariant`, that each group takes the value down. The invariant `LoopInv` adds to the types that `Weight[n]`
of the groups taken times what is left of the value never exceeds the argument
(so at most `MaxGroups` groups are taken), that a negative value stays negative under a
flooring shift, and the range of the index in each phase. `LoopsEncode` and
`LoopsDecode`: the loops compute the operators that the models of the encoder and decoder
use, group by group and byte by byte. `VarintComesBack`: which numbers survive, for every
radix; it is `DecodeEncoding` carried through the loops.

**EncoderProofs.** For every set of well-built documents (shared and even cyclic objects
included) and any number of calls:

* `EncoderTyped`: `[]TypeOK`;
* `ScanInBounds`: every position and element `EncodingMeta` uses exists, in every call,
  whatever the members still hold;
* `FirstCallPopsMatch`: on a first call the metadata loop pops exactly what was pushed;
* `MetadataCounted`: `metadata_size` is the length of the metadata;
* `CyclicNeverReturns`: with a cycle below its root a call never gets past the traversal.

None of these is inductive alone. `IInv` adds that the document is one of `Docs`
(its pointers are to objects), that `meta_offset` has finitely many keys, that a
placeholder on `MetaStack` is a position of the stream with something behind it when its
composite has elements (`StackInv`: this is why the scan starts inside the stream), the
locals of `EncodingMeta` (`ScanInv`), and that on the first call the keys of
`meta_offset` are below the next position, so each push adds one (`CountInv`). There is one
lemma per action; `StopKeepsIInv` covers the actions that only move `pc`, and
`MetaStepKeepsIInv` the steps of `EncodingMeta`. `CyclicNeverReturns` adds `LoopInv`: every set
of composites that keeps itself alive and holds the root has one of its own on the stack,
so the stack is never empty.

The same module speaks of the first call of `encode()`, for every set of documents.

* `WrittenOnce`: a finished entry is never written again, in any document. `PendingInv` says
  that the placeholders on `MetaStack` are untouched, innermost first, and that the one
  being filled lies behind them.
* `ScanFindsChild`, `LookupsFilled`, `SizesOfSpans`, `AllFilled`: in a document in which no
  composite holds its last child twice, the scan meets each child at its own entry, finds
  the size and end of a nested composite recorded, records the number of bytes that are
  there, and leaves no placeholder. `OnceLast` is that hypothesis: some set of objects
  holds the root, contains the elements of its composites, and has none that holds its last
  child twice. It allows objects that are shared otherwise. It cannot be dropped:
  `SharingRule` of the run `encoder_calls` shows that the others get wrong bytes.

The four follow from one invariant, `Layout(St)`: there is a sequence of stacks `St`, one for
each entry written and one for now, such that `St[p]` is what the traversal had to visit
when it wrote entry `p`. An object's entries begin at the position where it was on top, and
end where the stack first was shorter by one (`IsEnd`). The traversal only appends to `St`; the
metadata loop works on positions whose end `St` tells, so that "the next child" is the object
on top at the position where the one before ended (`ChildBegins`, `NextChildBegins`), and the
size of a composite is the sum of the entries between two ends.

**WireProofs.** `EncodeImplementsService`: the refinement of the abstract encoder. Encoding with
its traversal, placeholders, scans and two hash maps answers with `Wire(heap, root)`, the format
of `EncodingMeta`'s comments, or fails, and fails only if some object of the document has no
bytes. Its hypotheses, and why they cannot be dropped:

* `PlainHeap`: no object is below itself (`CyclicNeverReturns`: there is no answer then), no
  type name is without a code (its tag is whatever was in memory), no string is longer than `SSO` (its characters are gone when they are read:
  `roundtrip_long_string`), no composite holds its last child twice (`SharingRule`: the bytes
  are others). That only composites have elements and only STRUCTs names is what the
  constructors make. Objects may be shared in every other way.
* `MaxEncodes = 1`, one call on an Encoder: a used one returns other bytes (`ReuseRule`, which
  `encoder_calls` checks), so no service of several requests is implemented. `FirstCallRight`
  says the same of the first call without a bound on the calls.

`Content(St)` adds to `Layout(St)` what the entries hold: a primitive's entry its bytes
(`Written`), the entries from a filled composite to its end its `Wire` (`FilledIn`), the metadata
made so far head, names and the sizes of the children passed, while the entries passed are the
bytes of those children (`MetadataAt`), and everything a visited object holds visited or on the
stack (`Reached`). When a scan ends, the entry and those behind it are therefore the format of
the composite. At the end the document's first position is filled up to the last entry.
`Reached` with `BelowLeast` shows that every object below the root was visited, so that an
answer is given only if all have bytes; a step that fails stands at one that has none.

**SchemaProofs.** `ClientBuildsWell`: the heap of a program that uses the constructors, the
functions that add, and Schemas, in any order, is `WellBuilt`. Its Primitives have any type name but
STRUCT, MAP and ARRAY, and its pointers may lead to no object (`Wild`); it does not call `SetType()`
or `SetValue()` itself. `WellBuilt` is the assumption the Encoder and traversal proofs make of their
documents, so together they speak about every document such a program can make. `NoFieldLost`:
`FieldsInOrder`, from `OrderInv`; the lemmas show that an increasing embedding of a list of fields in
another survives growth of either at the end, and that objects only ever grow.

**TraverseProofs.** `WalkTyped` and `CyclicNeverEnds`, by the same `LoopInv` as the encoder's.
`WalksInOrder`: `WalkInOrder` in every heap without a cycle, whatever its objects share. What
is below a stack is a `FlattenSeq` that splits where the stack does; a step takes its top and
puts back its value or its elements, which is how `ValuesBelow` unfolds. (The run checks it also
where a heap has a cycle elsewhere; the proof needs the recursion defined on the whole heap.)

**DecoderProofs.** For any bytes, well-formed or not, and any number of calls:

* `PointersOld`: each stored pointer is to an object finished before its holder, one that was never
  set counting as an older object or as `Wild`; and a call that has met no unknown type byte has
  stored objects of its own only, none of them `Wild`, whatever earlier calls made or left half-made.
  The second part is `YoungInv`: while `unset` is false, all objects made since the call began hold
  elements made since it began, and so do the activations.
* `DecodedIsAcyclic`, from the first part, by the least element of a supposed cycle: what `decode()`
  returns is a document that encoding and walking come to the end of. (An unset pointer that
  happens to lead to a composite still being read would close a cycle; it counts as `Wild`.)
* `DecoderTyped` is `[]TypeOK`: the numbers read are integers whatever the bytes, and `WaitInv`
  adds that an activation that waits for an element has read its size, so that the size it moves on
  by exists.
* `DecodedIsWellBuilt`: each STRUCT has a name for each element, each STRING holds characters and
  only composites hold elements, so that the theorems about the encoder may be applied to what the
  decoder returns. They do not say that `encode()` has bytes for it: the stream `7 0` is an empty
  STRUCT, for which it is undefined, and so is a `Wild` element. `BuildInv` says of an activation that
  it has as many names and sizes as items it has read and as many elements as it has passed.

For the streams of `CleanDocs`, of any documents that satisfy `CleanDocsAssumption`, in any
number of calls and between any other streams:

* `CleanNeverFails`: no exception, no unknown type byte, no read outside the buffer;
* `DecodeIsInverse`: `Wire` of the document returned is the stream, so `decode()` inverts the format;
* `WindowsAlwaysNest` and `WindowsAlwaysFilled`: each activation stays in its window, the bytes the
  activation below skips for it, this in the one below, and a composite that has all its elements, a
  number or a string is exactly at its end;
* `CallerKeepsDocument`: a Schema a caller holds is the document of the last call that returned.

That no call fails is not inductive: a position says nothing about what comes next. `CleanInv` says
where in the document the decoder is. Its `Trail` assigns each activation an object of the
document, the position where the bytes of that object stand in the stream and the position behind
them. The activation has read exactly the items of that object before its own position
(`Visited`), each element it holds has the bytes of the element of the document at the same
place, and it waits for exactly the element at which the activation above it stands. With this,
each read is a read of a number the document tells, a child's activation begins where the child's
bytes begin (`TrailPushed`), and when the child is complete its bytes end where the parent goes on
(`TrailPopped`). No position is computed from a size before the element behind it is read, so only
the sizes of elements that are not last must be right; this is what `Carried` asks. The rank of
an object bounds the number of activations above it (`MaxDepth`). The document is in the
assumption and the objects are in the decoder's heap, so the elements are compared by their
`Wire` in two heaps, and an activation that completes builds an object with the same `Wire`
because its parts are the same (`WireExtended` for the others).

The windows are computed from the sizes as they were read, so `RightTrail` adds to `Trail` that each
window ends where the object's bytes do. It needs `SizesReadRight`: no size on the stack was
misread. A first version, that sizes are positive, did not do: a size of three groups can be
misread as a smaller positive number, and the window of its element then ends too early. What is
read survives being written again exactly if it is right (`SurvivorIsRight`), which says it
without naming the document.

`CallerKeepsDocument` follows from `KeepInv`: `schema` is set only when a call returns, an object
finished is never changed, and what later calls add to the heap leaves its bytes alone.

**RoundTripProofs.** The scenario of `encoding_test.cc`, for every set of documents that satisfies
`RoundTripAssumption`, with a signed or an unsigned char:

* `SupportedSafe`: on a supported document none of the three calls throws, diverges or leaves the
  defined behaviour;
* `RoundTripExact`: the document that comes back is the one that was sent, the same tree of types,
  values and names;
* `SupportedIdentical`: the two streams are identical, as README.md:25 says of all documents.

The two components are taken from their own proofs. `EP` is an instance of WireProofs whose documents
are all heaps the constructors can build, `DP` one of DecoderProofs whose clean documents are the
supported ones (`Sent`); the lemmas `SameData` .. `SameDecoderStep` say that the definitions
and steps of RoundTrip's own instances are theirs, and `EncoderAssumed`, `DecoderAssumed` and
`SentAssumed` that what those modules assume is so. For this, their results are restated
there for one call that starts on a heap where objects are already: `CallBegins` .. `CallGoesOn` in
WireProofs, `SoundBegins` .. `DecodingNext` in DecoderProofs.

The invariant `RInv` says that there is a document `h` of `Docs` that the heap holds (`Holds`), and
for each stage of the test what the calls so far have answered. `encode()` only reads the heap.
`decode()` only adds to it, so that what is below the first object, its bytes and its tree stay
what they were, and the document is supported in the larger heap exactly if it was
(`HeldDocument`). The second `encode()` works on the objects `decode()` made. That it has bytes for
each of them is more than their `Wire` being right: `AlikeTo` says that each object in the heap
has type, value, names and number of elements of one of the document, and holds its last
element once even if the document shared it, because the decoder makes each object anew. `Fits` is
what such an object keeps. Of an unsupported document `RInv` says only that the bytes
handed to `decode()` are bytes: `DP!Sound` holds for any.

**Only model-checked.** Liveness (`CallsEnd`, `DecodeEnds`, `NonNegativeEnds`, `WalkEnds`,
`SupportedTestPasses`), which TLAPS does not reach here, so also that every call that should
answer or fail does, and that the test of a supported document gets to its end. `SharingRule`,
`ReuseRule` and `OnlySupportedComesBack` where they speak of wrong bytes or another document: that
they differ from the right ones has to be shown for each document that is not plain, for each used
Encoder and for each stream that is misread, and no invariant of the steps says it.

## 5. Not modelled

* `Size()`, which returns an int nobody sets and nobody calls; `name_` of a Schema and the element
  type of an ARRAY, which are stored and never read; destructors, as nothing deletes an object.
* The parameter `endIdx` of `PartialDecode`, which no line reads.
* A program that calls `SetType()` or `SetValue()` on its own objects, makes a plain `Data`, or a
  Primitive with the type name STRUCT, MAP or ARRAY (which `EncodingMeta` would take for a composite);
  `Array(Data*)` of a type name of 32 characters or more, which does not throw.
* In `encode()` overflow of `int` sizes, positions and `int64_t` sums: streams of 2^31 bytes. (The
  decoder's narrowing of counts, lengths and its index is modelled.) Failed allocations: a count of
  2^30 elements is tried, not refused for lack of memory.
* What follows once a pointer that was never set is followed, or a byte outside the buffer is read.
* The stack of `schema.h` objects running out of memory on a cyclic document: the models bound
  the walk and show that it does not end.
* `main.cc` (empty), the Makefile, googletest (vendored).

The code has one thread, no file or network and nothing that survives the process, so there
are no interleavings, messages or crashes to model; failures are the exceptions, endless
loops and undefined reads that are outcomes of the models.

## 6. Plan

1. *(done)* Varint, Encoder, Decoder, RoundTrip, first proofs.
2. *(done)* SchemaClient, SchemaTraverse, cyclic documents, the Schema a caller holds over two
   `decode()` calls; proofs about all four.
3. *(done)* Proofs about the first call of `encode()`, from the layout of its entries in
   depth-first order; the type correctness of Decoder; the varint's round trip.
4. *(done)* The refinement of EncodeService: `Wire` unfolded over a heap without cycles, and the
   contents of the entries added to `Layout`; the order of the walk by the same means.
5. *(done)* The decoder on the streams of documents: it never fails, inverts the format and keeps to
   its windows, from the place in the document at which each activation stands.
6. *(done)* From 4 and 5, the round trip of every supported document: the results about both parts
   restated for a heap that the other part extends.
7. *(done)* What the code does where nothing is promised: type names without a code, unknown type
   bytes, pointers never set, numbers an `int` does not hold; windows taken from the sizes read.
8. The other direction, that an unsupported document never comes back, for the classes of documents
   whose misreading can be followed: a zero or an I8 at the end of an ARRAY, a fraction.
