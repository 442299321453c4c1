# A TLA+ model of protoruf

protoruf compiles `.proto` files at run time and converts between JSON, protobuf
bytes and Python objects. Its core is Rust (`src/src/`), with bindings for Python
(`src/python/protoruf/`), Node and WebAssembly. This directory holds TLA+ modules
of that core, TLC configurations that check them on small instances, and proofs
that TLAPS checks for every value of the constants. Paths below are relative to
the repository, whose files are under `src/`: `pool_cache.rs` is
`src/src/pool_cache.rs`.

Run one configuration with `tlc -config PoolCache.cfg MCPoolCache.tla`, and check
the proofs of one module with `tlapm DescriptorProofs.tla`. `PROJECT.json` lists
the runs, the lines each definition models, the mutations of the model that each
property catches, the hazards and the theorems.

## Inventory

| Part | Source | State it keeps | Operations |
|---|---|---|---|
| Descriptor pool cache | `pool_cache.rs` | `POOL_CACHE`: a process-wide LRU map of 64 entries from descriptor bytes to a shared pool, under a mutex | `load_descriptor_pool_cached` |
| Descriptor resolver | `descriptor_resolver.rs` | its pool; a map of message descriptors under a read-write lock | `from_descriptor_bytes`, `resolve` |
| Codec plan | `native/plan.rs` | the tables of the builder: plans, indices by name, enums; the finished plan does not change | `CodecPlan::build`, `field_index` |
| Native decoder | `python_native.rs` L547-1163 | per call: slots and waiting payloads of each nested message | `decode`, `decode_dict` |
| Native encoder | `python_native.rs` L1167-1636 | per call: one output buffer, the nesting depth | `encode` |
| Model binding | `python_native.rs` L442-542, `_native.py` | model class, enum classes and construct plan of each message type | `NativeCodec.new`, `bind_models`, `model_links`, `construct_info` |
| Wire format | `native/wire.rs` | a position in the input; the tail of the output buffer | readers, writers, `write_len_delimited` |
| Well-known types | `native/wkt.rs` | none | calendar and duration conversions |
| Conversion core | `core.rs` | none | compilation with a chain of file resolvers, JSON conversion, lookup by name |
| Standard protos | `standard_protos.rs` | a constant table | lookup by file name |
| Schema description | `describe.rs`, `schema.py` | per `Schema`: its description, cached views | description, `file_dependencies`, `codec` |
| Pydantic helpers | `_pydantic.py` | `_plans`: a cache of plans by model class | `_plan` (a fixed point over the models' graph), bytes to and from base64 |
| Bindings | `python.rs`, `node.rs`, `wasm.rs`, `lib.rs`, `__init__.py`, `compiler.py` | none of their own | conversion of arguments and errors |

How they interact. Every entry point gets descriptor bytes and asks the pool
cache for the decoded pool. The free functions drop the pool at the end of the
call; a `DescriptorResolver` keeps it, with a memo of the messages it looked up; a
`NativeCodec` keeps it and the plan that `CodecPlan::build` made of one root
message. The decoder and the encoder walk that plan, recursively for nested
messages and map entries, over the primitives of `wire.rs`; well-known types go
through `wkt.rs`. Binding attaches model classes to the message types of the plan.

What is hard about it, and what makes each part correct:

* **The pool cache** is shared by all threads, and the Python binding releases the
  GIL around the calls. A call locks twice and decodes in between. Correct:
  callers get a pool of their own bytes; racing callers share one pool; the LRU
  order and the bound hold; a failure leaves no trace; a slow decoding blocks
  nobody.
* **The resolver** reads under one guard and writes under another. Correct: the
  answer depends only on the bytes and the name, whatever was evicted or memoized;
  a name is looked up once; no thread waits for itself.
* **The plan builder** recurses through types that contain one another, growing the
  tables it has indices into. Correct: one plan for each reachable type and no
  other, every reference to the plan of its type, the number index exact on both
  sides of the dense limit, oneofs listing their members after the sort.
* **The decoder** has to merge: repeated occurrences of singular messages,
  interleaved with other fields and unset by other members of their oneof, packed
  and unpacked runs, map entries in any order, with a depth limit and in linear
  time. Correct: the result is that of the reference semantics of protobuf.
* **The reader of bytes** must stop on every input, stay inside it, and refuse
  what does not fit in 64 bits instead of losing it.
* **The encoder** writes length prefixes in place and shifts what it wrote.
  Correct: what it writes decodes to the same value, and it refuses what the decoder
  would refuse.
* **Field values** cross between Python's types and words of the wire: signs, widths,
  calendars, two roundings, and JSON values whose nesting both directions must
  count alike. Correct: what is written is read as the same value, exactly what is
  out of range is refused, and what other writers may send is read as the protobuf
  documentation says.
* **Binding** follows the annotations of models that may disagree with the messages or
  refer to themselves, and then assembles instances past pydantic's constructor.
  Correct: classes are bound as annotated, and an instance is the one `model_construct`
  would have built of the nested instances and enum members, whatever callers do with
  instances they got before.
* **`_plan`** computes two fixed points over cyclic models and keeps the plans in a dict
  that threads share without a lock. Correct: a plan has exactly the fields that lead
  to bytes, whoever stored it.

The hazards of `PROJECT.json` name the line at which each of these bites.

## Modules

| Module | Models | Role |
|---|---|---|
| `PoolMemo` | what the pool cache promises | abstract specification |
| `PoolCache` | `pool_cache.rs` and the `lru` crate as used there | extended by `DescriptorResolver`, implements `PoolMemo` |
| `MCPoolCache` | | instance |
| `DescriptorResolver` | `descriptor_resolver.rs`, the free functions of `core.rs` | composed with `PoolCache` |
| `MCDescriptorResolver` | | instance |
| `DescriptorProofs` | | theorems about the cache and the resolvers |
| `Subsequences` | | the elements of a sequence at some positions, in order |
| `CodecPlan` | `native/plan.rs` | state machine of the builder |
| `MCCodecPlan` | | instance |
| `CodecPlanProofs` | | theorems |
| `MessageValues` | the parts of plans, values and tokens that both directions use | extended by `Decode` and `Encode` |
| `Decode` | `python_native.rs`, decoding | state machine of the decoder |
| `DecodeProgress` | how much decoding there is to do | size of an input, measure of what is left, properties |
| `DecodeReference` | protobuf's merge semantics | recursive reference and properties |
| `MCDecode` | | instance |
| `DecodeProofs` | | theorems about the decoder |
| `Encode` | `python_native.rs`, encoding | state machine of the encoder |
| `RoundTrip` | both | composes `Encode` with `Decode`, and says what must come back |
| `MCRoundTrip` | | instance |
| `Wire` | `native/wire.rs`, readers | state machine of the reader, byte by byte |
| `WireGrammar` | | the wire format as a grammar, used by `Wire` and `LengthPrefix` |
| `MCWire` | | instance |
| `WireProofs` | | theorems about the reader, `Scalars` and `WktArithmetic` |
| `Varints` | `native/wire.rs`, the writers of varints and tags | extended by the next two |
| `NestedWriter` | what the encoder is to write | abstract specification |
| `LengthPrefix` | `write_len_delimited`, as `encode_field` nests it | implements `NestedWriter` |
| `MCLengthPrefix` | | instance |
| `LengthPrefixProofs` | | theorems |
| `Scalars` | `Scalar`, `read_plain_scalar`, `encode_scalar`, zigzag | operators |
| `WktArithmetic` | `native/wkt.rs` | operators |
| `FieldValues` | `read_wkt`, `encode_wkt` and what they call | state machine over both |
| `FieldReference` | | what it is for: instants, lengths, heights |
| `MCFieldValues` | | instance |
| `ModelBinding` | `bind_models` and the building of instances, `_native.py` | state machine |
| `MCModelBinding` | | instance |
| `ModelBindingProofs` | | theorems about binding |
| `PydanticPlan` | `_pydantic.py` | state machine of threads |
| `MCPydanticPlan` | | instance |
| `PydanticPlanProofs` | | theorems |
| `Lemmas` | | lemmas that several components' proofs need |

Names of definitions are those of the source where it has one (`field_index`,
`read_tag`, `clear_oneof` as `ClearOneof`). Definitions whose comment begins with
"Mutant of" are not used: each is the neighbour of a definition with a plausible
bug in it, and replaces it when one wants to see that a property notices.

### PoolCache

`load_descriptor_pool_cached` is cut where another thread can intervene: a thread
is at `lock_lookup`, `lookup`, `decode`, `lock_insert` or `insert`. `cache` is the
LRU list, `lock` the mutex, `made[p]` the bytes that the p-th `Arc` was decoded
from. What a critical section does under the mutex is one action: `Hit` (L23-25),
`Miss`, `LostRace` (the second lookup finds the key, L35-37), `Insert` (L38-39).
`Decode` and `DecodeError` run without the mutex. `Get` and `Put` say what the `lru`
crate does. Three history variables (`handed`, `evictions`, `touched`) exist for
the properties only.

`PoolMemo` is what callers may rely on: a memo table of bounded size where each
call takes effect at one instant, a remembered key gets the remembered pool, a new
key a pool that nobody had, and a key is forgotten only to make room. `PoolCache`
implements it (`RefinesMemo`), the instant being the `Hit`, `LostRace` or `Insert`.

### DescriptorResolver

Extends `PoolCache`: after a call of the pool cache returned, the thread makes a
resolver of the pool, or converts once and drops it (`ConvertOnce`, the free
functions of `core.rs` L294-329). `resolve` takes the read guard, looks, drops it,
takes the write guard, looks again, and only then searches the pool. An unknown
name is not memoized. What a search finds is a function of the bytes (`Messages`):
prost_reflect is not modelled.

### CodecPlan

The recursion of `Builder::message` is an explicit stack; a step plans one field
or completes one plan. `Reserve` pushes the placeholder and enters the index before
the fields, `Finish` sorts, assigns oneofs, builds the number index and overwrites
the placeholder. The dense table holds `u16` entries (`% U16`, `ABSENT`), and is
chosen below `DENSE_LIMIT`. Declared enum values and the kinds of scalars are
abstracted: no step looks at them.

### Decode, DecodeProgress and DecodeReference

`decode_message` and `read_map_entry` are frames of one stack. A frame has what is
left of its input, the slots, and the payloads that wait (`Pending`). A step handles
one field on the wire, or ends a frame: `DecodePending` and `FinishMessage` for a
message, `DefaultEntryValue` and `FinishEntry` for an entry. The input is a sequence
of tokens (a tag and what follows): `Wire` models how bytes become those. A token
that the readers refuse has the wire type "bad".

Kept: the depth limit at every way down (also the default value of an entry and
well-known types), strict and open enums, packed and unpacked runs, zero values,
the unsetting of oneof members, the order in which things are read and fail.
Abstracted: the scalar kinds are a varint, an enum and a string; map keys are
integers; the one well-known type is the pair of seconds and nanos that both
Timestamp and Duration have, with the check of its range; `FieldValues` has the
others. Dicts are built; `ModelBinding` has model instances. A payload is a sequence of whole tokens, so two malformed payloads
whose concatenation is well-formed are outside the model.

`DecodeProgress` counts the tokens of an input, with those in payloads (`Size`), and
what is left to do in a state (`WorkLeft`): four for a token, two for a payload that
waits, one for a call to return from and two for a default value to be made. `Size` is
a recursive function over the inputs of at most `MaxNesting` levels, a bound that any
finite set of inputs has and that no step looks at.

`DecodeReference` says what decoding should give, by recursion over the input and
without stack, slots or waiting: scalars from the last occurrence, repeated fields
concatenated, messages merged, the last member of a oneof kept.

### Encode and RoundTrip

`encode_message` and `encode_field` are frames of one stack, as in `Decode`. A frame
has the object, what is left of the plan's fields, the set members of oneofs, and,
inside a list or a map, the items that are left. A step looks at one field or writes
one item: a field that is absent or `None` is skipped, a second set member of a oneof
is refused, a packed list is one token, a zero is left out where the field has no
presence (L1235), and entries, messages and well-known types nest. Each way down is
one deeper, and the limit is that of the decoder. A dict as a map value is visited in
any order. What the encoder writes is a sequence of tokens; `LengthPrefix` models how
those become bytes.

`RoundTrip` runs the encoder on one object and the decoder on what it wrote. What must
come back is defined without either: `Encodable` says which objects are valid,
`Normal` what a valid object is after its absences are filled in, `Canonical` what
order and form the tokens have.

### Varints, NestedWriter and LengthPrefix

`write_len_delimited` takes the rest of the encoder as a closure. Here `frames` holds
the calls that wait for their closure, with the position of the byte that each
reserved, and all write into one `buf`. `Close` is what follows the closure: it puts
the length into the reserved byte, or shifts the payload and writes a longer prefix
(`Splice`, `Patch`). `Bits` and `Width` are 7 and 64 in the code; `Power` is the table
of the powers of two. `varint_len` is computed from the significant bits and
`write_varint` by shifting, as in the code: that they agree is a theorem.

`NestedWriter` keeps the payloads of the open fields apart, and writes a length when
it has the payload. The refinement mapping cuts `buf` at the reserved bytes: `Levels`.
`Fail` is an error in some closure; nothing is written after it. `Readable` says that what
is written so far of the innermost message is a message of `WireGrammar`, the grammar of
the reader.

### Wire and WireGrammar

`Wire` is the loop all decoders have: `read_tag`, then the field, here skipped as
`skip_field` does. A step of `read_varint` reads one byte. `Base` is 2^7 and
`Groups` 9 in the code. `exact` is a history variable, the value of the digits read
in unbounded arithmetic. The error "varint too long" (L24-26) cannot happen, since
L16 refuses a continued tenth byte before; the model keeps it in `Continue`.
`WireGrammar` describes the strings of bytes that are messages without a loop: a varint,
a body and a field are said of two positions, the bytes before the part and those up
to its end, and a message is a string whose positions fields lead through.
`ReadsTheGrammar` says that the reader ends without error exactly on those.

### Scalars, WktArithmetic, FieldValues and FieldReference

`Scalars` and `WktArithmetic` are pure operators, one for each function of
`wkt.rs`, the zigzag functions of `wire.rs`, `encode_scalar` and
`read_plain_scalar`. Words keep their width: `% W64` for a cast to `u64`, `AsSigned`
for one to a signed type, and Rust's `/` and `%` (`Quotient`, `Remainder`) are
told from `div_euclid` and `rem_euclid` (`\div`, `%`). The calendar is the real one,
with its 400-year eras and 10,000 years; the units of time and the widths are
constants. A float is a sign and a magnitude, of which a 32-bit float keeps the
high part; a text is an atom that may not be UTF-8.

`FieldValues` encodes an object as a field of some type, decodes what was written or
what another writer sent, and encodes the result again. The types are every scalar
type, as an optional field and in its wrapper, and every well-known type. A
payload is a sequence of tokens, as in `Decode`; struct entries, values and lists are
messages in it, each one level deeper, so the recursion of `encode_json_value` and
`read_json_value` with their checks of the depth is kept. A group is refused under any
number and in every message, as `read_tag` does (`wire.rs` L60). A `ListValue` and a
`FieldMask` are written from whatever `try_iter` takes: the keys of a dict, the
characters of a text, and bytes, of which the empty ones give an empty list and others
ints, which are JSON values but no paths. What is an iterable of another type is left
out.

`FieldReference` says what should come of it without that arithmetic, and has its own
definitions of what a loop over an object meets and of which payloads are messages: a day is the
number of days before it, counted from the first of year 1 by month lengths; an
instant and a length are numbers of microseconds; a JSON value has a height. A value
that is written and read is the same instant or value (`RoundTrips`); encoding
refuses exactly what is not of the type, out of range or too high
(`RefusesExactly`); foreign timestamps and durations are read exactly if in range,
rounded down and towards zero, with unknown fields skipped, and refused if they are out
of range or hold a group (`TimesReadExactly`); what was read can be written and
is the same again (`ReadsAgain`). One place where the two directions differ is part
of `ReadsAgain`: a struct entry without a value is read as `None` even where a value
would be too deep, so that `None` cannot be written there again.

### ModelBinding

`bind_models` is a loop over a worklist: `Follow` is one round, with all fields of the
message type it pops, `Inform` is what `construct_info` says of each bound class.
Then `decode_message` is one step, given what was read for each field: on one of three
paths it builds in order, reordered, or by pydantic's `model_construct`. An object in an
instance is known by where it was made, so that a default that is shared between
instances is one object, and `Change` is a caller that appends to a list it found in
an instance. A dict is a function from the names it has; where the order of its entries
matters the model keeps a sequence. `_target` looks through `Optional`, lists, tuples,
sets and dicts, and finds nothing in a union of several types, whose values stay dicts
and ints. `BuildsAsPydantic` compares with what `model_construct` makes of values of
the classes that `_target` finds; it says nothing of what validation would make of the
others, or of a list where a tuple or a set is declared. Its hypothesis `OneClassPerType` excludes annotations that give one message
type two classes: the codec then uses the one that the worklist met first, everywhere
(L483), which `BoundAsAnnotated` allows.

### PydanticPlan

Two or more threads convert models at once. A step is one statement that touches
`_plans`, or one round of the loops of `_plan`; between the test `model not in _plans`
and the assignment another thread may store the same plan. The lists of the code are
sets here: whatever their order, the plans must be the same. An annotation is a leaf
inside optional, list and dict types, as `_spec` and `_models_in` look through them.
`ByteHolders` and `ReachedFrom` define what the loops should find as least sets, with
a quantifier over all sets.

## Runs

| Run | Instance | Shows |
|---|---|---|
| `pool_cache` | 3 threads, 4 byte strings, one malformed, capacity 2, 5 calls | types and bound; own bytes; one pool per residence; LRU order; `PoolMemo` is implemented, where failures leave no trace |
| `resolver` | 2 threads, 2 byte strings with different messages and a malformed one, capacity 1, 2 loads, 3 resolves | answers depend on bytes and name; one successful lookup per name; `resolve` returns; a hung decoder blocks nobody |
| `codec_plan` | all schemas of three recursive message types over a set of bodies, numbers on both sides of a dense limit of 4 | one plan per type; exactly the reachable ones; plans follow descriptors; `field_index` exact; oneofs; the build ends |
| `decode` | a recursive message with 13 fields, all sequences of 2 of some 60 tokens and of 3 central ones, depth 2, strict and open enums | the result is the reference's; oneofs stay exclusive; the calls nest within the limit; every token is read once; every step leaves less to do |
| `decode_discarded` | finding | see below |
| `decode_two_values` | finding | see below |
| `round_trip` | all objects of a recursive message with 12 kinds of members, valid and invalid, nested to depth 2 and over it (101,519 states) | what is encoded decodes to the same value; exactly the invalid objects are refused; the output is canonical |
| `length_prefix` | digits of 2 bits, a varint, a string and a fixed value, fields begun behind up to 15 bytes (83,605 states) | `NestedWriter` is implemented; the grammar of the reader accepts what is written |
| `wire` | all strings of up to 5 of 10 bytes, 3 bits a digit, varints of 7 bits | the reader accepts exactly the grammar; no bit is lost; no step spins |
| `field_values` | each scalar type at the ends of its range; every day of 13 years; instants around the epoch and the ends of the calendar in 8 offsets; durations of both signs; JSON values nested over the limit; foreign payloads (103,594 states) | values round trip; exactly the invalid are refused; times are read exactly; what was read is written again |
| `pydantic_plan` | 2 threads, all graphs over four edges of three models, with bytes and without (178,687 states) | plans are exact, complete, and applied to the right models; calls return |
| `model_binding` | a recursive message and models that agree, disagree, reorder, default and extend, 2 instances (70,854 states) | classes as annotated; instances as `model_construct` builds them; the constructor returns |

Why the bounds are enough. In the pool cache three threads can be in different
critical sections and a decoding at once, and with capacity 2 and three good keys
a key can be inserted, evicted and decoded again while a slow caller decodes it: the
longest scenario of interest takes five calls. Threads are symmetric. Two
resolvers over a cache of one entry cover a resolver that outlives its cache entry.
Two threads are enough for a reader to race a writer of a guarded table. Three mutually recursive types give every shape of recursion: itself,
a cycle, a type met again while it is in progress and after it is complete. In
decoding, three occurrences suffice for merge, unset and merge again; depth 2
puts the limit within reach of nested payloads. In `wire` three bytes overflow, as
ten do in the code, and a three-byte varint can be a tag, a value or a length. In
`length_prefix` payloads of 4 bytes need a prefix of two bytes and those of 16 one of
three, so a payload may be shifted that holds a shifted payload itself. In
`field_values` the units of time are small (a day of 12 seconds of 3 microseconds) but
the calendar is not: the years are those where an era, a century and a leap year begin
and end, and the first and last of the range. Words of 16 and 30 bits keep what the
code relies on, that the wide word is a multiple of the narrow one. A limit of 4
nestings lets a struct in a list in a struct pass it at each of its levels. In
`pydantic_plan` three models make a cycle, a self reference and a chain, and two
threads race for every statement; the theorems have neither bound. In
`model_binding` a second instance is what a changed default would show in.

Fairness. The run `resolver` assumes that a thread in a critical section of the pool
cache leaves it (weak fairness of `Lookup`) and that a thread waiting for the mutex
gets it if it becomes free again and again (strong fairness of `Lock`): parking_lot's
mutex is eventually fair. The same holds for the guards of the resolver's `RwLock`.
Nothing is assumed of the decoder of a pool: `DecodersBlockNobody` says that a call
waiting for the mutex gets it though another call decodes for ever. The plan builder
and the constructor of a codec are sequential: weak fairness of their step. A thread
in a call of `_plan` is scheduled: weak fairness of its step, none of beginning a
call. That the decoder ends needs no fairness and is not stated as liveness:
`EachStepNearsTheEnd` and, for bytes, `EachStepReads` say that every step brings a
measure down that cannot fall for ever, and the check for deadlock that there is a
step until the result.

Deadlock is checked in all runs but `model_binding`, where `MAX_INSTANCES` stops the
callers; the other specifications have a `Terminated` (or `Done`) action for the
states in which the program has nothing more to do, or callers that may always call
again.

## Findings

* `decode_discarded`: the payload of a message member of a oneof waits until the
  end of the message, and `clear_oneof` drops it when another member is read. A
  malformed payload that is dropped is never looked at, and `decode` succeeds, where
  `docs/api/reference.md` L301 says that malformed bytes raise.
* `decode_two_values`: `read_map_entry` replaces a message value that occurs twice
  in one entry, where `docs/api/reference.md` L289 says that repeated singular messages
  are merged. This is why the inputs of the run `decode` have at most one value in
  an entry: with two the reference and the code differ, as this run shows.

## Proofs

All for every value of the constants that the named assumptions of the modules
allow. The assumptions are those of the code's inputs: a number or a oneof is declared
once in a message (`DistinctAssumption`, which prost_reflect enforces), a repeated field
or a map is in no oneof (`OneofAssumption`, protobuf's grammar), model classes are not
enum classes (`ClassAssumption`), the field plans of the message types refer to
message types (`ProgramAssumption`, what `CodecPlanProofs` shows of the builder), a model
has no two fields of one name (`NamesAssumption`: they come from a dict), Python's
`None` is no value, list or number (`NoneAssumption`), and the values of fixed wire types
are as long as these are, in fields whose numbers a tag can hold (`SizeAssumption`), and
the inputs of the decoder are tokens nested at most `MaxNesting` deep, for any number
`MaxNesting` (`InputsAssumption`).

`DescriptorProofs`, the cache. `Inv` is inductive: types; the mutex is held by the
thread in a critical section (`LockInv`); what each thread has in hand at each place
(`PhaseInv`: a pool it decoded was made from its bytes); a pool about to be inserted
was given to nobody and is in no other hand (`FreshInv`); entries have different
keys, belong to their keys and were handed out for them (`EntryInv`).
`PoolOfOwnBytes` and `FailuresNotCached` do not mention the lock, but a thread
outside its critical section must know what it decoded, which `PhaseInv` carries
over any number of steps of others. Given `Inv`, `RecencyInv` (the touched keys
are distinct, the cache is their prefix) and `ResidenceInv` (a key was handed as
many pools as it was evicted times, plus one if it is cached) are inductive: the
second needs `FreshInv` so that an insertion really adds a new pool. The capacity,
the number of threads and the keys are arbitrary.

`Memoizes` says that the cache implements `PoolMemo`. The mapping takes the list for
the function from its keys to their pools. `MemoStep` has one case for each action: a
lookup that misses, a decoding and the moves between are stutters; `Hit` and
`LostRace` are `Recall`; `Insert` is `Remember`, and its victim is the last entry, so
that exactly one key is forgotten if the list was full and none otherwise. That the
pool is nobody's is `FreshInv`. `CountInv`, that there are no more pools than calls, is
needed for the bound `MaxPools` of `PoolMemo` only.

The resolvers. `ResolversUseTheCache`: a behaviour of `DescriptorResolver` is one of
`PoolCache`, so that all of this holds below them. Over `Inv`, `ResolverInv` is
inductive: every resolver has the pool of its bytes, since a thread that returns from the
cache holds a pool of its own bytes whatever was evicted since, and a memo of its own
that holds only names of those bytes. `AnswersOwnBytes` and `SearchedOnce` follow.
For the latter the second look under the write guard is what counts, as the step
`Memoize` shows: without it the number of searches does not stay at one.

`CodecPlanProofs`. `Inv` adds to types and `OnePlanPerType`: the converse of the index
(`IndexInv`), that a call below another waits at the field whose type is being planned
(`CallsInv`), that whatever the fields planned so far refer to has an index, and that
finished types are closed (`FieldsInv`), and that only reachable types are planned. It
follows that exactly the reachable types are planned, for every schema. Two
theorems on `field_index` say that it finds every declared number at its field, in a
table of `u16` or in a map, and nothing else.

`PlansInv` says what is in the plans. The fields a call has planned so far are the first
ones its descriptor declares, with an index at which the tables have the declared type
(`StackMatches`), and every plan that is not a placeholder was completed from such a
list (`PlansComplete`). The tables grow while a call waits; what was planned
stays right because they only grow at the end (`MatchGrows`). Then three facts about the
completion, each of the sort and the filter alone: the sort by number is a permutation of
the fields in strict order, as no number is declared twice, and the real oneofs
are those declared, each once, in order (`Lemmas`, on `Nth` and `Subsequence`: the
k-th smallest of a finite set exists, is unique and grows with k, by induction over
the numbers below). From these: `PlansFollow`, `NumbersAreFound`, `MembersAreListed`.

`DecodeProofs`. `DecodeInv` is a conjunction over the stack: each frame has the fields
of its call; in each message the fields that are set or wait are exclusive; each
call is one level deeper than its caller, or a map entry on the level of its message;
the i-th frame is at a depth that counts the messages up to it (`Counted`). That
oneofs are exclusive in each frame is not inductive alone: a value that is being read in
a nested call is stored in the caller when the call ends, without another look at
the oneof. `Calls` therefore says of consecutive frames that what the caller has is
exclusive together with the field its callee will return to (`Wants`); for a
payload that waited, because it is no longer among those that wait but was
exclusive with what there was, and for an element of a list or a map by
`OneofAssumption`. `OneofsAreExclusive` and `RecursionIsBounded` follow, for
every plan and every input, well-formed or not.

`ProgressInv` adds what the stack has yet to read: what was read and what is unread, in
the data of every call and in the payloads that wait, are together no more than the
input. It is inductive over `DecodeInv` only with the fact that the fields that wait
are distinct (`Queue`): `Pend` puts a payload to every entry of its field, and with two
of them would count it twice. `Nearer` says of two
stacks that the second has less left to do and what it has yet to read is less by
what was read; there is one lemma for each way a step changes the stack (the innermost
call is replaced, calls another, returns, or all end), and each action is one of these
with the numbers of its frames. `EachStepIsNearer` and `TokensAreReadOnce` follow. Below
are lemmas on sums (`Total`: of a part, of two parts, of numbers that are no greater)
and on `Size`, which exists because the levels of nesting can be counted (`SizesExist`):
a sum over a sequence of sequences is no recursion that the library's theorems provide.

`WireProofs`. The reader has read fewer than `Weight[k]` values after k digits
(`DigitsInv`), so that a further digit fits below the next weight, and one bit below
twice the last. Hence nothing is shifted out of the u64, for every base and width.
That each step reads a byte or ends the reading needs that a length is not negative,
which the same invariant gives.

`ReaderReadsTheGrammar`: for every input the reader ends without an error only if the
grammar calls it a message, and with one only if it does not. `GrammarInv` says what is
known at each phase (`Reading`): the digits read since the varint began are
continued and have the value that was read; at a tag, the input is a message if and only if
fields lead from here to the end (`FieldsFrom`); behind a tag, the same of where the
tag begins. A step may then refuse the input only if no way of cutting it into
fields exists. That needs the grammar to be unambiguous: no varint is the beginning of
another (`OneVarint`), and behind a tag at most one body of its type begins (`OneBody`).
The grammar is recursive over positions, and the lemmas say what one more
digit or one more field changes (`ValueOfDigits`, `FieldsByField`).

The same module has the operators. For every day number and every date of the calendar,
in any year: `days_from_civil` and `civil_from_days` are inverse to each
other (`CivilInverse`, `DaysInverse`). A day of an era is split by century, by four
years and by year, and in each case the division of the code finds the year;
the last day of an era is the case of its own that the last term of L42 is for.
`DurationOfTimedelta` and `TimestampOfDatetime` say, for all units of time, that what
is written from a `timedelta` or a UTC `datetime` is read back as it was, although
one truncates and the other rounds down. `IntegersRoundTrip`: every integer in the range
of its type comes back from its word, for words of every even width, the wide one a
multiple of the narrow one; zigzag is one case. The facts about `\div` and `%` that
these need are in `Lemmas`.

`LengthPrefixProofs`. For digits and words of every size, every set of fields and
values, and buffers of every length:
`varint_len(v)` is the number of bytes of `write_varint(v)` (`VarintLengths`; setting
the lowest bit does not change the number of digits, since the base is even). Then the
bytes that the end of a call leaves are those before the reserved byte, the varint of
the length, and the payload (`InPlaceIs`, `InPlaceEffect`). `TypeOK` is inductive: it
says that the reserved bytes of the calls lie in order, so a shift is behind those of
all outer calls. `LevelsBelow` is the heart of the refinement: a step that leaves alone
what is before the reserved bytes of the first d calls leaves their payloads alone.
`Refinement` puts the actions together: the buffer implements `NestedWriter`.

`WritesMessages`: what is written can be read, whatever is nested in it. `MessageInv` is
about the payloads of the open calls: the innermost is a message of the grammar, unless it
is packed, and each one around it is a message followed by the tag of the field that
is being written in it (`Begun`). Closing a call adds one field to a message (`OneMoreField`).
This rests on two facts: the reader finds in the bytes of `write_varint` the varint of the
same value (`VarintAt`, since each shift takes off the lowest digit), and a field
of a message stays one when more is written behind it (`SameField`). As the refinement
has no positions that move, no shift of a payload enters this proof.

`ModelBindingProofs`. For all models, annotations and message types, recursive ones too.
`BindInv` says that a class that is bound is one some annotation says (`Said`), which
stays true because a class is never replaced and `Said` only grows with the bound
classes; and that a type that has a class is still pending, or all its fields were
followed (`Linked`): its enum fields have their classes, and the message types its
annotations name have some class. A bound class that is no model has no links and
nothing to follow. When nothing is pending every bound type is linked, so that a type
without a class is one nobody says (`AnnotationsBind`).

`BuildsLikePydantic` is about the instances. `BuildInv` adds four things to `BindInv`: a
class that is bound is the one that fits, if the annotations leave one choice (`SuitInv`);
what `construct_info` prepared for a message is what its class says (`InfoInv`); a
caller can only have changed objects made for some instance, and an object in an
instance that was not made for it is a default that cannot be changed (`OwnObjects`); and
the instances so far are right (`BuiltRight`). A new one is right because the three
paths build the same (`PathsAgree`): each is shown to give `BuiltAs`, which has for each field
of the model what was read last under its name, or the default. The dict that
`DecodedDict` fills in a loop is known by what a loop of stores leaves under a key
(`StoringStores`): the last value, if there was one. `OwnObjects` is why a
default is still unchanged when it is put into the new instance.

`PydanticPlanProofs`. For any models, annotations and number of threads. `IInv`
says of each thread that what it has reached is closed but for what is pending, that
what it has marked holds bytes (`Found`), and that once it stores it has marked
everything reachable that does (`AllFound`). The last is the fixed-point argument:
if a round finds nothing new, the marked models together with all models outside the
reachable ones are closed under "holds", so the least closed set is inside
(`FixedPoint`). `PlannedOnward`, that the successors of a planned model are planned or
about to be stored by some thread, is the inductive form of `NoneLeftOut`. The three
safety properties of the run follow.

`Lemmas` has what these proofs share. The induction theorems of the library take
a predicate as a parameter, which the provers cannot instantiate; here induction is about
sets of numbers instead: a set that has 0 and with each number the next one has all
(`UpTo`, `DownTo`). From these follows that recursive functions over numbers exist and
satisfy their equations (`Loop`, `LoopDown`), where positions lead by steps (`Leads`), and what
digits say (`HornerIs`).

Only model-checked, and why. Liveness (`EveryResolveReturns`, `DecodersBlockNobody`,
`BuildEnds`, `EveryCallReturns`, `BindingEnds`) needs ENABLED, which the prover does not
have. The reference of the decoder, what must come back from a round trip, the JSON
values and what is said of them are `RECURSIVE` operators over trees of data, with which
the prover does not work: `DecodesAsReference`, `RoundTrips`, `RefusesExactly`,
`CanonicalOutput`, `ReadsAgain`. `TimesReadExactly` is not
recursive, but it is about a machine that also reads JSON values, which are; the
arithmetic below it is proved in `WireProofs`.

## Plan

Every part of the inventory that keeps state or follows an algorithm of its own has
a module. What is left, in this order:

1. Theorems about the encoder: its frames nest within the limit, as those of the decoder
   do, and a second member of a oneof is never written.
2. `TimesReadExactly` for every second, nanosecond and unit of time, from the lemmas
   in `WireProofs`.
3. Field aliases in `ModelBinding` and `PydanticPlan` (`_input_key`).

## Not modelled

* Compilation (`core.rs` L101-176): it builds a fixed chain of file resolvers and leaves
  the search to `protox`. There is no state of its own, and the order is the order of
  statements.
* `Schema` (`describe.rs`, `schema.py`): a projection of immutable descriptors into JSON
  and dataclasses. `file_dependencies` is a recursive walk over an immutable value.
* The standard protos (`standard_protos.rs`): a constant table and a lookup by name.
* In `ModelBinding`: aliases of fields, and what an instance of a model is when the
  annotations give one message type two classes (see above).
* In `PydanticPlan`: the decoding of base64, pydantic itself, and annotations that change
  after a plan was made.

`prost`, `prost_reflect`, `serde_json` and pyo3 themselves; the text of JSON; error
texts; the bindings, which convert arguments and call the core; benchmarks, fuzz
targets, examples, packaging. The decoder and the encoder are modelled as one thread:
they hold the GIL during a call, and their state is local to it.
