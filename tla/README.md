# hyperpb: models, checks and proofs

TLA+ modules for the core of hyperpb, a table-driven Protobuf parser for Go:
the compiler that makes the tables, the arena every parsed message lives on, the
parser virtual machine, the thunks that store fields and the getters that read
them, the hash table behind maps and tag lookup, the shared state that concurrent
parses go through, and the profile recorder. TLC checks them on small instances;
TLAPS proves, for every value of their constants, the safety properties of the arena,
of the parser, of the shared state, of the hash table and of the recorder, that the
hash table implements a map, what the compiler guarantees about components, layout and
required fields, that the lists of repeated fields fit and stay where they are, and
what a record that fails can change in what getters return: outside oneofs and maps of
messages it adds at most an empty message or an optional field's zero.

Paths below are relative to the repository root (`internal/...`).

## 1. The system

A `MessageType` is compiled once into parser tables (`internal/tdp/compiler`).
`Message.Unmarshal` calls `vm.Run`, which locks the message's `Shared`, takes a
parser state and a stack from pools, and runs `loop`: read a tag, find the field
parser (by a 128-entry LUT, by prediction along `NextOk`/`NextErr`, or in a Swiss
table), call its thunk, and push or pop a frame when a submessage or a group
begins or ends. Thunks store into messages allocated on the arena; strings and
unknown fields are ranges of the input.

| component | state | operations | who uses it |
|---|---|---|---|
| arena (`internal/arena`) | `Next`, `End`, `Cap`, the block table | `Alloc`, `Reserve`, `Grow`, `Free` | thunks, `Shared.New`, slices, tables |
| arena slices (`internal/arena/slice`) | pointer, length, capacity, by value | `Of`, `Make`, `Append`, `AppendOne`, `Grow` (writes the arena's `Next`) | thunks, unknown fields |
| parser loop (`internal/tdp/vm`) | registers `P1`, `P2`; `p3` with stack, options and error | the labels of `loop`, `handleUnknown`, `skipRecord`, `push`, `pop` | `Run` |
| thunks (`internal/tdp/thunks`) | fields of the current message: slots, hasbits, which words, lists, tables | one thunk and one getter per archetype, mostly generated stencils | the loop and reflection, through the tables |
| `Shared` (`internal/tdp/dynamic/shared.go`) | lock, arena, library, source, cold table | `New`, `Free`; `Run` locks it | all messages of one tree, several goroutines |
| pools (`internal/xsync/pool.go`) | idle `p3`s and stacks | `Get`, `Put` | `Run`, process-wide |
| Swiss table (`internal/swiss`) | control bytes, entries | insert, lookup, grow | tag tables, map fields |
| compiler, linker, SCC (`internal/tdp/compiler`, `internal/scc`) | IR, symbols, relocations | sort components, layout, schedule, codegen, link | `CompileMessageDescriptor` |
| profile recorder (`internal/tdp/profile`, `internal/stats`) | per-field metrics | `Record`, `ForField` | parses on several goroutines; the compiler |

What is hard here, and what makes each part correct:

* **Arena.** Four pieces of code move `Next` (Alloc, the open-coded
  `AllocMessage`, `Reserve` through `Grow`, and the in-place realloc of
  `Slice.Grow`). Correct means: regions never overlap, memory in use stays
  reachable for the garbage collector, memory handed out is zero (also after
  `Free` recycled a block), slices read back what was appended.
* **Parser.** No bounds checks on the hot path, bounded read-ahead, frames that
  are elided, a slow path that rewinds. Correct means: it accepts exactly the
  inputs the wire format gives a meaning to, builds that meaning, never leaves
  its stack, never writes a message through another type's tables, and ends.
* **Thunks and getters.** Some 300 archetypes pick one of some 150 generated
  functions each, by hand; lists are borrowed from the input or on the arena,
  inline or spilled; oneof members share a slot. Correct means: a getter returns
  what the records mean, whatever their order and form; nothing is written past a
  capacity or into the input; messages keep their addresses; a failing record
  leaves the rest readable, although thunks store a message before they know that it
  can be parsed.
* **Compiler.** Recursive message graphs, offsets computed in several passes, tables
  that count positions the linker fixes later. Correct means: components come after
  what they contain, every tag finds its own parser in the linked program, fields
  share no storage, and required fields are looked for where they can be.
* **Recorder.** No lock, only compare-and-swap loops and a concurrent map. Correct
  means: no record is lost, and every call returns.
* **Swiss table.** Probing, byte-parallel matching with false hits, copied control
  bytes, growth under a new seed. Correct means: a key has the value of its last
  entry, readers agree, and every search ends.
* **Shared and Run.** One lock, an unlocked check before it, and process-wide
  pools whose objects carry state from one parse to the next. Correct means:
  concurrent calls do not see each other's memory, source, error or stack, and
  every call returns.

`PROJECT.json` lists the components with what is left out of each, and the
hazards with the line where each bites.

## 2. Modules

| module | models | role |
|---|---|---|
| `Arena` | `internal/arena`, `internal/arena/slice`, `vm.AllocMessage` | component |
| `ArenaProofs` | | theorems about `Arena` |
| `Parser` | `internal/tdp/vm`, singular and repeated-message thunks | component |
| `WireFormat` | the Protobuf wire format, as a recursive decoder | reference definition, independent of the parser |
| `ParserCheck` | | the parser compared with `WireFormat` |
| `ParserProofs` | | theorems about `Parser` |
| `Stencils` | the generated stencils of `internal/tdp/thunks` and `internal/swiss`, map items, Go types | data |
| `Archetypes` | the archetype tables and `SelectArchetype` of `internal/tdp/thunks` | data |
| `Fields` | what thunks, getters and containers do to a message | component |
| `FieldsProofs` | | theorems about `Fields` |
| `Scc` | `internal/scc` | component, embedded in `Compiler` |
| `Compiler` | `internal/tdp/compiler`, `internal/tdp/compiler/linker` | component, composes `Scc` |
| `CompilerProofs` | | theorems about `Scc` and `Compiler` |
| `Recorder` | `internal/tdp/profile`, `internal/stats`, the atomics and the map of `internal/xsync` | component, concurrent |
| `RecorderProofs` | | theorems about `Recorder` |
| `MapField` | what a map field promises | abstract specification |
| `Swiss` | `internal/swiss`, the storing half of the map thunks | component, implements `MapField` |
| `Probing` | | lemmas independent of the models: the probe sequence, remainders, least elements, induction over a set of numbers, existence of recursive functions |
| `SwissProofs` | | theorems about `Swiss`, and that it implements `MapField` |
| `Shared` | `dynamic.Shared`, `vm.Run`'s prologue and epilogue, the pools | component, concurrent |
| `SharedProofs` | | theorems about `Shared` |
| `MCArena`, `MCParser`, `MCFields`, `MCCompiler`, `MCRecorder`, `MCSwiss`, `MCShared` | | constants, schemas, inputs and symmetry for TLC |

Definitions named "Mutant of X" are wrong variants of X, written as a plausible
bug in the code would make it; replacing X by one must break the property that
`PROJECT.json` names for it. They are not part of any specification.

### Arena

An address is a pair of a block and an offset. `blocks`, `cur`/`next`, `end` and
`cap` are `Arena.blocks`, `Next`, `End` and `Cap`; `nalloc` counts blocks taken
from the Go heap; `mem` holds the content of every cell, so that "zeroed" and
"reads back" are about memory and not about bookkeeping; `slices` are the slice
headers clients hold. `live` is history: the regions handed out since the last
`Free`. Actions: `Alloc`, `AllocMessage`, `Reserve`, `Free`, `FreeEmpty` (the
panic of `Free` on an arena without blocks), `Of`, and `SliceAppend`, which is
`Append` with the whole of `Slice.Grow` inside. `KeepAlive` only adds a
reference for the garbage collector and is left out. Growing never shrinks, so
the shrinking branch of `Slice.Grow` (line 181) has no counterpart. `Slice.Grow` converts
the new size in bytes to `uint32` (`slice.go:160` and `196`), so a list of 4 GiB would get
a wrong capacity; `WidthAssumption` (`MaxLog < 32`) keeps the model, and what is proved of
it, below that size.

### Parser

One behaviour is one parse. `pc` is the label of `loop` that runs next (or the
function it calls out to), `p1`, `p2`, `stack` and `err` are the registers and
`p3`. The loops of `field`, of `skipRecord` (recursive in the code: `skips` is
its call stack) and of `missedField` are one step per iteration. Input bytes are
numbers. Memory is the input followed by `slack`, what
`RelocatePageBoundary` guarantees to be readable; a read beyond it is the state
`fault`. Abstractions:

* tags are kept decoded, since `tdp.Tag` encodes them one to one; a tag has
  `TagBits` bits (32 in the code, 10 in the runs, so that overflow happens on
  short inputs);
* values that need five bytes or more are one value `Huge`;
* `TagLUT` and the Swiss table `Tags` are one function `ByTag`; the schedule of
  the compiler is the constant `NextOk`;
* `int32` and the like stand for all varint fields, `fixed32` for all fixed ones;
  the other kinds, presence and the getters are in `Fields`;
* a message is its field values and unknown ranges; hot, cold, inline and
  spilled storage are not told apart;
* map entries (`PushMapEntry`, `ParseMapEntry`) are left out; `Fields` has them.

### Stencils, Archetypes and Fields

`Fields` takes over where `Parser` stops: the records of a message are values, and
the question is what storing and reading them back makes of them. A behaviour is
one message with one field, or with two members of one oneof, and a parse that
reads records until one fails. `msg` is the message: a slot per field, the
hasbits, the which word. `heap` holds submessages by address, `frame` the
submessage being parsed.

A record fails where the code can call `Fail`: before anything is stored (a malformed
value or part of a map entry, a length that is too large), or after it. Thunks for
messages, groups, their lists and maps store the new message and then push it
(`singular.go:345`, `repeated_message.go:39`, `map.go:1044`), and `push` fails when the
stack is full (`vm.go:451`). Whether it is depends on the messages around this one and on
which frames were elided, so `PushFails` allows both whenever a frame may be needed. A
submessage fails at any of its records, before or after that record stored something, or
at the end of a group (`ChildFails`).

Memory holds bit patterns of the width of their Go type: a store into a wider slot
leaves the high bits, a load through another type sees what is there, and following
bits that are no pointer is the status `astray`. The status `over` is a map entry from
whose end the parser read on (`CutTag`): what it found there depends on the records behind
the entry, which are not laid out in memory here, so the run takes some bytes for it and
`ReadsMeaning` does not judge the result.

What a thunk or a getter does is given once per generic function, as an action or
a branch of `Get`. Which function, for which types, is data. A stencil is the body
of a generic function with the type parameters replaced and some calls redirected
to other stencils, as its `hyperpb:stencil` directive says; comparing the bodies
of the generated functions with the generic ones shows no other difference.
`Stencils` therefore has one definition per generated function, with those two
choices, and `Archetypes` has one per row of the archetype tables, with the getter
and the thunk of each wire type. A wrong type, item or getter shows in
`ReadsMeaning` when it changes what some record of the run is read back as.

`ReadsMeaning` compares every getter with `Meaning`, which is written from what
protobuf says (last one wins, submessages merge, lists concatenate, the last entry
of a key decides, a proto3 zero is absent) in terms of integers and not of bits.
Abstractions: fields of other numbers and the bytes of records are `Parser`'s; a
table is a list of pairs (`Swiss` shows that the real one behaves so); a string is
valid UTF-8 or not; growing a list is its capacity, addresses are `Arena`'s. Capacities
are numbers, which is exact below 4 GiB (see `Arena`).

### Scc and Compiler

`Scc` is Tarjan's algorithm with the recursion as a stack of calls, one step per
edge and per return; dependencies are collected as the code collects them.
`Compiler` runs it to the end (`SortComponents`), then handles one component per
step: `newSCCInfo`, `doLayout`, `doSchedule` and `codegen` for its members, then
links, then fills in required fields. A symbol is its name, size, alignment and
relocations; the linker places symbols in order and resolves a relocation to an
address or to an offset. `Found` is how the parser's loop looks up a tag, read from
the linked program: through addresses, not names, so that the table entries, which
count from the end of a `TypeParser`, and the order of the symbols must agree.
Archetypes are size, alignment, bits and parsers; a profile is "hot or not".

### Recorder

A goroutine's job is the sequence of messages it records, each as the fields in the
order of the walk. Every atomic operation is a step: the load and the store of
`LoadOrStore`, the load and the swap of each CAS loop, the addition to `n`, the
plain write of the sample. `history` remembers what was recorded. `ForField` is read
once all goroutines have returned. `SamplesExact` is about the counters and the samples
that `ForField` is computed from, `ProfileComplete` also about its result.

### Swiss

A behaviour is one map field reading its entries, or one call of `New`. `table`
is the pointer in the message, a record of `len`, `soft`, `hard`, `seed` and the
control bytes, keys and values behind the header; memory starts zeroed, so unused
slots hold the zero key. Control words, the borrow in the byte-parallel match,
probing, the copied control bytes, the load factor and rehashing are modelled as
they are, with the word size and the ratio of the source. The hash function is a
constant, one number per seed and key; keys are raw, and `Content` is what
`extract` finds for them, so that two ranges of the input can hold the same key.
Storing one entry is one action, `ParseEntry`, or `GrowAndParseEntry` when `Insert`
returns nil; `NewTable` and `NewEntry` are `New` and its loop. `status` records a
write through nil or a search without end. `Layout`'s panic above `maxEntries`, the
metrics and dumps are left out.

`MapField` is the promise: the last entry of a key decides. `Implements` maps it to
what `All` yields; `ReadersAgree` says that `Lookup` and `Len` see the same map.

### Shared

Several goroutines run `New`, `Unmarshal` and `Free`. Each call is split at
every point where another goroutine can interfere: the unlocked checks, the
lock, each pool operation, the read and the write of the arena's bump pointer,
the deferred function, the unlock. The parser loop is abstracted to what it does
to shared state: it allocates, and ends in success, in a failure with a code, or
in another panic. `RunInUse` is the panic of the in-use check. `Free` requires
that its caller is alone, as its documentation does. `SerialUnmarshal` states
the client assumption that no two goroutines unmarshal into one `Shared` at the
same time. `Collect` is the garbage collector emptying `sync.Pool`, which it may do at any
time, also when there is nothing in it.

## 3. Runs

| run | instance | what it shows |
|---|---|---|
| `arena` | blocks of 4 to 16 cells, at most 3, requests of 3 and 8, two slices of 3-cell elements | all arena invariants and that capacity only doubles |
| `parser_nest` | all strings of up to 5 bytes over 7 tags and values of a recursive schema with groups, and long varints; depth 3; 39 248 initial states; unknown fields discarded | the parser's inductive invariant (types, stack, messages), agreement with the wire format, termination |
| `parser_fields` | all strings of up to 4 and 5 bytes over scalar and unknown-field alphabets, and longer hand-picked ones; depth 2; unknown fields kept | agreement with the wire format, the order of unknown ranges and the invariant behind it |
| `fields` | every kind and cardinality, every pair of key and value kinds, two-member oneofs, with and without preload and UTF-8 checks; two to five records each; bytes of 2 bits, 32-bit integers of 4, 64-bit ones of 8; 964 629 states | getters return what records mean, lists fit, addresses are stable, a failure adds at most something empty |
| `compiler` | all graphs of three messages with either order of fields and a required field anywhere; all messages of one or four fields of six archetypes, with and without a oneof, an extension, and hot fields; words of 2 hasbits, a LUT that ends at 3 | components, dispatch in the linked program, layout, required fields of non-recursive messages, and the inductive invariants of the sort and of the compiler |
| `recorder` | three goroutines on two fields, counts that wrap a ring of 3, a message of a foreign library | no record is lost, and the recorder's inductive invariant; `Record` returns |
| `swiss` | 517 inputs of up to 16 entries: 9 entries with repeats at every choice of at most two positions, 16 entries from two preloads, and `New` at the sizes around each capacity; three hashes, chosen anew at each growth | the table's inductive invariant, the table implements the abstract map, readers agree, searches end |
| `shared_safe` | 2 goroutines, 2 Shareds, 2 libraries, 2 inputs, 2 depths, 2 pooled objects, 2 allocations per Shared | isolation of concurrent calls and the inductive invariant behind it |
| `shared_live` | 2 goroutines on one Shared, 2 libraries, without the client assumption | every call returns |

The bounds are small but reach the cases that matter: the arena grows, is freed
and reused, and slices are extended in place and moved; the stack reaches its
limit and frames are elided below messages and inside groups; tags turn up as
values, lengths run over, groups stay open and varints are cut at every byte;
both pools are reused at another depth after failures and panics. In
`shared_safe` two goroutines suffice because the state they share is a lock, a
bump pointer and two pools; a third adds only more waiting.

In `fields` the three widths are different and each value set has members that fit
one byte, that need the middle width and that are cut by it, over-long varints
included, so a mistaken type shows. `MinSize = 4` and `Stride = 3` make lists grow
and inline repeated messages spill at the second element; three records are enough
for borrow, spill and append in any order. A map entry has its parts in order, in
reverse, missing, repeated or unknown, and at most `MaxParts = 7` of them. In
`compiler`, `WordBits = 2` and `LutAbsent = 3` put the limits (a full word of
hasbits, a table index equal to the absent mark) within reach of four fields, and
three messages are enough for a component of two with a third before, behind or
between them. In `recorder`, three goroutines let two lose one CAS to a third.

`AcceptedIsMeaning` compares the message built with the decoder of `WireFormat`
on every accepted input, `RejectedIsInvalid` the other way round. Both decoders
were written from different descriptions: `Parser` from the code, `WireFormat`
from the wire format. `WireFormat` has one parameter, `lax`, for two leniencies
of the code: an open group may end with the buffer right after an unknown field,
and tags inside unknown groups may exceed `TagBits` bits. Accepted inputs must
have a meaning under `lax`; rejected inputs must have none without it.

### Where the code and its documentation differ

Each of these runs checks one statement of a comment or a doc and TLC finds it
violated; `PROJECT.json` quotes the line.

| run | statement | what happens |
|---|---|---|
| `parser_open_group` | a group cut short is an error | accepted when its last field is unknown |
| `oneof_union` | the which word says which member is active | a message member read after another one takes the other's bits for a pointer to the message to merge into |
| `compiler_required` | a component's `Deps` are its dependencies, and `hasRequired` says whether a required field is below it | `deps` is made anew for each member, so only the last member's dependencies count |

In the passing runs these cases are left out: `WireFormat` is lax about the first,
message members of a oneof are tried next to a member that never appears, and
`RequiredExact` is about messages that contain no recursive one.

Met while modelling and kept in the models as the code has it, without a run:

* `Free` of an arena that never allocated slices an empty table with bound -1
  (`arena.go:146`; "A zero Arena is empty and ready to use", `arena.go:62`). Action
  `FreeEmpty`.
* A tag that is the last byte of the input makes the parser step over the end and go
  on with what follows (`run.go:163`, `varint.go:50`; "at most nine bytes",
  `memory.go:29`). Action `NumberFaults` is where that ends. It never returns success
  then: theorem `AcceptsWholeInput`.
* `missedField` clears scratch before the thunk runs (`run.go:313`), although thunks
  may rely on it (`run.go:298`); a group found there gets a wrong end tag.
* With `WithMaxDecodeMisses(0)` the counter passes zero and the search along
  `NextErr` ends only if it comes to the tag (`run.go:279`). The runs have at least 2, and `TableAssumption` of `Compiler`, on
  which the theorem about dispatch rests, requires 1.
* The in-use check of `Run` is made before the lock is taken (`run.go:72`), so two
  parses on one `Shared` can both pass. `SerialUnmarshal` excludes it.
* A map entry with a message value but no value bytes is stored with the value's
  length taken from the whole entry (`map.go:974`), and the value's tag is computed
  with field number 1 (`map.go:962`), so that the fast path is not taken, or, with
  string keys, a repeated key is taken for the value. `KeyOnly` and `KeyTwice` in
  `Fields`; `fields` leaves such entries out.
* The `NextOk` of a map entry's field parser is linked as an offset where an address
  is read (`compile.go:440`). `ProgramDispatches` leaves it out; `ValueFirst` in
  `Fields` is its effect on an entry.
* A repeated bool keeps the low byte of its varint, so 256 is read as false.
* After the first extension `compile` stops looking for fields that contain required
  ones (`compile.go:161`), so messages in extensions are not looked into.
* `sf.hot = temp.Get() >= 0` holds for every field (`ir.go:163`), so the cold part of
  a message is never used.
* The recorder adds 1 to both parts of a field's mean only when the field is present,
  so `DecodeProbability` is 1 for every field that was ever seen.
* A failing oneof member is active over the bits of the previous one, which
  `FailureKeepsFields` leaves out.
* A message whose record fails because the stack is full is stored before that
  (`singular.go:348`, `repeated_message.go:39`, `map.go:1047`): a message field becomes
  present, a list gets one more message, and in a map an empty message replaces the
  one the key had. `FailureKeepsFields` allows this (`AddsEmpty`) and nothing else.
* A varint checks the end of the input only from its second byte on (`varint.go:50`). A
  map entry that ends with the tag of a varint key or value takes its first byte from
  behind the entry (`map.go:867`, `879` and the slow path), stores it, and the parse may
  succeed: `0A 01 08 05` in a map of integers becomes {5: 0}. `CutTag` in `Fields`.
* `handleUnknown` relies on a nonzero tag when it scans back (`run.go:418`) but a zero
  tag is only refused afterwards. `ctrl.matches` is said to report equal bytes only
  (`ctrl.go:85`) but also reports a byte that differs in its lowest bit above a match,
  which `ComparesLiveKeys` shows to be harmless. Messages that end where their parent
  ends take no frame, so `WithMaxDepth` does not bound such nesting.

## 4. Fairness

* `Parser`: weak fairness of `Next`. `loop` runs on the caller's goroutine and
  nothing in it waits. `Termination` needs it and nothing else.
* `Shared`: weak fairness of every goroutine's steps inside a call (the Go
  scheduler runs runnable goroutines) and strong fairness of taking the lock
  (`sync.Mutex` hands itself to a waiter after 1 ms of starvation). Starting
  calls is not fair: no client has to call. Weak fairness of `Step` as a whole
  does not force the loop to stop allocating, but `MaxAddr` does; this stands for
  `Termination` of the parser.

* `Recorder`: weak fairness of every goroutine. `Record` never waits, and a failed
  CAS means that another goroutine got on, of which each has finitely much to do.

Deadlock is checked in the `Shared` runs, but cannot be found there, because the garbage
collector never stops; goroutines that wait for each other, or for a lock nobody releases,
violate `CallsReturn`. The other systems may stop: an arena whose
bounded heap is used up, a parse that is over, an input whose entries are all
stored, a program that is linked, a recorder with nothing left to record.

## 5. Proofs

`ArenaProofs` proves `Spec => []ArenaInv` from the assumptions `ArenaAssumption`
(the constants are numbers of the right sign), `PowerAssumption` (powers of two
increase) and `AlignAssumption` (blocks are aligned). `LiveDisjoint` is not
inductive: a new region lies between `Next` and `End`, so one must know that live
regions of the current block lie below `Next` (`LiveBelowNext`), that the current
block is the last of the table and growth goes past the end of the table
(`LastBlockIsCurrent`), so that a new block is really new (`TableFromHeap`).
`SlicesReadBack` needs that a slice with capacity owns a live region of exactly
the size `Slice.Grow` will recompute from its capacity (`SlicesOwnRegions`):
otherwise the in-place realloc would move `Next` over its neighbour.
`FreeSpaceIsZero` needs that blocks not yet obtained are zero (`HeapIsZero`). From
the invariant follow `NoOverlap`, `BlocksStayReachable`, `AllocReturnsZero`,
`SlicesKeepElements`, `CurrentBlockIsLast`, and the action property
`CapacityNeverShrinks`.

`ParserProofs` proves `Spec => []ParserInv` for every set of inputs and slacks,
schema, prediction and limit. `AcceptedConsumesAll` and `StackInBounds` are not
inductive alone: that the parse ends exactly at the end of the input depends on
what the bottom frame is resumed with. `BottomIsRoot` says it is the root's end
and no group; it survives elided frames because a frame is only elided when no
group is open and the ends coincide. `WellTyped` needs the shape of messages
(`WellFormed`), that thunks run with a field of the current type
(`ThunkInTable`) and what `Run` starts from (`FreshStart`). The theorems
`TypeCorrect`, `StackSafe`, `RootAtBottom`, `AcceptsWholeInput` and
`TablesMatchMessages` follow.

It also proves that every message's unknown ranges are in input order and disjoint
(`UnknownsOrdered`). The difficulty is that `handleUnknown` is given only a
tag's value and where the tag ended, and scans back for its first byte. If it went
too far, the record would overlap the one before. `UnknownsInv` adds
`RecordIsAhead`: the place it finds is not before the end of the last range. The
lemma behind it is that the way back, over at most the padding and then as many
bytes as the value needs, stays in the tag (`RewindStaysInTag`). For a zero
tag it may not, but `skipRecord` refuses that tag before anything is recorded.

`SharedProofs` proves `Spec => []SharedInv` for any number of goroutines, Shareds,
libraries and pooled objects, from `SharedAssumption` and `NoneIsNoMessage` (the mark
for "nothing" is none of the values). Everything rests on what a goroutine holds at
each place in the code: the lock of its Shared (`LockIsHeld`) and its pooled objects,
which are neither idle nor another's (`CallsOwnObjects`, `ObjectsHaveOneUser`).
`AddressesDistinct` needs that a bump pointer that was read is still current when it
is written (`HandedBelowNext`); `LibraryIsOwn` that the library was compared under
the lock (`LibraryIsChecked`); `ErrorIsOwn` and `StackIsOwn` that an idle `p3`
carries no error (`P3IsClean`), that the deferred function finds its own call's
failure (`OutcomeIsRecorded`) and that the stack is as deep as asked
(`StackIsDeep`). `ReadsOwnInput` holds only if clients unmarshal into one Shared one
at a time, and so is the theorem `OwnInputRead`: the unlocked check of `Run` proves
nothing without it (`RunIsAlone`).

`Probing` and `SwissProofs` are about tables of every size the source allows, any
hash function, any seeds and any entries; the assumptions are `SwissAssumption`
(hashes are numbers, inputs have at most `maxEntries` entries) and `PowerAssumption`
(powers of two up to the largest table). `TableInv` says of a table that its copied
control bytes agree with the originals (`Mirrored`), that a live slot has its key's
tag (`Tagged`), that `len` counts the live slots (`Counted`), that keys are distinct
(`KeysDistinct`), and that a search for a live slot's key reaches it before it can
end (`KeysReachable`). That a search ends has two halves. The triangular offsets
reach every slot because the number of words is a power of two (`ProbesCover`: if two
of them met, it would divide the product of an odd number and one too small), and a slot is always left empty because the load factor keeps `len`
below the size. Growth copies the slots one by one. That the copy has exactly the
old entries is shown for the slots copied so far, by taking the least number of
copied slots for which it would fail. `SwissImplements` is the refinement: a step
that stores an entry, with or without growth or in `New`, is a `ReadEntry` of
`MapField`; allocating `New`'s empty table is a stuttering step. `SearchTerminates`, `LiveKeysCompared`, `ReadersAlwaysAgree` and
`SwissTypes` follow from the invariant too.

`RecorderProofs` proves `Spec => []RecorderInv` for any number of goroutines, any jobs
and any size of the ring, from `JobsAssumption` (goroutines are finitely many, counts
are numbers, `NoCount` is no number) and `RingAssumption`. It is a proof by counting.
`NothingLost` says of each counter of a field that it, and the goroutines that have a
record of the field but have not added it yet, make up the records taken up. Every
step moves one goroutine by one label, so both sides change by the same amount. That
it adds to the right metrics needs `MetricsAreOwn` and `AtRecord`. `SlotsAreFilled`
does the same for the ring. `w` is the number of slots taken, modulo its size; a
taken slot that no goroutine holds has a recorded count; and until the ring wraps
holders have different slots, so that for each value the filled slots and the records
on their way add up to the records with that value. When all goroutines have returned
nothing is on its way, which is `ProfileIsExact`. `ProfileIsComplete` goes on to what
`ForField` returns: two collections with the same number of samples of every value have
the same number of samples at or below every value (by `SetInduction` over the values),
and hence the same k-th smallest sample and the same median.

`CompilerProofs` proves four layers. The first is Tarjan's algorithm on any graph.
The proof follows the stack of calls: each call owns a segment of the component stack;
its node reaches everything above it on the stack, and everything below the end of its
segment reaches the node (`StackConnected`); `low` is the index of a node on the stack
that it reaches (`LowReached`), and no edge that the segment is done with goes to a
node on the stack below `low` (`LowCovers`). Nodes that were taken off the stack have
edges to such nodes only, in their own or in an earlier component (`ComponentsClosed`).
Together (`SccInv`) they give that what `Return` cuts off is one component, the whole
of it, and that it comes after what it contains: `SccCorrect`.

The second layer connects the two modules. The loop of `compile` takes components in
the order of the sort, so the invariant of `Scc` carries over to the sort inside
`Compiler` (`CompileComponentsSorted`). `CompilerInv` says how far the loop has come and, for the components done, that
`hasRequired` is right for every message that contains no recursive one (`InfoExact`):
such a message is alone in its component, whose dependencies are then its own.
`RequiredIsExact` is `RequiredExact` from there, since a message may lack a required
field just when it has one or contains a message that may (`MayLackStep`).

The third is `doLayout`. What the code computes in loops are recursive functions here,
and `RecursiveFunction` with `SetInduction` gives that they exist and what their values
are: the order of the slots, the offset of each, the bits and which words counted so
far, the largest alignment. Slots start at the end of the one before, rounded up; a
oneof's slot is as large as its largest member, because its head collects the sizes of
the run of members behind it. So `LayoutIsDisjoint`: fields share storage only as
members of one oneof, and hasbits and which words are not shared at all. The
assumptions are `WordAssumption` (a word of hasbits has at least one bit) and `InputsAssumption`: what the compiler is given are descriptors of the
types it has archetypes for, and the members of a oneof follow one another. `protoc`
refuses a file in which they do not, and without it the run of members behind a head
would end early.

The fourth is the linked program. `CompilerInv` carries `Generated`: every symbol belongs
to a message that was compiled, no two have one name, and the symbols of a message
stand next to each other in the order in which `codegen` makes them. From there:

* the parsers of a message have different tags (`ParsersFacts`), through the
  concatenation of `AllParsers` and the sort into hot and cold ones;
* the linker puts the symbols at increasing addresses, so an address has at most one,
  and symbols whose size is a multiple of 8 follow each other without a gap
  (`PlaceFacts`, `LinkFacts`): field parser `i` is where `TypeParser.Fields` computes it
  (`LinkedFacts`);
* hence each relocation leads to the symbol it names (`FollowFacts`), `NextOk` and
  `NextErr` to a field parser of the same message (`FollowStays`), and an entry of the
  table that is not the absent mark is the index of the parser with that tag, although
  the largest index is written as that mark (`LutFacts`);
* walking along `NextErr`, however many tries there are, stays in the message, so what
  it stops at has the tag, and `Tags` finds what the walk does not (`FoundFacts`).

`ProgramAlwaysDispatches` puts these together for every schema, table size, number of
tries and base address. It uses `TableAssumption` (these are numbers, and there is at
least one try: with none the code would not stop trying) and the part
`TagsDiffer` of `InputsAssumption`: fields of a message have different numbers, which
protoc checks, and no archetype has two parsers of one wire type. An archetype with two
of them would have a parser that can never be found.

`FieldsProofs` proves `ListsAlwaysFit`, `MessagesStay` and `FailuresKeepFields` for any
schema, any records and any sizes of the initial list and of inline messages. Whether a list is borrowed from
the input or on the arena decides what an append may do, and the code reads that off
its capacity. `RepeatedInv` relates a list to the records read so far: it is nil only
while no packed record had an element; it is borrowed exactly from the first record
that had one, and is then full, so that the next append moves it; an
owned list has room for what it holds; messages lie in one
block, or are all behind pointers. The writes that could go past the capacity are those of packed
varints, which are stored without a check after one `Grow`: the thunk counts bytes
without continuation bit, and there are as many as there are elements
(`PackedCount`). `SizeAssumption` says that lists start with at least one element and
messages have a size; `RecordsAssumption` that a fixed value has the width of its
wire type and a varint has bytes, the last of them without continuation bit unless the
record is malformed, so that a byte without continuation bit is a varint, and that the
parts of a map entry have different ranges (`MaxParts`, any number, bounds them);
`WidthAssumption` that widths are numbers and powers of two are positive.

`FailuresKeepFields` says what a failing record may change: a getter returns what it did
before, or one empty message more, or an optional field's zero. That it is no stronger is
the code's doing, see `PushFails`. It needs that nothing
a getter follows depends on the record that fails. `ReadInv` says that what a field outside
oneofs refers to was read: the range in a text slot, in an element of a list, in a key or a
value of a table lies in the records so far, and an optional slot is zero as long as its
hasbit is. For messages it says where they are: the heap is a sequence to which messages
are only added at its end, and behind the messages of an inline list are the empty ones that its block was
made with (`BlockInv`), so that the message a record adds is empty whether it is taken from
the block or allocated (`Fresh`, `Added`). `ReadInv` is inductive together
with `RepeatedInv` (`ReadInvKept`); the step goes through the archetype of every kind
and cardinality (`SingularArchetype`, `OptionalArchetype`, `RepeatedGetter`,
`MapArchetype`), which shows that whatever is read as a range was stored by a thunk for
text.

A record that fails before it stores anything adds to the input, where all ranges keep
their bytes (`ContentKept`), and may set a hasbit, over a slot that is then still zero
(`ZeroIsDefault`); it changes neither the slot nor the heap. For packed varints
that is so because `r.Raw` is stored after the last of them, and because a record that
is borrowed, bytes without continuation bit only, cannot fail (`PackedFails`). What
each getter makes of the same slot is then the same (`PlainKept`, `RepeatedKept`, and
`MapKept` with the lookup of every key). A record that fails after its message is stored
changes the slot from nil to that message, or the list by one element at its end
(`Stored`, `StoredKept`). Maps of messages are not in the theorem: there the failing entry
may replace a value, and what a getter returns for the other keys goes through the
lookup in the new table. `FailureKeepsFields` checks them in the run.

TLC checks the inductive invariants (`ArenaInv`, `ParserInv`, `UnknownsInv`,
`SharedInv`, `SwissInv`, `RecorderInv`, `SccInv` as part of `CompilerInv`) in the runs
too. It also confirms `RepeatedInv` and `ReadInv` when they are added to the invariants
of `Fields.cfg`, with the same constants; the run lists only what follows from them.

Only model-checked:

* `Termination`, `CallsReturn` and `RecordsReturn`: liveness is outside the prover's
  reach;
* `AcceptedIsMeaning` and `RejectedIsInvalid`: the reference decoder is recursive;
* `ReadsMeaning`: the meaning of a list of records is a fold over it;
* `FailureKeepsFields` for maps of messages.

## 6. Not modelled

UTF-8 validation is planned (below). The empty message and the reflection wrappers
are read-only views; the unsafe and debug helpers keep no state; `arena/shapes.go` is
a table of reflected types. Symbols are not encoded as bytes, and the dump and
metrics of tables and programs are left out. Tools and tests are not part of the
library, nor is the code that protoc generates for test and benchmark schemas
(`internal/gen`), which is more than half of the repository's Go lines and is used
to compare with hyperpb.

## 7. Plan

Done, in this order: the arena with its slices, the parser with the reference
decoder, the shared state and the Swiss table; the thunks with their stencils,
archetypes and getters, the component sort, the compiler with the linker, and the
profile recorder; the theorems of section 5, last those about the recorder's medians,
Tarjan's algorithm, the compiler, the lists of repeated fields and what a failure leaves.

Next:

1. **Algorithms.** UTF-8 validation and `Tag` encoding against reference definitions.
2. **Composition.** Parsers generated by `Compiler` as the `Fields` and `NextOk` of
   `Parser`.
