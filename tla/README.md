# TLA+ specifications of zserio-cpp17

zserio-cpp17 serializes data that is described by a schema into a stream of bits. It has two
parts: a runtime library (`src/runtime/src/zserio`) and a generator (`src/extension`) whose
FreeMarker templates are the source of the C++ code of each schema. This directory models what
happens at run time, in the library and in generated code; templates are read as the programs
they generate.

The code is sequential: one thread works on a reader, a writer or an object. What makes it hard
is something else: several independent walks over the same data must agree to the bit; operations
consist of steps each of which may throw, and callers go on after an exception; objects and
readers are used again; two versions of a schema meet; and a database may fail or the process
may die between any two statements.

Contents: [components](#components) - [modules and plan](#modules-and-plan) -
[how the models are written](#how-the-models-are-written) - [runs](#runs) - [proofs](#proofs) -
[where code and documents differ](#where-code-and-documents-differ) -
[what is not modelled](#what-is-not-modelled)

## Components

Paths are relative to `src/runtime/src/zserio` (`.h`, `.cpp`) or `src/extension/freemarker`
(`.ftl`). "State" is what outlives a call.

| component | state | operations | hard behaviour | correct if |
|---|---|---|---|---|
| **bit stream reader** `BitStreamReader` | buffer, bit index, a cache of up to one machine word and the number of bits in it | reads of 1 to 64 bits, bool, floats, variable-length numbers, bytes, strings, bit buffers, `alignTo`, `setBitPosition` | last load of fewer bytes than a word; values over two loads; use after an end-of-file exception; jumps into the middle of a byte | what is handed out is what the buffer has at the position; no load outside of it; a read is refused if and only if bits are missing |
| **bit stream writer** `BitStreamWriter` | buffer (or none), bit index | the writes that belong to those reads | bits of neighbouring values in the first and last byte; numbers written in chunks of which a later one throws; measuring without a buffer | the bits are stored, no other bit changes, a write that throws did not fit |
| **variable-length integers** `BitStreamReader`, `BitStreamWriter`, `Types`, `BitFieldUtil` | none | encode, decode, size of nine types | the last byte of a type has eight bits instead of seven; extremes; -0 | what is encoded is decoded; the size is the number of bytes written; what does not fit is refused |
| **delta context** `DeltaContext` | maximal number of bits, previous element, flags | init, finishInit, bitSizeOf, write, read, one element at a time | differences that overflow the word; the decision to pack, made once and relied on by four walks | all walks decide alike, and no difference is lost |
| **arrays** `ArrayView`, `ArrayTraits` | offsets of an aligned array, the vector read into | bitSizeOf, initializeOffsets, write, read, plain and packed | lengths and alignments; exceptions halfway | the walks agree on where each element lies |
| **generated structures** `Structure.*.ftl` | the fields, presence of extended fields | validate, bitSizeOf, initializeOffsets, write, read | optional, extended, aligned, offset fields in any order; older and newer readers; objects read into again | the walks agree; what is written is read, by each schema version |
| **generated choices and unions** `Choice.*.ftl`, `Union.*.ftl` | the variant | the same | the case is selected by another field or by a tag in the stream; the variant may hold another case | the same |
| **serialization functions** `SerializeUtil`, `DataView`, `GenericAccessor` | none | serialize, deserialize, of View and DataView | the order of the walks | what is accepted is written into a buffer of just the right size |
| **SQL database and tables** `SqlDatabase.*.ftl`, `SqlTable.*.ftl`, `SqliteConnection` | the database file, the connection's transaction, who owns the connection | createSchema, deleteSchema, write, update, createTable, deleteTable, readers, transactions | exceptions between the beginning and the end of a transaction, transactions of the caller around them, crashes | returned means durable; a transaction of the caller is left to the caller; the file changes by whole calls |
| **SQL reader** `SqlTable::Reader` | prepared statement, last result, the Row | hasNext, next | exceptions of the parser or of the next step; a Row used again; NULL | rows as they are stored, in order |
| **SQL validation** `validate` in the same templates, `ValidationSqliteUtil` | counters, flags of the observer's answers | validate | two flags of the same name on two levels; early ends | what is wrong is reported, answers are obeyed, every table begun is ended |
| **JSON tokenizer, decoder, encoder** `JsonTokenizer`, `JsonDecoder`, `JsonEncoder` | the content that is not yet tokenized, position, line and column, the last token | next token, decode, encode | tokens cut by the end of a chunk, escapes, numbers at the end of their range | the tokens and their positions are those of the text, whatever the chunks |
| **JSON parser and reader** `JsonParser`, `JsonReader` | the parser's token; the keys, the adapter of a bit buffer or bytes, and the object of the reader | parse, read, called for each document of a stream | exceptions in the middle of a document, a read after that; state left over from the read before | each read returns the object its document stands for, or throws |
| **tree creator** `ZserioTreeCreator` | state, the stacks of fields and of objects | begin and end of root, array, compound and element; set and add values | refused calls in the middle, memory exhausted between two pushes, names looked up in the wrong type | the stacks stay aligned, the object fits the schema, a call does what it says or nothing |
| **reflection, type information, introspection** `Reflectable*`, `TypeInfo*`, `Introspectable*` | none of their own: views of an object | find, get, set, resize, append, casts by type | the same question answered by several tables and class hierarchies | the answers agree |
| **walker, JSON writer** `Walker`, `JsonWriter` | the state of each filter: depths, a path; the writer's comma and names | walk with filters and observers | filters that keep state over nested calls; conjunctions, in which the others go on behind the one that refused | what is reported is what the filter lets through, nested, and the filter ends as it began |
| **Any, Optional, Variant, allocators** | where a value is kept, in place or in a block, and the allocator; the variant's index | construct, copy, move, assign, emplace, reset, swap, destroy | unequal allocators, swaps of them, allocations, constructors, copies and moves that throw, holders used again | a block has one owner and goes back where it came from; a call does what it says |
| **exceptions** `CppRuntimeException` | a buffer of fixed size, its length | construct, insert, copy, `what` | a message in many pieces, one of which is cut; exceptions made from the message of another | the message is what was inserted, cut where the buffer is full, with its terminator |
| **numbers as text** `StringConvertUtil` | none | convert integers and floats | least integers, zeros, NaN | the text stands for the number |
| enums, bitmasks, floats, bit buffers, hashes | none or plain values | conversions, comparisons | NaN, rounding, unknown bits, last byte | conversions come back; hash agrees with equality |
| service and pubsub | callbacks of subscriptions | call a method, publish, subscribe | user's channel between the parties | the request arrives as it was sent |
| code generator (Java) | none | fills the templates | - | modelled by what it generates |

They interact by calls only: the serialization functions call the generated walks, those call each
other for nested objects, `ArrayView` for arrays and the reader or writer for values; the SQL
classes call the serialization functions for blobs and SQLite for the rest. Callbacks are those of
the validation observer, walk observers and subscribers.

## Modules and plan

The order is that of importance: everything rests on the two bit streams, then come the walks that
must agree, then the database.

| module | models | state |
|---|---|---|
| `StreamBits` | the bits and widths of both streams | done |
| `BitInput` | what a reader promises: a position in a string of bits; a step delivers the next bits, runs off the end, or jumps | done |
| `BitStreamReader` | the reader with its cache; implements `BitInput` | done |
| `BitOutput` | what a writer promises | done |
| `BitStreamWriter` | the writer; implements `BitOutput` | done |
| `VarNum` | encoding, sizes and decoding of variable-length numbers | done |
| `MCBitStreams` | reader and writer on small buffers, and the numbers | |
| `BitStreamProofs` | all properties of the three, proved for both word sizes, any buffer and arguments, any numbers and any bytes | done |
| `DeltaContext` | one delta context, as operators on its state | done |
| `ArrayView` | arrays; extends `DeltaContext` | integers done, objects planned |
| `ArrayProofs` | all properties of arrays of integers, proved for any word, elements and arrays | done |
| `Structure` | generated structures, choices and unions and the serialization functions | plain walks done, packed ones planned |
| `ValueHolder` | what Variant and Optional promise: a content or none, and calls that do what they say | done |
| `AllocatorHolder` | allocators, the heap and who returns a block | done |
| `Any`, `Variant` | a container of one value, and of one of several alternatives; implement `ValueHolder` | done |
| `Optional` | a value or none, in place or on the heap; implements `ValueHolder` | done |
| `OptionalProofs`, `VariantProofs` | who owns a block, when one is lost, and the refinement of `ValueHolder`, proved for any number of containers, alternatives and allocators | done |
| `MCSerialization` | arrays, structures, variants and optionals | |
| `SerializationProofs` | all properties of the run about structures, proved for any schema; those about arrays, variants and optionals, from the theorems of their modules | done |
| `SqlStore` | what a database promises: calls, and batches of them, happen as a whole or not at all | done |
| `SqlDatabase` | transactions and calls over SQLite; implements `SqlStore` | done but for attached databases |
| `SqlReader` | the reader of a query | done |
| `SqlValidation` | validate and its observer | done but for virtual tables |
| `MCSql` | the database, the reader and the validation | |
| `SqlProofs` | all properties of `SqlDatabase`, and the safety properties of reader and validation, proved for any tables, rows and observers | done |
| `DataTree` | trees of values, and operations at a path | done |
| `TypeInfo` | type information: the tables and switches over the types of schema and of C++ | done |
| `Reflectable` | the objects of a schema, through names, indexes and types | done |
| `Introspection` | views of an object, and that all ways to look at it agree | done |
| `ObjectBuilder` | what a tree creator promises: a cursor in an object; a call changes one place below it, moves it, or changes nothing | done |
| `ZserioTreeCreator` | the creator with its stacks; implements `ObjectBuilder` | done |
| `ZserioTreeCreatorProofs` | the creator's invariants and the refinement, proved for any schema; with lemmas about paths, default objects and sound objects | done |
| `MCZserioTreeCreator` | a schema with a field of every kind | |
| `JsonDecoder` | decoding and encoding of values | done |
| `JsonTokenizer` | tokens from chunks of text; extends `JsonDecoder` | done |
| `JsonParser` | the parser's recursion as a stack of frames | done |
| `JsonReader` | parser, adapters and creator composed; extends `ZserioTreeCreator` and `JsonParser` | done |
| `Walker` | comparison of objects (`ReflectableUtil.h`), the walk and all filters | done |
| `JsonWriter` | the observer that writes; extends `Walker` and `JsonDecoder` | done |
| `JsonDocument` | the object a sequence of tokens stands for, from the schema alone | done |
| `StringConvertUtil` | integers and floats as text | done |
| `CppRuntimeException` | the messages of exceptions | done |
| `CppRuntimeExceptionProofs` | `MessageHeld`, proved for buffers of any size | done |
| `MCJson` | texts, tokens, reads and walks, written and read; numbers as text and exceptions | |

Still to come, in this order:

1. the packed walks of structures, choices and unions over arrays of objects (a tree of delta
   contexts), in `ArrayView` or a module beside it;
2. service and pubsub, 16-bit floats, bitmasks and enumerations;
3. attached databases.

The runs follow the parts of the system: streams, serialization, database, trees and JSON. Where
several modules share a run, a behaviour uses one of them, which the variable `stream`, `part` or
`mode` names, and the variables of the others stay as they are.

## How the models are written

*Steps.* An operation that throws in the middle is started by one action and makes one step for
each part that can throw on its own: a chunk in reader and writer, an element of an array, a field
of a structure, a statement in a database. `status` says whether it is at work, has returned or
has thrown; after either the caller may do anything the interface allows.

*Bits.* Where no code looks at bits, each bit of a buffer is a symbol of its own (reader, writer,
`VarNum`). A bit that is lost, repeated, swapped or taken from elsewhere is then another symbol,
whatever the data, and one buffer stands for all buffers of its size. Structures read flags and
selectors, so their bits are zeros and ones. Arrays keep the fields in the stream instead of
their bits, each with its position and size; the reader asks for a field by position and kind, and
`garbled` tells whether it ever asked for one that was not written like that.

*History.* Variables that the code does not have are commented as history: bits handed out, data
as it was sent, events. No action reads them, but for bounds and for where a model stops.

*Where models stop.* When a variant has done what C++ leaves undefined (`misused`), and when memory
has run out between two pushes of a tree creator (`torn`), nothing is said of what comes next. The
calls that lead there, and what they leave, are in the model.

*Widths.* `uint8_t` counters (`UInt8`), machine words (`WordBits`), casts of offsets
(`ValueTypeBits`) and the word of the delta context are modelled with their width.

*Refinement.* `BitStreamReader!ImplementsInput`, `BitStreamWriter!ImplementsOutput` and
`SqlDatabase!ImplementsStore` instantiate the abstract specification with a mapping and are checked
as properties. For the reader: `pos` is `ctx.bitIndex`, `out` what the operation has handed out,
and `valid` false between an exception and the next jump, when nothing is promised. For the
database: `batch` is what the connection sees while a transaction of the caller is open. For the
tree creator: `cursor` is the path on top of the stack of objects and `doc` the tree. For variants
and optionals: `contents` is what is held, with its type and the variant's index, or `value`.

*Texts.* A text of JSON is a sequence of characters only where it is cut and decoded, and its
characters are members of a small alphabet: those the code tells apart. Above the tokenizer a
string is one value.

*Recursion.* `Walker`, `JsonDocument` and `JsonWriter` follow the recursion of their code with
RECURSIVE operators, as only runs use them. What the proofs rest on (`TypeInfo`, `Reflectable`,
`ZserioTreeCreator`) has recursive functions instead.

*Mutants.* A definition whose comment says "Mutant of X" is a variant of X with a plausible
mistake: a check left out, an order swapped, a value that is stale. Replacing X by it must break
the property it is listed for in `PROJECT.json`. Nothing else uses it.

*Deadlock.* Checked everywhere but in `MCSerialization` and `MCJson`, whose behaviours are one
pass of operations that comes to an end, and in `MCZserioTreeCreator`, whose behaviours end with a
torn creator. In `MCSql` the end of a validation is a step of its own.

*Fairness.* Only validation assumes any (`WF` of its steps), as `validate` is a loop of a single
thread in which nothing waits, except for SQLite. Everywhere else nothing is promised to happen,
and only safety is stated.

### Correspondence

`PROJECT.json` maps each definition to its lines; in short:

| module | variable | code |
|---|---|---|
| `BitStreamReader` | `ctx` | `ReaderContext::bitIndex`, `cache`, `cacheNumBits` |
| | `todo`, `block` | the calls of `readUnsignedBitsImpl` still to come, and the block behind them |
| | `ReadChunk` | `readUnsignedBitsImpl` with `loadCacheNext`; the other actions are public reads |
| `BitStreamWriter` | `m_bitIndex`, `m_buffer`, `m_bufferBitSize`, `hasWriteBuffer` | members; `WriteChunk` is `writeUnsignedBits32Impl` |
| | `chunksLeft`, `blockLeft` | the calls of it still to come, and the block behind them |
| `VarNum` | `encoded`, `count` | the bytes, and those done by the loop of `writeVarNum` or by the calls of `readByte` |
| | `sign`, `result` | the local variables of `readVarInt16` .. `readVarSize` |
| `DeltaContext` | a record | the members of `DeltaContext` |
| `ArrayView` | `context`, `position`, `offsets`, `rawArray` | the arguments and results of the functions of `ArrayView.h` |
| `Structure` | `object` | the data object: `present` is `Extended::m_isPresent`, `set` the optional's flag, `tag` the variant's index |
| | `operation`, `index` | the generated function at work and the fields it has done |
| | `numExtendedFields`, `endBitPosition`, `bitPosition` | the local variables of those names and the reader's position |
| `Any`, `Variant` | `objects` of `world` | `m_isInPlace`, the two members of `m_untypedHolder`, `m_index`; `heap` is the memory of all allocators |
| `Optional` | the same | `engaged` and `data` are `m_data`, of a value or an address (`onHeap`) |
| `SqlDatabase` | `view`, `disk`, `autocommit` | what SQLite answers on this connection, the file, `sqlite3_get_autocommit` |
| | `call.started` | `wasTransactionStarted` |
| `SqlReader` | `lastResult`, `cursor` | `m_lastResult` and the statement's row |
| `ZserioTreeCreator` | `state`, `fieldInfoStack`, `valueStack`, `tree` | `m_state`, `m_fieldInfoStack`, `m_valueStack` (here the paths to the objects), `m_tree` |
| `CppRuntimeException` | `exceptions` | `m_buffer` and `m_len` of each; `said` is history |
| `StringConvertUtil` | `argument`, `converted` | a call's argument and result; `Digits` is the end of the buffer |
| `JsonTokenizer` | `t` in the records of `setToken`, `decodeNext`: `content`, `pos`, `token`, `column`, `decoded` | the members of those names |
| `JsonReader` | `frames` | the calls of `parseObject`, `parseMembers`, ... that are open, and what each has left to do |
| | `keyStack`, `adapter`, `object`, `hasCreator` | `m_keyStack`, `m_objectValueAdapter`, `m_object`, `m_creator` |
| `Walker` | a filter: a record | the members of the filter's class |
| `SqlValidation` | `continueValidation`, `continueTableValidation`, ... | the variables of those names; `events` is what the observer was told |

SQLite, the file and the observer are external and modelled by how the generated code uses them:
any statement may fail, a failure leaves the transaction open or rolls it back, and the observer
gives any answer.

## Runs

`tlc -config X.cfg M` in this directory. All bounds are in the MC modules and configurations.

**bit_streams** (`MCBitStreams`). The reader: any sequence of reads up to position `MaxIndex` = 65
over buffers of 7 and 9 bytes with bit sizes of 53 and 64, with 32-bit words: one buffer ends inside
of a byte and of a word, the other on a word, with a byte behind. Widths of 3, 31 and 40 bits fall
in the cache, over two words, and in two chunks; blocks come aligned and not; jumps go into a byte
and to the very end. `CacheCoherent` and `LoadsInBounds` relate cache and buffer, `EofExact` says
when a chunk is refused, `ImplementsInput` that the cache cannot be seen from outside. The state is
bounded by the position, so all sequences up to there are covered. 64-bit words take too long to
enumerate; they are covered by the theorems.
The writer: three writes in a row (`MaxCalls`) of any kind, into a buffer of 12 bytes with a bit
size of 93, which some of them overrun halfway, and without a buffer. A write depends on the
position modulo 8 and the room left; three writes reach each of them, at the end of the buffer
through the jump to 29 and to 94.
The numbers of variable length: each number of bits from 0 to 64, with every sign, for all nine types,
and the least numbers of 16, 32 and 64 bits; byte strings of each length with up to four leading zero
bytes. The encoders look at bit lengths only, so one number per length is enough. `NumbersAgree` relates
encoder, size and decoder, which are three pieces of code.

**varsize** (a violation, the same module): see below, 3.

**serialization** (`MCSerialization`).
*Arrays*: all arrays of up to three and some of four numbers from the ends and the middle of a
signed and an unsigned type as wide as the word (8 bits here) and of a narrow one; five kinds of
arrays, packed and not; starts on a byte and off it; buffers that lack 0, 1 and 9 bits. With a word
of 8 bits the limit of `MAX_BIT_NUMBER_BITS` lies inside of the range as 62 lies in 64. Four
elements let packing end before, at and behind the last one that matters.
*Structures*: nine schemas of up to five fields that bring each kind of field in front of and
behind every other it can disturb, and one of 33 whose last field is 256 bytes away; all objects of
a few values, among them invalid ones; each object is validated, measured, written, read by each
schema version from a bit buffer or a vector of bytes, whole or cut by 1, 5 and 8 bits, into a new
object or a used one, and written once more through a View or a DataView. `LayoutAgrees`: the walks
agree. `ValidIsWritten`: validate is as strict as write. `RoundTrip`: what is sent arrives, between
any two versions. `CutReadsPrefix`: lost bits are noticed or cost extended fields at the end only,
and what was read is valid. `SameBits`: writing what was read gives the same bits. The exceptions
the properties name are real: offset fields, which are set after they are validated; extended fields
without bits; and the variant left over in an empty choice (`Leftover`), which a View refuses and a
DataView writes, so that `LayoutAgrees` and `SameBits` ask for `NothingLeft`: the bits are then more
than those that were read, and the offsets, which are those that were read, lie behind them.
Alignments are of 64 bits at most; the run `alignment` has another one. `MCPlain` says that all of
these schemas are among those the proofs speak of.
*Variants and optionals*: any sequence of calls on two of them, with two allocators that propagate
or do not, and three blocks. Any allocation may throw and any constructor, a copy's and a move's,
too, but for the move of a value in place, which is held there only if it cannot; a swap has two
moves that may each fail in its own way. The value to be copied or moved is then as it was. The
alternatives of a variant are one in place and two of the same type on the heap, so that a holder
is used again for another index; optionals are in place or on the heap. Two containers and two
allocators make every pair of equal and unequal ones; the third block is that of a swap, or one that
is lost, and when all are in use an allocation throws. `OneOwner` has two parts. Of every state: two containers never have the same
block, each one's is in use, and it is from its allocator unless allocators are swapped; of optionals
also that no block is lost. Of every step of variants (`KeepsOrder`): a block is lost by no call but a copy, move or
swap that throws, and then only one; a variant whose destructor is undefined (`Stray`: its block is
another allocator's, or there is none) comes only of a copy that throws or a swap of allocators that
are unequal; and what is undefined is always a call that names one. `ImplementsHolder`: each call
does what it says to the contents, at the index they were emplaced with, and nothing to others;
`CopyThrows` and `SwapThrows` are what an `Any` leaves open. What these and `KeepsOrder` name is what
the code gets wrong, see 19 and 21: no other call loses or spoils anything. Optionals are swapped only if the standard
defines it for containers: their allocators are equal or are swapped, too (`SwapsUnequal` is FALSE).
Containers are alike and so are allocators (`MCSymmetry`), and no step depends on which call was the last
(`MCView`): a call is checked from one state of each such set, and one that is the same as the last
and changes nothing counts as no step.

**structure_reuse**, **alignment** (violations, the same module): see below, 6 and 2.

**sql** (`MCSql`).
*The database*: two tables, two keys, five lists of rows, one with an invalid row behind a valid
one; every call in and out of a transaction of the caller, any statement failing, crashes and
reopening at any point, for a caller that rolls back after an exception (`Recovers = TRUE`). Two
tables and two rows are what it takes to be interrupted in the middle. `Durable`,
`CallerTransactionKept`, and `ImplementsStore`: the file changes by whole calls only.
*The reader*: all results of up to two rows of two columns, and of three rows with fewer values,
with NULLs and values that cannot be parsed; a step that fails; Rows new and used. `RowsAsStored`:
no row is skipped, repeated or reordered by an exception that was caught.
*Validation*: two tables, the first with any schema or two rows of any cells, the second small or
missing, for every observer. `EveryFaultReported`, `BadSchemaReported`, `AnswerObeyed`, and
`EveryTableEnded`, a liveness property.

**sql_no_rollback** (violation, `Recovers = FALSE`), **sql_stop** (violation): see below, 9 and 10.

**creator** (`MCZserioTreeCreator`). A schema with a structure, a union, an enumeration, optional
fields, arrays of objects and of numbers, three levels deep, in which names are shared between the
types; all sequences of calls, right and wrong, with arrays of at most two elements. Memory may
be exhausted in any call: before anything has changed; behind `resize()`, when an array has a new element
that is not opened; or behind the push of a field, while what is in it is created or pushed. The stacks are
torn by the last (`torn`): the field is there and its value is not, see 23. `StacksAligned`
is what the comments of the code take for granted, of a torn creator below that field;
`TopIsOfTheType` that names are looked up in the type of the object they are applied to, unless it is torn; `ObjectFits` that half-built objects are objects of the
schema too; `ImplementsBuilder` that each call changes one place or nothing; `LooksAgree` that
reflection, views and type information answer every question about each of these objects alike.

**json** (`MCJson`). *Tokens*: texts with every kind of value, escape and white space, right and
wrong, in chunks of 1, 2 and 3 characters (`BUFFER_SIZE` is 64 KiB), so that every token is cut at
every place. `TokensAgree` compares tokens, values, lines and columns with those of the text in one
piece, up to its first fault. *Reads*: streams of one document that `JsonWriter` wrote of an object,
in each format, or of two others, right or wrong, each stream cut behind any token or followed by a
character that is no token, and read three times (`MaxReads`), so that a read starts in whatever
state one before it has left; `ReadsAgree` compares with `JsonDocument`, which says what a document
stands for without a parser. What comes from the tokenizer are its tokens; a character that is none
leaves the token before or, at the end of a chunk, END_OF_FILE. Memory is not exhausted in a read. *Walks*: objects of
the same schema with every filter and with conjunctions of two; `FiltersAgree` compares the calls
with the set of paths each filter is to let through. *Numbers as text*: all integers of 8 bits and the
ends, powers of ten and their neighbours of those of 16, signed and unsigned, in a buffer with just
the room for the longest; floats around zero, at the ends of the range of the integer they are split
with, and NaN, whose conversion is undefined. The real types have 64 bits and their longest number 20
characters of a buffer of 24. `TextsAgree` reads the text back, and names the two kinds of floats that
do not come back: see 22. *Exceptions*: any sequence of insertions of texts, numbers and vectors into
two exceptions with room for three characters (512 less one in the code), copied and made from one
another, up to four characters and the insertion that exceeds them (`MaxSaid`), so that the cut falls
on each piece and insertions come behind it.

**json_value_at_end**, **json_read_again** (violations): see below, 13 and 14.

## Proofs

All modules below are checked by `tlapm`. The first part of `BitStreamProofs.tla`, about the reader,
assumes what its constants are declared with: words of 32 or 64 bits, any buffers, any bit sizes that fit into them and any
arguments; nothing about `MaxIndex`.

| theorem | says |
|---|---|
| `ReaderInvariant` | `Spec => []IInv`, the inductive invariant, which contains `TypeOK` |
| `ReaderGotExact` | the cache agrees with the buffer and what is handed out is what the buffer has (`CacheCoherent`) |
| `ReaderLoadsInBounds` | no load outside of the buffer, also after exceptions |
| `ReaderEofExact` | a chunk throws iff bits are missing |
| `ReaderImplementsInput` | `Spec => ImplementsInput` |

`CacheCoherent` alone is not inductive: a load takes for granted that the cache ends on a byte, and
that the bits above those in use are zero when words are joined. `IInv` therefore is

    TypeOK /\ CacheCoherent /\ CacheEndsOnByte /\ LoadsInBounds /\ GotExact /\ NoBitAbove

with the two history parts `GotExact` and `NoBitAbove` that the refinement needs. `Load` shows that
a load keeps the cache coherent, whichever of the paths of `loadCacheNext` it takes; `Take` that
bits taken from the front are those at the position; `TakeExact` and `ChunkExact` put them together
for a chunk that spans two loads; `Seek` is `setBitPosition`. `NextKeeps` has a step for each action.
The refinement shows each action to be a step of `BitInput` or to change nothing it sees.

The second part, about the writer, assumes buffers, words, blocks and positions of their types, as
`BitStreamWriter` declares them, and bounds neither their sizes nor `MaxCalls`.

| theorem | says |
|---|---|
| `WriterInvariant` | `WriterSpec => []WriterInv`, with `WriterTypeOK` |
| `WriterStoresInBounds` | no store is outside of the buffer |
| `WriterStoresExact` | a call that returns has moved by the bits of its argument (`StoresExact`), if alignments can be counted |
| `WriterThrowsOnlyIfFull` | a call throws only if it does not fit as a whole |
| `WriterImplementsOutput` | `WriterSpec => ImplementsOutput`: neighbours in shared bytes and bits behind the end are kept |

`WriterInv` adds to the types how far the call at work has got: the bits of its chunks and of its
block bring it to its goal. `BitsLeft` adds up their lengths; `TotalOfTail` says what is left
behind the first chunk, and `WordWritten`, `StringWritten` and `BytesWritten` how many bits the chunks
of each kind of write have. An alignment of more than 256 skips fewer bits than it should (2 below), so only an
inequality holds without `AlignmentsCountable`, which is the hypothesis of `WriterStoresExact`; the
other theorems do not need it. `StoredBitExact` and `PatchExact` say for each bit of the buffer what a
chunk of up to 32 bits over up to five bytes leaves there.

The third part, about the numbers of variable length, assumes that `FlagBit` is a bit that is set and
that numbers and bytes are of their types; it is about all nine types at once.

| theorem | says |
|---|---|
| `NumbersStayTheSame` | `VarNumSpec => [](VarNumTypeOK /\ NumbersAgree)` |

The invariant `NumberInv` says what is known half way: the bytes written so far are the first of those
of the number (`Coded`), and the result read so far is what the first bytes stand for (`Decodes`, bit by
bit: the bits of byte i are where the bytes behind it leave them, `Shift`). `BehindIs` says that the
shift is the sum of the payload bits behind a byte, `IsInAByte` that no bit falls between two bytes, and
`NoMoreBits` that a number has no bits but those its bytes have room for, which is where the tables of
`Types.cpp` and the shifts of reader and writer have to agree. `DecodesOneMore` is one step of the reader.
`ReadsTheNumber` puts them together: the reader stops behind the last byte that was written, with the
sign and the bits of the number, also for the least `varint`, which is the only one that is read from
a byte with a sign and no payload, as there is no other -0.

`StreamTypesOK` is `TypesOK` of the run and `NumbersInStreams` its `NumbersAgree`: the three side by side,
as `MCBitStreams` composes them.

The first part of `SerializationProofs.tla`, about structures, assumes what `Structure` declares: schemas whose clauses, offsets and selectors
refer to earlier fields that are always there. Schemas, objects, values, cuts and versions are any.
The theorems have two hypotheses more. `PlainSchemas` (`Plain`): alignments and numbers are of 64 bits
at most, which is what one call of reader and writer can move by (2 below); a choice has at most 256
cases, so that the tag of a union is one byte of a `varsize`; extended fields are at the end; a field
that holds the offset of a field holds that one only, and is no selector and no clause; and an
extended field that is aligned to more than a byte takes bits, as its padding would else be taken for
a trace of it. TLC checks it of the schemas of the run (`MCPlain`). `PresentReused`, for all but the
first two: objects that are read into again have all of their extended fields; run `structure_reuse`
shows what happens to others (6 below).

| theorem | says |
|---|---|
| `StructureTypes` | `Spec => []TypeOK` |
| `ValidObjectsAreWritten` | what validate or read accepts is written and obeys the schema (`ValidIsWritten`) |
| `ObjectsArrive` | what is sent is read, between any two versions (`RoundTrip`) |
| `CutObjectsArriveInPart` | lost bits cost extended fields at the end only (`CutReadsPrefix`) |
| `OffsetsArePlaces` | the walks agree on sizes and places, and offsets are the places (`LayoutAgrees`) |
| `BitsStayTheSame` | what was read is written as the bits it was read from (`SameBits`) |

All walks are compared with one definition of where the fields of an object end, `Ends`: the
function that starts with 0 and goes from the end of one field to that of the next. It is a CHOOSE;
`EndsAre` shows that it exists and grows, `EndsAgree` that objects alike have the same. The invariant
says for each walk, at every field, that it is where `Ends` says (`Layout`), and

    GoodFields   fields that were validated or read are as validate wants them (Good); offsets, which
                 are set later, may have any value, and an empty choice anything left in it
    Counted      the extended fields validate counts are all there are in front of it iff none of these
                 is missing; those that are present come first
    Coding       each field is in the stream where it is to be, with its padding, flag, tag and value
    Sent         the same of the stream that was sent, of which the buffer is a part
    Reading      there is a field up to which all has arrived, and behind it, if read has gone on, the
                 buffer has nothing for extended fields
    Holding      the offsets set so far, and those that were sent, are those of `Ends`
    Keeping      what has arrived stays what it is until it is written, also when offsets are set again

`ValidIsWritten` follows from `GoodFields` and `Layout`; `ReadInvariant` is all down to `Reading`, and
`KeepingInvariant` all of it. `Coded` and
`FieldArrives` are the heart of it: a field that is coded at a position is read from it as it was, by
the flag, the clause or the selector that arrived before it. `NumOfBitsOf` says that the bits of a
number are read as the number. `TraceIsSeen` says when the reader meets another extended field: iff a
later one leaves a trace, since padding alone never passes the end of a byte. `OffsetIsKept` shows that
`initializeOffsets` changes nothing in an object that was read. `NumOfBits`, `Pow2` and `Ends` are
recursive functions; that they exist is shown by `RecursionExists`, and inductions are made with sets
of numbers. The lemmas for that are those of `ArrayProofs`.

`ArrayProofs.tla` assumes what `DeltaContext` and `ArrayView` declare (`WidthAssumption`,
`ArrayAssumption`): a word of a power of two of bits, 256 at most; elements that are no wider than
the word; sizes of elements that a `uint8_t` counts, of which that of 0 is the smallest, as it is for
each of the types of `ArrayTraits.h`; and lengths that take a bit at least. Arrays, starts and cuts
are any, so that the word is also that of the code, of 64 bits.

| theorem | says |
|---|---|
| `TypeCorrect` | `Spec => []TypeOK` |
| `Layout` | the walks move by the same number of bits, and elements lie at their offsets (`LayoutAgrees`) |
| `NoThrow` | no difference is refused: a write throws only if bits are missing (`WriteThrowsIffCut`) |
| `Reading` | what was written is read, or the beginning of it (`RoundTrip`, `CutReadsPrefix`) |
| `Paying` | packing costs one bit at most (`PackingPays`) |

As with structures, the walks are compared with one definition of where each element ends, `Ends`,
here from the size each one takes (`BitsOf`): that of the descriptor and the element itself, of a
difference, or of the element written as it is. This needs the context of a packed array in closed
form. `Measured` is what it knows behind `init` of the first elements: their plain size, and, as long
as the limit is not exceeded, that each differs from the one in front of it by less than two to the
power of `maxBitNumber` (`Near`). Words wrap around, so `Near` is about values, and the lemmas on
differences say when that of two words is that of the values: below the limit it is, whatever the
signs (`WordBits` is two more than the limit for that). `FinishInit` leaves one more constant,
`FinalOf`, with which all elements are written. `MeasuringContext`, `WritingContext` and
`ReadingContext` give the context of each walk behind each element, so that `Inv` can say

    Sound       types
    NotBegun    what later calls fill is empty
    Measures    bitSizeOf and initializeOffsets are at Ends, with MeasuringContext
    Sized       the size is the distance of Ends from the start
    Offset      the offsets are the places of the elements
    Writes      a write that has not thrown is at Ends, with WritingContext; the stream holds exactly
                the fields of the elements behind it (Coded); it throws only in a cut buffer
    Reads       a read that has not thrown is at Ends, with ReadingContext, and has the elements of the
                array; one that has thrown has a prefix of them and at most one element more

`ReadElementStep` is the heart of it. The reader asks for a field of a kind, at a position, of a number
of bits; fields do not overlap (`Ends` grows), so it gets the one that was written there, and from the
difference and the previous word the value again, as adding is undone modulo the word. An implicit
array of a cut buffer has the elements that fit, and `ReadLength` says that each of them does.
`PackingPays` compares `Ends` with the sum of the plain sizes: `FinishInit` packs only if that is
smaller, and the descriptor of an array that is not packed is one bit.

The first part of `SqlProofs.tla` assumes what `SqlDatabase` declares: tables with different names, any keys,
values and lists of rows, and two constants that are neither. All but the first theorem assume
`Recovers`, that the caller rolls back after an exception; the run `sql_no_rollback` shows that they
do not hold without.

| theorem | says |
|---|---|
| `SqlTypeOK` | `Spec => []TypeOK` |
| `SqlDurable` | what has returned is on disk |
| `SqlCallerTransactionKept` | no call ends a transaction of the caller, but with an exception |
| `SqlImplementsStore` | `Spec => ImplementsStore` |

The inductive invariant has three parts. `TInv` is about types. `Txn` says whose transaction is
open: `startTransaction` has returned true in the call at work if and only if the caller has none,
and a transaction of neither is one that an exception has left. `Durable` follows. `Progress` says
how far the call at work has got in its own transaction: what the connection sees differs from the
disk by the tables or rows done so far. When nothing is left to do this is the change that
`SqlStore` asks for in one step (`ProgressCompletes`), and `NextMaps` shows for each action which
step of the store it is.

The second part assumes what `SqlReader` and `SqlValidation` declare: at least one field, results
that are sequences of rows, and at least one column and one table.

| theorem | says |
|---|---|
| `ReaderInvariant`, `ReaderRowsAsStored` | `[]ReaderInv`; `next` returns the rows as they are stored (`RowsAsStored`) |
| `ValidationInvariant`, `ValidationTypes` | `[]ValidationInv`; types, and that counters count what was looked at |
| `ValidationBadSchemaReported` | rows are looked at only below a good schema; a bad one is reported |
| `ValidationAnswerObeyed` | nothing follows an answer of false that it excludes |
| `ValidationEveryFaultReported` | an observer that goes on hears of exactly the faults there are, by the end of each table |

The reader's invariant says that it is one row ahead of what it has returned, unless a step has
failed. Of the validation, the properties speak of what was told by the end of a table; `ValidationInv`
says it at every point: which tables events can be of (`EventsInv`), what `result` and
`continueSchema` know of the schema's faults (`SchemaInv`), where the validation can be after an answer
of false (`StopInv`), and that the rows in front of the current one are reported as they are to be
(`RowsInv`). `Told` and its companions say what one more event adds.

`SqlTypesOK` is `TypesOK` of the run, for the three side by side as `MCSql` composes them.

`OptionalProofs.tla` and `VariantProofs.tla` assume what `AllocatorHolder` and `Variant` declare:
finitely many slots and addresses, one more address than slots (`HolderAssumption`: memory is not what
fails here, an allocation that throws is a choice of its own), and that the first alternative is one
(`VariantAssumption`). Slots, allocators, their traits, values and alternatives are any. For variants
that is all: any call may throw wherever the code can, and swaps are of any allocators. For optionals
there is the hypothesis `~SwapsUnequal`, that they are swapped only if their allocators are equal or
are swapped, too: the standard leaves other swaps of containers undefined, and `BasicOptional::swap`
(`Optional.h:487`) goes wrong there, as it exchanges addresses without a look at the allocators.

| theorem | says |
|---|---|
| `OptionalsHaveOneOwner` | a block has one owner, with the allocator it is from, and is returned to that one once (`OneOwner`) |
| `VariantsHaveOneOwner` | two variants never have the same block, and each one's is in use; it is from the variant's allocator unless swaps exchange allocators (`OneOwner`) |
| `VariantsKeepOrder` | which calls lose a block or make a destructor undefined, and that nothing else does (`KeepsOrder`) |
| `OptionalsImplementHolder`, `VariantsImplementHolder` | a call does what it says to the contents, and nothing to others |

All need the same invariant, `Good`: of a world of their types, the block of each container is in use and
two containers never have the same; of optionals also that it is from the container's allocator, that each
block in use is somebody's, and that nothing was misused. Of variants `Good` speaks of the container of a
swap in progress too, and `VariantInv` adds that there is none between calls and, unless allocators
are swapped, that no block is another allocator's. What a call may spoil is said of its step: `LostIn` is
what has no owner, `Astray` the containers whose destructor is undefined. An operation is a function of
worlds that others are made of, so each part has a lemma: that it keeps `Good`, what it leaves in the
container (`Carries`), what it has lost, and that all others are kept (`OthersKept`). `NextBlockIsFree` shows
that an allocation finds a block that is free if there is one. The lemmas hold of worlds in which something is
thrown halfway, where the rest of an operation is to do nothing. A lemma for each call puts them together
(`Stepped`): the invariant, `OrderKept` and the step of `ValueHolder`.

The last part of `SerializationProofs.tla` takes these theorems and those of `ArrayProofs` for the
arrays, variants and optionals of the run: `ArraysAreLaidOut` is its `ArrayLayoutAgrees`,
`ArraysAreWritten` its `WriteThrowsIffCut`, `ArraysAreRead` its `ArrayRoundTrip`, `ArraysPay` its
`PackingPays`, `HoldersOwnTheirBlocks` its `OneOwner`, both parts, and `HoldersImplementHolder` its
`ImplementsHolder`; `ArraysAndStructuresAreTyped` is its `TypesOK`.

`CppRuntimeExceptionProofs.tla` assumes a buffer of at least one character and that texts are
sequences of characters. `ExceptionMessageHeld` is `MessageHeld` for any such buffer, characters and
texts. `MessageHeld` needs the types beside it only (`ExceptionInv`): that the length stays below the
size is what keeps the terminator inside. `AppendHeld` shows it of one append, from `AppendImplHeld`,
which says what the copy stores and what it leaves; an insertion of a float or a vector is three
appends. That the texts are those of the numbers is left to the run (`TextsAgree`).

The first part of `ZserioTreeCreatorProofs.tla` holds the lemmas about objects. `Get`, `Put`,
`Exists`, `PlaceAt` and `Default` are recursive functions, and what they do is shown by inductions that
need no theorem with an operator parameter: the set of the lengths, or of the types, for which a fact
holds is made explicit (`SetInduction`, `LeastNatural`). So `PutAppend` says what replacing a child
does, `PutFound` what is found behind a path after it, and `DefaultIs` that the equation of `Default`
has a solution: it would have none if a type could contain itself in place. `Fits` looks at a tree
down to `MaxDepth` only and is no induction hypothesis; `Sound` is the same without a depth: there is
a set of nodes with their places that has the children of its members. `SoundPut` replaces one sound
node by another, `SoundDefault` says that default objects are sound, and `SoundFits` that sound
objects fit, down to whatever depth.

The module assumes what `Reflectable` and `ZserioTreeCreator` declare. Of the
schema (`TypesAssumption`): the fields of a compound are a sequence of field informations, as the
generator emits them; enumerations and bitmasks have integers below them; and no type contains
itself in place, which a C++ class cannot. Of the values (`ValuesAssumption`): those passed are of
built-in types or bitmasks, as the kind of an enumeration or a compound does not tell which one it
is. The depth is any number, and arrays have any length: `Spec` has no bound on it, only the run's
next-state relation has.

| theorem | says |
|---|---|
| `StacksStayAligned` | the stacks belong together, of a torn creator below the field that was pushed (`StacksAligned`) |
| `TopStaysOfTheType` | names are looked up in the type of the object on top, unless the creator is torn (`TopIsOfTheType`) |
| `ObjectStaysFit` | the half-built and the returned object are of the schema, also of a torn creator (`ObjectFits`) |
| `CreatorImplementsBuilder` | each call changes one place below the cursor, moves it, or is refused |
| `CreatorTypes` | types, and that what is on the stacks exists (`TypeOK`) |

`Aligned`, which is `StacksAligned` of a creator that is not torn, is not inductive as it stands: when the end of an array or a compound uncovers the
field below, nothing is known of that one. `Inv` adds that each open field is a compound or, on top
and while elements are added, an array of any type. The number of objects on the stack depends on
that of the arrays among the open fields; the lemmas about `Arrays` count those when a field is pushed
or popped.

The other properties need to know what the paths on one stack have to do with the fields on the
other, also for those that are covered. `IInv` adds to `Inv`, once the root is begun,

    IsNested(valueStack)                               each path has one key more than the one below
    Located(fieldInfoStack, valueStack, state)         each open field leads to a path on the stack
    Sound(RootPlace(RootType), tree)                   the object is one of the schema
    Exists(tree, TopValue)                             what is on top is part of it
    "at" \in DOMAIN TopNode                            and may have children

`Located` gives each open field its position in the stack of paths, which an array makes one larger
than a compound, as the elements have no field. That is the type of what is uncovered. `SelectChanges`
and `GrowthChanges` say of the two ways in which a call changes the tree what stays as it was;
`Changes`, `Enters`, `Leaves` and `Refused` turn them into `IInv'` and a step of `ObjectBuilder`, and
there is a lemma for each call (`BeginRootBuilds` ... `AddValueElementBuilds`). Of a creator that is torn,
`AlignedBelow`, the types, the paths and `Sound` of the object are left (`Spoiled`); `KeptSound` is one or the other, and the
invariant of the module.

What is only model-checked, and why:

- `EveryTableEnded`, a liveness property;
- `TokensAgree`, `ReadsAgree`, `FiltersAgree`, `LooksAgree` and `TextsAgree`: they compare two programs
  over all texts or trees, and `Walker`, `JsonDocument` and `equal` are RECURSIVE
  operators, which the prover does not take;
- what structures do outside of `PlainSchemas` and `PresentReused`;
- what a run shows to be violated is, of course, not proved.

## Where code and documents differ

Found while the code was modelled. Numbers 2, 3, 6, 9, 10, 13 and 14 are shown by runs
that expect the violation and are listed as findings; the others are named in the properties or models that had
to allow for them.

1. After an end-of-file exception the reader keeps the number of cached bits although its position
   has moved (`BitStreamReader.cpp:302`); reads return wrong bits until it is repositioned. `lost`.
2. `alignTo` counts the bits to skip in a `uint8_t` and skips them by one read or write of at most
   64 (`BitStreamReader.cpp:868`, `BitStreamWriter.cpp:536`). A padding of 65 to 255 bits is refused
   after validate and bitSizeOf have accepted it, a longer one may be cut short without notice. Run
   `alignment`.
3. `readVarSize` collects up to 36 bits in 32 (`BitStreamReader.cpp:785`), so that a number of 2^32
   or more may come out small instead of being refused. Run `varsize`.
4. `INT64_MIN` is written as minus zero by a negation that overflows (`BitStreamWriter.cpp:415`,
   `Types.cpp:113`); `VarNum` takes what two's complement hardware does.
5. `validate` runs before `initializeOffsets` (`SerializeUtil.h:300`), so an offset may break a
   constraint that the reader of the data then insists on.
6. `read` never sets an extended field present again that an earlier read into the same object
   found missing (`Structure.inc.ftl:419`). Run `structure_reuse`.
7. Offsets are cast to the type of their field without a check (`Structure.inc.ftl:509`).
8. Reading an empty case of a choice keeps the variant of the object (`Choice.inc.ftl:158`); a View
   refuses it, a DataView, "already consistent" according to `SerializeUtil.h:428`, writes it.
9. A call that throws between `startTransaction` and `endTransaction` leaves its transaction open
   (`SqlTable.cpp.ftl:203`), and calls after it join that one and are not durable. Run
   `sql_no_rollback`.
10. The answer to a cell of a wrong type is stored where the loop over rows does not look
    (`SqlTable.cpp.ftl:459`). Run `sql_stop`.
11. `validateBlob` compares the lengths of blobs only (`SqlTable.cpp.ftl:494`), and a field of a
    templated type always ends the row (`SqlTableTemplate.h.ftl:519`, which lacks the negation
    of `:461`).
12. `Reader::next` leaves a field of a Row that is used again as it was if the column is NULL
    (`SqlTable.cpp.ftl:136`).
13. A value at the end of the stream is lost if a chunk ends in the white space in front of it: the
    last token is then the END_OF_FILE of that chunk's end (`JsonTokenizer.h:251`), which `next`
    takes for the end of everything, against its comment (`JsonTokenizer.h:174`). Run
    `json_value_at_end`; `TokensAgree` lets such values be missing.
14. `JsonReader::read` at the end of a stream returns the object of the read before instead of
    throwing (`JsonReader.h:215`). Run `json_read_again`.
15. After a read that has thrown, the next one goes on in the middle of the document; of `[ {} ]`,
    which is refused, it returns the inner object as if that were a document. `ReadsAgree` says what
    is left of the promise: an object of the schema.
16. A filter by path is documented to match single elements, as in `compound.arrayField[0]`
    (`Walker.h:257`), but the subtree of an element that is an object is searched below its own path
    only, so that it is not walked although it matches. `NamesElement` exempts it in `FiltersAgree`.
17. The writer writes an enumeration value without a name as "N /* no match */", which the reader
    refuses; and an absent extended field is written as null and read as not set or as its default.
    `IsReadable` and `Present` of `JsonDocument` say which objects come back and as what.
18. The packed `initializeOffsets` of a choice calls a macro whose name is misspelt
    (`Choice.cpp.ftl:337`), and `detachDatabases` ignores failures (`SqlDatabase.cpp.ftl:196`).
19. `BasicAny::swap` of unequal allocators moves each value into a block of the container's own
    allocator and then, if the type propagates on swap, exchanges the allocators, too
    (`Any.h:488-495`): both blocks are returned to the wrong one, where "every allocation is deallocated
    by the same allocator or its copy" (`TrackingAllocator.h:66`). The standard defines such swaps, and
    `PropagatingPolymorphicAllocator` of the library is such an allocator.
    `OneOwner` allows for it if `traits.swap`, and `KeepsOrder` names it (`allocatorsMixed`).
    `BasicOptional::swap` takes the restriction of the standard containers: unequal allocators must
    propagate.
20. A variant whose `emplace` has thrown in the constructor of the value keeps a holder without a
    value: `valueless_by_exception()` is false (`Variant.h:255`), and `visit`, documented to throw
    then (`Variant.h:358`), dereferences the null of `get_if`. `ContentOf` counts it as empty.
    And every variant that was moved from is valueless, not only those on the heap with an equal
    allocator (`Variant.h:251`).
21. An exception of the copy, or of the move, of a value on the heap loses the block that was allocated for
    it (`Any.h:213`, `:225`). One of the copy of a value in place leaves a container that says it has a
    value, and whose destructor is undefined (`Any.h:631`). And one in `BasicAny::swap` (`Any.h:489`,
    `:490`) loses a value, or leaves it at the index of the other variant, as the indexes are exchanged
    behind it (`Variant.h:349`). `KeepsOrder` names the calls, `CopyThrows` and `SwapThrows` of
    `ValueHolder` what they leave.
22. `convertFloatToString` converts the digits behind the point as a number of its own
    (`StringConvertUtil.h:137`): 1.0625 is written as "1.62", and -0.5 as "0.500", as the sign is that of
    the integer part. Its comment speaks of "digits after point" (`:111`). A NaN passes both
    comparisons and is cast to `int64_t`, which is undefined. `losesSign`, `losesZeros` and `isNaN` in
    `TextsAgree`.
23. `beginArray` and `beginCompound` push the field before what it is to hold is created and pushed
    (`ZserioTreeCreator.h:618`, `:665`). When memory runs out in between, the field stays without a value:
    behind `beginArray`, `endCompoundElement`, "\throw CppRuntimeException When the creator is not in a
    compound element." (`:523`), is then accepted and ends the compound around, or the root. `AlignedBelow`
    and the exemption in `TopIsOfTheType`.

## What is not modelled

- *By choice:* the wording of messages, the layout of debug output, comparison and hash operators
  of generated classes, file input and output, the Java generator. They are straight-line code over
  what is modelled, or no state at all.
- *Not yet:* the components of the table above that have no module, listed with the reason in
  `PROJECT.json`, and the items of the plan.
- *Abstracted:* nested objects are fields of their own size; expressions of optional clauses are
  comparisons of an earlier field with 1 and those of selectors look up an earlier field; the tag
  of a union takes one byte; bytes, strings and bit buffers are blocks of bits behind a length.
