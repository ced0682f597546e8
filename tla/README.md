# A TLA+ model of avro-go

avro-go reads and writes Avro: a binary codec, a streaming array reader and
writer, single-object messages, a dynamically typed ("generic") codec compiled
from schemas, schemas as JSON and as IDL, and their canonical form.  This
directory models it in TLA+: TLC checks the models on small instances, TLAPS
proves what matters most for every value of the constants.

    tlc -config MCArrayPipe.cfg MCArrayPipe.tla
    tlapm ArrayPipeProofs.tla

## 1. The system

| component | source | state | operations | what is hard |
|---|---|---|---|---|
| binary codec | `avro.go` | `offset` of a reader or writer, a scratch buffer | one read and one write per Avro primitive, `discard` | partial writes, cut reads, the edges of `int64` |
| array stream | `array.go` | reader: items remaining, end of the block, `sized`, `done`, sticky error; writer: pending block, its count, `closed`, sticky error | `Next`, `SkipBlock`; `Write`, `Close`, `WriteArray` | sequences of calls with failures in the middle, an abandoned writer, wrong sizes |
| single-object encoding | `single_object.go` | none of its own | `MarshalSingleObject`, `UnmarshalSingleObject` | a stream of messages cut between two of them or inside one |
| fingerprint | `fingerprint.go` | a table | `Fingerprint64` | - |
| schema types | `schema.go` | immutable trees | - | references by name, nil slices |
| schema JSON | `schema_json.go` | namespace in force, names declared | `ParseJSON`, `MarshalJSON` | namespace inheritance, dotted names |
| generic codec | `generic/` | names registered while compiling; plans that are bound late | `NewEncoder`, `NewDecoder`, `Encode`, `Decode` | recursive schemas, unions, partial output on error |
| canonical form | `canonical/canonical.go` | names seen | `Marshal` | full names, what is stripped, order |
| schemas from IDL | `canonical/idl.go` | namespace, declarations | `SchemaFrom` | qualification of references |
| IDL tokenizer | `idl/tokenizer.go` | position, one action function | `Tokenize`, a coroutine of tokens | positions, comments, ends of input |
| IDL parser | `idl/parser.go` | one pending token, position | `Parse` | lookahead of one token over an iterator |
| IDL printer | `idl/printer.go` | indentation, first error | `Print` | printing what the parser reads back |

How they interact.  An `ArrayWriter` and an `ArrayReader` share nothing but the
bytes between the `io.Writer` of a `BinaryWriter` and the `io.Reader` of a
`BinaryReader`; the items of the array are encoded by the caller's own
`MarshalAvroBinary` and `UnmarshalAvroBinary`, called back in the middle of
`Write` and `Next`, which use the same writer and reader.  A plan of the generic
codec is a pair of closures over the closures of its parts, and goes through the
binary codec as well.  The parser pulls tokens out of the tokenizer, which runs
as a coroutine; its tree is printed back, or turned into a schema, which is
written as JSON, in canonical form, or compiled.

No component starts a goroutine.  Concurrency is where the library is used:
producer and consumer of an array are different processes on the two ends of a
stream, and either may be anywhere when the other stops.

### What makes each of them correct

* Binary codec: what is written is read, by as many bytes; a cut value is an
  error and never another value; offsets tell where the stream is.
* Array stream: what is decoded was written at that place; a clean end means
  the complete array, even if calls failed on the way and the caller went on; the
  errors tell an array that was never terminated from a stream that was cut;
  `WriteArray` returns nil for a complete array only;
  skipping changes nothing but the time it takes; sizes are checked by whoever
  decodes; nothing is written after a failure; memory is bounded; draining ends.
* Decimals: every value that is accepted is read back, and no fixed with room
  for its precision refuses one.
* Single objects: a message is delivered whole or an error tells that it is not,
  as far as two functions without a memory of their errors can promise that.
* Generic codec: decoding inverts encoding for every schema that compiles, a
  name means the same plan wherever it is used, what a failed encoding leaves is
  not a value, and arrays are what the `ArrayReader` says they are.
* Names (JSON, canonical form, IDL, compiler): all agree which declaration a
  reference means.
* IDL: no part of a file is passed over; every token is read once and in order,
  with its position; what the printer writes parses to what was printed; a file
  that lost its end does not pass for another one.

## 2. Modules

    Varint -- BinaryWriter --+                    +-- ArrayWriter --+
           \- BinaryReader --+-- ByteStream ------+                 +-- ArrayPipe -- MCArrayPipe
                             |                    +-- ArrayReader --+      |
                             |                          |    |         implements
                             |                          |    |             |
                             |      ForeignArrays ------+    |        ArrayChannel
                             |      ArbitraryBytes ----------+
                             +-- GenericCodec --+    |
                                     Decimal ---+-- GenericBytes -- MCArbitraryBytes
    SingleObjects -- MCSingleObjects
    Names -- GenericCompile -- MCGenericCompile
          \- SchemaJson -- Canonical -- SchemaForms -- MCSchemaForms
    Tokenizer -- MCTokenizer
    Idl -- IdlParser --+
       \-- IdlPrinter -+-- IdlFiles -- MCIdlFiles

Proofs are in modules of their own.  `StreamProofs` has what concerns every reader
of a stream: varints, single reads, and the array reader on any stream.
`ArrayPipeProofs`, `ForeignArrayProofs`, `ArbitraryBytesProofs` and
`SingleObjectProofs` build on it.  `GenericProofs`, `TokenizerProofs` and
`IdlParserProofs` stand alone.

The binary codec and the array stream.

* `Varint`: zigzag and base-128 encoding of longs.  `Base`, `MaxLen` and
  `Weight` scale it: a byte has `Base` payload values (128 in the code), a long at
  most `MaxLen` bytes (10), and there are `Base^(MaxLen-1)` nonnegative longs
  (128^9 = 2^63), so the last byte of the longest varint has room for one bit as
  in the code.  `Wrap` is the overflow of `int64`.
* `BinaryWriter`, `BinaryReader`: the operations as operators.  A write maps a
  writer to the set of writers it may leave, because the sink may take any part
  of it; a write that was cut does not advance the offset.  A read maps an offset
  to a result `[off, err, val]`; `io.ReadFull`'s two errors at the end of input,
  and the offsets after failures, are kept.
* `ByteStream`: the bytes between producer and consumer, and the items, which
  belong to the callers: strings written with `WriteBytes`, or, if `nulls`, values
  whose encoding is empty.  Their marshaling may fail on its own account before, between or after
  its writes.
* `ArrayWriter`: one variable per field of the struct, an action for `Write`, for
  `Close` and for the two ways `WriteArray` ends.  `Write` and `Close` of a writer
  that failed, and `Close` of one that is closed, change nothing and are not steps.  A
  `Write` of one that is closed (`WriteClosed`) returns `ErrArrayWriterClosed`, which the writer
  does not keep: it changes no field, and only `refused` remembers it.  `WriteThrough` and
  `WriteBuffered` are the two halves of `Write`, `Flush` and `AfterFlush` are
  `flush`.  `accepted`, `offered`, `refused` and `sealed` are history; `offered` are the items
  given to a writer that was not closed.
* `ArrayReader`: the struct is the record `rd`; `NextBlock`, `SizedHeader`,
  `DecodeNext` and `DiscardBlock` are `nextBlock`, `Next` and `SkipBlock` as
  operators on it, `ReadItem` and `SkipBlock` the calls.  A call that runs out
  of bytes while the stream is open waits and is no step.
* `ArrayPipe`: both ends with a stream that may end (`Leave`), lose bytes the
  reader does not have yet (`Lose`), and carry another field after the array.
* `ArrayChannel`: the abstract specification, without bytes and blocks.
* `ForeignArrays`: a reader over arrays this package's writer never emits:
  blocks of several unsized items, mixtures, wrong sizes.
* `ArbitraryBytes`: a reader over every byte sequence, after another caller has
  drained the same bytes.
* `SingleObjects`: a sender that calls `MarshalSingleObject` for values of several
  schemas, a stream that may end or lose its tail anywhere, and a receiver that
  calls `UnmarshalSingleObject` for one schema.  The magic and the fingerprint are cut byte by byte.
  Neither function keeps an error: the sender may send again behind a message it left half
  written, and the receiver may call again after any error (`Receive`), wherever in a message
  it stands then.  `torn` and `strayed` are history: the first message that failed, and whether the
  receiver went on after an error as if nothing had happened.  After a mismatch it may instead read
  the object by hand (`ReadRefused`, which is its caller's code and no function of `src/`).

The generic codec.

* `GenericCompile`: `compileSchema`, one call on one schema.  The schema is the
  sequence of its nodes in the order of the walk; the Go stack is `stack`, the
  registry `named`, the late-bound pointers that are set `bound`, and what the
  references were resolved to `plan`.  An action is the part of a
  `compile...` function up to its first child, or after its last.  Enums,
  durations and decimals over a fixed register and bind as a fixed does;
  `refused` stands for the checks that look at nothing but the node.
* `GenericCodec`: the closures the plans are made of.  A plan is a record with
  its parts, a value a tagged tuple; `Encoders` and `Decoders` are the `encode`
  and `decode` closures of every plan of `Layouts`, over `PutVarint` and the operators
  of `BinaryReader`, with the errors of each part, block counts
  and sizes as the decoders treat them (a declared size is read and ignored),
  and a map walked in any order.  A closure calls those of the plans under it, or
  of the record a reference stands for; they are given level by level, and a
  decoder that nests deeper than `MaxNesting` has no stack left.  Floats,
  doubles and durations are laid out as a fixed: the value is its bits.
* `GenericBytes`: the generic codec on the bytes of `ArbitraryBytes`, against
  itself and against the `ArrayReader`, and the decimal plans.
* `Decimal`: two's complement and the two decimal encodings, checked over all
  values up to a bound, a few of them with each sequence of bytes.  Shifts multiply by
  an entry of `Power`, the table of the powers of two.

Schemas.

* `Names`: a name is the sequence of its segments, an empty one where a dot begins or ends
  it; the code's qualification (`FullName`, `Enclosing`) next to the rules of Avro's specification
  (`AvroNamespace`, `AvroFullName`).
* `SchemaJson`: the schema types as records, with slices that may be nil, their
  `MarshalJSON` and `ParseJSON`.  JSON is a tree whose texts are names.  A default is decoded into a
  Go `any`, so a number goes through a float64: whole numbers up to `Exact` (2^53) come back
  as they were, others as a neighbour (`Decoded`).  A Go value that JSON does not know (`NotJson`)
  cannot be written.
* `Canonical`: `canonical.SchemaFrom` on the types of an IDL file, `Marshal` and
  `Unmarshal` of the canonical schemas.  Only references and primitive types are written without
  escaping (`Quoted`), and one with a quote in it is not JSON.
* `SchemaForms`: the machine that composes them.  One schema is at a time a
  value, a JSON document, an IDL file or a canonical form; each action is one call that
  turns a form into another, and programs pass a schema on for as long as they
  like.  `meaning` and `settled` are history: what it meant first, by Avro's own rules for
  names, and what was first parsed.

Avro IDL.

* `Tokenizer`: one action per `tokenizerAction`, over files that are sequences of
  classes of runes: each class is one that some condition of the scanner tells from the
  others, and takes `Size` bytes of UTF-8, which is what `Column` counts.  `read` is what was
  consumed of the buffer (an unread rune takes it
  back), `pos` is `t.pos`, `start` what an action captured for the next one.  A
  token is where it lies and the position it was given.  The consumer may stop
  at any token, as `yield` returning false does.
* `Idl`: tokens, declarations, types and values; `IdlParser`: `Parse`, one action
  per `parserAction` that reads or looks at a token.  `stack` is the Go call
  stack, a frame for each production under way with the node it builds; `pulled`
  is how far the coroutine of tokens was resumed, `pending` the one slot for a token that was
  pushed back.  `Read` takes the token in it first, `Unread` overwrites what it holds.
* `IdlPrinter`: `Print`, as the tokens of the text it writes.  `IdlFiles`
  composes the two: a file is printed; the text is left alone, cut, given
  one token or one annotation more, or has one of its names put between backticks; and it is
  parsed.

Properties are stated in the last part of each module, each under a comment
that says what it means.  Definitions marked "Mutant" are wrong variants of the
definition below them; a run is worth something only if it notices them.

## 3. Runs

| run | configuration | shows | states |
|---|---|---|---|
| `pipe` | `MCArrayPipe.cfg` | safety of both ends, liveness of a draining consumer, and the refinement of `ArrayChannel`, with sized and unsized blocks of items with and without bytes | 463k |
| `foreign` | `MCForeignArrays.cfg` | honest arrays read under every mix of calls; wrong sizes are found | 59k |
| `arbitrary_bytes` | `MCArbitraryBytes.cfg` | any bytes: skipping agrees with draining, ends of input are told apart; generic values are read back, torn ones and those with a string too long reported, arrays decoded as the `ArrayReader` reads them; decimals are read back, and roomy fixed sizes never refuse one | 399k |
| `varint_overflow` | `MCVarintOverflow.cfg` | finding 1 below | |
| `array_writer_errors` | `MCArrayPipeErrors.cfg` | finding 2 below | |
| `single_objects` | `MCSingleObjects.cfg` | until an error is ignored only sent objects are delivered, in order; an undisturbed stream whole; mismatches and cut headers are told | 2379k |
| `generic_compile` | `MCGenericCompile.cfg` | references are bound and resolved as Avro says, union branches distinct; every compilation ends | 23k |
| `generic_dotted` | `MCGenericCompileDotted.cfg` | finding 3 below | |
| `schema_forms` | `MCSchemaForms.cfg` | a schema that JSON can say keeps its meaning from form to form; what was parsed once is written and read without change | 79k |
| `idl_tokens` | `MCTokenizer.cfg` | tokens are well formed, nothing lies between them, positions are right where no block comment ended before on the line | 71k |
| `idl_positions` | `MCTokenizerPositions.cfg` | finding 4 below | |
| `idl_files` | `MCIdlFiles.cfg` | which files come back from `Print` and `Parse`; lost ends and tokens too many show; tokens are taken in order; parsing ends | 81k |

Bounds, and why they are enough.

* Width: with `Base = 4`, `MaxLen = 4` a long has seven bits and takes one to
  four bytes; with `Base = 2` (`arbitrary_bytes`) four bits.  Counts, sizes and
  lengths of more than one byte occur, so headers are cut inside a count and
  inside a size, and every special case of an `int64` (the smallest one, a sum
  that overflows, a varint that does not end) is within reach of short streams.
* Items: an empty one, one whose length prefix and payload are a byte each, and one
  with a two-byte payload and a two-byte length.  With a limit of three bytes a block holds one, two
  or three items, and the buffer is below, at and above the limit.
* Three items offered: a failing one between two good ones, a block before and
  a block after a failure, a pending block at `Close`.
* `MaxBytes = 7` in `arbitrary_bytes` holds a sized block with its items and the
  terminator, or two unsized blocks.  The plans (`SomePlans`) are of every
  kind, in arrays, maps, unions and records, a list that refers to
  itself among them; they decode streams of up to `MaxDecoded = 6` bytes, and
  values are encoded with up to `MaxTail = 2` bytes behind them.  `MaxNesting = 5`
  is a list of three records; longer ones, which six bytes hold, overflow the stack.
  Strings have up to four bytes, and an int, here of three bits, counts three (`IntHalf = 4`),
  so one of them is what a writer takes and a reader refuses.
* Decimals: values of up to `MaxLength = 5` bytes of two bits each, with every precision up to
  `MaxPrecision = 3` and every size of a fixed; both sides of each border between two lengths
  are among them.
* `single_objects`: three messages, so one is before and one behind a torn one, and a
  receiver that goes astray in one can run into the next.
* `BlockItems = 3`, `MaxBlocks = 2` in `foreign`: a block after a block whose
  size is wrong, and blocks that are skipped when none, some or all but one of
  their items are read.
* `MaxNodes = 4` in `generic_compile`: all trees of up to four nodes.  A record
  whose field is a union of two branches, records nested with a namespace each,
  a record that refers to itself through an array, and a name declared twice
  are among them; names are drawn from two, and one namespace.
* `schema_forms`: schemas and documents of up to three levels, which is a record,
  with a namespace of its own or an inherited one, around a declaration that brings, inherits or
  dots its own; references that are called like a primitive type, or have a dot at an end or a quote in
  them; defaults below and beyond `Exact`, which is 2 here; and each attribute of a document missing, null, or of another
  JSON type.
* `idl_tokens`: all files of up to three runes, of four without the classes that
  behave like another one there, and longer ones out of the few classes that
  matter in comments, strings and numbers.  A letter takes two bytes, and another rune three.
* `idl_files`: every production in a declaration of its own, pairs of
  declarations, and three files with something of everything, which are cut at
  each token, given each kind of token and a whole annotation at each place, and escaped at each name.
* Deadlock is not checked: a stream that was read to its end has nothing left
  to do, nor has a compilation, a scan or a parse that returned.

Fairness.  In `pipe`, `KeepsDraining` is a consumer that keeps calling
`Next`, the loop of the package's documentation; it is weak fairness of
`Draining`, with its enabling condition written out (`NextReturns`).
`WF_vars(Leave)` says that the producer's process does not live forever and its
end closes the stream; nothing is assumed of the writer, who may never close
the array.  Neither is a promise of the library, both are what its caller provides:
without the second, `Next` blocks in the caller's `io.Reader`.  In
`generic_compile` and `idl_files` it is `WF_vars(Next)`: a compilation, or a
parse, is one sequential call, which goes on by itself.

## 4. Proofs

| theorem | module | statement |
|---|---|---|
| `ZigZagIsInverse` | `StreamProofs` | zigzag is a bijection of longs and unsigned longs, at every width |
| `LongIsReadBack` | `StreamProofs` | `ReadLong` returns what `PutVarint` wrote and takes exactly its bytes |
| `CutLongIsReported` | `StreamProofs` | of a long that was cut `ReadLong` reports the end of the input, never a value |
| `ReaderTypeCorrect` | `ForeignArrayProofs` | reader types, for arrays of any producer |
| `SizesAgree` | `ForeignArrayProofs` | `Spec => []BlockAligned` |
| `PipeTypeCorrect` | `ArrayPipeProofs` | `Spec => []TypeOK` |
| `WriteArrayNilIsComplete` | `ArrayPipeProofs` | `Spec => []WriteArrayNilMeansComplete` |
| `BufferIsBounded` | `ArrayPipeProofs` | `Spec => []BufferBounded` |
| `OffsetIsCount` | `ArrayPipeProofs` | `Spec => []OffsetCounts` |
| `FailureIsFinal` | `ArrayPipeProofs` | `Spec => NothingAfterFailure` |
| `YieldsOnlyWhatWasWritten` | `ArrayPipeProofs` | `Spec => []YieldsWhatWasWritten` |
| `EndIsToldTruly` | `ArrayPipeProofs` | `Spec => []EndIsTold`, if items fit an int and the stream a long |
| `PipeImplementsChannel` | `ArrayPipeProofs` | `Spec => ImplementsChannel` (the refinement of `ArrayChannel`) |
| `HonestArraysAreRead` | `ForeignArrayProofs` | `Spec /\ Len(wire) < Half => []HonestArrayReads`, if items fit an int |
| `CutsAreToldApart` | `ArbitraryBytesProofs` | `Spec => CutsAreTold`, for any bytes |
| `SkippingIsFasterDraining` | `ArbitraryBytesProofs` | `Spec => []SkippingAgreesWithDraining`, for any bytes |
| `EncodedIsReadBack` | `ArbitraryBytesProofs` | `Spec => []ValuesReadBack`, for any plans and values |
| `TornIsNeverAValue` | `ArbitraryBytesProofs` | `Spec => []TornValuesAreReported`, for any plans and values |
| `DecodedIsEncodable` | `ArbitraryBytesProofs` | `Spec => []DecodedValuesAreValid`, for any plans and bytes |
| `OnlySentIsDelivered` | `SingleObjectProofs` | `Spec => []DeliversOnlySent` |
| `QuietStreamsAreDelivered` | `SingleObjectProofs` | `Spec => []QuietStreamIsDelivered`, if items fit an int |
| `MismatchesKeepThePayload` | `SingleObjectProofs` | `Spec => []MismatchKeepsPayload`, if items fit an int |
| `CutHeadersAreTold` | `SingleObjectProofs` | `Spec => CutHeaderIsTold` |
| `CompileTypeCorrect` | `GenericProofs` | `Spec => []TypeOK` |
| `CompiledRefsAreBound` | `GenericProofs` | `Spec => []RefsAreBound` |
| `UndottedResolvesAsAvro` | `GenericProofs` | `Spec => []ResolvesAsAvro`, if no record has a dotted name |
| `BranchesToldApart` | `GenericProofs` | `Spec => []UnionBranchesDistinct` |
| `CompileStepsRunOut` | `GenericProofs` | `Spec =>` at most `2*Len(schema) + 1` steps, each lowering `WalkLeft` |
| `DecimalsReadBack` | `GenericProofs` | every value of at most `MaxLength` bytes is read back as itself by both decimal plans (`ReadsBack`) |
| `RoomyFixedTakesAll` | `GenericProofs` | a fixed with room for its precision refuses no value for its length (`RoomyTakes`) |
| `NoRuneIsLost` | `TokenizerProofs` | `Spec => []NothingIsLost` |
| `TokensAreWellFormed` | `TokenizerProofs` | `Spec => []TokensAreLexemes` |
| `PositionsAreKnown` | `TokenizerProofs` | `Spec => []PositionsAreRight` |
| `ParserTakesTokensInOrder` | `IdlParserProofs` | `Spec => []TokensInOrder` |
| `ParserStepsRunOut` | `IdlParserProofs` | `Spec =>` at most `5*Len(source.tokens) + 1` steps, each lowering `StepsLeft` |

They hold for every width, limit, set of items, preamble, number of writes,
blocks and sizes, for every set of schemas, of plans, of files and of tokens, and for decimals of every
length and precision, that satisfies the named assumptions of the modules.  The ones
that are more than types are `RangeAssumption`, `ForeignAssumption`, `LengthAssumption` and
`LayoutsAssumption`: numbers of items, fields and bytes that exist in memory are below 2^63, the
symbols of an enum at most 2^31.  Without them a length
would not be a long, and `PutVarint` would have nothing to encode.  `ItemsAssumption`
lets the empty string stand for items without bytes.  `LayoutsAssumption`
also says which Go types go with which layout, and that a plan's parts are plans;
`PlansAssumption` that the values under test are values.  `BytesAssumption` and
`SingleObjectAssumption` only give constants their sets, and `DecimalAssumption` says what
`Power` is a table of and that the values under test fit `MaxBytes` bytes.  Four theorems have a
hypothesis besides, that an item's length fits the int32 of the reader (`IntHalf`); `EndIsToldTruly` and
`HonestArraysAreRead` also that the length of the stream is a long, since the end of a sized block
is one.  The
first is a limit of the code, and the hypothesis is needed: `WriteBytes` takes any Go string,
but `readLength` compares with `math.MaxInt32` on every build (`avro.go:307`), so on a 64-bit build a
writer emits strings of 2^31 bytes and more which every reader refuses.  (On a 32-bit build no
string is so long.)  Where no hypothesis says it, the values do: the generic codec encodes any
value with `Strings` in it, and `ValuesReadBack` and `TornValuesAreReported` are about those with
`ShortStrings` only.  `TooLongIsRefused` is what remains for the others: they are reported, and
no part of one is taken for the value.  The safety of delivery (`YieldsWhatWasWritten`, the
refinement, `DeliversOnlySent`) needs no such bound.

The array stream.  `StreamProofs` shows that `PutVarint` of a long yields one to
`MaxLen` bytes and that whatever bytes `ReadLong` is given it returns a long;
the value of a varint is a recursive function over its length, and the
induction is done by the least counterexample, since the library's induction
theorems take an operator as a parameter.  `GroupsAddUp` is the step
of that induction that matters: after `i` turns the loop of `ReadLong` holds the
encoded number modulo `Weight[i]`.  It then lifts this to the
reader: `ReaderInv` says that the record has its types, that the reader stands on the
stream (`off <= Len(wire)`), and that it is aligned with a sized block it just finished.  The types alone
are not inductive: `off` is a natural number only because a discarded distance is not
negative, and the items remaining only because a sized header refuses the one
count that has no magnitude.  `ForeignArrayProofs` shows that `ReaderInv` holds
of the streams other producers write.

For the pipe the writer needs more.  `WriterInv` adds to `BufferBounded`,
`OffsetCounts` and `WriteArrayNilMeansComplete` what relates them: while nothing
failed the items accepted are the ones offered; a closed writer has sealed the
array and has not failed; the pending count never exceeds what was offered.
(What is offered to a closed writer is not in `offered`; finding 2 is about that.)
Each write is shown to let the stream grow (`Grown`), by at least as
much as the offset moves, and by exactly as much if it did not fail;
`IInv == WriterInv /\ ReaderInv` and the reader's place is on the stream, which
`Lose` respects because it only takes bytes the reader does not have.

Delivery needs to know what the bytes mean.  The second half of `ArrayPipeProofs` speaks of the
ideal stream: what the writer would have sent if nothing was cut or lost, a
sequence of which the wire is always a beginning.  A layout `L` says of each item
in it where it lies, how many items of its block are left and where the block
ends; `Layout` says that the ideal stream holds these items there, between the
headers of their blocks.  `Kept` relates it to the writer: while nothing failed,
the items laid out and the pending ones are all that were offered, and the
array is sealed only if its terminator follows them.  `Reading` relates it to the
reader: its offset, its items remaining and its block end are those of
the next place of the layout.  `Taken` says that it took what was offered at the places
before, and `Delivered` that such a stream and layout exist.  It is kept by a flush, which
appends a block to the ideal stream while the sink takes any part of it; by a
loss, which takes bytes of the wire but none of the ideal stream; and by each
read, where `LongIsReadBack` turns the bytes of a header or a length into the
number written, and `CutLongIsReported` a cut one into an error.  An error never
moves the reader to another place, so what is read on a stream that breaks is
still what was written.  The items need no bound for this; `EndIsTold` does,
since `ReadBytes` refuses a length that is no int and `discard` a distance that
is no long, and then the error is not `TruncatedArrayError`.  `Told` adds which
error the reader holds when nothing failed.
The refinement follows: a step of the writer sends an item, finishes the
array or only moves bytes, and a step of the reader receives an item, passes over
the rest of a block, learns the end or an error, or only reads a header.

Other producers.  Their array is on the wire from the start, so where everything
lies is a function of it: `Cuts` are the borders between the parts of a flattened sequence, and the
same lemma (`BordersExist`, over `FlattenPath`) gives the borders of the blocks
on the wire, of the items in a block, and of the blocks' items in the contents.
`AtItsPlace` says that a reader that has passed `m` items stands before a block, in one with `j`
of its items taken, or behind the terminator, and that `m` counts just those items.  `HeaderRead`,
`DecodeInOne` and `DiscardAtPlace` take it from place to place; the size of the
block is what makes the last item of a sized block end where the reader checks that it does.

Any bytes.  `CutsAreToldApart` goes over the calls of one step: from a reader that
stands on the stream, `NextBlock`, an item and a discarded block each tell a
cut in the framing, in the item, and a failing source.  `SkippingIsFasterDraining`
relates two callers who never meet: the invariant `SkipInv` says that the readers the first
one passed through form a path, from a new reader, each the `Next` of the one before, and that the second one is on that path, or
between two of its readers with the header read.  The step that matters is a
block discarded in one go (`BlockIsOnPath`): the path through the block ends at its declared
end, because the last item of a sized block is refused anywhere else.
This is why `drain.done` is needed: a path that broke off does not say where the
block would have ended.

Generic values.  `Level[n]` holds the values that nest `n` deep.  What a plan makes of one is
shown for each kind of plan from what the plans under it make of the level below, and
then for all plans by induction over `n` (`UpTo`), which replaces the induction over the trees
that values are; within a level, fields and the items of a block are followed by induction over
how many there are, along the states the loops pass through (`DecodeSteps`, `BlockSteps`).
Two facts go up the levels.  `Sound`: a decoder that returns without error at any place of any bytes
has moved on, not beyond them, and made a value its plan encodes (`Accepted`); at the end
of the bytes it returns none, if its plan must read (`ReadsMore`).
`ReadAs`: where the bytes are the beginning of those that hold the encoding `x` of `v`, the decoder
returns `v` behind `x` if all of `x` is there, and reports the end of the input if not; if
a part of `v` was refused and the bytes end there, it returns no value if it must read more.
Both theorems about what was encoded are `ReadAs` at the top level; for the whole encoding the
bytes may go on, for a torn one they end inside.  The second needs the first (`Sound`), for
the parts of a plan that come behind the place where the bytes end.  A block needs the most care (`BlocksRead`): one turn reads
the count, and as many items by `SequenceReads`, the next one the zero behind it; a count that was not
written since a map or an array is empty is that zero.  A map is decoded
into a set of pairs, and every walk of the set is a sequence without a key twice, so the last
entry of each key is its only one (`AsMapOfFlat`).

Single objects.  The argument is that of the pipe with messages for blocks.  The ideal
stream starts with the objects up to the first torn one (`Whole`), each with the border behind it
(`Laid`); what a torn message with others behind it left follows them, and nothing is said of what
the reader makes of that.  The wire is a beginning of the ideal stream.  `Delivered` says that the reader, until it goes astray, stands at the border behind what it
returned or read by hand, or has failed, and
`Answers` with which error, while no write failed and nothing was lost.  A magic and a fingerprint have fixed
lengths, so a cut header is told by how many bytes are left
of it (`CutHeadersAreTold`); that an end right behind the magic reads as an end between two objects is the code's
behaviour, and the property says so.

The compiler.  `CompileInv` holds of every set of schemas, of any size.  That
a compiled schema has no reference without pointers needs to know who may still
be unbound while the walk goes on: `PendingInv` says only the records on the
stack, `StackInv` that nothing but the root is on it at the end, `RecordsInv`
that what is bound on return was registered, and `ResolvedInv` that no
reference was passed over.  `NamesInv` adds that the two resolutions never part:
on every frame the namespace in force is the same by the code and by Avro's
rules, and so are the full names registered.  Only a record passes a namespace
on, which is why only a dotted record name breaks it (finding 3).  `UnionsInv`
is about the keys `compileUnion` compares: every branch has left its key with
the union on the stack (`KeysSeen`), and a key determines which type its branch is
on the wire (`Identity`), because a node is registered under one full name
(`NodesOnce`) and no name twice.
`WalkLeft` counts what is left to do: two steps for each node not yet entered, one for each on the
stack.  A reference is never followed while the walk goes on, so a schema that contains itself is
no reason to go on for ever (`CompileStepsRunOut`).

Decimals.  There is no state; the work is arithmetic.
`BigEndianValue` shows by induction that after `i` bytes `SetBytes` holds the number divided by
the radix once for each byte that is left (`DivStep`), and that the first bit is set if and only if the number
is at least half of what its bytes can count.  `LengthsFit` derives from `BitLen` that both
lengths of `twosComplementBytes` leave the first bit to the sign, and `PaddedValue` that
padding adds as much to the number as it adds to the power `bytesToBigInt` subtracts.  `StandsFor` is
what these have in common: bytes that stand for a number, before padding and after.
`RoomyLength` bounds the length from the other side; it holds although a negative number may get a byte more than it
needs (section 5), since the precision of a roomy fixed ends just before the one number that would need all its bytes and gets one more.

The tokenizer.  `ScanInv` says what each `tokenizerAction` relies on when it is
entered: that what it backs up over is exactly what was looked at since the
last token (`Begun`), that the rune it captured starts its token (`Started`), and
that only white space lies before it (`Between`).  `LexInv` adds which rune opened
the token (`Opened`): a lexeme starts with what made its action be entered and
ends where the action stopped.  For positions, `PosInv` says that the
tokenizer's own position, and that of each token, is the one the property computes from the runes
before it, but for the column behind a block comment; `Fits` and `Behind` allow for the runes looked at and not yet
taken.  The property computes it with `FoldLeft`, which takes the greatest index off a set;
`FoldIsPath` shows that this is one move per rune, from the first to the last.

The parser.  The proof splits the productions by the two ways they have of getting at
a token, reading it and looking at it; `Lookahead` says that a token that was
pushed back is the last that was pulled, and that every other one pulled was
taken; so none is ever overwritten in `pending`.
For `ParserStepsRunOut` every token not yet taken is worth five steps, and the production at work
as many as it may look ahead before it takes one (`Looks`).  A call returns to a place that looks ahead
more often only behind a token it took; that is known from the shape of the stack of
calls (`CallsInv`).

Checked by TLC only:

* `FilesReadBack`, `DeclarationsAreWhole`, `ExtraTokensShow`, `MeaningIsKept` and
  `ParsedSchemasSettle` (`IdlFiles`, `SchemaForms`): schemas and files are trees, and what
  prints and parses them is recursive; it would need induction over data.
* `DecodesAsArrayReader`: it relates the two readers of arrays step by step, with
  the sizes that one of them checks and the other does not.
* `TooLongIsRefused`.  `DecimalRoundTrip` and `RoomySchemaNeverRefuses` are proved as statements about
  values, without the bytes they are checked along with.
* Liveness (`EventuallyAnswered`, `ClosedIsDelivered`, `CompilationEnds`,
  `ParsingEnds`), which is beyond this prover.  Of the last two the half that is safety is proved,
  for every schema and every sequence of tokens: the steps run out (`CompileStepsRunOut`,
  `ParserStepsRunOut`).  That some step is enabled until the end is what TLC adds.

## 5. Findings

1. `avro.go:232` says `ErrOverflow` "is returned when a varint or integer value
   exceeds the expected range", but `ReadLong` (`avro.go:269`) drops six of the
   tenth byte's seven bits and returns some other long (run `varint_overflow`).
2. `array.go:298` says "Once Write returns an error, every later call to Write or
   [ArrayWriter.Close] returns that same error", but `ErrArrayWriterClosed` is not kept
   (`array.go:304`): the `Close` behind such a `Write` returns nil (`array.go:334`), and so does a
   `WriteArray` (`array.go:384`) whose callback closed the writer, offered an item and ignored the
   error.  The array is complete but for that item (run `array_writer_errors`).
3. `generic/codec.go:28` says that unqualified references use the enclosing
   namespace, "matching Avro's name resolution rules", but a record named `x.B`
   with an empty `Namespace` compiles its fields in the namespace outside it
   (`generic/codec.go:237`): a reference to `A` in it means `A` and not `x.A`
   (run `generic_dotted`).  Without dotted record names there is no difference
   (`UndottedResolvesAsAvro`).
4. `idl/tokenizer.go:19` says that `Pos` "represents the position of a token in the input"
   and `:85` that `pos` "tracks the current position in the input", but `copyUntil` returns at the
   end of a block comment before it moved the position over the last rune of it
   (`idl/tokenizer.go:165`): behind it a column is one short for each block comment that
   ended on the line (run `idl_positions`).

Four more disagreements have no run of their own.

* `schema.go:61` says that a `Ref` is "distinct from the primitive schemas so that name resolution
  is unambiguous".  In JSON it is not: a `Ref` named like a primitive type, without a namespace, is
  written as that type's name and comes back as the type.  `IsSayable` names it among the
  schemas that `MeaningIsKept` is not about, and without it TLC finds it.
* `generic/codec.go:902` says that `twosComplementBytes` "returns the minimum-length two's-complement
  big-endian byte representation of x", but a negative number whose magnitude fills its bytes
  gets one byte more: -128 is `FF 80`.  Decoding is not affected (`DecimalsReadBack`); a fixed in which
  the value fits refuses it with `DecimalSizeError`, unless its precision is lower than
  its size allows (`RoomyFixedTakesAll`).
* The parser of schema JSON has finding 3's flaw as well (`schema_json.go:405`): what a record named `x.B`
  with no namespace declares is put into the namespace around it.  `IsSayable` leaves such records out.
* `canonical/canonical.go:159` puts the name of a reference or a primitive type between quotes as it is: if
  it has a quote in it, `Marshal` returns an error (`Quoted`), although `Unmarshal` reads such names.

Limits that no text of the repository denies, as the properties state them.

* Single objects: behind a message that was left torn the next one is taken for the rest of it, so
  that a value made of parts of both may be returned without an error; and a call that is made after an error
  takes whatever comes next for a header.  `DeliversOnlySent` stops at either (`Whole`, `strayed`).
* Printing (`ReadsBack` in `IdlFiles`): a type named `array`, `map` or `union` is
  printed without backticks; a union with null inside another type is printed as
  `T?`, which the parser takes only for a field or a schema (`array<int?>` is
  refused); `1.0` comes back as the integer 1, and a float from 1e21 on is written with an
  exponent that the tokenizer refuses; a doc comment that starts with a star
  loses it; empty enums, records and unions are refused.
* Parsing (`IsStray`): a comma after the last value of an enum or the last member of a
  union is dropped, and so are doc comments and annotations before the closing brace of a record
  (`idl/parser.go:1553`) or after the last declaration (`idl/parser.go:944`).
* Torn values (`ReadsMore`): if a part of a value is refused, and nothing that takes a byte
  comes behind it in its record, what was written before it reads as a whole
  value.  The last field of a record decides, and every branch of a union must agree.
* The generic decoder (`DecodesAsArrayReader`) accepts a block count of
  `math.MinInt64` as an empty block, and a block whose declared size is wrong.
* Schemas (`SchemaJson`): `{"type": null}` is a reference with an empty name; nil
  `Fields`, `Symbols` and `Types` are written as null, which is not parsed again; a null among the symbols
  of an enum is the empty symbol; a duration without a name gets one; a name that a dot begins or
  ends is not read as it was written (`x.` is written as the empty text, `.A` loses its
  dot); whole numbers beyond 2^53 in defaults are rounded.

## 6. Not modelled

* `fingerprint.go`: a table-driven CRC whose bits mean something only at the full
  width of 64 and over the exact canonical text, both of which the models
  abstract.  `SingleObjects` takes fingerprints as given and different.
* Floats and doubles as numbers: they are fixed-size reads and writes around a
  cast of bits, and `GenericCodec` has their bits for values.  A decimal inside
  another value: `Decimal` has its encoding, and its plan adds no state.
* Errors of an `io.Reader` other than the end of the input, in the tokenizer: they end the
  tokens as a refused rune does.
* Texts: the wording of errors and the positions inside them, documentation and
  alias attributes of schemas (copied, and read by nothing), quoting in JSON,
  the layout of printed IDL.
* A record that contains itself with neither a union nor an array between
  (`generic/codec.go:268`): it compiles, as in `GenericCompile`, and `GenericCodec` lets its
  decoder end in the stack overflow that it ends in; no property is about when.
