# Bibliotek in TLA+

Bibliotek is an Objective-C, C and Swift library that reads, writes, fetches and
classifies library records in the MARC format. These modules model the part of it where
order, failure and state matter most: the streams that turn records into data and data
into records, the records themselves with their copies and edits, and call numbers, from the
string they are read from to the shelf they are put on. TLC checks the models on small
instances. TLAPS proves the central results for every value of the constants: about the
MARC 21 reader, the writer, both on one file and the batch functions beside them, the bytes they exchange, the stream that
chooses its reader, MARCXML written and read back, character conversion, the parts of records'
fields, the agreement of objects and values and of searching them, and the comparison of call numbers.

Paths below are relative to `src/Bibliotek/`; `Ser/` stands for `Serialzation/` (the
repository's spelling).

## 1. Inventory

| component | state it keeps | operations |
|---|---|---|
| MARC 21 reader, `Ser/BibMARCInputStream.m`, `Ser/BibMARCSerialization.m` | wrapped `NSInputStream`, a copy of its status, an error | `open`, `close`, `readRecord:`, `readRecord:error:`, getters |
| MARC 21 writer, `Ser/BibMARCOutputStream.m`, `Ser/BibMARCSerialization.m` | wrapped `NSOutputStream`, a copy of its status, an error | `open`, `close`, `writeRecord:error:`, getters |
| MARC 21 batch functions, `Ser/BibMARCSerialization.m` | none | `recordsFromData:error:`, `dataWithRecord:`, `dataWithRecordsInArray:` |
| MARC 21 byte layout, `Ser/BibMarcIO.m` | none (plain C structures) | write and read a leader, directory and fields |
| MARCXML reader, `Ser/BibMARCXMLInputStream.m` | libxml2 text reader, status and error of its own, which root was read | `open`, `close`, `readRecord:error:` and one method per element |
| MARCXML writer, `Ser/BibMARCXMLOutputStream.m` | libxml2 text writer with its buffer, status, whether the document has started | `open`, `close`, `writeRecord:error:` |
| base class and inference, `Ser/BibRecordInputStream.m` | peeked bytes, the stream that was chosen | choose a reader by peeking, forward the calls |
| character conversion, `Ser/BibCharacterConversion.m` | an iconv converter, kept for many strings; a growing buffer per string | `bib_char_convert` |
| records and fields, `Record/BibRecord.m`, `Record/RecordField/*.m`, and the Swift values `*.swift` beside them | leader, fields, subfields; lazily mutable arrays | bridging, copies, mutable copies, replacing, inserting, changing a tag, searches by tag, range, code and path |
| call number comparison, `Classification/bibtype.c` | none | comparison of each segment, with and without specification |
| call number lexer and parser, `Classification/biblex.c`, `bibparse.c` | a position in a string, copied to look ahead | one function per token and per segment |
| call number objects and printing, `Classification/BibLCCallNumber.m`, `bibtypeio.c` | the parts of one call number, never changed | creation from a string, the string in a style, comparison, inclusion, `isEqual:`, `hash` |
| connection and record list, `Connection/*.m`, `RecordList/BibRecordList.m` | a YAZ connection, whether it is ready, a result set | `open`, `close`, fetch, process events, fetch records by index and range |
| JSON decoding, hashing, Swift overlay | none that an order of calls could disturb | conversions |

How they interact. A record stream wraps a Foundation stream that somebody else created
and still holds: its creator can open or close it at any time, so the record stream's copy
of the status can be out of date. A MARC 21 stream calls the serialization, which reads the
24 bytes of a leader, then the rest of the record, and calls the byte layout. The MARCXML
streams hand the Foundation stream to libxml2, which reads ahead and writes behind. Reader
and writer meet in the data: a file may be read while it is written, and may be appended
to by several writers in turn (`initWithFileAtPath:append:`). Field contents pass through
character conversion. The inferred stream peeks at the data and forwards to one of the
readers; a record list decodes what YAZ returns through it.

What is hard. There are no threads of the library's own. The difficulty is in *partial
failure* (short reads from a pipe, a disk or buffer that is full, data that ends inside a
leader, a body or an element), in *copied state* (two statuses for one stream), in
*ordering* (reader and writer on the same data, in any interleaving), in *crashes* (a writer
that stops in the middle of a record, followed by another), in what the several ways to ask
the same question answer (`readRecord:`, `readRecord:error:`, batch), and in *numbers of
fixed width* (sizes of four and five digits). `PROJECT.json` lists each hazard at its line.

What makes each component correct:

- reader: it returns the records the data is made of, from the start and without a gap,
  until it says otherwise; it says that it is at the end only when it is; it ends;
- writer: a record it accepted is in the data, whole; what it refused leaves no trace but
  a record cut off, and nothing of the same stream follows that;
- both: a channel that loses, repeats, reorders and invents nothing without telling;
- layout: reading inverts writing, for any number of copies, or refuses;
- MARCXML: the same, through a parser and a buffer that are ahead and behind;
- conversion: the result is the whole string and no other, in a buffer that is large enough;
- inferred stream: once it has found a reader, nobody can tell that it has looked at the data;
- records: a field has the parts its tag calls for, whatever tags it has had; object and Swift
  value stay bridged to each other; every way to search finds the same;
- comparison: a total order on the shelf, which inclusion agrees with;
- lexer, parser, printer: every part of a string is in the call number, no part is lost or read
  twice when an attempt to read it as another kind fails, and a string a call number gives is
  read as that call number again;
- connection and list: an index returns its record; ready means that a fetch may succeed.

## 2. Modules

| module | models | state and actions |
|---|---|---|
| `SerializationStreams` | `Ser/SerializationError/BibSerializationError.m` and the statuses of Foundation streams (external) | operators only |
| `MARCFraming` | a record as leader and body: `BibMarcLeaderRead`, `BibMarcRecordRead`, `BibMarcRecordWrite`, as far as framing goes | operators only; `IsChain` is the reference definition of "cut into records" |
| `MARCInputStream` | the reader | `inner` is the wrapped stream's status, `own`/`ownError` are `_streamStatus`/`_streamError`, `pos` how much has been read. `Open`, `Close`; `ReadRecord` is one action per way a call can return (`NoBytesAvailable`, `LeaderUnavailable`, `LeaderMalformed`, `BodyUnavailable`, `BodyMalformed`, `RecordRead`, `ReadUnopened`); `OwnerOpens`, `OwnerCloses` are the creator's |
| `MARCSerialization` | `recordsFromData:error:` as a function of the data | operators only |
| `MARCDecoding` | | the property that relates the function to a stream on the same data |
| `InferredInputStream` | `Ser/BibRecordInputStream.m`: the choice of a reader, the buffered and the unknown stream | extends the reader; `source` is the initialiser used, `reader` the class of `_recordStream`, `peeked` the length of `_peekData` not yet read, `stopped` whether an exception ended it. `OpenAndChoose`, `OpeningFails`, `PeekFails`, `CloseUnchosen`; `ReadBehindPeek` and `ReadThrough` are the forwarded calls of a MARC 21 reader |
| `MARCOutputStream` | the writer | as the reader, with `sink`, and `NextSession`: a new stream that appends to the same file, after a close or a crash |
| `RecordChannel` | *abstract*: what two parties promise each other | `Send`, `Receive`, `Fault`, `Tear`, `ReceiveJunk` |
| `MARCPipeline` | reader and writer on the same data | the steps of both, interleaved |
| `RecordLeader` | `Record/Leader/BibLeader.m`, `BibRecordKind.m` and the values of the positions that depend on the kind of record | operators only: a leader read from data, put back, and changed by the setters of kind and level |
| `MARCRecordLayout` | `Ser/BibMarcIO.m` and the marshalling in `Ser/BibMARCSerialization.m` byte by byte, with the leader beside the sizes | a client copies a record of its own (`Created`) or one that another program laid out (`Received`): `Describe`, `Write`, `WriteWithoutLeader`, `Read` |
| `CharacterConversion` | `Ser/BibCharacterConversion.m` | `Start`, then a step per return of `yaz_iconv`: `ConvertSome` (no room), `ConvertRest`, `Fail`, `FlushNeedsRoom`, `Flush` |
| `MARCXMLDocument` | what the writer emits for a record; the reader's recursive descent as a state that takes one node after another | operators only |
| `MARCXMLOutputStream` | the writer and libxml2's buffer | `document` is what libxml2 was given, `flushed` how much of it reached the stream |
| `MARCXMLInputStream` | the reader | `at` is the text reader's node, `root` stands for `_didReadCollectionElement` and `_didReadRootRecordElement` |
| `MARCXMLPipeline` | a document handed over at any moment | `HandOver`; then the writer's process is gone |
| `CallNumberSegments` | the comparisons of the parts of two call numbers, `Classification/bibtype.c` | operators only: each takes the result of the parts before it |
| `CallNumberComparison` | `bib_lc_calln_compare`, `compare:` and `includesCallNumber:` | `result` and `opposite` are the comparison of one pair asked in the two directions, `shelf` that of `compare:`, which looks for no specialization; `CompareSegment` a step per part, then `CompareRemainders` |
| `CallNumberLexer`, `CallNumberParser` | the readers of `Classification/biblex.c` and the parts of `bibparse.c` | operators only: each takes a string and returns whether it read something, what, and the rest |
| `CallNumberPrinting` | `Classification/bibtypeio.c` | operators only: a call number and a style to a string |
| `LCCallNumber` | `Classification/BibLCCallNumber.m` | specification `LCSpec`: `InitWithString`; `StringWithFormatOptions`, whose string is the next one's |
| `RecordFields` | a Swift `RecordField` and `Subfield` and their setters, `Record/RecordField/RecordField.swift` | operators only |
| `RecordFieldObjects` | `BibRecordField`, `BibMutableRecordField` and their bridging, `Record/RecordField/BibRecordField.m` | operators only |
| `RecordSearch` | searches by tag, code, range and path, of objects and of values | operators only |
| `Records` | records under several names, each an object and the Swift value that is edited alongside | `objects` is the heap of field objects, `records` and `values` what a name stands for, `kin` which records may share fields. `Bridge`, `MakeCopy`, `Read`, `BridgeBack`, `SetFields`, an action per edit of a record and, in `ChangeField`, per setter of a field |
| `MC*` | instances for TLC | |
| `*_proofs` | theorems about the module of that name (section 4); `InputStream_proofs` is about both input streams of MARC 21 records, `CallNumber_proofs` about `CallNumberComparison` and `LCCallNumber` | |

Abstractions. In the stream modules a unit of data is a position, not a byte: the digits of
the length, those of the base address, the directory, a terminator, or any other content.
A damaged record differs from an intact one in the unit the code looks at. In
`MARCRecordLayout` a unit is a byte, but contents are short runs of it, and a leader's layout (the
counts and digits that MARC 21 fixes) is one of three: as the standard says, different where
`BibLeader` does not look, or different where it does. In the MARCXML
modules a unit is a node of libxml2's text reader. A call number is what the parser leaves:
a date has a year, a cutter number a letter, a volume a prefix; integers and years are the
numbers `atoi` reads, and texts sequences of ASCII codes. For the lexer a string is a sequence
of ASCII codes with its NUL, since what a character is decides everything there, and the
fixed-size buffers of `biblex.h` cut and overlay texts as they do in the code. In `Records` a leader, a
value, an indicator and a subfield's content are members of small sets. Wording, logging, key-value observing
and memory management are left out everywhere.

`NSStreamStatusOpening`, `Reading` and `Writing` are left out: Foundation reports them only
during a call on the same stream. External code is modelled by what the library relies on:
a read returns at most what was asked for, a pipe may return less; memory is at its end with
its last byte, a file after a read that returns nothing; what `close` leaves of a stream
that never opened or has failed is left open. libxml2 may hold back any number of nodes, takes a
write of zero bytes for success and a negative one for the last; iconv may hold back the
last character and add an escape sequence when flushed.

`assert()` and `NSParameterAssert` are taken to be active. A body that cannot be decoded
therefore stops the process (`BodyMalformed`) before the lines that would return an error
for it (`Ser/BibMARCSerialization.m:117-121`). In `InferredInputStream` an exception that nothing
catches, and a write outside the caller's buffer, stop the model: `stopped`.

## 3. What TLC checks

| run | question | bounds |
|---|---|---|
| `marc_input` | does the reader keep its promises on any file, and do stream and batch agree? | every file of up to two records of 4 or 5 units, each intact or damaged in one of five ways, cut off at every unit; memory, file, pipe |
| `marc_output` | does the writer leave only whole records and torn ones? | records of 4 and 5 units, buffer of 10, file of up to 13, three streams in turn |
| `marc_pipeline` | do both implement `RecordChannel`? | two streams writing up to 10 units, file and pipe |
| `marc_layout` | is reading the inverse of writing? | records of up to three of 15 fields, and one whose length wraps; lengths of two digits, field lengths of one; two copies; leaders of each layout, a kind and a level that the client may set |
| `character_conversion` | is the result the whole string, and does the loop end? | two strings of up to four of four characters; growth by 2, 4, 6, ... |
| `marcxml_pipeline` | is what was written, or cut off, read back as a prefix? | up to two of five records, cut off at every node, eight documents from elsewhere |
| `inferred_input` | does a stream that has looked at its data behave as one that has not? | files of up to two records whose leaders have four units, five kinds of damage, two beginnings of documents, cut off at every unit; streams in any state, data, paths |
| `records` | do fields keep the parts their tags call for, and objects and values agree? | four names, one record of a control and a data field, five tags (000, two control, two data), two edits; names are symmetric |
| `call_number_strings` | is every part of a string in its call number, and is its string read back? | 6840 strings: eight captions, fifteen cutters, nineteen first specifications, three rests; five styles; sixteen call numbers to be equal to, which differ from them in each thing that `isEqual:` does not look at |
| `call_number_comparison` | is the shelf order a total order, and does inclusion agree with it? | every pair, and by the operators every triple, of 62 call numbers, in both directions, with and without specification |
| `marcxml_lost_at_close`, `ascending_out_of_order` | does the code do what its header says? no (section 5) | as above |

Why the bounds are enough. A reader's step depends on one record and on whether anything
follows: two records, the first of which may claim the length of both, give every
combination of a good, a damaged and a missing successor. Two writing sessions are needed
for a record appended to a torn one, a third for one behind that. In the layout, sizes of
one and two digits put every limit within reach: fields of 9 and 10 bytes, records below
and above 100. The first digit of a size takes what the others leave and wraps to eight bits:
most records that are too long get a byte there that is not a digit, and one, of 2584 bytes, is so long
that the byte is a digit again. It is read back as another record (section 5); `IsShort` in
`ReadBackIsOriginal` and `CopiesAreExact` excludes such lengths, 256 times the power of ten of the first digit and more.
A content or a code may be a delimiter, which the code does not escape: `ReadBackIsOriginal`
and `FittingIsReadBack` are stated for subfields without them, `CopiesAreExact` for all. A
converted character of five bytes needs more than the first growth gives. The call numbers
vary every kind of part against what comes before and behind it: missing, equal, a prefix,
different, of another kind, and with dates at each place that may have one. What a
comparison knows of the parts before is one of five results, so that a part and one before it
suffice to reach every case; three numbers are what transitivity takes.

A leader of four units is the shortest that keeps apart the two units of a document's signature, the
three an XML parser asks for first and the whole leader. Four names are a record that was
bridged, its mutable copy, a copy of that, which shares its fields, and a copy of the copy. Two edits are what it takes to give a field one tag and then a second, or to edit a shared field
under two names; 000, a control and a data tag, each with a second of its kind, are all the
transitions between kinds of tag there are. The strings are put together from parts of every kind the
parser distinguishes, and of forms that begin like another kind: a volume whose number goes on as a
word, a supplement without a number, a span with a mark that runs into a cutter, words longer than
the buffer of a volume's prefix.

The properties:

- `FramedUntilComplaint`, `EndIsComplete`, `NoUnitDecodedTwice`, `ReadingEnds`,
  `WaysOfDecodingAgree` (reader). `complained` is history: some read has returned an error
  other than the end. The code does not resynchronise after an error, so what follows one
  need not be a record of the data; `NoUnitDecodedTwice` holds even then.
- `AcceptedIsWhole`, `OnlyTornRecordsLeaveGaps`, `NothingFollowsATornRecord` (writer).
- `ImplementsRecordChannel`, `DamageIsConfined`, `BatchReadsAllAccepted` (pipeline). The
  refinement maps `sent` to the accepted records, `received` to the delivered ones,
  `faulted` to `complained` and `torn` to whether some session was cut off.
- `ReadBackIsOriginal`, `FittingIsReadBack`, `CopiesAreExact`, `WrittenIsFramed` (layout). Copies are
  exact with their leader, but for a layout that `BibLeader` takes although MARC 21 does not: a copy
  puts it right. `FittingIsReadBack` leaves out the leaders that `BibLeader` refuses (section 5).
- `RoomIsAccounted`, `ResultIsTheString`, `ConversionEnds` (conversion).
- `DeliveredIsPrefix`, `EndIsComplete`, `RoundTrip`, `FailureIsFinal` (MARCXML).
- `ReadsAsPlainReader` (inferred stream): a refinement. Every step is one a `BibMARCInputStream` on
  the same data may take, whose place is `pos` less what is only peeked. The two ways in which the
  buffer does show are named in the statement (`OpenedByAnother`, `EndsWithThePeek`).
- `FieldHasItsParts`, `ContentFitsItsTag`: what "never nil" and "nil" in `BibRecordField.h` say,
  for objects, and that an encoded field can be decoded, for values. `ObjectsAgreeWithValues`:
  object and value that were edited alike are still bridged to each other, unless a field of a
  mutable record was shared or one of three tag changes was made that the two define differently
  (`TagParts`). `SearchesAgree`: places in a range, first and last places and paths are the same in both.
- `MadeIsComparable`: the comparison's assumption about call numbers is what the parser guarantees,
  for its own strings and for those the printer makes.
  `StringIsReadBack`: parser and printer are inverse, except for what a string does not tell
  (`IsTold`, four cases). `StringKeepsTheCharacters`: making a call number and asking for its string
  loses and repeats no letter or digit. `EqualNumbersPrintAlike`: how far `isEqual:` and `hash`
  can differ: the strings of equal numbers differ in case, in zeros before the caption's integer and before the end of
  a span (`1990-95` and `1990-0095`: years are compared by `atoi`, `bibtype.c:423-446`, and a span ends with two or four
  digits, `bibparse.c:409-429`), in the `-` or `/` of a span and the point of `Suppl.`, and in nothing else (`Significant`).
  The run has a pair of equal numbers for each of these.
- `ShelfOrderIsAntisymmetric`, `ShelfOrderIsTransitive`: `compare:` is a total order.
  `AncestorsComeFirst` (after every part, not only after the last), `InclusionIsTransitive`, `InclusionIsAntisymmetric` and
  `DescendantsAreContiguous`: what a call number includes stands together behind it.
  `DecisionIsFinal`: what a part decides stays decided. The exceptions in the statements are
  the code's, and each names only the call numbers concerned. Dates are still compared
  after one number has become the other's ancestor (`LateDates`), unlike all other parts,
  which must be missing on the ancestor's side; the result can then be ascending in both
  directions, and inclusion is not transitive. Where one number has become the ancestor and
  its remainder goes on where the other's has ended (`Outlasts`), what it goes on with is
  not looked at. Spans of two ends stand beside each other before the year that begins
  both (`OtherSpans`), and so do volumes of which one has an "etc." (`OtherEtc`).

Each has a mutant in `PROJECT.json`: a plausible bug in a definition it depends on, which
makes TLC find a violation.

Fairness. `marc_input` assumes weak fairness of the client's read: a client that
loops until a read returns nothing, which is how `recordsFromData:error:` itself reads.
Nothing is assumed of `open`, `close` or the stream's creator. `character_conversion`
assumes weak fairness of the conversion's own steps, a loop that nothing interrupts. The
other runs check safety alone. Deadlock is checked where a step is always possible; the
other systems do stop, at a bound, at an assertion or when the data has been read.

## 4. What is proved

Assumptions are the named `ASSUME`s of the modules: a leader has at least two units and a record
more than its leader (`FramingAssumption`), data is made of such units (`InputsAssumption`), record
lengths fit (`OutputAssumption`, `PipelineAssumption`), call numbers have the types of `bibtype.h`
(`CallNumberAssumption`), a parser asks for something (`ParserAssumption`), a string to convert holds no
NUL and a buffer that grows grows by something (`ConversionAssumption`), `Nil` is none of the values a
field or record may have and the records and fields a client starts from are sound (`RecordsAssumption`);
a record written as MARC 21 is a sequence of fields with the parts their tags call for, and the length of a
record has at most one digit more than that of a field (`LayoutAssumption`; five and four in the code), so
that where the length of a record fits, that of a field does not wrap;
a record written as MARCXML has a leader that is not blank, as `BibLeader` wants digits in one, tags, and one value per
control field (`RecordShapeAssumption`), and a document from elsewhere was not written here (`DocumentsAssumption`).
TLC evaluates each of them, and `FormatAssumption`, that the kinds of record are those with a format. The constants are
otherwise arbitrary: any data, any number of sessions, names and edits.

| theorem | states |
|---|---|
| `InputStream_proofs`: `TypeCorrect`, `Framed`, `CompleteAtEnd`, `DecodedOnce` | the reader's `TypeOK`, `FramedUntilComplaint`, `EndIsComplete`, `NoUnitDecodedTwice` |
| `DecodingAgrees` | `WaysOfDecodingAgree`: what `recordsFromData:error:` returns is what a stream on the same data has returned at its end |
| `MARCOutputStream_proofs`: `TypeCorrect`, `AcceptedStaysWhole`, `GapsAreTorn`, `TornIsLast` | the writer's `TypeOK`, `AcceptedIsWhole`, `OnlyTornRecordsLeaveGaps`, `NothingFollowsATornRecord` |
| `MARCPipeline_proofs`: `StreamsAreAChannel`, `DamageStaysBehind` | `Spec => ImplementsRecordChannel`, the refinement; `DamageIsConfined` |
| `BatchReadsAll` | `BatchReadsAllAccepted`: the batch function reads a file nothing was cut off in as the records that were accepted, in order |
| `CharacterConversion_proofs`: `RoomStaysAccounted`, `ResultsAreTheirStrings` | `RoomIsAccounted`, `ResultIsTheString` |
| `InputStream_proofs`: `InferredReadsAsPlain` | `ReadsAsPlainReader`, of the inferred stream |
| `MARCRecordLayout_proofs`: `NothingElseIsRead`, `FittingStaysReadable` | `ReadBackIsOriginal`, `FittingIsReadBack` |
| `CopiesStayExact`, `WrittenStaysFramed` | `CopiesAreExact`, `WrittenIsFramed` |
| `MARCXMLPipeline_proofs`: `FailedReadsNoMore`, `WholeIsReadBack` | `FailureIsFinal`, `RoundTrip` |
| `WrittenIsReadAsPrefix`, `WrittenEndIsComplete` | `DeliveredIsPrefix` and `EndIsComplete`, for every document that a `BibMARCXMLOutputStream` made |
| `Records_proofs`: `PartsFollowTheTag`, `ContentFollowsTheTag` | `FieldHasItsParts`, `ContentFitsItsTag` |
| `RecordsFollowTheirValues` | `ObjectsAgreeWithValues` |
| `SearchesFindAlike` | `SearchesAgree`, whatever the record holds |
| `CallNumber_proofs`: `TypeCorrect`, `DecisionsAreFinal`, `ShelfOrderFromEitherSide`, `AncestorsBeforeDescendants` | every part is there when it is compared and a result is one of five; `DecisionIsFinal`, `ShelfOrderIsAntisymmetric`, `AncestorsComeFirst` |
| `ShelfOrderIsAnOrder`, `InclusionFromEitherSide` | `ShelfOrderIsTransitive`, `InclusionIsAntisymmetric` |
| `InclusionCarriesOver`, `DescendantsStandTogether` | `InclusionIsTransitive`, `DescendantsAreContiguous` |
| `MadeStaysComparable`, `ReadNumbersMayBeCompared` | `MadeIsComparable`, for the strings of a client and for those that call numbers print; the same of any text: what the theorems above assume of call numbers holds of all that are read |

**Reader.** Every action of a read of the open stream is reduced to one
`Outcome` (lemma `ReadHasOutcome`): it moves forward, inside the data, and returns either
the record that begins where it started, or an error, or the end at the end. Preservation
is then proved once for `Outcome` (`ReadPreservesIInv`) and not for each early return. The
properties are not inductive alone. `EndIsComplete` needs to know that a wrapped stream whose
status is `AtEnd` has no data left (`AtEndIsTheEnd`). It also needs to know that an error of
the reader's own always comes with a wrapped stream that is in error or closed
(`OwnErrorIsInner`): otherwise the getter could hide that there is still data, and the call
would be answered like one at the end. `IInv` is their conjunction.

That the ways to decode agree (`SameRecords`) relates the history of a stream to a loop over the same
data. `BodiesAreDecoded` is the invariant it takes: the bodies the stream has returned are those of
intact records. The loop is a recursive function of the number of records; its value after any number
of them is known because a least number at which it were not would have a predecessor at which it is
(`LeastNumber`). The same lemma takes the place of induction in all that follows.

**Writer.** Every step `Grows` the data by nothing, by a record or by the first part of one (lemma
`StepGrows`), and the invariants are kept by each of the three. That a stream never writes
behind what it cut off needs `TornIsFinal`: once a record was cut off in this session, the
wrapped stream has been opened, so that it cannot be opened again, and the writer's own status
stays `Error` until both are `Closed`.

**Pipeline.** The steps of both are reduced again, to `GrowsByRecord` and `GrowsByPart`, to
`Complains` and `Delivers`. The refinement needs that what is delivered was sent, and that nothing
sent is skipped. A reader takes whatever begins with a length for a record; `LengthsAreStarts`
says that before anything was cut off a length only stands where an accepted record begins, and
`AcceptedInOrder` that two of them do not overlap. `DeliveredIsBehind` and `NoneIsSkipped` place
the reader among them. `ChannelStep` maps each step of `PInv` to one of the channel or a stutter.
`AcceptedIsAll` says that before anything was cut off the accepted records are all there is in the
data; then the batch function finds each of them where the one before it ends.

**Inferred stream.** `PeekInv` adds to the reader's type that nothing was read before a reader is
chosen, and that what is peeked, as long as it is, is the whole leader of the first record: then
the first read asks for exactly that, the only case in which `read:maxLength:` is defined. The
steps of choosing a reader, of the creator, of forwarded reads and of the one read behind the peek
are each simulated by a lemma (`...IsSimulated`), under the refinement mapping of `Plain`.

**Layout.** `IsAt(part, at, whole)` says where a part of the data is, and `IsLaidOut` what is where in a record that
was written (`LayoutIs`). The writer's loops that add up sizes and the reader's offsets meet there: the parts of a flattened sequence
lie at the sums of their lengths (`FlattenAt`). A size below 256 times the power of ten of its first digit is read as what it was, or not at all
(`SizeIsReadBack`), so that a read that succeeds reads the fields from their own bytes, whether or not anything
fits (`LaidOutIsRead`); if everything fits, it does succeed (`FittingIsReadable`). Two lemmas are about the loop over subfields: those that
were read are laid out as the bytes they were read from, whatever delimiters those hold (`SubfieldsReadAreExact`), and without
delimiters inside they are the ones that were written (`PlainAreRead`). The first is what makes a copy
exact although the record it was made from is not the original. None of the four properties is
inductive; `LayoutInv` is. It says that the data going round is always what the original would be written as
(`IsCopied`), of a record just read that it would be written as the same bytes, and of the leader that it is one that
`BibLeader` takes, or that came from elsewhere. A code and a content may be any bytes in the theorems. In the code they are C strings, which a
NUL would end; the theorems are about more than it can hold.

**Conversion.** Every return of `yaz_iconv` moves characters from the string to what is held back, and from there
to the result: `ConvertInv` and `FlushInv` say that what was written, what is held and what is left make the
string, with its NUL and the escape sequence that flushing adds. `RoomIsAccounted` is part of the
inductive invariant, since a conversion only writes what there is room for. The size of a result is
a sum over its characters; the lemmas `SizeOfConcat` and `SizesAreNumbers` are proved by `LeastNumber`.

**MARCXML.** A failed reader that takes the wrapped stream's status and says it is open again has no
text reader, or finds that stream closed or failed (`FailedIsStopped`). That a status `NotOpen` comes with a wrapped stream not opened
(`OpenedFirst`) is what excludes that it is opened anew. No assumption is made about documents here:
without a text reader nothing can be found (`NoReaderNoRecord`).

What is written is followed through the parser node by node. `Runs(R, nodes, a, b)` says that `R` has the
parser's states between two nodes, and a lemma for each node (`Takes...`) gives the next state. They are put
together for a content, a subfield, a field of each kind and a record (`...IsRead`): behind its last node
it is read, or it was not readable and refused, and before its last node no record is found
(`Underway`). A flattened sequence has its parts in their places (`FlattenIs`), which carries this from subfield
to subfield and from field to field. `Begins(nodes, starts, all)` is a document of the records `all`, or the first
nodes of one. `WritingInv` says that the writer's document is one of the records accepted, or that a write
has failed and what was flushed ends inside the record that was refused (`CutShort`): the reader
may then stand in a record that nobody accepted, but its last node is not there. `ReadingInv` says that the reader
stands behind the last record it has delivered or behind the collection's end (`StandsAt`), and `DescentFinds`
that from there a read finds the next record, the end, or nothing. Of a document from elsewhere the records it
was made from are only what the run says they are, so that the theorems are about documents the writer made.

**Records.** `IInv` says of every object that it has the parts its tag calls for, of every record
that its fields are objects that were made, and of every value that its fields are sound. There is one lemma per
setter (`...KeepsWhole` for objects, `...KeepsSound` for values) and per action.
That object and value agree (`AgreementInv`) needs more than that an edit does the same to both. `Apart` says
which records may share a field object, so that an edit of one leaves the value of another true;
`Agree` is the agreement of every pair that has not `parted`. The setters' lemmas then compare what the
two languages do to one field, whatever its tag was and becomes.

`SearchesAgree` follows from `IInv` in one state: objects and the values they are read as are a pair of lists
that `AreBridged`, and a search of one and of the other meet in the set of places they look for (`WithTagAt`,
`WithCodeAt`). A selection is a flattened sequence of options (`Selected`), so that `FlattenIs` says what it holds; the
first and the last place are that set's least and greatest (`MinIs`, `MaxIs`). Paths to subfields are flattened
once more (`CodePaths`). The contents a value has at a path are three texts per subfield, of which the
object's are every third (`EveryThirdIsContent`).

**Comparison.** `Keeps(status, next)` is what a part may make of the result it is given; it is
transitive, which carries it through the parts of a part (`SegmentKeeps`). `Mirror(a, b)` says
that two results are opposite and not a specialization; `ShelfOrderIsAntisymmetric` needs it
because without specification no part may leave a specialization behind, which the next would treat
differently in the two directions. `Agree(a, b)` relates a result with specification to the shelf
order; once two results are not the same any more, `Keeps` alone preserves it, so that each
part's lemma only looks at equal beginnings. That two texts have a first difference at all
(`FirstDifference`) is the well-foundedness of the natural numbers.

Transitivity relates whole comparisons of three numbers, which no behaviour runs side by side. `StepsAreCompare`
ties the steps of a comparison to the function that makes them at once (`InSteps` is the invariant:
what has been decided so far is what that function has at this part). For the function, each part
`Composes`: a result that goes from the first number to the second and one that goes on to the
third determine the one between the ends. `InclusionIsAntisymmetric` follows the same steps in both
directions at once (`FromEitherSide`, lemmas `...Opposed`); a comparison of dates that comes late is
the one case in which they may not be opposite, and is in the statement.

That inclusion is transitive takes the three comparisons of three numbers side by side. `Chain(a, b, c)` says of
their results up to a part that the third is what the first two make of it, and each part keeps it
(`StatusesChain`). A pair that has an ancestor already can only keep it while the ancestor lacks the
part (`Lacks`), and no date may be compared then (`NoLateDates`). The remainders at the end are followed to their last
segments (`CompareCarriesOver`). Contiguity goes the same way with `Between(p, c, s, t)`, of the shelf order of a
number and one behind it (`p`, `c`) and the inclusion of both (`s`, `t`): in `BetweenStep` only parts that
begin alike have to be looked at, and for texts this is that what a text `Begins` stands together
(`BaseIs`). The proofs showed what the runs had not: that a longer remainder and an "etc." of one
volume are exceptions too, which call numbers added to the run then confirmed, and that a date that comes late
between the first and the third number is none for transitivity; that condition was dropped.

**Call numbers from strings.** A reader `Reads(read, S)` a kind of value: whatever the buffer, it leaves a buffer, and
when it succeeds its value is in `S`. Every reader of the lexer and every part of the parser has a lemma of this
form (`LexCharsReads`, `...Reads`), and the ways they are put together keep it: the first of two, one behind a
space, one that takes in the next (`FirstOfReads`, `BehindReads`, `ThenReads`). `ReadCalln` is what all of them amount to.
What is less than obvious: a month that is read has a name (`MonthIs`), a day no more than two digits and so
is at most 99 (`NumberIs`), a cutter's letter, and not the NUL of an absent cutter, is there when a cutter is
read, and a word that is written over a volume that was tried before it still has characters, none of them
a NUL (`WordLaidOverIs`). The other half is that the printer puts no NUL in a string (`CallnIsText`), because the string
is the next one's: an absent cutter, whose letter is a NUL, must not be printed. `MadeInv` holds both.
The loop over the remainder has as many turns as there are spaces, each of which adds to the list that the one before
it has left; that such a recursion has a value is `RecursionExists`.

**Induction over data.** The library's induction theorems take an operator and are of no use to the provers
here. What a recursive function computes is proved by its least counterexample (`LeastNumber`,
and `UpTo` where a fact is carried up to a bound), over a set that each proof builds by comprehension. Theorems
about an instantiated module are stated again for the instance: the provers do not see through
`INSTANCE`.

**Only model-checked.** Liveness (`ReadingEnds`, `ConversionEnds`) is beyond the prover. `DeliveredIsPrefix` and `EndIsComplete`
of MARCXML from elsewhere, and three properties of the strings of call numbers (`StringIsReadBack`,
`StringKeepsTheCharacters`, `EqualNumbersPrintAlike`) are not proved (section 7). They are about the printer's strings, character by character, and the first two about what the
parser reads from them, with the exceptions of `IsTold`; the lemmas say of what kind a value is that is read, and not which one. No prover here knows `SelectSeq`
either: where something was proved about it, the model says what it selects.

## 5. Where the code and its documentation differ

With a run that shows it:

- A MARCXML writer accepts records that never reach its stream, and closes without an error
  (`Ser/BibMARCXMLOutputStream.m:88`; `Ser/BibRecordOutputStream.h:147-151`).
- `compareWithCallNumber:` may answer descending for a call number that `compare:` puts first:
  parts of two kinds, and two years, are put in order although an earlier part has made one
  number the other's ancestor (`Classification/bibtype.c:349`, `443`;
  `Classification/BibLCCallNumber.h:159-164`).

Met while modelling, in the models, and not stated as a run because each is a single assignment
or test. MARC 21:

- A failed read sets the status to `AtEnd`, not `Error`
  (`Ser/BibMARCInputStream.m:77`; `Ser/BibRecordInputStream.h:169-171`).
- `readRecord:error:` of the MARC 21 reader returns `YES` without a record at the end
  (`Ser/BibMARCInputStream.m:92`; `Ser/BibRecordInputStream.h:139-143`).
- A record whose leader `BibLeader` refuses (bytes 10, 11 or 20 other than MARC 21 has them) is read
  without a leader, and writing it stops the process at an assertion
  (`Ser/BibMARCSerialization.m:172`, `Ser/BibMarcIO.m:32`): `WriteWithoutLeader`.
- `BibLeader` compares one byte of the four of `4500` (`Record/Leader/BibLeader.m:28`, `69`).
- `setRecordRange:` writes each number with its digits reversed, and a length that is one too large
  (`Record/Leader/BibLeader.m:260-280`), so that `recordRange` does not read back what was set.
- A length whose first digit does not fit is not refused but wraps (`(int8_t)digit + '0'`, `Ser/BibMarcIO.m:534-544`):
  the assertion that "records cannot be encoded into data larger than" 99999 is made of a `recordRange` and not of a record
  that is written (`Record/Leader/BibLeader.m:282`). With 2 560 000 bytes or more the first byte may be a digit again and
  the length a shorter one; if a record terminator stands where it ends, another record is read back (`MCWrapping` is such a record).
- `recordsFromData:error:` returns an empty array when its first record cannot be read
  (`Ser/BibMARCSerialization.m:67`; `Ser/BibMARCSerialization.h:62-65`). `RecordsFromData` does so too; `WaysOfDecodingAgree`
  looks at the array only when there is no error.

MARCXML: an unknown element repeats the field before it (`Ser/BibMARCXMLInputStream.m:461`); an
unexpected root fails without an error (`:616`).

The stream that chooses its reader (`Ser/BibRecordInputStream.m`):

- around an `NSInputStream` that is open already it never chooses one, and `readRecord:error:` returns
  `NO` without an error (`:243`, `:305`);
- data it does not recognise, empty data included, raises an exception: the unknown stream defines
  `open:` and `close:` where `open` and `close` are called. Its status getter closes what it wraps;
- data that ends with its first leader is at its end before the reader has seen it (`:324`);
- the XML parser's first read asks for four bytes: with more peeked than that, `read:maxLength:` writes all of
  them and continues with a difference below zero; with fewer it raises (`:360-364`).

Call numbers (`Classification/`): a date's month is printed as a number, which is not read as a month;
a cutter's mark, a dated mark or an ordinal directly followed by a cutter is not read back (`QA76
1990-95a.A12B2`; `BibLCCallNumber.h:112-117`, `293-298`); a lone point before a
specification is dropped (`QA76. B2`); a day out of range is kept; equal call numbers may have two
hashes (`BibLCCallNumber.m:156`); a long word that was first read as a volume is written over it without the
terminator its header promises, and may be followed by what is left of the volume
(`bibparse.c:207-259`; `biblex.h:139-140`); two days of a month are ascending in both directions when a specialization is
known (`bibtype.c:507`, the exception in `InclusionIsAntisymmetric`); a number that has become another's
ancestor stays it when its own remainder goes on behind the other's (`Outlasts`), and what
stands between an ancestor and its descendant may not be one where spans or "etc." come in.

Records (`Record/`): `setFieldTag:` of a mutable field tests `![isDataTag] && ![isDataTag]`, so that a data tag
is not replaced by another and a control field loses its value (`RecordField/BibRecordField.m:268`;
`BibRecordField.h:229-230`); a Swift field that was 000 is left without content; the index of a field
in a range counts from the range's start (`BibRecord.h:125-130`); paths to 000 are empty for objects only; the
text of a data field joins its subfields by spaces in an object and keeps their codes in a value;
`addSubfield:` on a field made of a tag alone raises; an immutable copy of a mutable record
changes with a field they share. `recordsInRange:` fetches as many records as the range's
location says (`RecordList/BibRecordList.m:122`).

## 6. Not modelled

- MARC 21: lengths not larger than a leader (the code subtracts the leader's 24 bytes from the length
  without a test, `Ser/BibMARCSerialization.m:95`, and what follows a wrapped difference is the
  allocator's); the positions of a leader that only their own getter and setter know
  (`encodingLevel`, `recordRange`, the entry map), beyond the values they may have.
  `dataWithRecord:` and `dataWithRecordsInArray:` are writes to memory and a close.
- MARCXML: a `NULL` record pointer (`readRecord:error:` then takes every record for the
  end), elements without any attribute (an `NSParameterAssert`), warnings as errors,
  strings libxml2 refuses. A write to a stream that is not open changes nothing and has no
  action.
- Inferred stream: what a MARCXML reader reads after its parser's first request, since the buffer's own read
  is undefined for nearly every such request; `initWithFileAtPath:` of `nil`.
- Records: subfields are values, so that the subfield objects two fields share are left out, as are
  key-value observing, `NSCoder`, and giving one record a single field object of another. Indicator
  and subfield objects read and write one character at a fixed place.
- Call numbers: a `NULL` number; an empty part inside one that is there, which the parser does
  not leave; texts longer than the printer's array of 256; `bib_date_init`, `bib_cutter_init` and
  `bib_volume_init`, which nothing calls.
- Connection, fetch requests, events and record lists: whether a connection is ready, what an event
  is and what a result set holds is decided by YAZ, which is not in the repository; the code's own state is a
  flag and a pointer. A model would be one of YAZ. Their hazards are listed.
- JSON decoding, character sets and the rest of the Swift overlay: conversions without state.

## 7. Plan

What is modelled follows the order this project was planned in: MARC 21 streams, MARCXML, call number
comparison, then the inferred stream, records, and the reading and printing of call numbers. Left, by weight:

1. `RecordList` over an external result set: an index and a range return the same records.
2. The MARCXML reader through the inferred stream, once `read:maxLength:` is defined there.
3. Subfield objects on the heap of `Records`.
4. Proofs that parser and printer are inverse (`StringIsReadBack` and the two properties beside it).

The modules are written for this: parameters are constants with named assumptions, there is
one action per operation, invariants are conjunctions of named parts, and recursion over
data is a fold or a recursive function.
