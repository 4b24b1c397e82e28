# TLA+ models of ctjson5

ctjson5 (the library in `src/include`) reads JSON5 twice over: at compile time,
where a grammar (`grammar.hpp`) is run by the external engine ctlark and a
binder (`bind.hpp`) turns the parse tree into a type, and at run time, where a
hand-written recursive-descent parser (`load.hpp`) builds a `value`. The two
share no code, yet the tests and the README promise that they accept, reject
and decode alike. Writers go the other way: `serialize.hpp` at compile time,
`dumps.hpp` at run time.

This directory holds models of these parts, model-checking runs on small
instances and machine-checked proofs. Paths like `load.hpp:420` are relative to
`src/include/ctjson5`.

## Inventory

| Part | State | Operations | Interacts with | Correct when | Here |
|---|---|---|---|---|---|
| Runtime parser, `load.hpp:255-791` | `text`, `position`, `error`, the recursion of `parse_value` with its half-built containers, the string under way | `skip_whitespace`, `parse_value`, `parse_string`, `parse_number`, `parse_document`, `fail` | builds `value`; called by `loads` | returns on every text, never looks beyond the end, bounds its recursion, accepts what the grammar accepts and builds the same document | modelled: `RuntimeParser`, `NumberLexer`; the numbers it stores in `Numbers` and `Doubles` |
| `load` and `loads`, `load.hpp:795-831` | the buffered stream content, the caller's `load_error` | read loop, error with line and column | runtime parser, `std::istream` | the text is all of the stream, an error describes this call | modelled: `StreamLoad` |
| Runtime document `value`, `load.hpp:62-200` | kind, scalar fields, elements, members | `make_*`, lookup by key and index, `to`, `==` | built by the parser, read by the encoder | chains never dereference nothing; first key wins; `==` is an equivalence | modelled: `Lookup`, `Equality`, `Numbers`, `Doubles`; its tree as events in `RuntimeParser` |
| Grammar, `grammar.hpp:28-49` | none | terminals, ignored terminals, rules | run by ctlark | is JSON5 with the divergences it documents | modelled: `Json5Grammar` |
| Binder, `bind.hpp` | a decoding buffer | `decode_string`, `bind`, `bind_first_fail` | parse tree in, document type out | decodes like the runtime parser; rejects lone surrogates and names the first | modelled: `Json5Grammar` (`decode_string`), `Binder` |
| Front end, `ctjson5.hpp` | none | `is_valid`, `parse`, `loads<>`, `bind_error` | grammar, engine, binder | a document exactly for valid texts, one diagnosis for the others | modelled: `Binder` |
| Document types, `types.hpp` | none (types) | `to_arithmetic`, `get`, `contains`, `operator[]` | binder, views, writers | conversions truncate or round, and agree with the runtime ones; first key wins | modelled: `Numbers`, `Doubles`, `Lookup` |
| Views, `views.hpp`, `types.hpp:225-375` | static arrays | `view_of`, `operator[]`, iteration | document types, serializer | a miss is a null view, chains agree with `get` | modelled: `Lookup` |
| Serializer, `serialize.hpp` | a buffer of precomputed size | size pass, write pass | document types | the write pass fills exactly what the size pass counted; the result parses back | modelled: `Serializer` |
| Encoder, `dumps.hpp:359-696`, `load.hpp:203-253` | `out`, `options` | strings, members, shells, dispatch | documents of both kinds | well-formed output that loads back to the same document | modelled: `Encoder` |
| Float digits, `dumps.hpp:104-355, 462-560` | four big integers, a digit buffer | `shortest_digits`, `bignum`, `write_floating` | encoder | shortest digits that read back to the same value | modelled: `Bignum`, `Digits` |
| ctlark and ctll | tables, chart | lexing, Earley parsing | grammar, front end | (external) | modelled by what the grammar and the binder ask of it |
| Build, packaging, examples, module file | none | | | | not modelled: no state of their own |

Nothing here runs concurrently and nothing is persisted: every entry point is a
function on the caller's thread. What makes the code hard is different:

- **long sequences of legal bytes** that lead a hand-written parser astray:
  places in nested loops that must fit the document built so far;
- **look-ahead at the end of the text**: most handlers advance by several bytes,
  and a position beyond the end makes `substr` throw inside `noexcept` functions;
- **two implementations of one language** that drift apart in a corner;
- **loops that must consume something** in every iteration;
- **limits and arithmetic**: the nesting limit, number conversion, the capacity
  of the big integers, buffer sizes computed in a pass of their own;
- **results that outlive a call**: the caller's `load_error`.

`PROJECT.json` lists each of these at its line ("hazards") with the properties
that would catch it going wrong.

## Modules

| Module | Models |
|---|---|
| `Bytes` | byte classes, the words both parsers look for, scanning loops, hexadecimal digits, surrogates, UTF-8; and UTF-8 once more as RFC 3629 has it, to compare with |
| `NumberLexer` | where `parse_number` stops: outcome and message |
| `RuntimeParser` | `runtime_parser` as a state machine, one action per handler or loop iteration; its properties |
| `Document` | abstract: what a parser may write at all, an event at a time |
| `Json5Grammar` | the compile-time path as operators: regular expressions, lexer, decoder, rules; `Reference(text)` is its result |
| `ParserAgreement`, `MCParserAgreement` | the runtime machine next to `Reference`, the agreement properties; the texts TLC checks |
| `Binder` | the binder's lowering of a parse tree, first failure included, and the front end's templates |
| `BinderAgreement`, `MCBinder` | the binder's verdicts next to each other, to the text and to the runtime machine; the texts |
| `StreamLoad`, `MCStreamLoad` | `load`: the read loop over a stream, the caller's `load_error` across calls, line and column; the streams |
| `Numbers` | `to_arithmetic`: the loops over the digits and the branch for integers, and what `loads` stores for an integer |
| `Doubles`, `MCNumbers` | its branch for floating point and the whole of it, what `loads` stores for a double; the spellings |
| `Lookup` | the runtime value, the view and the typed accessors under one chain of lookups |
| `Equality` | `operator==` of the runtime value |
| `MCValues` | the documents for chains and the values to compare |
| `Serializer` | both passes of `serialize` |
| `SerializerReadBack`, `MCSerializer` | what is serialized next to what is read back through `Json5Grammar`; the documents |
| `Encoder` | the dumper, the runtime document writer, and dumpers within dumpers |
| `EncoderReadBack`, `MCEncoder` | what is dumped next to what is read back; the documents and options |
| `SortedDumps`, `MCSortedDumps` | two calls of `dumps` on containers that hold the same in different orders; the containers |
| `Bignum`, `Digits` | the big integers, limb by limb; `shortest_digits` and `write_floating` over any binary format |
| `MCDigits` | what the digits have to be, over exact integers |
| `ScanningProofs` | lemmas about `Bytes` and `NumberLexer`; induction and recursion on numbers and trees |
| `GrammarProofs` | lemmas about `Json5Grammar`: what its terminals match and how its run goes on |
| `RuntimeParserProofs` | type, bounds, nesting and progress of `RuntimeParser`; place and document agree; it implements `Document`, and agrees with `Reference` on verdict and document |
| `StreamLoadProofs` | types of `load`; it parses the whole stream and locates errors |
| `SerializerProofs` | the write pass fills the array, and what it writes is read back |
| `ValueProofs` | chains of lookups agree; `==` of the runtime value is an equivalence |
| `NumbersProofs` | conversions keep to the widths and to the digits; what they result in, for integers |
| `EncoderProofs` | what the dumpers write: ASCII where asked for, and the layout of the document |

### RuntimeParser

The variables are the members of `runtime_parser` and what its call stack holds:

| Variable | In the code |
|---|---|
| `text`, `position` | the members of the same name |
| `pc` | where control is: an iteration of `skip_whitespace`, the entry of `parse_value`, the loop of `parse_string`, the byte after a backslash, one of the tests of the object and array loops, the last test of `parse_document`, or returned |
| `after` | where control goes when the whitespace (or the string, and the whitespace behind it) ends; this tells a key from a string value |
| `stack` | the active frames of `parse_value`, that is, the containers around the position; its length is the argument `nesting` |
| `closing`, `buf` | the local variables of `parse_string` (its `out` is `buf`) |
| `out` | the document so far: the events of its traversal, with the decoded bytes of keys and strings and the spelling of numbers |
| `error` | `load_error` as `fail` leaves it |

A value that has not been added to its container yet (the locals `member_value`
and `element`, the key in `key`) is already at the end of `out`: when the code
fails, everything is dropped together, and `out` counts only when `pc` is
"accepted". `parse_number` calls nothing and loops only over bytes, so one step
takes it from start to end; the same holds for a whole comment, an identifier, a
literal, and an escape with its digits. The frame of an escape is entered by
`Backslash`, and each case of the `switch` is an action.

The two calls of `skip_whitespace` and the two tests for the closing byte at the
top of the object and array loops follow each other with nothing consumed in
between; they are one skip and one test ("member", "element").

What is left out: the values of numbers (see Numbers and Doubles), memory (every `std::string` and
`std::vector` may throw `bad_alloc` inside a `noexcept` function), and line and
column, which are computed from the offset.

### Document, and what refinement shows

`Document` is the promise that needs no text: keys only in objects and each
followed by its value, values in arrays or after keys, containers closed in the
order opposite to their opening, one value at the top, acceptance only when
nothing is open. `WritesDocuments` is `Documents!Spec` with
`open <- stack` and `verdict` read off `pc`: every step of the parser is a step
of the builder or leaves the document alone.

### Json5Grammar

Terminals are operators from a set of start offsets to the set of end offsets,
put together from a handful of combinators just as the regular expressions are;
`Matches` are those of the terminals the rules allow at that point and of the
ignored ones, and `Longest` is the one taken (lark's contextual lexing). The
rules are written as the automaton over tokens they describe (`Expected`,
`Step`, `Shift`). `DecodeString` is the loop of `decode_string::compute`, round by
round.
Recursion is by recursive functions.

### StreamLoad

One caller calls `load` again and again with the same `load_error`. `ReadChunk`
is one evaluation of the `while` condition with the body if it holds: `Reads`
is what the stream may do (a whole chunk, the end, or breaking after any number
of bytes, some of them lost), `Another` the condition, `Appended` the
`content.append`, taken from a buffer that is unset before the first read and
keeps old bytes after it. The exits are `StreamFailed` (which sets the message
alone, as the code does), `TextAccepted` and `TextRejected`. The parser is reduced to
its outcome: a constant says which texts are documents, and a rejected text may
fail at any offset inside it, which `PositionInText` justifies. `Locate` is
`ctlark::locate`, step by step.

### Numbers

A compile-time document keeps the spelling of a number and converts it whenever
it is asked: `to_arithmetic<T>`, an action per digit, per power of ten and per
test in between, with the locals of the function as variables. The branches for
hexadecimal digits and for decimals meet in `Finish`, the same cast in both
(`mantissa` is the `value` of the hexadecimal branch). The runtime document
stores the number once: `Stored(s)` is what `parse_number` hands to
`make_integer` or `make_double`.

The widths of `long long`, `int` and of the type asked for are constants. Digits
are collected in an unsigned integer, which wraps. Where a signed one overflows
the code is undefined, and the model has both outcomes of a build: a constant
expression is refused (`Refuse`), code at run time wraps. So a spelling of the
least `long long`, which `loads` stores as an integer, is refused by
`parse<...>().to<long long>()` in a constant expression: the magnitude is cast
before the sign is applied. `SameInteger` says that this is the only one.

`IsNumber(s)`, assumed of every spelling, is what the grammar hands over: one number
token, short enough for an `int` to count its bytes (the places after the point are
counted in `exponent10`). `PowersAssumption` is the arithmetic of powers of two that
the provers do not have; TLC evaluates it for the widths of the run.

`Truncation(s)` is the reference: the digits of the spelling with the point moved
by the exponent, cut off at the point. It moves digits in a sequence where the
code multiplies and divides.

### Doubles

`to_arithmetic<T>` for floating `T` shares the loops over the digits and then
scales a `long double`, one rounding per power of ten, and one more in the cast.
`LongDouble` is that rounding, in a precision of `LongPrecision` bits with an
exponent without limit; `Magnitude` is the cast, into denormals and infinity as
well, in multiples of the least denormal. The binary format is given by
constants as in `Digits`. `ToSpec` runs either branch; a number converted by this
one ends in "converted".

The runtime side is `StoredDouble`: `from_chars` (external) rounds once and
reports a result out of range for what overflows *and* for what underflows, and
`parse_number` puts an infinity in both places.

`LongPrecision` is as large as `LongBits`, as on x86-64, where a `long double` has
64 bits: the mantissa is converted exactly. On platforms where it is no wider than
`double`, `Neighbours` fails, as it does in the mutant `OverTenFault`. `-0` is the
integer 0 at run time and -0.0 at compile time; the two are equal under `==`.

### Lookup

One chain goes through three machines at once: `value` (`find`, `operator[]`,
`get`), `view` (`value_view::operator[]`) and `typed`, the node `get<...>()`
reaches, or nothing where it does not compile. `positional` is a history
variable: the chain has given an object an index, which is where the two
documents are made differently (a view takes it as a position, a value as a miss).

### Equality

Three values, and the results of `==` between them. Numbers are compared as
integers if both are, and as doubles otherwise. Beyond `Exact` (2^53), where the
doubles no longer have every integer, `==` is not transitive: 2^53 + 1 and 2^53
equal the same double, and not each other. `Equivalence` stops there.

### Binder

`Parse` is what ctlark makes of a text (external: its tokens, and the tree, with
punctuation dropped and one tree per rule); `BinderAgreement` keeps it in `parsed`,
which is fixed before the program runs. `Bind` is the lowering node by node with its `ok` and
`fail`, `BindFirstFail` the fold that finds the first failure, and
`FailedAssertions` the `static_assert`s of `parse` in their order. Types become
records. Keys and strings are compared as the bytes of the decoded literal.

### Serializer

Both passes go through the document alike and differ in what they do: the size
pass adds to the total of the call under way and gives it to its caller when it
returns, the write pass appends to `buf`. `place` is where a pass is, with the
calls under way and the index of each fold; `totals` are the totals of the calls.
`marks` is a history variable for the proof: the places of the size pass, with
how much is written when the write pass comes there.

### Encoder

A document, runtime value or C++ value is a traversal in events. Every member of
an object is rendered by a dumper of its own (`Written` puts its text in the
frame), and `ObjectText` puts the members together when the object ends, in one
of `WriteOrders`: `std::sort` is not stable, so members with equal keys may come
in any order. `IsSequence` and `CodePoint` are the UTF-8 reading of
`write_string`, by the shape of the bytes alone. Integers have `IntegerBits`
bits. The overloads of `dump_value` for optionals, variants and `to_json` forward
to others and are represented by what they hold.

`SortedDumps` is a caller: it dumps a container, keeps the text (`first`) and dumps
another one with the same members in another order. That what sorting leaves does not
depend on what it was given is a property of two behaviours, which this puts into one.
`FamiliesAssumption` says that the containers hold the same: `Places` are the paths of
keys and elements at which events stand, whatever the order.
Each of the two calls is a behaviour of `Encoder`, so the run checks the encoder's own
properties as well.

### Bignum and Digits

`Bignum` has the operations limb by limb, with the carry and with the limbs
beyond `MaxLimbs` dropped. `Digits` is `shortest_digits` loop by loop: scaling the
numerator or the denominator until the first digit is in front, counting digits
by subtraction, rounding the last, and the carry; then `write_floating`'s layouts.
Nothing assumes that the intermediate values fit: `Remainder` fails when one does not.

A number whose upper boundary is a power of ten (1e23 for `double`, 96 in the
small format of the run) is scaled once too often and comes right only through
the carry of a last digit ten; `TenAlone` says that the carry never has digits
before it.

## Runs

The parsers, streams, numbers and digits run under fairness; all runs check
deadlock: `Returned`, `Idle`, `Written` and their like are the only steps of what has
come to its end. The nesting limit is 1 instead of 256.

| Run | Instance | Checks |
|---|---|---|
| `parsers` | 26,982 texts: all sequences of up to 4 of 9 structural fragments (brackets, separators, a string, a number, `null`), all single edits of 4 documents of 6 to 15 fragments (with these and a space), valid documents nested up to depth 3; up to 3 of 18 string fragments (backslash, quotes, line ends, continuations, escapes, hexadecimal digits, halves of surrogate pairs) as a value, and up to 2 as a key and cut off; escapes of the code points at the borders of UTF-8's ranges and of surrogates; numbers of up to 3 of 10 fragments, alone and in an array, and of 4 of 7; whitespace and comments of up to 5 fragments before, behind and inside a document | `TypeOK`, `InBounds`, `NestingBounded`, `PlaceAgrees`, `SameVerdict`, `SameDocument`, `EscapesEncoded`, `Progress`, `WritesDocuments`, `Termination` |
| `binder` | 736 texts: documents up to three containers deep in which any key and value may have half a surrogate pair, with trailing commas, behind comments, and cut short | `FirstInText`, `OneDiagnosis`, `SameOutcome` |
| `streams` | two calls, each on any stream of up to 5 bytes that are line feeds or zeros, in chunks of 2 | `LoadTypeOK`, `WholeStream`, `RejectionLocated`, `EveryCallReturns` |
| `numbers` | to an integer: 15,975 spellings, decimals of every shape with up to 3 + 2 digits and exponents up to 32, hexadecimals, words; `long long` of 8 bits, `int` of 6, `T` of 7. To floating point: decimals of up to 3 digits with the point anywhere and exponents from -3 to 3, hexadecimals, words; a format with 4 significant bits | `NumbersTypeOK`, `OnlyDigits`, `ShortNumbersTruncate`, `SameInteger`, `Neighbours`, `SameDouble`, `ConversionReturns` |
| `values` | chains of the keys a, b, c and the indices 0, 1, 2 through documents up to depth 3 with repeated keys and nulls; all triples of 57 values | `SameElement`, `Brackets`, `Equivalence` |
| `serialize` | all strings of up to 3 bytes of every class, and documents up to depth 3 | `FillsArray`, `ReadsBack` |
| `dumps` | 777 trees with repeated and missing members, each compact, flat and indented, with and without `sort_keys`; all strings of up to 3 of 15 fragments and up to 2 of 20, the other 5 having the shape of UTF-8 without being it, all keys of up to 2 of the 15, and all integers of four bits, with and without `ensure_ascii`; all pairs of containers that hold the same: objects of up to four members in every order, objects and arrays of such objects | `ReadsBack`, `Layout`, `Deterministic`, `PartsApart`, `AsciiOnly` |
| `digits` | every number of a format with 4 significant bits and exponents from -8 to 5; five limbs of 3 bits | `Remainder`, `RoundTrips`, `Fewest`, `Closest`, `TenAlone`, `TextReadsBack` |
| `capital_x` | strings that start with `\X` | `SameDocument`, which fails (see Findings) |
| `stale_error` | the streams of `streams` | `FilledOnFailure`, which fails (see Findings) |
| `tiny_number` | the floating point spellings of `numbers` | `InfinityIsOverflow`, which fails (see Findings) |
| `long_number` | the same | `LongNumbersConvert`, which fails (see Findings) |

What the properties say:

- `TypeOK`: the state has its type; UTF-8 encoding and escapes yield bytes.
- `InBounds`: the position and the offset of an error never leave the text.
- `NestingBounded`: `parse_value` is entered at most once beyond the limit, and
  in that frame does nothing but fail.
- `PlaceAgrees`: the place in the nested loops fits the document: the object
  loop runs inside an object, a colon is due exactly after a key, the text may
  end only after a complete value.
- `Progress`: every step lowers 4 x (bytes left) + a rank of the place, so a
  text of n bytes takes at most 4n + 3 steps.
- `Termination`: `loads` returns.
- `WritesDocuments`: refinement of `Document`.
- `SameVerdict`: both parsers accept or both reject, except that only the
  runtime parser has a nesting limit.
- `SameDocument`: what both accept is the same sequence of events, decoded
  byte for byte.
- `EscapesEncoded`: an escape is decoded to the one UTF-8 encoding, by the table of
  RFC 3629, of the code point that its digits name. `SameDocument` alone would not
  notice a wrong border: both parsers encode with the same `Utf8`.
- `FirstInText`: the failure `bind_error` reports is the string with half a
  surrogate pair that comes first in the text, key or value, however deep.
- `OneDiagnosis`: `is_valid`, `bind_error` and the assertions of `parse`, which are
  folded separately, tell the same.
- `SameOutcome`: the type `parse<>` gives is the document `loads` builds, or the string
  `bind_error` names is the one `loads` stops in.
- `WholeStream`: the bytes appended and the bytes left are the stream's in
  order, what is parsed is all of it, and a stream that broke is not parsed.
- `RejectionLocated`: line and column of a rejected text, counted by `locate`
  byte by byte, are those of the line feeds before the offset.
- `FilledOnFailure`: the same after every call that fails.
- `EveryCallReturns`: no call of `load` goes on reading forever.
- `NumbersTypeOK`: the locals of the conversion keep to their widths, and its offset
  to the spelling.
- `OnlyDigits`: the loops over hexadecimal digits and over the exponent, which test
  for the end of the spelling alone, find digits only, and the byte that is read
  behind an "e" without a test is there: the grammar saw to it.
- `ShortNumbersTruncate`: if the digits fit in `long long` together, and `T` has
  the truncated number, that is the result, and no signed integer overflows.
- `SameInteger`: what `loads` stores as an integer is one at compile time too and
  converts to the same value, wrapped or not; only the least `long long` may be
  refused. What `loads` stores as a double is no integer or too long.
- `Neighbours`: converted at compile time, a number whose digits are not too many
  is one of the two the format has around it (or exact).
- `SameDouble`: both documents give the same double where nothing is rounded on
  the way: whole numbers in range, hexadecimals wrapped or not, words.
- `InfinityIsOverflow`: `loads` makes a number infinite only when it is too large.
- `LongNumbersConvert`: as `Neighbours`, for any number of digits.
- `ConversionReturns`: `to<T>()` returns.
- `SameElement`: value and view stand at the same element of every chain that
  gives no object an index: same kind, string, size and keys.
- `Brackets`: the view is `get<...>()` where that compiles and null elsewhere.
- `Equivalence`: `==` is reflexive, symmetric and transitive below `Exact`.
- `FillsArray`: the write pass never goes beyond the array and fills it.
- `ReadsBack` (serializer): the text is read as the document it was.
- `ReadsBack` (encoder): the same of the dumped text: every event at its place, in
  its order unless keys are sorted; with `sort_keys` the text is the layout of what is
  read. Under `ensure_ascii` a byte that belongs to no character is read back as the
  character of its number; strings with bytes that only look like a character are left
  out (see Findings).
- `Layout`: the text is the layout that the traversal has from left to right,
  computed without any dumper within a dumper.
- `Deterministic`: with `sort_keys` two containers that hold the same give the same
  text, whatever order they give their members in, at any depth. Keys that are written
  alike are left out: those of a multimap, and under `ensure_ascii` keys that are no
  UTF-8 (the byte E9 and the character U+00E9 are both `"\u00e9"`).
- `PartsApart`: a string is written as its parts are, cut anywhere but before a byte
  that continues a sequence: what is broken or cut short takes nothing of what follows
  with it.
- `AsciiOnly`: under `ensure_ascii` no byte above 127 is written.
- `Remainder`: digits, numerator and margins are exact at every step: no limb is
  dropped.
- `RoundTrips`, `Fewest`, `Closest`: the digits are read back as the number, no
  fewer are, and none as many is closer.
- `TextReadsBack`: the text is one number token that says the same number.

**Bounds.** The handlers of the parser look at most six bytes past the position (a
surrogate pair) and keep no memory but the stack and the string: every pair of
neighbouring fragments with everything before and behind it occurs in four
fragments, the edits put the same fragments into the middle of long nested
documents, and the strings have whole and cut escapes in every order of three.
A limit of 1 makes "nesting too deep" reachable with three brackets; the proofs,
that the two parsers agree among them, hold for every limit and every text.

Five bytes in chunks of two give streams that are empty, shorter than a chunk,
end at a border or behind one, and break in each of three reads; the second call
finds the error of the first.

With 8, 7 and 6 bits, three digits lie on both sides of every border: of the
unsigned and the signed `long long` (256 and 128, with 128 itself among the
spellings), of `T` (64) and of the exponent (32). The binary format has denormals
(down to 2^-8), overflow (from 64) and halfway cases within three digits and an
exponent of three. `Neighbours` holds as long as the error of the scalings is less
than half a unit of the target, here up to six roundings to eight bits.

Two failures in any two places of a container, or of one container inside another,
tell whether a fold takes the first; the binder keeps nothing else. The serializer
and the encoder have no look-ahead except UTF-8's three bytes; two containers
inside a third, empty and not, with members before and behind, give every
separator at every depth a document has it. Three members give `std::sort` every
order and every pair of equal keys.

The small format of `digits` has every case `shortest_digits` tells apart:
denormals, powers of two with a closer boundary, odd and even mantissas, both
directions of scaling, both boundaries in reach, halfway, the carry, and all four
layouts. The widest intermediate value has 15 bits, as many as the five limbs of 3 bits:
with four limbs `Remainder` fails. For IEEE double the widest one has about 1080 bits (found
by running the algorithm on the ends of its range, outside of the model), of the 1280.

**Fairness.** `WF_vars(Next)` of the parser, of the conversion, of the encoder and
of the digits, and `WF_vars` of the steps of `load` once it is called: a function
running on the caller's thread goes on until it returns. The caller need not call.
Fairness is needed for `Termination`, `EveryCallReturns` and `ConversionReturns`
alone.

An operator `XFault` next to an operator `X` is a plausible mistake in it; with
the mistake in place TLC finds the property violated that `PROJECT.json` names
under "mutants".

## Findings

- `capital_x`: `loads` reads `\X41` as `\x41` (`load.hpp:420`, `case 'x': case
  'X'`) and rejects `\X` without two digits, while the grammar and the binder
  know only `\x` and read `\X` as the letter X. `src/tests/load.cpp:51` says
  "escapes decode exactly like the compile-time parser". TLC's counterexample
  is a string of `\X` and two digits that both accept and decode differently.
- `stale_error`: when the stream breaks, `load` sets only `error.message`
  (`load.hpp:822`); position, line and column are those of whatever failed call
  the caller's `load_error` saw before. `load.hpp:53` says of them "filled by
  loads/load on failure". TLC's counterexample: a text is rejected behind its
  first byte, then a stream breaks before its first byte.
- `tiny_number`: `from_chars` reports a result out of range for numbers that
  underflow as well, and `load.hpp:606` makes every one of them an infinity:
  `loads("1e-400")` and `loads("2e-324")` are `Infinity`, where `parse<>` gives 0.
  The comment at `load.hpp:607` says "Python overflows to the infinities", and the
  list of divergences from Python at `src/README.md:247` does not have it.
- `long_number`: `to_arithmetic` collects all digits in one `unsigned long long`
  (`types.hpp:77`), which wraps, and scales afterwards:
  `parse<"12345678901234567890123.0">().to<double>()` is 1.11777e+18 and
  `loads` of the same text 1.2345678901234568e+22. `load.hpp:39` calls the
  spelling "the one behavioural difference".

All four were also reproduced by compiling and running the code.

The properties below stop short of other differences that came up; no run is
spent on them:

- The same wrapping concerns integers: `parse<"3.14159265358979323846">()` converts
  to the `int` 0 (`src/README.md:201`, "truncate fractions, like a cast").
  `ShortNumbersTruncate` is about digits that fit.
- `sort_keys` compares rendered keys (`dumps.hpp:563`): of the keys "a" and "a b" the
  second comes first, because a space is less than the closing quote, and escapes change
  the order as well. Python's json, in whose style `dumps.hpp:22` is, compares the keys.
  `Deterministic` is about what the rendered order is good for.
- `ensure_ascii` tells UTF-8 by its shape (`dumps.hpp:412`): the bytes `C0 80` are written
  as `"\u0000"`, `ED A0 80` as `"\ud800"`, which `loads` rejects, and `F4 90 80 80` as
  `"\udc00\udc00"`, although `dumps.hpp:408` has "a byte that is not valid UTF-8 is escaped
  on its own". `ReadsBack` leaves such strings out; `PartsApart` and the theorem
  `AsciiAlways` do not.
- An index on an object is a position for a view (`types.hpp:309`) and a miss for a
  value (`load.hpp:175`); `size()` of a string is its bytes for a value
  (`load.hpp:150`) and 0 for a view (`types.hpp:233`). `load.hpp:26` calls the one
  a mirror of the other. `SameElement` leaves both out.

## Proofs

`tlapm` checks every step of the eight proof modules. Those about
the parser hold for every set of texts and every nesting limit: the only
assumptions are `TextsAssumption` (texts are sequences of bytes) and
`NestingAssumption` (the limit is a natural number).

`ScanningProofs` proves what the operators of `Bytes` and `NumberLexer` return:
`RunEndFacts` (a scanning loop stops at the first byte outside its class, or at the
end; the least such offset exists by well-founded induction on Nat), `Utf8Type` (the
encoding of every code point below 1114112 consists of bytes), `SurrogatePairType`,
and `ScanNumberFits` (a number ends behind its start and in the text). The induction
theorems of the library take an operator and cannot be cited, so `Induction`,
`BoundedInduction` and `LooksBack` state induction for a set of numbers and
`TreeInduction` for a set that has a depth, and `Recursion`, `TreeRecursion` and
`StrongRecursion` that functions defined by recursion exist, from the step as a
function. A recursive definition of a model is a `CHOOSE` of a function; with these
it has the values its equation says, for every input.

`RuntimeParserProofs`:

- `TypeCorrect`, `PositionInText` and `RecursionBounded` are
  `Spec => []TypeOK`, `[]InBounds` and `[]NestingBounded`. Their conjunction
  `Sound` is inductive; none of the three is by itself: the escapes yield bytes
  because the digits they read lie in the text, and what a step appends to the
  document has its type only if the bytes before it do. One lemma per group of
  actions (`WhitespaceSound`, `ValueSound`, `StringSound`, `ContainersSound`)
  shows that a step preserves it.
- `EveryStepProgresses` is `Spec => Progress`. Under `Sound`, a step either consumes
  at least a byte (`Consumes`) or leaves the position where it is and comes to a place
  of lower rank (`Descends`, `FailDescends`). With it, `Termination` is only a matter
  of the parser being scheduled.
- `PlaceAndDocumentAgree` is `Spec => []PlaceAgrees`. `PlaceAgrees` is not
  inductive: after a colon it must be known that an open container means a
  document that has begun, so the invariant is `Placed`, which adds that. Most
  steps keep place and document (`SamePlace`), fail (`FailPlaced`) or complete a
  value (`ValuePlaced`); keys, openings, colons and commas have steps of their
  own.
- `ParserWritesDocuments` is `Spec => WritesDocuments`: under `Sound` and
  `Placed` the initial state maps to `Document`'s, and every step to one of its
  steps or to a stutter. That a value string keeps to the limit comes from the
  second part of `NestingBounded`.

- `VerdictsAgree` and `DocumentsAgree` are `Spec /\ []~MeetsCapitalX => []SameVerdict` and
  `[]SameDocument`: the library's two parsers, one a machine that works byte by byte,
  the other the longest match among regular expressions, an automaton over the tokens
  and a decoder that runs afterwards, agree on every text, under every limit.
  `MeetsCapitalX` is the escape `\X` of the finding `capital_x`, which refutes both without
  that condition. `ParsersAgree` reads the condition off the text: no backslash in it is
  followed by an X.

That they agree is a simulation. `Follows`, the invariant, says of each place of the
parser which state the run of the grammar has come to: its offset, the phase that
`PhaseAt` gives the place, the parser's containers open and the parser's events made
(`Where`). In white space the run is at some offset from which white space reaches the
parser (`Skipping`); in a string it is still before the quote, and whatever the string's end
will be, the bytes passed decode to `buf` (`StringSoFar`). Where the parser failed, the
run will not take the text (`Takes`). With `Sound` and `Placed` it is inductive
(`StepFollows`), one lemma per group of actions. What these need of the grammar is
`GrammarProofs`:

- A star of a regular expression (`Many`, `Some`, and the loops of `SpaceEnds`,
  `BlockCommentEnds`, `QuotedEnds`) reaches the least set of offsets closed under its
  pieces (`Reach`), for any text.
- `NumberFacts`: where `scan_number` succeeds, its end is the longest match of NUMBER;
  where it fails, the longest match is cut at an exponent mark or an x, and no rule takes
  what follows. White space, both kinds of comments and names end where the parser's
  loops do.
- `MayLooked`: of the terminals a phase allows, at most one may match at an offset,
  told by its first byte, so that the longest match is that terminal's.
- `StringPlain`, `StringEscape` and `StringFails`: the parser decodes a string from the left
  while it looks for the end, `decode_string` when the end is known. At each
  byte either every string through it decodes alike or none does.
- `BadStays` and `AfterIsGoing`: a string that is not decoded and a value too deep are
  never made good by what follows, so the parser may stop at once.

`StreamLoadProofs`, for every stream of bytes (`SourcesAssumption`), every size of the
buffer above 0 (`ChunkAssumption`) and any number of calls (`CallsAssumption`):
`LoadReadsWholeStream` is `Spec => []WholeStream`. `WholeStream` needs to know what the state of the stream says of the rest
(`Reading`: an ended stream has none, a loop is not left while the stream is
good); `Split` and `Associative` put the bytes of a chunk back together.
`LoadTypeCorrect` is `Spec => []LoadTypeOK` and `RejectionsLocated` is
`Spec => []RejectionLocated`. `Loading`, the two with the invariant of `WholeStream`, is
inductive; `LocateDescribes`, by induction over the bytes passed (`LocatedStep`), says
that `locate` counts the line feeds before the offset and the bytes behind the last.

`SerializerProofs`: `WritePassFillsArray` is `Spec => []FillsArray`, for every set of
documents of any depth (`DocumentsAssumption`: they are sequences of events). The
totals of the calls under way say how many bytes the write pass will have written
when it comes to the place of the size pass (`Ahead`), because the text of a call
starts where that of its caller has got to (`Nested`); that is `Sizing`. `marks`
keeps the places with these numbers (`Marked`), and the write pass goes from one
mark to the next and has written what the mark says (`Writing`): at the last mark,
the length of the array. A byte's escape is as long as it was counted, a literal
and a separator as long as their numbers in the code (`Typed` and the lemmas about
`EscapedSize`). None of the four is inductive alone.

`SerializedReadsBack` is `Spec => []ReadsBack`, for documents that are traversals of one
value (`ParsedAssumption`: members are keys with values, containers are closed in their
order, and a number keeps the token it was parsed from, as `number<Text>` does). It
relates the write pass to the run of the grammar over a text that is not there yet. The
invariant is `ReadSoFar`: in *every* text that begins with what is written
(`Extends`), the run stands behind it with the events handled so far, the containers open
that `Containers` reads off the document, and the phase that `PhaseAt` reads off its last
event (`ReadsOutside`); within a string, the run stands before the string and its bytes so
far are decoded to those of the document (`ReadsWithin`). After a value, only what
separates values may follow, or a number would go on. `Standing` adds that the calls
under way are the containers open, and that the index of the innermost is 0 exactly after
its bracket: so the comma is written where the grammar wants one (`SeparatorIs`). The
rest is one lemma for each kind of text, `OpeningRead`, `QuoteRead`, `ByteRead`, `EndRead`,
`ClosingRead` and `ScalarRead`; under them, an escape is decoded as the byte it was
written for (`EscapeRead`), and a number token is lexed alike in any text
(`StandsNumber`).

`ParsedIsTraversal` says why `ParsedAssumption` is no restriction: for every text that the
compile-time grammar finds valid, the document made of it is a traversal of one value. The
invariant of the run, `Builds`, is that the events made so far are the beginning of a
traversal (`Partial`) and that phase, containers open and last event fit each other
(`Placed`): only so does a comma never lead to a value without its key, or a closing
bracket to the wrong container. That a number cut out of its text is a number by itself is
`NumberAlone`.

`ValueProofs`: `BracketsAreTyped` is `Spec => []Brackets`, and `ChainsAgree` is
`Spec => []SameElement`, for every document and chain (`NodesAssumption`: only
objects have members and only arrays elements, which the factories see to). The
invariant is `Brackets` with `Reached` (a typed accessor stands at a node) and
`Follows` (so does the value, until an object is given an index); `SameElement` alone
is not inductive, because two nodes may look the same and have different children.

`EqualityIsEquivalence` is `CompareSpec => []Equivalence`, for any set of values as the
factories make them (`ValuesAssumption`: a value owns what it holds, so every value has
a depth; an integer is kept with its nearest double) and any `Exact`. The definitions of
`Equal` and `Exactly` have their equations by `TreeRecursion` (`EqualRecurs`,
`ExactlyRecurs`), and each of reflexivity, symmetry and transitivity goes by
`TreeInduction` over the values. What numbers need is `ExactNumbers`: up to `Exact` an
integer is its double, so that two numbers are equal if and only if their doubles are,
whichever of them is an integer. That is where transitivity ends beyond `Exact`.

`NumbersProofs`: `ConversionWithinWidths` is `ToSpec => []NumbersTypeOK` and
`ConversionReadsDigits` is `ToSpec => []OnlyDigits`, for every number the grammar takes,
all widths and both kinds of target (`SpellingsAssumption`, `FloatSpellingsAssumption`,
`WidthAssumption`, `PowersAssumption`). Where the digits, the point and the exponent of a
number are is the scanner's doing (`HexShape`, `DecimalShape`, `ExponentShape`), and each
loop stops where the scanner did (`WholeStops`, `FractionStops`). The invariant adds to
the two properties which part of the spelling the offset is in (`Located`) and that
`exponent10` counts bytes that are passed (`Counted`): only so is the `int` large enough
and the byte behind the "e" there. From the exponent on every assignment is a cast, a
quotient, or a count that moves towards zero (`Casts`, `QuotientRange`, `CountDown`).

`ConversionTruncates` is `ToSpec => []ShortNumbersTruncate` and
`DocumentsAgreeOnIntegers` is `ToSpec => []SameInteger`, from the same assumptions. The
invariant `Computing` says what the conversion has got at: while digits are read the
mantissa is the value of those passed, modulo the width (`Accumulated`); while an
integer is scaled it is the value of all digits with the point moved so far (`Scaling`).
A step of the loops is a step of the reference definition (`SpelledAppend`,
`MovedGrows`, `SpelledQuotient`), and a digit more is ten times as much also for numbers
that have wrapped.

`EncoderProofs`, for all sets of calls (`CallsAssumption`: what is dumped is a traversal
of one value, its strings and keys any bytes, its numbers ASCII) and any width of
integers (`WidthAssumption`):

- `EncoderTypes` is the type invariant with `Nested`: the dumpers and loops under way
  are the containers around the next event, which `Around` reads off the document. Only
  so has a key an object to go to, and the end of a container the right frame.
- `AsciiAlways` is `FairSpec => []AsciiOnly`: what is written *and kept* is a text in
  `Alphabet`, from the escapes up (`CodePointType`: three continuation bytes make no
  code point that does not fit two escapes).
- `WritesLayout` is `FairSpec => []Layout`. `Layout` speaks of the end; the invariant
  `LaidAt` says it of every moment: the texts that the containers have kept (`Kept`: what
  was written before an object, its brace, its members so far), followed by what the
  dumper at work has written, are the layout of the events handled, and the gap that is
  written ahead of the next. `FrameAt` adds what the frames know of the last event: the
  flag of a loop, an object without members, a member without its value. Between the
  beginning and the end of an object the layout passes from the text of a dumper into
  the members, and back in one piece (`JoinedAppend`, `JoinedValue`, `CloseObjectLaid`).

Only model-checked:

- what the binder says of a text: its tree and type are nested without a bound and built
  by RECURSIVE operators, which the provers do not reach;
- `ReadsBack` of the encoder: like the serializer's, it would relate what is written to the
  run of the grammar, but over all layouts of `indent` and separators, and over members that
  are put together after they are rendered;
- `Deterministic`, `PartsApart` and `EscapesEncoded`;
- `Neighbours`, `SameDouble` and everything about digits: rounding and the big integers
  rest on powers of two and ten, for which the provers have no arithmetic;
- `Termination`, `EveryCallReturns` and `ConversionReturns`, which need fairness.

## Plan

1. The core: both parsers and their agreement, and their theorems (done).
2. `StreamLoad` and its theorem (done).
3. `Numbers` and `Doubles` (done).
4. The writers: `Serializer` with its theorem, and `Encoder` (done).
5. `Digits` and `Bignum` (done).
6. `Lookup` with its theorems, `Equality`, `Binder` (done).
7. The theorems about `Numbers` (done).
8. The types and errors of `load`, what conversions to integers result in, what the
   encoder writes, and that `==` is an equivalence, as theorems (done).
9. The agreement of the two parsers as a theorem (done).
10. That the serializer's text is read back, as a theorem (done).
11. Theorems still worth having: the same of the encoder, and that the binder's separate
   folds tell the same (`OneDiagnosis`).

## Not modelled

- **ctlark and ctll**, the grammar engine: a submodule of its own, whose only copy
  here is inside `src/single-header/ctjson5.hpp`. That file is a generated
  amalgamation of 58,046 lines, in which the engine's headers and the library's own
  are repeated each time they are included; the models refer to the library's own
  headers, so nearly none of its lines are named. What the library asks of the
  engine is modelled: the longest match among the terminals that are allowed, the
  rules as an automaton over tokens, and the tree.
- **Build files, packaging, the module interface, the examples and the tests**: no
  state of their own. What the tests say is quoted where a property or a finding
  rests on it.
- **Memory**: allocation that fails.
- **`debug_*`, `error_info`, `error_message`**: they forward to the engine.
- **Iteration and structured bindings** over documents and views: they hand out the
  arrays `Lookup` looks through.
