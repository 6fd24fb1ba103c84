# acadsharp-rs in TLA+

A verification of the crate in `src/`: TLA+ modules translated from its Rust
source, TLC configurations that check them on small instances, and theorems
about them whose proofs TLAPS checks for every value of the constants.
Line numbers below are those of the files under `src/`; in most names of files
the crate's own `src/` is left out (`stream.rs` is `src/src/stream.rs`).

Contents: 1 the system, 2 its components, 3 what is hard about it, 4 the
modules and the code, 5 the runs, 6 bounds, 7 fairness, 8 what is proved,
9 what is left and in which order, 10 where code and documentation differ.

## 1. The system

The crate is a safe Rust binding for a native library (ACadSharp compiled ahead
of time behind the C header `native/viprs_acadsharp.h`) that decodes CAD
drawings. A caller opens a `Document`, begins a decode of one of its views, and
drains a `PrimitiveStream`, an iterator of `Result<Item>`. Inside, `Core::next`
pulls *batches* (a twelve byte header and a payload of records) out of the
library into a buffer it owns, and hands out the records one by one. A
`CancelToken` may be set from any thread at any time. At build time
`build.rs` finds the native archive, compares it with the vendored header, and
decides whether to link it.

```
  caller ── next() ──> PrimitiveStream ── Core::next/pull ──> viprs_acad_decode_next_batch
                            │ records_from / next                     │ looks at
                        BatchReader, Records ── decode() ──> views    ▼
  other threads ── cancel() ─────────────────────────> the flag of the CancelToken
  Document, DecodeHandle, drops, counters ───────────> open, decode_begin, close
  cargo ── rerun? ──> build.rs ──> stub | failure | archive linked
```

## 2. Components

| Component | State | Operations | Interacts by | Correct when |
| --- | --- | --- | --- | --- |
| Batch reader (`batch.rs` 1127-1513) | a walk: position, budget, stopped | `new`, `records`, `records_from`, `Records::next`, `offset` | called by `Core::step` and by users of raw batches | no bytes make it loop, lose track, or answer `BatchError::Internal`; offsets it hands out are good |
| Record payloads and views (`batch.rs` 1515-, 560-) | none (pure) | `decode` per record type, `get`, `len` | called by `Records::step` | exactly the records of the format are accepted, no arithmetic wraps, no read leaves the record |
| Primitive stream (`stream.rs`) | buffer, cursor, done, failed, counters, landmarks | `next`, `step`, `pull`, `stop`, getters | calls the library through `Source` | fused, finite per call, loses nothing, blames nobody wrongly |
| Decode end to end | the stream, the library's decode, the flag | the caller drains, the library answers, somebody cancels | calls, shared flag | order and completeness of delivery, cancellation noticed, termination |
| Cancellation token (`cancel.rs`) | a shared `AtomicU32` | `new`, `clone`, `cancel`, drop | pointer held by the library | set once, visible, allocated long enough |
| Handles of the C boundary (`sys.rs`, `document.rs`, `diagnostics.rs`) | handles, `Arc`s, close counters | open, begin, pull, drop, `mem::forget` | calls, drop order, atomics | no use after close, no double close, nothing left open |
| Session (`document.rs`, `sys.rs` 52-311, `abi.rs`, `capabilities.rs`, `limits.rs`) | decoder with its sizes, document, locals of calls under way | handshake, setters and getters, opening under limits, two-call strings, views, beginning | calls | nothing is called before the handshake, sizes are what the getters say, names and bounds arrive whole |
| Errors, items, limits, constants | values | conversions, builders | | |
| Build script: resolving (`build.rs`, `build/policy.rs`) | what cargo keeps of a run | one run; cargo's reuse of its output | files, variables, lines on stdout | never links a wrong archive, never links nothing where the native lane is required, never stands on an old decision |
| Build script: reading header and declaration (`build/header.rs`, `build/compat.rs`) | locals of its loops | comments, definitions, keys and values, glob | called by the above | reads what was written, and always comes to an end |
| Build script: parsing manifests (`build/manifest.rs`, `build/sha256.rs`) | none | JSON, single fields, digest | called by the above | accept what they document |
| Parity dump (`examples/dump.rs`) | lines collected, exit code | drains one view, quotes texts, rounds numbers, writes | the stream, standard output | prints all of a view or nothing that could be taken for it |
| Suite pin and parity scripts (`tools/`) | files, git | shell scripts of the CI | | a pin only moves where it may |
| Native library | opaque | the C functions | | the contract of the header; external |

`PROJECT.json` lists the same components with what is modelled of each.

## 3. What is hard about it

- **Foreign input.** Everything behind the C call, sizes, flags, bytes, may be
  anything; the crate's claim is that no answer makes it panic, hang, read out of
  bounds, lose its place or be confused by a batch. A unit test scripts a handful of answers.
- **State kept across calls**: `cursor`, `batch_len`, `native_done` and the buffer
  survive between calls of `next()` while the buffer grows and is overwritten.
- **Nested loops that have to end**: records in a batch, batches without payload,
  the retry with a larger buffer.
- **Arithmetic on foreign counts**: `u32` counts multiplied in `u64`, indices in
  `usize`.
- **Another thread** setting the flag during any step, and dropping the tokens.
- **Ownership across the boundary**, drop order, and `mem::forget`, which safe code
  may call: destructors may not run, so soundness may not rest on them.
- **A build that is not run again**: cargo reuses what the script decided until an
  input it *named* changes.
- **Output that is compared by machine**: the dump must not be short, ambiguous or
  rounded otherwise than the recording, and nobody looks at it until it differs.

The `hazards` of `PROJECT.json` name the lines and the properties that watch them.

## 4. Modules

Names of definitions are those of the code where TLA+ allows it. Comments that
say *Slip* or *Mutant* mark a variant of the definition below it with a plausible
mistake in it. `PROJECT.json` pairs each property with one, to show that the
property notices; no specification uses them.

**Batch** (no variables): framing. A batch is abstracted to whether the magic is
right, its wire version, its payload length and what a record header *would* read
as at each offset of the payload, whether or not a record starts there, so that
a walk that goes astray still reads something. `ReaderRefusal` is
`BatchReader::new`, `ResumeRefusal`/`records_from` are `records_from`, `step` and
`next` are those of `Records`, with the iteration budget of `walk_from`.

**Walk**: a caller walks one batch, keeps offsets, resumes at them or at
offsets of its own. One action per operation. **WalkProofs** has its theorems.

**Payload**: `decode()` and the readers under it. A payload is its declared length,
its counts, the set of eight byte windows that are not a finite `f64`, and
whether its string is UTF-8: what the refusals depend on. `u32`, `u64` and `usize`
widths are parameters, arithmetic is taken `%` the width, and the format is stated
separately (`WellFormed`), in numbers without a width. The views (`Strides`, `len`,
`get`) are those of `Vertices` and `Scalars`. **PayloadProofs**.

**Stream**: `Core` of `stream.rs`. A step is one turn of the loop in `Core::next`
or of the loop in `Core::pull`; a call of the library is a step that begins it
and a step (`Receive`) that takes its answer. `StepError` is `Core::step`,
`PullError` the checks of `Core::pull` in the code's order. `calls` is a history
variable. The library is not in this module:

- **AnyLibrary** composes Stream with a library that answers anything the C
  signature lets it (any code, any size, any bytes) and is the module of
  the safety theorems. They are in **StreamProofs**, with the lemmas about
  the steps of the stream.
- **Decode** composes it with a library that keeps the contract of the header
  (commits to a batch, asks for room once, latches done and errors, looks at the
  flag as a call begins, may pad), with the thread that drains the stream and a
  thread that cancels. In a `lossy` script the library may drop records silently.
  `ScriptsAssumption` is the contract on what it decodes: records have the
  lengths of the format (at least a header, whole words), a DocumentEnd tells the number of
  records of its view, and a decode does not *end* in `BUFFER_TOO_SMALL`, which the header
  reserves for asking for room. Its theorems are in **StreamProofs**, too.
- **FusedIterator** is the abstract specification of an iterator of fallible
  items. `ImplementsFusedIterator` is the refinement: asked is "a call is under
  way", life is `finished` and `failed`.
- **Delivery** is the abstract specification of what a drained decode promises:
  the records of the view in order, then the end only behind the last, or an
  error. `ImplementsDelivery` maps its `out` to the history of the answers of `next()`.
  `Safety` is its part without fairness.

**Dump**: `examples/dump.rs`. It stands on `Delivery` instead of the stream itself: `Stream`
is an instance of it, and each step of the program is one of its steps with what `run` does
about it (`Collect`, `Failed`, `Finished`). The program does not ask `is_complete()`; that it
may take None for the end rests on the promise, which `decode` checks and `StreamProofs`
proves of a library that keeps its contract. `escape` and `n` are `quote()` and `n()`,
conversions modelled by what they do since two of the properties are about them: a text is
its code points, a number the digits and exponent that `format!("{:.14e}")` writes, with the
number of digits free (`IsFormatted`). What a reader makes of a text (`Unquoted`) and which
number is nearest (`IsUnits`) are stated without them. Separators, names of fields and the
hex of a handle are left out. **DumpProofs**.

**Handles**: documents, decodes, flags and tokens of several threads. `open`,
`begin`, `pull` and the drops are several steps, so that threads interleave in
the middle of a call, and the counters of `diagnostics.rs` are
separate atomic steps (`CountClose`, `DrawTicket`, `NoteClose`) in the order of the
code. `openDocuments` and `openDecodes` are what is open inside the library, `arcs`
who holds a reference to a flag. The borrow of a stream on its document is the guard
`Borrowed`: it is what the type `PrimitiveStream<'doc>` enforces; its mutant
shows what depends on it. **HandlesProofs**.

**BuildScript**: the build script and cargo. One run is a step, `Run`, that takes
a decision, operator by operator as in the code: `ExpectationsHold`, `resolve_root`
(`FromVariable`, `FromCache`, `give_up`), `validate`, `check_archive`, `choose`,
`required_files`. Cargo keeps it with the environment it saw; `Reuse` is a build
that keeps the decision, allowed as long as `IsStale` is false. Between builds
anything may be edited: header, pin, `COMPAT.toml`, archives, links, cache,
variables, feature. A path is read through the links (`At`): `links` is what it canonicalises
to, which only the route of the variable asks for; that of the cache goes on with the path as it
is, and asks for no `lib/`. The operators take the environment as a parameter, so that
`RoutesCheckAlike` can compare two. **BuildScriptProofs**.

**Session**: what a caller does around a decode. `linked` and `library` say what was
linked (nothing, or a library of some version and fingerprint) and never change;
`decoder`, `document` and `stream` are the ones made last; `pc` is the call of the
library that is under way, and `index`, `upto`, `required`, `out`, `views` are the
locals of `read_string` and `views()` across it. The caller's operations (`NewDecoder`,
`WithInitial`, `Open`, `View`, ...) end in a call; what the library answers it is an
action of its own (`Handshake`, `Opened`, `Sizing`, `Filling`, ...), and any call may be answered
otherwise than the one before it. Without a library every call answers as the
stubs of `mod unlinked` do (`Says`). `told`, `limits` and `wish` are history.
**SessionProofs**.

**Declaration**: how the script reads. A text is a sequence of symbols: most
are a character, keys and `#define`s are one symbol each, white space is left out since
every rule trims it. Three phases follow each other as in `main`, one
step per turn of a loop: `StripComments` and `ReadDefines` (header), `ReadLine` and
`CheckHeader` (`COMPAT.toml`), `GlobTurn` and `GlobEnd` (an archive's version). A
world carries what the author of its declaration meant (`written`), so that what is
read can be compared with it; `Means` says which author could have meant it: each line can be taken
apart, somewhere in front of a `#` or at its end, into the text of a key with its value, or nothing
(`Sayings`, `Tells`), and each key is told by one line. The reference definitions are independent
of the loops: `Live` finds the definitions outside of comments, `Covers` says when a glob
covers a version, and `Means` knows no quote that is open, no first `#` and no order of lines. What
the text of one value stands for (`ValueOf`) it shares with the script. An
array of strings is the set of them: the script asks only what is in it.
**DeclarationProofs**.

**MCWalk, MCPayload, MCAnyLibrary, MCDecode, MCHandles, MCSession, MCBuildScript,
MCDeclaration and MCDump** give the constants values for TLC.

## 5. The runs

| Run | Question | Distinct states |
| --- | --- | --- |
| `walk` | every batch of the shapes in MCWalk, walked, stopped and resumed: is the budget enough, are offsets accepted, do walks stay on record boundaries, is a refusal the end? | 28,346 |
| `payload` | every record type at lengths and counts on both sides of each identity: accepted exactly when well formed, runs disjoint and gapless, views that answer the counted elements, all finite, and no others? | 24,852 |
| `any_library` | a library that answers anything: are calls per `next()` bounded, is the buffer's growth bounded, does the stream keep track of where it is, is it a fused iterator (safety and liveness)? | 50,192 |
| `decode` | a library within its contract, drained, with a canceller: does everything come out in order, are errors deserved, is cancellation noticed, does the decode end? And a library that loses records silently: does `is_complete()` tell? | 108,553 |
| `handles` | two threads: no use after close, flags allocated, nothing left open, closes ordered? | 28,912 |
| `build_script` | builds between edits: is what succeeded right, required, current, and unsplit, checked alike on both routes? | 560,218 |
| `session` | every order of a caller's operations, with a library that is missing, foreign, or answers one call otherwise than the one before: is anything called before the handshake, do sizes, limits, names arrive as they were said? | 254,957 |
| `declaration` | headers, declarations and globs in every arrangement of their pieces: is what is read what was written, do the loops end? | 139,631 |
| `dump` | the parity dump over a stream that is cut or not, and a write that fails or not: is what is printed the whole recording, can every text be read back, are numbers rounded right? | 174,783 |
| `totals_doc`, `wire_doc`, `stale_build_doc` | one property each, stating what a comment or document says; violated, see section 10 | |

Deadlock is checked in `any_library` and `decode`, where a caller may always call
`next()` again, in `session`, where it may always call something, and in `declaration`,
where only an end that is named stops. It is off in `walk` (a batch that is refused leaves
nothing to do), `payload` (one record, one verdict), `handles` (names of handles are used
once, so they run out), `build_script` (edits run out) and `dump` (a program that exits).

Two statements are proved and not run: that a walk is fused (`WalksAreFused`; the invariant
`WalkInv` it rests on is run) and the types of BuildScript (`BuildTypes`).

## 6. Bounds, and why they are enough

- `walk`: payloads of 0, 6, 8 and 18 bytes, seven possible headers at each offset:
  one per way the framing rules go, two records and a tail in the longest. Every
  rule depends on one record and the bytes left behind it; the budget is tight
  already with one record. Theorems cover the rest.
- `payload`: `MAX_COUNT` 255 for `u32::MAX` and `WideLimit` 2^16 for 2^64 keep the
  ratio the compile-time asserts of `batch.rs` demand (`WidthsAssumption`); counts
  32 and 255 are those whose product leaves the narrow width. `HostMax` 511 puts
  an index times its stride past `usize`.
- `any_library`: `InitialBatchBytes` 20 and `MaxBatchBytes` 44 give room for a growth
  and a refusal at the ceiling; sizes lie below a header, at each batch, one past the
  ceiling and past `HostMax`. `MaxEmptyBatches` is 3, as in the code. `CounterLimit` 2
  stands for 2^64: the `u64` counters wrap, which they do in the
  release build only (a debug build would stop there); it makes endless streams cycles.
- `decode`: five records that outgrow the first buffer one at a time and the ceiling
  (76) together, a view that fails half way, a view with nothing in it; `PadMax` 3
  payload-free batches in a row, as many as are tolerated (1 in the runs that do not
  count them); counters do not wrap.
- `handles`: two threads, two documents, two decodes, one flag, two tokens: both
  decodes on one document or one each, on one thread or two. The names of one kind
  are interchangeable in every action and every invariant, and no liveness is
  checked, so the symmetry set is sound.
- `session`: two bounds, one of them declared narrower in C (`U32_MAX` 255; depths
  255, 256 and 260, of which the last two would be cut to 0 and 4); lengths 0, 1, 2 and one past `HostMax`; up to two
  views; sizes below the header, between the defaults and above both; a library that fits, one
  off in each number, and both, each linked or not. Sizes are set in any order, any number of times.
- `declaration`: headers of up to four pieces (comment ends and openers, halves of them,
  line ends, definitions), declarations with one field varied and a comment on any line, one
  fault each; all globs of up to four symbols over two letters and the star against all
  versions of up to four: enough for two stars with something behind each. The
  loops keep no memory beyond those pieces (a flag, the last star).
- `dump`: three significant digits where the code has fifteen and two decimals where it has
  six, so that every one of 900 digit strings is tried with either sign at ten places of the point: ties,
  carries past the first digit, nothing left, zeros behind. The loops look at one digit and
  whether all digits behind it are nines, which three digits tell apart. Texts of up to three
  characters over every character that is treated alone, the ones escapes are made of, and
  others; views of up to three records over each way a record can go.
- `build_script`: three edits from three starting worlds: enough for a decision, two
  edits that mask each other and an edit back. Three paths of which one is unprintable,
  two cache roots likewise; manifests that differ in one respect each, among them
  one whose digest differs behind the first eight bytes; an archive with everything but a `lib/`;
  all ways three paths may lead to each other. `Published` is the target.
  The target never changes: another target is another unit to cargo.

## 7. Fairness

`AnyLibrary!Spec`: weak fairness of the stream's own steps and of the library's
answer, since the thread that called `next()` runs and the library's call
returns (the crate has no timeout and cannot do without). No fairness on the caller.
`DecodeSpec` adds the caller that drains (`Ask` until the stream is finished), which
is the example in the docs of `PrimitiveStream`; only the liveness half of
`ImplementsDelivery` needs it. Nobody has to cancel. `Walk`, `Payload`, `Handles`, `Session`,
`BuildScript`, `Declaration` and `Dump` assume none: that the loops of the build script end
is stated step by step (`EveryTurnGetsOn`, a measure that every turn improves).

## 8. What is proved

All theorems are proved by `tlapm` for every value of the constants that meets
the named assumptions, which say: bounds are naturals, `None` is not one of
the values it is told apart from, the minimum buffer fits a `usize`, `u64` is
wide enough for the longest record (the asserts of `batch.rs`), batches, records,
answers and texts have the shape the model gives them, tokens and handles have
different names, an end of line is no definition, and `format!` writes at least one
digit and an exponent.

- **Walk** (`WalkInvariance`, `NoWalkIsInternal`, `OffsetsCanBeResumed`,
  `WalksAreFused`, `WalksStayOnRecords`). The invariant is `WalkInv`: what is left
  of the payload is less than eight times the budget that is left (`BudgetCovers`),
  every offset can be resumed at, and an iterator that answered a refusal has
  stopped. `NeverInternal` alone is not inductive: a budget of one at two records from
  the end satisfies it. `WalksStayOnRecords` takes the boundaries of a batch as the
  least set closed under the framing and shows each step stays in it.
- **Payload** (`NoInternal`, `ViewsAreTheirCounts`, `ItemsAreTiled`, `TheFormatIsDecoded`),
  so all that its run checks. No induction: `decode` is shown, type by
  type, to read inside its record and to accept what `WellFormed` says, from lemmas that the
  length identities are exact because the widths suffice (`IdentitiesAreExact`). That the
  windows of an element are among those the scan looked at (`ElementsAreScanned`) is what
  makes an answered number finite.
- **Stream** (`Invariance`, `BoundedCalls`, `StepKnowsItsPlace` from `TrackIsKept` and
  `NoRecordIsInternal`, `BoundedGrowth`, `FusedSafety`). `StreamInv` adds to the types where each loop
  stands: in the library nothing is finished and the batch is read to its end
  (`InLibrary`), the cursor of an unfinished batch that parses is at a resumable
  place (`Placed`), and calls so far are at most two per payload-free batch counted
  (`CallsSoFar`), without which `CallsAreBounded` is not inductive. `FusedSafety` is the step
  refinement of `FusedIterator`; its liveness is checked by TLC. `NeverLostNorConfused` speaks of the
  two errors with which `Core::step` blames this crate. The third of its `Error::Internal`, "a batch
  with bytes left in it produced no record", is reachable: a batch longer than its payload
  says ends in it, and prints as a bug, which it is, the library's.
- **Decode** (`DecodeInvariance`, `NothingIsHeldBack`, `CompletenessIsProof`, `BlamesNobody`,
  `CancelStops`, `CalledNoMore`, `DeliverySafety`), for any scripts, sizes and ways to cut a
  script into batches. `DecodeInv` follows a record from the library to the caller: what is
  behind the library (`Written`) are records of the script in order, what was given
  (`Delivered`) are the first of those, and the buffer holds the frame of the last batch with
  the cursor at the first record not given yet (`InBuffer`), without which nothing says
  that what `step` reads next is what comes next. `LibraryInv` adds that the stream's count of
  payload-free batches is the library's, so a library that pads within its allowance is never
  refused, and that a batch that was asked room for fits now. `Notice` says which calls may
  still bring a batch behind a cancellation; `CancelIsNoticed` alone does not know of the call
  under way. A frame is laid out by a recursive function; that it exists and what it computes
  is had without induction, from the least index at which it would fail (`LeastOf`). `FrameStep`
  then ties it to `next` of Batch. `CompletenessIsProof` holds for lossy scripts, too: the
  total of a DocumentEnd can only be reached if nothing was left out. `DeliverySafety` is the step
  refinement of Delivery.
- **Handles** (`Ownership`, `NoUseAfterClose`, `FlagsStayAllocated`,
  `NothingIsLeftOpen`, `ClosesAreOrdered`), for any number of threads and handles.
  `HandlesInv`: where each thread stands owns what it is busy with and no other thread is
  busy with it (`Busy`), what is open in the library is what Rust holds or forgot
  (`Sides`), an open decode holds its flag (`FlagsAreHeld`), numbers are drawn once
  (`Tickets`).
- **Session** (`SessionInvariance`, `HandshakeComesFirst`, `ReportedSizesAreReal`,
  `NoBoundIsCut`, `NoViewIsMixed`, `StreamsCanStart`), for any library, sizes, limits and
  number of views. `SessionInv` says what can be relied on at each call under way: what was made was
  made behind a handshake that matched (`Trusted`), the fields behind the getters are
  the sizes wished for, one raised as it is set and one as it is read (`RawSizes`), what
  `views()` has collected is what its calls said (`ViewsSoFar`), and the bounds that
  cross are those of the caller (`LimitsArriveWhole`). `SizesAreAsReported` compares the getters
  with `Reconciled`, which no order of setting can change.
- **BuildScript** (`BuildTypes`, `LinkedIsRight`, `TheLaneIsHonoured`,
  `ListingSuffices`, `LinesAreWhole`, `BothRoutesCheck`), for any paths, archives,
  headers, declarations and number of edits. `BuildInv` says what a kept decision is
  worth: it is what the script would decide as long as nothing was edited (`Kept`, since a
  decision depends on nothing but files and environment: `DecisionStays`);
  the part of it that rests on header and manifest only outlives other edits
  (`Agreed`); a successful build left nothing stale (`Fresh`). `LinkedArchiveAgrees`
  excepts a path that was made a link or led elsewhere since the run: cargo looks at the time of the
  file behind it, which may be an old one. `RoutesCheckAlike` says that the manifest and the files
  of an archive are checked alike on both routes, and names where the routes do differ: an archive
  without `lib/` (its libraries may lie anywhere in it) or behind a link to a place that cannot be
  printed is linked out of the cache and not through the variable. Each exception is met in the run.

- **Declaration** (`GlobInvHolds`, `GlobsAreExact`, `TurnsGetOn`, `LiveDefinitionsCount`,
  `DeclarationsAreRead`), so all that its run checks, for any header, declaration, pattern and version. `Covers` is turned into `Fits`: some way to lay
  the rest of the version under the rest of the pattern. `GlobInv` has the bounds of the
  loop, that what is matched behind the last star is literally the pattern (`Literals`),
  and that if the pattern fits at all, it fits with what is behind the last star at `resume`
  or later (`NothingLost`): going back to that star alone loses nothing, since what an earlier star
  could swallow the later one can, too. `TurnsGetOn` is the action property,
  from the same bounds. `LiveDefinitionsCount` rests on `HeaderInv` (the openers found so far are
  those of the reference, the comment under way is theirs, and what was copied
  is what they leave, in order) and on `DefinedInv`, that what is read of it is the
  one definition of its name. `DeclarationsAreRead` needs that a line has one reading though any
  `#` might begin its comment: no comment begins in the text of a value, and no string
  is open behind it (`Whole`), whichever the value (`ValueIsWhole`; an array is taken piece by piece,
  `PiecesAreWhole`). So what a line tells is what `strip_comment` leaves of it (`ToldIsRead`).
  `ParseInv` then says of the lines read so far that each set its key or nothing, and that what is
  set was set by one of them (`SoFar`), without which a line refused for its key
  might have been the one that was meant.
- **Dump** (`DumpInvariance`, `WholeOrNothingHolds`, `TextsStayWholeHolds`, `NumbersAreRoundedHolds`),
  for any view, text and number, and any number of decimals: all that its run checks. `DumpInv`:
  what was given is the view's in order, each line is that of a recorded record and
  stands at its count (`LinesInOrder`), and standard output is empty while the program runs; without
  the second, exit code 0 says nothing about what is missing. For a text, what is
  written of each prefix stays as more is written, and the reader that stands
  behind the escape of one character reads that character (`EscapeIsRead`) and then the rest.
  For a number, the digits are one number with what is cut off as a remainder: it is half a
  unit or more just when it begins with five (`FiveIsHalf`), the carry adds one (`CarriedAddsOne`),
  and padding and trimming change no value. That the last two hold for every length is had,
  as for frames, from the least place at which a loop would go wrong.

Only model-checked: the liveness of `ImplementsFusedIterator` and `ImplementsDelivery`, which is
out of the prover's reach. Every invariant and action property of a passing run is a theorem.

### Assumptions of the models

- The flag of a token is one atomic bit. It is stored with Release and loaded with
  Acquire, and nothing else is published through it.
- The relaxed counters are atomic steps in program order per thread; only one
  location at a time is involved in what is claimed.
- A document and its streams stay on the thread that made them, as in the code: neither type
  is `Send` or `Sync` (`owner` in Handles). Only tokens and the counters are shared.
- A panic inside the crate is not a step: the claim is that none is reached.
- `viprs_acad_close` releases every decode still open on its document: that is the
  contract of the header, and external.
- Cargo tells a changed file by its time, looked up through links, and that it is gone. Every edit
  of a file gives it a new time, a link that leads elsewhere gives none.
  After a failed run cargo keeps nothing and runs the script again.
  Nobody edits during a run.
- What was meant by a declaration is what it means, and nothing was meant by one that means
  nothing (`WorldsAssumption`, which TLC evaluates on texts that MCDeclaration writes out from
  what they mean, and on faulty ones: there nothing `Meanings` finds is a meaning, and by
  `MeaningIsOne` it finds them all). None is no text.
- Two files of one SHA-256 digest are equal; a digest is a pair of its first eight
  bytes and the rest.

## 9. What is left, and the plan

The plan from the start, in the order of importance: batch framing and payloads
(Batch, Walk, Payload), the stream (Stream, AnyLibrary, Decode), ownership (Handles),
the session (Session), the build (BuildScript, Declaration), the program that stands on all
of it (Dump), and proofs for all of them: done. Next:

1. The suite pin (`tools/suite_pin_check.sh`): which moves of the pin pass.
2. The rules of the manifest on single fields, where they interact (certified or not,
   presence of the four static fields, names of libraries).

Not modelled, and why: `ffi.rs` and the layouts (declarations, compared at compile
time and by the layout tests); `sha256.rs` (tested by vectors; collisions are out of
reach); Display texts; field values of items, copied from the bytes the runs delimit;
the iterators of the views, which forward to those of slices; builders and getters over plain
values; the directives of a link and their order, whose effect is the linker's (it is told of `lib/` only,
so a library elsewhere in an archive passes the check of `build.rs:266` and is not found); JSON;
`tools/aot_parity.sh` (compares outputs of real programs); `mem::forget` of a document
(leaks it, and nothing of it can be closed later); what the library does inside.

## 10. Where code and documentation differ

Each is a run whose one property states the sentence and is violated.

- `totals_doc`: `stream.rs:168` says `document_end()` is None after a refusal. It stays
  Some when the refusal comes behind the DocumentEnd record. `is_complete()` is right.
- `wire_doc`: the header (`viprs_acadsharp.h:93`) has the wire version in every batch so
  that a consumer can refuse it; a batch without a payload is never looked into.
- `stale_build_doc`: `build.rs:65` says every input the script reads has to be listed;
  `COMPAT.toml`, the cache directory and `HOME` are not, so a build goes on with a
  decision the script would not take now.
