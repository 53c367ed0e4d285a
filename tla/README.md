# TLA+ verification of logcompact

`logcompact` reduces compiler, test and tool logs to bounded structured
findings. Callers open scopes in a `ReductionSession`, push bytes of several
streams into them in arbitrary chunks, and finally get one `Reduction`; parsers
see normalised lines and scope boundaries and emit findings; a last pass
redacts, deduplicates, ranks and cuts the findings to a budget.

This directory holds TLA+ modules translated from that code, TLC configurations
that check them on small instances, and proofs checked by TLAPS. `PROJECT.json`
lists components, runs, hazards, theorems, and for every definition the lines of
Rust it stands for. Paths below are relative to `crates/`.

## Running

    tlc -workers 2 -config MCSession_framing.cfg MCSession     # a run
    tlapm SessionProofs.tla                                    # the proofs of a component

Every `.cfg` starts with `MC<module>`, the module to give to TLC. The longest
run takes about three minutes on two cores.

## Inventory

| Component | State | Operations | Properties that make it correct |
| --- | --- | --- | --- |
| Reduction session (`logcompact-core/src/session.rs`) | open scopes, a line buffer per (scope, stream), candidate store, statistics, ordinals | `begin_scope`, `push_chunk`, `end_scope`, `finish`, the `Emitter` calls of parsers | chunk boundaries change nothing; scopes are bracketed; limits hold; every loss is counted and told |
| Output finalisation (`logcompact-core/src/finalize.rs`, `policy.rs`) | none: a pure pipeline | sanitise, suppress fallbacks, deduplicate, rank, cut to the budget | redaction precedes everything; nothing within budget is lost; what is lost is counted |
| Problem matchers (`logcompact-builtins/src/problem_matcher.rs`) | compiled matchers, partial multi-line matches per (scope, stream, matcher) | `add_json`, `observe`, `boundary`, `finish` | bounds on partial matches; isolation of scopes and streams; a failed registration changes nothing |
| Test failures (`logcompact-builtins/src/streaming.rs`, `test_log.rs`, `test_failures.rs`) | one reducer per scope: blocks of libtest, GoogleTest and go test | `observe`, `boundary` | incomplete logs invent no failures; output is attributed to its own test; a failed test is not forgotten |
| Built-in diagnostics (`streaming.rs`, `diagnostics/mod.rs`, `arbitration.rs`) | a text buffer per (scope, stream) | `observe`, `boundary` | memory bound; what looks like an error is not lost between parsers that claim it; an exception several languages know is reported once |
| Language parsers (`diagnostics/<language>/`) | what five of them remember from line to line (a place, a pending exception, counts) | `observe_line`, `reduce`, `parse_diagnostics` | a place goes to the exception it belongs to, and to no other |
| Batch interface (`logcompact-builtins/src/lib.rs`, `finalize.rs`) | none | `reduce_with_policy` | finds what the streaming parser finds |
| Command line (`logcompact/src/main.rs`, `lib.rs`) | the position in its inputs, whether stdin was read | one scope per input, render, exit status | the session has room for every input; nothing is written of half of them; the exit status tells the truth |

How they interact: the command line owns the session (a `&mut` value, so calls
never overlap) and calls it once per 64 KiB read. The session calls every parser
of the plan, in order, for each line and boundary, and hands it an `Emitter` that
writes to the session's candidate store. `finish` consumes the session and passes
the stored candidates to `finalize_findings`. There are no threads, no files are
written and nothing is persisted.

The hard behaviours are therefore not those of concurrency proper but of
*interleaved input*: several scopes and streams in progress at once, fed to
shared parsers through shared limits, in chunks cut anywhere; a line or scope
that a limit cuts; losses that several layers must hand on to one `truncated`
flag; scope ids that are used again; and text-driven state machines whose
forgotten state attributes a line to the wrong test or matcher. `PROJECT.json`
lists these hazards with the lines at which they bite.

## Plan

| # | Modules | Composes | State |
| --- | --- | --- | --- |
| 1 | `Session` with the abstract `LineFeed` | calls parsers as environment | checked and proved |
| 2 | `Finalize` | called by `finish` | checked and proved |
| 3 | `ProblemMatcher`, `MatcherRegistry` with the abstract `AtomicRegistry` | a parser of the plan | checked and proved |
| 4 | `TestFailures`, `TestFailureParser` | a parser of the plan | checked and proved |
| 5 | `LanguageParsers`, `BuiltinDiagnostics`, `BuiltinParsers` | a parser of the plan; beside it the batch interface | checked and proved |
| 6 | `TestLog` | `TestFailures` and the language parsers | checked and proved with 5 |
| 7 | `CommandLine` | owner of the session | checked and proved |
| 8 | `Pipeline`: `Session` with matcher and built-in parsers in place of the environment, then `Finalize` | all of the above | not begun |

Abstract specifications: a line feed without chunks, and a registry that loads
documents atomically; the batch interface is what the streaming parser is
compared with. Still worth doing: the pipeline of 8, in which a finding would be
followed from its bytes to the reduction.

## Modules and the code

### Session

`Lines.tla` holds what one stream's bytes mean: bytes are classes (`text`,
`blank`, `cr`, `lf`), `OpenLine` is the line since the last break, `Kept` and
`IsCut` what the line limit keeps of it, `TrimEnd` what normalisation does that
the session can tell (a line may become empty).

`Session.tla` translates `session.rs`. A call is several steps, because what a
parser is shown and emits half-way is what the rest of the call builds on: `pc`
names the statement reached and `call` holds arguments and locals.

| Action | Code |
| --- | --- |
| `RejectScope`, `BeginScope`, `BeginReturns` | `begin_scope`: refused and counted, or stored and dispatched |
| `PushChunk`, `FrameByte`, `PushReturns` | `push_chunk`: retention under the scope limit, then one turn of the byte loop per step; CR, LF and CRLF end lines |
| `DispatchBytes` (part of `FrameByte` and `FlushBuffer`) | `dispatch_bytes`: numbering, the blank-line return, statistics |
| `EndScope`, `FlushBuffer`, `CloseScope`, `EndReturns` | `end_scope`: buffers flushed in stream order, the effective reason, the End boundary |
| `ParserEmits`, `ParserDrops`, `ParserReturns`, `LineObserved` | the plan's callbacks and every use of an `Emitter` |
| `Finish`, `InterruptNextScope`, `FinishParsers`, `FinishReturns` | `finish`: end what is open as interrupted, call `Parser::finish`, count |

`feed`, `offered`, `log` and `emissions` are history variables: what properties
compare the code's state with. The code's saturating `u64` counters are naturals;
no run can reach their maximum.

`LineFeed.tla` is the promise: a feed of bytes with no chunks and no calls, in
which each line is received when its break arrives. `ImplementsLineFeed`
substitutes the session's state for it (`INSTANCE ... WITH`): wherever chunk
boundaries fall, parsers see the same events.

### Helpers

`Selections.tla` defines parts of a sequence, by the set of the elements
(`Only`) or of the positions (`Picked`) that stay: what the code's `retain`,
`filter` and push loops leave; `Ascending` puts the numbers of a set in order, as a
`BTreeMap` hands out its keys. `SelectSeq` would say the same as `Only`, but the
provers know nothing of operators with an operator argument.

### Finalize

`Finalize.tla` translates `finalize_findings` with `GenericRanker`, from its
arguments (`Inputs`) to its `Reduction`. Texts are numbers; redactor, path
mapper, terminal normalisation and joining of lines are functions on them,
serialized lengths are sums of `Size`, and `0` stands for `None`. Loops whose
iterations depend on each other (deduplication, the two `retain` loops) take a
step per finding; `stage` names the statement reached. `FinalizeProperties.tla`
defines what should come out without following the code: which findings count,
which are the same, which rank before which.

### Problem matchers

`Matchers.tla` holds the records both halves use. `ProblemMatcher.tla` translates
`observe`, `boundary` and `finish`: `PushLine` begins an observation, then one of
`NoMatch`, `CompleteMatch`, `ContinueMatch`, `StartMatch` is the turn of one
matcher; partial matches are the function `states` on (scope, stream, matcher). A
regex is a table from lines to captured texts. Blank lines never reach the parser
because the session does not dispatch them. `MatcherRegistry.tla` translates
`add_json` in the stages its statements have: the document is checked, its
definitions are validated and compiled one per step, a copy of the registry
takes them by owner, and the totals decide whether the copy is installed. Every
early return is a disjunct (`Fails`). `AtomicRegistry.tla` is the promise.

### Test failures

`TestFailures.tla` translates `TestFailureAccumulator` as operators on a record
with the struct's fields: `ObserveLine` is `observe_line` with its order of
recognisers, `Finish` and `Extracted` are `finish` and `finish_log`. A line is
what the recognisers return of it. A message is the record it is formatted from.
`TestFailureParser.tla` is the parser: a reducer is made by the first line that
may start a failure (`IsSeen` is the gate), and removed by `EndScope`. `format` is
chosen once: the set of lines a behaviour's logs are made of.

`TestLog.tla` is `TestLogReducer` as its other callers use it: it instantiates
`TestFailures` and adds the evidence, at most one diagnostic, that stands for a
log in which no test failure is found. `ObserveTestLine` is `observe_line` with
its order of parsers (a line that Go, Node.js or Java claim is not shown to
Python's), `FinishTestLog` is `finish_log`.

### Built-in parsers

A line is a number; `Reads[line]` is what every recogniser returns of it, and
equal lines are equal texts. Three modules build on each other:

| Module | Definitions | Code |
| --- | --- | --- |
| `LanguageParsers` | `ObservePython`, `ObserveJava`, `ObserveNode`, `ObserveRust`, `ObserveLinker` | the `observe_line` functions and the loop of `rustc.rs`; each returns the parser's next state and what it found |
| | `JavaCompiler`, `Swc` | parsers that look at the lines around one: the symbol below a javac error; header, frame and context of an SWC error and the lines it consumes |
| `BuiltinDiagnostics` | `Hints`, `Candidates` | the scan of a text (`from_input`) |
| | `ReduceTexts` | the parsers of texts in their order, those that are enabled and not overridden |
| | `ReduceLine` | `reduce_lines`: consumed, parsed, claimed, or reported as it is |
| `BuiltinParsers` | `Observe`, `EndScope` | `BuiltinDiagnosticParser`: the buffer of the line's stream grows within its limit; the scope's buffers are reduced |
| | `BatchDiagnostics` | `reduce_with_policy` of one input |

`log` and `segments` are history variables. The same lines are shown to one
`TestLogReducer` per scope, so that one behaviour serves both. `Cut` says what is
left of a line when it is cut inside a character.

The two ways to reduce a text do not get the same lines. What is written is a
sequence of raw lines (`RawLines`). The session cuts and normalizes each alone
(`Framed`); the batch interface normalizes the text as a whole, uncut: a raw line
that ends inside a terminal sequence (`OpenLines`) takes its line end and the start
of the next line with it (`Joined`, `Unbroken`), and only then is each line what
`Normal` says, and dropped if it is blank (`Normalized`). A title that nothing closes
swallows the rest of the text this way. The session drops blank lines too, so the two
ways agree where no line was cut and none but the last is open.

### Command line

`CommandLine.tla` follows `main`; `stage` names the statement reached, and every
early return is an action or a disjunct that calls `Fail`. Opening, reading and
writing may fail whenever they are called. Of the session there is what the
command depends on: scopes and their limit, the byte limit, candidates and their
limit, and a short form of `finalize_findings` (suppression by a span that is the
whole scope, ranks, the two budgets). `Session` and `Finalize` have the detail. A
read returns one line with at most one finding, and no two findings are equal.

| Action | Code |
| --- | --- |
| `CheckArguments`, `LoadMatcher`, `RefuseMatchers`, `StartSession` | up to the session with its limits, which are computed from the arguments |
| `BeginInput`, `OpenInput`, `FailToOpen` | the loop over inputs: scope id, `begin_scope`, stdin only once, `File::open` |
| `ReadChunk`, `StopReading`, `EndInput` | `stream_reader`, then `end_scope`, then the read's error |
| `Finish`, `Write`, `FailToWrite`, `Exit` | `finish`, `write_all`, `has_severity`; what stdout still buffers may be lost at exit |

## Runs

| Run | What it asks | Answer |
| --- | --- | --- |
| `session_framing` | Do parsers see the split of the retained bytes, however these were cut into chunks? `FramingIsSplit` compares with a definition of the split; `ImplementsLineFeed` is the refinement. Do the limits hold in every step and is every emission stored or counted, when two parsers share the store? | yes |
| `session_scopes` | Are lines bracketed by Begin and End when scopes interleave, are refused and reused? Are bytes counted right at the limit, is truncation told at the End, is engine provenance a line the parser was shown, do the limits hold, does every call return? The inductive invariant of the proofs is checked as well | yes |
| `session_refused` | Does input refused by the scope limit make the reduction truncated? | no |
| `finalize_findings` | Is the result what the reference says: counted, ranked, merged, sanitised, within budget, with every loss told? | yes |
| `finalize_failures` | Is no test failure returned twice? | no |
| `finalize_errors` | Is no warning returned while an error was left out? | no |
| `matcher_lines` | Does each matcher report the runs of its own stream of its own scope, all of them unless it reported a drop, within limits all share? | yes |
| `matcher_registry` | Is a document loaded whole or not at all, and can the parser run whatever the registry holds? | yes |
| `test_failure_logs` | Is the state bounded, does the gate skip nothing that matters, is what is reported said by the log of that very test, and is no failed test forgotten? | yes |
| `builtin_logs` | Are buffers bounded? Does streaming find what the batch interface finds in what was written, unless lines were cut or leave a terminal sequence open? Is every exception reported once and with its own place, every repetition counted, every line that looks like an error said by some finding, and the evidence of a test log the best there is? | yes |
| `command_line` | Does the session serve every input, is output written of all inputs or of none, does the exit status tell the truth? | yes |
| `command_line_threshold` | Does the command exit with 1 when a finding at the threshold or above is reported? | no |

The runs answered with *no* check one statement of the documentation each, and
the shortest behaviour TLC finds is what the code does:

- `session_refused`: `push_chunk` marks the scope when it refuses bytes, and the
  End boundary says so, but `finalize_findings` computes `truncated` from omitted
  findings, dropped candidates and cut lines only. The model has one more gap of
  this kind that no run is spent on: when what a line limit keeps of a line is
  blank, `dispatch_bytes` returns before it counts the cut.
- `finalize_failures`: failures are sorted by provenance and name, so equal ones
  may not be neighbours when `dedup_by` compares neighbours.
- `finalize_errors`: `retain` goes on after an error that does not fit the byte
  budget, and returns smaller warnings, where `PROBLEM_MATCHERS.md:184` says that
  output budgets retain errors before warnings and notes. `BestKept` says what the
  budgets do keep: a finding comes out exactly if it fits beside the better ones
  that do.
- `command_line_threshold`: `has_severity` looks at test failures only when the
  threshold is `error`, so `--fail-on warning` accepts a log that `--fail-on error`
  refuses.

The models show two more disagreements with `PROBLEM_MATCHERS.md` or the
documentation of `Reduction`, which no run is spent on:

- A blank line neither ends nor resets a multi-line match, where
  `PROBLEM_MATCHERS.md:127` says that lines must be consecutive
  (`ProblemsAreRuns` counts the lines that are dispatched, so that blank lines are
  outside of what it says).
- A Go test that prints a location keeps its block when it passes; once
  `MAX_GO_BLOCKS` are kept, a failing test gets none, and no counter says so
  (`FailedTestsReported` excuses logs that use up the blocks).

Repetitions count: a block of libtest or GoogleTest is collected while there are
fewer than `MAX_LOG_FAILURES`, and `finish_log` drops it as a duplicate afterwards,
so a log that repeats the failures of a few tests can keep later tests from being
reported. No document says that it should not. `FailedTestsReported` therefore
excuses a log by what is collected of it, blocks and other failures together, and
by no more (`FailuresMayBeFull`); to compare with the failures reported alone is
wrong for limits of three and more.

What `LinesAccounted` has to excuse is what the arbitration does lose: a rustc
header that no place follows, since `claimed_language_line` claims it and rustc's
parser drops it; an apparent Python exception or linker error that the scan of
the text saw no sign of, so that the parser which claims it never runs; a linker
error in the line of a list of Apple's linker, which the parser reads as part of the
list; lines of a traceback; and the line just below an SWC frame when two contexts
were found above it, since it is consumed as a third and then cut off.
`ExceptionsReportedOnce` always holds between Python's parser and the others.
Between JavaScript's and Java's it leaves out texts with an `Ambiguous` line, one
that may confirm an exception for both: a place of JavaScript's own, a frame that
both languages have, `Exception in thread`, which needs no frame in Java.

### Bounds, and why they are enough

- *Session.* `MaxInput`, `MaxChunk`, `MaxBegins` and `MaxEmissions` bound the
  calls; the code's limits are small so that they are crossed. Framing has the four
  kinds of bytes, six of them in chunks of up to three, a line limit of two and a
  scope limit of five: CR and LF in one chunk and in two, cut lines, cut lines that
  are blank, refused tails; and two parsers with a store of one, so that what one of
  them stores another cannot. The run of scopes has two scope ids, so that one is
  refused, begun again, or open beside another, two streams, and a parser that emits
  at any callback.
  A line buffer's next state depends on one byte and two flags, so longer lines
  repeat what short ones show; the proofs need no bound.
- *Finalize.* Three findings: two to merge or cover, one in between or ranked
  with them. The path mapper makes a secret of a plain path, so that mapping and
  redaction do not commute. `MaxCount` is 3 so that the counter saturates; budgets of none, some
  and all items, and of few and all bytes.
- *Matchers.* Three matchers (one line, three lines, a header and a loop) that
  share first lines, six kinds of lines, two scopes, two streams, four lines in
  open scopes; two partial matches and six bytes at most, so both limits are
  crossed. Scopes and streams are interchangeable (symmetry).
- *Registry.* Three calls; two owners and seven bytes at most, so that documents
  within limits add up to a registry that is not.
- *Test failures.* Four lines in two scopes, limits of two blocks, three failures
  (a repetition and two tests reach them) and one detail. A behaviour's lines are of one format; a fourth set mixes them.
  Four lines are a test, its output, its status and one line of another test. One
  stream: the reducer looks at it only for the provenance, the lines of a scope's
  streams are one sequence to it, and properties take them as that. The theorems hold
  for any streams.
- *Built-in parsers.* `MCSetups` has one setup per language with the lines it tells
  apart and up to four of them: two exceptions and what lies between them, or a
  header with one line too many; three setups mix languages, override parsers or
  end scopes twice; one writes raw lines that open a title (101), open a sequence that
  the next letter ends (102) or are longer than a line may be (103); the last has two scopes, two streams, and buffers of five bytes
  for lines of two and three, so that one is cut, one is cut inside a character and
  one is left out. Limits of stacks, symbols and contexts are one or two, so that
  they are reached.
- *Command line.* None, one, two and three inputs, stdin twice, one matcher file
  too many; `MaxReads` lines of five kinds (an error, a warning, a note, a fallback,
  a failed test), budgets of no, one and two items, every threshold.

### Fairness

Only `CallsReturn` needs it. `FairSpec` adds `WF_vars(SessionNext)`: a call that
was made goes on. The code is sequential and its loops run over finite
collections (bytes of a chunk, streams, open scopes, the plan), so its steps
cannot stop; that a parser returns from its callback is trusted. Callers owe
nothing: no fairness on `CallerNext`, `ParserEmits` or `ParserDrops`.

## Proofs

| Module | Theorems |
| --- | --- |
| `SessionProofs` | `Invariant`, `TypeCorrect`, `LimitsAlwaysHold`, `RetainedAlwaysPrefix`, `NothingDroppedSilently`, `SessionImplementsLineFeed`, `ScopesAlwaysBracketed`, `ProvenanceAlwaysReal`, `FramingAlwaysSplit`, `BytesAlwaysAccounted`, `TruncationAlwaysTold` |
| `FinalizeProofs` | `Invariant`, `TypeCorrect`, `BudgetsAlwaysHold`, `NoDiagnosticReturnedTwice`, `OutputAlwaysSanitized`, `UsedBytesAlwaysExact`, `FindingsAlwaysAccounted`, `BestAlwaysKept`, `LossAlwaysTold` |
| `ProblemMatcherProofs` | of the parser `Invariant`, `TypeCorrect`, `ActiveStatesAlwaysBounded`, `StatesAlwaysBounded`, `StatesEndWithScopes`, `ProblemsAlwaysRuns`, `ProblemsAlwaysComplete`; of the registry `RegistryInvariant`, `InstalledAlwaysReports`, `InstalledAreMatchers`, `RegistryImplementsAtomic` |
| `TestFailureParserProofs` | `ReducersAlwaysBounded`, `GateAlwaysTransparent`, `ReportsAlwaysEvidenced`, `FailedTestsAlwaysReported` |
| `BuiltinParsersProofs` | `BuffersInvariant`, `BuffersAlwaysBounded`, `BatchAlwaysAgrees`, `ExceptionsAlwaysPlaced`, `ExceptionsAlwaysReportedOnce`, `LinesAlwaysCounted`, `LinesAlwaysAccounted`, `EvidenceAlwaysBest` |
| `LanguageParsersProofs` | lemmas only: what each parser of a language finds in one text, line by line, and what they find together |
| `CommandLineProofs` | `CommandInvariant`, `SessionAlwaysServes`, `OutputIsOfAll`, `StatusAlwaysTold` |
| `FoldLemmas` | lemmas only: sums, folds, selections, ranks, induction along a sequence |

Most theorems are `Spec => []P` for a property `P` that a run checks on a small
instance; `PROJECT.json` names it. They hold for all values of the constants that satisfy
the named assumptions of the modules. Most of an assumption is the types of the
constants; what goes beyond types is this:

- `LinesAssumption`: there are finitely many streams, as there are in `Stream`.
- `FinalizeAssumption`: the span of a finding's provenance ends where it begins or
  later, as the session makes it.
- `MatchersAssumption`, `ProblemMatcherAssumption`: what registration establishes
  of a matcher (`WellFormed`, which `InstalledAreMatchers` proves of every matcher the
  registry installs), and that a regex captures groups it has.
- `LanguageParsersAssumption`, `BuiltinParsersAssumption`: a line that is not
  blank is not empty, cutting a line to `n` bytes leaves at most `n` and to all of them
  leaves it as it is, `0`, for nothing left, is no line, and the parsers of stacks look
  at one frame at least.
- `RecognisersAssumption`: what the recognisers of one line have to do with each
  other. What `from_input` looks for is in the lines that `javac.rs` (`.java:`) and
  `pytest.rs` (`FAILED `) recognise and, if the line is an interesting one, in those
  it looks for the linker in; the first line of a traceback is no exception, and an
  exception of Java's no frame of Node.js; Go's parser always finds a place; and a line
  of white space is nothing to any of them.
- `CommandLineAssumption`: the types of arguments and inputs.
- `TestFailuresAssumption`: cutting a name that was cut changes nothing
  (`bounded_text`), no line begins both like GoogleTest's marks and like a line of
  libtest (the recognisers look at prefixes, `test_failures.rs:522`, `:700`), none
  is both go test's start and its status or both libtest's block and its panic, for
  the same reason, and `0`, which stands for `None`, is no name, text or place.

*Folds and recursion.* `FoldLemmas` gives what the other modules need of data whose
size is not known: a fold or a recursive function is a `CHOOSE`, so the first step
is always that such a function exists (by induction on the set of indices a claim
holds of, `InductionOnNat`, since a lemma cannot have an operator as a
parameter), and the second the equation it satisfies. From there: sums over a
function when one value changes or one index is added (`ByteAccounting`,
`UsedBytesExact`, `BuffersBounded`, `StatesBounded`); `Only` and `Picked` when an
element is appended; ranks and the permutation a stable sort is.

*Session.* `IInv` is `TypeOK`, `Control` (which call is in progress at each point
and that its scope is open) and `BufferIsOpenLine`: every line buffer holds what
the line limit keeps of the open line of its feed, and closed scopes leave empty
buffers. The last is what makes the refinement inductive: the line feed computes
a line from the bytes, the session from its buffer, and both agree because
appending a byte changes `Kept(OpenLine(feed))` as `AfterByte` changes the buffer
(`OpenLineAppend`, `KeptAppend`). Limits, retained bytes and loss accounting follow
with their own conjuncts, by cases on the actions. `BytesAccounted` is the form of
`ByteAccounting` that is inductive: what a scope retained is what its feeds hold and
what the call in progress has still to frame. `LossMarked` is that of
`TruncationTold`: an open scope is marked exactly when a byte of it was refused or a
cut line of it shown.

*What parsers are shown.* `StepShows` reduces every step of the session to one of
four shapes: it shows nothing, or a Begin, a line or an End of the scope of the
call, and opens or closes that scope with it. Brackets follow from `OpenIsInside`,
that the open scopes are those whose last boundary in the log is a Begin;
provenance from `LastIsDispatched`, that during a callback the last event is the
one the callback is about. `FramingIsSplit` is the invariant `BreaksShown`: the
lines of a stream in the log stand in order for the breaks of its feed whose lines
are not blank, which a step either leaves alone or extends at the end of both.

*Finalize.* `IInv` adds to the types that omissions never become negative, that
budgets hold once they apply and that no two diagnostics are equal but for
quality and repetitions. The last is needed through four kinds of steps (merging
into an element, appending, reordering by a stable sort, removing elements), each
with a lemma (`DeduplicationStaysDifferent`, `ReorderedStaysDifferent`,
`KeptStaysDifferent`, `PrefixStaysDifferent`). `OutputSanitized` has an invariant of
its own, `VectorsSanitized`: after the first statement no vector holds a text that
was not sanitised, since merging lends only counts and qualities. `BytesCharged`
says what `used_bytes` is between two turns of a `retain` loop.

`FindingsAccounted`, `BestKept` and `LossIsTold` speak of the input, the vectors only
of what has become of it, so their invariant `FindingsTraced` (`FailuresTraced` for
test failures) says at every `stage` which position of the input each element comes
from: after suppression the trace is the findings that count in their order
(`IsTrace`); during deduplication, element by element, first occurrences with the
count and the best quality of the repetitions passed so far (`IsMerged`); after
ranking a permutation of it in rank order that shows all (`IsShown`, `ShowsAll`);
under the budgets what the loop has chosen of it (`Chosen`): what has been looked at
and stays fits, and of the best `max_items` only those are gone for which the elements
before them leave no room (`NoRoom`). The loop compares with `used_bytes` and
`BestKept` with the sizes of what comes out, which are the same by `BytesCharged`;
elements after a position never change what is before it, so a finding that found no
room finds none in the end, and one that stays had room.

*Problem matchers.* `IInv` says that partial matches belong to open scopes, wait
for a pattern that exists and are at most `max_active_states`. Each turn removes
one state and puts at most one back (`OthersSuffice`, `InsertedSuffices`), so
the bound needs the count after the removal and not before. `ProblemsAreRuns` and
`ProblemsComplete` share the invariant `RunsInv`: while a line is observed it is the
last of its source's log (`LineIsLast`); every partial match is a run of its source
that ends at the last line its matcher saw, and of a matcher that dropped none there,
the partial match and the problems are those the reference definition expects up to
that line (`AllTracked`); every problem is a run (`AllRuns`). Matchers take turns, so
the first of them have seen one line more than the others: `Seen` says how many.

*Registry.* `RegistryIInv` says at each stage what of the document is in `compiled` and
`next` (`CompiledSoFar`, `ReplacedSoFar`), that owners differ, that every matcher is
one the parser can run (`AllWellFormed`) and that nothing is left between calls
(`NothingLeft`). The refinement maps every stage but the last of a call to a stutter
of `AtomicRegistry`, and the installation to its one step.

*Test failures.* `ReducersBounded` follows from `TypeInv`, whose `Sound` adds to the
types how the fields of an accumulator go together (a panic is one of the running
test, and no block is kept without its name). The gate: by `GateInv` a reducer equals the fold of all lines, since a line
that `IsSeen` refuses starts nothing (`IdleLine`) and an accumulator that is not
active is not changed by it. So what is reported is a function of the log alone, and
`ReportsEvidenced` becomes a statement on sequences of lines: `Evidenced(acc, lines)`,
that every block and failure of the accumulator is from the lines of its own test
(`GoBlocksOf`, `FailuresOf` and their like for GoogleTest and libtest). It is proved
by induction along the log: what was evidenced by some lines is evidenced by more of
them, and one line adds to a block only what is its own, because the names kept
between lines are the test the line is output of (`TestAt`).

`FailedTestsReported` is the converse and needs an invariant of its own along the
log, `Collecting`. For each format it says that a test named as failed is still
somewhere, in a block in progress, in one that was kept or among the names with a
status only, unless the limit of these was reached (`GoNoted`, `GtestNoted`,
`RustNoted`); compaction removes only blocks of Go's without a failure, so a failed
one is missing only where there was no room for it. And it counts (`Counted`): the
blocks taken and the names of blocks that no block has are together no more than the
lines that make a block. What is left is `finish_log`, which adds in layers (blocks,
then Go's, then names without one, then the messages that differ), each up to the
limit. By `LayersFull`, if the limit was reached then the blocks' lines and the
failures reported of no block add up to it, though the duplicates among the blocks
are gone from the report.

*Built-in parsers.* `IInv` says of every buffer that its scope is open, that its
lines are numbered below the next number of its stream, and that it is within its
bound. `BufferedFits` is the arithmetic of one line, cut or not (`TextLengthGrows`):
a whole line leaves room for its separator, a cut one may exceed the limit by
that byte, after which nothing is available. `NumberGrows` needs that the
positions of dispatched lines are a finite set that gains one element.

`BatchAgrees` compares what a segment found with the raw lines of its log, which is
gone from the buffers by then. Where no line was cut and none but the last is open,
these come down to the lines that were framed (`LinesWhole`, `UnbrokenWhole`,
`NormalizedWhole`). The invariant `Holding` says while the scope is open what
`SegmentAgrees` says when it has ended: there is a buffer for every stream with a
written line and no other, from line 1 to the number of its written lines, and while
the text of the stream fits, the buffer holds that text (`BufferHolds`). It is
inductive because a text that fits after a line did so before it (`WholeBuffered`:
then the line is within what is available, or exactly fills it and is cut at its
end, which leaves it whole), and because a line changes `Only` of its own stream and
of no other (`StreamAccords`). Segments that have ended stay as they are until
`Finish` (`SegmentsKept`).

*What the built-in parsers find.* Of a text that fits its buffer, what was found is
`TextDiagnostics` of it, in every state (`SegmentsReduced`, from the same invariant), so
four of the theorems on findings are statements on one text, any sequence of lines
(`ReportsAre`). They have three parts.

Each parser is a fold along the text, and what it has after each prefix is found by
induction. `ExceptionsPlaced` compares with references that look at the whole text:
after a prefix the pending exception is one of its lines with only frames below it
(`JavaAt`, `NodeAt`, `PythonAt`, `RustAt`), and what was found is what the reference
says of the lines above; `Below` and `Nearest` follow a stack and a place as the
prefix grows. Arbitration keeps the parts apart: the findings of a text are those of
the seven parsers of texts and then those of single lines (`TextDiagnosticsAre`), each
part carries its owner (`From`), so that each can be taken out again
(`PartsTogether`).

`LinesCounted` needs of the last part that line by line it grows by one finding of
that line or not at all (`ReportedOf`), and that candidates are first occurrences in
order. For `ExceptionsReportedOnce` each finding of the three parsers of exceptions
is given a line of the text at which it was found (`Spread`), in each part a
different one; the lines of the parts are disjoint, because Python's parser is not
shown what the others have reported and nothing that is not `Ambiguous` confirms a
line for both of those, so that findings of a line are no more than its occurrences.

`LinesAccounted` is what this costs: a line that nothing is said of by the last part
was consumed or claimed (`Tells`). Whoever claims it runs, since the scan has seen
what it looks for (`HintsSee`, `CalledFor`), and says it, since what was found along a
text stays found (`GrowingHas`, `LinkerSays`, `JavacSays`, `PythonSays`,
`TestExceptionSays`); a consumed line is in the frame of an error of SWC's, is its
header, or is one of the contexts the error has, but for the one below the frame
(`SwcErrorSays`).

`EvidenceIsBest` is about four parsers that are shown one line after another, in
segments that may end too early, while one candidate is kept. The invariant `LogsHeld`
says of every test log what is kept of the texts so far (`HeldBy`): the parsers of
JavaScript and Java are where they would be alone, and so is Python's as long as none
of the others has found anything; and what is kept stands (`Standing`), it was found by
the others, or by Python's when they found nothing, or it is a line that tells, and is
no worse than anything found or shown. One line adds to the evidence what its parsers
find of it (`EvidenceGrows`), the best of that is a candidate (`CandidateStands`), and the
better of two that stand does (`StandingMore`). The end of a segment adds the
exceptions that were waiting for a frame, but only if it was complete (`JavaWaits`,
`NodeWaits`). `HeldBest` compares with the references. Logs with `Mixed` lines have to
be left out of the first conjunct: Python's parser may have kept a place from lines
between which others hid some, and of two findings at one line only the first is kept.

*Command line.* `IInv` says for each `stage` which scopes are open, which inputs
have ended and how, and what was written. The session always serves because the
scope of one input is ended before the next begins, so none is open at
`BeginInput`, and the limit is at least 1 for every list of inputs, the empty one
included. `StatusTold` needs what the session holds of the lines read
(`CandidatesSeen`), that the reduction is the one of those candidates and does not
change (`ReductionFinal`), and that the status was computed from it
(`StatusOfReduction`); with them, that what fits the budgets together is kept whole
and a part never weighs more than the whole.

Model-checked only: `CallsReturn`, since liveness, and `ENABLED` with it, is beyond
these provers. The four properties that a run finds violated have no theorem.

### What the properties leave open

- `ProblemsAreRuns` counts dispatched lines: that blank lines do not interrupt a match
  is outside of it.
- `ExceptionsPlaced` gives an exception the nearest place that none above it has used,
  at any distance, as the code does. The place of an exception that nothing recognised
  passes to the next one, and the property accepts it.
- `LinesAccounted` excuses every rustc header without a place, and says nothing of
  sessions with overrides, in which the lines of a parser that was replaced are claimed
  as before.
- `EvidenceIsBest` says which evidence is kept of a test log, not that it is right.
- `FailedTestsReported` excuses go test's blocks by the number of lines that may make
  one, which is more than the blocks made: several lines of a test share a block, and
  `compact_go_blocks` removes repetitions.
- `OutputOfAll` takes `"Complete"` as the reason that `main` passes to `end_scope`; the
  session may turn it into `Truncated` (`TruncationTold`). It leaves out an unterminated
  last line on stdout, which is lost at exit when flushing it fails.
- `StatusTold` does not ask that a failed test raise the status at a threshold below
  error: that is what `ThresholdHonored` asks, and no command could satisfy both
  otherwise.

## Not modelled, and why

- The pipeline as a whole: the components are checked against the session as
  environment and the session against parsers as environment. What one hands to
  the other (lines, boundaries, candidates with spans) is modelled on both sides.
- Recognition of one line: regexes, the recognisers of test output and of the
  language parsers, the four parsers of single lines (C++, Go, Protobuf,
  TypeScript). Models take what they return as data. Fixtures beside the code test
  them.
- Severities and classes of built-in diagnostics, and the source lines an SWC
  finding quotes: nothing later depends on them but ranks, which `Finalize` has.
- The flag of a buffer that it was truncated: the code sets it and never reads it.
- Reading a matcher file up to its limit: `MatcherRegistry` refuses a document that
  is longer.
- Escape sequences, UTF-8 replacement and the rest of `text.rs`, character by
  character: abstracted to whether anything is left of a line (`Session`), to functions
  on lines and to whether a sequence is still open where a line ends
  (`BuiltinParsers`), and to a function on texts (`Finalize`).
- The check that parser identifiers are unique when a plan is built, and the
  renderers: they decide nothing that a later state depends on.
- Build files, fuzz targets, benchmarks and release scripts: no behaviour of the
  program.
