--------------------------- MODULE LanguageParsers ---------------------------
(***************************************************************************)
(* The parsers of diagnostics/<language> that remember something from one  *)
(* line to the next, or look at the lines around one: Python tracebacks,   *)
(* Java and Node.js stacks, rustc headers, linkers, javac and SWC.         *)
(*                                                                         *)
(* Lines are numbers, and equal lines are equal texts.  What the           *)
(* recognisers return of a line is Reads[line], 0 standing for None; a     *)
(* message is the sequence of the texts it is put together from.  Classes, *)
(* severities and the source quoted by SWC are left out.                   *)
(***************************************************************************)
EXTENDS Selections, FiniteSetsExt, SequencesExt, Functions

CONSTANTS
  Lines, Reads,
  Texts, Places,              \* positive numbers
  MaxStackFrames, MaxSymbols, MaxContextLines,
  MaxHeaderDistance, MaxFrameLines, MaxContextDistance, MaxContextItems

OptionalTexts == Texts \cup {0}
OptionalPlaces == Places \cup {0}

LineOwners == <<"cpp", "typescript", "protobuf", "go">>
Marks == {"swc", "cpp_linker", "java_compiler", "rust_header", "rust_location",
          "javascript_exception", "javascript_location", "java_test", "python"}

ReadingType ==
  [size : Nat, blank : BOOLEAN,
   interesting : BOOLEAN, candidate : BOOLEAN, actionable : BOOLEAN,
   marks : SUBSET Marks,        \* what from_input finds in an interesting line
   opens_linker : BOOLEAN,      \* what it looks for in the others
   traceback : BOOLEAN, python_place : OptionalPlaces, python_exception : OptionalTexts,
   python_summary : OptionalTexts, summary_place : OptionalPlaces,
   java_exception : OptionalTexts, java_explicit : BOOLEAN,
   java_frame : OptionalPlaces, java_framework : BOOLEAN,
   node_place : OptionalPlaces,             \* unless the line starts with "at "
   node_exception : OptionalTexts,
   node_frame : OptionalPlaces, node_framework : BOOLEAN,
   rust_header : OptionalTexts, rust_place : OptionalPlaces, rust_detail : OptionalTexts,
   apple : BOOLEAN, apple_symbol : OptionalTexts, apple_end : BOOLEAN,
   linker : OptionalTexts, linker_place : OptionalPlaces,
   javac : OptionalTexts, javac_place : OptionalPlaces, no_symbol : BOOLEAN,
   error_prefix : BOOLEAN, symbol : OptionalTexts,
   swc_header : OptionalTexts, swc_place : OptionalPlaces, swc_end : BOOLEAN,
   swc_context : OptionalTexts, swc_wrapper : BOOLEAN,
   parsed : [Range(LineOwners) -> OptionalTexts], parsed_place : OptionalPlaces,
   evidence : 0..3]             \* failure_evidence_priority, 3 for None

ASSUME LanguageParsersAssumption ==
  /\ Reads \in [Lines -> ReadingType]
  /\ \A line \in Lines : ~Reads[line].blank => Reads[line].size > 0
  /\ {MaxStackFrames, MaxSymbols, MaxContextLines, MaxHeaderDistance, MaxFrameLines,
      MaxContextDistance, MaxContextItems} \subseteq Nat
  /\ MaxStackFrames > 0

(* What from_input looks for in a line is in the lines that javac.rs and   *)
(* pytest.rs recognise (".java:", "FAILED "), in those that it looks for   *)
(* the linker in, and no traceback's first line is an exception.  A frame, *)
(* which starts with "at ", is no exception of Java's, the Go parser finds *)
(* a place with every diagnostic, and no blank line reads as anything.     *)
ASSUME RecognisersAssumption ==
  \A line \in Lines :
    LET read == Reads[line]
    IN  /\ read.marks # {} => read.interesting
        /\ read.javac # 0 => "java_compiler" \in read.marks
        /\ read.python_summary # 0 => "python" \in read.marks
        /\ read.opens_linker /\ read.interesting => "cpp_linker" \in read.marks
        /\ read.traceback => read.python_exception = 0
        /\ read.java_exception # 0 => read.node_frame = 0 /\ ~read.node_framework
        /\ read.parsed["go"] # 0 => read.parsed_place # 0
        /\ read.blank =>
             /\ {read.node_place, read.node_exception, read.node_frame, read.java_exception,
                 read.java_frame, read.python_place, read.python_exception, read.parsed["go"]} = {0}
             /\ ~read.node_framework /\ ~read.traceback /\ read.evidence = 3

(* owner and line, the parser and the line it starts at, are not in the    *)
(* code's Diagnostic: they are what properties identify it by.             *)
Diagnostic(owner, line, message, location) ==
  [owner |-> owner, line |-> line, message |-> message, location |-> location,
   repetition_count |-> 1]

(* Results of an observation: the parser's next state and what it found,   *)
(* a sequence of at most one diagnostic.                                   *)
Result(parser, found) == [parser |-> parser, found |-> found]

(* What a parser that is shown a text line by line has found after each of *)
(* its prefixes, and in the end.                                           *)
And(acc, next) == Result(next.parser, acc.found \o next.found)
ParsedPrefixes(observe(_, _), initial, text) ==
  LET after[n \in 0..Len(text)] ==
        IF n = 0 THEN Result(initial, <<>>)
        ELSE LET acc == after[n - 1] IN And(acc, observe(acc.parser, text[n]))
  IN  after
Parsed(observe(_, _), initial, text) == ParsedPrefixes(observe, initial, text)[Len(text)]

----------------------------------------------------------------------------
(* PythonDiagnosticParser: the state is the latest frame, 0 for none *)

ObservePythonKeepingPlace(location, line) ==    \* variant: the place is not taken
  LET read == Reads[line]
  IN  IF read.traceback THEN Result(0, <<>>)
      ELSE IF read.python_place # 0 THEN Result(read.python_place, <<>>)
      ELSE IF read.python_exception = 0 THEN Result(location, <<>>)
      ELSE Result(location,
             <<Diagnostic("python", line, <<read.python_exception>>, location)>>)
ObservePython(location, line) ==
  LET read == Reads[line]
  IN  IF read.traceback THEN Result(0, <<>>)
      ELSE IF read.python_place # 0 THEN Result(read.python_place, <<>>)
      ELSE IF read.python_exception = 0 THEN Result(location, <<>>)
      ELSE Result(0, <<Diagnostic("python", line, <<read.python_exception>>, location)>>)

(* parse_failure_summary *)
PythonSummary(line) ==
  Diagnostic("python", line, <<Reads[line].python_summary>>, Reads[line].summary_place)

----------------------------------------------------------------------------
(* JavaTestDiagnosticParser *)

NewJava == [pending |-> <<>>, pending_is_explicit |-> FALSE, frames_seen |-> 0]

(* take_confirmed, of the parser in any of its states *)
JavaConfirmed(parser) ==
  IF parser.pending_is_explicit \/ parser.frames_seen > 0 THEN parser.pending ELSE <<>>

ObserveJavaFrame(parser, line) ==
  LET seen == [parser EXCEPT !.frames_seen = @ + 1]
  IN  IF ~Reads[line].java_framework
      THEN Result(NewJava, <<[parser.pending[1] EXCEPT !.location = Reads[line].java_frame]>>)
      ELSE IF seen.frames_seen >= MaxStackFrames THEN Result(NewJava, JavaConfirmed(seen))
      ELSE Result(seen, <<>>)

ObserveJava(parser, line) ==
  LET read == Reads[line]
  IN  IF read.java_exception # 0
      THEN Result([pending |-> <<Diagnostic("java-test", line, <<read.java_exception>>, 0)>>,
                   pending_is_explicit |-> read.java_explicit, frames_seen |-> 0],
                  JavaConfirmed(parser))
      ELSE IF parser.pending = <<>> THEN Result(parser, <<>>)
      ELSE IF read.java_frame # 0 THEN ObserveJavaFrame(parser, line)
      ELSE IF read.blank THEN Result(parser, <<>>)
      ELSE Result(NewJava, JavaConfirmed(parser))

----------------------------------------------------------------------------
(* JavaScriptTestDiagnosticParser *)

NewNode == [leading_location |-> 0, pending |-> <<>>, frames_seen |-> 0]

NodeConfirmed(parser) ==
  IF \/ parser.frames_seen > 0
     \/ parser.pending # <<>> /\ parser.pending[1].location # 0
  THEN parser.pending ELSE <<>>

ObserveNodeFrame(parser, line) ==
  LET seen == [parser EXCEPT !.frames_seen = @ + 1]
  IN  IF ~Reads[line].node_framework
      THEN Result([parser EXCEPT !.pending = <<>>, !.frames_seen = 0],
                  <<[parser.pending[1] EXCEPT !.location = Reads[line].node_frame]>>)
      ELSE IF seen.frames_seen >= MaxStackFrames THEN Result(NewNode, NodeConfirmed(seen))
      ELSE Result(seen, <<>>)

NodeException(parser, line) ==
  [NewNode EXCEPT !.pending =
     <<Diagnostic("javascript-test", line, <<Reads[line].node_exception>>,
                  parser.leading_location)>>]

ObserveNode(parser, line) ==
  LET read == Reads[line]
  IN  IF read.node_place # 0
      THEN Result([NewNode EXCEPT !.leading_location = read.node_place], NodeConfirmed(parser))
      ELSE IF read.node_exception # 0
      THEN Result(NodeException(parser, line), NodeConfirmed(parser))
      ELSE IF parser.pending = <<>> THEN Result(parser, <<>>)
      ELSE IF read.node_frame # 0 \/ read.node_framework THEN ObserveNodeFrame(parser, line)
      ELSE IF read.blank THEN Result(parser, <<>>)
      ELSE Result(NewNode, NodeConfirmed(parser))

(* reduce of junit.rs and node.rs *)
JavaTests(text) ==
  LET all == Parsed(ObserveJava, NewJava, text)
  IN  all.found \o JavaConfirmed(all.parser)
NodeTests(text) ==
  LET all == Parsed(ObserveNode, NewNode, text)
  IN  all.found \o NodeConfirmed(all.parser)

----------------------------------------------------------------------------
(* rustc.rs: a header waits for its first place and its first detail *)

RustFinished(pending) ==
  IF pending = <<>> \/ pending[1].location = 0 THEN <<>> ELSE pending

ObserveRust(pending, line) ==
  LET read == Reads[line]
      located == IF pending[1].location # 0 THEN pending[1]
                 ELSE [pending[1] EXCEPT !.location = read.rust_place]
      detailed == IF Len(located.message) > 1 \/ read.rust_detail = 0 THEN located
                  ELSE [located EXCEPT !.message = Append(@, read.rust_detail)]
  IN  IF read.rust_header # 0
      THEN Result(<<Diagnostic("rust-compiler", line, <<read.rust_header>>, 0)>>,
                  RustFinished(pending))
      ELSE IF pending = <<>> THEN Result(pending, <<>>)
      ELSE Result(<<detailed>>, <<>>)

RustCompiler(text) ==
  LET all == Parsed(ObserveRust, <<>>, text)
  IN  all.found \o RustFinished(all.parser)

----------------------------------------------------------------------------
(* linker.rs *)

NewLinker == [apple_undefined_symbols |-> FALSE, symbols_seen |-> 0]

LinkerDiagnostic(line) ==
  IF Reads[line].linker = 0 THEN <<>>
  ELSE <<Diagnostic("cpp-linker", line, <<Reads[line].linker>>, Reads[line].linker_place)>>

ObserveLinker(parser, line) ==
  LET read == Reads[line]
      listed == parser.apple_undefined_symbols /\ read.apple_symbol # 0
      ended == parser.apple_undefined_symbols /\ read.apple_end
  IN  IF read.apple THEN Result([parser EXCEPT !.apple_undefined_symbols = TRUE], <<>>)
      ELSE IF listed
      THEN IF parser.symbols_seen >= MaxSymbols THEN Result(parser, <<>>)
           ELSE Result([parser EXCEPT !.symbols_seen = @ + 1],
                       <<Diagnostic("cpp-linker", line, <<read.apple_symbol>>, 0)>>)
      ELSE Result([parser EXCEPT !.apple_undefined_symbols = @ /\ ~ended],
                  LinkerDiagnostic(line))

CppLinker(text) == Parsed(ObserveLinker, NewLinker, text).found

----------------------------------------------------------------------------
(* javac.rs: the symbol that cannot be found is named a few lines below *)

SymbolStop(line) ==
  Reads[line].javac # 0 \/ Reads[line].error_prefix \/ Reads[line].symbol # 0
SymbolOf(line) ==
  IF Reads[line].javac # 0 \/ Reads[line].error_prefix THEN 0 ELSE Reads[line].symbol
SymbolBelow(text, i) ==
  LET stops == {j \in (i + 1)..Min({Len(text), i + MaxContextLines}) : SymbolStop(text[j])}
  IN  IF stops = {} THEN 0 ELSE SymbolOf(text[Min(stops)])

JavacDiagnostic(line, symbol) ==
  Diagnostic("java-compiler", line,
             IF symbol = 0 THEN <<Reads[line].javac>> ELSE <<Reads[line].javac, symbol>>,
             Reads[line].javac_place)
JavaCompiler(text) ==
  FlattenSeq([i \in DOMAIN text |->
    IF Reads[text[i]].javac = 0 THEN <<>>
    ELSE <<JavacDiagnostic(text[i], IF Reads[text[i]].no_symbol THEN SymbolBelow(text, i) ELSE 0)>>])

----------------------------------------------------------------------------
(* swc.rs *)

(* The nearest header above the frame at i, 0 for none. *)
SwcHeader(text, i) ==
  Max({0} \cup {j \in 1..(i - 1) : i <= j + MaxHeaderDistance /\ Reads[text[j]].swc_header # 0})

SwcStarts(line) == Reads[line].swc_header # 0 \/ Reads[line].swc_place # 0

(* The last line of the frame that starts at i. *)
SwcFrameEnd(text, i) ==
  LET last == Min({Len(text), i + MaxFrameLines})
      starts == {j \in (i + 1)..last : SwcStarts(text[j])}
      ends == {j \in (i + 1)..last : Reads[text[j]].swc_end}
  IN  Min({last} \cup {j - 1 : j \in starts} \cup ends)

(* The lines that may say what failed: above the header and, up to the     *)
(* next header or frame, below the frame.                                  *)
SwcAround(text, header, frame_end) ==
  LET first == IF header > MaxContextDistance THEN header - MaxContextDistance ELSE 1
      last == Min({Len(text), frame_end + MaxContextDistance})
      below == Min({last} \cup {j - 1 : j \in {j \in (frame_end + 1)..last : SwcStarts(text[j])}})
  IN  [n \in 1..(header - first) |-> first + n - 1]
        \o [n \in 1..(below - frame_end) |-> frame_end + n]

(* Those that do, each thing said once (failure_context).  The line just   *)
(* below is looked at even when there are enough: there may be one too     *)
(* many.                                                                   *)
SwcSaysMore(text, found, j, frame_end) ==
  /\ Len(found) < MaxContextItems \/ j = frame_end + 1
  /\ Reads[text[j]].swc_context # 0
  /\ \A n \in DOMAIN found : Reads[text[found[n]]].swc_context # Reads[text[j]].swc_context
SwcMore(text, found, j, frame_end) ==
  IF SwcSaysMore(text, found, j, frame_end) THEN Append(found, j) ELSE found
SwcContextPrefixes(text, around, frame_end) ==
  LET after[n \in 0..Len(around)] ==
        IF n = 0 THEN <<>> ELSE SwcMore(text, after[n - 1], around[n], frame_end)
  IN  after
SwcContexts(text, around, frame_end) ==
  SwcContextPrefixes(text, around, frame_end)[Len(around)]

SwcFrames(text) ==
  Ascending({i \in DOMAIN text : Reads[text[i]].swc_place # 0 /\ SwcHeader(text, i) # 0})

SwcFound(text, i, header, frame_end, contexts) ==
  [diagnostic |->
     Diagnostic("javascript-swc", text[header],
       <<Reads[text[header]].swc_header>>
         \o [n \in 1..Min({Len(contexts), MaxContextItems}) |-> Reads[text[contexts[n]]].swc_context],
       Reads[text[i]].swc_place),
   consumed |-> {text[j] : j \in {header} \cup (i..frame_end) \cup Range(contexts)}]
SwcFoundBelow(text, i, header, frame_end) ==
  SwcFound(text, i, header, frame_end, SwcContexts(text, SwcAround(text, header, frame_end), frame_end))

(* parse_diagnostics: diagnostics and consumed_lines *)
SwcDiagnostics(found) ==
  [diagnostics |-> [n \in DOMAIN found |-> found[n].diagnostic],
   consumed_lines |-> UNION {found[n].consumed : n \in DOMAIN found}]
NoSwc == SwcDiagnostics(<<>>)
Swc(text) ==
  LET foundAt(i) == SwcFoundBelow(text, i, SwcHeader(text, i), SwcFrameEnd(text, i))
  IN  SwcDiagnostics([n \in DOMAIN SwcFrames(text) |-> foundAt(SwcFrames(text)[n])])
=============================================================================
