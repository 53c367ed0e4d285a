-------------------------- MODULE BuiltinDiagnostics --------------------------
(***************************************************************************)
(* add_normalized_text_diagnostics (diagnostics/mod.rs, arbitration.rs):   *)
(* what the built-in parsers make of one text.  Parsers of texts go first, *)
(* those the scan sees a reason for; then each different line that no      *)
(* other parser claims goes to the parsers of lines, and if these do not   *)
(* know it but it looks like an error, it is reported as it is.            *)
(***************************************************************************)
EXTENDS LanguageParsers

TextOwners == <<"javascript-swc", "cpp-linker", "java-compiler", "rust-compiler",
                "javascript-test", "java-test", "python">>
BuiltinOwners == Range(TextOwners) \cup Range(LineOwners)

Options(fallback, max_buffered_scope_bytes, overrides) ==
  [fallback |-> fallback, max_buffered_scope_bytes |-> max_buffered_scope_bytes,
   overrides |-> overrides]

----------------------------------------------------------------------------
(* TextDiagnosticScan::from_input *)

HintsOfInteresting(text) ==            \* variant: no look at the other lines
  UNION {Reads[line].marks : line \in {line \in Range(text) : Reads[line].interesting}}
Hints(text) ==
  LET interesting == {line \in Range(text) : Reads[line].interesting}
      opens_linker == \E line \in Range(text) \ interesting : Reads[line].opens_linker
  IN  (UNION {Reads[line].marks : line \in interesting})
        \cup (IF opens_linker THEN {"cpp_linker"} ELSE {})

EachCandidate(text) ==                 \* variant: as often as it occurs
  Picked(text, {i \in DOMAIN text : Reads[text[i]].candidate})
(* Each different candidate, where it occurs first. *)
Candidates(text) ==
  Picked(text, {i \in DOMAIN text : /\ Reads[text[i]].candidate
                                    /\ \A j \in 1..(i - 1) : text[j] # text[i]})

Occurrences(text, line) == Cardinality({i \in DOMAIN text : text[i] = line})

(* The marks without which a text is not shown to its parser (enabled).    *)
Needs ==
  [owner \in Range(TextOwners) |->
     CASE owner = "javascript-swc" -> {"swc"}
       [] owner = "cpp-linker" -> {"cpp_linker"}
       [] owner = "java-compiler" -> {"java_compiler"}
       [] owner = "rust-compiler" -> {"rust_header", "rust_location"}
       [] owner = "javascript-test" -> {"javascript_exception", "javascript_location"}
       [] owner = "java-test" -> {"java_test"}
       [] owner = "python" -> {"python"}]

----------------------------------------------------------------------------
(* TextDiagnosticContext and the parsers of texts, in their order *)

With(context, found) == [context EXCEPT !.diagnostics = @ \o found]
Messages(found) == {found[n].message : n \in DOMAIN found}

ClaimedByNodeTest(line, context) ==    \* variant: only one of the two languages
  <<Reads[line].node_exception>> \in context.javascript_test_messages
ClaimedTestException(line, context) ==
  \/ <<Reads[line].node_exception>> \in context.javascript_test_messages
  \/ <<Reads[line].java_exception>> \in context.java_test_messages

(* reduce_python: acc has the location the parser is left with.            *)
ReducePythonLine(acc, line, seen) ==
  LET summary == PythonSummary(line)
  IN  IF seen.found # <<>>
      THEN [location |-> seen.parser, found |-> acc.found \o seen.found,
            python_messages |-> acc.python_messages \cup Messages(seen.found)]
      ELSE [acc EXCEPT
              !.location = seen.parser,
              !.found = IF Reads[line].python_summary = 0 \/ summary.message \in acc.python_messages
                        THEN @ ELSE Append(@, summary)]
ReducedPythonLine(acc, line, context) ==
  IF ClaimedTestException(line, context) THEN acc
  ELSE ReducePythonLine(acc, line, ObservePython(acc.location, line))
PythonPrefixes(text, context) ==
  LET after[n \in 0..Len(text)] ==
        IF n = 0 THEN [location |-> 0, found |-> <<>>, python_messages |-> {}]
        ELSE ReducedPythonLine(after[n - 1], text[n], context)
  IN  after
ReducePython(text, context) == PythonPrefixes(text, context)[Len(text)].found

WithPython(text, context) == With(context, ReducePython(text, context))

(* What the parsers that look at nothing else have found.                  *)
Context(swc, others, javascript, java) ==
  [diagnostics |-> swc.diagnostics \o others \o javascript \o java,
   swc_consumed_lines |-> swc.consumed_lines, has_swc_diagnostics |-> swc.diagnostics # <<>>,
   javascript_test_messages |-> Messages(javascript), java_test_messages |-> Messages(java)]

IsRun(owner, hints, overrides) == owner \notin overrides /\ Needs[owner] \subseteq hints

ReduceTexts(text, hints, overrides) ==
  LET runs(owner) == IsRun(owner, hints, overrides)
      withPython(context) == IF runs("python") THEN WithPython(text, context) ELSE context
  IN  withPython(Context(
        IF runs("javascript-swc") THEN Swc(text) ELSE NoSwc,
        (IF runs("cpp-linker") THEN CppLinker(text) ELSE <<>>)
          \o (IF runs("java-compiler") THEN JavaCompiler(text) ELSE <<>>)
          \o (IF runs("rust-compiler") THEN RustCompiler(text) ELSE <<>>),
        IF runs("javascript-test") THEN NodeTests(text) ELSE <<>>,
        IF runs("java-test") THEN JavaTests(text) ELSE <<>>))

----------------------------------------------------------------------------
(* reduce_lines *)

ClaimedLanguageLine(line, context) ==
  LET read == Reads[line]
  IN  \/ read.linker # 0 \/ read.javac # 0 \/ read.rust_header # 0
      \/ ClaimedTestException(line, context)
      \/ read.python_summary # 0 \/ read.python_place # 0 \/ read.python_exception # 0

Consumed(line, context) ==
  \/ line \in context.swc_consumed_lines
  \/ context.has_swc_diagnostics /\ Reads[line].swc_wrapper

(* The message of a fallback is its line.                                  *)
Fallback(line) == Diagnostic("generic.fallback", line, <<>>, 0)

ReduceLine(context, line, count, options) ==
  LET parsed == Reads[line].parsed
      parsers == {n \in DOMAIN LineOwners :
                    LineOwners[n] \notin options.overrides /\ parsed[LineOwners[n]] # 0}
      owner == LineOwners[Min(parsers)]
      counted(diagnostic) == <<[diagnostic EXCEPT !.repetition_count = count]>>
  IN  IF Consumed(line, context) THEN context
      ELSE IF parsers # {}
      THEN With(context, counted(Diagnostic(owner, line, <<parsed[owner]>>,
                                            Reads[line].parsed_place)))
      ELSE IF \/ ClaimedLanguageLine(line, context)
              \/ options.fallback # "Generic"
              \/ ~Reads[line].actionable
      THEN context
      ELSE With(context, counted(Fallback(line)))

ReduceLines(text, lines, context, options) ==
  LET after[n \in 0..Len(lines)] ==
        IF n = 0 THEN context
        ELSE ReduceLine(after[n - 1], lines[n], Occurrences(text, lines[n]), options)
  IN  after[Len(lines)]
TextDiagnosticsWith(text, hints, options) ==
  ReduceLines(text, Candidates(text), ReduceTexts(text, hints, options.overrides), options)
    .diagnostics

(* add_normalized_text_diagnostics *)
TextDiagnostics(text, options) == TextDiagnosticsWith(text, Hints(text), options)
=============================================================================
