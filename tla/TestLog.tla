-------------------------------- MODULE TestLog --------------------------------
(***************************************************************************)
(* TestLogReducer (test_log.rs), as used by callers that have the log of a *)
(* test and no session: the failures found in one or more segments of it,  *)
(* and the one piece of evidence that stands for them if there are none.   *)
(***************************************************************************)
EXTENDS LanguageParsers

CONSTANTS
  Names, Bounded, UnknownGtest,
  MaxLogFailures, MaxGtestDetails, MaxGoDetails, MaxGoBlocks, MaxRustDetails,
  FailureReads,       \* what the recognisers of test_failures.rs return of a line
  NoProvenance

TF == INSTANCE TestFailures

ASSUME TestLogAssumption == FailureReads \in [Lines -> TF!LineType]

NewSegment ==
  [javascript |-> NewNode, java |-> NewJava, python |-> 0, failures |-> TF!NoFailures,
   segment_provenance |-> NoProvenance]
NewTestLog ==
  [segment |-> NewSegment, extracted_failures |-> <<>>, fallback |-> <<>>]

(* Evidence: the lower its priority the better. *)
Evidence(priority, diagnostic, provenance) ==
  <<[priority |-> priority, diagnostic |-> diagnostic, provenance |-> provenance]>>
Found(found, provenance) == Evidence(0, found[1], provenance)

(* The code asks this at two places, here of sequences of at most one.     *)
BetterAnyPlace(fallback, candidate) ==     \* variant: a place does not count
  /\ candidate # <<>>
  /\ \/ fallback = <<>>
     \/ candidate[1].priority < fallback[1].priority
Better(fallback, candidate) ==
  /\ candidate # <<>>
  /\ \/ fallback = <<>>
     \/ candidate[1].priority < fallback[1].priority
     \/ /\ candidate[1].priority = fallback[1].priority
        /\ candidate[1].diagnostic.location # 0
        /\ fallback[1].diagnostic.location = 0
Best(fallback, candidate) == IF Better(fallback, candidate) THEN candidate ELSE fallback

(* observe_line *)
ParsedGo(line) ==
  IF Reads[line].parsed["go"] = 0 THEN <<>>
  ELSE <<Diagnostic("go", line, <<Reads[line].parsed["go"]>>, Reads[line].parsed_place)>>
LineEvidence(line, provenance) ==
  IF Reads[line].evidence = 3 THEN <<>>
  ELSE Evidence(Reads[line].evidence, Diagnostic("test.fallback", line, <<>>, 0), provenance)

(* What earlier parsers find hides the line from those after them.         *)
LineCandidate(line, earlier, python, provenance) ==
  IF earlier # <<>> THEN Found(earlier, provenance)
  ELSE IF python # <<>> THEN Found(python, provenance)
  ELSE LineEvidence(line, provenance)

ObserveTestLineWith(log, line, provenance, javascript, java, python) ==
  LET earlier == ParsedGo(line) \o javascript.found \o java.found
  IN  [log EXCEPT
         !.segment =
           [javascript |-> javascript.parser, java |-> java.parser,
            python |-> IF earlier # <<>> THEN @.python ELSE python.parser,
            failures |-> TF!ObserveLine(@.failures, FailureReads[line]),
            segment_provenance |-> IF @.segment_provenance = NoProvenance THEN provenance
                                   ELSE @.segment_provenance],
         !.fallback = Best(@, LineCandidate(line, earlier, python.found, provenance))]

ObserveTestLine(log, line, provenance) ==
  ObserveTestLineWith(log, line, provenance,
    ObserveNode(log.segment.javascript, line), ObserveJava(log.segment.java, line),
    ObservePython(log.segment.python, line))

(* finish_log *)
FinishTestLog(log, complete) ==
  LET segment == log.segment
      last(found) ==
        IF found = <<>> THEN <<>> ELSE Found(found, segment.segment_provenance)
  IN  IF complete
      THEN [segment |-> NewSegment,
            extracted_failures |->
              TF!ExtractedInto(log.extracted_failures, TF!Finish(segment.failures)),
            fallback |-> Best(Best(log.fallback, last(NodeConfirmed(segment.javascript))),
                              last(JavaConfirmed(segment.java)))]
      ELSE [log EXCEPT !.segment = NewSegment]

(* finish: diagnostics are made of the failures when there are any.        *)
TestLogReduction(log) ==
  [failures |-> log.extracted_failures,
   evidence |-> IF log.extracted_failures = <<>> THEN log.fallback ELSE <<>>]
=============================================================================
