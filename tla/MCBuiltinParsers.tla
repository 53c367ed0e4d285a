--------------------------- MODULE MCBuiltinParsers ---------------------------
(***************************************************************************)
(* Instances of the built-in parsers for TLC: the lines of one language or *)
(* tool at a time, a mix of them, and two scopes with small buffers.       *)
(***************************************************************************)
EXTENDS BuiltinParsersProperties, TLC

Unparsed == [owner \in Range(LineOwners) |-> 0]
Plain ==
  [size |-> 1, blank |-> FALSE, interesting |-> FALSE, candidate |-> FALSE, actionable |-> FALSE,
   marks |-> {}, opens_linker |-> FALSE,
   traceback |-> FALSE, python_place |-> 0, python_exception |-> 0,
   python_summary |-> 0, summary_place |-> 0,
   java_exception |-> 0, java_explicit |-> FALSE, java_frame |-> 0, java_framework |-> FALSE,
   node_place |-> 0, node_exception |-> 0, node_frame |-> 0, node_framework |-> FALSE,
   rust_header |-> 0, rust_place |-> 0, rust_detail |-> 0,
   apple |-> FALSE, apple_symbol |-> 0, apple_end |-> FALSE, linker |-> 0, linker_place |-> 0,
   javac |-> 0, javac_place |-> 0, no_symbol |-> FALSE, error_prefix |-> FALSE, symbol |-> 0,
   swc_header |-> 0, swc_place |-> 0, swc_end |-> FALSE, swc_context |-> 0, swc_wrapper |-> FALSE,
   parsed |-> Unparsed, parsed_place |-> 0, evidence |-> 3]
(* What a line differs in from a plain one. *)
Marked(marks) == [interesting |-> TRUE, candidate |-> TRUE, marks |-> marks]
Error(marks) == [actionable |-> TRUE, evidence |-> 1] @@ Marked(marks)
Exceptional == Error({"javascript_exception", "java_test", "python"})
Raised(text) ==        \* as all three languages see it
  [node_exception |-> text, python_exception |-> text] @@ Exceptional
Thrown(text) == [java_exception |-> text] @@ Raised(text)

Differences == <<
  \* 1: blank, 2: nothing, 3: a wrapper that looks like an error
  [blank |-> TRUE], [size |-> 1], Error({}),
  \* 4-9: Node.js
  [node_place |-> 1] @@ Marked({"javascript_location"}),
  Raised(1), Raised(2),
  [node_frame |-> 2] @@ Marked({"javascript_location"}),
  [node_framework |-> TRUE] @@ Marked({}),     \* node: without a place
  [node_framework |-> TRUE] @@ Marked({"javascript_location"}),
  \* 10-13: Java
  Thrown(3),
  [java_exception |-> 4, java_explicit |-> TRUE] @@ Exceptional,     \* Caused by:
  [java_frame |-> 3] @@ Marked({"java_compiler"}),
  [java_frame |-> 4, java_framework |-> TRUE] @@ Marked({"java_compiler"}),
  \* 14-18: Python
  [traceback |-> TRUE] @@ Marked({"python"}),
  [interesting |-> TRUE, marks |-> {"python"}, python_place |-> 5],
  Raised(5),
  [python_summary |-> 5, summary_place |-> 6] @@ Exceptional,
  [python_exception |-> 6, evidence |-> 2] @@ Error({}),       \* Failed:
  \* 19-22: rustc
  [rust_header |-> 7, evidence |-> 3] @@ Error({"rust_header"}),
  [rust_header |-> 8, evidence |-> 3] @@ Error({"rust_header"}),
  [rust_place |-> 7] @@ Marked({"rust_location"}),
  [rust_detail |-> 9],
  \* 23-28: linkers
  [apple |-> TRUE] @@ Marked({"cpp_linker"}),
  [apple_symbol |-> 10] @@ Marked({}),
  [apple_end |-> TRUE] @@ Error({}),
  [candidate |-> TRUE, actionable |-> TRUE, opens_linker |-> TRUE, linker |-> 11, evidence |-> 1],
  [linker |-> 12, linker_place |-> 8] @@ Marked({"cpp_linker"}),
  [candidate |-> TRUE, actionable |-> TRUE, linker |-> 13, evidence |-> 1],
  \* 29-31: parsers of lines
  [parsed |-> [Unparsed EXCEPT !["cpp"] = 14, !["typescript"] = 15], parsed_place |-> 9]
    @@ Error({}),
  [parsed |-> [Unparsed EXCEPT !["go"] = 16], parsed_place |-> 10] @@ Marked({}),
  [candidate |-> TRUE, actionable |-> TRUE, evidence |-> 0],
  \* 32-36: SWC
  [swc_header |-> 17] @@ Error({}),
  [swc_place |-> 11] @@ Marked({"swc", "javascript_location"}),
  [swc_end |-> TRUE],
  [swc_context |-> 18, evidence |-> 2] @@ Error({}),
  [swc_wrapper |-> TRUE, error_prefix |-> TRUE] @@ Error({}),
  \* 37-40: javac
  [javac |-> 19, javac_place |-> 12, no_symbol |-> TRUE] @@ Error({"java_compiler"}),
  [javac |-> 20, javac_place |-> 13] @@ Error({"java_compiler"}),
  [symbol |-> 21] @@ Marked({}),
  [error_prefix |-> TRUE] @@ Error({}),
  \* 41-43: lines of some size
  [size |-> 2] @@ Error({}),
  [parsed |-> [Unparsed EXCEPT !["go"] = 22], parsed_place |-> 14, size |-> 3] @@ Marked({}),
  [size |-> 2],
  \* 44: Exception in thread, which Node.js takes for one of its own
  [java_exception |-> 3, java_explicit |-> TRUE, node_exception |-> 23] @@ Exceptional
>>
MCReads == [line \in DOMAIN Differences |-> Differences[line] @@ Plain]

MCLines == DOMAIN MCReads
MCTexts == 1..23
MCPlaces == 1..14

(* Lines are written as they are framed, but for these: 101 opens a title  *)
(* that nothing closes (OSC), 102 a sequence that the next letter ends     *)
(* (CSI), and 103 is too long for the session.                             *)
MCRawLines == MCLines \cup {101, 102, 103}
MCOpenLines == {101, 102}
MCNormal == [raw \in MCRawLines |-> CASE raw \in MCLines -> raw [] raw \in MCOpenLines -> 1
                                      [] raw = 103 -> 42]
MCFramed == [MCNormal EXCEPT ![103] = 43]
MCJoined ==
  [raw \in MCOpenLines |-> [next \in MCRawLines |->
     CASE raw = 101 -> 101
       [] raw = 102 /\ MCNormal[next] = 1 /\ next \notin MCOpenLines -> 102
       [] raw = 102 /\ next \in MCOpenLines -> IF next = 101 THEN 2 ELSE 1
       [] raw = 102 /\ MCNormal[next] # 1 -> 2]]

(* Line 42 cut to two bytes is line 43; its second character has two.      *)
MCCut ==
  [line \in MCLines |-> [n \in 0..MCReads[line].size |->
     IF n = MCReads[line].size THEN line ELSE IF line = 42 /\ n = 2 THEN 43 ELSE 0]]

MCFailureRead ==
  [text |-> 1, starts |-> FALSE,
   go_run |-> 0, go_fail |-> 0, go_pass |-> FALSE, go_panic |-> 0,
   go_place |-> 0, go_message |-> 0, stack_frame |-> FALSE, go_runtime |-> FALSE,
   test_file |-> FALSE, go_detail |-> FALSE, go_noise |-> FALSE,
   gtest_run |-> 0, gtest_failure |-> FALSE, gtest_place |-> 0,
   gtest_failed |-> 0, gtest_status |-> FALSE,
   rust_failed |-> 0, rust_block |-> 0, rust_panic |-> 0, rust_place |-> 0,
   heading |-> FALSE, assertion |-> FALSE, rust_detail |-> FALSE, note |-> FALSE]
MCFailureReads ==      \* line 31 is libtest's status of a failed test
  [line \in MCLines |->
     IF line = 31 THEN [MCFailureRead EXCEPT !.starts = TRUE, !.rust_failed = 1] ELSE MCFailureRead]
MCBounded == <<1>>

MCDefault == Options("Generic", 100, {})
Single(lines, max_lines, options) ==
  [options |-> options, raws |-> lines, streams |-> {1}, scopes |-> {"s1"},
   reasons |-> {"Complete"}, max_lines |-> max_lines, max_begins |-> 1]

MCSetups ==
  { Single({2, 4, 5, 7, 8}, 4, MCDefault),
    Single({1, 10, 11, 12, 13}, 4, MCDefault),
    Single({14, 15, 16, 17, 18}, 4, MCDefault),
    Single({19, 20, 21, 22}, 4, MCDefault),
    Single({3, 23, 24, 25, 26, 27, 28}, 3, MCDefault),
    Single({32, 33, 34, 35, 36}, 4, MCDefault),
    Single({37, 38, 39, 40}, 4, MCDefault),
    Single({2, 5, 6, 7, 10, 12, 15, 17, 29, 44}, 3, MCDefault),
    Single({5, 7, 9, 16, 29, 31}, 3, Options("Disabled", 100, {"javascript-test", "cpp"})),
    [Single({5, 15, 30, 31}, 3, MCDefault) EXCEPT
       !.max_begins = 2, !.reasons = {"Complete", "Truncated"}],
    Single({31, 41, 101, 102, 103}, 4, MCDefault),
    [options |-> Options("Generic", 5, {}), raws |-> {41, 42}, streams |-> {1, 2},
     scopes |-> {"s1", "s2"}, reasons |-> {"Truncated"}, max_lines |-> 3, max_begins |-> 2] }
=============================================================================
