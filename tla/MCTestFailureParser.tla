------------------------- MODULE MCTestFailureParser -------------------------
(***************************************************************************)
(* Instances of the test failure parser for TLC: logs of go test,          *)
(* GoogleTest and libtest, and logs that mix them.                         *)
(***************************************************************************)
EXTENDS TestFailureParserProperties, TLC

CONSTANTS s1, s2

MCSymmetry == Permutations({s1, s2})

(* Names 1 and 2, 3 a long one that is cut to 4, 5 for an unknown test.    *)
MCNames == 1..5
MCBounded == [name \in MCNames |-> IF name = 3 THEN 4 ELSE name]
MCTexts == 1..40
MCPlaces == 1..4

Plain(text) ==
  [text |-> text, starts |-> FALSE,
   go_run |-> 0, go_fail |-> 0, go_pass |-> FALSE, go_panic |-> 0,
   go_place |-> 0, go_message |-> 0, stack_frame |-> FALSE, go_runtime |-> FALSE,
   test_file |-> FALSE, go_detail |-> FALSE, go_noise |-> FALSE,
   gtest_run |-> 0, gtest_failure |-> FALSE, gtest_place |-> 0,
   gtest_failed |-> 0, gtest_status |-> FALSE,
   rust_failed |-> 0, rust_block |-> 0, rust_panic |-> 0, rust_place |-> 0,
   heading |-> FALSE, assertion |-> FALSE, rust_detail |-> FALSE, note |-> FALSE]
Start(text) == [Plain(text) EXCEPT !.starts = TRUE]

GoRunLine(text, name) == [Start(text) EXCEPT !.go_run = name, !.go_noise = TRUE]
GoFailLine(text, name) == [Start(text) EXCEPT !.go_fail = name, !.go_noise = TRUE]
GoPlaceLine(text, place, message) ==
  [Plain(text) EXCEPT !.go_place = place, !.go_message = message, !.test_file = TRUE]

MCGo ==
  { GoRunLine(1, 1), GoRunLine(2, 2), GoFailLine(3, 1),
    [GoFailLine(4, 2) EXCEPT !.starts = FALSE],                 \* indented
    [Plain(5) EXCEPT !.go_pass = TRUE, !.go_noise = TRUE],
    [Plain(6) EXCEPT !.go_panic = 7],
    GoPlaceLine(8, 1, 9),
    [Plain(10) EXCEPT !.go_place = 2, !.stack_frame = TRUE],    \* outside the tests
    [Plain(11) EXCEPT !.go_detail = TRUE] }
MCGtest ==
  { [Start(12) EXCEPT !.gtest_run = 1], [Start(13) EXCEPT !.gtest_run = 3],
    [Start(14) EXCEPT !.gtest_failure = TRUE, !.gtest_place = 3],
    [Start(15) EXCEPT !.gtest_failure = TRUE],
    [Plain(16) EXCEPT !.gtest_failed = 1],
    [Plain(18) EXCEPT !.gtest_status = TRUE],
    Plain(19) }
MCRust ==
  { [Start(20) EXCEPT !.rust_failed = 1], [Start(24) EXCEPT !.rust_failed = 2],
    [Start(21) EXCEPT !.rust_block = 1], [Start(22) EXCEPT !.rust_block = 3],
    [Start(23) EXCEPT !.rust_panic = 1, !.rust_place = 4],
    [Plain(25) EXCEPT !.heading = TRUE],
    [Plain(26) EXCEPT !.assertion = TRUE],
    [Plain(27) EXCEPT !.rust_detail = TRUE, !.go_detail = TRUE],
    [Plain(28) EXCEPT !.note = TRUE],
    Plain(29) }
MCMixed ==
  { GoRunLine(1, 1), GoFailLine(3, 1),
    [Start(14) EXCEPT !.gtest_failure = TRUE, !.gtest_place = 3],
    [Start(20) EXCEPT !.rust_failed = 2],
    [Start(23) EXCEPT !.rust_panic = 2],
    Plain(29) }
MCFormats == {MCGo, MCGtest, MCRust, MCMixed}
=============================================================================
