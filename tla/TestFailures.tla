----------------------------- MODULE TestFailures -----------------------------
(***************************************************************************)
(* TestFailureAccumulator (test_failures.rs): the state machines that      *)
(* collect failed tests from the output of Rust's libtest, GoogleTest and  *)
(* go test, and TestLogReducer::finish_log (test_log.rs), which returns    *)
(* them.                                                                   *)
(*                                                                         *)
(* A line is what the recognisers make of it (go_running_name and the      *)
(* others): the name, place or message they return, 0 for none.  The text  *)
(* of a failure's message is the record of what it is put together from.   *)
(***************************************************************************)
EXTENDS Naturals, Sequences, FiniteSets, FiniteSetsExt, Functions, Selections

CONSTANTS
  Names, Texts, Places,      \* positive numbers
  Bounded,                   \* bounded_text of a name
  UnknownGtest,              \* "<unknown gtest>"
  MaxLogFailures, MaxGtestDetails, MaxGoDetails, MaxGoBlocks, MaxRustDetails

OptionalNames == Names \cup {0}
OptionalTexts == Texts \cup {0}
OptionalPlaces == Places \cup {0}

LineType ==
  [text : Texts,
   starts : BOOLEAN,           \* may_start_line, which does not trim
   go_run : OptionalNames, go_fail : OptionalNames, go_pass : BOOLEAN,
   go_panic : OptionalTexts,
   go_place : OptionalPlaces, go_message : OptionalTexts,
   stack_frame : BOOLEAN, go_runtime : BOOLEAN, test_file : BOOLEAN,
   go_detail : BOOLEAN,        \* of the line, or of go_message
   go_noise : BOOLEAN,
   gtest_run : OptionalNames, gtest_failure : BOOLEAN, gtest_place : OptionalPlaces,
   gtest_failed : OptionalNames, gtest_status : BOOLEAN,
   rust_failed : OptionalNames, rust_block : OptionalNames,
   rust_panic : OptionalNames, rust_place : OptionalPlaces,
   heading : BOOLEAN, assertion : BOOLEAN, rust_detail : BOOLEAN, note : BOOLEAN]

NoRustBlock ==
  [name |-> 0, location |-> 0, assertion |-> 0, panic_message |-> 0, details |-> <<>>,
   saw_panic |-> FALSE]
NoGtestBlock == [name |-> 0, location |-> 0, details |-> <<>>]
NewGoBlock(name) ==
  [name |-> name, location |-> 0, location_rank |-> 255, assertion |-> 0,
   panic_message |-> 0, details |-> <<>>, failed |-> FALSE]

NoFailures ==
  [failed_names |-> <<>>, failures |-> <<>>,
   current |-> NoRustBlock,
   gtest_running_name |-> 0, gtest_current |-> NoGtestBlock,
   go_running_name |-> 0, go_panic_name |-> 0, go_blocks |-> <<>>]

IsActiveUntilFailed(acc) ==    \* variant: the blocks of go test are not looked at
  \/ acc.current.name # 0
  \/ acc.gtest_running_name # 0 \/ acc.gtest_current.name # 0
IsActive(acc) ==
  \/ acc.current.name # 0
  \/ acc.gtest_running_name # 0 \/ acc.gtest_current.name # 0
  \/ acc.go_running_name # 0 \/ acc.go_panic_name # 0
  \/ acc.go_blocks # <<>>

PushUnique(values, value, max) ==
  IF Len(values) >= max \/ value \in Range(values) THEN values ELSE Append(values, value)

----------------------------------------------------------------------------
(* Blocks of go test *)

(* compact_go_blocks: a failed block that is there before goes. *)
Compacted(blocks) ==
  LET again == {i \in DOMAIN blocks : /\ blocks[i].failed
                                      /\ \E j \in 1..(i - 1) : blocks[j] = blocks[i]}
  IN  Picked(blocks, DOMAIN blocks \ again)

FullLate(blocks) == Len(blocks) > MaxGoBlocks      \* variant: off by one
Full(blocks) == Len(blocks) >= MaxGoBlocks

(* push_go_block *)
PushedGoBlock(acc, name) ==
  LET blocks == IF Full(acc.go_blocks) THEN Compacted(acc.go_blocks) ELSE acc.go_blocks
  IN  [acc EXCEPT !.go_blocks = IF Full(blocks) THEN blocks ELSE Append(blocks, NewGoBlock(name))]

(* The last block of a test, 0 for none. *)
GoBlock(acc, name, include_failed) ==
  LET blocks == acc.go_blocks
      found == {i \in DOMAIN blocks :
                  blocks[i].name = name /\ (include_failed \/ ~blocks[i].failed)}
  IN  IF found = {} THEN 0 ELSE Max(found)

(* go_block_index: with a block for the test unless there are too many. *)
WithGoBlock(acc, name, include_failed) ==
  IF GoBlock(acc, name, include_failed) # 0 THEN acc ELSE PushedGoBlock(acc, name)

GoName(acc) == IF acc.go_panic_name # 0 THEN acc.go_panic_name ELSE acc.go_running_name
InGoPanic(acc) == acc.go_panic_name # 0

GoRunWhilePanicking(acc, line) ==    \* variant: go_panic_name is not reset
  [acc EXCEPT !.go_blocks = Compacted(@), !.go_running_name = Bounded[line.go_run]]
GoRun(acc, line) ==
  [acc EXCEPT !.go_blocks = Compacted(@),
              !.go_running_name = Bounded[line.go_run], !.go_panic_name = 0]

(* observe_go_failure_status *)
GoFailOfKnown(acc, line) ==          \* variant: a test without a block gets none
  LET name == Bounded[line.go_fail]
      index == GoBlock(acc, name, FALSE)
      blocks == [i \in DOMAIN acc.go_blocks |->
                   [acc.go_blocks[i] EXCEPT !.failed = @ \/ i = index]]
  IN  [acc EXCEPT !.go_blocks = blocks, !.go_running_name = name, !.go_panic_name = name]
GoFail(acc, line) ==
  LET name == Bounded[line.go_fail]
      next == WithGoBlock(acc, name, FALSE)
      index == GoBlock(next, name, FALSE)
      blocks == [i \in DOMAIN next.go_blocks |->
                   [next.go_blocks[i] EXCEPT !.failed = @ \/ i = index]]
  IN  [next EXCEPT !.go_blocks = blocks, !.go_running_name = name, !.go_panic_name = name]

GoPass(acc) == [acc EXCEPT !.go_panic_name = 0, !.go_running_name = 0]

(* observe_go_panic *)
GoPanic(acc, line) ==
  LET name == GoName(acc)
      next == WithGoBlock(acc, name, TRUE)
      index == GoBlock(next, name, TRUE)
      said(block) == IF block.panic_message = 0 THEN line.go_panic ELSE block.panic_message
  IN  IF index = 0 THEN next
      ELSE [next EXCEPT !.go_blocks[index].panic_message = said(next.go_blocks[index]),
                        !.go_panic_name = name]

(* An assertion is the first message; more are details if they look so.    *)
Asserted(block, text, is_detail) ==
  IF block.assertion = 0 THEN [block EXCEPT !.assertion = text]
  ELSE IF is_detail THEN [block EXCEPT !.details = PushUnique(@, text, MaxGoDetails)]
  ELSE block

(* observe_go_location *)
LocationRank(line) == IF line.stack_frame /\ ~line.test_file THEN 1 ELSE 0
Located(block, line) ==
  IF block.location = 0 \/ LocationRank(line) < block.location_rank
  THEN [block EXCEPT !.location = line.go_place, !.location_rank = LocationRank(line)]
  ELSE block
GoPlace(acc, line) ==
  LET name == GoName(acc)
      next == WithGoBlock(acc, name, InGoPanic(acc))
      index == GoBlock(next, name, InGoPanic(acc))
      located == Located(next.go_blocks[index], line)
  IN  IF line.stack_frame /\ line.go_runtime THEN acc
      ELSE IF index = 0 THEN next
      ELSE [next EXCEPT !.go_blocks[index] =
              IF line.go_message = 0 THEN located
              ELSE Asserted(located, line.go_message, line.go_detail)]

(* observe_go_detail *)
AwaitsAssertion(acc) ==
  LET index == GoBlock(acc, GoName(acc), InGoPanic(acc))
  IN  /\ index # 0
      /\ acc.go_blocks[index].location # 0
      /\ acc.go_blocks[index].assertion = 0
TriesGoDetail(acc, line) ==
  /\ GoName(acc) # 0
  /\ ~line.go_noise
  /\ line.go_detail \/ AwaitsAssertion(acc)
WithDetailBlock(acc, line) ==        \* also compacts when there is no room
  IF TriesGoDetail(acc, line) THEN WithGoBlock(acc, GoName(acc), InGoPanic(acc)) ELSE acc
TakesGoDetail(acc, line) ==
  /\ TriesGoDetail(acc, line)
  /\ GoBlock(WithDetailBlock(acc, line), GoName(acc), InGoPanic(acc)) # 0
GoDetail(acc, line) ==
  LET next == WithDetailBlock(acc, line)
      index == GoBlock(next, GoName(acc), InGoPanic(acc))
  IN  [next EXCEPT !.go_blocks[index] = Asserted(@, line.text, line.go_detail)]

----------------------------------------------------------------------------
(* Blocks of GoogleTest and libtest *)

WithFailure(acc, name, failure) ==
  IF name = 0 \/ Len(acc.failures) >= MaxLogFailures THEN acc
  ELSE [acc EXCEPT !.failures = Append(@, failure)]

FinishGtest(acc) ==
  LET block == acc.gtest_current
  IN  WithFailure([acc EXCEPT !.gtest_current = NoGtestBlock], block.name,
        [kind |-> "gtest", name |-> block.name, location |-> block.location,
         panicked |-> FALSE, reason |-> 0, details |-> block.details])

GtestRun(acc, line) ==
  [FinishGtest(acc) EXCEPT !.gtest_running_name = Bounded[line.gtest_run]]
GtestFailure(acc, line) ==
  LET running == acc.gtest_running_name
  IN  [FinishGtest(acc) EXCEPT !.gtest_current =
         [NoGtestBlock EXCEPT !.name = IF running = 0 THEN UnknownGtest ELSE running,
                              !.location = line.gtest_place]]
GtestFailed(acc, line) ==
  IF acc.gtest_running_name # line.gtest_failed THEN acc
  ELSE [FinishGtest(acc) EXCEPT !.gtest_running_name = 0]
GtestText(acc, line) ==
  IF Len(acc.gtest_current.details) >= MaxGtestDetails \/ line.gtest_status THEN acc
  ELSE [acc EXCEPT !.gtest_current.details = Append(@, line.text)]

FinishRust(acc) ==
  LET block == acc.current
      reason == IF block.assertion # 0 THEN block.assertion ELSE block.panic_message
  IN  WithFailure([acc EXCEPT !.current = NoRustBlock], block.name,
        [kind |-> "rust", name |-> block.name, location |-> block.location,
         panicked |-> FALSE, reason |-> reason, details |-> block.details])

RustFailed(acc, line) ==
  IF line.rust_failed = 0 THEN acc
  ELSE [acc EXCEPT !.failed_names = PushUnique(@, Bounded[line.rust_failed], MaxLogFailures)]
RustBlock(acc, line) ==
  [FinishRust(acc) EXCEPT !.current = [NoRustBlock EXCEPT !.name = Bounded[line.rust_block]]]
RustPanic(acc, line) ==
  LET other == acc.current.name \notin {0, line.rust_panic}
      next == IF other THEN FinishRust(acc) ELSE acc
  IN  [next EXCEPT !.current.name = Bounded[line.rust_panic],
                   !.current.location = line.rust_place, !.current.saw_panic = TRUE]
RustText(acc, line) ==
  LET block == acc.current
  IN  IF line.assertion THEN [acc EXCEPT !.current.assertion = line.text]
      ELSE IF line.rust_detail
           THEN IF Len(block.details) >= MaxRustDetails THEN acc
                ELSE [acc EXCEPT !.current.details = Append(@, line.text)]
      ELSE IF block.saw_panic /\ block.panic_message = 0 /\ ~line.note
           THEN [acc EXCEPT !.current.panic_message = line.text]
      ELSE acc

----------------------------------------------------------------------------
(* observe_line: the first recogniser that takes the line ends it, except  *)
(* that a libtest status is noted and the line goes on.                    *)

RustLine(acc, line) ==
  LET next == RustFailed(acc, line)
  IN  IF line.rust_block # 0 THEN RustBlock(next, line)
      ELSE IF line.rust_panic # 0 THEN RustPanic(next, line)
      ELSE IF line.heading THEN FinishRust(next)
      ELSE IF next.current.name # 0 THEN RustText(next, line)
      ELSE next

GtestLine(acc, line) ==
  IF line.gtest_run # 0 THEN GtestRun(acc, line)
  ELSE IF line.gtest_failure THEN GtestFailure(acc, line)
  ELSE IF line.gtest_failed # 0 THEN GtestFailed(acc, line)
  ELSE IF acc.gtest_current.name # 0 THEN GtestText(acc, line)
  ELSE RustLine(acc, line)

ObserveLine(acc, line) ==
  IF line.go_run # 0 THEN GoRun(acc, line)
  ELSE IF line.go_fail # 0 THEN GoFail(acc, line)
  ELSE IF line.go_pass /\ acc.go_running_name # 0 THEN GoPass(acc)
  ELSE IF line.go_panic # 0 /\ GoName(acc) # 0 THEN GoPanic(acc, line)
  ELSE IF line.go_place # 0 /\ GoName(acc) # 0 THEN GoPlace(acc, line)
  ELSE IF TakesGoDetail(acc, line) THEN GoDetail(acc, line)
  ELSE GtestLine(WithDetailBlock(acc, line), line)

----------------------------------------------------------------------------
(* finish and finish_log *)

GoEvidence(block) ==
  [kind |-> "go", name |-> block.name, location |-> block.location,
   panicked |-> block.panic_message # 0,
   reason |-> IF block.panic_message # 0 THEN block.panic_message ELSE block.assertion,
   details |-> block.details]

(* Failures are collected one by one, unless there is one with the same    *)
(* key or no room.                                                         *)
NewKeys(keys, known) ==
  {i \in DOMAIN keys : keys[i] \notin known /\ \A j \in 1..(i - 1) : keys[j] # keys[i]}
Collected(failures, more, new) ==
  LET all == failures \o Picked(more, new)
  IN  SubSeq(all, 1, IF Len(all) < MaxLogFailures THEN Len(all) ELSE MaxLogFailures)

FinishGo(acc) ==
  LET failed == Picked(acc.go_blocks, {i \in DOMAIN acc.go_blocks : acc.go_blocks[i].failed})
      evidence == [i \in DOMAIN failed |-> GoEvidence(failed[i])]
  IN  [acc EXCEPT !.go_blocks = <<>>,
                  !.failures = Collected(@, evidence, NewKeys(evidence, Range(@)))]

StatusOnly(name) ==
  [kind |-> "rust", name |-> name, location |-> 0, panicked |-> FALSE, reason |-> 0,
   details |-> <<>>]
Finish(acc) ==
  LET blocks == FinishGo(FinishGtest(FinishRust(acc))).failures
      names == acc.failed_names
  IN  Collected(blocks, [i \in DOMAIN names |-> StatusOnly(names[i])],
                NewKeys(names, {blocks[i].name : i \in DOMAIN blocks}))

(* Messages do not say where a GoogleTest failed.                          *)
Message(failure) ==
  IF failure.kind = "gtest" THEN [failure EXCEPT !.location = 0] ELSE failure
Messages(failures) == [i \in DOMAIN failures |-> Message(failures[i])]
ExtractedInto(extracted, failures) ==
  Collected(extracted, failures, NewKeys(Messages(failures), Range(Messages(extracted))))
Extracted(failures) == ExtractedInto(<<>>, failures)

FinishLog(acc, complete) == IF complete THEN Extracted(Finish(acc)) ELSE <<>>
=============================================================================
