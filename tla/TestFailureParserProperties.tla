--------------------- MODULE TestFailureParserProperties ---------------------
(***************************************************************************)
(* What the test failures of a scope have to do with its log.              *)
(***************************************************************************)
EXTENDS TestFailureParser

Lines(shown) == [i \in DOMAIN shown |-> shown[i].line]

(* Every variable has its type, and everything kept of a log stays within  *)
(* its bound whatever the log holds (MAX_LOG_FAILURES, MAX_GO_BLOCKS and   *)
(* the limits on details).                                                 *)
BlockBounded(block, names, max) == block.name \in names /\ Len(block.details) <= max
ReducersBounded ==
  /\ open \subseteq Scopes
  /\ DOMAIN scopes \subseteq open
  /\ \A scope \in DOMAIN scopes :
       LET acc == scopes[scope].failures
       IN  /\ Len(acc.failed_names) <= MaxLogFailures
           /\ Len(acc.failures) <= MaxLogFailures
           /\ BlockBounded(acc.current, OptionalNames, MaxRustDetails)
           /\ BlockBounded(acc.gtest_current, OptionalNames, MaxGtestDetails)
           /\ Len(acc.go_blocks) <= MaxGoBlocks
           /\ \A i \in DOMAIN acc.go_blocks :
                BlockBounded(acc.go_blocks[i], Names, MaxGoDetails)
           /\ {acc.go_running_name, acc.go_panic_name, acc.gtest_running_name}
                \subseteq OptionalNames
  /\ Len(reported.failures) <= MaxLogFailures

----------------------------------------------------------------------------
(* The gate in front of the reducer *)

(* Lines that start a failure for observe_line, which trims them; only     *)
(* with white space before them can starts be false.                       *)
StartsTrimmed(line) ==
  \/ line.gtest_failure
  \/ \E name \in {line.go_run, line.go_fail, line.gtest_run, line.rust_failed,
                  line.rust_block, line.rust_panic} : name # 0

(* The failures of a log when every line is observed, but for those that   *)
(* come indented when no failure is in progress.                           *)
Shown(acc, line) ==
  IF ~IsActive(acc) /\ StartsTrimmed(line) /\ ~line.starts THEN acc ELSE ObserveLine(acc, line)
OfFirstLines(lines) ==
  LET after[n \in 0..Len(lines)] == IF n = 0 THEN NoFailures ELSE Shown(after[n - 1], lines[n])
  IN  after
OfAllLines(lines) == OfFirstLines(lines)[Len(lines)]

(* The parser skips lines it believes cannot matter (may_start_line and    *)
(* is_active, an optimisation of observe): of every scope it knows what it *)
(* would know had it looked at all of the scope's lines, and at no others. *)
GateIsTransparent ==
  \A scope \in open : Reducer(scope).failures = OfAllLines(Lines(log[scope]))

----------------------------------------------------------------------------
(* What is reported *)

(* The test that the line at i is output of: the last that was named, if   *)
(* nothing ended its output since.                                         *)
TestAt(names, ends, i) ==
  LET named == {j \in 1..i : names[j] # 0}
      last == Max(named)
  IN  IF named = {} \/ \E j \in (last + 1)..i : ends[j] THEN 0 ELSE Bounded[names[last]]

GoNameIn(line) == IF line.go_run # 0 THEN line.go_run ELSE line.go_fail
RustNameIn(line) == IF line.rust_block # 0 THEN line.rust_block ELSE line.rust_panic
GoTestAt(lines, i) ==
  TestAt([j \in DOMAIN lines |-> GoNameIn(lines[j])], [j \in DOMAIN lines |-> lines[j].go_pass], i)
RustTestAt(lines, i) ==
  TestAt([j \in DOMAIN lines |-> RustNameIn(lines[j])], [j \in DOMAIN lines |-> lines[j].heading], i)
GtestTestAt(lines, i) ==
  TestAt([j \in DOMAIN lines |-> lines[j].gtest_run], [j \in DOMAIN lines |-> FALSE], i)

(* The line at i is in the block of the GoogleTest failure at j.           *)
InGtestBlock(lines, i, j) ==
  /\ j < i /\ lines[j].gtest_failure
  /\ \A n \in (j + 1)..i : lines[n].gtest_run = 0 /\ ~lines[n].gtest_failure

IsGo(line) == GoNameIn(line) # 0
Without(lines, is(_)) == \A i \in DOMAIN lines : ~is(lines[i])

Said(failure) == ({failure.reason} \cup Range(failure.details)) \ {0}

GoEvidenced(lines, failure) ==
  LET own == {i \in DOMAIN lines : GoTestAt(lines, i) = failure.name}
      texts == {lines[i].text : i \in own}
                 \cup {lines[i].go_message : i \in own} \cup {lines[i].go_panic : i \in own}
  IN  /\ \E i \in own : lines[i].go_fail # 0
      /\ failure.location \in {0} \cup {lines[i].go_place : i \in own}
      /\ Said(failure) \subseteq texts
      /\ failure.panicked => \E i \in own : lines[i].go_panic = failure.reason

RustEvidenced(lines, failure) ==
  LET own == {i \in DOMAIN lines : RustTestAt(lines, i) = failure.name}
  IN  /\ \/ own # {}
         \/ \E i \in DOMAIN lines : /\ lines[i].rust_failed # 0
                                    /\ Bounded[lines[i].rust_failed] = failure.name
      /\ failure.location \in {0} \cup {lines[i].rust_place : i \in own}
      /\ Said(failure) \subseteq {lines[i].text : i \in own}

GtestEvidenced(lines, failure) ==
  \E j \in DOMAIN lines :
    /\ lines[j].gtest_failure
    /\ failure.name \in {GtestTestAt(lines, j), UnknownGtest}
    /\ failure.location = lines[j].gtest_place
    /\ Said(failure) \subseteq {lines[i].text : i \in {n \in DOMAIN lines : InGtestBlock(lines, n, j)}}

(* What the lines of a log must hold for a failure to be reported of it.   *)
FailureEvidenced(lines, reason, failure) ==
  /\ reason = "Complete"
  /\ failure.kind = "go" => GoEvidenced(lines, failure)
  /\ failure.kind = "gtest" /\ Without(lines, IsGo) => GtestEvidenced(lines, failure)
  /\ failure.kind = "rust" /\ Without(lines, IsGo)
       /\ Without(lines, LAMBDA line : line.gtest_failure)
       => RustEvidenced(lines, failure)

(* No failure is made up or mixed up: the test was named as failing, and   *)
(* the place, the reason and the details are from its own output, not from *)
(* that of the test before or after (the names and blocks kept between     *)
(* lines by observe_line).  When formats are mixed in a scope, Go's        *)
(* recognisers go first and GoogleTest's before libtest's, and only the    *)
(* former are held to it.                                                  *)
ReportsEvidenced ==
  \A n \in DOMAIN reported.failures :
    FailureEvidenced(Lines(reported.log), reported.reason, reported.failures[n])

(* A failure of Go's takes a block, also when its test turns out to pass.  *)
MakesGoBlock(line) ==
  line.go_fail # 0 \/ line.go_place # 0 \/ line.go_panic # 0 \/ line.go_detail
GoBlocksMayBeFull(lines, i) ==
  Cardinality({j \in 1..(i - 1) : MakesGoBlock(lines[j])}) >= MaxGoBlocks

(* What is collected of a log: a failure for every block of libtest and    *)
(* GoogleTest, also those whose message turns out to be that of another,   *)
(* one for every failed block of go test, and one for every status of a    *)
(* test without a block.                                                   *)
MakesBlock(line) == line.gtest_failure \/ line.rust_block # 0 \/ line.rust_panic # 0
BlockNames(lines) ==
  {Bounded[RustNameIn(lines[i])] :
     i \in {j \in DOMAIN lines : RustNameIn(lines[j]) # 0 /\ ~lines[j].gtest_failure}}
OfBlock(lines, failure) ==
  /\ failure.kind # "go"
  /\ failure = StatusOnly(failure.name) => failure.name \in BlockNames(lines)
FailuresMayBeFull(lines, failures) ==
  Cardinality({i \in DOMAIN lines : MakesBlock(lines[i])})
    + Cardinality({n \in DOMAIN failures : ~OfBlock(lines, failures[n])}) >= MaxLogFailures

(* Every test that the log of a completed scope names as failed is         *)
(* reported, however its output is interleaved with that of others, unless *)
(* as many are collected as can be, or Go's blocks were used up.           *)
AllFailedReported(lines, failures) ==
  LET names == {failures[n].name : n \in DOMAIN failures}
      reports(i, name) == name # 0 /\ lines[i].starts => Bounded[name] \in names
  IN  ~FailuresMayBeFull(lines, failures) =>
        \A i \in DOMAIN lines :
          /\ reports(i, lines[i].go_fail) \/ GoBlocksMayBeFull(lines, i)
          /\ Without(lines, IsGo) /\ lines[i].gtest_run = 0
               /\ lines[i].gtest_failure /\ lines[i].starts =>
               {GtestTestAt(lines, i), UnknownGtest} \cap names # {}
          /\ Without(lines, IsGo) /\ Without(lines, LAMBDA line : line.gtest_failure) =>
               /\ reports(i, lines[i].rust_failed)
               /\ reports(i, lines[i].rust_block)
               /\ reports(i, lines[i].rust_panic)
FailedTestsReported ==
  reported.reason = "Complete" => AllFailedReported(Lines(reported.log), reported.failures)
=============================================================================
