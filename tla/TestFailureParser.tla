-------------------------- MODULE TestFailureParser --------------------------
(***************************************************************************)
(* TestFailureParser (streaming.rs): one TestLogReducer per scope, made by *)
(* the first line that may start a failure, shown the lines of all the     *)
(* scope's streams that may matter to it, and finished with the scope.     *)
(*                                                                         *)
(* The session calls the parser (Session.tla); here it is the environment. *)
(***************************************************************************)
EXTENDS TestFailures

CONSTANTS
  Scopes, Streams,
  Formats,          \* sets of lines; those of the logs are of one of them
  EndReasons,
  MaxLines          \* bounds the lines of the open scopes

VARIABLES
  format,           \* the lines of the logs
  open,             \* scopes between their boundaries
  log,              \* what was shown of each of them, with its stream
  scopes,           \* the parser's reducers: failures and the segment's provenance
  reported          \* what End has just given to the emitter, and of what log

vars == <<format, open, log, scopes, reported>>

Nowhere == [stream |-> 0, number |-> 0]
NewReducer == [failures |-> NoFailures, provenance |-> Nowhere]
NoReport == [log |-> <<>>, reason |-> "Complete", failures |-> <<>>, provenance |-> Nowhere]

Init ==
  /\ format \in Formats
  /\ open = {}
  /\ log = [scope \in Scopes |-> <<>>]
  /\ scopes = <<>>
  /\ reported = NoReport

LinesOf(scope, stream) == SelectSeq(log[scope], LAMBDA shown : shown.stream = stream)
LinesKept == MapThenSumSet(LAMBDA scope : Len(log[scope]), open)

BeginScope(scope) ==
  /\ scope \notin open
  /\ open' = open \cup {scope}
  /\ log' = [log EXCEPT ![scope] = <<>>]
  /\ reported' = NoReport
  /\ UNCHANGED <<format, scopes>>

Reducer(scope) == IF scope \in DOMAIN scopes THEN scopes[scope] ELSE NewReducer

IsSeen(scope, line) ==
  line.starts \/ (scope \in DOMAIN scopes /\ IsActive(scopes[scope].failures))

(* observe_failure_line *)
Observed(reducer, line, place) ==
  [failures |-> ObserveLine(reducer.failures, line),
   provenance |-> IF reducer.provenance = Nowhere THEN place ELSE reducer.provenance]

Observe(scope, stream, line) ==
  LET place == [stream |-> stream, number |-> Len(LinesOf(scope, stream)) + 1]
  IN  /\ scope \in open
      /\ LinesKept < MaxLines
      /\ log' = [log EXCEPT ![scope] = Append(@, [stream |-> stream, line |-> line])]
      /\ \/ /\ IsSeen(scope, line)
            /\ scopes' = [other \in DOMAIN scopes \cup {scope} |->
                            IF other = scope THEN Observed(Reducer(scope), line, place)
                            ELSE scopes[other]]
         \/ ~IsSeen(scope, line) /\ UNCHANGED scopes
      /\ reported' = NoReport
      /\ UNCHANGED <<format, open>>

EndScope(scope, reason) ==
  LET reducer == Reducer(scope)
  IN  /\ scope \in open
      /\ open' = open \ {scope}
      /\ log' = [log EXCEPT ![scope] = <<>>]
      /\ scopes' = Restrict(scopes, DOMAIN scopes \ {scope})
      /\ reported' = [log |-> log[scope], reason |-> reason,
                      failures |-> FinishLog(reducer.failures, reason = "Complete"),
                      provenance |-> reducer.provenance]
      /\ UNCHANGED format

Next ==
  \E scope \in Scopes :
    \/ BeginScope(scope)
    \/ \E stream \in Streams : \E line \in format : Observe(scope, stream, line)
    \/ \E reason \in EndReasons : EndScope(scope, reason)

Spec == Init /\ [][Next]_vars

(* What is cut is not cut again, and no line begins in two ways: like the  *)
(* marks of GoogleTest ("[ RUN      ] ", "[  FAILED  ] ") and a line of    *)
(* libtest, like two marks of go test ("=== RUN", "--- FAIL:"), or like    *)
(* two lines of libtest ("---- ", "thread '").                             *)
ASSUME TestFailuresAssumption ==
  /\ Formats \subseteq SUBSET LineType
  /\ \A lines \in Formats : \A line \in lines :
       line.gtest_run # 0 \/ line.gtest_failed # 0 =>
         line.rust_failed = 0 /\ line.rust_block = 0 /\ line.rust_panic = 0 /\ ~line.heading
  /\ \A lines \in Formats : \A line \in lines :
       0 \in {line.go_run, line.go_fail} /\ 0 \in {line.rust_block, line.rust_panic}
  /\ 0 \notin Names \cup Texts \cup Places
  /\ Bounded \in [Names -> Names]
  /\ \A name \in Names : Bounded[Bounded[name]] = Bounded[name]
  /\ UnknownGtest \in Names
  /\ {MaxLogFailures, MaxGtestDetails, MaxGoDetails, MaxGoBlocks, MaxRustDetails, MaxLines}
       \subseteq Nat
=============================================================================
