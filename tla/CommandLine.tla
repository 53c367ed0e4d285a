------------------------------ MODULE CommandLine ------------------------------
(***************************************************************************)
(* The logcompact command (main.rs): it checks its arguments, loads        *)
(* problem matchers, shows its inputs to a reduction session one after the *)
(* other, each in a scope of its own, writes the reduction, and tells by   *)
(* its exit status whether there are findings as severe as --fail-on.      *)
(*                                                                         *)
(* Files, standard input and standard output are the environment: they may *)
(* fail, or end, at any call.  Every read returns one finding's worth of   *)
(* log, or a line that is none.  Of the session there is what the command  *)
(* depends on; Session.tla and Finalize.tla have the rest.  No two         *)
(* findings are equal here, and those of one severity are as good.         *)
(***************************************************************************)
EXTENDS Naturals, Sequences, FiniteSets, Functions, Selections

CONSTANTS
  Findings,            \* what a line may be
  NoFinding,
  Invocations,         \* arguments
  MaxMatchers,         \* ProblemMatcherLimits::max_matchers
  CandidatesPerItem, MinCandidates,
  MaxReads             \* bound on the lines of an input

Error == 1
Severities == 1..3     \* Error, Warning, Note
NoThreshold == 0

FindingType ==         \* severity is that of diagnostics
  [test_failure : BOOLEAN, severity : Severities, fallback : BOOLEAN, size : Nat]
ArgsType ==
  [empty_literal : BOOLEAN, problem_matchers : Nat,
   inputs : Seq({"stdin", "file"}),     \* "-" is stdin
   max_items : Nat, max_output_bytes : Nat, max_input_bytes : Nat,
   fail_on : Severities \cup {NoThreshold},
   unterminated : BOOLEAN]     \* the format ends its output without a line feed

ASSUME CommandLineAssumption ==
  /\ Findings \subseteq FindingType
  /\ NoFinding \notin Findings
  /\ Invocations \subseteq ArgsType
  /\ {MaxMatchers, CandidatesPerItem, MinCandidates, MaxReads} \subseteq Nat

VARIABLES
  args,
  stage,               \* the statement main has come to
  index,               \* of the matcher file, then of the input
  stdin_consumed,
  reads,               \* of the input
  read_result,         \* of stream_reader
  session,
  reduction,
  written,             \* how much of it came out: "none", "part" or "all"
  error, status        \* what main returns, and the exit status

vars == <<args, stage, index, stdin_consumed, reads, read_result, session, reduction,
          written, error, status>>

----------------------------------------------------------------------------
(* The session *)

MaxScopesOfInputs == Len(args.inputs)      \* variant: the scope of no argument is forgotten
MaxScopes == IF args.inputs = <<>> THEN 1 ELSE Len(args.inputs)
MaxCandidates ==
  IF args.max_items * CandidatesPerItem > MinCandidates
  THEN args.max_items * CandidatesPerItem ELSE MinCandidates

(* Of a scope: the bytes retained.  ends is the history of how scopes      *)
(* ended, seen that of findings in the bytes pushed.                       *)
NewSession ==
  [scopes |-> [id \in {} |-> 0], candidates |-> <<>>, candidates_dropped |-> 0,
   refused |-> FALSE, ends |-> <<>>, seen |-> {}]

CanBegin(id) == id \notin DOMAIN session.scopes /\ Cardinality(DOMAIN session.scopes) < MaxScopes
Begun(id) == [session EXCEPT !.scopes = [other \in DOMAIN @ \cup {id} |->
                                           IF other = id THEN 0 ELSE @[other]]]

(* Candidates say which scope they are of.                                 *)
Emitted(state, id, line) ==
  IF line = NoFinding THEN state
  ELSE IF Len(state.candidates) >= MaxCandidates
  THEN [state EXCEPT !.candidates_dropped = @ + 1]
  ELSE [state EXCEPT !.candidates = Append(@, [scope |-> id, finding |-> line])]

Pushed(id, line) ==
  LET noted == [session EXCEPT !.seen = IF line = NoFinding THEN @ ELSE @ \cup {line}]
  IN  IF session.scopes[id] >= args.max_input_bytes THEN [noted EXCEPT !.refused = TRUE]
      ELSE Emitted([noted EXCEPT !.scopes[id] = @ + 1], id, line)

Ended(id, reason) ==
  [session EXCEPT !.scopes = [other \in DOMAIN @ \ {id} |-> @[other]],
                  !.ends = Append(@, reason)]

----------------------------------------------------------------------------
(* finalize_findings *)

(* The diagnostics of a scope have the span of all its lines, so any one   *)
(* of them covers all the fallbacks.                                       *)
Suppressed(candidates, candidate) ==
  /\ candidate.finding.fallback
  /\ \E n \in DOMAIN candidates :
       /\ candidates[n].scope = candidate.scope
       /\ ~candidates[n].finding.test_failure
       /\ ~candidates[n].finding.fallback

Diagnostics(candidates) ==
  Only(candidates, {candidate \in Range(candidates) : /\ ~candidate.finding.test_failure
                                                      /\ ~Suppressed(candidates, candidate)})
TestFailures(candidates) ==
  Only(candidates, {candidate \in Range(candidates) : candidate.finding.test_failure})
OfSeverity(diagnostics, severity) ==
  Only(diagnostics, {diagnostic \in Range(diagnostics) : diagnostic.finding.severity = severity})
Ranked(diagnostics) ==
  OfSeverity(diagnostics, 1) \o OfSeverity(diagnostics, 2) \o OfSeverity(diagnostics, 3)

(* What is left of a number of items, or of them all.                      *)
Truncated(findings, items) == SubSeq(findings, 1, IF Len(findings) < items THEN Len(findings) ELSE items)

(* Of each prefix: the findings kept, those that there was room for. *)
Retaining(findings) ==
  LET after[n \in 0..Len(findings)] ==
        IF n = 0 THEN [used |-> 0, kept |-> <<>>]
        ELSE LET used == after[n - 1].used + findings[n].finding.size
             IN  IF used > args.max_output_bytes THEN after[n - 1]
                 ELSE [used |-> used, kept |-> Append(after[n - 1].kept, findings[n])]
  IN  after
Retained(findings) == Retaining(findings)[Len(findings)].kept

ReductionOf(diagnostics, test_failures, dropped) ==
  LET ranked == Truncated(Ranked(diagnostics), args.max_items)
      failures == Truncated(test_failures, args.max_items - Len(ranked))
      kept == Retained(ranked \o failures)
  IN  [findings |-> [n \in DOMAIN kept |-> kept[n].finding],
       truncated |-> dropped > 0 \/ Len(kept) < Len(diagnostics) + Len(test_failures)]
FinishedSession ==
  ReductionOf(Diagnostics(session.candidates), TestFailures(session.candidates),
              session.candidates_dropped)

----------------------------------------------------------------------------
(* has_severity (lib.rs) *)

AboveSeverity(findings, minimum) ==    \* variant: the severity itself does not count
  \/ \E n \in DOMAIN findings : ~findings[n].test_failure /\ findings[n].severity < minimum
  \/ minimum = Error /\ \E n \in DOMAIN findings : findings[n].test_failure
HasSeverity(findings, minimum) ==
  \/ \E n \in DOMAIN findings : ~findings[n].test_failure /\ findings[n].severity <= minimum
  \/ minimum = Error /\ \E n \in DOMAIN findings : findings[n].test_failure

----------------------------------------------------------------------------
(* main *)

Init ==
  /\ args \in Invocations
  /\ stage = "arguments"
  /\ index = 0
  /\ stdin_consumed = FALSE
  /\ reads = 0
  /\ read_result = "none"
  /\ session = NewSession
  /\ reduction = [findings |-> <<>>, truncated |-> FALSE]
  /\ written = "none"
  /\ error = "none"
  /\ status = 0

(* main returns an error: the session is dropped with what it has found.   *)
Fail(why) ==
  /\ stage' = "done"
  /\ error' = why
  /\ status' = 1
  /\ UNCHANGED <<args, index, stdin_consumed, reads, read_result, session, reduction>>
Continue(next) == stage' = next /\ UNCHANGED <<args, error, status>>

CheckArguments ==
  /\ stage = "arguments"
  /\ IF args.empty_literal THEN Fail("literal") /\ UNCHANGED written
     ELSE /\ Continue("matchers")
          /\ UNCHANGED <<index, stdin_consumed, reads, read_result, session, reduction, written>>

(* load_problem_matchers: a file cannot be opened or read, or the registry *)
(* refuses what it holds (MatcherRegistry.tla).                            *)
LoadMatcher ==
  /\ stage = "matchers"
  /\ args.problem_matchers <= MaxMatchers
  /\ index < args.problem_matchers
  /\ \/ index' = index + 1 /\ Continue("matchers")
        /\ UNCHANGED <<stdin_consumed, reads, read_result, session, reduction, written>>
     \/ Fail("matcher") /\ UNCHANGED written

RefuseMatchers ==
  /\ stage = "matchers"
  /\ args.problem_matchers > MaxMatchers
  /\ Fail("matchers")
  /\ UNCHANGED written

StartSession ==
  /\ stage = "matchers"
  /\ index = args.problem_matchers
  /\ args.problem_matchers <= MaxMatchers
  /\ index' = 1
  /\ Continue("begin")
  /\ UNCHANGED <<stdin_consumed, reads, read_result, session, reduction, written>>

Inputs == IF args.inputs = <<>> THEN <<"stdin">> ELSE args.inputs

(* The scope id of a single input has no index.                            *)
ScopeId == IF Len(Inputs) = 1 THEN <<>> ELSE <<index>>

BeginInput ==
  /\ stage = "begin"
  /\ index \in DOMAIN Inputs
  /\ IF CanBegin(ScopeId)
     THEN /\ session' = Begun(ScopeId)
          /\ Continue("open")
          /\ UNCHANGED <<index, stdin_consumed, reads, read_result, reduction, written>>
     ELSE Fail("refused") /\ UNCHANGED written

(* Standard input is there once; opening a file may fail.                  *)
OpenInput ==
  /\ stage = "open"
  /\ stdin_consumed' = (stdin_consumed \/ Inputs[index] = "stdin")
  /\ ~(Inputs[index] = "stdin" /\ stdin_consumed)
  /\ reads' = 0
  /\ Continue("read")
  /\ UNCHANGED <<index, read_result, session, reduction, written>>
FailToOpen ==
  /\ stage = "open"
  /\ Inputs[index] = "stdin" => stdin_consumed
  /\ Fail(IF Inputs[index] = "stdin" THEN "stdin" ELSE "file")
  /\ UNCHANGED written

(* stream_reader *)
ReadChunk ==
  /\ stage = "read"
  /\ reads < MaxReads
  /\ \E line \in Findings \cup {NoFinding} :
       IF ScopeId \in DOMAIN session.scopes
       THEN /\ session' = Pushed(ScopeId, line)
            /\ reads' = reads + 1
            /\ Continue("read")
            /\ UNCHANGED <<index, stdin_consumed, read_result, reduction, written>>
       ELSE /\ read_result' = "disappeared"
            /\ Continue("end")
            /\ UNCHANGED <<index, stdin_consumed, reads, session, reduction, written>>

StopReading ==
  /\ stage = "read"
  /\ read_result' \in {"ended", "failed"}
  /\ Continue("end")
  /\ UNCHANGED <<index, stdin_consumed, reads, session, reduction, written>>

(* A read error ends the scope before it ends the command.                 *)
EndInputIgnoringErrors ==              \* variant: a read error is the end of the input
  /\ stage = "end"
  /\ session' = Ended(ScopeId, IF read_result = "ended" THEN "Complete" ELSE "Interrupted")
  /\ index' = index + 1
  /\ Continue("begin")
  /\ UNCHANGED <<args, error, status, stdin_consumed, reads, read_result, reduction, written>>
EndInput ==
  /\ stage = "end"
  /\ session' = Ended(ScopeId, IF read_result = "ended" THEN "Complete" ELSE "Interrupted")
  /\ IF read_result = "ended"
     THEN index' = index + 1 /\ Continue("begin")
     ELSE stage' = "done" /\ error' = read_result /\ status' = 1 /\ UNCHANGED <<args, index>>
  /\ UNCHANGED <<stdin_consumed, reads, read_result, reduction, written>>

Finish ==
  /\ stage = "begin"
  /\ index \notin DOMAIN Inputs
  /\ reduction' = FinishedSession
  /\ Continue("write")
  /\ UNCHANGED <<index, stdin_consumed, reads, read_result, session, written>>

(* The last line, if nothing ends it, stays in the buffer of stdout.       *)
Write ==
  /\ stage = "write"
  /\ written' = IF args.unterminated THEN "part" ELSE "all"
  /\ Continue("exit")
  /\ UNCHANGED <<index, stdin_consumed, reads, read_result, session, reduction>>
FailToWrite ==
  /\ stage = "write"
  /\ written' \in {"none", "part"}
  /\ Fail("write")

(* The status; what stdout has buffered is flushed, and an error then is   *)
(* not noticed.                                                            *)
Exit ==
  /\ stage = "exit"
  /\ written' \in {written, "all"}
  /\ status' = IF args.fail_on # NoThreshold /\ HasSeverity(reduction.findings, args.fail_on)
               THEN 1 ELSE 0
  /\ stage' = "done"
  /\ UNCHANGED <<args, index, stdin_consumed, reads, read_result, session, reduction, error>>

Next ==
  \/ CheckArguments \/ LoadMatcher \/ RefuseMatchers \/ StartSession
  \/ BeginInput \/ OpenInput \/ FailToOpen
  \/ ReadChunk \/ StopReading \/ EndInput
  \/ Finish \/ Write \/ FailToWrite \/ Exit

Spec == Init /\ [][Next]_vars
=============================================================================
