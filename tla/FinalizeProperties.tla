------------------------- MODULE FinalizeProperties -------------------------
(***************************************************************************)
(* What a Reduction owes the findings it was made from.                    *)
(***************************************************************************)
EXTENDS Finalize, Functions

Stages ==
  {"sanitize", "suppress", "deduplicate", "sort", "deduplicate_failures", "truncate",
   "retain", "retain_failures", "done"}

(* Every variable has its type. *)
TypeOK ==
  /\ stage \in Stages
  /\ input \in InputType
  /\ diagnostics \in Seq(Diagnostics)
  /\ test_failures \in Seq(Failures)
  /\ deduplicated \in Seq(Diagnostics)
  /\ ranked \in [diagnostics : Nat, failures : Nat]
  /\ next \in Nat \ {0}
  /\ used_bytes \in Nat
  /\ reduction \in [omitted_diagnostics : Nat, omitted_test_failures : Nat,
                    truncated : BOOLEAN]

----------------------------------------------------------------------------
(* The reference: what the findings are, before any budget *)

Clean(i) == SanitizedDiagnostic(input.diagnostics[i])

(* The log lines a finding is about. *)
LinesOf(p) ==
  IF p.scope = 0 \/ p.stream = 0 \/ p.start = 0 THEN {}
  ELSE {<<p.scope, p.stream, n>> : n \in p.start..(IF p.end = 0 THEN p.start ELSE p.end)}

(* A fallback counts unless a better finding is about one of its lines. *)
Counts(i) ==
  Clean(i).quality = FallbackQuality =>
    \A j \in DOMAIN input.diagnostics :
      Clean(j).quality = FallbackQuality
        \/ LinesOf(Clean(i).provenance) \cap LinesOf(Clean(j).provenance) = {}

Positions == {i \in DOMAIN input.diagnostics : Counts(i)}

(* Two findings that differ in nothing but quality and repetitions. *)
SameFinding(d, e) ==
  [d EXCEPT !.quality = 1, !.count = 0] = [e EXCEPT !.quality = 1, !.count = 0]

Repetitions(i) == {j \in Positions : SameFinding(Clean(i), Clean(j))}
FirstPositions == {i \in Positions : \A j \in Repetitions(i) : i <= j}

Total(S) == SumFunction([j \in S |-> Clean(j).count])

(* The finding the repetitions of position i are merged into. *)
Finding(i) ==
  LET total == Total(Repetitions(i))
      quality == CHOOSE q \in Qualities :
                   /\ \E j \in Repetitions(i) : Clean(j).quality = q
                   /\ \A j \in Repetitions(i) : q <= Clean(j).quality
  IN  [Clean(i) EXCEPT !.count = IF total <= MaxCount THEN total ELSE MaxCount,
                       !.quality = quality]

Findings == {Finding(i) : i \in FirstPositions}
CleanFailures ==
  {SanitizedFailure(input.failures[i]) : i \in DOMAIN input.failures}

(* GenericRanker: errors first; compiler, test, lint, infrastructure, then *)
(* tool diagnostics; better evidence; earlier lines; what came first.      *)
ClassOrder == <<"compiler", "test", "lint", "infrastructure", "tool">>
ClassesBefore(c) == {ClassOrder[n] : n \in {m \in 1..5 : \A l \in 1..m : ClassOrder[l] # c}}
EarlierLine(p, q) == p.start # 0 /\ (q.start = 0 \/ p.start < q.start)

RanksBefore(i, j) ==
  LET d == Finding(i)
      e == Finding(j)
  IN  \/ d.severity < e.severity
      \/ /\ d.severity = e.severity
         /\ \/ d.class \in ClassesBefore(e.class)
            \/ /\ d.class = e.class
               /\ \/ d.quality < e.quality
                  \/ /\ d.quality = e.quality
                     /\ \/ EarlierLine(d.provenance, e.provenance)
                        \/ d.provenance.start = e.provenance.start /\ i < j

Place(i) == Cardinality({j \in FirstPositions : RanksBefore(j, i)}) + 1

----------------------------------------------------------------------------
(* Every diagnostic returned is one the reference gives, with all of its   *)
(* repetitions and its best quality, once; and those the reference gives   *)
(* that are not returned are counted (suppress_overlapped_fallbacks, the   *)
(* deduplication loop, the budgets).                                       *)
FindingsAccounted ==
  stage = "done" =>
    /\ Range(deduplicated) \subseteq Findings
    /\ IsInjective(deduplicated)
    /\ Cardinality(FirstPositions) = Len(deduplicated) + reduction.omitted_diagnostics

(* No two diagnostics differ in nothing but quality and repetitions, at    *)
(* any point from the deduplication loop on: not even two that only the    *)
(* path mapper or the redactor made equal (finalize_findings).             *)
NoDiagnosticTwice ==
  \A m, n \in DOMAIN deduplicated :
    m # n => ~SameFinding(deduplicated[m], deduplicated[n])

DiagnosticSizes(s) == [i \in DOMAIN s |-> DiagnosticSize(s[i])]
FailureSizes(s) == [i \in DOMAIN s |-> FailureSize(s[i])]

(* The places of what is returned and ranks before the finding of i.       *)
Better(i) ==
  {m \in DOMAIN deduplicated :
     \E j \in FirstPositions : deduplicated[m] = Finding(j) /\ RanksBefore(j, i)}

(* The best max_items diagnostics are the only candidates, and one of them *)
(* is returned if and only if it fits beside those returned that rank      *)
(* before it: nothing worse, no test failure and nothing that was itself   *)
(* left out ever takes its bytes.  What is returned is ranked (sort_by_key,*)
(* truncate, retain_serialized).                                           *)
BestKept ==
  stage = "done" =>
    /\ \A i \in FirstPositions :
         Finding(i) \in Range(deduplicated)
           <=> /\ Place(i) <= input.max_items
               /\ SumFunctionOnSet(DiagnosticSizes(deduplicated), Better(i))
                    + DiagnosticSize(Finding(i)) <= input.max_bytes
    /\ \A m, n \in DOMAIN deduplicated : m < n =>
         \E i, j \in FirstPositions :
           /\ deduplicated[m] = Finding(i)
           /\ deduplicated[n] = Finding(j)
           /\ RanksBefore(i, j)

(* Both budgets hold for diagnostics and test failures together, from the  *)
(* moment they apply (the `remaining_items` and `used_bytes` accounting).  *)
BudgetsHold ==
  /\ used_bytes <= input.max_bytes
  /\ stage \in {"retain", "retain_failures", "done"} =>
       Len(deduplicated) + Len(test_failures) <= input.max_items

(* used_bytes is the serialized size of exactly what is returned, so the   *)
(* byte budget really bounds it (retain_serialized).                       *)
UsedBytesExact ==
  stage = "done" =>
    used_bytes = SumFunction(DiagnosticSizes(deduplicated))
                   + SumFunction(FailureSizes(test_failures))

(* Nothing is lost without `truncated`: neither a diagnostic nor a test    *)
(* failure to a budget, nor a candidate or a line's tail before            *)
(* (finalize_findings' last statements).                                   *)
LossIsTold ==
  stage = "done" /\ ~reduction.truncated =>
    /\ Range(deduplicated) = Findings
    /\ Range(test_failures) = CleanFailures
    /\ input.candidates_dropped = 0
    /\ input.truncated_lines = 0

(* "Paths are mapped before strings are redacted" (builtins README.md):    *)
(* every text returned went through the policy, in that order.             *)
OutputSanitized ==
  stage = "done" =>
    LET redacted == {SanitizedText(t) : t \in Texts}
        line == {SanitizedLine(t) : t \in OptionalTexts}
        path == {SanitizedLine(MapPath[t]) : t \in Texts} \cup {0}
    IN  /\ \A d \in Range(deduplicated) :
             d.message \in redacted /\ d.path \in path
               /\ d.provenance.source \in line /\ d.provenance.scope \in line
        /\ \A f \in Range(test_failures) :
             f.name \in line /\ f.message \in redacted /\ f.path \in path
               /\ f.provenance.source \in line /\ f.provenance.scope \in line

----------------------------------------------------------------------------
(* The inductive invariant behind the theorems of FinalizeProofs.tla *)

(* Once the budgets apply, no more is left than was ranked: what was       *)
(* omitted is never counted as less than nothing.                          *)
OmissionsCountable ==
  stage \in {"retain", "retain_failures"} =>
    /\ Len(deduplicated) <= ranked.diagnostics
    /\ Len(test_failures) <= ranked.failures

IInv == TypeOK /\ OmissionsCountable /\ BudgetsHold /\ NoDiagnosticTwice

----------------------------------------------------------------------------
(* What the documentation promises and the code does not do *)

(* "exact deduplication" (finalize_findings): no test failure is returned  *)
(* twice.                                                                  *)
FailuresReturnedOnce == stage = "done" => IsInjective(test_failures)

(* "Output budgets retain errors before warnings and notes"                *)
(* (PROBLEM_MATCHERS.md): no warning or note is returned while an error    *)
(* was left out (truncate, retain_serialized).                             *)
ErrorsBeforeWarnings ==
  stage = "done" =>
    \A i, j \in FirstPositions :
      /\ Finding(i).severity = 1
      /\ Finding(j).severity > 1
      /\ Finding(j) \in Range(deduplicated)
      => Finding(i) \in Range(deduplicated)
=============================================================================
