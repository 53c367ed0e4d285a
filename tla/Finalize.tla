------------------------------ MODULE Finalize ------------------------------
(***************************************************************************)
(* logcompact-core's finalize_findings (finalize.rs): the pass that turns  *)
(* the findings parsers emitted into a bounded Reduction.  It sanitises    *)
(* every text, drops fallbacks that a better finding covers, merges equal  *)
(* diagnostics, ranks them, and keeps what the item and byte budgets       *)
(* allow.  Loops whose iterations depend on each other take one step per   *)
(* finding; the others are one step.                                       *)
(*                                                                         *)
(* Texts, paths and scope ids are numbers, of which only equality and      *)
(* order matter; 0 stands for None in every optional field.  What a        *)
(* redactor, a path mapper and the terminal normalisation do to a text is  *)
(* a function.                                                             *)
(***************************************************************************)
EXTENDS Integers, Sequences, FiniteSets, SequencesExt

CONSTANTS
  Texts,               \* messages, names, paths, scope ids
  Redact,              \* OutputPolicy::redactor
  MapPath,             \* OutputPolicy::path_mapper
  Normalize,           \* normalize_terminal_text
  OneLine,             \* the lines of a text joined by spaces
  Inputs,              \* the arguments finalize_findings is called with
  Size,                \* the share of a text in the serialized length of a finding
  MaxCount             \* u32::MAX

Severities == 1..3     \* Error, Warning, Note
Classes == {"compiler", "test", "lint", "tool", "infrastructure"}
Qualities == 1..4      \* Located, Structured, Summary, Fallback
FallbackQuality == 4

OptionalTexts == Texts \cup {0}
NoProvenance == [source |-> 0, scope |-> 0, stream |-> 0, start |-> 0, end |-> 0]
Provenances ==
  [source : OptionalTexts, scope : OptionalTexts, stream : Nat, start : Nat, end : Nat]
Diagnostics ==
  [severity : Severities, class : Classes, message : Texts, path : OptionalTexts,
   provenance : Provenances, quality : Qualities, count : 0..MaxCount]
Failures ==
  [name : Texts, message : Texts, path : OptionalTexts, provenance : Provenances]
InputType ==
  [diagnostics : Seq(Diagnostics), failures : Seq(Failures),
   max_bytes : Nat, max_items : Nat, candidates_dropped : Nat, truncated_lines : Nat]

(* Provenance::with_span never has a span end before it starts.            *)
SpanOrdered(p) == p.end = 0 \/ p.start <= p.end

ASSUME FinalizeAssumption ==
  /\ Texts \subseteq Nat \ {0}
  /\ {Redact, MapPath, Normalize, OneLine} \subseteq [Texts -> Texts]
  /\ Inputs \subseteq InputType
  /\ \A given \in Inputs : \A i \in DOMAIN given.diagnostics :
       SpanOrdered(given.diagnostics[i].provenance)
  /\ Size \in [Texts -> Nat]
  /\ MaxCount \in Nat

VARIABLES
  stage,          \* the statement finalize_findings has come to
  input,          \* its arguments; they do not change
  diagnostics,    \* the vectors it works on
  test_failures,
  deduplicated,   \* diagnostics without repetitions, then as retained
  ranked,         \* findings of each kind before the budgets apply
  next,           \* the position a loop over a vector has come to
  used_bytes,
  reduction       \* the accounting it returns

vars == <<stage, input, diagnostics, test_failures, deduplicated, ranked, next,
          used_bytes, reduction>>

Init ==
  /\ stage = "sanitize"
  /\ input \in Inputs
  /\ diagnostics = input.diagnostics
  /\ test_failures = input.failures
  /\ deduplicated = <<>>
  /\ ranked = [diagnostics |-> 0, failures |-> 0]
  /\ next = 1
  /\ used_bytes = 0
  /\ reduction = [omitted_diagnostics |-> 0, omitted_test_failures |-> 0,
                  truncated |-> FALSE]

----------------------------------------------------------------------------
(* Sanitising *)

SanitizedText(t) == Normalize[Redact[t]]
SanitizedLine(t) == IF t = 0 THEN 0 ELSE OneLine[Normalize[Redact[t]]]
SanitizedPathRedactedFirst(path) ==      \* variant: paths are redacted before they are mapped
  IF path = 0 THEN 0 ELSE OneLine[Normalize[MapPath[Redact[path]]]]
SanitizedPath(path) == IF path = 0 THEN 0 ELSE SanitizedLine(MapPath[path])

SanitizedProvenance(p) ==
  [p EXCEPT !.source = SanitizedLine(@), !.scope = SanitizedLine(@)]

SanitizedDiagnostic(d) ==
  [d EXCEPT !.message = SanitizedText(@), !.path = SanitizedPath(@),
            !.provenance = SanitizedProvenance(@)]

SanitizedFailure(f) ==
  [f EXCEPT !.name = SanitizedLine(@), !.message = SanitizedText(@),
            !.path = SanitizedPath(@), !.provenance = SanitizedProvenance(@)]

Sanitize ==
  /\ stage = "sanitize"
  /\ diagnostics' = [i \in DOMAIN diagnostics |-> SanitizedDiagnostic(diagnostics[i])]
  /\ test_failures' = [i \in DOMAIN test_failures |-> SanitizedFailure(test_failures[i])]
  /\ stage' = "suppress"
  /\ UNCHANGED <<input, deduplicated, ranked, next, used_bytes, reduction>>

----------------------------------------------------------------------------
(* Loops over a vector: Vec::retain and Vec::dedup_by look at one element  *)
(* after the other and remove those they do not keep.                      *)

Kept(s, keeps) == IF keeps THEN s ELSE RemoveAt(s, next)
Following(keeps) == IF keeps THEN next + 1 ELSE next

LoopEnds(loop, s, following) ==
  /\ stage = loop
  /\ next \notin DOMAIN s
  /\ next' = 1
  /\ stage' = following
  /\ UNCHANGED <<input, diagnostics, test_failures, deduplicated, ranked, used_bytes,
                 reduction>>

----------------------------------------------------------------------------
(* suppress_overlapped_fallbacks *)

HasSpan(p) == p.scope # 0 /\ p.stream # 0 /\ p.start # 0
SpanEnd(p) == IF p.end = 0 THEN p.start ELSE p.end

SpansStartTogether(p, q) ==              \* variant: the ends are not looked at
  p.scope = q.scope /\ p.stream = q.stream /\ p.start = q.start
SpansOverlap(p, q) ==
  /\ p.scope = q.scope
  /\ p.stream = q.stream
  /\ p.start <= SpanEnd(q)
  /\ q.start <= SpanEnd(p)

Covers(structured, fallback) ==
  /\ structured.quality # FallbackQuality
  /\ HasSpan(structured.provenance)
  /\ HasSpan(fallback.provenance)
  /\ SpansOverlap(fallback.provenance, structured.provenance)

Suppressed(d, all) ==
  d.quality = FallbackQuality /\ \E i \in DOMAIN all : Covers(all[i], d)

(* Only fallbacks go, and what covers them stays: testing each against the *)
(* vector as it is now is testing it against the spans collected before.   *)
SuppressNext ==
  LET keeps == ~Suppressed(diagnostics[next], diagnostics)
  IN  /\ stage = "suppress"
      /\ next \in DOMAIN diagnostics
      /\ diagnostics' = Kept(diagnostics, keeps)
      /\ next' = Following(keeps)
      /\ UNCHANGED <<stage, input, test_failures, deduplicated, ranked, used_bytes,
                     reduction>>

----------------------------------------------------------------------------
(* Exact deduplication of diagnostics, in order of first appearance *)

DiagnosticKeyWithQuality(d) ==           \* variant: the quality is part of the key
  <<d.severity, d.class, d.message, d.path, d.provenance, d.quality>>
DiagnosticKey(d) == <<d.severity, d.class, d.message, d.path, d.provenance>>

SaturatingAdd(m, n) == IF m + n <= MaxCount THEN m + n ELSE MaxCount

MergedLastQuality(first, d) ==           \* variant: the last quality wins
  [first EXCEPT !.count = SaturatingAdd(@, d.count), !.quality = d.quality]
Merged(first, d) ==
  [first EXCEPT !.count = SaturatingAdd(@, d.count),
                !.quality = IF d.quality < @ THEN d.quality ELSE @]

DeduplicateNext ==
  LET d == Head(diagnostics)
      same == {i \in DOMAIN deduplicated : DiagnosticKey(deduplicated[i]) = DiagnosticKey(d)}
  IN  /\ stage = "deduplicate"
      /\ diagnostics # <<>>
      /\ diagnostics' = Tail(diagnostics)
      /\ deduplicated' =
           IF same = {} THEN Append(deduplicated, d)
           ELSE [i \in DOMAIN deduplicated |->
                   IF i \in same THEN Merged(deduplicated[i], d) ELSE deduplicated[i]]
      /\ UNCHANGED <<stage, input, test_failures, ranked, next, used_bytes, reduction>>

----------------------------------------------------------------------------
(* Ranking *)

(* Lexicographic order on tuples of one length. *)
LexLess(a, b) == \E i \in DOMAIN a : a[i] < b[i] /\ \A j \in 1..(i - 1) : a[j] = b[j]

(* The one permutation of the positions that sorts them by their keys and  *)
(* keeps the order of those with equal keys.                               *)
StableOrders(keys) ==
  {p \in [DOMAIN keys -> DOMAIN keys] :
     \A i, j \in DOMAIN keys : i < j =>
       \/ LexLess(keys[p[i]], keys[p[j]])
       \/ keys[p[i]] = keys[p[j]] /\ p[i] < p[j]}

Reordered(s, p) == [i \in DOMAIN s |-> s[p[i]]]

ClassRank ==
  [compiler |-> 0, test |-> 1, lint |-> 2, infrastructure |-> 3, tool |-> 4]

(* GenericRanker; a diagnostic without a line comes after all lines. *)
RankKey(d) ==
  <<d.severity, ClassRank[d.class], d.quality,
    IF d.provenance.start = 0 THEN 1 ELSE 0, d.provenance.start>>

RankKeys == [i \in DOMAIN deduplicated |-> RankKey(deduplicated[i])]

RankDiagnostics ==
  /\ stage = "deduplicate"
  /\ diagnostics = <<>>
  /\ \E p \in StableOrders(RankKeys) :
       deduplicated' = Reordered(deduplicated, p)
  /\ stage' = "sort"
  /\ UNCHANGED <<input, diagnostics, test_failures, ranked, next, used_bytes, reduction>>

----------------------------------------------------------------------------
(* Test failures: sort by provenance and name, then dedup_by equality, *)
(* which compares neighbours.                                          *)

FailureKey(f) ==
  <<f.provenance.source, f.provenance.scope, f.provenance.stream, f.provenance.start,
    f.provenance.end, f.name>>

FailureKeys == [i \in DOMAIN test_failures |-> FailureKey(test_failures[i])]

SortFailures ==
  /\ stage = "sort"
  /\ \E p \in StableOrders(FailureKeys) :
       test_failures' = Reordered(test_failures, p)
  /\ stage' = "deduplicate_failures"
  /\ UNCHANGED <<input, diagnostics, deduplicated, ranked, next, used_bytes, reduction>>

DeduplicateNextFailure ==
  LET keeps == next = 1 \/ test_failures[next] # test_failures[next - 1]
  IN  /\ stage = "deduplicate_failures"
      /\ next \in DOMAIN test_failures
      /\ test_failures' = Kept(test_failures, keeps)
      /\ next' = Following(keeps)
      /\ UNCHANGED <<stage, input, diagnostics, deduplicated, ranked, used_bytes, reduction>>

----------------------------------------------------------------------------
(* Budgets *)

Least(m, n) == IF m <= n THEN m ELSE n
Prefix(s, n) == SubSeq(s, 1, Least(n, Len(s)))

RemainingAll(kept) == input.max_items    \* variant: each kind has the whole limit
Remaining(kept) == input.max_items - Len(kept)

TruncateItems ==
  LET kept == Prefix(deduplicated, input.max_items)
  IN  /\ stage = "truncate"
      /\ ranked' = [diagnostics |-> Len(deduplicated), failures |-> Len(test_failures)]
      /\ deduplicated' = kept
      /\ test_failures' = Prefix(test_failures, Remaining(kept))
      /\ stage' = "retain"
      /\ UNCHANGED <<input, diagnostics, next, used_bytes, reduction>>

TextSize(t) == IF t = 0 THEN 0 ELSE Size[t]
ProvenanceSize(p) == TextSize(p.source) + TextSize(p.scope)
DiagnosticSize(d) == Size[d.message] + TextSize(d.path) + ProvenanceSize(d.provenance)
FailureSize(f) ==
  Size[f.name] + Size[f.message] + TextSize(f.path) + ProvenanceSize(f.provenance)

(* retain_serialized *)
FitsAlone(size) == size <= input.max_bytes       \* variant: what is used is forgotten
Fits(size) == used_bytes + size <= input.max_bytes
UsedAlways(size) == used_bytes + size            \* variant: the omitted are charged too
Used(size) == IF Fits(size) THEN used_bytes + size ELSE used_bytes

RetainFromWorst ==                       \* variant: the loop starts at the worst finding
  LET last == Len(deduplicated) + 1 - next
      fits == Fits(DiagnosticSize(deduplicated[last]))
  IN  /\ stage = "retain"
      /\ next \in DOMAIN deduplicated
      /\ deduplicated' = IF fits THEN deduplicated ELSE RemoveAt(deduplicated, last)
      /\ next' = Following(fits)
      /\ used_bytes' = Used(DiagnosticSize(deduplicated[last]))
      /\ UNCHANGED <<stage, input, diagnostics, test_failures, ranked, reduction>>

RetainDiagnostic ==
  LET size == DiagnosticSize(deduplicated[next])
  IN  /\ stage = "retain"
      /\ next \in DOMAIN deduplicated
      /\ deduplicated' = Kept(deduplicated, Fits(size))
      /\ next' = Following(Fits(size))
      /\ used_bytes' = Used(size)
      /\ UNCHANGED <<stage, input, diagnostics, test_failures, ranked, reduction>>

RetainFailure ==
  LET size == FailureSize(test_failures[next])
  IN  /\ stage = "retain_failures"
      /\ next \in DOMAIN test_failures
      /\ test_failures' = Kept(test_failures, Fits(size))
      /\ next' = Following(Fits(size))
      /\ used_bytes' = Used(size)
      /\ UNCHANGED <<stage, input, diagnostics, deduplicated, ranked, reduction>>

OmissionsTold(omitted_diagnostics, omitted_test_failures) ==  \* variant: only findings
  omitted_diagnostics > 0 \/ omitted_test_failures > 0
IsTruncated(omitted_diagnostics, omitted_test_failures) ==
  \/ omitted_diagnostics > 0
  \/ omitted_test_failures > 0
  \/ input.candidates_dropped > 0
  \/ input.truncated_lines > 0

Return ==
  LET omitted == ranked.diagnostics - Len(deduplicated)
      omitted_failures == ranked.failures - Len(test_failures)
  IN  /\ stage = "retain_failures"
      /\ next \notin DOMAIN test_failures
      /\ reduction' = [omitted_diagnostics |-> omitted,
                       omitted_test_failures |-> omitted_failures,
                       truncated |-> IsTruncated(omitted, omitted_failures)]
      /\ stage' = "done"
      /\ UNCHANGED <<input, diagnostics, test_failures, deduplicated, ranked, next, used_bytes>>

Done ==
  /\ stage = "done"
  /\ UNCHANGED vars

Next ==
  \/ Sanitize
  \/ SuppressNext
  \/ LoopEnds("suppress", diagnostics, "deduplicate")
  \/ DeduplicateNext
  \/ RankDiagnostics
  \/ SortFailures
  \/ DeduplicateNextFailure
  \/ LoopEnds("deduplicate_failures", test_failures, "truncate")
  \/ TruncateItems
  \/ RetainDiagnostic
  \/ LoopEnds("retain", deduplicated, "retain_failures")
  \/ RetainFailure
  \/ Return
  \/ Done

Spec == Init /\ [][Next]_vars
=============================================================================
