--------------------------- MODULE FinalizeProofs ---------------------------
(***************************************************************************)
(* What finalize_findings guarantees for every list of findings, policy    *)
(* and budget: both budgets hold, no diagnostic is returned twice, no text *)
(* is returned that the policy did not sanitise, what is returned are the  *)
(* best of the findings there were, and what is missing is told.           *)
(***************************************************************************)
EXTENDS FinalizeProperties, FoldLemmas

(* Removing one position of a sequence keeps the others, in order. *)
LEMMA RemoveAtProperties ==
  ASSUME NEW S, NEW s \in Seq(S), NEW n \in DOMAIN s
  PROVE  /\ RemoveAt(s, n) \in Seq(S)
         /\ Len(RemoveAt(s, n)) = Len(s) - 1
         /\ \A i \in DOMAIN RemoveAt(s, n) :
              RemoveAt(s, n)[i] = s[IF i < n THEN i ELSE i + 1]
PROOF
<1> DEFINE a == SubSeq(s, 1, n - 1)
           b == SubSeq(s, n + 1, Len(s))
<1>1. n \in 1..Len(s) /\ Len(s) \in Nat
  OBVIOUS
<1>2. /\ a \in Seq(S)
      /\ Len(a) = n - 1
      /\ \A i \in 1..(n - 1) : a[i] = s[i]
  BY <1>1, SubSeqProperties
<1>3. /\ b \in Seq(S)
      /\ Len(b) = Len(s) - n
      /\ \A i \in 1..(Len(s) - n) : b[i] = s[n + i]
  <2>1. \A i \in (n + 1)..Len(s) : s[i] \in S
    BY <1>1
  <2> QED  BY <1>1, <2>1, SubSeqProperties
<1> HIDE DEF a, b
<1>4. /\ a \o b \in Seq(S)
      /\ Len(a \o b) = Len(s) - 1
      /\ \A i \in 1..(Len(s) - 1) :
           (a \o b)[i] = IF i <= n - 1 THEN a[i] ELSE b[i - (n - 1)]
  <2>1. a \in Seq(S) /\ b \in Seq(S)
    BY <1>2, <1>3
  <2>2. /\ a \o b \in Seq(S)
        /\ Len(a \o b) = Len(a) + Len(b)
        /\ \A i \in 1..(Len(a) + Len(b)) :
             (a \o b)[i] = IF i <= Len(a) THEN a[i] ELSE b[i - Len(a)]
    BY <2>1, ConcatProperties
  <2>3. Len(a) = n - 1 /\ Len(a) + Len(b) = Len(s) - 1
    BY <1>1, <1>2, <1>3
  <2> QED  BY <2>2, <2>3
<1> DEFINE c == a \o b
<1> HIDE DEF c
<1>5. /\ c \in Seq(S) /\ Len(c) = Len(s) - 1
      /\ \A i \in 1..(Len(s) - 1) : c[i] = IF i <= n - 1 THEN a[i] ELSE b[i - (n - 1)]
  BY <1>4 DEF c
<1>6. ASSUME NEW i \in 1..(Len(s) - 1), i < n
      PROVE  c[i] = s[i]
  BY <1>1, <1>2, <1>5, <1>6
<1>7. ASSUME NEW i \in 1..(Len(s) - 1), ~(i < n)
      PROVE  c[i] = s[i + 1]
  <2>1. i - (n - 1) \in 1..(Len(s) - n) /\ n + (i - (n - 1)) = i + 1 /\ ~(i <= n - 1)
    BY <1>1, <1>7
  <2>2. c[i] = b[i - (n - 1)]
    BY <1>5, <2>1
  <2>3. b[i - (n - 1)] = s[n + (i - (n - 1))]
    BY <1>3, <2>1
  <2> QED  BY <2>1, <2>2, <2>3
<1>8. RemoveAt(s, n) = c
  BY DEF RemoveAt, a, b, c
<1> QED  BY <1>5, <1>6, <1>7, <1>8

(* What one turn of a retain loop leaves of a vector. *)
LEMMA KeptProperties ==
  ASSUME NEW S, NEW s \in Seq(S), NEW keeps \in BOOLEAN, next \in DOMAIN s
  PROVE  /\ Kept(s, keeps) \in Seq(S)
         /\ Len(Kept(s, keeps)) <= Len(s)
         /\ \A m, n \in DOMAIN Kept(s, keeps) : m # n =>
              \E i, j \in DOMAIN s :
                i # j /\ Kept(s, keeps)[m] = s[i] /\ Kept(s, keeps)[n] = s[j]
PROOF
<1>1. CASE keeps
  BY <1>1 DEF Kept
<1>2. CASE ~keeps
  <2> DEFINE left == RemoveAt(s, next)
             At(i) == IF i < next THEN i ELSE i + 1
  <2>1. /\ left \in Seq(S)
        /\ Len(left) = Len(s) - 1
        /\ \A i \in DOMAIN left : left[i] = s[At(i)]
    BY RemoveAtProperties
  <2>2. Kept(s, keeps) = left
    BY <1>2 DEF Kept
  <2>3. next \in 1..Len(s) /\ Len(s) \in Nat
    OBVIOUS
  <2> HIDE DEF left
  <2>4. ASSUME NEW m \in DOMAIN left, NEW n \in DOMAIN left, m # n
        PROVE  /\ At(m) \in DOMAIN s /\ At(n) \in DOMAIN s
               /\ At(m) # At(n)
    BY <2>1, <2>3, <2>4
  <2> HIDE DEF At
  <2> QED  BY <2>1, <2>2, <2>3, <2>4
<1> QED  BY <1>1, <1>2

(* The first n elements of a sequence. *)
LEMMA PrefixProperties ==
  ASSUME NEW S, NEW s \in Seq(S), NEW n \in Nat
  PROVE  /\ Prefix(s, n) \in Seq(S)
         /\ Len(Prefix(s, n)) <= n
         /\ Len(Prefix(s, n)) <= Len(s)
         /\ \A i \in DOMAIN Prefix(s, n) : i \in DOMAIN s /\ Prefix(s, n)[i] = s[i]
PROOF
<1> DEFINE l == Least(n, Len(s))
<1>1. l \in Nat /\ l <= n /\ l <= Len(s) /\ Len(s) \in Nat
  BY DEF Least
<1> HIDE DEF l
<1>2. /\ SubSeq(s, 1, l) \in Seq(S)
      /\ Len(SubSeq(s, 1, l)) = l
      /\ \A i \in 1..l : SubSeq(s, 1, l)[i] = s[i]
  BY <1>1, SubSeqProperties
<1> QED  BY <1>1, <1>2 DEF Prefix, l

(* A function on the positions of a sequence is a sequence of its length.  *)
LEMMA FunctionIsSequence ==
  ASSUME NEW R, NEW S, NEW s \in Seq(R), NEW f, f = [i \in DOMAIN s |-> f[i]],
         \A i \in DOMAIN s : f[i] \in S
  PROVE  f \in Seq(S) /\ Len(f) = Len(s)
PROOF
<1>1. DOMAIN s = 1..Len(s) /\ Len(s) \in Nat
  OBVIOUS
<1>2. f \in [1..Len(s) -> S]
  BY <1>1
<1> QED  BY <1>1, <1>2

LEMMA ReorderedType ==
  ASSUME NEW S, NEW s \in Seq(S), NEW p \in [DOMAIN s -> DOMAIN s]
  PROVE  Reordered(s, p) \in Seq(S) /\ Len(Reordered(s, p)) = Len(s)
PROOF
<1>1. Reordered(s, p) = [i \in DOMAIN s |-> Reordered(s, p)[i]]
  BY DEF Reordered
<1>2. \A i \in DOMAIN s : Reordered(s, p)[i] \in S
  BY DEF Reordered
<1> QED  BY <1>1, <1>2, FunctionIsSequence

(* Sorting only permutes: no position is taken twice, since keys that are  *)
(* tuples of integers are not less than themselves.                        *)
LEMMA StableOrderIsInjective ==
  ASSUME NEW s \in Seq(Diagnostics), NEW keys,
         keys = [i \in DOMAIN s |-> RankKey(s[i])], NEW p \in StableOrders(keys),
         \A d \in Diagnostics : RankKey(d) \in Seq(Int)
  PROVE  /\ p \in [DOMAIN s -> DOMAIN s]
         /\ \A m, n \in DOMAIN s : m # n => p[m] # p[n]
PROOF
<1>1. /\ p \in [DOMAIN s -> DOMAIN s]
      /\ \A i, j \in DOMAIN s : i < j =>
           \/ LexLess(RankKey(s[p[i]]), RankKey(s[p[j]]))
           \/ RankKey(s[p[i]]) = RankKey(s[p[j]]) /\ p[i] < p[j]
  <2>1. /\ p \in [DOMAIN keys -> DOMAIN keys]
        /\ \A i, j \in DOMAIN keys : i < j =>
             \/ LexLess(keys[p[i]], keys[p[j]])
             \/ keys[p[i]] = keys[p[j]] /\ p[i] < p[j]
    BY DEF StableOrders
  <2>2. DOMAIN keys = DOMAIN s /\ \A i \in DOMAIN s : keys[i] = RankKey(s[i])
    OBVIOUS
  <2> QED  BY <2>1, <2>2
<1>2. \A a \in Seq(Int) : ~LexLess(a, a)
  BY DEF LexLess
<1>3. ASSUME NEW i \in DOMAIN s, NEW j \in DOMAIN s, i < j
      PROVE  p[i] # p[j]
  <2> SUFFICES ASSUME p[i] = p[j]
               PROVE  FALSE
    OBVIOUS
  <2>1. p[i] \in DOMAIN s /\ s[p[i]] \in Diagnostics
    BY <1>1
  <2>2. ~LexLess(RankKey(s[p[i]]), RankKey(s[p[j]]))
    BY <1>2, <2>1
  <2>3. p[i] \in Int /\ ~(p[i] < p[j])
    BY <2>1
  <2> QED  BY <1>1, <1>3, <2>2, <2>3
<1>4. ASSUME NEW m \in DOMAIN s, NEW n \in DOMAIN s, m # n
      PROVE  p[m] # p[n]
  <2>1. m < n \/ n < m
    BY <1>4
  <2> QED  BY <1>3, <2>1
<1> QED  BY <1>1, <1>4

----------------------------------------------------------------------------
(* Types *)

(* A vector of diagnostics no two of which differ in nothing but quality   *)
(* and repetitions: NoDiagnosticTwice is AllDifferent(deduplicated).       *)
AllDifferent(s) ==
  \A m, n \in DOMAIN s : m # n => ~SameFinding(s[m], s[n])

LEMMA SanitizedTypes ==
  /\ \A d \in Diagnostics : SanitizedDiagnostic(d) \in Diagnostics
  /\ \A f \in Failures : SanitizedFailure(f) \in Failures
PROOF
<1>1. \A t \in Texts : SanitizedText(t) \in Texts
  BY FinalizeAssumption DEF SanitizedText
<1>2. \A t \in OptionalTexts : SanitizedLine(t) \in OptionalTexts
  BY FinalizeAssumption DEF SanitizedLine, OptionalTexts
<1>3. \A t \in Texts : SanitizedLine(t) \in Texts
  BY FinalizeAssumption DEF SanitizedLine
<1>4. \A t \in OptionalTexts : SanitizedPath(t) \in OptionalTexts
  BY <1>2, FinalizeAssumption DEF SanitizedPath, OptionalTexts
<1>5. \A p \in Provenances : SanitizedProvenance(p) \in Provenances
  BY <1>2 DEF SanitizedProvenance, Provenances
<1>6. \A d \in Diagnostics : SanitizedDiagnostic(d) \in Diagnostics
  BY <1>1, <1>4, <1>5 DEF SanitizedDiagnostic, Diagnostics
<1>7. \A f \in Failures : SanitizedFailure(f) \in Failures
  BY <1>1, <1>3, <1>4, <1>5 DEF SanitizedFailure, Failures
<1> QED  BY <1>6, <1>7

LEMMA SizeTypes ==
  /\ \A d \in Diagnostics : DiagnosticSize(d) \in Nat
  /\ \A f \in Failures : FailureSize(f) \in Nat
PROOF
<1>1. \A t \in OptionalTexts : TextSize(t) \in Nat
  BY FinalizeAssumption DEF TextSize, OptionalTexts
<1>2. \A p \in Provenances : ProvenanceSize(p) \in Nat
  BY <1>1 DEF ProvenanceSize, Provenances
<1>3. \A t \in Texts : Size[t] \in Nat
  BY FinalizeAssumption
<1> QED  BY <1>1, <1>2, <1>3 DEF DiagnosticSize, FailureSize, Diagnostics, Failures

LEMMA KeyTypes ==
  /\ \A d \in Diagnostics : RankKey(d) \in Seq(Int)
  /\ \A f \in Failures : FailureKey(f) \in Seq(Int)
PROOF
<1>1. \A c \in Classes : ClassRank[c] \in Int
  BY DEF Classes, ClassRank
<1>2. Texts \subseteq Int /\ OptionalTexts \subseteq Int
  BY FinalizeAssumption DEF OptionalTexts
<1>5. ASSUME NEW p \in Provenances
      PROVE  /\ p.source \in Int /\ p.scope \in Int /\ p.stream \in Int
             /\ p.start \in Int /\ p.end \in Int
  <2>1. p.source \in OptionalTexts /\ p.scope \in OptionalTexts
    BY DEF Provenances
  <2>2. p.stream \in Nat /\ p.start \in Nat /\ p.end \in Nat
    BY DEF Provenances
  <2>3. p.source \in Int /\ p.scope \in Int
    BY <1>2, <2>1
  <2> QED  BY <2>2, <2>3
<1>3. ASSUME NEW d \in Diagnostics
      PROVE  RankKey(d) \in Seq(Int)
  <2>1. /\ d.severity \in Int /\ ClassRank[d.class] \in Int /\ d.quality \in Int
        /\ d.provenance.start \in Int
    BY <1>1 DEF Diagnostics, Severities, Qualities, Provenances
  <2> QED  BY <2>1 DEF RankKey
<1>4. ASSUME NEW f \in Failures
      PROVE  FailureKey(f) \in Seq(Int)
  <2>1. f.provenance \in Provenances /\ f.name \in Texts
    BY DEF Failures
  <2>2. /\ f.provenance.source \in Int /\ f.provenance.scope \in Int
        /\ f.provenance.stream \in Int /\ f.provenance.start \in Int
        /\ f.provenance.end \in Int /\ f.name \in Int
    BY <1>2, <1>5, <2>1
  <2> QED  BY <2>2 DEF FailureKey
<1> QED  BY <1>3, <1>4

(* The deduplication key tells findings apart exactly. *)
LEMMA KeyIsIdentity ==
  ASSUME NEW d \in Diagnostics, NEW e \in Diagnostics
  PROVE  SameFinding(d, e) <=> DiagnosticKey(d) = DiagnosticKey(e)
PROOF
<1> DEFINE Unqualified(x) == [x EXCEPT !.quality = 1]
           Bare(x) == [Unqualified(x) EXCEPT !.count = 0]
<1>0. \A x \in Diagnostics :
        Unqualified(x) =
          [severity |-> x.severity, class |-> x.class, message |-> x.message,
           path |-> x.path, provenance |-> x.provenance, quality |-> 1,
           count |-> x.count]
  BY DEF Diagnostics
<1> HIDE DEF Unqualified
<1>1. \A x \in Diagnostics :
        Bare(x) = [severity |-> x.severity, class |-> x.class, message |-> x.message,
                   path |-> x.path, provenance |-> x.provenance, quality |-> 1,
                   count |-> 0]
  BY <1>0
<1>2. SameFinding(d, e) <=> Bare(d) = Bare(e)
  BY DEF SameFinding, Unqualified
<1>3. /\ Bare(d).severity = d.severity /\ Bare(d).class = d.class
      /\ Bare(d).message = d.message /\ Bare(d).path = d.path
      /\ Bare(d).provenance = d.provenance
  BY <1>1
<1>4. /\ Bare(e).severity = e.severity /\ Bare(e).class = e.class
      /\ Bare(e).message = e.message /\ Bare(e).path = e.path
      /\ Bare(e).provenance = e.provenance
  BY <1>1
<1>5. /\ d.severity = e.severity /\ d.class = e.class /\ d.message = e.message
      /\ d.path = e.path /\ d.provenance = e.provenance
      => Bare(d) = Bare(e)
  BY <1>1
<1> HIDE DEF Bare
<1> QED  BY <1>2, <1>3, <1>4, <1>5 DEF DiagnosticKey

LEMMA MergedProperties ==
  ASSUME NEW d \in Diagnostics, NEW e \in Diagnostics
  PROVE  Merged(d, e) \in Diagnostics /\ DiagnosticKey(Merged(d, e)) = DiagnosticKey(d)
PROOF
<1> DEFINE count == SaturatingAdd(d.count, e.count)
           quality == IF e.quality < d.quality THEN e.quality ELSE d.quality
<1>1. count \in 0..MaxCount /\ quality \in Qualities
  BY FinalizeAssumption DEF SaturatingAdd, Diagnostics
<1>2. Merged(d, e) = [d EXCEPT !.count = count, !.quality = quality]
  BY DEF Merged
<1> HIDE DEF count, quality
<1> QED  BY <1>1, <1>2 DEF Diagnostics, DiagnosticKey

----------------------------------------------------------------------------
(* Vectors no two diagnostics of which are the same finding *)

LEMMA KeptStaysDifferent ==
  ASSUME NEW s \in Seq(Diagnostics), AllDifferent(s), NEW keeps \in BOOLEAN,
         next \in DOMAIN s
  PROVE  AllDifferent(Kept(s, keeps))
PROOF
<1>1. \A m, n \in DOMAIN Kept(s, keeps) : m # n =>
        \E i, j \in DOMAIN s :
          i # j /\ Kept(s, keeps)[m] = s[i] /\ Kept(s, keeps)[n] = s[j]
  BY KeptProperties
<1> QED  BY <1>1 DEF AllDifferent

LEMMA PrefixStaysDifferent ==
  ASSUME NEW s \in Seq(Diagnostics), AllDifferent(s), NEW n \in Nat
  PROVE  AllDifferent(Prefix(s, n))
  BY PrefixProperties DEF AllDifferent

LEMMA ReorderedStaysDifferent ==
  ASSUME NEW s \in Seq(Diagnostics), AllDifferent(s), NEW keys,
         keys = [i \in DOMAIN s |-> RankKey(s[i])], NEW p \in StableOrders(keys)
  PROVE  /\ Reordered(s, p) \in Seq(Diagnostics)
         /\ AllDifferent(Reordered(s, p))
PROOF
<1>1. \A d \in Diagnostics : RankKey(d) \in Seq(Int)
  BY KeyTypes
<1>2. /\ p \in [DOMAIN s -> DOMAIN s]
      /\ \A m, n \in DOMAIN s : m # n => p[m] # p[n]
  BY <1>1, StableOrderIsInjective
<1>3. Reordered(s, p) \in Seq(Diagnostics)
  BY <1>2, ReorderedType
<1>4. /\ DOMAIN Reordered(s, p) = DOMAIN s
      /\ \A i \in DOMAIN s : p[i] \in DOMAIN s /\ Reordered(s, p)[i] = s[p[i]]
  BY <1>2 DEF Reordered
<1> QED  BY <1>2, <1>3, <1>4 DEF AllDifferent

(* The step of the deduplication loop. *)
LEMMA DeduplicationStaysDifferent ==
  ASSUME NEW s \in Seq(Diagnostics), AllDifferent(s), NEW d \in Diagnostics,
         NEW result,
         LET same == {i \in DOMAIN s : DiagnosticKey(s[i]) = DiagnosticKey(d)}
         IN  result = IF same = {} THEN Append(s, d)
                      ELSE [i \in DOMAIN s |->
                              IF i \in same THEN Merged(s[i], d) ELSE s[i]]
  PROVE  result \in Seq(Diagnostics) /\ AllDifferent(result)
PROOF
<1> DEFINE same == {i \in DOMAIN s : DiagnosticKey(s[i]) = DiagnosticKey(d)}
<1>1. \A i \in DOMAIN s : s[i] \in Diagnostics
  OBVIOUS
<1>2. CASE same = {}
  <2>1. result = Append(s, d)
    BY <1>2
  <2>2. /\ result \in Seq(Diagnostics)
        /\ DOMAIN result = 1..(Len(s) + 1)
        /\ result[Len(s) + 1] = d
        /\ \A i \in DOMAIN s : result[i] = s[i]
    BY <2>1
  <2>3. \A i \in DOMAIN s : ~SameFinding(s[i], d) /\ ~SameFinding(d, s[i])
    BY <1>1, <1>2, KeyIsIdentity
  <2>4. \A i \in DOMAIN result : i \in DOMAIN s \/ i = Len(s) + 1
    BY <2>2
  <2> QED  BY <2>2, <2>3, <2>4 DEF AllDifferent
<1>3. CASE same # {}
  <2>1. result = [i \in DOMAIN s |-> IF i \in same THEN Merged(s[i], d) ELSE s[i]]
    BY <1>3
  <2>2. \A i \in DOMAIN s :
          /\ result[i] \in Diagnostics
          /\ DiagnosticKey(result[i]) = DiagnosticKey(s[i])
    BY <1>1, <2>1, MergedProperties
  <2>3. DOMAIN result = DOMAIN s /\ DOMAIN s = 1..Len(s) /\ Len(s) \in Nat
    BY <2>1
  <2>4. result \in Seq(Diagnostics)
    <3>1. result = [i \in DOMAIN s |-> result[i]]
      BY <2>1
    <3> QED  BY <2>2, <3>1, FunctionIsSequence
  <2>5. \A m, n \in DOMAIN s : SameFinding(result[m], result[n]) =>
          SameFinding(s[m], s[n])
    BY <1>1, <2>2, KeyIsIdentity
  <2> QED  BY <2>3, <2>4, <2>5 DEF AllDifferent
<1> QED  BY <1>2, <1>3

LEMMA DifferentIsProperty == NoDiagnosticTwice <=> AllDifferent(deduplicated)
  BY DEF NoDiagnosticTwice, AllDifferent

----------------------------------------------------------------------------
(* The invariant *)

LEMMA InvariantInit == Init => IInv
PROOF
<1> SUFFICES ASSUME Init
             PROVE  IInv
  OBVIOUS
<1>1. input \in InputType
  BY FinalizeAssumption DEF Init
<1>2. TypeOK
  BY <1>1 DEF Init, TypeOK, Stages, InputType
<1>3. OmissionsCountable /\ BudgetsHold /\ NoDiagnosticTwice
  BY <1>1 DEF Init, OmissionsCountable, BudgetsHold, NoDiagnosticTwice, InputType
<1> QED  BY <1>2, <1>3 DEF IInv

LEMMA InvariantStep == IInv /\ [Next]_vars => IInv'
PROOF
<1> SUFFICES ASSUME IInv, [Next]_vars
             PROVE  IInv'
  OBVIOUS
<1>0. TypeOK /\ OmissionsCountable /\ BudgetsHold /\ NoDiagnosticTwice
  BY DEF IInv
<1> USE <1>0
<1>t. /\ stage \in Stages
      /\ input \in InputType
      /\ diagnostics \in Seq(Diagnostics)
      /\ test_failures \in Seq(Failures)
      /\ deduplicated \in Seq(Diagnostics)
      /\ ranked \in [diagnostics : Nat, failures : Nat]
      /\ next \in Nat \ {0}
      /\ used_bytes \in Nat
      /\ reduction \in [omitted_diagnostics : Nat, omitted_test_failures : Nat,
                        truncated : BOOLEAN]
  BY DEF TypeOK
<1>i. input.max_bytes \in Nat /\ input.max_items \in Nat
  BY <1>t DEF InputType
<1>d. AllDifferent(deduplicated)
  BY DifferentIsProperty
<1>1. CASE Sanitize
  <2>1. diagnostics' \in Seq(Diagnostics)
    <3>1. \A i \in DOMAIN diagnostics :
            SanitizedDiagnostic(diagnostics[i]) \in Diagnostics
      BY <1>t, SanitizedTypes
    <3>2. diagnostics' = [i \in DOMAIN diagnostics |-> SanitizedDiagnostic(diagnostics[i])]
      BY <1>1 DEF Sanitize
    <3>3. \A i \in DOMAIN diagnostics : diagnostics'[i] = SanitizedDiagnostic(diagnostics[i])
      BY <3>2
    <3>4. diagnostics' = [i \in DOMAIN diagnostics |-> diagnostics'[i]]
      BY <3>2
    <3>5. \A i \in DOMAIN diagnostics : diagnostics'[i] \in Diagnostics
      BY <3>1, <3>3
    <3>6. diagnostics \in Seq(Diagnostics)
      BY <1>t
    <3> HIDE <1>0
    <3> QED  BY <3>4, <3>5, <3>6, FunctionIsSequence
  <2>2. test_failures' \in Seq(Failures)
    <3>1. \A i \in DOMAIN test_failures : SanitizedFailure(test_failures[i]) \in Failures
      BY <1>t, SanitizedTypes
    <3>2. test_failures' = [i \in DOMAIN test_failures |-> SanitizedFailure(test_failures[i])]
      BY <1>1 DEF Sanitize
    <3>3. \A i \in DOMAIN test_failures : test_failures'[i] = SanitizedFailure(test_failures[i])
      BY <3>2
    <3>4. test_failures' = [i \in DOMAIN test_failures |-> test_failures'[i]]
      BY <3>2
    <3> QED  BY <1>t, <3>1, <3>3, <3>4, FunctionIsSequence
  <2>3. /\ stage' = "suppress"
        /\ UNCHANGED <<input, deduplicated, ranked, next, used_bytes, reduction>>
    BY <1>1 DEF Sanitize
  <2>4. TypeOK'
    BY <1>t, <2>1, <2>2, <2>3 DEF TypeOK, Stages
  <2> QED
    BY <2>3, <2>4 DEF IInv, OmissionsCountable, BudgetsHold, NoDiagnosticTwice
<1>2. CASE SuppressNext
  <2> DEFINE keeps == ~Suppressed(diagnostics[next], diagnostics)
  <2>1. /\ stage = "suppress" /\ next \in DOMAIN diagnostics
        /\ diagnostics' = Kept(diagnostics, keeps)
        /\ next' = Following(keeps)
        /\ UNCHANGED <<stage, input, test_failures, deduplicated, ranked, used_bytes,
                       reduction>>
    BY <1>2 DEF SuppressNext
  <2>2. keeps \in BOOLEAN
    OBVIOUS
  <2> HIDE DEF keeps
  <2>3. diagnostics' \in Seq(Diagnostics)
    BY <1>t, <2>1, <2>2, KeptProperties
  <2>4. next' \in Nat \ {0}
    BY <1>t, <2>1 DEF Following
  <2>5. TypeOK'
    BY <1>t, <2>1, <2>3, <2>4 DEF TypeOK
  <2> QED
    BY <2>1, <2>5 DEF IInv, OmissionsCountable, BudgetsHold, NoDiagnosticTwice
<1>3. ASSUME \/ LoopEnds("suppress", diagnostics, "deduplicate")
             \/ LoopEnds("deduplicate_failures", test_failures, "truncate")
             \/ LoopEnds("retain", deduplicated, "retain_failures")
      PROVE  IInv'
  <2>1. /\ stage' \in {"deduplicate", "truncate", "retain_failures"}
        /\ next' = 1
        /\ UNCHANGED <<input, diagnostics, test_failures, deduplicated, ranked,
                       used_bytes, reduction>>
        /\ stage' = "retain_failures" => stage = "retain"
    BY <1>3 DEF LoopEnds
  <2>2. TypeOK'
    BY <1>t, <2>1 DEF TypeOK, Stages
  <2> QED
    BY <2>1, <2>2 DEF IInv, OmissionsCountable, BudgetsHold, NoDiagnosticTwice
<1>4. CASE DeduplicateNext
  <2> DEFINE d == Head(diagnostics)
  <2>1. /\ stage = "deduplicate" /\ diagnostics # <<>>
        /\ diagnostics' = Tail(diagnostics)
        /\ LET same == {i \in DOMAIN deduplicated :
                          DiagnosticKey(deduplicated[i]) = DiagnosticKey(d)}
           IN  deduplicated' = IF same = {} THEN Append(deduplicated, d)
                               ELSE [i \in DOMAIN deduplicated |->
                                       IF i \in same THEN Merged(deduplicated[i], d)
                                       ELSE deduplicated[i]]
        /\ UNCHANGED <<stage, input, test_failures, ranked, next, used_bytes, reduction>>
    BY <1>4 DEF DeduplicateNext
  <2>2. d \in Diagnostics /\ diagnostics' \in Seq(Diagnostics)
    BY <1>t, <2>1, HeadTailProperties
  <2> HIDE DEF d
  <2>3. deduplicated' \in Seq(Diagnostics) /\ AllDifferent(deduplicated')
    BY <1>t, <1>d, <2>1, <2>2, DeduplicationStaysDifferent
  <2>4. NoDiagnosticTwice'
    BY <2>3 DEF NoDiagnosticTwice, AllDifferent
  <2>5. TypeOK'
    BY <1>t, <2>1, <2>2, <2>3 DEF TypeOK
  <2> QED  BY <2>1, <2>4, <2>5 DEF IInv, OmissionsCountable, BudgetsHold
<1>5. CASE RankDiagnostics
  <2>1. PICK p \in StableOrders(RankKeys) :
          deduplicated' = Reordered(deduplicated, p)
    BY <1>5 DEF RankDiagnostics
  <2>2. /\ stage' = "sort"
        /\ UNCHANGED <<input, diagnostics, test_failures, ranked, next, used_bytes,
                       reduction>>
    BY <1>5 DEF RankDiagnostics
  <2>3. deduplicated' \in Seq(Diagnostics) /\ AllDifferent(deduplicated')
    <3>1. RankKeys = [i \in DOMAIN deduplicated |-> RankKey(deduplicated[i])]
      BY DEF RankKeys
    <3> QED  BY <1>t, <1>d, <2>1, <3>1, ReorderedStaysDifferent
  <2>4. NoDiagnosticTwice'
    BY <2>3 DEF NoDiagnosticTwice, AllDifferent
  <2>5. TypeOK'
    BY <1>t, <2>2, <2>3 DEF TypeOK, Stages
  <2> QED  BY <2>2, <2>4, <2>5 DEF IInv, OmissionsCountable, BudgetsHold
<1>6. CASE SortFailures
  <2>1. PICK p \in StableOrders(FailureKeys) :
          test_failures' = Reordered(test_failures, p)
    BY <1>6 DEF SortFailures
  <2>2. /\ stage' = "deduplicate_failures"
        /\ UNCHANGED <<input, diagnostics, deduplicated, ranked, next, used_bytes,
                       reduction>>
    BY <1>6 DEF SortFailures
  <2>3. p \in [DOMAIN test_failures -> DOMAIN test_failures]
    BY DEF StableOrders, FailureKeys
  <2>4. test_failures' \in Seq(Failures)
    BY <1>t, <2>1, <2>3, ReorderedType
  <2>5. TypeOK'
    BY <1>t, <2>2, <2>4 DEF TypeOK, Stages
  <2> QED
    BY <2>2, <2>5 DEF IInv, OmissionsCountable, BudgetsHold, NoDiagnosticTwice
<1>7. CASE DeduplicateNextFailure
  <2> DEFINE keeps == next = 1 \/ test_failures[next] # test_failures[next - 1]
  <2>1. /\ stage = "deduplicate_failures" /\ next \in DOMAIN test_failures
        /\ test_failures' = Kept(test_failures, keeps)
        /\ next' = Following(keeps)
        /\ UNCHANGED <<stage, input, diagnostics, deduplicated, ranked, used_bytes,
                       reduction>>
    BY <1>7 DEF DeduplicateNextFailure
  <2>2. keeps \in BOOLEAN
    OBVIOUS
  <2> HIDE DEF keeps
  <2>3. test_failures' \in Seq(Failures)
    BY <1>t, <2>1, <2>2, KeptProperties
  <2>4. next' \in Nat \ {0}
    BY <1>t, <2>1 DEF Following
  <2>5. TypeOK'
    BY <1>t, <2>1, <2>3, <2>4 DEF TypeOK
  <2> QED
    BY <2>1, <2>5 DEF IInv, OmissionsCountable, BudgetsHold, NoDiagnosticTwice
<1>8. CASE TruncateItems
  <2> DEFINE kept == Prefix(deduplicated, input.max_items)
             room == Remaining(kept)
  <2>1. /\ ranked' = [diagnostics |-> Len(deduplicated), failures |-> Len(test_failures)]
        /\ deduplicated' = kept
        /\ test_failures' = Prefix(test_failures, room)
        /\ stage' = "retain"
        /\ UNCHANGED <<input, diagnostics, next, used_bytes, reduction>>
    BY <1>8 DEF TruncateItems
  <2>2. /\ kept \in Seq(Diagnostics)
        /\ Len(kept) <= input.max_items
        /\ Len(kept) <= Len(deduplicated)
    BY <1>t, <1>i, PrefixProperties
  <2>3. AllDifferent(kept)
    BY <1>t, <1>i, <1>d, PrefixStaysDifferent
  <2> HIDE DEF kept
  <2>4. Len(kept) \in Nat /\ room \in Nat /\ Len(kept) + room = input.max_items
    BY <1>i, <2>2 DEF Remaining
  <2> HIDE DEF room
  <2>5. /\ Prefix(test_failures, room) \in Seq(Failures)
        /\ Len(Prefix(test_failures, room)) <= room
        /\ Len(Prefix(test_failures, room)) <= Len(test_failures)
    BY <1>t, <2>4, PrefixProperties
  <2>6. TypeOK'
    BY <1>t, <2>1, <2>2, <2>5 DEF TypeOK, Stages
  <2>7. BudgetsHold'
    BY <1>i, <2>1, <2>2, <2>4, <2>5 DEF BudgetsHold
  <2>8. OmissionsCountable'
    BY <2>1, <2>2, <2>5 DEF OmissionsCountable
  <2>9. NoDiagnosticTwice'
    BY <2>1, <2>3 DEF NoDiagnosticTwice, AllDifferent
  <2> QED  BY <2>6, <2>7, <2>8, <2>9 DEF IInv
<1>9. CASE RetainDiagnostic
  <2> DEFINE size == DiagnosticSize(deduplicated[next])
             keeps == Fits(size)
  <2>1. /\ stage = "retain" /\ next \in DOMAIN deduplicated
        /\ deduplicated' = Kept(deduplicated, keeps)
        /\ next' = Following(keeps)
        /\ used_bytes' = Used(size)
        /\ UNCHANGED <<stage, input, diagnostics, test_failures, ranked, reduction>>
    BY <1>9 DEF RetainDiagnostic
  <2>2. keeps \in BOOLEAN
    BY DEF Fits
  <2>3. size \in Nat
    BY <1>t, <2>1, SizeTypes
  <2>4. used_bytes' \in Nat /\ used_bytes' <= input.max_bytes
    BY <1>t, <2>1, <2>3 DEF Used, Fits, BudgetsHold
  <2> HIDE DEF size, keeps
  <2>5. deduplicated' \in Seq(Diagnostics) /\ Len(deduplicated') <= Len(deduplicated)
    BY <1>t, <2>1, <2>2, KeptProperties
  <2>6. AllDifferent(deduplicated')
    BY <1>t, <1>d, <2>1, <2>2, KeptStaysDifferent
  <2>7. next' \in Nat \ {0}
    BY <1>t, <2>1 DEF Following
  <2>8. TypeOK'
    BY <1>t, <2>1, <2>4, <2>5, <2>7 DEF TypeOK
  <2>9. NoDiagnosticTwice'
    BY <2>6 DEF NoDiagnosticTwice, AllDifferent
  <2>10. BudgetsHold' /\ OmissionsCountable'
    <3>1. /\ Len(deduplicated) \in Nat /\ Len(deduplicated') \in Nat
          /\ Len(test_failures) \in Nat /\ ranked.diagnostics \in Nat
      BY <1>t, <2>5
    <3> QED  BY <1>i, <2>1, <2>4, <2>5, <3>1 DEF BudgetsHold, OmissionsCountable
  <2> QED  BY <2>8, <2>9, <2>10 DEF IInv
<1>10. CASE RetainFailure
  <2> DEFINE size == FailureSize(test_failures[next])
             keeps == Fits(size)
  <2>1. /\ stage = "retain_failures" /\ next \in DOMAIN test_failures
        /\ test_failures' = Kept(test_failures, keeps)
        /\ next' = Following(keeps)
        /\ used_bytes' = Used(size)
        /\ UNCHANGED <<stage, input, diagnostics, deduplicated, ranked, reduction>>
    BY <1>10 DEF RetainFailure
  <2>2. keeps \in BOOLEAN
    BY DEF Fits
  <2>3. size \in Nat
    BY <1>t, <2>1, SizeTypes
  <2>4. used_bytes' \in Nat /\ used_bytes' <= input.max_bytes
    BY <1>t, <2>1, <2>3 DEF Used, Fits, BudgetsHold
  <2> HIDE DEF size, keeps
  <2>5. test_failures' \in Seq(Failures) /\ Len(test_failures') <= Len(test_failures)
    BY <1>t, <2>1, <2>2, KeptProperties
  <2>6. next' \in Nat \ {0}
    BY <1>t, <2>1 DEF Following
  <2>7. TypeOK'
    BY <1>t, <2>1, <2>4, <2>5, <2>6 DEF TypeOK
  <2>8. BudgetsHold' /\ OmissionsCountable'
    <3>1. /\ Len(test_failures) \in Nat /\ Len(test_failures') \in Nat
          /\ Len(deduplicated) \in Nat /\ ranked.failures \in Nat
      BY <1>t, <2>5
    <3> QED  BY <1>i, <2>1, <2>4, <2>5, <3>1 DEF BudgetsHold, OmissionsCountable
  <2> QED  BY <2>1, <2>7, <2>8 DEF IInv, NoDiagnosticTwice
<1>11. CASE Return
  <2>1. /\ stage = "retain_failures" /\ stage' = "done"
        /\ reduction' =
             [omitted_diagnostics |-> ranked.diagnostics - Len(deduplicated),
              omitted_test_failures |-> ranked.failures - Len(test_failures),
              truncated |-> IsTruncated(ranked.diagnostics - Len(deduplicated),
                                        ranked.failures - Len(test_failures))]
        /\ UNCHANGED <<input, diagnostics, test_failures, deduplicated, ranked, next,
                       used_bytes>>
    BY <1>11 DEF Return
  <2>2. /\ ranked.diagnostics - Len(deduplicated) \in Nat
        /\ ranked.failures - Len(test_failures) \in Nat
    BY <1>t, <2>1 DEF OmissionsCountable
  <2>3. \A m, n : IsTruncated(m, n) \in BOOLEAN
    BY DEF IsTruncated
  <2>4. TypeOK'
    BY <1>t, <2>1, <2>2, <2>3 DEF TypeOK, Stages
  <2> QED
    BY <2>1, <2>4 DEF IInv, OmissionsCountable, BudgetsHold, NoDiagnosticTwice
<1>12. CASE UNCHANGED vars
  BY <1>12
  DEF vars, IInv, TypeOK, OmissionsCountable, BudgetsHold, NoDiagnosticTwice
<1> QED
  BY <1>1, <1>2, <1>3, <1>4, <1>5, <1>6, <1>7, <1>8, <1>9, <1>10, <1>11, <1>12
  DEF Next, Done

(* The inductive invariant, whatever the findings, the policy and the      *)
(* budgets.                                                                *)
THEOREM Invariant == Spec => []IInv
  BY InvariantInit, InvariantStep, PTL DEF Spec

(* Every variable keeps its type; in particular the counts of omitted      *)
(* findings never go below zero (finalize_findings).                       *)
THEOREM TypeCorrect == Spec => []TypeOK
PROOF
<1>1. IInv => TypeOK
  BY DEF IInv
<1> QED  BY <1>1, Invariant, PTL

(* The item and the byte budget bound diagnostics and test failures        *)
(* together (remaining_items, used_bytes, retain_serialized).              *)
THEOREM BudgetsAlwaysHold == Spec => []BudgetsHold
PROOF
<1>1. IInv => BudgetsHold
  BY DEF IInv
<1> QED  BY <1>1, Invariant, PTL

(* No diagnostic is returned twice, at whatever stage two became equal     *)
(* (the deduplication loop, sort_by_key, truncate, retain).                *)
THEOREM NoDiagnosticReturnedTwice == Spec => []NoDiagnosticTwice
PROOF
<1>1. IInv => NoDiagnosticTwice
  BY DEF IInv
<1> QED  BY <1>1, Invariant, PTL
----------------------------------------------------------------------------
(* Every text went through the policy *)

RedactedTexts == {SanitizedText(t) : t \in Texts}
SanitizedLines == {SanitizedLine(t) : t \in OptionalTexts}
SanitizedPaths == {SanitizedLine(MapPath[t]) : t \in Texts} \cup {0}
SanitizedFrom(p) == p.source \in SanitizedLines /\ p.scope \in SanitizedLines

CleanDiagnostics ==
  {d \in Diagnostics :
     d.message \in RedactedTexts /\ d.path \in SanitizedPaths /\ SanitizedFrom(d.provenance)}
CleanTestFailures ==
  {f \in Failures :
     /\ f.name \in SanitizedLines
     /\ f.message \in RedactedTexts
     /\ f.path \in SanitizedPaths
     /\ SanitizedFrom(f.provenance)}

(* Nothing that was not sanitised is in a vector after the first statement. *)
VectorsSanitized ==
  /\ stage # "sanitize" =>
       diagnostics \in Seq(CleanDiagnostics) /\ test_failures \in Seq(CleanTestFailures)
  /\ deduplicated \in Seq(CleanDiagnostics)

LEMMA SanitizedIsClean ==
  /\ \A d \in Diagnostics : SanitizedDiagnostic(d) \in CleanDiagnostics
  /\ \A f \in Failures : SanitizedFailure(f) \in CleanTestFailures
PROOF
<1>1. \A t \in Texts : SanitizedText(t) \in RedactedTexts
  BY DEF RedactedTexts
<1>2. \A t \in OptionalTexts : SanitizedLine(t) \in SanitizedLines
  BY DEF SanitizedLines
<1>3. \A t \in OptionalTexts : SanitizedPath(t) \in SanitizedPaths
  BY DEF SanitizedPath, SanitizedPaths, OptionalTexts
<1>4. \A p \in Provenances : SanitizedFrom(SanitizedProvenance(p))
  BY <1>2 DEF SanitizedProvenance, SanitizedFrom, Provenances
<1>5. ASSUME NEW d \in Diagnostics
      PROVE  SanitizedDiagnostic(d) \in CleanDiagnostics
  <2>1. /\ SanitizedDiagnostic(d).message = SanitizedText(d.message)
        /\ SanitizedDiagnostic(d).path = SanitizedPath(d.path)
        /\ SanitizedDiagnostic(d).provenance = SanitizedProvenance(d.provenance)
    BY DEF SanitizedDiagnostic, Diagnostics
  <2>2. d.message \in Texts /\ d.path \in OptionalTexts /\ d.provenance \in Provenances
    BY DEF Diagnostics
  <2> QED  BY <1>1, <1>3, <1>4, <2>1, <2>2, SanitizedTypes DEF CleanDiagnostics
<1>6. ASSUME NEW f \in Failures
      PROVE  SanitizedFailure(f) \in CleanTestFailures
  <2>1. /\ SanitizedFailure(f).name = SanitizedLine(f.name)
        /\ SanitizedFailure(f).message = SanitizedText(f.message)
        /\ SanitizedFailure(f).path = SanitizedPath(f.path)
        /\ SanitizedFailure(f).provenance = SanitizedProvenance(f.provenance)
    BY DEF SanitizedFailure, Failures
  <2>2. /\ f.name \in OptionalTexts /\ f.message \in Texts
        /\ f.path \in OptionalTexts /\ f.provenance \in Provenances
    BY DEF Failures, OptionalTexts
  <2> QED
    BY <1>1, <1>2, <1>3, <1>4, <2>1, <2>2, SanitizedTypes DEF CleanTestFailures
<1> QED  BY <1>5, <1>6

(* A repetition lends its count and its quality, no text. *)
LEMMA MergedStaysClean ==
  ASSUME NEW d \in CleanDiagnostics, NEW e \in CleanDiagnostics
  PROVE  Merged(d, e) \in CleanDiagnostics
PROOF
<1>1. d \in Diagnostics /\ e \in Diagnostics
  BY DEF CleanDiagnostics
<1>2. Merged(d, e) \in Diagnostics /\ DiagnosticKey(Merged(d, e)) = DiagnosticKey(d)
  BY <1>1, MergedProperties
<1>3. /\ Merged(d, e).message = d.message
      /\ Merged(d, e).path = d.path
      /\ Merged(d, e).provenance = d.provenance
  BY <1>2 DEF DiagnosticKey
<1> QED  BY <1>2, <1>3 DEF CleanDiagnostics

LEMMA DeduplicationStaysClean ==
  ASSUME NEW s \in Seq(CleanDiagnostics), NEW d \in CleanDiagnostics, NEW same, NEW result,
         result = IF same = {} THEN Append(s, d)
                  ELSE [i \in DOMAIN s |-> IF i \in same THEN Merged(s[i], d) ELSE s[i]]
  PROVE  result \in Seq(CleanDiagnostics)
PROOF
<1>1. CASE same = {}
  BY <1>1
<1>2. CASE same # {}
  <2>1. result = [i \in DOMAIN s |-> result[i]]
    BY <1>2
  <2>2. \A i \in DOMAIN s : result[i] \in CleanDiagnostics
    BY <1>2, MergedStaysClean
  <2> QED  BY <2>1, <2>2, FunctionIsSequence
<1> QED  BY <1>1, <1>2

LEMMA SanitizedInit == Init => VectorsSanitized
  BY DEF Init, VectorsSanitized

LEMMA SanitizedStep == IInv /\ VectorsSanitized /\ [Next]_vars => VectorsSanitized'
PROOF
<1> SUFFICES ASSUME IInv, VectorsSanitized, [Next]_vars
             PROVE  VectorsSanitized'
  OBVIOUS
<1>t. /\ diagnostics \in Seq(Diagnostics) /\ test_failures \in Seq(Failures)
      /\ input.max_items \in Nat
  BY DEF IInv, TypeOK, InputType
<1>d. deduplicated \in Seq(CleanDiagnostics)
  BY DEF VectorsSanitized
<1>v. stage # "sanitize" =>
        diagnostics \in Seq(CleanDiagnostics) /\ test_failures \in Seq(CleanTestFailures)
  BY DEF VectorsSanitized
<1>1. CASE Sanitize
  <2>1. /\ diagnostics' = [i \in DOMAIN diagnostics |-> SanitizedDiagnostic(diagnostics[i])]
        /\ test_failures' =
             [i \in DOMAIN test_failures |-> SanitizedFailure(test_failures[i])]
        /\ deduplicated' = deduplicated
    BY <1>1 DEF Sanitize
  <2>2. diagnostics' \in Seq(CleanDiagnostics)
    <3>1. diagnostics' = [i \in DOMAIN diagnostics |-> diagnostics'[i]]
      BY <2>1
    <3>2. \A i \in DOMAIN diagnostics : diagnostics'[i] \in CleanDiagnostics
      BY <1>t, <2>1, SanitizedIsClean
    <3> QED  BY <1>t, <3>1, <3>2, FunctionIsSequence
  <2>3. test_failures' \in Seq(CleanTestFailures)
    <3>1. test_failures' = [i \in DOMAIN test_failures |-> test_failures'[i]]
      BY <2>1
    <3>2. \A i \in DOMAIN test_failures : test_failures'[i] \in CleanTestFailures
      BY <1>t, <2>1, SanitizedIsClean
    <3> QED  BY <1>t, <3>1, <3>2, FunctionIsSequence
  <2> QED  BY <1>d, <2>1, <2>2, <2>3 DEF VectorsSanitized
<1>2. CASE SuppressNext
  <2> DEFINE keeps == ~Suppressed(diagnostics[next], diagnostics)
  <2>1. /\ stage = "suppress" /\ next \in DOMAIN diagnostics
        /\ diagnostics' = Kept(diagnostics, keeps)
        /\ UNCHANGED <<stage, test_failures, deduplicated>>
    BY <1>2 DEF SuppressNext
  <2>2. keeps \in BOOLEAN
    OBVIOUS
  <2> HIDE DEF keeps
  <2>3. diagnostics' \in Seq(CleanDiagnostics)
    BY <1>v, <2>1, <2>2, KeptProperties
  <2> QED  BY <1>d, <1>v, <2>1, <2>3 DEF VectorsSanitized
<1>3. ASSUME \/ LoopEnds("suppress", diagnostics, "deduplicate")
             \/ LoopEnds("deduplicate_failures", test_failures, "truncate")
             \/ LoopEnds("retain", deduplicated, "retain_failures")
      PROVE  VectorsSanitized'
  <2>1. stage # "sanitize" /\ UNCHANGED <<diagnostics, test_failures, deduplicated>>
    BY <1>3 DEF LoopEnds
  <2> QED  BY <1>d, <1>v, <2>1 DEF VectorsSanitized
<1>4. CASE DeduplicateNext
  <2> DEFINE d == Head(diagnostics)
             same == {i \in DOMAIN deduplicated :
                        DiagnosticKey(deduplicated[i]) = DiagnosticKey(d)}
  <2>1. /\ stage = "deduplicate" /\ diagnostics # <<>>
        /\ diagnostics' = Tail(diagnostics)
        /\ deduplicated' =
             IF same = {} THEN Append(deduplicated, d)
             ELSE [i \in DOMAIN deduplicated |->
                     IF i \in same THEN Merged(deduplicated[i], d) ELSE deduplicated[i]]
        /\ UNCHANGED <<stage, test_failures>>
    BY <1>4 DEF DeduplicateNext
  <2>2. d \in CleanDiagnostics /\ diagnostics' \in Seq(CleanDiagnostics)
    BY <1>v, <2>1, HeadTailProperties
  <2> HIDE DEF d, same
  <2>3. deduplicated' \in Seq(CleanDiagnostics)
    BY <1>d, <2>1, <2>2, DeduplicationStaysClean
  <2> QED  BY <1>v, <2>1, <2>2, <2>3 DEF VectorsSanitized
<1>5. CASE RankDiagnostics
  <2>1. PICK p \in StableOrders(RankKeys) :
          deduplicated' = Reordered(deduplicated, p)
    BY <1>5 DEF RankDiagnostics
  <2>2. p \in [DOMAIN deduplicated -> DOMAIN deduplicated]
    BY DEF StableOrders, RankKeys
  <2>3. stage = "deduplicate" /\ UNCHANGED <<diagnostics, test_failures>>
    BY <1>5 DEF RankDiagnostics
  <2>4. deduplicated' \in Seq(CleanDiagnostics)
    BY <1>d, <2>1, <2>2, ReorderedType
  <2> QED  BY <1>v, <2>3, <2>4 DEF VectorsSanitized
<1>6. CASE SortFailures
  <2>1. PICK p \in StableOrders(FailureKeys) :
          test_failures' = Reordered(test_failures, p)
    BY <1>6 DEF SortFailures
  <2>2. p \in [DOMAIN test_failures -> DOMAIN test_failures]
    BY DEF StableOrders, FailureKeys
  <2>3. stage = "sort" /\ UNCHANGED <<diagnostics, deduplicated>>
    BY <1>6 DEF SortFailures
  <2>4. test_failures' \in Seq(CleanTestFailures)
    BY <1>v, <2>1, <2>2, <2>3, ReorderedType
  <2> QED  BY <1>d, <1>v, <2>3, <2>4 DEF VectorsSanitized
<1>7. CASE DeduplicateNextFailure
  <2> DEFINE keeps == next = 1 \/ test_failures[next] # test_failures[next - 1]
  <2>1. /\ stage = "deduplicate_failures" /\ next \in DOMAIN test_failures
        /\ test_failures' = Kept(test_failures, keeps)
        /\ UNCHANGED <<stage, diagnostics, deduplicated>>
    BY <1>7 DEF DeduplicateNextFailure
  <2>2. keeps \in BOOLEAN
    OBVIOUS
  <2> HIDE DEF keeps
  <2>3. test_failures' \in Seq(CleanTestFailures)
    BY <1>v, <2>1, <2>2, KeptProperties
  <2> QED  BY <1>d, <1>v, <2>1, <2>3 DEF VectorsSanitized
<1>8. CASE TruncateItems
  <2> DEFINE kept == Prefix(deduplicated, input.max_items)
             room == Remaining(kept)
  <2>1. /\ stage = "truncate"
        /\ deduplicated' = kept
        /\ test_failures' = Prefix(test_failures, room)
        /\ diagnostics' = diagnostics
    BY <1>8 DEF TruncateItems
  <2>2. kept \in Seq(CleanDiagnostics) /\ Len(kept) <= input.max_items
    BY <1>t, <1>d, PrefixProperties
  <2> HIDE DEF kept
  <2>3. room \in Nat
    BY <1>t, <2>2 DEF Remaining
  <2> HIDE DEF room
  <2>4. test_failures' \in Seq(CleanTestFailures)
    BY <1>v, <2>1, <2>3, PrefixProperties
  <2> QED  BY <1>v, <2>1, <2>2, <2>4 DEF VectorsSanitized
<1>9. CASE RetainDiagnostic
  <2> DEFINE keeps == Fits(DiagnosticSize(deduplicated[next]))
  <2>1. /\ stage = "retain" /\ next \in DOMAIN deduplicated
        /\ deduplicated' = Kept(deduplicated, keeps)
        /\ UNCHANGED <<stage, diagnostics, test_failures>>
    BY <1>9 DEF RetainDiagnostic
  <2>2. keeps \in BOOLEAN
    BY DEF Fits
  <2> HIDE DEF keeps
  <2>3. deduplicated' \in Seq(CleanDiagnostics)
    BY <1>d, <2>1, <2>2, KeptProperties
  <2> QED  BY <1>v, <2>1, <2>3 DEF VectorsSanitized
<1>10. CASE RetainFailure
  <2> DEFINE keeps == Fits(FailureSize(test_failures[next]))
  <2>1. /\ stage = "retain_failures" /\ next \in DOMAIN test_failures
        /\ test_failures' = Kept(test_failures, keeps)
        /\ UNCHANGED <<stage, diagnostics, deduplicated>>
    BY <1>10 DEF RetainFailure
  <2>2. keeps \in BOOLEAN
    BY DEF Fits
  <2> HIDE DEF keeps
  <2>3. test_failures' \in Seq(CleanTestFailures)
    BY <1>v, <2>1, <2>2, KeptProperties
  <2> QED  BY <1>d, <1>v, <2>1, <2>3 DEF VectorsSanitized
<1>11. CASE Return
  <2>1. stage # "sanitize" /\ UNCHANGED <<diagnostics, test_failures, deduplicated>>
    BY <1>11 DEF Return
  <2> QED  BY <1>d, <1>v, <2>1 DEF VectorsSanitized
<1>12. CASE UNCHANGED vars
  BY <1>d, <1>v, <1>12 DEF vars, VectorsSanitized
<1> QED
  BY <1>1, <1>2, <1>3, <1>4, <1>5, <1>6, <1>7, <1>8, <1>9, <1>10, <1>11, <1>12
  DEF Next, Done

(* No text is returned that did not go through the policy, and no path     *)
(* that was not mapped before it was redacted, whatever the redactor, the  *)
(* path mapper and the findings (finalize_findings, sanitize_diagnostic).  *)
THEOREM OutputAlwaysSanitized == Spec => []OutputSanitized
PROOF
<1>1. VectorsSanitized => OutputSanitized
  <2> SUFFICES ASSUME VectorsSanitized, stage = "done"
               PROVE  /\ Range(deduplicated) \subseteq CleanDiagnostics
                      /\ Range(test_failures) \subseteq CleanTestFailures
    BY DEF OutputSanitized, CleanDiagnostics, CleanTestFailures, SanitizedFrom,
           RedactedTexts, SanitizedLines, SanitizedPaths
  <2>1. /\ deduplicated \in Seq(CleanDiagnostics)
        /\ test_failures \in Seq(CleanTestFailures)
    BY DEF VectorsSanitized
  <2> QED  BY <2>1 DEF Range
<1> QED  BY <1>1, SanitizedInit, SanitizedStep, Invariant, PTL DEF Spec

----------------------------------------------------------------------------
(* The byte budget is charged for exactly what stays *)

(* The first n of some sizes. *)
SumTo(sizes, n) == SumFunctionOnSet(sizes, 1..n)

(* What a retain loop has looked at stays, and is what it has charged. *)
BytesCharged ==
  /\ stage \notin {"suppress", "deduplicate_failures", "retain", "retain_failures", "done"}
       => next = 1
  /\ stage \notin {"retain", "retain_failures", "done"} => used_bytes = 0
  /\ stage = "retain" =>
       /\ next <= Len(deduplicated) + 1
       /\ used_bytes = SumTo(DiagnosticSizes(deduplicated), next - 1)
  /\ stage = "retain_failures" =>
       /\ next <= Len(test_failures) + 1
       /\ used_bytes = SumTo(DiagnosticSizes(deduplicated), Len(deduplicated))
                         + SumTo(FailureSizes(test_failures), next - 1)
  /\ stage = "done" =>
       used_bytes = SumTo(DiagnosticSizes(deduplicated), Len(deduplicated))
                      + SumTo(FailureSizes(test_failures), Len(test_failures))

(* Sizes of the elements of two vectors, by the same measure. *)
Measured(s, sizes, left, sizes2) ==
  /\ \A i \in DOMAIN s : sizes[i] \in Nat
  /\ \A i \in DOMAIN left : sizes2[i] \in Nat
  /\ \A i \in DOMAIN s, j \in DOMAIN left : s[i] = left[j] => sizes[i] = sizes2[j]

(* One turn of a loop. *)
LEMMA ChargeStep ==
  ASSUME NEW S, NEW s \in Seq(S), NEW keeps \in BOOLEAN, next \in DOMAIN s,
         NEW left, left = Kept(s, keeps), NEW sizes, NEW sizes2,
         Measured(s, sizes, left, sizes2)
  PROVE  /\ Following(keeps) <= Len(left) + 1
         /\ SumTo(sizes2, Following(keeps) - 1)
              = SumTo(sizes, next - 1) + (IF keeps THEN sizes[next] ELSE 0)
PROOF
<1> DEFINE I == 1..(next - 1)
<1>1. /\ next \in 1..Len(s) /\ Len(s) \in Nat /\ DOMAIN s = 1..Len(s)
      /\ I \in SUBSET (DOMAIN s) /\ next \notin I
      /\ 1..((next + 1) - 1) = I \cup {next}
  OBVIOUS
<1>2. IsFiniteSet(I)
  BY <1>1, FS_Interval
<1>m. /\ \A i \in DOMAIN s : sizes[i] \in Nat
      /\ \A i \in DOMAIN left : sizes2[i] \in Nat
      /\ \A i \in DOMAIN s, j \in DOMAIN left : s[i] = left[j] => sizes[i] = sizes2[j]
  BY DEF Measured
<1>n. /\ SumTo(sizes2, (next + 1) - 1) = SumFunctionOnSet(sizes2, I \cup {next})
      /\ SumTo(sizes2, next - 1) = SumFunctionOnSet(sizes2, I)
      /\ SumTo(sizes, next - 1) = SumFunctionOnSet(sizes, I)
  BY <1>1 DEF SumTo
<1> HIDE DEF I
<1>3. CASE keeps
  <2>1. left = s /\ Following(keeps) = next + 1
    BY <1>3 DEF Kept, Following
  <2>2. \A i \in I \cup {next} : sizes[i] \in Nat /\ sizes[i] = sizes2[i]
    BY <1>1, <1>m, <2>1
  <2>3. SumFunctionOnSet(sizes, I \cup {next}) = SumFunctionOnSet(sizes, I) + sizes[next]
    BY <1>1, <1>2, <2>2, SumAdd
  <2>4. SumFunctionOnSet(sizes, I \cup {next}) = SumFunctionOnSet(sizes2, I \cup {next})
    <3>1. IsFiniteSet(I \cup {next})
      BY <1>2, FS_AddElement
    <3> QED  BY <2>2, <3>1, SumSame
  <2>5. next + 1 <= Len(left) + 1
    BY <1>1, <2>1
  <2>6. SumTo(sizes2, (next + 1) - 1) = SumTo(sizes, next - 1) + sizes[next]
    BY <1>n, <2>3, <2>4
  <2> QED  BY <1>3, <2>1, <2>5, <2>6
<1>4. CASE ~keeps
  <2>1. left = RemoveAt(s, next) /\ Following(keeps) = next
    BY <1>4 DEF Kept, Following
  <2>2. /\ left \in Seq(S) /\ Len(left) = Len(s) - 1
        /\ \A i \in DOMAIN left : left[i] = s[IF i < next THEN i ELSE i + 1]
    BY <2>1, RemoveAtProperties
  <2>3. \A i \in I : i \in DOMAIN left /\ i \in DOMAIN s /\ left[i] = s[i]
    <3>1. DOMAIN left = 1..(Len(s) - 1)
      BY <2>2
    <3>2. ASSUME NEW i \in I
          PROVE  i \in DOMAIN left /\ i \in DOMAIN s /\ i < next
      BY <1>1, <3>1 DEF I
    <3> QED  BY <2>2, <3>2
  <2>4. \A i \in I : sizes[i] \in Nat /\ sizes[i] = sizes2[i]
    BY <1>m, <2>3
  <2>5. SumFunctionOnSet(sizes, I) = SumFunctionOnSet(sizes2, I)
    BY <1>2, <2>4, SumSame
  <2>6. SumFunctionOnSet(sizes, I) \in Nat
    BY <1>2, <2>4, SumNat
  <2> QED  BY <1>1, <1>4, <1>n, <2>1, <2>2, <2>5, <2>6
<1> QED  BY <1>3, <1>4

LEMMA SizesOf ==
  /\ \A s \in Seq(Diagnostics) :
       /\ DOMAIN DiagnosticSizes(s) = DOMAIN s
       /\ \A i \in DOMAIN s : DiagnosticSizes(s)[i] = DiagnosticSize(s[i])
                                /\ DiagnosticSizes(s)[i] \in Nat
       /\ SumFunction(DiagnosticSizes(s)) = SumTo(DiagnosticSizes(s), Len(s))
  /\ \A s \in Seq(Failures) :
       /\ DOMAIN FailureSizes(s) = DOMAIN s
       /\ \A i \in DOMAIN s : FailureSizes(s)[i] = FailureSize(s[i])
                                /\ FailureSizes(s)[i] \in Nat
       /\ SumFunction(FailureSizes(s)) = SumTo(FailureSizes(s), Len(s))
PROOF
<1>1. ASSUME NEW s \in Seq(Diagnostics)
      PROVE  /\ DOMAIN DiagnosticSizes(s) = DOMAIN s
             /\ \A i \in DOMAIN s : DiagnosticSizes(s)[i] = DiagnosticSize(s[i])
                                      /\ DiagnosticSizes(s)[i] \in Nat
             /\ SumFunction(DiagnosticSizes(s)) = SumTo(DiagnosticSizes(s), Len(s))
  <2>1. DOMAIN DiagnosticSizes(s) = DOMAIN s /\ DOMAIN s = 1..Len(s)
    BY DEF DiagnosticSizes
  <2>2. \A i \in DOMAIN s : s[i] \in Diagnostics
    OBVIOUS
  <2>3. \A i \in DOMAIN s : DiagnosticSizes(s)[i] = DiagnosticSize(s[i])
                              /\ DiagnosticSizes(s)[i] \in Nat
    BY <2>2, SizeTypes DEF DiagnosticSizes
  <2> QED  BY <2>1, <2>3 DEF SumFunction, SumTo
<1>2. ASSUME NEW s \in Seq(Failures)
      PROVE  /\ DOMAIN FailureSizes(s) = DOMAIN s
             /\ \A i \in DOMAIN s : FailureSizes(s)[i] = FailureSize(s[i])
                                      /\ FailureSizes(s)[i] \in Nat
             /\ SumFunction(FailureSizes(s)) = SumTo(FailureSizes(s), Len(s))
  <2>1. DOMAIN FailureSizes(s) = DOMAIN s /\ DOMAIN s = 1..Len(s)
    BY DEF FailureSizes
  <2>2. \A i \in DOMAIN s : s[i] \in Failures
    OBVIOUS
  <2>3. \A i \in DOMAIN s : FailureSizes(s)[i] = FailureSize(s[i])
                              /\ FailureSizes(s)[i] \in Nat
    BY <2>2, SizeTypes DEF FailureSizes
  <2> QED  BY <2>1, <2>3 DEF SumFunction, SumTo
<1> QED  BY <1>1, <1>2

LEMMA SumToZero == \A sizes : SumTo(sizes, 0) = 0
PROOF
<1>1. 1..0 = {}
  OBVIOUS
<1> QED  BY <1>1, SumEmpty DEF SumTo

LEMMA ChargedInit == Init => BytesCharged
  BY DEF Init, BytesCharged

LEMMA ChargedStep == IInv /\ BytesCharged /\ [Next]_vars => BytesCharged'
PROOF
<1> SUFFICES ASSUME IInv, BytesCharged, [Next]_vars
             PROVE  BytesCharged'
  OBVIOUS
<1>t. /\ deduplicated \in Seq(Diagnostics) /\ test_failures \in Seq(Failures)
      /\ next \in Nat \ {0} /\ used_bytes \in Nat
  BY DEF IInv, TypeOK
<1>1. CASE \/ Sanitize \/ SuppressNext \/ DeduplicateNext \/ RankDiagnostics
           \/ SortFailures \/ DeduplicateNextFailure
           \/ LoopEnds("suppress", diagnostics, "deduplicate")
           \/ LoopEnds("deduplicate_failures", test_failures, "truncate")
  <2>1. /\ stage \notin {"retain", "retain_failures", "done"}
        /\ stage' \notin {"retain", "retain_failures", "done"}
        /\ UNCHANGED used_bytes
    BY <1>1
    DEF Sanitize, SuppressNext, DeduplicateNext, RankDiagnostics, SortFailures,
        DeduplicateNextFailure, LoopEnds
  <2>2. stage' \notin {"suppress", "deduplicate_failures"} => next' = 1
    BY <1>1
    DEF Sanitize, SuppressNext, DeduplicateNext, RankDiagnostics, SortFailures,
        DeduplicateNextFailure, LoopEnds, BytesCharged
  <2> QED  BY <2>1, <2>2 DEF BytesCharged
<1>2. CASE TruncateItems
  <2>1. /\ stage = "truncate" /\ stage' = "retain" /\ UNCHANGED <<next, used_bytes>>
    BY <1>2 DEF TruncateItems
  <2>2. next = 1 /\ used_bytes = 0
    BY <2>1 DEF BytesCharged
  <2>3. deduplicated' \in Seq(Diagnostics)
    BY <1>2, InvariantStep DEF IInv, TypeOK, Next
  <2>4. next' - 1 = 0 /\ next' <= Len(deduplicated') + 1
    BY <2>1, <2>2, <2>3
  <2> QED  BY <2>1, <2>2, <2>4, SumToZero DEF BytesCharged
<1>3. CASE RetainDiagnostic
  <2> DEFINE size == DiagnosticSize(deduplicated[next])
             keeps == Fits(size)
  <2>1. /\ stage = "retain" /\ stage' = "retain" /\ next \in DOMAIN deduplicated
        /\ deduplicated' = Kept(deduplicated, keeps)
        /\ next' = Following(keeps)
        /\ used_bytes' = Used(size)
    BY <1>3 DEF RetainDiagnostic
  <2>2. keeps \in BOOLEAN
    BY DEF Fits
  <2>3. deduplicated' \in Seq(Diagnostics)
    BY <1>t, <2>1, <2>2, KeptProperties
  <2>4. used_bytes' = used_bytes + (IF keeps THEN size ELSE 0)
    BY <1>t, <2>1, SizeTypes DEF Used
  <2>5. size = DiagnosticSizes(deduplicated)[next]
    BY <1>t, <2>1, SizesOf
  <2>6. Measured(deduplicated, DiagnosticSizes(deduplicated), deduplicated', DiagnosticSizes(deduplicated'))
    BY <1>t, <2>3, SizesOf DEF Measured
  <2> HIDE DEF size, keeps
  <2>7. /\ next' <= Len(deduplicated') + 1
        /\ SumTo(DiagnosticSizes(deduplicated'), next' - 1)
             = SumTo(DiagnosticSizes(deduplicated), next - 1) + (IF keeps THEN size ELSE 0)
    BY <1>t, <2>1, <2>2, <2>5, <2>6, ChargeStep
  <2> QED  BY <2>1, <2>4, <2>7 DEF BytesCharged
<1>4. CASE LoopEnds("retain", deduplicated, "retain_failures")
  <2>1. /\ stage = "retain" /\ stage' = "retain_failures" /\ next \notin DOMAIN deduplicated
        /\ next' = 1 /\ UNCHANGED <<deduplicated, test_failures, used_bytes>>
    BY <1>4 DEF LoopEnds
  <2>2. /\ next <= Len(deduplicated) + 1
        /\ used_bytes = SumTo(DiagnosticSizes(deduplicated), next - 1)
    BY <2>1 DEF BytesCharged
  <2>3. next - 1 = Len(deduplicated) /\ Len(test_failures) \in Nat
    BY <1>t, <2>1, <2>2
  <2>4. used_bytes = SumTo(DiagnosticSizes(deduplicated), Len(deduplicated))
    BY <2>2, <2>3
  <2>5. next' - 1 = 0 /\ 1 <= Len(test_failures) + 1 /\ used_bytes = used_bytes + 0
    BY <1>t, <2>1, <2>3
  <2> QED  BY <2>1, <2>4, <2>5, SumToZero DEF BytesCharged
<1>5. CASE RetainFailure
  <2> DEFINE size == FailureSize(test_failures[next])
             keeps == Fits(size)
             before == SumTo(DiagnosticSizes(deduplicated), Len(deduplicated))
  <2>1. /\ stage = "retain_failures" /\ stage' = stage /\ next \in DOMAIN test_failures
        /\ test_failures' = Kept(test_failures, keeps)
        /\ next' = Following(keeps)
        /\ used_bytes' = Used(size)
        /\ UNCHANGED deduplicated
    BY <1>5 DEF RetainFailure
  <2>2. keeps \in BOOLEAN
    BY DEF Fits
  <2>3. test_failures' \in Seq(Failures)
    BY <1>t, <2>1, <2>2, KeptProperties
  <2>4. used_bytes' = used_bytes + (IF keeps THEN size ELSE 0)
    BY <1>t, <2>1, SizeTypes DEF Used
  <2>5. size = FailureSizes(test_failures)[next] /\ size \in Nat
    BY <1>t, <2>1, SizesOf
  <2>6. Measured(test_failures, FailureSizes(test_failures), test_failures', FailureSizes(test_failures'))
    BY <1>t, <2>3, SizesOf DEF Measured
  <2> HIDE DEF size, keeps
  <2>7. /\ next' <= Len(test_failures') + 1
        /\ SumTo(FailureSizes(test_failures'), next' - 1)
             = SumTo(FailureSizes(test_failures), next - 1) + (IF keeps THEN size ELSE 0)
    BY <1>t, <2>1, <2>2, <2>5, <2>6, ChargeStep
  <2>8. used_bytes = before + SumTo(FailureSizes(test_failures), next - 1)
    BY <2>1 DEF BytesCharged
  <2>9. before \in Nat /\ SumTo(FailureSizes(test_failures), next - 1) \in Nat
    <3>1. \A i \in 1..Len(deduplicated) : DiagnosticSizes(deduplicated)[i] \in Nat
      BY <1>t, SizesOf
    <3>2. \A i \in 1..(next - 1) : FailureSizes(test_failures)[i] \in Nat
      BY <1>t, <2>1, SizesOf
    <3>3. IsFiniteSet(1..Len(deduplicated)) /\ IsFiniteSet(1..(next - 1))
      BY <1>t, FS_Interval
    <3> QED  BY <3>1, <3>2, <3>3, SumNat DEF SumTo
  <2>10. used_bytes' = before + SumTo(FailureSizes(test_failures'), next' - 1)
    <3> HIDE DEF before
    <3> QED  BY <2>2, <2>4, <2>5, <2>7, <2>8, <2>9
  <2> QED  BY <2>1, <2>7, <2>10 DEF BytesCharged
<1>6. CASE Return
  <2>1. /\ stage = "retain_failures" /\ stage' = "done" /\ next \notin DOMAIN test_failures
        /\ UNCHANGED <<deduplicated, test_failures, used_bytes, next>>
    BY <1>6 DEF Return
  <2>2. next <= Len(test_failures) + 1
    BY <2>1 DEF BytesCharged
  <2>3. next - 1 = Len(test_failures)
    BY <1>t, <2>1, <2>2
  <2> QED  BY <2>1, <2>3 DEF BytesCharged
<1>7. CASE UNCHANGED vars
  BY <1>7 DEF vars, BytesCharged
<1> QED  BY <1>1, <1>2, <1>3, <1>4, <1>5, <1>6, <1>7 DEF Next, Done

(* What is charged against the byte budget is the size of exactly what is  *)
(* returned, whatever was left out in between (retain_serialized).         *)
THEOREM UsedBytesAlwaysExact == Spec => []UsedBytesExact
PROOF
<1>1. IInv /\ BytesCharged => UsedBytesExact
  <2> SUFFICES ASSUME IInv, BytesCharged
               PROVE  UsedBytesExact
    OBVIOUS
  <2>1. deduplicated \in Seq(Diagnostics) /\ test_failures \in Seq(Failures)
    BY DEF IInv, TypeOK
  <2>2. /\ SumFunction(DiagnosticSizes(deduplicated))
             = SumTo(DiagnosticSizes(deduplicated), Len(deduplicated))
        /\ SumFunction(FailureSizes(test_failures))
             = SumTo(FailureSizes(test_failures), Len(test_failures))
    BY <2>1, SizesOf
  <2> QED  BY <2>2 DEF BytesCharged, UsedBytesExact
<1> QED  BY <1>1, ChargedInit, ChargedStep, Invariant, PTL DEF Spec

----------------------------------------------------------------------------
(* The reference of FinalizeProperties.tla *)

(* The positions of the findings finalize_findings is called with.        *)
Given == DOMAIN input.diagnostics

LEMMA CleanType ==
  ASSUME TypeOK, NEW i \in Given
  PROVE  Clean(i) \in Diagnostics
PROOF
<1>1. input.diagnostics[i] \in Diagnostics
  BY DEF TypeOK, InputType, Given
<1> QED  BY <1>1, SanitizedTypes DEF Clean

(* A span and the lines it stands for.                                     *)
LEMMA SpansShareLines ==
  ASSUME NEW p \in Provenances, NEW q \in Provenances, SpanOrdered(p), SpanOrdered(q)
  PROVE  (HasSpan(p) /\ HasSpan(q) /\ SpansOverlap(p, q))
           <=> LinesOf(p) \cap LinesOf(q) # {}
PROOF
<1>1. /\ p.start \in Nat /\ p.end \in Nat /\ q.start \in Nat /\ q.end \in Nat
  BY DEF Provenances
<1>2. /\ SpanEnd(p) \in Nat /\ SpanEnd(p) = (IF p.end = 0 THEN p.start ELSE p.end)
      /\ SpanEnd(q) \in Nat /\ SpanEnd(q) = (IF q.end = 0 THEN q.start ELSE q.end)
      /\ p.start <= SpanEnd(p) /\ q.start <= SpanEnd(q)
  BY <1>1 DEF SpanEnd, SpanOrdered
<1>3. ASSUME NEW r \in {p, q}
      PROVE  LinesOf(r) = IF HasSpan(r) THEN {<<r.scope, r.stream, n>> : n \in r.start..SpanEnd(r)}
                          ELSE {}
  BY DEF LinesOf, HasSpan, SpanEnd
<1>4. ASSUME HasSpan(p), HasSpan(q), SpansOverlap(p, q)
      PROVE  LinesOf(p) \cap LinesOf(q) # {}
  <2>1. p.scope = q.scope /\ p.stream = q.stream /\ p.start <= SpanEnd(q) /\ q.start <= SpanEnd(p)
    BY <1>4 DEF SpansOverlap
  <2> DEFINE n == IF p.start <= q.start THEN q.start ELSE p.start
  <2>2. n \in p.start..SpanEnd(p) /\ n \in q.start..SpanEnd(q)
    BY <1>1, <1>2, <2>1
  <2> HIDE DEF n
  <2>3. <<p.scope, p.stream, n>> \in LinesOf(p)
    BY <1>3, <1>4, <2>2
  <2>4. <<q.scope, q.stream, n>> \in LinesOf(q)
    BY <1>3, <1>4, <2>2
  <2> QED  BY <2>1, <2>3, <2>4
<1>5. ASSUME LinesOf(p) \cap LinesOf(q) # {}
      PROVE  HasSpan(p) /\ HasSpan(q) /\ SpansOverlap(p, q)
  <2>1. PICK l : l \in LinesOf(p) /\ l \in LinesOf(q)
    BY <1>5
  <2>2. HasSpan(p) /\ HasSpan(q)
    BY <1>3, <2>1
  <2>3. PICK m \in p.start..SpanEnd(p) : l = <<p.scope, p.stream, m>>
    BY <1>3, <2>1, <2>2
  <2>4. PICK n \in q.start..SpanEnd(q) : l = <<q.scope, q.stream, n>>
    BY <1>3, <2>1, <2>2
  <2>5. p.scope = q.scope /\ p.stream = q.stream /\ m = n
    BY <2>3, <2>4
  <2> QED  BY <1>1, <1>2, <2>2, <2>3, <2>4, <2>5 DEF SpansOverlap
<1> QED  BY <1>4, <1>5

LEMMA CleanSpanOrdered ==
  ASSUME TypeOK, input \in Inputs, NEW i \in Given
  PROVE  SpanOrdered(Clean(i).provenance) /\ Clean(i).provenance \in Provenances
PROOF
<1>1. input.diagnostics[i] \in Diagnostics
      /\ SpanOrdered(input.diagnostics[i].provenance)
  <2>1. i \in DOMAIN input.diagnostics /\ input.diagnostics \in Seq(Diagnostics)
    BY DEF TypeOK, InputType, Given
  <2>2. SpanOrdered(input.diagnostics[i].provenance)
    BY <2>1, FinalizeAssumption
  <2> QED  BY <2>1, <2>2
<1> DEFINE p == input.diagnostics[i].provenance
<1>2. Clean(i).provenance = SanitizedProvenance(p)
  BY <1>1 DEF Clean, SanitizedDiagnostic, Diagnostics
<1>3. SanitizedProvenance(p).start = p.start /\ SanitizedProvenance(p).end = p.end
  BY <1>1 DEF SanitizedProvenance, Diagnostics, Provenances
<1>4. Clean(i).provenance \in Provenances
  BY CleanType DEF Diagnostics
<1> QED  BY <1>1, <1>2, <1>3, <1>4 DEF SpanOrdered

(* A fallback that any finding covers does not count.                      *)
LEMMA CoversIsShares ==
  ASSUME TypeOK, input \in Inputs, NEW i \in Given, NEW j \in Given
  PROVE  Covers(Clean(j), Clean(i)) <=>
           /\ Clean(j).quality # FallbackQuality
           /\ LinesOf(Clean(i).provenance) \cap LinesOf(Clean(j).provenance) # {}
BY CleanSpanOrdered, SpansShareLines DEF Covers

----------------------------------------------------------------------------
(* The order of the ranking *)

LEMMA ClassOrderIsRank ==
  ASSUME NEW c \in Classes, NEW e \in Classes
  PROVE  /\ c \in ClassesBefore(e) <=> ClassRank[c] < ClassRank[e]
         /\ ClassRank[c] = ClassRank[e] => c = e
PROOF
<1>1. /\ ClassOrder[1] = "compiler" /\ ClassOrder[2] = "test" /\ ClassOrder[3] = "lint"
      /\ ClassOrder[4] = "infrastructure" /\ ClassOrder[5] = "tool"
  BY DEF ClassOrder
<1>2. /\ ClassRank["compiler"] = 0 /\ ClassRank["test"] = 1 /\ ClassRank["lint"] = 2
      /\ ClassRank["infrastructure"] = 3 /\ ClassRank["tool"] = 4
  BY DEF ClassRank
<1> DEFINE Before(m, x) == \A l \in 1..m : ClassOrder[l] # x
<1>3. ASSUME NEW x \in Classes, NEW m \in 1..5
      PROVE  Before(m, x) <=> m - 1 < ClassRank[x]
  <2>1. m = 1 \/ m = 2 \/ m = 3 \/ m = 4 \/ m = 5
    OBVIOUS
  <2>2. /\ 1..1 = {1} /\ 1..2 = {1, 2} /\ 1..3 = {1, 2, 3} /\ 1..4 = {1, 2, 3, 4}
        /\ 1..5 = {1, 2, 3, 4, 5}
    OBVIOUS
  <2>3. x \in {"compiler", "test", "lint", "tool", "infrastructure"}
    BY DEF Classes
  <2>4. CASE x = "compiler"
    BY <1>1, <1>2, <2>1, <2>2, <2>4
  <2>5. CASE x = "test"
    BY <1>1, <1>2, <2>1, <2>2, <2>5
  <2>6. CASE x = "lint"
    BY <1>1, <1>2, <2>1, <2>2, <2>6
  <2>7. CASE x = "infrastructure"
    BY <1>1, <1>2, <2>1, <2>2, <2>7
  <2>8. CASE x = "tool"
    BY <1>1, <1>2, <2>1, <2>2, <2>8
  <2> QED  BY <2>3, <2>4, <2>5, <2>6, <2>7, <2>8
<1>4. \E k \in 1..5 : ClassOrder[k] = c /\ ClassRank[c] = k - 1
  BY <1>1, <1>2 DEF Classes
<1>5. c \in ClassesBefore(e) <=> \E m \in 1..5 : ClassOrder[m] = c /\ Before(m, e)
  BY DEF ClassesBefore
<1>6. \A m, n \in 1..5 : ClassOrder[m] = ClassOrder[n] => m = n
  <2>1. 1..5 = {1, 2, 3, 4, 5}
    OBVIOUS
  <2> QED  BY <1>1, <2>1
<1>7. ClassRank[e] \in Int
  BY <1>2 DEF Classes
<1> HIDE DEF Before
<1>8. c \in ClassesBefore(e) <=> ClassRank[c] < ClassRank[e]
  BY <1>3, <1>4, <1>5, <1>6, <1>7
<1>9. ClassRank[c] = ClassRank[e] => c = e
  BY <1>2 DEF Classes
<1> QED  BY <1>8, <1>9

LEMMA LexFive ==
  ASSUME NEW a1, NEW a2, NEW a3, NEW a4, NEW a5, NEW b1, NEW b2, NEW b3, NEW b4, NEW b5,
         LexLess(<<a1, a2, a3, a4, a5>>, <<b1, b2, b3, b4, b5>>)
  PROVE  \/ a1 < b1
         \/ a1 = b1 /\ a2 < b2
         \/ a1 = b1 /\ a2 = b2 /\ a3 < b3
         \/ a1 = b1 /\ a2 = b2 /\ a3 = b3 /\ a4 < b4
         \/ a1 = b1 /\ a2 = b2 /\ a3 = b3 /\ a4 = b4 /\ a5 < b5
PROOF
<1> DEFINE a == <<a1, a2, a3, a4, a5>>
           b == <<b1, b2, b3, b4, b5>>
<1>1. /\ a[1] = a1 /\ a[2] = a2 /\ a[3] = a3 /\ a[4] = a4 /\ a[5] = a5
      /\ b[1] = b1 /\ b[2] = b2 /\ b[3] = b3 /\ b[4] = b4 /\ b[5] = b5
      /\ DOMAIN a = 1..5
  OBVIOUS
<1> HIDE DEF a, b
<1>2. PICK i \in 1..5 : a[i] < b[i] /\ \A j \in 1..(i - 1) : a[j] = b[j]
  BY <1>1 DEF LexLess, a, b
<1>3. \A j \in 1..5 : j < i => a[j] = b[j]
  BY <1>2
<1>4. i = 1 \/ i = 2 \/ i = 3 \/ i = 4 \/ i = 5
  OBVIOUS
<1> QED  BY <1>1, <1>2, <1>3, <1>4

(* What RankKey compares of two findings. *)
IsRanked(i, j) ==
  LET d == Finding(i)
      e == Finding(j)
  IN  \/ LexLess(RankKey(d), RankKey(e))
      \/ RankKey(d) = RankKey(e) /\ i < j

LEMMA RankedIsBefore ==
  ASSUME NEW i \in Nat, NEW j \in Nat, Finding(i) \in Diagnostics, Finding(j) \in Diagnostics,
         IsRanked(i, j)
  PROVE  RanksBefore(i, j)
PROOF
<1> DEFINE d == Finding(i)
           e == Finding(j)
           late(x) == IF x.provenance.start = 0 THEN 1 ELSE 0
<1>1. /\ d.class \in Classes /\ e.class \in Classes
      /\ d.severity \in Int /\ e.severity \in Int /\ d.quality \in Int /\ e.quality \in Int
      /\ d.provenance.start \in Nat /\ e.provenance.start \in Nat
  BY DEF Diagnostics, Severities, Qualities, Provenances
<1>2. /\ d.class \in ClassesBefore(e.class) <=> ClassRank[d.class] < ClassRank[e.class]
      /\ ClassRank[d.class] = ClassRank[e.class] => d.class = e.class
  BY <1>1, ClassOrderIsRank
<1>3. /\ RankKey(d) = <<d.severity, ClassRank[d.class], d.quality, late(d), d.provenance.start>>
      /\ RankKey(e) = <<e.severity, ClassRank[e.class], e.quality, late(e), e.provenance.start>>
  BY DEF RankKey
<1>4. LexLess(RankKey(d), RankKey(e)) =>
        \/ d.severity < e.severity
        \/ d.severity = e.severity /\ ClassRank[d.class] < ClassRank[e.class]
        \/ d.severity = e.severity /\ d.class = e.class /\ d.quality < e.quality
        \/ /\ d.severity = e.severity /\ d.class = e.class /\ d.quality = e.quality
           /\ \/ late(d) < late(e)
              \/ late(d) = late(e) /\ d.provenance.start < e.provenance.start
  <2> HIDE DEF d, e, late
  <2> QED  BY <1>2, <1>3, LexFive
<1>5. RankKey(d) = RankKey(e) =>
        /\ d.severity = e.severity /\ d.class = e.class /\ d.quality = e.quality
        /\ d.provenance.start = e.provenance.start
  <2> HIDE DEF d, e, late
  <2> QED  BY <1>2, <1>3
<1>6. (late(d) < late(e) \/ (late(d) = late(e) /\ d.provenance.start < e.provenance.start))
        => EarlierLine(d.provenance, e.provenance)
  <2> HIDE DEF d, e
  <2> QED  BY <1>1 DEF EarlierLine
<1>7. LexLess(RankKey(d), RankKey(e)) \/ (RankKey(d) = RankKey(e) /\ i < j)
  BY DEF IsRanked
<1> HIDE DEF late
<1>8. \/ d.severity < e.severity
      \/ /\ d.severity = e.severity
         /\ \/ d.class \in ClassesBefore(e.class)
            \/ /\ d.class = e.class
               /\ \/ d.quality < e.quality
                  \/ /\ d.quality = e.quality
                     /\ \/ EarlierLine(d.provenance, e.provenance)
                        \/ d.provenance.start = e.provenance.start /\ i < j
  <2> HIDE DEF d, e
  <2> QED  BY <1>2, <1>4, <1>5, <1>6, <1>7
<1> QED  BY <1>8 DEF RanksBefore

LEMMA BeforeIsStrict ==
  ASSUME NEW i \in Nat, NEW j \in Nat, Finding(i) \in Diagnostics, Finding(j) \in Diagnostics,
         RanksBefore(i, j)
  PROVE  ~RanksBefore(j, i)
PROOF
<1> DEFINE d == Finding(i)
           e == Finding(j)
<1>1. /\ d.class \in Classes /\ e.class \in Classes
      /\ d.severity \in Int /\ e.severity \in Int /\ d.quality \in Int /\ e.quality \in Int
      /\ d.provenance.start \in Nat /\ e.provenance.start \in Nat
  BY DEF Diagnostics, Severities, Qualities, Provenances
<1>2. \A c \in Classes : ClassRank[c] \in Int
  BY DEF Classes, ClassRank
<1>3. /\ d.class \in ClassesBefore(e.class) <=> ClassRank[d.class] < ClassRank[e.class]
      /\ e.class \in ClassesBefore(d.class) <=> ClassRank[e.class] < ClassRank[d.class]
  BY <1>1, ClassOrderIsRank
<1>4. EarlierLine(d.provenance, e.provenance) =>
        /\ ~EarlierLine(e.provenance, d.provenance)
        /\ d.provenance.start # e.provenance.start
  <2> HIDE DEF d, e
  <2> QED  BY <1>1 DEF EarlierLine
<1>5. EarlierLine(e.provenance, d.provenance) => d.provenance.start # e.provenance.start
  <2> HIDE DEF d, e
  <2> QED  BY <1>1 DEF EarlierLine
<1> DEFINE Before(x, y, m, n) ==
             \/ x.severity < y.severity
             \/ /\ x.severity = y.severity
                /\ \/ x.class \in ClassesBefore(y.class)
                   \/ /\ x.class = y.class
                      /\ \/ x.quality < y.quality
                         \/ /\ x.quality = y.quality
                            /\ \/ EarlierLine(x.provenance, y.provenance)
                               \/ x.provenance.start = y.provenance.start /\ m < n
<1>6. (RanksBefore(i, j) <=> Before(d, e, i, j)) /\ (RanksBefore(j, i) <=> Before(e, d, j, i))
  BY DEF RanksBefore
<1> HIDE DEF d, e
<1>7. Before(d, e, i, j) => ~Before(e, d, j, i)
  BY <1>1, <1>2, <1>3, <1>4, <1>5
<1> QED  BY <1>6, <1>7

----------------------------------------------------------------------------
(* The finding of a position *)

(* The position's finding with the repetitions at the positions of S.      *)
BestOf(quality, S) ==
  /\ \E j \in S : Clean(j).quality = quality
  /\ \A j \in S : quality <= Clean(j).quality
Clamped(total) == IF total <= MaxCount THEN total ELSE MaxCount
IsFindingOf(d, i, S) ==
  /\ d \in Diagnostics
  /\ DiagnosticKey(d) = DiagnosticKey(Clean(i))
  /\ d.count = Clamped(Total(S))
  /\ BestOf(d.quality, S)

LEMMA PositionsFinite ==
  ASSUME TypeOK
  PROVE  /\ Len(input.diagnostics) \in Nat /\ Given = 1..Len(input.diagnostics)
         /\ IsFiniteSet(Given)
         /\ Positions \subseteq Given /\ FirstPositions \subseteq Positions
         /\ \A i \in Positions : Repetitions(i) \subseteq Positions
PROOF
<1>1. Len(input.diagnostics) \in Nat /\ Given = 1..Len(input.diagnostics)
  BY DEF TypeOK, InputType, Given
<1>2. IsFiniteSet(Given)
  BY <1>1, FS_Interval
<1> QED  BY <1>1, <1>2 DEF Positions, FirstPositions, Repetitions, Given

LEMMA TotalProperties ==
  ASSUME TypeOK, NEW S \in SUBSET Given
  PROVE  /\ Total(S) \in Nat
         /\ \A j \in Given : Total({j}) = Clean(j).count
         /\ \A j \in Given \ S : Total(S \cup {j}) = Total(S) + Clean(j).count
PROOF
<1> DEFINE count == [j \in Given |-> Clean(j).count]
<1>1. \A j \in Given : count[j] \in Nat /\ count[j] = Clean(j).count
  <2>1. \A j \in Given : Clean(j).count \in 0..MaxCount
    BY CleanType DEF Diagnostics
  <2> QED  BY <2>1, FinalizeAssumption
<1> HIDE DEF count
<1>2. ASSUME NEW R \in SUBSET Given
      PROVE  Total(R) = SumFunctionOnSet(count, R) /\ IsFiniteSet(R)
  <2> DEFINE own == [j \in R |-> Clean(j).count]
  <2>1. IsFiniteSet(R)
    BY PositionsFinite, FS_Subset
  <2>2. \A j \in R : own[j] \in Nat /\ own[j] = count[j]
    BY <1>1
  <2>3. DOMAIN own = R
    OBVIOUS
  <2>4. Total(R) = SumFunctionOnSet(own, R)
    BY <2>3 DEF Total, SumFunction
  <2> HIDE DEF own
  <2> QED  BY <2>1, <2>2, <2>4, SumSame
<1>3. Total(S) \in Nat
  <2>1. IsFiniteSet(S) /\ \A j \in S : count[j] \in Nat
    BY <1>1, <1>2
  <2>2. SumFunctionOnSet(count, S) \in Nat
    BY <2>1, SumNat
  <2> QED  BY <1>2, <2>2
<1>4. ASSUME NEW R \in SUBSET Given, NEW j \in Given \ R
      PROVE  Total(R \cup {j}) = Total(R) + Clean(j).count
  <2>1. IsFiniteSet(R) /\ j \notin R /\ \A x \in R \cup {j} : count[x] \in Nat
    BY <1>1, <1>2
  <2>2. SumFunctionOnSet(count, R \cup {j}) = SumFunctionOnSet(count, R) + count[j]
    BY <2>1, SumAdd
  <2>3. R \cup {j} \in SUBSET Given
    OBVIOUS
  <2> QED  BY <1>1, <1>2, <2>2, <2>3
<1>5. ASSUME NEW j \in Given
      PROVE  Total({j}) = Clean(j).count
  <2>1. SumFunctionOnSet(count, {}) = 0
    BY SumEmpty
  <2>2. Total({}) = 0
    BY <1>2, <2>1
  <2>3. Total({} \cup {j}) = Total({}) + Clean(j).count
    BY <1>4
  <2>4. {} \cup {j} = {j}
    OBVIOUS
  <2> QED  BY <1>1, <2>2, <2>3, <2>4
<1> QED  BY <1>3, <1>4, <1>5

LEMMA FindingUnique ==
  ASSUME TypeOK, NEW i \in Given, NEW S \in SUBSET Given, NEW d, NEW e,
         IsFindingOf(d, i, S), IsFindingOf(e, i, S)
  PROVE  d = e
PROOF
<1>1. d \in Diagnostics /\ e \in Diagnostics
  BY DEF IsFindingOf
<1>2. d.count = e.count
  BY DEF IsFindingOf
<1>3. d.quality = e.quality
  <2>1. d.quality \in Int /\ e.quality \in Int
    BY <1>1 DEF Diagnostics, Qualities
  <2>2. d.quality <= e.quality /\ e.quality <= d.quality
    BY DEF IsFindingOf, BestOf
  <2> QED  BY <2>1, <2>2
<1>4. DiagnosticKey(d) = DiagnosticKey(e)
  BY DEF IsFindingOf
<1>5. /\ d.severity = e.severity /\ d.class = e.class /\ d.message = e.message
      /\ d.path = e.path /\ d.provenance = e.provenance
  BY <1>4 DEF DiagnosticKey
<1> QED  BY <1>1, <1>2, <1>3, <1>5 DEF Diagnostics

LEMMA FindingExists ==
  ASSUME TypeOK, NEW i \in Positions
  PROVE  IsFindingOf(Finding(i), i, Repetitions(i)) /\ i \in Given
PROOF
<1> DEFINE R == Repetitions(i)
           total == Total(R)
           qualities == {Clean(j).quality : j \in R}
<1>1. i \in Given /\ R \in SUBSET Given
  BY PositionsFinite
<1>2. i \in R
  BY DEF Repetitions, SameFinding
<1>3. \A j \in R : Clean(j).quality \in Qualities /\ Clean(j).quality \in Nat
  BY <1>1, CleanType DEF Diagnostics, Qualities
<1>4. \E q \in Qualities : BestOf(q, R)
  <2>1. qualities \in SUBSET Nat /\ qualities # {}
    BY <1>2, <1>3
  <2>2. PICK q \in qualities : \A r \in qualities : q <= r
    BY <2>1, LeastNat
  <2>3. BestOf(q, R)
    BY <2>2 DEF BestOf
  <2> QED  BY <1>3, <2>2, <2>3
<1> DEFINE quality == CHOOSE q \in Qualities : BestOf(q, R)
<1>5. quality \in Qualities /\ BestOf(quality, R)
  BY <1>4
<1>6. Finding(i) = [Clean(i) EXCEPT !.count = Clamped(total), !.quality = quality]
  BY DEF Finding, Clamped, BestOf
<1>7. Clamped(total) \in 0..MaxCount
  <2>1. total \in Nat
    BY <1>1, TotalProperties
  <2> HIDE DEF total
  <2> QED  BY <2>1, FinalizeAssumption DEF Clamped
<1>8. Clean(i) \in Diagnostics
  BY <1>1, CleanType
<1> HIDE DEF quality, total, R
<1>9. /\ Finding(i) \in Diagnostics
      /\ DiagnosticKey(Finding(i)) = DiagnosticKey(Clean(i))
      /\ Finding(i).count = Clamped(total) /\ Finding(i).quality = quality
  BY <1>5, <1>6, <1>7, <1>8 DEF Diagnostics, DiagnosticKey
<1> QED  BY <1>1, <1>5, <1>9 DEF IsFindingOf, total, R

LEMMA FindingAlone ==
  ASSUME TypeOK, NEW j \in Given
  PROVE  IsFindingOf(Clean(j), j, {j})
PROOF
<1>1. Clean(j) \in Diagnostics /\ Total({j}) = Clean(j).count
  BY CleanType, TotalProperties
<1>2. Clean(j).count \in 0..MaxCount /\ Clean(j).quality \in Int
  BY <1>1 DEF Diagnostics, Qualities
<1>3. Clamped(Clean(j).count) = Clean(j).count
  BY <1>2, FinalizeAssumption DEF Clamped
<1> QED  BY <1>1, <1>2, <1>3 DEF IsFindingOf, BestOf

LEMMA FindingMerged ==
  ASSUME TypeOK, NEW i \in Given, NEW S \in SUBSET Given, NEW d, IsFindingOf(d, i, S),
         NEW j \in Given \ S
  PROVE  IsFindingOf(Merged(d, Clean(j)), i, S \cup {j})
PROOF
<1> DEFINE c == Clean(j)
           merged == Merged(d, c)
<1>1. d \in Diagnostics /\ c \in Diagnostics
  BY CleanType DEF IsFindingOf
<1>2. merged \in Diagnostics /\ DiagnosticKey(merged) = DiagnosticKey(d)
  BY <1>1, MergedProperties
<1>3. /\ merged.count = SaturatingAdd(d.count, c.count)
      /\ merged.quality = IF c.quality < d.quality THEN c.quality ELSE d.quality
  BY <1>1 DEF Merged, Diagnostics
<1>4. /\ Total(S) \in Nat /\ Total(S \cup {j}) = Total(S) + c.count
      /\ c.count \in Nat /\ d.count = Clamped(Total(S)) /\ MaxCount \in Nat
  BY <1>1, TotalProperties, FinalizeAssumption DEF IsFindingOf, Diagnostics
<1> HIDE DEF c, merged
<1>5. merged.count = Clamped(Total(S \cup {j}))
  BY <1>3, <1>4 DEF SaturatingAdd, Clamped
<1>6. /\ d.quality \in Int /\ c.quality \in Int /\ BestOf(d.quality, S)
      /\ \A k \in S : Clean(k).quality \in Int
  BY <1>1, CleanType DEF IsFindingOf, Diagnostics, Qualities
<1>7. BestOf(merged.quality, S \cup {j})
  BY <1>3, <1>6 DEF BestOf, c
<1> QED  BY <1>2, <1>5, <1>7 DEF IsFindingOf, merged, c

----------------------------------------------------------------------------
(* Suppression *)

(* s holds the findings of the positions P, in their order.                *)
IsTrace(s, p, P) ==
  /\ Enumerates(p, Len(s), P)
  /\ \A m \in 1..Len(s) : s[m] = Clean(p[m])

(* Of n findings those before the one that is looked at are of positions   *)
(* up to k.                                                                *)
Passed(p, n, k, at) == \A m \in 1..n : m < at <=> p[m] <= k

(* The positions left when those up to k have been looked at.              *)
CountedUpTo(k) == {i \in Given : i <= k => Counts(i)}

LEMMA SuppressedNotCounted ==
  ASSUME TypeOK, input \in Inputs, NEW s \in Seq(Diagnostics), NEW k \in Nat, NEW p,
         IsTrace(s, p, CountedUpTo(k)), NEW i \in Given
  PROVE  Suppressed(Clean(i), s) <=> ~Counts(i)
PROOF
<1>1. /\ \A m \in 1..Len(s) : p[m] \in Given /\ s[m] = Clean(p[m])
      /\ \A j \in CountedUpTo(k) : \E m \in 1..Len(s) : p[m] = j
      /\ DOMAIN s = 1..Len(s)
  BY DEF IsTrace, Enumerates, CountedUpTo
<1>2. ASSUME NEW j \in Given, Covers(Clean(j), Clean(i))
      PROVE  \E m \in DOMAIN s : Covers(s[m], Clean(i))
  <2>1. j \in CountedUpTo(k)
    BY <1>2 DEF Covers, Counts, CountedUpTo
  <2> QED  BY <1>1, <1>2, <2>1
<1>3. (\E m \in DOMAIN s : Covers(s[m], Clean(i))) <=> \E j \in Given : Covers(Clean(j), Clean(i))
  BY <1>1, <1>2
<1>4. (\E j \in Given : Covers(Clean(j), Clean(i))) <=>
        \E j \in Given : /\ Clean(j).quality # FallbackQuality
                    /\ LinesOf(Clean(i).provenance) \cap LinesOf(Clean(j).provenance) # {}
  BY CoversIsShares
<1> QED  BY <1>3, <1>4 DEF Suppressed, Counts, Given

LEMMA SuppressStep ==
  ASSUME TypeOK, input \in Inputs, NEW s \in Seq(Diagnostics), NEW k \in Nat, NEW p,
         IsTrace(s, p, CountedUpTo(k)), Passed(p, Len(s), k, next), next \in DOMAIN s,
         NEW keeps, keeps = ~Suppressed(s[next], s)
  PROVE  \E q : /\ IsTrace(Kept(s, keeps), q, CountedUpTo(k + 1))
                /\ Passed(q, Len(Kept(s, keeps)), k + 1, Following(keeps))
PROOF
<1> DEFINE n == Len(s)
<1>1. /\ n \in Nat /\ next \in 1..n /\ next \in Nat
      /\ p \in [1..n -> CountedUpTo(k)]
      /\ \A l, m \in 1..n : l < m => p[l] < p[m]
      /\ \A j \in CountedUpTo(k) : \E m \in 1..n : p[m] = j
      /\ \A m \in 1..n : s[m] = Clean(p[m]) /\ (m < next <=> p[m] <= k)
  BY DEF IsTrace, Enumerates, Passed
<1> HIDE DEF n
<1>2. /\ CountedUpTo(k) \subseteq Given /\ Given = 1..Len(input.diagnostics)
      /\ Len(input.diagnostics) \in Nat
  BY PositionsFinite DEF CountedUpTo
<1>3. \A m \in 1..n : p[m] \in Given /\ p[m] \in Nat
  BY <1>1, <1>2
<1>4. p[next] = k + 1
  <2>1. p[next] > k
    BY <1>1, <1>3
  <2>2. k + 1 \in CountedUpTo(k)
    BY <1>1, <1>2, <1>3, <2>1 DEF CountedUpTo
  <2>3. PICK m \in 1..n : p[m] = k + 1
    BY <1>1, <2>2
  <2>4. ~(m < next)
    BY <1>1, <2>3
  <2>5. next < m => p[next] < p[m]
    BY <1>1
  <2> QED  BY <1>1, <1>3, <2>1, <2>3, <2>4, <2>5
<1>5. k + 1 \in Given
  BY <1>1, <1>3, <1>4
<1>6. keeps = Counts(k + 1)
  <2>1. Suppressed(Clean(k + 1), s) <=> ~Counts(k + 1)
    BY <1>5, SuppressedNotCounted
  <2>2. s[next] = Clean(k + 1)
    BY <1>1, <1>4
  <2>3. Counts(k + 1) \in BOOLEAN /\ Suppressed(Clean(k + 1), s) \in BOOLEAN
    BY DEF Counts, Suppressed
  <2> QED  BY <2>1, <2>2, <2>3
<1>7. CASE keeps
  <2>1. Kept(s, keeps) = s /\ Following(keeps) = next + 1
    BY <1>7 DEF Kept, Following
  <2>2. CountedUpTo(k + 1) = CountedUpTo(k)
    <3>1. \A i \in Given : i \in Int
      BY <1>2
    <3>2. \A i \in Given : i <= k + 1 <=> (i <= k \/ i = k + 1)
      BY <3>1
    <3> QED  BY <1>6, <1>7, <3>2 DEF CountedUpTo
  <2>3. Passed(p, n, k + 1, next + 1)
    <3> SUFFICES ASSUME NEW m \in 1..n PROVE m < next + 1 <=> p[m] <= k + 1
      BY DEF Passed
    <3>1. m < next => p[m] < p[next]
      BY <1>1
    <3>2. next < m => p[next] < p[m]
      BY <1>1
    <3> QED  BY <1>1, <1>3, <1>4, <3>1, <3>2
  <2> QED  BY <2>1, <2>2, <2>3 DEF n
<1>8. CASE ~keeps
  <2> DEFINE left == RemoveAt(s, next)
             At(i) == IF i < next THEN i ELSE i + 1
             q == [m \in 1..(n - 1) |-> p[At(m)]]
  <2>1. Kept(s, keeps) = left /\ Following(keeps) = next
    BY <1>8 DEF Kept, Following
  <2>2. /\ Len(left) = n - 1
        /\ \A m \in 1..(n - 1) : left[m] = s[At(m)]
    <3>1. /\ left \in Seq(Diagnostics) /\ Len(left) = Len(s) - 1
          /\ \A i \in DOMAIN left : left[i] = s[IF i < next THEN i ELSE i + 1]
      BY RemoveAtProperties
    <3> HIDE DEF left
    <3>2. DOMAIN left = 1..(n - 1)
      BY <3>1 DEF n
    <3> QED  BY <3>1, <3>2 DEF n
  <2>3. \A m \in 1..(n - 1) : At(m) \in 1..n /\ At(m) # next
    BY <1>1
  <2>4. \A l, m \in 1..(n - 1) : l < m => At(l) < At(m)
    BY <1>1
  <2>5. ASSUME NEW m \in 1..n, m # next
        PROVE  \E l \in 1..(n - 1) : At(l) = m
    <3>1. CASE m < next
      <4>1. m \in 1..(n - 1) /\ At(m) = m
        BY <1>1, <3>1
      <4> QED  BY <4>1
    <3>2. CASE next < m
      <4>1. m - 1 \in 1..(n - 1) /\ ~(m - 1 < next) /\ (m - 1) + 1 = m
        BY <1>1, <3>2
      <4> QED  BY <4>1
    <3> QED  BY <1>1, <2>5, <3>1, <3>2
  <2> HIDE DEF left
  <2>6. CountedUpTo(k + 1) = CountedUpTo(k) \ {k + 1}
    <3>1. \A i \in Given : i \in Int
      BY <1>2
    <3>2. \A i \in Given : i <= k + 1 <=> (i <= k \/ i = k + 1)
      BY <3>1
    <3>3. k + 1 <= k + 1 /\ ~Counts(k + 1)
      BY <1>6, <1>8
    <3> QED  BY <3>2, <3>3 DEF CountedUpTo
  <2>7. \A m \in 1..n : m # next => p[m] # k + 1
    <3> SUFFICES ASSUME NEW m \in 1..n, m # next PROVE p[m] # k + 1
      OBVIOUS
    <3>1. m < next => p[m] < p[next]
      BY <1>1
    <3>2. next < m => p[next] < p[m]
      BY <1>1
    <3> QED  BY <1>1, <1>3, <1>4, <3>1, <3>2
  <2>8. Enumerates(q, n - 1, CountedUpTo(k + 1))
    <3>1. \A m \in 1..(n - 1) : q[m] = p[At(m)] /\ q[m] \in CountedUpTo(k + 1)
      BY <1>1, <2>3, <2>6, <2>7
    <3>2. \A l, m \in 1..(n - 1) : l < m => q[l] < q[m]
      BY <1>1, <2>3, <2>4
    <3>3. \A j \in CountedUpTo(k + 1) : \E m \in 1..(n - 1) : q[m] = j
      <4> SUFFICES ASSUME NEW j \in CountedUpTo(k + 1) PROVE \E m \in 1..(n - 1) : q[m] = j
        OBVIOUS
      <4>1. PICK m \in 1..n : p[m] = j
        BY <1>1, <2>6
      <4>2. m # next
        BY <1>4, <2>6, <4>1
      <4>3. PICK l \in 1..(n - 1) : At(l) = m
        BY <2>5, <4>2
      <4> QED  BY <3>1, <4>1, <4>3
    <3>4. q \in [1..(n - 1) -> CountedUpTo(k + 1)]
      BY <3>1
    <3> HIDE DEF q
    <3> QED  BY <3>2, <3>3, <3>4 DEF Enumerates
  <2>9. \A m \in 1..(n - 1) : left[m] = Clean(q[m])
    BY <1>1, <2>2, <2>3
  <2>10. \A m \in 1..(n - 1) : m < next <=> q[m] <= k + 1
    <3> SUFFICES ASSUME NEW m \in 1..(n - 1) PROVE m < next <=> q[m] <= k + 1
      OBVIOUS
    <3>1. q[m] = p[At(m)] /\ At(m) \in 1..n /\ p[At(m)] # k + 1 /\ p[At(m)] \in Nat
      BY <1>3, <2>3, <2>7
    <3>2. At(m) < next <=> p[At(m)] <= k
      BY <1>1, <3>1
    <3>3. At(m) < next <=> m < next
      BY <1>1
    <3> HIDE DEF At, q
    <3> QED  BY <3>1, <3>2, <3>3
  <2> HIDE DEF q
  <2>11. IsTrace(left, q, CountedUpTo(k + 1)) /\ Passed(q, Len(left), k + 1, next)
    BY <2>2, <2>8, <2>9, <2>10 DEF IsTrace, Passed
  <2> QED  BY <2>1, <2>11
<1>9. keeps \in BOOLEAN
  BY DEF Suppressed
<1> QED  BY <1>7, <1>8, <1>9

LEMMA SuppressEnd ==
  ASSUME TypeOK, NEW s \in Seq(Diagnostics), NEW k \in Nat, NEW p,
         IsTrace(s, p, CountedUpTo(k)), Passed(p, Len(s), k, next), next \notin DOMAIN s
  PROVE  CountedUpTo(k) = Positions
PROOF
<1>1. /\ Len(s) \in Nat /\ DOMAIN s = 1..Len(s) /\ next \in Nat \ {0}
  BY DEF TypeOK
<1>2. \A m \in 1..Len(s) : m < next
  BY <1>1
<1>3. \A i \in CountedUpTo(k) : i <= k
  BY <1>2 DEF IsTrace, Enumerates, Passed
<1>4. \A i \in Given : i \in CountedUpTo(k) => Counts(i)
  BY <1>3 DEF CountedUpTo
<1> QED  BY <1>4 DEF CountedUpTo, Positions, Given

----------------------------------------------------------------------------
(* Deduplication *)

Later(k) == {i \in Positions : i > k}
FirstUpTo(k) == {i \in FirstPositions : i <= k}
RepetitionsUpTo(i, k) == {j \in Repetitions(i) : j <= k}

(* s holds a finding for every first position up to k, with its            *)
(* repetitions up to there.                                                *)
IsMerged(s, q, k) ==
  /\ Enumerates(q, Len(s), FirstUpTo(k))
  /\ \A m \in 1..Len(s) : IsFindingOf(s[m], q[m], RepetitionsUpTo(q[m], k))

LEMMA RepetitionKeys ==
  ASSUME TypeOK, NEW i \in Positions, NEW j \in Positions
  PROVE  j \in Repetitions(i) <=> DiagnosticKey(Clean(i)) = DiagnosticKey(Clean(j))
PROOF
<1>1. Clean(i) \in Diagnostics /\ Clean(j) \in Diagnostics
  BY PositionsFinite, CleanType
<1> QED  BY <1>1, KeyIsIdentity DEF Repetitions

(* A position that is not the first of its finding has one before it.      *)
LEMMA FirstBefore ==
  ASSUME TypeOK, NEW j \in Positions, j \notin FirstPositions
  PROVE  \E i \in FirstPositions : i < j /\ j \in Repetitions(i)
PROOF
<1>1. Repetitions(j) \subseteq Positions /\ Positions \subseteq Nat /\ j \in Nat
  BY PositionsFinite
<1>2. j \in Repetitions(j)
  BY RepetitionKeys
<1>3. PICK i \in Repetitions(j) : \A l \in Repetitions(j) : i <= l
  BY <1>1, <1>2, LeastNat
<1>4. i \in Positions /\ i \in Nat
  BY <1>1, <1>3
<1>5. \A l \in Positions : l \in Repetitions(i) <=> l \in Repetitions(j)
  BY <1>3, <1>4, RepetitionKeys
<1>6. \A l \in Repetitions(i) : i <= l
  BY <1>3, <1>4, <1>5 DEF Repetitions
<1>7. i \in FirstPositions
  BY <1>4, <1>6 DEF FirstPositions
<1>8. i # j /\ i <= j
  BY <1>2, <1>3, <1>7
<1> QED  BY <1>1, <1>2, <1>4, <1>5, <1>7, <1>8

LEMMA DeduplicateStep ==
  ASSUME TypeOK, NEW s \in Seq(Diagnostics), s # <<>>, NEW dd \in Seq(Diagnostics),
         NEW k \in Nat, NEW p, IsTrace(s, p, Later(k)), NEW q, IsMerged(dd, q, k),
         NEW result,
         LET d == Head(s)
             same == {i \in DOMAIN dd : DiagnosticKey(dd[i]) = DiagnosticKey(d)}
         IN  result = IF same = {} THEN Append(dd, d)
                      ELSE [i \in DOMAIN dd |->
                              IF i \in same THEN Merged(dd[i], d) ELSE dd[i]]
  PROVE  \E j \in Nat : (\E r : IsTrace(Tail(s), r, Later(j))) /\ (\E r : IsMerged(result, r, j))
PROOF
<1> DEFINE n == Len(s)
           l == Len(dd)
           d == Head(s)
           same == {i \in DOMAIN dd : DiagnosticKey(dd[i]) = DiagnosticKey(d)}
           j == p[1]
<1>1. /\ n \in Nat /\ 1 \in 1..n /\ d = s[1]
      /\ p \in [1..n -> Later(k)]
      /\ \A a, b \in 1..n : a < b => p[a] < p[b]
      /\ \A i \in Later(k) : \E m \in 1..n : p[m] = i
      /\ \A m \in 1..n : s[m] = Clean(p[m])
  BY DEF IsTrace, Enumerates
<1>2. /\ l \in Nat /\ DOMAIN dd = 1..l
      /\ q \in [1..l -> FirstUpTo(k)]
      /\ \A a, b \in 1..l : a < b => q[a] < q[b]
      /\ \A i \in FirstUpTo(k) : \E m \in 1..l : q[m] = i
      /\ \A m \in 1..l : IsFindingOf(dd[m], q[m], RepetitionsUpTo(q[m], k))
  BY DEF IsMerged, Enumerates
<1>3. /\ Positions \subseteq Given /\ Positions \subseteq Nat /\ FirstPositions \subseteq Positions
      /\ \A i \in Positions : Repetitions(i) \subseteq Positions
  BY PositionsFinite
<1>4. /\ Len(Tail(s)) = n - 1
      /\ \A m \in 1..(n - 1) : Tail(s)[m] = s[m + 1]
  OBVIOUS
<1> HIDE DEF n, d, j
<1>5. j \in Positions /\ j > k /\ j \in Nat /\ j \in Given /\ d = Clean(j)
  BY <1>1, <1>3 DEF j, Later
<1>6. \A i \in Positions : i > k => i = j \/ i > j
  <2> SUFFICES ASSUME NEW i \in Positions, i > k PROVE i = j \/ i > j
    OBVIOUS
  <2>1. PICK m \in 1..n : p[m] = i
    BY <1>1 DEF Later
  <2>2. m = 1 \/ 1 < m
    BY <1>1
  <2> QED  BY <1>1, <2>1, <2>2 DEF j
<1>7. \A i \in Positions : i <= j <=> i <= k \/ i = j
  BY <1>3, <1>5, <1>6
<1>8. \E r : IsTrace(Tail(s), r, Later(j))
  <2> DEFINE r == [m \in 1..(n - 1) |-> p[m + 1]]
  <2>1. \A m \in 1..(n - 1) : m + 1 \in 1..n /\ 1 < m + 1
    BY <1>1
  <2>2. \A m \in 1..(n - 1) : r[m] \in Later(j) /\ r[m] = p[m + 1]
    <3>1. \A m \in 1..(n - 1) : p[m + 1] \in Positions /\ p[m + 1] > j
      BY <1>1, <2>1 DEF j, Later
    <3> QED  BY <3>1 DEF Later
  <2>3. r \in [1..(n - 1) -> Later(j)]
    BY <2>2
  <2>4. \A a, b \in 1..(n - 1) : a < b => r[a] < r[b]
    BY <1>1, <2>1, <2>2
  <2>5. ASSUME NEW i \in Later(j) PROVE \E m \in 1..(n - 1) : r[m] = i
    <3>1. i \in Later(k) /\ i # j
      BY <1>3, <1>5 DEF Later
    <3>2. PICK m \in 1..n : p[m] = i
      BY <1>1, <3>1
    <3>3. m - 1 \in 1..(n - 1) /\ (m - 1) + 1 = m
      BY <1>1, <3>1, <3>2 DEF j
    <3> QED  BY <2>2, <3>2, <3>3
  <2>6. \A m \in 1..(n - 1) : Tail(s)[m] = Clean(r[m])
    BY <1>1, <1>4, <2>1, <2>2
  <2> HIDE DEF r
  <2>7. IsTrace(Tail(s), r, Later(j))
    BY <1>4, <2>3, <2>4, <2>5, <2>6 DEF IsTrace, Enumerates
  <2> QED  BY <2>7
<1>9. ASSUME NEW m \in 1..l
      PROVE  /\ q[m] \in FirstPositions /\ q[m] \in Positions /\ q[m] \in Given /\ q[m] <= k
             /\ q[m] \in Nat /\ q[m] < j
             /\ DiagnosticKey(dd[m]) = DiagnosticKey(Clean(q[m]))
             /\ m \in same <=> j \in Repetitions(q[m])
             /\ RepetitionsUpTo(q[m], k) \in SUBSET Given /\ j \notin RepetitionsUpTo(q[m], k)
             /\ RepetitionsUpTo(q[m], j) =
                  IF m \in same THEN RepetitionsUpTo(q[m], k) \cup {j}
                  ELSE RepetitionsUpTo(q[m], k)
  <2>1. q[m] \in FirstPositions /\ q[m] <= k
    BY <1>2 DEF FirstUpTo
  <2>2. q[m] \in Positions /\ q[m] \in Given /\ q[m] \in Nat /\ q[m] < j
    <3>1. q[m] \in Positions
      BY <1>3, <2>1
    <3>2. q[m] \in Given /\ q[m] \in Nat
      BY <1>3, <3>1
    <3>3. \A a, b, c \in Nat : a <= b /\ c > b => a < c
      OBVIOUS
    <3> QED  BY <1>5, <2>1, <3>1, <3>2, <3>3
  <2>3. DiagnosticKey(dd[m]) = DiagnosticKey(Clean(q[m]))
    BY <1>2 DEF IsFindingOf
  <2>4. m \in same <=> j \in Repetitions(q[m])
    BY <1>2, <1>5, <2>2, <2>3, RepetitionKeys
  <2>5. Repetitions(q[m]) \subseteq Positions
    BY <1>3, <2>2
  <2>6. RepetitionsUpTo(q[m], k) \in SUBSET Given /\ j \notin RepetitionsUpTo(q[m], k)
    <3>1. RepetitionsUpTo(q[m], k) \in SUBSET Given
      BY <1>3, <2>5 DEF RepetitionsUpTo
    <3>2. ~(j <= k)
      BY <1>5
    <3> QED  BY <3>1, <3>2 DEF RepetitionsUpTo
  <2>7. \A i \in Repetitions(q[m]) : i <= j <=> i <= k \/ i = j
    BY <1>7, <2>5
  <2> HIDE DEF same
  <2>8. RepetitionsUpTo(q[m], j) =
          IF m \in same THEN RepetitionsUpTo(q[m], k) \cup {j} ELSE RepetitionsUpTo(q[m], k)
    BY <2>4, <2>7 DEF RepetitionsUpTo
  <2> QED  BY <2>1, <2>2, <2>3, <2>4, <2>6, <2>8
<1>10. j \in FirstPositions <=> same = {}
  <2>1. ASSUME NEW m \in same PROVE j \notin FirstPositions
    <3>1. m \in 1..l
      BY <1>2
    <3>2. j \in Repetitions(q[m])
      BY <1>9, <3>1
    <3>3. q[m] \in Repetitions(j)
      BY <1>5, <1>9, <3>1, <3>2, RepetitionKeys
    <3>4. ~(j <= q[m])
      <4>1. q[m] \in Nat /\ j \in Nat /\ q[m] < j
        BY <1>5, <1>9, <3>1
      <4>2. \A a, b \in Nat : a < b => ~(b <= a)
        OBVIOUS
      <4> QED  BY <4>1, <4>2
    <3> QED  BY <3>3, <3>4 DEF FirstPositions
  <2>2. ASSUME j \notin FirstPositions PROVE same # {}
    <3>1. PICK i \in FirstPositions : i < j /\ j \in Repetitions(i)
      BY <1>5, <2>2, FirstBefore
    <3>2. i \in FirstUpTo(k)
      BY <1>3, <1>5, <1>7, <3>1 DEF FirstUpTo
    <3>3. PICK m \in 1..l : q[m] = i
      BY <1>2, <3>2
    <3>4. m \in same
      BY <1>9, <3>1, <3>3
    <3> QED  BY <3>4
  <2> HIDE DEF same
  <2> QED  BY <2>1, <2>2
<1>11. FirstUpTo(j) = IF same = {} THEN FirstUpTo(k) \cup {j} ELSE FirstUpTo(k)
  <2> HIDE DEF same
  <2>1. \A i \in FirstPositions : i <= j <=> i <= k \/ i = j
    BY <1>3, <1>7
  <2> QED  BY <1>10, <2>1 DEF FirstUpTo
<1>12. CASE same = {}
  <2>1. result = Append(dd, d)
    BY <1>12 DEF d
  <2>2. /\ Len(result) = l + 1 /\ result[l + 1] = d
        /\ \A m \in 1..l : result[m] = dd[m]
    <3> HIDE DEF same
    <3> QED  BY <2>1
  <2> DEFINE r == [m \in 1..(l + 1) |-> IF m \in 1..l THEN q[m] ELSE j]
  <2>3. /\ \A m \in 1..l : m \in 1..(l + 1) /\ r[m] = q[m] /\ m \notin same
        /\ l + 1 \in 1..(l + 1) /\ r[l + 1] = j
        /\ \A m \in 1..(l + 1) : m \in 1..l \/ m = l + 1
    <3>1. \A a \in Nat : /\ \A m \in 1..a : m \in 1..(a + 1)
                         /\ a + 1 \in 1..(a + 1) /\ a + 1 \notin 1..a
                         /\ \A m \in 1..(a + 1) : m \in 1..a \/ m = a + 1
      OBVIOUS
    <3>2. l \in Nat
      BY <1>2
    <3> HIDE DEF same, l
    <3>3. \A m \in 1..l : m \notin same
      BY <1>12
    <3> QED  BY <3>1, <3>2, <3>3
  <2> HIDE DEF r, same, l
  <2>4. Enumerates(r, l + 1, FirstUpTo(j))
    <3>1. \A m \in 1..l : r[m] \in FirstUpTo(j)
      BY <1>2, <1>11, <1>12, <2>3
    <3>2. r[l + 1] \in FirstUpTo(j)
      BY <1>11, <1>12, <2>3
    <3>3. r \in [1..(l + 1) -> FirstUpTo(j)]
      BY <2>3, <3>1, <3>2 DEF r
    <3>4. ASSUME NEW a \in 1..(l + 1), NEW b \in 1..(l + 1), a < b
          PROVE  r[a] < r[b]
      <4>1. a \in 1..l
        BY <1>2, <3>4
      <4>2. CASE b \in 1..l
        BY <1>2, <2>3, <3>4, <4>1, <4>2
      <4>3. CASE b = l + 1
        BY <1>9, <2>3, <4>1, <4>3
      <4> QED  BY <2>3, <4>2, <4>3
    <3>5. ASSUME NEW i \in FirstUpTo(j) PROVE \E m \in 1..(l + 1) : r[m] = i
      <4>1. i \in FirstUpTo(k) \/ i = j
        BY <1>11, <1>12
      <4> QED  BY <1>2, <2>3, <4>1
    <3> QED  BY <3>3, <3>4, <3>5 DEF Enumerates
  <2>5. IsFindingOf(result[l + 1], r[l + 1], RepetitionsUpTo(r[l + 1], j))
    <3>1. RepetitionsUpTo(j, j) = {j}
      <4>1. j \in FirstPositions
        BY <1>10, <1>12
      <4>2. \A i \in Repetitions(j) : j <= i /\ i \in Nat
        BY <1>3, <1>5, <4>1 DEF FirstPositions
      <4>3. j \in Repetitions(j)
        BY <1>5, RepetitionKeys
      <4> QED  BY <1>5, <4>2, <4>3 DEF RepetitionsUpTo
    <3>2. IsFindingOf(Clean(j), j, {j})
      BY <1>5, FindingAlone
    <3> QED  BY <1>5, <2>2, <2>3, <3>1, <3>2
  <2>6. \A m \in 1..l : IsFindingOf(result[m], r[m], RepetitionsUpTo(r[m], j))
    BY <1>2, <1>9, <2>2, <2>3
  <2>7. \A m \in 1..(l + 1) : IsFindingOf(result[m], r[m], RepetitionsUpTo(r[m], j))
    BY <2>3, <2>5, <2>6
  <2>8. IsMerged(result, r, j)
    BY <2>2, <2>4, <2>7 DEF IsMerged
  <2> QED  BY <1>5, <1>8, <2>8
<1>13. CASE same # {}
  <2>1. result = [i \in DOMAIN dd |-> IF i \in same THEN Merged(dd[i], d) ELSE dd[i]]
    BY <1>13 DEF d
  <2> HIDE DEF same
  <2>2. /\ \A m \in 1..l : result[m] = IF m \in same THEN Merged(dd[m], d) ELSE dd[m]
        /\ DOMAIN result = 1..l
    BY <1>2, <2>1
  <2>3. Len(result) = l
    <3> DEFINE R == {result[i] : i \in DOMAIN dd}
    <3>1. result = [i \in DOMAIN dd |-> result[i]]
      BY <2>1
    <3>2. \A i \in DOMAIN dd : result[i] \in R
      OBVIOUS
    <3> HIDE DEF R
    <3> QED  BY <3>1, <3>2, FunctionIsSequence
  <2>4. ASSUME NEW m \in 1..l
        PROVE  IsFindingOf(result[m], q[m], RepetitionsUpTo(q[m], j))
    <3>1. CASE m \in same
      <4> DEFINE R == RepetitionsUpTo(q[m], k)
      <4>1. /\ q[m] \in Given /\ R \in SUBSET Given /\ j \in Given \ R
            /\ IsFindingOf(dd[m], q[m], R)
        BY <1>2, <1>5, <1>9
      <4>2. RepetitionsUpTo(q[m], j) = R \cup {j}
        BY <1>9, <3>1
      <4> HIDE DEF R
      <4>3. IsFindingOf(Merged(dd[m], Clean(j)), q[m], R \cup {j})
        BY <4>1, FindingMerged
      <4> QED  BY <1>5, <2>2, <3>1, <4>2, <4>3
    <3>2. CASE m \notin same
      BY <1>2, <1>9, <2>2, <3>2
    <3> QED  BY <3>1, <3>2
  <2>5. FirstUpTo(j) = FirstUpTo(k)
    BY <1>11, <1>13
  <2> HIDE DEF l
  <2>6. IsMerged(result, q, j)
    BY <1>2, <2>3, <2>4, <2>5 DEF IsMerged, Enumerates
  <2> QED  BY <1>5, <1>8, <2>6
<1> QED  BY <1>12, <1>13

LEMMA DeduplicateEnd ==
  ASSUME TypeOK, NEW dd \in Seq(Diagnostics), NEW k \in Nat, NEW p,
         IsTrace(<<>>, p, Later(k)), NEW q, IsMerged(dd, q, k)
  PROVE  /\ Enumerates(q, Len(dd), FirstPositions)
         /\ \A m \in 1..Len(dd) : dd[m] = Finding(q[m])
PROOF
<1>1. Later(k) = {}
  BY DEF IsTrace, Enumerates
<1>2. \A i \in Positions : i <= k
  BY <1>1, PositionsFinite DEF Later
<1>3. FirstUpTo(k) = FirstPositions
  BY <1>2, PositionsFinite DEF FirstUpTo
<1>4. ASSUME NEW m \in 1..Len(dd) PROVE dd[m] = Finding(q[m])
  <2>1. q[m] \in FirstPositions /\ q[m] \in Positions
    BY <1>3, PositionsFinite DEF IsMerged, Enumerates
  <2>2. RepetitionsUpTo(q[m], k) = Repetitions(q[m])
    BY <1>2, <2>1, PositionsFinite DEF RepetitionsUpTo
  <2>3. IsFindingOf(dd[m], q[m], Repetitions(q[m]))
    BY <2>2 DEF IsMerged
  <2>4. IsFindingOf(Finding(q[m]), q[m], Repetitions(q[m])) /\ q[m] \in Given
    BY <2>1, FindingExists
  <2>5. Repetitions(q[m]) \in SUBSET Given
    BY <2>1, PositionsFinite
  <2> QED  BY <2>3, <2>4, <2>5, FindingUnique
<1> QED  BY <1>3, <1>4 DEF IsMerged

----------------------------------------------------------------------------
(* Ranking *)

(* s holds the findings of first positions, in the order of their ranks.   *)
IsShown(s, q) ==
  /\ q \in [1..Len(s) -> FirstPositions]
  /\ \A m \in 1..Len(s) : s[m] = Finding(q[m])
  /\ \A m, n \in 1..Len(s) : m < n => RanksBefore(q[m], q[n])

(* No first position is missing. *)
ShowsAll(n, q) == \A i \in FirstPositions : \E m \in 1..n : q[m] = i

(* p takes every position once, in the order of the keys.                  *)
Sorts(p, n, keys) ==
  /\ p \in [1..n -> 1..n]
  /\ \A i, j \in 1..n : i < j =>
       \/ LexLess(keys[p[i]], keys[p[j]])
       \/ keys[p[i]] = keys[p[j]] /\ p[i] < p[j]
  /\ \A k \in 1..n : \E i \in 1..n : p[i] = k

LEMMA StableOrderIsPermutation ==
  ASSUME NEW n \in Nat, NEW keys \in [1..n -> Seq(Int)], NEW p \in StableOrders(keys)
  PROVE  Sorts(p, n, keys)
PROOF
<1>1. /\ p \in [1..n -> 1..n]
      /\ \A i, j \in 1..n : i < j =>
           \/ LexLess(keys[p[i]], keys[p[j]])
           \/ keys[p[i]] = keys[p[j]] /\ p[i] < p[j]
  <2>1. DOMAIN keys = 1..n
    OBVIOUS
  <2> QED  BY <2>1 DEF StableOrders
<1>2. \A a \in Seq(Int) : ~LexLess(a, a)
  BY DEF LexLess
<1>3. ASSUME NEW i \in 1..n, NEW j \in 1..n, i < j
      PROVE  p[i] # p[j]
  <2> SUFFICES ASSUME p[i] = p[j] PROVE FALSE
    OBVIOUS
  <2>1. p[i] \in 1..n /\ keys[p[i]] \in Seq(Int)
    BY <1>1
  <2>2. ~LexLess(keys[p[i]], keys[p[j]])
    BY <1>2, <2>1
  <2>3. ~(p[i] < p[j])
    BY <2>1
  <2> QED  BY <1>1, <1>3, <2>2, <2>3
<1>4. \A i, j \in 1..n : p[i] = p[j] => i = j
  <2> SUFFICES ASSUME NEW i \in 1..n, NEW j \in 1..n, p[i] = p[j], i # j PROVE FALSE
    OBVIOUS
  <2>1. i < j \/ j < i
    OBVIOUS
  <2> QED  BY <1>3, <2>1
<1>5. p \in Injection(1..n, 1..n)
  BY <1>1, <1>4, Fun_IsInj
<1>6. p \in Surjection(1..n, 1..n)
  BY <1>5, FS_Interval, FS_Injection
<1>7. \A k \in 1..n : \E i \in 1..n : p[i] = k
  BY <1>6 DEF Surjection
<1> QED  BY <1>1, <1>7 DEF Sorts

LEMMA FirstFindings ==
  ASSUME TypeOK, NEW i \in FirstPositions
  PROVE  i \in Nat /\ i \in Positions /\ i \in Given /\ Finding(i) \in Diagnostics
PROOF
<1>1. i \in Positions /\ i \in Given /\ i \in Nat
  BY PositionsFinite
<1> QED  BY <1>1, FindingExists DEF IsFindingOf

LEMMA RankStep ==
  ASSUME TypeOK, NEW s \in Seq(Diagnostics), NEW q, Enumerates(q, Len(s), FirstPositions),
         \A m \in 1..Len(s) : s[m] = Finding(q[m]),
         NEW p \in StableOrders([i \in DOMAIN s |-> RankKey(s[i])])
  PROVE  \E r : IsShown(Reordered(s, p), r) /\ ShowsAll(Len(Reordered(s, p)), r)
PROOF
<1> DEFINE n == Len(s)
           keys == [i \in DOMAIN s |-> RankKey(s[i])]
           r == [m \in 1..n |-> q[p[m]]]
           t == Reordered(s, p)
<1>1. /\ n \in Nat /\ DOMAIN s = 1..n
      /\ q \in [1..n -> FirstPositions]
      /\ \A a, b \in 1..n : a < b => q[a] < q[b]
      /\ \A i \in FirstPositions : \E m \in 1..n : q[m] = i
  BY DEF Enumerates
<1>2. keys \in [1..n -> Seq(Int)] /\ \A m \in 1..n : keys[m] = RankKey(Finding(q[m]))
  <2>1. \A m \in 1..n : s[m] \in Diagnostics /\ s[m] = Finding(q[m])
    BY <1>1
  <2>2. \A m \in 1..n : RankKey(s[m]) \in Seq(Int)
    BY <2>1, KeyTypes
  <2> QED  BY <1>1, <2>1, <2>2
<1> HIDE DEF keys, n
<1>3. /\ p \in [1..n -> 1..n]
      /\ \A i, j \in 1..n : i < j =>
           \/ LexLess(keys[p[i]], keys[p[j]])
           \/ keys[p[i]] = keys[p[j]] /\ p[i] < p[j]
      /\ \A k \in 1..n : \E i \in 1..n : p[i] = k
  <2>1. p \in StableOrders(keys)
    BY DEF keys
  <2>2. n \in Nat /\ keys \in [1..n -> Seq(Int)]
    BY <1>1, <1>2
  <2>3. Sorts(p, n, keys)
    BY <2>1, <2>2, StableOrderIsPermutation
  <2> QED  BY <2>3 DEF Sorts
<1>4. Len(t) = n
  BY <1>1, <1>3, ReorderedType DEF n
<1>5. \A m \in 1..n : t[m] = Finding(r[m])
  <2>1. \A m \in 1..n : t[m] = s[p[m]] /\ p[m] \in 1..n
    BY <1>1, <1>3 DEF Reordered
  <2> QED  BY <2>1 DEF n
<1>6. r \in [1..n -> FirstPositions]
  BY <1>1, <1>3
<1>7. ASSUME NEW a \in 1..n, NEW b \in 1..n, a < b
      PROVE  RanksBefore(r[a], r[b])
  <2>1. /\ p[a] \in 1..n /\ p[b] \in 1..n /\ r[a] = q[p[a]] /\ r[b] = q[p[b]]
        /\ r[a] \in FirstPositions /\ r[b] \in FirstPositions
    BY <1>1, <1>3
  <2> HIDE DEF r
  <2>2. \/ LexLess(RankKey(Finding(r[a])), RankKey(Finding(r[b])))
        \/ RankKey(Finding(r[a])) = RankKey(Finding(r[b])) /\ r[a] < r[b]
    <3>1. /\ keys[p[a]] = RankKey(Finding(r[a]))
          /\ keys[p[b]] = RankKey(Finding(r[b]))
      BY <1>2, <2>1
    <3>2. \/ LexLess(keys[p[a]], keys[p[b]])
          \/ keys[p[a]] = keys[p[b]] /\ p[a] < p[b]
      BY <1>3, <1>7
    <3>3. p[a] < p[b] => r[a] < r[b]
      BY <1>1, <2>1
    <3> QED  BY <3>1, <3>2, <3>3
  <2>3. IsRanked(r[a], r[b])
    BY <2>2 DEF IsRanked
  <2>4. /\ r[a] \in Nat /\ r[b] \in Nat
        /\ Finding(r[a]) \in Diagnostics /\ Finding(r[b]) \in Diagnostics
    BY <2>1, FirstFindings
  <2> QED  BY <2>3, <2>4, RankedIsBefore
<1>8. ASSUME NEW i \in FirstPositions PROVE \E m \in 1..n : r[m] = i
  <2>1. PICK k \in 1..n : q[k] = i
    BY <1>1
  <2>2. PICK m \in 1..n : p[m] = k
    BY <1>3
  <2> QED  BY <2>1, <2>2
<1> HIDE DEF t, r
<1>9. IsShown(t, r) /\ ShowsAll(Len(t), r)
  BY <1>4, <1>5, <1>6, <1>7, <1>8 DEF IsShown, ShowsAll
<1> QED  BY <1>9 DEF t

(* A finding's place is its position when all are there. *)
LEMMA ShownInPlace ==
  ASSUME TypeOK, NEW s \in Seq(Diagnostics), NEW q, IsShown(s, q), ShowsAll(Len(s), q)
  PROVE  /\ \A m \in 1..Len(s) : Place(q[m]) = m
         /\ Cardinality(FirstPositions) = Len(s)
PROOF
<1> DEFINE n == Len(s)
<1>1. /\ n \in Nat
      /\ q \in [1..n -> FirstPositions]
      /\ \A a, b \in 1..n : a < b => RanksBefore(q[a], q[b])
      /\ \A i \in FirstPositions : \E m \in 1..n : q[m] = i
  BY DEF IsShown, ShowsAll
<1> HIDE DEF n
<1>2. \A i, j \in FirstPositions : RanksBefore(i, j) => ~RanksBefore(j, i)
  BY FirstFindings, BeforeIsStrict
<1>3. \A a, b \in 1..n : RanksBefore(q[a], q[b]) <=> a < b
  <2> SUFFICES ASSUME NEW a \in 1..n, NEW b \in 1..n, RanksBefore(q[a], q[b]), ~(a < b)
               PROVE  FALSE
    BY <1>1
  <2>1. q[a] \in FirstPositions /\ q[b] \in FirstPositions
    BY <1>1
  <2>2. a = b \/ b < a
    OBVIOUS
  <2> QED  BY <1>1, <1>2, <2>1, <2>2
<1>4. \A a, b \in 1..n : q[a] = q[b] => a = b
  <2> SUFFICES ASSUME NEW a \in 1..n, NEW b \in 1..n, q[a] = q[b], a # b PROVE FALSE
    OBVIOUS
  <2>1. a < b \/ b < a
    OBVIOUS
  <2>2. RanksBefore(q[a], q[a])
    BY <1>1, <2>1
  <2> QED  BY <1>3, <2>2
<1>5. ASSUME NEW k \in 0..n
      PROVE  Cardinality({q[l] : l \in 1..k}) = k
  <2> DEFINE part == [l \in 1..k |-> q[l]]
             image == {q[l] : l \in 1..k}
  <2>1. 1..k \subseteq 1..n
    BY <1>1
  <2>2. part \in [1..k -> image]
    OBVIOUS
  <2>3. \A a, b \in 1..k : part[a] = part[b] => a = b
    BY <1>4, <2>1
  <2>4. \A e \in image : \E l \in 1..k : part[l] = e
    OBVIOUS
  <2> HIDE DEF part, image
  <2>5. ExistsBijection(1..k, image)
    BY <2>2, <2>3, <2>4, Fun_IsBij, Fun_ExistsBij
  <2>6. IsFiniteSet(1..k) /\ Cardinality(1..k) = k
    BY FS_Interval
  <2> QED  BY <2>5, <2>6, FS_Bijection DEF image
<1>6. ASSUME NEW m \in 1..n PROVE Place(q[m]) = m
  <2>1. m - 1 \in 0..n /\ \A l \in 1..n : l < m <=> l \in 1..(m - 1)
    BY <1>1
  <2>2. {j \in FirstPositions : RanksBefore(j, q[m])} = {q[l] : l \in 1..(m - 1)}
    <3>1. \A l \in 1..(m - 1) : l \in 1..n
      BY <1>1
    <3> QED  BY <1>1, <1>3, <2>1, <3>1
  <2>3. Cardinality({q[l] : l \in 1..(m - 1)}) = m - 1
    BY <1>5, <2>1
  <2>4. Place(q[m]) = (m - 1) + 1
    BY <2>2, <2>3 DEF Place
  <2> QED  BY <2>4
<1>7. Cardinality(FirstPositions) = n
  <2>1. FirstPositions = {q[l] : l \in 1..n}
    BY <1>1
  <2>2. n \in 0..n
    BY <1>1
  <2> QED  BY <1>5, <2>1, <2>2
<1> QED  BY <1>6, <1>7 DEF n

(* Equal findings are of equal positions. *)
LEMMA FindingIsInjective ==
  ASSUME TypeOK, NEW i \in FirstPositions, NEW j \in FirstPositions, Finding(i) = Finding(j)
  PROVE  i = j
PROOF
<1>1. i \in Nat /\ j \in Nat /\ i \in Positions /\ j \in Positions
  BY FirstFindings
<1>2. /\ DiagnosticKey(Finding(i)) = DiagnosticKey(Clean(i))
      /\ DiagnosticKey(Finding(j)) = DiagnosticKey(Clean(j))
  BY <1>1, FindingExists DEF IsFindingOf
<1>3. j \in Repetitions(i) /\ i \in Repetitions(j)
  BY <1>1, <1>2, RepetitionKeys
<1>4. i <= j /\ j <= i
  BY <1>3 DEF FirstPositions
<1> QED  BY <1>1, <1>4

----------------------------------------------------------------------------
(* Budgets *)

(* The first a of s are those that rank before i, and leave it no room.    *)
NoRoom(s, q, a, i) ==
  /\ \A m \in 1..Len(s) : RanksBefore(q[m], i) <=> m <= a
  /\ SumTo(DiagnosticSizes(s), a) + DiagnosticSize(Finding(i)) > input.max_bytes

(* The first `looked` of s stay: they fit, and of the best max_items       *)
(* findings only those are missing for which they leave no room.           *)
Chosen(s, q, looked) ==
  /\ \A m \in 1..Len(s) : Place(q[m]) <= input.max_items
  /\ \A m \in 1..looked : SumTo(DiagnosticSizes(s), m) <= input.max_bytes
  /\ \A i \in FirstPositions : Place(i) <= input.max_items =>
       \/ \E m \in 1..Len(s) : q[m] = i
       \/ \E a \in 0..looked : NoRoom(s, q, a, i)

LEMMA TruncateStep ==
  ASSUME TypeOK, NEW s \in Seq(Diagnostics), NEW q, IsShown(s, q), ShowsAll(Len(s), q)
  PROVE  LET kept == Prefix(s, input.max_items)
         IN  \E r : IsShown(kept, r) /\ Chosen(kept, r, 0)
PROOF
<1> DEFINE limit == input.max_items
           l == Least(limit, Len(s))
           kept == Prefix(s, limit)
           r == [m \in 1..l |-> q[m]]
<1>1. limit \in Nat /\ Len(s) \in Nat
  BY DEF TypeOK, InputType
<1>2. /\ l \in Nat /\ l <= limit /\ l <= Len(s)
      /\ \A m \in 1..Len(s) : m <= limit => m \in 1..l
  <2> HIDE DEF limit
  <2> QED  BY <1>1 DEF Least
<1> HIDE DEF l
<1>3. /\ Len(kept) = l
      /\ \A m \in 1..l : m \in 1..Len(s) /\ kept[m] = s[m]
  <2>1. /\ SubSeq(s, 1, l) \in Seq(Diagnostics)
        /\ Len(SubSeq(s, 1, l)) = l
        /\ \A i \in 1..l : SubSeq(s, 1, l)[i] = s[i]
    BY <1>1, <1>2, SubSeqProperties
  <2> QED  BY <1>1, <1>2, <2>1 DEF Prefix, l
<1>4. /\ q \in [1..Len(s) -> FirstPositions]
      /\ \A m \in 1..Len(s) : s[m] = Finding(q[m])
      /\ \A m, n \in 1..Len(s) : m < n => RanksBefore(q[m], q[n])
      /\ \A m \in 1..Len(s) : Place(q[m]) = m
      /\ \A i \in FirstPositions : \E m \in 1..Len(s) : q[m] = i
  BY ShownInPlace DEF IsShown, ShowsAll
<1> HIDE DEF kept, limit
<1>5. IsShown(kept, r)
  BY <1>3, <1>4 DEF IsShown
<1>6. \A m \in 1..l : Place(r[m]) <= limit
  <2> SUFFICES ASSUME NEW m \in 1..l PROVE Place(r[m]) <= limit
    OBVIOUS
  <2>1. Place(r[m]) = m
    BY <1>3, <1>4
  <2> QED  BY <1>1, <1>2, <2>1
<1>7. ASSUME NEW i \in FirstPositions, Place(i) <= limit
      PROVE  \E m \in 1..l : r[m] = i
  <2>1. PICK m \in 1..Len(s) : q[m] = i
    BY <1>4
  <2>2. m <= limit
    BY <1>4, <1>7, <2>1
  <2> QED  BY <1>2, <2>1, <2>2
<1>8. Chosen(kept, r, 0)
  BY <1>3, <1>6, <1>7 DEF Chosen, limit
<1> QED  BY <1>5, <1>8 DEF kept, limit

(* The sizes before a place do not change when that place is removed.      *)
LEMMA SizesBefore ==
  ASSUME NEW s \in Seq(Diagnostics), NEW at \in DOMAIN s, NEW left, left = RemoveAt(s, at),
         NEW a \in Nat, a < at
  PROVE  SumTo(DiagnosticSizes(left), a) = SumTo(DiagnosticSizes(s), a)
PROOF
<1> DEFINE g == DiagnosticSizes(s)
           h == DiagnosticSizes(left)
<1>1. /\ left \in Seq(Diagnostics) /\ Len(left) = Len(s) - 1
      /\ \A i \in DOMAIN left : left[i] = s[IF i < at THEN i ELSE i + 1]
  BY RemoveAtProperties
<1>2. /\ \A i \in DOMAIN s : g[i] = DiagnosticSize(s[i]) /\ g[i] \in Nat
      /\ \A i \in DOMAIN left : h[i] = DiagnosticSize(left[i])
  BY <1>1, SizesOf
<1> HIDE DEF g, h
<1>3. DOMAIN left = 1..(Len(s) - 1) /\ DOMAIN s = 1..Len(s) /\ Len(s) \in Nat
  BY <1>1
<1>4. ASSUME NEW i \in 1..a
      PROVE  g[i] \in Nat /\ g[i] = h[i]
  <2>1. i \in DOMAIN s /\ i \in DOMAIN left /\ i < at
    BY <1>3
  <2> QED  BY <1>1, <1>2, <2>1
<1>5. IsFiniteSet(1..a)
  BY FS_Interval
<1>6. SumFunctionOnSet(g, 1..a) = SumFunctionOnSet(h, 1..a)
  BY <1>4, <1>5, SumSame
<1> QED  BY <1>6 DEF SumTo, g, h

(* One more place. *)
LEMMA SizesUpTo ==
  ASSUME NEW s \in Seq(Diagnostics), NEW m \in DOMAIN s
  PROVE  SumTo(DiagnosticSizes(s), m)
           = SumTo(DiagnosticSizes(s), m - 1) + DiagnosticSize(s[m])
PROOF
<1> DEFINE g == DiagnosticSizes(s)
<1>1. \A i \in DOMAIN s : g[i] = DiagnosticSize(s[i]) /\ g[i] \in Nat
  BY SizesOf
<1> HIDE DEF g
<1>2. /\ m \in 1..Len(s) /\ Len(s) \in Nat /\ DOMAIN s = 1..Len(s)
      /\ 1..m = (1..(m - 1)) \cup {m} /\ m \notin 1..(m - 1)
      /\ (1..(m - 1)) \cup {m} \subseteq DOMAIN s
  OBVIOUS
<1>3. IsFiniteSet(1..(m - 1))
  BY <1>2, FS_Interval
<1>4. \A x \in (1..(m - 1)) \cup {m} : g[x] \in Nat
  BY <1>1, <1>2
<1>5. SumFunctionOnSet(g, (1..(m - 1)) \cup {m}) = SumFunctionOnSet(g, 1..(m - 1)) + g[m]
  BY <1>2, <1>3, <1>4, SumAdd
<1> QED  BY <1>1, <1>2, <1>5 DEF SumTo, g

LEMMA RetainStep ==
  ASSUME TypeOK, NEW s \in Seq(Diagnostics), next \in DOMAIN s,
         NEW q, IsShown(s, q), Chosen(s, q, next - 1),
         used_bytes = SumTo(DiagnosticSizes(s), next - 1),
         NEW fits, fits = Fits(DiagnosticSize(s[next]))
  PROVE  \E r : /\ IsShown(Kept(s, fits), r)
                /\ Chosen(Kept(s, fits), r, Following(fits) - 1)
PROOF
<1> DEFINE n == Len(s)
           size == DiagnosticSize(s[next])
<1>1. /\ n \in Nat /\ next \in 1..n /\ next \in Nat
      /\ q \in [1..n -> FirstPositions]
      /\ \A m \in 1..n : s[m] = Finding(q[m]) /\ s[m] \in Diagnostics
      /\ \A a, b \in 1..n : a < b => RanksBefore(q[a], q[b])
      /\ used_bytes \in Nat /\ input.max_bytes \in Nat
  <2>1. /\ n \in Nat /\ next \in 1..n /\ next \in Nat
        /\ \A m \in 1..n : s[m] \in Diagnostics
    OBVIOUS
  <2>2. used_bytes \in Nat /\ input.max_bytes \in Nat
    BY DEF TypeOK, InputType
  <2> QED  BY <2>1, <2>2 DEF IsShown
<1>2. size \in Nat /\ size = DiagnosticSize(Finding(q[next]))
  BY <1>1, SizeTypes
<1>3. SumTo(DiagnosticSizes(s), next) = used_bytes + size
  BY SizesUpTo
<1> HIDE DEF n, size
<1>4. fits = (used_bytes + size <= input.max_bytes)
  BY DEF Fits, size
<1>5. /\ \A m \in 1..n : Place(q[m]) <= input.max_items
      /\ \A m \in 1..(next - 1) : SumTo(DiagnosticSizes(s), m) <= input.max_bytes
      /\ \A i \in FirstPositions : Place(i) <= input.max_items =>
           \/ \E m \in 1..n : q[m] = i
           \/ \E a \in 0..(next - 1) : NoRoom(s, q, a, i)
  BY DEF Chosen, n
<1>6. CASE fits
  <2>1. Kept(s, fits) = s /\ Following(fits) - 1 = next
    BY <1>1, <1>6 DEF Kept, Following
  <2>2. \A m \in 1..next : SumTo(DiagnosticSizes(s), m) <= input.max_bytes
    <3>1. \A m \in 1..next : m \in 1..(next - 1) \/ m = next
      BY <1>1
    <3> QED  BY <1>3, <1>4, <1>5, <1>6, <3>1
  <2>3. 0..(next - 1) \subseteq 0..next
    BY <1>1
  <2>4. Chosen(s, q, next)
    BY <1>5, <2>2, <2>3 DEF Chosen, n
  <2> QED  BY <2>1, <2>4
<1>7. CASE ~fits
  <2> DEFINE left == RemoveAt(s, next)
             At(i) == IF i < next THEN i ELSE i + 1
             r == [m \in 1..(n - 1) |-> q[At(m)]]
  <2>1. Kept(s, fits) = left /\ Following(fits) - 1 = next - 1
    BY <1>7 DEF Kept, Following
  <2>2. /\ Len(left) = n - 1
        /\ \A m \in 1..(n - 1) : left[m] = s[At(m)]
    <3>1. /\ left \in Seq(Diagnostics) /\ Len(left) = Len(s) - 1
          /\ \A i \in DOMAIN left : left[i] = s[IF i < next THEN i ELSE i + 1]
      BY RemoveAtProperties
    <3> HIDE DEF left
    <3>2. DOMAIN left = 1..(n - 1)
      BY <3>1 DEF n
    <3> QED  BY <3>1, <3>2 DEF n
  <2>s. \A a \in 0..(next - 1) :
          SumTo(DiagnosticSizes(left), a) = SumTo(DiagnosticSizes(s), a)
    <3>1. \A a \in 0..(next - 1) : a \in Nat /\ a < next
      BY <1>1
    <3> QED  BY <3>1, SizesBefore
  <2>3. \A m \in 1..(n - 1) : At(m) \in 1..n /\ At(m) # next
    BY <1>1
  <2>4. \A a, b \in 1..(n - 1) : a < b => At(a) < At(b)
    BY <1>1
  <2>5. ASSUME NEW m \in 1..n, m # next
        PROVE  \E l \in 1..(n - 1) : At(l) = m
    <3>1. CASE m < next
      <4>1. m \in 1..(n - 1) /\ At(m) = m
        BY <1>1, <3>1
      <4> QED  BY <4>1
    <3>2. CASE next < m
      <4>1. m - 1 \in 1..(n - 1) /\ ~(m - 1 < next) /\ (m - 1) + 1 = m
        BY <1>1, <3>2
      <4> QED  BY <4>1
    <3> QED  BY <1>1, <2>5, <3>1, <3>2
  <2>a. \A a \in 0..(next - 1), m \in 1..(n - 1) : At(m) <= a <=> m <= a
    BY <1>1
  <2>b. \A m \in 1..(n - 1) : (At(m) < next <=> m <= next - 1) /\ At(m) \in Nat
    BY <1>1
  <2> HIDE DEF left, At
  <2>6. \A m \in 1..(n - 1) : r[m] = q[At(m)] /\ r[m] \in FirstPositions
    BY <1>1, <2>3
  <2>7. IsShown(left, r)
    <3>1. r \in [1..(n - 1) -> FirstPositions]
      BY <2>6
    <3>2. \A m \in 1..(n - 1) : left[m] = Finding(r[m])
      BY <1>1, <2>2, <2>3, <2>6
    <3>3. \A a, b \in 1..(n - 1) : a < b => RanksBefore(r[a], r[b])
      BY <1>1, <2>3, <2>4, <2>6
    <3> HIDE DEF r
    <3> QED  BY <2>2, <3>1, <3>2, <3>3 DEF IsShown
  <2> HIDE DEF r
  <2>8. \A m \in 1..(n - 1) : Place(r[m]) <= input.max_items
    BY <1>5, <2>3, <2>6
  <2>9. \A m \in 1..(next - 1) : SumTo(DiagnosticSizes(left), m) <= input.max_bytes
    <3>1. 1..(next - 1) \subseteq 0..(next - 1)
      OBVIOUS
    <3> QED  BY <1>5, <2>s, <3>1
  <2>10. ASSUME NEW i \in FirstPositions, NEW a \in 0..(next - 1), NoRoom(s, q, a, i)
         PROVE  NoRoom(left, r, a, i)
    <3>1. \A m \in 1..(n - 1) : RanksBefore(r[m], i) <=> m <= a
      BY <2>3, <2>6, <2>10, <2>a DEF NoRoom, n
    <3> QED  BY <2>2, <2>10, <2>s, <3>1 DEF NoRoom
  <2>11. NoRoom(left, r, next - 1, q[next])
    <3>1. ASSUME NEW m \in 1..(n - 1)
          PROVE  RanksBefore(r[m], q[next]) <=> m <= next - 1
      <4>1. CASE At(m) < next
        BY <1>1, <2>3, <2>6, <2>b, <4>1
      <4>2. CASE next < At(m)
        <5>1. RanksBefore(q[next], r[m])
          BY <1>1, <2>3, <2>6, <4>2
        <5>2. ~RanksBefore(r[m], q[next])
          BY <1>1, <2>6, <5>1, FirstFindings, BeforeIsStrict
        <5> QED  BY <1>1, <2>b, <4>2, <5>2
      <4> QED  BY <1>1, <2>3, <2>b, <4>1, <4>2
    <3>2. next - 1 \in 0..(next - 1)
      BY <1>1
    <3>3. SumTo(DiagnosticSizes(left), next - 1) = used_bytes
      BY <2>s, <3>2
    <3>4. used_bytes + size > input.max_bytes
      <4>1. \A b, c, d \in Nat : ~(b + c <= d) => b + c > d
        OBVIOUS
      <4> QED  BY <1>1, <1>2, <1>4, <1>7, <4>1
    <3> QED  BY <1>2, <2>2, <3>1, <3>3, <3>4 DEF NoRoom
  <2>12. ASSUME NEW i \in FirstPositions, Place(i) <= input.max_items
         PROVE  \/ \E m \in 1..(n - 1) : r[m] = i
                \/ \E a \in 0..(next - 1) : NoRoom(left, r, a, i)
    <3>1. \/ \E m \in 1..n : q[m] = i
          \/ \E a \in 0..(next - 1) : NoRoom(s, q, a, i)
      BY <1>5, <2>12
    <3>2. ASSUME NEW m \in 1..n, q[m] = i, m # next
          PROVE  \E l \in 1..(n - 1) : r[l] = i
      BY <2>5, <2>6, <3>2
    <3>3. next - 1 \in 0..(next - 1)
      BY <1>1
    <3> QED  BY <2>10, <2>11, <3>1, <3>2, <3>3
  <2>13. Chosen(left, r, next - 1)
    BY <2>2, <2>8, <2>9, <2>12 DEF Chosen
  <2> QED  BY <2>1, <2>7, <2>13
<1>8. fits \in BOOLEAN
  BY DEF Fits
<1> QED  BY <1>6, <1>7, <1>8

(* When nothing is missing, what is returned is everything.                *)
LEMMA AllShown ==
  ASSUME TypeOK, NEW s \in Seq(Diagnostics), NEW q, IsShown(s, q)
  PROVE  /\ Range(s) \subseteq Findings
         /\ IsInjective(s)
         /\ Len(s) = Cardinality(FirstPositions) => Range(s) = Findings
PROOF
<1> DEFINE n == Len(s)
<1>1. /\ n \in Nat /\ DOMAIN s = 1..n
      /\ q \in [1..n -> FirstPositions]
      /\ \A m \in 1..n : s[m] = Finding(q[m])
      /\ \A a, b \in 1..n : a < b => RanksBefore(q[a], q[b])
  BY DEF IsShown
<1> HIDE DEF n
<1>2. \A i \in FirstPositions : ~RanksBefore(i, i)
  BY FirstFindings, BeforeIsStrict
<1>3. \A a, b \in 1..n : q[a] = q[b] => a = b
  <2> SUFFICES ASSUME NEW a \in 1..n, NEW b \in 1..n, q[a] = q[b], a # b PROVE FALSE
    OBVIOUS
  <2>1. a < b \/ b < a
    OBVIOUS
  <2> QED  BY <1>1, <1>2, <2>1
<1>4. \A a, b \in 1..n : s[a] = s[b] => a = b
  <2> SUFFICES ASSUME NEW a \in 1..n, NEW b \in 1..n, s[a] = s[b] PROVE a = b
    OBVIOUS
  <2>1. Finding(q[a]) = Finding(q[b]) /\ q[a] \in FirstPositions /\ q[b] \in FirstPositions
    BY <1>1
  <2>2. q[a] = q[b]
    BY <2>1, FindingIsInjective
  <2> QED  BY <1>3, <2>2
<1>5. IsInjective(s)
  BY <1>1, <1>4 DEF IsInjective
<1>6. Range(s) = {Finding(q[m]) : m \in 1..n}
  BY <1>1 DEF Range
<1>7. Range(s) \subseteq Findings
  BY <1>1, <1>6 DEF Findings
<1>8. ASSUME n = Cardinality(FirstPositions) PROVE Findings \subseteq Range(s)
  <2>1. IsFiniteSet(FirstPositions)
    <3>1. FirstPositions \in SUBSET Given /\ IsFiniteSet(Given)
      BY PositionsFinite
    <3> QED  BY <3>1, FS_Subset
  <2>2. IsFiniteSet(1..n) /\ Cardinality(1..n) = n
    BY <1>1, FS_Interval
  <2>3. q \in Injection(1..n, FirstPositions)
    BY <1>1, <1>3, Fun_IsInj
  <2>4. q \in Surjection(1..n, FirstPositions)
    BY <1>8, <2>1, <2>2, <2>3, FS_Injection
  <2>5. \A i \in FirstPositions : \E m \in 1..n : q[m] = i
    BY <2>4 DEF Surjection
  <2> QED  BY <1>6, <2>5 DEF Findings
<1> QED  BY <1>5, <1>7, <1>8 DEF n

----------------------------------------------------------------------------
(* The invariant of the diagnostics *)

(* How far the loop over the diagnostics has come. *)
Looked == IF stage = "retain" THEN next - 1 ELSE Len(deduplicated)

FindingsTraced ==
  /\ input \in Inputs
  /\ stage = "sanitize" =>
       diagnostics = input.diagnostics /\ deduplicated = <<>> /\ next = 1
  /\ stage = "suppress" =>
       /\ deduplicated = <<>>
       /\ \E k \in Nat : \E p :
            /\ IsTrace(diagnostics, p, CountedUpTo(k))
            /\ Passed(p, Len(diagnostics), k, next)
  /\ stage = "deduplicate" =>
       \E k \in Nat : \E p : \E q :
         IsTrace(diagnostics, p, Later(k)) /\ IsMerged(deduplicated, q, k)
  /\ stage \in {"sort", "deduplicate_failures", "truncate"} =>
       \E q : IsShown(deduplicated, q) /\ ShowsAll(Len(deduplicated), q)
  /\ stage \in {"retain", "retain_failures", "done"} =>
       /\ \E q : IsShown(deduplicated, q) /\ Chosen(deduplicated, q, Looked)
       /\ ranked.diagnostics = Cardinality(FirstPositions)
  /\ stage = "done" =>
       reduction.omitted_diagnostics = ranked.diagnostics - Len(deduplicated)

(* The reference is about the arguments alone, which do not change.        *)
LEMMA InputKept ==
  ASSUME input' = input
  PROVE  /\ Given' = Given
         /\ \A i : Clean(i)' = Clean(i)
         /\ \A k : CountedUpTo(k)' = CountedUpTo(k)
         /\ \A k : Later(k)' = Later(k)
         /\ FirstPositions' = FirstPositions
         /\ \A i : Finding(i)' = Finding(i)
         /\ \A i : Place(i)' = Place(i)
         /\ \A s, p, P : IsTrace(s, p, P)' <=> IsTrace(s, p, P)
         /\ \A s, q, k : IsMerged(s, q, k)' <=> IsMerged(s, q, k)
         /\ \A s, q : IsShown(s, q)' <=> IsShown(s, q)
         /\ \A n, q : ShowsAll(n, q)' <=> ShowsAll(n, q)
         /\ \A s, q, n : Chosen(s, q, n)' <=> Chosen(s, q, n)
PROOF
<1>1. Given' = Given
  BY DEF Given
<1>2. \A i : Clean(i)' = Clean(i)
  BY DEF Clean
<1>3. \A i : Counts(i)' <=> Counts(i)
  BY <1>2 DEF Counts
<1>4. \A k : CountedUpTo(k)' = CountedUpTo(k)
  BY <1>1, <1>3 DEF CountedUpTo
<1>5. Positions' = Positions
  BY <1>3 DEF Positions
<1>6. \A k : Later(k)' = Later(k)
  BY <1>5 DEF Later
<1>7. \A i : Repetitions(i)' = Repetitions(i)
  BY <1>2, <1>5 DEF Repetitions
<1>8. FirstPositions' = FirstPositions
  BY <1>5, <1>7 DEF FirstPositions
<1>9. \A S : Total(S)' = Total(S)
  BY <1>2 DEF Total
<1>10. \A i : Finding(i)' = Finding(i)
  BY <1>2, <1>7, <1>9 DEF Finding
<1>11. \A i, j : RanksBefore(i, j)' <=> RanksBefore(i, j)
  BY <1>10 DEF RanksBefore
<1>12. \A i : Place(i)' = Place(i)
  BY <1>8, <1>11 DEF Place
<1>13. \A s, p, P : IsTrace(s, p, P)' <=> IsTrace(s, p, P)
  BY <1>2 DEF IsTrace
<1>14. \A d, i, S : IsFindingOf(d, i, S)' <=> IsFindingOf(d, i, S)
  BY <1>2, <1>9 DEF IsFindingOf, BestOf
<1>15. \A k : FirstUpTo(k)' = FirstUpTo(k)
  BY <1>8 DEF FirstUpTo
<1>16. \A i, k : RepetitionsUpTo(i, k)' = RepetitionsUpTo(i, k)
  BY <1>7 DEF RepetitionsUpTo
<1>17. \A s, q, k : IsMerged(s, q, k)' <=> IsMerged(s, q, k)
  BY <1>14, <1>15, <1>16 DEF IsMerged
<1>18. \A s, q : IsShown(s, q)' <=> IsShown(s, q)
  BY <1>8, <1>10, <1>11 DEF IsShown
<1>19. \A n, q : ShowsAll(n, q)' <=> ShowsAll(n, q)
  BY <1>8 DEF ShowsAll
<1>20. \A s, q, a, i : NoRoom(s, q, a, i)' <=> NoRoom(s, q, a, i)
  BY <1>10, <1>11 DEF NoRoom
<1>21. \A s, q, n : Chosen(s, q, n)' <=> Chosen(s, q, n)
  BY <1>8, <1>12, <1>20 DEF Chosen
<1> QED  BY <1>1, <1>2, <1>4, <1>6, <1>8, <1>10, <1>12, <1>13, <1>17, <1>18, <1>19, <1>21

LEMMA TracedInit == Init => FindingsTraced
PROOF
<1> SUFFICES ASSUME Init PROVE FindingsTraced
  OBVIOUS
<1> QED  BY DEF Init, FindingsTraced

LEMMA SanitizedTrace ==
  ASSUME TypeOK
  PROVE  LET s == [i \in Given |-> Clean(i)]
             p == [i \in Given |-> i]
         IN  IsTrace(s, p, CountedUpTo(0)) /\ Passed(p, Len(s), 0, 1)
PROOF
<1> DEFINE n == Len(input.diagnostics)
           s == [i \in Given |-> Clean(i)]
           p == [i \in Given |-> i]
<1>1. n \in Nat /\ Given = 1..n
  BY PositionsFinite
<1> HIDE DEF n
<1>2. CountedUpTo(0) = Given
  BY <1>1 DEF CountedUpTo
<1>3. Len(s) = n
  <2>1. s \in Seq(Diagnostics)
    BY <1>1, CleanType
  <2>2. DOMAIN s = 1..n
    BY <1>1
  <2> HIDE DEF s
  <2> QED  BY <1>1, <2>1, <2>2
<1>4. p \in [1..n -> Given] /\ \A i \in 1..n : p[i] = i /\ s[i] = Clean(i)
  BY <1>1
<1> HIDE DEF p, s
<1>5. Enumerates(p, n, Given)
  BY <1>1, <1>4 DEF Enumerates
<1>6. IsTrace(s, p, CountedUpTo(0))
  BY <1>2, <1>3, <1>4, <1>5 DEF IsTrace
<1>7. Passed(p, n, 0, 1)
  BY <1>1, <1>4 DEF Passed
<1> QED  BY <1>3, <1>6, <1>7 DEF s, p

LEMMA NothingMerged ==
  ASSUME TypeOK
  PROVE  Later(0) = Positions /\ IsMerged(<<>>, <<>>, 0)
PROOF
<1>1. \A i \in Positions : i \in Nat /\ i > 0
  BY PositionsFinite
<1>2. Later(0) = Positions
  BY <1>1 DEF Later
<1>3. FirstUpTo(0) = {}
  BY <1>1, PositionsFinite DEF FirstUpTo
<1>4. Enumerates(<<>>, 0, {})
  BY DEF Enumerates
<1>5. Len(<<>>) = 0 /\ 1..0 = {}
  OBVIOUS
<1> QED  BY <1>2, <1>3, <1>4, <1>5 DEF IsMerged

LEMMA TracedStep == IInv /\ BytesCharged /\ FindingsTraced /\ [Next]_vars => FindingsTraced'
PROOF
<1> SUFFICES ASSUME IInv, BytesCharged, FindingsTraced, [Next]_vars
             PROVE  FindingsTraced'
  OBVIOUS
<1>t. /\ TypeOK /\ diagnostics \in Seq(Diagnostics) /\ deduplicated \in Seq(Diagnostics)
      /\ used_bytes \in Nat /\ input \in Inputs
  BY DEF IInv, TypeOK, FindingsTraced
<1>i. input' = input
  BY DEF Next, Sanitize, SuppressNext, DeduplicateNext, RankDiagnostics, SortFailures,
         DeduplicateNextFailure, LoopEnds, TruncateItems, RetainDiagnostic, RetainFailure,
         Return, Done, vars
<1>1. CASE Sanitize
  <2> DEFINE s == [i \in Given |-> Clean(i)]
  <2>1. /\ stage = "sanitize" /\ stage' = "suppress" /\ UNCHANGED <<deduplicated, next>>
        /\ diagnostics' = [i \in DOMAIN diagnostics |-> SanitizedDiagnostic(diagnostics[i])]
    BY <1>1 DEF Sanitize
  <2>2. diagnostics = input.diagnostics /\ deduplicated = <<>> /\ next = 1
    BY <2>1 DEF FindingsTraced
  <2>3. diagnostics' = s
    BY <2>1, <2>2 DEF Given, Clean
  <2>4. PICK p : IsTrace(s, p, CountedUpTo(0)) /\ Passed(p, Len(s), 0, 1)
    BY <1>t, SanitizedTrace
  <2> HIDE DEF s
  <2>5. IsTrace(diagnostics', p, CountedUpTo(0)) /\ Passed(p, Len(diagnostics'), 0, next')
    BY <2>1, <2>2, <2>3, <2>4
  <2>6. /\ IsTrace(diagnostics, p, CountedUpTo(0))'
        /\ Passed(p, Len(diagnostics), 0, next)'
    BY <1>i, <2>5, InputKept DEF Passed
  <2> QED  BY <1>t, <1>i, <2>1, <2>2, <2>6 DEF FindingsTraced
<1>2. CASE SuppressNext
  <2> DEFINE keeps == ~Suppressed(diagnostics[next], diagnostics)
  <2>1. /\ stage = "suppress" /\ next \in DOMAIN diagnostics
        /\ diagnostics' = Kept(diagnostics, keeps) /\ next' = Following(keeps)
        /\ UNCHANGED <<stage, deduplicated>>
    BY <1>2 DEF SuppressNext
  <2>2. deduplicated = <<>>
    BY <2>1 DEF FindingsTraced
  <2>3. PICK k \in Nat : \E p : /\ IsTrace(diagnostics, p, CountedUpTo(k))
                               /\ Passed(p, Len(diagnostics), k, next)
    BY <2>1 DEF FindingsTraced
  <2>4. PICK p : /\ IsTrace(diagnostics, p, CountedUpTo(k))
                 /\ Passed(p, Len(diagnostics), k, next)
    BY <2>3
  <2> HIDE DEF keeps
  <2>5. keeps = ~Suppressed(diagnostics[next], diagnostics)
    BY DEF keeps
  <2>6. PICK q : /\ IsTrace(Kept(diagnostics, keeps), q, CountedUpTo(k + 1))
                 /\ Passed(q, Len(Kept(diagnostics, keeps)), k + 1, Following(keeps))
    BY <1>t, <2>1, <2>4, <2>5, SuppressStep
  <2>7. /\ IsTrace(diagnostics', q, CountedUpTo(k + 1))
        /\ Passed(q, Len(diagnostics'), k + 1, next')
    BY <2>1, <2>6
  <2>8. /\ k + 1 \in Nat
        /\ IsTrace(diagnostics, q, CountedUpTo(k + 1))'
        /\ Passed(q, Len(diagnostics), k + 1, next)'
    BY <1>i, <2>7, InputKept DEF Passed
  <2> QED  BY <1>t, <1>i, <2>1, <2>2, <2>8 DEF FindingsTraced
<1>3. CASE LoopEnds("suppress", diagnostics, "deduplicate")
  <2>1. /\ stage = "suppress" /\ stage' = "deduplicate" /\ next \notin DOMAIN diagnostics
        /\ UNCHANGED <<diagnostics, deduplicated>>
    BY <1>3 DEF LoopEnds
  <2>2. deduplicated = <<>>
    BY <2>1 DEF FindingsTraced
  <2>3. PICK k \in Nat : \E p : /\ IsTrace(diagnostics, p, CountedUpTo(k))
                               /\ Passed(p, Len(diagnostics), k, next)
    BY <2>1 DEF FindingsTraced
  <2>4. PICK p : /\ IsTrace(diagnostics, p, CountedUpTo(k))
                 /\ Passed(p, Len(diagnostics), k, next)
    BY <2>3
  <2>5. CountedUpTo(k) = Positions
    BY <1>t, <2>1, <2>4, SuppressEnd
  <2>6. IsTrace(diagnostics', p, Later(0)) /\ IsMerged(deduplicated', <<>>, 0)
    BY <1>t, <2>1, <2>2, <2>4, <2>5, NothingMerged
  <2>7. IsTrace(diagnostics, p, Later(0))' /\ IsMerged(deduplicated, <<>>, 0)'
    BY <1>i, <2>6, InputKept
  <2> QED  BY <1>t, <1>i, <2>1, <2>7 DEF FindingsTraced
<1>4. CASE DeduplicateNext
  <2> DEFINE d == Head(diagnostics)
             same == {i \in DOMAIN deduplicated :
                        DiagnosticKey(deduplicated[i]) = DiagnosticKey(d)}
  <2>1. /\ stage = "deduplicate" /\ diagnostics # <<>> /\ stage' = stage
        /\ diagnostics' = Tail(diagnostics)
        /\ deduplicated' = IF same = {} THEN Append(deduplicated, d)
                           ELSE [i \in DOMAIN deduplicated |->
                                   IF i \in same THEN Merged(deduplicated[i], d)
                                   ELSE deduplicated[i]]
    BY <1>4 DEF DeduplicateNext
  <2>2. PICK k \in Nat : \E p : \E q :
          IsTrace(diagnostics, p, Later(k)) /\ IsMerged(deduplicated, q, k)
    BY <2>1 DEF FindingsTraced
  <2>3. PICK p : \E q : IsTrace(diagnostics, p, Later(k)) /\ IsMerged(deduplicated, q, k)
    BY <2>2
  <2>4. PICK q : IsTrace(diagnostics, p, Later(k)) /\ IsMerged(deduplicated, q, k)
    BY <2>3
  <2>5. PICK j \in Nat : /\ \E r : IsTrace(Tail(diagnostics), r, Later(j))
                        /\ \E r : IsMerged(deduplicated', r, j)
    BY <1>t, <2>1, <2>4, DeduplicateStep
  <2>6. PICK r : IsTrace(Tail(diagnostics), r, Later(j))
    BY <2>5
  <2>7. PICK t : IsMerged(deduplicated', t, j)
    BY <2>5
  <2>8. IsTrace(diagnostics', r, Later(j))
    BY <2>1, <2>6
  <2>9. IsTrace(diagnostics, r, Later(j))' /\ IsMerged(deduplicated, t, j)'
    BY <1>i, <2>7, <2>8, InputKept
  <2> HIDE DEF d, same
  <2> QED  BY <1>t, <1>i, <2>1, <2>9 DEF FindingsTraced
<1>5. CASE RankDiagnostics
  <2>1. /\ stage = "deduplicate" /\ stage' = "sort" /\ diagnostics = <<>>
        /\ \E p \in StableOrders(RankKeys) : deduplicated' = Reordered(deduplicated, p)
    BY <1>5 DEF RankDiagnostics
  <2>2. PICK k \in Nat : \E p : \E q :
          IsTrace(diagnostics, p, Later(k)) /\ IsMerged(deduplicated, q, k)
    BY <2>1 DEF FindingsTraced
  <2>3. PICK p : \E q : IsTrace(diagnostics, p, Later(k)) /\ IsMerged(deduplicated, q, k)
    BY <2>2
  <2>4. PICK q : IsTrace(<<>>, p, Later(k)) /\ IsMerged(deduplicated, q, k)
    BY <2>1, <2>3
  <2>5. /\ Enumerates(q, Len(deduplicated), FirstPositions)
        /\ \A m \in 1..Len(deduplicated) : deduplicated[m] = Finding(q[m])
    BY <1>t, <2>4, DeduplicateEnd
  <2>6. PICK o \in StableOrders([i \in DOMAIN deduplicated |-> RankKey(deduplicated[i])]) :
          deduplicated' = Reordered(deduplicated, o)
    BY <2>1 DEF RankKeys
  <2>7. PICK r : /\ IsShown(Reordered(deduplicated, o), r)
                 /\ ShowsAll(Len(Reordered(deduplicated, o)), r)
    BY <1>t, <2>5, <2>6, RankStep
  <2>8. IsShown(deduplicated', r) /\ ShowsAll(Len(deduplicated'), r)
    BY <2>6, <2>7
  <2>9. (IsShown(deduplicated, r) /\ ShowsAll(Len(deduplicated), r))'
    BY <1>i, <2>8, InputKept
  <2> QED  BY <1>t, <1>i, <2>1, <2>9 DEF FindingsTraced
<1>6. CASE \/ SortFailures \/ DeduplicateNextFailure
           \/ LoopEnds("deduplicate_failures", test_failures, "truncate")
  <2>1. /\ stage \in {"sort", "deduplicate_failures"}
        /\ stage' \in {"sort", "deduplicate_failures", "truncate"}
        /\ deduplicated' = deduplicated
    BY <1>6 DEF SortFailures, DeduplicateNextFailure, LoopEnds
  <2>2. PICK q : IsShown(deduplicated, q) /\ ShowsAll(Len(deduplicated), q)
    BY <2>1 DEF FindingsTraced
  <2>3. IsShown(deduplicated', q) /\ ShowsAll(Len(deduplicated'), q)
    BY <2>1, <2>2
  <2>4. (IsShown(deduplicated, q) /\ ShowsAll(Len(deduplicated), q))'
    BY <1>i, <2>3, InputKept
  <2> QED  BY <1>t, <1>i, <2>1, <2>4 DEF FindingsTraced
<1>7. CASE TruncateItems
  <2> DEFINE kept == Prefix(deduplicated, input.max_items)
  <2>1. /\ stage = "truncate" /\ stage' = "retain" /\ deduplicated' = kept
        /\ ranked' = [diagnostics |-> Len(deduplicated), failures |-> Len(test_failures)]
        /\ next' = next
    BY <1>7 DEF TruncateItems
  <2>2. PICK q : IsShown(deduplicated, q) /\ ShowsAll(Len(deduplicated), q)
    BY <2>1 DEF FindingsTraced
  <2>3. PICK r : IsShown(kept, r) /\ Chosen(kept, r, 0)
    BY <1>t, <2>2, TruncateStep
  <2>4. ranked'.diagnostics = Cardinality(FirstPositions)
    BY <1>t, <2>1, <2>2, ShownInPlace
  <2> HIDE DEF kept
  <2>5. next = 1 /\ Looked' = 0
    BY <2>1 DEF BytesCharged, Looked
  <2>6. IsShown(deduplicated', r) /\ Chosen(deduplicated', r, Looked')
    BY <2>1, <2>3, <2>5
  <2>7. /\ (IsShown(deduplicated, r) /\ Chosen(deduplicated, r, Looked))'
        /\ (ranked.diagnostics = Cardinality(FirstPositions))'
    BY <1>i, <2>4, <2>6, InputKept
  <2> QED  BY <1>t, <1>i, <2>1, <2>7 DEF FindingsTraced
<1>8. CASE RetainDiagnostic
  <2> DEFINE size == DiagnosticSize(deduplicated[next])
             fits == Fits(size)
  <2>1. /\ stage = "retain" /\ stage' = stage /\ next \in DOMAIN deduplicated
        /\ deduplicated' = Kept(deduplicated, fits)
        /\ next' = Following(fits) /\ ranked' = ranked
    BY <1>8 DEF RetainDiagnostic
  <2>2. PICK q : IsShown(deduplicated, q) /\ Chosen(deduplicated, q, Looked)
    BY <2>1 DEF FindingsTraced
  <2> HIDE DEF fits
  <2>3. fits = Fits(DiagnosticSize(deduplicated[next]))
    BY DEF fits
  <2>4. /\ used_bytes = SumTo(DiagnosticSizes(deduplicated), next - 1)
        /\ Looked = next - 1 /\ Looked' = Following(fits) - 1
    BY <2>1 DEF BytesCharged, Looked
  <2>5. PICK r : /\ IsShown(Kept(deduplicated, fits), r)
                 /\ Chosen(Kept(deduplicated, fits), r, Following(fits) - 1)
    BY <1>t, <2>1, <2>2, <2>3, <2>4, RetainStep
  <2>6. IsShown(deduplicated', r) /\ Chosen(deduplicated', r, Looked')
    BY <2>1, <2>4, <2>5
  <2>7. ranked.diagnostics = Cardinality(FirstPositions)
    BY <2>1 DEF FindingsTraced
  <2>8. /\ (IsShown(deduplicated, r) /\ Chosen(deduplicated, r, Looked))'
        /\ (ranked.diagnostics = Cardinality(FirstPositions))'
    BY <1>i, <2>1, <2>6, <2>7, InputKept
  <2> QED  BY <1>t, <1>i, <2>1, <2>8 DEF FindingsTraced
<1>9. CASE \/ LoopEnds("retain", deduplicated, "retain_failures")
           \/ RetainFailure \/ Return
           \/ UNCHANGED vars /\ stage \in {"retain", "retain_failures", "done"}
  <2>1. /\ stage \in {"retain", "retain_failures", "done"}
        /\ stage' \in {"retain", "retain_failures", "done"}
        /\ deduplicated' = deduplicated /\ ranked' = ranked
    BY <1>9 DEF LoopEnds, RetainFailure, Return, vars
  <2>2. Looked' = Looked
    <3>1. CASE LoopEnds("retain", deduplicated, "retain_failures")
      <4>1. /\ stage = "retain" /\ stage' = "retain_failures"
            /\ next \notin DOMAIN deduplicated /\ next \in Nat \ {0}
        BY <3>1 DEF LoopEnds, IInv, TypeOK
      <4>2. next <= Len(deduplicated) + 1
        BY <4>1 DEF BytesCharged
      <4>3. next - 1 = Len(deduplicated)
        BY <1>t, <4>1, <4>2
      <4> QED  BY <2>1, <4>1, <4>3 DEF Looked
    <3>2. CASE RetainFailure \/ Return
      <4>1. stage # "retain" /\ stage' # "retain"
        BY <3>2 DEF RetainFailure, Return
      <4> QED  BY <2>1, <4>1 DEF Looked
    <3>3. CASE UNCHANGED vars
      BY <3>3 DEF Looked, vars
    <3> QED  BY <1>9, <3>1, <3>2, <3>3
  <2>3. PICK q : IsShown(deduplicated, q) /\ Chosen(deduplicated, q, Looked)
    BY <2>1 DEF FindingsTraced
  <2>5. IsShown(deduplicated', q) /\ Chosen(deduplicated', q, Looked')
    BY <2>1, <2>2, <2>3
  <2>6. ranked.diagnostics = Cardinality(FirstPositions)
    BY <2>1 DEF FindingsTraced
  <2>7. /\ (IsShown(deduplicated, q) /\ Chosen(deduplicated, q, Looked))'
        /\ (ranked.diagnostics = Cardinality(FirstPositions))'
    BY <1>i, <2>1, <2>5, <2>6, InputKept
  <2>8. stage' = "done" =>
          reduction'.omitted_diagnostics = ranked'.diagnostics - Len(deduplicated')
    <3>1. CASE Return
      BY <2>1, <3>1 DEF Return
    <3>2. CASE ~Return
      <4>1. stage' = "done" => stage = "done" /\ reduction' = reduction
        BY <1>9, <3>2 DEF LoopEnds, RetainFailure, vars
      <4> QED  BY <2>1, <4>1 DEF FindingsTraced
    <3> QED  BY <3>1, <3>2
  <2> QED  BY <1>t, <1>i, <2>1, <2>7, <2>8 DEF FindingsTraced
<1>10. CASE UNCHANGED vars /\ stage \notin {"retain", "retain_failures", "done"}
  <2>1. UNCHANGED <<stage, diagnostics, deduplicated, next>>
    BY <1>10 DEF vars
  <2>2. stage \in {"sanitize", "suppress", "deduplicate", "sort", "deduplicate_failures",
                   "truncate"}
    BY <1>10 DEF IInv, TypeOK, Stages
  <2>3. CASE stage = "sanitize"
    BY <1>t, <1>i, <2>1, <2>3 DEF FindingsTraced
  <2>4. CASE stage = "suppress"
    <3>1. PICK k \in Nat : \E p : /\ IsTrace(diagnostics, p, CountedUpTo(k))
                                 /\ Passed(p, Len(diagnostics), k, next)
      BY <2>4 DEF FindingsTraced
    <3>2. PICK p : /\ IsTrace(diagnostics, p, CountedUpTo(k))
                   /\ Passed(p, Len(diagnostics), k, next)
      BY <3>1
    <3>3. IsTrace(diagnostics', p, CountedUpTo(k)) /\ Passed(p, Len(diagnostics'), k, next')
      BY <2>1, <3>2
    <3>4. /\ IsTrace(diagnostics, p, CountedUpTo(k))'
          /\ Passed(p, Len(diagnostics), k, next)'
      BY <1>i, <3>3, InputKept DEF Passed
    <3>5. deduplicated' = <<>>
      BY <2>1, <2>4 DEF FindingsTraced
    <3> QED  BY <1>t, <1>i, <2>1, <2>4, <3>4, <3>5 DEF FindingsTraced
  <2>5. CASE stage = "deduplicate"
    <3>1. PICK k \in Nat : \E p : \E q :
            IsTrace(diagnostics, p, Later(k)) /\ IsMerged(deduplicated, q, k)
      BY <2>5 DEF FindingsTraced
    <3>2. PICK p : \E q : IsTrace(diagnostics, p, Later(k)) /\ IsMerged(deduplicated, q, k)
      BY <3>1
    <3>3. PICK q : IsTrace(diagnostics, p, Later(k)) /\ IsMerged(deduplicated, q, k)
      BY <3>2
    <3>4. IsTrace(diagnostics', p, Later(k)) /\ IsMerged(deduplicated', q, k)
      BY <2>1, <3>3
    <3>5. IsTrace(diagnostics, p, Later(k))' /\ IsMerged(deduplicated, q, k)'
      BY <1>i, <3>4, InputKept
    <3> QED  BY <1>t, <1>i, <2>1, <2>5, <3>5 DEF FindingsTraced
  <2>6. CASE stage \in {"sort", "deduplicate_failures", "truncate"}
    <3>1. PICK q : IsShown(deduplicated, q) /\ ShowsAll(Len(deduplicated), q)
      BY <2>6 DEF FindingsTraced
    <3>2. IsShown(deduplicated', q) /\ ShowsAll(Len(deduplicated'), q)
      BY <2>1, <3>1
    <3>3. (IsShown(deduplicated, q) /\ ShowsAll(Len(deduplicated), q))'
      BY <1>i, <3>2, InputKept
    <3> QED  BY <1>t, <1>i, <2>1, <2>6, <3>3 DEF FindingsTraced
  <2> QED  BY <2>2, <2>3, <2>4, <2>5, <2>6
<1>11. CASE UNCHANGED vars
  BY <1>9, <1>10, <1>11
<1> QED  BY <1>1, <1>2, <1>3, <1>4, <1>5, <1>6, <1>7, <1>8, <1>9, <1>11 DEF Next, Done

----------------------------------------------------------------------------
(* The invariant of the test failures *)

FailuresTraced ==
  /\ stage = "sanitize" => test_failures = input.failures
  /\ stage \in {"suppress", "deduplicate", "sort", "deduplicate_failures", "truncate"} =>
       Range(test_failures) = CleanFailures
  /\ stage \in {"retain", "retain_failures", "done"} =>
       (Len(test_failures) = ranked.failures => Range(test_failures) = CleanFailures)
  /\ stage = "done" =>
       /\ reduction.omitted_test_failures = ranked.failures - Len(test_failures)
       /\ reduction.truncated
            <=> IsTruncated(reduction.omitted_diagnostics, reduction.omitted_test_failures)

(* Sorting keeps every element, and a neighbour that is the same stands    *)
(* for one that is removed.                                                *)
LEMMA SortKeepsAll ==
  ASSUME NEW s \in Seq(Failures), NEW p \in StableOrders([i \in DOMAIN s |-> FailureKey(s[i])])
  PROVE  Range(Reordered(s, p)) = Range(s)
PROOF
<1> DEFINE n == Len(s)
           keys == [i \in DOMAIN s |-> FailureKey(s[i])]
<1>1. n \in Nat /\ DOMAIN s = 1..n /\ \A i \in 1..n : s[i] \in Failures
  OBVIOUS
<1>2. keys \in [1..n -> Seq(Int)]
  BY <1>1, KeyTypes
<1> HIDE DEF n, keys
<1>3. Sorts(p, n, keys)
  <2>1. p \in StableOrders(keys)
    BY DEF keys
  <2> QED  BY <1>1, <1>2, <2>1, StableOrderIsPermutation
<1>4. p \in [1..n -> 1..n] /\ \A k \in 1..n : \E i \in 1..n : p[i] = k
  BY <1>3 DEF Sorts
<1>5. /\ DOMAIN Reordered(s, p) = 1..n
      /\ \A i \in 1..n : p[i] \in 1..n /\ Reordered(s, p)[i] = s[p[i]]
  BY <1>1, <1>4 DEF Reordered
<1> QED  BY <1>1, <1>4, <1>5 DEF Range

LEMMA RepetitionRemoved ==
  ASSUME TypeOK, NEW s \in Seq(Failures), next \in DOMAIN s,
         NEW keeps, keeps = (next = 1 \/ s[next] # s[next - 1])
  PROVE  Range(Kept(s, keeps)) = Range(s)
PROOF
<1>1. /\ next \in 1..Len(s) /\ Len(s) \in Nat /\ next \in Nat /\ DOMAIN s = 1..Len(s)
  OBVIOUS
<1>2. CASE keeps
  BY <1>2 DEF Kept
<1>3. CASE ~keeps
  <2> DEFINE left == RemoveAt(s, next)
             At(i) == IF i < next THEN i ELSE i + 1
             n == Len(s)
  <2>1. Kept(s, keeps) = left
    BY <1>3 DEF Kept
  <2>2. /\ left \in Seq(Failures) /\ Len(left) = n - 1
        /\ \A i \in DOMAIN left : left[i] = s[At(i)]
    BY RemoveAtProperties
  <2>3. next # 1 /\ s[next] = s[next - 1]
    BY <1>3
  <2> HIDE DEF left, n
  <2>4. DOMAIN left = 1..(n - 1) /\ n \in Nat /\ next \in 1..n /\ DOMAIN s = 1..n
    BY <1>1, <2>2 DEF n
  <2>5. \A i \in 1..(n - 1) : At(i) \in 1..n
    BY <2>4
  <2>6. ASSUME NEW m \in 1..n
        PROVE  \E i \in 1..(n - 1) : s[At(i)] = s[m]
    <3>1. CASE m < next
      <4>1. m \in 1..(n - 1) /\ At(m) = m
        BY <2>4, <3>1
      <4> QED  BY <4>1
    <3>2. CASE next < m
      <4>1. m - 1 \in 1..(n - 1) /\ ~(m - 1 < next) /\ (m - 1) + 1 = m
        BY <2>4, <3>2
      <4> QED  BY <4>1
    <3>3. CASE m = next
      <4>1. next - 1 \in 1..(n - 1) /\ next - 1 < next
        BY <2>3, <2>4
      <4> QED  BY <2>3, <3>3, <4>1
    <3> QED  BY <2>4, <3>1, <3>2, <3>3
  <2> HIDE DEF At
  <2>7. Range(left) = Range(s)
    <3>1. \A i \in 1..(n - 1) : left[i] = s[At(i)]
      BY <2>2, <2>4
    <3>2. Range(left) = {s[At(i)] : i \in 1..(n - 1)}
      BY <2>4, <3>1 DEF Range
    <3>3. Range(s) = {s[m] : m \in 1..n}
      BY <2>4 DEF Range
    <3> QED  BY <2>5, <2>6, <3>2, <3>3
  <2> QED  BY <2>1, <2>7
<1>4. keeps \in BOOLEAN
  OBVIOUS
<1> QED  BY <1>2, <1>3, <1>4

LEMMA FailuresTracedInit == Init => FailuresTraced
  BY DEF Init, FailuresTraced

LEMMA FailuresTracedStep == IInv /\ FailuresTraced /\ [Next]_vars => FailuresTraced'
PROOF
<1> SUFFICES ASSUME IInv, FailuresTraced, [Next]_vars
             PROVE  FailuresTraced'
  OBVIOUS
<1>t. TypeOK /\ test_failures \in Seq(Failures) /\ Len(test_failures) \in Nat
  BY DEF IInv, TypeOK
<1>i. input' = input
  BY DEF Next, Sanitize, SuppressNext, DeduplicateNext, RankDiagnostics, SortFailures,
         DeduplicateNextFailure, LoopEnds, TruncateItems, RetainDiagnostic, RetainFailure,
         Return, Done, vars
<1>c. CleanFailures' = CleanFailures
  BY <1>i DEF CleanFailures
<1>1. CASE Sanitize
  <2>1. /\ stage = "sanitize" /\ stage' = "suppress"
        /\ test_failures' =
             [i \in DOMAIN test_failures |-> SanitizedFailure(test_failures[i])]
    BY <1>1 DEF Sanitize
  <2>2. test_failures = input.failures
    BY <2>1 DEF FailuresTraced
  <2>3. Range(test_failures') = CleanFailures
    BY <2>1, <2>2 DEF Range, CleanFailures
  <2> QED  BY <1>c, <2>1, <2>3 DEF FailuresTraced
<1>2. CASE \/ SuppressNext \/ DeduplicateNext \/ RankDiagnostics
           \/ LoopEnds("suppress", diagnostics, "deduplicate")
           \/ LoopEnds("deduplicate_failures", test_failures, "truncate")
  <2>1. /\ stage \in {"suppress", "deduplicate", "deduplicate_failures"}
        /\ stage' \in {"suppress", "deduplicate", "sort", "truncate"}
        /\ test_failures' = test_failures
    BY <1>2 DEF SuppressNext, DeduplicateNext, RankDiagnostics, LoopEnds
  <2> QED  BY <1>c, <2>1 DEF FailuresTraced
<1>3. CASE SortFailures
  <2>1. /\ stage = "sort" /\ stage' = "deduplicate_failures"
        /\ \E p \in StableOrders(FailureKeys) : test_failures' = Reordered(test_failures, p)
    BY <1>3 DEF SortFailures
  <2>2. PICK o \in StableOrders([i \in DOMAIN test_failures |-> FailureKey(test_failures[i])]) :
          test_failures' = Reordered(test_failures, o)
    BY <2>1 DEF FailureKeys
  <2>3. Range(test_failures') = Range(test_failures)
    BY <1>t, <2>2, SortKeepsAll
  <2> QED  BY <1>c, <2>1, <2>3 DEF FailuresTraced
<1>4. CASE DeduplicateNextFailure
  <2> DEFINE keeps == next = 1 \/ test_failures[next] # test_failures[next - 1]
  <2>1. /\ stage = "deduplicate_failures" /\ stage' = stage /\ next \in DOMAIN test_failures
        /\ test_failures' = Kept(test_failures, keeps)
    BY <1>4 DEF DeduplicateNextFailure
  <2>2. Range(Kept(test_failures, keeps)) = Range(test_failures)
    BY <1>t, <2>1, RepetitionRemoved
  <2>3. Range(test_failures') = Range(test_failures)
    BY <2>1, <2>2
  <2> QED  BY <1>c, <2>1, <2>3 DEF FailuresTraced
<1>5. CASE TruncateItems
  <2> DEFINE limit == Remaining(Prefix(deduplicated, input.max_items))
  <2>1. /\ stage = "truncate" /\ stage' = "retain"
        /\ ranked'.failures = Len(test_failures)
        /\ test_failures' = Prefix(test_failures, limit)
    BY <1>5 DEF TruncateItems
  <2>2. limit \in Nat
    <3>1. input.max_items \in Nat /\ deduplicated \in Seq(Diagnostics)
      BY <1>t DEF TypeOK, InputType
    <3>2. /\ Prefix(deduplicated, input.max_items) \in Seq(Diagnostics)
          /\ Len(Prefix(deduplicated, input.max_items)) <= input.max_items
      BY <3>1, PrefixProperties
    <3>3. Len(Prefix(deduplicated, input.max_items)) \in Nat
      BY <3>2
    <3> QED  BY <3>1, <3>2, <3>3 DEF Remaining
  <2> HIDE DEF limit
  <2>3. /\ Prefix(test_failures, limit) \in Seq(Failures)
        /\ \A i \in DOMAIN Prefix(test_failures, limit) :
             Prefix(test_failures, limit)[i] = test_failures[i]
    BY <1>t, <2>2, PrefixProperties
  <2>4. Len(test_failures') = Len(test_failures) => Range(test_failures') = Range(test_failures)
    BY <1>t, <2>1, <2>3 DEF Range
  <2> QED  BY <1>c, <2>1, <2>4 DEF FailuresTraced
<1>6. CASE RetainDiagnostic \/ LoopEnds("retain", deduplicated, "retain_failures")
  <2>1. /\ stage = "retain" /\ stage' \in {"retain", "retain_failures"}
        /\ UNCHANGED <<test_failures, ranked>>
    BY <1>6 DEF RetainDiagnostic, LoopEnds
  <2> QED  BY <1>c, <2>1 DEF FailuresTraced
<1>7. CASE RetainFailure
  <2> DEFINE fits == Fits(FailureSize(test_failures[next]))
  <2>1. /\ stage = "retain_failures" /\ stage' = stage /\ ranked' = ranked
        /\ next \in DOMAIN test_failures
        /\ test_failures' = Kept(test_failures, fits)
    BY <1>7 DEF RetainFailure
  <2> HIDE DEF fits
  <2>2. CASE fits
    <3>1. test_failures' = test_failures
      BY <2>1, <2>2 DEF Kept
    <3> QED  BY <1>c, <2>1, <3>1 DEF FailuresTraced
  <2>3. CASE ~fits
    <3>1. Len(test_failures') = Len(test_failures) - 1
      <4>1. test_failures' = RemoveAt(test_failures, next)
        BY <2>1, <2>3 DEF Kept
      <4>2. Len(RemoveAt(test_failures, next)) = Len(test_failures) - 1
        BY <1>t, <2>1, RemoveAtProperties
      <4> QED  BY <4>1, <4>2
    <3>2. Len(test_failures) <= ranked.failures /\ ranked.failures \in Nat
      BY <2>1 DEF IInv, OmissionsCountable, TypeOK
    <3>3. Len(test_failures') # ranked'.failures
      BY <1>t, <2>1, <3>1, <3>2
    <3> QED  BY <2>1, <3>3 DEF FailuresTraced
  <2> QED  BY <2>2, <2>3
<1>8. CASE Return
  <2>1. /\ stage = "retain_failures" /\ stage' = "done"
        /\ UNCHANGED <<input, test_failures, ranked>>
        /\ reduction'.omitted_test_failures = ranked.failures - Len(test_failures)
        /\ reduction'.truncated = IsTruncated(reduction'.omitted_diagnostics,
                                              reduction'.omitted_test_failures)
    BY <1>8 DEF Return
  <2>2. IsTruncated(reduction'.omitted_diagnostics, reduction'.omitted_test_failures)
          <=> IsTruncated(reduction.omitted_diagnostics, reduction.omitted_test_failures)'
    BY <2>1 DEF IsTruncated
  <2>3. Len(test_failures) = ranked.failures => Range(test_failures) = CleanFailures
    BY <2>1 DEF FailuresTraced
  <2> QED  BY <1>c, <2>1, <2>2, <2>3 DEF FailuresTraced
<1>9. CASE UNCHANGED vars
  <2>1. UNCHANGED <<stage, input, test_failures, ranked, reduction>>
    BY <1>9 DEF vars
  <2>2. IsTruncated(reduction.omitted_diagnostics, reduction.omitted_test_failures)'
          <=> IsTruncated(reduction.omitted_diagnostics, reduction.omitted_test_failures)
    BY <2>1 DEF IsTruncated
  <2> QED  BY <1>c, <2>1, <2>2 DEF FailuresTraced
<1> QED  BY <1>1, <1>2, <1>3, <1>4, <1>5, <1>6, <1>7, <1>8, <1>9 DEF Next, Done

----------------------------------------------------------------------------
(* The theorems *)

LEMMA FindingsAlwaysTraced == Spec => []FindingsTraced
PROOF
<1>1. Spec => []BytesCharged
  BY ChargedInit, ChargedStep, Invariant, PTL DEF Spec
<1> QED  BY <1>1, TracedInit, TracedStep, Invariant, PTL DEF Spec

(* Every diagnostic returned is a finding of the reference, once, with all *)
(* of its repetitions, and those that are missing are counted: suppression,*)
(* deduplication and the budgets of finalize_findings lose nothing unseen. *)
THEOREM FindingsAlwaysAccounted == Spec => []FindingsAccounted
PROOF
<1>1. IInv /\ FindingsTraced => FindingsAccounted
  <2> SUFFICES ASSUME IInv, FindingsTraced, stage = "done"
               PROVE  /\ Range(deduplicated) \subseteq Findings
                      /\ IsInjective(deduplicated)
                      /\ Cardinality(FirstPositions)
                           = Len(deduplicated) + reduction.omitted_diagnostics
    BY DEF FindingsAccounted
  <2>1. /\ TypeOK /\ deduplicated \in Seq(Diagnostics) /\ Len(deduplicated) \in Nat
        /\ ranked.diagnostics \in Nat
    BY DEF IInv, TypeOK
  <2>2. PICK q : IsShown(deduplicated, q) /\ Chosen(deduplicated, q, Looked)
    BY DEF FindingsTraced
  <2>3. /\ ranked.diagnostics = Cardinality(FirstPositions)
        /\ reduction.omitted_diagnostics = ranked.diagnostics - Len(deduplicated)
    BY DEF FindingsTraced
  <2>4. Cardinality(FirstPositions) = Len(deduplicated) + reduction.omitted_diagnostics
    BY <2>1, <2>3
  <2> QED  BY <2>1, <2>2, <2>4, AllShown
<1> QED  BY <1>1, Invariant, FindingsAlwaysTraced, PTL

(* What is returned is ranked, and of the best max_items findings exactly  *)
(* those are returned that fit beside the returned ones ranked before them *)
(* (sort_by_key, truncate, retain_serialized).                             *)
THEOREM BestAlwaysKept == Spec => []BestKept
PROOF
<1>1. IInv /\ FindingsTraced => BestKept
  <2> SUFFICES ASSUME IInv, FindingsTraced, stage = "done"
               PROVE  BestKept
    BY DEF BestKept
  <2> DEFINE n == Len(deduplicated)
             sizes == DiagnosticSizes(deduplicated)
             Room(i) == SumFunctionOnSet(sizes, Better(i)) + DiagnosticSize(Finding(i))
                          <= input.max_bytes
  <2>1. /\ TypeOK /\ deduplicated \in Seq(Diagnostics)
        /\ DOMAIN deduplicated = 1..n /\ n \in Nat /\ input.max_bytes \in Nat
    BY DEF IInv, TypeOK, InputType
  <2>2. PICK q : IsShown(deduplicated, q) /\ Chosen(deduplicated, q, Looked)
    BY DEF FindingsTraced
  <2>3. /\ q \in [1..n -> FirstPositions]
        /\ \A m \in 1..n : deduplicated[m] = Finding(q[m])
        /\ \A l, m \in 1..n : l < m => RanksBefore(q[l], q[m])
    BY <2>2 DEF IsShown
  <2>4. /\ \A m \in 1..n : Place(q[m]) <= input.max_items
        /\ \A m \in 1..n : SumTo(sizes, m) <= input.max_bytes
        /\ \A i \in FirstPositions : Place(i) <= input.max_items =>
             \/ \E m \in 1..n : q[m] = i
             \/ \E a \in 0..n : NoRoom(deduplicated, q, a, i)
    BY <2>2 DEF Chosen, Looked
  <2> HIDE DEF n, sizes
  <2>5. ASSUME NEW i \in FirstPositions, NEW m \in 1..n, Finding(i) = deduplicated[m]
        PROVE  q[m] = i
    <3>1. q[m] \in FirstPositions /\ Finding(q[m]) = Finding(i)
      BY <2>3, <2>5
    <3> QED  BY <2>1, <3>1, FindingIsInjective
  <2>6. ASSUME NEW i \in FirstPositions
        PROVE  /\ Finding(i) \in Range(deduplicated) <=> \E m \in 1..n : q[m] = i
               /\ Better(i) = {m \in 1..n : RanksBefore(q[m], i)}
    <3>1. Finding(i) \in Range(deduplicated)
            <=> \E m \in 1..n : Finding(i) = deduplicated[m]
      BY <2>1 DEF Range
    <3>2. ASSUME NEW m \in 1..n
          PROVE  m \in Better(i) <=> RanksBefore(q[m], i)
      BY <2>1, <2>3, <2>5, <3>2 DEF Better
    <3>3. Better(i) \subseteq 1..n
      BY <2>1 DEF Better
    <3> QED  BY <2>3, <2>5, <3>1, <3>2, <3>3
  <2>7. ASSUME NEW m \in 1..n
        PROVE  Room(q[m])
    <3>1. q[m] \in FirstPositions /\ n \in Nat /\ m \in Nat /\ m \in DOMAIN deduplicated
      BY <2>1, <2>3
    <3>2. ASSUME NEW l \in 1..n
          PROVE  RanksBefore(q[l], q[m]) <=> l \in 1..(m - 1)
      <4>1. CASE l < m
        BY <2>3, <3>1, <4>1
      <4>2. CASE l >= m
        <5>1. q[l] \in FirstPositions /\ ~(l \in 1..(m - 1))
          BY <2>3, <3>1, <4>2
        <5>2. q[l] = q[m] \/ RanksBefore(q[m], q[l])
          BY <2>3, <3>1, <4>2
        <5>3. ~RanksBefore(q[l], q[m])
          BY <2>1, <3>1, <5>1, <5>2, FirstFindings, BeforeIsStrict
        <5> QED  BY <5>1, <5>3
      <4> QED  BY <3>1, <4>1, <4>2
    <3>3. 1..(m - 1) \subseteq 1..n
      BY <3>1
    <3>4. Better(q[m]) = 1..(m - 1)
      BY <2>6, <3>1, <3>2, <3>3
    <3>5. SumTo(sizes, m) = SumTo(sizes, m - 1) + DiagnosticSize(Finding(q[m]))
      BY <2>1, <2>3, <3>1, SizesUpTo DEF sizes
    <3> QED  BY <2>4, <3>4, <3>5 DEF SumTo
  <2>8. ASSUME NEW i \in FirstPositions, NEW a \in 0..n, NoRoom(deduplicated, q, a, i)
        PROVE  ~Room(i)
    <3>1. /\ \A m \in 1..n : RanksBefore(q[m], i) <=> m <= a
          /\ SumTo(sizes, a) + DiagnosticSize(Finding(i)) > input.max_bytes
      BY <2>8 DEF NoRoom, n, sizes
    <3>2. Better(i) = 1..a
      <4>1. Better(i) = {m \in 1..n : m <= a}
        BY <2>6, <3>1
      <4>2. {m \in 1..n : m <= a} = 1..a
        BY <2>1
      <4> QED  BY <4>1, <4>2
    <3>3. SumTo(sizes, a) \in Nat /\ DiagnosticSize(Finding(i)) \in Nat
      <4>1. \A m \in DOMAIN deduplicated : sizes[m] \in Nat
        BY <2>1, SizesOf DEF sizes
      <4>2. 1..a \subseteq DOMAIN deduplicated /\ IsFiniteSet(1..a)
        <5>1. a \in Nat /\ a <= n
          BY <2>1
        <5>2. IsFiniteSet(1..a)
          BY <5>1, FS_Interval
        <5> QED  BY <2>1, <5>1, <5>2
      <4>3. Finding(i) \in Diagnostics
        BY <2>1, FirstFindings
      <4> QED  BY <4>1, <4>2, <4>3, SumNat, SizeTypes DEF SumTo
    <3> QED  BY <2>1, <3>1, <3>2, <3>3 DEF SumTo
  <2>9. ASSUME NEW i \in FirstPositions
        PROVE  Finding(i) \in Range(deduplicated) <=> Place(i) <= input.max_items /\ Room(i)
    <3> HIDE DEF Room
    <3>1. CASE \E m \in 1..n : q[m] = i
      BY <2>4, <2>6, <2>7, <3>1
    <3>2. CASE ~\E m \in 1..n : q[m] = i
      BY <2>4, <2>6, <2>8, <3>2
    <3> QED  BY <3>1, <3>2
  <2>10. ASSUME NEW l \in DOMAIN deduplicated, NEW m \in DOMAIN deduplicated, l < m
         PROVE  \E i, j \in FirstPositions :
                  /\ deduplicated[l] = Finding(i)
                  /\ deduplicated[m] = Finding(j)
                  /\ RanksBefore(i, j)
    <3>1. q[l] \in FirstPositions /\ q[m] \in FirstPositions
      BY <2>1, <2>3
    <3> QED  BY <2>1, <2>3, <2>10, <3>1
  <2> QED  BY <2>9, <2>10 DEF BestKept, sizes
<1> QED  BY <1>1, Invariant, FindingsAlwaysTraced, PTL

(* A Reduction that does not say `truncated` has every finding and every   *)
(* test failure there was (finalize_findings' last statements).            *)
THEOREM LossAlwaysTold == Spec => []LossIsTold
PROOF
<1>1. IInv /\ FindingsTraced /\ FailuresTraced => LossIsTold
  <2> SUFFICES ASSUME IInv, FindingsTraced, FailuresTraced, stage = "done",
                      ~reduction.truncated
               PROVE  /\ Range(deduplicated) = Findings
                      /\ Range(test_failures) = CleanFailures
                      /\ input.candidates_dropped = 0
                      /\ input.truncated_lines = 0
    BY DEF LossIsTold
  <2>1. /\ TypeOK /\ deduplicated \in Seq(Diagnostics) /\ Len(deduplicated) \in Nat
        /\ Len(test_failures) \in Nat
        /\ ranked.diagnostics \in Nat /\ ranked.failures \in Nat
        /\ reduction.omitted_diagnostics \in Nat /\ reduction.omitted_test_failures \in Nat
        /\ input.candidates_dropped \in Nat /\ input.truncated_lines \in Nat
    BY DEF IInv, TypeOK, InputType
  <2>2. ~IsTruncated(reduction.omitted_diagnostics, reduction.omitted_test_failures)
    BY DEF FailuresTraced
  <2>3. /\ reduction.omitted_diagnostics = 0 /\ reduction.omitted_test_failures = 0
        /\ input.candidates_dropped = 0 /\ input.truncated_lines = 0
    BY <2>1, <2>2 DEF IsTruncated
  <2>4. /\ ranked.diagnostics = Cardinality(FirstPositions)
        /\ reduction.omitted_diagnostics = ranked.diagnostics - Len(deduplicated)
    BY DEF FindingsTraced
  <2>5. Len(deduplicated) = Cardinality(FirstPositions)
    BY <2>1, <2>3, <2>4
  <2>6. PICK q : IsShown(deduplicated, q) /\ Chosen(deduplicated, q, Looked)
    BY DEF FindingsTraced
  <2>7. Range(deduplicated) = Findings
    BY <2>1, <2>5, <2>6, AllShown
  <2>8. reduction.omitted_test_failures = ranked.failures - Len(test_failures)
    BY DEF FailuresTraced
  <2>9. Len(test_failures) = ranked.failures
    BY <2>1, <2>3, <2>8
  <2>10. Range(test_failures) = CleanFailures
    BY <2>9 DEF FailuresTraced
  <2> QED  BY <2>3, <2>7, <2>10
<1> QED  BY <1>1, FailuresTracedInit, FailuresTracedStep, Invariant, FindingsAlwaysTraced,
            PTL DEF Spec
=============================================================================
