--------------------------- MODULE CommandLineProofs ---------------------------
(***************************************************************************)
(* For all arguments, inputs and findings: the session serves the command, *)
(* nothing is written of a log that was not read to its end, and the exit  *)
(* status tells whether findings that count were in it.                    *)
(***************************************************************************)
EXTENDS CommandLineProperties, FoldLemmas

Ids == {<<>>} \cup {<<n>> : n \in Nat}
ScopesType == UNION {[open -> Nat] : open \in SUBSET Ids}
SessionType ==
  [scopes : ScopesType,
   candidates : Seq([scope : Ids, finding : Findings]), candidates_dropped : Nat,
   refused : BOOLEAN, ends : Seq({"Complete", "Interrupted"}), seen : SUBSET Findings]

Before == {"arguments", "matchers"}
Reading == {"open", "read", "end"}
Writing == {"write", "exit"}

TypeOK ==
  /\ args \in ArgsType
  /\ stage \in Before \cup {"begin"} \cup Reading \cup Writing \cup {"done"}
  /\ index \in Nat
  /\ read_result \in {"none", "ended", "failed"}
  /\ session \in SessionType
  /\ written \in {"none", "part", "all"}

(* The scopes that are open are those of the input being read.             *)
ScopesOpen ==
  /\ stage \in Before \cup {"begin"} \cup Writing => DOMAIN session.scopes = {}
  /\ stage \in Reading => DOMAIN session.scopes = {ScopeId}

(* The inputs before index were read to their ends.                        *)
InputsRead ==
  /\ stage \in Before => session.ends = <<>>
  /\ stage \in {"begin"} \cup Reading =>
       /\ index \in 1..(Len(Inputs) + 1)
       /\ session.ends = [n \in 1..(index - 1) |-> "Complete"]
  /\ stage \in Reading => index <= Len(Inputs)
  /\ stage \in Writing \/ written # "none" => session.ends = [n \in DOMAIN Inputs |-> "Complete"]

(* What has been written, and how the command can fail.                    *)
Outcome ==
  /\ stage # "done" => error = "none"
  /\ stage \notin {"exit", "done"} => written = "none"
  /\ stage = "exit" => written = "all" \/ args.unterminated
  /\ stage = "done" /\ error = "none" => written = "all" \/ args.unterminated
  /\ error # "none" => status = 1 /\ (written = "none" \/ error = "write")
  /\ error \notin {"refused", "disappeared"}

(* What stream_reader returned is known when the scope is to be ended.     *)
ResultKnown == stage = "end" => read_result # "none"

(* The candidates are what has been seen in the log, all of it unless      *)
(* something was refused or dropped.                                       *)
SeenSafe(state) ==
  /\ \A n \in DOMAIN state.candidates : state.candidates[n].finding \in state.seen
  /\ ~state.refused /\ state.candidates_dropped = 0 =>
       \A finding \in state.seen :
         \E n \in DOMAIN state.candidates : state.candidates[n].finding = finding
CandidatesSeen == SeenSafe(session)

(* What is written is the reduction of the session, and the status is      *)
(* that of what it kept.                                                   *)
Succeeded == stage = "done" /\ error = "none"
ReductionFinal == stage \in Writing \/ Succeeded => reduction = FinishedSession
StatusOfReduction ==
  Succeeded =>
    status = IF args.fail_on # NoThreshold /\ HasSeverity(reduction.findings, args.fail_on)
             THEN 1 ELSE 0

SeenInv == CandidatesSeen /\ ReductionFinal /\ StatusOfReduction

IInv == TypeOK /\ ResultKnown /\ ScopesOpen /\ InputsRead /\ Outcome

----------------------------------------------------------------------------
LEMMA InputsSeq ==
  ASSUME args \in ArgsType
  PROVE  /\ Inputs \in Seq({"stdin", "file"})
         /\ Len(Inputs) \in Nat \ {0}
         /\ DOMAIN Inputs = 1..Len(Inputs)
         /\ MaxScopes \in Nat \ {0}
<1>1. args.inputs \in Seq({"stdin", "file"})
  BY DEF ArgsType
<1>2. CASE args.inputs = <<>>
  BY <1>2 DEF Inputs, MaxScopes
<1>3. CASE args.inputs # <<>>
  BY <1>1, <1>3 DEF Inputs, MaxScopes
<1> QED BY <1>2, <1>3

LEMMA IInvInit == Init => IInv
<1> SUFFICES ASSUME Init PROVE IInv
  OBVIOUS
<1>1. args \in ArgsType
  BY CommandLineAssumption DEF Init
<1>2. session \in SessionType /\ DOMAIN session.scopes = {} /\ session.ends = <<>>
  <2>1. [id \in {} |-> 0] \in ScopesType
    <3>1. [id \in {} |-> 0] \in [{} -> Nat]
      OBVIOUS
    <3> QED BY <3>1 DEF ScopesType
  <2> QED BY <2>1 DEF Init, NewSession, SessionType
<1> QED
  BY <1>1, <1>2 DEF Init, IInv, TypeOK, ResultKnown, ScopesOpen, InputsRead, Outcome, Before, Reading, Writing

----------------------------------------------------------------------------
(* The operations on the session keep its type and disturb nothing else.   *)

LEMMA BegunTyped ==
  ASSUME session \in SessionType, NEW id \in Ids
  PROVE  /\ Begun(id) \in SessionType
         /\ DOMAIN Begun(id).scopes = DOMAIN session.scopes \cup {id}
         /\ Begun(id).ends = session.ends
<1> DEFINE scopes == [other \in DOMAIN session.scopes \cup {id} |->
                        IF other = id THEN 0 ELSE session.scopes[other]]
<1>1. PICK open \in SUBSET Ids : session.scopes \in [open -> Nat]
  BY DEF SessionType, ScopesType
<1>2. /\ DOMAIN scopes = DOMAIN session.scopes \cup {id}
      /\ scopes \in [open \cup {id} -> Nat]
  BY <1>1
<1>3. Begun(id) = [session EXCEPT !.scopes = scopes]
  BY DEF Begun
<1>4. open \cup {id} \in SUBSET Ids
  OBVIOUS
<1>5. scopes \in ScopesType
  BY <1>2, <1>4 DEF ScopesType
<1> HIDE DEF scopes
<1> QED BY <1>2, <1>3, <1>5 DEF SessionType

LEMMA EndedTyped ==
  ASSUME session \in SessionType, NEW id, NEW reason \in {"Complete", "Interrupted"}
  PROVE  /\ Ended(id, reason) \in SessionType
         /\ DOMAIN Ended(id, reason).scopes = DOMAIN session.scopes \ {id}
         /\ Ended(id, reason).ends = Append(session.ends, reason)
<1> DEFINE scopes == [other \in DOMAIN session.scopes \ {id} |-> session.scopes[other]]
<1>1. PICK open \in SUBSET Ids : session.scopes \in [open -> Nat]
  BY DEF SessionType, ScopesType
<1>2. /\ DOMAIN scopes = DOMAIN session.scopes \ {id}
      /\ scopes \in [open \ {id} -> Nat]
  BY <1>1
<1>3. Ended(id, reason) = [session EXCEPT !.scopes = scopes, !.ends = Append(@, reason)]
  BY DEF Ended
<1>4. open \ {id} \in SUBSET Ids
  OBVIOUS
<1>5. scopes \in ScopesType
  BY <1>2, <1>4 DEF ScopesType
<1>6. session.ends \in Seq({"Complete", "Interrupted"})
  BY DEF SessionType
<1>7. Append(session.ends, reason) \in Seq({"Complete", "Interrupted"})
  BY <1>6
<1> DEFINE ends == Append(session.ends, reason)
<1> HIDE DEF scopes, ends
<1>8. /\ [session EXCEPT !.scopes = scopes, !.ends = ends] \in SessionType
      /\ [session EXCEPT !.scopes = scopes, !.ends = ends].scopes = scopes
      /\ [session EXCEPT !.scopes = scopes, !.ends = ends].ends = ends
  BY <1>5, <1>7 DEF SessionType, ends
<1> QED BY <1>2, <1>3, <1>8 DEF ends

LEMMA EmittedTyped ==
  ASSUME NEW state \in SessionType, NEW id \in Ids, NEW line \in Findings \cup {NoFinding}
  PROVE  /\ Emitted(state, id, line) \in SessionType
         /\ Emitted(state, id, line).scopes = state.scopes
         /\ Emitted(state, id, line).ends = state.ends
<1>1. CASE line = NoFinding
  BY <1>1 DEF Emitted
<1>2. CASE line # NoFinding
  <2> DEFINE candidates == Append(state.candidates, [scope |-> id, finding |-> line])
  <2>1. candidates \in Seq([scope : Ids, finding : Findings])
    BY <1>2 DEF SessionType
  <2>2. \/ Emitted(state, id, line) = [state EXCEPT !.candidates_dropped = @ + 1]
        \/ Emitted(state, id, line) = [state EXCEPT !.candidates = candidates]
    BY <1>2 DEF Emitted
  <2> HIDE DEF candidates
  <2>3. LET next == [state EXCEPT !.candidates_dropped = @ + 1]
        IN  next \in SessionType /\ next.scopes = state.scopes /\ next.ends = state.ends
    <3> DEFINE dropped == state.candidates_dropped + 1
    <3>1. dropped \in Nat
      BY DEF SessionType
    <3> HIDE DEF dropped
    <3>2. LET next == [state EXCEPT !.candidates_dropped = dropped]
          IN  next \in SessionType /\ next.scopes = state.scopes /\ next.ends = state.ends
      BY <3>1 DEF SessionType
    <3> QED BY <3>2 DEF dropped
  <2>4. LET next == [state EXCEPT !.candidates = candidates]
        IN  next \in SessionType /\ next.scopes = state.scopes /\ next.ends = state.ends
    BY <2>1 DEF SessionType
  <2> QED BY <2>2, <2>3, <2>4
<1> QED BY <1>1, <1>2

LEMMA PushedTyped ==
  ASSUME session \in SessionType, NEW id \in DOMAIN session.scopes,
         NEW line \in Findings \cup {NoFinding}
  PROVE  /\ Pushed(id, line) \in SessionType
         /\ DOMAIN Pushed(id, line).scopes = DOMAIN session.scopes
         /\ Pushed(id, line).ends = session.ends
<1> DEFINE noted == [session EXCEPT !.seen = IF line = NoFinding THEN @ ELSE @ \cup {line}]
           pushed == [noted EXCEPT !.scopes[id] = @ + 1]
<1>1. PICK open \in SUBSET Ids : session.scopes \in [open -> Nat]
  BY DEF SessionType, ScopesType
<1>2. noted \in SessionType /\ noted.scopes = session.scopes /\ noted.ends = session.ends
  BY DEF SessionType
<1>3. /\ pushed \in SessionType
      /\ DOMAIN pushed.scopes = DOMAIN session.scopes
      /\ pushed.ends = session.ends
  <2> DEFINE scopes == [session.scopes EXCEPT ![id] = @ + 1]
  <2>1. scopes \in [open -> Nat] /\ DOMAIN scopes = DOMAIN session.scopes
    BY <1>1
  <2>2. scopes \in ScopesType
    BY <2>1 DEF ScopesType
  <2>3. pushed = [noted EXCEPT !.scopes = scopes]
    BY <1>2
  <2> HIDE DEF scopes, noted
  <2> QED BY <1>2, <2>1, <2>2, <2>3 DEF SessionType
<1>4. CASE session.scopes[id] >= args.max_input_bytes
  <2> HIDE DEF noted
  <2>1. Pushed(id, line) = [noted EXCEPT !.refused = TRUE]
    BY <1>4 DEF Pushed, noted
  <2> QED BY <2>1, <1>2 DEF SessionType
<1>5. CASE ~(session.scopes[id] >= args.max_input_bytes)
  <2>1. Pushed(id, line) = Emitted(pushed, id, line)
    BY <1>5 DEF Pushed
  <2>2. id \in Ids
    BY <1>1
  <2> HIDE DEF pushed
  <2> QED BY <2>1, <2>2, <1>3, EmittedTyped
<1> QED BY <1>4, <1>5

----------------------------------------------------------------------------
LEMMA IInvStep == IInv /\ [Next]_vars => IInv'
<1> SUFFICES ASSUME IInv, [Next]_vars
             PROVE  IInv'
  OBVIOUS
<1> USE DEF Before, Reading, Writing
<1>a. /\ Inputs \in Seq({"stdin", "file"})
      /\ Len(Inputs) \in Nat \ {0}
      /\ DOMAIN Inputs = 1..Len(Inputs)
      /\ MaxScopes \in Nat \ {0}
  BY InputsSeq DEF IInv, TypeOK
<1>b. args' = args => Inputs' = Inputs
  BY DEF Inputs
<1>c. ScopeId \in Ids
  BY DEF ScopeId, Ids, IInv, TypeOK
<1>1. CASE CheckArguments
  BY <1>1, <1>b DEF CheckArguments, Fail, Continue, IInv, TypeOK, ResultKnown, ScopesOpen, InputsRead, Outcome
<1>2. CASE LoadMatcher
  <2>1. CASE Fail("matcher") /\ UNCHANGED written
    BY <1>2, <2>1, <1>b DEF LoadMatcher, Fail, IInv, TypeOK, ResultKnown, ScopesOpen, InputsRead, Outcome
  <2>2. CASE /\ index' = index + 1 /\ Continue("matchers")
             /\ UNCHANGED <<stdin_consumed, reads, read_result, session, reduction, written>>
    <3>1. index' \in Nat /\ stage = "matchers"
      BY <1>2, <2>2 DEF LoadMatcher, IInv, TypeOK
    <3>2. stage' = "matchers" /\ UNCHANGED <<args, error, status, read_result, session, written>>
      BY <2>2 DEF Continue
    <3> QED
      BY <3>1, <3>2, <1>b DEF Continue, IInv, TypeOK, ResultKnown, ScopesOpen, InputsRead, Outcome
  <2> QED BY <1>2, <2>1, <2>2 DEF LoadMatcher
<1>3. CASE RefuseMatchers
  BY <1>3, <1>b DEF RefuseMatchers, Fail, Continue, IInv, TypeOK, ResultKnown, ScopesOpen, InputsRead, Outcome
<1>4. CASE StartSession
  <2>1. /\ stage = "matchers" /\ index' = 1 /\ stage' = "begin"
        /\ UNCHANGED <<args, error, status, read_result, session, written>>
    BY <1>4 DEF StartSession, Continue
  <2>2. session.ends = [n \in 1..(index' - 1) |-> "Complete"]
    BY <2>1 DEF IInv, InputsRead
  <2> QED
    BY <2>1, <2>2, <1>a, <1>b DEF Continue, IInv, TypeOK, ResultKnown, ScopesOpen, InputsRead, Outcome
<1>5. CASE BeginInput
  <2>1. CanBegin(ScopeId)
    <3>1. DOMAIN session.scopes = {}
      BY <1>5 DEF BeginInput, IInv, ScopesOpen
    <3>2. Cardinality({}) = 0
      BY FS_EmptySet
    <3> QED BY <3>1, <3>2, <1>a DEF CanBegin
  <2>2. /\ session' = Begun(ScopeId)
        /\ index \in DOMAIN Inputs
        /\ stage = "begin"
        /\ UNCHANGED <<index, stdin_consumed, reads, read_result, reduction, written>>
        /\ Continue("open")
    BY <1>5, <2>1 DEF BeginInput
  <2>3. /\ session' \in SessionType
        /\ DOMAIN session'.scopes = {ScopeId}
        /\ session'.ends = session.ends
    BY <2>2, <1>c, BegunTyped DEF IInv, TypeOK, ScopesOpen
  <2>4. ScopeId' = ScopeId
    BY <2>2, <1>b DEF ScopeId, Continue
  <2>5. InputsRead'
    BY <2>2, <2>3, <1>a, <1>b DEF Continue, IInv, InputsRead, Outcome
  <2>6. TypeOK' /\ ResultKnown' /\ ScopesOpen' /\ Outcome'
    BY <2>2, <2>3, <2>4 DEF Continue, IInv, TypeOK, ResultKnown, ScopesOpen, Outcome
  <2> QED BY <2>5, <2>6 DEF IInv
<1>6. CASE OpenInput
  <2>1. ScopeId' = ScopeId
    BY <1>6, <1>b DEF OpenInput, ScopeId, Continue
  <2> QED
    BY <1>6, <2>1, <1>a, <1>b
    DEF OpenInput, Continue, IInv, TypeOK, ResultKnown, ScopesOpen, InputsRead, Outcome
<1>7. CASE FailToOpen
  BY <1>7, <1>b DEF FailToOpen, Fail, IInv, TypeOK, ResultKnown, ScopesOpen, InputsRead, Outcome
<1>8. CASE ReadChunk
  <2>1. stage = "read" /\ ScopeId \in DOMAIN session.scopes
    BY <1>8 DEF ReadChunk, IInv, ScopesOpen
  <2>2. PICK line \in Findings \cup {NoFinding} :
          /\ session' = Pushed(ScopeId, line)
          /\ Continue("read")
          /\ UNCHANGED <<index, stdin_consumed, read_result, reduction, written>>
    BY <1>8, <2>1 DEF ReadChunk
  <2>3. /\ session' \in SessionType
        /\ DOMAIN session'.scopes = DOMAIN session.scopes
        /\ session'.ends = session.ends
    BY <2>1, <2>2, PushedTyped DEF IInv, TypeOK
  <2>4. ScopeId' = ScopeId
    BY <2>2, <1>b DEF ScopeId, Continue
  <2> QED
    BY <2>1, <2>2, <2>3, <2>4, <1>a, <1>b
    DEF Continue, IInv, TypeOK, ResultKnown, ScopesOpen, InputsRead, Outcome
<1>9. CASE StopReading
  <2>1. ScopeId' = ScopeId
    BY <1>9, <1>b DEF StopReading, ScopeId, Continue
  <2> QED
    BY <1>9, <2>1, <1>a, <1>b
    DEF StopReading, Continue, IInv, TypeOK, ResultKnown, ScopesOpen, InputsRead, Outcome
<1>10. CASE EndInput
  <2> DEFINE reason == IF read_result = "ended" THEN "Complete" ELSE "Interrupted"
  <2>1. session' = Ended(ScopeId, reason) /\ stage = "end" /\ written' = written
    BY <1>10 DEF EndInput
  <2>2. reason \in {"Complete", "Interrupted"}
    OBVIOUS
  <2>3. /\ session' \in SessionType
        /\ DOMAIN session'.scopes = {}
        /\ session'.ends = Append(session.ends, reason)
    <3> HIDE DEF reason
    <3>1. DOMAIN session.scopes = {ScopeId} /\ session \in SessionType
      BY <2>1 DEF IInv, TypeOK, ScopesOpen
    <3> QED BY <2>1, <2>2, <3>1, EndedTyped
  <2>4. CASE read_result = "ended"
    <3>1. /\ reason = "Complete" /\ index' = index + 1 /\ stage' = "begin"
          /\ UNCHANGED <<args, error, status, read_result>>
      BY <1>10, <2>4 DEF EndInput, Continue
    <3>2. /\ index \in 1..Len(Inputs)
          /\ session.ends = [n \in 1..(index - 1) |-> "Complete"]
      BY <2>1, <1>a DEF IInv, InputsRead
    <3>3. session'.ends = [n \in 1..(index' - 1) |-> "Complete"]
      <4>1. DOMAIN session.ends = 1..(index - 1) /\ Len(session.ends) = index - 1
        <5>1. session.ends \in Seq({"Complete", "Interrupted"})
          BY DEF IInv, TypeOK, SessionType
        <5> QED BY <3>2, <5>1
      <4>2. session'.ends = Append([n \in 1..(index - 1) |-> "Complete"], "Complete")
        BY <2>3, <3>1, <3>2
      <4>3. index' - 1 = index /\ index \in Nat \ {0}
        BY <3>1, <3>2, <1>a
      <4> QED BY <4>1, <4>2, <4>3, <3>2
    <3>4. InputsRead'
      BY <2>1, <3>1, <3>2, <3>3, <1>a, <1>b DEF Continue, IInv, Outcome, InputsRead
    <3>5. TypeOK' /\ ResultKnown' /\ ScopesOpen' /\ Outcome'
      BY <2>1, <2>3, <3>1, <3>2, <1>a DEF Continue, IInv, TypeOK, ResultKnown, ScopesOpen, Outcome
    <3> QED BY <3>4, <3>5 DEF IInv
  <2>5. CASE read_result # "ended"
    <3>1. /\ stage' = "done" /\ error' = read_result /\ status' = 1
          /\ UNCHANGED <<args, index, read_result>>
      BY <1>10, <2>5 DEF EndInput
    <3>2. read_result \in {"none", "failed"} /\ written = "none"
      BY <2>1, <2>5 DEF IInv, TypeOK, Outcome
    <3>3. read_result = "failed"
      BY <2>1, <3>2 DEF IInv, ResultKnown
    <3> QED
      BY <2>1, <2>3, <3>1, <3>2, <3>3, <1>b DEF IInv, TypeOK, ResultKnown, ScopesOpen, InputsRead, Outcome
  <2> QED BY <2>4, <2>5
<1>11. CASE Finish
  <2>1. stage = "begin" /\ index \notin DOMAIN Inputs
    BY <1>11 DEF Finish
  <2>2. index = Len(Inputs) + 1
    BY <2>1, <1>a DEF IInv, InputsRead
  <2>3. session.ends = [n \in DOMAIN Inputs |-> "Complete"]
    BY <2>1, <2>2, <1>a DEF IInv, InputsRead
  <2> QED
    BY <1>11, <2>3, <1>b DEF Finish, Continue, IInv, TypeOK, ResultKnown, ScopesOpen, InputsRead, Outcome
<1>12. CASE Write
  BY <1>12, <1>b DEF Write, Continue, IInv, TypeOK, ResultKnown, ScopesOpen, InputsRead, Outcome
<1>13. CASE FailToWrite
  BY <1>13, <1>b DEF FailToWrite, Fail, IInv, TypeOK, ResultKnown, ScopesOpen, InputsRead, Outcome
<1>14. CASE Exit
  BY <1>14, <1>b DEF Exit, IInv, TypeOK, ResultKnown, ScopesOpen, InputsRead, Outcome
<1>15. CASE UNCHANGED vars
  <2>1. ScopeId' = ScopeId
    BY <1>15, <1>b DEF vars, ScopeId
  <2> QED
    BY <1>15, <2>1, <1>b DEF vars, IInv, TypeOK, ResultKnown, ScopesOpen, InputsRead, Outcome
<1> QED
  BY <1>1, <1>2, <1>3, <1>4, <1>5, <1>6, <1>7, <1>8, <1>9, <1>10, <1>11, <1>12, <1>13, <1>14,
     <1>15 DEF Next

----------------------------------------------------------------------------
(* Types, scopes, inputs read and outcome: the inductive invariant.        *)
THEOREM CommandInvariant == Spec => []IInv
BY IInvInit, IInvStep, PTL DEF Spec

(* Whatever the arguments, the session refuses no scope and loses none.    *)
THEOREM SessionAlwaysServes == Spec => []SessionServes
<1>1. IInv => SessionServes
  BY DEF IInv, TypeOK, ScopesOpen, Outcome, SessionServes, Reading
<1> QED BY <1>1, CommandInvariant, PTL

(* Only a command that has read all its inputs to their ends writes.       *)
THEOREM OutputIsOfAll == Spec => []OutputOfAll
<1>1. IInv => OutputOfAll
  BY DEF IInv, InputsRead, Outcome, OutputOfAll
<1> QED BY <1>1, CommandInvariant, PTL

----------------------------------------------------------------------------
(* Candidates and their sizes *)

Candidate == [scope : Ids, finding : Findings]

LEMMA CandidateType ==
  ASSUME NEW c \in Candidate
  PROVE  /\ c.finding \in FindingType
         /\ c.finding.size \in Nat
         /\ c.finding.severity \in Severities
         /\ c.finding.test_failure \in BOOLEAN
         /\ c.finding.fallback \in BOOLEAN
PROOF
<1>1. c.finding \in FindingType
  BY CommandLineAssumption DEF Candidate
<1> QED  BY <1>1 DEF FindingType

SizesOf(s) == [n \in DOMAIN s |-> s[n].finding.size]

LEMMA SizesType ==
  ASSUME NEW s \in Seq(Candidate)
  PROVE  /\ SizesOf(s) \in Seq(Nat)
         /\ TotalSize(s) = SumFunction(SizesOf(s))
         /\ TotalSize(s) \in Nat
PROOF
<1>1. DOMAIN s = 1..Len(s) /\ Len(s) \in Nat /\ \A n \in 1..Len(s) : s[n] \in Candidate
  OBVIOUS
<1>2. \A n \in 1..Len(s) : s[n].finding.size \in Nat
  BY <1>1, CandidateType
<1>3. SizesOf(s) \in [1..Len(s) -> Nat]
  BY <1>1, <1>2 DEF SizesOf
<1>4. SizesOf(s) \in Seq(Nat)
  BY <1>1, <1>3
<1>5. TotalSize(s) = SumFunction(SizesOf(s))
  BY DEF TotalSize, SizesOf
<1> QED  BY <1>4, <1>5, SumSeqNat

LEMMA SizeEmpty == TotalSize(<<>>) = 0
PROOF
<1>1. DOMAIN SizesOf(<<>>) = {}
  BY DEF SizesOf
<1>2. TotalSize(<<>>) = SumFunctionOnSet(SizesOf(<<>>), {})
  BY <1>1 DEF TotalSize, SizesOf, SumFunction
<1> QED  BY <1>2, SumEmpty

LEMMA SizeAppend ==
  ASSUME NEW s \in Seq(Candidate), NEW x \in Candidate
  PROVE  TotalSize(Append(s, x)) = TotalSize(s) + x.finding.size
PROOF
<1> DEFINE longer == Append(s, x)
<1>1. /\ longer \in Seq(Candidate) /\ DOMAIN longer = 1..(Len(s) + 1)
      /\ Len(s) \in Nat /\ DOMAIN s = 1..Len(s)
      /\ \A n \in 1..Len(s) : longer[n] = s[n]
      /\ longer[Len(s) + 1] = x
  OBVIOUS
<1> HIDE DEF longer
<1>2. x.finding.size \in Nat
  BY CandidateType
<1>3. SizesOf(s) \in Seq(Nat) /\ SizesOf(longer) \in Seq(Nat)
  BY <1>1, SizesType
<1> DEFINE size == x.finding.size
           sizes == SizesOf(s)
           more == SizesOf(longer)
<1>4. /\ DOMAIN sizes = 1..Len(s) /\ DOMAIN more = 1..(Len(s) + 1)
      /\ \A n \in 1..Len(s) : more[n] = sizes[n]
      /\ more[Len(s) + 1] = size
  BY <1>1 DEF SizesOf
<1> HIDE DEF size, sizes, more
<1>5. more = Append(sizes, size)
  <2>1. Len(sizes) = Len(s) /\ Len(more) = Len(s) + 1
    BY <1>1, <1>3, <1>4 DEF sizes, more
  <2> QED  BY <1>1, <1>3, <1>4, <2>1 DEF sizes, more
<1>6. SumFunction(more) = SumFunction(sizes) + size
  <2>1. sizes \in Seq(Nat) /\ size \in Nat
    BY <1>2, <1>3 DEF sizes, size
  <2> QED  BY <1>5, <2>1, SumAppend
<1> QED  BY <1>1, <1>6, SizesType DEF longer, size, sizes, more

LEMMA SizeConcat ==
  ASSUME NEW s \in Seq(Candidate)
  PROVE  \A t \in Seq(Candidate) : TotalSize(s \o t) = TotalSize(s) + TotalSize(t)
PROOF
<1> DEFINE P == {t \in Seq(Candidate) : TotalSize(s \o t) = TotalSize(s) + TotalSize(t)}
<1>1. <<>> \in P
  <2>1. s \o <<>> = s /\ <<>> \in Seq(Candidate)
    OBVIOUS
  <2> QED  BY <2>1, SizeEmpty, SizesType
<1>2. ASSUME NEW t \in P, NEW x \in Candidate
      PROVE  Append(t, x) \in P
  <2>1. /\ t \in Seq(Candidate) /\ s \o t \in Seq(Candidate) /\ Append(t, x) \in Seq(Candidate)
        /\ TotalSize(s \o t) = TotalSize(s) + TotalSize(t)
    OBVIOUS
  <2>2. s \o Append(t, x) = Append(s \o t, x)
    BY <2>1
  <2>3. /\ TotalSize(s \o Append(t, x)) = TotalSize(s \o t) + x.finding.size
        /\ TotalSize(Append(t, x)) = TotalSize(t) + x.finding.size
    BY <2>1, <2>2, SizeAppend
  <2>4. TotalSize(s) \in Nat /\ TotalSize(t) \in Nat /\ x.finding.size \in Nat
    BY <2>1, SizesType, CandidateType
  <2>5. TotalSize(s \o Append(t, x)) = TotalSize(s) + TotalSize(Append(t, x))
    BY <2>1, <2>3, <2>4
  <2> QED  BY <2>1, <2>5
<1>3. P \in SUBSET Seq(Candidate)
  OBVIOUS
<1> HIDE DEF P
<1>4. P = Seq(Candidate)
  BY <1>1, <1>2, <1>3, InductionOnSequences
<1> QED  BY <1>4 DEF P

LEMMA SizePrefix ==
  ASSUME NEW s \in Seq(Candidate), NEW n \in 0..Len(s)
  PROVE  /\ SubSeq(s, 1, n) \in Seq(Candidate)
         /\ Len(SubSeq(s, 1, n)) = n
         /\ TotalSize(SubSeq(s, 1, n)) <= TotalSize(s)
PROOF
<1> DEFINE front == SubSeq(s, 1, n)
           rest == SubSeq(s, n + 1, Len(s))
<1>1. /\ front \in Seq(Candidate) /\ rest \in Seq(Candidate) /\ Len(front) = n
      /\ s = front \o rest
  <2>1. DOMAIN s = 1..Len(s) /\ Len(s) \in Nat /\ \A i \in 1..Len(s) : s[i] \in Candidate
    OBVIOUS
  <2>2. front \in Seq(Candidate) /\ rest \in Seq(Candidate) /\ Len(front) = n
    BY <2>1, SubSeqProperties
  <2>3. front \o rest = SubSeq(s, 1, Len(s))
    <3>1. 1 \in 1..(Len(s) + 1) /\ n \in (1 - 1)..Len(s) /\ Len(s) \in n..Len(s)
      BY <2>1
    <3> QED  BY <3>1, ConcatAdjacentSubSeq
  <2> QED  BY <2>2, <2>3, SubSeqFull
<1> HIDE DEF front, rest
<1>2. TotalSize(s) = TotalSize(front) + TotalSize(rest)
  BY <1>1, SizeConcat
<1>3. TotalSize(front) \in Nat /\ TotalSize(rest) \in Nat
  BY <1>1, SizesType
<1> QED  BY <1>1, <1>2, <1>3 DEF front

----------------------------------------------------------------------------
(* Parts of a sequence *)

(* What three disjoint parts have together is no more than the whole.      *)
IsWithin(s, S, T, U) ==
  /\ Len(Only(s, S)) + Len(Only(s, T)) + Len(Only(s, U)) <= Len(s)
  /\ TotalSize(Only(s, S)) + TotalSize(Only(s, T)) + TotalSize(Only(s, U)) <= TotalSize(s)

LEMMA OnlyCandidates ==
  ASSUME NEW s \in Seq(Candidate), NEW S
  PROVE  Only(s, S) \in Seq(Candidate)
PROOF
<1>1. Only(s, S) \in Seq(Candidate \cap S)
  BY OnlyType
<1> QED  BY <1>1

LEMMA PartsWithin ==
  ASSUME NEW S, NEW T, NEW U, S \cap T = {}, T \cap U = {}, S \cap U = {}
  PROVE  \A s \in Seq(Candidate) : IsWithin(s, S, T, U)
PROOF
<1> DEFINE P == {s \in Seq(Candidate) : IsWithin(s, S, T, U)}
<1>1. <<>> \in P
  <2>1. Len(<<>>) = 0 /\ <<>> \in Seq(Candidate)
    OBVIOUS
  <2> QED  BY <2>1, OnlyEmpty, SizeEmpty DEF IsWithin
<1>2. ASSUME NEW s \in P, NEW x \in Candidate
      PROVE  Append(s, x) \in P
  <2>1. s \in Seq(Candidate) /\ Append(s, x) \in Seq(Candidate) /\ IsWithin(s, S, T, U)
    OBVIOUS
  <2>2. /\ Only(Append(s, x), S) = IF x \in S THEN Append(Only(s, S), x) ELSE Only(s, S)
        /\ Only(Append(s, x), T) = IF x \in T THEN Append(Only(s, T), x) ELSE Only(s, T)
        /\ Only(Append(s, x), U) = IF x \in U THEN Append(Only(s, U), x) ELSE Only(s, U)
    BY <2>1, OnlyAppend
  <2> DEFINE a == Only(s, S)
             b == Only(s, T)
             c == Only(s, U)
             w == x.finding.size
  <2>3. a \in Seq(Candidate) /\ b \in Seq(Candidate) /\ c \in Seq(Candidate)
    BY <2>1, OnlyCandidates
  <2>4. /\ Len(a) + Len(b) + Len(c) <= Len(s)
        /\ TotalSize(a) + TotalSize(b) + TotalSize(c) <= TotalSize(s)
    BY <2>1 DEF IsWithin
  <2>5. /\ TotalSize(a) \in Nat /\ TotalSize(b) \in Nat /\ TotalSize(c) \in Nat
        /\ TotalSize(s) \in Nat /\ w \in Nat
    BY <2>1, <2>3, SizesType, CandidateType
  <2>6. \A t \in Seq(Candidate) : /\ TotalSize(Append(t, x)) = TotalSize(t) + w
                                  /\ Len(Append(t, x)) = Len(t) + 1
                                  /\ Len(t) \in Nat
    BY SizeAppend
  <2>7. /\ Only(Append(s, x), S) = IF x \in S THEN Append(a, x) ELSE a
        /\ Only(Append(s, x), T) = IF x \in T THEN Append(b, x) ELSE b
        /\ Only(Append(s, x), U) = IF x \in U THEN Append(c, x) ELSE c
    BY <2>2
  <2> HIDE DEF a, b, c, w
  <2>8. CASE x \in S
    <3>1. x \notin T /\ x \notin U
      BY <2>8
    <3>2. /\ Only(Append(s, x), S) = Append(a, x)
          /\ Only(Append(s, x), T) = b /\ Only(Append(s, x), U) = c
      BY <2>7, <2>8, <3>1
    <3>3. /\ Len(Append(a, x)) = Len(a) + 1 /\ Len(Append(s, x)) = Len(s) + 1
          /\ TotalSize(Append(a, x)) = TotalSize(a) + w
          /\ TotalSize(Append(s, x)) = TotalSize(s) + w
      BY <2>1, <2>3, <2>6
    <3>4. Len(a) \in Nat /\ Len(b) \in Nat /\ Len(c) \in Nat /\ Len(s) \in Nat
      BY <2>1, <2>3, <2>6
    <3>5. /\ Len(a) + 1 + Len(b) + Len(c) <= Len(s) + 1
          /\ TotalSize(a) + w + TotalSize(b) + TotalSize(c) <= TotalSize(s) + w
      BY <2>4, <2>5, <3>4
    <3>6. IsWithin(Append(s, x), S, T, U)
      <4> HIDE DEF P
      <4> QED  BY <2>5, <3>2, <3>3, <3>4, <3>5 DEF IsWithin
    <3> QED  BY <2>1, <3>6
  <2>9. CASE x \in T
    <3>1. x \notin S /\ x \notin U
      BY <2>9
    <3>2. /\ Only(Append(s, x), T) = Append(b, x)
          /\ Only(Append(s, x), S) = a /\ Only(Append(s, x), U) = c
      BY <2>7, <2>9, <3>1
    <3>3. /\ Len(Append(b, x)) = Len(b) + 1 /\ Len(Append(s, x)) = Len(s) + 1
          /\ TotalSize(Append(b, x)) = TotalSize(b) + w
          /\ TotalSize(Append(s, x)) = TotalSize(s) + w
      BY <2>1, <2>3, <2>6
    <3>4. Len(a) \in Nat /\ Len(b) \in Nat /\ Len(c) \in Nat /\ Len(s) \in Nat
      BY <2>1, <2>3, <2>6
    <3>5. /\ Len(a) + 1 + Len(b) + Len(c) <= Len(s) + 1
          /\ TotalSize(a) + w + TotalSize(b) + TotalSize(c) <= TotalSize(s) + w
      BY <2>4, <2>5, <3>4
    <3>6. IsWithin(Append(s, x), S, T, U)
      <4> HIDE DEF P
      <4> QED  BY <2>5, <3>2, <3>3, <3>4, <3>5 DEF IsWithin
    <3> QED  BY <2>1, <3>6
  <2>10. CASE x \in U
    <3>1. x \notin S /\ x \notin T
      BY <2>10
    <3>2. /\ Only(Append(s, x), U) = Append(c, x)
          /\ Only(Append(s, x), S) = a /\ Only(Append(s, x), T) = b
      BY <2>7, <2>10, <3>1
    <3>3. /\ Len(Append(c, x)) = Len(c) + 1 /\ Len(Append(s, x)) = Len(s) + 1
          /\ TotalSize(Append(c, x)) = TotalSize(c) + w
          /\ TotalSize(Append(s, x)) = TotalSize(s) + w
      BY <2>1, <2>3, <2>6
    <3>4. Len(a) \in Nat /\ Len(b) \in Nat /\ Len(c) \in Nat /\ Len(s) \in Nat
      BY <2>1, <2>3, <2>6
    <3>5. /\ Len(a) + 1 + Len(b) + Len(c) <= Len(s) + 1
          /\ TotalSize(a) + w + TotalSize(b) + TotalSize(c) <= TotalSize(s) + w
      BY <2>4, <2>5, <3>4
    <3>6. IsWithin(Append(s, x), S, T, U)
      <4> HIDE DEF P
      <4> QED  BY <2>5, <3>2, <3>3, <3>4, <3>5 DEF IsWithin
    <3> QED  BY <2>1, <3>6
  <2>11. CASE x \notin S /\ x \notin T /\ x \notin U
    BY <2>1, <2>3, <2>4, <2>5, <2>6, <2>7, <2>11 DEF IsWithin
  <2> QED  BY <2>8, <2>9, <2>10, <2>11
<1>3. P \in SUBSET Seq(Candidate)
  OBVIOUS
<1> HIDE DEF P
<1>4. P = Seq(Candidate)
  BY <1>1, <1>2, <1>3, InductionOnSequences
<1> QED  BY <1>4 DEF P

(* The part has what of the whole is in the set. *)
LEMMA OnlyElements ==
  ASSUME NEW S
  PROVE  \A s \in Seq(Candidate) : Range(Only(s, S)) = Range(s) \cap S
PROOF
<1> DEFINE P == {s \in Seq(Candidate) : Range(Only(s, S)) = Range(s) \cap S}
<1>0. \A s \in Seq(Candidate), x \in Candidate : Range(Append(s, x)) = Range(s) \cup {x}
  <2> SUFFICES ASSUME NEW s \in Seq(Candidate), NEW x \in Candidate
               PROVE  Range(Append(s, x)) = Range(s) \cup {x}
    OBVIOUS
  <2>1. <<x>> \in Seq(Candidate) /\ Range(<<x>>) = {x}
    BY DEF Range
  <2>2. Append(s, x) = s \o <<x>>
    BY AppendIsConcat
  <2>3. Range(s \o <<x>>) = Range(s) \cup Range(<<x>>)
    BY <2>1, RangeConcatenation
  <2> QED  BY <2>1, <2>2, <2>3
<1>1. <<>> \in P
  <2>1. Range(<<>>) = {} /\ <<>> \in Seq(Candidate)
    BY DEF Range
  <2> QED  BY <2>1, OnlyEmpty
<1>2. ASSUME NEW s \in P, NEW x \in Candidate
      PROVE  Append(s, x) \in P
  <2>1. s \in Seq(Candidate) /\ Append(s, x) \in Seq(Candidate) /\ Range(Only(s, S)) = Range(s) \cap S
    OBVIOUS
  <2>2. Only(Append(s, x), S) = IF x \in S THEN Append(Only(s, S), x) ELSE Only(s, S)
    BY <2>1, OnlyAppend
  <2>3. Only(s, S) \in Seq(Candidate)
    BY <2>1, OnlyCandidates
  <2> HIDE DEF P
  <2>4. Range(Only(Append(s, x), S)) = Range(Append(s, x)) \cap S
    BY <1>0, <2>1, <2>2, <2>3
  <2> QED  BY <2>1, <2>4 DEF P
<1>3. P \in SUBSET Seq(Candidate)
  OBVIOUS
<1> HIDE DEF P
<1>4. P = Seq(Candidate)
  BY <1>1, <1>2, <1>3, InductionOnSequences
<1> QED  BY <1>4 DEF P

----------------------------------------------------------------------------
(* Budgets *)

RetainType == [used : Nat, kept : Seq(Candidate)]
RetainOne(acc, found) ==
  IF acc.used + found.finding.size > args.max_output_bytes THEN acc
  ELSE [used |-> acc.used + found.finding.size, kept |-> Append(acc.kept, found)]

(* What the definition says of each prefix. *)
IsRetaining(f, s) ==
  /\ f \in [0..Len(s) -> RetainType]
  /\ f[0] = [used |-> 0, kept |-> <<>>]
  /\ \A n \in 1..Len(s) : f[n] = RetainOne(f[n - 1], s[n])

LEMMA RetainOneType ==
  ASSUME NEW acc \in RetainType, NEW found \in Candidate
  PROVE  RetainOne(acc, found) \in RetainType
PROOF
<1>1. found.finding.size \in Nat
  BY CandidateType
<1>2. acc.used + found.finding.size \in Nat /\ Append(acc.kept, found) \in Seq(Candidate)
  BY <1>1 DEF RetainType
<1> QED  BY <1>2 DEF RetainOne, RetainType

LEMMA RetainingProperties ==
  ASSUME NEW s \in Seq(Candidate)
  PROVE  IsRetaining(Retaining(s), s)
PROOF
<1> DEFINE size == Len(s)
           base == [used |-> 0, kept |-> <<>>]
           step == [p \in (1..size) \X RetainType |-> RetainOne(p[2], s[p[1]])]
           Eq(f) == f = [n \in 0..size |-> IF n = 0 THEN base
                           ELSE LET used == f[n - 1].used + s[n].finding.size
                                IN  IF used > args.max_output_bytes THEN f[n - 1]
                                    ELSE [used |-> used, kept |-> Append(f[n - 1].kept, s[n])]]
<1>1. size \in Nat /\ \A n \in 1..size : s[n] \in Candidate
  OBVIOUS
<1>2. base \in RetainType
  BY DEF RetainType
<1>3. step \in [(1..size) \X RetainType -> RetainType]
  BY <1>1, RetainOneType
<1>4. \A n \in 1..size, acc \in RetainType : step[<<n, acc>>] = RetainOne(acc, s[n])
  OBVIOUS
<1> HIDE DEF size, step, base
<1>5. PICK g : IsCourse(g, size, RetainType, base, step)
  BY <1>1, <1>2, <1>3, CourseExists
<1>6. /\ g \in [0..size -> RetainType] /\ g[0] = base
      /\ \A n \in 1..size : n - 1 \in 0..size /\ g[n] = RetainOne(g[n - 1], s[n])
  <2>1. \A n \in 1..size : n - 1 \in 0..size
    BY <1>1
  <2> QED  BY <1>4, <1>5, <2>1 DEF IsCourse
<1>7. Eq(g)
  <2>1. \A n \in 0..size : n # 0 => n \in 1..size
    BY <1>1
  <2>2. g = [n \in 0..size |-> g[n]]
    BY <1>6
  <2>3. \A n \in 0..size : g[n] = IF n = 0 THEN base
                           ELSE LET used == g[n - 1].used + s[n].finding.size
                                IN  IF used > args.max_output_bytes THEN g[n - 1]
                                    ELSE [used |-> used, kept |-> Append(g[n - 1].kept, s[n])]
    BY <1>6, <2>1 DEF RetainOne
  <2> QED  BY <2>2, <2>3
<1>8. Retaining(s) = CHOOSE f : Eq(f)
  BY DEF Retaining, size, base
<1> DEFINE f == CHOOSE k : Eq(k)
<1>9. Eq(f)
  <2> HIDE DEF Eq
  <2> QED  BY <1>7
<1> HIDE DEF f
<1>10. f[0] = base /\ \A n \in 1..size : f[n] = RetainOne(f[n - 1], s[n])
  <2>1. \A n \in 1..size : n \in 0..size /\ n # 0
    BY <1>1
  <2>2. 0 \in 0..size
    BY <1>1
  <2> QED  BY <1>9, <2>1, <2>2 DEF RetainOne
<1>11. DOMAIN f = 0..size
  BY <1>9
<1>12. StepsAgree(f, g, size)
  BY <1>6, <1>10 DEF StepsAgree
<1>13. \A n \in 0..size : f[n] = g[n]
  BY <1>1, <1>12, CoursesAgree
<1>14. f = g
  <2>1. f = [n \in 0..size |-> f[n]] /\ g = [n \in 0..size |-> g[n]]
    BY <1>6, <1>9
  <2> QED  BY <1>13, <2>1
<1> HIDE DEF Eq
<1>15. IsRetaining(g, s)
  BY <1>6 DEF IsRetaining, size, base
<1> QED  BY <1>8, <1>14, <1>15 DEF f

(* Nothing is kept that was not there. *)
LEMMA RetainedFound ==
  ASSUME NEW s \in Seq(Candidate)
  PROVE  Retained(s) \in Seq(Range(s)) /\ Retained(s) \in Seq(Candidate)
PROOF
<1> DEFINE f == Retaining(s)
           P == {n \in Nat : n <= Len(s) => f[n].kept \in Seq(Range(s))}
<1>1. IsRetaining(f, s)
  BY RetainingProperties
<1>2. Len(s) \in Nat /\ \A n \in 1..Len(s) : s[n] \in Range(s) /\ s[n] \in Candidate
  BY DEF Range
<1> HIDE DEF f
<1>3. 0 \in P
  <2>1. f[0].kept = <<>> /\ <<>> \in Seq(Range(s))
    BY <1>1 DEF IsRetaining
  <2> QED  BY <2>1
<1>4. ASSUME NEW n \in P PROVE n + 1 \in P
  <2>1. CASE n + 1 <= Len(s)
    <3>1. n + 1 \in 1..Len(s) /\ (n + 1) - 1 = n /\ n <= Len(s) /\ n \in Nat
      BY <1>2, <2>1
    <3>2. f[n + 1] = RetainOne(f[n], s[n + 1])
      <4>1. f[n + 1] = RetainOne(f[(n + 1) - 1], s[n + 1])
        BY <1>1, <3>1 DEF IsRetaining
      <4> QED  BY <3>1, <4>1
    <3>3. f[n].kept \in Seq(Range(s)) /\ s[n + 1] \in Range(s)
      BY <1>2, <3>1
    <3>4. f[n + 1].kept \in Seq(Range(s))
      BY <3>2, <3>3 DEF RetainOne
    <3> QED  BY <3>1, <3>4
  <2>2. CASE ~(n + 1 <= Len(s))
    BY <2>2
  <2> QED  BY <2>1, <2>2
<1>5. P \in SUBSET Nat
  OBVIOUS
<1>6. Len(s) \in P
  <2> HIDE DEF P
  <2>1. P = Nat
    BY <1>3, <1>4, <1>5, InductionOnNat
  <2> QED  BY <1>2, <2>1
<1>7. Retained(s) \in Seq(Range(s))
  BY <1>2, <1>6 DEF Retained, f
<1>8. Retained(s) \in Seq(Candidate)
  BY <1>1, <1>2 DEF IsRetaining, RetainType, Retained, f
<1> QED  BY <1>7, <1>8

(* All is kept of what has room together. *)
LEMMA RetainsAll ==
  ASSUME NEW s \in Seq(Candidate), TotalSize(s) <= args.max_output_bytes,
         args.max_output_bytes \in Nat
  PROVE  Retained(s) = s
PROOF
<1> DEFINE f == Retaining(s)
           Whole(n) == f[n] = [used |-> TotalSize(SubSeq(s, 1, n)), kept |-> SubSeq(s, 1, n)]
           P == {n \in Nat : n <= Len(s) => Whole(n)}
<1>1. IsRetaining(f, s)
  BY RetainingProperties
<1>2. Len(s) \in Nat /\ \A n \in 1..Len(s) : s[n] \in Candidate
  OBVIOUS
<1> HIDE DEF f
<1>3. 0 \in P
  <2>1. SubSeq(s, 1, 0) = <<>>
    BY SubSeqEmpty
  <2> QED  BY <1>1, <2>1, SizeEmpty DEF IsRetaining
<1>4. ASSUME NEW n \in P PROVE n + 1 \in P
  <2>1. CASE n + 1 <= Len(s)
    <3>1. n + 1 \in 1..Len(s) /\ (n + 1) - 1 = n /\ n \in 0..Len(s) /\ n + 1 \in 0..Len(s)
      BY <1>2, <2>1
    <3>2. f[n + 1] = RetainOne(f[n], s[n + 1])
      <4>1. f[n + 1] = RetainOne(f[(n + 1) - 1], s[n + 1])
        BY <1>1, <3>1 DEF IsRetaining
      <4> QED  BY <3>1, <4>1
    <3> DEFINE front == SubSeq(s, 1, n)
               longer == SubSeq(s, 1, n + 1)
               found == s[n + 1]
    <3>3. f[n] = [used |-> TotalSize(front), kept |-> front]
      BY <3>1
    <3>4. front \in Seq(Candidate) /\ found \in Candidate
      BY <1>2, <3>1, SizePrefix
    <3>5. longer = Append(front, found)
      <4>1. 1 \in 1..Len(s) /\ n + 1 \in 1..Len(s)
        BY <3>1
      <4>2. SubSeq(s, 1, n + 1) = SubSeq(s, 1, (n + 1) - 1) \o <<s[n + 1]>>
        BY <4>1, SubSeqRecursiveSecond
      <4> QED  BY <3>1, <3>4, <4>2, AppendIsConcat
    <3>6. TotalSize(longer) = TotalSize(front) + found.finding.size /\ TotalSize(longer) <= TotalSize(s)
      BY <3>1, <3>4, <3>5, SizeAppend, SizePrefix
    <3>7. TotalSize(longer) \in Nat /\ TotalSize(s) \in Nat
      <4>1. longer \in Seq(Candidate)
        BY <3>1, SizePrefix
      <4> QED  BY <4>1, SizesType
    <3>8. ~(TotalSize(longer) > args.max_output_bytes)
      BY <3>6, <3>7
    <3> HIDE DEF front, longer, found
    <3>9. RetainOne(f[n], found) = [used |-> TotalSize(longer), kept |-> longer]
      BY <3>3, <3>5, <3>6, <3>8 DEF RetainOne
    <3>10. Whole(n + 1)
      BY <3>2, <3>9 DEF found, longer
    <3> HIDE DEF Whole
    <3> QED  BY <3>1, <3>10
  <2>2. CASE ~(n + 1 <= Len(s))
    BY <2>2
  <2> QED  BY <2>1, <2>2
<1>5. P \in SUBSET Nat
  OBVIOUS
<1>6. Len(s) \in P
  <2> HIDE DEF P
  <2>1. P = Nat
    BY <1>3, <1>4, <1>5, InductionOnNat
  <2> QED  BY <1>2, <2>1
<1>7. f[Len(s)].kept = SubSeq(s, 1, Len(s))
  BY <1>2, <1>6
<1> QED  BY <1>7, SubSeqFull DEF Retained, f

----------------------------------------------------------------------------
(* Findings of a session *)

LEMMA NonEmptyRange ==
  ASSUME NEW s \in Seq(Candidate), NEW c \in Range(s)
  PROVE  c \in Candidate /\ Len(s) \in Nat \ {0} /\ s[1] \in Range(s) /\ s[1] \in Candidate
PROOF
<1>1. PICK n \in DOMAIN s : c = s[n]
  BY DEF Range
<1>2. DOMAIN s = 1..Len(s) /\ Len(s) \in Nat /\ \A m \in 1..Len(s) : s[m] \in Candidate
  OBVIOUS
<1>3. Len(s) >= 1 /\ 1 \in DOMAIN s
  BY <1>1, <1>2
<1> QED  BY <1>1, <1>2, <1>3 DEF Range

(* Ranking keeps all diagnostics, and no more, with one of the most severe *)
(* first.                                                                  *)
IsRanking(ranked, s) ==
  /\ ranked \in Seq(Candidate)
  /\ Range(ranked) = Range(s)
  /\ Len(ranked) <= Len(s)
  /\ TotalSize(ranked) <= TotalSize(s)
  /\ \A c \in Range(s) : ranked[1].finding.severity <= c.finding.severity

LEMMA OfSeverityProperties ==
  ASSUME NEW s \in Seq(Candidate), NEW severity
  PROVE  /\ OfSeverity(s, severity) \in Seq(Candidate)
         /\ Range(OfSeverity(s, severity)) = {c \in Range(s) : c.finding.severity = severity}
PROOF
  BY OnlyCandidates, OnlyElements DEF OfSeverity

LEMMA RankedProperties ==
  ASSUME NEW s \in Seq(Candidate)
  PROVE  IsRanking(Ranked(s), s)
PROOF
<1> DEFINE a == OfSeverity(s, 1)
           b == OfSeverity(s, 2)
           c == OfSeverity(s, 3)
<1>1. /\ a \in Seq(Candidate) /\ Range(a) = {d \in Range(s) : d.finding.severity = 1}
      /\ b \in Seq(Candidate) /\ Range(b) = {d \in Range(s) : d.finding.severity = 2}
      /\ c \in Seq(Candidate) /\ Range(c) = {d \in Range(s) : d.finding.severity = 3}
  BY OfSeverityProperties
<1>2. /\ Len(a) + Len(b) + Len(c) <= Len(s)
      /\ TotalSize(a) + TotalSize(b) + TotalSize(c) <= TotalSize(s)
  <2> DEFINE S == {d \in Range(s) : d.finding.severity = 1}
             T == {d \in Range(s) : d.finding.severity = 2}
             U == {d \in Range(s) : d.finding.severity = 3}
  <2>1. S \cap T = {} /\ T \cap U = {} /\ S \cap U = {}
    OBVIOUS
  <2>2. a = Only(s, S) /\ b = Only(s, T) /\ c = Only(s, U)
    BY DEF OfSeverity
  <2> HIDE DEF S, T, U, a, b, c
  <2>3. IsWithin(s, S, T, U)
    BY <2>1, PartsWithin
  <2> QED  BY <2>2, <2>3 DEF IsWithin
<1>3. \A d \in Range(s) : d \in Candidate /\ d.finding.severity \in 1..3
  BY NonEmptyRange, CandidateType DEF Severities
<1>4. Ranked(s) = (a \o b) \o c
  BY DEF Ranked
<1> HIDE DEF a, b, c
<1>5. /\ a \o b \in Seq(Candidate) /\ (a \o b) \o c \in Seq(Candidate)
      /\ Len((a \o b) \o c) = Len(a) + Len(b) + Len(c)
      /\ Len(a) \in Nat /\ Len(b) \in Nat /\ Len(c) \in Nat
  BY <1>1
<1>6. Range((a \o b) \o c) = Range(s)
  <2>1. Range(a \o b) = Range(a) \cup Range(b)
    BY <1>1, RangeConcatenation
  <2>2. Range((a \o b) \o c) = Range(a \o b) \cup Range(c)
    <3>1. a \o b \in Seq(Candidate) /\ c \in Seq(Candidate)
      BY <1>1, <1>5
    <3> HIDE DEF Candidate
    <3> QED  BY <3>1, RangeConcatenation
  <2>3. \A d \in Range(s) : d.finding.severity = 1 \/ d.finding.severity = 2 \/ d.finding.severity = 3
    BY <1>3
  <2> QED  BY <1>1, <2>1, <2>2, <2>3
<1>7. TotalSize((a \o b) \o c) <= TotalSize(s)
  <2>1. TotalSize(a \o b) = TotalSize(a) + TotalSize(b)
    BY <1>1, SizeConcat
  <2>2. TotalSize((a \o b) \o c) = TotalSize(a \o b) + TotalSize(c)
    BY <1>1, <1>5, SizeConcat
  <2> QED  BY <1>2, <2>1, <2>2
<1>8. ASSUME NEW d \in Range(s)
      PROVE  ((a \o b) \o c)[1].finding.severity <= d.finding.severity
  <2>1. d.finding.severity \in 1..3
    BY <1>3
  <2>2. CASE Len(a) # 0
    <3>1. ((a \o b) \o c)[1] = a[1] /\ a[1] \in Range(a)
      BY <1>1, <1>5, <2>2 DEF Range
    <3> QED  BY <1>1, <2>1, <3>1
  <2>3. CASE Len(a) = 0 /\ Len(b) # 0
    <3>1. ((a \o b) \o c)[1] = b[1] /\ b[1] \in Range(b) /\ Range(a) = {}
      BY <1>1, <1>5, <2>3 DEF Range
    <3> QED  BY <1>1, <2>1, <3>1
  <2>4. CASE Len(a) = 0 /\ Len(b) = 0
    <3>1. Range(a) = {} /\ Range(b) = {}
      BY <1>1, <1>5, <2>4 DEF Range
    <3>2. d.finding.severity = 3 /\ d \in Range(c)
      BY <1>1, <2>1, <3>1
    <3>3. Len(c) # 0
      BY <1>1, <1>5, <3>2, NonEmptyRange
    <3>4. ((a \o b) \o c)[1] = c[1] /\ c[1] \in Range(c)
      BY <1>1, <1>5, <2>4, <3>3 DEF Range
    <3> QED  BY <1>1, <3>2, <3>4
  <2> QED  BY <2>2, <2>3, <2>4
<1> QED  BY <1>2, <1>4, <1>5, <1>6, <1>7, <1>8 DEF IsRanking

LEMMA TruncatedProperties ==
  ASSUME NEW s \in Seq(Candidate), NEW items \in Nat
  PROVE  /\ Truncated(s, items) \in Seq(Candidate)
         /\ Len(Truncated(s, items)) <= Len(s)
         /\ Len(Truncated(s, items)) <= items
         /\ Len(Truncated(s, items)) \in Nat
         /\ TotalSize(Truncated(s, items)) <= TotalSize(s)
         /\ Range(Truncated(s, items)) \subseteq Range(s)
         /\ items > 0 /\ Len(s) > 0 => /\ Len(Truncated(s, items)) > 0
                                       /\ Truncated(s, items)[1] = s[1]
         /\ Len(Truncated(s, items)) >= Len(s) => Truncated(s, items) = s
PROOF
<1> DEFINE n == IF Len(s) < items THEN Len(s) ELSE items
<1>1. Len(s) \in Nat /\ DOMAIN s = 1..Len(s) /\ \A i \in 1..Len(s) : s[i] \in Candidate
  OBVIOUS
<1>2. n \in 0..Len(s) /\ n <= items /\ (items > 0 /\ Len(s) > 0 => n > 0)
  BY <1>1
<1>3. Truncated(s, items) = SubSeq(s, 1, n)
  BY DEF Truncated
<1> HIDE DEF n
<1> DEFINE front == SubSeq(s, 1, n)
<1>4. front \in Seq(Candidate) /\ Len(front) = n /\ TotalSize(front) <= TotalSize(s)
  BY <1>2, SizePrefix
<1>5. \A i \in 1..n : front[i] = s[i]
  BY <1>1, <1>2
<1>6. n = Len(s) => front = s
  BY SubSeqFull
<1> HIDE DEF front
<1>7. Range(front) \subseteq Range(s)
  BY <1>1, <1>2, <1>4, <1>5, RangeEquality
<1>8. items > 0 /\ Len(s) > 0 => Len(front) > 0 /\ front[1] = s[1]
  BY <1>1, <1>2, <1>4, <1>5
<1>9. Len(front) >= Len(s) => front = s
  <2>1. n >= Len(s) => n = Len(s)
    <3>1. \A a, b \in Nat : a >= b /\ a <= b => a = b
      OBVIOUS
    <3>2. Len(s) \in Nat /\ n \in Nat /\ n <= Len(s)
      <4>1. Len(s) \in Nat
        OBVIOUS
      <4>2. \A k \in Nat : \A a \in 0..k : a \in Nat /\ a <= k
        OBVIOUS
      <4> QED  BY <1>2, <4>1, <4>2
    <3> QED  BY <3>1, <3>2
  <2> QED  BY <1>4, <1>6, <2>1
<1>10. Truncated(s, items) = front
  BY <1>3 DEF front
<1>11. Len(front) \in Nat /\ Len(front) <= Len(s) /\ Len(front) <= items
  BY <1>1, <1>2, <1>4
<1> QED  BY <1>4, <1>7, <1>8, <1>9, <1>10, <1>11

----------------------------------------------------------------------------
(* What a reduction keeps of the candidates *)

(* Only their findings; and when nothing had to go for want of bytes, a    *)
(* diagnostic as severe as any there is, and, if nothing had to go at all, *)
(* every test failure.                                                     *)
OnlyFound(findings, candidates) ==
  \A n \in DOMAIN findings : \E m \in DOMAIN candidates : findings[n] = candidates[m].finding
SevereKept(findings, candidates) ==
  \A c \in Range(Diagnostics(candidates)) :
    \E n \in DOMAIN findings : /\ ~findings[n].test_failure
                               /\ findings[n].severity <= c.finding.severity
FailuresKept(findings, candidates) ==
  \A c \in Range(TestFailures(candidates)) :
    \E n \in DOMAIN findings : findings[n] = c.finding

IsReductionOf(reduced, candidates) ==
  /\ OnlyFound(reduced.findings, candidates)
  /\ TotalSize(candidates) <= args.max_output_bytes =>
       /\ args.max_items > 0 => SevereKept(reduced.findings, candidates)
       /\ ~reduced.truncated => FailuresKept(reduced.findings, candidates)

LEMMA ReductionProperties ==
  ASSUME NEW candidates \in Seq(Candidate), args \in ArgsType, NEW dropped \in Nat
  PROVE  IsReductionOf(ReductionOf(Diagnostics(candidates), TestFailures(candidates), dropped),
                       candidates)
PROOF
<1> DEFINE all == Range(candidates)
           S == {c \in all : ~c.finding.test_failure /\ ~Suppressed(candidates, c)}
           T == {c \in all : c.finding.test_failure}
           diagnostics == Diagnostics(candidates)
           failures == TestFailures(candidates)
           ranked == Ranked(diagnostics)
           first == Truncated(ranked, args.max_items)
           then == Truncated(failures, args.max_items - Len(first))
           kept == Retained(first \o then)
           reduced == ReductionOf(diagnostics, failures, dropped)
<1>1. args.max_items \in Nat /\ args.max_output_bytes \in Nat
  BY DEF ArgsType
<1>2. diagnostics = Only(candidates, S) /\ failures = Only(candidates, T)
  BY DEF Diagnostics, TestFailures
<1>3. diagnostics \in Seq(Candidate) /\ failures \in Seq(Candidate)
  <2> HIDE DEF S, T
  <2> QED  BY <1>2, OnlyCandidates
<1>4. Range(diagnostics) = S /\ Range(failures) = T
  <2>1. Range(diagnostics) = all \cap S /\ Range(failures) = all \cap T
    <3> HIDE DEF S, T
    <3> QED  BY <1>2, OnlyElements
  <2> QED  BY <2>1
<1>5. /\ TotalSize(diagnostics) + TotalSize(failures) <= TotalSize(candidates)
      /\ TotalSize(diagnostics) \in Nat /\ TotalSize(failures) \in Nat
      /\ TotalSize(candidates) \in Nat
  <2>1. S \cap T = {} /\ T \cap {} = {} /\ S \cap {} = {}
    OBVIOUS
  <2> HIDE DEF S, T
  <2>2. IsWithin(candidates, S, T, {})
    BY <2>1, PartsWithin
  <2>3. Only(candidates, {}) \in Seq(Candidate)
    BY OnlyCandidates
  <2>4. TotalSize(Only(candidates, {})) \in Nat
    BY <2>3, SizesType
  <2>5. TotalSize(diagnostics) \in Nat /\ TotalSize(failures) \in Nat
    BY <1>3, SizesType
  <2>6. TotalSize(candidates) \in Nat
    BY SizesType
  <2> HIDE DEF diagnostics, failures
  <2> QED  BY <1>2, <2>2, <2>4, <2>5, <2>6 DEF IsWithin
<1>6. /\ ReductionOf(diagnostics, failures, dropped).findings = [n \in DOMAIN kept |-> kept[n].finding]
      /\ ReductionOf(diagnostics, failures, dropped).truncated =
           (dropped > 0 \/ Len(kept) < Len(diagnostics) + Len(failures))
  BY DEF ReductionOf
<1> HIDE DEF diagnostics, failures
<1>7. IsRanking(ranked, diagnostics)
  BY <1>3, RankedProperties
<1> HIDE DEF ranked
<1>8. /\ first \in Seq(Candidate) /\ Len(first) \in Nat
      /\ Len(first) <= Len(ranked) /\ Len(first) <= args.max_items
      /\ TotalSize(first) <= TotalSize(ranked)
      /\ Range(first) \subseteq Range(ranked)
      /\ args.max_items > 0 /\ Len(ranked) > 0 => Len(first) > 0 /\ first[1] = ranked[1]
  BY <1>1, <1>7, TruncatedProperties DEF IsRanking
<1> HIDE DEF first
<1>9. /\ then \in Seq(Candidate) /\ Len(then) \in Nat
      /\ Len(then) <= Len(failures)
      /\ TotalSize(then) <= TotalSize(failures)
      /\ Range(then) \subseteq Range(failures)
      /\ Len(then) >= Len(failures) => then = failures
  <2>1. args.max_items - Len(first) \in Nat
    BY <1>1, <1>8
  <2> QED  BY <1>3, <2>1, TruncatedProperties
<1> HIDE DEF then
<1>10. /\ first \o then \in Seq(Candidate)
       /\ Len(first \o then) = Len(first) + Len(then)
       /\ Range(first \o then) = Range(first) \cup Range(then)
  BY <1>8, <1>9, ConcatProperties, RangeConcatenation
<1>11. kept \in Seq(Candidate) /\ kept \in Seq(Range(first \o then))
  BY <1>10, RetainedFound
<1>12. TotalSize(candidates) <= args.max_output_bytes => kept = first \o then
  <2>1. TotalSize(first \o then) = TotalSize(first) + TotalSize(then)
    BY <1>8, <1>9, SizeConcat
  <2>2. /\ TotalSize(first) \in Nat /\ TotalSize(then) \in Nat /\ TotalSize(ranked) \in Nat
        /\ TotalSize(ranked) <= TotalSize(diagnostics)
    BY <1>7, <1>8, <1>9, SizesType DEF IsRanking
  <2>3. TotalSize(first \o then) <= TotalSize(candidates)
    BY <1>5, <1>8, <1>9, <2>1, <2>2
  <2>4. TotalSize(candidates) <= args.max_output_bytes
          => TotalSize(first \o then) <= args.max_output_bytes
    <3>1. TotalSize(first \o then) \in Nat
      BY <2>1, <2>2
    <3> QED  BY <1>1, <1>5, <2>3, <3>1
  <2> QED  BY <1>1, <1>10, <2>4, RetainsAll
<1> HIDE DEF kept
<1>13. reduced.findings = [n \in DOMAIN kept |-> kept[n].finding]
       /\ (reduced.truncated <=> dropped > 0 \/ Len(kept) < Len(diagnostics) + Len(failures))
  BY <1>6
<1> HIDE DEF reduced
<1>14. OnlyFound(reduced.findings, candidates)
  <2>1. \A n \in DOMAIN kept : kept[n] \in Range(first \o then)
    BY <1>11
  <2>2. Range(ranked) = Range(diagnostics)
    BY <1>7 DEF IsRanking
  <2>3. Range(first \o then) \subseteq all
    BY <1>4, <1>8, <1>9, <1>10, <2>2
  <2>4. \A n \in DOMAIN kept : kept[n] \in Range(candidates)
    BY <2>1, <2>3
  <2>5. \A n \in DOMAIN kept : \E m \in DOMAIN candidates : kept[n] = candidates[m]
    BY <2>4 DEF Range
  <2> QED  BY <1>13, <2>5 DEF OnlyFound
<1>15. ASSUME TotalSize(candidates) <= args.max_output_bytes, args.max_items > 0
       PROVE  SevereKept(reduced.findings, candidates)
  <2> SUFFICES ASSUME NEW c \in Range(diagnostics)
               PROVE  \E n \in DOMAIN reduced.findings :
                        /\ ~reduced.findings[n].test_failure
                        /\ reduced.findings[n].severity <= c.finding.severity
    BY DEF SevereKept, diagnostics
  <2>1. ranked \in Seq(Candidate) /\ c \in Range(ranked)
        /\ ranked[1].finding.severity <= c.finding.severity
    BY <1>7 DEF IsRanking
  <2>2. Len(ranked) \in Nat \ {0} /\ ranked[1] \in Range(ranked)
    BY <2>1, NonEmptyRange
  <2>3. Len(first) > 0 /\ first[1] = ranked[1]
    BY <1>8, <1>15, <2>2
  <2>4. kept = first \o then
    BY <1>12, <1>15
  <2>5. 1 \in DOMAIN kept /\ kept[1] = ranked[1]
    BY <1>8, <1>9, <2>3, <2>4
  <2>6. ~ranked[1].finding.test_failure
    BY <1>4, <1>7, <2>2 DEF IsRanking
  <2> QED  BY <1>13, <2>1, <2>5, <2>6
<1>16. ASSUME TotalSize(candidates) <= args.max_output_bytes, ~reduced.truncated
       PROVE  FailuresKept(reduced.findings, candidates)
  <2>1. kept = first \o then
    BY <1>12, <1>16
  <2>2. ~(Len(kept) < Len(diagnostics) + Len(failures))
    BY <1>13, <1>16
  <2>3. Len(first) <= Len(diagnostics) /\ Len(diagnostics) \in Nat /\ Len(failures) \in Nat
    <3>1. Len(ranked) <= Len(diagnostics) /\ ranked \in Seq(Candidate)
      BY <1>7 DEF IsRanking
    <3>2. Len(ranked) \in Nat /\ Len(diagnostics) \in Nat /\ Len(failures) \in Nat
      BY <1>3, <3>1
    <3> QED  BY <1>8, <3>1, <3>2
  <2>4. Len(then) >= Len(failures)
    BY <1>8, <1>9, <1>10, <2>1, <2>2, <2>3
  <2>5. then = failures
    BY <1>9, <2>4
  <2>6. \A c \in Range(failures) : \E n \in DOMAIN kept : kept[n] = c
    <3>1. Range(kept) = Range(first) \cup Range(failures)
      BY <1>10, <2>1, <2>5
    <3> QED  BY <3>1 DEF Range
  <2> QED  BY <1>13, <2>6 DEF FailuresKept, failures
<1> QED  BY <1>14, <1>15, <1>16 DEF IsReductionOf, reduced, diagnostics, failures

----------------------------------------------------------------------------
(* What has been seen *)

LEMMA EmittedSeen ==
  ASSUME NEW state \in SessionType, NEW id \in Ids, NEW line \in Findings \cup {NoFinding},
         line # NoFinding => line \in state.seen,
         \A n \in DOMAIN state.candidates : state.candidates[n].finding \in state.seen,
         ~state.refused /\ state.candidates_dropped = 0 =>
           \A finding \in state.seen \ {line} :
             \E n \in DOMAIN state.candidates : state.candidates[n].finding = finding,
         line = NoFinding => SeenSafe(state)
  PROVE  SeenSafe(Emitted(state, id, line))
PROOF
<1>1. CASE line = NoFinding
  BY <1>1 DEF Emitted
<1>2. CASE line # NoFinding /\ Len(state.candidates) >= MaxCandidates
  <2>1. Emitted(state, id, line) = [state EXCEPT !.candidates_dropped = @ + 1]
    BY <1>2 DEF Emitted
  <2>2. state.candidates_dropped \in Nat
    BY DEF SessionType
  <2> QED  BY <2>1, <2>2 DEF SeenSafe, SessionType
<1>3. CASE line # NoFinding /\ ~(Len(state.candidates) >= MaxCandidates)
  <2> DEFINE candidate == [scope |-> id, finding |-> line]
             more == Append(state.candidates, candidate)
             next == Emitted(state, id, line)
  <2>1. next = [state EXCEPT !.candidates = more]
    BY <1>3 DEF Emitted
  <2>2. state.candidates \in Seq([scope : Ids, finding : Findings]) /\ candidate.finding = line
    BY DEF SessionType
  <2>3. /\ DOMAIN more = 1..(Len(state.candidates) + 1)
        /\ DOMAIN state.candidates = 1..Len(state.candidates) /\ Len(state.candidates) \in Nat
        /\ \A n \in 1..Len(state.candidates) : more[n] = state.candidates[n]
        /\ more[Len(state.candidates) + 1] = candidate
    BY <2>2
  <2> HIDE DEF candidate, more
  <2>4. /\ next.candidates = more /\ next.seen = state.seen /\ next.refused = state.refused
        /\ next.candidates_dropped = state.candidates_dropped
    BY <2>1 DEF SessionType
  <2> HIDE DEF next
  <2>5. \A n \in DOMAIN more : more[n].finding \in state.seen
    BY <1>3, <2>2, <2>3
  <2>6. ASSUME ~state.refused, state.candidates_dropped = 0, NEW finding \in state.seen
        PROVE  \E n \in DOMAIN more : more[n].finding = finding
    <3>1. CASE finding = line
      BY <2>2, <2>3, <3>1
    <3>2. CASE finding # line
      <4>1. PICK n \in DOMAIN state.candidates : state.candidates[n].finding = finding
        BY <2>6, <3>2
      <4>2. n \in DOMAIN more /\ more[n] = state.candidates[n]
        BY <2>3
      <4> QED  BY <4>1, <4>2
    <3> QED  BY <3>1, <3>2
  <2>7. SeenSafe(next)
    BY <2>4, <2>5, <2>6 DEF SeenSafe
  <2> QED  BY <2>7 DEF next
<1> QED  BY <1>1, <1>2, <1>3

LEMMA PushedSeen ==
  ASSUME session \in SessionType, SeenSafe(session), NEW id \in DOMAIN session.scopes,
         NEW line \in Findings \cup {NoFinding}
  PROVE  SeenSafe(Pushed(id, line))
PROOF
<1> DEFINE noted == [session EXCEPT !.seen = IF line = NoFinding THEN @ ELSE @ \cup {line}]
           pushed == [noted EXCEPT !.scopes[id] = @ + 1]
<1>1. PICK open \in SUBSET Ids : session.scopes \in [open -> Nat]
  BY DEF SessionType, ScopesType
<1>2. /\ noted \in SessionType /\ noted.scopes = session.scopes
      /\ noted.candidates = session.candidates /\ noted.refused = session.refused
      /\ noted.candidates_dropped = session.candidates_dropped
      /\ noted.seen = IF line = NoFinding THEN session.seen ELSE session.seen \cup {line}
  BY DEF SessionType
<1>3. /\ pushed \in SessionType
      /\ pushed.candidates = session.candidates /\ pushed.refused = session.refused
      /\ pushed.candidates_dropped = session.candidates_dropped
      /\ pushed.seen = noted.seen
  <2> DEFINE scopes == [session.scopes EXCEPT ![id] = @ + 1]
  <2>1. scopes \in [open -> Nat] /\ DOMAIN scopes = DOMAIN session.scopes
    BY <1>1
  <2>2. scopes \in ScopesType
    BY <2>1 DEF ScopesType
  <2>3. pushed = [noted EXCEPT !.scopes = scopes]
    BY <1>2
  <2> HIDE DEF scopes, noted
  <2> QED  BY <1>2, <2>2, <2>3 DEF SessionType
<1>4. CASE session.scopes[id] >= args.max_input_bytes
  <2> HIDE DEF noted
  <2>1. Pushed(id, line) = [noted EXCEPT !.refused = TRUE]
    BY <1>4 DEF Pushed, noted
  <2>2. /\ Pushed(id, line).candidates = session.candidates /\ Pushed(id, line).refused = TRUE
        /\ Pushed(id, line).seen = noted.seen
    BY <1>2, <2>1 DEF SessionType
  <2> QED  BY <1>2, <2>2 DEF SeenSafe
<1>5. CASE ~(session.scopes[id] >= args.max_input_bytes)
  <2>1. Pushed(id, line) = Emitted(pushed, id, line)
    BY <1>5 DEF Pushed
  <2>2. id \in Ids
    BY <1>1
  <2> HIDE DEF pushed, noted
  <2>3. line # NoFinding => line \in pushed.seen
    BY <1>2, <1>3
  <2>4. \A n \in DOMAIN pushed.candidates : pushed.candidates[n].finding \in pushed.seen
    BY <1>2, <1>3 DEF SeenSafe
  <2>5. ~pushed.refused /\ pushed.candidates_dropped = 0 =>
          \A finding \in pushed.seen \ {line} :
            \E n \in DOMAIN pushed.candidates : pushed.candidates[n].finding = finding
    BY <1>2, <1>3 DEF SeenSafe
  <2>6. line = NoFinding => SeenSafe(pushed)
    BY <1>2, <1>3 DEF SeenSafe
  <2>7. SeenSafe(Emitted(pushed, id, line))
    BY <1>3, <2>2, <2>3, <2>4, <2>5, <2>6, EmittedSeen
  <2> QED  BY <2>1, <2>7
<1> QED  BY <1>4, <1>5

LEMMA SeenInit == Init => SeenInv
PROOF
<1> SUFFICES ASSUME Init PROVE SeenInv
  OBVIOUS
<1>1. session.candidates = <<>> /\ session.seen = {} /\ stage = "arguments"
  BY DEF Init, NewSession
<1> QED  BY <1>1 DEF SeenInv, CandidatesSeen, SeenSafe, ReductionFinal, StatusOfReduction, Succeeded, Writing

LEMMA SeenStep == IInv /\ SeenInv /\ [Next]_vars => SeenInv'
PROOF
<1> SUFFICES ASSUME IInv, SeenInv, [Next]_vars
             PROVE  SeenInv'
  OBVIOUS
<1> USE DEF Writing, Succeeded
<1>a. /\ args' = args /\ session' = session => FinishedSession' = FinishedSession
      /\ session' = session => CandidatesSeen'
  <2>1. args' = args /\ session' = session => FinishedSession' = FinishedSession
    BY DEF FinishedSession, ReductionOf, Retained, Retaining
  <2>2. session' = session => CandidatesSeen'
    BY DEF SeenInv, CandidatesSeen, SeenSafe
  <2> QED  BY <2>1, <2>2
<1>b. stage # "done" => error = "none"
  BY DEF IInv, Outcome
<1>1. ASSUME NEW why, Fail(why), why # "none"
      PROVE  SeenInv'
  BY <1>1, <1>a DEF Fail, SeenInv, ReductionFinal, StatusOfReduction
<1>2. CASE CheckArguments \/ LoadMatcher \/ RefuseMatchers \/ OpenInput \/ FailToOpen
           \/ StopReading \/ FailToWrite \/ StartSession
  <2>1. CASE stage' \in {"matchers", "begin", "read", "end"} /\ UNCHANGED session
    BY <2>1, <1>a DEF SeenInv, ReductionFinal, StatusOfReduction
  <2>2. \/ stage' \in {"matchers", "begin", "read", "end"} /\ UNCHANGED session
        \/ \E why \in {"literal", "matcher", "matchers", "stdin", "file", "write"} : Fail(why)
    <3>1. CASE CheckArguments
      BY <3>1 DEF CheckArguments, Continue
    <3>2. CASE LoadMatcher
      BY <3>2 DEF LoadMatcher, Continue
    <3>3. CASE RefuseMatchers
      BY <3>3 DEF RefuseMatchers
    <3>4. CASE OpenInput
      BY <3>4 DEF OpenInput, Continue
    <3>5. CASE FailToOpen
      BY <3>5 DEF FailToOpen
    <3>6. CASE StopReading
      BY <3>6 DEF StopReading, Continue
    <3>7. CASE FailToWrite
      BY <3>7 DEF FailToWrite
    <3>8. CASE StartSession
      BY <3>8 DEF StartSession, Continue
    <3> QED  BY <1>2, <3>1, <3>2, <3>3, <3>4, <3>5, <3>6, <3>7, <3>8
  <2>3. CASE \E why \in {"literal", "matcher", "matchers", "stdin", "file", "write"} : Fail(why)
    BY <2>3, <1>1
  <2> QED  BY <2>1, <2>2, <2>3
<1>3. CASE BeginInput
  <2>1. CASE CanBegin(ScopeId)
    <3>1. session' = Begun(ScopeId) /\ stage' = "open"
      BY <1>3, <2>1 DEF BeginInput, Continue
    <3>2. /\ session'.candidates = session.candidates /\ session'.seen = session.seen
          /\ session'.refused = session.refused
          /\ session'.candidates_dropped = session.candidates_dropped
      BY <3>1 DEF Begun, IInv, TypeOK, SessionType
    <3> QED  BY <3>1, <3>2 DEF SeenInv, CandidatesSeen, SeenSafe, ReductionFinal, StatusOfReduction
  <2>2. CASE ~CanBegin(ScopeId)
    <3>1. Fail("refused")
      BY <1>3, <2>2 DEF BeginInput
    <3> QED  BY <3>1, <1>1
  <2> QED  BY <2>1, <2>2
<1>4. CASE ReadChunk
  <2>1. stage = "read" /\ ScopeId \in DOMAIN session.scopes
    BY <1>4 DEF ReadChunk, IInv, ScopesOpen, Reading
  <2>2. PICK line \in Findings \cup {NoFinding} : session' = Pushed(ScopeId, line) /\ stage' = "read"
    BY <1>4, <2>1 DEF ReadChunk, Continue
  <2>3. SeenSafe(session')
    BY <2>1, <2>2, PushedSeen DEF IInv, TypeOK, SeenInv, CandidatesSeen
  <2>4. CandidatesSeen'
    BY <2>3 DEF CandidatesSeen
  <2> QED  BY <2>2, <2>4 DEF SeenInv, ReductionFinal, StatusOfReduction
<1>5. CASE EndInput
  <2>1. PICK reason : session' = Ended(ScopeId, reason)
    BY <1>5 DEF EndInput
  <2>2. /\ session'.candidates = session.candidates /\ session'.seen = session.seen
        /\ session'.refused = session.refused
        /\ session'.candidates_dropped = session.candidates_dropped
    BY <2>1 DEF Ended, IInv, TypeOK, SessionType
  <2>3. stage' = "begin" \/ (stage' = "done" /\ error' # "none")
    <3>1. read_result # "none"
      BY <1>5 DEF EndInput, IInv, ResultKnown
    <3> QED  BY <1>5, <3>1 DEF EndInput, Continue
  <2> QED  BY <2>2, <2>3 DEF SeenInv, CandidatesSeen, SeenSafe, ReductionFinal, StatusOfReduction
<1>6. CASE Finish
  <2>1. session' = session /\ args' = args /\ reduction' = FinishedSession /\ stage' = "write"
    BY <1>6 DEF Finish, Continue
  <2> QED  BY <2>1, <1>a DEF SeenInv, ReductionFinal, StatusOfReduction
<1>7. CASE Write
  <2>1. session' = session /\ args' = args /\ reduction' = reduction
        /\ stage = "write" /\ stage' = "exit"
    BY <1>7 DEF Write, Continue
  <2> QED  BY <2>1, <1>a DEF SeenInv, ReductionFinal, StatusOfReduction
<1>8. CASE Exit
  <2>1. /\ session' = session /\ args' = args /\ reduction' = reduction /\ stage = "exit"
        /\ status' = IF args.fail_on # NoThreshold /\ HasSeverity(reduction.findings, args.fail_on)
                     THEN 1 ELSE 0
    BY <1>8 DEF Exit
  <2>2. reduction = FinishedSession
    BY <2>1 DEF SeenInv, ReductionFinal
  <2> QED  BY <2>1, <2>2, <1>a DEF SeenInv, ReductionFinal, StatusOfReduction
<1>9. CASE UNCHANGED vars
  <2>1. UNCHANGED <<session, args, reduction, stage, error, status>>
    BY <1>9 DEF vars
  <2> QED  BY <2>1, <1>a DEF SeenInv, ReductionFinal, StatusOfReduction
<1> QED  BY <1>2, <1>3, <1>4, <1>5, <1>6, <1>7, <1>8, <1>9 DEF Next

----------------------------------------------------------------------------
(* The exit status tells whether the log has findings that reach the       *)
(* threshold, as far as they were not lost.                                *)
THEOREM StatusAlwaysTold == Spec => []StatusTold
PROOF
<1>1. IInv /\ SeenInv => StatusTold
  <2> SUFFICES ASSUME IInv, SeenInv, stage = "done", error = "none", args.fail_on # NoThreshold
               PROVE  /\ (status = 1 => \E finding \in session.seen : Reaches(finding))
                      /\ (status = 0 => \A finding \in session.seen : Obliges(finding) => Lost(finding))
    BY DEF StatusTold
  <2> DEFINE found == session.candidates
             kept == reduction.findings
  <2>1. /\ args \in ArgsType /\ found \in Seq(Candidate) /\ session.candidates_dropped \in Nat
        /\ session.seen \in SUBSET Findings /\ session.refused \in BOOLEAN
    BY DEF IInv, TypeOK, SessionType, Candidate
  <2>2. args.fail_on \in 1..3 /\ args.max_items \in Nat /\ args.max_output_bytes \in Nat
    BY <2>1 DEF ArgsType, Severities, NoThreshold
  <2>3. reduction = ReductionOf(Diagnostics(found), TestFailures(found), session.candidates_dropped)
    BY DEF SeenInv, ReductionFinal, Succeeded, FinishedSession
  <2>4. IsReductionOf(reduction, found)
    BY <2>1, <2>3, ReductionProperties
  <2>5. status = IF HasSeverity(kept, args.fail_on) THEN 1 ELSE 0
    BY DEF SeenInv, StatusOfReduction, Succeeded
  <2>6. \A n \in DOMAIN found : found[n] \in Candidate /\ found[n].finding \in session.seen
    BY <2>1 DEF SeenInv, CandidatesSeen, SeenSafe
  <2>7. \A n \in DOMAIN kept : kept[n] \in session.seen
    BY <2>4, <2>6 DEF IsReductionOf, OnlyFound
  <2>8. \A n \in DOMAIN kept : Obliges(kept[n]) => HasSeverity(kept, args.fail_on)
    BY DEF Obliges, Reaches, HasSeverity
  <2>9. HasSeverity(kept, args.fail_on) => \E n \in DOMAIN kept : Reaches(kept[n])
    BY DEF Reaches, HasSeverity
  <2>10. status = 1 => \E finding \in session.seen : Reaches(finding)
    BY <2>5, <2>7, <2>9
  <2>11. ASSUME NEW finding \in session.seen, Obliges(finding), ~Lost(finding)
         PROVE  \E n \in DOMAIN kept : Obliges(kept[n])
    <3>1. /\ ~session.refused /\ session.candidates_dropped = 0
          /\ TotalSize(found) <= args.max_output_bytes
          /\ args.max_items > 0
          /\ finding.test_failure => ~reduction.truncated
          /\ finding.fallback =>
               \A other \in session.seen : other.test_failure \/ other.fallback
      <4>1. TotalSize(found) \in Nat
        BY <2>1, SizesType
      <4> QED  BY <2>1, <2>2, <2>11, <4>1 DEF Lost
    <3>2. PICK n \in DOMAIN found : found[n].finding = finding
      BY <3>1 DEF SeenInv, CandidatesSeen, SeenSafe
    <3>3. found[n] \in Range(found)
      BY DEF Range
    <3>4. CASE finding.test_failure
      <4>1. Range(TestFailures(found)) = {c \in Range(found) : c.finding.test_failure}
        BY <2>1, OnlyElements DEF TestFailures
      <4>2. found[n] \in Range(TestFailures(found))
        BY <3>2, <3>3, <3>4, <4>1
      <4>3. PICK m \in DOMAIN kept : kept[m] = found[n].finding
        BY <2>4, <3>1, <3>4, <4>2 DEF IsReductionOf, FailuresKept
      <4> QED  BY <2>11, <3>2, <4>3
    <3>5. CASE ~finding.test_failure
      <4>1. Range(Diagnostics(found)) =
              {c \in Range(found) : ~c.finding.test_failure /\ ~Suppressed(found, c)}
        BY <2>1, OnlyElements DEF Diagnostics
      <4>2. ~Suppressed(found, found[n])
        BY <2>6, <3>1, <3>2 DEF Suppressed
      <4>3. found[n] \in Range(Diagnostics(found))
        BY <3>2, <3>3, <3>5, <4>1, <4>2
      <4>4. PICK m \in DOMAIN kept : /\ ~kept[m].test_failure
                                     /\ kept[m].severity <= found[n].finding.severity
        BY <2>4, <3>1, <4>3 DEF IsReductionOf, SevereKept
      <4>5. kept[m].severity \in 1..3 /\ finding.severity \in 1..3
        <5>1. kept[m] \in Findings /\ finding \in Findings
          BY <2>1, <2>7
        <5> QED  BY <5>1, CommandLineAssumption DEF FindingType, Severities
      <4>6. finding.severity <= args.fail_on
        BY <2>11, <3>5 DEF Obliges, Reaches
      <4>7. kept[m].severity <= args.fail_on
        <5>1. kept[m].severity <= finding.severity
          BY <3>2, <4>4
        <5> HIDE DEF kept
        <5> QED  BY <2>2, <4>5, <4>6, <5>1
      <4> QED  BY <4>4, <4>7 DEF Obliges, Reaches
    <3> QED  BY <3>4, <3>5
  <2>12. status = 0 => \A finding \in session.seen : Obliges(finding) => Lost(finding)
    BY <2>5, <2>8, <2>11
  <2> QED  BY <2>10, <2>12
<1> QED  BY <1>1, CommandInvariant, IInvInit, IInvStep, SeenInit, SeenStep, PTL DEF Spec
=============================================================================
