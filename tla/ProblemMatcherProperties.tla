---------------------- MODULE ProblemMatcherProperties ----------------------
(***************************************************************************)
(* What the matchers owe the log: each works as if it were alone with one  *)
(* stream of one scope, within limits that all share.                      *)
(***************************************************************************)
EXTENDS ProblemMatcher, Selections

Keys == Scopes \X Streams \X (DOMAIN Matchers)
LineType ==
  [scope : Scopes \cup {0}, stream : Streams \cup {0}, text : LogLines \cup {Blank},
   number : Nat]
DataType == [fields : [Fields -> OptionalTexts], message : Seq(Texts)]
StateType == [next_pattern : Nat \ {0}, data : DataType, start_line : Nat]
ProblemType ==
  [matcher : DOMAIN Matchers, scope : Scopes, stream : Streams, start : Nat, end : Nat,
   severity : 1..3, code : OptionalTexts, message : Seq(Texts), path : Seq(Texts),
   range : Seq(Nat)]

(* Every variable has its type. *)
TypeOK ==
  /\ phase \in {"idle", "observing", "finished"}
  /\ open \subseteq Scopes
  /\ log \in [Sources -> Seq(LogLines)]
  /\ line \in LineType
  /\ matcher \in 1..(Len(Matchers) + 1)
  /\ DOMAIN states \subseteq Keys /\ IsFiniteSet(DOMAIN states)
  /\ states \in [DOMAIN states -> StateType]
  /\ emitted \in [Sources -> Seq(ProblemType)]
  /\ dropped \subseteq Keys

(* A line is observed in an open scope. *)
LineIsOpen == phase = "observing" => line.scope \in open /\ line.stream \in Streams

(* Partial matches belong to open scopes: none is left for a later use of  *)
(* the scope id, and finish has nothing to clear (boundary).               *)
StatesOfOpenScopes == \A key \in DOMAIN states : key[1] \in open

(* A partial match waits for a pattern that exists, and not for the first: *)
(* observe_matcher's index into the patterns is in range.                  *)
NextPatternExists ==
  \A key \in DOMAIN states : states[key].next_pattern \in 2..Len(Matchers[key[3]].patterns)

(* Partial matches of all scopes, streams and matchers together are within *)
(* max_active_states and max_state_bytes, in every step.                   *)
ActiveStatesBounded == Cardinality(DOMAIN states) <= MaxActiveStates
StateBytesBounded == RetainedStateBytes(states) <= MaxStateBytes
StatesBounded == ActiveStatesBounded /\ StateBytesBounded

(* The inductive invariant behind the theorems of ProblemMatcherProofs.tla *)
IInv ==
  /\ TypeOK
  /\ LineIsOpen
  /\ StatesOfOpenScopes
  /\ NextPatternExists
  /\ StatesBounded

----------------------------------------------------------------------------
(* The reference: matches of one matcher in the lines of one stream *)

Shown(source) == Only(log[source], LogLines \ {Blank})

(* What the lines of h at the given positions capture for a target, the    *)
(* n-th of them with the n-th pattern, 0 for nothing.                      *)
CapturedAt(m, h, positions, target) ==
  [n \in DOMAIN positions |-> Captured(Matchers[m].patterns[n], h[positions[n]], target)]

FirstOf(values) ==
  LET some == {n \in DOMAIN values : values[n] # 0}
  IN  IF some = {} THEN 0 ELSE values[CHOOSE n \in some : \A k \in some : n <= k]

(* The first value of each field, all the pieces of the message. *)
DataOf(m, h, positions) ==
  [fields |-> [field \in Fields |-> FirstOf(CapturedAt(m, h, positions, field))],
   message |-> Only(CapturedAt(m, h, positions, "message"), Texts)]

(* The pattern for the place-th line of a match: the last pattern for all  *)
(* that follow.                                                            *)
PatternAt(m, place) ==
  LET patterns == Matchers[m].patterns
  IN  patterns[IF place < Len(patterns) THEN place ELSE Len(patterns)]
Loops(m) == Matchers[m].patterns[Len(Matchers[m].patterns)].loop
InPlace(m, h, start, n) == Matches(PatternAt(m, n - start + 1), h[n])

(* Lines start..end of h match the patterns of m one after the other, the  *)
(* last of them more than once only if it loops.                           *)
IsRun(m, h, start, end) ==
  LET last == Len(Matchers[m].patterns)
  IN  /\ 1 <= start /\ end <= Len(h)
      /\ end - start + 1 >= last
      /\ end - start + 1 > last => Loops(m)
      /\ \A n \in start..end : InPlace(m, h, start, n)

(* The lines a problem reported at the end of a run is made from: those    *)
(* before the last pattern and the one that matched it.                    *)
RunPositions(m, start, end) ==
  [n \in 1..Len(Matchers[m].patterns) |->
     IF n < Len(Matchers[m].patterns) THEN start + n - 1 ELSE end]

RunProblem(m, h, source, start, end) ==
  Problem(m, DataOf(m, h, RunPositions(m, start, end)), source, start, end)
RunReported(m, h, start, end) ==
  IsReported(m, DataOf(m, h, RunPositions(m, start, end)))

(* "A nonmatching line ends and resets the partial match; it is also       *)
(* considered as the possible first line of a new match."                  *)
(* (PROBLEM_MATCHERS.md): where the match that line n is part of started,  *)
(* given where that of the line before did, or 0.                          *)
NextStart(m, h, n, before) ==
  LET goesOn == before # 0 /\ (n - before + 1 <= Len(Matchers[m].patterns) \/ Loops(m))
  IN  IF goesOn /\ InPlace(m, h, before, n) THEN before
      ELSE IF InPlace(m, h, n, n) THEN n ELSE 0

Starts(m, h) ==
  LET start[n \in 0..Len(h)] == IF n = 0 THEN 0 ELSE NextStart(m, h, n, start[n - 1])
  IN  start

(* The problems of one matcher in the first e lines of one stream. *)
ExpectedEnds(m, h, e) ==
  LET start == Starts(m, h)
  IN  {n \in 1..e : /\ start[n] # 0
                    /\ n - start[n] + 1 >= Len(Matchers[m].patterns)
                    /\ RunReported(m, h, start[n], n)}
ExpectedProblems(m, h, source, e) ==
  {RunProblem(m, h, source, Starts(m, h)[n], n) : n \in ExpectedEnds(m, h, e)}

(* The positions of its problems among those emitted from one stream, and *)
(* when these are the ones expected, in order and once.                    *)
EmittedBy(m, problems) == {i \in DOMAIN problems : problems[i].matcher = m}
Reported(m, h, source, e, problems) ==
  LET mine == EmittedBy(m, problems)
  IN  /\ {problems[i] : i \in mine} = ExpectedProblems(m, h, source, e)
      /\ \A i, j \in mine : i < j => problems[i].end < problems[j].end

----------------------------------------------------------------------------
(* Every problem reported is a run of lines of its own scope and stream,   *)
(* in the current use of the scope id, and carries what these lines        *)
(* capture and nothing of other lines, scopes, streams or matchers, even   *)
(* when limits dropped matches in between (observe_matcher, boundary).     *)
ProblemsAreRuns ==
  \A source \in Sources : \A problem \in Range(emitted[source]) :
    LET h == Shown(source)
    IN  /\ IsRun(problem.matcher, h, problem.start, problem.end)
        /\ problem = RunProblem(problem.matcher, h, source, problem.start, problem.end)

(* "Crossing a runtime state bound marks the reduction as truncated"       *)
(* (PROBLEM_MATCHERS.md): unless candidate_dropped was called in the turn  *)
(* of a matcher on a stream, it reported every problem of that stream, in  *)
(* order and once, whatever the other scopes, streams and matchers did.    *)
ProblemsComplete ==
  phase # "observing" =>
    \A source \in Sources : \A m \in DOMAIN Matchers :
      <<source[1], source[2], m>> \notin dropped =>
        Reported(m, Shown(source), source, Len(Shown(source)), emitted[source])
=============================================================================
