--------------------------- MODULE ProblemMatcher ---------------------------
(***************************************************************************)
(* ProblemMatcherParser (problem_matcher.rs): compiled matchers run on     *)
(* the lines of every scope and stream, with partial matches of patterns   *)
(* over several lines kept between lines, under limits they all share.     *)
(*                                                                         *)
(* The session calls the parser (Session.tla); here it is the environment: *)
(* it shows the lines of open scopes, numbered per scope and stream, and   *)
(* the end of a scope.  One step is what one matcher does with one line.   *)
(***************************************************************************)
EXTENDS Matchers, FiniteSets, Functions, FiniteSetsExt, SequencesExt

CONSTANTS
  Matchers,          \* ProblemMatcherRegistry::into_parser
  Match,             \* for a regex, the lines it matches and the groups that
                     \* took part, with what they captured, trimmed
  Bytes,             \* String::len
  Coordinates,       \* the coordinates between the commas of a text, 0 for one
                     \* that is not a positive u32
  SeverityNamed,     \* parse_severity, 0 for None
  Absolute,          \* the paths that start with a root
  Scopes, Streams,
  LogLines,          \* lines that come, as normalised
  MaxActiveStates, MaxStateBytes,    \* ProblemMatcherLimits
  MaxLines           \* bounds the lines of open scopes

Blank == 0             \* a line that normalises to nothing
NoLine == [scope |-> 0, stream |-> 0, text |-> Blank, number |-> 0]

VARIABLES
  phase,        \* whether the session is in a call of observe, or after finish
  open,         \* scopes between their boundaries
  log,          \* the lines of the current use of each scope id, by stream
  line,         \* the argument of observe
  matcher,      \* the matcher whose turn it is
  states,       \* partial matches, by scope, stream and matcher
  emitted,      \* problems given to the emitter, from the same lines
  dropped       \* where candidate_dropped was called, likewise

vars == <<phase, open, log, line, matcher, states, emitted, dropped>>

Sources == Scopes \X Streams
LinesShown(source) ==
  Cardinality({i \in DOMAIN log[source] : log[source][i] # Blank})

NothingYet == [source \in Sources |-> <<>>]
Forget(history, scope) ==
  [source \in Sources |-> IF source[1] = scope THEN <<>> ELSE history[source]]

Init ==
  /\ phase = "idle"
  /\ open = {}
  /\ log = NothingYet
  /\ line = NoLine
  /\ matcher = 1
  /\ states = <<>>
  /\ emitted = NothingYet
  /\ dropped = {}

----------------------------------------------------------------------------
(* What a match captures *)

Nothing == [fields |-> [field \in Fields |-> 0], message |-> <<>>]

Matches(pattern, text) == text \in DOMAIN Match[pattern.regex]
Captured(pattern, text, target) ==
  LET groups == Match[pattern.regex][text]
  IN  IF pattern.groups[target] \in DOMAIN groups THEN groups[pattern.groups[target]] ELSE 0

(* fill, append_message *)
ApplyCaptures(data, pattern, text) ==
  LET message == Captured(pattern, text, "message")
  IN  [fields |-> [field \in Fields |->
                     IF data.fields[field] # 0 THEN data.fields[field]
                     ELSE Captured(pattern, text, field)],
       message |-> IF message = 0 THEN data.message ELSE Append(data.message, message)]

(* The pieces of a message are joined by line feeds. *)
MessageBytes(message) ==
  IF message = <<>> THEN 0
  ELSE SumFunction([i \in DOMAIN message |-> Bytes[message[i]]]) + Len(message) - 1
DataBytes(data) ==
  SumFunction([field \in Fields |->
                 IF data.fields[field] = 0 THEN 0 ELSE Bytes[data.fields[field]]])
    + MessageBytes(data.message)

RetainedStateBytes(partial) ==
  SumFunction([key \in DOMAIN partial |-> DataBytes(partial[key].data)])

----------------------------------------------------------------------------
(* The problem a complete match reports, if it reports one *)

(* join_path; separators are left out. *)
JoinPath(prefix, path) ==
  IF prefix = 0 \/ Bytes[prefix] = 0 \/ path[1] \in Absolute THEN path ELSE <<prefix>> \o path

Coordinate(text) ==
  IF text # 0 /\ Len(Coordinates[text]) = 1 THEN Coordinates[text][1] ELSE 0

(* parse_location; 0 for a coordinate that is absent. *)
NoRange == <<0, 0, 0, 0>>
ParsedRange(text) ==
  LET parts == Coordinates[text]
  IN  IF Len(parts) \notin {1, 2, 4} \/ \E i \in DOMAIN parts : parts[i] = 0 THEN NoRange
      ELSE [i \in 1..4 |-> IF i \in DOMAIN parts THEN parts[i] ELSE 0]

CapturedRange(fields) ==
  IF fields["location"] # 0 THEN ParsedRange(fields["location"])
  ELSE <<Coordinate(fields["line"]), Coordinate(fields["column"]),
         Coordinate(fields["end_line"]), Coordinate(fields["end_column"])>>

(* The end of a range is not before its start, and has a line if it has a  *)
(* column.                                                                 *)
Range4(fields) ==
  LET range == CapturedRange(fields)
      end == IF range[3] = 0 /\ range[4] # 0 THEN range[1] ELSE range[3]
  IN  <<range[1], range[2],
        IF end # 0 /\ end < range[1] THEN range[1] ELSE end, range[4]>>

WholeFile(m) == Matchers[m].patterns[1].kind = "file"

IsReported(m, data) ==
  /\ data.fields["file"] # 0 /\ Bytes[data.fields["file"]] > 0
  /\ WholeFile(m) \/ CapturedRange(data.fields)[1] # 0
  /\ MessageBytes(data.message) > 0

Problem(m, data, source, start, end) ==
  LET fields == data.fields
      named == IF fields["severity"] = 0 THEN 0 ELSE SeverityNamed[fields["severity"]]
  IN  [matcher |-> m, scope |-> source[1], stream |-> source[2], start |-> start, end |-> end,
       severity |-> IF named = 0 THEN Matchers[m].severity ELSE named,
       code |-> IF fields["code"] # 0 /\ Bytes[fields["code"]] = 0 THEN 0 ELSE fields["code"],
       message |-> data.message,
       path |-> JoinPath(Matchers[m].prefix,
                         JoinPath(fields["from_path"], <<fields["file"]>>)),
       range |-> IF WholeFile(m) THEN NoRange ELSE Range4(fields)]

----------------------------------------------------------------------------
(* The session *)

LinesOfOpenScopes == MapThenSumSet(LAMBDA source : Len(log[source]), Sources)

(* boundary(Begin) changes nothing; an id that is used again starts a new  *)
(* log.                                                                    *)
BeginScope(scope) ==
  /\ phase = "idle"
  /\ scope \notin open
  /\ open' = open \cup {scope}
  /\ log' = Forget(log, scope)
  /\ emitted' = Forget(emitted, scope)
  /\ dropped' = {key \in dropped : key[1] # scope}
  /\ UNCHANGED <<phase, line, matcher, states>>

(* dispatch_bytes does not show parsers a line that normalises to nothing. *)
PushLine(source, text) ==
  /\ phase = "idle"
  /\ source[1] \in open
  /\ LinesOfOpenScopes < MaxLines
  /\ log' = [log EXCEPT ![source] = Append(@, text)]
  /\ IF text = Blank THEN UNCHANGED <<phase, line>>
     ELSE /\ phase' = "observing"
          /\ line' = [scope |-> source[1], stream |-> source[2], text |-> text,
                      number |-> LinesShown(source) + 1]
  /\ UNCHANGED <<open, matcher, states, emitted, dropped>>

StatesAfterAny(scope) == states       \* variant: the boundary is not looked at
StatesAfter(scope) == Restrict(states, {key \in DOMAIN states : key[1] # scope})

(* boundary(End) *)
EndScope(scope) ==
  /\ phase = "idle"
  /\ scope \in open
  /\ open' = open \ {scope}
  /\ states' = StatesAfter(scope)
  /\ UNCHANGED <<phase, log, line, matcher, emitted, dropped>>

Finish ==
  /\ phase = "idle"
  /\ open = {}
  /\ phase' = "finished"
  /\ states' = <<>>
  /\ UNCHANGED <<open, log, line, matcher, emitted, dropped>>

----------------------------------------------------------------------------
(* observe_matcher: one matcher and one line *)

Source == <<line.scope, line.stream>>
Key == <<line.scope, line.stream, matcher>>
PatternsNow == Matchers[matcher].patterns

Continues ==
  Key \in DOMAIN states /\ Matches(PatternsNow[states[Key].next_pattern], line.text)

(* The partial match the line is added to: the one kept, or a new one. *)
Attempt ==
  IF Continues THEN states[Key]
  ELSE [next_pattern |-> 1, data |-> Nothing, start_line |-> line.number]
PatternNow == PatternsNow[Attempt.next_pattern]
IsLast == Attempt.next_pattern = Len(PatternsNow)
Data == ApplyCaptures(Attempt.data, PatternNow, line.text)

(* states.remove *)
OthersAndStale == IF Continues THEN Restrict(states, DOMAIN states \ {Key}) ELSE states
                                      \* variant: a line that does not match keeps the state
Others == Restrict(states, DOMAIN states \ {Key})

Inserted(partial, state) ==
  [key \in DOMAIN partial \cup {Key} |-> IF key = Key THEN state ELSE partial[key]]

MatcherTurn ==
  /\ phase = "observing"
  /\ matcher \in DOMAIN Matchers
  /\ matcher' = matcher + 1
  /\ UNCHANGED <<phase, open, log, line>>

DropUntold == UNCHANGED <<emitted, dropped>>        \* variant: no candidate_dropped
Drop == dropped' = dropped \cup {Key} /\ UNCHANGED emitted

(* emit_problem *)
EmitProblem(data) ==
  IF DataBytes(data) > MaxStateBytes THEN Drop
  ELSE /\ UNCHANGED dropped
       /\ emitted' =
            IF IsReported(matcher, data)
            THEN [emitted EXCEPT ![Source] =
                    Append(@, Problem(matcher, data, Source, Attempt.start_line, line.number))]
            ELSE emitted

NoMatch ==
  /\ MatcherTurn
  /\ ~Matches(PatternNow, line.text)
  /\ states' = Others
  /\ UNCHANGED <<emitted, dropped>>

(* A loop goes on with what was captured before its last pattern. *)
LoopedWithCaptures == [states EXCEPT ![Key].data = Data]   \* variant: and with the last
Looped == states
CompleteMatch ==
  /\ MatcherTurn
  /\ Matches(PatternNow, line.text)
  /\ IsLast
  /\ EmitProblem(Data)
  /\ states' = IF Continues /\ PatternNow.loop THEN Looped ELSE Others

FitsAlone(data) == DataBytes(data) <= MaxStateBytes  \* variant: other states are not added
Fits(data) == RetainedStateBytes(Others) + DataBytes(data) <= MaxStateBytes

ContinueMatch ==
  LET advanced == [states[Key] EXCEPT !.next_pattern = @ + 1, !.data = Data]
  IN  /\ MatcherTurn
      /\ Continues
      /\ ~IsLast
      /\ \/ /\ Fits(Data)
            /\ states' = Inserted(Others, advanced)
            /\ UNCHANGED <<emitted, dropped>>
         \/ ~Fits(Data) /\ states' = Others /\ Drop

StatesLeftOff == Cardinality(DOMAIN Others) <= MaxActiveStates    \* variant: off by one
StatesLeft == Cardinality(DOMAIN Others) < MaxActiveStates

(* start_match *)
StartMatch ==
  LET started == [next_pattern |-> 2, data |-> Data, start_line |-> line.number]
      fits == Fits(Data) /\ StatesLeft
  IN  /\ MatcherTurn
      /\ ~Continues
      /\ Matches(PatternNow, line.text)
      /\ ~IsLast
      /\ \/ /\ fits
            /\ states' = Inserted(Others, started)
            /\ UNCHANGED <<emitted, dropped>>
         \/ ~fits /\ states' = Others /\ Drop

ObserveReturns ==
  /\ phase = "observing"
  /\ matcher \notin DOMAIN Matchers
  /\ phase' = "idle"
  /\ matcher' = 1
  /\ line' = NoLine
  /\ UNCHANGED <<open, log, states, emitted, dropped>>

Done ==
  /\ phase = "finished"
  /\ UNCHANGED vars

Next ==
  \/ \E scope \in Scopes : BeginScope(scope) \/ EndScope(scope)
  \/ \E source \in Sources, text \in LogLines : PushLine(source, text)
  \/ NoMatch
  \/ CompleteMatch
  \/ ContinueMatch
  \/ StartMatch
  \/ ObserveReturns
  \/ Finish
  \/ Done

Spec == Init /\ [][Next]_vars

ASSUME ProblemMatcherAssumption ==
  /\ Matchers \in Seq(CompiledMatchers)
  /\ \A m \in DOMAIN Matchers : WellFormed(Matchers[m])
  /\ LogLines \subseteq Nat
  /\ \A regex \in Regexes : \A text \in DOMAIN Match[regex] :
       /\ DOMAIN Match[regex][text] \subseteq 0..(GroupCount[regex] - 1)
       /\ \A group \in DOMAIN Match[regex][text] : Match[regex][text][group] \in Texts
  /\ Bytes \in [Texts -> Nat]
  /\ Coordinates \in [Texts -> Seq(Nat)]
  /\ SeverityNamed \in [Texts -> 0..3]
  /\ MaxActiveStates \in Nat
  /\ MaxStateBytes \in Nat
=============================================================================
