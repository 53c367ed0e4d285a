------------------------ MODULE ProblemMatcherProofs ------------------------
(***************************************************************************)
(* For any matchers that validation accepts, any log and any limits:       *)
(* partial matches belong to open scopes, wait for a pattern that exists,  *)
(* and are within the limits; every problem is a run of lines of its own   *)
(* stream, and none is missing unless candidate_dropped was called.  The   *)
(* registry that makes the parsers loads a document whole or not at all,   *)
(* and what it makes is what ProblemMatcher assumes of its matchers.       *)
(***************************************************************************)
EXTENDS ProblemMatcherProperties, MatcherRegistryProperties, FoldLemmas

----------------------------------------------------------------------------
(* Types of what a match captures *)

LEMMA MatcherTypes ==
  ASSUME NEW m \in DOMAIN Matchers
  PROVE  /\ Matchers[m] \in CompiledMatchers
         /\ WellFormed(Matchers[m])
         /\ Len(Matchers[m].patterns) \in Nat \ {0}
         /\ \A n \in 1..Len(Matchers[m].patterns) : Matchers[m].patterns[n] \in Patterns
PROOF
<1>1. Matchers[m] \in CompiledMatchers /\ WellFormed(Matchers[m])
  BY ProblemMatcherAssumption
<1>2. Matchers[m].patterns \in Seq(Patterns)
  BY <1>1 DEF CompiledMatchers
<1>3. Matchers[m].patterns # <<>>
  BY <1>1 DEF WellFormed
<1>4. Len(Matchers[m].patterns) \in Nat \ {0}
  BY <1>2, <1>3, EmptySeq
<1> QED  BY <1>1, <1>2, <1>4

LEMMA CapturedType ==
  ASSUME NEW pattern \in Patterns, NEW text, Matches(pattern, text), NEW target
  PROVE  Captured(pattern, text, target) \in OptionalTexts
PROOF
<1>1. pattern.regex \in Regexes
  BY DEF Patterns
<1>2. \A group \in DOMAIN Match[pattern.regex][text] :
        Match[pattern.regex][text][group] \in Texts
  BY <1>1, ProblemMatcherAssumption DEF Matches
<1> QED  BY <1>2 DEF Captured, OptionalTexts

LEMMA NothingType == Nothing \in DataType
  BY DEF Nothing, DataType, OptionalTexts

LEMMA ApplyCapturesType ==
  ASSUME NEW data \in DataType, NEW pattern \in Patterns, NEW text, Matches(pattern, text)
  PROVE  ApplyCaptures(data, pattern, text) \in DataType
PROOF
<1> DEFINE message == Captured(pattern, text, "message")
           fields == [field \in Fields |->
                        IF data.fields[field] # 0 THEN data.fields[field]
                        ELSE Captured(pattern, text, field)]
           messages == IF message = 0 THEN data.message ELSE Append(data.message, message)
<1>1. \A target : Captured(pattern, text, target) \in OptionalTexts
  BY CapturedType
<1>2. data.fields \in [Fields -> OptionalTexts] /\ data.message \in Seq(Texts)
  BY DEF DataType
<1>3. fields \in [Fields -> OptionalTexts]
  BY <1>1, <1>2
<1>4. messages \in Seq(Texts)
  <2>1. message \in OptionalTexts
    BY <1>1
  <2> HIDE DEF message
  <2> QED  BY <1>2, <2>1, AppendProperties DEF OptionalTexts
<1>5. ApplyCaptures(data, pattern, text) = [fields |-> fields, message |-> messages]
  BY DEF ApplyCaptures
<1> HIDE DEF fields, messages
<1> QED  BY <1>3, <1>4, <1>5 DEF DataType

LEMMA JoinPathType ==
  ASSUME NEW prefix \in OptionalTexts, NEW path \in Seq(Texts)
  PROVE  JoinPath(prefix, path) \in Seq(Texts)
PROOF
<1>1. prefix # 0 => <<prefix>> \in Seq(Texts)
  BY DEF OptionalTexts
<1> DEFINE joined == <<prefix>> \o path
<1>2. prefix # 0 => joined \in Seq(Texts)
  BY <1>1, ConcatProperties
<1>3. JoinPath(prefix, path) = path \/ (prefix # 0 /\ JoinPath(prefix, path) = joined)
  BY DEF JoinPath
<1> HIDE DEF joined
<1> QED  BY <1>2, <1>3

LEMMA RangeType ==
  ASSUME NEW fields \in [Fields -> OptionalTexts]
  PROVE  Range4(fields) \in Seq(Nat)
PROOF
<1>1. \A text \in OptionalTexts : Coordinate(text) \in Nat
  <2> SUFFICES ASSUME NEW text \in OptionalTexts
               PROVE  Coordinate(text) \in Nat
    OBVIOUS
  <2>1. CASE text # 0 /\ Len(Coordinates[text]) = 1
    <3>1. Coordinates[text] \in Seq(Nat)
      BY <2>1, ProblemMatcherAssumption DEF OptionalTexts
    <3> QED  BY <2>1, <3>1 DEF Coordinate
  <2> QED  BY <2>1 DEF Coordinate
<1>2. ASSUME NEW text \in Texts
      PROVE  \A i \in 1..4 : ParsedRange(text)[i] \in Nat
  <2>1. Coordinates[text] \in Seq(Nat)
    BY ProblemMatcherAssumption
  <2> DEFINE parts == Coordinates[text]
  <2> DEFINE padded == [i \in 1..4 |-> IF i \in DOMAIN parts THEN parts[i] ELSE 0]
  <2>2. ParsedRange(text) = NoRange \/ ParsedRange(text) = padded
    BY DEF ParsedRange
  <2>3. \A i \in 1..4 : padded[i] \in Nat
    BY <2>1
  <2> HIDE DEF padded
  <2> QED  BY <2>2, <2>3 DEF NoRange
<1>3. \A i \in 1..4 : CapturedRange(fields)[i] \in Nat
  <2>1. \A field \in Fields : fields[field] \in OptionalTexts
    OBVIOUS
  <2>2. CASE fields["location"] # 0
    <3>1. fields["location"] \in Texts
      BY <2>1, <2>2 DEF Fields, OptionalTexts
    <3> QED  BY <1>2, <2>2, <3>1 DEF CapturedRange
  <2>3. CASE fields["location"] = 0
    <3>1. CapturedRange(fields) =
            <<Coordinate(fields["line"]), Coordinate(fields["column"]),
              Coordinate(fields["end_line"]), Coordinate(fields["end_column"])>>
      BY <2>3 DEF CapturedRange
    <3>2. /\ Coordinate(fields["line"]) \in Nat
          /\ Coordinate(fields["column"]) \in Nat
          /\ Coordinate(fields["end_line"]) \in Nat
          /\ Coordinate(fields["end_column"]) \in Nat
      BY <1>1, <2>1 DEF Fields
    <3> QED  BY <3>1, <3>2
  <2> QED  BY <2>2, <2>3
<1> DEFINE range == CapturedRange(fields)
           end == IF range[3] = 0 /\ range[4] # 0 THEN range[1] ELSE range[3]
           last == IF end # 0 /\ end < range[1] THEN range[1] ELSE end
<1>4. range[1] \in Nat /\ range[2] \in Nat /\ range[3] \in Nat /\ range[4] \in Nat
  BY <1>3
<1>5. Range4(fields) = <<range[1], range[2], last, range[4]>>
  BY DEF Range4
<1> HIDE DEF range
<1>6. last \in Nat
  BY <1>4
<1> HIDE DEF end, last
<1> QED  BY <1>4, <1>5, <1>6

LEMMA ProblemTypes ==
  ASSUME NEW m \in DOMAIN Matchers, NEW data \in DataType, IsReported(m, data),
         NEW source \in Sources, NEW start \in Nat, NEW end \in Nat
  PROVE  Problem(m, data, source, start, end) \in ProblemType
PROOF
<1> DEFINE fields == data.fields
           named == IF fields["severity"] = 0 THEN 0 ELSE SeverityNamed[fields["severity"]]
           severity == IF named = 0 THEN Matchers[m].severity ELSE named
           code == IF fields["code"] # 0 /\ Bytes[fields["code"]] = 0 THEN 0 ELSE fields["code"]
           inner == JoinPath(fields["from_path"], <<fields["file"]>>)
           path == JoinPath(Matchers[m].prefix, inner)
           range == IF WholeFile(m) THEN NoRange ELSE Range4(fields)
<1>1. /\ Matchers[m].severity \in 1..3
      /\ Matchers[m].prefix \in OptionalTexts
  BY MatcherTypes DEF CompiledMatchers
<1>2. data.fields \in [Fields -> OptionalTexts] /\ data.message \in Seq(Texts)
  BY DEF DataType
<1>3. /\ fields["severity"] \in OptionalTexts /\ fields["code"] \in OptionalTexts
      /\ fields["from_path"] \in OptionalTexts /\ fields["file"] \in Texts
  BY <1>2 DEF Fields, IsReported, OptionalTexts
<1>4. named \in 0..3
  BY <1>3, ProblemMatcherAssumption DEF OptionalTexts
<1>5. severity \in 1..3
  BY <1>1, <1>4
<1>6. code \in OptionalTexts
  BY <1>3 DEF OptionalTexts
<1>7. path \in Seq(Texts)
  <2>1. <<fields["file"]>> \in Seq(Texts)
    BY <1>3
  <2>2. inner \in Seq(Texts)
    BY <1>3, <2>1, JoinPathType
  <2> HIDE DEF inner
  <2> QED  BY <1>1, <2>2, JoinPathType
<1>8. range \in Seq(Nat)
  <2>1. Range4(fields) \in Seq(Nat)
    BY <1>2, RangeType
  <2> QED  BY <2>1 DEF NoRange
<1>9. source[1] \in Scopes /\ source[2] \in Streams
  BY DEF Sources
<1>10. Problem(m, data, source, start, end) =
         [matcher |-> m, scope |-> source[1], stream |-> source[2], start |-> start,
          end |-> end, severity |-> severity, code |-> code, message |-> data.message,
          path |-> path, range |-> range]
  BY DEF Problem
<1> HIDE DEF fields, named, severity, code, inner, path, range
<1> QED  BY <1>2, <1>5, <1>6, <1>7, <1>8, <1>9, <1>10 DEF ProblemType

----------------------------------------------------------------------------
(* The map of partial matches *)

LEMMA RemoveProperties ==
  ASSUME NEW partial, IsFiniteSet(DOMAIN partial), NEW keep \in SUBSET (DOMAIN partial)
  PROVE  /\ DOMAIN Restrict(partial, keep) = keep
         /\ Restrict(partial, keep) = [key \in keep |-> partial[key]]
         /\ \A key \in keep : Restrict(partial, keep)[key] = partial[key]
         /\ IsFiniteSet(keep)
         /\ Cardinality(keep) <= Cardinality(DOMAIN partial)
         /\ Cardinality(keep) \in Nat
PROOF
<1>1. IsFiniteSet(keep) /\ Cardinality(keep) <= Cardinality(DOMAIN partial)
  BY FS_Subset
<1> QED  BY <1>1, FS_CardinalityType DEF Restrict

LEMMA InsertProperties ==
  ASSUME NEW partial, IsFiniteSet(DOMAIN partial), NEW state, Key \notin DOMAIN partial
  PROVE  /\ DOMAIN Inserted(partial, state) = DOMAIN partial \cup {Key}
         /\ Inserted(partial, state)[Key] = state
         /\ \A key \in DOMAIN partial : Inserted(partial, state)[key] = partial[key]
         /\ Inserted(partial, state)
              = [key \in DOMAIN partial \cup {Key} |-> Inserted(partial, state)[key]]
         /\ IsFiniteSet(DOMAIN Inserted(partial, state))
         /\ Cardinality(DOMAIN Inserted(partial, state)) = Cardinality(DOMAIN partial) + 1
PROOF
<1>1. /\ IsFiniteSet(DOMAIN partial \cup {Key})
      /\ Cardinality(DOMAIN partial \cup {Key}) = Cardinality(DOMAIN partial) + 1
  BY FS_AddElement
<1>2. DOMAIN Inserted(partial, state) = DOMAIN partial \cup {Key}
  BY DEF Inserted
<1> QED  BY <1>1, <1>2 DEF Inserted

----------------------------------------------------------------------------
(* Bytes *)

LEMMA FieldsFinite == IsFiniteSet(Fields)
PROOF
<1>1. \A a, b, c : IsFiniteSet({a, b, c})
  <2> SUFFICES ASSUME NEW a, NEW b, NEW c PROVE IsFiniteSet({a, b, c})
    OBVIOUS
  <2>1. IsFiniteSet({a}) /\ IsFiniteSet({b}) /\ IsFiniteSet({c})
    BY FS_Singleton
  <2>2. IsFiniteSet({a} \cup {b})
    BY <2>1, FS_Union
  <2>3. IsFiniteSet(({a} \cup {b}) \cup {c})
    BY <2>1, <2>2, FS_Union
  <2>4. ({a} \cup {b}) \cup {c} = {a, b, c}
    OBVIOUS
  <2> QED  BY <2>3, <2>4
<1> DEFINE A == {"file", "from_path", "location"}
           B == {"line", "column", "end_line"}
           C == {"end_column", "severity", "code"}
<1>2. IsFiniteSet(A) /\ IsFiniteSet(B) /\ IsFiniteSet(C)
  BY <1>1
<1>3. Fields = (A \cup B) \cup C
  BY DEF Fields
<1> HIDE DEF A, B, C
<1>4. IsFiniteSet(A \cup B)
  BY <1>2, FS_Union
<1>5. IsFiniteSet((A \cup B) \cup C)
  BY <1>2, <1>4, FS_Union
<1> QED  BY <1>3, <1>5

LEMMA MessageBytesType ==
  ASSUME NEW message \in Seq(Texts)
  PROVE  MessageBytes(message) \in Nat
PROOF
<1> DEFINE bytes == [i \in DOMAIN message |-> Bytes[message[i]]]
<1>1. DOMAIN message = 1..Len(message) /\ Len(message) \in Nat
  OBVIOUS
<1>2. \A i \in DOMAIN message : bytes[i] \in Nat
  BY ProblemMatcherAssumption
<1>3. IsFiniteSet(DOMAIN message) /\ DOMAIN bytes = DOMAIN message
  BY <1>1, FS_Interval
<1>4. message # <<>> =>
        MessageBytes(message) = SumFunctionOnSet(bytes, DOMAIN message) + Len(message) - 1
  BY <1>3 DEF MessageBytes, SumFunction
<1> HIDE DEF bytes
<1>5. SumFunctionOnSet(bytes, DOMAIN message) \in Nat
  BY <1>2, <1>3, SumNat
<1>6. message # <<>> => Len(message) > 0
  BY EmptySeq
<1>7. CASE message = <<>>
  BY <1>7 DEF MessageBytes
<1>8. CASE message # <<>>
  BY <1>1, <1>4, <1>5, <1>6, <1>8
<1> QED  BY <1>7, <1>8

LEMMA DataBytesType ==
  ASSUME NEW data \in DataType
  PROVE  DataBytes(data) \in Nat
PROOF
<1> DEFINE bytes == [field \in Fields |->
                       IF data.fields[field] = 0 THEN 0 ELSE Bytes[data.fields[field]]]
<1>1. data.fields \in [Fields -> OptionalTexts] /\ data.message \in Seq(Texts)
  BY DEF DataType
<1>2. \A field \in Fields : bytes[field] \in Nat
  BY <1>1, ProblemMatcherAssumption DEF OptionalTexts
<1>3. DataBytes(data) = SumFunctionOnSet(bytes, Fields) + MessageBytes(data.message)
  BY DEF DataBytes, SumFunction
<1> HIDE DEF bytes
<1>4. SumFunctionOnSet(bytes, Fields) \in Nat
  BY <1>2, FieldsFinite, SumNat
<1> QED  BY <1>1, <1>3, <1>4, MessageBytesType

StateBytes(partial) == [key \in DOMAIN partial |-> DataBytes(partial[key].data)]

LEMMA StateBytesSum ==
  ASSUME NEW partial, IsFiniteSet(DOMAIN partial), partial \in [DOMAIN partial -> StateType]
  PROVE  /\ DOMAIN StateBytes(partial) = DOMAIN partial
         /\ \A key \in DOMAIN partial : StateBytes(partial)[key] \in Nat
         /\ RetainedStateBytes(partial) = SumFunctionOnSet(StateBytes(partial), DOMAIN partial)
         /\ RetainedStateBytes(partial) \in Nat
PROOF
<1>1. DOMAIN StateBytes(partial) = DOMAIN partial
  BY DEF StateBytes
<1>2. ASSUME NEW key \in DOMAIN partial PROVE StateBytes(partial)[key] \in Nat
  <2>1. partial[key] \in StateType
    OBVIOUS
  <2>2. partial[key].data \in DataType
    BY <2>1 DEF StateType
  <2> QED  BY <2>2, DataBytesType DEF StateBytes
<1>3. RetainedStateBytes(partial) = SumFunctionOnSet(StateBytes(partial), DOMAIN partial)
  BY <1>1 DEF RetainedStateBytes, SumFunction, StateBytes
<1>4. SumFunctionOnSet(StateBytes(partial), DOMAIN partial) \in Nat
  BY <1>2, SumNat
<1> QED  BY <1>1, <1>2, <1>3, <1>4

LEMMA EmptyBytes ==
  ASSUME NEW partial, DOMAIN partial = {}
  PROVE  RetainedStateBytes(partial) = 0
PROOF
<1>1. RetainedStateBytes(partial) = SumFunctionOnSet(StateBytes(partial), {})
  BY DEF RetainedStateBytes, StateBytes, SumFunction
<1> QED  BY <1>1, SumEmpty

(* Partial matches that are removed give back their bytes. *)
LEMMA RemoveBytes ==
  ASSUME NEW partial, IsFiniteSet(DOMAIN partial), partial \in [DOMAIN partial -> StateType],
         NEW keep \in SUBSET (DOMAIN partial)
  PROVE  /\ RetainedStateBytes(Restrict(partial, keep)) <= RetainedStateBytes(partial)
         /\ RetainedStateBytes(Restrict(partial, keep)) \in Nat
         /\ RetainedStateBytes(partial) \in Nat
PROOF
<1> DEFINE rest == Restrict(partial, keep)
<1>1. /\ DOMAIN rest = keep /\ \A key \in keep : rest[key] = partial[key]
      /\ rest = [key \in keep |-> partial[key]] /\ IsFiniteSet(keep)
  BY RemoveProperties
<1>2. rest \in [DOMAIN rest -> StateType] /\ IsFiniteSet(DOMAIN rest)
  BY <1>1
<1> HIDE DEF rest
<1>3. /\ RetainedStateBytes(rest) = SumFunctionOnSet(StateBytes(rest), keep)
      /\ RetainedStateBytes(rest) \in Nat
      /\ \A key \in keep : StateBytes(rest)[key] \in Nat
  BY <1>1, <1>2, StateBytesSum
<1>4. /\ RetainedStateBytes(partial) = SumFunctionOnSet(StateBytes(partial), DOMAIN partial)
      /\ RetainedStateBytes(partial) \in Nat
      /\ \A key \in DOMAIN partial : StateBytes(partial)[key] \in Nat
  BY StateBytesSum
<1>5. \A key \in keep : StateBytes(rest)[key] = StateBytes(partial)[key]
  BY <1>1 DEF StateBytes
<1>6. SumFunctionOnSet(StateBytes(rest), keep) = SumFunctionOnSet(StateBytes(partial), keep)
  BY <1>1, <1>3, <1>5, SumSame
<1>7. SumFunctionOnSet(StateBytes(partial), keep)
        <= SumFunctionOnSet(StateBytes(partial), DOMAIN partial)
  BY <1>4, SumSubset
<1> QED  BY <1>3, <1>4, <1>6, <1>7 DEF rest

(* One that is inserted adds its own. *)
LEMMA InsertBytes ==
  ASSUME NEW partial, IsFiniteSet(DOMAIN partial), partial \in [DOMAIN partial -> StateType],
         NEW state \in StateType, Key \notin DOMAIN partial
  PROVE  RetainedStateBytes(Inserted(partial, state))
           = RetainedStateBytes(partial) + DataBytes(state.data)
PROOF
<1> DEFINE longer == Inserted(partial, state)
           D == DOMAIN partial
<1>1. /\ DOMAIN longer = D \cup {Key} /\ longer[Key] = state
      /\ \A key \in D : longer[key] = partial[key]
      /\ longer = [key \in D \cup {Key} |-> longer[key]]
      /\ IsFiniteSet(DOMAIN longer)
  BY InsertProperties
<1> HIDE DEF longer
<1>2. \A key \in D \cup {Key} : longer[key] \in StateType
  BY <1>1
<1>3. longer \in [DOMAIN longer -> StateType]
  BY <1>1, <1>2
<1>4. /\ RetainedStateBytes(longer) = SumFunctionOnSet(StateBytes(longer), D \cup {Key})
      /\ \A key \in D \cup {Key} : StateBytes(longer)[key] \in Nat
  BY <1>1, <1>3, StateBytesSum
<1>5. /\ RetainedStateBytes(partial) = SumFunctionOnSet(StateBytes(partial), D)
      /\ \A key \in D : StateBytes(partial)[key] \in Nat
  BY StateBytesSum
<1>6. /\ \A key \in D : StateBytes(longer)[key] = StateBytes(partial)[key]
      /\ StateBytes(longer)[Key] = DataBytes(state.data)
  BY <1>1 DEF StateBytes
<1>7. IsFiniteSet(D) /\ Key \notin D
  OBVIOUS
<1> HIDE DEF D
<1>8. SumFunctionOnSet(StateBytes(longer), D \cup {Key})
        = SumFunctionOnSet(StateBytes(longer), D) + StateBytes(longer)[Key]
  BY <1>4, <1>7, SumAdd
<1>9. SumFunctionOnSet(StateBytes(partial), D) = SumFunctionOnSet(StateBytes(longer), D)
  BY <1>5, <1>6, <1>7, SumSame
<1> QED  BY <1>4, <1>5, <1>6, <1>8, <1>9 DEF longer

----------------------------------------------------------------------------
(* The turn of a matcher *)

LEMMA TurnProperties ==
  ASSUME IInv, phase = "observing", matcher \in DOMAIN Matchers
  PROVE  /\ Key \in Keys /\ Source \in Sources /\ Key[1] \in open
         /\ Attempt \in StateType
         /\ Attempt.next_pattern \in 1..Len(PatternsNow)
         /\ Len(PatternsNow) \in Nat \ {0}
         /\ PatternNow \in Patterns
         /\ Matches(PatternNow, line.text) => Data \in DataType
         /\ line.number \in Nat
         /\ Continues => Key \in DOMAIN states /\ Attempt = states[Key]
         /\ Continues => Matches(PatternNow, line.text)
PROOF
<1>1. /\ line \in LineType /\ line.scope \in open /\ line.stream \in Streams
      /\ open \subseteq Scopes
      /\ states \in [DOMAIN states -> StateType]
      /\ \A key \in DOMAIN states :
           states[key].next_pattern \in 2..Len(Matchers[key[3]].patterns)
  BY DEF IInv, TypeOK, LineIsOpen, NextPatternExists
<1>2. /\ Len(PatternsNow) \in Nat \ {0}
      /\ \A n \in 1..Len(PatternsNow) : PatternsNow[n] \in Patterns
  BY MatcherTypes DEF PatternsNow
<1>3. line.number \in Nat
  BY <1>1 DEF LineType
<1>4. Key \in Keys /\ Source \in Sources /\ Key[1] \in open /\ Key[3] = matcher
  BY <1>1 DEF Key, Source, Keys, Sources
<1>5. CASE Continues
  <2>1. Attempt = states[Key] /\ Key \in DOMAIN states
    BY <1>5 DEF Attempt, Continues
  <2>2. states[Key] \in StateType
    BY <1>1, <2>1
  <2>3. states[Key].next_pattern \in 1..Len(PatternsNow)
    BY <1>1, <1>2, <1>4, <2>1 DEF PatternsNow
  <2>4. PatternNow \in Patterns
    BY <1>2, <2>1, <2>3 DEF PatternNow
  <2>5. Matches(PatternNow, line.text)
    BY <1>5, <2>1 DEF PatternNow, Continues
  <2>6. Data \in DataType
    BY <2>1, <2>2, <2>4, <2>5, ApplyCapturesType DEF Data, StateType
  <2> QED  BY <1>2, <1>3, <1>4, <2>1, <2>2, <2>3, <2>4, <2>5, <2>6
<1>6. CASE ~Continues
  <2>1. Attempt = [next_pattern |-> 1, data |-> Nothing, start_line |-> line.number]
    BY <1>6 DEF Attempt
  <2>2. Attempt \in StateType /\ Attempt.next_pattern = 1
    BY <1>3, <2>1, NothingType DEF StateType
  <2>3. PatternNow \in Patterns
    BY <1>2, <2>2 DEF PatternNow
  <2>4. Matches(PatternNow, line.text) => Data \in DataType
    BY <2>2, <2>3, ApplyCapturesType DEF Data, StateType
  <2> QED  BY <1>2, <1>3, <1>4, <1>6, <2>2, <2>3, <2>4
<1> QED  BY <1>5, <1>6

LEMMA OthersProperties ==
  ASSUME IInv
  PROVE  /\ DOMAIN Others = DOMAIN states \ {Key}
         /\ \A key \in DOMAIN Others : Others[key] = states[key]
         /\ Others \in [DOMAIN Others -> StateType]
         /\ IsFiniteSet(DOMAIN Others)
         /\ Cardinality(DOMAIN Others) \in Nat
         /\ Cardinality(DOMAIN Others) <= Cardinality(DOMAIN states)
         /\ RetainedStateBytes(Others) \in Nat
         /\ RetainedStateBytes(Others) <= RetainedStateBytes(states)
         /\ RetainedStateBytes(states) \in Nat
PROOF
<1>1. IsFiniteSet(DOMAIN states) /\ states \in [DOMAIN states -> StateType]
  BY DEF IInv, TypeOK
<1> DEFINE rest == DOMAIN states \ {Key}
<1>2. rest \in SUBSET (DOMAIN states) /\ Others = Restrict(states, rest)
  BY DEF Others
<1> HIDE DEF rest
<1>3. /\ DOMAIN Others = rest /\ \A key \in rest : Others[key] = states[key]
      /\ Others = [key \in rest |-> states[key]]
      /\ IsFiniteSet(rest) /\ Cardinality(rest) \in Nat
      /\ Cardinality(rest) <= Cardinality(DOMAIN states)
  BY <1>1, <1>2, RemoveProperties
<1>4. Others \in [rest -> StateType]
  BY <1>1, <1>2, <1>3
<1>5. /\ RetainedStateBytes(Others) \in Nat
      /\ RetainedStateBytes(Others) <= RetainedStateBytes(states)
      /\ RetainedStateBytes(states) \in Nat
  BY <1>1, <1>2, RemoveBytes
<1> QED  BY <1>3, <1>4, <1>5 DEF rest

(* What a turn may do to the partial matches without disturbing the        *)
(* invariant.                                                              *)
StatesInvariant ==
  /\ DOMAIN states \subseteq Keys /\ IsFiniteSet(DOMAIN states)
  /\ states \in [DOMAIN states -> StateType]
  /\ StatesOfOpenScopes
  /\ NextPatternExists
  /\ StatesBounded

LEMMA OthersSuffice ==
  ASSUME IInv, states' = Others, UNCHANGED open
  PROVE  StatesInvariant'
PROOF
<1>1. /\ DOMAIN states \subseteq Keys /\ StatesOfOpenScopes /\ NextPatternExists
      /\ ActiveStatesBounded /\ StateBytesBounded
      /\ MaxActiveStates \in Nat /\ MaxStateBytes \in Nat
  BY ProblemMatcherAssumption DEF IInv, TypeOK, StatesBounded
<1>2. /\ DOMAIN states' = DOMAIN states \ {Key}
      /\ \A key \in DOMAIN states' : states'[key] = states[key]
      /\ states' \in [DOMAIN states' -> StateType]
      /\ IsFiniteSet(DOMAIN states')
      /\ Cardinality(DOMAIN states') \in Nat
      /\ Cardinality(DOMAIN states') <= Cardinality(DOMAIN states)
      /\ RetainedStateBytes(states') \in Nat /\ RetainedStateBytes(states) \in Nat
      /\ RetainedStateBytes(states') <= RetainedStateBytes(states)
  BY OthersProperties
<1>3. IsFiniteSet(DOMAIN states)
  BY DEF IInv, TypeOK
<1>4. Cardinality(DOMAIN states') <= MaxActiveStates
  BY <1>1, <1>2, <1>3, FS_CardinalityType DEF ActiveStatesBounded
<1>5. StatesOfOpenScopes' /\ NextPatternExists'
  BY <1>1, <1>2 DEF StatesOfOpenScopes, NextPatternExists
<1>6. StatesBounded'
  BY <1>1, <1>2, <1>4 DEF StatesBounded, ActiveStatesBounded, StateBytesBounded
<1> QED  BY <1>1, <1>2, <1>5, <1>6 DEF StatesInvariant

LEMMA InsertedSuffices ==
  ASSUME IInv, Key \in Keys, Key[1] \in open, NEW state \in StateType,
         state.next_pattern \in 2..Len(PatternsNow),
         Cardinality(DOMAIN Others) < MaxActiveStates, Fits(state.data),
         states' = Inserted(Others, state), UNCHANGED open
  PROVE  StatesInvariant'
PROOF
<1>1. /\ DOMAIN states \subseteq Keys /\ StatesOfOpenScopes /\ NextPatternExists
      /\ MaxActiveStates \in Nat
  BY ProblemMatcherAssumption DEF IInv, TypeOK
<1>2. /\ DOMAIN Others = DOMAIN states \ {Key}
      /\ \A key \in DOMAIN Others : Others[key] = states[key]
      /\ Others \in [DOMAIN Others -> StateType]
      /\ IsFiniteSet(DOMAIN Others)
      /\ Cardinality(DOMAIN Others) \in Nat
  BY OthersProperties
<1>3. /\ DOMAIN states' = DOMAIN Others \cup {Key}
      /\ states'[Key] = state
      /\ \A key \in DOMAIN Others : states'[key] = Others[key]
      /\ states' = [key \in DOMAIN Others \cup {Key} |-> states'[key]]
      /\ IsFiniteSet(DOMAIN states')
      /\ Cardinality(DOMAIN states') = Cardinality(DOMAIN Others) + 1
  <2>1. Key \notin DOMAIN Others
    BY <1>2
  <2> DEFINE inserted == Inserted(Others, state)
  <2>2. /\ DOMAIN inserted = DOMAIN Others \cup {Key}
        /\ inserted[Key] = state
        /\ \A key \in DOMAIN Others : inserted[key] = Others[key]
        /\ inserted = [key \in DOMAIN Others \cup {Key} |-> inserted[key]]
        /\ IsFiniteSet(DOMAIN inserted)
        /\ Cardinality(DOMAIN inserted) = Cardinality(DOMAIN Others) + 1
    BY <1>2, <2>1, InsertProperties
  <2>3. states' = inserted
    OBVIOUS
  <2> HIDE DEF inserted
  <2> QED  BY <2>2, <2>3
<1>4. \A key \in DOMAIN states' : states'[key] \in StateType
  BY <1>2, <1>3
<1>5. states' \in [DOMAIN states' -> StateType]
  BY <1>3, <1>4
<1>6. StatesBounded'
  <2>1. ActiveStatesBounded'
    BY <1>1, <1>2, <1>3 DEF ActiveStatesBounded
  <2>2. Key \notin DOMAIN Others
    BY <1>2
  <2>3. RetainedStateBytes(states') = RetainedStateBytes(Others) + DataBytes(state.data)
    BY <1>2, <2>2, InsertBytes
  <2>4. StateBytesBounded'
    BY <2>3 DEF StateBytesBounded, Fits
  <2> QED  BY <2>1, <2>4 DEF StatesBounded
<1>7. Key[3] = matcher
  BY DEF Key
<1>8. \A key \in DOMAIN states' :
        states'[key].next_pattern \in 2..Len(Matchers[key[3]].patterns)
  BY <1>1, <1>2, <1>3, <1>7 DEF NextPatternExists, PatternsNow
<1>9. StatesOfOpenScopes'
  BY <1>1, <1>2, <1>3 DEF StatesOfOpenScopes
<1>10. DOMAIN states' \subseteq Keys
  BY <1>1, <1>2, <1>3
<1> QED
  BY <1>3, <1>5, <1>6, <1>8, <1>9, <1>10 DEF StatesInvariant, NextPatternExists

LEMMA EmitsTyped ==
  ASSUME IInv, phase = "observing", matcher \in DOMAIN Matchers,
         Matches(PatternNow, line.text), EmitProblem(Data)
  PROVE  emitted' \in [Sources -> Seq(ProblemType)] /\ dropped' \subseteq Keys
PROOF
<1>1. /\ Key \in Keys /\ Source \in Sources /\ Data \in DataType
      /\ Attempt.start_line \in Nat /\ line.number \in Nat
  BY TurnProperties DEF StateType
<1>2. emitted \in [Sources -> Seq(ProblemType)] /\ dropped \subseteq Keys
  BY DEF IInv, TypeOK
<1>3. CASE Drop
  BY <1>1, <1>2, <1>3 DEF Drop
<1>4. CASE UNCHANGED <<emitted, dropped>>
  BY <1>2, <1>4
<1>5. CASE /\ UNCHANGED dropped /\ IsReported(matcher, Data)
           /\ emitted' =
                [emitted EXCEPT ![Source] =
                   Append(@, Problem(matcher, Data, Source, Attempt.start_line, line.number))]
  <2> DEFINE problem == Problem(matcher, Data, Source, Attempt.start_line, line.number)
             longer == Append(emitted[Source], problem)
  <2>1. problem \in ProblemType
    BY <1>1, <1>5, ProblemTypes
  <2> HIDE DEF problem
  <2>2. longer \in Seq(ProblemType)
    BY <1>1, <1>2, <2>1, AppendProperties
  <2>3. emitted' = [emitted EXCEPT ![Source] = longer]
    BY <1>5 DEF problem
  <2> HIDE DEF longer
  <2> QED  BY <1>1, <1>2, <1>5, <2>2, <2>3
<1> QED  BY <1>3, <1>4, <1>5 DEF EmitProblem

LEMMA DropTyped ==
  ASSUME IInv, Key \in Keys, Drop
  PROVE  emitted' \in [Sources -> Seq(ProblemType)] /\ dropped' \subseteq Keys
  BY DEF IInv, TypeOK, Drop

LEMMA TurnSuffices ==
  ASSUME IInv, MatcherTurn, StatesInvariant',
         emitted' \in [Sources -> Seq(ProblemType)], dropped' \subseteq Keys
  PROVE  IInv'
PROOF
<1>1. /\ matcher \in DOMAIN Matchers /\ matcher' = matcher + 1
      /\ UNCHANGED <<phase, open, log, line>>
  BY DEF MatcherTurn
<1>2. matcher' \in 1..(Len(Matchers) + 1)
  BY <1>1, ProblemMatcherAssumption
<1>3. TypeOK' /\ LineIsOpen'
  BY <1>1, <1>2 DEF IInv, TypeOK, LineIsOpen, StatesInvariant
<1> QED  BY <1>3 DEF IInv, StatesInvariant

----------------------------------------------------------------------------
(* The invariant *)

LEMMA NothingYetType ==
  /\ NothingYet \in [Sources -> Seq(LogLines)]
  /\ NothingYet \in [Sources -> Seq(ProblemType)]
PROOF
<1>1. /\ <<>> \in Seq(LogLines)
      /\ <<>> \in Seq(ProblemType)
  OBVIOUS
<1> QED  BY <1>1 DEF NothingYet

LEMMA InvariantInit == Init => IInv
PROOF
<1> SUFFICES ASSUME Init PROVE IInv
  OBVIOUS
<1>1. DOMAIN states = {} /\ IsFiniteSet(DOMAIN states) /\ Cardinality(DOMAIN states) = 0
  <2>1. DOMAIN states = {}
    BY DEF Init
  <2> QED  BY <2>1, FS_EmptySet
<1>2. log \in [Sources -> Seq(LogLines)] /\ emitted \in [Sources -> Seq(ProblemType)]
  BY NothingYetType DEF Init
<1>3. matcher \in 1..(Len(Matchers) + 1)
  BY ProblemMatcherAssumption DEF Init
<1>4. line \in LineType
  BY DEF Init, NoLine, LineType
<1>5. states \in [DOMAIN states -> StateType]
  BY <1>1 DEF Init
<1>6. TypeOK
  BY <1>1, <1>2, <1>3, <1>4, <1>5 DEF Init, TypeOK
<1>7. StatesBounded
  <2>1. RetainedStateBytes(states) = 0
    BY <1>1, EmptyBytes
  <2> QED
    BY <1>1, <2>1, ProblemMatcherAssumption
    DEF StatesBounded, ActiveStatesBounded, StateBytesBounded
<1> QED
  BY <1>1, <1>6, <1>7
  DEF Init, IInv, LineIsOpen, StatesOfOpenScopes, NextPatternExists

LEMMA SessionSteps ==
  ASSUME IInv,
         \/ \E scope \in Scopes : BeginScope(scope)
         \/ \E source \in Sources, text \in LogLines : PushLine(source, text)
         \/ Finish
         \/ ObserveReturns
  PROVE  IInv'
PROOF
<1>0. /\ log \in [Sources -> Seq(LogLines)] /\ emitted \in [Sources -> Seq(ProblemType)]
      /\ dropped \subseteq Keys /\ open \subseteq Scopes
  BY DEF IInv, TypeOK
<1>1. ASSUME NEW scope \in Scopes, BeginScope(scope)
      PROVE  IInv'
  <2>1. /\ phase = "idle" /\ open' = open \cup {scope}
        /\ log' = Forget(log, scope) /\ emitted' = Forget(emitted, scope)
        /\ dropped' \subseteq dropped
        /\ UNCHANGED <<phase, line, matcher, states>>
    BY <1>1 DEF BeginScope
  <2>2. /\ <<>> \in Seq(LogLines)
        /\ <<>> \in Seq(ProblemType)
    OBVIOUS
  <2>3. log' \in [Sources -> Seq(LogLines)] /\ emitted' \in [Sources -> Seq(ProblemType)]
    BY <1>0, <2>1, <2>2 DEF Forget
  <2>4. TypeOK'
    BY <1>0, <2>1, <2>3 DEF IInv, TypeOK
  <2> QED
    BY <2>1, <2>4
    DEF IInv, LineIsOpen, StatesOfOpenScopes, NextPatternExists, StatesBounded,
        ActiveStatesBounded, StateBytesBounded
<1>2. ASSUME NEW source \in Sources, NEW text \in LogLines, PushLine(source, text)
      PROVE  IInv'
  <2>1. /\ phase = "idle" /\ source[1] \in open
        /\ log' = [log EXCEPT ![source] = Append(@, text)]
        /\ UNCHANGED <<open, matcher, states, emitted, dropped>>
    BY <1>2 DEF PushLine
  <2>2. log' \in [Sources -> Seq(LogLines)]
    <3>1. Append(log[source], text) \in Seq(LogLines)
      BY <1>0, AppendProperties
    <3> QED  BY <1>0, <2>1, <3>1
  <2>3. source[1] \in Scopes /\ source[2] \in Streams
    BY DEF Sources
  <2>4. LinesShown(source) \in Nat
    <3>1. IsFiniteSet(1..Len(log[source])) /\ DOMAIN log[source] = 1..Len(log[source])
      BY <1>0, FS_Interval
    <3>2. IsFiniteSet({i \in DOMAIN log[source] : log[source][i] # Blank})
      BY <3>1, FS_Subset
    <3> QED  BY <3>2, FS_CardinalityType DEF LinesShown
  <2>5. \/ UNCHANGED <<phase, line>>
        \/ /\ phase' = "observing"
           /\ line' = [scope |-> source[1], stream |-> source[2], text |-> text,
                       number |-> LinesShown(source) + 1]
    BY <1>2 DEF PushLine
  <2>6. CASE UNCHANGED <<phase, line>>
    <3>1. TypeOK'
      BY <2>1, <2>2, <2>6 DEF IInv, TypeOK
    <3> QED
      BY <2>1, <2>6, <3>1
      DEF IInv, LineIsOpen, StatesOfOpenScopes, NextPatternExists, StatesBounded,
        ActiveStatesBounded, StateBytesBounded
  <2>7. CASE /\ phase' = "observing"
             /\ line' = [scope |-> source[1], stream |-> source[2], text |-> text,
                         number |-> LinesShown(source) + 1]
    <3>1. line' \in LineType /\ line'.scope = source[1] /\ line'.stream = source[2]
      BY <2>3, <2>4, <2>7 DEF LineType
    <3>2. TypeOK' /\ LineIsOpen'
      BY <2>1, <2>2, <2>3, <2>7, <3>1 DEF IInv, TypeOK, LineIsOpen
    <3> QED
      BY <2>1, <3>2
      DEF IInv, StatesOfOpenScopes, NextPatternExists, StatesBounded,
        ActiveStatesBounded, StateBytesBounded
  <2> QED  BY <2>5, <2>6, <2>7
<1>3. CASE Finish
  <2>1. /\ phase' = "finished" /\ states' = <<>>
        /\ UNCHANGED <<open, log, line, matcher, emitted, dropped>>
    BY <1>3 DEF Finish
  <2>2. DOMAIN states' = {} /\ IsFiniteSet(DOMAIN states') /\ Cardinality(DOMAIN states') = 0
    <3>1. DOMAIN states' = {}
      BY <2>1
    <3> QED  BY <3>1, FS_EmptySet
  <2>3. states' \in [DOMAIN states' -> StateType]
    BY <2>1, <2>2
  <2>4. TypeOK'
    BY <2>1, <2>2, <2>3 DEF IInv, TypeOK
  <2>5. StatesBounded'
    <3>1. RetainedStateBytes(states') = 0
      BY <2>2, EmptyBytes
    <3> QED
      BY <2>2, <3>1, ProblemMatcherAssumption
      DEF StatesBounded, ActiveStatesBounded, StateBytesBounded
  <2> QED
    BY <2>1, <2>2, <2>4, <2>5
    DEF IInv, LineIsOpen, StatesOfOpenScopes, NextPatternExists
<1>4. CASE ObserveReturns
  <2>1. /\ phase' = "idle" /\ matcher' = 1 /\ line' = NoLine
        /\ UNCHANGED <<open, log, states, emitted, dropped>>
    BY <1>4 DEF ObserveReturns
  <2>2. matcher' \in 1..(Len(Matchers) + 1)
    BY <2>1, ProblemMatcherAssumption
  <2>3. line' \in LineType
    BY <2>1 DEF NoLine, LineType
  <2>4. TypeOK'
    BY <2>1, <2>2, <2>3 DEF IInv, TypeOK
  <2> QED
    BY <2>1, <2>4
    DEF IInv, LineIsOpen, StatesOfOpenScopes, NextPatternExists, StatesBounded,
        ActiveStatesBounded, StateBytesBounded
<1> QED  BY <1>1, <1>2, <1>3, <1>4

LEMMA EndScopeStep ==
  ASSUME IInv, NEW scope \in Scopes, EndScope(scope)
  PROVE  IInv'
PROOF
<1> DEFINE rest == {key \in DOMAIN states : key[1] # scope}
<1>1. /\ phase = "idle" /\ open' = open \ {scope}
      /\ states' = Restrict(states, rest)
      /\ UNCHANGED <<phase, log, line, matcher, emitted, dropped>>
  BY DEF EndScope, StatesAfter
<1>2. rest \in SUBSET (DOMAIN states) /\ \A key \in rest : key[1] # scope
  OBVIOUS
<1> HIDE DEF rest
<1>3. /\ IsFiniteSet(DOMAIN states) /\ DOMAIN states \subseteq Keys
      /\ states \in [DOMAIN states -> StateType]
      /\ MaxActiveStates \in Nat /\ MaxStateBytes \in Nat
  BY ProblemMatcherAssumption DEF IInv, TypeOK
<1>4. /\ DOMAIN states' = rest /\ states' = [key \in rest |-> states[key]]
      /\ \A key \in rest : states'[key] = states[key]
      /\ IsFiniteSet(rest) /\ Cardinality(rest) \in Nat
      /\ Cardinality(rest) <= Cardinality(DOMAIN states)
  BY <1>1, <1>2, <1>3, RemoveProperties
<1>5. states' \in [DOMAIN states' -> StateType]
  BY <1>2, <1>3, <1>4
<1>6. StatesBounded'
  <2>1. ActiveStatesBounded'
    BY <1>3, <1>4, FS_CardinalityType DEF IInv, StatesBounded, ActiveStatesBounded
  <2>2. /\ RetainedStateBytes(states') <= RetainedStateBytes(states)
        /\ RetainedStateBytes(states') \in Nat /\ RetainedStateBytes(states) \in Nat
    BY <1>1, <1>2, <1>3, RemoveBytes
  <2>3. StateBytesBounded'
    BY <1>3, <2>2 DEF IInv, StatesBounded, StateBytesBounded
  <2> QED  BY <2>1, <2>3 DEF StatesBounded
<1>7. TypeOK'
  BY <1>1, <1>2, <1>3, <1>4, <1>5 DEF IInv, TypeOK
<1> QED
  BY <1>1, <1>2, <1>4, <1>6, <1>7
  DEF IInv, LineIsOpen, StatesOfOpenScopes, NextPatternExists

LEMMA TurnSteps ==
  ASSUME IInv, NoMatch \/ CompleteMatch \/ ContinueMatch \/ StartMatch
  PROVE  IInv'
PROOF
<1>0. /\ MatcherTurn /\ phase = "observing" /\ matcher \in DOMAIN Matchers
      /\ UNCHANGED open
  BY DEF NoMatch, CompleteMatch, ContinueMatch, StartMatch, MatcherTurn
<1>k. Key \in Keys /\ Key[1] \in open
  BY <1>0, TurnProperties
<1>s. StatesInvariant /\ emitted \in [Sources -> Seq(ProblemType)] /\ dropped \subseteq Keys
  BY DEF IInv, TypeOK, StatesInvariant
<1>1. CASE NoMatch
  <2>1. states' = Others /\ UNCHANGED <<emitted, dropped>>
    BY <1>1 DEF NoMatch
  <2>2. StatesInvariant'
    BY <1>0, <2>1, OthersSuffice
  <2>3. emitted' \in [Sources -> Seq(ProblemType)] /\ dropped' \subseteq Keys
    BY <1>s, <2>1
  <2> QED  BY <1>0, <2>2, <2>3, TurnSuffices
<1>2. CASE CompleteMatch
  <2>1. /\ Matches(PatternNow, line.text) /\ EmitProblem(Data)
        /\ states' = states \/ states' = Others
    BY <1>2 DEF CompleteMatch, Looped
  <2>2. StatesInvariant'
    <3>1. CASE states' = states
      BY <1>0, <1>s, <3>1
      DEF StatesInvariant, StatesOfOpenScopes, NextPatternExists, StatesBounded,
        ActiveStatesBounded, StateBytesBounded
    <3>2. CASE states' = Others
      BY <1>0, <3>2, OthersSuffice
    <3> QED  BY <2>1, <3>1, <3>2
  <2>3. emitted' \in [Sources -> Seq(ProblemType)] /\ dropped' \subseteq Keys
    BY <1>0, <2>1, EmitsTyped
  <2> QED  BY <1>0, <2>2, <2>3, TurnSuffices
<1>3. CASE ContinueMatch
  <2> DEFINE advanced == [states[Key] EXCEPT !.next_pattern = @ + 1, !.data = Data]
  <2>1. /\ Continues /\ ~IsLast
        /\ \/ /\ Fits(Data) /\ states' = Inserted(Others, advanced)
              /\ UNCHANGED <<emitted, dropped>>
           \/ states' = Others /\ Drop
    BY <1>3 DEF ContinueMatch
  <2>2. /\ Key \in DOMAIN states /\ states[Key] \in StateType /\ Data \in DataType
        /\ states[Key].next_pattern \in 1..Len(PatternsNow)
        /\ states[Key].next_pattern # Len(PatternsNow)
        /\ Len(PatternsNow) \in Nat
    BY <1>0, <2>1, TurnProperties DEF IsLast
  <2>3. /\ advanced \in StateType
        /\ advanced.next_pattern \in 2..Len(PatternsNow)
        /\ advanced.data = Data
    <3> DEFINE waiting == states[Key]
               n == waiting.next_pattern
               length == Len(PatternsNow)
    <3>1. waiting \in StateType /\ n + 1 \in Nat \ {0} /\ n + 1 \in 2..length
      <4>1. n \in 1..length /\ n # length /\ length \in Nat
        BY <2>2
      <4> HIDE DEF n, length
      <4>2. n + 1 \in Nat \ {0} /\ n + 1 \in 2..length
        BY <4>1
      <4> QED  BY <2>2, <4>2
    <3>2. advanced = [waiting EXCEPT !.next_pattern = n + 1, !.data = Data]
      OBVIOUS
    <3>3. Data \in DataType
      BY <2>2
    <3> HIDE DEF advanced, waiting, n, length
    <3>4. advanced \in StateType /\ advanced.next_pattern = n + 1 /\ advanced.data = Data
      BY <3>1, <3>2, <3>3 DEF StateType
    <3> QED  BY <3>1, <3>4 DEF length
  <2>4. Cardinality(DOMAIN Others) < MaxActiveStates
    <3>1. /\ IsFiniteSet(DOMAIN Others) /\ DOMAIN Others = DOMAIN states \ {Key}
          /\ Cardinality(DOMAIN Others) \in Nat
      BY OthersProperties
    <3>2. /\ IsFiniteSet(DOMAIN states)
          /\ Cardinality(DOMAIN states) <= MaxActiveStates
      BY DEF IInv, TypeOK, StatesBounded, ActiveStatesBounded
    <3>3. Cardinality(DOMAIN Others) = Cardinality(DOMAIN states) - 1
      BY <2>2, <3>1, <3>2, FS_RemoveElement
    <3>4. Cardinality(DOMAIN states) \in Nat /\ MaxActiveStates \in Nat
      BY <3>2, FS_CardinalityType, ProblemMatcherAssumption
    <3> QED  BY <3>1, <3>2, <3>3, <3>4
  <2> HIDE DEF advanced
  <2>5. CASE /\ Fits(Data) /\ states' = Inserted(Others, advanced)
             /\ UNCHANGED <<emitted, dropped>>
    <3>1. StatesInvariant'
      BY <1>0, <1>k, <2>3, <2>4, <2>5, InsertedSuffices
    <3> QED  BY <1>0, <1>s, <2>5, <3>1, TurnSuffices
  <2>6. CASE states' = Others /\ Drop
    <3>1. StatesInvariant'
      BY <1>0, <2>6, OthersSuffice
    <3> QED  BY <1>0, <1>k, <2>6, <3>1, DropTyped, TurnSuffices
  <2> QED  BY <2>1, <2>5, <2>6
<1>4. CASE StartMatch
  <2> DEFINE started == [next_pattern |-> 2, data |-> Data, start_line |-> line.number]
  <2>1. /\ ~Continues /\ Matches(PatternNow, line.text) /\ ~IsLast
        /\ \/ /\ Fits(Data) /\ StatesLeft /\ states' = Inserted(Others, started)
              /\ UNCHANGED <<emitted, dropped>>
           \/ states' = Others /\ Drop
    BY <1>4 DEF StartMatch
  <2>2. /\ Data \in DataType /\ line.number \in Nat /\ Len(PatternsNow) \in Nat \ {0}
        /\ Attempt.next_pattern = 1
    BY <1>0, <2>1, TurnProperties DEF Attempt
  <2>3. /\ started \in StateType /\ started.next_pattern \in 2..Len(PatternsNow)
        /\ started.data = Data
    <3> DEFINE length == Len(PatternsNow)
    <3>1. length \in Nat \ {0} /\ length # 1
      BY <2>1, <2>2 DEF IsLast
    <3>2. 2 \in 2..length
      <4> HIDE DEF length
      <4> QED  BY <3>1
    <3>3. started \in StateType
      <4>1. Data \in DataType /\ line.number \in Nat /\ 2 \in Nat \ {0}
        BY <2>2
      <4> QED  BY <4>1 DEF StateType
    <3>4. started.next_pattern = 2 /\ started.data = Data
      OBVIOUS
    <3> QED  BY <3>2, <3>3, <3>4
  <2> HIDE DEF started
  <2>5. CASE /\ Fits(Data) /\ StatesLeft /\ states' = Inserted(Others, started)
             /\ UNCHANGED <<emitted, dropped>>
    <3>1. StatesInvariant'
      BY <1>0, <1>k, <2>3, <2>5, InsertedSuffices DEF StatesLeft
    <3> QED  BY <1>0, <1>s, <2>5, <3>1, TurnSuffices
  <2>6. CASE states' = Others /\ Drop
    <3>1. StatesInvariant'
      BY <1>0, <2>6, OthersSuffice
    <3> QED  BY <1>0, <1>k, <2>6, <3>1, DropTyped, TurnSuffices
  <2> QED  BY <2>1, <2>5, <2>6
<1> QED  BY <1>1, <1>2, <1>3, <1>4

LEMMA InvariantStep == IInv /\ [Next]_vars => IInv'
PROOF
<1> SUFFICES ASSUME IInv, [Next]_vars
             PROVE  IInv'
  OBVIOUS
<1>1. CASE UNCHANGED vars
  BY <1>1
  DEF vars, IInv, TypeOK, LineIsOpen, StatesOfOpenScopes, NextPatternExists,
      StatesBounded, ActiveStatesBounded, StateBytesBounded
<1>2. CASE Next
  BY <1>1, <1>2, SessionSteps, EndScopeStep, TurnSteps DEF Next, Done
<1> QED  BY <1>1, <1>2

(* The inductive invariant, whatever the matchers, the log and the limits. *)
THEOREM Invariant == Spec => []IInv
  BY InvariantInit, InvariantStep, PTL DEF Spec

(* Every variable keeps its type; in particular every problem emitted has  *)
(* a file and a severity (emit_problem).                                   *)
THEOREM TypeCorrect == Spec => []TypeOK
PROOF
<1>1. IInv => TypeOK
  BY DEF IInv
<1> QED  BY <1>1, Invariant, PTL

(* Partial matches of all scopes, streams and matchers together are at     *)
(* most max_active_states (start_match, observe_matcher).                  *)
THEOREM ActiveStatesAlwaysBounded == Spec => []ActiveStatesBounded
PROOF
<1>1. IInv => ActiveStatesBounded
  BY DEF IInv, StatesBounded
<1> QED  BY <1>1, Invariant, PTL

(* They and their bytes are within their limits together: what a scope, a  *)
(* stream or a matcher retains is not available to another, and every byte *)
(* is given back when a partial match ends (fits_retained_states).         *)
THEOREM StatesAlwaysBounded == Spec => []StatesBounded
PROOF
<1>1. IInv => StatesBounded
  BY DEF IInv
<1> QED  BY <1>1, Invariant, PTL

(* No partial match outlives its scope, so none is continued by lines of a *)
(* later scope of the same id (boundary).                                  *)
THEOREM StatesEndWithScopes == Spec => []StatesOfOpenScopes
PROOF
<1>1. IInv => StatesOfOpenScopes
  BY DEF IInv
<1> QED  BY <1>1, Invariant, PTL

----------------------------------------------------------------------------
(* The reference: what lines capture *)

LEMMA ZeroIsNoText == 0 \notin Texts
  BY MatchersAssumption

LEMMA FirstOfEmpty == FirstOf(<<>>) = 0
  BY DEF FirstOf

LEMMA FirstOfAppend ==
  ASSUME NEW values \in Seq(OptionalTexts), NEW x \in OptionalTexts
  PROVE  FirstOf(Append(values, x)) = IF FirstOf(values) # 0 THEN FirstOf(values) ELSE x
PROOF
<1> DEFINE longer == Append(values, x)
           k == Len(values)
           least(S) == CHOOSE n \in S : \A i \in S : n <= i
           some == {n \in DOMAIN values : values[n] # 0}
           more == {n \in DOMAIN longer : longer[n] # 0}
<1>1. /\ k \in Nat /\ DOMAIN values = 1..k /\ DOMAIN longer = 1..k + 1
      /\ longer[k + 1] = x /\ \A n \in 1..k : longer[n] = values[n]
  OBVIOUS
<1> HIDE DEF longer, k
<1>2. /\ some \in SUBSET Nat /\ more \in SUBSET Nat
      /\ \A n \in some : n <= k /\ n \in more
      /\ \A n \in more : n \in some \/ (n = k + 1 /\ x # 0)
      /\ x # 0 => k + 1 \in more
  BY <1>1
<1>3. /\ FirstOf(values) = IF some = {} THEN 0 ELSE values[least(some)]
      /\ FirstOf(longer) = IF more = {} THEN 0 ELSE longer[least(more)]
  BY DEF FirstOf
<1>4. /\ \A n \in some : n \in 1..k /\ values[n] # 0
  BY <1>1
<1> HIDE DEF some, more
<1>5. ASSUME NEW S \in SUBSET Nat, S # {}
      PROVE  least(S) \in S /\ \A i \in S : least(S) <= i
  BY <1>5, LeastNat
<1>6. CASE some # {}
  <2>1. least(some) \in some /\ \A i \in some : least(some) <= i
    BY <1>2, <1>5, <1>6
  <2>2. more # {}
    BY <1>2, <1>6
  <2>3. least(more) \in more /\ \A i \in more : least(more) <= i
    BY <1>2, <1>5, <2>2
  <2> HIDE DEF least
  <2>4. least(more) <= least(some)
    BY <1>2, <2>1, <2>3
  <2>5. least(some) <= k /\ least(some) \in Nat /\ least(more) \in Nat
    BY <1>2, <2>1, <2>3
  <2>6. least(more) \in some
    BY <1>1, <1>2, <2>3, <2>4, <2>5
  <2>7. least(more) = least(some)
    BY <2>1, <2>4, <2>5, <2>6
  <2>8. FirstOf(values) = values[least(some)] /\ FirstOf(longer) = longer[least(some)]
    BY <1>3, <1>6, <2>2, <2>7
  <2>9. least(some) \in 1..k /\ values[least(some)] # 0
    BY <1>4, <2>1
  <2> QED  BY <1>1, <2>8, <2>9 DEF longer
<1>7. CASE some = {}
  <2>1. FirstOf(values) = 0
    BY <1>3, <1>7
  <2>2. CASE x = 0
    <3>1. more = {}
      BY <1>2, <1>7, <2>2
    <3> QED  BY <1>3, <2>1, <2>2, <3>1 DEF longer
  <2>3. CASE x # 0
    <3>1. more = {k + 1}
      BY <1>2, <1>7, <2>3
    <3>2. least(more) = k + 1
      BY <1>2, <1>5, <3>1
    <3> HIDE DEF least
    <3>3. FirstOf(longer) = longer[k + 1]
      BY <1>3, <3>1, <3>2
    <3> QED  BY <1>1, <2>1, <3>3 DEF longer
  <2> QED  BY <2>2, <2>3
<1> QED  BY <1>6, <1>7

(* Every line at the positions matches the pattern it is taken for. *)
Taken(m, h, positions) ==
  /\ positions \in Seq(1..Len(h))
  /\ Len(positions) <= Len(Matchers[m].patterns)
  /\ \A n \in 1..Len(positions) : Matches(Matchers[m].patterns[n], h[positions[n]])

LEMMA CapturedAtType ==
  ASSUME NEW m \in DOMAIN Matchers, NEW h, NEW positions, Len(h) \in Nat,
         Taken(m, h, positions), NEW target
  PROVE  /\ CapturedAt(m, h, positions, target) \in Seq(OptionalTexts)
         /\ Len(CapturedAt(m, h, positions, target)) = Len(positions)
PROOF
<1> DEFINE values == CapturedAt(m, h, positions, target)
<1>1. /\ DOMAIN positions = 1..Len(positions) /\ Len(positions) \in Nat
      /\ Len(positions) <= Len(Matchers[m].patterns)
  BY DEF Taken
<1>2. \A n \in 1..Len(positions) : Matchers[m].patterns[n] \in Patterns
  BY <1>1, MatcherTypes
<1>3. \A n \in 1..Len(positions) :
        Captured(Matchers[m].patterns[n], h[positions[n]], target) \in OptionalTexts
  BY <1>2, CapturedType DEF Taken
<1>4. values = [n \in 1..Len(positions) |->
                  Captured(Matchers[m].patterns[n], h[positions[n]], target)]
  BY <1>1 DEF CapturedAt
<1> HIDE DEF values
<1>5. values \in [1..Len(positions) -> OptionalTexts]
  BY <1>3, <1>4
<1> QED  BY <1>1, <1>5 DEF values

LEMMA TakenAppend ==
  ASSUME NEW m \in DOMAIN Matchers, NEW h, Len(h) \in Nat, NEW positions,
         Taken(m, h, positions), Len(positions) < Len(Matchers[m].patterns),
         NEW p \in 1..Len(h), Matches(Matchers[m].patterns[Len(positions) + 1], h[p])
  PROVE  /\ Taken(m, h, Append(positions, p))
         /\ \A target : CapturedAt(m, h, Append(positions, p), target)
                          = Append(CapturedAt(m, h, positions, target),
                                   Captured(Matchers[m].patterns[Len(positions) + 1], h[p], target))
PROOF
<1> DEFINE longer == Append(positions, p)
           k == Len(positions)
<1>1. /\ positions \in Seq(1..Len(h)) /\ k \in Nat
      /\ \A n \in 1..k : Matches(Matchers[m].patterns[n], h[positions[n]])
  BY DEF Taken
<1>2. /\ longer \in Seq(1..Len(h)) /\ Len(longer) = k + 1 /\ longer[k + 1] = p
      /\ \A n \in 1..k : longer[n] = positions[n]
      /\ DOMAIN longer = 1..k + 1 /\ DOMAIN positions = 1..k
  BY <1>1
<1>3. Len(Matchers[m].patterns) \in Nat
  BY MatcherTypes
<1> HIDE DEF longer
<1>4. Taken(m, h, longer)
  <2>1. \A n \in 1..k + 1 : n \in 1..k \/ n = k + 1
    BY <1>1
  <2>2. \A n \in 1..k + 1 : Matches(Matchers[m].patterns[n], h[longer[n]])
    BY <1>1, <1>2, <2>1
  <2>3. k + 1 <= Len(Matchers[m].patterns)
    BY <1>1, <1>3
  <2> HIDE DEF k
  <2> QED  BY <1>2, <2>2, <2>3 DEF Taken
<1>5. ASSUME NEW target
      PROVE  CapturedAt(m, h, longer, target)
               = Append(CapturedAt(m, h, positions, target),
                        Captured(Matchers[m].patterns[k + 1], h[p], target))
  <2> DEFINE v == CapturedAt(m, h, positions, target)
             w == CapturedAt(m, h, longer, target)
             x == Captured(Matchers[m].patterns[k + 1], h[p], target)
  <2>1. /\ v \in Seq(OptionalTexts) /\ Len(v) = k
        /\ w \in Seq(OptionalTexts) /\ Len(w) = k + 1
    BY <1>2, <1>4, CapturedAtType
  <2>2. \A n \in 1..k : w[n] = v[n]
    BY <1>1, <1>2 DEF CapturedAt
  <2>3. w[k + 1] = x
    BY <1>1, <1>2 DEF CapturedAt
  <2>4. x \in OptionalTexts
    <3>1. k + 1 \in 1..Len(w)
      BY <1>1, <2>1
    <3> QED  BY <2>1, <2>3, <3>1
  <2> HIDE DEF v, w, x
  <2>5. /\ Append(v, x) \in Seq(OptionalTexts) /\ Len(Append(v, x)) = k + 1
        /\ Append(v, x)[k + 1] = x /\ \A n \in 1..k : Append(v, x)[n] = v[n]
    BY <2>1, <2>4
  <2> DEFINE u == Append(v, x)
  <2> HIDE DEF u
  <2>6. u \in Seq(OptionalTexts) /\ Len(u) = Len(w) /\ \A n \in 1..Len(u) : u[n] = w[n]
    BY <1>1, <2>1, <2>2, <2>3, <2>5 DEF u
  <2>7. u = w
    BY <2>1, <2>6
  <2> QED  BY <2>7 DEF u, v, w, x
<1> QED  BY <1>4, <1>5 DEF longer

(* One more line captures what ApplyCaptures adds. *)
LEMMA DataOfAppend ==
  ASSUME NEW m \in DOMAIN Matchers, NEW h, Len(h) \in Nat, NEW positions,
         Taken(m, h, positions), Len(positions) < Len(Matchers[m].patterns),
         NEW p \in 1..Len(h), Matches(Matchers[m].patterns[Len(positions) + 1], h[p])
  PROVE  DataOf(m, h, Append(positions, p))
           = ApplyCaptures(DataOf(m, h, positions), Matchers[m].patterns[Len(positions) + 1], h[p])
PROOF
<1> DEFINE longer == Append(positions, p)
           pattern == Matchers[m].patterns[Len(positions) + 1]
           before == DataOf(m, h, positions)
           after == DataOf(m, h, longer)
           values(target) == CapturedAt(m, h, positions, target)
           value(target) == Captured(pattern, h[p], target)
<1>1. Taken(m, h, longer)
  BY TakenAppend
<1>2. \A target : CapturedAt(m, h, longer, target) = Append(values(target), value(target))
  BY TakenAppend
<1>3. \A target : values(target) \in Seq(OptionalTexts)
  BY CapturedAtType
<1>4. \A target : value(target) \in OptionalTexts
  <2>1. pattern \in Patterns
    <3>1. Len(positions) \in Nat
      BY DEF Taken
    <3> QED  BY <3>1, MatcherTypes
  <2> QED  BY <2>1, CapturedType
<1>5. /\ before = [fields |-> [field \in Fields |-> FirstOf(values(field))],
                   message |-> Only(values("message"), Texts)]
      /\ after = [fields |-> [field \in Fields |-> FirstOf(Append(values(field), value(field)))],
                  message |-> Only(Append(values("message"), value("message")), Texts)]
  BY <1>2 DEF DataOf
<1> HIDE DEF values, value
<1>6. \A field : FirstOf(Append(values(field), value(field)))
                   = IF FirstOf(values(field)) # 0 THEN FirstOf(values(field)) ELSE value(field)
  BY <1>3, <1>4, FirstOfAppend
<1>7. Only(Append(values("message"), value("message")), Texts)
        = IF value("message") = 0 THEN Only(values("message"), Texts)
          ELSE Append(Only(values("message"), Texts), value("message"))
  <2>1. value("message") \in Texts <=> value("message") # 0
    BY <1>4, ZeroIsNoText DEF OptionalTexts
  <2>2. Only(Append(values("message"), value("message")), Texts)
          = IF value("message") \in Texts THEN Append(Only(values("message"), Texts), value("message"))
            ELSE Only(values("message"), Texts)
    BY <1>3, <1>4, OnlyAppend
  <2> QED  BY <2>1, <2>2
<1>8. ApplyCaptures(before, pattern, h[p])
        = [fields |-> [field \in Fields |->
                         IF before.fields[field] # 0 THEN before.fields[field] ELSE value(field)],
           message |-> IF value("message") = 0 THEN before.message
                       ELSE Append(before.message, value("message"))]
  BY DEF ApplyCaptures, value
<1> HIDE DEF before, after, pattern
<1>9. /\ \A field \in Fields : before.fields[field] = FirstOf(values(field))
      /\ before.message = Only(values("message"), Texts)
  BY <1>5
<1>10. after = ApplyCaptures(before, pattern, h[p])
  BY <1>5, <1>6, <1>7, <1>8, <1>9
<1> QED  BY <1>10 DEF after, before, longer, pattern

LEMMA DataOfEmpty ==
  ASSUME NEW m, NEW h
  PROVE  DataOf(m, h, <<>>) = Nothing
PROOF
<1>1. \A target : CapturedAt(m, h, <<>>, target) = <<>>
  BY DEF CapturedAt
<1> QED  BY <1>1, FirstOfEmpty, OnlyEmpty DEF DataOf, Nothing

(* Later lines change nothing. *)
LEMMA DataOfGrows ==
  ASSUME NEW m, NEW h \in Seq(LogLines), NEW x \in LogLines, NEW positions \in Seq(1..Len(h))
  PROVE  DataOf(m, Append(h, x), positions) = DataOf(m, h, positions)
PROOF
<1> DEFINE longer == Append(h, x)
<1>1. \A n \in 1..Len(h) : longer[n] = h[n]
  OBVIOUS
<1>2. \A n \in DOMAIN positions : positions[n] \in 1..Len(h)
  OBVIOUS
<1> HIDE DEF longer
<1>3. \A target : CapturedAt(m, longer, positions, target) = CapturedAt(m, h, positions, target)
  BY <1>1, <1>2 DEF CapturedAt
<1> QED  BY <1>3 DEF DataOf, longer

----------------------------------------------------------------------------
(* The reference: where matches start, and their lines *)

IsStarts(start, m, h) ==
  /\ start[0] = 0
  /\ \A n \in 1..Len(h) : start[n] = NextStart(m, h, n, start[n - 1])
  /\ \A n \in 0..Len(h) : start[n] \in Nat

LEMMA StartsProperties ==
  ASSUME NEW m, NEW h, Len(h) \in Nat
  PROVE  IsStarts(Starts(m, h), m, h)
PROOF
<1> DEFINE size == Len(h)
           step == [p \in (1..size) \X Nat |-> NextStart(m, h, p[1], p[2])]
           Eq(f) == f = [n \in 0..size |-> IF n = 0 THEN 0 ELSE NextStart(m, h, n, f[n - 1])]
<1>1. /\ \A n \in 1..size, v \in Nat : step[<<n, v>>] = NextStart(m, h, n, v)
      /\ step \in [(1..size) \X Nat -> Nat]
  <2>1. ASSUME NEW n \in 1..size, NEW v \in Nat
        PROVE  NextStart(m, h, n, v) \in Nat
    BY DEF NextStart
  <2> QED  BY <2>1
<1> HIDE DEF step
<1>2. PICK g : IsCourse(g, size, Nat, 0, step)
  BY <1>1, CourseExists
<1>3. /\ g \in [0..size -> Nat] /\ g[0] = 0
      /\ \A n \in 1..size : g[n] = step[<<n, g[n - 1]>>]
  BY <1>2 DEF IsCourse
<1>4. \A n \in 1..size : g[n] = NextStart(m, h, n, g[n - 1])
  <2> SUFFICES ASSUME NEW n \in 1..size
               PROVE  g[n] = NextStart(m, h, n, g[n - 1])
    OBVIOUS
  <2>1. n - 1 \in 0..size
    OBVIOUS
  <2> QED  BY <1>1, <1>3, <2>1
<1>5. Eq(g)
  <2>1. \A n \in 0..size : n # 0 => n \in 1..size
    OBVIOUS
  <2>2. g = [n \in 0..size |-> g[n]]
    BY <1>3
  <2>3. \A n \in 0..size : g[n] = IF n = 0 THEN 0 ELSE NextStart(m, h, n, g[n - 1])
    BY <1>3, <1>4, <2>1
  <2> HIDE DEF size
  <2> QED  BY <2>2, <2>3
<1>6. Starts(m, h) = CHOOSE f : Eq(f)
  BY DEF Starts
<1> DEFINE f == CHOOSE k : Eq(k)
<1>7. Eq(f)
  <2> HIDE DEF Eq
  <2> QED  BY <1>5
<1> HIDE DEF f
<1>8. f[0] = 0 /\ \A n \in 1..size : f[n] = NextStart(m, h, n, f[n - 1])
  <2>1. \A n \in 1..size : n \in 0..size /\ n # 0
    OBVIOUS
  <2>2. 0 \in 0..size
    OBVIOUS
  <2> HIDE DEF size
  <2> QED  BY <1>7, <2>1, <2>2
<1>9. StepsAgree(f, g, size)
  BY <1>3, <1>4, <1>8 DEF StepsAgree
<1>10. \A n \in 0..size : f[n] = g[n]
  BY <1>9, CoursesAgree
<1>11. IsStarts(f, m, h)
  BY <1>3, <1>8, <1>10 DEF IsStarts
<1> QED  BY <1>6, <1>11 DEF f

LEMMA StartsGrow ==
  ASSUME NEW m, NEW h \in Seq(LogLines), NEW x \in LogLines
  PROVE  \A n \in 0..Len(h) : Starts(m, Append(h, x))[n] = Starts(m, h)[n]
PROOF
<1> DEFINE longer == Append(h, x)
           f == Starts(m, h)
           g == Starts(m, longer)
<1>1. /\ Len(longer) = Len(h) + 1 /\ Len(h) \in Nat
      /\ \A n \in 1..Len(h) : longer[n] = h[n]
  OBVIOUS
<1> HIDE DEF longer
<1>2. IsStarts(f, m, h) /\ IsStarts(g, m, longer)
  BY <1>1, StartsProperties
<1> HIDE DEF f, g
<1>3. \A b : \A n \in 1..Len(h) : NextStart(m, longer, n, b) = NextStart(m, h, n, b)
  BY <1>1 DEF NextStart, InPlace
<1>4. /\ f[0] = 0 /\ g[0] = 0
      /\ \A n \in 1..Len(h) : f[n] = NextStart(m, h, n, f[n - 1])
      /\ \A n \in 1..Len(h) : g[n] = NextStart(m, longer, n, g[n - 1])
  <2>1. \A n \in 1..Len(h) : n \in 1..Len(longer)
    BY <1>1
  <2> QED  BY <1>2, <2>1 DEF IsStarts
<1>5. StepsAgree(g, f, Len(h))
  BY <1>3, <1>4 DEF StepsAgree
<1>6. \A n \in 0..Len(h) : g[n] = f[n]
  BY <1>1, <1>5, CoursesAgree
<1> QED  BY <1>6 DEF f, g, longer

Consecutive(start, k) == [n \in 1..k |-> start + n - 1]

LEMMA ConsecutiveProperties ==
  ASSUME NEW start \in Nat \ {0}, NEW k \in Nat
  PROVE  /\ Len(Consecutive(start, k)) = k
         /\ \A e \in Nat : start + k - 1 <= e => Consecutive(start, k) \in Seq(1..e)
         /\ Append(Consecutive(start, k), start + k) = Consecutive(start, k + 1)
         /\ \A n \in 1..k : Consecutive(start, k)[n] = start + n - 1
PROOF
<1> DEFINE s == Consecutive(start, k)
           t == Consecutive(start, k + 1)
<1>1. s \in [1..k -> Nat] /\ t \in [1..k + 1 -> Nat]
  BY DEF Consecutive
<1>2. s \in Seq(Nat) /\ Len(s) = k /\ t \in Seq(Nat) /\ Len(t) = k + 1
  BY <1>1
<1>3. /\ \A n \in 1..k : s[n] = start + n - 1
      /\ \A n \in 1..k + 1 : t[n] = start + n - 1
  BY DEF Consecutive
<1> HIDE DEF s, t
<1>4. ASSUME NEW e \in Nat, start + k - 1 <= e
      PROVE  s \in Seq(1..e)
  <2>1. \A n \in 1..k : s[n] \in 1..e
    BY <1>3, <1>4
  <2>2. s \in [1..k -> 1..e]
    BY <1>1, <2>1
  <2> QED  BY <2>2
<1>5. Append(s, start + k) = t
  <2> DEFINE u == Append(s, start + k)
  <2>1. /\ u \in Seq(Nat) /\ Len(u) = k + 1 /\ u[k + 1] = start + k
        /\ \A n \in 1..k : u[n] = s[n]
    BY <1>2
  <2> HIDE DEF u
  <2>2. \A n \in 1..k + 1 : u[n] = t[n]
    <3> SUFFICES ASSUME NEW n \in 1..k + 1 PROVE u[n] = t[n]
      OBVIOUS
    <3>1. n \in 1..k \/ n = k + 1
      OBVIOUS
    <3> QED  BY <1>3, <2>1, <3>1
  <2>3. u = t
    BY <1>2, <2>1, <2>2
  <2> QED  BY <2>3 DEF u
<1> QED  BY <1>2, <1>3, <1>4, <1>5 DEF s, t

LEMMA RunPositionsProperties ==
  ASSUME NEW m \in DOMAIN Matchers, NEW start \in Nat \ {0}, NEW end \in Nat,
         end - start + 1 >= Len(Matchers[m].patterns)
  PROVE  /\ RunPositions(m, start, end)
              = Append(Consecutive(start, Len(Matchers[m].patterns) - 1), end)
         /\ RunPositions(m, start, end) \in Seq(1..end)
PROOF
<1> DEFINE last == Len(Matchers[m].patterns)
           k == last - 1
           s == Consecutive(start, k)
           r == RunPositions(m, start, end)
<1>1. last \in Nat \ {0} /\ k \in Nat /\ last = k + 1
  BY MatcherTypes
<1>2. /\ Len(s) = k /\ s \in Seq(1..end)
      /\ \A n \in 1..k : s[n] = start + n - 1
  <2>1. start + k - 1 <= end
    BY <1>1
  <2> QED  BY <1>1, <2>1, ConsecutiveProperties
<1>3. r = [n \in 1..last |-> IF n < last THEN start + n - 1 ELSE end]
  BY DEF RunPositions
<1> HIDE DEF r, s
<1>4. end \in 1..end
  BY <1>1
<1>5. \A n \in 1..last : IF n < last THEN r[n] = s[n] ELSE r[n] = end
  BY <1>1, <1>2, <1>3
<1> DEFINE u == Append(s, end)
<1>6. /\ u \in Seq(1..end) /\ Len(u) = k + 1 /\ u[k + 1] = end
      /\ \A n \in 1..k : u[n] = s[n]
  BY <1>1, <1>2, <1>4
<1> HIDE DEF u
<1>7. \A n \in 1..last : r[n] = u[n]
  <2> SUFFICES ASSUME NEW n \in 1..last PROVE r[n] = u[n]
    OBVIOUS
  <2>1. (n \in 1..k /\ n < last) \/ (n = k + 1 /\ ~(n < last))
    BY <1>1
  <2> QED  BY <1>5, <1>6, <2>1
<1>8. \A n \in 1..last : u[n] \in 1..end
  BY <1>1, <1>6
<1>9. r \in [1..last -> 1..end]
  BY <1>3, <1>7, <1>8
<1>10. r \in Seq(1..end) /\ Len(r) = last
  BY <1>1, <1>9
<1>11. r = u
  <2>1. Len(u) = last /\ Len(r) = last
    BY <1>1, <1>6, <1>10
  <2> HIDE DEF last, k
  <2>2. r \in [1..last -> 1..end] /\ u \in [1..last -> 1..end]
    BY <1>6, <1>9, <2>1
  <2>3. r = [n \in 1..last |-> r[n]] /\ u = [n \in 1..last |-> u[n]]
    BY <2>2
  <2> QED  BY <1>7, <2>3
<1> QED  BY <1>6, <1>11 DEF u, r, s

(* A partial match is the run of the lines start_line..e of h. *)
Running(m, h, e, state) ==
  LET last == Len(Matchers[m].patterns)
      start == state.start_line
      k == e - start + 1
  IN  /\ 1 <= start /\ start <= e /\ e <= Len(h)
      /\ state.next_pattern = IF k < last THEN k + 1 ELSE last
      /\ k >= last => Loops(m)
      /\ \A n \in start..e : InPlace(m, h, start, n)
      /\ state.data = DataOf(m, h, Consecutive(start, state.next_pattern - 1))

(* The match that line e is part of may go on with the next line. *)
GoesOn(m, h, e) ==
  LET start == Starts(m, h)[e]
  IN  start # 0 /\ (e - start + 2 <= Len(Matchers[m].patterns) \/ Loops(m))

LEMMA InPlaceGrows ==
  ASSUME NEW m, NEW h \in Seq(LogLines), NEW x \in LogLines, NEW start, NEW n \in 1..Len(h)
  PROVE  InPlace(m, Append(h, x), start, n) = InPlace(m, h, start, n)
PROOF
<1>1. Append(h, x)[n] = h[n]
  OBVIOUS
<1> QED  BY <1>1 DEF InPlace

LEMMA RunningGrows ==
  ASSUME NEW m \in DOMAIN Matchers, NEW h \in Seq(LogLines), NEW x \in LogLines,
         NEW e \in Nat, NEW state \in StateType, Running(m, h, e, state)
  PROVE  Running(m, Append(h, x), e, state)
PROOF
<1> DEFINE longer == Append(h, x)
           last == Len(Matchers[m].patterns)
           s == state.start_line
           p == state.next_pattern
           positions == Consecutive(s, p - 1)
<1>1. Len(h) \in Nat /\ Len(longer) = Len(h) + 1 /\ last \in Nat \ {0}
  BY MatcherTypes
<1>2. /\ s \in Nat /\ p \in Nat \ {0}
      /\ 1 <= s /\ s <= e /\ e <= Len(h)
      /\ p = IF e - s + 1 < last THEN e - s + 1 + 1 ELSE last
      /\ e - s + 1 >= last => Loops(m)
      /\ \A n \in s..e : InPlace(m, h, s, n)
      /\ state.data = DataOf(m, h, positions)
  BY DEF Running, StateType
<1>3. \A n \in s..e : InPlace(m, longer, s, n)
  <2>1. \A n \in s..e : n \in 1..Len(h)
    BY <1>1, <1>2
  <2> QED  BY <1>2, <2>1, InPlaceGrows
<1>4. positions \in Seq(1..Len(h))
  <2>1. s \in Nat \ {0} /\ p - 1 \in Nat /\ s + (p - 1) - 1 <= Len(h)
    BY <1>1, <1>2
  <2> QED  BY <1>1, <2>1, ConsecutiveProperties
<1> HIDE DEF positions
<1>5. state.data = DataOf(m, longer, positions)
  BY <1>2, <1>4, DataOfGrows
<1> HIDE DEF longer
<1>6. e <= Len(longer)
  BY <1>1, <1>2
<1> QED  BY <1>2, <1>3, <1>5, <1>6 DEF Running, positions, longer

LEMMA GoesOnGrows ==
  ASSUME NEW m, NEW h \in Seq(LogLines), NEW x \in LogLines, NEW e \in 0..Len(h)
  PROVE  /\ GoesOn(m, Append(h, x), e) = GoesOn(m, h, e)
         /\ Starts(m, Append(h, x))[e] = Starts(m, h)[e]
PROOF
<1>1. Starts(m, Append(h, x))[e] = Starts(m, h)[e]
  BY StartsGrow
<1> QED  BY <1>1 DEF GoesOn

LEMMA RunProblemGrows ==
  ASSUME NEW m \in DOMAIN Matchers, NEW h \in Seq(LogLines), NEW x \in LogLines,
         NEW source, NEW start \in Nat \ {0}, NEW end \in Nat, end <= Len(h),
         end - start + 1 >= Len(Matchers[m].patterns)
  PROVE  /\ RunProblem(m, Append(h, x), source, start, end) = RunProblem(m, h, source, start, end)
         /\ RunReported(m, Append(h, x), start, end) = RunReported(m, h, start, end)
PROOF
<1> DEFINE positions == RunPositions(m, start, end)
<1>1. positions \in Seq(1..end)
  BY RunPositionsProperties
<1> HIDE DEF positions
<1>2. positions \in Seq(1..Len(h))
  <2>1. 1..end \subseteq 1..Len(h)
    OBVIOUS
  <2> QED  BY <1>1, <2>1
<1>3. DataOf(m, Append(h, x), positions) = DataOf(m, h, positions)
  BY <1>2, DataOfGrows
<1> QED  BY <1>3 DEF RunProblem, RunReported, positions

LEMMA IsRunGrows ==
  ASSUME NEW m \in DOMAIN Matchers, NEW h \in Seq(LogLines), NEW x \in LogLines,
         NEW start \in Nat, NEW end \in Nat, IsRun(m, h, start, end)
  PROVE  IsRun(m, Append(h, x), start, end)
PROOF
<1> DEFINE longer == Append(h, x)
<1>1. Len(h) \in Nat /\ Len(longer) = Len(h) + 1
  OBVIOUS
<1>2. /\ 1 <= start /\ end <= Len(h)
      /\ end - start + 1 >= Len(Matchers[m].patterns)
      /\ end - start + 1 > Len(Matchers[m].patterns) => Loops(m)
      /\ \A n \in start..end : InPlace(m, h, start, n)
  BY DEF IsRun
<1>3. \A n \in start..end : n \in 1..Len(h)
  BY <1>1, <1>2
<1>4. \A n \in start..end : InPlace(m, longer, start, n)
  BY <1>2, <1>3, InPlaceGrows
<1> HIDE DEF longer
<1>5. end <= Len(longer)
  BY <1>1, <1>2
<1> QED  BY <1>2, <1>4, <1>5 DEF IsRun, longer

LEMMA ExpectedGrows ==
  ASSUME NEW m \in DOMAIN Matchers, NEW h \in Seq(LogLines), NEW x \in LogLines,
         NEW source, NEW e \in 0..Len(h)
  PROVE  /\ ExpectedEnds(m, Append(h, x), e) = ExpectedEnds(m, h, e)
         /\ ExpectedProblems(m, Append(h, x), source, e) = ExpectedProblems(m, h, source, e)
PROOF
<1> DEFINE longer == Append(h, x)
           f == Starts(m, h)
           g == Starts(m, longer)
           last == Len(Matchers[m].patterns)
<1>1. Len(h) \in Nat /\ \A n \in 1..e : n \in Nat /\ n <= Len(h) /\ n \in 0..Len(h)
  OBVIOUS
<1>2. \A n \in 1..e : g[n] = f[n] /\ f[n] \in Nat
  <2>1. IsStarts(f, m, h)
    BY <1>1, StartsProperties
  <2>2. \A n \in 0..Len(h) : f[n] \in Nat
    BY <2>1 DEF IsStarts
  <2> QED  BY <1>1, <2>2, StartsGrow
<1>3. ASSUME NEW n \in 1..e, f[n] # 0, n - f[n] + 1 >= last
      PROVE  /\ RunReported(m, longer, f[n], n) = RunReported(m, h, f[n], n)
             /\ RunProblem(m, longer, source, f[n], n) = RunProblem(m, h, source, f[n], n)
  <2>1. f[n] \in Nat \ {0}
    BY <1>2, <1>3
  <2>2. n \in Nat /\ n <= Len(h)
    BY <1>1
  <2> DEFINE s == f[n]
  <2>3. s \in Nat \ {0} /\ n - s + 1 >= Len(Matchers[m].patterns)
    BY <1>3, <2>1
  <2> HIDE DEF s, f
  <2>4. /\ RunProblem(m, Append(h, x), source, s, n) = RunProblem(m, h, source, s, n)
        /\ RunReported(m, Append(h, x), s, n) = RunReported(m, h, s, n)
    BY <2>2, <2>3, RunProblemGrows
  <2> QED  BY <2>4 DEF s
<1> DEFINE ends == {n \in 1..e : f[n] # 0 /\ n - f[n] + 1 >= last /\ RunReported(m, h, f[n], n)}
<1>4. ExpectedEnds(m, h, e) = ends
  BY DEF ExpectedEnds
<1>5. ExpectedEnds(m, longer, e)
        = {n \in 1..e : g[n] # 0 /\ n - g[n] + 1 >= last /\ RunReported(m, longer, g[n], n)}
  BY DEF ExpectedEnds
<1> HIDE DEF f, g, longer, last
<1>6. ExpectedEnds(m, longer, e) = ends
  BY <1>2, <1>3, <1>5
<1>7. \A n \in ends : /\ g[n] = f[n]
                      /\ RunProblem(m, longer, source, f[n], n) = RunProblem(m, h, source, f[n], n)
  BY <1>2, <1>3
<1>8. /\ ExpectedProblems(m, h, source, e) = {RunProblem(m, h, source, f[n], n) : n \in ends}
      /\ ExpectedProblems(m, longer, source, e)
           = {RunProblem(m, longer, source, g[n], n) : n \in ends}
  BY <1>4, <1>6 DEF ExpectedProblems, f, g
<1> HIDE DEF ends
<1>9. ExpectedProblems(m, longer, source, e) = ExpectedProblems(m, h, source, e)
  BY <1>7, <1>8
<1> QED  BY <1>4, <1>6, <1>9 DEF longer

----------------------------------------------------------------------------
(* The invariant that ties partial matches and problems to the log *)

(* How many lines of its stream a matcher has seen. *)
Seen(key) ==
  LET shown == Len(Shown(<<key[1], key[2]>>))
  IN  IF phase = "observing" /\ <<key[1], key[2]>> = Source /\ matcher <= key[3]
      THEN shown - 1 ELSE shown

(* The line observed is the last one shown. *)
LineIsLast ==
  /\ phase = "idle" => matcher = 1
  /\ \A source \in Sources : LinesShown(source) = Len(Shown(source))
  /\ phase = "observing" =>
       /\ line.number = Len(Shown(Source))
       /\ line.number >= 1
       /\ line.text = Shown(Source)[line.number]

(* A partial match is a run of lines; and unless the matcher dropped one,  *)
(* it is the one expected, and so are the problems reported.               *)
Tracked(key, h, e) ==
  /\ key \in DOMAIN states => Running(key[3], h, e, states[key])
  /\ key \notin dropped =>
       /\ key[1] \in open =>
            /\ key \in DOMAIN states <=> GoesOn(key[3], h, e)
            /\ key \in DOMAIN states => states[key].start_line = Starts(key[3], h)[e]
       /\ Reported(key[3], h, <<key[1], key[2]>>, e, emitted[<<key[1], key[2]>>])
AllTracked == \A key \in Keys : Tracked(key, Shown(<<key[1], key[2]>>), Seen(key))

(* The problems of one stream are runs of its lines. *)
AreRuns(source, h, problems) ==
  \A i \in DOMAIN problems :
    LET problem == problems[i]
    IN  /\ IsRun(problem.matcher, h, problem.start, problem.end)
        /\ problem = RunProblem(problem.matcher, h, source, problem.start, problem.end)
AllRuns == \A source \in Sources : AreRuns(source, Shown(source), emitted[source])

RunsInv == LineIsLast /\ AllTracked /\ AllRuns

LEMMA ShownType ==
  ASSUME log \in [Sources -> Seq(LogLines)], NEW source \in Sources
  PROVE  Shown(source) \in Seq(LogLines) /\ Len(Shown(source)) \in Nat
PROOF
<1>1. Shown(source) \in Seq(LogLines \cap (LogLines \ {Blank}))
  BY OnlyType DEF Shown
<1>2. Shown(source) \in Seq(LogLines)
  <2>1. LogLines \cap (LogLines \ {Blank}) \subseteq LogLines
    OBVIOUS
  <2> QED  BY <1>1, <2>1
<1> QED  BY <1>2

LEMMA KeyParts ==
  ASSUME NEW key \in Keys
  PROVE  /\ <<key[1], key[2]>> \in Sources /\ key[3] \in DOMAIN Matchers
         /\ key[1] \in Scopes /\ key[2] \in Streams
         /\ key = <<key[1], key[2], key[3]>>
  BY DEF Keys, Sources

(* The line is added to what the attempt has. *)
Attempted(m, h, n, s, p, data) ==
  LET last == Len(Matchers[m].patterns)
  IN  /\ s \in 1..n
      /\ p = IF n - s + 1 < last THEN n - s + 1 ELSE last
      /\ n - s >= last => Loops(m)
      /\ \A i \in s..n - 1 : InPlace(m, h, s, i)
      /\ data = DataOf(m, h, Consecutive(s, p - 1))

LEMMA AttemptRuns ==
  ASSUME IInv, LineIsLast, AllTracked, phase = "observing", matcher \in DOMAIN Matchers
  PROVE  /\ Shown(Source) \in Seq(LogLines) /\ line.number = Len(Shown(Source))
         /\ line.number \in Nat \ {0} /\ line.text = Shown(Source)[line.number]
         /\ Seen(Key) = line.number - 1
         /\ Attempted(matcher, Shown(Source), line.number, Attempt.start_line,
                      Attempt.next_pattern, Attempt.data)
PROOF
<1> DEFINE h == Shown(Source)
           n == line.number
           s == Attempt.start_line
           p == Attempt.next_pattern
           last == Len(Matchers[matcher].patterns)
<1>1. /\ Key \in Keys /\ Source \in Sources /\ <<Key[1], Key[2]>> = Source /\ Key[3] = matcher
      /\ last \in Nat \ {0} /\ n \in Nat /\ matcher \in Nat
  <2>1. Key[3] = matcher /\ <<Key[1], Key[2]>> = Source
    BY DEF Key, Source
  <2>2. matcher \in Nat
    BY ProblemMatcherAssumption
  <2> QED  BY <2>1, <2>2, TurnProperties DEF PatternsNow
<1>2. /\ h \in Seq(LogLines) /\ n = Len(h) /\ n \in Nat \ {0} /\ line.text = h[n]
  BY <1>1, ShownType DEF LineIsLast, IInv, TypeOK
<1>3. Seen(Key) = n - 1
  BY <1>1, <1>2 DEF Seen
<1>4. Tracked(Key, h, n - 1)
  BY <1>1, <1>3 DEF AllTracked
<1>5. CASE Continues
  <2>1. Attempt = states[Key] /\ Key \in DOMAIN states /\ states[Key] \in StateType
    BY <1>5, TurnProperties
  <2>2. Running(matcher, h, n - 1, Attempt)
    BY <1>1, <1>4, <2>1 DEF Tracked
  <2>3. s \in Nat /\ p \in Nat
    BY <2>1 DEF StateType
  <2>4. /\ 1 <= s /\ s <= n - 1
        /\ p = IF (n - 1) - s + 1 < last THEN (n - 1) - s + 1 + 1 ELSE last
        /\ (n - 1) - s + 1 >= last => Loops(matcher)
        /\ \A i \in s..n - 1 : InPlace(matcher, h, s, i)
        /\ Attempt.data = DataOf(matcher, h, Consecutive(s, p - 1))
    BY <2>2 DEF Running
  <2> HIDE DEF h, n, s, p, last
  <2>5. /\ s \in 1..n
        /\ p = IF n - s + 1 < last THEN n - s + 1 ELSE last
        /\ n - s >= last => Loops(matcher)
    BY <1>1, <1>2, <2>3, <2>4
  <2>6. Attempted(matcher, h, n, s, p, Attempt.data)
    BY <2>4, <2>5 DEF Attempted, last
  <2> QED  BY <1>2, <1>3, <2>6 DEF h, n, s, p
<1>6. CASE ~Continues
  <2>1. s = n /\ p = 1 /\ Attempt.data = Nothing
    BY <1>6 DEF Attempt
  <2>2. Consecutive(s, p - 1) = <<>>
    BY <2>1 DEF Consecutive
  <2>3. Attempt.data = DataOf(matcher, h, Consecutive(s, p - 1))
    BY <2>1, <2>2, DataOfEmpty
  <2>4. n \in 1..n /\ n..n - 1 = {} /\ n - n + 1 = 1 /\ n - n = 0
    BY <1>2
  <2> HIDE DEF h, n, s, p, last
  <2>5. 1 = (IF 1 < last THEN 1 ELSE last) /\ ~(0 >= last)
    BY <1>1
  <2>6. Attempted(matcher, h, n, s, p, Attempt.data)
    BY <1>1, <2>1, <2>3, <2>4, <2>5 DEF Attempted, last
  <2> QED  BY <1>2, <1>3, <2>6 DEF h, n, s, p
<1> QED  BY <1>5, <1>6

LEMMA PatternNowPlaced ==
  ASSUME NEW m, NEW h, NEW n, NEW s, NEW p, NEW data, Attempted(m, h, n, s, p, data),
         m = matcher, s = Attempt.start_line, p = Attempt.next_pattern, line.text = h[n]
  PROVE  /\ PatternNow = PatternAt(m, n - s + 1)
         /\ Matches(PatternNow, line.text) <=> InPlace(m, h, s, n)
  BY DEF Attempted, PatternNow, PatternsNow, PatternAt, InPlace

(* What the line captures is added. *)
LineAdded(m, h, n, s, p, data) ==
  /\ \A i \in s..n : InPlace(m, h, s, i)
  /\ ApplyCaptures(data, Matchers[m].patterns[p], h[n])
       = DataOf(m, h, Append(Consecutive(s, p - 1), n))

LEMMA DataNow ==
  ASSUME NEW m \in DOMAIN Matchers, NEW h, NEW n \in Nat \ {0}, n = Len(h),
         NEW s, NEW p, NEW data, Attempted(m, h, n, s, p, data), InPlace(m, h, s, n)
  PROVE  LineAdded(m, h, n, s, p, data)
PROOF
<1> DEFINE last == Len(Matchers[m].patterns)
           positions == Consecutive(s, p - 1)
<1>1. last \in Nat \ {0}
  BY MatcherTypes
<1>2. /\ s \in 1..n
      /\ p = IF n - s + 1 < last THEN n - s + 1 ELSE last
      /\ \A i \in s..n - 1 : InPlace(m, h, s, i)
      /\ data = DataOf(m, h, positions)
  BY DEF Attempted
<1>3. /\ s \in Nat \ {0} /\ p \in 1..last /\ p - 1 \in Nat /\ s + (p - 1) - 1 <= n
      /\ s + (p - 1) <= n /\ p - 1 < last /\ (p - 1) + 1 = p
  BY <1>1, <1>2
<1>4. /\ Len(positions) = p - 1 /\ positions \in Seq(1..n)
      /\ \A i \in 1..p - 1 : positions[i] = s + i - 1
  BY <1>3, ConsecutiveProperties
<1>5. \A i \in s..n : InPlace(m, h, s, i)
  <2>1. \A i \in s..n : i \in s..n - 1 \/ i = n
    BY <1>3
  <2> QED  BY <1>2, <2>1
<1>6. ASSUME NEW i \in 1..p - 1
      PROVE  Matches(Matchers[m].patterns[i], h[positions[i]])
  <2>1. s + i - 1 \in s..n - 1 /\ (s + i - 1) - s + 1 = i /\ i < last
    BY <1>3
  <2>2. InPlace(m, h, s, s + i - 1)
    BY <1>2, <2>1
  <2>3. PatternAt(m, i) = Matchers[m].patterns[i]
    BY <2>1 DEF PatternAt
  <2> QED  BY <1>4, <2>1, <2>2, <2>3 DEF InPlace
<1>7. Matches(Matchers[m].patterns[p], h[n])
  <2>1. PatternAt(m, n - s + 1) = Matchers[m].patterns[p]
    BY <1>2 DEF PatternAt
  <2> QED  BY <2>1 DEF InPlace
<1> HIDE DEF positions
<1>8. Taken(m, h, positions)
  BY <1>1, <1>3, <1>4, <1>6 DEF Taken
<1>9. /\ Len(h) \in Nat /\ n \in 1..Len(h) /\ Len(positions) < Len(Matchers[m].patterns)
      /\ Len(positions) + 1 = p
  BY <1>3, <1>4
<1>10. Matches(Matchers[m].patterns[Len(positions) + 1], h[n])
  BY <1>7, <1>9
<1>11. DataOf(m, h, Append(positions, n))
         = ApplyCaptures(DataOf(m, h, positions), Matchers[m].patterns[Len(positions) + 1], h[n])
  BY <1>8, <1>9, <1>10, DataOfAppend
<1> QED  BY <1>2, <1>5, <1>9, <1>11 DEF LineAdded, positions

(* Unless a match was dropped, the attempt starts where the reference says *)
(* the line's match does.                                                  *)
LEMMA StartNow ==
  ASSUME IInv, LineIsLast, AllTracked, phase = "observing", matcher \in DOMAIN Matchers,
         Key \notin dropped,
         NEW h, h = Shown(Source), NEW n, n = line.number
  PROVE  Starts(matcher, h)[n] = IF InPlace(matcher, h, Attempt.start_line, n)
                                 THEN Attempt.start_line ELSE 0
PROOF
<1> DEFINE f == Starts(matcher, h)
           before == f[n - 1]
           last == Len(Matchers[matcher].patterns)
<1>1. /\ h \in Seq(LogLines) /\ n = Len(h) /\ n \in Nat \ {0} /\ line.text = h[n]
      /\ Seen(Key) = n - 1
      /\ Attempted(matcher, h, n, Attempt.start_line, Attempt.next_pattern, Attempt.data)
  BY AttemptRuns
<1>2. /\ Key \in Keys /\ <<Key[1], Key[2]>> = Source /\ Key[3] = matcher /\ Key[1] \in open
      /\ last \in Nat \ {0}
  <2>1. Key[3] = matcher /\ <<Key[1], Key[2]>> = Source
    BY DEF Key, Source
  <2> QED  BY <2>1, TurnProperties DEF PatternsNow
<1>3. Tracked(Key, h, n - 1)
  BY <1>1, <1>2 DEF AllTracked
<1>4. /\ Key \in DOMAIN states <=> GoesOn(matcher, h, n - 1)
      /\ Key \in DOMAIN states => states[Key].start_line = before
      /\ Key \in DOMAIN states => Running(matcher, h, n - 1, states[Key])
  BY <1>2, <1>3 DEF Tracked
<1>5. IsStarts(f, matcher, h)
  BY <1>1, StartsProperties
<1>6. before \in Nat /\ f[n] = NextStart(matcher, h, n, before)
  <2>1. n \in 1..Len(h) /\ n - 1 \in 0..Len(h)
    BY <1>1
  <2> QED  BY <1>5, <2>1 DEF IsStarts
<1>7. GoesOn(matcher, h, n - 1) <=> before # 0 /\ (n - before + 1 <= last \/ Loops(matcher))
  <2>1. (n - 1) - before + 2 = n - before + 1
    BY <1>1, <1>6
  <2> QED  BY <2>1 DEF GoesOn
<1>8. f[n] = IF GoesOn(matcher, h, n - 1) /\ InPlace(matcher, h, before, n) THEN before
             ELSE IF InPlace(matcher, h, n, n) THEN n ELSE 0
  BY <1>6, <1>7 DEF NextStart
<1> HIDE DEF f, before
<1>9. CASE Continues
  <2>1. Key \in DOMAIN states /\ Attempt = states[Key] /\ Matches(PatternNow, line.text)
    BY <1>9, TurnProperties
  <2>2. InPlace(matcher, h, Attempt.start_line, n)
    BY <1>1, <2>1, PatternNowPlaced
  <2> QED  BY <1>4, <1>8, <2>1, <2>2 DEF f
<1>10. CASE ~Continues
  <2>1. Attempt.start_line = n
    BY <1>10 DEF Attempt
  <2>2. ~(GoesOn(matcher, h, n - 1) /\ InPlace(matcher, h, before, n))
    <3> SUFFICES ASSUME Key \in DOMAIN states
                 PROVE  ~InPlace(matcher, h, before, n)
      BY <1>4
    <3>1. ~Matches(PatternsNow[states[Key].next_pattern], h[n])
      BY <1>1, <1>10 DEF Continues
    <3>2. states[Key].start_line = before /\ Running(matcher, h, n - 1, states[Key])
      BY <1>4
    <3>3. /\ 1 <= before /\ before <= n - 1
          /\ states[Key].next_pattern
               = IF (n - 1) - before + 1 < last THEN (n - 1) - before + 1 + 1 ELSE last
      BY <3>2 DEF Running
    <3>4. states[Key].next_pattern = IF n - before + 1 < last THEN n - before + 1 ELSE last
      <4> HIDE DEF last
      <4> QED  BY <1>1, <1>2, <1>6, <3>3
    <3> QED  BY <3>1, <3>4 DEF InPlace, PatternAt, PatternsNow
  <2> QED  BY <1>8, <2>1, <2>2 DEF f
<1> QED  BY <1>9, <1>10

----------------------------------------------------------------------------
(* The problems expected, and those reported *)

(* Line n ends a match that is reported. *)
EndsHere(m, h, n) ==
  LET start == Starts(m, h)[n]
  IN  /\ start # 0
      /\ n - start + 1 >= Len(Matchers[m].patterns)
      /\ RunReported(m, h, start, n)

LEMMA ExpectedNow ==
  ASSUME NEW m, NEW h, NEW source, NEW n \in Nat \ {0}
  PROVE  /\ ~EndsHere(m, h, n) =>
              ExpectedProblems(m, h, source, n) = ExpectedProblems(m, h, source, n - 1)
         /\ EndsHere(m, h, n) =>
              ExpectedProblems(m, h, source, n)
                = ExpectedProblems(m, h, source, n - 1)
                    \cup {RunProblem(m, h, source, Starts(m, h)[n], n)}
PROOF
<1> DEFINE f == Starts(m, h)
           before == ExpectedEnds(m, h, n - 1)
           now == ExpectedEnds(m, h, n)
<1>1. \A k \in 1..n : k \in 1..n - 1 \/ k = n
  OBVIOUS
<1>2. n \in 1..n /\ n \notin 1..n - 1 /\ 1..n - 1 \subseteq 1..n
  OBVIOUS
<1>3. /\ before = {k \in 1..n - 1 : EndsHere(m, h, k)}
      /\ now = {k \in 1..n : EndsHere(m, h, k)}
  BY DEF ExpectedEnds, EndsHere
<1>4. /\ EndsHere(m, h, n) => now = before \cup {n}
      /\ ~EndsHere(m, h, n) => now = before
  BY <1>1, <1>2, <1>3
<1>5. /\ ExpectedProblems(m, h, source, n - 1) = {RunProblem(m, h, source, f[k], k) : k \in before}
      /\ ExpectedProblems(m, h, source, n) = {RunProblem(m, h, source, f[k], k) : k \in now}
  BY DEF ExpectedProblems
<1> HIDE DEF f, before, now
<1>6. CASE EndsHere(m, h, n)
  <2>1. now = before \cup {n}
    BY <1>4, <1>6
  <2> QED  BY <1>5, <1>6, <2>1 DEF f
<1>7. CASE ~EndsHere(m, h, n)
  BY <1>4, <1>5, <1>7
<1> QED  BY <1>6, <1>7

LEMMA ReportedSame ==
  ASSUME NEW m, NEW h, NEW source, NEW n \in Nat \ {0}, NEW problems,
         Reported(m, h, source, n - 1, problems), ~EndsHere(m, h, n)
  PROVE  Reported(m, h, source, n, problems)
  BY ExpectedNow DEF Reported

LEMMA EmittedByAppend ==
  ASSUME NEW m, NEW T, NEW problems \in Seq(T), NEW problem \in T
  PROVE  /\ Append(problems, problem) \in Seq(T)
         /\ DOMAIN Append(problems, problem) = 1..Len(problems) + 1
         /\ DOMAIN problems = 1..Len(problems) /\ Len(problems) \in Nat
         /\ Append(problems, problem)[Len(problems) + 1] = problem
         /\ \A i \in 1..Len(problems) : Append(problems, problem)[i] = problems[i]
         /\ problem.matcher = m =>
              EmittedBy(m, Append(problems, problem))
                = EmittedBy(m, problems) \cup {Len(problems) + 1}
         /\ problem.matcher # m =>
              EmittedBy(m, Append(problems, problem)) = EmittedBy(m, problems)
PROOF
<1> DEFINE longer == Append(problems, problem)
           k == Len(problems)
<1>1. /\ longer \in Seq(T) /\ DOMAIN longer = 1..k + 1 /\ DOMAIN problems = 1..k /\ k \in Nat
      /\ longer[k + 1] = problem /\ \A i \in 1..k : longer[i] = problems[i]
  OBVIOUS
<1> HIDE DEF longer, k
<1>2. \A i : i \in 1..k + 1 <=> i \in 1..k \/ i = k + 1
  BY <1>1
<1>3. EmittedBy(m, longer) = {i \in 1..k + 1 : longer[i].matcher = m}
  BY <1>1 DEF EmittedBy
<1>4. EmittedBy(m, problems) = {i \in 1..k : problems[i].matcher = m}
  BY <1>1 DEF EmittedBy
<1>5. problem.matcher = m => EmittedBy(m, longer) = EmittedBy(m, problems) \cup {k + 1}
  BY <1>1, <1>2, <1>3, <1>4
<1>6. problem.matcher # m => EmittedBy(m, longer) = EmittedBy(m, problems)
  BY <1>1, <1>2, <1>3, <1>4
<1> QED  BY <1>1, <1>5, <1>6 DEF longer, k

LEMMA ReportedOther ==
  ASSUME NEW m, NEW h, NEW source, NEW e, NEW T, NEW problems \in Seq(T), NEW problem \in T,
         Reported(m, h, source, e, problems), problem.matcher # m
  PROVE  Reported(m, h, source, e, Append(problems, problem))
PROOF
<1> DEFINE longer == Append(problems, problem)
           mine == EmittedBy(m, problems)
<1>1. EmittedBy(m, longer) = mine
  BY EmittedByAppend
<1>2. \A i \in mine : longer[i] = problems[i]
  BY EmittedByAppend DEF EmittedBy
<1> HIDE DEF longer
<1>3. {longer[i] : i \in mine} = {problems[i] : i \in mine}
  BY <1>2
<1>4. \A i, j \in mine : i < j => longer[i].end < longer[j].end
  BY <1>2 DEF Reported
<1> HIDE DEF mine
<1> QED  BY <1>1, <1>3, <1>4 DEF Reported, longer, mine

LEMMA ReportedMore ==
  ASSUME NEW m, NEW h, NEW source, NEW n \in Nat \ {0}, NEW T, NEW problems \in Seq(T),
         Reported(m, h, source, n - 1, problems), EndsHere(m, h, n),
         NEW problem \in T, problem = RunProblem(m, h, source, Starts(m, h)[n], n)
  PROVE  Reported(m, h, source, n, Append(problems, problem))
PROOF
<1> DEFINE longer == Append(problems, problem)
           mine == EmittedBy(m, problems)
           k == Len(problems)
<1>1. \A start, end : /\ RunProblem(m, h, source, start, end).end = end
                      /\ RunProblem(m, h, source, start, end).matcher = m
  BY DEF RunProblem, Problem
<1>2. problem.end = n /\ problem.matcher = m
  BY <1>1
<1>3. /\ EmittedBy(m, longer) = mine \cup {k + 1} /\ k \in Nat /\ longer[k + 1] = problem
      /\ \A i \in mine : i \in 1..k /\ longer[i] = problems[i]
  <2>1. mine \subseteq 1..k
    BY EmittedByAppend DEF EmittedBy
  <2> QED  BY <1>2, <2>1, EmittedByAppend
<1>4. {problems[i] : i \in mine} = ExpectedProblems(m, h, source, n - 1)
  BY DEF Reported
<1>5. \A i, j \in mine : i < j => problems[i].end < problems[j].end
  BY DEF Reported
<1>6. \A i \in mine : problems[i].end \in Nat /\ problems[i].end < n
  <2> SUFFICES ASSUME NEW i \in mine
               PROVE  problems[i].end \in Nat /\ problems[i].end < n
    OBVIOUS
  <2>1. problems[i] \in ExpectedProblems(m, h, source, n - 1)
    BY <1>4
  <2>2. PICK e \in ExpectedEnds(m, h, n - 1) :
          problems[i] = RunProblem(m, h, source, Starts(m, h)[e], e)
    BY <2>1 DEF ExpectedProblems
  <2>3. e \in 1..n - 1
    BY DEF ExpectedEnds
  <2> QED  BY <1>1, <2>2, <2>3
<1> HIDE DEF longer, mine, k
<1>7. {longer[i] : i \in mine \cup {k + 1}} = {problems[i] : i \in mine} \cup {problem}
  BY <1>3
<1>8. ASSUME NEW i \in mine \cup {k + 1}, NEW j \in mine \cup {k + 1}, i < j
      PROVE  longer[i].end < longer[j].end
  <2>1. i \in mine
    BY <1>3, <1>8
  <2>2. CASE j \in mine
    BY <1>3, <1>5, <1>8, <2>1, <2>2
  <2>3. CASE j = k + 1
    BY <1>2, <1>3, <1>6, <2>1, <2>3
  <2> QED  BY <2>2, <2>3
<1>9. ExpectedProblems(m, h, source, n) = ExpectedProblems(m, h, source, n - 1) \cup {problem}
  BY ExpectedNow
<1>10. Reported(m, h, source, n, longer)
  BY <1>3, <1>4, <1>7, <1>8, <1>9 DEF Reported
<1> QED  BY <1>10 DEF longer

----------------------------------------------------------------------------
(* What the line makes of the attempt *)

LEMMA CompleteRuns ==
  ASSUME NEW m \in DOMAIN Matchers, NEW h, NEW n \in Nat \ {0}, n = Len(h),
         NEW s, NEW p, NEW data, Attempted(m, h, n, s, p, data), InPlace(m, h, s, n),
         p = Len(Matchers[m].patterns)
  PROVE  /\ IsRun(m, h, s, n) /\ s \in Nat \ {0}
         /\ n - s + 1 >= Len(Matchers[m].patterns)
         /\ ApplyCaptures(data, Matchers[m].patterns[p], h[n])
              = DataOf(m, h, RunPositions(m, s, n))
PROOF
<1> DEFINE last == Len(Matchers[m].patterns)
<1>1. last \in Nat \ {0}
  BY MatcherTypes
<1>2. /\ s \in 1..n
      /\ p = IF n - s + 1 < last THEN n - s + 1 ELSE last
      /\ n - s >= last => Loops(m)
  BY DEF Attempted
<1>3. s \in Nat \ {0} /\ n - s + 1 >= last /\ s <= n /\ (n - s + 1 > last => n - s >= last)
  BY <1>1, <1>2
<1>4. /\ \A i \in s..n : InPlace(m, h, s, i)
      /\ ApplyCaptures(data, Matchers[m].patterns[p], h[n])
           = DataOf(m, h, Append(Consecutive(s, p - 1), n))
  <2>1. LineAdded(m, h, n, s, p, data)
    BY DataNow
  <2> QED  BY <2>1 DEF LineAdded
<1>5. RunPositions(m, s, n) = Append(Consecutive(s, p - 1), n)
  BY <1>3, RunPositionsProperties
<1>6. n <= Len(h) /\ 1 <= s
  BY <1>3
<1>7. IsRun(m, h, s, n)
  BY <1>2, <1>3, <1>4, <1>6 DEF IsRun
<1> QED  BY <1>3, <1>4, <1>5, <1>7

(* A loop waits for more lines with what it had before its last pattern. *)
LEMMA LoopRuns ==
  ASSUME NEW m \in DOMAIN Matchers, NEW h, NEW n \in Nat \ {0}, n = Len(h),
         NEW state, Attempted(m, h, n, state.start_line, state.next_pattern, state.data),
         InPlace(m, h, state.start_line, n),
         state.next_pattern = Len(Matchers[m].patterns), Loops(m)
  PROVE  Running(m, h, n, state)
PROOF
<1> DEFINE last == Len(Matchers[m].patterns)
           s == state.start_line
           p == state.next_pattern
<1>1. last \in Nat \ {0}
  BY MatcherTypes
<1>2. /\ s \in 1..n
      /\ p = IF n - s + 1 < last THEN n - s + 1 ELSE last
      /\ state.data = DataOf(m, h, Consecutive(s, p - 1))
  BY DEF Attempted
<1>3. \A i \in s..n : InPlace(m, h, s, i)
  <2>1. LineAdded(m, h, n, s, p, state.data)
    BY DataNow
  <2> QED  BY <2>1 DEF LineAdded
<1>4. n - s + 1 >= last /\ 1 <= s /\ s <= n /\ n <= Len(h) /\ ~(n - s + 1 < last)
  BY <1>1, <1>2
<1> QED  BY <1>2, <1>3, <1>4 DEF Running

LEMMA AdvanceRuns ==
  ASSUME NEW m \in DOMAIN Matchers, NEW h, NEW n \in Nat \ {0}, n = Len(h),
         NEW s, NEW p, NEW data, Attempted(m, h, n, s, p, data), InPlace(m, h, s, n),
         p # Len(Matchers[m].patterns), NEW state,
         state.start_line = s, state.next_pattern = p + 1,
         state.data = ApplyCaptures(data, Matchers[m].patterns[p], h[n])
  PROVE  Running(m, h, n, state) /\ n - s + 2 <= Len(Matchers[m].patterns)
PROOF
<1> DEFINE last == Len(Matchers[m].patterns)
<1>1. last \in Nat \ {0}
  BY MatcherTypes
<1>2. /\ s \in 1..n
      /\ p = IF n - s + 1 < last THEN n - s + 1 ELSE last
  BY DEF Attempted
<1>3. /\ p = n - s + 1 /\ n - s + 1 < last /\ s \in Nat \ {0} /\ p - 1 \in Nat
      /\ s + (p - 1) = n /\ (p - 1) + 1 = p /\ (p + 1) - 1 = p
      /\ 1 <= s /\ s <= n /\ n <= Len(h) /\ ~(n - s + 1 >= last) /\ n - s + 2 <= last
  <2>1. p # last
    OBVIOUS
  <2> HIDE DEF last
  <2>2. n - s + 1 < last /\ p = n - s + 1
    BY <1>1, <1>2, <2>1
  <2>3. s \in Nat \ {0} /\ 1 <= s /\ s <= n
    BY <1>2
  <2> QED  BY <1>1, <2>2, <2>3
<1>4. /\ \A i \in s..n : InPlace(m, h, s, i)
      /\ state.data = DataOf(m, h, Append(Consecutive(s, p - 1), n))
  <2>1. LineAdded(m, h, n, s, p, data)
    BY DataNow
  <2> QED  BY <2>1 DEF LineAdded
<1>5. Append(Consecutive(s, p - 1), n) = Consecutive(s, p)
  <2> DEFINE k == p - 1
  <2>1. s \in Nat \ {0} /\ k \in Nat /\ s + k = n /\ k + 1 = p
    BY <1>3
  <2> HIDE DEF k
  <2>2. Append(Consecutive(s, k), s + k) = Consecutive(s, k + 1)
    BY <2>1, ConsecutiveProperties
  <2> QED  BY <2>1, <2>2 DEF k
<1> QED  BY <1>3, <1>4, <1>5 DEF Running

----------------------------------------------------------------------------
(* The turn of a matcher *)

(* What its turn makes of its own key, and what of the others. *)
OwnTracked(key, h, n) ==
  /\ key \in DOMAIN states' => Running(key[3], h, n, states'[key])
  /\ key \notin dropped' =>
       /\ key \in DOMAIN states' <=> GoesOn(key[3], h, n)
       /\ key \in DOMAIN states' => states'[key].start_line = Starts(key[3], h)[n]
       /\ Reported(key[3], h, <<key[1], key[2]>>, n, emitted'[<<key[1], key[2]>>])

EmitsRun(m, h, source, n) ==
  \E s \in Nat :
    /\ IsRun(m, h, s, n)
    /\ RunProblem(m, h, source, s, n) \in ProblemType
    /\ emitted' = [emitted EXCEPT ![source] = Append(@, RunProblem(m, h, source, s, n))]

OthersKept(key, h, n) ==
  /\ DOMAIN states' \ {key} = DOMAIN states \ {key}
  /\ \A other \in DOMAIN states \ {key} : states'[other] = states[other]
  /\ dropped \subseteq dropped' /\ dropped' \subseteq dropped \cup {key}
  /\ emitted' = emitted \/ EmitsRun(key[3], h, <<key[1], key[2]>>, n)

(* The state of things at the start of the turn *)
AtTurn(key, h, n) ==
  /\ IInv /\ RunsInv /\ phase = "observing" /\ matcher \in DOMAIN Matchers
  /\ key = Key /\ h = Shown(Source) /\ n = line.number

LEMMA AtTurnProperties ==
  ASSUME NEW key, NEW h, NEW n, AtTurn(key, h, n)
  PROVE  /\ key \in Keys /\ key[3] = matcher /\ <<key[1], key[2]>> = Source /\ Source \in Sources
         /\ key[1] \in open /\ key[3] \in DOMAIN Matchers
         /\ h \in Seq(LogLines) /\ n = Len(h) /\ n \in Nat \ {0} /\ line.text = h[n]
         /\ Attempted(matcher, h, n, Attempt.start_line, Attempt.next_pattern, Attempt.data)
         /\ Matches(PatternNow, line.text) <=> InPlace(matcher, h, Attempt.start_line, n)
         /\ Tracked(key, h, n - 1)
         /\ PatternsNow = Matchers[matcher].patterns
         /\ Data = ApplyCaptures(Attempt.data, Matchers[matcher].patterns[Attempt.next_pattern], h[n])
         /\ Len(PatternsNow) \in Nat \ {0} /\ Attempt.start_line \in Nat
PROOF
<1>1. IInv /\ LineIsLast /\ AllTracked /\ phase = "observing" /\ matcher \in DOMAIN Matchers
  BY DEF AtTurn, RunsInv
<1>2. key = Key /\ h = Shown(Source) /\ n = line.number
  BY DEF AtTurn
<1>3. /\ key \in Keys /\ key[3] = matcher /\ <<key[1], key[2]>> = Source /\ Source \in Sources
      /\ key[1] \in open /\ Len(PatternsNow) \in Nat \ {0}
  <2>1. Key[3] = matcher /\ <<Key[1], Key[2]>> = Source
    BY DEF Key, Source
  <2> QED  BY <1>1, <1>2, <2>1, TurnProperties
<1>4. /\ h \in Seq(LogLines) /\ n = Len(h) /\ n \in Nat \ {0} /\ line.text = h[n]
      /\ Seen(key) = n - 1
      /\ Attempted(matcher, h, n, Attempt.start_line, Attempt.next_pattern, Attempt.data)
  BY <1>1, <1>2, AttemptRuns
<1>5. Matches(PatternNow, line.text) <=> InPlace(matcher, h, Attempt.start_line, n)
  BY <1>4, PatternNowPlaced
<1>6. Tracked(key, h, n - 1)
  BY <1>1, <1>2, <1>3, <1>4 DEF AllTracked
<1>7. Attempt.start_line \in Nat
  BY <1>1, TurnProperties DEF StateType
<1> QED
  BY <1>1, <1>3, <1>4, <1>5, <1>6, <1>7 DEF PatternsNow, Data, PatternNow

LEMMA RemovedKeeps ==
  ASSUME IInv, NEW key, key = Key, states' = Others
  PROVE  /\ key \notin DOMAIN states'
         /\ DOMAIN states' \ {key} = DOMAIN states \ {key}
         /\ \A other \in DOMAIN states \ {key} : states'[other] = states[other]
  BY OthersProperties

LEMMA InsertedKeeps ==
  ASSUME IInv, NEW key, key = Key, NEW state, states' = Inserted(Others, state)
  PROVE  /\ key \in DOMAIN states' /\ states'[key] = state
         /\ DOMAIN states' \ {key} = DOMAIN states \ {key}
         /\ \A other \in DOMAIN states \ {key} : states'[other] = states[other]
PROOF
<1>1. /\ DOMAIN Others = DOMAIN states \ {Key} /\ IsFiniteSet(DOMAIN Others)
      /\ \A other \in DOMAIN Others : Others[other] = states[other]
  BY OthersProperties
<1>2. Key \notin DOMAIN Others
  BY <1>1
<1> DEFINE longer == Inserted(Others, state)
<1>3. /\ DOMAIN longer = DOMAIN Others \cup {Key} /\ longer[Key] = state
      /\ \A other \in DOMAIN Others : longer[other] = Others[other]
  <2>1. IsFiniteSet(DOMAIN Others)
    BY <1>1
  <2> QED  BY <1>2, <2>1, InsertProperties
<1>4. states' = longer
  OBVIOUS
<1> HIDE DEF longer
<1> QED  BY <1>1, <1>3, <1>4

LEMMA NoMatchTracks ==
  ASSUME NEW key, NEW h, NEW n, AtTurn(key, h, n), NoMatch
  PROVE  OwnTracked(key, h, n) /\ OthersKept(key, h, n)
PROOF
<1>1. /\ ~Matches(PatternNow, line.text) /\ states' = Others
      /\ emitted' = emitted /\ dropped' = dropped
  BY DEF NoMatch
<1>2. /\ key \notin DOMAIN states'
      /\ DOMAIN states' \ {key} = DOMAIN states \ {key}
      /\ \A other \in DOMAIN states \ {key} : states'[other] = states[other]
  BY <1>1, RemovedKeeps DEF AtTurn
<1>3. OthersKept(key, h, n)
  BY <1>1, <1>2 DEF OthersKept
<1>4. ASSUME key \notin dropped
      PROVE  ~GoesOn(key[3], h, n) /\ Reported(key[3], h, <<key[1], key[2]>>, n, emitted[<<key[1], key[2]>>])
  <2>1. Starts(matcher, h)[n] = 0
    <3>1. ~InPlace(matcher, h, Attempt.start_line, n)
      BY <1>1, AtTurnProperties
    <3> QED  BY <1>4, <3>1, StartNow DEF AtTurn, RunsInv
  <2>2. ~GoesOn(matcher, h, n) /\ ~EndsHere(matcher, h, n)
    BY <2>1 DEF GoesOn, EndsHere
  <2>3. Reported(key[3], h, <<key[1], key[2]>>, n - 1, emitted[<<key[1], key[2]>>])
    BY <1>4, AtTurnProperties DEF Tracked
  <2>4. key[3] = matcher /\ n \in Nat \ {0}
    BY AtTurnProperties
  <2> QED  BY <2>2, <2>3, <2>4, ReportedSame
<1> QED  BY <1>1, <1>2, <1>3, <1>4 DEF OwnTracked

(* A partial match that does not fit is dropped, and the reference is not  *)
(* followed any more.                                                      *)
LEMMA DropTracks ==
  ASSUME NEW key, NEW h, NEW n, AtTurn(key, h, n), states' = Others, Drop
  PROVE  OwnTracked(key, h, n) /\ OthersKept(key, h, n)
PROOF
<1>1. key = Key /\ IInv
  BY DEF AtTurn
<1>2. /\ key \notin DOMAIN states'
      /\ DOMAIN states' \ {key} = DOMAIN states \ {key}
      /\ \A other \in DOMAIN states \ {key} : states'[other] = states[other]
  BY <1>1, RemovedKeeps
<1>3. dropped' = dropped \cup {key} /\ emitted' = emitted
  BY <1>1 DEF Drop
<1> QED  BY <1>2, <1>3 DEF OwnTracked, OthersKept

LEMMA AdvanceTracks ==
  ASSUME NEW key, NEW h, NEW n, AtTurn(key, h, n),
         Matches(PatternNow, line.text), ~IsLast,
         NEW state, state.start_line = Attempt.start_line,
         state.next_pattern = Attempt.next_pattern + 1, state.data = Data,
         states' = Inserted(Others, state), emitted' = emitted, dropped' = dropped
  PROVE  OwnTracked(key, h, n) /\ OthersKept(key, h, n)
PROOF
<1> DEFINE s == Attempt.start_line
           p == Attempt.next_pattern
<1>1. key = Key /\ IInv
  BY DEF AtTurn
<1>2. /\ key \in DOMAIN states' /\ states'[key] = state
      /\ DOMAIN states' \ {key} = DOMAIN states \ {key}
      /\ \A other \in DOMAIN states \ {key} : states'[other] = states[other]
  BY <1>1, InsertedKeeps
<1>3. OthersKept(key, h, n)
  BY <1>2 DEF OthersKept
<1>4. /\ key[3] = matcher /\ key[3] \in DOMAIN Matchers /\ n = Len(h) /\ n \in Nat \ {0}
      /\ Attempted(matcher, h, n, s, p, Attempt.data)
      /\ InPlace(matcher, h, s, n)
      /\ Data = ApplyCaptures(Attempt.data, Matchers[matcher].patterns[p], h[n])
      /\ PatternsNow = Matchers[matcher].patterns
  BY AtTurnProperties
<1>5. p # Len(Matchers[matcher].patterns)
  BY <1>4 DEF IsLast
<1>6. Running(matcher, h, n, state) /\ n - s + 2 <= Len(Matchers[matcher].patterns)
  <2>1. /\ state.start_line = s /\ state.next_pattern = p + 1
        /\ state.data = ApplyCaptures(Attempt.data, Matchers[matcher].patterns[p], h[n])
    BY <1>4
  <2> DEFINE data == Attempt.data
  <2> HIDE DEF s, p, data
  <2> QED  BY <1>4, <1>5, <2>1, AdvanceRuns DEF data
<1>7. ASSUME key \notin dropped
      PROVE  /\ GoesOn(matcher, h, n) /\ Starts(matcher, h)[n] = s
             /\ Reported(matcher, h, <<key[1], key[2]>>, n, emitted[<<key[1], key[2]>>])
  <2>1. Starts(matcher, h)[n] = s
    BY <1>1, <1>4, <1>7, StartNow DEF AtTurn, RunsInv
  <2>2. s \in 1..n
    BY <1>4 DEF Attempted
  <2>3. s # 0 /\ ~(n - s + 1 >= Len(Matchers[matcher].patterns))
    <3>1. Len(Matchers[matcher].patterns) \in Nat
      BY <1>4, MatcherTypes
    <3> HIDE DEF s
    <3> QED  BY <1>4, <1>6, <2>2, <3>1
  <2>4. GoesOn(matcher, h, n) /\ ~EndsHere(matcher, h, n)
    BY <1>6, <2>1, <2>3 DEF GoesOn, EndsHere
  <2>5. Reported(matcher, h, <<key[1], key[2]>>, n - 1, emitted[<<key[1], key[2]>>])
    BY <1>4, <1>7, AtTurnProperties DEF Tracked
  <2> QED  BY <1>4, <2>1, <2>4, <2>5, ReportedSame
<1> HIDE DEF s, p
<1>8. OwnTracked(key, h, n)
  <2>1. key \in DOMAIN states' => Running(key[3], h, n, states'[key])
    BY <1>2, <1>4, <1>6
  <2>2. state.start_line = s
    BY DEF s
  <2>3. key \notin dropped' =>
          /\ key \in DOMAIN states' <=> GoesOn(key[3], h, n)
          /\ key \in DOMAIN states' => states'[key].start_line = Starts(key[3], h)[n]
          /\ Reported(key[3], h, <<key[1], key[2]>>, n, emitted'[<<key[1], key[2]>>])
    BY <1>2, <1>4, <1>7, <2>2
  <2> QED  BY <2>1, <2>3 DEF OwnTracked
<1> QED  BY <1>3, <1>8

LEMMA ContinueTracks ==
  ASSUME NEW key, NEW h, NEW n, AtTurn(key, h, n), ContinueMatch
  PROVE  OwnTracked(key, h, n) /\ OthersKept(key, h, n)
PROOF
<1> DEFINE advanced == [states[Key] EXCEPT !.next_pattern = @ + 1, !.data = Data]
<1>1. /\ Continues /\ ~IsLast
      /\ \/ states' = Inserted(Others, advanced) /\ UNCHANGED <<emitted, dropped>>
         \/ states' = Others /\ Drop
  BY DEF ContinueMatch
<1>2. /\ Key \in DOMAIN states /\ Attempt = states[Key] /\ Matches(PatternNow, line.text)
      /\ Attempt \in StateType
  BY <1>1, TurnProperties DEF AtTurn
<1>3. /\ advanced.start_line = Attempt.start_line
      /\ advanced.next_pattern = Attempt.next_pattern + 1 /\ advanced.data = Data
  <2> DEFINE waiting == states[Key]
  <2>1. waiting \in StateType /\ Attempt = waiting
    BY <1>2
  <2>2. advanced = [waiting EXCEPT !.next_pattern = @ + 1, !.data = Data]
    OBVIOUS
  <2> HIDE DEF waiting, advanced
  <2> QED  BY <2>1, <2>2 DEF StateType
<1> HIDE DEF advanced
<1>4. CASE states' = Inserted(Others, advanced) /\ UNCHANGED <<emitted, dropped>>
  BY <1>1, <1>2, <1>3, <1>4, AdvanceTracks
<1>5. CASE states' = Others /\ Drop
  BY <1>5, DropTracks
<1> QED  BY <1>1, <1>4, <1>5

LEMMA StartTracks ==
  ASSUME NEW key, NEW h, NEW n, AtTurn(key, h, n), StartMatch
  PROVE  OwnTracked(key, h, n) /\ OthersKept(key, h, n)
PROOF
<1> DEFINE started == [next_pattern |-> 2, data |-> Data, start_line |-> line.number]
<1>1. /\ ~Continues /\ Matches(PatternNow, line.text) /\ ~IsLast
      /\ \/ states' = Inserted(Others, started) /\ UNCHANGED <<emitted, dropped>>
         \/ states' = Others /\ Drop
  BY DEF StartMatch
<1>2. /\ started.start_line = Attempt.start_line
      /\ started.next_pattern = Attempt.next_pattern + 1 /\ started.data = Data
  BY <1>1 DEF Attempt
<1> HIDE DEF started
<1>3. CASE states' = Inserted(Others, started) /\ UNCHANGED <<emitted, dropped>>
  BY <1>1, <1>2, <1>3, AdvanceTracks
<1>4. CASE states' = Others /\ Drop
  BY <1>4, DropTracks
<1> QED  BY <1>1, <1>3, <1>4

LEMMA CompleteTracks ==
  ASSUME NEW key, NEW h, NEW n, AtTurn(key, h, n), CompleteMatch
  PROVE  OwnTracked(key, h, n) /\ OthersKept(key, h, n)
PROOF
<1> DEFINE s == Attempt.start_line
           p == Attempt.next_pattern
           m == matcher
           last == Len(Matchers[matcher].patterns)
           source == <<key[1], key[2]>>
           problem == RunProblem(m, h, source, s, n)
<1>1. key = Key /\ IInv /\ phase = "observing" /\ n = line.number
  BY DEF AtTurn
<1>2. /\ Matches(PatternNow, line.text) /\ IsLast /\ EmitProblem(Data)
      /\ \/ Continues /\ PatternNow.loop /\ states' = states
         \/ ~(Continues /\ PatternNow.loop) /\ states' = Others
  BY DEF CompleteMatch, Looped
<1>3. /\ key \in Keys /\ key[3] = m /\ m \in DOMAIN Matchers /\ source = Source /\ source \in Sources
      /\ h \in Seq(LogLines) /\ n = Len(h) /\ n \in Nat \ {0}
      /\ Attempted(m, h, n, s, p, Attempt.data)
      /\ InPlace(m, h, s, n)
      /\ PatternsNow = Matchers[m].patterns
      /\ last \in Nat \ {0}
  BY <1>2, AtTurnProperties
<1>4. Data = ApplyCaptures(Attempt.data, Matchers[m].patterns[p], h[n]) /\ Tracked(key, h, n - 1)
  BY AtTurnProperties
<1>5. p = last
  BY <1>2, <1>3 DEF IsLast
<1>6. /\ IsRun(m, h, s, n) /\ s \in Nat \ {0} /\ n - s + 1 >= last
      /\ Data = DataOf(m, h, RunPositions(m, s, n))
  <2> DEFINE data == Attempt.data
  <2> HIDE DEF s, p, data
  <2> QED  BY <1>3, <1>4, <1>5, CompleteRuns DEF data
<1>7. /\ RunReported(m, h, s, n) <=> IsReported(m, Data)
      /\ problem = Problem(m, Data, source, s, n)
  BY <1>6 DEF RunReported, RunProblem
(* The partial match *)
<1>8. Loops(m) <=> Continues /\ PatternNow.loop
  <2>1. PatternNow.loop <=> Loops(m)
    BY <1>3, <1>5 DEF PatternNow, Loops
  <2>2. ASSUME Loops(m), ~Continues
        PROVE  FALSE
    <3>1. last = 1
      BY <1>5, <2>2 DEF Attempt
    <3>2. LoopsLast(Matchers[m].patterns)
      BY <1>3, MatcherTypes DEF WellFormed, ContractHolds
    <3>3. 1 \in DOMAIN Matchers[m].patterns
      <4>1. Matchers[m].patterns \in Seq(Patterns)
        BY <1>3, MatcherTypes DEF CompiledMatchers
      <4> QED  BY <3>1, <4>1
    <3> QED  BY <2>2, <3>1, <3>2, <3>3 DEF LoopsLast, Loops
  <2> QED  BY <2>1, <2>2
<1>9. /\ DOMAIN states' \ {key} = DOMAIN states \ {key}
      /\ \A other \in DOMAIN states \ {key} : states'[other] = states[other]
      /\ key \in DOMAIN states' <=> Loops(m)
      /\ key \in DOMAIN states' => states'[key] = Attempt
  <2>1. CASE Continues /\ PatternNow.loop /\ states' = states
    <3>1. Key \in DOMAIN states /\ Attempt = states[Key]
      BY <1>1, <1>3, <2>1, TurnProperties
    <3> QED  BY <1>1, <1>8, <2>1, <3>1
  <2>2. CASE ~(Continues /\ PatternNow.loop) /\ states' = Others
    BY <1>1, <1>8, <2>2, RemovedKeeps
  <2> QED  BY <1>2, <2>1, <2>2
<1>10. key \in DOMAIN states' => Running(m, h, n, states'[key])
  <2>1. Loops(m) => Running(m, h, n, Attempt)
    BY <1>3, <1>5, LoopRuns
  <2> QED  BY <1>9, <2>1
(* The reference *)
<1>11. ASSUME key \notin dropped
       PROVE  /\ Starts(m, h)[n] = s
              /\ GoesOn(m, h, n) <=> Loops(m)
              /\ EndsHere(m, h, n) <=> IsReported(m, Data)
              /\ Reported(m, h, source, n - 1, emitted[source])
  <2>1. Starts(m, h)[n] = s
    BY <1>1, <1>3, <1>11, StartNow DEF AtTurn, RunsInv
  <2>2. s # 0 /\ ~(n - s + 2 <= last)
    <3> HIDE DEF s
    <3> QED  BY <1>3, <1>6
  <2>3. GoesOn(m, h, n) <=> Loops(m)
    BY <2>1, <2>2 DEF GoesOn
  <2>4. EndsHere(m, h, n) <=> IsReported(m, Data)
    BY <1>6, <1>7, <2>1, <2>2 DEF EndsHere
  <2>5. Reported(m, h, source, n - 1, emitted[source])
    BY <1>3, <1>4, <1>11 DEF Tracked
  <2> QED  BY <2>1, <2>3, <2>4, <2>5
(* The problem *)
<1>12. \/ Drop
       \/ dropped' = dropped /\ ~IsReported(m, Data) /\ emitted' = emitted
       \/ /\ dropped' = dropped /\ IsReported(m, Data)
          /\ emitted' = [emitted EXCEPT ![source] = Append(@, problem)]
  BY <1>1, <1>2, <1>3, <1>7 DEF EmitProblem
<1> HIDE DEF s, p, problem
<1>13. CASE Drop
  <2>1. dropped' = dropped \cup {key} /\ emitted' = emitted
    BY <1>1, <1>13 DEF Drop
  <2>2. OthersKept(key, h, n)
    BY <1>9, <2>1 DEF OthersKept
  <2>3. OwnTracked(key, h, n)
    BY <1>3, <1>10, <2>1 DEF OwnTracked
  <2> QED  BY <2>2, <2>3
<1>14. CASE dropped' = dropped /\ ~IsReported(m, Data) /\ emitted' = emitted
  <2>1. OthersKept(key, h, n)
    BY <1>9, <1>14 DEF OthersKept
  <2>2. ASSUME key \notin dropped
        PROVE  Reported(m, h, source, n, emitted[source])
    BY <1>3, <1>11, <1>14, <2>2, ReportedSame
  <2>3. OwnTracked(key, h, n)
    BY <1>3, <1>9, <1>10, <1>11, <1>14, <2>2 DEF OwnTracked, s
  <2> QED  BY <2>1, <2>3
<1>15. CASE /\ dropped' = dropped /\ IsReported(m, Data)
            /\ emitted' = [emitted EXCEPT ![source] = Append(@, problem)]
  <2>1. emitted \in [Sources -> Seq(ProblemType)]
    BY <1>1 DEF IInv, TypeOK
  <2>2. problem \in ProblemType
    <3>1. Data \in DataType /\ n \in Nat /\ s \in Nat
      BY <1>1, <1>2, <1>3, <1>6, TurnProperties
    <3>2. Problem(m, Data, source, s, n) \in ProblemType
      BY <1>3, <1>15, <3>1, ProblemTypes
    <3> QED  BY <1>7, <3>2
  <2>3. emitted'[source] = Append(emitted[source], problem)
    BY <1>3, <1>15, <2>1
  <2>4. EmitsRun(m, h, source, n)
    <3>1. s \in Nat
      BY <1>6
    <3> QED  BY <1>6, <1>15, <2>2, <3>1 DEF EmitsRun, problem
  <2>5. OthersKept(key, h, n)
    BY <1>3, <1>9, <1>15, <2>4 DEF OthersKept
  <2>6. ASSUME key \notin dropped
        PROVE  Reported(m, h, source, n, emitted'[source])
    <3>1. problem = RunProblem(m, h, source, Starts(m, h)[n], n)
      BY <1>11, <2>6 DEF problem
    <3>2. emitted[source] \in Seq(ProblemType) /\ EndsHere(m, h, n)
      BY <1>3, <1>11, <1>15, <2>1, <2>6
    <3> DEFINE problems == emitted[source]
    <3>3. Reported(m, h, source, n - 1, problems)
      BY <1>11, <2>6
    <3> HIDE DEF problems
    <3>4. Reported(m, h, source, n, Append(problems, problem))
      BY <1>3, <2>2, <3>1, <3>2, <3>3, ReportedMore DEF problems
    <3> QED  BY <2>3, <3>4 DEF problems
  <2>7. OwnTracked(key, h, n)
    BY <1>3, <1>9, <1>10, <1>11, <1>15, <2>6 DEF OwnTracked, s
  <2> QED  BY <2>5, <2>7
<1> QED  BY <1>12, <1>13, <1>14, <1>15

LEMMA RunMatcher ==
  ASSUME NEW m, NEW h, NEW source, NEW start, NEW end
  PROVE  /\ RunProblem(m, h, source, start, end).matcher = m
         /\ RunProblem(m, h, source, start, end).start = start
         /\ RunProblem(m, h, source, start, end).end = end
  BY DEF RunProblem, Problem

(* Problems that grew by a run of a matcher. *)
LEMMA AreRunsAppend ==
  ASSUME NEW source, NEW h, NEW problems \in Seq(ProblemType), AreRuns(source, h, problems),
         NEW problem \in ProblemType, NEW m, NEW s, NEW n,
         problem = RunProblem(m, h, source, s, n), IsRun(m, h, s, n)
  PROVE  AreRuns(source, h, Append(problems, problem))
PROOF
<1> DEFINE longer == Append(problems, problem)
           k == Len(problems)
<1>1. /\ DOMAIN longer = 1..k + 1 /\ DOMAIN problems = 1..k /\ k \in Nat
      /\ longer[k + 1] = problem /\ \A i \in 1..k : longer[i] = problems[i]
  BY EmittedByAppend
<1>2. problem.matcher = m /\ problem.start = s /\ problem.end = n
  BY RunMatcher
<1> HIDE DEF longer, k
<1>3. \A i \in 1..k + 1 : i \in 1..k \/ i = k + 1
  BY <1>1
<1>4. AreRuns(source, h, longer)
  <2> SUFFICES ASSUME NEW i \in DOMAIN longer
               PROVE  /\ IsRun(longer[i].matcher, h, longer[i].start, longer[i].end)
                      /\ longer[i] = RunProblem(longer[i].matcher, h, source, longer[i].start,
                                                longer[i].end)
    BY DEF AreRuns
  <2>1. CASE i \in 1..k
    <3>1. longer[i] = problems[i] /\ i \in DOMAIN problems
      BY <1>1, <2>1
    <3> QED  BY <3>1 DEF AreRuns
  <2>2. CASE i = k + 1
    BY <1>1, <1>2, <2>2
  <2> QED  BY <1>1, <1>3, <2>1, <2>2
<1> QED  BY <1>4 DEF longer

LEMMA TurnOfKey ==
  ASSUME IInv, RunsInv, NoMatch \/ CompleteMatch \/ ContinueMatch \/ StartMatch,
         NEW turn, turn = Key, NEW h, h = Shown(Source), NEW n, n = line.number
  PROVE  RunsInv'
PROOF
<1>1. /\ phase = "observing" /\ matcher \in DOMAIN Matchers /\ matcher' = matcher + 1
      /\ phase' = phase /\ open' = open /\ log' = log /\ line' = line
  BY DEF NoMatch, CompleteMatch, ContinueMatch, StartMatch, MatcherTurn
<1>2. AtTurn(turn, h, n)
  BY <1>1 DEF AtTurn
<1>3. OwnTracked(turn, h, n) /\ OthersKept(turn, h, n)
  BY <1>2, NoMatchTracks, CompleteTracks, ContinueTracks, StartTracks
<1>4. /\ turn \in Keys /\ turn[3] = matcher /\ <<turn[1], turn[2]>> = Source /\ Source \in Sources
      /\ h \in Seq(LogLines) /\ n = Len(h) /\ n \in Nat \ {0} /\ matcher \in Nat
  <2>1. matcher \in Nat
    BY <1>1, ProblemMatcherAssumption
  <2> QED  BY <1>2, <2>1, AtTurnProperties
<1>5. /\ \A source : Shown(source)' = Shown(source) /\ LinesShown(source)' = LinesShown(source)
      /\ Source' = Source
  BY <1>1 DEF Shown, LinesShown, Source
<1>6. LineIsLast'
  <2>1. LineIsLast
    BY DEF RunsInv
  <2> QED  BY <1>1, <1>5, <2>1 DEF LineIsLast
<1>7. emitted \in [Sources -> Seq(ProblemType)]
  BY DEF IInv, TypeOK
<1>8. AllRuns'
  <2>1. AllRuns
    BY DEF RunsInv
  <2>2. CASE emitted' = emitted
    BY <1>5, <2>1, <2>2 DEF AllRuns
  <2>3. CASE EmitsRun(turn[3], h, Source, n)
    <3> DEFINE problem(s) == RunProblem(turn[3], h, Source, s, n)
    <3>1. PICK s \in Nat : /\ IsRun(turn[3], h, s, n)
                           /\ problem(s) \in ProblemType
                           /\ emitted' = [emitted EXCEPT ![Source] = Append(@, problem(s))]
      BY <2>3 DEF EmitsRun
    <3>2. AreRuns(Source, h, emitted[Source]) /\ emitted[Source] \in Seq(ProblemType)
      BY <1>4, <1>7, <2>1 DEF AllRuns
    <3>3. AreRuns(Source, h, Append(emitted[Source], problem(s)))
      BY <3>1, <3>2, AreRunsAppend
    <3> HIDE DEF problem
    <3>4. /\ emitted'[Source] = Append(emitted[Source], problem(s))
          /\ \A source \in Sources \ {Source} : emitted'[source] = emitted[source]
      BY <1>4, <1>7, <3>1
    <3>5. \A source \in Sources : AreRuns(source, Shown(source), emitted'[source])
      BY <2>1, <3>3, <3>4 DEF AllRuns
    <3> QED  BY <1>5, <3>5 DEF AllRuns
  <2> QED  BY <1>3, <1>4, <2>2, <2>3 DEF OthersKept
<1>9. ASSUME NEW key \in Keys
      PROVE  Tracked(key, Shown(<<key[1], key[2]>>), Seen(key))'
  <2> DEFINE source == <<key[1], key[2]>>
             g == Shown(source)
  <2>1. /\ source \in Sources /\ key[3] \in DOMAIN Matchers /\ key = <<key[1], key[2], key[3]>>
        /\ key[3] \in Nat
    <3>1. key[3] \in DOMAIN Matchers
      BY KeyParts
    <3>2. key[3] \in Nat
      BY <3>1, ProblemMatcherAssumption
    <3> QED  BY <3>1, <3>2, KeyParts
  <2>2. Tracked(key, g, Seen(key))
    BY DEF RunsInv, AllTracked
  <2>3. CASE key = turn
    <3>1. Seen(key)' = n
      <4>1. ~(matcher' <= key[3]) /\ Len(Shown(source)') = n
        BY <1>1, <1>4, <1>5, <2>1, <2>3
      <4> QED  BY <4>1 DEF Seen
    <3>2. Tracked(key, h, n)'
      BY <1>1, <1>3, <2>3 DEF OwnTracked, Tracked
    <3>3. Shown(source)' = h
      BY <1>4, <1>5, <2>3
    <3> QED  BY <3>1, <3>2, <3>3
  <2>4. CASE key # turn
    <3>1. source = Source => key[3] # matcher
      <4>1. turn = <<turn[1], turn[2], turn[3]>>
        BY <1>4, KeyParts
      <4> QED  BY <1>4, <2>1, <2>4, <4>1
    <3>2. Seen(key)' = Seen(key)
      <4>1. source = Source => (matcher' <= key[3] <=> matcher <= key[3])
        BY <1>1, <1>4, <2>1, <3>1
      <4>2. source = Source' <=> source = Source
        BY <1>5
      <4> QED  BY <1>1, <1>5, <4>1, <4>2 DEF Seen
    <3>3. /\ key \in DOMAIN states' <=> key \in DOMAIN states
          /\ key \in DOMAIN states => states'[key] = states[key]
          /\ key \in dropped' <=> key \in dropped
      BY <1>3, <2>4 DEF OthersKept
    <3>4. ASSUME Reported(key[3], g, source, Seen(key), emitted[source])
          PROVE  Reported(key[3], g, source, Seen(key), emitted'[source])
      <4>1. CASE emitted' = emitted
        BY <3>4, <4>1
      <4>2. CASE EmitsRun(turn[3], h, Source, n)
        <5> DEFINE problem(s) == RunProblem(turn[3], h, Source, s, n)
        <5>1. PICK s \in Nat : /\ problem(s) \in ProblemType
                               /\ emitted' = [emitted EXCEPT ![Source] = Append(@, problem(s))]
          BY <4>2 DEF EmitsRun
        <5>2. problem(s).matcher = matcher
          BY <1>4, RunMatcher
        <5> HIDE DEF problem
        <5>3. CASE source = Source
          <6>1. emitted'[source] = Append(emitted[source], problem(s)) /\ key[3] # matcher
            BY <1>4, <1>7, <3>1, <5>1, <5>3
          <6> DEFINE problems == emitted[source]
                     e == Seen(key)
          <6>2. problems \in Seq(ProblemType) /\ Reported(key[3], g, source, e, problems)
            BY <1>7, <2>1, <3>4
          <6> HIDE DEF problems, g, e, source
          <6>3. Reported(key[3], g, source, e, Append(problems, problem(s)))
            BY <5>1, <5>2, <6>1, <6>2, ReportedOther
          <6> QED  BY <6>1, <6>3 DEF problems, e
        <5>4. CASE source # Source
          <6>1. emitted'[source] = emitted[source]
            BY <1>4, <1>7, <2>1, <5>1, <5>4
          <6> QED  BY <3>4, <6>1
        <5> QED  BY <5>3, <5>4
      <4> QED  BY <1>3, <1>4, <4>1, <4>2 DEF OthersKept
    <3>5. Shown(source)' = g
      BY <1>5
    <3> HIDE DEF source, g
    <3>6. Tracked(key, g, Seen(key))'
      <4> DEFINE e == Seen(key)
      <4>1. Tracked(key, g, e)
        BY <2>2
      <4>2. g' = g /\ e' = e
        BY <1>5, <3>2 DEF g, source
      <4> HIDE DEF e
      <4> QED
        BY <1>1, <3>3, <3>4, <4>1, <4>2 DEF Tracked, e, source
    <3> QED  BY <3>5, <3>6 DEF g, source
  <2> QED  BY <2>3, <2>4
<1> QED  BY <1>6, <1>8, <1>9 DEF RunsInv, AllTracked

LEMMA TurnKeepsRuns ==
  ASSUME IInv, RunsInv, NoMatch \/ CompleteMatch \/ ContinueMatch \/ StartMatch
  PROVE  RunsInv'
  BY TurnOfKey

----------------------------------------------------------------------------
(* The session *)

(* What is known of a key depends on nothing else. *)
LEMMA TrackedSame ==
  ASSUME NEW key \in Keys, Tracked(key, Shown(<<key[1], key[2]>>), Seen(key)),
         Shown(<<key[1], key[2]>>)' = Shown(<<key[1], key[2]>>), Seen(key)' = Seen(key),
         key \in DOMAIN states' <=> key \in DOMAIN states,
         key \in DOMAIN states' => states'[key] = states[key],
         key \notin dropped' => key \notin dropped,
         key[1] \in open' => key[1] \in open,
         emitted'[<<key[1], key[2]>>] = emitted[<<key[1], key[2]>>]
  PROVE  Tracked(key, Shown(<<key[1], key[2]>>), Seen(key))'
PROOF
<1> DEFINE source == <<key[1], key[2]>>
           g == Shown(source)
           e == Seen(key)
<1>1. /\ Tracked(key, g, e) /\ g' = g /\ e' = e
      /\ emitted'[source] = emitted[source]
  OBVIOUS
<1> HIDE DEF g, e, source
<1>2. Tracked(key, g, e)'
  BY <1>1 DEF Tracked, source
<1> QED  BY <1>2 DEF g, e, source

LEMMA ObserveReturnsKeepsRuns ==
  ASSUME IInv, RunsInv, ObserveReturns
  PROVE  RunsInv'
PROOF
<1>1. /\ phase = "observing" /\ matcher \notin DOMAIN Matchers /\ phase' = "idle" /\ matcher' = 1
      /\ open' = open /\ log' = log /\ states' = states /\ emitted' = emitted /\ dropped' = dropped
  BY DEF ObserveReturns
<1>2. \A source : Shown(source)' = Shown(source) /\ LinesShown(source)' = LinesShown(source)
  BY <1>1 DEF Shown, LinesShown
<1>3. LineIsLast'
  <2>1. LineIsLast
    BY DEF RunsInv
  <2> QED  BY <1>1, <1>2, <2>1 DEF LineIsLast
<1>4. AllRuns'
  <2>1. AllRuns
    BY DEF RunsInv
  <2> QED  BY <1>1, <1>2, <2>1 DEF AllRuns
<1>5. matcher = Len(Matchers) + 1 /\ Len(Matchers) \in Nat /\ DOMAIN Matchers = 1..Len(Matchers)
  <2>1. Matchers \in Seq(CompiledMatchers) /\ matcher \in 1..(Len(Matchers) + 1)
    BY ProblemMatcherAssumption DEF IInv, TypeOK
  <2>2. Len(Matchers) \in Nat /\ DOMAIN Matchers = 1..Len(Matchers)
    BY <2>1
  <2> QED  BY <1>1, <2>1, <2>2
<1>6. ASSUME NEW key \in Keys
      PROVE  Tracked(key, Shown(<<key[1], key[2]>>), Seen(key))'
  <2>1. Tracked(key, Shown(<<key[1], key[2]>>), Seen(key))
    BY DEF RunsInv, AllTracked
  <2>2. Seen(key)' = Seen(key)
    <3>1. ~(matcher <= key[3])
      <4>1. key[3] \in DOMAIN Matchers
        BY KeyParts
      <4> QED  BY <1>5, <4>1
    <3> QED  BY <1>1, <1>2, <3>1 DEF Seen
  <2> QED  BY <1>1, <1>2, <2>1, <2>2, TrackedSame
<1> QED  BY <1>3, <1>4, <1>6 DEF RunsInv, AllTracked

LEMMA EndsKeepRuns ==
  ASSUME IInv, RunsInv, Finish \/ \E scope \in Scopes : EndScope(scope)
  PROVE  RunsInv'
PROOF
<1>1. /\ phase = "idle" /\ phase' \in {"idle", "finished"}
      /\ log' = log /\ line' = line /\ matcher' = matcher /\ emitted' = emitted
      /\ dropped' = dropped
  BY DEF Finish, EndScope
<1>2. /\ \A key : key \in DOMAIN states' => key \in DOMAIN states /\ states'[key] = states[key]
      /\ open' \subseteq open
      /\ \A key \in DOMAIN states : key[1] \in open' => key \in DOMAIN states'
  <2>1. CASE Finish
    <3>1. states' = <<>> /\ open' = {} /\ open = {}
      BY <2>1 DEF Finish
    <3>2. DOMAIN states' = {}
      BY <3>1
    <3> QED  BY <3>1, <3>2
  <2>2. ASSUME NEW scope \in Scopes, EndScope(scope)
        PROVE  /\ \A key : key \in DOMAIN states' => key \in DOMAIN states /\ states'[key] = states[key]
               /\ open' \subseteq open
               /\ \A key \in DOMAIN states : key[1] \in open' => key \in DOMAIN states'
    <3> DEFINE rest == {key \in DOMAIN states : key[1] # scope}
    <3>1. states' = Restrict(states, rest) /\ open' = open \ {scope}
      BY <2>2 DEF EndScope, StatesAfter
    <3>2. IsFiniteSet(DOMAIN states) /\ rest \in SUBSET (DOMAIN states)
      BY DEF IInv, TypeOK
    <3> HIDE DEF rest
    <3>3. DOMAIN states' = rest /\ \A key \in rest : states'[key] = states[key]
      BY <3>1, <3>2, RemoveProperties
    <3> QED  BY <3>1, <3>3 DEF rest
  <2> QED  BY <2>1, <2>2
<1>3. \A source : Shown(source)' = Shown(source) /\ LinesShown(source)' = LinesShown(source)
  BY <1>1 DEF Shown, LinesShown
<1>4. LineIsLast'
  <2>1. LineIsLast
    BY DEF RunsInv
  <2> QED  BY <1>1, <1>3, <2>1 DEF LineIsLast
<1>5. AllRuns'
  <2>1. AllRuns
    BY DEF RunsInv
  <2> QED  BY <1>1, <1>3, <2>1 DEF AllRuns
<1>6. ASSUME NEW key \in Keys
      PROVE  Tracked(key, Shown(<<key[1], key[2]>>), Seen(key))'
  <2> DEFINE g == Shown(<<key[1], key[2]>>)
             e == Seen(key)
  <2>1. Tracked(key, g, e)
    BY DEF RunsInv, AllTracked
  <2>2. e' = e /\ g' = g
    BY <1>1, <1>3 DEF Seen
  <2> HIDE DEF e, g
  <2>3. Tracked(key, g, e)'
    BY <1>1, <1>2, <2>1, <2>2 DEF Tracked
  <2> QED  BY <2>3 DEF e, g
<1> QED  BY <1>4, <1>5, <1>6 DEF RunsInv, AllTracked

(* A scope id that is used again starts with an empty log, no problem and  *)
(* no partial match.                                                       *)
LEMMA EmptyTracked ==
  ASSUME NEW m, NEW source
  PROVE  /\ ~GoesOn(m, <<>>, 0)
         /\ ExpectedProblems(m, <<>>, source, 0) = {}
         /\ Reported(m, <<>>, source, 0, <<>>)
PROOF
<1>1. Len(<<>>) = 0 /\ DOMAIN <<>> = {} /\ 1..0 = {}
  OBVIOUS
<1>2. IsStarts(Starts(m, <<>>), m, <<>>)
  BY <1>1, StartsProperties
<1>3. Starts(m, <<>>)[0] = 0
  BY <1>2 DEF IsStarts
<1>4. ExpectedEnds(m, <<>>, 0) = {}
  BY <1>1 DEF ExpectedEnds
<1>5. ExpectedProblems(m, <<>>, source, 0) = {}
  BY <1>4 DEF ExpectedProblems
<1>6. EmittedBy(m, <<>>) = {}
  BY <1>1 DEF EmittedBy
<1> QED  BY <1>3, <1>5, <1>6 DEF GoesOn, Reported

LEMMA BeginScopeKeepsRuns ==
  ASSUME IInv, RunsInv, NEW scope \in Scopes, BeginScope(scope)
  PROVE  RunsInv'
PROOF
<1>1. /\ phase = "idle" /\ scope \notin open /\ open' = open \cup {scope}
      /\ log' = Forget(log, scope) /\ emitted' = Forget(emitted, scope)
      /\ dropped' = {key \in dropped : key[1] # scope}
      /\ phase' = phase /\ line' = line /\ matcher' = matcher /\ states' = states
  BY DEF BeginScope
<1>2. /\ \A source \in Sources : source[1] = scope =>
           log'[source] = <<>> /\ emitted'[source] = <<>>
      /\ \A source \in Sources : source[1] # scope =>
           log'[source] = log[source] /\ emitted'[source] = emitted[source]
  BY <1>1 DEF Forget
<1>3. \A source \in Sources : source[1] = scope =>
        Shown(source)' = <<>> /\ LinesShown(source)' = 0
  <2> SUFFICES ASSUME NEW source \in Sources, source[1] = scope
               PROVE  Shown(source)' = <<>> /\ LinesShown(source)' = 0
    OBVIOUS
  <2>1. log'[source] = <<>>
    BY <1>2
  <2>2. Shown(source)' = <<>>
    BY <2>1, OnlyEmpty DEF Shown
  <2>3. {i \in DOMAIN log'[source] : log'[source][i] # Blank} = {}
    BY <2>1
  <2> QED  BY <2>2, <2>3, FS_EmptySet DEF LinesShown
<1>4. \A source \in Sources : source[1] # scope =>
        Shown(source)' = Shown(source) /\ LinesShown(source)' = LinesShown(source)
  BY <1>2 DEF Shown, LinesShown
<1>5. LineIsLast'
  <2>1. LineIsLast
    BY DEF RunsInv
  <2>2. Len(<<>>) = 0
    OBVIOUS
  <2> QED  BY <1>1, <1>3, <1>4, <2>1, <2>2 DEF LineIsLast
<1>6. AllRuns'
  <2>1. AllRuns
    BY DEF RunsInv
  <2>2. \A source \in Sources : source[1] = scope => DOMAIN emitted'[source] = {}
    BY <1>2
  <2>3. ASSUME NEW source \in Sources
        PROVE  AreRuns(source, Shown(source), emitted[source])'
    <3>1. CASE source[1] = scope
      BY <2>2, <3>1 DEF AreRuns
    <3>2. CASE source[1] # scope
      <4>1. AreRuns(source, Shown(source), emitted[source])
        BY <2>1 DEF AllRuns
      <4> QED  BY <1>2, <1>4, <3>2, <4>1
    <3> QED  BY <3>1, <3>2
  <2> QED  BY <2>3 DEF AllRuns
<1>7. ASSUME NEW key \in Keys
      PROVE  Tracked(key, Shown(<<key[1], key[2]>>), Seen(key))'
  <2> DEFINE source == <<key[1], key[2]>>
  <2>1. source \in Sources /\ source[1] = key[1]
    BY KeyParts
  <2>2. CASE key[1] = scope
    <3>1. Shown(source)' = <<>> /\ emitted'[source] = <<>>
      BY <1>2, <1>3, <2>1, <2>2
    <3>2. Seen(key)' = 0
      <4>1. Len(<<>>) = 0
        OBVIOUS
      <4> QED  BY <1>1, <3>1, <4>1 DEF Seen
    <3>3. key \notin DOMAIN states'
      BY <1>1, <2>2 DEF IInv, StatesOfOpenScopes
    <3>4. ~GoesOn(key[3], <<>>, 0) /\ Reported(key[3], <<>>, source, 0, <<>>)
      BY EmptyTracked
    <3> DEFINE g == Shown(source)
               e == Seen(key)
    <3>5. g' = <<>> /\ e' = 0 /\ emitted'[source] = <<>>
      BY <3>1, <3>2
    <3> HIDE DEF g, e, source
    <3>6. Tracked(key, g, e)'
      BY <3>3, <3>4, <3>5 DEF Tracked, source
    <3> QED  BY <3>6 DEF g, e, source
  <2>3. CASE key[1] # scope
    <3>1. Tracked(key, Shown(source), Seen(key))
      BY DEF RunsInv, AllTracked
    <3>2. Shown(source)' = Shown(source) /\ emitted'[source] = emitted[source]
      BY <1>2, <1>4, <2>1, <2>3
    <3>3. Seen(key)' = Seen(key)
      BY <1>1, <3>2 DEF Seen
    <3>4. /\ key \notin dropped' => key \notin dropped
          /\ key[1] \in open' => key[1] \in open
      BY <1>1, <2>3
    <3> QED  BY <1>1, <3>1, <3>2, <3>3, <3>4, TrackedSame
  <2> QED  BY <2>2, <2>3
<1> QED  BY <1>5, <1>6, <1>7 DEF RunsInv, AllTracked

LEMMA ReportedGrows ==
  ASSUME NEW m \in DOMAIN Matchers, NEW h \in Seq(LogLines), NEW x \in LogLines,
         NEW source, NEW e \in 0..Len(h), NEW problems, Reported(m, h, source, e, problems)
  PROVE  Reported(m, Append(h, x), source, e, problems)
  BY ExpectedGrows DEF Reported

LEMMA AreRunsGrow ==
  ASSUME NEW source, NEW h \in Seq(LogLines), NEW x \in LogLines,
         NEW problems \in Seq(ProblemType), AreRuns(source, h, problems)
  PROVE  AreRuns(source, Append(h, x), problems)
PROOF
<1> DEFINE longer == Append(h, x)
<1> SUFFICES ASSUME NEW i \in DOMAIN problems
             PROVE  /\ IsRun(problems[i].matcher, longer, problems[i].start, problems[i].end)
                    /\ problems[i] = RunProblem(problems[i].matcher, longer, source,
                                                problems[i].start, problems[i].end)
  BY DEF AreRuns
<1> DEFINE m == problems[i].matcher
           s == problems[i].start
           n == problems[i].end
<1>1. problems[i] \in ProblemType
  OBVIOUS
<1>2. m \in DOMAIN Matchers /\ s \in Nat /\ n \in Nat
  BY <1>1 DEF ProblemType
<1>3. IsRun(m, h, s, n) /\ problems[i] = RunProblem(m, h, source, s, n)
  BY DEF AreRuns
<1>4. s \in Nat \ {0} /\ n <= Len(h) /\ n - s + 1 >= Len(Matchers[m].patterns)
  BY <1>2, <1>3 DEF IsRun
<1> HIDE DEF m, s, n
<1>5. IsRun(m, longer, s, n)
  BY <1>2, <1>3, IsRunGrows
<1>6. RunProblem(m, longer, source, s, n) = RunProblem(m, h, source, s, n)
  BY <1>2, <1>4, RunProblemGrows
<1> QED  BY <1>3, <1>5, <1>6 DEF m, s, n

(* What a line adds to what was shown. *)
LEMMA ShownGrows ==
  ASSUME log \in [Sources -> Seq(LogLines)], NEW source \in Sources, NEW text \in LogLines,
         log' = [log EXCEPT ![source] = Append(@, text)]
  PROVE  /\ text = Blank => Shown(source)' = Shown(source) /\ LinesShown(source)' = LinesShown(source)
         /\ text # Blank => /\ Shown(source)' = Append(Shown(source), text)
                            /\ LinesShown(source)' = LinesShown(source) + 1
         /\ \A other \in Sources \ {source} :
              Shown(other)' = Shown(other) /\ LinesShown(other)' = LinesShown(other)
         /\ LinesShown(source) \in Nat
PROOF
<1> DEFINE lines == log[source]
           longer == Append(lines, text)
           k == Len(lines)
           shown == {i \in DOMAIN lines : lines[i] # Blank}
           more == {i \in DOMAIN longer : longer[i] # Blank}
<1>1. /\ lines \in Seq(LogLines) /\ log'[source] = longer
      /\ \A other \in Sources \ {source} : log'[other] = log[other]
  OBVIOUS
<1>2. /\ DOMAIN lines = 1..k /\ DOMAIN longer = 1..k + 1 /\ k \in Nat
      /\ longer[k + 1] = text /\ \A i \in 1..k : longer[i] = lines[i]
  BY <1>1
<1>3. Only(longer, LogLines \ {Blank})
        = IF text \in LogLines \ {Blank} THEN Append(Only(lines, LogLines \ {Blank}), text)
          ELSE Only(lines, LogLines \ {Blank})
  BY <1>1, OnlyAppend
<1>4. /\ Shown(source) = Only(lines, LogLines \ {Blank})
      /\ Shown(source)' = Only(longer, LogLines \ {Blank})
      /\ LinesShown(source) = Cardinality(shown)
      /\ LinesShown(source)' = Cardinality(more)
  BY <1>1 DEF Shown, LinesShown
<1>5. IsFiniteSet(shown) /\ shown \in SUBSET (1..k)
  <2>1. IsFiniteSet(1..k)
    BY <1>2, FS_Interval
  <2>2. shown \in SUBSET (1..k)
    BY <1>2
  <2> QED  BY <2>1, <2>2, FS_Subset
<1>6. \A i : i \in 1..k + 1 <=> i \in 1..k \/ i = k + 1
  BY <1>2
<1>7. /\ text = Blank => more = shown
      /\ text # Blank => more = shown \cup {k + 1}
  <2> HIDE DEF longer, lines, k
  <2> QED  BY <1>2, <1>6
<1>8. k + 1 \notin shown
  BY <1>2, <1>5
<1> HIDE DEF shown, more, longer, lines, k
<1>9. /\ Cardinality(shown) \in Nat
      /\ Cardinality(shown \cup {k + 1}) = Cardinality(shown) + 1
  BY <1>5, <1>8, FS_CardinalityType, FS_AddElement
<1>10. /\ text = Blank => Shown(source)' = Shown(source) /\ LinesShown(source)' = LinesShown(source)
       /\ text # Blank => /\ Shown(source)' = Append(Shown(source), text)
                          /\ LinesShown(source)' = LinesShown(source) + 1
  BY <1>3, <1>4, <1>7, <1>9
<1> QED  BY <1>1, <1>4, <1>9, <1>10 DEF Shown, LinesShown

LEMMA PushLineKeepsRuns ==
  ASSUME IInv, RunsInv, NEW source \in Sources, NEW text \in LogLines, PushLine(source, text)
  PROVE  RunsInv'
PROOF
<1>0. LineIsLast /\ AllTracked /\ AllRuns
  BY DEF RunsInv
<1>1. /\ phase = "idle" /\ source[1] \in open /\ matcher = 1
      /\ log' = [log EXCEPT ![source] = Append(@, text)]
      /\ open' = open /\ matcher' = matcher /\ states' = states /\ emitted' = emitted
      /\ dropped' = dropped
  BY <1>0 DEF PushLine, LineIsLast
<1>2. /\ text = Blank => phase' = phase /\ line' = line
      /\ text # Blank =>
           /\ phase' = "observing"
           /\ line' = [scope |-> source[1], stream |-> source[2], text |-> text,
                       number |-> LinesShown(source) + 1]
  BY DEF PushLine
<1>3. log \in [Sources -> Seq(LogLines)] /\ emitted \in [Sources -> Seq(ProblemType)]
  BY DEF IInv, TypeOK
<1>4. /\ text = Blank => Shown(source)' = Shown(source) /\ LinesShown(source)' = LinesShown(source)
      /\ text # Blank => /\ Shown(source)' = Append(Shown(source), text)
                         /\ LinesShown(source)' = LinesShown(source) + 1
      /\ \A other \in Sources \ {source} :
           Shown(other)' = Shown(other) /\ LinesShown(other)' = LinesShown(other)
      /\ LinesShown(source) \in Nat
  BY <1>1, <1>3, ShownGrows
<1>5. Shown(source) \in Seq(LogLines) /\ Len(Shown(source)) \in Nat
  BY <1>3, ShownType
<1>6. /\ Append(Shown(source), text) \in Seq(LogLines)
      /\ Len(Append(Shown(source), text)) = Len(Shown(source)) + 1
      /\ Append(Shown(source), text)[Len(Shown(source)) + 1] = text
  BY <1>5
<1>7. \A other \in Sources : LinesShown(other) = Len(Shown(other))
  BY <1>0 DEF LineIsLast
<1>8. LineIsLast'
  <2>1. \A other \in Sources : LinesShown(other)' = Len(Shown(other)')
    BY <1>4, <1>6, <1>7
  <2>2. CASE text = Blank
    BY <1>1, <1>2, <2>1, <2>2 DEF LineIsLast
  <2>3. CASE text # Blank
    <3>1. /\ line'.number = LinesShown(source) + 1 /\ line'.text = text
          /\ <<line'.scope, line'.stream>> = <<source[1], source[2]>>
      BY <1>2, <2>3
    <3>2. Source' = source
      BY <3>1 DEF Source, Sources
    <3>3. /\ line'.number = Len(Shown(source)') /\ line'.number >= 1
          /\ line'.text = Shown(source)'[line'.number]
      BY <1>4, <1>5, <1>6, <1>7, <2>3, <3>1
    <3>4. Shown(Source)' = Shown(source)'
      BY <3>2 DEF Shown
    <3> QED  BY <1>2, <2>1, <2>3, <3>3, <3>4 DEF LineIsLast
  <2> QED  BY <2>2, <2>3
<1>9. AllRuns'
  <2> SUFFICES ASSUME NEW other \in Sources
               PROVE  AreRuns(other, Shown(other)', emitted[other])
    BY <1>1 DEF AllRuns
  <2>1. AreRuns(other, Shown(other), emitted[other]) /\ emitted[other] \in Seq(ProblemType)
    BY <1>0, <1>3 DEF AllRuns
  <2>2. CASE Shown(other)' = Shown(other)
    BY <2>1, <2>2
  <2>3. CASE other = source /\ text # Blank
    <3>1. Shown(other)' = Append(Shown(other), text) /\ Shown(other) \in Seq(LogLines)
      BY <1>4, <1>5, <2>3
    <3>2. AreRuns(other, Append(Shown(other), text), emitted[other])
      BY <2>1, <3>1, AreRunsGrow
    <3> QED  BY <3>1, <3>2
  <2> QED  BY <1>4, <2>2, <2>3
<1>10. ASSUME NEW key \in Keys
       PROVE  Tracked(key, Shown(<<key[1], key[2]>>), Seen(key))'
  <2> DEFINE own == <<key[1], key[2]>>
             g == Shown(own)
             e == Seen(key)
  <2>1. own \in Sources /\ key[3] \in DOMAIN Matchers /\ key[3] >= 1
    <3>1. key[3] \in DOMAIN Matchers
      BY KeyParts
    <3>2. key[3] >= 1
      BY <3>1, ProblemMatcherAssumption
    <3> QED  BY <3>1, <3>2, KeyParts
  <2>2. Tracked(key, g, e) /\ e = Len(g)
    BY <1>0, <1>1 DEF AllTracked, Seen
  <2>3. CASE own = source /\ text # Blank
    <3>1. g' = Append(g, text) /\ g \in Seq(LogLines) /\ Len(g') = Len(g) + 1 /\ Len(g) \in Nat
      BY <1>4, <1>5, <1>6, <2>3
    <3>2. Source' = own
      BY <1>2, <2>3 DEF Source, Sources
    <3>3. e' = Len(g) /\ e = Len(g)
      BY <1>1, <1>2, <2>1, <2>2, <2>3, <3>1, <3>2 DEF Seen
    <3>4. states \in [DOMAIN states -> StateType]
      BY DEF IInv, TypeOK
    <3> HIDE DEF own, g, e
    <3>5. key \in DOMAIN states => Running(key[3], Append(g, text), e, states[key])
      BY <2>1, <2>2, <3>1, <3>3, <3>4, RunningGrows DEF Tracked
    <3>6. e \in 0..Len(g)
      BY <3>1, <3>3
    <3>7. /\ GoesOn(key[3], Append(g, text), e) = GoesOn(key[3], g, e)
          /\ Starts(key[3], Append(g, text))[e] = Starts(key[3], g)[e]
      BY <3>1, <3>6, GoesOnGrows
    <3>8. ASSUME Reported(key[3], g, own, e, emitted[own])
          PROVE  Reported(key[3], Append(g, text), own, e, emitted[own])
      BY <2>1, <3>1, <3>6, <3>8, ReportedGrows
    <3>9. Tracked(key, Append(g, text), e)
      BY <2>2, <3>5, <3>7, <3>8 DEF Tracked, own
    <3>10. g' = Append(g, text) /\ e' = e
      BY <3>1, <3>3
    <3>11. Tracked(key, g, e)'
      BY <1>1, <3>9, <3>10 DEF Tracked
    <3> QED  BY <3>11 DEF own, g, e
  <2>4. CASE ~(own = source /\ text # Blank)
    <3>1. g' = g
      BY <1>4, <2>1, <2>4
    <3>2. text # Blank => Source' # own
      <4>1. text # Blank => Source' = source
        BY <1>2 DEF Source, Sources
      <4> QED  BY <2>4, <4>1
    <3>3. Seen(key)' = Seen(key)
      BY <1>1, <1>2, <3>1, <3>2 DEF Seen
    <3> QED  BY <1>1, <2>2, <3>1, <3>3, TrackedSame
  <2> QED  BY <2>3, <2>4
<1> QED  BY <1>8, <1>9, <1>10 DEF RunsInv, AllTracked

----------------------------------------------------------------------------
(* The theorems *)

LEMMA RunsInit == Init => RunsInv
PROOF
<1> SUFFICES ASSUME Init PROVE RunsInv
  OBVIOUS
<1>1. /\ phase = "idle" /\ open = {} /\ matcher = 1 /\ states = <<>> /\ dropped = {}
      /\ \A source \in Sources : log[source] = <<>> /\ emitted[source] = <<>>
  BY DEF Init, NothingYet
<1>2. DOMAIN states = {} /\ Len(<<>>) = 0 /\ DOMAIN <<>> = {}
  BY <1>1
<1>3. \A source \in Sources : Shown(source) = <<>>
  BY <1>1, OnlyEmpty DEF Shown
<1>4. \A source \in Sources : LinesShown(source) = 0
  <2> SUFFICES ASSUME NEW source \in Sources PROVE LinesShown(source) = 0
    OBVIOUS
  <2>1. {i \in DOMAIN log[source] : log[source][i] # Blank} = {}
    BY <1>1, <1>2
  <2> QED  BY <2>1, FS_EmptySet DEF LinesShown
<1>5. LineIsLast
  BY <1>1, <1>2, <1>3, <1>4 DEF LineIsLast
<1>6. AllRuns
  BY <1>1, <1>2 DEF AllRuns, AreRuns
<1>7. ASSUME NEW key \in Keys
      PROVE  Tracked(key, Shown(<<key[1], key[2]>>), Seen(key))
  <2>1. <<key[1], key[2]>> \in Sources
    BY KeyParts
  <2>2. Shown(<<key[1], key[2]>>) = <<>> /\ emitted[<<key[1], key[2]>>] = <<>>
    BY <1>1, <1>3, <2>1
  <2>3. Seen(key) = 0
    BY <1>1, <1>2, <2>2 DEF Seen
  <2> QED  BY <1>1, <1>2, <2>2, <2>3, EmptyTracked DEF Tracked
<1> QED  BY <1>5, <1>6, <1>7 DEF RunsInv, AllTracked

LEMMA RunsStep == IInv /\ RunsInv /\ [Next]_vars => RunsInv'
PROOF
<1> SUFFICES ASSUME IInv, RunsInv, [Next]_vars
             PROVE  RunsInv'
  OBVIOUS
<1>1. CASE UNCHANGED vars
  <2>1. /\ phase' = phase /\ open' = open /\ log' = log /\ line' = line /\ matcher' = matcher
        /\ states' = states /\ emitted' = emitted /\ dropped' = dropped
    BY <1>1 DEF vars
  <2>2. /\ \A source : Shown(source)' = Shown(source) /\ LinesShown(source)' = LinesShown(source)
        /\ Source' = Source
    BY <2>1 DEF Shown, LinesShown, Source
  <2>3. LineIsLast'
    <3>1. LineIsLast
      BY DEF RunsInv
    <3> QED  BY <2>1, <2>2, <3>1 DEF LineIsLast
  <2>4. AllRuns'
    <3>1. AllRuns
      BY DEF RunsInv
    <3> QED  BY <2>1, <2>2, <3>1 DEF AllRuns
  <2>5. ASSUME NEW key \in Keys
        PROVE  Tracked(key, Shown(<<key[1], key[2]>>), Seen(key))'
    <3>1. Tracked(key, Shown(<<key[1], key[2]>>), Seen(key))
      BY DEF RunsInv, AllTracked
    <3>2. Seen(key)' = Seen(key)
      BY <2>1, <2>2 DEF Seen
    <3> QED  BY <2>1, <2>2, <3>1, <3>2, TrackedSame
  <2> QED  BY <2>3, <2>4, <2>5 DEF RunsInv, AllTracked
<1>2. CASE Next
  <2>1. CASE Done
    BY <1>1, <2>1 DEF Done
  <2> QED
    BY <1>2, <2>1, BeginScopeKeepsRuns, PushLineKeepsRuns, EndsKeepRuns,
       ObserveReturnsKeepsRuns, TurnKeepsRuns DEF Next
<1> QED  BY <1>1, <1>2

LEMMA RunsInvariant == Spec => [](IInv /\ RunsInv)
  BY InvariantInit, InvariantStep, RunsInit, RunsStep, PTL DEF Spec

(* Every problem reported is a run of lines of its own scope and stream,   *)
(* in the current use of the scope id, and carries what these lines        *)
(* capture and nothing else (observe_matcher, boundary), for any matchers  *)
(* that validation accepts, any log and any limits.                        *)
THEOREM ProblemsAlwaysRuns == Spec => []ProblemsAreRuns
PROOF
<1>1. IInv /\ RunsInv => ProblemsAreRuns
  <2> SUFFICES ASSUME IInv, RunsInv, NEW source \in Sources,
                      NEW problem \in Range(emitted[source])
               PROVE  /\ IsRun(problem.matcher, Shown(source), problem.start, problem.end)
                      /\ problem = RunProblem(problem.matcher, Shown(source), source,
                                              problem.start, problem.end)
    BY DEF ProblemsAreRuns
  <2>1. PICK i \in DOMAIN emitted[source] : problem = emitted[source][i]
    BY DEF Range
  <2> QED  BY <2>1 DEF RunsInv, AllRuns, AreRuns
<1> QED  BY <1>1, RunsInvariant, PTL

(* Unless candidate_dropped was called in its turns on a stream, a matcher *)
(* reported every problem of that stream, in order and once, whatever the  *)
(* other scopes, streams and matchers did (observe_matcher).               *)
THEOREM ProblemsAlwaysComplete == Spec => []ProblemsComplete
PROOF
<1>1. IInv /\ RunsInv => ProblemsComplete
  <2> SUFFICES ASSUME IInv, RunsInv, phase # "observing", NEW source \in Sources,
                      NEW m \in DOMAIN Matchers, <<source[1], source[2], m>> \notin dropped
               PROVE  Reported(m, Shown(source), source, Len(Shown(source)), emitted[source])
    BY DEF ProblemsComplete
  <2> DEFINE key == <<source[1], source[2], m>>
  <2>1. /\ key \in Keys /\ <<key[1], key[2]>> = source /\ key[3] = m
    BY DEF Keys, Sources
  <2>2. Tracked(key, Shown(source), Seen(key))
    BY <2>1 DEF RunsInv, AllTracked
  <2>3. Seen(key) = Len(Shown(source))
    BY <2>1 DEF Seen
  <2> QED  BY <2>1, <2>2, <2>3 DEF Tracked
<1> QED  BY <1>1, RunsInvariant, PTL

----------------------------------------------------------------------------
(* The registry that parsers are made from *)

----------------------------------------------------------------------------
(* The last definitions of a sequence *)

IsLastDefinition(all, i) == \A j \in DOMAIN all : all[j].owner = all[i].owner => j <= i
LastPositions(all) == {i \in DOMAIN all : IsLastDefinition(all, i)}

LEMMA LastDefinitionsArePicked ==
  ASSUME NEW all
  PROVE  Promise!LastDefinitions(all) = Picked(all, LastPositions(all))
PROOF
<1>1. \A S : Promise!Cardinality(S) = Cardinality(S)
  BY DEF Promise!Cardinality, Cardinality
<1>2. \A P, i : Promise!Rank(P, i) = Rank(P, i)
  BY <1>1 DEF Promise!Rank, Rank
<1>3. \A P : Promise!Picked(all, P) = Picked(all, P)
  <2> TAKE P
  <2>1. ASSUME NEW n
        PROVE  (CHOOSE i \in P : Promise!Rank(P, i) = n) = (CHOOSE i \in P : Rank(P, i) = n)
    BY <1>2
  <2> DEFINE a(n) == CHOOSE i \in P : Promise!Rank(P, i) = n
             b(n) == CHOOSE i \in P : Rank(P, i) = n
  <2>2. \A n : a(n) = b(n)
    BY <2>1
  <2>3. Promise!Picked(all, P) = [n \in 1..Cardinality(P) |-> all[a(n)]]
    BY <1>1 DEF Promise!Picked
  <2>4. Picked(all, P) = [n \in 1..Cardinality(P) |-> all[b(n)]]
    BY DEF Picked
  <2> HIDE DEF a, b
  <2> QED  BY <2>2, <2>3, <2>4
<1>4. {i \in DOMAIN all : Promise!IsLastOfOwner(all, i)} = LastPositions(all)
  BY DEF Promise!IsLastOfOwner, LastPositions, IsLastDefinition
<1> QED  BY <1>3, <1>4 DEF Promise!LastDefinitions

(* part is made of the elements of all at the positions p, in their order, *)
(* and no element that is left out is the last of its owner.               *)
IsPart(part, all, p) ==
  /\ p \in [1..Len(part) -> 1..Len(all)]
  /\ \A i, j \in 1..Len(part) : i < j => p[i] < p[j]
  /\ \A i \in 1..Len(part) : part[i] = all[p[i]]
  /\ \A k \in 1..Len(all) : IsLastDefinition(all, k) => \E i \in 1..Len(part) : p[i] = k

(* From the position of an owner on there is its last one.                 *)
LEMMA LastOfOwner ==
  ASSUME NEW T, NEW all \in Seq(T), NEW j \in 1..Len(all)
  PROVE  \E k \in 1..Len(all) : k >= j /\ all[k].owner = all[j].owner /\ IsLastDefinition(all, k)
PROOF
<1> DEFINE S == {k \in 1..Len(all) : all[k].owner = all[j].owner}
<1>1. S \in SUBSET (1..Len(all)) /\ S # {} /\ Len(all) \in Nat /\ j \in S
  OBVIOUS
<1>2. PICK k \in S : \A i \in S : k >= i
  BY <1>1, LastPosition
<1>3. DOMAIN all = 1..Len(all)
  OBVIOUS
<1>4. IsLastDefinition(all, k)
  BY <1>2, <1>3 DEF IsLastDefinition
<1> QED  BY <1>1, <1>2, <1>4

LEMMA PartKeepsLast ==
  ASSUME NEW T, NEW all \in Seq(T), NEW part \in Seq(T), NEW p, IsPart(part, all, p),
         NEW i \in 1..Len(part)
  PROVE  IsLastDefinition(part, i) <=> IsLastDefinition(all, p[i])
PROOF
<1>1. /\ \A n \in 1..Len(part) : p[n] \in 1..Len(all) /\ p[n] \in Int
      /\ \A m, n \in 1..Len(part) : m < n => p[m] < p[n]
      /\ \A n \in 1..Len(part) : part[n] = all[p[n]]
      /\ \A k \in 1..Len(all) : IsLastDefinition(all, k) => \E n \in 1..Len(part) : p[n] = k
  <2>1. p \in [1..Len(part) -> 1..Len(all)]
    BY DEF IsPart
  <2>2. \A n \in 1..Len(part) : p[n] \in 1..Len(all) /\ p[n] \in Int
    BY <2>1
  <2>3. /\ \A m, n \in 1..Len(part) : m < n => p[m] < p[n]
        /\ \A n \in 1..Len(part) : part[n] = all[p[n]]
    BY DEF IsPart
  <2>4. \A k \in 1..Len(all) : IsLastDefinition(all, k) => \E n \in 1..Len(part) : p[n] = k
    BY DEF IsPart
  <2> QED  BY <2>2, <2>3, <2>4
<1>2. DOMAIN all = 1..Len(all) /\ DOMAIN part = 1..Len(part)
  OBVIOUS
<1>3. ASSUME IsLastDefinition(part, i), NEW j \in 1..Len(all), all[j].owner = all[p[i]].owner
      PROVE  j <= p[i]
  <2>1. PICK k \in 1..Len(all) :
           k >= j /\ all[k].owner = all[j].owner /\ IsLastDefinition(all, k)
    BY LastOfOwner
  <2>2. PICK n \in 1..Len(part) : p[n] = k
    BY <1>1, <2>1
  <2>3. part[n].owner = part[i].owner
    BY <1>1, <1>3, <2>1, <2>2
  <2>4. n <= i
    BY <1>2, <1>3, <2>3 DEF IsLastDefinition
  <2>5. p[n] <= p[i]
    BY <1>1, <2>4
  <2>6. j \in Int /\ k \in Int /\ p[i] \in Int
    BY <1>1
  <2> QED  BY <2>1, <2>2, <2>5, <2>6
<1>4. ASSUME IsLastDefinition(all, p[i]), NEW n \in 1..Len(part), part[n].owner = part[i].owner
      PROVE  n <= i
  <2>1. all[p[n]].owner = all[p[i]].owner /\ p[n] \in DOMAIN all
    BY <1>1, <1>2, <1>4
  <2>2. p[n] <= p[i]
    BY <1>4, <2>1 DEF IsLastDefinition
  <2>3. i < n => p[i] < p[n]
    BY <1>1
  <2> QED  BY <1>1, <2>2, <2>3
<1> QED  BY <1>2, <1>3, <1>4 DEF IsLastDefinition

LEMMA LastsOfPart ==
  ASSUME NEW T, NEW all \in Seq(T), NEW part \in Seq(T), NEW p, IsPart(part, all, p)
  PROVE  Promise!LastDefinitions(part) = Promise!LastDefinitions(all)
PROOF
<1> DEFINE L == LastPositions(part)
           M == LastPositions(all)
<1>1. /\ Len(part) \in Nat /\ Len(all) \in Nat
      /\ L \in SUBSET (1..Len(part)) /\ M \in SUBSET (1..Len(all))
  BY DEF LastPositions
<1>n. PICK n \in Nat : \E q : Enumerates(q, n, L)
  BY <1>1, EnumerationExists
<1>2. PICK q : Enumerates(q, n, L)
  BY <1>n
<1>3. /\ q \in [1..n -> L]
      /\ \A i, j \in 1..n : i < j => q[i] < q[j]
      /\ \A k \in L : \E i \in 1..n : q[i] = k
  BY <1>2 DEF Enumerates
<1>4. /\ \A i \in 1..Len(part) : p[i] \in 1..Len(all) /\ part[i] = all[p[i]]
      /\ \A i, j \in 1..Len(part) : i < j => p[i] < p[j]
      /\ \A k \in 1..Len(all) : IsLastDefinition(all, k) => \E i \in 1..Len(part) : p[i] = k
  BY DEF IsPart
<1>5. \A i \in 1..Len(part) : i \in L <=> p[i] \in M
  BY <1>4, PartKeepsLast DEF LastPositions
<1> DEFINE r == [i \in 1..n |-> p[q[i]]]
<1>6. Enumerates(r, n, M)
  <2>1. \A i \in 1..n : q[i] \in L /\ q[i] \in 1..Len(part)
    BY <1>1, <1>3
  <2>2. r \in [1..n -> M]
    BY <1>5, <2>1
  <2>3. \A i, j \in 1..n : i < j => r[i] < r[j]
    BY <1>3, <1>4, <2>1
  <2>4. \A k \in M : \E i \in 1..n : r[i] = k
    <3> SUFFICES ASSUME NEW k \in M PROVE \E i \in 1..n : r[i] = k
      OBVIOUS
    <3>1. PICK m \in 1..Len(part) : p[m] = k
      BY <1>4 DEF LastPositions
    <3>2. PICK i \in 1..n : q[i] = m
      BY <1>3, <1>5, <3>1
    <3> QED  BY <3>1, <3>2
  <2> HIDE DEF r
  <2> QED  BY <2>2, <2>3, <2>4 DEF Enumerates
<1>7. Picked(part, L) = Placed(part, q, n)
  BY <1>1, <1>n, <1>2, PickedEnumerated
<1> HIDE DEF r
<1>8. Picked(all, M) = Placed(all, r, n)
  BY <1>1, <1>n, <1>6, PickedEnumerated
<1>9. Placed(part, q, n) = Placed(all, r, n)
  <2>1. \A i \in 1..n : q[i] \in 1..Len(part)
    BY <1>1, <1>3
  <2>2. \A i \in 1..n : part[q[i]] = all[r[i]]
    BY <1>4, <2>1 DEF r
  <2> QED  BY <2>2 DEF Placed
<1> QED  BY <1>7, <1>8, <1>9, LastDefinitionsArePicked

(* When owners differ every definition is the last of its owner.           *)
LEMMA LastsOfDifferent ==
  ASSUME NEW T, NEW all \in Seq(T), OwnersDiffer(all)
  PROVE  Promise!LastDefinitions(all) = all
PROOF
<1> DEFINE n == Len(all)
           id == [i \in 1..n |-> i]
           L == LastPositions(all)
<1>1. n \in Nat /\ DOMAIN all = 1..n
  OBVIOUS
<1>2. L = 1..n
  BY <1>1 DEF LastPositions, IsLastDefinition, OwnersDiffer
<1>3. Enumerates(id, n, 1..n)
  BY <1>1 DEF Enumerates
<1> HIDE DEF id, n, L
<1>4. Picked(all, 1..n) = Placed(all, id, n)
  BY <1>1, <1>3, PickedEnumerated
<1>5. Placed(all, id, n) = all
  <2>1. \A i \in 1..n : id[i] = i
    BY DEF id
  <2>2. all = [i \in 1..n |-> all[i]]
    BY <1>1
  <2> QED  BY <2>1, <2>2 DEF Placed
<1> QED  BY <1>2, <1>4, <1>5, LastDefinitionsArePicked DEF L

----------------------------------------------------------------------------
(* Compiling a definition *)

LEMMA DefaultedType ==
  ASSUME NEW patterns \in Seq(RawPatterns)
  PROVE  /\ Defaulted(patterns) \in Seq(RawPatterns)
         /\ Len(Defaulted(patterns)) = Len(patterns)
         /\ \A i \in 1..Len(patterns) : Defaulted(patterns)[i].kind = patterns[i].kind
PROOF
<1>1. ASSUME NEW pattern \in RawPatterns
      PROVE  WithDefaults(pattern) \in RawPatterns /\ WithDefaults(pattern).kind = pattern.kind
  <2> DEFINE Groups == [Targets -> Nat \cup {NoGroup}]
  <2>1. pattern.groups \in Groups
    BY DEF RawPatterns
  <2>2. \A target \in Targets, n \in Nat :
          OrDefault(pattern.groups, target, n) \in Nat \cup {NoGroup}
    BY <2>1 DEF OrDefault
  <2>3. \E groups \in Groups : WithDefaults(pattern) = [pattern EXCEPT !.groups = groups]
    <3> DEFINE positioned == pattern.groups["location"] = NoGroup /\ pattern.kind # "file"
               groups ==
                 [target \in Targets |->
                    CASE target = "file" -> OrDefault(pattern.groups, "file", 1)
                      [] target = "message" -> OrDefault(pattern.groups, "message", 0)
                      [] target = "line" /\ positioned -> OrDefault(pattern.groups, "line", 2)
                      [] target = "column" /\ positioned ->
                           OrDefault(pattern.groups, "column", 3)
                      [] OTHER -> pattern.groups[target]]
    <3>1. WithDefaults(pattern) = [pattern EXCEPT !.groups = groups]
      BY DEF WithDefaults
    <3>2. /\ OrDefault(pattern.groups, "file", 1) \in Nat \cup {NoGroup}
          /\ OrDefault(pattern.groups, "message", 0) \in Nat \cup {NoGroup}
          /\ OrDefault(pattern.groups, "line", 2) \in Nat \cup {NoGroup}
          /\ OrDefault(pattern.groups, "column", 3) \in Nat \cup {NoGroup}
      BY <2>2 DEF Targets, Fields
    <3> HIDE DEF positioned
    <3>3. groups \in Groups
      BY <2>1, <3>2
    <3> HIDE DEF groups
    <3> QED  BY <3>1, <3>3
  <2> QED  BY <2>3 DEF RawPatterns
<1>2. CASE Len(patterns) = 1
  <2>1. Defaulted(patterns) = <<WithDefaults(patterns[1])>> /\ patterns[1] \in RawPatterns
    BY <1>2 DEF Defaulted
  <2>2. WithDefaults(patterns[1]) \in RawPatterns
        /\ WithDefaults(patterns[1]).kind = patterns[1].kind
    BY <1>1, <2>1
  <2>3. \A i \in 1..Len(patterns) : i = 1
    BY <1>2
  <2> HIDE DEF WithDefaults
  <2> QED  BY <1>2, <2>1, <2>2, <2>3
<1>3. CASE Len(patterns) # 1
  BY <1>3 DEF Defaulted
<1> QED  BY <1>2, <1>3

LEMMA CompiledIsUsable ==
  ASSUME NEW raw \in RawMatchers, IsValid(raw)
  PROVE  Compiled(raw) \in CompiledMatchers /\ WellFormed(Compiled(raw))
PROOF
<1> DEFINE patterns == Defaulted(raw.patterns)
<1>1. /\ raw.owner \in OptionalTexts /\ raw.owner # 0
      /\ raw.source \in OptionalTexts /\ raw.prefix \in OptionalTexts
      /\ raw.severity \in 0..3 \cup {-1} /\ raw.severity # -1
      /\ raw.patterns \in Seq(RawPatterns) /\ raw.patterns # <<>>
      /\ raw.patterns[1].kind # "invalid"
  BY DEF RawMatchers, IsValid
<1>2. ContractHolds(patterns) /\ \A i \in DOMAIN patterns : Compiles(patterns[i])
  BY DEF IsValid, PatternsCompile
<1>3. /\ patterns \in Seq(RawPatterns) /\ Len(patterns) = Len(raw.patterns)
      /\ \A i \in 1..Len(patterns) : patterns[i].kind = raw.patterns[i].kind
  BY <1>1, DefaultedType
<1> HIDE DEF patterns
<1>4. patterns # <<>> /\ 1 \in 1..Len(patterns)
  BY <1>1, <1>3
<1>5. ASSUME NEW i \in 1..Len(patterns) PROVE patterns[i] \in Patterns
  <2>1. patterns[i] \in RawPatterns
    BY <1>3
  <2>2. patterns[i].kind # "invalid"
    <3>1. i # 1 => patterns[i].kind = "none"
      BY <1>2, <1>3 DEF ContractHolds
    <3> QED  BY <1>1, <1>3, <1>4, <3>1
  <2>3. patterns[i].kind \in Kinds
    BY <2>1, <2>2 DEF RawPatterns, RawKinds
  <2> QED  BY <2>1, <2>3 DEF RawPatterns, Patterns
<1>6. patterns \in Seq(Patterns)
  BY <1>3, <1>5
<1>7. Compiled(raw) =
        [owner |-> raw.owner, source |-> raw.source, prefix |-> raw.prefix,
         severity |-> IF raw.severity = 0 THEN 1 ELSE raw.severity, patterns |-> patterns]
  BY DEF Compiled, patterns
<1>8. (IF raw.severity = 0 THEN 1 ELSE raw.severity) \in 1..3 /\ raw.owner \in Texts
  BY <1>1 DEF OptionalTexts
<1>9. Compiled(raw) \in CompiledMatchers
  BY <1>1, <1>6, <1>7, <1>8 DEF CompiledMatchers
<1>10. WellFormed(Compiled(raw))
  BY <1>2, <1>4, <1>7 DEF WellFormed
<1> QED  BY <1>9, <1>10

----------------------------------------------------------------------------
(* Replacing the definition of an owner *)

OtherOwners(all, definition) == {i \in DOMAIN all : all[i].owner # definition.owner}

(* The elements of all at the positions q, n of them, and then definition. *)
IsReplaced(r, n, q, all, definition) ==
  /\ Enumerates(q, n, OtherOwners(all, definition))
  /\ r \in Seq(CompiledMatchers)
  /\ Len(r) = n + 1
  /\ r[n + 1] = definition
  /\ \A i \in 1..n : /\ q[i] \in 1..Len(all)
                     /\ all[q[i]].owner # definition.owner
                     /\ r[i] = all[q[i]]

LEMMA ReplacedElements ==
  ASSUME NEW all \in Seq(CompiledMatchers), NEW definition \in CompiledMatchers
  PROVE  \E n \in Nat : \E q : IsReplaced(Replaced(all, definition), n, q, all, definition)
PROOF
<1> DEFINE P == OtherOwners(all, definition)
           rest == Picked(all, P)
<1>1. P \in SUBSET DOMAIN all
  BY DEF OtherOwners
<1>2. rest \in Seq(CompiledMatchers)
      /\ \E q : /\ Enumerates(q, Len(rest), P)
                /\ \A i \in 1..Len(rest) : rest[i] = all[q[i]]
  <2> HIDE DEF P
  <2> QED  BY <1>1, PickedType
<1>3. PICK q : Enumerates(q, Len(rest), P) /\ \A i \in 1..Len(rest) : rest[i] = all[q[i]]
  BY <1>2
<1>4. Replaced(all, definition) = Append(rest, definition)
  BY DEF Replaced, OtherOwners
<1> HIDE DEF rest
<1>5. \A i \in 1..Len(rest) : q[i] \in 1..Len(all) /\ all[q[i]].owner # definition.owner
  BY <1>3 DEF Enumerates, OtherOwners
<1>6. Len(rest) \in Nat
  BY <1>2
<1>7. /\ Append(rest, definition) \in Seq(CompiledMatchers)
      /\ Len(Append(rest, definition)) = Len(rest) + 1
      /\ Append(rest, definition)[Len(rest) + 1] = definition
      /\ \A i \in 1..Len(rest) : Append(rest, definition)[i] = rest[i]
  BY <1>2
<1>8. IsReplaced(Append(rest, definition), Len(rest), q, all, definition)
  BY <1>3, <1>5, <1>7 DEF IsReplaced
<1> QED  BY <1>4, <1>6, <1>8

LEMMA ReplacedStaysGood ==
  ASSUME NEW all \in Seq(CompiledMatchers), NEW definition \in CompiledMatchers,
         OwnersDiffer(all), AllWellFormed(all), WellFormed(definition)
  PROVE  OwnersDiffer(Replaced(all, definition)) /\ AllWellFormed(Replaced(all, definition))
PROOF
<1> DEFINE r == Replaced(all, definition)
<1>n. PICK n \in Nat : \E q : IsReplaced(r, n, q, all, definition)
  BY ReplacedElements
<1>q. PICK q : IsReplaced(r, n, q, all, definition)
  BY <1>n
<1>1. /\ Enumerates(q, n, OtherOwners(all, definition))
      /\ r \in Seq(CompiledMatchers)
      /\ Len(r) = n + 1
      /\ r[n + 1] = definition
      /\ \A i \in 1..n : /\ q[i] \in 1..Len(all) /\ all[q[i]].owner # definition.owner
                         /\ r[i] = all[q[i]]
  BY <1>q DEF IsReplaced
<1> HIDE DEF r
<1>2. DOMAIN r = 1..n + 1 /\ DOMAIN all = 1..Len(all)
  BY <1>1
<1>3. \A i \in 1..n + 1 : i = n + 1 \/ i \in 1..n
  OBVIOUS
<1>4. \A i \in 1..n : r[i].owner # definition.owner
  BY <1>1
<1>5. ASSUME NEW i \in 1..n, NEW j \in 1..n, r[i].owner = r[j].owner PROVE i = j
  <2>1. q[i] = q[j]
    BY <1>1, <1>2, <1>5 DEF OwnersDiffer
  <2>2. \A k, m \in 1..n : k < m => q[k] < q[m]
    BY <1>1 DEF Enumerates
  <2>3. q[i] \in Int /\ q[j] \in Int
    BY <1>1
  <2>4. i < j => q[i] < q[j]
    BY <2>2
  <2>5. j < i => q[j] < q[i]
    BY <2>2
  <2> QED  BY <2>1, <2>3, <2>4, <2>5
<1>6. OwnersDiffer(r)
  BY <1>1, <1>2, <1>3, <1>4, <1>5 DEF OwnersDiffer
<1>7. AllWellFormed(r)
  <2>1. \A i \in 1..n : WellFormed(r[i])
    BY <1>1, <1>2 DEF AllWellFormed
  <2> QED  BY <1>1, <1>2, <1>3, <2>1 DEF AllWellFormed
<1> QED  BY <1>6, <1>7 DEF r

LEMMA ConcatElements ==
  ASSUME NEW T, NEW s \in Seq(T), NEW t \in Seq(T)
  PROVE  /\ s \o t \in Seq(T) /\ Len(s \o t) = Len(s) + Len(t)
         /\ \A i \in 1..Len(s) : (s \o t)[i] = s[i]
         /\ \A i \in 1..Len(t) : (s \o t)[Len(s) + i] = t[i]
OBVIOUS

(* Replacing before or after makes no difference to the last definitions.  *)
LEMMA ReplacedKeepsLasts ==
  ASSUME NEW all \in Seq(CompiledMatchers), NEW later \in Seq(CompiledMatchers), later # <<>>
  PROVE  Promise!LastDefinitions(Replaced(all, Head(later)) \o Tail(later)) =
           Promise!LastDefinitions(all \o later)
PROOF
<1> DEFINE definition == Head(later)
           r == Replaced(all, definition)
           whole == all \o later
           part == r \o Tail(later)
<1>1. /\ definition \in CompiledMatchers /\ definition = later[1]
      /\ Tail(later) \in Seq(CompiledMatchers) /\ Len(Tail(later)) = Len(later) - 1
      /\ \A i \in 1..Len(later) - 1 : Tail(later)[i] = later[i + 1]
      /\ Len(later) \in Nat \ {0} /\ Len(all) \in Nat
  OBVIOUS
<1> HIDE DEF definition
<1>n. PICK n \in Nat : \E q : IsReplaced(r, n, q, all, definition)
  BY <1>1, ReplacedElements
<1>q. PICK q : IsReplaced(r, n, q, all, definition)
  BY <1>n
<1>2. /\ Enumerates(q, n, OtherOwners(all, definition))
      /\ r \in Seq(CompiledMatchers)
      /\ Len(r) = n + 1
      /\ r[n + 1] = definition
      /\ \A i \in 1..n : /\ q[i] \in 1..Len(all) /\ all[q[i]].owner # definition.owner
                         /\ r[i] = all[q[i]]
  BY <1>q DEF IsReplaced
<1> HIDE DEF r
<1> DEFINE a == Len(all)
           b == Len(later)
<1>3. /\ whole \in Seq(CompiledMatchers) /\ Len(whole) = a + b
      /\ \A i \in 1..a : whole[i] = all[i]
      /\ \A i \in 1..b : whole[a + i] = later[i]
  BY <1>1
<1>4. /\ part \in Seq(CompiledMatchers) /\ Len(part) = n + b
      /\ \A i \in 1..n + 1 : part[i] = r[i]
      /\ \A i \in 1..b - 1 : part[n + 1 + i] = later[i + 1]
  <2> DEFINE tail == Tail(later)
  <2>1. /\ tail \in Seq(CompiledMatchers) /\ Len(tail) = b - 1
        /\ \A i \in 1..b - 1 : tail[i] = later[i + 1]
        /\ b \in Nat \ {0}
    BY <1>1
  <2> HIDE DEF tail, b
  <2>2. part = r \o tail
    BY DEF tail
  <2> HIDE DEF part
  <2>3. r \in Seq(CompiledMatchers)
    BY <1>2
  <2>4. /\ part \in Seq(CompiledMatchers) /\ Len(part) = Len(r) + Len(tail)
        /\ \A i \in 1..Len(r) : part[i] = r[i]
        /\ \A i \in 1..Len(tail) : part[Len(r) + i] = tail[i]
    <3>1. tail \in Seq(CompiledMatchers)
      BY <2>1
    <3>2. /\ r \o tail \in Seq(CompiledMatchers) /\ Len(r \o tail) = Len(r) + Len(tail)
          /\ \A i \in 1..Len(r) : (r \o tail)[i] = r[i]
          /\ \A i \in 1..Len(tail) : (r \o tail)[Len(r) + i] = tail[i]
      BY <2>3, <3>1, ConcatElements
    <3> QED  BY <2>2, <3>2
  <2>5. Len(r) = n + 1 /\ (n + 1) + (b - 1) = n + b
    BY <1>2, <2>1
  <2> QED  BY <2>1, <2>4, <2>5
<1>5. \A i \in 1..b : part[n + i] = later[i]
  <2> SUFFICES ASSUME NEW i \in 1..b PROVE part[n + i] = later[i]
    OBVIOUS
  <2>1. CASE i = 1
    BY <1>1, <1>2, <1>4, <2>1
  <2>2. CASE i # 1
    <3>1. i - 1 \in 1..b - 1 /\ n + 1 + (i - 1) = n + i /\ (i - 1) + 1 = i
      BY <1>1, <2>2
    <3> QED  BY <1>4, <3>1
  <2> QED  BY <2>1, <2>2
<1> HIDE DEF whole, part
<1> DEFINE p == [i \in 1..n + b |-> IF i <= n THEN q[i] ELSE a + (i - n)]
<1>6. /\ \A i \in 1..n : p[i] = q[i] /\ p[i] \in 1..a
      /\ \A i \in 1..b : p[n + i] = a + i
  <2>1. \A i \in 1..n : i \in 1..n + b /\ i <= n
    BY <1>1
  <2>2. \A i \in 1..b : n + i \in 1..n + b /\ ~(n + i <= n) /\ a + ((n + i) - n) = a + i
    BY <1>1
  <2> QED  BY <1>2, <2>1, <2>2
<1>7. \A i \in 1..n + b : i \in 1..n \/ (i - n \in 1..b /\ n + (i - n) = i)
  BY <1>1
<1>t. p \in [1..n + b -> 1..a + b]
  <2>1. \A i \in 1..n + b : p[i] \in 1..a + b
    <3> SUFFICES ASSUME NEW i \in 1..n + b PROVE p[i] \in 1..a + b
      OBVIOUS
    <3>1. CASE i \in 1..n
      <4>1. p[i] \in 1..a
        BY <1>6, <3>1
      <4> HIDE DEF p
      <4> QED  BY <1>1, <4>1
    <3>2. CASE i - n \in 1..b /\ n + (i - n) = i
      <4>1. p[i] = a + (i - n)
        BY <1>6, <3>2
      <4> HIDE DEF p
      <4> QED  BY <1>1, <3>2, <4>1
    <3> QED  BY <1>7, <3>1, <3>2
  <2> QED  BY <2>1
<1> HIDE DEF p, a, b
<1>8. \A i, j \in 1..n + b : i < j => p[i] < p[j]
  <2> SUFFICES ASSUME NEW i \in 1..n + b, NEW j \in 1..n + b, i < j PROVE p[i] < p[j]
    OBVIOUS
  <2>1. CASE i \in 1..n /\ j \in 1..n
    BY <1>2, <1>6, <2>1 DEF Enumerates
  <2>2. CASE i \in 1..n /\ j \notin 1..n
    <3>1. p[i] \in 1..a /\ p[j] = a + (j - n) /\ j - n \in 1..b
      BY <1>6, <1>7, <2>2
    <3> QED  BY <1>1, <3>1 DEF a
  <2>3. CASE i \notin 1..n
    <3>1. j \notin 1..n
      BY <2>3
    <3>2. p[i] = a + (i - n) /\ p[j] = a + (j - n)
      BY <1>6, <1>7, <2>3, <3>1
    <3> QED  BY <1>1, <3>2 DEF a
  <2> QED  BY <2>1, <2>2, <2>3
<1>9. \A i \in 1..n + b : part[i] = whole[p[i]]
  <2> SUFFICES ASSUME NEW i \in 1..n + b PROVE part[i] = whole[p[i]]
    OBVIOUS
  <2>1. CASE i \in 1..n
    <3>1. i \in 1..n + 1
      BY <2>1
    <3> QED  BY <1>2, <1>3, <1>4, <1>6, <2>1, <3>1
  <2>2. CASE i - n \in 1..b /\ n + (i - n) = i
    <3>1. part[i] = later[i - n] /\ p[i] = a + (i - n)
      BY <1>5, <1>6, <2>2
    <3> QED  BY <1>3, <2>2, <3>1
  <2> QED  BY <1>7, <2>1, <2>2
<1>10. \A k \in 1..a + b : IsLastDefinition(whole, k) => \E i \in 1..n + b : p[i] = k
  <2> SUFFICES ASSUME NEW k \in 1..a + b, IsLastDefinition(whole, k) PROVE \E i \in 1..n + b : p[i] = k
    OBVIOUS
  <2>1. CASE k \in 1..a
    <3>1. a + 1 \in DOMAIN whole /\ whole[a + 1] = definition
      <4>1. 1 \in 1..b /\ a + 1 \in 1..a + b
        BY <1>1 DEF a, b
      <4> QED  BY <1>1, <1>3, <4>1
    <3>2. ~(a + 1 <= k)
      BY <1>1, <2>1 DEF a
    <3>3. all[k].owner # definition.owner
      BY <1>3, <2>1, <3>1, <3>2 DEF IsLastDefinition
    <3>4. k \in OtherOwners(all, definition)
      BY <2>1, <3>3 DEF OtherOwners, a
    <3>5. PICK i \in 1..n : q[i] = k
      BY <1>2, <3>4 DEF Enumerates
    <3>6. i \in 1..n + b
      BY <1>1 DEF b
    <3> QED  BY <1>6, <3>5, <3>6
  <2>2. CASE k \notin 1..a
    <3>1. k - a \in 1..b /\ n + (k - a) \in 1..n + b /\ a + (k - a) = k
      BY <1>1, <2>2 DEF a, b
    <3> QED  BY <1>6, <3>1
  <2> QED  BY <2>1, <2>2
<1>11. IsPart(part, whole, p)
  BY <1>3, <1>4, <1>t, <1>8, <1>9, <1>10 DEF IsPart
<1>12. Promise!LastDefinitions(part) = Promise!LastDefinitions(whole)
  BY <1>3, <1>4, <1>11, LastsOfPart
<1> QED  BY <1>12 DEF part, whole, r, definition

----------------------------------------------------------------------------
(* What the registry would hold at the end *)

LEMMA DefinitionsType ==
  ASSUME NEW document \in DocumentType, Usable(document)
  PROVE  DefinitionsOf(document) \in Seq(CompiledMatchers)
PROOF
<1>1. document.entries \in Seq(RawMatchers)
  BY DEF DocumentType
<1>2. \A i \in DOMAIN document.entries :
        document.entries[i] \in RawMatchers /\ IsValid(document.entries[i])
  BY <1>1 DEF Usable
<1>3. \A i \in DOMAIN document.entries : Compiled(document.entries[i]) \in CompiledMatchers
  BY <1>2, CompiledIsUsable
<1>4. DOMAIN document.entries = 1..Len(document.entries) /\ Len(document.entries) \in Nat
  BY <1>1
<1> QED  BY <1>3, <1>4 DEF DefinitionsOf

(* With owners that differ there are as many of them as definitions.       *)
LEMMA WithinIsInLimits ==
  ASSUME NEW all \in Seq(CompiledMatchers), OwnersDiffer(all)
  PROVE  Within(all) <=> InLimits(all)
PROOF
<1> DEFINE n == Len(all)
           owners == {definition.owner : definition \in Range(all)}
           owner == [i \in 1..n |-> all[i].owner]
<1>1. n \in Nat /\ DOMAIN all = 1..n
  OBVIOUS
<1>2. owners = {all[i].owner : i \in 1..n}
  BY <1>1 DEF Range
<1> HIDE DEF n, owners
<1>3. owner \in Bijection(1..n, owners)
  <2>1. owner \in [1..n -> owners]
    BY <1>2
  <2>2. \A i, j \in 1..n : owner[i] = owner[j] => i = j
    BY <1>1 DEF OwnersDiffer
  <2>3. \A e \in owners : \E i \in 1..n : owner[i] = e
    BY <1>2
  <2> HIDE DEF owner
  <2> QED  BY <2>1, <2>2, <2>3, Fun_IsBij
<1>4. Cardinality(owners) = n
  <2>1. IsFiniteSet(1..n) /\ Cardinality(1..n) = n
    BY <1>1, FS_Interval
  <2>2. ExistsBijection(1..n, owners)
    BY <1>3, Fun_ExistsBij
  <2> QED  BY <2>1, <2>2, FS_Bijection
<1> QED  BY <1>4 DEF Within, InLimits, n, owners

(* What is about to be installed is what the promise loads.                *)
LEMMA InstallsLoaded ==
  ASSUME RegistryIInv, stage = "replace", compiled = <<>>
  PROVE  /\ next = Promise!Loaded(call)
         /\ Within(next) <=> InLimits(next)
         /\ Usable(call) /\ call # NoCall
PROOF
<1>1. /\ next \in Seq(CompiledMatchers) /\ OwnersDiffer(next)
      /\ Usable(call)
      /\ Promise!LastDefinitions(next \o compiled) = Promise!Loaded(call)
  BY DEF RegistryIInv, RegistryTypeOK, ReplacedSoFar
<1>2. next \o compiled = next
  BY <1>1, ConcatEmptySeq
<1>3. Promise!LastDefinitions(next) = next
  BY <1>1, LastsOfDifferent
<1>4. call # NoCall
  BY <1>1 DEF Usable, NoCall
<1> QED  BY <1>1, <1>2, <1>3, <1>4, WithinIsInLimits

(* When no definition is left all of the document's are compiled.          *)
LEMMA AllCompiled ==
  ASSUME RegistryIInv, stage = "compile", entries = <<>>
  PROVE  Usable(call) /\ compiled = DefinitionsOf(call)
PROOF
<1>1. /\ compiled \in Seq(CompiledMatchers) /\ call \in DocumentType
      /\ Readable(call)
      /\ Len(compiled) + Len(entries) = Len(call.entries)
      /\ \A i \in 1..Len(compiled) :
           IsValid(call.entries[i]) /\ compiled[i] = Compiled(call.entries[i])
  BY DEF RegistryIInv, RegistryTypeOK, CompiledSoFar
<1>2. call.entries \in Seq(RawMatchers)
  BY <1>1 DEF DocumentType
<1>3. Len(compiled) = Len(call.entries)
  BY <1>1, <1>2
<1>4. DOMAIN call.entries = 1..Len(compiled)
  BY <1>2, <1>3
<1>5. Usable(call)
  BY <1>1, <1>4 DEF Usable, Readable
<1>6. compiled = [i \in 1..Len(compiled) |-> compiled[i]]
  BY <1>1
<1>7. DefinitionsOf(call) = [i \in 1..Len(compiled) |-> Compiled(call.entries[i])]
  BY <1>4 DEF DefinitionsOf
<1>8. [i \in 1..Len(compiled) |-> compiled[i]] =
        [i \in 1..Len(compiled) |-> Compiled(call.entries[i])]
  BY <1>1
<1> QED  BY <1>5, <1>6, <1>7, <1>8

(* The definition that is looked at is one of the document's.              *)
LEMMA NextDefinition ==
  ASSUME RegistryIInv, stage = "compile", entries # <<>>
  PROVE  /\ Len(compiled) + 1 \in DOMAIN call.entries
         /\ Head(entries) = call.entries[Len(compiled) + 1]
         /\ Head(entries) \in RawMatchers
         /\ call # NoCall
PROOF
<1>1. /\ compiled \in Seq(CompiledMatchers) /\ call \in DocumentType
      /\ entries \in Seq(RawMatchers)
      /\ Readable(call)
      /\ Len(compiled) + Len(entries) = Len(call.entries)
      /\ \A i \in 1..Len(entries) : entries[i] = call.entries[Len(compiled) + i]
  BY DEF RegistryIInv, RegistryTypeOK, CompiledSoFar
<1>2. call.entries \in Seq(RawMatchers)
  BY <1>1 DEF DocumentType
<1>3. 1 \in 1..Len(entries) /\ Head(entries) = entries[1] /\ Head(entries) \in RawMatchers
  BY <1>1
<1>4. Len(compiled) \in Nat /\ Len(entries) \in Nat /\ Len(entries) # 0
  BY <1>1
<1>5. Len(compiled) + 1 \in 1..Len(call.entries)
  BY <1>1, <1>4
<1>6. call # NoCall
  BY <1>1 DEF Readable, NoCall
<1> QED  BY <1>1, <1>2, <1>3, <1>5, <1>6

----------------------------------------------------------------------------
(* The invariant *)

LEMMA InitInvariant ==
  ASSUME RegistryInit PROVE RegistryIInv
PROOF
<1>1. NoCall \in DocumentType
  BY DEF NoCall, DocumentType
<1>2. RegistryTypeOK
  BY <1>1 DEF RegistryInit, RegistryTypeOK
<1> QED  BY <1>2 DEF RegistryInit, RegistryIInv, NothingLeft, CompiledSoFar, ReplacedSoFar, OwnersDiffer,
              AllWellFormed

LEMMA FailsInvariant ==
  ASSUME RegistryIInv, Fails, UNCHANGED calls PROVE RegistryIInv'
PROOF
<1>1. NoCall \in DocumentType
  BY DEF NoCall, DocumentType
<1>2. RegistryTypeOK'
  BY <1>1 DEF RegistryIInv, RegistryTypeOK, Fails
<1>3. NothingLeft' /\ CompiledSoFar' /\ ReplacedSoFar'
  BY DEF Fails, NothingLeft, CompiledSoFar, ReplacedSoFar
<1>4. OwnersDiffer(next') /\ OwnersDiffer(matchers')
  BY DEF RegistryIInv, Fails, OwnersDiffer
<1>5. AllWellFormed(compiled') /\ AllWellFormed(next') /\ AllWellFormed(matchers')
  BY DEF RegistryIInv, Fails, AllWellFormed
<1> QED  BY <1>2, <1>3, <1>4, <1>5 DEF RegistryIInv

LEMMA CompileNextInvariant ==
  ASSUME RegistryIInv, CompileNext PROVE RegistryIInv'
PROOF
<1> DEFINE head == Head(entries)
           done == Len(compiled)
<1>1. CASE Fails
  BY <1>1, FailsInvariant DEF CompileNext
<1>2. CASE /\ IsValid(Head(entries))
           /\ compiled' = Append(compiled, Compiled(Head(entries)))
           /\ entries' = Tail(entries)
           /\ UNCHANGED <<stage, call, next, matchers>>
  <2>1. /\ stage = "compile" /\ entries # <<>>
        /\ IsValid(head)
        /\ compiled' = Append(compiled, Compiled(head)) /\ entries' = Tail(entries)
        /\ UNCHANGED <<stage, call, next, matchers, calls>>
    BY <1>2 DEF CompileNext
  <2>2. /\ done + 1 \in DOMAIN call.entries /\ head = call.entries[done + 1]
        /\ head \in RawMatchers
    BY <2>1, NextDefinition
  <2>3. Compiled(head) \in CompiledMatchers /\ WellFormed(Compiled(head))
    BY <2>1, <2>2, CompiledIsUsable
  <2>4. /\ compiled \in Seq(CompiledMatchers) /\ entries \in Seq(RawMatchers)
        /\ Readable(call)
        /\ Len(compiled) + Len(entries) = Len(call.entries)
        /\ \A i \in 1..Len(compiled) :
             IsValid(call.entries[i]) /\ compiled[i] = Compiled(call.entries[i])
        /\ \A i \in 1..Len(entries) : entries[i] = call.entries[Len(compiled) + i]
    BY <2>1 DEF RegistryIInv, RegistryTypeOK, CompiledSoFar
  <2> HIDE DEF head
  <2>5. /\ compiled' \in Seq(CompiledMatchers) /\ Len(compiled') = done + 1
        /\ compiled'[done + 1] = Compiled(head)
        /\ \A i \in 1..done : compiled'[i] = compiled[i]
        /\ done \in Nat
    BY <2>1, <2>3, <2>4
  <2>6. /\ entries' \in Seq(RawMatchers) /\ Len(entries') = Len(entries) - 1
        /\ \A i \in 1..Len(entries) - 1 : entries'[i] = entries[i + 1]
        /\ Len(entries) \in Nat \ {0}
    BY <2>1, <2>4
  <2>7. RegistryTypeOK'
    BY <2>1, <2>5, <2>6 DEF RegistryIInv, RegistryTypeOK
  <2>8. CompiledSoFar'
    <3>1. Len(compiled') + Len(entries') = Len(call'.entries)
      <4>1. call'.entries = call.entries
        BY <2>1
      <4>2. done + Len(entries) = Len(call.entries)
        BY <2>4
      <4> HIDE DEF done
      <4>3. (done + 1) + (Len(entries) - 1) = done + Len(entries)
        BY <2>5, <2>6
      <4> QED  BY <2>5, <2>6, <4>1, <4>2, <4>3
    <3>2. ASSUME NEW i \in 1..done + 1
          PROVE  IsValid(call.entries[i]) /\ compiled'[i] = Compiled(call.entries[i])
      <4>1. i \in 1..done \/ i = done + 1
        BY <2>5
      <4> QED  BY <2>1, <2>2, <2>4, <2>5, <4>1
    <3>3. ASSUME NEW i \in 1..Len(entries) - 1
          PROVE  entries'[i] = call.entries[(done + 1) + i]
      <4>1. i + 1 \in 1..Len(entries) /\ done + (i + 1) = (done + 1) + i
        BY <2>5, <2>6
      <4> QED  BY <2>4, <2>6, <4>1
    <3> HIDE DEF done
    <3> QED  BY <2>1, <2>4, <2>5, <2>6, <3>1, <3>2, <3>3 DEF CompiledSoFar, Readable
  <2>9. NothingLeft' /\ ReplacedSoFar'
    BY <2>1 DEF RegistryIInv, NothingLeft, ReplacedSoFar
  <2>10. AllWellFormed(compiled')
    <3>1. \A i \in 1..done + 1 : i \in 1..done \/ i = done + 1
      BY <2>5
    <3>2. DOMAIN compiled' = 1..done + 1 /\ DOMAIN compiled = 1..done
      BY <2>4, <2>5
    <3>3. \A i \in 1..done : WellFormed(compiled[i])
      BY <3>2 DEF RegistryIInv, AllWellFormed
    <3> HIDE DEF done
    <3> QED  BY <2>3, <2>5, <3>1, <3>2, <3>3 DEF AllWellFormed
  <2> QED  BY <2>1, <2>7, <2>8, <2>9, <2>10 DEF RegistryIInv
<1> QED  BY <1>1, <1>2 DEF CompileNext

LEMMA ReplaceNextInvariant ==
  ASSUME RegistryIInv, ReplaceNext PROVE RegistryIInv'
PROOF
<1> DEFINE head == Head(compiled)
           tail == Tail(compiled)
<1>1. /\ stage = "replace" /\ compiled # <<>>
      /\ next' = Replaced(next, head) /\ compiled' = tail
      /\ UNCHANGED <<stage, call, entries, matchers, calls>>
  BY DEF ReplaceNext
<1>2. /\ compiled \in Seq(CompiledMatchers) /\ next \in Seq(CompiledMatchers)
      /\ OwnersDiffer(next) /\ AllWellFormed(next) /\ AllWellFormed(compiled)
      /\ Usable(call) /\ entries = <<>>
      /\ Promise!LastDefinitions(next \o compiled) = Promise!Loaded(call)
  BY <1>1 DEF RegistryIInv, RegistryTypeOK, ReplacedSoFar
<1>3. /\ head \in CompiledMatchers /\ head = compiled[1] /\ 1 \in DOMAIN compiled
      /\ tail \in Seq(CompiledMatchers)
      /\ \A i \in DOMAIN tail : i + 1 \in DOMAIN compiled /\ tail[i] = compiled[i + 1]
  BY <1>1, <1>2
<1>4. Promise!LastDefinitions(Replaced(next, head) \o tail) = Promise!Loaded(call)
  BY <1>1, <1>2, ReplacedKeepsLasts
<1> HIDE DEF head, tail
<1>5. WellFormed(head) /\ AllWellFormed(tail)
  BY <1>2, <1>3 DEF AllWellFormed
<1>6. OwnersDiffer(next') /\ AllWellFormed(next')
  BY <1>1, <1>2, <1>3, <1>5, ReplacedStaysGood
<1>7. next' \in Seq(CompiledMatchers)
  <2>1. PICK n \in Nat : \E q : IsReplaced(Replaced(next, head), n, q, next, head)
    BY <1>2, <1>3, ReplacedElements
  <2> QED  BY <1>1, <2>1 DEF IsReplaced
<1>8. RegistryTypeOK'
  BY <1>1, <1>3, <1>7 DEF RegistryIInv, RegistryTypeOK
<1>9. ReplacedSoFar'
  <2>1. Promise!Loaded(call)' = Promise!Loaded(call)
    BY <1>1 DEF Promise!Loaded
  <2>2. Promise!LastDefinitions(next \o compiled)' = Promise!LastDefinitions(next' \o compiled')
    BY DEF Promise!LastDefinitions, Promise!IsLastOfOwner, Promise!Picked, Promise!Rank
  <2> QED  BY <1>1, <1>2, <1>4, <2>1, <2>2 DEF ReplacedSoFar, Usable
<1>10. NothingLeft' /\ CompiledSoFar'
  BY <1>1 DEF NothingLeft, CompiledSoFar
<1> QED  BY <1>1, <1>5, <1>6, <1>8, <1>9, <1>10 DEF RegistryIInv

LEMMA CallsInvariant ==
  ASSUME RegistryIInv, CheckDocument \/ \E document \in Documents : AddJson(document)
  PROVE  RegistryIInv'
PROOF
<1>1. ASSUME NEW document \in Documents, AddJson(document) PROVE RegistryIInv'
  <2>1. document \in DocumentType
    BY MatcherRegistryAssumption
  <2>2. /\ stage = "idle" /\ stage' = "check" /\ call' = document /\ calls' = calls + 1
        /\ UNCHANGED <<entries, compiled, next, matchers>>
    BY <1>1 DEF AddJson
  <2>3. RegistryTypeOK'
    BY <2>1, <2>2 DEF RegistryIInv, RegistryTypeOK
  <2>4. NothingLeft' /\ CompiledSoFar' /\ ReplacedSoFar'
    BY <2>2 DEF RegistryIInv, NothingLeft, CompiledSoFar, ReplacedSoFar
  <2>5. /\ OwnersDiffer(next') /\ OwnersDiffer(matchers')
        /\ AllWellFormed(compiled') /\ AllWellFormed(next') /\ AllWellFormed(matchers')
    BY <2>2 DEF RegistryIInv
  <2> QED  BY <2>3, <2>4, <2>5 DEF RegistryIInv
<1>2. CASE CheckDocument /\ Fails
  BY <1>2, FailsInvariant DEF CheckDocument
<1>3. CASE /\ stage = "check" /\ Readable(call) /\ stage' = "compile"
           /\ entries' = call.entries
           /\ UNCHANGED <<call, compiled, next, matchers, calls>>
  <2>1. call.entries \in Seq(RawMatchers) /\ compiled = <<>> /\ next = <<>>
    BY <1>3 DEF RegistryIInv, RegistryTypeOK, DocumentType, NothingLeft
  <2>2. RegistryTypeOK'
    BY <1>3, <2>1 DEF RegistryIInv, RegistryTypeOK
  <2>3. NothingLeft' /\ ReplacedSoFar'
    BY <1>3, <2>1 DEF NothingLeft, ReplacedSoFar
  <2>4. Len(compiled') = 0 /\ Len(call.entries) \in Nat
    BY <1>3, <2>1
  <2>5. CompiledSoFar'
    BY <1>3, <2>4 DEF CompiledSoFar, Readable
  <2>6. /\ OwnersDiffer(next') /\ OwnersDiffer(matchers')
        /\ AllWellFormed(compiled') /\ AllWellFormed(next') /\ AllWellFormed(matchers')
    BY <1>3 DEF RegistryIInv
  <2> QED  BY <2>2, <2>3, <2>5, <2>6 DEF RegistryIInv
<1> QED  BY <1>1, <1>2, <1>3 DEF CheckDocument

LEMMA CopyRegistryInvariant ==
  ASSUME RegistryIInv, CopyRegistry PROVE RegistryIInv'
PROOF
<1>1. /\ stage = "compile" /\ entries = <<>> /\ stage' = "replace" /\ next' = matchers
      /\ UNCHANGED <<call, entries, compiled, matchers, calls>>
  BY DEF CopyRegistry
<1>2. Usable(call) /\ compiled = DefinitionsOf(call)
  BY <1>1, AllCompiled
<1>3. RegistryTypeOK'
  BY <1>1 DEF RegistryIInv, RegistryTypeOK
<1>4. NothingLeft' /\ CompiledSoFar'
  BY <1>1 DEF NothingLeft, CompiledSoFar
<1>5. ReplacedSoFar'
  <2>1. Promise!LastDefinitions(matchers \o compiled) = Promise!Loaded(call)
    BY <1>2 DEF Promise!Loaded
  <2>2. Promise!Loaded(call)' = Promise!Loaded(call)
    BY <1>1 DEF Promise!Loaded
  <2>3. Promise!LastDefinitions(next \o compiled)' = Promise!LastDefinitions(next' \o compiled')
    BY DEF Promise!LastDefinitions, Promise!IsLastOfOwner, Promise!Picked, Promise!Rank
  <2> QED  BY <1>1, <1>2, <2>1, <2>2, <2>3 DEF ReplacedSoFar, Usable
<1>6. /\ OwnersDiffer(next') /\ OwnersDiffer(matchers')
      /\ AllWellFormed(compiled') /\ AllWellFormed(next') /\ AllWellFormed(matchers')
  BY <1>1 DEF RegistryIInv
<1> QED  BY <1>3, <1>4, <1>5, <1>6 DEF RegistryIInv

LEMMA InstallInvariant ==
  ASSUME RegistryIInv, Install PROVE RegistryIInv'
PROOF
<1>1. CASE Fails
  BY <1>1, FailsInvariant DEF Install
<1>2. CASE /\ matchers' = next /\ stage' = "idle" /\ call' = NoCall /\ next' = <<>>
           /\ UNCHANGED <<entries, compiled>>
  <2>1. stage = "replace" /\ compiled = <<>> /\ entries = <<>> /\ UNCHANGED calls
    BY DEF Install, RegistryIInv, ReplacedSoFar
  <2>2. NoCall \in DocumentType
    BY DEF NoCall, DocumentType
  <2>3. RegistryTypeOK'
    BY <1>2, <2>1, <2>2 DEF RegistryIInv, RegistryTypeOK
  <2>4. NothingLeft' /\ CompiledSoFar' /\ ReplacedSoFar'
    BY <1>2, <2>1 DEF NothingLeft, CompiledSoFar, ReplacedSoFar
  <2>5. OwnersDiffer(next')
    BY <1>2 DEF OwnersDiffer
  <2>6. AllWellFormed(next')
    BY <1>2 DEF AllWellFormed
  <2>7. OwnersDiffer(matchers') /\ AllWellFormed(compiled') /\ AllWellFormed(matchers')
    BY <1>2 DEF RegistryIInv
  <2> QED  BY <2>3, <2>4, <2>5, <2>6, <2>7 DEF RegistryIInv
<1> QED  BY <1>1, <1>2 DEF Install

LEMMA StutterInvariant ==
  ASSUME RegistryIInv, UNCHANGED registry_vars PROVE RegistryIInv'
PROOF
<1>1. UNCHANGED <<stage, call, entries, compiled, next, matchers, calls>>
  BY DEF registry_vars
<1>2. RegistryTypeOK' /\ NothingLeft' /\ CompiledSoFar'
  BY <1>1 DEF RegistryIInv, RegistryTypeOK, NothingLeft, CompiledSoFar
<1>3. ReplacedSoFar'
  <2>1. Promise!Loaded(call)' = Promise!Loaded(call)
    BY <1>1 DEF Promise!Loaded
  <2>2. Promise!LastDefinitions(next \o compiled)' = Promise!LastDefinitions(next \o compiled)
    BY <1>1 DEF Promise!LastDefinitions, Promise!IsLastOfOwner, Promise!Picked, Promise!Rank
  <2> QED  BY <1>1, <2>1, <2>2 DEF RegistryIInv, ReplacedSoFar, Usable
<1> QED  BY <1>1, <1>2, <1>3 DEF RegistryIInv

LEMMA NextInvariant ==
  ASSUME RegistryIInv, [RegistryNext]_registry_vars PROVE RegistryIInv'
PROOF
<1>1. CASE CheckDocument \/ \E document \in Documents : AddJson(document)
  BY <1>1, CallsInvariant
<1>2. CASE CompileNext
  BY <1>2, CompileNextInvariant
<1>3. CASE CopyRegistry
  BY <1>3, CopyRegistryInvariant
<1>4. CASE ReplaceNext
  BY <1>4, ReplaceNextInvariant
<1>5. CASE Install
  BY <1>5, InstallInvariant
<1>6. CASE RegistryDone \/ UNCHANGED registry_vars
  BY <1>6, StutterInvariant DEF RegistryDone
<1> QED  BY <1>1, <1>2, <1>3, <1>4, <1>5, <1>6 DEF RegistryNext

(* The registry and the one that is made hold well formed definitions of   *)
(* owners that differ, and what is left to do leads to what the document   *)
(* promises.                                                               *)
THEOREM RegistryInvariant == RegistrySpec => []RegistryIInv
PROOF
<1>1. RegistryInit => RegistryIInv
  BY InitInvariant
<1>2. RegistryIInv /\ [RegistryNext]_registry_vars => RegistryIInv'
  BY NextInvariant
<1> QED  BY <1>1, <1>2, PTL DEF RegistrySpec

(* Whatever is loaded, and whatever fails: the parser can run what the     *)
(* registry holds (ProblemMatcherParser indexes patterns and groups        *)
(* without a check).                                                       *)
THEOREM InstalledAlwaysReports == RegistrySpec => []InstalledCanReport
PROOF
<1>1. RegistryIInv => InstalledCanReport
  <2> SUFFICES ASSUME RegistryIInv, NEW i \in DOMAIN matchers
               PROVE  LET patterns == matchers[i].patterns
                          captured(target) ==
                            \E n \in DOMAIN patterns : patterns[n].groups[target] # NoGroup
                      IN  /\ Len(patterns) >= 1
                          /\ captured("file") /\ captured("message")
                          /\ patterns[1].kind = "file" \/ captured("line")
                             \/ captured("location")
                          /\ \A n \in 1..(Len(patterns) - 1) : ~patterns[n].loop
                          /\ Len(patterns) = 1 => ~patterns[1].loop
                          /\ \A n \in DOMAIN patterns : \A target \in Targets :
                               patterns[n].groups[target] < GroupCount[patterns[n].regex]
    BY DEF InstalledCanReport
  <2> DEFINE patterns == matchers[i].patterns
             captured(target) ==
               \E n \in DOMAIN patterns : patterns[n].groups[target] # NoGroup
  <2>1. /\ patterns \in Seq(Patterns) /\ patterns # <<>>
        /\ ContractHolds(patterns)
        /\ \A n \in DOMAIN patterns : Compiles(patterns[n])
    <3>1. matchers[i] \in CompiledMatchers
      BY DEF RegistryIInv, RegistryTypeOK
    <3>2. WellFormed(matchers[i])
      BY DEF RegistryIInv, AllWellFormed
    <3> QED  BY <3>1, <3>2 DEF WellFormed, CompiledMatchers
  <2> HIDE DEF patterns
  <2>2. Len(patterns) \in Nat /\ Len(patterns) >= 1 /\ DOMAIN patterns = 1..Len(patterns)
    BY <2>1
  <2>3. /\ captured("file") /\ captured("message")
        /\ patterns[1].kind = "file" \/ captured("line") \/ captured("location")
    BY <2>1 DEF ContractHolds, SomeNames, Names
  <2>4. ASSUME NEW n \in 1..Len(patterns), patterns[n].loop
        PROVE  n = Len(patterns) /\ Len(patterns) # 1
    BY <2>1, <2>2, <2>4 DEF ContractHolds, LoopsLast
  <2>5. ASSUME NEW n \in 1..(Len(patterns) - 1) PROVE ~patterns[n].loop
    <3>1. \A k \in Nat : n \in 1..(k - 1) => n \in 1..k /\ n # k
      OBVIOUS
    <3> QED  BY <2>2, <2>4, <3>1
  <2>6. Len(patterns) = 1 => ~patterns[1].loop
    BY <2>2, <2>4
  <2>7. \A n \in DOMAIN patterns : \A target \in Targets :
          patterns[n].groups[target] < GroupCount[patterns[n].regex]
    BY <2>1 DEF Compiles, GroupsExist
  <2> QED  BY <2>2, <2>3, <2>5, <2>6, <2>7 DEF patterns
<1> QED  BY <1>1, RegistryInvariant, PTL

(* The two assumptions ProblemMatcher makes of its matchers                *)
(* (ProblemMatcherAssumption) hold of every registry a parser can be made  *)
(* from (ProblemMatcherParser::new takes the registry as it is).           *)
THEOREM InstalledAreMatchers ==
  RegistrySpec => []( /\ matchers \in Seq(CompiledMatchers)
                      /\ \A m \in DOMAIN matchers : WellFormed(matchers[m]) )
PROOF
<1>1. RegistryIInv => /\ matchers \in Seq(CompiledMatchers)
                     /\ \A m \in DOMAIN matchers : WellFormed(matchers[m])
  BY DEF RegistryIInv, RegistryTypeOK, AllWellFormed
<1> QED  BY <1>1, RegistryInvariant, PTL

----------------------------------------------------------------------------
(* The refinement *)

LEMMA FailsReturns ==
  ASSUME Fails, call # NoCall, ~Usable(call) \/ ~InLimits(Promise!Loaded(call))
  PROVE  Promise!Return
PROOF
  BY DEF Fails, Promise!Return

LEMMA StepReturns ==
  ASSUME RegistryIInv, CheckDocument \/ CompileNext \/ Install
  PROVE  [Promise!Next]_Promise!vars
PROOF
<1>1. CASE UNCHANGED <<call, matchers>>
  BY <1>1 DEF Promise!vars
<1>2. CASE call = NoCall /\ Fails
  BY <1>2 DEF Fails, Promise!vars
<1>3. CASE CheckDocument /\ ~Readable(call) /\ Fails /\ call # NoCall
  <2>1. ~Usable(call)
    BY <1>3 DEF Readable, Usable
  <2> QED  BY <1>3, <2>1, FailsReturns DEF Promise!Next
<1>4. CASE CompileNext /\ ~IsValid(Head(entries)) /\ Fails
  <2>1. /\ Len(compiled) + 1 \in DOMAIN call.entries
        /\ Head(entries) = call.entries[Len(compiled) + 1]
        /\ call # NoCall
    BY <1>4, NextDefinition DEF CompileNext
  <2>2. ~Usable(call)
    BY <1>4, <2>1 DEF Usable
  <2> QED  BY <1>4, <2>1, <2>2, FailsReturns DEF Promise!Next
<1>5. CASE Install
  <2>1. /\ next = Promise!Loaded(call)
        /\ Within(next) <=> InLimits(next)
        /\ Usable(call) /\ call # NoCall
    BY <1>5, InstallsLoaded DEF Install
  <2>2. CASE ~Within(next) /\ Fails
    BY <2>1, <2>2, FailsReturns DEF Promise!Next
  <2>3. CASE Within(next) /\ matchers' = next /\ call' = NoCall
    BY <2>1, <2>3 DEF Promise!Return, Promise!Next
  <2> QED  BY <1>5, <2>2, <2>3 DEF Install
<1> QED  BY <1>1, <1>2, <1>3, <1>4, <1>5 DEF CheckDocument, CompileNext

(* add_json checks, compiles, replaces and installs in many steps that may *)
(* fail halfway; what a caller sees of the registry is a single one, which *)
(* loads the document whole or, only when it is not usable or the result   *)
(* would exceed the limits, changes nothing.                               *)
THEOREM RegistryImplementsAtomic == RegistrySpec => ImplementsAtomicRegistry
PROOF
<1>1. RegistryInit => Promise!Init
  BY DEF RegistryInit, Promise!Init
<1>2. RegistryIInv /\ [RegistryNext]_registry_vars => [Promise!Next]_Promise!vars
  <2> SUFFICES ASSUME RegistryIInv, [RegistryNext]_registry_vars PROVE [Promise!Next]_Promise!vars
    OBVIOUS
  <2>1. ASSUME NEW document \in Documents, AddJson(document) PROVE Promise!Next
    BY <2>1 DEF AddJson, RegistryIInv, NothingLeft, Promise!Call, Promise!Next
  <2>2. CASE CheckDocument \/ CompileNext \/ Install
    BY <2>2, StepReturns
  <2>3. CASE CopyRegistry \/ ReplaceNext \/ RegistryDone \/ UNCHANGED registry_vars
    BY <2>3 DEF CopyRegistry, ReplaceNext, RegistryDone, registry_vars, Promise!vars
  <2> QED  BY <2>1, <2>2, <2>3 DEF RegistryNext
<1> QED  BY <1>1, <1>2, RegistryInvariant, PTL DEF RegistrySpec, ImplementsAtomicRegistry, Promise!Spec
=============================================================================
