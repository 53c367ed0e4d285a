--------------------------- MODULE MatcherRegistry ---------------------------
(***************************************************************************)
(* ProblemMatcherRegistry::add_json (problem_matcher.rs): compiling the    *)
(* definitions of a document and replacing those of the same owners, under *)
(* limits on the document, on each definition and on the registry.         *)
(*                                                                         *)
(* A document is its length, whether it is JSON of the right shape, and    *)
(* its definitions; a definition is what validation tells apart.           *)
(***************************************************************************)
EXTENDS Matchers, Selections, Functions

CONSTANTS
  Documents,             \* what add_json may be called with
  RegexBytes,            \* the length of a regex
  MaxDocumentBytes, MaxMatchers, MaxPatterns, MaxTotalRegexBytes,
                         \* ProblemMatcherLimits; the size limit of a compiled
                         \* regex is part of GroupCount
  MaxCalls               \* bounds the calls of add_json

RawKinds == Kinds \cup {"invalid"}
RawPatterns ==
  [regex : Regexes, kind : RawKinds, groups : [Targets -> Nat \cup {NoGroup}], loop : BOOLEAN]
RawMatchers ==
  [portable : BOOLEAN,             \* no named reference, base, editor state or search
   owner : OptionalTexts,          \* 0 also for one that is empty or too long
   source : OptionalTexts,
   severity : 0..3 \cup {-1},      \* -1 for a name that is no severity
   prefix : OptionalTexts,
   patterns : Seq(RawPatterns)]
DocumentType == [bytes : Nat, parses : BOOLEAN, entries : Seq(RawMatchers)]
NoCall == [bytes |-> 0, parses |-> FALSE, entries |-> <<>>]

VARIABLES
  stage,       \* where add_json is
  call,        \* its argument, or NoCall
  entries,     \* definitions still to compile
  compiled,    \* those compiled and still to add
  next,        \* the registry being made
  matchers,    \* the registry
  calls

registry_vars == <<stage, call, entries, compiled, next, matchers, calls>>

RegistryInit ==
  /\ stage = "idle"
  /\ call = NoCall
  /\ entries = <<>>
  /\ compiled = <<>>
  /\ next = <<>>
  /\ matchers = <<>>
  /\ calls = 0

----------------------------------------------------------------------------
(* compile_matcher *)

OrDefault(groups, target, default) ==
  IF groups[target] = NoGroup THEN default ELSE groups[target]

(* A single pattern's location defaults to groups of its own, unless it    *)
(* names one or is about whole files.                                      *)
WithDefaults(pattern) ==
  LET groups == pattern.groups
      positioned == groups["location"] = NoGroup /\ pattern.kind # "file"
  IN  [pattern EXCEPT !.groups =
         [target \in Targets |->
            CASE target = "file" -> OrDefault(groups, "file", 1)
              [] target = "message" -> OrDefault(groups, "message", 0)
              [] target = "line" /\ positioned -> OrDefault(groups, "line", 2)
              [] target = "column" /\ positioned -> OrDefault(groups, "column", 3)
              [] OTHER -> groups[target]]]

(* apply_single_line_defaults *)
Defaulted(patterns) ==
  IF Len(patterns) = 1 THEN <<WithDefaults(patterns[1])>> ELSE patterns

CompilesAnyGroup(raw) ==               \* variant: groups are not looked for
  \A i \in DOMAIN raw.patterns : GroupCount[raw.patterns[i].regex] > 0
PatternsCompile(raw) ==
  LET patterns == Defaulted(raw.patterns)
  IN  \A i \in DOMAIN patterns : Compiles(patterns[i])

IsValid(raw) ==
  /\ raw.portable
  /\ raw.owner # 0
  /\ raw.severity # -1
  /\ raw.patterns # <<>>
  /\ Len(raw.patterns) <= MaxPatterns
  /\ raw.patterns[1].kind # "invalid"
  /\ ContractHolds(Defaulted(raw.patterns))
  /\ PatternsCompile(raw)

CompiledAsGiven(raw) ==                 \* variant: the severity has no default
  [owner |-> raw.owner, source |-> raw.source, prefix |-> raw.prefix,
   severity |-> raw.severity, patterns |-> Defaulted(raw.patterns)]
Compiled(raw) ==
  [owner |-> raw.owner, source |-> raw.source, prefix |-> raw.prefix,
   severity |-> IF raw.severity = 0 THEN 1 ELSE raw.severity,
   patterns |-> Defaulted(raw.patterns)]

----------------------------------------------------------------------------
(* add_json *)

Fails ==
  /\ stage' = "idle"
  /\ call' = NoCall
  /\ entries' = <<>>
  /\ compiled' = <<>>
  /\ next' = <<>>
  /\ UNCHANGED matchers

AddJson(document) ==
  /\ stage = "idle"
  /\ calls < MaxCalls
  /\ calls' = calls + 1
  /\ call' = document
  /\ stage' = "check"
  /\ UNCHANGED <<entries, compiled, next, matchers>>

Readable(document) ==
  /\ document.bytes <= MaxDocumentBytes
  /\ document.parses
  /\ Len(document.entries) <= MaxMatchers

CheckDocument ==
  /\ stage = "check"
  /\ \/ /\ Readable(call)
        /\ stage' = "compile"
        /\ entries' = call.entries
        /\ UNCHANGED <<call, compiled, next, matchers>>
     \/ ~Readable(call) /\ Fails
  /\ UNCHANGED calls

CompileNext ==
  /\ stage = "compile"
  /\ entries # <<>>
  /\ \/ /\ IsValid(Head(entries))
        /\ compiled' = Append(compiled, Compiled(Head(entries)))
        /\ entries' = Tail(entries)
        /\ UNCHANGED <<stage, call, next, matchers>>
     \/ ~IsValid(Head(entries)) /\ Fails
  /\ UNCHANGED calls

CopyRegistry ==
  /\ stage = "compile"
  /\ entries = <<>>
  /\ stage' = "replace"
  /\ next' = matchers
  /\ UNCHANGED <<call, entries, compiled, matchers, calls>>

ReplacedInPlace(all, matcher) ==        \* variant: the new definition takes the old place
  IF \E i \in DOMAIN all : all[i].owner = matcher.owner
  THEN [i \in DOMAIN all |-> IF all[i].owner = matcher.owner THEN matcher ELSE all[i]]
  ELSE Append(all, matcher)
Replaced(all, matcher) ==
  Append(Picked(all, {i \in DOMAIN all : all[i].owner # matcher.owner}), matcher)

ReplaceNext ==
  /\ stage = "replace"
  /\ compiled # <<>>
  /\ next' = Replaced(next, Head(compiled))
  /\ compiled' = Tail(compiled)
  /\ UNCHANGED <<stage, call, entries, matchers, calls>>

PatternsBytes(matcher) ==
  SumFunction([i \in DOMAIN matcher.patterns |-> RegexBytes[matcher.patterns[i].regex]])
TotalRegexBytes(all) == SumFunction([i \in DOMAIN all |-> PatternsBytes(all[i])])

WithinPerDocument(all) ==               \* variant: only the document's length is limited
  TotalRegexBytes(all) <= MaxTotalRegexBytes
Within(all) ==
  Len(all) <= MaxMatchers /\ TotalRegexBytes(all) <= MaxTotalRegexBytes

Install ==
  /\ stage = "replace"
  /\ compiled = <<>>
  /\ \/ /\ Within(next)
        /\ matchers' = next
        /\ stage' = "idle"
        /\ call' = NoCall
        /\ next' = <<>>
        /\ UNCHANGED <<entries, compiled>>
     \/ ~Within(next) /\ Fails
  /\ UNCHANGED calls

RegistryDone ==
  /\ stage = "idle"
  /\ calls = MaxCalls
  /\ UNCHANGED registry_vars

RegistryNext ==
  \/ \E document \in Documents : AddJson(document)
  \/ CheckDocument
  \/ CompileNext
  \/ CopyRegistry
  \/ ReplaceNext
  \/ Install
  \/ RegistryDone

RegistrySpec == RegistryInit /\ [][RegistryNext]_registry_vars

ASSUME MatcherRegistryAssumption ==
  /\ Documents \subseteq DocumentType
  /\ RegexBytes \in [Regexes -> Nat]
=============================================================================
