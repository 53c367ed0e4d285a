------------------------------ MODULE Matchers ------------------------------
(***************************************************************************)
(* Problem matchers as problem_matcher.rs keeps them: patterns, the groups *)
(* of their regular expressions that fill the fields of a problem, and     *)
(* what validation promises about a compiled matcher.                      *)
(*                                                                         *)
(* Texts are numbers; 0 stands for None.                                   *)
(***************************************************************************)
EXTENDS Integers, Sequences

CONSTANTS
  Texts,         \* owners, sources, path prefixes and captured values
  Regexes,       \* the sources of regular expressions
  GroupCount     \* Regex::captures_len, or 0 if the source does not compile

OptionalTexts == Texts \cup {0}

(* Fields that keep the first value captured; messages are appended.       *)
Fields ==
  {"file", "from_path", "location", "line", "column", "end_line", "end_column",
   "severity", "code"}
Targets == Fields \cup {"message"}

NoGroup == -1

Kinds == {"none", "file", "location"}
Patterns ==
  [regex : Regexes, kind : Kinds, groups : [Targets -> Nat \cup {NoGroup}], loop : BOOLEAN]
CompiledMatchers ==
  [owner : Texts, source : OptionalTexts, severity : 1..3, prefix : OptionalTexts,
   patterns : Seq(Patterns)]

Names(pattern, target) == pattern.groups[target] # NoGroup
SomeNames(patterns, targets) ==
  \E i \in DOMAIN patterns : \E target \in targets : Names(patterns[i], target)

(* validate_pattern_contract *)
LoopsAnywhere(patterns) ==                  \* variant: a single pattern may loop
  \A i \in DOMAIN patterns : patterns[i].loop => i = Len(patterns)
LoopsLast(patterns) ==
  \A i \in DOMAIN patterns :
    patterns[i].loop => i = Len(patterns) /\ Len(patterns) # 1

ContractHolds(patterns) ==
  /\ \A i \in DOMAIN patterns : i # 1 => patterns[i].kind = "none"
  /\ LoopsLast(patterns)
  /\ SomeNames(patterns, {"file"})
  /\ SomeNames(patterns, {"message"})
  /\ patterns[1].kind # "file" => SomeNames(patterns, {"location", "line"})

(* compile_pattern *)
GroupsExist(pattern) ==
  \A target \in Targets : pattern.groups[target] < GroupCount[pattern.regex]
Compiles(pattern) == GroupCount[pattern.regex] > 0 /\ GroupsExist(pattern)

(* What every matcher the parser runs with satisfies. *)
WellFormed(matcher) ==
  /\ matcher.patterns # <<>>
  /\ ContractHolds(matcher.patterns)
  /\ \A i \in DOMAIN matcher.patterns : Compiles(matcher.patterns[i])

ASSUME MatchersAssumption ==
  /\ Texts \subseteq Nat \ {0}
  /\ GroupCount \in [Regexes -> Nat]
=============================================================================
