---------------------- MODULE MatcherRegistryProperties ----------------------
(***************************************************************************)
(* What the registry promises to those who load documents into it and to   *)
(* the parser that is made from it.                                        *)
(***************************************************************************)
EXTENDS MatcherRegistry

(* Every variable has its type. *)
RegistryTypeOK ==
  /\ stage \in {"idle", "check", "compile", "replace"}
  /\ call \in DocumentType
  /\ entries \in Seq(RawMatchers)
  /\ compiled \in Seq(CompiledMatchers)
  /\ next \in Seq(CompiledMatchers)
  /\ matchers \in Seq(CompiledMatchers)
  /\ calls \in Nat

Usable(document) ==
  /\ document.bytes <= MaxDocumentBytes /\ document.parses
  /\ Len(document.entries) <= MaxMatchers
  /\ \A i \in DOMAIN document.entries : IsValid(document.entries[i])
DefinitionsOf(document) ==
  [i \in DOMAIN document.entries |-> Compiled(document.entries[i])]

InLimits(all) ==
  /\ Cardinality({matcher.owner : matcher \in Range(all)}) <= MaxMatchers
  /\ TotalRegexBytes(all) <= MaxTotalRegexBytes

Promise ==
  INSTANCE AtomicRegistry
    WITH registry <- matchers, IsValid <- Usable, Definitions <- DefinitionsOf,
         Acceptable <- InLimits

(* "The registry is unchanged on failure" (add_json) and "the last         *)
(* definition replaces the earlier definition" (PROBLEM_MATCHERS.md): a    *)
(* document is loaded whole or not at all, whichever of its definitions or *)
(* limits fails, and of each owner the last definition is kept.            *)
ImplementsAtomicRegistry == Promise!Spec

(* The parser can run what the registry holds, whatever was loaded: a      *)
(* problem can be captured whole, groups exist, and only the last of       *)
(* several patterns loops (observe_matcher indexes patterns without        *)
(* checks, and emit_problem drops what lacks a file, a place or a          *)
(* message).                                                               *)
InstalledCanReport ==
  \A i \in DOMAIN matchers :
    LET patterns == matchers[i].patterns
        captured(target) == \E n \in DOMAIN patterns : patterns[n].groups[target] # NoGroup
    IN  /\ Len(patterns) >= 1
        /\ captured("file") /\ captured("message")
        /\ patterns[1].kind = "file" \/ captured("line") \/ captured("location")
        /\ \A n \in 1..(Len(patterns) - 1) : ~patterns[n].loop
        /\ Len(patterns) = 1 => ~patterns[1].loop
        /\ \A n \in DOMAIN patterns : \A target \in Targets :
             patterns[n].groups[target] < GroupCount[patterns[n].regex]

----------------------------------------------------------------------------
(* The inductive invariant behind the theorems of ProblemMatcherProofs.tla  *)

(* Between calls nothing is left of the last one.                          *)
NothingLeft ==
  /\ stage \in {"idle", "check"} => entries = <<>> /\ compiled = <<>>
  /\ stage # "replace" => next = <<>>
  /\ stage = "idle" => call = NoCall

(* What is compiled are the definitions of the document up to the one that *)
(* is looked at, all of them valid.                                        *)
CompiledSoFar ==
  stage = "compile" =>
    LET done == Len(compiled)
    IN  /\ Readable(call)
        /\ done + Len(entries) = Len(call.entries)
        /\ \A i \in 1..done :
             IsValid(call.entries[i]) /\ compiled[i] = Compiled(call.entries[i])
        /\ \A i \in 1..Len(entries) : entries[i] = call.entries[done + i]

(* The last definitions of what is replaced so far and of what is still to *)
(* come are those of the registry and the document.                        *)
ReplacedSoFar ==
  stage = "replace" =>
    /\ Usable(call)
    /\ entries = <<>>
    /\ Promise!LastDefinitions(next \o compiled) = Promise!Loaded(call)

OwnersDiffer(all) == \A i, j \in DOMAIN all : all[i].owner = all[j].owner => i = j
AllWellFormed(all) == \A i \in DOMAIN all : WellFormed(all[i])

RegistryIInv ==
  /\ RegistryTypeOK
  /\ NothingLeft
  /\ CompiledSoFar
  /\ ReplacedSoFar
  /\ OwnersDiffer(next) /\ OwnersDiffer(matchers)
  /\ AllWellFormed(compiled) /\ AllWellFormed(next) /\ AllWellFormed(matchers)
=============================================================================
