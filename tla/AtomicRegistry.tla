--------------------------- MODULE AtomicRegistry ---------------------------
(***************************************************************************)
(* What a registry of problem matchers promises: a call loads its document *)
(* whole or leaves the registry alone, the latter only when the document   *)
(* is not valid or the registry would exceed its limits; and of the        *)
(* definitions loaded with one owner only the last counts, in the order in *)
(* which these were loaded.                                                *)
(***************************************************************************)
EXTENDS Selections

CONSTANTS
  Documents,
  NoCall,
  IsValid(_),        \* whether a document can be used
  Definitions(_),    \* the definitions in a valid document
  Acceptable(_)      \* whether a registry is within the limits

VARIABLES
  registry,
  call               \* the document of the call in progress, or NoCall

vars == <<registry, call>>

IsLastOfOwner(all, i) ==
  \A j \in DOMAIN all : all[j].owner = all[i].owner => j <= i

LastDefinitions(all) == Picked(all, {i \in DOMAIN all : IsLastOfOwner(all, i)})

Loaded(document) == LastDefinitions(registry \o Definitions(document))

Init ==
  /\ registry = <<>>
  /\ call = NoCall

Call(document) ==
  /\ call = NoCall
  /\ call' = document
  /\ UNCHANGED registry

Return ==
  /\ call # NoCall
  /\ call' = NoCall
  /\ registry' = IF IsValid(call) /\ Acceptable(Loaded(call)) THEN Loaded(call) ELSE registry

Next ==
  \/ \E document \in Documents : Call(document)
  \/ Return

Spec == Init /\ [][Next]_vars
=============================================================================
