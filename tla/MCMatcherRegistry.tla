-------------------------- MODULE MCMatcherRegistry --------------------------
(***************************************************************************)
(* Instances of the registry for TLC: definitions of three owners, valid   *)
(* and invalid in every way validation knows, in documents of up to two.   *)
(***************************************************************************)
EXTENDS MatcherRegistryProperties, SequencesExt

MCTexts == 1..4
MCRegexes == {"one", "two", "four", "broken"}
MCGroupCount == ("one" :> 2) @@ ("two" :> 3) @@ ("four" :> 5) @@ ("broken" :> 0)
MCRegexBytes == ("one" :> 1) @@ ("two" :> 2) @@ ("four" :> 4) @@ ("broken" :> 1)

P(regex, kind, named, loop) ==
  [regex |-> regex, kind |-> kind, loop |-> loop,
   groups |-> [target \in Targets |->
                 IF target \in DOMAIN named THEN named[target] ELSE NoGroup]]
None == [nothing |-> 0]
R(owner, severity, patterns) ==
  [portable |-> TRUE, owner |-> owner, source |-> 0, severity |-> severity, prefix |-> 0,
   patterns |-> patterns]

Head1 == P("one", "none", [file |-> 1], FALSE)
Item == P("two", "none", [line |-> 1, message |-> 2], TRUE)

Valids ==
  { R(1, 0, <<P("four", "none", None, FALSE)>>),            \* all groups by default
    R(1, 2, <<Head1, Item>>),
    R(2, 0, <<P("one", "file", None, FALSE)>>),             \* whole files
    R(3, 0, <<P("one", "file", None, FALSE)>>),
    R(3, 3, <<Head1, Head1, Item>>) }
Invalids ==
  { [R(1, 0, <<P("four", "none", None, FALSE)>>) EXCEPT !.portable = FALSE],
    R(0, 0, <<P("four", "none", None, FALSE)>>),
    R(2, -1, <<P("four", "none", None, FALSE)>>),
    R(2, 0, <<>>),
    R(2, 0, <<Head1, Head1, Head1, Item>>),                 \* too many patterns
    R(3, 0, <<P("four", "invalid", None, FALSE)>>),
    R(3, 0, <<P("four", "none", None, TRUE)>>),             \* a single line loops
    R(3, 0, <<Item, Head1>>),                               \* the first line loops
    R(3, 0, <<Head1, P("two", "file", [line |-> 1, message |-> 2], FALSE)>>),
    R(3, 0, <<Head1, Head1>>),                              \* no message
    R(3, 0, <<Head1, P("two", "none", [message |-> 1], FALSE)>>),   \* no place
    R(3, 0, <<P("one", "none", None, FALSE)>>),             \* group 2 does not exist
    R(3, 0, <<P("broken", "file", None, FALSE)>>) }

D(bytes, parses, list) == [bytes |-> bytes, parses |-> parses, entries |-> list]
MCDocuments ==
  {D(1, TRUE, list) : list \in BoundedSeq(Valids, 2)}
    \cup {D(1, TRUE, <<valid, invalid>>) : valid \in Valids, invalid \in Invalids}
    \cup {D(1, TRUE, <<invalid, valid>>) : valid \in Valids, invalid \in Invalids}
    \cup {D(2, TRUE, <<valid>>) : valid \in Valids}         \* too long
    \cup {D(1, FALSE, <<valid>>) : valid \in Valids}
    \cup {D(1, TRUE, <<valid, valid, valid>>) : valid \in Valids}   \* too many
=============================================================================
