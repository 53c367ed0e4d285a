-------------------------- MODULE MCProblemMatcher --------------------------
(***************************************************************************)
(* Instances of the problem matchers for TLC: a header followed by items   *)
(* in a loop, a sequence of three lines that begins with the same header,  *)
(* and a matcher of single lines.                                          *)
(***************************************************************************)
EXTENDS ProblemMatcherProperties, TLC

CONSTANTS s1, s2, out, err        \* scope ids and streams

MCSymmetry == Permutations({s1, s2}) \cup Permutations({out, err})

(* Captured values: 1 and 2 files, 3 a long file, 4 a message, 5 "7",      *)
(* 6 "2,3", 7 a severity, 8 the empty text, 9 "9,4,5", 10 owners, 11 a     *)
(* path prefix, 12 "4,2,3,1".                                              *)
MCTexts == 1..12
MCBytes == [text \in MCTexts |-> CASE text = 3 -> 4 [] text = 8 -> 0 [] OTHER -> 1]
MCCoordinates ==
  [text \in MCTexts |-> CASE text = 5 -> <<7>> [] text = 6 -> <<2, 3>>
                          [] text = 9 -> <<9, 4, 5>> [] text = 12 -> <<4, 2, 3, 1>>
                          [] OTHER -> <<0>>]
MCSeverityNamed == [text \in MCTexts |-> IF text = 7 THEN 2 ELSE 0]

(* Lines: 1 and 2 are headers, 3 an item with a severity, 4 an item, and a *)
(* line within, without a severity, 5 the last of three lines, 6 matches   *)
(* nothing.                                                                *)
MCRegexes == {"header", "item", "within", "last", "single"}
MCGroupCount == [regex \in MCRegexes |-> 4]
MCMatch ==
  [header |-> (1 :> (1 :> 1)) @@ (2 :> (1 :> 3)),
   item |-> (3 :> (1 :> 5 @@ 2 :> 4 @@ 3 :> 7)) @@ (4 :> (1 :> 12 @@ 2 :> 4)),
   within |-> (4 :> (1 :> 2 @@ 2 :> 4)),
   last |-> (5 :> (1 :> 6 @@ 2 :> 4)) @@ (1 :> (1 :> 9 @@ 2 :> 4)),
   single |-> (5 :> (1 :> 2 @@ 2 :> 4)) @@ (6 :> (1 :> 8 @@ 2 :> 4))]

P(regex, kind, named, loop) ==
  [regex |-> regex, kind |-> kind, loop |-> loop,
   groups |-> [target \in Targets |->
                 IF target \in DOMAIN named THEN named[target] ELSE NoGroup]]
M(owner, severity, prefix, patterns) ==
  [owner |-> owner, source |-> 0, severity |-> severity, prefix |-> prefix,
   patterns |-> patterns]

MCLooping ==
  M(10, 1, 11, <<P("header", "none", [file |-> 1], FALSE),
                 P("item", "none", [location |-> 1, message |-> 2, severity |-> 3], TRUE)>>)
MCThree ==
  M(10, 1, 0, <<P("header", "location", [file |-> 1], FALSE),
                P("within", "none", [from_path |-> 1, message |-> 2], FALSE),
                P("last", "none", [location |-> 1, message |-> 2], FALSE)>>)
MCSingle == M(10, 3, 0, <<P("single", "file", [file |-> 1, message |-> 2], FALSE)>>)

MCMatchers == <<MCLooping, MCThree, MCSingle>>

=============================================================================
