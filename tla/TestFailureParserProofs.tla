---------------------- MODULE TestFailureParserProofs ----------------------
(***************************************************************************)
(* The reducers of failed tests, for every value of the constants: what    *)
(* they keep is bounded, the gate in front of them loses nothing, and a    *)
(* failure they report is evidenced by the log of its scope.               *)
(***************************************************************************)
EXTENDS TestFailureParserProperties, FoldLemmas

----------------------------------------------------------------------------
(* Types *)

AtMost(T, max) == {s \in Seq(T) : Len(s) <= max}

RustBlockType ==
  [name : OptionalNames, location : OptionalPlaces, assertion : OptionalTexts,
   panic_message : OptionalTexts, details : AtMost(Texts, MaxRustDetails), saw_panic : BOOLEAN]
GtestBlockType ==
  [name : OptionalNames, location : OptionalPlaces, details : AtMost(Texts, MaxGtestDetails)]
GoBlockType ==
  [name : Names, location : OptionalPlaces, location_rank : {0, 1, 255},
   assertion : OptionalTexts, panic_message : OptionalTexts,
   details : AtMost(Texts, MaxGoDetails), failed : BOOLEAN]
FailureType ==
  [kind : {"rust", "gtest", "go"}, name : Names, location : OptionalPlaces, panicked : BOOLEAN,
   reason : OptionalTexts, details : Seq(Texts)]

AccType ==
  [failed_names : AtMost(Names, MaxLogFailures), failures : AtMost(FailureType, MaxLogFailures),
   current : RustBlockType,
   gtest_running_name : OptionalNames, gtest_current : GtestBlockType,
   go_running_name : OptionalNames, go_panic_name : OptionalNames,
   go_blocks : AtMost(GoBlockType, MaxGoBlocks)]

LEMMA LimitsNat ==
  /\ MaxLogFailures \in Nat /\ MaxGtestDetails \in Nat /\ MaxGoDetails \in Nat
  /\ MaxGoBlocks \in Nat /\ MaxRustDetails \in Nat
PROOF
  BY TestFailuresAssumption

LEMMA BoundedName ==
  ASSUME NEW name \in Names
  PROVE  Bounded[name] \in Names /\ Bounded[name] # 0
PROOF
  BY TestFailuresAssumption

LEMMA EmptyAtMost ==
  ASSUME NEW T, NEW max \in Nat
  PROVE  <<>> \in AtMost(T, max)
PROOF
  BY DEF AtMost

LEMMA AppendAtMost ==
  ASSUME NEW T, NEW max \in Nat, NEW s \in AtMost(T, max), NEW x \in T, ~(Len(s) >= max)
  PROVE  /\ Append(s, x) \in AtMost(T, max)
         /\ Range(Append(s, x)) = Range(s) \cup {x}
PROOF
<1>1. s \in Seq(T) /\ Len(s) \in Nat
  BY DEF AtMost
<1>2. Append(s, x) \in Seq(T) /\ Len(Append(s, x)) = Len(s) + 1
  BY <1>1
<1>3. Range(Append(s, x)) = Range(s) \cup {x}
  <2>1. <<x>> \in Seq(T) /\ Range(<<x>>) = {x}
    BY DEF Range
  <2>2. Append(s, x) = s \o <<x>>
    BY <1>1, AppendIsConcat
  <2>3. Range(s \o <<x>>) = Range(s) \cup Range(<<x>>)
    BY <1>1, <2>1, RangeConcatenation
  <2> QED  BY <2>1, <2>2, <2>3
<1> QED  BY <1>1, <1>2, <1>3 DEF AtMost

LEMMA PushUniqueProperties ==
  ASSUME NEW T, NEW max \in Nat, NEW s \in AtMost(T, max), NEW x \in T
  PROVE  /\ PushUnique(s, x, max) \in AtMost(T, max)
         /\ Range(PushUnique(s, x, max)) \subseteq Range(s) \cup {x}
         /\ Len(s) < max => x \in Range(PushUnique(s, x, max))
         /\ Range(s) \subseteq Range(PushUnique(s, x, max))
PROOF
<1>1. Len(s) \in Nat
  BY DEF AtMost
<1>2. CASE Len(s) >= max
  BY <1>1, <1>2 DEF PushUnique
<1>3. CASE ~(Len(s) >= max) /\ x \in Range(s)
  BY <1>3 DEF PushUnique
<1>4. CASE ~(Len(s) >= max) /\ x \notin Range(s)
  <2>1. PushUnique(s, x, max) = Append(s, x)
    BY <1>4 DEF PushUnique
  <2> QED  BY <1>4, <2>1, AppendAtMost
<1> QED  BY <1>2, <1>3, <1>4

LEMMA PickedAtMost ==
  ASSUME NEW T, NEW max \in Nat, NEW s \in AtMost(T, max), NEW P \in SUBSET DOMAIN s
  PROVE  /\ Picked(s, P) \in AtMost(T, max)
         /\ Range(Picked(s, P)) = {s[i] : i \in P}
PROOF
<1>1. s \in Seq(T) /\ Len(s) \in Nat /\ Len(s) <= max /\ DOMAIN s = 1..Len(s)
  BY DEF AtMost
<1>2. Picked(s, P) \in Seq(T)
  BY <1>1, PickedType
<1>3. PICK p : /\ Enumerates(p, Len(Picked(s, P)), P)
               /\ \A i \in 1..Len(Picked(s, P)) : Picked(s, P)[i] = s[p[i]]
  BY <1>1, PickedType
<1>4. Len(Picked(s, P)) <= Len(s)
  <2>1. IsFiniteSet(1..Len(s)) /\ Cardinality(1..Len(s)) = Len(s)
    <3>1. 1 \in Int /\ Len(s) \in Int
      BY <1>1
    <3>2. /\ IsFiniteSet(1..Len(s))
          /\ Cardinality(1..Len(s)) = IF 1 > Len(s) THEN 0 ELSE Len(s) - 1 + 1
      BY <3>1, FS_Interval
    <3> QED  BY <1>1, <3>2
  <2>2. IsFiniteSet(P) /\ Cardinality(P) <= Len(s)
    BY <1>1, <2>1, FS_Subset
  <2>3. Len(Picked(s, P)) \in Nat
    BY <1>2
  <2>4. Cardinality(P) = Len(Picked(s, P))
    BY <1>1, <1>3, <2>3, EnumerationRanks
  <2> QED  BY <2>2, <2>4
<1>5. Range(Picked(s, P)) = {Picked(s, P)[i] : i \in 1..Len(Picked(s, P))}
  BY <1>2, RangeEquality
<1>6. {Picked(s, P)[i] : i \in 1..Len(Picked(s, P))} = {s[i] : i \in P}
  <2> DEFINE n == Len(Picked(s, P))
             q == Picked(s, P)
  <2>1. \A i \in 1..n : p[i] \in P /\ q[i] = s[p[i]]
    BY <1>3 DEF Enumerates
  <2>2. \A k \in P : \E i \in 1..n : p[i] = k
    BY <1>3 DEF Enumerates
  <2> HIDE DEF n, q
  <2>3. {q[i] : i \in 1..n} = {s[i] : i \in P}
    BY <2>1, <2>2
  <2> QED  BY <2>3 DEF n, q
<1>7. Len(Picked(s, P)) <= max
  <2>1. Len(Picked(s, P)) \in Nat /\ max \in Nat
    BY <1>2
  <2> QED  BY <1>1, <1>4, <2>1
<1> QED  BY <1>2, <1>5, <1>6, <1>7 DEF AtMost

(* One of a sequence changed. *)
LEMMA ChangedAtMost ==
  ASSUME NEW T, NEW max \in Nat, NEW s \in AtMost(T, max), NEW i \in DOMAIN s, NEW x \in T
  PROVE  [s EXCEPT ![i] = x] \in AtMost(T, max)
PROOF
<1>1. s \in Seq(T)
  BY DEF AtMost
<1>2. [s EXCEPT ![i] = x] \in Seq(T) /\ Len([s EXCEPT ![i] = x]) = Len(s)
  BY <1>1, ExceptSeq
<1> QED  BY <1>2 DEF AtMost

----------------------------------------------------------------------------
(* Blocks of go test *)

(* next is acc with other blocks, all of them in G, and other names.       *)
GoStep(next, acc, G, running, panic) ==
  /\ next.go_blocks \in AtMost(G, MaxGoBlocks)
  /\ next = [acc EXCEPT !.go_blocks = next.go_blocks,
                        !.go_running_name = running, !.go_panic_name = panic]

(* All blocks of acc are in G.                                             *)
GoIn(acc, G) == acc \in AccType /\ G \in SUBSET GoBlockType /\ acc.go_blocks \in AtMost(G, MaxGoBlocks)

LEMMA GoSame ==
  ASSUME NEW acc, NEW G, GoIn(acc, G)
  PROVE  GoStep(acc, acc, G, acc.go_running_name, acc.go_panic_name)
PROOF
  BY DEF GoStep, GoIn, AccType

LEMMA GoStepThen ==
  ASSUME NEW acc \in AccType, NEW next, NEW G \in SUBSET GoBlockType,
         NEW running \in OptionalNames, NEW panic \in OptionalNames,
         GoStep(next, acc, G, running, panic)
  PROVE  /\ next \in AccType
         /\ GoIn(next, G)
         /\ next.go_running_name = running /\ next.go_panic_name = panic
         /\ next.current = acc.current /\ next.gtest_current = acc.gtest_current
         /\ next.gtest_running_name = acc.gtest_running_name
         /\ next.failures = acc.failures /\ next.failed_names = acc.failed_names
PROOF
<1>1. next.go_blocks \in AtMost(GoBlockType, MaxGoBlocks)
  BY DEF GoStep, AtMost
<1> DEFINE names == AtMost(Names, MaxLogFailures)
           failures == AtMost(FailureType, MaxLogFailures)
           blocks == AtMost(GoBlockType, MaxGoBlocks)
<1> HIDE DEF names, failures, blocks
<1>2. next.go_blocks \in blocks
  BY <1>1 DEF blocks
<1>3. next = [acc EXCEPT !.go_blocks = next.go_blocks,
                         !.go_running_name = running, !.go_panic_name = panic]
  BY DEF GoStep
<1> DEFINE b == next.go_blocks
<1>4. next = [acc EXCEPT !.go_blocks = b, !.go_running_name = running, !.go_panic_name = panic]
      /\ b \in blocks
  BY <1>2, <1>3
<1> HIDE DEF b
<1>5. acc \in [failed_names : names, failures : failures, current : RustBlockType,
               gtest_running_name : OptionalNames, gtest_current : GtestBlockType,
               go_running_name : OptionalNames, go_panic_name : OptionalNames,
               go_blocks : blocks]
  BY DEF AccType, names, failures, blocks
<1>6. /\ next \in [failed_names : names, failures : failures, current : RustBlockType,
               gtest_running_name : OptionalNames, gtest_current : GtestBlockType,
               go_running_name : OptionalNames, go_panic_name : OptionalNames,
               go_blocks : blocks]
      /\ next.go_running_name = running /\ next.go_panic_name = panic
      /\ next.current = acc.current /\ next.gtest_current = acc.gtest_current
      /\ next.gtest_running_name = acc.gtest_running_name
      /\ next.failures = acc.failures /\ next.failed_names = acc.failed_names
  BY <1>4, <1>5
<1>7. next \in AccType
  BY <1>6 DEF AccType, names, failures, blocks
<1> QED  BY <1>6, <1>7 DEF GoStep, GoIn

(* Position index of the blocks is that of a test, or 0 if it has none.    *)
IsIndex(index, blocks, name, any) ==
  \/ /\ index = 0
     /\ \A i \in DOMAIN blocks : blocks[i].name = name => ~any /\ blocks[i].failed
  \/ /\ index \in DOMAIN blocks /\ index # 0
     /\ blocks[index].name = name
     /\ any \/ ~blocks[index].failed

LEMMA GoBlockIndex ==
  ASSUME NEW acc, acc.go_blocks \in AtMost(GoBlockType, MaxGoBlocks), NEW name, NEW any \in BOOLEAN
  PROVE  IsIndex(GoBlock(acc, name, any), acc.go_blocks, name, any)
PROOF
<1> DEFINE blocks == acc.go_blocks
           found == {i \in DOMAIN blocks : blocks[i].name = name /\ (any \/ ~blocks[i].failed)}
<1>1. blocks \in Seq(GoBlockType) /\ DOMAIN blocks = 1..Len(blocks) /\ Len(blocks) \in Nat
  BY DEF AtMost
<1>2. GoBlock(acc, name, any) = IF found = {} THEN 0 ELSE Max(found)
  BY DEF GoBlock
<1>3. CASE found = {}
  BY <1>2, <1>3 DEF IsIndex
<1>4. CASE found # {}
  <2>1. found \in SUBSET (1..Len(blocks))
    BY <1>1
  <2>2. \E x \in found : \A y \in found : x >= y
    <3> HIDE DEF found
    <3> QED  BY <1>1, <1>4, <2>1, LastPosition
  <2>3. Max(found) \in found
    <3> HIDE DEF found
    <3> QED  BY <2>2 DEF Max
  <2> DEFINE last == Max(found)
  <2>4. last \in DOMAIN blocks /\ blocks[last].name = name /\ (any \/ ~blocks[last].failed)
    BY <2>3
  <2>5. GoBlock(acc, name, any) = last
    BY <1>2, <1>4
  <2> HIDE DEF last
  <2>6. last # 0
    BY <1>1, <2>4
  <2> QED  BY <2>4, <2>5, <2>6 DEF IsIndex
<1> QED  BY <1>3, <1>4

LEMMA CompactedIn ==
  ASSUME NEW G \in SUBSET GoBlockType, NEW blocks \in AtMost(G, MaxGoBlocks)
  PROVE  Compacted(blocks) \in AtMost(G, MaxGoBlocks)
PROOF
<1> DEFINE again == {i \in DOMAIN blocks : /\ blocks[i].failed
                                           /\ \E j \in 1..(i - 1) : blocks[j] = blocks[i]}
<1>1. Compacted(blocks) = Picked(blocks, DOMAIN blocks \ again)
  BY DEF Compacted
<1>2. DOMAIN blocks \ again \in SUBSET DOMAIN blocks
  OBVIOUS
<1> HIDE DEF again
<1> QED  BY <1>1, <1>2, LimitsNat, PickedAtMost

LEMMA NewBlockType ==
  ASSUME NEW name \in Names
  PROVE  NewGoBlock(name) \in GoBlockType /\ NewGoBlock(name).name = name
PROOF
<1>1. <<>> \in AtMost(Texts, MaxGoDetails)
  BY LimitsNat, EmptyAtMost
<1> DEFINE details == AtMost(Texts, MaxGoDetails)
<1> HIDE DEF details
<1>2. <<>> \in details
  BY <1>1 DEF details
<1>3. NewGoBlock(name) \in [name : Names, location : OptionalPlaces, location_rank : {0, 1, 255},
         assertion : OptionalTexts, panic_message : OptionalTexts, details : details,
         failed : BOOLEAN]
  BY <1>2 DEF NewGoBlock, OptionalPlaces, OptionalTexts
<1> QED  BY <1>3 DEF GoBlockType, details, NewGoBlock

(* The block of a test may have to be added. *)
LEMMA WithBlockStep ==
  ASSUME NEW acc, NEW G, GoIn(acc, G), NEW name, NEW any \in BOOLEAN, NewGoBlock(name) \in G
  PROVE  GoStep(WithGoBlock(acc, name, any), acc, G, acc.go_running_name, acc.go_panic_name)
PROOF
<1> DEFINE blocks == IF Full(acc.go_blocks) THEN Compacted(acc.go_blocks) ELSE acc.go_blocks
           more == IF Full(blocks) THEN blocks ELSE Append(blocks, NewGoBlock(name))
<1>1. CASE GoBlock(acc, name, any) # 0
  BY <1>1, GoSame DEF WithGoBlock
<1>2. CASE GoBlock(acc, name, any) = 0
  <2>1. WithGoBlock(acc, name, any) = [acc EXCEPT !.go_blocks = more]
    BY <1>2 DEF WithGoBlock, PushedGoBlock
  <2>2. blocks \in AtMost(G, MaxGoBlocks)
    BY CompactedIn DEF GoIn
  <2> HIDE DEF blocks
  <2>3. more \in AtMost(G, MaxGoBlocks)
    <3>1. CASE Full(blocks)
      BY <2>2, <3>1
    <3>2. CASE ~Full(blocks)
      BY <2>2, <3>2, LimitsNat, AppendAtMost DEF Full
    <3> QED  BY <3>1, <3>2
  <2> HIDE DEF more
  <2> QED  BY <2>1, <2>3 DEF GoStep, GoIn, AccType
<1> QED  BY <1>1, <1>2

LEMMA GoRunStep ==
  ASSUME NEW acc, NEW G, GoIn(acc, G), NEW line
  PROVE  GoStep(GoRun(acc, line), acc, G, Bounded[line.go_run], 0)
PROOF
<1> DEFINE blocks == Compacted(acc.go_blocks)
           name == Bounded[line.go_run]
<1>1. GoRun(acc, line) = [acc EXCEPT !.go_blocks = blocks, !.go_running_name = name,
                                     !.go_panic_name = 0]
  BY DEF GoRun
<1>2. blocks \in AtMost(G, MaxGoBlocks)
  BY CompactedIn DEF GoIn
<1> HIDE DEF blocks, name
<1>3. GoStep(GoRun(acc, line), acc, G, name, 0)
  BY <1>1, <1>2 DEF GoStep, GoIn, AccType
<1> QED  BY <1>3 DEF name

LEMMA GoPassStep ==
  ASSUME NEW acc, NEW G, GoIn(acc, G)
  PROVE  GoStep(GoPass(acc), acc, G, 0, 0)
PROOF
  BY DEF GoPass, GoStep, GoIn, AccType

(* Marking the block of a test. *)
LEMMA GoFailStep ==
  ASSUME NEW acc, NEW G, GoIn(acc, G), NEW line,
         NewGoBlock(Bounded[line.go_fail]) \in G,
         \A b \in G : b.name = Bounded[line.go_fail] => [b EXCEPT !.failed = TRUE] \in G
  PROVE  GoStep(GoFail(acc, line), acc, G, Bounded[line.go_fail], Bounded[line.go_fail])
PROOF
<1> DEFINE name == Bounded[line.go_fail]
           next == WithGoBlock(acc, name, FALSE)
           index == GoBlock(next, name, FALSE)
           blocks == [i \in DOMAIN next.go_blocks |->
                        [next.go_blocks[i] EXCEPT !.failed = @ \/ i = index]]
<1>1. GoFail(acc, line) = [next EXCEPT !.go_blocks = blocks, !.go_running_name = name,
                                       !.go_panic_name = name]
  BY DEF GoFail
<1>2. GoStep(next, acc, G, acc.go_running_name, acc.go_panic_name)
  <2> HIDE DEF name
  <2>1. NewGoBlock(name) \in G
    BY DEF name
  <2> QED  BY <2>1, WithBlockStep
<1>3. next.go_blocks \in AtMost(G, MaxGoBlocks) /\ G \in SUBSET GoBlockType
  BY <1>2 DEF GoStep, GoIn
<1> HIDE DEF next
<1>4. IsIndex(index, next.go_blocks, name, FALSE)
  <2>1. next.go_blocks \in AtMost(GoBlockType, MaxGoBlocks)
    BY <1>3 DEF AtMost
  <2> HIDE DEF name
  <2> QED  BY <2>1, GoBlockIndex
<1>5. /\ next.go_blocks \in Seq(G) /\ Len(next.go_blocks) <= MaxGoBlocks
      /\ DOMAIN next.go_blocks = 1..Len(next.go_blocks) /\ Len(next.go_blocks) \in Nat
  BY <1>3 DEF AtMost
<1> HIDE DEF index, name
<1>6. ASSUME NEW i \in DOMAIN next.go_blocks
      PROVE  [next.go_blocks[i] EXCEPT !.failed = @ \/ i = index] \in G
  <2> DEFINE b == next.go_blocks[i]
  <2>1. b \in G /\ b \in GoBlockType
    BY <1>3, <1>5, <1>6
  <2>2. CASE i = index
    <3>1. b.name = name /\ [b EXCEPT !.failed = TRUE] \in G
      <4>1. b.name = name
        BY <1>4, <1>5, <2>2 DEF IsIndex
      <4> QED  BY <2>1, <4>1 DEF name
    <3>2. [b EXCEPT !.failed = @ \/ i = index] = [b EXCEPT !.failed = TRUE]
      BY <2>2
    <3> QED  BY <3>1, <3>2
  <2>3. CASE i # index
    <3> HIDE DEF b
    <3>1. [b EXCEPT !.failed = @ \/ i = index] = b
      BY <2>1, <2>3 DEF GoBlockType
    <3> QED  BY <2>1, <3>1 DEF b
  <2> QED  BY <2>2, <2>3
<1>7. blocks \in AtMost(G, MaxGoBlocks)
  <2>1. blocks \in [1..Len(next.go_blocks) -> G]
    BY <1>5, <1>6
  <2>2. DOMAIN blocks = 1..Len(next.go_blocks)
    BY <1>5
  <2> HIDE DEF blocks
  <2>3. blocks \in Seq(G) /\ Len(blocks) = Len(next.go_blocks)
    BY <1>5, <2>1, <2>2
  <2> QED  BY <1>5, <2>3 DEF AtMost
<1> HIDE DEF blocks
<1>8. GoStep(GoFail(acc, line), acc, G, name, name)
  <2>1. next = [acc EXCEPT !.go_blocks = next.go_blocks, !.go_running_name = acc.go_running_name,
                           !.go_panic_name = acc.go_panic_name]
    BY <1>2 DEF GoStep
  <2> DEFINE before == next.go_blocks
  <2>2. next = [acc EXCEPT !.go_blocks = before, !.go_running_name = acc.go_running_name,
                           !.go_panic_name = acc.go_panic_name]
    BY <2>1
  <2> HIDE DEF before
  <2>3. GoFail(acc, line) = [acc EXCEPT !.go_blocks = blocks, !.go_running_name = name,
                                        !.go_panic_name = name]
    BY <1>1, <2>2 DEF GoIn, AccType
  <2> QED  BY <1>7, <2>3 DEF GoStep, GoIn, AccType
<1> QED  BY <1>8 DEF name

(* One block of a step's outcome replaced by another of G. *)
Replaced(next, index, x, name) ==
  [next EXCEPT !.go_blocks = [@ EXCEPT ![index] = x], !.go_panic_name = name]

LEMMA BlockReplaced ==
  ASSUME NEW acc, NEW G, GoIn(acc, G), NEW next, NEW running, NEW panic, NEW name, NEW x \in G,
         GoStep(next, acc, G, running, panic), NEW index \in DOMAIN next.go_blocks
  PROVE  GoStep(Replaced(next, index, x, name), acc, G, running, name)
PROOF
<1> DEFINE before == next.go_blocks
           blocks == [before EXCEPT ![index] = x]
<1>1. blocks \in AtMost(G, MaxGoBlocks)
  BY LimitsNat, ChangedAtMost DEF GoStep
<1>2. next = [acc EXCEPT !.go_blocks = before, !.go_running_name = running,
                         !.go_panic_name = panic]
  BY DEF GoStep
<1>3. Replaced(next, index, x, name)
        = [next EXCEPT !.go_blocks = blocks, !.go_panic_name = name]
  BY DEF Replaced
<1> HIDE DEF blocks, before
<1>4. [next EXCEPT !.go_blocks = blocks, !.go_panic_name = name]
        = [acc EXCEPT !.go_blocks = blocks, !.go_running_name = running, !.go_panic_name = name]
  BY <1>2 DEF GoIn, AccType
<1> QED  BY <1>1, <1>3, <1>4 DEF GoStep, GoIn, AccType

(* G is closed under what a line adds to the block of a test. *)
Admits(G, line, name) ==
  /\ NewGoBlock(name) \in G
  /\ \A b \in G : b.name = name =>
       /\ line.go_fail # 0 => [b EXCEPT !.failed = TRUE] \in G
       /\ line.go_panic # 0 =>
            [b EXCEPT !.panic_message = IF @ = 0 THEN line.go_panic ELSE @] \in G
       /\ line.go_place # 0 => Located(b, line) \in G
       /\ line.go_message # 0 => Asserted(b, line.go_message, line.go_detail) \in G
       /\ Asserted(b, line.text, line.go_detail) \in G

LEMMA FoundBlock ==
  ASSUME NEW acc, NEW G, GoIn(acc, G), NEW name, NEW any \in BOOLEAN, NEW next, NEW running,
         NEW panic, GoStep(next, acc, G, running, panic),
         GoBlock(next, name, any) # 0
  PROVE  /\ GoBlock(next, name, any) \in DOMAIN next.go_blocks
         /\ next.go_blocks[GoBlock(next, name, any)] \in G
         /\ next.go_blocks[GoBlock(next, name, any)].name = name
PROOF
<1>1. next.go_blocks \in AtMost(G, MaxGoBlocks) /\ G \in SUBSET GoBlockType
  BY DEF GoStep, GoIn
<1>2. next.go_blocks \in AtMost(GoBlockType, MaxGoBlocks)
  BY <1>1 DEF AtMost
<1> DEFINE index == GoBlock(next, name, any)
<1>3. IsIndex(index, next.go_blocks, name, any)
  BY <1>2, GoBlockIndex
<1>4. next.go_blocks \in Seq(G)
  BY <1>1 DEF AtMost
<1> HIDE DEF index
<1>5. index # 0 => /\ index \in DOMAIN next.go_blocks
                   /\ next.go_blocks[index] \in G
                   /\ next.go_blocks[index].name = name
  BY <1>3, <1>4 DEF IsIndex
<1> QED  BY <1>5 DEF index

LEMMA GoPanicStep ==
  ASSUME NEW acc, NEW G, GoIn(acc, G), NEW line, line.go_panic # 0,
         Admits(G, line, GoName(acc))
  PROVE  \E panic \in {acc.go_panic_name, GoName(acc)} :
           GoStep(GoPanic(acc, line), acc, G, acc.go_running_name, panic)
PROOF
<1> DEFINE name == GoName(acc)
           next == WithGoBlock(acc, name, TRUE)
           index == GoBlock(next, name, TRUE)
           b == next.go_blocks[index]
           x == [b EXCEPT !.panic_message = IF @ = 0 THEN line.go_panic ELSE @]
<1>1. GoStep(next, acc, G, acc.go_running_name, acc.go_panic_name)
  BY WithBlockStep DEF Admits
<1>2. CASE index = 0
  BY <1>1, <1>2 DEF GoPanic
<1>3. CASE index # 0
  <2>1. index \in DOMAIN next.go_blocks /\ b \in G /\ b.name = name
    <3> DEFINE any == TRUE
    <3>1. any \in BOOLEAN /\ index = GoBlock(next, name, any) /\ b = next.go_blocks[index]
      OBVIOUS
    <3> HIDE DEF any, next, name, index, b
    <3> QED  BY <1>1, <1>3, <3>1, FoundBlock
  <2>2. x \in G
    BY <2>1 DEF Admits
  <2>3. GoPanic(acc, line)
          = [next EXCEPT !.go_blocks[index].panic_message =
                             IF b.panic_message = 0 THEN line.go_panic ELSE b.panic_message,
                         !.go_panic_name = name]
    BY <1>3 DEF GoPanic
  <2>4. [b EXCEPT !.panic_message = IF @ = 0 THEN line.go_panic ELSE @]
          = [b EXCEPT !.panic_message =
                             IF b.panic_message = 0 THEN line.go_panic ELSE b.panic_message]
    OBVIOUS
  <2> HIDE DEF next, index, name
  <2>5. GoPanic(acc, line) = Replaced(next, index, x, name)
    BY <2>3, <2>4 DEF Replaced
  <2> HIDE DEF x, b
  <2>6. GoStep(GoPanic(acc, line), acc, G, acc.go_running_name, name)
    BY <1>1, <2>1, <2>2, <2>5, BlockReplaced
  <2> QED  BY <2>6 DEF name
<1> QED  BY <1>2, <1>3

LEMMA GoPlaceStep ==
  ASSUME NEW acc, NEW G, GoIn(acc, G), NEW line, line.go_place # 0,
         Admits(G, line, GoName(acc))
  PROVE  GoStep(GoPlace(acc, line), acc, G, acc.go_running_name, acc.go_panic_name)
PROOF
<1> DEFINE name == GoName(acc)
           next == WithGoBlock(acc, name, InGoPanic(acc))
           index == GoBlock(next, name, InGoPanic(acc))
           b == next.go_blocks[index]
           located == Located(b, line)
           x == IF line.go_message = 0 THEN located
                ELSE Asserted(located, line.go_message, line.go_detail)
<1>0. InGoPanic(acc) \in BOOLEAN
  BY DEF InGoPanic
<1>1. GoStep(next, acc, G, acc.go_running_name, acc.go_panic_name)
  BY <1>0, WithBlockStep DEF Admits
<1>2. CASE line.stack_frame /\ line.go_runtime
  BY <1>2, GoSame DEF GoPlace
<1>3. CASE ~(line.stack_frame /\ line.go_runtime) /\ index = 0
  BY <1>1, <1>3 DEF GoPlace
<1>4. CASE ~(line.stack_frame /\ line.go_runtime) /\ index # 0
  <2>1. index \in DOMAIN next.go_blocks /\ b \in G /\ b.name = name
    BY <1>0, <1>1, <1>4, FoundBlock
  <2>2. located \in G
    BY <2>1 DEF Admits
  <2>3. located.name = name
    <3>1. b \in GoBlockType
      BY <2>1 DEF GoIn
    <3> HIDE DEF b, name
    <3> QED  BY <2>1, <3>1 DEF Located, GoBlockType
  <2>4. x \in G
    BY <2>2, <2>3 DEF Admits
  <2>5. GoPlace(acc, line) = [next EXCEPT !.go_blocks[index] = x]
    BY <1>4 DEF GoPlace
  <2>6. next.go_panic_name = acc.go_panic_name
    <3> HIDE DEF next
    <3> QED  BY <1>1 DEF GoStep, GoIn, AccType
  <2>7. next = [next EXCEPT !.go_panic_name = acc.go_panic_name]
    <3>1. acc \in AccType /\ next = [acc EXCEPT !.go_blocks = next.go_blocks,
             !.go_running_name = acc.go_running_name, !.go_panic_name = acc.go_panic_name]
      BY <1>1 DEF GoStep, GoIn
    <3> HIDE DEF next
    <3> QED  BY <2>6, <3>1 DEF AccType
  <2> HIDE DEF x, b, index, next
  <2>8. [next EXCEPT !.go_blocks[index] = x] = Replaced(next, index, x, acc.go_panic_name)
    BY <2>7 DEF Replaced
  <2> QED  BY <1>1, <2>1, <2>4, <2>5, <2>8, BlockReplaced
<1> QED  BY <1>2, <1>3, <1>4

LEMMA DetailBlockStep ==
  ASSUME NEW acc, NEW G, GoIn(acc, G), NEW line,
         GoName(acc) # 0 => Admits(G, line, GoName(acc))
  PROVE  GoStep(WithDetailBlock(acc, line), acc, G, acc.go_running_name, acc.go_panic_name)
PROOF
<1>0. InGoPanic(acc) \in BOOLEAN
  BY DEF InGoPanic
<1>1. CASE TriesGoDetail(acc, line)
  <2>1. Admits(G, line, GoName(acc))
    BY <1>1 DEF TriesGoDetail
  <2>2. WithDetailBlock(acc, line) = WithGoBlock(acc, GoName(acc), InGoPanic(acc))
    BY <1>1 DEF WithDetailBlock
  <2> QED  BY <1>0, <2>1, <2>2, WithBlockStep DEF Admits
<1>2. CASE ~TriesGoDetail(acc, line)
  BY <1>2, GoSame DEF WithDetailBlock
<1> QED  BY <1>1, <1>2

LEMMA GoDetailStep ==
  ASSUME NEW acc, NEW G, GoIn(acc, G), NEW line, TakesGoDetail(acc, line),
         Admits(G, line, GoName(acc))
  PROVE  GoStep(GoDetail(acc, line), acc, G, acc.go_running_name, acc.go_panic_name)
PROOF
<1> DEFINE name == GoName(acc)
           next == WithDetailBlock(acc, line)
           index == GoBlock(next, name, InGoPanic(acc))
           b == next.go_blocks[index]
           x == Asserted(b, line.text, line.go_detail)
<1>0. InGoPanic(acc) \in BOOLEAN
  BY DEF InGoPanic
<1>1. GoStep(next, acc, G, acc.go_running_name, acc.go_panic_name)
  BY DetailBlockStep
<1>2. index # 0
  BY DEF TakesGoDetail
<1>3. index \in DOMAIN next.go_blocks /\ b \in G /\ b.name = name
  BY <1>0, <1>1, <1>2, FoundBlock
<1>4. x \in G
  BY <1>3 DEF Admits
<1>5. GoDetail(acc, line) = [next EXCEPT !.go_blocks[index] = x]
  BY DEF GoDetail
<1>7. next = [next EXCEPT !.go_panic_name = acc.go_panic_name]
  <2>1. acc \in AccType /\ next = [acc EXCEPT !.go_blocks = next.go_blocks,
             !.go_running_name = acc.go_running_name, !.go_panic_name = acc.go_panic_name]
    BY <1>1 DEF GoStep, GoIn
  <2> HIDE DEF next
  <2>2. next.go_panic_name = acc.go_panic_name
    BY <2>1 DEF AccType
  <2> QED  BY <2>1, <2>2 DEF AccType
<1> HIDE DEF x, b, index, next
<1>8. [next EXCEPT !.go_blocks[index] = x] = Replaced(next, index, x, acc.go_panic_name)
  BY <1>7 DEF Replaced
<1> QED  BY <1>1, <1>3, <1>4, <1>5, <1>8, BlockReplaced

(* What observe_line does before it comes to GoogleTest and libtest: it    *)
(* takes the line, or hands it on with what it made of it.                 *)
TakenByGo(acc, line) ==
  \/ line.go_run # 0 \/ line.go_fail # 0
  \/ line.go_pass /\ acc.go_running_name # 0
  \/ GoName(acc) # 0 /\ (line.go_panic # 0 \/ line.go_place # 0)
  \/ TakesGoDetail(acc, line)

(* The names after the line. *)
GoNames(acc, line) ==
  IF line.go_run # 0 THEN {<<Bounded[line.go_run], 0>>}
  ELSE IF line.go_fail # 0 THEN {<<Bounded[line.go_fail], Bounded[line.go_fail]>>}
  ELSE IF line.go_pass /\ acc.go_running_name # 0 THEN {<<0, 0>>}
  ELSE {<<acc.go_running_name, acc.go_panic_name>>}
         \cup (IF GoName(acc) # 0 THEN {<<acc.go_running_name, GoName(acc)>>} ELSE {})

AdmitsLine(G, acc, line) ==
  /\ line.go_run = 0 /\ line.go_fail # 0 => Admits(G, line, Bounded[line.go_fail])
  /\ /\ line.go_run = 0 /\ line.go_fail = 0
     /\ ~(line.go_pass /\ acc.go_running_name # 0)
     /\ GoName(acc) # 0
     => Admits(G, line, GoName(acc))

GoStepsTo(next, acc, G, names) ==
  \E pair \in names : GoStep(next, acc, G, pair[1], pair[2])

LEMMA GoLineStep ==
  ASSUME NEW acc, NEW G, GoIn(acc, G), NEW line, AdmitsLine(G, acc, line)
  PROVE  /\ TakenByGo(acc, line) =>
              GoStepsTo(ObserveLine(acc, line), acc, G, GoNames(acc, line))
         /\ ~TakenByGo(acc, line) =>
              /\ ObserveLine(acc, line) = GtestLine(WithDetailBlock(acc, line), line)
              /\ GoStep(WithDetailBlock(acc, line), acc, G, acc.go_running_name, acc.go_panic_name)
PROOF
<1> DEFINE same == <<acc.go_running_name, acc.go_panic_name>>
<1>1. CASE line.go_run # 0
  <2>1. GoStep(ObserveLine(acc, line), acc, G, Bounded[line.go_run], 0)
    BY <1>1, GoRunStep DEF ObserveLine
  <2>2. GoNames(acc, line) = {<<Bounded[line.go_run], 0>>}
    BY <1>1 DEF GoNames
  <2> QED  BY <1>1, <2>1, <2>2 DEF TakenByGo, GoStepsTo
<1>2. CASE line.go_run = 0 /\ line.go_fail # 0
  <2>1. GoStep(GoFail(acc, line), acc, G, Bounded[line.go_fail], Bounded[line.go_fail])
    BY <1>2, GoFailStep DEF AdmitsLine, Admits
  <2>2. ObserveLine(acc, line) = GoFail(acc, line)
    BY <1>2 DEF ObserveLine
  <2>3. GoNames(acc, line) = {<<Bounded[line.go_fail], Bounded[line.go_fail]>>}
    BY <1>2 DEF GoNames
  <2> QED  BY <1>2, <2>1, <2>2, <2>3 DEF TakenByGo, GoStepsTo
<1>3. CASE line.go_run = 0 /\ line.go_fail = 0 /\ line.go_pass /\ acc.go_running_name # 0
  <2>1. GoStep(ObserveLine(acc, line), acc, G, 0, 0)
    BY <1>3, GoPassStep DEF ObserveLine
  <2>2. GoNames(acc, line) = {<<0, 0>>}
    BY <1>3 DEF GoNames
  <2> QED  BY <1>3, <2>1, <2>2 DEF TakenByGo, GoStepsTo
<1> DEFINE rest == /\ line.go_run = 0 /\ line.go_fail = 0
                   /\ ~(line.go_pass /\ acc.go_running_name # 0)
<1>4. ASSUME rest
      PROVE  /\ same \in GoNames(acc, line)
             /\ GoName(acc) # 0 => <<acc.go_running_name, GoName(acc)>> \in GoNames(acc, line)
  BY <1>4 DEF GoNames
<1>5. CASE rest /\ GoName(acc) # 0 /\ line.go_panic # 0
  <2>1. ObserveLine(acc, line) = GoPanic(acc, line)
    BY <1>5 DEF ObserveLine
  <2>2. PICK panic \in {acc.go_panic_name, GoName(acc)} :
          GoStep(ObserveLine(acc, line), acc, G, acc.go_running_name, panic)
    BY <1>5, <2>1, GoPanicStep DEF AdmitsLine
  <2>3. <<acc.go_running_name, panic>> \in GoNames(acc, line)
    BY <1>4, <1>5
  <2>4. GoStepsTo(ObserveLine(acc, line), acc, G, GoNames(acc, line))
    BY <2>2, <2>3 DEF GoStepsTo
  <2> QED  BY <1>5, <2>4 DEF TakenByGo
<1>6. CASE rest /\ GoName(acc) # 0 /\ line.go_panic = 0 /\ line.go_place # 0
  <2>1. ObserveLine(acc, line) = GoPlace(acc, line)
    BY <1>6 DEF ObserveLine
  <2>2. GoStep(ObserveLine(acc, line), acc, G, same[1], same[2])
    BY <1>6, <2>1, GoPlaceStep DEF AdmitsLine
  <2>3. GoStepsTo(ObserveLine(acc, line), acc, G, GoNames(acc, line))
    BY <1>4, <1>6, <2>2 DEF GoStepsTo
  <2> QED  BY <1>6, <2>3 DEF TakenByGo
<1> DEFINE last == rest /\ (GoName(acc) # 0 => line.go_panic = 0 /\ line.go_place = 0)
<1>7. CASE last /\ TakesGoDetail(acc, line)
  <2>1. ObserveLine(acc, line) = GoDetail(acc, line)
    BY <1>7 DEF ObserveLine
  <2>2. Admits(G, line, GoName(acc))
    BY <1>7 DEF TakesGoDetail, TriesGoDetail, AdmitsLine
  <2>3. GoStep(ObserveLine(acc, line), acc, G, same[1], same[2])
    BY <1>7, <2>1, <2>2, GoDetailStep
  <2>4. GoStepsTo(ObserveLine(acc, line), acc, G, GoNames(acc, line))
    BY <1>4, <1>7, <2>3 DEF GoStepsTo
  <2> QED  BY <1>7, <2>4 DEF TakenByGo
<1>8. CASE last /\ ~TakesGoDetail(acc, line)
  <2>1. ObserveLine(acc, line) = GtestLine(WithDetailBlock(acc, line), line)
    BY <1>8 DEF ObserveLine
  <2>2. GoStep(WithDetailBlock(acc, line), acc, G, acc.go_running_name, acc.go_panic_name)
    BY <1>8, DetailBlockStep DEF AdmitsLine
  <2>3. ~TakenByGo(acc, line)
    BY <1>8 DEF TakenByGo
  <2> QED  BY <2>1, <2>2, <2>3
<1> QED  BY <1>1, <1>2, <1>3, <1>5, <1>6, <1>7, <1>8

LEMMA AssertedType ==
  ASSUME NEW b \in GoBlockType, NEW text \in Texts, NEW is_detail
  PROVE  Asserted(b, text, is_detail) \in GoBlockType
PROOF
<1>1. PushUnique(b.details, text, MaxGoDetails) \in AtMost(Texts, MaxGoDetails)
  BY LimitsNat, PushUniqueProperties DEF GoBlockType
<1> DEFINE details == AtMost(Texts, MaxGoDetails)
           more == PushUnique(b.details, text, MaxGoDetails)
<1>2. more \in details
  BY <1>1
<1>3. Asserted(b, text, is_detail)
        = IF b.assertion = 0 THEN [b EXCEPT !.assertion = text]
          ELSE IF is_detail THEN [b EXCEPT !.details = more]
          ELSE b
  BY DEF Asserted
<1> HIDE DEF details, more
<1>4. b \in [name : Names, location : OptionalPlaces, location_rank : {0, 1, 255},
             assertion : OptionalTexts, panic_message : OptionalTexts,
             details : details, failed : BOOLEAN]
  BY DEF GoBlockType, details
<1>5. Asserted(b, text, is_detail)
        \in [name : Names, location : OptionalPlaces, location_rank : {0, 1, 255},
             assertion : OptionalTexts, panic_message : OptionalTexts,
             details : details, failed : BOOLEAN]
  BY <1>2, <1>3, <1>4 DEF OptionalTexts
<1> QED  BY <1>5 DEF GoBlockType, details

LEMMA AdmitsType ==
  ASSUME NEW line \in LineType, NEW name \in Names
  PROVE  Admits(GoBlockType, line, name)
PROOF
<1> DEFINE details == AtMost(Texts, MaxGoDetails)
<1>1. NewGoBlock(name) \in GoBlockType
  BY NewBlockType
<1>2. ASSUME NEW b \in GoBlockType
      PROVE  /\ [b EXCEPT !.failed = TRUE] \in GoBlockType
             /\ line.go_panic # 0 =>
                  [b EXCEPT !.panic_message = IF @ = 0 THEN line.go_panic ELSE @] \in GoBlockType
             /\ Located(b, line) \in GoBlockType
  <2>1. LocationRank(line) \in {0, 1, 255}
    BY DEF LocationRank
  <2>2. line.go_place \in OptionalPlaces /\ line.go_panic \in OptionalTexts
    BY DEF LineType
  <2>3. b \in [name : Names, location : OptionalPlaces, location_rank : {0, 1, 255},
               assertion : OptionalTexts, panic_message : OptionalTexts,
               details : details, failed : BOOLEAN]
    BY DEF GoBlockType
  <2> DEFINE better == b.location = 0 \/ LocationRank(line) < b.location_rank
             rank == LocationRank(line)
             place == line.go_place
             said == line.go_panic
  <2>4. Located(b, line) = IF better THEN [b EXCEPT !.location = place, !.location_rank = rank]
                           ELSE b
    BY DEF Located
  <2> HIDE DEF details, rank, place, said, better
  <2>5. place \in OptionalPlaces /\ rank \in {0, 1, 255} /\ said \in OptionalTexts
    BY <2>1, <2>2 DEF place, rank, said
  <2>8. [b EXCEPT !.location = place, !.location_rank = rank] \in
              [name : Names, location : OptionalPlaces, location_rank : {0, 1, 255},
               assertion : OptionalTexts, panic_message : OptionalTexts,
               details : details, failed : BOOLEAN]
    <3> DEFINE ranks == {0, 1, 255}
    <3>1. rank \in ranks /\ b \in
              [name : Names, location : OptionalPlaces, location_rank : ranks,
               assertion : OptionalTexts, panic_message : OptionalTexts,
               details : details, failed : BOOLEAN]
      BY <2>3, <2>5
    <3> HIDE DEF ranks
    <3>2. [b EXCEPT !.location = place, !.location_rank = rank] \in
              [name : Names, location : OptionalPlaces, location_rank : ranks,
               assertion : OptionalTexts, panic_message : OptionalTexts,
               details : details, failed : BOOLEAN]
      BY <2>5, <3>1
    <3> QED  BY <3>2 DEF ranks
  <2>6. Located(b, line) \in
              [name : Names, location : OptionalPlaces, location_rank : {0, 1, 255},
               assertion : OptionalTexts, panic_message : OptionalTexts,
               details : details, failed : BOOLEAN]
    BY <2>3, <2>4, <2>8
  <2>7. /\ [b EXCEPT !.failed = TRUE] \in
              [name : Names, location : OptionalPlaces, location_rank : {0, 1, 255},
               assertion : OptionalTexts, panic_message : OptionalTexts,
               details : details, failed : BOOLEAN]
        /\ [b EXCEPT !.panic_message = IF @ = 0 THEN said ELSE @] \in
              [name : Names, location : OptionalPlaces, location_rank : {0, 1, 255},
               assertion : OptionalTexts, panic_message : OptionalTexts,
               details : details, failed : BOOLEAN]
    BY <2>3, <2>5
  <2> QED  BY <2>6, <2>7 DEF GoBlockType, details, said
<1>3. line.text \in Texts /\ (line.go_message # 0 => line.go_message \in Texts)
  BY DEF LineType, OptionalTexts
<1> QED  BY <1>1, <1>2, <1>3, AssertedType DEF Admits

LEMMA AdmitsLineType ==
  ASSUME NEW acc \in AccType, NEW line \in LineType
  PROVE  AdmitsLine(GoBlockType, acc, line)
PROOF
<1>1. GoName(acc) # 0 => GoName(acc) \in Names
  BY DEF GoName, AccType, OptionalNames
<1>2. line.go_fail # 0 => Bounded[line.go_fail] \in Names
  <2>1. line.go_fail \in OptionalNames
    BY DEF LineType
  <2> QED  BY <2>1, BoundedName DEF OptionalNames
<1> QED  BY <1>1, <1>2, AdmitsType DEF AdmitsLine

(* The names stay names. *)
LEMMA GoNamesType ==
  ASSUME NEW acc \in AccType, NEW line \in LineType
  PROVE  \A pair \in GoNames(acc, line) : pair[1] \in OptionalNames /\ pair[2] \in OptionalNames
PROOF
<1>1. /\ acc.go_running_name \in OptionalNames /\ acc.go_panic_name \in OptionalNames
      /\ 0 \in OptionalNames
  BY DEF AccType, OptionalNames
<1>2. GoName(acc) \in OptionalNames
  BY <1>1 DEF GoName
<1>3. line.go_run \in OptionalNames /\ line.go_fail \in OptionalNames
  BY DEF LineType
<1>4. /\ line.go_run # 0 => Bounded[line.go_run] \in OptionalNames
      /\ line.go_fail # 0 => Bounded[line.go_fail] \in OptionalNames
  BY <1>3, BoundedName DEF OptionalNames
<1> QED  BY <1>1, <1>2, <1>4 DEF GoNames

(* The names agree: only a panic of the running test is one.               *)
Consistent(acc) ==
  /\ acc.go_panic_name \in {0, acc.go_running_name}
  /\ acc.current.name = 0 => acc.current = NoRustBlock

LEMMA GoNamesConsistent ==
  ASSUME NEW acc, NEW line, Consistent(acc)
  PROVE  \A pair \in GoNames(acc, line) : pair[2] \in {0, pair[1]}
PROOF
<1>1. GoName(acc) = acc.go_running_name
  BY DEF GoName, Consistent
<1> QED  BY <1>1 DEF GoNames, Consistent

----------------------------------------------------------------------------
(* Blocks of GoogleTest and libtest *)

(* All but what is kept for go test, which these leave alone.              *)
With(acc, failed_names, failures, current, running, gtest) ==
  [acc EXCEPT !.failed_names = failed_names, !.failures = failures, !.current = current,
              !.gtest_running_name = running, !.gtest_current = gtest]

(* The failures of next are in F, and the rest of it is as given.          *)
Becomes(next, acc, F, failed_names, current, running, gtest) ==
  /\ next.failures \in AtMost(F, MaxLogFailures)
  /\ next = With(acc, failed_names, next.failures, current, running, gtest)

AccIn(acc, F) ==
  acc \in AccType /\ F \in SUBSET FailureType /\ acc.failures \in AtMost(F, MaxLogFailures)

LEMMA BecomesThen ==
  ASSUME NEW acc \in AccType, NEW F \in SUBSET FailureType, NEW next,
         NEW names \in AtMost(Names, MaxLogFailures), NEW current \in RustBlockType,
         NEW running \in OptionalNames, NEW gtest \in GtestBlockType,
         Becomes(next, acc, F, names, current, running, gtest)
  PROVE  /\ AccIn(next, F)
         /\ next.failed_names = names /\ next.current = current
         /\ next.gtest_running_name = running /\ next.gtest_current = gtest
         /\ next.go_running_name = acc.go_running_name
         /\ next.go_panic_name = acc.go_panic_name
         /\ next.go_blocks = acc.go_blocks
PROOF
<1> DEFINE nameses == AtMost(Names, MaxLogFailures)
           failureses == AtMost(FailureType, MaxLogFailures)
           blocks == AtMost(GoBlockType, MaxGoBlocks)
           failures == next.failures
<1>1. failures \in failureses /\ failures \in AtMost(F, MaxLogFailures)
  BY DEF Becomes, AtMost
<1>2. names \in nameses
  OBVIOUS
<1>3. acc \in [failed_names : nameses, failures : failureses, current : RustBlockType,
               gtest_running_name : OptionalNames, gtest_current : GtestBlockType,
               go_running_name : OptionalNames, go_panic_name : OptionalNames,
               go_blocks : blocks]
  BY DEF AccType
<1>4. next = [acc EXCEPT !.failed_names = names, !.failures = failures, !.current = current,
                         !.gtest_running_name = running, !.gtest_current = gtest]
  BY DEF Becomes, With
<1> HIDE DEF nameses, failureses, blocks, failures
<1>5. /\ next \in [failed_names : nameses, failures : failureses, current : RustBlockType,
               gtest_running_name : OptionalNames, gtest_current : GtestBlockType,
               go_running_name : OptionalNames, go_panic_name : OptionalNames,
               go_blocks : blocks]
      /\ next.failed_names = names /\ next.current = current
      /\ next.gtest_running_name = running /\ next.gtest_current = gtest
      /\ next.go_running_name = acc.go_running_name
      /\ next.go_panic_name = acc.go_panic_name
      /\ next.go_blocks = acc.go_blocks
  BY <1>1, <1>2, <1>3, <1>4
<1>6. next \in AccType
  BY <1>5 DEF AccType, nameses, failureses, blocks
<1> QED  BY <1>1, <1>5, <1>6 DEF AccIn, failures

LEMMA NoBlocksType ==
  NoRustBlock \in RustBlockType /\ NoGtestBlock \in GtestBlockType
PROOF
<1>1. <<>> \in AtMost(Texts, MaxRustDetails) /\ <<>> \in AtMost(Texts, MaxGtestDetails)
  BY LimitsNat, EmptyAtMost
<1> DEFINE rust == AtMost(Texts, MaxRustDetails)
           gtest == AtMost(Texts, MaxGtestDetails)
<1>2. <<>> \in rust /\ <<>> \in gtest
  BY <1>1
<1> HIDE DEF rust, gtest
<1>3. NoRustBlock \in [name : OptionalNames, location : OptionalPlaces, assertion : OptionalTexts,
        panic_message : OptionalTexts, details : rust, saw_panic : BOOLEAN]
  BY <1>2 DEF NoRustBlock, OptionalNames, OptionalPlaces, OptionalTexts
<1>4. NoGtestBlock \in [name : OptionalNames, location : OptionalPlaces, details : gtest]
  BY <1>2 DEF NoGtestBlock, OptionalNames, OptionalPlaces
<1> QED  BY <1>3, <1>4 DEF RustBlockType, GtestBlockType, rust, gtest

LEMMA BecomesItself ==
  ASSUME NEW acc, NEW F, AccIn(acc, F)
  PROVE  Becomes(acc, acc, F, acc.failed_names, acc.current, acc.gtest_running_name,
                 acc.gtest_current)
PROOF
  BY DEF Becomes, With, AccIn, AccType

(* The evidence that is made of a block. *)
GtestEvidence(block) ==
  [kind |-> "gtest", name |-> block.name, location |-> block.location,
   panicked |-> FALSE, reason |-> 0, details |-> block.details]
RustReason(block) == IF block.assertion # 0 THEN block.assertion ELSE block.panic_message
RustEvidence(block) ==
  [kind |-> "rust", name |-> block.name, location |-> block.location,
   panicked |-> FALSE, reason |-> RustReason(block), details |-> block.details]

LEMMA EvidenceType ==
  /\ \A block \in GtestBlockType : block.name # 0 => GtestEvidence(block) \in FailureType
  /\ \A block \in RustBlockType : block.name # 0 => RustEvidence(block) \in FailureType
PROOF
<1>1. ASSUME NEW block \in GtestBlockType, block.name # 0
      PROVE  GtestEvidence(block) \in FailureType
  <2>1. /\ block.name \in Names /\ block.location \in OptionalPlaces
        /\ block.details \in Seq(Texts)
    BY <1>1 DEF GtestBlockType, OptionalNames, AtMost
  <2> QED  BY <2>1 DEF GtestEvidence, FailureType, OptionalTexts
<1>2. ASSUME NEW block \in RustBlockType, block.name # 0
      PROVE  RustEvidence(block) \in FailureType
  <2>1. /\ block.name \in Names /\ block.location \in OptionalPlaces
        /\ block.details \in Seq(Texts)
        /\ block.assertion \in OptionalTexts /\ block.panic_message \in OptionalTexts
    BY <1>2 DEF RustBlockType, OptionalNames, AtMost
  <2>2. RustReason(block) \in OptionalTexts
    BY <2>1 DEF RustReason
  <2> QED  BY <2>1, <2>2 DEF RustEvidence, FailureType
<1> QED  BY <1>1, <1>2

LEMMA WithFailureStep ==
  ASSUME NEW acc \in AccType, NEW F \in SUBSET FailureType, NEW name, NEW failure,
         NEW prior, AccIn(prior, F), NEW names, NEW current, NEW running, NEW gtest,
         acc = With(prior, names, prior.failures, current, running, gtest),
         acc.failures = prior.failures,
         name # 0 => failure \in F
  PROVE  Becomes(WithFailure(acc, name, failure), prior, F, names, current, running, gtest)
PROOF
<1>1. prior \in AccType /\ prior.failures \in AtMost(F, MaxLogFailures)
  BY DEF AccIn
<1>2. CASE name = 0 \/ Len(acc.failures) >= MaxLogFailures
  BY <1>1, <1>2 DEF WithFailure, Becomes
<1>3. CASE ~(name = 0 \/ Len(acc.failures) >= MaxLogFailures)
  <2> DEFINE more == Append(acc.failures, failure)
  <2>1. more \in AtMost(F, MaxLogFailures)
    BY <1>1, <1>3, LimitsNat, AppendAtMost
  <2>2. WithFailure(acc, name, failure) = [acc EXCEPT !.failures = more]
    BY <1>3 DEF WithFailure
  <2> HIDE DEF more
  <2>3. WithFailure(acc, name, failure) = With(prior, names, more, current, running, gtest)
    BY <1>1, <2>2 DEF With, AccType
  <2>4. WithFailure(acc, name, failure).failures = more
    BY <2>2 DEF AccType
  <2> QED  BY <2>1, <2>3, <2>4 DEF Becomes
<1> QED  BY <1>2, <1>3

LEMMA FinishGtestStep ==
  ASSUME NEW acc, NEW F, AccIn(acc, F),
         acc.gtest_current.name # 0 => GtestEvidence(acc.gtest_current) \in F
  PROVE  Becomes(FinishGtest(acc), acc, F, acc.failed_names, acc.current, acc.gtest_running_name,
                 NoGtestBlock)
PROOF
<1> DEFINE block == acc.gtest_current
           emptied == [acc EXCEPT !.gtest_current = NoGtestBlock]
<1>1. FinishGtest(acc) = WithFailure(emptied, block.name, GtestEvidence(block))
  BY DEF FinishGtest, GtestEvidence
<1>2. /\ emptied = With(acc, acc.failed_names, acc.failures, acc.current, acc.gtest_running_name,
                        NoGtestBlock)
      /\ emptied.failures = acc.failures
  BY DEF With, AccIn, AccType
<1>3. Becomes(emptied, acc, F, acc.failed_names, acc.current, acc.gtest_running_name, NoGtestBlock)
  BY <1>2 DEF Becomes, AccIn
<1>4. emptied \in AccType
  <2> HIDE DEF emptied
  <2>1. /\ acc \in AccType /\ F \in SUBSET FailureType
        /\ acc.failed_names \in AtMost(Names, MaxLogFailures) /\ acc.current \in RustBlockType
        /\ acc.gtest_running_name \in OptionalNames
    BY DEF AccIn, AccType
  <2> QED  BY <1>3, <2>1, NoBlocksType, BecomesThen DEF AccIn
<1> HIDE DEF emptied, block
<1>5. block.name # 0 => GtestEvidence(block) \in F
  BY DEF block
<1>6. F \in SUBSET FailureType
  BY DEF AccIn
<1> QED  BY <1>1, <1>2, <1>4, <1>5, <1>6, WithFailureStep

LEMMA FinishRustStep ==
  ASSUME NEW acc, NEW F, AccIn(acc, F),
         acc.current.name # 0 => RustEvidence(acc.current) \in F
  PROVE  Becomes(FinishRust(acc), acc, F, acc.failed_names, NoRustBlock, acc.gtest_running_name,
                 acc.gtest_current)
PROOF
<1> DEFINE block == acc.current
           emptied == [acc EXCEPT !.current = NoRustBlock]
<1>1. FinishRust(acc) = WithFailure(emptied, block.name, RustEvidence(block))
  BY DEF FinishRust, RustEvidence, RustReason
<1>2. /\ emptied = With(acc, acc.failed_names, acc.failures, NoRustBlock, acc.gtest_running_name,
                        acc.gtest_current)
      /\ emptied.failures = acc.failures
  BY DEF With, AccIn, AccType
<1>3. Becomes(emptied, acc, F, acc.failed_names, NoRustBlock, acc.gtest_running_name,
              acc.gtest_current)
  BY <1>2 DEF Becomes, AccIn
<1>4. emptied \in AccType
  <2> HIDE DEF emptied
  <2>1. /\ acc \in AccType /\ F \in SUBSET FailureType
        /\ acc.failed_names \in AtMost(Names, MaxLogFailures)
        /\ acc.gtest_current \in GtestBlockType
        /\ acc.gtest_running_name \in OptionalNames
    BY DEF AccIn, AccType
  <2> QED  BY <1>3, <2>1, NoBlocksType, BecomesThen DEF AccIn
<1> HIDE DEF emptied, block
<1>5. block.name # 0 => RustEvidence(block) \in F
  BY DEF block
<1>6. F \in SUBSET FailureType
  BY DEF AccIn
<1> QED  BY <1>1, <1>2, <1>4, <1>5, <1>6, WithFailureStep

LEMMA BecomesAndThen ==
  ASSUME NEW acc, NEW F, AccIn(acc, F), NEW mid, NEW next,
         NEW n1, NEW c1, NEW r1, NEW g1, Becomes(mid, acc, F, n1, c1, r1, g1),
         NEW n2, NEW c2, NEW r2, NEW g2,
         \/ next = With(mid, n2, mid.failures, c2, r2, g2)
         \/ Becomes(next, mid, F, n2, c2, r2, g2)
  PROVE  Becomes(next, acc, F, n2, c2, r2, g2)
PROOF
<1> DEFINE before == mid.failures
           after == next.failures
<1>1. acc \in AccType /\ before \in AtMost(F, MaxLogFailures)
  BY DEF AccIn, Becomes
<1>2. mid = With(acc, n1, before, c1, r1, g1)
  BY DEF Becomes
<1>3. next = With(mid, n2, after, c2, r2, g2) /\ after \in AtMost(F, MaxLogFailures)
  <2>1. CASE next = With(mid, n2, before, c2, r2, g2)
    <3> HIDE DEF before
    <3>1. after = before
      BY <1>1, <1>2, <2>1 DEF With, AccType
    <3> QED  BY <1>1, <2>1, <3>1
  <2>2. CASE Becomes(next, mid, F, n2, c2, r2, g2)
    BY <2>2 DEF Becomes
  <2> QED  BY <2>1, <2>2
<1> HIDE DEF before, after
<1>4. next = With(acc, n2, after, c2, r2, g2)
  BY <1>1, <1>2, <1>3 DEF With, AccType
<1> QED  BY <1>3, <1>4 DEF Becomes, after

(* The blocks after a line, by the block before. *)
NextGtestRunning(acc, line) ==
  IF line.gtest_run # 0 THEN Bounded[line.gtest_run]
  ELSE IF ~line.gtest_failure /\ line.gtest_failed # 0
          /\ acc.gtest_running_name = line.gtest_failed THEN 0
  ELSE acc.gtest_running_name
NewGtestBlock(running, line) ==
  [NoGtestBlock EXCEPT !.name = IF running = 0 THEN UnknownGtest ELSE running,
                       !.location = line.gtest_place]
NextGtestText(block, line) ==
  IF Len(block.details) >= MaxGtestDetails \/ line.gtest_status THEN block
  ELSE [block EXCEPT !.details = Append(@, line.text)]
NextGtestBlock(acc, line) ==
  IF line.gtest_run # 0 THEN NoGtestBlock
  ELSE IF line.gtest_failure THEN NewGtestBlock(acc.gtest_running_name, line)
  ELSE IF line.gtest_failed # 0
       THEN IF acc.gtest_running_name # line.gtest_failed THEN acc.gtest_current
            ELSE NoGtestBlock
  ELSE IF acc.gtest_current.name # 0 THEN NextGtestText(acc.gtest_current, line)
  ELSE acc.gtest_current
TakenByGtest(acc, line) ==
  \/ line.gtest_run # 0 \/ line.gtest_failure \/ line.gtest_failed # 0
  \/ acc.gtest_current.name # 0

LEMMA GtestStep ==
  ASSUME NEW acc, NEW F, AccIn(acc, F), NEW line, TakenByGtest(acc, line),
         acc.gtest_current.name # 0 => GtestEvidence(acc.gtest_current) \in F
  PROVE  Becomes(GtestLine(acc, line), acc, F, acc.failed_names, acc.current,
                 NextGtestRunning(acc, line), NextGtestBlock(acc, line))
PROOF
<1> DEFINE finished == FinishGtest(acc)
           names == acc.failed_names
           current == acc.current
           running == acc.gtest_running_name
<1>1. Becomes(finished, acc, F, names, current, running, NoGtestBlock)
  BY FinishGtestStep
<1>2. /\ AccIn(finished, F) /\ finished.failed_names = names /\ finished.current = current
      /\ finished.gtest_running_name = running /\ finished.gtest_current = NoGtestBlock
  <2> HIDE DEF finished
  <2>1. /\ acc \in AccType /\ F \in SUBSET FailureType /\ names \in AtMost(Names, MaxLogFailures)
        /\ current \in RustBlockType /\ running \in OptionalNames
    BY DEF AccIn, AccType
  <2> HIDE DEF names, current, running
  <2> QED  BY <1>1, <2>1, NoBlocksType, BecomesThen
<1> HIDE DEF finished
<1>3. CASE line.gtest_run # 0
  <2> DEFINE name == Bounded[line.gtest_run]
  <2>1. GtestLine(acc, line) = [finished EXCEPT !.gtest_running_name = name]
    BY <1>3 DEF GtestLine, GtestRun, finished
  <2>2. NextGtestRunning(acc, line) = name /\ NextGtestBlock(acc, line) = NoGtestBlock
    BY <1>3 DEF NextGtestRunning, NextGtestBlock
  <2> HIDE DEF name
  <2>3. GtestLine(acc, line) = With(finished, names, finished.failures, current, name, NoGtestBlock)
    BY <1>2, <2>1 DEF With, AccIn, AccType
  <2> HIDE DEF names, current, running
  <2>4. Becomes(GtestLine(acc, line), acc, F, names, current, name, NoGtestBlock)
    BY <1>1, <2>3, BecomesAndThen
  <2> QED  BY <2>2, <2>4 DEF names, current
<1>4. CASE line.gtest_run = 0 /\ line.gtest_failure
  <2> DEFINE block == NewGtestBlock(running, line)
  <2>1. GtestLine(acc, line) = [finished EXCEPT !.gtest_current =
           [NoGtestBlock EXCEPT !.name = IF running = 0 THEN UnknownGtest ELSE running,
                                !.location = line.gtest_place]]
    BY <1>4 DEF GtestLine, GtestFailure, finished
  <2>2. [NoGtestBlock EXCEPT !.name = IF running = 0 THEN UnknownGtest ELSE running,
                             !.location = line.gtest_place] = block
    BY DEF NewGtestBlock
  <2>3. NextGtestRunning(acc, line) = running /\ NextGtestBlock(acc, line) = block
    BY <1>4 DEF NextGtestRunning, NextGtestBlock
  <2>4. GtestLine(acc, line) = [finished EXCEPT !.gtest_current = block]
    BY <2>1, <2>2
  <2> HIDE DEF block
  <2>5. GtestLine(acc, line) = With(finished, names, finished.failures, current, running, block)
    BY <1>2, <2>4 DEF With, AccIn, AccType
  <2> HIDE DEF names, current, running
  <2>6. Becomes(GtestLine(acc, line), acc, F, names, current, running, block)
    BY <1>1, <2>5, BecomesAndThen
  <2> QED  BY <2>3, <2>6 DEF names, current
<1> DEFINE rest == line.gtest_run = 0 /\ ~line.gtest_failure
<1>5. CASE rest /\ line.gtest_failed # 0 /\ running = line.gtest_failed
  <2>1. GtestLine(acc, line) = [finished EXCEPT !.gtest_running_name = 0]
    BY <1>5 DEF GtestLine, GtestFailed, finished
  <2>2. NextGtestRunning(acc, line) = 0 /\ NextGtestBlock(acc, line) = NoGtestBlock
    BY <1>5 DEF NextGtestRunning, NextGtestBlock
  <2>3. GtestLine(acc, line) = With(finished, names, finished.failures, current, 0, NoGtestBlock)
    BY <1>2, <2>1 DEF With, AccIn, AccType
  <2> HIDE DEF names, current, running
  <2>4. Becomes(GtestLine(acc, line), acc, F, names, current, 0, NoGtestBlock)
    BY <1>1, <2>3, BecomesAndThen
  <2> QED  BY <2>2, <2>4 DEF names, current
<1>6. CASE rest /\ line.gtest_failed # 0 /\ running # line.gtest_failed
  <2>1. GtestLine(acc, line) = acc
    BY <1>6 DEF GtestLine, GtestFailed
  <2>2. NextGtestRunning(acc, line) = running /\ NextGtestBlock(acc, line) = acc.gtest_current
    BY <1>6 DEF NextGtestRunning, NextGtestBlock
  <2> QED  BY <2>1, <2>2, BecomesItself
<1>7. CASE rest /\ line.gtest_failed = 0
  <2> DEFINE block == NextGtestText(acc.gtest_current, line)
  <2>1. acc.gtest_current.name # 0
    BY <1>7 DEF TakenByGtest
  <2>2. NextGtestRunning(acc, line) = running /\ NextGtestBlock(acc, line) = block
    BY <1>7, <2>1 DEF NextGtestRunning, NextGtestBlock
  <2>3. GtestLine(acc, line) = GtestText(acc, line)
    BY <1>7, <2>1 DEF GtestLine
  <2>4. CASE Len(acc.gtest_current.details) >= MaxGtestDetails \/ line.gtest_status
    <3>1. GtestLine(acc, line) = acc /\ block = acc.gtest_current
      BY <2>3, <2>4 DEF GtestText, NextGtestText
    <3> QED  BY <2>2, <3>1, BecomesItself
  <2>5. CASE ~(Len(acc.gtest_current.details) >= MaxGtestDetails \/ line.gtest_status)
    <3>1. /\ GtestLine(acc, line) = [acc EXCEPT !.gtest_current.details = Append(@, line.text)]
          /\ block = [acc.gtest_current EXCEPT !.details = Append(@, line.text)]
      BY <2>3, <2>5 DEF GtestText, NextGtestText
    <3>2. GtestLine(acc, line) = [acc EXCEPT !.gtest_current = block]
      BY <3>1
    <3> HIDE DEF block
    <3>3. GtestLine(acc, line) = With(acc, names, acc.failures, current, running, block)
      BY <3>2 DEF With, AccIn, AccType
    <3>4. Becomes(acc, acc, F, names, current, running, acc.gtest_current)
      BY BecomesItself
    <3> HIDE DEF names, current, running
    <3>5. Becomes(GtestLine(acc, line), acc, F, names, current, running, block)
      BY <3>3, <3>4, BecomesAndThen
    <3> QED  BY <2>2, <3>5 DEF names, current
  <2> QED  BY <2>4, <2>5
<1> QED  BY <1>3, <1>4, <1>5, <1>6, <1>7

(* The same of libtest. *)
NextRustNames(acc, line) ==
  IF line.rust_failed = 0 THEN acc.failed_names
  ELSE PushUnique(acc.failed_names, Bounded[line.rust_failed], MaxLogFailures)
IsOther(block, line) == block.name \notin {0, line.rust_panic}
NextRustText(block, line) ==
  IF line.assertion THEN [block EXCEPT !.assertion = line.text]
  ELSE IF line.rust_detail
       THEN IF Len(block.details) >= MaxRustDetails THEN block
            ELSE [block EXCEPT !.details = Append(@, line.text)]
  ELSE IF block.saw_panic /\ block.panic_message = 0 /\ ~line.note
       THEN [block EXCEPT !.panic_message = line.text]
  ELSE block
NextRustBlock(block, line) ==
  IF line.rust_block # 0 THEN [NoRustBlock EXCEPT !.name = Bounded[line.rust_block]]
  ELSE IF line.rust_panic # 0
       THEN [(IF IsOther(block, line) THEN NoRustBlock ELSE block) EXCEPT
               !.name = Bounded[line.rust_panic], !.location = line.rust_place,
               !.saw_panic = TRUE]
  ELSE IF line.heading THEN NoRustBlock
  ELSE IF block.name # 0 THEN NextRustText(block, line)
  ELSE block

LEMMA RustNamesType ==
  ASSUME NEW acc \in AccType, NEW line \in LineType
  PROVE  NextRustNames(acc, line) \in AtMost(Names, MaxLogFailures)
PROOF
<1>1. acc.failed_names \in AtMost(Names, MaxLogFailures)
  BY DEF AccType
<1>2. line.rust_failed # 0 => Bounded[line.rust_failed] \in Names
  BY BoundedName DEF LineType, OptionalNames
<1> QED  BY <1>1, <1>2, LimitsNat, PushUniqueProperties DEF NextRustNames

LEMMA RustStep ==
  ASSUME NEW acc, NEW F, AccIn(acc, F), NEW line \in LineType,
         acc.current.name # 0 => RustEvidence(acc.current) \in F
  PROVE  Becomes(RustLine(acc, line), acc, F, NextRustNames(acc, line),
                 NextRustBlock(acc.current, line), acc.gtest_running_name, acc.gtest_current)
PROOF
<1> DEFINE noted == RustFailed(acc, line)
           finished == FinishRust(noted)
           names == NextRustNames(acc, line)
           block == acc.current
           running == acc.gtest_running_name
           gtest == acc.gtest_current
<1>1. Becomes(noted, acc, F, names, block, running, gtest)
  <2>1. CASE line.rust_failed = 0
    BY <2>1, BecomesItself DEF RustFailed, NextRustNames
  <2>2. CASE line.rust_failed # 0
    <3>1. noted = [acc EXCEPT !.failed_names = names]
      BY <2>2 DEF RustFailed, NextRustNames
    <3> HIDE DEF noted, names
    <3>2. noted = With(acc, names, acc.failures, block, running, gtest)
      BY <3>1 DEF With, AccIn, AccType
    <3>3. Becomes(acc, acc, F, acc.failed_names, block, running, gtest)
      BY BecomesItself
    <3> HIDE DEF block, running, gtest
    <3> QED  BY <3>2, <3>3, BecomesAndThen
  <2> QED  BY <2>1, <2>2
<1>2. /\ names \in AtMost(Names, MaxLogFailures) /\ block \in RustBlockType
      /\ running \in OptionalNames /\ gtest \in GtestBlockType
      /\ acc \in AccType /\ F \in SUBSET FailureType
  BY RustNamesType DEF AccIn, AccType
<1>3. /\ AccIn(noted, F) /\ noted.failed_names = names /\ noted.current = block
      /\ noted.gtest_running_name = running /\ noted.gtest_current = gtest
  <2> HIDE DEF noted, names, block, running, gtest
  <2> QED  BY <1>1, <1>2, BecomesThen
<1>4. Becomes(finished, noted, F, names, NoRustBlock, running, gtest)
  <2> HIDE DEF noted
  <2>1. noted.current.name # 0 => RustEvidence(noted.current) \in F
    BY <1>3
  <2>2. Becomes(finished, noted, F, noted.failed_names, NoRustBlock, noted.gtest_running_name,
                noted.gtest_current)
    BY <1>3, <2>1, FinishRustStep
  <2> QED  BY <1>3, <2>2
<1>5. Becomes(finished, acc, F, names, NoRustBlock, running, gtest)
  <2> HIDE DEF noted, finished, names, block, running, gtest
  <2> QED  BY <1>1, <1>4, BecomesAndThen
<1>6. /\ AccIn(finished, F) /\ finished.failed_names = names /\ finished.current = NoRustBlock
      /\ finished.gtest_running_name = running /\ finished.gtest_current = gtest
  <2> HIDE DEF noted, finished, names, block, running, gtest
  <2> QED  BY <1>2, <1>5, NoBlocksType, BecomesThen
<1> HIDE DEF finished, noted, names, running, gtest
<1> DEFINE next == RustLine(acc, line)
           after == NextRustBlock(block, line)
           Goal == Becomes(next, acc, F, names, after, running, gtest)
<1>7. ASSUME NEW mid, mid \in {noted, finished}, next = [mid EXCEPT !.current = after]
      PROVE  Goal
  <2> HIDE DEF next, after
  <2>1. /\ AccIn(mid, F) /\ mid.failed_names = names
        /\ mid.gtest_running_name = running /\ mid.gtest_current = gtest
    BY <1>3, <1>6, <1>7
  <2>2. next = With(mid, names, mid.failures, after, running, gtest)
    BY <1>7, <2>1 DEF With, AccIn, AccType
  <2>3. PICK c : Becomes(mid, acc, F, names, c, running, gtest)
    BY <1>1, <1>5, <1>7
  <2> QED  BY <2>2, <2>3, BecomesAndThen
<1>8. noted = [noted EXCEPT !.current = block] /\ finished = [finished EXCEPT !.current = NoRustBlock]
  BY <1>3, <1>6 DEF AccIn, AccType
<1>9. CASE line.rust_block # 0
  <2>1. next = [finished EXCEPT !.current = after]
    BY <1>9 DEF RustLine, RustBlock, NextRustBlock, finished, noted
  <2> HIDE DEF next, after, Goal
  <2> QED  BY <1>7, <2>1 DEF Goal, next, after, names, running, gtest
<1>10. CASE line.rust_block = 0 /\ line.rust_panic # 0
  <2> DEFINE mid == IF IsOther(block, line) THEN finished ELSE noted
             inner == IF IsOther(block, line) THEN NoRustBlock ELSE block
  <2>1. after = [inner EXCEPT !.name = Bounded[line.rust_panic], !.location = line.rust_place,
                              !.saw_panic = TRUE]
    BY <1>10 DEF NextRustBlock
  <2>2. next = [mid EXCEPT !.current.name = Bounded[line.rust_panic],
                   !.current.location = line.rust_place, !.current.saw_panic = TRUE]
    BY <1>3, <1>10 DEF RustLine, RustPanic, IsOther, finished, noted
  <2>3. mid.current = inner /\ mid \in {noted, finished}
    BY <1>3, <1>6
  <2>4. mid \in AccType
    BY <1>3, <1>6 DEF AccIn
  <2> HIDE DEF mid, inner, after, next
  <2>5. next = [mid EXCEPT !.current = after]
    BY <2>1, <2>2, <2>3, <2>4 DEF AccType
  <2> QED  BY <1>7, <2>3, <2>5 DEF Goal, next, after, names, running, gtest
<1> DEFINE rest == line.rust_block = 0 /\ line.rust_panic = 0
<1>11. CASE rest /\ line.heading
  <2>1. next = finished /\ after = NoRustBlock
    BY <1>11 DEF RustLine, NextRustBlock, finished, noted
  <2>2. next = [finished EXCEPT !.current = after]
    <3> HIDE DEF next, after
    <3> QED  BY <1>8, <2>1
  <2> HIDE DEF next, after, Goal
  <2> QED  BY <1>7, <2>2 DEF Goal, next, after, names, running, gtest
<1>12. CASE rest /\ ~line.heading /\ block.name = 0
  <2>1. next = noted /\ after = block
    BY <1>3, <1>12 DEF RustLine, NextRustBlock, noted
  <2>2. next = [noted EXCEPT !.current = after]
    <3> HIDE DEF next, after
    <3> QED  BY <1>8, <2>1
  <2> HIDE DEF next, after, Goal
  <2> QED  BY <1>7, <2>2 DEF Goal, next, after, names, running, gtest
<1>13. CASE rest /\ ~line.heading /\ block.name # 0
  <2>1. next = RustText(noted, line)
    BY <1>3, <1>13 DEF RustLine, noted
  <2>2. after = NextRustText(block, line)
    BY <1>13 DEF NextRustBlock
  <2>3. next = [noted EXCEPT !.current = after]
    <3> HIDE DEF next, after
    <3>1. CASE line.assertion
      <4>1. next = [noted EXCEPT !.current.assertion = line.text]
        BY <2>1, <3>1 DEF RustText
      <4>2. after = [block EXCEPT !.assertion = line.text]
        BY <2>2, <3>1 DEF NextRustText
      <4> QED  BY <1>3, <4>1, <4>2
    <3>2. CASE ~line.assertion /\ line.rust_detail /\ ~(Len(block.details) >= MaxRustDetails)
      <4>1. next = [noted EXCEPT !.current.details = Append(@, line.text)]
        BY <1>3, <2>1, <3>2 DEF RustText
      <4>2. after = [block EXCEPT !.details = Append(@, line.text)]
        BY <2>2, <3>2 DEF NextRustText
      <4> QED  BY <1>3, <4>1, <4>2
    <3>3. CASE /\ ~line.assertion /\ ~line.rust_detail
               /\ block.saw_panic /\ block.panic_message = 0 /\ ~line.note
      <4>1. next = [noted EXCEPT !.current.panic_message = line.text]
        BY <1>3, <2>1, <3>3 DEF RustText
      <4>2. after = [block EXCEPT !.panic_message = line.text]
        BY <2>2, <3>3 DEF NextRustText
      <4> QED  BY <1>3, <4>1, <4>2
    <3>4. CASE /\ ~line.assertion
               /\ line.rust_detail => Len(block.details) >= MaxRustDetails
               /\ ~line.rust_detail =>
                    ~(block.saw_panic /\ block.panic_message = 0 /\ ~line.note)
      <4>1. next = noted /\ after = block
        BY <1>3, <2>1, <2>2, <3>4 DEF RustText, NextRustText
      <4> QED  BY <1>8, <4>1
    <3> QED  BY <3>1, <3>2, <3>3, <3>4
  <2> HIDE DEF next, after, Goal
  <2> QED  BY <1>7, <2>3 DEF Goal, next, after, names, running, gtest
<1> QED  BY <1>9, <1>10, <1>11, <1>12, <1>13

LEMMA GtestTypes ==
  ASSUME NEW acc \in AccType, NEW line \in LineType
  PROVE  /\ NextGtestRunning(acc, line) \in OptionalNames
         /\ NextGtestBlock(acc, line) \in GtestBlockType
PROOF
<1>1. /\ acc.gtest_running_name \in OptionalNames /\ acc.gtest_current \in GtestBlockType
      /\ 0 \in OptionalNames
  BY DEF AccType, OptionalNames
<1>2. /\ line.gtest_run # 0 => Bounded[line.gtest_run] \in OptionalNames
      /\ line.gtest_place \in OptionalPlaces /\ line.text \in Texts
  BY BoundedName DEF LineType, OptionalNames
<1>3. NextGtestRunning(acc, line) \in OptionalNames
  BY <1>1, <1>2 DEF NextGtestRunning
<1>4. NewGtestBlock(acc.gtest_running_name, line) \in GtestBlockType
  <2> DEFINE name == IF acc.gtest_running_name = 0 THEN UnknownGtest ELSE acc.gtest_running_name
             place == line.gtest_place
  <2>1. name \in OptionalNames /\ place \in OptionalPlaces
    BY <1>1, <1>2, TestFailuresAssumption DEF OptionalNames
  <2>2. NewGtestBlock(acc.gtest_running_name, line)
          = [NoGtestBlock EXCEPT !.name = name, !.location = place]
    BY DEF NewGtestBlock
  <2> HIDE DEF name, place
  <2> QED  BY <2>1, <2>2, NoBlocksType DEF GtestBlockType
<1>5. NextGtestText(acc.gtest_current, line) \in GtestBlockType
  <2> DEFINE block == acc.gtest_current
             more == Append(block.details, line.text)
             details == AtMost(Texts, MaxGtestDetails)
  <2>1. CASE Len(block.details) >= MaxGtestDetails \/ line.gtest_status
    BY <1>1, <2>1 DEF NextGtestText
  <2>2. CASE ~(Len(block.details) >= MaxGtestDetails \/ line.gtest_status)
    <3>1. block \in GtestBlockType /\ block.details \in details
      BY <1>1 DEF GtestBlockType
    <3>2. more \in details
      BY <1>2, <2>2, <3>1, LimitsNat, AppendAtMost
    <3>3. NextGtestText(block, line) = [block EXCEPT !.details = more]
      BY <2>2 DEF NextGtestText
    <3>4. block \in [name : OptionalNames, location : OptionalPlaces, details : details]
      BY <3>1 DEF GtestBlockType
    <3> HIDE DEF block, more, details
    <3>5. NextGtestText(block, line)
            \in [name : OptionalNames, location : OptionalPlaces, details : details]
      BY <3>2, <3>3, <3>4
    <3> QED  BY <3>5 DEF GtestBlockType, details, block
  <2> QED  BY <2>1, <2>2
<1> QED  BY <1>1, <1>3, <1>4, <1>5, NoBlocksType DEF NextGtestBlock

LEMMA RustBlockStepType ==
  ASSUME NEW block \in RustBlockType, NEW line \in LineType
  PROVE  NextRustBlock(block, line) \in RustBlockType
PROOF
<1> DEFINE details == AtMost(Texts, MaxRustDetails)
           Type == [name : OptionalNames, location : OptionalPlaces, assertion : OptionalTexts,
                    panic_message : OptionalTexts, details : details, saw_panic : BOOLEAN]
<1>1. /\ line.rust_block # 0 => Bounded[line.rust_block] \in OptionalNames
      /\ line.rust_panic # 0 => Bounded[line.rust_panic] \in OptionalNames
      /\ line.rust_place \in OptionalPlaces /\ line.text \in Texts
  BY BoundedName DEF LineType, OptionalNames
<1>2. block \in Type /\ NoRustBlock \in Type
  BY NoBlocksType DEF RustBlockType
<1>3. block.details \in details
  BY DEF RustBlockType
<1>4. ~(Len(block.details) >= MaxRustDetails) => Append(block.details, line.text) \in details
  BY <1>1, <1>3, LimitsNat, AppendAtMost
<1> DEFINE text == line.text
           more == Append(block.details, text)
<1> HIDE DEF details
<1>5. NextRustText(block, line) \in Type
  <2>1. [block EXCEPT !.assertion = text] \in Type /\ [block EXCEPT !.panic_message = text] \in Type
    BY <1>1, <1>2 DEF OptionalTexts
  <2>2. ~(Len(block.details) >= MaxRustDetails) => [block EXCEPT !.details = more] \in Type
    <3> HIDE DEF more
    <3> QED  BY <1>2, <1>4 DEF more
  <2>3. NextRustText(block, line) \in
          {block, [block EXCEPT !.assertion = text], [block EXCEPT !.panic_message = text]}
            \cup (IF Len(block.details) >= MaxRustDetails THEN {}
                  ELSE {[block EXCEPT !.details = more]})
    BY DEF NextRustText
  <2> HIDE DEF Type, text, more
  <2> QED  BY <1>2, <2>1, <2>2, <2>3
<1>6. ASSUME NEW b, b \in Type, line.rust_panic # 0
      PROVE  [b EXCEPT !.name = Bounded[line.rust_panic], !.location = line.rust_place,
                       !.saw_panic = TRUE] \in Type
  <2> DEFINE name == Bounded[line.rust_panic]
             place == line.rust_place
  <2>1. name \in OptionalNames /\ place \in OptionalPlaces
    BY <1>1, <1>6
  <2> HIDE DEF name, place
  <2>2. [b EXCEPT !.name = name, !.location = place, !.saw_panic = TRUE] \in Type
    BY <1>6, <2>1
  <2> QED  BY <2>2 DEF name, place
<1>7. line.rust_block # 0 => [NoRustBlock EXCEPT !.name = Bounded[line.rust_block]] \in Type
  BY <1>1, <1>2
<1> HIDE DEF Type
<1>8. NextRustBlock(block, line) \in Type
  BY <1>2, <1>5, <1>6, <1>7 DEF NextRustBlock
<1> QED  BY <1>8 DEF Type, details, RustBlockType

(* A line leaves a block without name empty.                               *)
LEMMA RustBlockStepNamed ==
  ASSUME NEW block \in RustBlockType, NEW line \in LineType, block.name = 0 => block = NoRustBlock,
         NextRustBlock(block, line).name = 0
  PROVE  NextRustBlock(block, line) = NoRustBlock
PROOF
<1>1. /\ line.rust_block # 0 => Bounded[line.rust_block] # 0
      /\ line.rust_panic # 0 => Bounded[line.rust_panic] # 0
  BY BoundedName DEF LineType, OptionalNames
<1>2. NoRustBlock \in RustBlockType
  BY NoBlocksType
<1>3. NextRustText(block, line).name = block.name
  BY DEF NextRustText, RustBlockType
<1>4. line.rust_block # 0 =>
        [NoRustBlock EXCEPT !.name = Bounded[line.rust_block]].name = Bounded[line.rust_block]
  BY <1>2 DEF RustBlockType
<1>5. ASSUME NEW b \in RustBlockType
      PROVE  [b EXCEPT !.name = Bounded[line.rust_panic], !.location = line.rust_place,
                       !.saw_panic = TRUE].name = Bounded[line.rust_panic]
  BY DEF RustBlockType
<1>6. CASE line.rust_block # 0
  BY <1>1, <1>4, <1>6 DEF NextRustBlock
<1>7. CASE line.rust_block = 0 /\ line.rust_panic # 0
  <2> DEFINE b == IF IsOther(block, line) THEN NoRustBlock ELSE block
  <2>1. b \in RustBlockType
    BY <1>2
  <2>2. NextRustBlock(block, line)
          = [b EXCEPT !.name = Bounded[line.rust_panic], !.location = line.rust_place,
                      !.saw_panic = TRUE]
    BY <1>7 DEF NextRustBlock
  <2> HIDE DEF b
  <2> QED  BY <1>1, <1>5, <1>7, <2>1, <2>2
<1>8. CASE line.rust_block = 0 /\ line.rust_panic = 0
  BY <1>3, <1>8 DEF NextRustBlock
<1> QED  BY <1>6, <1>7, <1>8

----------------------------------------------------------------------------
(* One line *)

(* What is kept for GoogleTest and libtest after the line.                 *)
SameBlocks(next, acc) ==
  /\ next.failed_names = acc.failed_names /\ next.current = acc.current
  /\ next.gtest_running_name = acc.gtest_running_name
  /\ next.gtest_current = acc.gtest_current
GtestBlocks(next, acc, line) ==
  /\ next.failed_names = acc.failed_names /\ next.current = acc.current
  /\ next.gtest_running_name = NextGtestRunning(acc, line)
  /\ next.gtest_current = NextGtestBlock(acc, line)
RustBlocks(next, acc, line) ==
  /\ next.failed_names = NextRustNames(acc, line)
  /\ next.current = NextRustBlock(acc.current, line)
  /\ next.gtest_running_name = acc.gtest_running_name
  /\ next.gtest_current = acc.gtest_current
Blocks(next, acc, line) ==
  IF TakenByGo(acc, line) THEN SameBlocks(next, acc)
  ELSE IF TakenByGtest(acc, line) THEN GtestBlocks(next, acc, line)
  ELSE RustBlocks(next, acc, line)

(* The blocks of Go are in G, the failures and those that the open blocks  *)
(* may become in F.                                                        *)
Keeps(acc, G, F) ==
  /\ acc \in AccType
  /\ G \in SUBSET GoBlockType /\ acc.go_blocks \in AtMost(G, MaxGoBlocks)
  /\ F \in SUBSET FailureType /\ acc.failures \in AtMost(F, MaxLogFailures)
OpenIn(acc, F) ==
  /\ acc.gtest_current.name # 0 => GtestEvidence(acc.gtest_current) \in F
  /\ acc.current.name # 0 => RustEvidence(acc.current) \in F

GoNamesStep(next, acc, line) ==
  <<next.go_running_name, next.go_panic_name>> \in GoNames(acc, line)

LEMMA ObserveStep ==
  ASSUME NEW acc, NEW G, NEW F, Keeps(acc, G, F), OpenIn(acc, F),
         NEW line \in LineType, AdmitsLine(G, acc, line)
  PROVE  LET next == ObserveLine(acc, line)
         IN  Keeps(next, G, F) /\ GoNamesStep(next, acc, line) /\ Blocks(next, acc, line)
PROOF
<1> DEFINE next == ObserveLine(acc, line)
           mid == WithDetailBlock(acc, line)
<1>1. GoIn(acc, G) /\ AccIn(acc, F)
  BY DEF Keeps, GoIn, AccIn
<1>2. CASE TakenByGo(acc, line)
  <2>1. PICK pair \in GoNames(acc, line) : GoStep(next, acc, G, pair[1], pair[2])
    BY <1>1, <1>2, GoLineStep DEF GoStepsTo
  <2>2. /\ pair[1] \in OptionalNames /\ pair[2] \in OptionalNames /\ pair = <<pair[1], pair[2]>>
    <3>1. pair = <<pair[1], pair[2]>>
      BY <2>1 DEF GoNames
    <3> QED  BY <2>1, <3>1, GoNamesType DEF Keeps
  <2> DEFINE running == pair[1]
             panic == pair[2]
  <2>3. /\ GoStep(next, acc, G, running, panic) /\ <<running, panic>> \in GoNames(acc, line)
        /\ running \in OptionalNames /\ panic \in OptionalNames
    BY <2>1, <2>2
  <2> HIDE DEF next, running, panic
  <2>4. /\ next \in AccType
        /\ GoIn(next, G)
        /\ next.go_running_name = running /\ next.go_panic_name = panic
        /\ next.current = acc.current /\ next.gtest_current = acc.gtest_current
        /\ next.gtest_running_name = acc.gtest_running_name
        /\ next.failures = acc.failures /\ next.failed_names = acc.failed_names
    BY <1>1, <2>3, GoStepThen DEF GoIn
  <2>5. Keeps(next, G, F)
    BY <1>1, <2>4 DEF Keeps, GoIn, AccIn
  <2>6. GoNamesStep(next, acc, line)
    BY <2>3, <2>4 DEF GoNamesStep
  <2>7. Blocks(next, acc, line)
    BY <1>2, <2>4 DEF Blocks, SameBlocks
  <2> QED  BY <2>5, <2>6, <2>7 DEF next
<1>3. CASE ~TakenByGo(acc, line)
  <2>1. next = GtestLine(mid, line) /\ GoStep(mid, acc, G, acc.go_running_name, acc.go_panic_name)
    BY <1>1, <1>3, GoLineStep
  <2> HIDE DEF next, mid
  <2>2. /\ mid \in AccType
        /\ GoIn(mid, G)
        /\ mid.go_running_name = acc.go_running_name /\ mid.go_panic_name = acc.go_panic_name
        /\ mid.current = acc.current /\ mid.gtest_current = acc.gtest_current
        /\ mid.gtest_running_name = acc.gtest_running_name
        /\ mid.failures = acc.failures /\ mid.failed_names = acc.failed_names
    <3>1. acc.go_running_name \in OptionalNames /\ acc.go_panic_name \in OptionalNames
      BY DEF Keeps, AccType
    <3> QED  BY <1>1, <2>1, <3>1, GoStepThen DEF GoIn
  <2>3. AccIn(mid, F) /\ F \in SUBSET FailureType
    BY <1>1, <2>2 DEF AccIn
  <2>4. <<acc.go_running_name, acc.go_panic_name>> \in GoNames(acc, line)
    BY <1>3 DEF TakenByGo, GoNames
  <2>5. /\ mid.failed_names \in AtMost(Names, MaxLogFailures) /\ mid.current \in RustBlockType
        /\ mid.gtest_running_name \in OptionalNames /\ mid.gtest_current \in GtestBlockType
    BY <2>2 DEF AccType
  <2>6. ASSUME NEW n \in AtMost(Names, MaxLogFailures), NEW c \in RustBlockType,
               NEW r \in OptionalNames, NEW g \in GtestBlockType, Becomes(next, mid, F, n, c, r, g)
        PROVE  /\ Keeps(next, G, F) /\ GoNamesStep(next, acc, line)
               /\ next.failed_names = n /\ next.current = c
               /\ next.gtest_running_name = r /\ next.gtest_current = g
    <3>1. /\ AccIn(next, F)
          /\ next.failed_names = n /\ next.current = c
          /\ next.gtest_running_name = r /\ next.gtest_current = g
          /\ next.go_running_name = mid.go_running_name
          /\ next.go_panic_name = mid.go_panic_name
          /\ next.go_blocks = mid.go_blocks
      BY <2>2, <2>3, <2>6, BecomesThen
    <3>2. Keeps(next, G, F)
      BY <2>2, <3>1 DEF Keeps, AccIn, GoIn
    <3>3. GoNamesStep(next, acc, line)
      BY <2>2, <2>4, <3>1 DEF GoNamesStep
    <3> QED  BY <3>1, <3>2, <3>3
  <2>7. CASE TakenByGtest(acc, line)
    <3>1. TakenByGtest(mid, line)
      BY <2>2, <2>7 DEF TakenByGtest
    <3>2. mid.gtest_current.name # 0 => GtestEvidence(mid.gtest_current) \in F
      BY <2>2 DEF OpenIn
    <3>3. Becomes(GtestLine(mid, line), mid, F, mid.failed_names, mid.current,
                  NextGtestRunning(mid, line), NextGtestBlock(mid, line))
      BY <2>3, <3>1, <3>2, GtestStep
    <3>4. NextGtestRunning(mid, line) \in OptionalNames /\ NextGtestBlock(mid, line) \in GtestBlockType
      BY <2>2, GtestTypes
    <3>5. /\ NextGtestRunning(mid, line) = NextGtestRunning(acc, line)
          /\ NextGtestBlock(mid, line) = NextGtestBlock(acc, line)
      BY <2>2 DEF NextGtestRunning, NextGtestBlock
    <3>6. /\ Keeps(next, G, F) /\ GoNamesStep(next, acc, line)
          /\ next.failed_names = mid.failed_names /\ next.current = mid.current
          /\ next.gtest_running_name = NextGtestRunning(mid, line)
          /\ next.gtest_current = NextGtestBlock(mid, line)
      BY <2>1, <2>5, <2>6, <3>3, <3>4
    <3>7. Blocks(next, acc, line)
      BY <1>3, <2>2, <2>7, <3>5, <3>6 DEF Blocks, GtestBlocks
    <3> QED  BY <3>6, <3>7 DEF next
  <2>8. CASE ~TakenByGtest(acc, line)
    <3>1. GtestLine(mid, line) = RustLine(mid, line)
      BY <2>2, <2>8 DEF TakenByGtest, GtestLine
    <3>2. mid.current.name # 0 => RustEvidence(mid.current) \in F
      BY <2>2 DEF OpenIn
    <3>3. Becomes(RustLine(mid, line), mid, F, NextRustNames(mid, line),
                  NextRustBlock(mid.current, line), mid.gtest_running_name, mid.gtest_current)
      BY <2>3, <3>2, RustStep
    <3>4. /\ NextRustNames(mid, line) \in AtMost(Names, MaxLogFailures)
          /\ NextRustBlock(mid.current, line) \in RustBlockType
      BY <2>2, <2>5, RustNamesType, RustBlockStepType
    <3>5. NextRustNames(mid, line) = NextRustNames(acc, line)
      BY <2>2 DEF NextRustNames
    <3>6. /\ Keeps(next, G, F) /\ GoNamesStep(next, acc, line)
          /\ next.failed_names = NextRustNames(mid, line)
          /\ next.current = NextRustBlock(mid.current, line)
          /\ next.gtest_running_name = mid.gtest_running_name
          /\ next.gtest_current = mid.gtest_current
      BY <2>1, <2>5, <2>6, <3>1, <3>3, <3>4
    <3>7. Blocks(next, acc, line)
      BY <1>3, <2>2, <2>8, <3>5, <3>6 DEF Blocks, RustBlocks
    <3> QED  BY <3>6, <3>7 DEF next
  <2> QED  BY <2>7, <2>8
<1> QED  BY <1>2, <1>3

(* What holds of the failures of a scope, whatever its log. *)
Sound(acc) == acc \in AccType /\ Consistent(acc)

LEMMA NoFailuresSound == Sound(NoFailures)
PROOF
<1> DEFINE names == AtMost(Names, MaxLogFailures)
           failures == AtMost(FailureType, MaxLogFailures)
           blocks == AtMost(GoBlockType, MaxGoBlocks)
<1>1. <<>> \in names /\ <<>> \in failures /\ <<>> \in blocks
  BY LimitsNat, EmptyAtMost
<1>2. NoRustBlock \in RustBlockType /\ NoGtestBlock \in GtestBlockType /\ 0 \in OptionalNames
  BY NoBlocksType DEF OptionalNames
<1> HIDE DEF names, failures, blocks
<1>3. NoFailures \in
        [failed_names : names, failures : failures, current : RustBlockType,
         gtest_running_name : OptionalNames, gtest_current : GtestBlockType,
         go_running_name : OptionalNames, go_panic_name : OptionalNames,
         go_blocks : blocks]
  BY <1>1, <1>2 DEF NoFailures
<1>4. NoFailures \in AccType
  BY <1>3 DEF AccType, names, failures, blocks
<1>5. Consistent(NoFailures)
  BY DEF Consistent, NoFailures
<1> QED  BY <1>4, <1>5 DEF Sound

LEMMA SoundKeeps ==
  ASSUME NEW acc, Sound(acc)
  PROVE  Keeps(acc, GoBlockType, FailureType) /\ OpenIn(acc, FailureType)
PROOF
<1>1. acc \in AccType
  BY DEF Sound
<1>2. Keeps(acc, GoBlockType, FailureType)
  <2>1. acc.go_blocks \in AtMost(GoBlockType, MaxGoBlocks)
        /\ acc.failures \in AtMost(FailureType, MaxLogFailures)
    BY <1>1 DEF AccType
  <2> QED  BY <1>1, <2>1 DEF Keeps
<1>3. acc.gtest_current \in GtestBlockType /\ acc.current \in RustBlockType
  BY <1>1 DEF AccType
<1> QED  BY <1>2, <1>3, EvidenceType DEF OpenIn

LEMMA ObserveSound ==
  ASSUME NEW acc, Sound(acc), NEW line \in LineType
  PROVE  Sound(ObserveLine(acc, line))
PROOF
<1> DEFINE next == ObserveLine(acc, line)
<1>1. acc \in AccType /\ Consistent(acc)
  BY DEF Sound
<1>2. Keeps(next, GoBlockType, FailureType) /\ GoNamesStep(next, acc, line)
      /\ Blocks(next, acc, line)
  BY <1>1, SoundKeeps, AdmitsLineType, ObserveStep
<1> HIDE DEF next
<1>3. next \in AccType
  BY <1>2 DEF Keeps
<1>4. next.go_panic_name \in {0, next.go_running_name}
  <2> DEFINE pair == <<next.go_running_name, next.go_panic_name>>
  <2>1. pair \in GoNames(acc, line)
    BY <1>2 DEF GoNamesStep
  <2>2. pair[2] \in {0, pair[1]}
    <3> HIDE DEF pair
    <3> QED  BY <1>1, <2>1, GoNamesConsistent
  <2> QED  BY <2>2
<1>5. next.current.name = 0 => next.current = NoRustBlock
  <2>1. acc.current.name = 0 => acc.current = NoRustBlock
    BY <1>1 DEF Consistent
  <2>2. acc.current \in RustBlockType
    BY <1>1 DEF AccType
  <2>3. next.current \in {acc.current, NextRustBlock(acc.current, line)}
    BY <1>2 DEF Blocks, SameBlocks, GtestBlocks, RustBlocks
  <2> QED  BY <2>1, <2>2, <2>3, RustBlockStepNamed
<1>6. Sound(next)
  BY <1>3, <1>4, <1>5 DEF Sound, Consistent
<1> QED  BY <1>6 DEF next

(* What is collected was there before, or is of what is added. *)
LEMMA CollectedIn ==
  ASSUME NEW F, NEW failures \in Seq(F), NEW more \in Seq(F), NEW new \in SUBSET DOMAIN more
  PROVE  Collected(failures, more, new) \in AtMost(F, MaxLogFailures)
PROOF
<1> DEFINE all == failures \o Picked(more, new)
           last == IF Len(all) < MaxLogFailures THEN Len(all) ELSE MaxLogFailures
<1>1. Picked(more, new) \in Seq(F)
  BY PickedType
<1>2. all \in Seq(F)
  BY <1>1
<1>3. Collected(failures, more, new) = SubSeq(all, 1, last)
  BY DEF Collected
<1> HIDE DEF all
<1>4. last \in Nat /\ last <= Len(all) /\ last <= MaxLogFailures
  BY <1>2, LimitsNat
<1> HIDE DEF last
<1>5. SubSeq(all, 1, last) \in Seq(F) /\ Len(SubSeq(all, 1, last)) = last
  BY <1>2, <1>4
<1> QED  BY <1>3, <1>4, <1>5 DEF AtMost

LEMMA NewKeysType ==
  ASSUME NEW keys, NEW known
  PROVE  NewKeys(keys, known) \in SUBSET DOMAIN keys
PROOF
  BY DEF NewKeys

LEMMA FinishGoStep ==
  ASSUME NEW acc \in AccType, NEW G, NEW F, Keeps(acc, G, F),
         \A block \in G : block.failed => GoEvidence(block) \in F
  PROVE  FinishGo(acc).failures \in AtMost(F, MaxLogFailures)
         /\ FinishGo(acc).failed_names = acc.failed_names
PROOF
<1> DEFINE P == {i \in DOMAIN acc.go_blocks : acc.go_blocks[i].failed}
           failed == Picked(acc.go_blocks, P)
           evidence == [i \in DOMAIN failed |-> GoEvidence(failed[i])]
           new == NewKeys(evidence, Range(acc.failures))
           collected == Collected(acc.failures, evidence, new)
<1>1. FinishGo(acc) = [acc EXCEPT !.go_blocks = <<>>, !.failures = collected]
  BY DEF FinishGo
<1>2. acc.go_blocks \in AtMost(G, MaxGoBlocks) /\ P \in SUBSET DOMAIN acc.go_blocks
  BY DEF Keeps
<1>3. failed \in Seq(G) /\ Range(failed) = {acc.go_blocks[i] : i \in P}
  <2> HIDE DEF P
  <2>1. failed \in AtMost(G, MaxGoBlocks) /\ Range(failed) = {acc.go_blocks[i] : i \in P}
    BY <1>2, LimitsNat, PickedAtMost
  <2> QED  BY <2>1 DEF AtMost
<1>4. \A b \in Range(failed) : b.failed
  <2> HIDE DEF failed
  <2> QED  BY <1>3
<1>5. \A i \in DOMAIN failed : failed[i] \in G /\ failed[i].failed
  <2> HIDE DEF failed
  <2> QED  BY <1>3, <1>4 DEF Range
<1>6. evidence \in Seq(F)
  <2> HIDE DEF failed
  <2>1. DOMAIN failed = 1..Len(failed) /\ Len(failed) \in Nat
    BY <1>3
  <2>2. \A i \in 1..Len(failed) : evidence[i] \in F
    BY <1>5, <2>1
  <2>3. evidence \in [1..Len(failed) -> F]
    BY <2>1, <2>2
  <2> QED  BY <2>1, <2>3
<1>7. new \in SUBSET DOMAIN evidence
  <2> HIDE DEF evidence
  <2> QED  BY NewKeysType
<1>8. acc.failures \in Seq(F)
  BY DEF Keeps, AtMost
<1>9. collected \in AtMost(F, MaxLogFailures)
  <2> HIDE DEF evidence, new
  <2> QED  BY <1>6, <1>7, <1>8, CollectedIn
<1> HIDE DEF collected
<1>10. FinishGo(acc).failures = collected /\ FinishGo(acc).failed_names = acc.failed_names
  BY <1>1 DEF AccType
<1> QED  BY <1>9, <1>10

(* finish and finish_log make failures only of what the accumulator has.   *)
LEMMA FinishLogStep ==
  ASSUME NEW acc, NEW G, NEW F, Keeps(acc, G, F), OpenIn(acc, F),
         \A block \in G : block.failed => GoEvidence(block) \in F,
         \A i \in DOMAIN acc.failed_names : StatusOnly(acc.failed_names[i]) \in F,
         NEW complete \in BOOLEAN
  PROVE  /\ FinishLog(acc, complete) \in AtMost(F, MaxLogFailures)
         /\ ~complete => FinishLog(acc, complete) = <<>>
PROOF
<1> DEFINE rust == FinishRust(acc)
           gtest == FinishGtest(rust)
           go == FinishGo(gtest)
<1>1. AccIn(acc, F) /\ acc \in AccType /\ F \in SUBSET FailureType
      /\ acc.failed_names \in AtMost(Names, MaxLogFailures)
      /\ acc.gtest_running_name \in OptionalNames /\ acc.gtest_current \in GtestBlockType
  BY DEF Keeps, AccIn, AccType
<1>2. Becomes(rust, acc, F, acc.failed_names, NoRustBlock, acc.gtest_running_name,
              acc.gtest_current)
  BY <1>1, FinishRustStep DEF OpenIn
<1>3. /\ AccIn(rust, F) /\ rust.failed_names = acc.failed_names
      /\ rust.current = NoRustBlock
      /\ rust.gtest_running_name = acc.gtest_running_name
      /\ rust.gtest_current = acc.gtest_current /\ rust.go_blocks = acc.go_blocks
  <2> HIDE DEF rust
  <2> QED  BY <1>1, <1>2, NoBlocksType, BecomesThen
<1> HIDE DEF rust
<1>4. rust.gtest_current.name # 0 => GtestEvidence(rust.gtest_current) \in F
  BY <1>3 DEF OpenIn
<1>5. Becomes(gtest, rust, F, rust.failed_names, rust.current, rust.gtest_running_name,
              NoGtestBlock)
  BY <1>3, <1>4, FinishGtestStep
<1>6. /\ AccIn(gtest, F) /\ gtest.failed_names = acc.failed_names
      /\ gtest.go_blocks = acc.go_blocks
  <2> HIDE DEF gtest
  <2>1. rust \in AccType /\ rust.current \in RustBlockType
    BY <1>3, NoBlocksType DEF AccIn
  <2> QED  BY <1>1, <1>3, <1>5, <2>1, NoBlocksType, BecomesThen
<1> HIDE DEF gtest
<1>7. Keeps(gtest, G, F) /\ gtest \in AccType
  BY <1>6 DEF Keeps, AccIn
<1>8. go.failures \in AtMost(F, MaxLogFailures) /\ go.failed_names = acc.failed_names
  BY <1>6, <1>7, FinishGoStep
<1> DEFINE names == gtest.failed_names
           status == [i \in DOMAIN names |-> StatusOnly(names[i])]
           blocks == go.failures
           new == NewKeys(names, {blocks[i].name : i \in DOMAIN blocks})
<1>9. status \in Seq(F) /\ DOMAIN status = DOMAIN names
  <2>1. names \in Seq(Names) /\ DOMAIN names = 1..Len(names) /\ Len(names) \in Nat
    BY <1>1, <1>6 DEF AtMost
  <2>2. \A i \in DOMAIN names : status[i] \in F
    BY <1>6
  <2>3. status \in [1..Len(names) -> F]
    BY <2>1, <2>2
  <2> QED  BY <2>1, <2>3
<1>10. Finish(acc) = Collected(blocks, status, new)
  BY <1>6, <1>8 DEF Finish, rust, gtest
<1>11. new \in SUBSET DOMAIN status
  <2> HIDE DEF status, blocks
  <2> QED  BY <1>9, NewKeysType
<1>12. Finish(acc) \in Seq(F)
  <2> HIDE DEF status, blocks, new
  <2>1. blocks \in Seq(F)
    BY <1>8 DEF blocks, AtMost
  <2>2. Finish(acc) \in AtMost(F, MaxLogFailures)
    BY <1>9, <1>10, <1>11, <2>1, CollectedIn
  <2> QED  BY <2>2 DEF AtMost
<1> DEFINE failures == Finish(acc)
           fresh == NewKeys(Messages(failures), Range(Messages(<<>>)))
<1>13. Extracted(failures) = Collected(<<>>, failures, fresh)
  BY DEF Extracted, ExtractedInto
<1>14. fresh \in SUBSET DOMAIN failures
  <2>1. fresh \in SUBSET DOMAIN Messages(failures)
    BY NewKeysType
  <2> QED  BY <2>1 DEF Messages
<1>15. Extracted(failures) \in AtMost(F, MaxLogFailures)
  <2> HIDE DEF failures, fresh
  <2>1. failures \in Seq(F) /\ <<>> \in Seq(F)
    BY <1>12 DEF failures
  <2> QED  BY <1>13, <1>14, <2>1, CollectedIn
<1>16. <<>> \in AtMost(F, MaxLogFailures)
  BY LimitsNat, EmptyAtMost
<1> QED  BY <1>15, <1>16 DEF FinishLog

LEMMA FinishLogSound ==
  ASSUME NEW acc, Sound(acc), NEW complete \in BOOLEAN
  PROVE  FinishLog(acc, complete) \in AtMost(FailureType, MaxLogFailures)
PROOF
<1>1. Keeps(acc, GoBlockType, FailureType) /\ OpenIn(acc, FailureType)
  BY SoundKeeps
<1>2. \A block \in GoBlockType : GoEvidence(block) \in FailureType
  <2> TAKE block \in GoBlockType
  <2>1. /\ block.name \in Names /\ block.location \in OptionalPlaces
        /\ block.details \in Seq(Texts)
        /\ block.assertion \in OptionalTexts /\ block.panic_message \in OptionalTexts
    BY DEF GoBlockType, AtMost
  <2> QED  BY <2>1 DEF GoEvidence, FailureType
<1>3. \A name \in Names : StatusOnly(name) \in FailureType
  BY DEF StatusOnly, FailureType, OptionalPlaces, OptionalTexts
<1>4. \A i \in DOMAIN acc.failed_names : acc.failed_names[i] \in Names
  BY DEF Sound, AccType, AtMost
<1> QED  BY <1>1, <1>2, <1>3, <1>4, FinishLogStep

----------------------------------------------------------------------------
(* The parser *)

ShownType == [stream : Streams, line : format]

TypeInv ==
  /\ format \in Formats
  /\ open \subseteq Scopes
  /\ log \in [Scopes -> Seq(ShownType)]
  /\ DOMAIN scopes \subseteq open
  /\ \A scope \in DOMAIN scopes : Sound(scopes[scope].failures)
  /\ reported.failures \in AtMost(FailureType, MaxLogFailures)

LEMMA FormatLines ==
  ASSUME format \in Formats
  PROVE  format \subseteq LineType
PROOF
  BY TestFailuresAssumption

LEMMA ReducerSound ==
  ASSUME TypeInv, NEW scope
  PROVE  Sound(Reducer(scope).failures)
PROOF
  BY NoFailuresSound DEF Reducer, NewReducer, TypeInv

LEMMA TypeInit == Init => TypeInv
PROOF
<1> SUFFICES ASSUME Init PROVE TypeInv
  OBVIOUS
<1>1. DOMAIN scopes = {}
  BY DEF Init
<1>2. log \in [Scopes -> Seq(ShownType)]
  BY DEF Init
<1>3. reported.failures \in AtMost(FailureType, MaxLogFailures)
  <2>1. reported.failures = <<>>
    BY DEF Init, NoReport
  <2> QED  BY <2>1, LimitsNat, EmptyAtMost
<1> QED  BY <1>1, <1>2, <1>3 DEF Init, TypeInv

LEMMA NoReportType == NoReport.failures \in AtMost(FailureType, MaxLogFailures)
PROOF
<1>1. NoReport.failures = <<>>
  BY DEF NoReport
<1> QED  BY <1>1, LimitsNat, EmptyAtMost

LEMMA TypeStep == TypeInv /\ [Next]_vars => TypeInv'
PROOF
<1> SUFFICES ASSUME TypeInv, [Next]_vars PROVE TypeInv'
  OBVIOUS
<1>1. CASE UNCHANGED vars
  BY <1>1 DEF vars, TypeInv, ShownType
<1>2. ASSUME NEW scope \in Scopes, BeginScope(scope)
      PROVE  TypeInv'
  <2>1. /\ format' = format /\ scopes' = scopes /\ open' = open \cup {scope}
        /\ log' = [log EXCEPT ![scope] = <<>>] /\ reported' = NoReport
    BY <1>2 DEF BeginScope
  <2>2. log' \in [Scopes -> Seq(ShownType')]
    <3>1. ShownType' = ShownType
      BY <2>1 DEF ShownType
    <3> HIDE DEF ShownType
    <3>2. <<>> \in Seq(ShownType)
      OBVIOUS
    <3> QED  BY <2>1, <3>1, <3>2 DEF TypeInv
  <2>3. reported'.failures \in AtMost(FailureType, MaxLogFailures)
    BY <2>1, NoReportType
  <2> QED  BY <2>1, <2>2, <2>3 DEF TypeInv
<1>3. ASSUME NEW scope \in Scopes, NEW stream \in Streams, NEW line \in format,
             Observe(scope, stream, line)
      PROVE  TypeInv'
  <2>1. /\ format' = format /\ open' = open /\ scope \in open /\ reported' = NoReport
        /\ log' = [log EXCEPT ![scope] = Append(@, [stream |-> stream, line |-> line])]
    BY <1>3 DEF Observe
  <2>2. log' \in [Scopes -> Seq(ShownType')]
    <3>1. [stream |-> stream, line |-> line] \in ShownType /\ ShownType' = ShownType
      BY <2>1 DEF ShownType
    <3> HIDE DEF ShownType
    <3>2. log[scope] \in Seq(ShownType)
      BY DEF TypeInv
    <3>3. Append(log[scope], [stream |-> stream, line |-> line]) \in Seq(ShownType)
      BY <3>1, <3>2
    <3> QED  BY <2>1, <3>1, <3>3 DEF TypeInv
  <2>3. reported'.failures \in AtMost(FailureType, MaxLogFailures)
    BY <2>1, NoReportType
  <2>4. DOMAIN scopes' \subseteq open /\ \A s \in DOMAIN scopes' : Sound(scopes'[s].failures)
    <3>1. CASE UNCHANGED scopes
      BY <3>1 DEF TypeInv
    <3>2. ASSUME NEW place,
                 scopes' = [other \in DOMAIN scopes \cup {scope} |->
                              IF other = scope THEN Observed(Reducer(scope), line, place)
                              ELSE scopes[other]]
          PROVE  DOMAIN scopes' \subseteq open /\ \A s \in DOMAIN scopes' : Sound(scopes'[s].failures)
      <4>1. Observed(Reducer(scope), line, place).failures
              = ObserveLine(Reducer(scope).failures, line)
        BY DEF Observed
      <4>2. line \in LineType
        BY FormatLines DEF TypeInv
      <4>3. Sound(Observed(Reducer(scope), line, place).failures)
        BY <4>1, <4>2, ReducerSound, ObserveSound
      <4>4. \A s \in DOMAIN scopes : s \in open /\ Sound(scopes[s].failures)
        BY DEF TypeInv
      <4> QED  BY <2>1, <3>2, <4>3, <4>4
    <3> QED  BY <1>3, <3>1, <3>2 DEF Observe
  <2> QED  BY <2>1, <2>2, <2>3, <2>4 DEF TypeInv
<1>4. ASSUME NEW scope \in Scopes, NEW reason \in EndReasons, EndScope(scope, reason)
      PROVE  TypeInv'
  <2> DEFINE failures == FinishLog(Reducer(scope).failures, reason = "Complete")
  <2>1. /\ format' = format /\ open' = open \ {scope}
        /\ log' = [log EXCEPT ![scope] = <<>>]
        /\ scopes' = Restrict(scopes, DOMAIN scopes \ {scope})
        /\ reported'.failures = failures
    BY <1>4 DEF EndScope
  <2>2. log' \in [Scopes -> Seq(ShownType')]
    <3>1. ShownType' = ShownType
      BY <2>1 DEF ShownType
    <3> HIDE DEF ShownType
    <3>2. <<>> \in Seq(ShownType)
      OBVIOUS
    <3> QED  BY <2>1, <3>1, <3>2 DEF TypeInv
  <2>3. failures \in AtMost(FailureType, MaxLogFailures)
    <3> DEFINE complete == reason = "Complete"
    <3>1. complete \in BOOLEAN /\ failures = FinishLog(Reducer(scope).failures, complete)
      OBVIOUS
    <3> HIDE DEF complete, failures
    <3> QED  BY <3>1, ReducerSound, FinishLogSound
  <2> HIDE DEF failures
  <2>4. /\ DOMAIN scopes' = DOMAIN scopes \ {scope}
        /\ \A s \in DOMAIN scopes' : scopes'[s] = scopes[s]
    BY <2>1 DEF Restrict
  <2> QED  BY <2>1, <2>2, <2>3, <2>4 DEF TypeInv
<1> QED  BY <1>1, <1>2, <1>3, <1>4 DEF Next

LEMMA TypeBounded == TypeInv => ReducersBounded
PROOF
<1> SUFFICES ASSUME TypeInv PROVE ReducersBounded
  OBVIOUS
<1>1. open \subseteq Scopes /\ DOMAIN scopes \subseteq open
  BY DEF TypeInv
<1>2. ASSUME NEW scope \in DOMAIN scopes
      PROVE  LET acc == scopes[scope].failures
             IN  /\ Len(acc.failed_names) <= MaxLogFailures
                 /\ Len(acc.failures) <= MaxLogFailures
                 /\ BlockBounded(acc.current, OptionalNames, MaxRustDetails)
                 /\ BlockBounded(acc.gtest_current, OptionalNames, MaxGtestDetails)
                 /\ Len(acc.go_blocks) <= MaxGoBlocks
                 /\ \A i \in DOMAIN acc.go_blocks :
                      BlockBounded(acc.go_blocks[i], Names, MaxGoDetails)
                 /\ {acc.go_running_name, acc.go_panic_name, acc.gtest_running_name}
                      \subseteq OptionalNames
  <2> DEFINE acc == scopes[scope].failures
  <2>1. acc \in AccType
    BY DEF TypeInv, Sound
  <2> HIDE DEF acc
  <2>2. /\ acc.failed_names \in AtMost(Names, MaxLogFailures)
        /\ acc.failures \in AtMost(FailureType, MaxLogFailures)
        /\ acc.go_blocks \in AtMost(GoBlockType, MaxGoBlocks)
        /\ acc.current \in RustBlockType /\ acc.gtest_current \in GtestBlockType
        /\ {acc.go_running_name, acc.go_panic_name, acc.gtest_running_name}
             \subseteq OptionalNames
    BY <2>1 DEF AccType
  <2>3. /\ BlockBounded(acc.current, OptionalNames, MaxRustDetails)
        /\ BlockBounded(acc.gtest_current, OptionalNames, MaxGtestDetails)
    BY <2>2 DEF BlockBounded, RustBlockType, GtestBlockType, AtMost
  <2>4. \A i \in DOMAIN acc.go_blocks : BlockBounded(acc.go_blocks[i], Names, MaxGoDetails)
    <3>1. \A i \in DOMAIN acc.go_blocks : acc.go_blocks[i] \in GoBlockType
      BY <2>2 DEF AtMost
    <3>2. \A block \in GoBlockType : BlockBounded(block, Names, MaxGoDetails)
      BY DEF BlockBounded, GoBlockType, AtMost
    <3> QED  BY <3>1, <3>2
  <2>5. /\ Len(acc.failed_names) <= MaxLogFailures /\ Len(acc.failures) <= MaxLogFailures
        /\ Len(acc.go_blocks) <= MaxGoBlocks
    BY <2>2 DEF AtMost
  <2> QED  BY <2>2, <2>3, <2>4, <2>5 DEF acc
<1>3. Len(reported.failures) <= MaxLogFailures
  BY DEF TypeInv, AtMost
<1> QED  BY <1>1, <1>2, <1>3 DEF ReducersBounded

LEMMA TypeAlways == Spec => []TypeInv
PROOF
  BY TypeInit, TypeStep, PTL DEF Spec

THEOREM ReducersAlwaysBounded == Spec => []ReducersBounded
PROOF
  BY TypeAlways, TypeBounded, PTL

----------------------------------------------------------------------------
(* The gate in front of the reducer *)

LEMMA NothingActive == ~IsActive(NoFailures)
PROOF
  BY DEF IsActive, NoFailures, NoRustBlock, NoGtestBlock

(* Without a failure in progress, a line that starts none changes nothing. *)
LEMMA IdleLine ==
  ASSUME NEW acc, Sound(acc), ~IsActive(acc), NEW line \in LineType, ~StartsTrimmed(line)
  PROVE  ObserveLine(acc, line) = acc
PROOF
<1>1. acc \in AccType /\ Consistent(acc)
  BY DEF Sound
<1>2. /\ acc.current.name = 0 /\ acc.current = NoRustBlock
      /\ acc.gtest_running_name = 0 /\ acc.gtest_current.name = 0
      /\ acc.go_running_name = 0 /\ acc.go_panic_name = 0
  BY <1>1 DEF IsActive, Consistent
<1>3. /\ line.go_run = 0 /\ line.go_fail = 0 /\ line.gtest_run = 0 /\ ~line.gtest_failure
      /\ line.rust_failed = 0 /\ line.rust_block = 0 /\ line.rust_panic = 0
  BY DEF StartsTrimmed
<1>4. GoName(acc) = 0
  BY <1>2 DEF GoName
<1>5. ~TriesGoDetail(acc, line) /\ ~TakesGoDetail(acc, line)
  BY <1>4 DEF TriesGoDetail, TakesGoDetail
<1>6. WithDetailBlock(acc, line) = acc
  BY <1>5 DEF WithDetailBlock
<1>7. ObserveLine(acc, line) = GtestLine(acc, line)
  BY <1>2, <1>3, <1>4, <1>5, <1>6 DEF ObserveLine
<1>8. CASE line.gtest_failed # 0
  BY <1>2, <1>3, <1>7, <1>8 DEF GtestLine, GtestFailed
<1>9. CASE line.gtest_failed = 0
  <2>1. GtestLine(acc, line) = RustLine(acc, line)
    BY <1>2, <1>3, <1>9 DEF GtestLine
  <2>2. RustFailed(acc, line) = acc
    BY <1>3 DEF RustFailed
  <2>3. FinishRust(acc) = acc
    <3>1. [acc EXCEPT !.current = NoRustBlock] = acc
      BY <1>1, <1>2 DEF AccType
    <3> QED  BY <1>2, <3>1 DEF FinishRust, WithFailure
  <2>4. RustLine(acc, line) = acc
    BY <1>2, <1>3, <2>2, <2>3 DEF RustLine
  <2> QED  BY <1>7, <2>1, <2>4
<1> QED  BY <1>8, <1>9

LEMMA ShownSound ==
  ASSUME NEW acc, Sound(acc), NEW line \in LineType
  PROVE  Sound(Shown(acc, line))
PROOF
  BY ObserveSound DEF Shown

IsOfFirst(after, lines) ==
  /\ after[0] = NoFailures
  /\ \A n \in 1..Len(lines) : after[n] = Shown(after[n - 1], lines[n])

LEMMA OfFirstLinesProperties ==
  ASSUME NEW lines \in Seq(LineType)
  PROVE  IsOfFirst(OfFirstLines(lines), lines)
PROOF
<1> DEFINE V == {acc \in AccType : Consistent(acc)}
           size == Len(lines)
           base == NoFailures
           step == [p \in (1..size) \X V |-> Shown(p[2], lines[p[1]])]
           Eq(f) == f = [n \in 0..size |-> IF n = 0 THEN base ELSE Shown(f[n - 1], lines[n])]
<1>1. size \in Nat /\ base \in V
  BY NoFailuresSound DEF Sound
<1>2. /\ \A n \in 1..size : \A v \in V : step[<<n, v>>] = Shown(v, lines[n])
      /\ step \in [(1..size) \X V -> V]
  <2>1. ASSUME NEW n \in 1..size, NEW v \in V
        PROVE  Shown(v, lines[n]) \in V
    <3>1. lines[n] \in LineType /\ Sound(v)
      BY DEF Sound
    <3>2. Sound(Shown(v, lines[n]))
      BY <3>1, ShownSound
    <3> QED  BY <3>2 DEF Sound
  <2> HIDE DEF V
  <2> QED  BY <2>1
<1> HIDE DEF step, V
<1>3. PICK g : IsCourse(g, size, V, base, step)
  <2> HIDE DEF base, size
  <2> QED  BY <1>1, <1>2, CourseExists
<1>4. /\ g \in [0..size -> V] /\ g[0] = base
      /\ \A n \in 1..size : g[n] = step[<<n, g[n - 1]>>]
  BY <1>3 DEF IsCourse
<1>5. \A n \in 1..size : g[n - 1] \in V /\ g[n] = Shown(g[n - 1], lines[n])
  <2> SUFFICES ASSUME NEW n \in 1..size
               PROVE  g[n - 1] \in V /\ g[n] = Shown(g[n - 1], lines[n])
    OBVIOUS
  <2>1. n - 1 \in 0..size
    BY <1>1
  <2> QED  BY <1>2, <1>4, <2>1
<1> HIDE DEF base
<1>6. Eq(g)
  <2>1. \A n \in 0..size : n # 0 => n \in 1..size
    BY <1>1
  <2>2. g = [n \in 0..size |-> g[n]]
    BY <1>4
  <2>3. \A n \in 0..size : g[n] = IF n = 0 THEN base ELSE Shown(g[n - 1], lines[n])
    BY <1>4, <1>5, <2>1
  <2> HIDE DEF size
  <2> QED  BY <2>2, <2>3
<1>7. OfFirstLines(lines) = CHOOSE f : Eq(f)
  BY DEF OfFirstLines, base
<1> DEFINE h == CHOOSE f : Eq(f)
<1>8. Eq(h)
  <2> HIDE DEF Eq
  <2> QED  BY <1>6
<1> HIDE DEF h
<1>9. /\ h[0] = base
      /\ \A n \in 1..size : h[n] = Shown(h[n - 1], lines[n])
  <2>1. \A n \in 1..size : n \in 0..size /\ n # 0
    BY <1>1
  <2>2. 0 \in 0..size
    BY <1>1
  <2> HIDE DEF size
  <2> QED  BY <1>8, <2>1, <2>2
<1> QED  BY <1>7, <1>9 DEF h, base, IsOfFirst

LEMMA OfNoLines == OfAllLines(<<>>) = NoFailures
PROOF
<1>1. IsOfFirst(OfFirstLines(<<>>), <<>>)
  <2>1. <<>> \in Seq(LineType)
    OBVIOUS
  <2> QED  BY <2>1, OfFirstLinesProperties
<1> QED  BY <1>1 DEF OfAllLines, IsOfFirst

LEMMA OfMoreLines ==
  ASSUME NEW lines \in Seq(LineType), NEW line \in LineType
  PROVE  OfAllLines(Append(lines, line)) = Shown(OfAllLines(lines), line)
PROOF
<1> DEFINE longer == Append(lines, line)
           f == OfFirstLines(lines)
           g == OfFirstLines(longer)
           n == Len(lines)
<1>1. /\ longer \in Seq(LineType) /\ n \in Nat /\ Len(longer) = n + 1
      /\ longer[n + 1] = line /\ \A i \in 1..n : longer[i] = lines[i]
  OBVIOUS
<1> HIDE DEF longer
<1>2. f[0] = NoFailures /\ \A i \in 1..n : f[i] = Shown(f[i - 1], lines[i])
  <2>1. IsOfFirst(f, lines)
    BY OfFirstLinesProperties
  <2> QED  BY <2>1 DEF IsOfFirst
<1>3. g[0] = NoFailures /\ \A i \in 1..n + 1 : g[i] = Shown(g[i - 1], longer[i])
  <2>1. IsOfFirst(g, longer)
    BY <1>1, OfFirstLinesProperties
  <2> QED  BY <1>1, <2>1 DEF IsOfFirst
<1>4. OfAllLines(lines) = f[n] /\ OfAllLines(longer) = g[n + 1]
  BY <1>1 DEF OfAllLines
<1> HIDE DEF f, g, n
<1>5. StepsAgree(f, g, n)
  BY <1>1, <1>2, <1>3 DEF StepsAgree
<1>6. g[n] = f[n]
  BY <1>1, <1>5, CoursesAgree
<1>7. g[n + 1] = Shown(g[n], line)
  <2>1. n + 1 \in 1..n + 1 /\ (n + 1) - 1 = n
    BY <1>1
  <2> QED  BY <1>1, <1>3, <2>1
<1> QED  BY <1>4, <1>6, <1>7 DEF longer

LEMMA LinesType ==
  ASSUME TypeInv, NEW scope \in Scopes
  PROVE  Lines(log[scope]) \in Seq(LineType)
PROOF
<1>1. log[scope] \in Seq(ShownType) /\ format \subseteq LineType
  BY FormatLines DEF TypeInv
<1>2. \A i \in DOMAIN log[scope] : log[scope][i].line \in LineType
  <2>1. \A i \in DOMAIN log[scope] : log[scope][i] \in ShownType
    <3> HIDE DEF ShownType
    <3> QED  BY <1>1
  <2>2. \A shown \in ShownType : shown.line \in LineType
    BY <1>1 DEF ShownType
  <2> QED  BY <2>1, <2>2
<1>3. DOMAIN log[scope] = 1..Len(log[scope]) /\ Len(log[scope]) \in Nat
  BY <1>1
<1>4. Lines(log[scope]) \in [1..Len(log[scope]) -> LineType]
  BY <1>2, <1>3 DEF Lines
<1> QED  BY <1>3, <1>4

LEMMA LinesAppend ==
  ASSUME NEW T, NEW shown \in Seq(T), NEW x
  PROVE  Lines(Append(shown, x)) = Append(Lines(shown), x.line)
PROOF
<1>1. Len(shown) \in Nat /\ DOMAIN shown = 1..Len(shown)
  OBVIOUS
<1> DEFINE n == Len(shown)
           longer == Append(shown, x)
<1>2. /\ DOMAIN longer = 1..n + 1 /\ longer[n + 1] = x
      /\ \A i \in 1..n : longer[i] = shown[i]
  BY <1>1
<1>3. Lines(longer) = [i \in 1..n + 1 |-> longer[i].line]
  <2> HIDE DEF longer
  <2> QED  BY <1>2 DEF Lines
<1>4. Lines(shown) = [i \in 1..n |-> shown[i].line]
  BY <1>1 DEF Lines
<1> DEFINE lines == [i \in 1..n |-> shown[i].line]
<1>5. Append(lines, x.line) = [i \in 1..n + 1 |-> IF i = n + 1 THEN x.line ELSE lines[i]]
  <2>1. Len(lines) = n /\ n \in Nat
    BY <1>1
  <2> QED  BY <2>1
<1> HIDE DEF n, longer
<1>6. \A i \in 1..n + 1 : longer[i].line = IF i = n + 1 THEN x.line ELSE lines[i]
  <2>1. \A i \in 1..n + 1 : i # n + 1 => i \in 1..n
    BY <1>1 DEF n
  <2> QED  BY <1>2, <2>1
<1> HIDE DEF lines
<1> QED  BY <1>3, <1>4, <1>5, <1>6 DEF longer, lines

GateInv == TypeInv /\ GateIsTransparent

LEMMA GateInit == Init => GateIsTransparent
PROOF
  BY DEF Init, GateIsTransparent

LEMMA GateStep == GateInv /\ [Next]_vars => GateIsTransparent'
PROOF
<1> SUFFICES ASSUME TypeInv, GateIsTransparent, [Next]_vars
             PROVE  \A scope \in open' : Reducer(scope)'.failures = OfAllLines(Lines(log'[scope]))
  BY DEF GateInv, GateIsTransparent
<1>0. \A scope \in open : Reducer(scope).failures = OfAllLines(Lines(log[scope]))
  BY DEF GateIsTransparent
<1>1. CASE UNCHANGED vars
  BY <1>0, <1>1 DEF vars, Reducer, NewReducer
<1>2. ASSUME NEW scope \in Scopes, BeginScope(scope)
      PROVE  \A s \in open' : Reducer(s)'.failures = OfAllLines(Lines(log'[s]))
  <2>1. /\ scope \notin open /\ open' = open \cup {scope} /\ scopes' = scopes
        /\ log' = [log EXCEPT ![scope] = <<>>]
    BY <1>2 DEF BeginScope
  <2>2. \A s \in open : log'[s] = log[s]
    BY <2>1 DEF TypeInv
  <2>3. log'[scope] = <<>>
    BY <2>1 DEF TypeInv
  <2>4. Lines(<<>>) = <<>>
    BY DEF Lines
  <2>5. \A s : Reducer(s)' = Reducer(s)
    BY <2>1 DEF Reducer, NewReducer
  <2>6. Reducer(scope).failures = NoFailures
    BY <2>1 DEF Reducer, NewReducer, TypeInv
  <2> QED  BY <1>0, <2>1, <2>2, <2>3, <2>4, <2>5, <2>6, OfNoLines
<1>3. ASSUME NEW scope \in Scopes, NEW stream \in Streams, NEW line \in format,
             Observe(scope, stream, line)
      PROVE  \A s \in open' : Reducer(s)'.failures = OfAllLines(Lines(log'[s]))
  <2> DEFINE acc == Reducer(scope).failures
             lines == Lines(log[scope])
  <2>1. /\ open' = open /\ scope \in open
        /\ log' = [log EXCEPT ![scope] = Append(@, [stream |-> stream, line |-> line])]
    BY <1>3 DEF Observe
  <2>2. line \in LineType
    BY FormatLines DEF TypeInv
  <2>3. \A s \in open \ {scope} : log'[s] = log[s]
    BY <2>1 DEF TypeInv
  <2>4. OfAllLines(Lines(log'[scope])) = Shown(acc, line)
    <3>1. log'[scope] = Append(log[scope], [stream |-> stream, line |-> line])
      BY <2>1 DEF TypeInv
    <3>2. log[scope] \in Seq(ShownType)
      BY DEF TypeInv
    <3>3. Lines(log'[scope]) = Append(lines, line)
      BY <3>1, <3>2, LinesAppend
    <3>4. lines \in Seq(LineType)
      BY LinesType
    <3>5. OfAllLines(lines) = acc
      BY <1>0, <2>1
    <3> HIDE DEF lines, acc
    <3> QED  BY <2>2, <3>3, <3>4, <3>5, OfMoreLines
  <2>5. Sound(acc)
    BY ReducerSound
  <2>6. scope \in DOMAIN scopes => scopes[scope] = Reducer(scope)
    BY DEF Reducer
  <2>7. scope \notin DOMAIN scopes => ~IsActive(acc)
    BY NothingActive DEF Reducer, NewReducer
  <2>8. IsSeen(scope, line) <=> line.starts \/ IsActive(acc)
    BY <2>6, <2>7 DEF IsSeen
  <2>9. /\ \A s \in open \ {scope} : Reducer(s)' = Reducer(s)
        /\ Reducer(scope)'.failures = Shown(acc, line)
    <3>1. ASSUME ~IsSeen(scope, line), UNCHANGED scopes
          PROVE  /\ \A s : Reducer(s)' = Reducer(s)
                 /\ Shown(acc, line) = acc
      <4>1. \A s : Reducer(s)' = Reducer(s)
        BY <3>1 DEF Reducer, NewReducer
      <4>2. ~line.starts /\ ~IsActive(acc)
        BY <2>8, <3>1
      <4>3. Shown(acc, line) = acc
        <5> HIDE DEF acc
        <5> QED  BY <2>2, <2>5, <4>2, IdleLine DEF Shown
      <4> QED  BY <4>1, <4>3
    <3>2. ASSUME IsSeen(scope, line), NEW place,
                 scopes' = [other \in DOMAIN scopes \cup {scope} |->
                              IF other = scope THEN Observed(Reducer(scope), line, place)
                              ELSE scopes[other]]
          PROVE  /\ \A s \in open \ {scope} : Reducer(s)' = Reducer(s)
                 /\ Reducer(scope)'.failures = Shown(acc, line)
      <4>1. /\ DOMAIN scopes' = DOMAIN scopes \cup {scope}
            /\ scopes'[scope] = Observed(Reducer(scope), line, place)
            /\ \A s \in DOMAIN scopes \ {scope} : scopes'[s] = scopes[s]
        BY <3>2
      <4>2. \A s \in open \ {scope} : Reducer(s)' = Reducer(s)
        BY <4>1 DEF Reducer, NewReducer
      <4>3. Reducer(scope)' = Observed(Reducer(scope), line, place)
        BY <4>1 DEF Reducer
      <4>4. Reducer(scope)'.failures = ObserveLine(acc, line)
        BY <4>3 DEF Observed
      <4>5. Shown(acc, line) = ObserveLine(acc, line)
        BY <2>8, <3>2 DEF Shown
      <4> QED  BY <4>2, <4>4, <4>5
    <3>3. CASE ~IsSeen(scope, line) /\ UNCHANGED scopes
      BY <3>1, <3>3
    <3>4. CASE ~(~IsSeen(scope, line) /\ UNCHANGED scopes)
      BY <1>3, <3>2, <3>4 DEF Observe
    <3> QED  BY <3>3, <3>4
  <2> HIDE DEF acc
  <2> QED  BY <1>0, <2>1, <2>3, <2>4, <2>9
<1>4. ASSUME NEW scope \in Scopes, NEW reason \in EndReasons, EndScope(scope, reason)
      PROVE  \A s \in open' : Reducer(s)'.failures = OfAllLines(Lines(log'[s]))
  <2>1. /\ open' = open \ {scope}
        /\ log' = [log EXCEPT ![scope] = <<>>]
        /\ scopes' = Restrict(scopes, DOMAIN scopes \ {scope})
    BY <1>4 DEF EndScope
  <2>2. /\ DOMAIN scopes' = DOMAIN scopes \ {scope}
        /\ \A s \in DOMAIN scopes' : scopes'[s] = scopes[s]
    BY <2>1 DEF Restrict
  <2>3. \A s \in open' : log'[s] = log[s]
    BY <2>1 DEF TypeInv
  <2>4. \A s \in open' : Reducer(s)' = Reducer(s)
    BY <2>1, <2>2 DEF Reducer, NewReducer
  <2> QED  BY <1>0, <2>1, <2>3, <2>4
<1> QED  BY <1>1, <1>2, <1>3, <1>4 DEF Next

THEOREM GateAlwaysTransparent == Spec => []GateIsTransparent
PROOF
<1>1. Init => GateInv
  BY TypeInit, GateInit DEF GateInv
<1>2. GateInv /\ [Next]_vars => GateInv'
  BY TypeStep, GateStep DEF GateInv
<1>3. GateInv => GateIsTransparent
  BY DEF GateInv
<1> QED  BY <1>1, <1>2, <1>3, PTL DEF Spec

----------------------------------------------------------------------------
(* The test that a line is output of *)

LEMMA MaxIs ==
  ASSUME NEW S \in SUBSET Nat, NEW x \in S, \A y \in S : x >= y
  PROVE  Max(S) = x
PROOF
<1>1. Max(S) \in S /\ \A y \in S : Max(S) >= y
  BY DEF Max
<1> DEFINE m == Max(S)
<1>2. m >= x /\ x >= m /\ m \in Nat /\ x \in Nat
  BY <1>1
<1> HIDE DEF m
<1>3. m = x
  BY <1>2
<1> QED  BY <1>3 DEF m

LEMMA TestAtSame ==
  ASSUME NEW i \in Nat, NEW names, NEW ends, NEW names2, NEW ends2,
         \A j \in 1..i : names[j] = names2[j] /\ (ends[j] <=> ends2[j])
  PROVE  TestAt(names, ends, i) = TestAt(names2, ends2, i)
PROOF
<1> DEFINE named == {j \in 1..i : names[j] # 0}
           last == Max(named)
<1>1. named = {j \in 1..i : names2[j] # 0}
  OBVIOUS
<1>2. CASE named = {}
  BY <1>1, <1>2 DEF TestAt
<1>3. CASE named # {}
  <2>1. last \in 1..i
    <3>1. \E x \in named : \A y \in named : x >= y
      <4>1. named \in SUBSET (1..i)
        OBVIOUS
      <4> HIDE DEF named
      <4> QED  BY <1>3, <4>1, LastPosition
    <3>2. last \in named
      <4> HIDE DEF named
      <4> QED  BY <3>1 DEF Max
    <3> QED  BY <3>2
  <2>2. TestAt(names, ends, i)
          = IF named = {} \/ \E j \in (last + 1)..i : ends[j] THEN 0 ELSE Bounded[names[last]]
    BY DEF TestAt
  <2>3. TestAt(names2, ends2, i)
          = IF named = {} \/ \E j \in (last + 1)..i : ends2[j] THEN 0 ELSE Bounded[names2[last]]
    BY <1>1 DEF TestAt
  <2> HIDE DEF last, named
  <2>4. \A j \in (last + 1)..i : ends[j] <=> ends2[j]
    BY <2>1
  <2>5. names[last] = names2[last]
    BY <2>1
  <2> QED  BY <2>2, <2>3, <2>4, <2>5
<1> QED  BY <1>2, <1>3

LEMMA TestAtNext ==
  ASSUME NEW i \in Nat, NEW names, NEW ends
  PROVE  TestAt(names, ends, i + 1) = IF names[i + 1] # 0 THEN Bounded[names[i + 1]]
                                      ELSE IF ends[i + 1] THEN 0
                                      ELSE TestAt(names, ends, i)
PROOF
<1> DEFINE before == {j \in 1..i : names[j] # 0}
           after == {j \in 1..i + 1 : names[j] # 0}
           last == Max(before)
<1>1. /\ TestAt(names, ends, i) = IF before = {} \/ \E j \in (last + 1)..i : ends[j] THEN 0
                                  ELSE Bounded[names[last]]
      /\ TestAt(names, ends, i + 1) =
           IF after = {} \/ \E j \in (Max(after) + 1)..(i + 1) : ends[j] THEN 0
           ELSE Bounded[names[Max(after)]]
  BY DEF TestAt
<1>2. CASE names[i + 1] # 0
  <2>1. Max(after) = i + 1
    <3>1. after \in SUBSET Nat /\ i + 1 \in after /\ \A y \in after : i + 1 >= y
      BY <1>2
    <3> HIDE DEF after
    <3> QED  BY <3>1, MaxIs
  <2>2. after # {} /\ ((i + 1) + 1)..(i + 1) = {}
    BY <1>2
  <2> HIDE DEF after, before
  <2> QED  BY <1>1, <1>2, <2>1, <2>2
<1>3. CASE names[i + 1] = 0
  <2>1. after = before
    BY <1>3
  <2>2. CASE before = {}
    BY <1>1, <1>3, <2>1, <2>2
  <2>3. CASE before # {}
    <3>1. last \in 1..i
      <4>1. \E x \in before : \A y \in before : x >= y
        <5>1. before \in SUBSET (1..i)
          OBVIOUS
        <5> HIDE DEF before
        <5> QED  BY <2>3, <5>1, LastPosition
      <4>2. last \in before
        <5> HIDE DEF before
        <5> QED  BY <4>1 DEF Max
      <4> QED  BY <4>2
    <3> HIDE DEF before, after, last
    <3>2. (last + 1)..(i + 1) = ((last + 1)..i) \cup {i + 1}
      BY <3>1
    <3>3. Max(after) = last
      BY <2>1 DEF last
    <3> QED  BY <1>1, <1>3, <2>1, <2>3, <3>2, <3>3
  <2> QED  BY <2>2, <2>3
<1> QED  BY <1>2, <1>3

(* longer is lines and one line more. *)
Extends(longer, lines, line) ==
  /\ Len(lines) \in Nat /\ DOMAIN lines = 1..Len(lines)
  /\ Len(longer) = Len(lines) + 1 /\ DOMAIN longer = 1..(Len(lines) + 1)
  /\ longer[Len(lines) + 1] = line
  /\ \A i \in 1..Len(lines) : longer[i] = lines[i]

LEMMA AppendExtends ==
  ASSUME NEW T, NEW lines \in Seq(T), NEW line \in T
  PROVE  Extends(Append(lines, line), lines, line)
PROOF
<1> DEFINE longer == Append(lines, line)
<1>1. Len(lines) \in Nat /\ DOMAIN lines = 1..Len(lines)
  OBVIOUS
<1>2. longer \in Seq(T) /\ Len(longer) = Len(lines) + 1
  OBVIOUS
<1>3. longer[Len(lines) + 1] = line /\ \A i \in 1..Len(lines) : longer[i] = lines[i]
  OBVIOUS
<1>4. DOMAIN longer = 1..Len(longer)
  <2> HIDE DEF longer
  <2> QED  BY <1>2
<1> QED  BY <1>1, <1>2, <1>3, <1>4 DEF Extends

(* The tests of the lines there are stay, and that of the new one is as    *)
(* the recognisers of test_failures.rs have it.                            *)
LEMMA TestsStay ==
  ASSUME NEW longer, NEW lines, NEW line, Extends(longer, lines, line), NEW i \in 0..Len(lines)
  PROVE  /\ GoTestAt(longer, i) = GoTestAt(lines, i)
         /\ RustTestAt(longer, i) = RustTestAt(lines, i)
         /\ GtestTestAt(longer, i) = GtestTestAt(lines, i)
PROOF
<1>1. /\ Len(lines) \in Nat /\ DOMAIN lines = 1..Len(lines)
      /\ DOMAIN longer = 1..(Len(lines) + 1)
      /\ \A j \in 1..Len(lines) : longer[j] = lines[j]
  BY DEF Extends
<1> DEFINE n == Len(lines)
<1> HIDE DEF n
<1>2. i \in Nat /\ \A j \in 1..i : j \in DOMAIN lines /\ j \in DOMAIN longer /\ longer[j] = lines[j]
  <2>1. n \in Nat /\ i \in 0..n
    BY <1>1 DEF n
  <2>2. i \in Nat /\ \A j \in 1..i : j \in 1..n /\ j \in 1..(n + 1)
    BY <2>1
  <2> QED  BY <1>1, <2>2 DEF n
<1>3. GoTestAt(longer, i) = GoTestAt(lines, i)
  <2> DEFINE names == [j \in DOMAIN longer |-> GoNameIn(longer[j])]
             ends == [j \in DOMAIN longer |-> longer[j].go_pass]
             names2 == [j \in DOMAIN lines |-> GoNameIn(lines[j])]
             ends2 == [j \in DOMAIN lines |-> lines[j].go_pass]
  <2>1. \A j \in 1..i : names[j] = names2[j] /\ (ends[j] <=> ends2[j])
    BY <1>2
  <2>2. GoTestAt(longer, i) = TestAt(names, ends, i) /\ GoTestAt(lines, i) = TestAt(names2, ends2, i)
    BY DEF GoTestAt
  <2> HIDE DEF names, ends, names2, ends2
  <2> QED  BY <1>2, <2>1, <2>2, TestAtSame
<1>4. RustTestAt(longer, i) = RustTestAt(lines, i)
  <2> DEFINE names == [j \in DOMAIN longer |-> RustNameIn(longer[j])]
             ends == [j \in DOMAIN longer |-> longer[j].heading]
             names2 == [j \in DOMAIN lines |-> RustNameIn(lines[j])]
             ends2 == [j \in DOMAIN lines |-> lines[j].heading]
  <2>1. \A j \in 1..i : names[j] = names2[j] /\ (ends[j] <=> ends2[j])
    BY <1>2
  <2>2. RustTestAt(longer, i) = TestAt(names, ends, i) /\ RustTestAt(lines, i) = TestAt(names2, ends2, i)
    BY DEF RustTestAt
  <2> HIDE DEF names, ends, names2, ends2
  <2> QED  BY <1>2, <2>1, <2>2, TestAtSame
<1>5. GtestTestAt(longer, i) = GtestTestAt(lines, i)
  <2> DEFINE names == [j \in DOMAIN longer |-> longer[j].gtest_run]
             ends == [j \in DOMAIN longer |-> FALSE]
             names2 == [j \in DOMAIN lines |-> lines[j].gtest_run]
             ends2 == [j \in DOMAIN lines |-> FALSE]
  <2>1. \A j \in 1..i : names[j] = names2[j] /\ (ends[j] <=> ends2[j])
    BY <1>2
  <2>2. GtestTestAt(longer, i) = TestAt(names, ends, i) /\ GtestTestAt(lines, i) = TestAt(names2, ends2, i)
    BY DEF GtestTestAt
  <2> HIDE DEF names, ends, names2, ends2
  <2> QED  BY <1>2, <2>1, <2>2, TestAtSame
<1> QED  BY <1>3, <1>4, <1>5

LEMMA TestsNext ==
  ASSUME NEW longer, NEW lines, NEW line, Extends(longer, lines, line)
  PROVE  LET n == Len(lines)
         IN  /\ GoTestAt(longer, n + 1) = IF GoNameIn(line) # 0 THEN Bounded[GoNameIn(line)]
                                          ELSE IF line.go_pass THEN 0 ELSE GoTestAt(lines, n)
             /\ RustTestAt(longer, n + 1) = IF RustNameIn(line) # 0 THEN Bounded[RustNameIn(line)]
                                            ELSE IF line.heading THEN 0 ELSE RustTestAt(lines, n)
             /\ GtestTestAt(longer, n + 1) = IF line.gtest_run # 0 THEN Bounded[line.gtest_run]
                                             ELSE GtestTestAt(lines, n)
PROOF
<1> DEFINE n == Len(lines)
<1>1. /\ n \in Nat /\ DOMAIN longer = 1..(n + 1) /\ longer[n + 1] = line
  BY DEF Extends
<1>2. n \in 0..Len(lines) /\ n + 1 \in DOMAIN longer
  BY <1>1
<1>3. /\ GoTestAt(longer, n) = GoTestAt(lines, n)
      /\ RustTestAt(longer, n) = RustTestAt(lines, n)
      /\ GtestTestAt(longer, n) = GtestTestAt(lines, n)
  BY <1>2, TestsStay
<1> HIDE DEF n
<1>4. GoTestAt(longer, n + 1) = IF GoNameIn(line) # 0 THEN Bounded[GoNameIn(line)]
                                ELSE IF line.go_pass THEN 0 ELSE GoTestAt(lines, n)
  <2> DEFINE names == [j \in DOMAIN longer |-> GoNameIn(longer[j])]
             ends == [j \in DOMAIN longer |-> longer[j].go_pass]
  <2>1. /\ GoTestAt(longer, n + 1) = TestAt(names, ends, n + 1)
        /\ GoTestAt(longer, n) = TestAt(names, ends, n)
    BY DEF GoTestAt
  <2>2. names[n + 1] = GoNameIn(line) /\ ends[n + 1] = line.go_pass
    BY <1>1, <1>2
  <2> HIDE DEF names, ends
  <2>3. TestAt(names, ends, n + 1) = IF names[n + 1] # 0 THEN Bounded[names[n + 1]]
                                     ELSE IF ends[n + 1] THEN 0 ELSE TestAt(names, ends, n)
    BY <1>1, TestAtNext
  <2> QED  BY <1>3, <2>1, <2>2, <2>3
<1>5. RustTestAt(longer, n + 1) = IF RustNameIn(line) # 0 THEN Bounded[RustNameIn(line)]
                                  ELSE IF line.heading THEN 0 ELSE RustTestAt(lines, n)
  <2> DEFINE names == [j \in DOMAIN longer |-> RustNameIn(longer[j])]
             ends == [j \in DOMAIN longer |-> longer[j].heading]
  <2>1. /\ RustTestAt(longer, n + 1) = TestAt(names, ends, n + 1)
        /\ RustTestAt(longer, n) = TestAt(names, ends, n)
    BY DEF RustTestAt
  <2>2. names[n + 1] = RustNameIn(line) /\ ends[n + 1] = line.heading
    BY <1>1, <1>2
  <2> HIDE DEF names, ends
  <2>3. TestAt(names, ends, n + 1) = IF names[n + 1] # 0 THEN Bounded[names[n + 1]]
                                     ELSE IF ends[n + 1] THEN 0 ELSE TestAt(names, ends, n)
    BY <1>1, TestAtNext
  <2> QED  BY <1>3, <2>1, <2>2, <2>3
<1>6. GtestTestAt(longer, n + 1) = IF line.gtest_run # 0 THEN Bounded[line.gtest_run]
                                   ELSE GtestTestAt(lines, n)
  <2> DEFINE names == [j \in DOMAIN longer |-> longer[j].gtest_run]
             ends == [j \in DOMAIN longer |-> FALSE]
  <2>1. /\ GtestTestAt(longer, n + 1) = TestAt(names, ends, n + 1)
        /\ GtestTestAt(longer, n) = TestAt(names, ends, n)
    BY DEF GtestTestAt
  <2>2. names[n + 1] = line.gtest_run /\ ends[n + 1] = FALSE
    BY <1>1, <1>2
  <2> HIDE DEF names, ends
  <2>3. TestAt(names, ends, n + 1) = IF names[n + 1] # 0 THEN Bounded[names[n + 1]]
                                     ELSE IF ends[n + 1] THEN 0 ELSE TestAt(names, ends, n)
    BY <1>1, TestAtNext
  <2> QED  BY <1>3, <2>1, <2>2, <2>3
<1> QED  BY <1>4, <1>5, <1>6 DEF n

----------------------------------------------------------------------------
(* Go's blocks are evidenced by the lines *)

GoOwn(lines, name) == {i \in DOMAIN lines : GoTestAt(lines, i) = name}
GoTexts(lines, own) ==
  {lines[i].text : i \in own} \cup {lines[i].go_message : i \in own}
    \cup {lines[i].go_panic : i \in own}
GoPlaces(lines, own) == {0} \cup {lines[i].go_place : i \in own}
FailsIn(lines, own) == \E i \in own : lines[i].go_fail # 0
PanicsIn(lines, own, text) == \E i \in own : lines[i].go_panic = text

GoFrom(lines, own, block) ==
  /\ block.failed => FailsIn(lines, own)
  /\ block.location \in GoPlaces(lines, own)
  /\ block.assertion \in {0} \cup GoTexts(lines, own)
  /\ block.panic_message # 0 => PanicsIn(lines, own, block.panic_message)
  /\ Range(block.details) \subseteq GoTexts(lines, own)

GoBlocksOf(lines) == {b \in GoBlockType : GoFrom(lines, GoOwn(lines, b.name), b)}

(* Every line of own is one of own2. *)
Within(lines, own, longer, own2) ==
  \A i \in own : i \in own2 /\ longer[i] = lines[i]

LEMMA GoOwnGrows ==
  ASSUME NEW longer, NEW lines, NEW line, Extends(longer, lines, line), NEW name
  PROVE  Within(lines, GoOwn(lines, name), longer, GoOwn(longer, name))
PROOF
<1> SUFFICES ASSUME NEW i \in GoOwn(lines, name)
             PROVE  i \in GoOwn(longer, name) /\ longer[i] = lines[i]
  BY DEF Within
<1>1. /\ Len(lines) \in Nat /\ DOMAIN lines = 1..Len(lines)
      /\ DOMAIN longer = 1..(Len(lines) + 1)
      /\ \A j \in 1..Len(lines) : longer[j] = lines[j]
  BY DEF Extends
<1>2. i \in 1..Len(lines) /\ GoTestAt(lines, i) = name
  BY <1>1 DEF GoOwn
<1>3. i \in 0..Len(lines) /\ i \in 1..(Len(lines) + 1)
  BY <1>1, <1>2
<1>4. GoTestAt(longer, i) = name
  BY <1>2, <1>3, TestsStay
<1> QED  BY <1>1, <1>2, <1>3, <1>4 DEF GoOwn

LEMMA GoTextsGrow ==
  ASSUME NEW lines, NEW own, NEW longer, NEW own2, Within(lines, own, longer, own2)
  PROVE  GoTexts(lines, own) \subseteq GoTexts(longer, own2)
PROOF
  BY DEF Within, GoTexts

LEMMA GoFromGrows ==
  ASSUME NEW lines, NEW own, NEW longer, NEW own2, Within(lines, own, longer, own2),
         NEW block, GoFrom(lines, own, block)
  PROVE  GoFrom(longer, own2, block)
PROOF
<1>1. GoTexts(lines, own) \subseteq GoTexts(longer, own2)
  BY GoTextsGrow
<1>2. GoPlaces(lines, own) \subseteq GoPlaces(longer, own2)
  BY DEF GoPlaces, Within
<1>3. FailsIn(lines, own) => FailsIn(longer, own2)
  BY DEF FailsIn, Within
<1>4. \A text : PanicsIn(lines, own, text) => PanicsIn(longer, own2, text)
  BY DEF PanicsIn, Within
<1> QED  BY <1>1, <1>2, <1>3, <1>4 DEF GoFrom

LEMMA GoBlocksGrow ==
  ASSUME NEW longer, NEW lines, NEW line, Extends(longer, lines, line)
  PROVE  GoBlocksOf(lines) \subseteq GoBlocksOf(longer)
PROOF
<1> SUFFICES ASSUME NEW b \in GoBlocksOf(lines) PROVE b \in GoBlocksOf(longer)
  OBVIOUS
<1>1. b \in GoBlockType /\ GoFrom(lines, GoOwn(lines, b.name), b)
  BY DEF GoBlocksOf
<1>2. Within(lines, GoOwn(lines, b.name), longer, GoOwn(longer, b.name))
  BY GoOwnGrows
<1>3. GoFrom(longer, GoOwn(longer, b.name), b)
  BY <1>1, <1>2, GoFromGrows
<1> QED  BY <1>1, <1>3 DEF GoBlocksOf

(* What a line adds to the block of the test it is output of is from it.   *)
LEMMA AssertedFrom ==
  ASSUME NEW lines, NEW own, NEW b \in GoBlockType, GoFrom(lines, own, b),
         NEW text \in Texts, text \in GoTexts(lines, own), NEW is_detail
  PROVE  GoFrom(lines, own, Asserted(b, text, is_detail))
         /\ Asserted(b, text, is_detail).name = b.name
PROOF
<1> DEFINE more == PushUnique(b.details, text, MaxGoDetails)
           details == AtMost(Texts, MaxGoDetails)
<1>1. b.details \in details
  BY DEF GoBlockType
<1>2. Range(more) \subseteq Range(b.details) \cup {text}
  BY <1>1, LimitsNat, PushUniqueProperties
<1>3. Asserted(b, text, is_detail) = IF b.assertion = 0 THEN [b EXCEPT !.assertion = text]
                                     ELSE IF is_detail THEN [b EXCEPT !.details = more]
                                     ELSE b
  BY DEF Asserted
<1>4. b \in [name : Names, location : OptionalPlaces, location_rank : {0, 1, 255},
             assertion : OptionalTexts, panic_message : OptionalTexts,
             details : details, failed : BOOLEAN]
  BY DEF GoBlockType
<1> HIDE DEF more, details
<1> DEFINE c == Asserted(b, text, is_detail)
<1>5. CASE b.assertion = 0
  <2>1. c = [b EXCEPT !.assertion = text]
    BY <1>3, <1>5
  <2> HIDE DEF c
  <2>2. /\ c.name = b.name /\ c.location = b.location /\ c.assertion = text
        /\ c.panic_message = b.panic_message /\ c.details = b.details
        /\ c.failed = b.failed
    BY <1>4, <2>1
  <2>3. GoFrom(lines, own, c) /\ c.name = b.name
    BY <2>2 DEF GoFrom
  <2> QED  BY <2>3 DEF c
<1>6. CASE b.assertion # 0 /\ is_detail
  <2>1. c = [b EXCEPT !.details = more]
    BY <1>3, <1>6
  <2> HIDE DEF c
  <2>2. /\ c.name = b.name /\ c.location = b.location /\ c.assertion = b.assertion
        /\ c.panic_message = b.panic_message /\ c.details = more
        /\ c.failed = b.failed
    BY <1>4, <2>1
  <2>3. Range(c.details) \subseteq GoTexts(lines, own)
    BY <1>2, <2>2 DEF GoFrom
  <2>4. GoFrom(lines, own, c) /\ c.name = b.name
    BY <2>2, <2>3 DEF GoFrom
  <2> QED  BY <2>4 DEF c
<1>7. CASE b.assertion # 0 /\ ~is_detail
  BY <1>3, <1>7
<1> QED  BY <1>5, <1>6, <1>7

LEMMA AdmitsEvidence ==
  ASSUME NEW lines, NEW line \in LineType, NEW n \in DOMAIN lines, lines[n] = line,
         NEW name \in Names, GoTestAt(lines, n) = name
  PROVE  Admits(GoBlocksOf(lines), line, name)
PROOF
<1> DEFINE own == GoOwn(lines, name)
<1>1. n \in own /\ lines[n] = line
  BY DEF GoOwn
<1>2. Admits(GoBlockType, line, name)
  BY AdmitsType
<1>3. \A b \in GoBlockType : b.name = name /\ GoFrom(lines, own, b) => b \in GoBlocksOf(lines)
  BY DEF GoBlocksOf
<1>4. \A b \in GoBlocksOf(lines) : b.name = name => b \in GoBlockType /\ GoFrom(lines, own, b)
  BY DEF GoBlocksOf
<1> HIDE DEF own
<1>5. NewGoBlock(name) \in GoBlocksOf(lines)
  <2>1. NewGoBlock(name) \in GoBlockType /\ NewGoBlock(name).name = name
    BY NewBlockType
  <2>2. GoFrom(lines, own, NewGoBlock(name))
    BY DEF GoFrom, NewGoBlock, GoPlaces, Range
  <2> QED  BY <1>3, <2>1, <2>2
<1>6. ASSUME NEW b \in GoBlocksOf(lines), b.name = name
      PROVE  /\ line.go_fail # 0 => [b EXCEPT !.failed = TRUE] \in GoBlocksOf(lines)
             /\ line.go_panic # 0 =>
                  [b EXCEPT !.panic_message = IF @ = 0 THEN line.go_panic ELSE @]
                     \in GoBlocksOf(lines)
             /\ line.go_place # 0 => Located(b, line) \in GoBlocksOf(lines)
             /\ line.go_message # 0 =>
                  Asserted(b, line.go_message, line.go_detail) \in GoBlocksOf(lines)
             /\ Asserted(b, line.text, line.go_detail) \in GoBlocksOf(lines)
  <2>1. b \in GoBlockType /\ GoFrom(lines, own, b)
    BY <1>4, <1>6
  <2>2. ASSUME line.go_fail # 0
        PROVE  [b EXCEPT !.failed = TRUE] \in GoBlocksOf(lines)
    <3> DEFINE c == [b EXCEPT !.failed = TRUE]
    <3>1. c \in GoBlockType
      BY <1>2, <1>6, <2>1, <2>2 DEF Admits
    <3>2. /\ c.name = b.name /\ c.location = b.location /\ c.assertion = b.assertion
          /\ c.panic_message = b.panic_message /\ c.details = b.details
      BY <2>1 DEF GoBlockType
    <3> HIDE DEF c
    <3>3. FailsIn(lines, own)
      BY <1>1, <2>2 DEF FailsIn
    <3>4. GoFrom(lines, own, c)
      BY <2>1, <3>2, <3>3 DEF GoFrom
    <3>5. c \in GoBlocksOf(lines)
      BY <1>3, <1>6, <3>1, <3>2, <3>4
    <3> QED  BY <3>5 DEF c
  <2>3. ASSUME line.go_panic # 0
        PROVE  [b EXCEPT !.panic_message = IF @ = 0 THEN line.go_panic ELSE @] \in GoBlocksOf(lines)
    <3> DEFINE said == IF b.panic_message = 0 THEN line.go_panic ELSE b.panic_message
               c == [b EXCEPT !.panic_message = said]
               d == [b EXCEPT !.panic_message = IF @ = 0 THEN line.go_panic ELSE @]
    <3>0. d = c
      OBVIOUS
    <3>1. d \in GoBlockType
      BY <1>2, <1>6, <2>1, <2>3 DEF Admits
    <3> HIDE DEF d, said
    <3>2. /\ c.name = b.name /\ c.location = b.location /\ c.assertion = b.assertion
          /\ c.panic_message = said /\ c.details = b.details /\ c.failed = b.failed
      BY <2>1 DEF GoBlockType
    <3> HIDE DEF c
    <3>3. PanicsIn(lines, own, said)
      BY <1>1, <2>1 DEF PanicsIn, GoFrom, said
    <3>4. GoFrom(lines, own, c)
      BY <2>1, <3>2, <3>3 DEF GoFrom
    <3>5. d \in GoBlocksOf(lines)
      BY <1>3, <1>6, <3>0, <3>1, <3>2, <3>4
    <3> QED  BY <3>5 DEF d
  <2>4. ASSUME line.go_place # 0
        PROVE  Located(b, line) \in GoBlocksOf(lines)
    <3> DEFINE c == Located(b, line)
               rank == LocationRank(line)
    <3>1. c \in GoBlockType
      BY <1>2, <1>6, <2>1, <2>4 DEF Admits
    <3>2. c \in {b, [b EXCEPT !.location = line.go_place, !.location_rank = rank]}
      BY DEF Located
    <3> HIDE DEF c, rank
    <3>3. /\ c.name = b.name /\ c.location \in {b.location, line.go_place}
          /\ c.assertion = b.assertion /\ c.panic_message = b.panic_message
          /\ c.details = b.details /\ c.failed = b.failed
      <4> DEFINE place == line.go_place
                 d == [b EXCEPT !.location = place, !.location_rank = rank]
      <4>1. c = b \/ c = d
        BY <3>2
      <4> HIDE DEF place
      <4>2. /\ d.name = b.name /\ d.location = place
            /\ d.assertion = b.assertion /\ d.panic_message = b.panic_message
            /\ d.details = b.details /\ d.failed = b.failed
        BY <2>1 DEF GoBlockType
      <4> HIDE DEF d
      <4> QED  BY <4>1, <4>2 DEF place
    <3>4. line.go_place \in GoPlaces(lines, own)
      BY <1>1 DEF GoPlaces
    <3>5. GoFrom(lines, own, c)
      BY <2>1, <3>3, <3>4 DEF GoFrom
    <3>6. c \in GoBlocksOf(lines)
      BY <1>3, <1>6, <3>1, <3>3, <3>5
    <3> QED  BY <3>6 DEF c
  <2>5. ASSUME NEW text \in Texts, text \in GoTexts(lines, own),
               Asserted(b, text, line.go_detail) \in GoBlockType
        PROVE  Asserted(b, text, line.go_detail) \in GoBlocksOf(lines)
    <3>1. GoFrom(lines, own, Asserted(b, text, line.go_detail))
          /\ Asserted(b, text, line.go_detail).name = b.name
      BY <2>1, <2>5, AssertedFrom
    <3> QED  BY <1>3, <1>6, <2>5, <3>1
  <2>6. /\ line.text \in Texts /\ line.text \in GoTexts(lines, own)
        /\ line.go_message # 0 => line.go_message \in Texts /\ line.go_message \in GoTexts(lines, own)
    BY <1>1 DEF LineType, OptionalTexts, GoTexts
  <2>7. /\ line.go_message # 0 => Asserted(b, line.go_message, line.go_detail) \in GoBlockType
        /\ Asserted(b, line.text, line.go_detail) \in GoBlockType
    BY <1>2, <1>6, <2>1 DEF Admits
  <2> QED  BY <2>2, <2>3, <2>4, <2>5, <2>6, <2>7
<1> QED  BY <1>5, <1>6 DEF Admits

(* The test in progress is that of the last line. *)
GoNow(acc, lines) == GoName(acc) # 0 => GoTestAt(lines, Len(lines)) = GoName(acc)

LEMMA GoAdmits ==
  ASSUME NEW acc, Sound(acc), NEW lines, GoNow(acc, lines), NEW line \in LineType,
         NEW longer, Extends(longer, lines, line)
  PROVE  AdmitsLine(GoBlocksOf(longer), acc, line)
PROOF
<1> DEFINE n == Len(lines) + 1
<1>1. n \in DOMAIN longer /\ longer[n] = line
  BY DEF Extends
<1>2. GoTestAt(longer, n) = IF GoNameIn(line) # 0 THEN Bounded[GoNameIn(line)]
                            ELSE IF line.go_pass THEN 0 ELSE GoTestAt(lines, Len(lines))
  BY TestsNext
<1>3. acc \in AccType /\ Consistent(acc)
  BY DEF Sound
<1> HIDE DEF n
<1>4. ASSUME line.go_run = 0, line.go_fail # 0
      PROVE  Admits(GoBlocksOf(longer), line, Bounded[line.go_fail])
  <2>1. Bounded[line.go_fail] \in Names
    BY <1>4, BoundedName DEF LineType, OptionalNames
  <2>2. GoTestAt(longer, n) = Bounded[line.go_fail]
    BY <1>2, <1>4 DEF GoNameIn
  <2> QED  BY <1>1, <2>1, <2>2, AdmitsEvidence
<1>5. ASSUME line.go_run = 0, line.go_fail = 0, ~(line.go_pass /\ acc.go_running_name # 0),
             GoName(acc) # 0
      PROVE  Admits(GoBlocksOf(longer), line, GoName(acc))
  <2>1. GoName(acc) \in Names
    BY <1>3, <1>5 DEF GoName, AccType, OptionalNames
  <2>2. ~line.go_pass
    BY <1>3, <1>5 DEF GoName, Consistent
  <2>3. GoTestAt(longer, n) = GoName(acc)
    BY <1>2, <1>5, <2>2 DEF GoNameIn, GoNow
  <2> QED  BY <1>1, <2>1, <2>3, AdmitsEvidence
<1> QED  BY <1>4, <1>5 DEF AdmitsLine

LEMMA GoNowNext ==
  ASSUME NEW acc, Sound(acc), NEW lines, GoNow(acc, lines), NEW line \in LineType,
         NEW longer, Extends(longer, lines, line),
         NEW next, GoNamesStep(next, acc, line)
  PROVE  GoNow(next, longer)
PROOF
<1> DEFINE n == Len(lines) + 1
<1>1. Len(longer) = n
  BY DEF Extends
<1>2. GoTestAt(longer, n) = IF GoNameIn(line) # 0 THEN Bounded[GoNameIn(line)]
                            ELSE IF line.go_pass THEN 0 ELSE GoTestAt(lines, Len(lines))
  BY TestsNext
<1>3. acc \in AccType /\ Consistent(acc)
  BY DEF Sound
<1>4. <<next.go_running_name, next.go_panic_name>> \in GoNames(acc, line)
  BY DEF GoNamesStep
<1> HIDE DEF n
<1>5. CASE line.go_run # 0
  <2>1. next.go_running_name = Bounded[line.go_run] /\ next.go_panic_name = 0
    BY <1>4, <1>5 DEF GoNames
  <2> QED  BY <1>1, <1>2, <1>5, <2>1 DEF GoNow, GoName, GoNameIn
<1>6. CASE line.go_run = 0 /\ line.go_fail # 0
  <2>1. next.go_running_name = Bounded[line.go_fail] /\ next.go_panic_name = Bounded[line.go_fail]
    BY <1>4, <1>6 DEF GoNames
  <2> QED  BY <1>1, <1>2, <1>6, <2>1 DEF GoNow, GoName, GoNameIn
<1>7. CASE line.go_run = 0 /\ line.go_fail = 0 /\ line.go_pass /\ acc.go_running_name # 0
  <2>1. next.go_running_name = 0 /\ next.go_panic_name = 0
    BY <1>4, <1>7 DEF GoNames
  <2> QED  BY <2>1 DEF GoNow, GoName
<1>8. CASE line.go_run = 0 /\ line.go_fail = 0 /\ ~(line.go_pass /\ acc.go_running_name # 0)
  <2>1. /\ next.go_running_name = acc.go_running_name
        /\ next.go_panic_name \in {acc.go_panic_name, GoName(acc)}
    BY <1>4, <1>8 DEF GoNames
  <2>2. GoName(next) = GoName(acc)
    BY <1>3, <2>1 DEF GoName, Consistent
  <2>3. GoName(acc) # 0 => ~line.go_pass
    BY <1>3, <1>8 DEF GoName, Consistent
  <2> QED  BY <1>1, <1>2, <1>8, <2>2, <2>3 DEF GoNow, GoNameIn
<1> QED  BY <1>5, <1>6, <1>7, <1>8

(* The evidence of a failed block is evidenced. *)
LEMMA GoBlockEvidenced ==
  ASSUME NEW lines, NEW b \in GoBlocksOf(lines), b.failed
  PROVE  GoEvidenced(lines, GoEvidence(b))
PROOF
<1> DEFINE own == GoOwn(lines, b.name)
           failure == GoEvidence(b)
<1>1. b \in GoBlockType /\ GoFrom(lines, own, b)
  BY DEF GoBlocksOf
<1>2. /\ failure.name = b.name /\ failure.location = b.location
      /\ failure.panicked = (b.panic_message # 0)
      /\ failure.reason = IF b.panic_message # 0 THEN b.panic_message ELSE b.assertion
      /\ failure.details = b.details
  BY DEF GoEvidence
<1>3. own = {i \in DOMAIN lines : GoTestAt(lines, i) = failure.name}
  BY <1>2 DEF GoOwn
<1> HIDE DEF own, failure
<1>4. Said(failure) \subseteq GoTexts(lines, own)
  <2>1. b.panic_message # 0 => b.panic_message \in GoTexts(lines, own)
    BY <1>1 DEF GoFrom, PanicsIn, GoTexts
  <2>2. b.assertion # 0 => b.assertion \in GoTexts(lines, own)
    BY <1>1 DEF GoFrom
  <2>3. Range(b.details) \subseteq GoTexts(lines, own)
    BY <1>1 DEF GoFrom
  <2> QED  BY <1>2, <2>1, <2>2, <2>3 DEF Said
<1>5. \E i \in own : lines[i].go_fail # 0
  BY <1>1 DEF GoFrom, FailsIn
<1>6. failure.location \in {0} \cup {lines[i].go_place : i \in own}
  BY <1>1, <1>2 DEF GoFrom, GoPlaces
<1>7. failure.panicked => \E i \in own : lines[i].go_panic = failure.reason
  BY <1>1, <1>2 DEF GoFrom, PanicsIn
<1>8. GoEvidenced(lines, failure)
  BY <1>3, <1>4, <1>5, <1>6, <1>7 DEF GoEvidenced, GoTexts
<1> QED  BY <1>8 DEF failure

----------------------------------------------------------------------------
(* GoogleTest's failures are evidenced by the lines *)

NoGo(lines) == \A i \in DOMAIN lines : ~IsGo(lines[i])
NoGtestFailure(lines) == \A i \in DOMAIN lines : ~lines[i].gtest_failure

GtestTexts(lines, j) == {lines[i].text : i \in {n \in DOMAIN lines : InGtestBlock(lines, n, j)}}
GtestAt(lines, j, failure) ==
  /\ j \in DOMAIN lines /\ lines[j].gtest_failure
  /\ failure.name \in {GtestTestAt(lines, j), UnknownGtest}
  /\ failure.location = lines[j].gtest_place
  /\ Said(failure) \subseteq GtestTexts(lines, j)

(* The block of the failure at j goes on.                                  *)
GtestGoesOn(lines, j) ==
  \A n \in (j + 1)..Len(lines) : lines[n].gtest_run = 0 /\ ~lines[n].gtest_failure

GtestNow(acc, lines) ==
  /\ acc.go_running_name = 0
  /\ acc.gtest_running_name \in {0, GtestTestAt(lines, Len(lines))}
  /\ acc.gtest_current.name # 0 =>
       \E j \in DOMAIN lines : /\ GtestAt(lines, j, GtestEvidence(acc.gtest_current))
                               /\ GtestGoesOn(lines, j)

LEMMA WithoutLonger ==
  ASSUME NEW longer, NEW lines, NEW line, Extends(longer, lines, line)
  PROVE  /\ NoGo(longer) => NoGo(lines) /\ ~IsGo(line)
         /\ NoGtestFailure(longer) => NoGtestFailure(lines) /\ ~line.gtest_failure
PROOF
<1>1. /\ Len(lines) \in Nat /\ DOMAIN lines = 1..Len(lines)
      /\ DOMAIN longer = 1..(Len(lines) + 1) /\ longer[Len(lines) + 1] = line
      /\ \A i \in 1..Len(lines) : longer[i] = lines[i]
  BY DEF Extends
<1>2. /\ Len(lines) + 1 \in DOMAIN longer
      /\ \A i \in DOMAIN lines : i \in DOMAIN longer /\ longer[i] = lines[i]
  BY <1>1
<1> QED  BY <1>1, <1>2 DEF NoGo, NoGtestFailure

LEMMA GtestAtGrows ==
  ASSUME NEW longer, NEW lines, NEW line, Extends(longer, lines, line), NEW j, NEW failure,
         GtestAt(lines, j, failure)
  PROVE  GtestAt(longer, j, failure)
PROOF
<1>1. /\ Len(lines) \in Nat /\ DOMAIN lines = 1..Len(lines)
      /\ DOMAIN longer = 1..(Len(lines) + 1)
      /\ \A i \in 1..Len(lines) : longer[i] = lines[i]
  BY DEF Extends
<1>2. j \in 1..Len(lines)
  BY <1>1 DEF GtestAt
<1>3. j \in DOMAIN longer /\ longer[j] = lines[j] /\ j \in 0..Len(lines)
  BY <1>1, <1>2
<1>4. GtestTestAt(longer, j) = GtestTestAt(lines, j)
  BY <1>3, TestsStay
<1>5. GtestTexts(lines, j) \subseteq GtestTexts(longer, j)
  <2> SUFFICES ASSUME NEW n \in DOMAIN lines, InGtestBlock(lines, n, j)
               PROVE  n \in DOMAIN longer /\ InGtestBlock(longer, n, j) /\ longer[n] = lines[n]
    BY DEF GtestTexts
  <2>1. n \in 1..Len(lines) /\ n \in DOMAIN longer /\ longer[n] = lines[n]
    BY <1>1
  <2>2. \A m \in (j + 1)..n : longer[m] = lines[m]
    BY <1>1, <1>2, <2>1
  <2>3. InGtestBlock(longer, n, j)
    BY <1>3, <2>2 DEF InGtestBlock
  <2> QED  BY <2>1, <2>3
<1> QED  BY <1>3, <1>4, <1>5 DEF GtestAt

LEMMA GoesOnMore ==
  ASSUME NEW longer, NEW lines, NEW line, Extends(longer, lines, line), NEW j \in DOMAIN lines,
         GtestGoesOn(lines, j), line.gtest_run = 0, ~line.gtest_failure
  PROVE  GtestGoesOn(longer, j)
PROOF
<1>1. /\ Len(lines) \in Nat /\ DOMAIN lines = 1..Len(lines)
      /\ Len(longer) = Len(lines) + 1 /\ longer[Len(lines) + 1] = line
      /\ \A i \in 1..Len(lines) : longer[i] = lines[i]
  BY DEF Extends
<1> DEFINE n == Len(lines)
<1> HIDE DEF n
<1>2. \A m \in (j + 1)..(n + 1) : m = n + 1 \/ (m \in (j + 1)..n /\ m \in 1..n)
  <2>1. j \in 1..n /\ n \in Nat
    BY <1>1 DEF n
  <2> QED  BY <2>1
<1>3. \A m \in (j + 1)..n : lines[m].gtest_run = 0 /\ ~lines[m].gtest_failure
  BY DEF GtestGoesOn, n
<1>4. \A m \in (j + 1)..(n + 1) : longer[m].gtest_run = 0 /\ ~longer[m].gtest_failure
  BY <1>1, <1>2, <1>3 DEF n
<1> QED  BY <1>1, <1>4 DEF GtestGoesOn, n

(* The last line, with no mark of another block, is in the block.          *)
LEMMA LastInBlock ==
  ASSUME NEW longer, NEW lines, NEW line, Extends(longer, lines, line), NEW j \in DOMAIN lines,
         GtestGoesOn(longer, j), lines[j].gtest_failure
  PROVE  line.text \in GtestTexts(longer, j)
PROOF
<1> DEFINE n == Len(lines) + 1
<1>1. /\ n \in DOMAIN longer /\ longer[n] = line /\ Len(longer) = n
      /\ j < n /\ longer[j] = lines[j]
  BY DEF Extends
<1> HIDE DEF n
<1>2. InGtestBlock(longer, n, j)
  BY <1>1 DEF InGtestBlock, GtestGoesOn
<1> QED  BY <1>1, <1>2 DEF GtestTexts

LEMMA NotByGo ==
  ASSUME NEW acc, Consistent(acc), acc.go_running_name = 0, NEW line, ~IsGo(line)
  PROVE  ~TakenByGo(acc, line) /\ GoNames(acc, line) = {<<0, 0>>}
PROOF
<1>1. acc.go_panic_name = 0 /\ GoName(acc) = 0
  BY DEF Consistent, GoName
<1>2. line.go_run = 0 /\ line.go_fail = 0
  BY DEF IsGo, GoNameIn
<1> QED  BY <1>1, <1>2 DEF TakenByGo, TakesGoDetail, TriesGoDetail, GoNames

LEMMA GtestTextEvidence ==
  ASSUME NEW block \in GtestBlockType, NEW line \in LineType
  PROVE  LET before == GtestEvidence(block)
             after == GtestEvidence(NextGtestText(block, line))
         IN  /\ after.name = before.name /\ after.location = before.location
             /\ Said(after) \subseteq Said(before) \cup {line.text}
PROOF
<1> DEFINE next == NextGtestText(block, line)
           more == Append(block.details, line.text)
<1>1. block.details \in AtMost(Texts, MaxGtestDetails) /\ line.text \in Texts
  BY DEF GtestBlockType, LineType
<1>2. CASE Len(block.details) >= MaxGtestDetails \/ line.gtest_status
  <2>1. next = block
    BY <1>2 DEF NextGtestText
  <2> QED  BY <2>1
<1>3. CASE ~(Len(block.details) >= MaxGtestDetails \/ line.gtest_status)
  <2>1. Range(more) = Range(block.details) \cup {line.text}
    BY <1>1, <1>3, LimitsNat, AppendAtMost
  <2>2. next = [block EXCEPT !.details = more]
    BY <1>3 DEF NextGtestText
  <2> HIDE DEF more, next
  <2>3. next.name = block.name /\ next.location = block.location /\ next.details = more
    BY <2>2 DEF GtestBlockType
  <2>4. /\ GtestEvidence(next).name = next.name /\ GtestEvidence(next).location = next.location
        /\ GtestEvidence(next).reason = 0 /\ GtestEvidence(next).details = next.details
        /\ GtestEvidence(block).name = block.name
        /\ GtestEvidence(block).location = block.location
        /\ GtestEvidence(block).reason = 0 /\ GtestEvidence(block).details = block.details
    BY DEF GtestEvidence
  <2>5. /\ GtestEvidence(next).name = GtestEvidence(block).name
        /\ GtestEvidence(next).location = GtestEvidence(block).location
        /\ Said(GtestEvidence(next)) \subseteq Said(GtestEvidence(block)) \cup {line.text}
    BY <2>1, <2>3, <2>4 DEF Said
  <2> QED  BY <2>5 DEF next
<1> QED  BY <1>2, <1>3

LEMMA GtestNowNext ==
  ASSUME NEW acc, Sound(acc), NEW lines, NEW line \in LineType, NEW longer,
         Extends(longer, lines, line), NoGo(longer), GtestNow(acc, lines),
         NEW next, GoNamesStep(next, acc, line), Blocks(next, acc, line)
  PROVE  GtestNow(next, longer)
PROOF
<1> DEFINE n == Len(lines)
           block == acc.gtest_current
<1>1. acc \in AccType /\ Consistent(acc) /\ ~IsGo(line) /\ acc.go_running_name = 0
  BY WithoutLonger DEF Sound, GtestNow
<1>2. ~TakenByGo(acc, line) /\ next.go_running_name = 0
  <2>1. ~TakenByGo(acc, line) /\ GoNames(acc, line) = {<<0, 0>>}
    BY <1>1, NotByGo
  <2> QED  BY <2>1 DEF GoNamesStep
<1>3. /\ n \in Nat /\ Len(longer) = n + 1 /\ DOMAIN lines = 1..n
      /\ DOMAIN longer = 1..(n + 1) /\ longer[n + 1] = line
  BY DEF Extends
<1>4. GtestTestAt(longer, n + 1) = IF line.gtest_run # 0 THEN Bounded[line.gtest_run]
                                   ELSE GtestTestAt(lines, n)
  BY TestsNext
<1>5. acc.gtest_running_name \in {0, GtestTestAt(lines, n)}
  BY DEF GtestNow
<1>6. block \in GtestBlockType
  BY <1>1 DEF AccType
<1>7. block.name # 0 => \E j \in DOMAIN lines : /\ GtestAt(lines, j, GtestEvidence(block))
                                                /\ GtestGoesOn(lines, j)
  BY DEF GtestNow
<1> HIDE DEF n
(* A block that goes on. *)
<1>8. ASSUME line.gtest_run = 0, ~line.gtest_failure, block.name # 0
      PROVE  \E j \in DOMAIN longer : /\ GtestAt(longer, j, GtestEvidence(block))
                                      /\ GtestGoesOn(longer, j)
                                      /\ line.text \in GtestTexts(longer, j)
  <2>1. PICK j \in DOMAIN lines : GtestAt(lines, j, GtestEvidence(block)) /\ GtestGoesOn(lines, j)
    BY <1>7, <1>8
  <2>2. GtestAt(longer, j, GtestEvidence(block))
    BY <2>1, GtestAtGrows
  <2>3. GtestGoesOn(longer, j)
    BY <1>8, <2>1, GoesOnMore
  <2>4. line.text \in GtestTexts(longer, j)
    BY <2>1, <2>3, LastInBlock DEF GtestAt
  <2>5. j \in DOMAIN longer
    BY <2>2 DEF GtestAt
  <2> QED  BY <2>2, <2>3, <2>4, <2>5
<1> DEFINE Running == next.gtest_running_name \in {0, GtestTestAt(longer, n + 1)}
           Open == next.gtest_current.name # 0 =>
                     \E j \in DOMAIN longer : /\ GtestAt(longer, j, GtestEvidence(next.gtest_current))
                                              /\ GtestGoesOn(longer, j)
<1>9. CASE TakenByGtest(acc, line)
  <2>1. /\ next.gtest_running_name = NextGtestRunning(acc, line)
        /\ next.gtest_current = NextGtestBlock(acc, line)
    BY <1>2, <1>9 DEF Blocks, GtestBlocks
  <2>2. Running
    BY <1>4, <1>5, <2>1 DEF NextGtestRunning
  <2>3. NoGtestBlock.name = 0
    BY DEF NoGtestBlock
  <2>5. CASE line.gtest_run = 0 /\ line.gtest_failure
    <3> DEFINE fresh == NewGtestBlock(acc.gtest_running_name, line)
               name == IF acc.gtest_running_name = 0 THEN UnknownGtest ELSE acc.gtest_running_name
               place == line.gtest_place
    <3>1. next.gtest_current = fresh
      BY <2>1, <2>5 DEF NextGtestBlock
    <3>2. name \in {GtestTestAt(longer, n + 1), UnknownGtest}
      BY <1>4, <1>5, <2>5
    <3>3. fresh = [NoGtestBlock EXCEPT !.name = name, !.location = place]
      BY DEF NewGtestBlock
    <3> HIDE DEF name, place
    <3>4. fresh.name = name /\ fresh.location = place /\ fresh.details = <<>>
      BY <3>3 DEF NoGtestBlock
    <3> HIDE DEF fresh
    <3>5. /\ GtestEvidence(fresh).name = name /\ GtestEvidence(fresh).location = place
          /\ GtestEvidence(fresh).reason = 0 /\ GtestEvidence(fresh).details = <<>>
      BY <3>4 DEF GtestEvidence
    <3>6. Said(GtestEvidence(fresh)) = {}
      BY <3>5 DEF Said, Range
    <3>7. n + 1 \in DOMAIN longer
      BY <1>3
    <3>8. GtestAt(longer, n + 1, GtestEvidence(fresh))
      BY <1>3, <2>5, <3>2, <3>5, <3>6, <3>7 DEF GtestAt, place
    <3>9. GtestGoesOn(longer, n + 1)
      <4>1. \A m \in ((n + 1) + 1)..(n + 1) : FALSE
        BY <1>3
      <4> QED  BY <1>3, <4>1 DEF GtestGoesOn
    <3>10. Open
      BY <3>1, <3>7, <3>8, <3>9
    <3> QED  BY <1>2, <1>3, <2>2, <3>10 DEF GtestNow
  <2>6. CASE line.gtest_run = 0 /\ ~line.gtest_failure /\ line.gtest_failed # 0
    <3>1. next.gtest_current \in {block, NoGtestBlock}
      BY <2>1, <2>6 DEF NextGtestBlock
    <3> HIDE DEF block
    <3>2. Open
      BY <1>8, <2>3, <2>6, <3>1
    <3> QED  BY <1>2, <1>3, <2>2, <3>2 DEF GtestNow
  <2>7. CASE line.gtest_run = 0 /\ ~line.gtest_failure /\ line.gtest_failed = 0
    <3> DEFINE told == NextGtestText(block, line)
    <3>1. block.name # 0 /\ next.gtest_current = told
      BY <1>9, <2>1, <2>7 DEF NextGtestBlock, TakenByGtest
    <3>2. PICK j \in DOMAIN longer : /\ GtestAt(longer, j, GtestEvidence(block))
                                     /\ GtestGoesOn(longer, j)
                                     /\ line.text \in GtestTexts(longer, j)
      BY <1>8, <2>7, <3>1
    <3>3. /\ GtestEvidence(told).name = GtestEvidence(block).name
          /\ GtestEvidence(told).location = GtestEvidence(block).location
          /\ Said(GtestEvidence(told)) \subseteq Said(GtestEvidence(block)) \cup {line.text}
      BY <1>6, GtestTextEvidence
    <3> HIDE DEF told, block
    <3>4. GtestAt(longer, j, GtestEvidence(told))
      BY <3>2, <3>3 DEF GtestAt
    <3>5. Open
      BY <3>1, <3>2, <3>4
    <3> QED  BY <1>2, <1>3, <2>2, <3>5 DEF GtestNow
  <2>8. CASE line.gtest_run # 0
    <3>1. Open
      BY <2>1, <2>3, <2>8 DEF NextGtestBlock
    <3> QED  BY <1>2, <1>3, <2>2, <3>1 DEF GtestNow
  <2> QED  BY <2>5, <2>6, <2>7, <2>8
<1>10. CASE ~TakenByGtest(acc, line)
  <2>1. next.gtest_running_name = acc.gtest_running_name /\ next.gtest_current = block
    BY <1>2, <1>10 DEF Blocks, RustBlocks
  <2>2. line.gtest_run = 0 /\ block.name = 0
    BY <1>10 DEF TakenByGtest
  <2>3. Running /\ Open
    BY <1>4, <1>5, <2>1, <2>2
  <2> QED  BY <1>2, <1>3, <2>3 DEF GtestNow
<1> QED  BY <1>9, <1>10

----------------------------------------------------------------------------
(* libtest's failures are evidenced by the lines *)

RustOwn(lines, name) == {i \in DOMAIN lines : RustTestAt(lines, i) = name}
RustTexts(lines, own) == {lines[i].text : i \in own}
RustPlaces(lines, own) == {0} \cup {lines[i].rust_place : i \in own}

RustFrom(lines, own, block) ==
  /\ own # {}
  /\ block.location \in RustPlaces(lines, own)
  /\ RustReason(block) \in {0} \cup RustTexts(lines, own)
  /\ Range(block.details) \subseteq RustTexts(lines, own)

StatusNoted(lines, name) ==
  \E i \in DOMAIN lines : lines[i].rust_failed # 0 /\ Bounded[lines[i].rust_failed] = name

RustNow(acc, lines) ==
  /\ acc.gtest_current.name = 0
  /\ LET block == acc.current
     IN  block.name # 0 =>
           /\ RustTestAt(lines, Len(lines)) = block.name
           /\ Bounded[block.name] = block.name
           /\ RustFrom(lines, RustOwn(lines, block.name), block)
  /\ \A name \in Range(acc.failed_names) : StatusNoted(lines, name)

(* Neither the marks of GoogleTest are those of libtest.                   *)
Unmixed(line) ==
  line.gtest_run # 0 \/ line.gtest_failed # 0 =>
    line.rust_failed = 0 /\ line.rust_block = 0 /\ line.rust_panic = 0 /\ ~line.heading
FormatLine == {line \in LineType : Unmixed(line)}

LEMMA RustOwnGrows ==
  ASSUME NEW longer, NEW lines, NEW line, Extends(longer, lines, line), NEW name
  PROVE  Within(lines, RustOwn(lines, name), longer, RustOwn(longer, name))
PROOF
<1> SUFFICES ASSUME NEW i \in RustOwn(lines, name)
             PROVE  i \in RustOwn(longer, name) /\ longer[i] = lines[i]
  BY DEF Within
<1>1. /\ Len(lines) \in Nat /\ DOMAIN lines = 1..Len(lines)
      /\ DOMAIN longer = 1..(Len(lines) + 1)
      /\ \A j \in 1..Len(lines) : longer[j] = lines[j]
  BY DEF Extends
<1>2. i \in 1..Len(lines) /\ RustTestAt(lines, i) = name
  BY <1>1 DEF RustOwn
<1>3. i \in 0..Len(lines) /\ i \in 1..(Len(lines) + 1)
  BY <1>1, <1>2
<1>4. RustTestAt(longer, i) = name
  BY <1>2, <1>3, TestsStay
<1> QED  BY <1>1, <1>2, <1>3, <1>4 DEF RustOwn

LEMMA RustFromGrows ==
  ASSUME NEW lines, NEW own, NEW longer, NEW own2, Within(lines, own, longer, own2),
         NEW block, RustFrom(lines, own, block)
  PROVE  RustFrom(longer, own2, block)
PROOF
<1>1. RustTexts(lines, own) \subseteq RustTexts(longer, own2)
  BY DEF RustTexts, Within
<1>2. RustPlaces(lines, own) \subseteq RustPlaces(longer, own2)
  BY DEF RustPlaces, Within
<1>3. own2 # {}
  BY DEF RustFrom, Within
<1> QED  BY <1>1, <1>2, <1>3 DEF RustFrom

LEMMA NotedGrows ==
  ASSUME NEW longer, NEW lines, NEW line, Extends(longer, lines, line), NEW name
  PROVE  /\ StatusNoted(lines, name) => StatusNoted(longer, name)
         /\ line.rust_failed # 0 => StatusNoted(longer, Bounded[line.rust_failed])
PROOF
<1>1. /\ Len(lines) \in Nat /\ DOMAIN lines = 1..Len(lines)
      /\ DOMAIN longer = 1..(Len(lines) + 1) /\ longer[Len(lines) + 1] = line
      /\ \A i \in 1..Len(lines) : longer[i] = lines[i]
  BY DEF Extends
<1>2. /\ Len(lines) + 1 \in DOMAIN longer
      /\ \A i \in DOMAIN lines : i \in DOMAIN longer /\ longer[i] = lines[i]
  BY <1>1
<1> QED  BY <1>1, <1>2 DEF StatusNoted

LEMMA RustTextFrom ==
  ASSUME NEW block \in RustBlockType, NEW lines, NEW own, NEW line \in LineType,
         RustFrom(lines, own, block), line.text \in RustTexts(lines, own)
  PROVE  /\ RustFrom(lines, own, NextRustText(block, line))
         /\ NextRustText(block, line).name = block.name
PROOF
<1> DEFINE next == NextRustText(block, line)
           more == Append(block.details, line.text)
           text == line.text
           details == AtMost(Texts, MaxRustDetails)
<1>1. text \in Texts /\ block.details \in details
  BY DEF LineType, RustBlockType
<1>2. block \in [name : OptionalNames, location : OptionalPlaces, assertion : OptionalTexts,
                 panic_message : OptionalTexts, details : details, saw_panic : BOOLEAN]
  BY DEF RustBlockType
<1>3. ~(Len(block.details) >= MaxRustDetails) => Range(more) = Range(block.details) \cup {text}
  BY <1>1, LimitsNat, AppendAtMost
<1> DEFINE full == Len(block.details) >= MaxRustDetails
<1>4. \/ next = block
      \/ next = [block EXCEPT !.assertion = text]
      \/ next = [block EXCEPT !.panic_message = text]
      \/ ~full /\ next = [block EXCEPT !.details = more]
  BY DEF NextRustText
<1>5. ~full => Range(more) = Range(block.details) \cup {text}
  BY <1>3
<1> HIDE DEF next, more, text, details, full
<1>6. CASE next = block
  BY <1>6 DEF next
<1>7. CASE next = [block EXCEPT !.assertion = text] \/ next = [block EXCEPT !.panic_message = text]
  <2>1. /\ next.name = block.name /\ next.location = block.location
        /\ next.details = block.details
        /\ next.assertion \in {block.assertion, text}
        /\ next.panic_message \in {block.panic_message, text}
        /\ next.assertion = text \/ next.assertion = block.assertion
    BY <1>2, <1>7
  <2>2. RustReason(next) \in {RustReason(block), text, 0}
    <3>1. CASE next = [block EXCEPT !.assertion = text]
      <4>1. next.assertion = text /\ next.panic_message = block.panic_message
        BY <1>2, <3>1
      <4>2. text # 0
        BY <1>1, TestFailuresAssumption
      <4> QED  BY <4>1, <4>2 DEF RustReason
    <3>2. CASE next = [block EXCEPT !.panic_message = text]
      <4>1. next.assertion = block.assertion /\ next.panic_message = text
        BY <1>2, <3>2
      <4> QED  BY <4>1 DEF RustReason
    <3> QED  BY <1>7, <3>1, <3>2
  <2>3. RustFrom(lines, own, next)
    BY <2>1, <2>2 DEF RustFrom, text
  <2> QED  BY <2>1, <2>3 DEF next
<1>8. CASE ~full /\ next = [block EXCEPT !.details = more]
  <2>1. /\ next.name = block.name /\ next.location = block.location
        /\ next.details = more
        /\ next.assertion = block.assertion /\ next.panic_message = block.panic_message
    BY <1>2, <1>8
  <2>2. RustReason(next) = RustReason(block)
    BY <2>1 DEF RustReason
  <2>3. Range(next.details) \subseteq RustTexts(lines, own)
    BY <1>5, <1>8, <2>1 DEF RustFrom, text
  <2>4. RustFrom(lines, own, next)
    BY <2>1, <2>2, <2>3 DEF RustFrom
  <2> QED  BY <2>1, <2>4 DEF next
<1> QED  BY <1>4, <1>6, <1>7, <1>8

(* The block after a line that only libtest looks at. *)
LEMMA RustBlockNext ==
  ASSUME NEW acc, Sound(acc), NEW lines, NEW line \in LineType, NEW longer,
         Extends(longer, lines, line), RustNow(acc, lines),
         NEW next, next = NextRustBlock(acc.current, line), next.name # 0
  PROVE  /\ RustTestAt(longer, Len(longer)) = next.name
         /\ Bounded[next.name] = next.name
         /\ RustFrom(longer, RustOwn(longer, next.name), next)
PROOF
<1> DEFINE n == Len(lines)
           block == acc.current
           own == RustOwn(longer, next.name)
<1>1. /\ n \in Nat /\ Len(longer) = n + 1 /\ n + 1 \in DOMAIN longer /\ longer[n + 1] = line
  BY DEF Extends
<1>2. RustTestAt(longer, n + 1) = IF RustNameIn(line) # 0 THEN Bounded[RustNameIn(line)]
                                  ELSE IF line.heading THEN 0 ELSE RustTestAt(lines, n)
  BY TestsNext
<1>3. block \in RustBlockType /\ (block.name = 0 => block = NoRustBlock)
  BY DEF Sound, AccType, Consistent
<1>4. NoRustBlock \in RustBlockType /\ NoRustBlock.name = 0 /\ NoRustBlock.location = 0
      /\ RustReason(NoRustBlock) = 0 /\ Range(NoRustBlock.details) = {}
  <2>1. NoRustBlock.name = 0 /\ NoRustBlock.location = 0 /\ NoRustBlock.assertion = 0
        /\ NoRustBlock.panic_message = 0 /\ NoRustBlock.details = <<>>
    BY DEF NoRustBlock
  <2> QED  BY <2>1, NoBlocksType DEF RustReason, Range
<1>5. block.name # 0 => /\ RustTestAt(lines, n) = block.name
                        /\ Bounded[block.name] = block.name
                        /\ RustFrom(lines, RustOwn(lines, block.name), block)
  BY DEF RustNow
<1>6. block.name # 0 => RustFrom(longer, RustOwn(longer, block.name), block)
  <2>1. Within(lines, RustOwn(lines, block.name), longer, RustOwn(longer, block.name))
    BY RustOwnGrows
  <2> HIDE DEF block
  <2> QED  BY <1>5, <2>1, RustFromGrows
<1>7. ASSUME NEW name, RustTestAt(longer, n + 1) = name
      PROVE  /\ RustOwn(longer, name) # {}
             /\ line.text \in RustTexts(longer, RustOwn(longer, name))
             /\ line.rust_place \in RustPlaces(longer, RustOwn(longer, name))
  <2>1. n + 1 \in RustOwn(longer, name)
    BY <1>1, <1>7 DEF RustOwn
  <2> QED  BY <1>1, <2>1 DEF RustTexts, RustPlaces
<1> HIDE DEF n
<1>8. CASE line.rust_block # 0
  <2> DEFINE name == Bounded[line.rust_block]
  <2>1. next = [NoRustBlock EXCEPT !.name = name]
    BY <1>8 DEF NextRustBlock
  <2>2. name \in Names /\ Bounded[name] = name
    <3>1. line.rust_block \in Names
      BY <1>8 DEF LineType, OptionalNames
    <3> QED  BY <3>1, TestFailuresAssumption
  <2>3. RustTestAt(longer, n + 1) = name
    BY <1>2, <1>8 DEF RustNameIn
  <2> HIDE DEF name, own
  <2>4. /\ next.name = name /\ next.location = 0
        /\ next.details = NoRustBlock.details /\ RustReason(next) = 0
    <3>1. next.name = name /\ next.location = NoRustBlock.location
          /\ next.details = NoRustBlock.details
          /\ next.assertion = NoRustBlock.assertion
          /\ next.panic_message = NoRustBlock.panic_message
      BY <1>4, <2>1 DEF RustBlockType
    <3>2. RustReason(next) = RustReason(NoRustBlock)
      BY <3>1 DEF RustReason
    <3> QED  BY <1>4, <3>1, <3>2
  <2>5. RustFrom(longer, own, next)
    BY <1>4, <1>7, <2>3, <2>4 DEF RustFrom, RustPlaces, own
  <2> QED  BY <1>1, <2>2, <2>3, <2>4, <2>5 DEF own
<1>9. CASE line.rust_block = 0 /\ line.rust_panic # 0
  <2> DEFINE name == Bounded[line.rust_panic]
             inner == IF IsOther(block, line) THEN NoRustBlock ELSE block
             place == line.rust_place
  <2>1. next = [inner EXCEPT !.name = name, !.location = place, !.saw_panic = TRUE]
    BY <1>9 DEF NextRustBlock
  <2>2. name \in Names /\ Bounded[name] = name
    <3>1. line.rust_panic \in Names
      BY <1>9 DEF LineType, OptionalNames
    <3> QED  BY <3>1, TestFailuresAssumption
  <2>3. RustTestAt(longer, n + 1) = name
    BY <1>2, <1>9 DEF RustNameIn
  <2>4. inner \in RustBlockType
    BY <1>3, <1>4
  <2>5. /\ RustReason(inner) \in {0} \cup RustTexts(longer, RustOwn(longer, name))
        /\ Range(inner.details) \subseteq RustTexts(longer, RustOwn(longer, name))
    <3>1. CASE inner = NoRustBlock
      BY <1>4, <3>1
    <3>2. CASE inner # NoRustBlock
      <4>1. inner = block /\ block.name # 0 /\ block.name = line.rust_panic
        BY <1>3, <3>2 DEF IsOther
      <4>2. block.name = name
        BY <1>5, <4>1
      <4> QED  BY <1>6, <4>1, <4>2 DEF RustFrom
    <3> QED  BY <3>1, <3>2
  <2> HIDE DEF name, own, inner, place
  <2>6. /\ next.name = name /\ next.location = place
        /\ next.details = inner.details /\ RustReason(next) = RustReason(inner)
    <3>1. next.name = name /\ next.location = place
          /\ next.details = inner.details
          /\ next.assertion = inner.assertion
          /\ next.panic_message = inner.panic_message
      BY <2>1, <2>4 DEF RustBlockType
    <3>2. RustReason(next) = RustReason(inner)
      BY <3>1 DEF RustReason
    <3> QED  BY <3>1, <3>2
  <2>7. RustFrom(longer, own, next)
    BY <1>7, <2>3, <2>5, <2>6 DEF RustFrom, own, place
  <2> QED  BY <1>1, <2>2, <2>3, <2>6, <2>7 DEF own
<1>10. CASE line.rust_block = 0 /\ line.rust_panic = 0
  <2>1. ~line.heading /\ block.name # 0 /\ next = NextRustText(block, line)
    BY <1>4, <1>10 DEF NextRustBlock
  <2>2. RustTestAt(longer, n + 1) = block.name
    BY <1>2, <1>5, <1>10, <2>1 DEF RustNameIn
  <2> DEFINE same == RustOwn(longer, block.name)
  <2>3. RustFrom(longer, same, block) /\ line.text \in RustTexts(longer, same)
    BY <1>6, <1>7, <2>1, <2>2
  <2> HIDE DEF same, block, own
  <2>4. RustFrom(longer, same, next) /\ next.name = block.name
    BY <1>3, <2>1, <2>3, RustTextFrom
  <2> QED  BY <1>1, <1>5, <2>1, <2>2, <2>4 DEF same
<1> QED  BY <1>8, <1>9, <1>10

LEMMA RustNowNext ==
  ASSUME NEW acc, Sound(acc), NEW lines, NEW line \in FormatLine, NEW longer,
         Extends(longer, lines, line), NoGo(longer), NoGtestFailure(longer),
         GtestNow(acc, lines), RustNow(acc, lines),
         NEW next, Blocks(next, acc, line)
  PROVE  RustNow(next, longer)
PROOF
<1> DEFINE n == Len(lines)
<1>1. acc \in AccType /\ Consistent(acc) /\ ~IsGo(line) /\ acc.go_running_name = 0
      /\ ~line.gtest_failure
  BY WithoutLonger DEF Sound, GtestNow
<1>2. ~TakenByGo(acc, line)
  BY <1>1, NotByGo
<1>3. Len(longer) = n + 1
  BY DEF Extends
<1>4. line \in LineType /\ Unmixed(line) /\ acc.gtest_current.name = 0
  BY DEF FormatLine, RustNow
<1>5. \A name \in Range(acc.failed_names) : StatusNoted(longer, name)
  BY NotedGrows DEF RustNow
<1>6. CASE TakenByGtest(acc, line)
  <2>1. /\ next.failed_names = acc.failed_names /\ next.current = acc.current
        /\ next.gtest_current = NextGtestBlock(acc, line)
    BY <1>2, <1>6 DEF Blocks, GtestBlocks
  <2>2. line.gtest_run # 0 \/ line.gtest_failed # 0
    BY <1>1, <1>4, <1>6 DEF TakenByGtest
  <2>3. RustNameIn(line) = 0 /\ ~line.heading
    BY <1>4, <2>2 DEF Unmixed, RustNameIn
  <2>4. next.gtest_current.name = 0
    BY <1>1, <1>4, <2>1, <2>2 DEF NextGtestBlock, NoGtestBlock
  <2>5. RustTestAt(longer, n + 1) = RustTestAt(lines, n)
    BY <2>3, TestsNext
  <2> DEFINE block == acc.current
  <2>6. block.name # 0 => /\ RustTestAt(lines, n) = block.name
                          /\ Bounded[block.name] = block.name
                          /\ RustFrom(lines, RustOwn(lines, block.name), block)
    BY DEF RustNow
  <2>7. Within(lines, RustOwn(lines, block.name), longer, RustOwn(longer, block.name))
    BY RustOwnGrows
  <2>8. block.name # 0 => RustFrom(longer, RustOwn(longer, block.name), block)
    BY <2>6, <2>7, RustFromGrows
  <2> QED  BY <1>3, <1>5, <2>1, <2>4, <2>5, <2>6, <2>8 DEF RustNow
<1>7. CASE ~TakenByGtest(acc, line)
  <2>1. /\ next.failed_names = NextRustNames(acc, line)
        /\ next.current = NextRustBlock(acc.current, line)
        /\ next.gtest_current = acc.gtest_current
    BY <1>2, <1>7 DEF Blocks, RustBlocks
  <2>2. \A name \in Range(next.failed_names) : StatusNoted(longer, name)
    <3>1. CASE line.rust_failed = 0
      BY <1>5, <2>1, <3>1 DEF NextRustNames
    <3>2. CASE line.rust_failed # 0
      <4> DEFINE name == Bounded[line.rust_failed]
      <4>1. name \in Names /\ StatusNoted(longer, name)
        BY <1>4, <3>2, BoundedName, NotedGrows DEF LineType, OptionalNames
      <4>2. next.failed_names = PushUnique(acc.failed_names, name, MaxLogFailures)
        BY <2>1, <3>2 DEF NextRustNames
      <4>3. acc.failed_names \in AtMost(Names, MaxLogFailures)
        BY <1>1 DEF AccType
      <4> HIDE DEF name
      <4>4. Range(next.failed_names) \subseteq Range(acc.failed_names) \cup {name}
        BY <4>1, <4>2, <4>3, LimitsNat, PushUniqueProperties
      <4> QED  BY <1>5, <4>1, <4>4
    <3> QED  BY <3>1, <3>2
  <2>3. next.current.name # 0 =>
          /\ RustTestAt(longer, Len(longer)) = next.current.name
          /\ Bounded[next.current.name] = next.current.name
          /\ RustFrom(longer, RustOwn(longer, next.current.name), next.current)
    BY <1>4, <2>1, RustBlockNext
  <2> QED  BY <1>4, <2>1, <2>2, <2>3 DEF RustNow
<1> QED  BY <1>6, <1>7

LEMMA RustBlockEvidenced ==
  ASSUME NEW lines, NEW block, RustFrom(lines, RustOwn(lines, block.name), block)
  PROVE  RustEvidenced(lines, RustEvidence(block))
PROOF
<1> DEFINE own == RustOwn(lines, block.name)
           failure == RustEvidence(block)
<1>1. /\ failure.name = block.name /\ failure.location = block.location
      /\ failure.reason = RustReason(block) /\ failure.details = block.details
  BY DEF RustEvidence
<1>2. own = {i \in DOMAIN lines : RustTestAt(lines, i) = failure.name}
  BY <1>1 DEF RustOwn
<1>3. RustFrom(lines, own, block)
  OBVIOUS
<1> HIDE DEF own, failure
<1>4. Said(failure) \subseteq {lines[i].text : i \in own}
  BY <1>1, <1>3 DEF Said, RustFrom, RustTexts
<1>5. failure.location \in {0} \cup {lines[i].rust_place : i \in own}
  BY <1>1, <1>3 DEF RustFrom, RustPlaces
<1>6. RustEvidenced(lines, failure)
  BY <1>2, <1>3, <1>4, <1>5 DEF RustEvidenced, RustFrom
<1> QED  BY <1>6 DEF failure

LEMMA StatusEvidenced ==
  ASSUME NEW lines, NEW name, StatusNoted(lines, name)
  PROVE  RustEvidenced(lines, StatusOnly(name))
PROOF
<1> DEFINE failure == StatusOnly(name)
<1>1. /\ failure.name = name /\ failure.location = 0
      /\ failure.reason = 0 /\ failure.details = <<>>
  BY DEF StatusOnly
<1> HIDE DEF failure
<1>2. Said(failure) = {}
  BY <1>1 DEF Said, Range
<1>3. RustEvidenced(lines, failure)
  BY <1>1, <1>2 DEF RustEvidenced, StatusNoted
<1> QED  BY <1>3 DEF failure

----------------------------------------------------------------------------
(* All that is kept is evidenced by the lines *)

FailuresOf(lines) ==
  {failure \in FailureType :
     /\ failure.kind = "go" => GoEvidenced(lines, failure)
     /\ failure.kind = "gtest" /\ NoGo(lines) => GtestEvidenced(lines, failure)
     /\ failure.kind = "rust" /\ NoGo(lines) /\ NoGtestFailure(lines)
          => RustEvidenced(lines, failure)}

Evidenced(acc, lines) ==
  /\ acc.go_blocks \in AtMost(GoBlocksOf(lines), MaxGoBlocks)
  /\ acc.failures \in AtMost(FailuresOf(lines), MaxLogFailures)
  /\ GoNow(acc, lines)
  /\ NoGo(lines) => GtestNow(acc, lines)
  /\ NoGo(lines) /\ NoGtestFailure(lines) => RustNow(acc, lines)

LEMMA AtMostGrows ==
  ASSUME NEW S, NEW T, S \subseteq T, NEW max, NEW s \in AtMost(S, max)
  PROVE  s \in AtMost(T, max)
PROOF
  BY DEF AtMost

LEMMA GoEvidencedGrows ==
  ASSUME NEW longer, NEW lines, NEW line, Extends(longer, lines, line), NEW failure,
         GoEvidenced(lines, failure)
  PROVE  GoEvidenced(longer, failure)
PROOF
<1> DEFINE own == GoOwn(lines, failure.name)
           own2 == GoOwn(longer, failure.name)
<1>1. Within(lines, own, longer, own2)
  BY GoOwnGrows
<1>2. /\ own = {i \in DOMAIN lines : GoTestAt(lines, i) = failure.name}
      /\ own2 = {i \in DOMAIN longer : GoTestAt(longer, i) = failure.name}
  BY DEF GoOwn
<1> HIDE DEF own, own2
<1>3. /\ \E i \in own : lines[i].go_fail # 0
      /\ failure.location \in {0} \cup {lines[i].go_place : i \in own}
      /\ Said(failure) \subseteq GoTexts(lines, own)
      /\ failure.panicked => \E i \in own : lines[i].go_panic = failure.reason
  BY <1>2 DEF GoEvidenced, GoTexts
<1>4. GoTexts(lines, own) \subseteq GoTexts(longer, own2)
  BY <1>1, GoTextsGrow
<1>5. /\ \E i \in own2 : longer[i].go_fail # 0
      /\ failure.location \in {0} \cup {longer[i].go_place : i \in own2}
      /\ failure.panicked => \E i \in own2 : longer[i].go_panic = failure.reason
  BY <1>1, <1>3 DEF Within
<1>6. Said(failure) \subseteq GoTexts(longer, own2)
  BY <1>3, <1>4
<1> QED  BY <1>2, <1>5, <1>6 DEF GoEvidenced, GoTexts

LEMMA RustEvidencedGrows ==
  ASSUME NEW longer, NEW lines, NEW line, Extends(longer, lines, line), NEW failure,
         RustEvidenced(lines, failure)
  PROVE  RustEvidenced(longer, failure)
PROOF
<1> DEFINE own == RustOwn(lines, failure.name)
           own2 == RustOwn(longer, failure.name)
<1>1. Within(lines, own, longer, own2)
  BY RustOwnGrows
<1>2. /\ own = {i \in DOMAIN lines : RustTestAt(lines, i) = failure.name}
      /\ own2 = {i \in DOMAIN longer : RustTestAt(longer, i) = failure.name}
  BY DEF RustOwn
<1> HIDE DEF own, own2
<1>3. /\ own # {} \/ StatusNoted(lines, failure.name)
      /\ failure.location \in {0} \cup {lines[i].rust_place : i \in own}
      /\ Said(failure) \subseteq {lines[i].text : i \in own}
  BY <1>2 DEF RustEvidenced, StatusNoted
<1>4. StatusNoted(lines, failure.name) => StatusNoted(longer, failure.name)
  BY NotedGrows
<1>5. /\ own2 # {} \/ StatusNoted(longer, failure.name)
      /\ failure.location \in {0} \cup {longer[i].rust_place : i \in own2}
      /\ Said(failure) \subseteq {longer[i].text : i \in own2}
  BY <1>1, <1>3, <1>4 DEF Within
<1> QED  BY <1>2, <1>5 DEF RustEvidenced, StatusNoted

LEMMA GtestEvidencedAt ==
  ASSUME NEW lines, NEW failure
  PROVE  GtestEvidenced(lines, failure) <=> \E j \in DOMAIN lines : GtestAt(lines, j, failure)
PROOF
  BY DEF GtestEvidenced, GtestAt, GtestTexts

LEMMA FailuresGrow ==
  ASSUME NEW longer, NEW lines, NEW line, Extends(longer, lines, line)
  PROVE  FailuresOf(lines) \subseteq FailuresOf(longer)
PROOF
<1> SUFFICES ASSUME NEW failure \in FailuresOf(lines) PROVE failure \in FailuresOf(longer)
  OBVIOUS
<1>1. /\ NoGo(longer) => NoGo(lines)
      /\ NoGtestFailure(longer) => NoGtestFailure(lines)
  BY WithoutLonger
<1>2. GoEvidenced(lines, failure) => GoEvidenced(longer, failure)
  BY GoEvidencedGrows
<1>3. RustEvidenced(lines, failure) => RustEvidenced(longer, failure)
  BY RustEvidencedGrows
<1>4. GtestEvidenced(lines, failure) => GtestEvidenced(longer, failure)
  <2> SUFFICES ASSUME NEW j \in DOMAIN lines, GtestAt(lines, j, failure)
               PROVE  \E k \in DOMAIN longer : GtestAt(longer, k, failure)
    BY GtestEvidencedAt
  <2>1. GtestAt(longer, j, failure)
    BY GtestAtGrows
  <2> QED  BY <2>1 DEF GtestAt
<1> QED  BY <1>1, <1>2, <1>3, <1>4 DEF FailuresOf, FailureEvidenced

(* The failures that the open blocks may become. *)
LEMMA OpenEvidenced ==
  ASSUME NEW acc \in AccType, NEW lines, Evidenced(acc, lines)
  PROVE  OpenIn(acc, FailuresOf(lines))
PROOF
<1>1. ASSUME acc.gtest_current.name # 0
      PROVE  GtestEvidence(acc.gtest_current) \in FailuresOf(lines)
  <2> DEFINE failure == GtestEvidence(acc.gtest_current)
  <2>1. failure \in FailureType
    BY <1>1, EvidenceType DEF AccType
  <2>2. failure.kind = "gtest"
    BY DEF GtestEvidence
  <2>3. NoGo(lines) => \E j \in DOMAIN lines : GtestAt(lines, j, failure)
    BY <1>1 DEF Evidenced, GtestNow
  <2> HIDE DEF failure
  <2>4. NoGo(lines) => GtestEvidenced(lines, failure)
    BY <2>3, GtestEvidencedAt
  <2>5. failure \in FailuresOf(lines)
    BY <2>1, <2>2, <2>4 DEF FailuresOf
  <2> QED  BY <2>5 DEF failure
<1>2. ASSUME acc.current.name # 0
      PROVE  RustEvidence(acc.current) \in FailuresOf(lines)
  <2> DEFINE block == acc.current
             failure == RustEvidence(block)
  <2>1. failure \in FailureType
    BY <1>2, EvidenceType DEF AccType
  <2>2. failure.kind = "rust"
    BY DEF RustEvidence
  <2>3. NoGo(lines) /\ NoGtestFailure(lines) => RustFrom(lines, RustOwn(lines, block.name), block)
    BY <1>2 DEF Evidenced, RustNow
  <2>4. NoGo(lines) /\ NoGtestFailure(lines) => RustEvidenced(lines, failure)
    BY <2>3, RustBlockEvidenced
  <2> HIDE DEF failure, block
  <2>5. failure \in FailuresOf(lines)
    BY <2>1, <2>2, <2>4 DEF FailuresOf
  <2> QED  BY <2>5 DEF failure, block
<1> QED  BY <1>1, <1>2 DEF OpenIn

LEMMA OpenMonotone ==
  ASSUME NEW acc, NEW F, NEW F2, F \subseteq F2, OpenIn(acc, F)
  PROVE  OpenIn(acc, F2)
PROOF
  BY DEF OpenIn

LEMMA ObserveEvidenced ==
  ASSUME NEW acc, Sound(acc), NEW lines, Evidenced(acc, lines), NEW line \in FormatLine,
         NEW longer, Extends(longer, lines, line)
  PROVE  Evidenced(ObserveLine(acc, line), longer)
PROOF
<1> DEFINE next == ObserveLine(acc, line)
           G == GoBlocksOf(longer)
           F == FailuresOf(longer)
<1>1. acc \in AccType /\ line \in LineType
  BY DEF Sound, FormatLine
<1>2. GoBlocksOf(lines) \subseteq G /\ FailuresOf(lines) \subseteq F
  BY GoBlocksGrow, FailuresGrow
<1>3. G \in SUBSET GoBlockType /\ F \in SUBSET FailureType
  BY DEF GoBlocksOf, FailuresOf
<1>4. /\ acc.go_blocks \in AtMost(GoBlocksOf(lines), MaxGoBlocks)
      /\ acc.failures \in AtMost(FailuresOf(lines), MaxLogFailures)
      /\ GoNow(acc, lines)
      /\ NoGo(lines) => GtestNow(acc, lines)
      /\ NoGo(lines) /\ NoGtestFailure(lines) => RustNow(acc, lines)
  BY DEF Evidenced
<1> HIDE DEF G, F
<1>5. acc.go_blocks \in AtMost(G, MaxGoBlocks) /\ acc.failures \in AtMost(F, MaxLogFailures)
  BY <1>2, <1>4, AtMostGrows
<1>6. Keeps(acc, G, F)
  BY <1>1, <1>3, <1>5 DEF Keeps
<1>7. OpenIn(acc, F)
  BY <1>1, <1>2, OpenEvidenced, OpenMonotone
<1>8. AdmitsLine(G, acc, line)
  BY <1>1, <1>4, GoAdmits DEF G
<1>9. Keeps(next, G, F) /\ GoNamesStep(next, acc, line) /\ Blocks(next, acc, line)
  BY <1>1, <1>6, <1>7, <1>8, ObserveStep
<1> HIDE DEF next
<1>10. GoNow(next, longer)
  BY <1>1, <1>4, <1>9, GoNowNext
<1>11. NoGo(longer) => NoGo(lines)
  BY WithoutLonger
<1>12. NoGtestFailure(longer) => NoGtestFailure(lines)
  BY WithoutLonger
<1>13. NoGo(longer) => GtestNow(next, longer)
  BY <1>1, <1>4, <1>9, <1>11, GtestNowNext
<1>14. NoGo(longer) /\ NoGtestFailure(longer) => RustNow(next, longer)
  BY <1>4, <1>9, <1>11, <1>12, RustNowNext
<1>15. next.go_blocks \in AtMost(G, MaxGoBlocks) /\ next.failures \in AtMost(F, MaxLogFailures)
  BY <1>9 DEF Keeps
<1>16. Evidenced(next, longer)
  BY <1>10, <1>13, <1>14, <1>15 DEF Evidenced, G, F
<1> QED  BY <1>16 DEF next

(* A line that is not observed because no failure is in progress. *)
LEMMA IdleEvidenced ==
  ASSUME NEW acc, Sound(acc), ~IsActive(acc), NEW lines, Evidenced(acc, lines), NEW line,
         NEW longer, Extends(longer, lines, line)
  PROVE  Evidenced(acc, longer)
PROOF
<1>1. /\ acc.go_running_name = 0 /\ acc.go_panic_name = 0 /\ acc.go_blocks = <<>>
      /\ acc.gtest_running_name = 0 /\ acc.gtest_current.name = 0
      /\ acc.current.name = 0
  BY DEF IsActive
<1>2. acc.failures \in AtMost(FailuresOf(longer), MaxLogFailures)
  BY FailuresGrow, AtMostGrows DEF Evidenced
<1>3. acc.go_blocks \in AtMost(GoBlocksOf(longer), MaxGoBlocks)
  BY <1>1, LimitsNat, EmptyAtMost
<1>4. GoNow(acc, longer)
  BY <1>1 DEF GoNow, GoName
<1>5. GtestNow(acc, longer)
  BY <1>1 DEF GtestNow
<1>6. NoGo(longer) /\ NoGtestFailure(longer) => RustNow(acc, longer)
  <2> SUFFICES ASSUME NoGo(longer), NoGtestFailure(longer) PROVE RustNow(acc, longer)
    OBVIOUS
  <2>1. RustNow(acc, lines)
    BY WithoutLonger DEF Evidenced
  <2>2. \A name \in Range(acc.failed_names) : StatusNoted(longer, name)
    BY <2>1, NotedGrows DEF RustNow
  <2> QED  BY <1>1, <2>2 DEF RustNow
<1> QED  BY <1>2, <1>3, <1>4, <1>5, <1>6 DEF Evidenced

LEMMA NoFailuresEvidenced == Evidenced(NoFailures, <<>>)
PROOF
<1>1. <<>> \in AtMost(GoBlocksOf(<<>>), MaxGoBlocks) /\ <<>> \in AtMost(FailuresOf(<<>>), MaxLogFailures)
  BY LimitsNat, EmptyAtMost
<1>2. GoNow(NoFailures, <<>>)
  BY DEF GoNow, GoName, NoFailures
<1>3. GtestNow(NoFailures, <<>>)
  BY DEF GtestNow, NoFailures, NoGtestBlock
<1>4. RustNow(NoFailures, <<>>)
  BY DEF RustNow, NoFailures, NoRustBlock, NoGtestBlock, Range
<1>5. NoFailures.go_blocks = <<>> /\ NoFailures.failures = <<>>
  BY DEF NoFailures
<1> QED  BY <1>1, <1>2, <1>3, <1>4, <1>5 DEF Evidenced

(* What is known after any lines is evidenced by them.                     *)
LEMMA LinesEvidenced ==
  ASSUME NEW lines \in Seq(FormatLine)
  PROVE  Sound(OfAllLines(lines)) /\ Evidenced(OfAllLines(lines), lines)
PROOF
<1> DEFINE P == {s \in Seq(FormatLine) : Sound(OfAllLines(s)) /\ Evidenced(OfAllLines(s), s)}
<1>1. <<>> \in P
  <2>1. <<>> \in Seq(FormatLine)
    OBVIOUS
  <2> QED  BY <2>1, OfNoLines, NoFailuresSound, NoFailuresEvidenced
<1>2. ASSUME NEW s \in P, NEW line \in FormatLine
      PROVE  Append(s, line) \in P
  <2> DEFINE longer == Append(s, line)
             acc == OfAllLines(s)
  <2>1. s \in Seq(FormatLine) /\ Sound(acc) /\ Evidenced(acc, s)
    OBVIOUS
  <2>2. s \in Seq(LineType) /\ line \in LineType
    BY <2>1 DEF FormatLine
  <2>3. longer \in Seq(FormatLine) /\ Extends(longer, s, line)
    BY <2>1, AppendExtends
  <2>4. OfAllLines(longer) = Shown(acc, line)
    BY <2>2, OfMoreLines
  <2> HIDE DEF longer, acc
  <2>5. Sound(Shown(acc, line))
    BY <2>1, <2>2, ShownSound
  <2>6. Evidenced(Shown(acc, line), longer)
    <3>1. CASE ~IsActive(acc) /\ StartsTrimmed(line) /\ ~line.starts
      BY <2>1, <2>3, <3>1, IdleEvidenced DEF Shown
    <3>2. CASE ~(~IsActive(acc) /\ StartsTrimmed(line) /\ ~line.starts)
      BY <2>1, <2>3, <3>2, ObserveEvidenced DEF Shown
    <3> QED  BY <3>1, <3>2
  <2>7. longer \in P
    BY <2>3, <2>4, <2>5, <2>6
  <2> QED  BY <2>7 DEF longer
<1>3. P \in SUBSET Seq(FormatLine)
  OBVIOUS
<1>4. P = Seq(FormatLine)
  <2> HIDE DEF P
  <2> QED  BY <1>1, <1>2, <1>3, InductionOnSequences
<1> QED  BY <1>4

LEMMA FinishEvidenced ==
  ASSUME NEW lines \in Seq(FormatLine), NEW complete \in BOOLEAN
  PROVE  LET failures == FinishLog(OfAllLines(lines), complete)
         IN  /\ \A i \in DOMAIN failures : failures[i] \in FailuresOf(lines)
             /\ ~complete => failures = <<>>
PROOF
<1> DEFINE acc == OfAllLines(lines)
           G == GoBlocksOf(lines)
           F == FailuresOf(lines)
<1>1. Sound(acc) /\ Evidenced(acc, lines)
  BY LinesEvidenced
<1> HIDE DEF acc
<1>2. acc \in AccType
  BY <1>1 DEF Sound
<1>3. Keeps(acc, G, F)
  <2>1. G \in SUBSET GoBlockType /\ F \in SUBSET FailureType
    BY DEF GoBlocksOf, FailuresOf
  <2> QED  BY <1>1, <1>2, <2>1 DEF Keeps, Evidenced
<1>4. OpenIn(acc, F)
  BY <1>1, <1>2, OpenEvidenced
<1>5. ASSUME NEW block \in G, block.failed
      PROVE  GoEvidence(block) \in F
  <2>1. GoEvidenced(lines, GoEvidence(block))
    BY <1>5, GoBlockEvidenced
  <2>2. GoEvidence(block) \in FailureType /\ GoEvidence(block).kind = "go"
    <3>1. block \in GoBlockType
      BY DEF GoBlocksOf
    <3>2. /\ block.name \in Names /\ block.location \in OptionalPlaces
          /\ block.details \in Seq(Texts)
          /\ block.assertion \in OptionalTexts /\ block.panic_message \in OptionalTexts
      BY <3>1 DEF GoBlockType, AtMost
    <3> QED  BY <3>2 DEF GoEvidence, FailureType
  <2> DEFINE failure == GoEvidence(block)
  <2> HIDE DEF failure
  <2>3. failure \in F
    BY <2>1, <2>2 DEF FailuresOf, failure
  <2> QED  BY <2>3 DEF failure
<1>6. ASSUME NEW i \in DOMAIN acc.failed_names
      PROVE  StatusOnly(acc.failed_names[i]) \in F
  <2> DEFINE name == acc.failed_names[i]
             failure == StatusOnly(name)
  <2>1. name \in Names /\ name \in Range(acc.failed_names)
    BY <1>2 DEF AccType, AtMost, Range
  <2>2. NoGo(lines) /\ NoGtestFailure(lines) => StatusNoted(lines, name)
    BY <1>1, <2>1 DEF Evidenced, RustNow
  <2> HIDE DEF name
  <2>3. NoGo(lines) /\ NoGtestFailure(lines) => RustEvidenced(lines, failure)
    BY <2>2, StatusEvidenced
  <2>4. failure \in FailureType /\ failure.kind = "rust"
    BY <2>1 DEF StatusOnly, FailureType, OptionalPlaces, OptionalTexts
  <2> HIDE DEF failure
  <2>5. failure \in F
    BY <2>3, <2>4 DEF FailuresOf
  <2> QED  BY <2>5 DEF failure, name
<1> DEFINE failures == FinishLog(acc, complete)
<1> HIDE DEF G, F
<1>7. failures \in AtMost(F, MaxLogFailures) /\ (~complete => failures = <<>>)
  BY <1>3, <1>4, <1>5, <1>6, FinishLogStep
<1> HIDE DEF failures
<1>8. \A i \in DOMAIN failures : failures[i] \in F
  BY <1>7 DEF AtMost
<1> QED  BY <1>7, <1>8 DEF failures, acc, F

----------------------------------------------------------------------------
(* What is reported is evidenced by the log *)

LEMMA FormatLinesUnmixed ==
  ASSUME format \in Formats
  PROVE  format \subseteq FormatLine
PROOF
  BY TestFailuresAssumption DEF FormatLine, Unmixed

LEMMA ReportEvidenced ==
  ASSUME NEW lines \in Seq(FormatLine), NEW complete \in BOOLEAN,
         NEW failures, failures = FinishLog(OfAllLines(lines), complete), NEW n \in DOMAIN failures,
         NEW reason, (reason = "Complete") <=> complete
  PROVE  FailureEvidenced(lines, reason, failures[n])
PROOF
<1>1. failures[n] \in FailuresOf(lines) /\ (~complete => failures = <<>>)
  BY FinishEvidenced
<1>2. complete
  BY <1>1
<1>3. Without(lines, IsGo) <=> NoGo(lines)
  BY DEF Without, NoGo
<1>4. Without(lines, LAMBDA line : line.gtest_failure) <=> NoGtestFailure(lines)
  BY DEF Without, NoGtestFailure
<1> QED  BY <1>1, <1>2, <1>3, <1>4 DEF FailuresOf, FailureEvidenced

LEMMA EvidenceInit == Init => ReportsEvidenced
PROOF
<1> SUFFICES ASSUME Init PROVE ReportsEvidenced
  OBVIOUS
<1>1. DOMAIN reported.failures = {}
  BY DEF Init, NoReport
<1> QED  BY <1>1 DEF ReportsEvidenced

LEMMA EvidenceStep == GateInv /\ ReportsEvidenced /\ [Next]_vars => ReportsEvidenced'
PROOF
<1> SUFFICES ASSUME TypeInv, GateIsTransparent, ReportsEvidenced, [Next]_vars
             PROVE  ReportsEvidenced'
  BY DEF GateInv
<1>1. CASE UNCHANGED vars
  <2>1. reported' = reported
    BY <1>1 DEF vars
  <2> QED  BY <2>1 DEF ReportsEvidenced
<1>2. CASE reported' = NoReport
  <2>1. DOMAIN reported'.failures = {}
    BY <1>2 DEF NoReport
  <2> QED  BY <2>1 DEF ReportsEvidenced
<1>3. ASSUME NEW scope \in Scopes, NEW reason \in EndReasons, EndScope(scope, reason)
      PROVE  ReportsEvidenced'
  <2> DEFINE lines == Lines(log[scope])
             complete == reason = "Complete"
             failures == FinishLog(OfAllLines(lines), complete)
  <2>1. /\ scope \in open
        /\ reported' = [log |-> log[scope], reason |-> reason,
                        failures |-> FinishLog(Reducer(scope).failures, complete),
                        provenance |-> Reducer(scope).provenance]
    BY <1>3 DEF EndScope
  <2>2. Reducer(scope).failures = OfAllLines(lines)
    BY <2>1 DEF GateIsTransparent
  <2>3. lines \in Seq(FormatLine)
    <3>1. log[scope] \in Seq(ShownType) /\ format \subseteq FormatLine
      BY FormatLinesUnmixed DEF TypeInv
    <3>2. \A i \in DOMAIN log[scope] : log[scope][i].line \in FormatLine
      <4>1. \A i \in DOMAIN log[scope] : log[scope][i] \in ShownType
        <5> HIDE DEF ShownType
        <5> QED  BY <3>1
      <4>2. \A shown \in ShownType : shown.line \in FormatLine
        BY <3>1 DEF ShownType
      <4> QED  BY <4>1, <4>2
    <3>3. DOMAIN log[scope] = 1..Len(log[scope]) /\ Len(log[scope]) \in Nat
      BY <3>1
    <3>4. lines \in [1..Len(log[scope]) -> FormatLine]
      BY <3>2, <3>3 DEF Lines
    <3> HIDE DEF lines
    <3> QED  BY <3>3, <3>4
  <2>4. complete \in BOOLEAN
    OBVIOUS
  <2>5. /\ Lines(reported'.log) = lines /\ reported'.failures = failures
        /\ (reported'.reason = "Complete") <=> complete
    BY <2>1, <2>2
  <2> HIDE DEF lines, complete, failures
  <2>6. ASSUME NEW n \in DOMAIN failures
        PROVE  FailureEvidenced(lines, reported'.reason, failures[n])
    BY <2>3, <2>4, <2>5, <2>6, ReportEvidenced DEF failures
  <2> QED  BY <2>5, <2>6 DEF ReportsEvidenced
<1>4. CASE \E scope \in Scopes : \/ BeginScope(scope)
                                 \/ \E stream \in Streams : \E line \in format :
                                      Observe(scope, stream, line)
  BY <1>2, <1>4 DEF BeginScope, Observe
<1> QED  BY <1>1, <1>3, <1>4 DEF Next

THEOREM ReportsAlwaysEvidenced == Spec => []ReportsEvidenced
PROOF
<1>1. Init => GateInv /\ ReportsEvidenced
  BY TypeInit, GateInit, EvidenceInit DEF GateInv
<1>2. GateInv /\ ReportsEvidenced /\ [Next]_vars => (GateInv /\ ReportsEvidenced)'
  BY TypeStep, GateStep, EvidenceStep DEF GateInv
<1> QED  BY <1>1, <1>2, PTL DEF Spec

----------------------------------------------------------------------------
(* What is reported of a log: every test that failed, while there is room *)

(* The failures with that of a block that is closed, if it has a test and  *)
(* there is room.                                                          *)
Finished(failures, name, failure) ==
  IF name = 0 \/ Len(failures) >= MaxLogFailures THEN failures ELSE Append(failures, failure)
WithGtest(acc) ==
  Finished(acc.failures, acc.gtest_current.name, GtestEvidence(acc.gtest_current))
WithRust(acc) == Finished(acc.failures, acc.current.name, RustEvidence(acc.current))

LEMMA FinishedFailures ==
  ASSUME NEW acc \in AccType
  PROVE  FinishGtest(acc).failures = WithGtest(acc) /\ FinishRust(acc).failures = WithRust(acc)
PROOF
<1>1. FinishGtest(acc).failures = WithGtest(acc)
  <2> DEFINE emptied == [acc EXCEPT !.gtest_current = NoGtestBlock]
             failure == GtestEvidence(acc.gtest_current)
             name == acc.gtest_current.name
  <2>1. FinishGtest(acc) = WithFailure(emptied, name, failure)
    BY DEF FinishGtest, GtestEvidence
  <2>2. emptied.failures = acc.failures /\ [emptied EXCEPT !.failures = Append(@, failure)].failures
          = Append(acc.failures, failure)
    BY DEF AccType
  <2> HIDE DEF emptied, failure, name
  <2>3. FinishGtest(acc).failures = Finished(acc.failures, name, failure)
    BY <2>1, <2>2 DEF WithFailure, Finished
  <2> QED  BY <2>3 DEF name, failure, WithGtest
<1>2. FinishRust(acc).failures = WithRust(acc)
  <2> DEFINE emptied == [acc EXCEPT !.current = NoRustBlock]
             failure == RustEvidence(acc.current)
             name == acc.current.name
  <2>1. FinishRust(acc) = WithFailure(emptied, name, failure)
    BY DEF FinishRust, RustEvidence, RustReason
  <2>2. emptied.failures = acc.failures /\ [emptied EXCEPT !.failures = Append(@, failure)].failures
          = Append(acc.failures, failure)
    BY DEF AccType
  <2> HIDE DEF emptied, failure, name
  <2>3. FinishRust(acc).failures = Finished(acc.failures, name, failure)
    BY <2>1, <2>2 DEF WithFailure, Finished
  <2> QED  BY <2>3 DEF name, failure, WithRust
<1> QED  BY <1>1, <1>2

ClosesGtest(acc, line) ==
  \/ line.gtest_run # 0 \/ line.gtest_failure
  \/ line.gtest_failed # 0 /\ acc.gtest_running_name = line.gtest_failed

LEMMA FinishesType ==
  ASSUME NEW acc \in AccType
  PROVE  FinishGtest(acc) \in AccType /\ FinishRust(acc) \in AccType
PROOF
<1>1. AccIn(acc, FailureType) /\ acc.failed_names \in AtMost(Names, MaxLogFailures)
      /\ acc.current \in RustBlockType /\ acc.gtest_current \in GtestBlockType
      /\ acc.gtest_running_name \in OptionalNames
  BY DEF AccIn, AccType
<1>2. /\ acc.gtest_current.name # 0 => GtestEvidence(acc.gtest_current) \in FailureType
      /\ acc.current.name # 0 => RustEvidence(acc.current) \in FailureType
  BY <1>1, EvidenceType
<1>3. Becomes(FinishGtest(acc), acc, FailureType, acc.failed_names, acc.current,
              acc.gtest_running_name, NoGtestBlock)
  BY <1>1, <1>2, FinishGtestStep
<1>4. Becomes(FinishRust(acc), acc, FailureType, acc.failed_names, NoRustBlock,
              acc.gtest_running_name, acc.gtest_current)
  BY <1>1, <1>2, FinishRustStep
<1>5. FailureType \in SUBSET FailureType
  OBVIOUS
<1>6. AccIn(FinishGtest(acc), FailureType)
  BY <1>1, <1>3, <1>5, NoBlocksType, BecomesThen
<1>7. AccIn(FinishRust(acc), FailureType)
  BY <1>1, <1>4, <1>5, NoBlocksType, BecomesThen
<1> QED  BY <1>6, <1>7 DEF AccIn

LEMMA GtestLineFailures ==
  ASSUME NEW acc \in AccType, NEW line, TakenByGtest(acc, line)
  PROVE  GtestLine(acc, line).failures = IF ClosesGtest(acc, line) THEN WithGtest(acc)
                                         ELSE acc.failures
PROOF
<1> DEFINE finished == FinishGtest(acc)
<1>1. finished \in AccType /\ finished.failures = WithGtest(acc)
  BY FinishesType, FinishedFailures
<1> HIDE DEF finished
<1>2. CASE line.gtest_run # 0
  <2>1. GtestLine(acc, line) = [finished EXCEPT !.gtest_running_name = Bounded[line.gtest_run]]
    BY <1>2 DEF GtestLine, GtestRun, finished
  <2> QED  BY <1>1, <1>2, <2>1 DEF AccType, ClosesGtest
<1>3. CASE line.gtest_run = 0 /\ line.gtest_failure
  <2> DEFINE block == [NoGtestBlock EXCEPT !.name = IF acc.gtest_running_name = 0 THEN UnknownGtest
                                                    ELSE acc.gtest_running_name,
                                           !.location = line.gtest_place]
  <2>1. GtestLine(acc, line) = [finished EXCEPT !.gtest_current = block]
    BY <1>3 DEF GtestLine, GtestFailure, finished
  <2> HIDE DEF block
  <2> QED  BY <1>1, <1>3, <2>1 DEF AccType, ClosesGtest
<1>4. CASE line.gtest_run = 0 /\ ~line.gtest_failure /\ line.gtest_failed # 0
  <2>1. GtestLine(acc, line) = IF acc.gtest_running_name # line.gtest_failed THEN acc
                               ELSE [finished EXCEPT !.gtest_running_name = 0]
    BY <1>4 DEF GtestLine, GtestFailed, finished
  <2> QED  BY <1>1, <1>4, <2>1 DEF AccType, ClosesGtest
<1>5. CASE line.gtest_run = 0 /\ ~line.gtest_failure /\ line.gtest_failed = 0
  <2>1. GtestLine(acc, line) = GtestText(acc, line)
    BY <1>5 DEF GtestLine, TakenByGtest
  <2>2. GtestText(acc, line).failures = acc.failures
    BY DEF GtestText, AccType
  <2> QED  BY <1>5, <2>1, <2>2 DEF ClosesGtest
<1> QED  BY <1>2, <1>3, <1>4, <1>5

ClosesRust(acc, line) ==
  \/ line.rust_block # 0
  \/ line.rust_panic # 0 /\ IsOther(acc.current, line)
  \/ line.rust_panic = 0 /\ line.heading

LEMMA RustLineFailures ==
  ASSUME NEW acc \in AccType, NEW line \in LineType
  PROVE  RustLine(acc, line).failures = IF ClosesRust(acc, line) THEN WithRust(acc)
                                        ELSE acc.failures
PROOF
<1> DEFINE noted == RustFailed(acc, line)
           finished == FinishRust(noted)
<1>1. /\ noted \in AccType /\ noted.failures = acc.failures /\ noted.current = acc.current
  <2>1. CASE line.rust_failed = 0
    BY <2>1 DEF RustFailed
  <2>2. CASE line.rust_failed # 0
    <3> DEFINE names == PushUnique(acc.failed_names, Bounded[line.rust_failed], MaxLogFailures)
    <3>1. names \in AtMost(Names, MaxLogFailures)
      BY <2>2, RustNamesType DEF NextRustNames
    <3>2. noted = [acc EXCEPT !.failed_names = names]
      BY <2>2 DEF RustFailed
    <3> HIDE DEF names, noted
    <3> QED  BY <3>1, <3>2 DEF AccType
  <2> QED  BY <2>1, <2>2
<1>2. finished \in AccType /\ finished.failures = WithRust(acc)
  <2> HIDE DEF noted
  <2>1. finished \in AccType /\ finished.failures = WithRust(noted)
    BY <1>1, FinishesType, FinishedFailures
  <2> QED  BY <1>1, <2>1 DEF WithRust
<1> HIDE DEF noted, finished
<1>3. CASE line.rust_block # 0
  <2> DEFINE block == [NoRustBlock EXCEPT !.name = Bounded[line.rust_block]]
  <2>1. RustLine(acc, line) = [finished EXCEPT !.current = block]
    BY <1>3 DEF RustLine, RustBlock, noted, finished
  <2> HIDE DEF block
  <2> QED  BY <1>2, <1>3, <2>1 DEF AccType, ClosesRust
<1>4. CASE line.rust_block = 0 /\ line.rust_panic # 0
  <2> DEFINE next == IF IsOther(noted.current, line) THEN finished ELSE noted
             named == [next EXCEPT !.current.name = Bounded[line.rust_panic],
                                   !.current.location = line.rust_place, !.current.saw_panic = TRUE]
  <2>1. RustLine(acc, line) = named
    BY <1>4 DEF RustLine, RustPanic, noted, finished, IsOther
  <2>2. next \in AccType /\ next.failures = IF IsOther(acc.current, line) THEN WithRust(acc)
                                            ELSE acc.failures
    BY <1>1, <1>2
  <2> HIDE DEF next
  <2>3. named.failures = next.failures
    BY <2>2 DEF AccType
  <2> HIDE DEF named
  <2> QED  BY <1>4, <2>1, <2>2, <2>3 DEF ClosesRust
<1>5. CASE line.rust_block = 0 /\ line.rust_panic = 0 /\ line.heading
  BY <1>2, <1>5 DEF RustLine, ClosesRust, noted, finished
<1>6. CASE line.rust_block = 0 /\ line.rust_panic = 0 /\ ~line.heading
  <2>1. RustLine(acc, line) = noted \/ RustLine(acc, line) = RustText(noted, line)
    BY <1>6 DEF RustLine, noted
  <2>2. RustText(noted, line).failures = noted.failures
    BY <1>1 DEF RustText, AccType
  <2> QED  BY <1>1, <1>6, <2>1, <2>2 DEF ClosesRust
<1> QED  BY <1>3, <1>4, <1>5, <1>6

(* The failures after a line. *)
NextFailures(acc, line) ==
  IF TakenByGo(acc, line) THEN acc.failures
  ELSE IF TakenByGtest(acc, line)
       THEN IF ClosesGtest(acc, line) THEN WithGtest(acc) ELSE acc.failures
  ELSE IF ClosesRust(acc, line) THEN WithRust(acc) ELSE acc.failures

LEMMA ObserveFailures ==
  ASSUME NEW acc \in AccType, NEW line \in LineType
  PROVE  /\ ObserveLine(acc, line).failures = NextFailures(acc, line)
         /\ ~TakenByGo(acc, line) =>
              ObserveLine(acc, line).go_blocks = WithDetailBlock(acc, line).go_blocks
PROOF
<1> DEFINE next == ObserveLine(acc, line)
           mid == WithDetailBlock(acc, line)
           G == GoBlockType
           F == FailureType
<1>1. GoIn(acc, G) /\ AdmitsLine(G, acc, line)
  BY AdmitsLineType DEF GoIn, AccType
<1>2. CASE TakenByGo(acc, line)
  <2>1. PICK pair \in GoNames(acc, line) : GoStep(next, acc, G, pair[1], pair[2])
    BY <1>1, <1>2, GoLineStep DEF GoStepsTo
  <2>2. pair[1] \in OptionalNames /\ pair[2] \in OptionalNames
    BY <2>1, GoNamesType
  <2> HIDE DEF next
  <2>3. next.failures = acc.failures
    BY <1>1, <2>1, <2>2, GoStepThen DEF GoIn
  <2> QED  BY <1>2, <2>3 DEF NextFailures, next
<1>3. CASE ~TakenByGo(acc, line)
  <2>1. next = GtestLine(mid, line) /\ GoStep(mid, acc, G, acc.go_running_name, acc.go_panic_name)
    BY <1>1, <1>3, GoLineStep
  <2> HIDE DEF next, mid
  <2>2. /\ mid \in AccType
        /\ mid.current = acc.current /\ mid.gtest_current = acc.gtest_current
        /\ mid.gtest_running_name = acc.gtest_running_name
        /\ mid.failures = acc.failures
    <3>1. acc.go_running_name \in OptionalNames /\ acc.go_panic_name \in OptionalNames
      BY DEF AccType
    <3> QED  BY <1>1, <2>1, <3>1, GoStepThen DEF GoIn
  <2>3. AccIn(mid, F)
    BY <2>2 DEF AccIn, AccType
  <2>4. /\ mid.failed_names \in AtMost(Names, MaxLogFailures) /\ mid.current \in RustBlockType
        /\ mid.gtest_running_name \in OptionalNames /\ mid.gtest_current \in GtestBlockType
    BY <2>2 DEF AccType
  <2>5. /\ mid.gtest_current.name # 0 => GtestEvidence(mid.gtest_current) \in F
        /\ mid.current.name # 0 => RustEvidence(mid.current) \in F
    BY <2>4, EvidenceType
  <2>6. WithGtest(mid) = WithGtest(acc) /\ WithRust(mid) = WithRust(acc)
    BY <2>2 DEF WithGtest, WithRust
  <2>7. CASE TakenByGtest(acc, line)
    <3>1. TakenByGtest(mid, line) /\ (ClosesGtest(mid, line) <=> ClosesGtest(acc, line))
      BY <2>2, <2>7 DEF TakenByGtest, ClosesGtest
    <3>2. Becomes(next, mid, F, mid.failed_names, mid.current,
                  NextGtestRunning(mid, line), NextGtestBlock(mid, line))
      BY <2>1, <2>3, <2>5, <3>1, GtestStep
    <3>3. NextGtestRunning(mid, line) \in OptionalNames /\ NextGtestBlock(mid, line) \in GtestBlockType
      BY <2>2, GtestTypes
    <3>4. next.go_blocks = mid.go_blocks
      BY <2>2, <2>4, <3>2, <3>3, BecomesThen
    <3>5. next.failures = IF ClosesGtest(mid, line) THEN WithGtest(mid) ELSE mid.failures
      BY <2>1, <2>2, <3>1, GtestLineFailures
    <3> QED  BY <1>3, <2>2, <2>6, <2>7, <3>1, <3>4, <3>5 DEF NextFailures, next, mid
  <2>8. CASE ~TakenByGtest(acc, line)
    <3>1. next = RustLine(mid, line) /\ (ClosesRust(mid, line) <=> ClosesRust(acc, line))
      BY <2>1, <2>2, <2>8 DEF TakenByGtest, GtestLine, ClosesRust
    <3>2. Becomes(next, mid, F, NextRustNames(mid, line),
                  NextRustBlock(mid.current, line), mid.gtest_running_name, mid.gtest_current)
      BY <2>3, <2>5, <3>1, RustStep
    <3>3. /\ NextRustNames(mid, line) \in AtMost(Names, MaxLogFailures)
          /\ NextRustBlock(mid.current, line) \in RustBlockType
      BY <2>2, <2>4, RustNamesType, RustBlockStepType
    <3>4. next.go_blocks = mid.go_blocks
      BY <2>2, <2>4, <3>2, <3>3, BecomesThen
    <3>5. next.failures = IF ClosesRust(mid, line) THEN WithRust(mid) ELSE mid.failures
      BY <2>2, <3>1, RustLineFailures
    <3> QED  BY <1>3, <2>2, <2>6, <2>8, <3>1, <3>4, <3>5 DEF NextFailures, next, mid
  <2> QED  BY <2>7, <2>8
<1> QED  BY <1>2, <1>3

----------------------------------------------------------------------------
(* What is counted *)

Bit(yes) == IF yes THEN 1 ELSE 0
NamesOf(failures) == {failures[i].name : i \in DOMAIN failures}
Named(acc) == (NamesOf(acc.failures) \cup {acc.current.name, acc.gtest_current.name}) \ {0}
Taken(acc) ==
  Len(acc.failures) + Bit(acc.current.name # 0) + Bit(acc.gtest_current.name # 0)

LEMMA FinishedProperties ==
  ASSUME NEW failures \in AtMost(FailureType, MaxLogFailures), NEW name, NEW failure,
         failure.name = name, name # 0 => failure \in FailureType
  PROVE  LET more == Finished(failures, name, failure)
         IN  /\ Len(failures) <= Len(more) /\ Len(more) <= Len(failures) + Bit(name # 0)
             /\ NamesOf(failures) \subseteq NamesOf(more)
             /\ Len(more) < MaxLogFailures => NamesOf(more) \ {0} = (NamesOf(failures) \cup {name}) \ {0}
PROOF
<1>1. failures \in Seq(FailureType) /\ Len(failures) \in Nat /\ MaxLogFailures \in Nat
  BY LimitsNat DEF AtMost
<1>2. CASE name = 0 \/ Len(failures) >= MaxLogFailures
  BY <1>1, <1>2 DEF Finished, Bit, NamesOf
<1>3. CASE name # 0 /\ ~(Len(failures) >= MaxLogFailures)
  <2> DEFINE more == Append(failures, failure)
  <2>1. Len(more) = Len(failures) + 1 /\ DOMAIN more = DOMAIN failures \cup {Len(failures) + 1}
        /\ more[Len(failures) + 1] = failure /\ \A i \in DOMAIN failures : more[i] = failures[i]
    BY <1>1
  <2> HIDE DEF more
  <2>2. NamesOf(more) = NamesOf(failures) \cup {name}
    BY <2>1 DEF NamesOf
  <2> QED  BY <1>1, <1>3, <2>1, <2>2 DEF Finished, Bit, more
<1> QED  BY <1>2, <1>3

LEMMA GtestSlot ==
  ASSUME NEW acc \in AccType, NEW line \in LineType, TakenByGtest(acc, line)
  PROVE  LET block == NextGtestBlock(acc, line)
         IN  IF ClosesGtest(acc, line)
             THEN /\ block.name # 0 => line.gtest_run = 0 /\ line.gtest_failure
                  /\ line.gtest_run = 0 /\ line.gtest_failure =>
                       /\ block.name = (IF acc.gtest_running_name = 0 THEN UnknownGtest
                                        ELSE acc.gtest_running_name)
                       /\ block.name # 0
             ELSE block.name = acc.gtest_current.name
PROOF
<1>1. acc.gtest_current \in GtestBlockType
  BY DEF AccType
<1>2. NextGtestText(acc.gtest_current, line).name = acc.gtest_current.name
  BY <1>1 DEF NextGtestText, GtestBlockType
<1>3. NoGtestBlock.name = 0
  BY DEF NoGtestBlock
<1>4. UnknownGtest # 0
  BY TestFailuresAssumption
<1>5. NewGtestBlock(acc.gtest_running_name, line).name
        = IF acc.gtest_running_name = 0 THEN UnknownGtest ELSE acc.gtest_running_name
  BY DEF NewGtestBlock, NoGtestBlock
<1> QED  BY <1>2, <1>3, <1>4, <1>5 DEF NextGtestBlock, ClosesGtest

(* The name of an open block of libtest was cut.                           *)
CutName(block) == block.name # 0 => Bounded[block.name] = block.name

LEMMA RustSlot ==
  ASSUME NEW acc \in AccType, NEW line \in LineType, CutName(acc.current),
         0 \in {line.rust_block, line.rust_panic}
  PROVE  LET block == NextRustBlock(acc.current, line)
         IN  /\ IF ClosesRust(acc, line)
                THEN block.name # 0 => RustNameIn(line) # 0
                ELSE \/ block.name = acc.current.name
                     \/ acc.current.name = 0 /\ RustNameIn(line) # 0
             /\ RustNameIn(line) # 0 => block.name = Bounded[RustNameIn(line)] /\ block.name # 0
             /\ CutName(block)
PROOF
<1> DEFINE old == acc.current
           block == NextRustBlock(old, line)
<1>1. old \in RustBlockType /\ NoRustBlock \in RustBlockType /\ NoRustBlock.name = 0
  BY NoBlocksType DEF AccType, NoRustBlock
<1>2. NextRustText(old, line).name = old.name
  BY <1>1 DEF NextRustText, RustBlockType
<1>3. /\ line.rust_block \in OptionalNames /\ line.rust_panic \in OptionalNames
      /\ \A name \in Names : Bounded[name] # 0 /\ Bounded[Bounded[name]] = Bounded[name]
  BY BoundedName, TestFailuresAssumption DEF LineType
<1> HIDE DEF old
<1>4. CASE line.rust_block # 0
  <2>1. [NoRustBlock EXCEPT !.name = Bounded[line.rust_block]].name = Bounded[line.rust_block]
    BY DEF NoRustBlock
  <2>2. block.name = Bounded[line.rust_block] /\ RustNameIn(line) = line.rust_block
    BY <1>4, <2>1 DEF NextRustBlock, RustNameIn
  <2> HIDE DEF block
  <2> QED  BY <1>3, <1>4, <2>2 DEF ClosesRust, CutName, OptionalNames, block, old
<1>5. CASE line.rust_block = 0 /\ line.rust_panic # 0
  <2> DEFINE before == IF IsOther(old, line) THEN NoRustBlock ELSE old
             after == [before EXCEPT !.name = Bounded[line.rust_panic],
                                     !.location = line.rust_place, !.saw_panic = TRUE]
  <2>1. before \in RustBlockType
    BY <1>1
  <2> HIDE DEF before
  <2>2. after.name = Bounded[line.rust_panic]
    BY <2>1 DEF RustBlockType
  <2>3. block = after /\ RustNameIn(line) = line.rust_panic
    BY <1>5 DEF NextRustBlock, RustNameIn, before
  <2> HIDE DEF after, block
  <2>4. block.name = Bounded[line.rust_panic] /\ block.name # 0 /\ CutName(block)
    BY <1>3, <1>5, <2>2, <2>3 DEF CutName, OptionalNames
  <2>5. ~IsOther(old, line) /\ old.name # 0 => block.name = old.name
    BY <2>4 DEF IsOther, CutName, old
  <2> QED  BY <1>5, <2>3, <2>4, <2>5 DEF ClosesRust, block, old
<1>6. CASE line.rust_block = 0 /\ line.rust_panic = 0
  <2>1. RustNameIn(line) = 0
    BY <1>6 DEF RustNameIn
  <2>2. block = IF line.heading THEN NoRustBlock
                ELSE IF old.name # 0 THEN NextRustText(old, line) ELSE old
    BY <1>6 DEF NextRustBlock
  <2> HIDE DEF block
  <2>3. block.name = IF line.heading THEN 0 ELSE old.name
    BY <1>1, <1>2, <2>2
  <2> QED  BY <1>6, <2>1, <2>3 DEF ClosesRust, CutName, block, old
<1> QED  BY <1>4, <1>5, <1>6

(* What a step may do to what is taken of a log. *)
Keeping(next, acc, line) ==
  /\ Len(acc.failures) <= Len(next.failures)
  /\ Taken(next) <= Taken(acc) + Bit(MakesBlock(line))
  /\ Len(next.failures) < MaxLogFailures => Named(acc) \subseteq Named(next)
  /\ Taken(next) <= Taken(acc) \/ line.gtest_failure
       \/ (RustNameIn(line) # 0 /\ Bounded[RustNameIn(line)] \in Named(next))

(* A block is closed and another one may be opened in its place. *)
LEMMA BlockClosed ==
  ASSUME NEW acc \in AccType, NEW next \in AccType, NEW line,
         NEW name, NEW failure, failure.name = name, name # 0 => failure \in FailureType,
         next.failures = Finished(acc.failures, name, failure),
         NEW opened, NEW other,
         \/ /\ name = acc.current.name /\ opened = next.current.name
            /\ other = acc.gtest_current.name /\ other = next.gtest_current.name
         \/ /\ name = acc.gtest_current.name /\ opened = next.gtest_current.name
            /\ other = acc.current.name /\ other = next.current.name,
         opened # 0 => /\ MakesBlock(line)
                       /\ line.gtest_failure
                            \/ (RustNameIn(line) # 0 /\ opened = Bounded[RustNameIn(line)])
  PROVE  Keeping(next, acc, line)
PROOF
<1> DEFINE before == acc.failures
           after == next.failures
<1>1. before \in AtMost(FailureType, MaxLogFailures) /\ after \in AtMost(FailureType, MaxLogFailures)
  BY DEF AccType
<1>2. Len(before) \in Nat /\ Len(after) \in Nat
  BY <1>1 DEF AtMost
<1>3. /\ Len(before) <= Len(after) /\ Len(after) <= Len(before) + Bit(name # 0)
      /\ NamesOf(before) \subseteq NamesOf(after)
      /\ Len(after) < MaxLogFailures =>
           NamesOf(after) \ {0} = (NamesOf(before) \cup {name}) \ {0}
  BY <1>1, FinishedProperties
<1> DEFINE n == Bit(name # 0)
           o == Bit(opened # 0)
           k == Bit(other # 0)
           m == Bit(MakesBlock(line))
<1>4. /\ n \in {0, 1} /\ o \in {0, 1} /\ k \in {0, 1} /\ m \in {0, 1}
      /\ opened = 0 => o = 0
      /\ opened # 0 => m = 1
  BY DEF Bit
<1>5. /\ Taken(acc) = Len(before) + n + k
      /\ Taken(next) = Len(after) + o + k
  <2> HIDE DEF before, after
  <2>1. /\ Taken(acc) = Len(before) + Bit(acc.current.name # 0) + Bit(acc.gtest_current.name # 0)
        /\ Taken(next) = Len(after) + Bit(next.current.name # 0) + Bit(next.gtest_current.name # 0)
    BY DEF Taken, before, after
  <2>2. CASE /\ name = acc.current.name /\ opened = next.current.name
             /\ other = acc.gtest_current.name /\ other = next.gtest_current.name
    BY <2>1, <2>2
  <2>3. CASE /\ name = acc.gtest_current.name /\ opened = next.gtest_current.name
             /\ other = acc.current.name /\ other = next.current.name
    <3>1. Taken(acc) = Len(before) + k + n /\ Taken(next) = Len(after) + k + o
      BY <2>1, <2>3
    <3> HIDE DEF n, o, k
    <3> QED  BY <1>2, <1>4, <3>1 DEF before, after
  <2> QED  BY <2>2, <2>3
<1>6. /\ Named(acc) = (NamesOf(before) \cup {name, other}) \ {0}
      /\ Named(next) = (NamesOf(after) \cup {opened, other}) \ {0}
  BY DEF Named
<1> HIDE DEF before, after
<1>7. Len(after) < MaxLogFailures => Named(acc) \subseteq Named(next)
  BY <1>3, <1>6
<1>8. opened # 0 => opened \in Named(next)
  BY <1>6
<1>9. Taken(next) <= Taken(acc) + m /\ (opened = 0 => Taken(next) <= Taken(acc))
  <2>1. Len(after) <= Len(before) + n
    BY <1>3
  <2> HIDE DEF n, o, k, m
  <2>2. o <= m
    BY <1>4
  <2> QED  BY <1>2, <1>4, <1>5, <2>1, <2>2
<1>10. Taken(next) <= Taken(acc) \/ line.gtest_failure
         \/ (RustNameIn(line) # 0 /\ Bounded[RustNameIn(line)] \in Named(next))
  <2>1. CASE opened = 0
    BY <1>9, <2>1
  <2>2. CASE opened # 0 /\ line.gtest_failure
    BY <2>2
  <2>3. CASE opened # 0 /\ RustNameIn(line) # 0 /\ opened = Bounded[RustNameIn(line)]
    BY <1>8, <2>3
  <2> QED  BY <2>1, <2>2, <2>3
<1>11. Len(before) <= Len(after)
  BY <1>3
<1> QED  BY <1>7, <1>9, <1>10, <1>11 DEF Keeping, before, after

(* No block is closed, and one may be opened where there is none. *)
LEMMA BlockGoesOn ==
  ASSUME NEW acc \in AccType, NEW next \in AccType, NEW line,
         next.failures = acc.failures, next.gtest_current.name = acc.gtest_current.name,
         \/ next.current.name = acc.current.name
         \/ /\ acc.current.name = 0 /\ RustNameIn(line) # 0
            /\ next.current.name = Bounded[RustNameIn(line)]
  PROVE  Keeping(next, acc, line)
PROOF
<1> DEFINE size == Len(acc.failures)
           c == Bit(acc.current.name # 0)
           d == Bit(next.current.name # 0)
           g == Bit(acc.gtest_current.name # 0)
           m == Bit(MakesBlock(line))
<1>1. /\ size \in Nat /\ c \in {0, 1} /\ d \in {0, 1} /\ g \in {0, 1} /\ m \in {0, 1}
      /\ Taken(acc) = size + c + g /\ Taken(next) = size + d + g
  <2>1. size \in Nat
    BY DEF AccType, AtMost
  <2>2. Taken(acc) = size + c + g /\ Taken(next) = size + d + g
    BY DEF Taken
  <2> QED  BY <2>1, <2>2 DEF Bit
<1>2. Len(acc.failures) <= Len(next.failures)
  BY <1>1
<1>3. CASE next.current.name = acc.current.name
  <2>1. Named(next) = Named(acc) /\ c = d
    BY <1>3 DEF Named
  <2> HIDE DEF size, c, d, g, m
  <2>2. Taken(next) <= Taken(acc) + m /\ Taken(next) <= Taken(acc)
    BY <1>1, <2>1
  <2>3. Named(acc) \subseteq Named(next)
    BY <2>1
  <2>4. Taken(next) <= Taken(acc) \/ line.gtest_failure
          \/ (RustNameIn(line) # 0 /\ Bounded[RustNameIn(line)] \in Named(next))
    BY <2>2
  <2> QED  BY <1>2, <2>2, <2>3, <2>4 DEF Keeping, m
<1>4. CASE /\ acc.current.name = 0 /\ RustNameIn(line) # 0 /\ next.current.name # 0
           /\ next.current.name = Bounded[RustNameIn(line)]
  <2>1. c = 0 /\ m = 1
    BY <1>4 DEF MakesBlock, RustNameIn, Bit
  <2>2. Named(acc) \subseteq Named(next) /\ next.current.name \in Named(next)
    BY <1>4 DEF Named
  <2> HIDE DEF size, c, d, g, m
  <2>3. Taken(next) <= Taken(acc) + m
    BY <1>1, <2>1
  <2> QED  BY <1>2, <1>4, <2>2, <2>3 DEF Keeping, m
<1> QED  BY <1>3, <1>4

LEMMA ObserveKeeps ==
  ASSUME NEW acc, Sound(acc), NEW line \in LineType, CutName(acc.current),
         0 \in {line.rust_block, line.rust_panic}
  PROVE  LET next == ObserveLine(acc, line)
         IN  Keeping(next, acc, line) /\ CutName(next.current)
PROOF
<1> DEFINE next == ObserveLine(acc, line)
<1>1. acc \in AccType /\ next \in AccType
  BY ObserveSound DEF Sound
<1>2. Blocks(next, acc, line)
  BY <1>1, SoundKeeps, AdmitsLineType, ObserveStep
<1>3. next.failures = NextFailures(acc, line)
  BY <1>1, ObserveFailures
<1>4. /\ acc.current.name # 0 => RustEvidence(acc.current) \in FailureType
      /\ acc.gtest_current.name # 0 => GtestEvidence(acc.gtest_current) \in FailureType
  BY <1>1, EvidenceType DEF AccType
<1>5. /\ RustEvidence(acc.current).name = acc.current.name
      /\ GtestEvidence(acc.gtest_current).name = acc.gtest_current.name
  BY DEF RustEvidence, GtestEvidence
<1> HIDE DEF next
<1>6. CASE TakenByGo(acc, line)
  <2>1. SameBlocks(next, acc) /\ next.failures = acc.failures
    BY <1>2, <1>3, <1>6 DEF Blocks, NextFailures
  <2> QED  BY <1>1, <2>1, BlockGoesOn DEF SameBlocks, next
<1>7. CASE ~TakenByGo(acc, line) /\ TakenByGtest(acc, line)
  <2>1. GtestBlocks(next, acc, line)
    BY <1>2, <1>7 DEF Blocks
  <2>2. CASE ClosesGtest(acc, line)
    <3>1. next.failures = WithGtest(acc)
      BY <1>3, <1>7, <2>2 DEF NextFailures
    <3>2. next.gtest_current.name # 0 => line.gtest_failure /\ MakesBlock(line)
      BY <1>1, <1>7, <2>1, <2>2, GtestSlot DEF GtestBlocks, MakesBlock
    <3>3. next.current.name = acc.current.name /\ next.current = acc.current
      BY <2>1 DEF GtestBlocks
    <3> DEFINE name == acc.gtest_current.name
               failure == GtestEvidence(acc.gtest_current)
               opened == next.gtest_current.name
               other == acc.current.name
    <3>4. /\ failure.name = name /\ (name # 0 => failure \in FailureType)
          /\ next.failures = Finished(acc.failures, name, failure)
      BY <1>4, <1>5, <3>1 DEF WithGtest
    <3>5. \/ /\ name = acc.current.name /\ opened = next.current.name
             /\ other = acc.gtest_current.name /\ other = next.gtest_current.name
          \/ /\ name = acc.gtest_current.name /\ opened = next.gtest_current.name
             /\ other = acc.current.name /\ other = next.current.name
      BY <3>3
    <3>6. opened # 0 => /\ MakesBlock(line)
                        /\ line.gtest_failure
                             \/ (RustNameIn(line) # 0 /\ opened = Bounded[RustNameIn(line)])
      BY <3>2
    <3> HIDE DEF failure, name, opened, other
    <3>7. Keeping(next, acc, line)
      BY <1>1, <3>4, <3>5, <3>6, BlockClosed
    <3> QED  BY <3>3, <3>7 DEF next
  <2>3. CASE ~ClosesGtest(acc, line)
    <3>1. next.failures = acc.failures
      BY <1>3, <1>7, <2>3 DEF NextFailures
    <3>2. next.gtest_current.name = acc.gtest_current.name
      BY <1>1, <1>7, <2>1, <2>3, GtestSlot DEF GtestBlocks
    <3> QED  BY <1>1, <2>1, <3>1, <3>2, BlockGoesOn DEF GtestBlocks, next
  <2> QED  BY <2>2, <2>3
<1>8. CASE ~TakenByGo(acc, line) /\ ~TakenByGtest(acc, line)
  <2>1. RustBlocks(next, acc, line)
    BY <1>2, <1>8 DEF Blocks
  <2> DEFINE block == NextRustBlock(acc.current, line)
  <2>2. /\ IF ClosesRust(acc, line)
           THEN block.name # 0 => RustNameIn(line) # 0
           ELSE \/ block.name = acc.current.name
                \/ acc.current.name = 0 /\ RustNameIn(line) # 0
        /\ RustNameIn(line) # 0 => block.name = Bounded[RustNameIn(line)] /\ block.name # 0
        /\ CutName(block)
    BY <1>1, RustSlot
  <2>3. next.current = block /\ next.gtest_current = acc.gtest_current
    BY <2>1 DEF RustBlocks
  <2> HIDE DEF block
  <2>4. RustNameIn(line) # 0 => MakesBlock(line)
    BY DEF RustNameIn, MakesBlock
  <2>5. CASE ClosesRust(acc, line)
    <3>1. next.failures = WithRust(acc)
      BY <1>3, <1>8, <2>5 DEF NextFailures
    <3>2. Keeping(next, acc, line)
      BY <1>1, <1>4, <1>5, <2>2, <2>3, <2>4, <2>5, <3>1, BlockClosed DEF WithRust
    <3> QED  BY <2>2, <2>3, <3>2 DEF next
  <2>6. CASE ~ClosesRust(acc, line)
    <3>1. next.failures = acc.failures
      BY <1>3, <1>8, <2>6 DEF NextFailures
    <3>2. Keeping(next, acc, line)
      BY <1>1, <2>2, <2>3, <2>6, <3>1, BlockGoesOn
    <3> QED  BY <2>2, <2>3, <3>2 DEF next
  <2> QED  BY <2>5, <2>6
<1> QED  BY <1>6, <1>7, <1>8

(* The tests of the failed blocks.                                         *)
FailedOf(blocks) == {blocks[i].name : i \in {j \in DOMAIN blocks : blocks[j].failed}}

(* At most so many blocks come, and no failed test goes.                   *)
GoGrows(after, before, more) ==
  Len(after) <= Len(before) + more /\ FailedOf(before) \subseteq FailedOf(after)

LEMMA CompactedGrows ==
  ASSUME NEW blocks \in AtMost(GoBlockType, MaxGoBlocks)
  PROVE  GoGrows(Compacted(blocks), blocks, 0)
PROOF
<1> DEFINE again == {i \in DOMAIN blocks : /\ blocks[i].failed
                                           /\ \E j \in 1..(i - 1) : blocks[j] = blocks[i]}
           P == DOMAIN blocks \ again
           left == Picked(blocks, P)
<1>1. Compacted(blocks) = left
  BY DEF Compacted
<1>2. blocks \in Seq(GoBlockType) /\ DOMAIN blocks = 1..Len(blocks) /\ Len(blocks) \in Nat
  BY DEF AtMost
<1>3. P \in SUBSET DOMAIN blocks
  OBVIOUS
<1>4. Range(left) = {blocks[i] : i \in P} /\ left \in Seq(GoBlockType)
  <2> HIDE DEF P
  <2>1. left \in AtMost(GoBlockType, MaxGoBlocks) /\ Range(left) = {blocks[i] : i \in P}
    BY <1>3, LimitsNat, PickedAtMost
  <2> QED  BY <2>1 DEF AtMost
<1>5. Len(left) <= Len(blocks)
  <2> HIDE DEF P
  <2>1. IsFiniteSet(1..Len(blocks)) /\ Cardinality(1..Len(blocks)) = Len(blocks)
    BY <1>2, FS_Interval
  <2>2. Cardinality(P) <= Len(blocks) /\ Cardinality(P) \in Nat
    BY <1>2, <1>3, <2>1, FS_Subset, FS_CardinalityType
  <2>3. DOMAIN left = 1..Cardinality(P)
    BY DEF Picked
  <2>4. Len(left) = Cardinality(P)
    <3> HIDE DEF left
    <3> QED  BY <1>4, <2>2, <2>3
  <2> QED  BY <2>2, <2>4
<1>6. ASSUME NEW i \in DOMAIN blocks, blocks[i].failed
      PROVE  blocks[i] \in Range(left)
  <2> DEFINE same == {j \in 1..Len(blocks) : blocks[j] = blocks[i]}
  <2>1. same \in SUBSET Nat /\ same # {}
    BY <1>2
  <2>2. PICK j \in same : \A k \in same : j <= k
    <3> HIDE DEF same
    <3> QED  BY <2>1, LeastNat
  <2>3. j \in P
    BY <1>2, <2>2
  <2> HIDE DEF P, left
  <2> QED  BY <1>4, <2>2, <2>3
<1>7. FailedOf(blocks) \subseteq FailedOf(left)
  <2> HIDE DEF left
  <2>1. \A i \in DOMAIN blocks : blocks[i].failed => \E k \in DOMAIN left : left[k] = blocks[i]
    BY <1>6 DEF Range
  <2> QED  BY <2>1 DEF FailedOf
<1> HIDE DEF left
<1> QED  BY <1>1, <1>2, <1>4, <1>5, <1>7 DEF GoGrows

LEMMA WithBlockGrows ==
  ASSUME NEW acc \in AccType, NEW name \in Names, NEW any \in BOOLEAN
  PROVE  LET next == WithGoBlock(acc, name, any)
         IN  /\ next.go_blocks \in AtMost(GoBlockType, MaxGoBlocks)
             /\ GoGrows(next.go_blocks, acc.go_blocks, 1)
             /\ GoBlock(acc, name, any) # 0 => next = acc
             /\ ~any /\ Len(acc.go_blocks) < MaxGoBlocks => GoBlock(next, name, any) # 0
PROOF
<1> DEFINE next == WithGoBlock(acc, name, any)
           blocks == IF Full(acc.go_blocks) THEN Compacted(acc.go_blocks) ELSE acc.go_blocks
           more == IF Full(blocks) THEN blocks ELSE Append(blocks, NewGoBlock(name))
<1>1. acc.go_blocks \in AtMost(GoBlockType, MaxGoBlocks)
  BY DEF AccType
<1>2. Len(acc.go_blocks) \in Nat /\ GoGrows(acc.go_blocks, acc.go_blocks, 0)
  BY <1>1 DEF AtMost, GoGrows
<1>3. CASE GoBlock(acc, name, any) # 0
  <2>1. next = acc
    BY <1>3 DEF WithGoBlock
  <2> QED  BY <1>1, <1>2, <1>3, <2>1 DEF GoGrows
<1>4. CASE GoBlock(acc, name, any) = 0
  <2>1. next = [acc EXCEPT !.go_blocks = more]
    BY <1>4 DEF WithGoBlock, PushedGoBlock
  <2>2. blocks \in AtMost(GoBlockType, MaxGoBlocks) /\ GoGrows(blocks, acc.go_blocks, 0)
    BY <1>1, <1>2, CompactedIn, CompactedGrows
  <2>3. Len(acc.go_blocks) < MaxGoBlocks => ~Full(blocks)
    BY <1>2, LimitsNat DEF Full
  <2> HIDE DEF blocks
  <2>4. Len(blocks) \in Nat /\ blocks \in Seq(GoBlockType)
    BY <2>2 DEF AtMost
  <2> DEFINE new == NewGoBlock(name)
  <2>5. new \in GoBlockType /\ new.name = name /\ ~new.failed
    BY NewBlockType DEF NewGoBlock
  <2>6. /\ more \in AtMost(GoBlockType, MaxGoBlocks)
        /\ GoGrows(more, acc.go_blocks, 1)
        /\ ~Full(blocks) => \E i \in DOMAIN more : more[i] = new
    <3>1. CASE Full(blocks)
      BY <1>2, <2>2, <2>4, <3>1 DEF GoGrows
    <3>2. CASE ~Full(blocks)
      <4> HIDE DEF new
      <4>1. Append(blocks, new) \in AtMost(GoBlockType, MaxGoBlocks)
        BY <2>2, <2>5, <3>2, LimitsNat, AppendAtMost DEF Full
      <4>2. more = Append(blocks, new)
        BY <3>2 DEF new
      <4> HIDE DEF more
      <4>3. /\ Len(more) = Len(blocks) + 1 /\ more[Len(blocks) + 1] = new
            /\ DOMAIN more = DOMAIN blocks \cup {Len(blocks) + 1}
            /\ \A i \in DOMAIN blocks : more[i] = blocks[i]
        BY <2>4, <2>5, <4>2
      <4>4. FailedOf(blocks) \subseteq FailedOf(more)
        BY <4>3 DEF FailedOf
      <4>5. GoGrows(more, acc.go_blocks, 1)
        BY <1>2, <2>2, <2>4, <4>3, <4>4 DEF GoGrows
      <4> QED  BY <4>1, <4>2, <4>3, <4>5
    <3> QED  BY <3>1, <3>2
  <2> HIDE DEF more, next
  <2>7. next.go_blocks = more
    BY <2>1 DEF AccType
  <2>8. ASSUME ~any, ~Full(blocks)
        PROVE  GoBlock(next, name, any) # 0
    <3>1. IsIndex(GoBlock(next, name, any), next.go_blocks, name, any)
      BY <2>6, <2>7, GoBlockIndex
    <3> HIDE DEF new
    <3>2. PICK i \in DOMAIN more : more[i] = new
      BY <2>6, <2>8
    <3> QED  BY <2>5, <2>7, <2>8, <3>1, <3>2 DEF IsIndex
  <2> QED  BY <1>4, <2>3, <2>6, <2>7, <2>8 DEF next
<1> QED  BY <1>3, <1>4

(* One block replaced by another of the same test, as failed as it was.    *)
LEMMA ReplacedGrows ==
  ASSUME NEW blocks \in Seq(GoBlockType), NEW index \in DOMAIN blocks, NEW x,
         x.name = blocks[index].name, x.failed = blocks[index].failed
  PROVE  GoGrows([blocks EXCEPT ![index] = x], blocks, 0)
PROOF
<1> DEFINE after == [blocks EXCEPT ![index] = x]
<1>1. /\ DOMAIN after = DOMAIN blocks /\ after[index] = x
      /\ \A i \in DOMAIN blocks \ {index} : after[i] = blocks[i]
      /\ Len(after) = Len(blocks) /\ Len(blocks) \in Nat
  OBVIOUS
<1> HIDE DEF after
<1>2. FailedOf(blocks) \subseteq FailedOf(after)
  <2>1. \A i \in DOMAIN blocks : after[i].name = blocks[i].name /\ after[i].failed = blocks[i].failed
    BY <1>1
  <2> QED  BY <1>1, <2>1 DEF FailedOf
<1>3. GoGrows(after, blocks, 0)
  BY <1>1, <1>2 DEF GoGrows
<1> QED  BY <1>3 DEF after

(* Which line adds a block, of which at most.                              *)
LEMMA GoFailGrows ==
  ASSUME NEW acc \in AccType, NEW line, Bounded[line.go_fail] \in Names
  PROVE  LET next == GoFail(acc, line)
         IN  /\ GoGrows(next.go_blocks, acc.go_blocks, 1)
             /\ Len(acc.go_blocks) < MaxGoBlocks => Bounded[line.go_fail] \in FailedOf(next.go_blocks)
PROOF
<1> DEFINE name == Bounded[line.go_fail]
           any == FALSE
           next == WithGoBlock(acc, name, any)
           index == GoBlock(next, name, any)
           before == next.go_blocks
           blocks == [i \in DOMAIN before |-> [before[i] EXCEPT !.failed = @ \/ i = index]]
<1>1. GoFail(acc, line) = [next EXCEPT !.go_blocks = blocks, !.go_running_name = name,
                                       !.go_panic_name = name]
  BY DEF GoFail
<1>2. /\ before \in AtMost(GoBlockType, MaxGoBlocks)
      /\ GoGrows(before, acc.go_blocks, 1)
      /\ Len(acc.go_blocks) < MaxGoBlocks => index # 0
  <2> HIDE DEF name
  <2>1. name \in Names /\ any \in BOOLEAN /\ ~any
    BY DEF name
  <2> HIDE DEF any
  <2> QED  BY <2>1, WithBlockGrows
<1>3. IsIndex(index, before, name, any)
  <2>1. any \in BOOLEAN
    OBVIOUS
  <2> HIDE DEF any, next, name
  <2> QED  BY <1>2, <2>1, GoBlockIndex
<1>4. GoStep(next, acc, GoBlockType, acc.go_running_name, acc.go_panic_name)
  <2>1. GoIn(acc, GoBlockType) /\ NewGoBlock(name) \in GoBlockType /\ any \in BOOLEAN
    BY NewBlockType DEF GoIn, AccType
  <2> HIDE DEF any
  <2> QED  BY <2>1, WithBlockStep
<1>5. next \in AccType
  <2>1. acc.go_running_name \in OptionalNames /\ acc.go_panic_name \in OptionalNames
    BY DEF AccType
  <2> HIDE DEF next
  <2> QED  BY <1>4, <2>1, GoStepThen
<1> HIDE DEF next, index, name
<1>6. /\ before \in Seq(GoBlockType) /\ Len(before) \in Nat /\ DOMAIN before = 1..Len(before)
  BY <1>2 DEF AtMost
<1>7. \A i \in DOMAIN before : /\ blocks[i].name = before[i].name
                               /\ blocks[i].failed = (before[i].failed \/ i = index)
  BY <1>6 DEF GoBlockType
<1>8. Len(blocks) = Len(before) /\ DOMAIN blocks = DOMAIN before
  <2>1. DOMAIN blocks = DOMAIN before
    OBVIOUS
  <2>2. blocks \in [1..Len(before) -> {[before[i] EXCEPT !.failed = @ \/ i = index] : i \in DOMAIN before}]
    BY <1>6
  <2> HIDE DEF blocks
  <2> QED  BY <1>6, <2>1, <2>2
<1> HIDE DEF blocks
<1>9. FailedOf(before) \subseteq FailedOf(blocks)
  BY <1>7, <1>8 DEF FailedOf
<1>10. index # 0 => name \in FailedOf(blocks)
  <2>1. index # 0 => index \in DOMAIN before /\ before[index].name = name
    BY <1>3 DEF IsIndex
  <2> QED  BY <1>7, <1>8, <2>1 DEF FailedOf
<1>11. GoFail(acc, line).go_blocks = blocks
  BY <1>1, <1>5 DEF AccType
<1>12. GoGrows(blocks, acc.go_blocks, 1)
  BY <1>2, <1>8, <1>9 DEF GoGrows
<1> QED  BY <1>2, <1>10, <1>11, <1>12 DEF name

(* A block of next replaced.                                               *)
LEMMA ChangedGrows ==
  ASSUME NEW acc \in AccType, NEW next, NEW after, NEW index, NEW x, NEW panic, NEW more \in Nat,
         next.go_blocks \in AtMost(GoBlockType, MaxGoBlocks),
         GoGrows(next.go_blocks, acc.go_blocks, more), index \in DOMAIN next.go_blocks,
         x.name = next.go_blocks[index].name, x.failed = next.go_blocks[index].failed,
         after.go_blocks = [next.go_blocks EXCEPT ![index] = x]
  PROVE  GoGrows(after.go_blocks, acc.go_blocks, more)
PROOF
<1>1. GoGrows(after.go_blocks, next.go_blocks, 0)
  BY ReplacedGrows DEF AtMost
<1>2. Len(next.go_blocks) \in Nat /\ Len(acc.go_blocks) \in Nat
  BY DEF AtMost, AccType
<1>3. Len(after.go_blocks) <= Len(acc.go_blocks) + more
  <2>1. after.go_blocks \in Seq(GoBlockType \cup {x})
    <3> DEFINE V == GoBlockType \cup {x}
    <3>1. next.go_blocks \in Seq(V) /\ x \in V
      BY DEF AtMost
    <3> HIDE DEF V
    <3>2. [next.go_blocks EXCEPT ![index] = x] \in Seq(V)
      BY <3>1
    <3> QED  BY <3>2 DEF V
  <2>2. Len(after.go_blocks) \in Nat
    BY <2>1
  <2> QED  BY <1>1, <1>2, <2>2 DEF GoGrows
<1> QED  BY <1>1, <1>3 DEF GoGrows

LEMMA AssertedSame ==
  ASSUME NEW b \in GoBlockType, NEW text, NEW is_detail, NEW line
  PROVE  /\ Asserted(b, text, is_detail).name = b.name
         /\ Asserted(b, text, is_detail).failed = b.failed
         /\ Located(b, line).name = b.name /\ Located(b, line).failed = b.failed
PROOF
<1> DEFINE details == AtMost(Texts, MaxGoDetails)
           more == PushUnique(b.details, text, MaxGoDetails)
<1>1. Asserted(b, text, is_detail) = IF b.assertion = 0 THEN [b EXCEPT !.assertion = text]
                                     ELSE IF is_detail THEN [b EXCEPT !.details = more]
                                     ELSE b
  BY DEF Asserted
<1> HIDE DEF details, more
<1>2. b \in [name : Names, location : OptionalPlaces, location_rank : {0, 1, 255},
             assertion : OptionalTexts, panic_message : OptionalTexts,
             details : details, failed : BOOLEAN]
  BY DEF GoBlockType, details
<1> QED  BY <1>1, <1>2 DEF Located

LEMMA WithBlockFound ==
  ASSUME NEW acc \in AccType, NEW name \in Names, NEW any \in BOOLEAN
  PROVE  LET next == WithGoBlock(acc, name, any)
             index == GoBlock(next, name, any)
         IN  /\ next \in AccType
             /\ index # 0 => /\ index \in DOMAIN next.go_blocks
                             /\ next.go_blocks[index] \in GoBlockType
PROOF
<1> DEFINE next == WithGoBlock(acc, name, any)
           index == GoBlock(next, name, any)
<1>1. GoIn(acc, GoBlockType) /\ NewGoBlock(name) \in GoBlockType
  BY NewBlockType DEF GoIn, AccType
<1>2. GoStep(next, acc, GoBlockType, acc.go_running_name, acc.go_panic_name)
  BY <1>1, WithBlockStep
<1>3. next \in AccType
  <2>1. acc.go_running_name \in OptionalNames /\ acc.go_panic_name \in OptionalNames
    BY DEF AccType
  <2> HIDE DEF next
  <2> QED  BY <1>2, <2>1, GoStepThen
<1>4. index # 0 => index \in DOMAIN next.go_blocks /\ next.go_blocks[index] \in GoBlockType
  <2> HIDE DEF next
  <2> QED  BY <1>1, <1>2, FoundBlock
<1> QED  BY <1>3, <1>4

LEMMA GoPanicGrows ==
  ASSUME NEW acc \in AccType, NEW line, GoName(acc) \in Names
  PROVE  GoGrows(GoPanic(acc, line).go_blocks, acc.go_blocks, 1)
PROOF
<1> DEFINE name == GoName(acc)
           any == TRUE
           next == WithGoBlock(acc, name, any)
           index == GoBlock(next, name, any)
           b == next.go_blocks[index]
           said == IF b.panic_message = 0 THEN line.go_panic ELSE b.panic_message
           x == [b EXCEPT !.panic_message = said]
<1>1. name \in Names /\ any \in BOOLEAN
  OBVIOUS
<1>2. /\ next.go_blocks \in AtMost(GoBlockType, MaxGoBlocks)
      /\ GoGrows(next.go_blocks, acc.go_blocks, 1)
  <2> HIDE DEF any, name
  <2> QED  BY <1>1, WithBlockGrows
<1>3. /\ next \in AccType
      /\ index # 0 => index \in DOMAIN next.go_blocks /\ b \in GoBlockType
  <2> HIDE DEF any, name
  <2> QED  BY <1>1, WithBlockFound
<1>4. GoPanic(acc, line) = IF index = 0 THEN next
                           ELSE [next EXCEPT !.go_blocks[index].panic_message = said,
                                             !.go_panic_name = name]
  BY DEF GoPanic
<1>5. CASE index = 0
  BY <1>2, <1>4, <1>5
<1>6. CASE index # 0
  <2> HIDE DEF said, index, next, name
  <2>1. GoPanic(acc, line).go_blocks = [next.go_blocks EXCEPT ![index] = x]
    BY <1>3, <1>4, <1>6 DEF AccType
  <2>2. x.name = b.name /\ x.failed = b.failed
    <3> HIDE DEF b
    <3> QED  BY <1>3, <1>6 DEF GoBlockType
  <2> HIDE DEF x
  <2> QED  BY <1>2, <1>3, <1>6, <2>1, <2>2, ChangedGrows
<1> QED  BY <1>5, <1>6

LEMMA GoPlaceGrows ==
  ASSUME NEW acc \in AccType, NEW line, GoName(acc) \in Names
  PROVE  GoGrows(GoPlace(acc, line).go_blocks, acc.go_blocks, 1)
PROOF
<1> DEFINE name == GoName(acc)
           any == InGoPanic(acc)
           next == WithGoBlock(acc, name, any)
           index == GoBlock(next, name, any)
           b == next.go_blocks[index]
           located == Located(b, line)
           x == IF line.go_message = 0 THEN located
                ELSE Asserted(located, line.go_message, line.go_detail)
<1>1. name \in Names /\ any \in BOOLEAN
  BY DEF InGoPanic
<1>2. /\ next.go_blocks \in AtMost(GoBlockType, MaxGoBlocks)
      /\ GoGrows(next.go_blocks, acc.go_blocks, 1)
  <2> HIDE DEF any, name
  <2> QED  BY <1>1, WithBlockGrows
<1>3. /\ next \in AccType
      /\ index # 0 => index \in DOMAIN next.go_blocks /\ b \in GoBlockType
  <2> HIDE DEF any, name
  <2> QED  BY <1>1, WithBlockFound
<1>4. GoPlace(acc, line) = IF line.stack_frame /\ line.go_runtime THEN acc
                           ELSE IF index = 0 THEN next
                           ELSE [next EXCEPT !.go_blocks[index] = x]
  BY DEF GoPlace
<1>5. Len(acc.go_blocks) \in Nat /\ GoGrows(acc.go_blocks, acc.go_blocks, 1)
  BY DEF AccType, AtMost, GoGrows
<1>6. CASE (line.stack_frame /\ line.go_runtime) \/ index = 0
  BY <1>2, <1>4, <1>5, <1>6
<1>7. CASE ~(line.stack_frame /\ line.go_runtime) /\ index # 0
  <2>1. x.name = b.name /\ x.failed = b.failed
    <3>1. b \in GoBlockType
      BY <1>3, <1>7
    <3> HIDE DEF b
    <3>2. located.name = b.name /\ located.failed = b.failed
      BY <3>1, AssertedSame
    <3>3. CASE line.go_message = 0
      BY <3>2, <3>3
    <3>4. CASE line.go_message # 0
      <4>2. /\ Asserted(located, line.go_message, line.go_detail).name = located.name
            /\ Asserted(located, line.go_message, line.go_detail).failed = located.failed
        <5> DEFINE more == PushUnique(located.details, line.go_message, MaxGoDetails)
        <5>1. Asserted(located, line.go_message, line.go_detail)
                = IF located.assertion = 0 THEN [located EXCEPT !.assertion = line.go_message]
                  ELSE IF line.go_detail THEN [located EXCEPT !.details = more]
                  ELSE located
          BY DEF Asserted
        <5> DEFINE rank == LocationRank(line)
                   details == AtMost(Texts, MaxGoDetails)
        <5>2. located = IF b.location = 0 \/ rank < b.location_rank
                        THEN [b EXCEPT !.location = line.go_place, !.location_rank = rank] ELSE b
          BY DEF Located
        <5>3. b \in [name : Names, location : OptionalPlaces, location_rank : {0, 1, 255},
                     assertion : OptionalTexts, panic_message : OptionalTexts,
                     details : details, failed : BOOLEAN]
          BY <3>1 DEF GoBlockType
        <5> HIDE DEF more, rank, details, located
        <5> QED  BY <5>1, <5>2, <5>3
      <4> QED  BY <3>2, <3>4, <4>2
    <3> QED  BY <3>3, <3>4
  <2> HIDE DEF x, b, index, next
  <2>2. GoPlace(acc, line).go_blocks = [next.go_blocks EXCEPT ![index] = x]
    BY <1>3, <1>4, <1>7 DEF AccType
  <2>3. x.name = next.go_blocks[index].name /\ x.failed = next.go_blocks[index].failed
    BY <2>1 DEF b
  <2> QED  BY <1>2, <1>3, <1>7, <2>2, <2>3, ChangedGrows
<1> QED  BY <1>6, <1>7

LEMMA DetailBlockGrows ==
  ASSUME NEW acc \in AccType, NEW line, GoName(acc) # 0 => GoName(acc) \in Names
  PROVE  LET next == WithDetailBlock(acc, line)
         IN  /\ next \in AccType /\ next.go_blocks \in AtMost(GoBlockType, MaxGoBlocks)
             /\ GoGrows(next.go_blocks, acc.go_blocks, IF line.go_detail THEN 1 ELSE 0)
PROOF
<1> DEFINE name == GoName(acc)
           any == InGoPanic(acc)
           next == WithGoBlock(acc, name, any)
           more == IF line.go_detail THEN 1 ELSE 0
<1>1. any \in BOOLEAN
  BY DEF InGoPanic
<1>2. /\ Len(acc.go_blocks) \in Nat /\ GoGrows(acc.go_blocks, acc.go_blocks, more)
      /\ acc.go_blocks \in AtMost(GoBlockType, MaxGoBlocks)
  BY DEF AccType, AtMost, GoGrows
<1>3. CASE ~TriesGoDetail(acc, line)
  BY <1>2, <1>3 DEF WithDetailBlock
<1>4. CASE TriesGoDetail(acc, line)
  <2>1. name \in Names /\ WithDetailBlock(acc, line) = next
    BY <1>4 DEF TriesGoDetail, WithDetailBlock
  <2>2. line.go_detail \/ GoBlock(acc, name, any) # 0
    BY <1>4 DEF TriesGoDetail, AwaitsAssertion
  <2>3. /\ next.go_blocks \in AtMost(GoBlockType, MaxGoBlocks)
        /\ GoGrows(next.go_blocks, acc.go_blocks, 1)
        /\ GoBlock(acc, name, any) # 0 => next = acc
    <3> HIDE DEF name, any
    <3> QED  BY <1>1, <2>1, WithBlockGrows
  <2>4. next \in AccType
    <3> HIDE DEF name, any
    <3> QED  BY <1>1, <2>1, WithBlockFound
  <2>5. GoGrows(next.go_blocks, acc.go_blocks, more)
    <3> HIDE DEF next, name, any
    <3>1. CASE line.go_detail
      BY <2>3, <3>1
    <3>2. CASE ~line.go_detail
      BY <1>2, <2>2, <2>3, <3>2
    <3> QED  BY <3>1, <3>2
  <2> QED  BY <2>1, <2>3, <2>4, <2>5
<1> QED  BY <1>3, <1>4

LEMMA GoDetailGrows ==
  ASSUME NEW acc \in AccType, NEW line, GoName(acc) # 0 => GoName(acc) \in Names,
         TakesGoDetail(acc, line)
  PROVE  GoGrows(GoDetail(acc, line).go_blocks, acc.go_blocks, IF line.go_detail THEN 1 ELSE 0)
PROOF
<1> DEFINE name == GoName(acc)
           any == InGoPanic(acc)
           next == WithDetailBlock(acc, line)
           index == GoBlock(next, name, any)
           b == next.go_blocks[index]
           x == Asserted(b, line.text, line.go_detail)
           more == IF line.go_detail THEN 1 ELSE 0
<1>1. any \in BOOLEAN /\ more \in Nat
  BY DEF InGoPanic
<1>2. /\ next \in AccType /\ next.go_blocks \in AtMost(GoBlockType, MaxGoBlocks)
      /\ GoGrows(next.go_blocks, acc.go_blocks, more)
  BY DetailBlockGrows
<1>3. index # 0
  BY DEF TakesGoDetail
<1>4. index \in DOMAIN next.go_blocks /\ b \in GoBlockType
  <2> HIDE DEF next, any, name
  <2>1. IsIndex(index, next.go_blocks, name, any)
    BY <1>1, <1>2, GoBlockIndex
  <2> HIDE DEF index
  <2> QED  BY <1>2, <1>3, <2>1 DEF IsIndex, AtMost
<1>5. x.name = b.name /\ x.failed = b.failed
  <2> HIDE DEF b
  <2> QED  BY <1>4, AssertedSame
<1>6. GoDetail(acc, line) = [next EXCEPT !.go_blocks[index] = x]
  BY DEF GoDetail
<1> HIDE DEF x, index, next, more
<1>7. GoDetail(acc, line).go_blocks = [next.go_blocks EXCEPT ![index] = x]
  BY <1>2, <1>6 DEF AccType
<1>8. GoGrows(GoDetail(acc, line).go_blocks, acc.go_blocks, more)
  BY <1>1, <1>2, <1>4, <1>5, <1>7, ChangedGrows DEF b
<1> QED  BY <1>8 DEF more

LEMMA ObserveGrows ==
  ASSUME NEW acc \in AccType, NEW line \in LineType
  PROVE  LET next == ObserveLine(acc, line)
         IN  /\ GoGrows(next.go_blocks, acc.go_blocks, Bit(MakesGoBlock(line)))
             /\ line.go_run = 0 /\ line.go_fail # 0 /\ Len(acc.go_blocks) < MaxGoBlocks =>
                  Bounded[line.go_fail] \in FailedOf(next.go_blocks)
PROOF
<1> DEFINE next == ObserveLine(acc, line)
           more == Bit(MakesGoBlock(line))
           fails == line.go_run = 0 /\ line.go_fail # 0
           detail == IF line.go_detail THEN 1 ELSE 0
<1>1. /\ more \in {0, 1} /\ detail \in {0, 1}
      /\ line.go_fail # 0 \/ line.go_place # 0 \/ line.go_panic # 0 => more = 1
      /\ detail <= more
  BY DEF Bit, MakesGoBlock
<1>2. GoName(acc) # 0 => GoName(acc) \in Names
  BY DEF GoName, AccType, OptionalNames
<1>3. acc.go_blocks \in AtMost(GoBlockType, MaxGoBlocks) /\ Len(acc.go_blocks) \in Nat
  BY DEF AccType, AtMost
<1>4. next \in AccType
  <2>1. Keeps(next, GoBlockType, FailureType)
    <3>1. Keeps(acc, GoBlockType, FailureType) /\ OpenIn(acc, FailureType)
      <4>1. /\ acc.go_blocks \in AtMost(GoBlockType, MaxGoBlocks)
            /\ acc.failures \in AtMost(FailureType, MaxLogFailures)
            /\ acc.gtest_current \in GtestBlockType /\ acc.current \in RustBlockType
        BY DEF AccType
      <4> QED  BY <4>1, EvidenceType DEF Keeps, OpenIn
    <3> QED  BY <3>1, AdmitsLineType, ObserveStep
  <2> QED  BY <2>1 DEF Keeps
<1>5. Len(next.go_blocks) \in Nat
  <2> HIDE DEF next
  <2> QED  BY <1>4 DEF AccType, AtMost
<1>6. ASSUME NEW n \in {0, 1}, n <= more, GoGrows(next.go_blocks, acc.go_blocks, n)
      PROVE  GoGrows(next.go_blocks, acc.go_blocks, more)
  <2> HIDE DEF next, more
  <2> QED  BY <1>1, <1>3, <1>5, <1>6 DEF GoGrows
<1>7. CASE line.go_run # 0
  <2>1. next = GoRun(acc, line)
    BY <1>7 DEF ObserveLine
  <2>2. next.go_blocks = Compacted(acc.go_blocks)
    BY <2>1 DEF GoRun, AccType
  <2>3. GoGrows(next.go_blocks, acc.go_blocks, 0)
    BY <1>3, <2>2, CompactedGrows
  <2> QED  BY <1>1, <1>6, <1>7, <2>3
<1>8. CASE line.go_run = 0 /\ line.go_fail # 0
  <2>1. next = GoFail(acc, line) /\ Bounded[line.go_fail] \in Names
    BY <1>8, BoundedName DEF ObserveLine, LineType, OptionalNames
  <2>2. /\ GoGrows(next.go_blocks, acc.go_blocks, 1)
        /\ Len(acc.go_blocks) < MaxGoBlocks => Bounded[line.go_fail] \in FailedOf(next.go_blocks)
    BY <2>1, GoFailGrows
  <2> QED  BY <1>1, <1>6, <1>8, <2>2
<1> DEFINE rest == line.go_run = 0 /\ line.go_fail = 0
<1>9. CASE rest /\ line.go_pass /\ acc.go_running_name # 0
  <2>1. next = GoPass(acc)
    BY <1>9 DEF ObserveLine
  <2>2. next.go_blocks = acc.go_blocks
    BY <2>1 DEF GoPass, AccType
  <2>3. GoGrows(next.go_blocks, acc.go_blocks, 0)
    BY <1>3, <2>2 DEF GoGrows
  <2> QED  BY <1>1, <1>6, <1>9, <2>3
<1> DEFINE goes == rest /\ ~(line.go_pass /\ acc.go_running_name # 0)
<1>10. CASE goes /\ line.go_panic # 0 /\ GoName(acc) # 0
  <2>1. next = GoPanic(acc, line)
    BY <1>10 DEF ObserveLine
  <2>2. GoGrows(next.go_blocks, acc.go_blocks, 1)
    BY <1>2, <1>10, <2>1, GoPanicGrows
  <2> QED  BY <1>1, <1>6, <1>10, <2>2
<1>11. CASE goes /\ ~(line.go_panic # 0 /\ GoName(acc) # 0) /\ line.go_place # 0 /\ GoName(acc) # 0
  <2>1. next = GoPlace(acc, line)
    BY <1>11 DEF ObserveLine
  <2>2. GoGrows(next.go_blocks, acc.go_blocks, 1)
    BY <1>2, <1>11, <2>1, GoPlaceGrows
  <2> QED  BY <1>1, <1>6, <1>11, <2>2
<1> DEFINE last == /\ goes /\ ~(line.go_panic # 0 /\ GoName(acc) # 0)
                   /\ ~(line.go_place # 0 /\ GoName(acc) # 0)
<1>12. CASE last /\ TakesGoDetail(acc, line)
  <2>1. next = GoDetail(acc, line)
    BY <1>12 DEF ObserveLine
  <2>2. GoGrows(next.go_blocks, acc.go_blocks, detail)
    BY <1>2, <1>12, <2>1, GoDetailGrows
  <2> QED  BY <1>1, <1>6, <1>12, <2>2
<1>13. CASE last /\ ~TakesGoDetail(acc, line)
  <2>1. ~TakenByGo(acc, line)
    BY <1>13 DEF TakenByGo
  <2>2. next.go_blocks = WithDetailBlock(acc, line).go_blocks
    BY <2>1, ObserveFailures
  <2>3. GoGrows(next.go_blocks, acc.go_blocks, detail)
    BY <1>2, <2>2, DetailBlockGrows
  <2> QED  BY <1>1, <1>6, <1>13, <2>3
<1> QED  BY <1>7, <1>8, <1>9, <1>10, <1>11, <1>12, <1>13

----------------------------------------------------------------------------
(* What a line does to the collection *)

Unrepeated(names) == \A i, j \in DOMAIN names : names[i] = names[j] => i = j

(* What no line undoes.                                                    *)
Advances(next, acc, line) ==
  /\ Keeping(next, acc, line)
  /\ CutName(next.current)
  /\ GoGrows(next.go_blocks, acc.go_blocks, Bit(MakesGoBlock(line)))
  /\ Unrepeated(next.failed_names)
  /\ Range(acc.failed_names) \subseteq Range(next.failed_names)
  /\ Len(acc.failed_names) <= Len(next.failed_names)

(* What is noted of a line that is observed.                               *)
Notes(next, acc, line) ==
  /\ line.go_run = 0 /\ line.go_fail # 0 /\ Len(acc.go_blocks) < MaxGoBlocks =>
       Bounded[line.go_fail] \in FailedOf(next.go_blocks)
  /\ ~TakenByGo(acc, line) /\ line.gtest_run = 0 /\ line.gtest_failure =>
       (IF acc.gtest_running_name = 0 THEN UnknownGtest ELSE acc.gtest_running_name) \in Named(next)
  /\ ~TakenByGo(acc, line) /\ ~TakenByGtest(acc, line) =>
       /\ line.rust_failed # 0 => \/ Len(next.failed_names) >= MaxLogFailures
                                  \/ Bounded[line.rust_failed] \in Range(next.failed_names)
       /\ RustNameIn(line) # 0 => Bounded[RustNameIn(line)] \in Named(next)

LEMMA PushedUnrepeated ==
  ASSUME NEW names \in AtMost(Names, MaxLogFailures), NEW name \in Names, Unrepeated(names)
  PROVE  LET more == PushUnique(names, name, MaxLogFailures)
         IN  /\ Unrepeated(more) /\ Len(names) <= Len(more)
             /\ Range(names) \subseteq Range(more)
             /\ Len(more) >= MaxLogFailures \/ name \in Range(more)
PROOF
<1>1. names \in Seq(Names) /\ Len(names) \in Nat /\ DOMAIN names = 1..Len(names)
      /\ MaxLogFailures \in Nat
  BY LimitsNat DEF AtMost
<1>2. CASE Len(names) >= MaxLogFailures \/ name \in Range(names)
  BY <1>1, <1>2 DEF PushUnique
<1>3. CASE ~(Len(names) >= MaxLogFailures \/ name \in Range(names))
  <2> DEFINE more == Append(names, name)
  <2>1. /\ Len(more) = Len(names) + 1 /\ DOMAIN more = 1..(Len(names) + 1)
        /\ more[Len(names) + 1] = name /\ \A i \in DOMAIN names : more[i] = names[i]
    BY <1>1
  <2>2. \A i \in DOMAIN names : names[i] # name
    BY <1>3 DEF Range
  <2>3. PushUnique(names, name, MaxLogFailures) = more
    BY <1>3 DEF PushUnique
  <2> HIDE DEF more
  <2>4. Unrepeated(more)
    <3> SUFFICES ASSUME NEW i \in DOMAIN more, NEW j \in DOMAIN more, more[i] = more[j]
                 PROVE  i = j
      BY DEF Unrepeated
    <3>1. i \in DOMAIN names /\ j \in DOMAIN names => i = j
      BY <2>1 DEF Unrepeated
    <3> QED  BY <1>1, <2>1, <2>2, <3>1
  <2>5. Range(names) \subseteq Range(more) /\ name \in Range(more)
    BY <1>1, <2>1 DEF Range
  <2> QED  BY <1>1, <2>1, <2>3, <2>4, <2>5
<1> QED  BY <1>2, <1>3

LEMMA ObserveAdvances ==
  ASSUME NEW acc, Sound(acc), NEW line \in LineType, CutName(acc.current),
         Unrepeated(acc.failed_names), 0 \in {line.rust_block, line.rust_panic}
  PROVE  LET next == ObserveLine(acc, line)
         IN  Advances(next, acc, line) /\ Notes(next, acc, line)
PROOF
<1> DEFINE next == ObserveLine(acc, line)
           some == IF acc.gtest_running_name = 0 THEN UnknownGtest ELSE acc.gtest_running_name
<1>1. acc \in AccType /\ acc.failed_names \in AtMost(Names, MaxLogFailures)
  BY DEF Sound, AccType
<1>2. Blocks(next, acc, line)
  BY <1>1, SoundKeeps, AdmitsLineType, ObserveStep
<1>3. Keeping(next, acc, line) /\ CutName(next.current)
  BY ObserveKeeps
<1>4. /\ GoGrows(next.go_blocks, acc.go_blocks, Bit(MakesGoBlock(line)))
      /\ line.go_run = 0 /\ line.go_fail # 0 /\ Len(acc.go_blocks) < MaxGoBlocks =>
           Bounded[line.go_fail] \in FailedOf(next.go_blocks)
  BY <1>1, ObserveGrows
<1> HIDE DEF next
<1>5. next.failed_names = acc.failed_names \/ next.failed_names = NextRustNames(acc, line)
  BY <1>2 DEF Blocks, SameBlocks, GtestBlocks, RustBlocks
<1>6. line.rust_failed # 0 => Bounded[line.rust_failed] \in Names
  BY BoundedName DEF LineType, OptionalNames
<1>7. LET names == NextRustNames(acc, line)
      IN  /\ Unrepeated(names) /\ Len(acc.failed_names) <= Len(names)
          /\ Range(acc.failed_names) \subseteq Range(names)
          /\ line.rust_failed # 0 => \/ Len(names) >= MaxLogFailures
                                     \/ Bounded[line.rust_failed] \in Range(names)
  <2>1. Len(acc.failed_names) \in Nat
    BY <1>1 DEF AtMost
  <2> QED  BY <1>1, <1>6, <2>1, PushedUnrepeated DEF NextRustNames
<1>8. Len(acc.failed_names) <= Len(acc.failed_names)
  BY <1>1 DEF AtMost
<1>9. Advances(next, acc, line)
  BY <1>3, <1>4, <1>5, <1>7, <1>8 DEF Advances
<1>10. ASSUME ~TakenByGo(acc, line), line.gtest_run = 0, line.gtest_failure
       PROVE  some \in Named(next)
  <2>1. TakenByGtest(acc, line) /\ ClosesGtest(acc, line)
    BY <1>10 DEF TakenByGtest, ClosesGtest
  <2>2. next.gtest_current = NextGtestBlock(acc, line)
    BY <1>2, <1>10, <2>1 DEF Blocks, GtestBlocks
  <2>3. next.gtest_current.name = some /\ next.gtest_current.name # 0
    BY <1>1, <1>10, <2>1, <2>2, GtestSlot
  <2> HIDE DEF some
  <2> QED  BY <2>3 DEF Named
<1>11. ASSUME ~TakenByGo(acc, line), ~TakenByGtest(acc, line)
       PROVE  /\ line.rust_failed # 0 => \/ Len(next.failed_names) >= MaxLogFailures
                                         \/ Bounded[line.rust_failed] \in Range(next.failed_names)
              /\ RustNameIn(line) # 0 => Bounded[RustNameIn(line)] \in Named(next)
  <2>1. RustBlocks(next, acc, line)
    BY <1>2, <1>11 DEF Blocks
  <2>2. ASSUME RustNameIn(line) # 0
        PROVE  Bounded[RustNameIn(line)] \in Named(next)
    <3>1. next.current.name = Bounded[RustNameIn(line)] /\ next.current.name # 0
      BY <1>1, <2>1, <2>2, RustSlot DEF RustBlocks
    <3> QED  BY <3>1 DEF Named
  <2> QED  BY <1>7, <2>1, <2>2 DEF RustBlocks
<1>12. Notes(next, acc, line)
  BY <1>4, <1>10, <1>11 DEF Notes
<1> QED  BY <1>9, <1>12 DEF next

(* A line that is not observed. *)
LEMMA SkipAdvances ==
  ASSUME NEW acc \in AccType, CutName(acc.current), Unrepeated(acc.failed_names), NEW line
  PROVE  Advances(acc, acc, line)
PROOF
<1>1. Len(acc.failures) \in Nat /\ Len(acc.go_blocks) \in Nat /\ Len(acc.failed_names) \in Nat
  BY DEF AccType, AtMost
<1>2. Keeping(acc, acc, line)
  BY <1>1, BlockGoesOn
<1>3. GoGrows(acc.go_blocks, acc.go_blocks, Bit(MakesGoBlock(line)))
  <2> DEFINE more == Bit(MakesGoBlock(line))
  <2>1. more \in {0, 1}
    BY DEF Bit
  <2> HIDE DEF more
  <2>2. GoGrows(acc.go_blocks, acc.go_blocks, more)
    BY <1>1, <2>1 DEF GoGrows
  <2> QED  BY <2>2 DEF more
<1> QED  BY <1>1, <1>2, <1>3 DEF Advances

----------------------------------------------------------------------------
(* What was collected of the lines *)

BlockLines(lines) == {i \in DOMAIN lines : MakesBlock(lines[i])}
GoLines(lines, i) == {j \in 1..(i - 1) : MakesGoBlock(lines[j])}
LogLine ==
  {line \in FormatLine : /\ 0 \in {line.go_run, line.go_fail}
                         /\ 0 \in {line.rust_block, line.rust_panic}}

LEMMA IntervalSubset ==
  ASSUME NEW n \in Nat, NEW S \in SUBSET (1..n)
  PROVE  IsFiniteSet(S) /\ Cardinality(S) \in Nat /\ Cardinality(S) <= n
PROOF
<1>1. IsFiniteSet(1..n) /\ Cardinality(1..n) = n
  BY FS_Interval
<1>2. IsFiniteSet(S) /\ Cardinality(S) <= Cardinality(1..n)
  BY <1>1, FS_Subset
<1> QED  BY <1>1, <1>2, FS_CardinalityType

(* One position more, with or without the property.                        *)
LEMMA OneMore ==
  ASSUME NEW n \in Nat, NEW S \in SUBSET (1..n), NEW yes \in BOOLEAN,
         NEW T, T = S \cup (IF yes THEN {n + 1} ELSE {})
  PROVE  Cardinality(T) = Cardinality(S) + Bit(yes)
PROOF
<1>1. IsFiniteSet(S) /\ Cardinality(S) \in Nat
  BY IntervalSubset
<1>2. CASE yes
  <2>1. n + 1 \notin S /\ T = S \cup {n + 1}
    BY <1>2
  <2> QED  BY <1>1, <1>2, <2>1, FS_AddElement DEF Bit
<1>3. CASE ~yes
  BY <1>1, <1>3 DEF Bit
<1> QED  BY <1>2, <1>3

LEMMA LinesCounted ==
  ASSUME NEW longer, NEW lines, NEW line, Extends(longer, lines, line)
  PROVE  LET n == Len(lines)
         IN  /\ Cardinality(BlockLines(lines)) \in Nat
             /\ Cardinality(BlockLines(longer)) = Cardinality(BlockLines(lines)) + Bit(MakesBlock(line))
             /\ Cardinality(GoLines(lines, n + 1)) \in Nat
             /\ Cardinality(GoLines(longer, n + 2)) = Cardinality(GoLines(lines, n + 1)) + Bit(MakesGoBlock(line))
             /\ \A i \in 1..(n + 1) : GoLines(longer, i) = GoLines(lines, i)
             /\ BlockNames(longer) =
                  BlockNames(lines) \cup (IF RustNameIn(line) # 0 /\ ~line.gtest_failure
                                          THEN {Bounded[RustNameIn(line)]} ELSE {})
PROOF
<1> DEFINE n == Len(lines)
<1>1. /\ n \in Nat /\ DOMAIN lines = 1..n /\ Len(longer) = n + 1 /\ DOMAIN longer = 1..(n + 1)
      /\ longer[n + 1] = line /\ \A i \in 1..n : longer[i] = lines[i]
  BY DEF Extends
<1> HIDE DEF n
<1>2. 1..(n + 1) = (1..n) \cup {n + 1} /\ n + 1 \notin 1..n
  BY <1>1
<1>3. /\ BlockLines(lines) \in SUBSET (1..n)
      /\ BlockLines(longer) = BlockLines(lines) \cup (IF MakesBlock(line) THEN {n + 1} ELSE {})
  BY <1>1, <1>2 DEF BlockLines
<1>4. (n + 1) - 1 = n /\ (n + 2) - 1 = n + 1
  BY <1>1
<1>5. /\ GoLines(lines, n + 1) \in SUBSET (1..n)
      /\ GoLines(longer, n + 2)
           = GoLines(lines, n + 1) \cup (IF MakesGoBlock(line) THEN {n + 1} ELSE {})
  <2>1. GoLines(lines, n + 1) = {j \in 1..n : MakesGoBlock(lines[j])}
    BY <1>4 DEF GoLines
  <2>2. GoLines(longer, n + 2) = {j \in 1..(n + 1) : MakesGoBlock(longer[j])}
    BY <1>4 DEF GoLines
  <2> QED  BY <1>1, <1>2, <2>1, <2>2
<1>6. MakesBlock(line) \in BOOLEAN /\ MakesGoBlock(line) \in BOOLEAN
  BY DEF MakesBlock, MakesGoBlock
<1>7. /\ Cardinality(BlockLines(lines)) \in Nat
      /\ Cardinality(BlockLines(longer)) = Cardinality(BlockLines(lines)) + Bit(MakesBlock(line))
  BY <1>1, <1>3, <1>6, IntervalSubset, OneMore
<1>8. /\ Cardinality(GoLines(lines, n + 1)) \in Nat
      /\ Cardinality(GoLines(longer, n + 2)) = Cardinality(GoLines(lines, n + 1)) + Bit(MakesGoBlock(line))
  BY <1>1, <1>5, <1>6, IntervalSubset, OneMore
<1>9. \A i \in 1..(n + 1) : GoLines(longer, i) = GoLines(lines, i)
  <2> SUFFICES ASSUME NEW i \in 1..(n + 1) PROVE GoLines(longer, i) = GoLines(lines, i)
    OBVIOUS
  <2>1. \A j \in 1..(i - 1) : j \in 1..n
    BY <1>1
  <2> QED  BY <1>1, <2>1 DEF GoLines
<1> DEFINE names(s) == {j \in DOMAIN s : RustNameIn(s[j]) # 0 /\ ~s[j].gtest_failure}
           yes == RustNameIn(line) # 0 /\ ~line.gtest_failure
<1>10. names(longer) = names(lines) \cup (IF yes THEN {n + 1} ELSE {})
  BY <1>1, <1>2
<1>11. \A j \in names(lines) : longer[j] = lines[j]
  BY <1>1
<1>12. /\ BlockNames(longer) = {Bounded[RustNameIn(longer[j])] : j \in names(longer)}
       /\ BlockNames(lines) = {Bounded[RustNameIn(lines[j])] : j \in names(lines)}
  BY DEF BlockNames
<1> HIDE DEF names, yes
<1>13. BlockNames(longer) = BlockNames(lines) \cup (IF yes THEN {Bounded[RustNameIn(line)]} ELSE {})
  BY <1>1, <1>10, <1>11, <1>12
<1> QED  BY <1>7, <1>8, <1>9, <1>13 DEF n, yes

(* Every block was made by a line, and a test named by a block's line is   *)
(* that of a block, or the line made none.                                 *)
Counted(acc, lines) ==
  /\ Taken(acc) <= Cardinality(BlockLines(lines))
  /\ IsFiniteSet(BlockNames(lines))
  /\ Len(acc.failures) < MaxLogFailures =>
       Taken(acc) + Cardinality(BlockNames(lines) \ Named(acc)) <= Cardinality(BlockLines(lines))
  /\ Len(acc.go_blocks) <= Cardinality(GoLines(lines, Len(lines) + 1))

LEMMA TakenNat ==
  ASSUME NEW acc \in AccType
  PROVE  Len(acc.failures) \in Nat /\ Taken(acc) \in Nat
PROOF
<1> DEFINE a == Bit(acc.current.name # 0)
           b == Bit(acc.gtest_current.name # 0)
<1>1. Len(acc.failures) \in Nat /\ a \in {0, 1} /\ b \in {0, 1}
  BY DEF AccType, AtMost, Bit
<1>2. Taken(acc) = Len(acc.failures) + a + b
  BY DEF Taken
<1> HIDE DEF a, b
<1> QED  BY <1>1, <1>2

LEMMA CountedNext ==
  ASSUME NEW acc \in AccType, NEW next \in AccType, NEW line, Advances(next, acc, line),
         NEW lines, NEW longer, Extends(longer, lines, line), Counted(acc, lines)
  PROVE  Counted(next, longer)
PROOF
<1> DEFINE n == Len(lines)
           made == Cardinality(BlockLines(lines))
           m == Bit(MakesBlock(line))
           g == Bit(MakesGoBlock(line))
           extra == IF RustNameIn(line) # 0 /\ ~line.gtest_failure
                    THEN {Bounded[RustNameIn(line)]} ELSE {}
<1>1. /\ made \in Nat /\ Cardinality(BlockLines(longer)) = made + m
      /\ Cardinality(GoLines(lines, n + 1)) \in Nat
      /\ Cardinality(GoLines(longer, n + 2)) = Cardinality(GoLines(lines, n + 1)) + g
      /\ BlockNames(longer) = BlockNames(lines) \cup extra
  BY LinesCounted
<1>2. /\ Len(acc.failures) \in Nat /\ Len(next.failures) \in Nat /\ Taken(acc) \in Nat
      /\ Taken(next) \in Nat /\ MaxLogFailures \in Nat
  BY TakenNat, LimitsNat
<1>3. /\ Len(acc.failures) <= Len(next.failures) /\ Taken(next) <= Taken(acc) + m
      /\ Len(next.failures) < MaxLogFailures => Named(acc) \subseteq Named(next)
      /\ Taken(next) <= Taken(acc) \/ line.gtest_failure
           \/ (RustNameIn(line) # 0 /\ Bounded[RustNameIn(line)] \in Named(next))
  BY DEF Advances, Keeping
<1>4. m \in {0, 1} /\ g \in {0, 1} /\ (m = 0 => RustNameIn(line) = 0 /\ ~line.gtest_failure)
  BY DEF Bit, MakesBlock, RustNameIn
<1>5. /\ Taken(acc) <= made /\ IsFiniteSet(BlockNames(lines))
      /\ Len(acc.failures) < MaxLogFailures =>
           Taken(acc) + Cardinality(BlockNames(lines) \ Named(acc)) <= made
      /\ Len(acc.go_blocks) <= Cardinality(GoLines(lines, n + 1))
  BY DEF Counted
<1>6. IsFiniteSet(extra) /\ Cardinality(extra) \in {0, 1} /\ (m = 0 \/ line.gtest_failure => extra = {})
  BY <1>4, FS_EmptySet, FS_Singleton
<1> HIDE DEF m, g, made, extra
<1>7. IsFiniteSet(BlockNames(longer))
  BY <1>1, <1>5, <1>6, FS_Union
<1>8. Taken(next) <= Cardinality(BlockLines(longer))
  BY <1>1, <1>2, <1>3, <1>4, <1>5
<1>9. Len(next.go_blocks) <= Cardinality(GoLines(longer, Len(longer) + 1))
  <2>1. Len(longer) + 1 = n + 2
    BY DEF Extends
  <2>2. Len(next.go_blocks) <= Len(acc.go_blocks) + g
    BY DEF Advances, GoGrows, g
  <2>3. Len(next.go_blocks) \in Nat /\ Len(acc.go_blocks) \in Nat
    BY DEF AccType, AtMost
  <2> QED  BY <1>1, <1>4, <1>5, <2>1, <2>2, <2>3
<1>10. ASSUME Len(next.failures) < MaxLogFailures
       PROVE  Taken(next) + Cardinality(BlockNames(longer) \ Named(next))
                <= Cardinality(BlockLines(longer))
  <2> DEFINE old == BlockNames(lines) \ Named(acc)
             new == BlockNames(longer) \ Named(next)
  <2>1. Len(acc.failures) < MaxLogFailures /\ Named(acc) \subseteq Named(next)
    BY <1>2, <1>3, <1>10
  <2>2. IsFiniteSet(old) /\ Cardinality(old) \in Nat /\ Taken(acc) + Cardinality(old) <= made
    BY <1>5, <2>1, FS_Subset, FS_CardinalityType
  <2>3. new \subseteq old \cup extra
    BY <1>1, <2>1
  <2>4. IsFiniteSet(new) /\ Cardinality(new) \in Nat
    BY <1>7, FS_Subset, FS_CardinalityType
  <2> HIDE DEF old, new
  <2>5. CASE extra = {} \/ extra \subseteq Named(next)
    <3>1. new \subseteq old
      BY <2>3, <2>5 DEF new
    <3>2. Cardinality(new) <= Cardinality(old)
      BY <2>2, <3>1, FS_Subset
    <3> QED  BY <1>1, <1>2, <1>3, <1>4, <2>2, <2>4, <3>2 DEF new
  <2>6. CASE ~(extra = {} \/ extra \subseteq Named(next))
    <3>1. m = 1 /\ Taken(next) <= Taken(acc)
      BY <1>3, <1>4, <1>6, <2>6 DEF extra
    <3>2. Cardinality(new) <= Cardinality(old) + 1
      <4>1. IsFiniteSet(old \cup extra)
        BY <1>6, <2>2, FS_Union
      <4>2. Cardinality(new) <= Cardinality(old \cup extra)
        BY <2>3, <4>1, FS_Subset
      <4>3. PICK e : extra = {e}
        BY <2>6 DEF extra
      <4>4. Cardinality(old \cup {e}) \in {Cardinality(old), Cardinality(old) + 1}
        BY <2>2, FS_AddElement
      <4> QED  BY <2>2, <2>4, <4>2, <4>3, <4>4
    <3> QED  BY <1>1, <1>2, <2>2, <2>4, <3>1, <3>2 DEF new
  <2> QED  BY <2>5, <2>6
<1> QED  BY <1>7, <1>8, <1>9, <1>10 DEF Counted

(* What the lines that name a failed test left.                            *)
GoNoted(acc, lines) ==
  \A i \in DOMAIN lines :
    lines[i].starts /\ lines[i].go_fail # 0 /\ ~GoBlocksMayBeFull(lines, i) =>
      Bounded[lines[i].go_fail] \in FailedOf(acc.go_blocks)
GtestNoted(acc, lines) ==
  Len(acc.failures) < MaxLogFailures =>
    \A i \in DOMAIN lines :
      lines[i].starts /\ lines[i].gtest_run = 0 /\ lines[i].gtest_failure =>
        {GtestTestAt(lines, i), UnknownGtest} \cap Named(acc) # {}
RustNoted(acc, lines) ==
  \A i \in DOMAIN lines :
    lines[i].starts =>
      /\ lines[i].rust_failed # 0 =>
           \/ Len(acc.failed_names) >= MaxLogFailures
           \/ Bounded[lines[i].rust_failed] \in Range(acc.failed_names)
      /\ RustNameIn(lines[i]) # 0 /\ Len(acc.failures) < MaxLogFailures =>
           Bounded[RustNameIn(lines[i])] \in Named(acc)

Collecting(acc, lines) ==
  /\ CutName(acc.current) /\ Unrepeated(acc.failed_names)
  /\ Counted(acc, lines)
  /\ GoNoted(acc, lines)
  /\ NoGo(lines) => GtestNoted(acc, lines)
  /\ NoGo(lines) /\ NoGtestFailure(lines) => RustNoted(acc, lines)

LEMMA GoNotedNext ==
  ASSUME NEW acc \in AccType, NEW next, NEW line \in LogLine, Advances(next, acc, line),
         line.starts => Notes(next, acc, line),
         NEW lines, NEW longer, Extends(longer, lines, line), Counted(acc, lines),
         GoNoted(acc, lines)
  PROVE  GoNoted(next, longer)
PROOF
<1> DEFINE n == Len(lines)
<1>1. /\ n \in Nat /\ DOMAIN lines = 1..n /\ DOMAIN longer = 1..(n + 1)
      /\ longer[n + 1] = line /\ \A i \in 1..n : longer[i] = lines[i]
  BY DEF Extends
<1>2. \A i \in 1..(n + 1) : GoLines(longer, i) = GoLines(lines, i)
  BY LinesCounted
<1>3. FailedOf(acc.go_blocks) \subseteq FailedOf(next.go_blocks)
  BY DEF Advances, GoGrows
<1>4. Len(acc.go_blocks) <= Cardinality(GoLines(lines, n + 1))
  BY DEF Counted
<1>5. Cardinality(GoLines(lines, n + 1)) \in Nat
  BY LinesCounted
<1> HIDE DEF n
<1> SUFFICES ASSUME NEW i \in 1..(n + 1), longer[i].starts, longer[i].go_fail # 0,
                    ~GoBlocksMayBeFull(longer, i)
             PROVE  Bounded[longer[i].go_fail] \in FailedOf(next.go_blocks)
  BY <1>1 DEF GoNoted
<1>6. ~(Cardinality(GoLines(lines, i)) >= MaxGoBlocks)
  BY <1>2 DEF GoBlocksMayBeFull, GoLines
<1>7. CASE i \in 1..n
  <2>1. longer[i] = lines[i] /\ ~GoBlocksMayBeFull(lines, i)
    BY <1>1, <1>6, <1>7 DEF GoBlocksMayBeFull, GoLines
  <2> QED  BY <1>1, <1>3, <1>7, <2>1 DEF GoNoted
<1>8. CASE i = n + 1
  <2>1. Len(acc.go_blocks) \in Nat /\ MaxGoBlocks \in Nat
    BY LimitsNat DEF AccType, AtMost
  <2>2. Len(acc.go_blocks) < MaxGoBlocks
    BY <1>4, <1>5, <1>6, <1>8, <2>1
  <2>3. line.go_run = 0 /\ line.go_fail # 0 /\ line.starts
    BY <1>1, <1>8 DEF LogLine
  <2> QED  BY <1>1, <1>8, <2>2, <2>3 DEF Notes
<1>9. i \in 1..n \/ i = n + 1
  BY <1>1
<1> QED  BY <1>7, <1>8, <1>9

LEMMA GtestNotedNext ==
  ASSUME NEW acc \in AccType, NEW next \in AccType, Consistent(acc), NEW line, Advances(next, acc, line),
         line.starts => Notes(next, acc, line),
         NEW lines, NEW longer, Extends(longer, lines, line), NoGo(longer),
         GtestNow(acc, lines), GtestNoted(acc, lines)
  PROVE  GtestNoted(next, longer)
PROOF
<1> DEFINE n == Len(lines)
<1>1. /\ n \in Nat /\ DOMAIN lines = 1..n /\ DOMAIN longer = 1..(n + 1)
      /\ longer[n + 1] = line /\ \A i \in 1..n : longer[i] = lines[i]
  BY DEF Extends
<1> SUFFICES ASSUME Len(next.failures) < MaxLogFailures,
                    NEW i \in DOMAIN longer, longer[i].starts, longer[i].gtest_run = 0,
                    longer[i].gtest_failure
             PROVE  {GtestTestAt(longer, i), UnknownGtest} \cap Named(next) # {}
  BY DEF GtestNoted
<1>2. Len(acc.failures) < MaxLogFailures /\ Named(acc) \subseteq Named(next)
  <2>1. Len(acc.failures) \in Nat /\ Len(next.failures) \in Nat /\ MaxLogFailures \in Nat
    BY TakenNat, LimitsNat
  <2>2. Len(acc.failures) <= Len(next.failures)
    BY DEF Advances, Keeping
  <2>3. Named(acc) \subseteq Named(next)
    BY DEF Advances, Keeping
  <2> QED  BY <2>1, <2>2, <2>3
<1>3. CASE i \in 1..n
  <2>1. longer[i] = lines[i] /\ i \in 0..n
    BY <1>1, <1>3
  <2>2. GtestTestAt(longer, i) = GtestTestAt(lines, i)
    BY <2>1, TestsStay
  <2> QED  BY <1>1, <1>2, <1>3, <2>1, <2>2 DEF GtestNoted
<1>4. CASE i = n + 1
  <2>1. ~IsGo(line) /\ acc.go_running_name = 0
    BY WithoutLonger DEF GtestNow
  <2>2. ~TakenByGo(acc, line)
    BY <2>1, NotByGo
  <2>3. (IF acc.gtest_running_name = 0 THEN UnknownGtest ELSE acc.gtest_running_name) \in Named(next)
    BY <1>1, <1>4, <2>2 DEF Notes
  <2>4. GtestTestAt(longer, n + 1) = GtestTestAt(lines, n)
    BY <1>1, <1>4, TestsNext
  <2>5. acc.gtest_running_name \in {0, GtestTestAt(lines, n)}
    BY DEF GtestNow
  <2> QED  BY <1>4, <2>3, <2>4, <2>5
<1>5. i \in 1..n \/ i = n + 1
  BY <1>1
<1> QED  BY <1>3, <1>4, <1>5

LEMMA RustNotedNext ==
  ASSUME NEW acc \in AccType, NEW next \in AccType, Consistent(acc), NEW line \in FormatLine,
         Advances(next, acc, line), line.starts => Notes(next, acc, line),
         NEW lines, NEW longer, Extends(longer, lines, line), NoGo(longer), NoGtestFailure(longer),
         GtestNow(acc, lines), RustNow(acc, lines), RustNoted(acc, lines)
  PROVE  RustNoted(next, longer)
PROOF
<1> DEFINE n == Len(lines)
<1>1. /\ n \in Nat /\ DOMAIN lines = 1..n /\ DOMAIN longer = 1..(n + 1)
      /\ longer[n + 1] = line /\ \A i \in 1..n : longer[i] = lines[i]
  BY DEF Extends
<1>2. /\ Len(acc.failures) \in Nat /\ Len(next.failures) \in Nat /\ MaxLogFailures \in Nat
      /\ Len(acc.failed_names) \in Nat /\ Len(next.failed_names) \in Nat
  BY TakenNat, LimitsNat DEF AccType, AtMost
<1>3. /\ Len(acc.failures) <= Len(next.failures)
      /\ Len(next.failures) < MaxLogFailures => Named(acc) \subseteq Named(next)
      /\ Range(acc.failed_names) \subseteq Range(next.failed_names)
      /\ Len(acc.failed_names) <= Len(next.failed_names)
  BY DEF Advances, Keeping
<1> SUFFICES ASSUME NEW i \in DOMAIN longer, longer[i].starts
             PROVE  /\ longer[i].rust_failed # 0 =>
                         \/ Len(next.failed_names) >= MaxLogFailures
                         \/ Bounded[longer[i].rust_failed] \in Range(next.failed_names)
                    /\ RustNameIn(longer[i]) # 0 /\ Len(next.failures) < MaxLogFailures =>
                         Bounded[RustNameIn(longer[i])] \in Named(next)
  BY DEF RustNoted
<1>4. CASE i \in 1..n
  <2>1. longer[i] = lines[i]
    BY <1>1, <1>4
  <2>2. /\ lines[i].rust_failed # 0 =>
             \/ Len(acc.failed_names) >= MaxLogFailures
             \/ Bounded[lines[i].rust_failed] \in Range(acc.failed_names)
        /\ RustNameIn(lines[i]) # 0 /\ Len(acc.failures) < MaxLogFailures =>
             Bounded[RustNameIn(lines[i])] \in Named(acc)
    BY <1>1, <1>4, <2>1 DEF RustNoted
  <2>3. Len(next.failures) < MaxLogFailures => Len(acc.failures) < MaxLogFailures
    BY <1>2, <1>3
  <2>4. Len(acc.failed_names) >= MaxLogFailures => Len(next.failed_names) >= MaxLogFailures
    BY <1>2, <1>3
  <2> QED  BY <1>3, <2>1, <2>2, <2>3, <2>4
<1>5. CASE i = n + 1
  <2>1. /\ ~IsGo(line) /\ acc.go_running_name = 0 /\ ~line.gtest_failure
        /\ acc.gtest_current.name = 0 /\ Unmixed(line)
    BY WithoutLonger DEF GtestNow, RustNow, FormatLine
  <2>2. ~TakenByGo(acc, line)
    BY <2>1, NotByGo
  <2>3. CASE TakenByGtest(acc, line)
    <3>1. line.rust_failed = 0 /\ RustNameIn(line) = 0
      BY <2>1, <2>3 DEF TakenByGtest, Unmixed, RustNameIn
    <3> QED  BY <1>1, <1>5, <3>1
  <2>4. CASE ~TakenByGtest(acc, line)
    BY <1>1, <1>5, <2>2, <2>4 DEF Notes
  <2> QED  BY <2>3, <2>4
<1>6. i \in 1..n \/ i = n + 1
  BY <1>1
<1> QED  BY <1>4, <1>5, <1>6

LEMMA CollectingNext ==
  ASSUME NEW acc, Sound(acc), NEW next \in AccType, NEW line \in LogLine,
         Advances(next, acc, line), line.starts => Notes(next, acc, line),
         NEW lines, NEW longer, Extends(longer, lines, line),
         Evidenced(acc, lines), Collecting(acc, lines)
  PROVE  Collecting(next, longer)
PROOF
<1>1. acc \in AccType /\ Consistent(acc) /\ line \in FormatLine
  BY DEF Sound, LogLine
<1>2. /\ Counted(acc, lines) /\ GoNoted(acc, lines)
      /\ NoGo(lines) => GtestNoted(acc, lines) /\ GtestNow(acc, lines)
      /\ NoGo(lines) /\ NoGtestFailure(lines) => RustNoted(acc, lines) /\ RustNow(acc, lines)
  BY DEF Collecting, Evidenced
<1>3. /\ NoGo(longer) => NoGo(lines)
      /\ NoGtestFailure(longer) => NoGtestFailure(lines)
  BY WithoutLonger
<1>4. Counted(next, longer) /\ GoNoted(next, longer)
  BY <1>1, <1>2, CountedNext, GoNotedNext
<1>5. NoGo(longer) => GtestNoted(next, longer)
  BY <1>1, <1>2, <1>3, GtestNotedNext
<1>6. NoGo(longer) /\ NoGtestFailure(longer) => RustNoted(next, longer)
  BY <1>1, <1>2, <1>3, RustNotedNext
<1> QED  BY <1>4, <1>5, <1>6 DEF Collecting, Advances

LEMMA NoFailuresCollecting == Collecting(NoFailures, <<>>)
PROOF
<1>1. /\ NoFailures.current.name = 0 /\ NoFailures.gtest_current.name = 0
      /\ NoFailures.failures = <<>> /\ NoFailures.failed_names = <<>>
      /\ NoFailures.go_blocks = <<>>
  BY DEF NoFailures, NoRustBlock, NoGtestBlock
<1>2. CutName(NoFailures.current) /\ Unrepeated(NoFailures.failed_names)
  BY <1>1 DEF CutName, Unrepeated
<1>3. BlockLines(<<>>) = {} /\ BlockNames(<<>>) = {} /\ GoLines(<<>>, Len(<<>>) + 1) = {}
  BY DEF BlockLines, BlockNames, GoLines
<1>4. Taken(NoFailures) = 0
  BY <1>1 DEF Taken, Bit
<1>5. BlockNames(<<>>) \ Named(NoFailures) = {}
  BY <1>3
<1>6. /\ Cardinality(BlockLines(<<>>)) = 0 /\ IsFiniteSet(BlockNames(<<>>))
      /\ Cardinality(BlockNames(<<>>) \ Named(NoFailures)) = 0
      /\ Cardinality(GoLines(<<>>, Len(<<>>) + 1)) = 0
  BY <1>3, <1>5, FS_EmptySet
<1> DEFINE none == <<>>
<1>9. Len(NoFailures.go_blocks) = 0
  BY <1>1
<1> HIDE DEF none
<1>7. Counted(NoFailures, none)
  <2>1. /\ Cardinality(BlockLines(none)) = 0 /\ IsFiniteSet(BlockNames(none))
        /\ Cardinality(BlockNames(none) \ Named(NoFailures)) = 0
        /\ Cardinality(GoLines(none, Len(none) + 1)) = 0
    BY <1>6 DEF none
  <2> QED  BY <1>4, <1>9, <2>1 DEF Counted
<1>8. GoNoted(NoFailures, <<>>) /\ GtestNoted(NoFailures, <<>>) /\ RustNoted(NoFailures, <<>>)
  BY DEF GoNoted, GtestNoted, RustNoted
<1> QED  BY <1>2, <1>7, <1>8 DEF Collecting, none

LEMMA LinesCollecting ==
  ASSUME NEW lines \in Seq(LogLine)
  PROVE  /\ Sound(OfAllLines(lines)) /\ Evidenced(OfAllLines(lines), lines)
         /\ Collecting(OfAllLines(lines), lines)
PROOF
<1>0. LogLine \subseteq FormatLine /\ LogLine \subseteq LineType
  BY DEF LogLine, FormatLine
<1> DEFINE P == {s \in Seq(LogLine) : Collecting(OfAllLines(s), s)}
<1>1. <<>> \in P
  <2>1. <<>> \in Seq(LogLine)
    OBVIOUS
  <2> QED  BY <2>1, OfNoLines, NoFailuresCollecting
<1>2. ASSUME NEW s \in P, NEW line \in LogLine
      PROVE  Append(s, line) \in P
  <2> DEFINE longer == Append(s, line)
             acc == OfAllLines(s)
             next == Shown(acc, line)
  <2>1. s \in Seq(LogLine) /\ Collecting(acc, s)
    OBVIOUS
  <2>2. s \in Seq(FormatLine) /\ s \in Seq(LineType) /\ line \in FormatLine /\ line \in LineType
    BY <1>0, <2>1
  <2>3. longer \in Seq(LogLine) /\ Extends(longer, s, line)
    BY <2>1, AppendExtends
  <2>4. OfAllLines(longer) = next
    BY <2>2, OfMoreLines
  <2>5. Sound(acc) /\ Evidenced(acc, s)
    BY <2>2, LinesEvidenced
  <2> HIDE DEF longer, acc
  <2>6. next \in AccType
    BY <2>2, <2>5, ShownSound DEF Sound
  <2>7. CutName(acc.current) /\ Unrepeated(acc.failed_names) /\ acc \in AccType
        /\ 0 \in {line.rust_block, line.rust_panic}
    BY <2>1, <2>5 DEF Collecting, Sound, LogLine
  <2>8. Advances(next, acc, line) /\ (line.starts => Notes(next, acc, line))
    <3>1. CASE ~IsActive(acc) /\ StartsTrimmed(line) /\ ~line.starts
      BY <2>7, <3>1, SkipAdvances DEF Shown
    <3>2. CASE ~(~IsActive(acc) /\ StartsTrimmed(line) /\ ~line.starts)
      BY <2>2, <2>5, <2>7, <3>2, ObserveAdvances DEF Shown
    <3> QED  BY <3>1, <3>2
  <2> HIDE DEF next
  <2>9. Collecting(next, longer)
    BY <2>1, <2>3, <2>5, <2>6, <2>8, CollectingNext
  <2>10. longer \in P
    BY <2>3, <2>4, <2>9
  <2> QED  BY <2>10 DEF longer
<1>3. P \in SUBSET Seq(LogLine)
  OBVIOUS
<1>4. P = Seq(LogLine)
  <2> HIDE DEF P
  <2> QED  BY <1>1, <1>2, <1>3, InductionOnSequences
<1>5. lines \in Seq(FormatLine)
  BY <1>0
<1> QED  BY <1>4, <1>5, LinesEvidenced

----------------------------------------------------------------------------
(* What is collected at the end *)

(* More failures are added after those there are, in their order, all of   *)
(* the new ones if there is room.                                          *)
AddsAt(all, failures, more, new, place) ==
  \A k \in (Len(failures) + 1)..Len(all) :
    /\ place[k] \in new /\ all[k] = more[place[k]]
    /\ \A j \in (Len(failures) + 1)..(k - 1) : place[j] < place[k]
Adds(all, failures, more, new) ==
  /\ all \in AtMost(FailureType, MaxLogFailures)
  /\ Len(failures) <= Len(all)
  /\ \A k \in 1..Len(failures) : all[k] = failures[k]
  /\ \E place : AddsAt(all, failures, more, new, place)
  /\ Len(all) < MaxLogFailures => \A i \in new : \E k \in DOMAIN all : all[k] = more[i]

LEMMA CollectedAdds ==
  ASSUME NEW failures \in AtMost(FailureType, MaxLogFailures), NEW more \in Seq(FailureType),
         NEW new \in SUBSET DOMAIN more
  PROVE  Adds(Collected(failures, more, new), failures, more, new)
PROOF
<1> DEFINE picked == Picked(more, new)
           joined == failures \o picked
           m == Len(failures)
           n == Len(picked)
           last == IF Len(joined) < MaxLogFailures THEN Len(joined) ELSE MaxLogFailures
           all == SubSeq(joined, 1, last)
<1>1. picked \in Seq(FailureType)
  BY PickedType
<1>2. PICK p : Enumerates(p, n, new) /\ \A i \in 1..n : picked[i] = more[p[i]]
  BY PickedType
<1>3. Collected(failures, more, new) = all
  BY DEF Collected
<1>4. failures \in Seq(FailureType) /\ m \in Nat /\ m <= MaxLogFailures /\ MaxLogFailures \in Nat
  BY LimitsNat DEF AtMost
<1>5. n \in Nat
  BY <1>1
<1> HIDE DEF picked
<1>6. /\ joined \in Seq(FailureType) /\ Len(joined) = m + n
      /\ \A k \in 1..m : joined[k] = failures[k]
      /\ \A k \in (m + 1)..(m + n) : joined[k] = picked[k - m]
  BY <1>1, <1>4
<1> HIDE DEF joined
<1>7. last \in Nat /\ last <= Len(joined) /\ last <= MaxLogFailures /\ m <= last
      /\ (last < MaxLogFailures => last = Len(joined))
  BY <1>4, <1>5, <1>6
<1> HIDE DEF last, m, n
<1>8. all \in Seq(FailureType) /\ Len(all) = last /\ \A k \in 1..last : all[k] = joined[k]
  BY <1>6, <1>7
<1> HIDE DEF all
<1>9. \A k \in 1..m : all[k] = failures[k]
  BY <1>4, <1>6, <1>7, <1>8
<1>10. \A i \in 1..n : p[i] \in new /\ \A j \in 1..n : j < i => p[j] < p[i]
  BY <1>2 DEF Enumerates
<1>11. ASSUME NEW k \in (m + 1)..last
       PROVE  k - m \in 1..n /\ all[k] = more[p[k - m]]
  <2>1. k \in (m + 1)..(m + n) /\ k \in 1..last /\ k - m \in 1..n
    BY <1>4, <1>5, <1>6, <1>7
  <2> QED  BY <1>2, <1>6, <1>8, <2>1
<1> DEFINE place == [k \in (m + 1)..last |-> p[k - m]]
<1>12. AddsAt(all, failures, more, new, place)
  <2>1. ASSUME NEW k \in (m + 1)..last
        PROVE  /\ place[k] \in new /\ all[k] = more[place[k]]
               /\ \A j \in (m + 1)..(k - 1) : place[j] < place[k]
    <3>1. k - m \in 1..n /\ all[k] = more[p[k - m]] /\ place[k] = p[k - m]
      BY <1>11
    <3>2. ASSUME NEW j \in (m + 1)..(k - 1)
          PROVE  place[j] < place[k]
      <4>1. j \in (m + 1)..last /\ j - m < k - m
        BY <1>4, <1>7
      <4>2. place[j] = p[j - m] /\ j - m \in 1..n
        BY <1>11, <4>1
      <4> HIDE DEF place
      <4> QED  BY <1>10, <3>1, <4>1, <4>2
    <3> QED  BY <1>10, <3>1, <3>2
  <2> HIDE DEF place
  <2> QED  BY <1>8, <2>1 DEF AddsAt, m
<1>13. ASSUME last < MaxLogFailures, NEW i \in new
       PROVE  \E k \in DOMAIN all : all[k] = more[i]
  <2>1. PICK q \in 1..n : p[q] = i
    BY <1>2 DEF Enumerates
  <2>2. m + q \in (m + 1)..last /\ m + q \in 1..last /\ (m + q) - m = q
    BY <1>4, <1>5, <1>6, <1>7, <1>13
  <2>3. all[m + q] = more[i]
    BY <1>11, <2>1, <2>2
  <2>4. DOMAIN all = 1..last
    BY <1>8
  <2> QED  BY <2>2, <2>3, <2>4
<1>14. all \in AtMost(FailureType, MaxLogFailures)
  BY <1>7, <1>8 DEF AtMost
<1>15. Adds(all, failures, more, new)
  BY <1>7, <1>8, <1>9, <1>12, <1>13, <1>14 DEF Adds, m
<1> QED  BY <1>3, <1>15

LEMMA FirstWithKey ==
  ASSUME NEW keys, NEW n \in Nat, DOMAIN keys = 1..n, NEW known, NEW i \in 1..n
  PROVE  keys[i] \in known \/ \E j \in NewKeys(keys, known) : keys[j] = keys[i]
PROOF
<1> DEFINE S == {j \in 1..n : keys[j] = keys[i]}
<1>1. PICK j \in S : \A k \in S : j <= k
  <2>1. S \in SUBSET Nat /\ S # {}
    OBVIOUS
  <2> HIDE DEF S
  <2> QED  BY <2>1, LeastNat
<1>2. \A k \in 1..(j - 1) : keys[k] # keys[j]
  BY <1>1
<1> QED  BY <1>1, <1>2 DEF NewKeys

(* The messages of failures are those of the same kind and test. *)
LEMMA MessageSame ==
  ASSUME NEW failure \in FailureType
  PROVE  /\ Message(failure).kind = failure.kind /\ Message(failure).name = failure.name
         /\ failure.kind # "gtest" => Message(failure) = failure
PROOF
  BY DEF Message, FailureType

(* What finish_log takes of the failures: the first of each message.       *)
Fresh(failures) == NewKeys(Messages(failures), {})

LEMMA ExtractedProperties ==
  ASSUME NEW failures \in AtMost(FailureType, MaxLogFailures)
  PROVE  LET extracted == Extracted(failures)
         IN  /\ extracted \in AtMost(FailureType, MaxLogFailures)
             /\ \A i \in Fresh(failures) : \E n \in DOMAIN extracted : extracted[n] = failures[i]
             /\ NamesOf(failures) \subseteq NamesOf(extracted)
PROOF
<1> DEFINE new == Fresh(failures)
           picked == Picked(failures, new)
           extracted == Extracted(failures)
           messages == Messages(failures)
<1>1. failures \in Seq(FailureType) /\ Len(failures) \in Nat /\ DOMAIN failures = 1..Len(failures)
      /\ Len(failures) <= MaxLogFailures /\ MaxLogFailures \in Nat
  BY LimitsNat DEF AtMost
<1>2. DOMAIN messages = DOMAIN failures /\ \A i \in DOMAIN failures : messages[i] = Message(failures[i])
  BY DEF Messages
<1>3. new \in SUBSET DOMAIN failures
  BY <1>2, NewKeysType DEF Fresh
<1>4. Range(Messages(<<>>)) = {}
  BY DEF Messages, Range
<1>5. extracted = Collected(<<>>, failures, new)
  BY <1>4 DEF Extracted, ExtractedInto, Fresh
<1> HIDE DEF new, messages
<1>6. picked \in AtMost(FailureType, MaxLogFailures) /\ Range(picked) = {failures[i] : i \in new}
  BY <1>1, <1>3, PickedAtMost
<1>7. extracted = picked
  <2> HIDE DEF picked
  <2>1. <<>> \o picked = picked /\ picked \in Seq(FailureType) /\ Len(picked) \in Nat
        /\ Len(picked) <= MaxLogFailures
    BY <1>6 DEF AtMost
  <2>2. extracted = SubSeq(picked, 1, IF Len(picked) < MaxLogFailures THEN Len(picked)
                                      ELSE MaxLogFailures)
    BY <1>5, <2>1 DEF Collected, picked
  <2>3. (IF Len(picked) < MaxLogFailures THEN Len(picked) ELSE MaxLogFailures) = Len(picked)
    BY <1>1, <2>1
  <2>4. SubSeq(picked, 1, Len(picked)) = picked
    BY <2>1
  <2> QED  BY <2>2, <2>3, <2>4
<1> HIDE DEF extracted, picked
<1>8. \A i \in new : \E n \in DOMAIN extracted : extracted[n] = failures[i]
  BY <1>6, <1>7 DEF Range
<1>9. ASSUME NEW i \in DOMAIN failures
      PROVE  failures[i].name \in NamesOf(extracted)
  <2>1. PICK j \in new : messages[j] = messages[i]
    BY <1>1, <1>2, FirstWithKey DEF new, Fresh, messages
  <2>2. j \in DOMAIN failures /\ failures[i] \in FailureType /\ failures[j] \in FailureType
    BY <1>1, <1>3
  <2>3. failures[j].name = failures[i].name
    BY <1>2, <2>1, <2>2, MessageSame
  <2>4. PICK n \in DOMAIN extracted : extracted[n] = failures[j]
    BY <1>8
  <2> QED  BY <2>3, <2>4 DEF NamesOf
<1>10. NamesOf(failures) \subseteq NamesOf(extracted)
  BY <1>9 DEF NamesOf
<1> QED  BY <1>6, <1>7, <1>8, <1>10 DEF extracted, new

(* finish step by step: the failures with those of the open blocks, then   *)
(* with those of Go's failed blocks.                                       *)
WithOpen(acc) == FinishGtest(FinishRust(acc)).failures
WithGo(acc) == FinishGo(FinishGtest(FinishRust(acc))).failures
GoFailures(blocks) ==
  LET failed == Picked(blocks, {i \in DOMAIN blocks : blocks[i].failed})
  IN  [i \in DOMAIN failed |-> GoEvidence(failed[i])]
Statuses(names) == [i \in DOMAIN names |-> StatusOnly(names[i])]

LEMMA WithOpenProperties ==
  ASSUME NEW acc \in AccType
  PROVE  LET open0 == WithOpen(acc)
         IN  /\ open0 \in AtMost(FailureType, MaxLogFailures)
             /\ Len(open0) <= Taken(acc)
             /\ Len(open0) < MaxLogFailures =>
                  Len(acc.failures) < MaxLogFailures /\ Named(acc) \subseteq NamesOf(open0)
PROOF
<1> DEFINE mid == FinishRust(acc)
           before == acc.failures
           middle == mid.failures
           after == WithOpen(acc)
           rust == acc.current.name
           gtest == acc.gtest_current.name
           a == Bit(rust # 0)
           b == Bit(gtest # 0)
<1>1. AccIn(acc, FailureType) /\ acc.failed_names \in AtMost(Names, MaxLogFailures)
      /\ acc.current \in RustBlockType /\ acc.gtest_current \in GtestBlockType
      /\ acc.gtest_running_name \in OptionalNames
      /\ before \in AtMost(FailureType, MaxLogFailures)
  BY DEF AccIn, AccType
<1>2. /\ acc.gtest_current.name # 0 => GtestEvidence(acc.gtest_current) \in FailureType
      /\ acc.current.name # 0 => RustEvidence(acc.current) \in FailureType
  BY <1>1, EvidenceType
<1>3. mid \in AccType /\ FinishGtest(mid) \in AccType
  BY FinishesType
<1>4. mid.gtest_current = acc.gtest_current
  <2>1. Becomes(mid, acc, FailureType, acc.failed_names, NoRustBlock, acc.gtest_running_name,
                acc.gtest_current)
    BY <1>1, <1>2, FinishRustStep
  <2>2. FailureType \in SUBSET FailureType
    OBVIOUS
  <2> HIDE DEF mid
  <2> QED  BY <1>1, <2>1, <2>2, NoBlocksType, BecomesThen
<1>5. middle = Finished(before, rust, RustEvidence(acc.current))
  BY FinishedFailures DEF WithRust
<1>6. after = Finished(middle, gtest, GtestEvidence(acc.gtest_current))
  BY <1>3, <1>4, FinishedFailures DEF WithGtest, WithOpen
<1>7. middle \in AtMost(FailureType, MaxLogFailures) /\ after \in AtMost(FailureType, MaxLogFailures)
  BY <1>3 DEF AccType, WithOpen
<1>8. /\ RustEvidence(acc.current).name = rust
      /\ GtestEvidence(acc.gtest_current).name = gtest
  BY DEF RustEvidence, GtestEvidence
<1>9. Taken(acc) = Len(before) + a + b
  BY DEF Taken
<1>10. Named(acc) = (NamesOf(before) \cup {rust, gtest}) \ {0}
  BY DEF Named
<1>11. a \in {0, 1} /\ b \in {0, 1}
  BY DEF Bit
<1>12. Len(before) \in Nat /\ Len(middle) \in Nat /\ Len(after) \in Nat /\ MaxLogFailures \in Nat
  BY <1>1, <1>7, LimitsNat DEF AtMost
<1> HIDE DEF mid, before, middle, after, rust, gtest
<1>13. /\ Len(before) <= Len(middle) /\ Len(middle) <= Len(before) + a
       /\ Len(middle) < MaxLogFailures => NamesOf(middle) \ {0} = (NamesOf(before) \cup {rust}) \ {0}
  BY <1>1, <1>2, <1>5, <1>8, FinishedProperties DEF rust
<1>14. /\ Len(middle) <= Len(after) /\ Len(after) <= Len(middle) + b
       /\ Len(after) < MaxLogFailures => NamesOf(after) \ {0} = (NamesOf(middle) \cup {gtest}) \ {0}
  BY <1>2, <1>6, <1>7, <1>8, FinishedProperties DEF gtest
<1> HIDE DEF a, b
<1>15. Len(after) <= Taken(acc)
  BY <1>9, <1>11, <1>12, <1>13, <1>14
<1>16. Len(after) < MaxLogFailures => Len(middle) < MaxLogFailures /\ Len(before) < MaxLogFailures
  BY <1>12, <1>13, <1>14
<1>17. Len(after) < MaxLogFailures => Named(acc) \subseteq NamesOf(after)
  BY <1>10, <1>13, <1>14, <1>16
<1> QED  BY <1>7, <1>15, <1>16, <1>17 DEF after, before

LEMMA GoFailuresProperties ==
  ASSUME NEW blocks \in AtMost(GoBlockType, MaxGoBlocks)
  PROVE  /\ GoFailures(blocks) \in Seq(FailureType)
         /\ \A i \in DOMAIN GoFailures(blocks) : GoFailures(blocks)[i].kind = "go"
         /\ FailedOf(blocks) \subseteq NamesOf(GoFailures(blocks))
PROOF
<1> DEFINE P == {i \in DOMAIN blocks : blocks[i].failed}
           failed == Picked(blocks, P)
           made == GoFailures(blocks)
<1>1. failed \in AtMost(GoBlockType, MaxGoBlocks) /\ Range(failed) = {blocks[i] : i \in P}
  BY LimitsNat, PickedAtMost
<1>2. FailedOf(blocks) = {blocks[i].name : i \in P}
  BY DEF FailedOf
<1>3. made = [i \in DOMAIN failed |-> GoEvidence(failed[i])]
  BY DEF GoFailures
<1> HIDE DEF P, made, failed
<1>4. failed \in Seq(GoBlockType) /\ DOMAIN failed = 1..Len(failed) /\ Len(failed) \in Nat
  BY <1>1 DEF AtMost
<1>5. \A b \in GoBlockType : /\ GoEvidence(b) \in FailureType /\ GoEvidence(b).kind = "go"
                             /\ GoEvidence(b).name = b.name
  <2> TAKE b \in GoBlockType
  <2>1. /\ b.name \in Names /\ b.location \in OptionalPlaces
        /\ b.details \in Seq(Texts)
        /\ b.assertion \in OptionalTexts /\ b.panic_message \in OptionalTexts
    BY DEF GoBlockType, AtMost
  <2> QED  BY <2>1 DEF GoEvidence, FailureType
<1>6. \A i \in DOMAIN failed : /\ made[i] \in FailureType /\ made[i].kind = "go"
                               /\ made[i].name = failed[i].name
  <2>1. \A i \in DOMAIN failed : failed[i] \in GoBlockType
    BY <1>4
  <2> QED  BY <1>3, <1>5, <2>1
<1>7. DOMAIN made = 1..Len(failed)
  BY <1>3, <1>4
<1>8. made \in Seq(FailureType)
  <2>1. made \in [1..Len(failed) -> FailureType]
    BY <1>3, <1>4, <1>6
  <2> QED  BY <1>4, <2>1
<1>9. FailedOf(blocks) \subseteq NamesOf(made)
  <2> SUFFICES ASSUME NEW i \in P
               PROVE  blocks[i].name \in NamesOf(made)
    BY <1>2
  <2>1. PICK j \in DOMAIN failed : failed[j] = blocks[i]
    BY <1>1 DEF Range
  <2>2. j \in DOMAIN made /\ made[j].name = blocks[i].name
    BY <1>4, <1>6, <1>7, <2>1
  <2> QED  BY <2>2 DEF NamesOf
<1> QED  BY <1>4, <1>6, <1>7, <1>8, <1>9 DEF made

(* What is collected at the end is what there was, with the failures of    *)
(* Go's blocks and then with the tests that have none.                     *)
LEMMA FinishAdds ==
  ASSUME NEW acc \in AccType
  PROVE  LET go == GoFailures(acc.go_blocks)
             names == acc.failed_names
         IN  /\ Adds(WithGo(acc), WithOpen(acc), go, NewKeys(go, Range(WithOpen(acc))))
             /\ Adds(Finish(acc), WithGo(acc), Statuses(names), NewKeys(names, NamesOf(WithGo(acc))))
             /\ Statuses(names) \in Seq(FailureType)
PROOF
<1> DEFINE gtest == FinishGtest(FinishRust(acc))
           open0 == WithOpen(acc)
           blocks == acc.go_blocks
           go == GoFailures(blocks)
           names == acc.failed_names
           status == Statuses(names)
           all == WithGo(acc)
<1>1. gtest \in AccType /\ gtest.go_blocks = blocks
  <2> DEFINE rust == FinishRust(acc)
  <2>1. AccIn(acc, FailureType) /\ acc.failed_names \in AtMost(Names, MaxLogFailures)
        /\ acc.gtest_current \in GtestBlockType
        /\ acc.gtest_running_name \in OptionalNames /\ FailureType \in SUBSET FailureType
    BY DEF AccIn, AccType
  <2>2. OpenIn(acc, FailureType)
    BY EvidenceType DEF OpenIn, AccType
  <2>3. Becomes(rust, acc, FailureType, acc.failed_names, NoRustBlock, acc.gtest_running_name,
                acc.gtest_current)
    BY <2>1, <2>2, FinishRustStep DEF OpenIn
  <2> HIDE DEF rust
  <2>4. /\ AccIn(rust, FailureType) /\ rust.failed_names = acc.failed_names
        /\ rust.current = NoRustBlock
        /\ rust.gtest_running_name = acc.gtest_running_name
        /\ rust.gtest_current = acc.gtest_current /\ rust.go_blocks = acc.go_blocks
    BY <2>1, <2>3, NoBlocksType, BecomesThen
  <2>5. rust.gtest_current.name # 0 => GtestEvidence(rust.gtest_current) \in FailureType
    BY <2>2, <2>4 DEF OpenIn
  <2>6. Becomes(gtest, rust, FailureType, rust.failed_names, rust.current, rust.gtest_running_name,
                NoGtestBlock)
    BY <2>4, <2>5, FinishGtestStep DEF rust
  <2> HIDE DEF gtest
  <2>7. rust \in AccType /\ rust.current \in RustBlockType
    BY <2>4, NoBlocksType DEF AccIn
  <2>8. AccIn(gtest, FailureType) /\ gtest.go_blocks = rust.go_blocks
    BY <2>1, <2>4, <2>6, <2>7, NoBlocksType, BecomesThen
  <2> QED  BY <2>4, <2>8 DEF AccIn
<1>2. open0 \in AtMost(FailureType, MaxLogFailures) /\ open0 = gtest.failures
  BY WithOpenProperties DEF WithOpen
<1>3. go \in Seq(FailureType)
  BY GoFailuresProperties DEF AccType
<1>4. all = Collected(open0, go, NewKeys(go, Range(open0)))
  <2> DEFINE collected == Collected(open0, go, NewKeys(go, Range(open0)))
  <2>1. FinishGo(gtest) = [gtest EXCEPT !.go_blocks = <<>>, !.failures = collected]
    BY <1>1, <1>2 DEF FinishGo, GoFailures
  <2> HIDE DEF collected, gtest
  <2>2. FinishGo(gtest).failures = collected
    BY <1>1, <2>1 DEF AccType
  <2> QED  BY <2>2 DEF WithGo, gtest, collected
<1>5. names \in Seq(Names) /\ DOMAIN names = 1..Len(names) /\ Len(names) \in Nat
  BY DEF AccType, AtMost
<1>6. status \in Seq(FailureType) /\ DOMAIN status = DOMAIN names
  <2>1. \A name \in Names : StatusOnly(name) \in FailureType
    BY DEF StatusOnly, FailureType, OptionalPlaces, OptionalTexts
  <2>2. status \in [1..Len(names) -> FailureType]
    BY <1>5, <2>1 DEF Statuses
  <2> QED  BY <1>5, <2>2
<1>7. Finish(acc) = Collected(all, status, NewKeys(names, NamesOf(all)))
  BY DEF Finish, WithGo, Statuses, NamesOf
<1> HIDE DEF go, status, names, open0
<1>8. Adds(all, open0, go, NewKeys(go, Range(open0)))
  BY <1>2, <1>3, <1>4, NewKeysType, CollectedAdds
<1>9. all \in AtMost(FailureType, MaxLogFailures)
  BY <1>8 DEF Adds
<1> HIDE DEF all
<1>10. Adds(Finish(acc), all, status, NewKeys(names, NamesOf(all)))
  BY <1>6, <1>7, <1>9, NewKeysType, CollectedAdds
<1> QED  BY <1>6, <1>8, <1>10 DEF open0, go, names, status, all

Layers(all, afterGo, before, go, names) ==
  /\ before \in AtMost(FailureType, MaxLogFailures)
  /\ go \in Seq(FailureType) /\ \A i \in DOMAIN go : go[i].kind = "go"
  /\ names \in AtMost(Names, MaxLogFailures)
  /\ Adds(afterGo, before, go, NewKeys(go, Range(before)))
  /\ Adds(all, afterGo, Statuses(names), NewKeys(names, NamesOf(afterGo)))

LEMMA LayersType ==
  ASSUME NEW all, NEW afterGo, NEW before, NEW go, NEW names,
         Layers(all, afterGo, before, go, names)
  PROVE  /\ all \in Seq(FailureType) /\ DOMAIN all = 1..Len(all) /\ Len(all) \in Nat
         /\ Len(all) <= MaxLogFailures /\ MaxLogFailures \in Nat
         /\ DOMAIN afterGo = 1..Len(afterGo) /\ Len(afterGo) \in Nat
         /\ DOMAIN before = 1..Len(before) /\ Len(before) \in Nat
         /\ Len(before) <= Len(afterGo) /\ Len(afterGo) <= Len(all)
         /\ \A k \in DOMAIN afterGo : all[k] = afterGo[k]
         /\ \A k \in DOMAIN before : all[k] = before[k] /\ afterGo[k] = before[k]
PROOF
<1>1. /\ all \in Seq(FailureType) /\ Len(all) <= MaxLogFailures /\ afterGo \in Seq(FailureType)
      /\ before \in Seq(FailureType) /\ MaxLogFailures \in Nat
  BY LimitsNat DEF Layers, Adds, AtMost
<1>2. /\ Len(before) <= Len(afterGo) /\ Len(afterGo) <= Len(all)
      /\ \A k \in 1..Len(before) : afterGo[k] = before[k]
      /\ \A k \in 1..Len(afterGo) : all[k] = afterGo[k]
  BY DEF Layers, Adds
<1>3. /\ DOMAIN all = 1..Len(all) /\ Len(all) \in Nat
      /\ DOMAIN afterGo = 1..Len(afterGo) /\ Len(afterGo) \in Nat
      /\ DOMAIN before = 1..Len(before) /\ Len(before) \in Nat
  BY <1>1
<1>4. \A k \in 1..Len(before) : k \in 1..Len(afterGo)
  BY <1>2, <1>3
<1> QED  BY <1>1, <1>2, <1>3, <1>4

(* A failure that is added is not one that finish_log finds again, and a   *)
(* test that is added for its status alone has no other failure.           *)
LEMMA LayersAdded ==
  ASSUME NEW all, NEW afterGo, NEW before, NEW go, NEW names,
         Layers(all, afterGo, before, go, names),
         NEW k \in (Len(before) + 1)..Len(all)
  PROVE  /\ k \in Fresh(all)
         /\ \/ all[k].kind = "go"
            \/ /\ all[k] = StatusOnly(all[k].name)
               /\ \A j \in 1..(k - 1) : all[j].name # all[k].name
PROOF
<1>1. /\ all \in Seq(FailureType) /\ DOMAIN all = 1..Len(all) /\ Len(all) \in Nat
      /\ DOMAIN afterGo = 1..Len(afterGo) /\ Len(afterGo) \in Nat
      /\ DOMAIN before = 1..Len(before) /\ Len(before) \in Nat
      /\ Len(before) <= Len(afterGo) /\ Len(afterGo) <= Len(all)
      /\ \A i \in DOMAIN afterGo : all[i] = afterGo[i]
      /\ \A i \in DOMAIN before : all[i] = before[i] /\ afterGo[i] = before[i]
  BY LayersType
<1> DEFINE b == Len(before)
           g == Len(afterGo)
           keys == NewKeys(go, Range(before))
           others == NewKeys(names, NamesOf(afterGo))
<1> HIDE DEF b, g
<1>2. k \in 1..Len(all) /\ all[k] \in FailureType /\ \A j \in 1..(k - 1) : j \in 1..Len(all) /\ all[j] \in FailureType
  <2>1. k \in 1..Len(all) /\ \A j \in 1..(k - 1) : j \in 1..Len(all)
    BY <1>1
  <2> QED  BY <1>1, <2>1
<1>3. /\ go \in Seq(FailureType) /\ \A i \in DOMAIN go : go[i].kind = "go"
      /\ names \in Seq(Names)
  BY DEF Layers, AtMost
<1>4. ASSUME \A j \in 1..(k - 1) : Message(all[j]) # Message(all[k])
      PROVE  k \in Fresh(all)
  <2> DEFINE messages == Messages(all)
  <2>1. DOMAIN messages = 1..Len(all) /\ \A j \in 1..Len(all) : messages[j] = Message(all[j])
    BY <1>1 DEF Messages
  <2> HIDE DEF messages
  <2>2. k \in NewKeys(messages, {})
    BY <1>2, <1>4, <2>1 DEF NewKeys
  <2> QED  BY <2>2 DEF Fresh, messages
<1>5. CASE k \in (b + 1)..g
  <2>1. PICK place : AddsAt(afterGo, before, go, keys, place)
    BY DEF Layers, Adds
  <2>2. \A i \in (b + 1)..g : /\ place[i] \in keys /\ afterGo[i] = go[place[i]]
                              /\ \A j \in (b + 1)..(i - 1) : place[j] < place[i]
    BY <2>1 DEF AddsAt, b, g
  <2>3. \A i \in (b + 1)..g : all[i] = afterGo[i]
    BY <1>1 DEF b, g
  <2>4. all[k] = go[place[k]] /\ place[k] \in keys /\ all[k].kind = "go"
    BY <1>3, <1>5, <2>2, <2>3 DEF NewKeys
  <2>5. ASSUME NEW j \in 1..(k - 1), Message(all[j]) = Message(all[k])
        PROVE  FALSE
    <3>1. all[j].kind = "go" /\ all[j] = all[k]
      BY <1>2, <2>4, <2>5, MessageSame
    <3>2. CASE j \in 1..b
      <4>1. all[j] \in Range(before)
        BY <1>1, <3>2 DEF b, Range
      <4> QED  BY <2>4, <3>1, <4>1 DEF NewKeys
    <3>3. CASE j \in (b + 1)..g
      <4>1. all[j] = go[place[j]] /\ place[j] \in keys
        BY <2>2, <2>3, <3>3
      <4>2. j \in (b + 1)..(k - 1)
        BY <3>3
      <4>3. place[j] < place[k]
        BY <1>5, <2>2, <4>2
      <4>4. place[j] \in 1..(place[k] - 1)
        <5>1. keys \subseteq DOMAIN go /\ DOMAIN go = 1..Len(go) /\ Len(go) \in Nat
          BY <1>3 DEF NewKeys
        <5> QED  BY <2>4, <4>1, <4>3, <5>1
      <4> QED  BY <2>4, <3>1, <4>1, <4>4 DEF NewKeys
    <3>4. j \in 1..b \/ j \in (b + 1)..g
      BY <1>1, <1>5 DEF b, g
    <3> QED  BY <3>2, <3>3, <3>4
  <2> QED  BY <1>4, <2>4, <2>5
<1>6. CASE k \in (g + 1)..Len(all)
  <2> DEFINE more == Statuses(names)
  <2>1. PICK place : AddsAt(all, afterGo, more, others, place)
    BY DEF Layers, Adds
  <2>2. \A i \in (g + 1)..Len(all) : /\ place[i] \in others /\ all[i] = more[place[i]]
                                     /\ \A j \in (g + 1)..(i - 1) : place[j] < place[i]
    BY <2>1 DEF AddsAt, g
  <2>3. others \subseteq DOMAIN names /\ DOMAIN names = 1..Len(names) /\ Len(names) \in Nat
    BY <1>3 DEF NewKeys
  <2>4. \A i \in DOMAIN names : more[i] = StatusOnly(names[i]) /\ more[i].name = names[i]
    BY DEF Statuses, StatusOnly
  <2> HIDE DEF more
  <2>5. \A i \in (g + 1)..Len(all) : /\ all[i] = StatusOnly(names[place[i]])
                                     /\ all[i].name = names[place[i]]
    BY <2>2, <2>3, <2>4
  <2>6. ASSUME NEW j \in 1..(k - 1)
        PROVE  all[j].name # all[k].name
    <3>1. all[k].name = names[place[k]] /\ place[k] \in others
      BY <1>6, <2>2, <2>5
    <3>2. CASE j \in 1..g
      <4>1. all[j].name \in NamesOf(afterGo)
        BY <1>1, <3>2 DEF NamesOf, g
      <4> QED  BY <3>1, <4>1 DEF NewKeys
    <3>3. CASE j \in (g + 1)..(k - 1)
      <4>1. j \in (g + 1)..Len(all) /\ place[j] < place[k]
        BY <1>1, <1>6, <2>2, <3>3 DEF g
      <4>2. all[j].name = names[place[j]] /\ place[j] \in others
        BY <2>2, <2>5, <4>1
      <4>3. place[j] \in 1..(place[k] - 1)
        BY <2>3, <3>1, <4>1, <4>2
      <4> QED  BY <3>1, <4>2, <4>3 DEF NewKeys
    <3>4. j \in 1..g \/ j \in (g + 1)..(k - 1)
      BY <1>1, <1>6 DEF g
    <3> QED  BY <3>2, <3>3, <3>4
  <2>7. \A j \in 1..(k - 1) : Message(all[j]) # Message(all[k])
    BY <1>2, <2>6, MessageSame
  <2>8. all[k] = StatusOnly(all[k].name)
    BY <1>6, <2>5
  <2> QED  BY <1>4, <2>6, <2>7, <2>8
<1>7. k \in (b + 1)..g \/ k \in (g + 1)..Len(all)
  BY <1>1 DEF b, g
<1> QED  BY <1>5, <1>6, <1>7

(* With room for all, every test is there. *)
LEMMA LayersNames ==
  ASSUME NEW all, NEW afterGo, NEW before, NEW go, NEW names,
         Layers(all, afterGo, before, go, names), Len(all) < MaxLogFailures
  PROVE  /\ NamesOf(before) \subseteq NamesOf(all)
         /\ NamesOf(go) \subseteq NamesOf(all)
         /\ Range(names) \subseteq NamesOf(all)
         /\ Unrepeated(names) => Len(names) < MaxLogFailures
PROOF
<1>1. /\ all \in Seq(FailureType) /\ DOMAIN all = 1..Len(all) /\ Len(all) \in Nat
      /\ DOMAIN afterGo = 1..Len(afterGo) /\ Len(afterGo) \in Nat
      /\ DOMAIN before = 1..Len(before) /\ Len(before) \in Nat
      /\ Len(before) <= Len(afterGo) /\ Len(afterGo) <= Len(all)
      /\ \A i \in DOMAIN afterGo : all[i] = afterGo[i]
      /\ \A i \in DOMAIN before : all[i] = before[i] /\ afterGo[i] = before[i]
      /\ MaxLogFailures \in Nat
  BY LayersType
<1>2. /\ go \in Seq(FailureType) /\ names \in Seq(Names) /\ Len(names) <= MaxLogFailures
  BY DEF Layers, AtMost
<1>3. /\ DOMAIN go = 1..Len(go) /\ Len(go) \in Nat
      /\ DOMAIN names = 1..Len(names) /\ Len(names) \in Nat
  BY <1>2
<1>4. /\ \A i \in NewKeys(go, Range(before)) : \E k \in DOMAIN afterGo : afterGo[k] = go[i]
      /\ \A i \in NewKeys(names, NamesOf(afterGo)) : \E k \in DOMAIN all : all[k] = Statuses(names)[i]
  <2>1. Len(afterGo) < MaxLogFailures
    BY <1>1
  <2> QED  BY <2>1 DEF Layers, Adds
<1>5. DOMAIN before \subseteq DOMAIN afterGo /\ DOMAIN afterGo \subseteq DOMAIN all
  BY <1>1
<1>6. NamesOf(before) \subseteq NamesOf(afterGo) /\ NamesOf(afterGo) \subseteq NamesOf(all)
  BY <1>1, <1>5 DEF NamesOf
<1>7. NamesOf(go) \subseteq NamesOf(afterGo)
  <2> SUFFICES ASSUME NEW i \in DOMAIN go
               PROVE  go[i].name \in NamesOf(afterGo)
    BY DEF NamesOf
  <2>1. go[i] \in Range(before) \/ \E j \in NewKeys(go, Range(before)) : go[j] = go[i]
    BY <1>3, FirstWithKey
  <2>2. CASE go[i] \in Range(before)
    <3>1. PICK k \in DOMAIN before : before[k] = go[i]
      BY <2>2 DEF Range
    <3>2. go[i].name \in NamesOf(before)
      BY <3>1 DEF NamesOf
    <3> QED  BY <1>6, <3>2
  <2>3. CASE \E j \in NewKeys(go, Range(before)) : go[j] = go[i]
    <3>1. PICK j \in NewKeys(go, Range(before)) : go[j] = go[i]
      BY <2>3
    <3>2. PICK k \in DOMAIN afterGo : afterGo[k] = go[j]
      BY <1>4
    <3> QED  BY <3>1, <3>2 DEF NamesOf
  <2> QED  BY <2>1, <2>2, <2>3
<1>8. Range(names) \subseteq NamesOf(all)
  <2> SUFFICES ASSUME NEW i \in DOMAIN names
               PROVE  names[i] \in NamesOf(all)
    BY DEF Range
  <2>1. names[i] \in NamesOf(afterGo) \/ \E j \in NewKeys(names, NamesOf(afterGo)) : names[j] = names[i]
    BY <1>3, FirstWithKey
  <2>2. ASSUME NEW j \in NewKeys(names, NamesOf(afterGo)), names[j] = names[i]
        PROVE  names[i] \in NamesOf(all)
    <3>1. PICK k \in DOMAIN all : all[k] = Statuses(names)[j]
      BY <1>4
    <3>2. j \in DOMAIN names
      BY DEF NewKeys
    <3>3. all[k] = StatusOnly(names[j])
      BY <3>1, <3>2 DEF Statuses
    <3>4. all[k].name = names[i]
      BY <2>2, <3>3 DEF StatusOnly
    <3> QED  BY <3>4 DEF NamesOf
  <2> QED  BY <1>6, <2>1, <2>2
<1>9. ASSUME Unrepeated(names)
      PROVE  Len(names) < MaxLogFailures
  <2> DEFINE at == [i \in DOMAIN names |-> CHOOSE k \in DOMAIN all : all[k].name = names[i]]
  <2>1. \A i \in DOMAIN names : at[i] \in DOMAIN all /\ all[at[i]].name = names[i]
    <3> SUFFICES ASSUME NEW i \in DOMAIN names
                 PROVE  \E k \in DOMAIN all : all[k].name = names[i]
      OBVIOUS
    <3>1. names[i] \in NamesOf(all)
      BY <1>8 DEF Range
    <3> QED  BY <3>1 DEF NamesOf
  <2>2. at \in [DOMAIN names -> DOMAIN all]
    BY <2>1
  <2>3. \A i, j \in DOMAIN names : at[i] = at[j] => i = j
    <3> HIDE DEF at
    <3> QED  BY <1>9, <2>1 DEF Unrepeated
  <2> HIDE DEF at
  <2>4. at \in Injection(DOMAIN names, DOMAIN all)
    BY <2>2, <2>3, Fun_IsInj
  <2>0. \A n \in Nat : IsFiniteSet(1..n) /\ Cardinality(1..n) = n
    BY FS_Interval
  <2>5. IsFiniteSet(DOMAIN all) /\ Cardinality(DOMAIN all) = Len(all)
    BY <1>1, <2>0
  <2>6. Cardinality(DOMAIN names) = Len(names)
    BY <1>3, <2>0
  <2>7. Cardinality(DOMAIN names) <= Cardinality(DOMAIN all)
    BY <2>4, <2>5, FS_Injection
  <2> QED  BY <1>1, <1>3, <2>5, <2>6, <2>7
<1> QED  BY <1>6, <1>7, <1>8, <1>9

(* When as many were collected as can be, the blocks and the failures that *)
(* are not of blocks account for them.                                     *)
LEMMA LayersFull ==
  ASSUME NEW all, NEW afterGo, NEW before, NEW go, NEW names,
         Layers(all, afterGo, before, go, names), Len(all) >= MaxLogFailures,
         NEW lines, IsFiniteSet(BlockNames(lines)),
         NEW known, NEW made \in Nat, Len(before) <= made,
         Len(before) < MaxLogFailures =>
           /\ known \subseteq NamesOf(before)
           /\ Len(before) + Cardinality(BlockNames(lines) \ known) <= made
  PROVE  LET extracted == Extracted(all)
         IN  made + Cardinality({n \in DOMAIN extracted : ~OfBlock(lines, extracted[n])})
               >= MaxLogFailures
PROOF
<1> DEFINE extracted == Extracted(all)
           others == {n \in DOMAIN extracted : ~OfBlock(lines, extracted[n])}
           b == Len(before)
           K == (b + 1)..Len(all)
           K1 == {k \in K : OfBlock(lines, all[k])}
           K2 == {k \in K : ~OfBlock(lines, all[k])}
           rest == BlockNames(lines) \ known
<1>1. /\ all \in Seq(FailureType) /\ DOMAIN all = 1..Len(all) /\ Len(all) \in Nat
      /\ Len(all) <= MaxLogFailures /\ MaxLogFailures \in Nat
      /\ DOMAIN before = 1..b /\ b \in Nat
      /\ b <= Len(all)
      /\ \A i \in DOMAIN before : all[i] = before[i]
  BY LayersType
<1>2. all \in AtMost(FailureType, MaxLogFailures)
  BY DEF Layers, Adds
<1>3. /\ extracted \in AtMost(FailureType, MaxLogFailures)
      /\ \A i \in Fresh(all) : \E n \in DOMAIN extracted : extracted[n] = all[i]
  BY <1>2, ExtractedProperties
<1>4. \A k \in K : /\ k \in Fresh(all)
                   /\ \/ all[k].kind = "go"
                      \/ /\ all[k] = StatusOnly(all[k].name)
                         /\ \A j \in 1..(k - 1) : all[j].name # all[k].name
  BY LayersAdded
<1> HIDE DEF extracted
<1>5. IsFiniteSet(others) /\ Cardinality(others) \in Nat
  <2>1. DOMAIN extracted = 1..Len(extracted) /\ Len(extracted) \in Nat
    BY <1>3 DEF AtMost
  <2> QED  BY <2>1, IntervalSubset
<1> HIDE DEF others, b
<1>6. CASE b >= MaxLogFailures
  BY <1>1, <1>5, <1>6 DEF b, others, extracted
<1>7. CASE b < MaxLogFailures
  <2>1. known \subseteq NamesOf(before) /\ b + Cardinality(rest) <= made
    BY <1>7 DEF b
  <2>2. IsFiniteSet(rest) /\ Cardinality(rest) \in Nat
    BY FS_Difference, FS_CardinalityType
  <2>3. \A j, k \in K : j < k => j \in 1..(k - 1)
    BY <1>1
  <2>4. \A j, k \in K : j < k => all[j] # all[k]
    <3> SUFFICES ASSUME NEW j \in K, NEW k \in K, j < k, all[j] = all[k] PROVE FALSE
      OBVIOUS
    <3>1. k \in DOMAIN Messages(all) /\ \A i \in 1..(k - 1) : Messages(all)[i] # Messages(all)[k]
      BY <1>4 DEF Fresh, NewKeys
    <3>2. j \in DOMAIN all /\ k \in DOMAIN all
      BY <1>1
    <3>3. Messages(all)[j] = Message(all[j]) /\ Messages(all)[k] = Message(all[k])
      BY <3>2 DEF Messages
    <3> QED  BY <2>3, <3>1, <3>3
  <2>5. \A j, k \in K : all[j] = all[k] => j = k
    <3> SUFFICES ASSUME NEW j \in K, NEW k \in K, all[j] = all[k], j # k PROVE FALSE
      OBVIOUS
    <3>1. j < k \/ k < j
      BY <1>1
    <3> QED  BY <2>4, <3>1
  (* Those of blocks are of different tests, none of them known. *)
  <2>6. Cardinality(K1) <= Cardinality(rest)
    <3> DEFINE f == [k \in K1 |-> all[k].name]
    <3>1. \A k \in K1 : /\ k \in K /\ all[k] = StatusOnly(all[k].name)
                        /\ \A j \in 1..(k - 1) : all[j].name # all[k].name
                        /\ all[k].name \in BlockNames(lines)
      BY <1>4 DEF OfBlock
    <3>2. \A k \in K1 : all[k].name \notin known
      <4> SUFFICES ASSUME NEW k \in K1, all[k].name \in known PROVE FALSE
        OBVIOUS
      <4>1. PICK i \in DOMAIN before : before[i].name = all[k].name
        BY <2>1 DEF NamesOf
      <4>2. i \in 1..(k - 1) /\ all[i] = before[i]
        BY <1>1, <3>1, <4>1
      <4> QED  BY <3>1, <4>1, <4>2
    <3>3. f \in [K1 -> rest]
      BY <3>1, <3>2
    <3>4. \A j, k \in K1 : f[j] = f[k] => j = k
      <4> SUFFICES ASSUME NEW j \in K1, NEW k \in K1, all[j].name = all[k].name PROVE j = k
        OBVIOUS
      <4>1. all[j] = all[k]
        BY <3>1
      <4> QED  BY <2>5, <3>1, <4>1
    <3> HIDE DEF f, K1, rest
    <3>5. f \in Injection(K1, rest)
      BY <3>3, <3>4, Fun_IsInj
    <3> QED  BY <2>2, <3>5, FS_Injection
  <2>7. Cardinality(K2) <= Cardinality(others)
    <3> DEFINE f == [k \in K2 |-> CHOOSE n \in DOMAIN extracted : extracted[n] = all[k]]
    <3>1. \A k \in K2 : f[k] \in DOMAIN extracted /\ extracted[f[k]] = all[k]
      BY <1>3, <1>4
    <3>2. f \in [K2 -> others]
      BY <3>1 DEF others
    <3>3. \A j, k \in K2 : f[j] = f[k] => j = k
      <4> SUFFICES ASSUME NEW j \in K2, NEW k \in K2, f[j] = f[k] PROVE j = k
        OBVIOUS
      <4>1. all[j] = all[k] /\ j \in K /\ k \in K
        BY <3>1
      <4> QED  BY <2>5, <4>1
    <3> HIDE DEF f, K2
    <3>4. f \in Injection(K2, others)
      BY <3>2, <3>3, Fun_IsInj
    <3> QED  BY <1>5, <3>4, FS_Injection
  <2>8. Cardinality(K) = MaxLogFailures - b
    <3> DEFINE low == b + 1
               high == Len(all)
    <3>0. b \in Nat /\ Len(all) \in Nat /\ MaxLogFailures \in Nat /\ Len(all) <= MaxLogFailures
      BY <1>1
    <3>1. low \in Int /\ high \in Int /\ high = MaxLogFailures
      BY <3>0
    <3> HIDE DEF low, high
    <3>2. Cardinality(low..high) = IF low > high THEN 0 ELSE high - low + 1
      BY <3>1, FS_Interval
    <3> QED  BY <1>7, <3>0, <3>1, <3>2 DEF low, high
  <2>9. K = K1 \cup K2 /\ K1 \cap K2 = {} /\ IsFiniteSet(K1) /\ IsFiniteSet(K2)
    <3> HIDE DEF others
    <3>0. K \in SUBSET (1..Len(all))
      <4> SUFFICES ASSUME NEW k \in K PROVE k \in 1..Len(all)
        OBVIOUS
      <4>1. k \in Int /\ b + 1 <= k /\ k <= Len(all) /\ b \in Nat /\ Len(all) \in Nat
        BY <1>1
      <4> QED  BY <4>1
    <3>1. K1 \in SUBSET (1..Len(all)) /\ K2 \in SUBSET (1..Len(all))
      <4> HIDE DEF K
      <4> QED  BY <3>0
    <3>2. IsFiniteSet(K1) /\ IsFiniteSet(K2)
      BY <1>1, <3>1, IntervalSubset
    <3> QED  BY <3>2
  <2>10. /\ Cardinality(K) = Cardinality(K1) + Cardinality(K2)
         /\ Cardinality(K1) \in Nat /\ Cardinality(K2) \in Nat
    <3> HIDE DEF K, K1, K2
    <3>1. Cardinality(K) = Cardinality(K1) + Cardinality(K2) - Cardinality(K1 \cap K2)
      BY <2>9, FS_Union
    <3>2. Cardinality(K1 \cap K2) = 0
      BY <2>9, FS_EmptySet
    <3>3. Cardinality(K1) \in Nat /\ Cardinality(K2) \in Nat
      BY <2>9, FS_CardinalityType
    <3> QED  BY <3>1, <3>2, <3>3
  <2> HIDE DEF K, K1, K2, rest
  <2>11. made + Cardinality(others) >= MaxLogFailures
    BY <1>1, <1>5, <2>1, <2>2, <2>6, <2>7, <2>8, <2>10
  <2> QED  BY <2>11 DEF others, extracted
<1> QED  BY <1>1, <1>6, <1>7

(* What is collected of a complete log reports every test that failed.     *)
LEMMA CollectedReports ==
  ASSUME NEW acc \in AccType, NEW lines, NEW failures, failures = Extracted(Finish(acc)),
         Counted(acc, lines), Unrepeated(acc.failed_names), Cardinality(BlockLines(lines)) \in Nat
  PROVE  \/ FailuresMayBeFull(lines, failures)
         \/ /\ Len(acc.failures) < MaxLogFailures /\ Len(acc.failed_names) < MaxLogFailures
            /\ Named(acc) \cup FailedOf(acc.go_blocks) \cup Range(acc.failed_names)
                 \subseteq NamesOf(failures)
PROOF
<1> DEFINE all == Finish(acc)
           afterGo == WithGo(acc)
           before == WithOpen(acc)
           go == GoFailures(acc.go_blocks)
           names == acc.failed_names
           made == Cardinality(BlockLines(lines))
<1>1. acc.go_blocks \in AtMost(GoBlockType, MaxGoBlocks) /\ names \in AtMost(Names, MaxLogFailures)
  BY DEF AccType
<1>2. /\ go \in Seq(FailureType) /\ \A i \in DOMAIN go : go[i].kind = "go"
      /\ FailedOf(acc.go_blocks) \subseteq NamesOf(go)
  BY <1>1, GoFailuresProperties
<1>3. /\ before \in AtMost(FailureType, MaxLogFailures)
      /\ Len(before) <= Taken(acc)
      /\ Len(before) < MaxLogFailures =>
           Len(acc.failures) < MaxLogFailures /\ Named(acc) \subseteq NamesOf(before)
  BY WithOpenProperties
<1>4. /\ Adds(afterGo, before, go, NewKeys(go, Range(before)))
      /\ Adds(all, afterGo, Statuses(names), NewKeys(names, NamesOf(afterGo)))
  BY FinishAdds
<1> HIDE DEF all, afterGo, before, go, names, made
<1>5. Layers(all, afterGo, before, go, names)
  BY <1>1, <1>2, <1>3, <1>4 DEF Layers
<1>6. /\ Len(all) \in Nat /\ MaxLogFailures \in Nat /\ Len(before) \in Nat
      /\ Len(before) <= Len(all)
  <2>1. /\ Len(all) \in Nat /\ MaxLogFailures \in Nat /\ Len(before) \in Nat
        /\ Len(before) <= Len(afterGo) /\ Len(afterGo) <= Len(all) /\ Len(afterGo) \in Nat
    BY <1>5, LayersType
  <2> QED  BY <2>1
<1>7. /\ Taken(acc) <= made /\ made \in Nat /\ IsFiniteSet(BlockNames(lines))
      /\ Len(acc.failures) < MaxLogFailures =>
           Taken(acc) + Cardinality(BlockNames(lines) \ Named(acc)) <= made
  BY DEF Counted, made
<1>8. Taken(acc) \in Nat
  BY TakenNat
<1>9. CASE Len(all) >= MaxLogFailures
  <2>1. Len(before) <= made
    BY <1>3, <1>6, <1>7, <1>8
  <2>2. Len(before) < MaxLogFailures =>
          Len(before) + Cardinality(BlockNames(lines) \ Named(acc)) <= made
    <3>1. Cardinality(BlockNames(lines) \ Named(acc)) \in Nat
      BY <1>7, FS_Difference, FS_CardinalityType
    <3> QED  BY <1>3, <1>6, <1>7, <1>8, <3>1
  <2>3. LET extracted == Extracted(all)
        IN  made + Cardinality({n \in DOMAIN extracted : ~OfBlock(lines, extracted[n])})
              >= MaxLogFailures
    BY <1>3, <1>5, <1>7, <1>9, <2>1, <2>2, LayersFull
  <2>4. failures = Extracted(all)
    BY DEF all
  <2>5. FailuresMayBeFull(lines, failures)
    BY <2>3, <2>4 DEF FailuresMayBeFull, made, BlockLines
  <2> QED  BY <2>5
<1>10. CASE Len(all) < MaxLogFailures
  <2>1. /\ NamesOf(before) \subseteq NamesOf(all) /\ NamesOf(go) \subseteq NamesOf(all)
        /\ Range(names) \subseteq NamesOf(all) /\ Len(names) < MaxLogFailures
    BY <1>5, <1>10, LayersNames DEF names
  <2>2. all \in AtMost(FailureType, MaxLogFailures)
    BY <1>4 DEF Adds
  <2>3. NamesOf(all) \subseteq NamesOf(failures)
    BY <2>2, ExtractedProperties DEF all
  <2>4. Len(before) < MaxLogFailures
    BY <1>6, <1>10
  <2> QED  BY <1>2, <1>3, <2>1, <2>3, <2>4 DEF names
<1> QED  BY <1>6, <1>9, <1>10

(* What is reported of a completed log.                                    *)
LEMMA ReportCollected ==
  ASSUME NEW lines \in Seq(LogLine), NEW failures, failures = FinishLog(OfAllLines(lines), TRUE)
  PROVE  AllFailedReported(lines, failures)
PROOF
<1> DEFINE acc == OfAllLines(lines)
           names == NamesOf(failures)
<1>1. Sound(acc) /\ Collecting(acc, lines)
  BY LinesCollecting
<1>2. failures = Extracted(Finish(acc))
  BY DEF FinishLog
<1> HIDE DEF acc
<1>3. acc \in AccType /\ Unrepeated(acc.failed_names) /\ Counted(acc, lines) /\ GoNoted(acc, lines)
      /\ (NoGo(lines) => GtestNoted(acc, lines))
      /\ (NoGo(lines) /\ NoGtestFailure(lines) => RustNoted(acc, lines))
  BY <1>1 DEF Sound, Collecting
<1>4. Cardinality(BlockLines(lines)) \in Nat
  BY IntervalSubset DEF BlockLines
<1>5. \/ FailuresMayBeFull(lines, failures)
      \/ /\ Len(acc.failures) < MaxLogFailures /\ Len(acc.failed_names) < MaxLogFailures
         /\ Named(acc) \cup FailedOf(acc.go_blocks) \cup Range(acc.failed_names) \subseteq names
  BY <1>2, <1>3, <1>4, CollectedReports
<1>6. /\ Without(lines, IsGo) <=> NoGo(lines)
      /\ Without(lines, LAMBDA line : line.gtest_failure) <=> NoGtestFailure(lines)
  BY DEF Without, NoGo, NoGtestFailure
<1>7. names = {failures[n].name : n \in DOMAIN failures}
  BY DEF NamesOf
<1>8. /\ acc.failed_names \in Seq(Names) /\ acc.failures \in Seq(FailureType)
      /\ MaxLogFailures \in Nat
  BY <1>3, LimitsNat DEF AccType, AtMost
<1>9. \A i \in DOMAIN lines : 0 \in {lines[i].rust_block, lines[i].rust_panic}
  <2>1. \A i \in DOMAIN lines : lines[i] \in LogLine
    BY DEF LogLine
  <2> QED  BY <2>1 DEF LogLine
<1> HIDE DEF names
<1> SUFFICES ASSUME ~FailuresMayBeFull(lines, failures), NEW i \in DOMAIN lines
             PROVE
               /\ \/ lines[i].go_fail # 0 /\ lines[i].starts => Bounded[lines[i].go_fail] \in names
                  \/ GoBlocksMayBeFull(lines, i)
               /\ NoGo(lines) /\ lines[i].gtest_run = 0
                    /\ lines[i].gtest_failure /\ lines[i].starts =>
                    {GtestTestAt(lines, i), UnknownGtest} \cap names # {}
               /\ NoGo(lines) /\ NoGtestFailure(lines) /\ lines[i].starts =>
                    /\ lines[i].rust_failed # 0 => Bounded[lines[i].rust_failed] \in names
                    /\ lines[i].rust_block # 0 => Bounded[lines[i].rust_block] \in names
                    /\ lines[i].rust_panic # 0 => Bounded[lines[i].rust_panic] \in names
  BY <1>6, <1>7 DEF AllFailedReported
<1>10. /\ Len(acc.failures) < MaxLogFailures /\ Len(acc.failed_names) < MaxLogFailures
       /\ Named(acc) \subseteq names /\ FailedOf(acc.go_blocks) \subseteq names
       /\ Range(acc.failed_names) \subseteq names
  BY <1>5
<1>11. lines[i].go_fail # 0 /\ lines[i].starts /\ ~GoBlocksMayBeFull(lines, i) =>
         Bounded[lines[i].go_fail] \in names
  BY <1>3, <1>10 DEF GoNoted
<1>12. NoGo(lines) /\ lines[i].gtest_run = 0 /\ lines[i].gtest_failure /\ lines[i].starts =>
         {GtestTestAt(lines, i), UnknownGtest} \cap names # {}
  BY <1>3, <1>10 DEF GtestNoted
<1>13. ASSUME NoGo(lines), NoGtestFailure(lines), lines[i].starts
       PROVE  /\ lines[i].rust_failed # 0 => Bounded[lines[i].rust_failed] \in names
              /\ RustNameIn(lines[i]) # 0 => Bounded[RustNameIn(lines[i])] \in names
  <2>1. ~(Len(acc.failed_names) >= MaxLogFailures)
    BY <1>8, <1>10
  <2> QED  BY <1>3, <1>10, <1>13, <2>1 DEF RustNoted
<1>14. /\ lines[i].rust_block # 0 => RustNameIn(lines[i]) = lines[i].rust_block
       /\ lines[i].rust_panic # 0 => RustNameIn(lines[i]) = lines[i].rust_panic
  BY <1>9 DEF RustNameIn
<1> QED  BY <1>11, <1>12, <1>13, <1>14

LEMMA FailedInit == Init => FailedTestsReported
PROOF
<1> SUFFICES ASSUME Init PROVE FailedTestsReported
  OBVIOUS
<1>1. DOMAIN Lines(reported.log) = {}
  BY DEF Init, NoReport, Lines
<1> QED  BY <1>1 DEF FailedTestsReported, AllFailedReported

LEMMA FailedStep == GateInv /\ FailedTestsReported /\ [Next]_vars => FailedTestsReported'
PROOF
<1> SUFFICES ASSUME TypeInv, GateIsTransparent, FailedTestsReported, [Next]_vars
             PROVE  FailedTestsReported'
  BY DEF GateInv
<1>1. CASE UNCHANGED vars
  <2>1. reported' = reported
    BY <1>1 DEF vars
  <2> QED  BY <2>1 DEF FailedTestsReported
<1>2. CASE reported' = NoReport
  <2>1. DOMAIN Lines(reported'.log) = {}
    BY <1>2 DEF NoReport, Lines
  <2> QED  BY <2>1 DEF FailedTestsReported, AllFailedReported
<1>3. ASSUME NEW scope \in Scopes, NEW reason \in EndReasons, EndScope(scope, reason)
      PROVE  FailedTestsReported'
  <2> DEFINE lines == Lines(log[scope])
             failures == FinishLog(OfAllLines(lines), TRUE)
  <2>1. /\ scope \in open
        /\ reported' = [log |-> log[scope], reason |-> reason,
                        failures |-> FinishLog(Reducer(scope).failures, reason = "Complete"),
                        provenance |-> Reducer(scope).provenance]
    BY <1>3 DEF EndScope
  <2>2. Reducer(scope).failures = OfAllLines(lines)
    BY <2>1 DEF GateIsTransparent
  <2>3. lines \in Seq(LogLine)
    <3>1. log[scope] \in Seq(ShownType) /\ format \subseteq LogLine
      BY FormatLinesUnmixed, TestFailuresAssumption DEF TypeInv, LogLine
    <3>2. \A i \in DOMAIN log[scope] : log[scope][i].line \in LogLine
      <4>1. \A i \in DOMAIN log[scope] : log[scope][i] \in ShownType
        <5> HIDE DEF ShownType
        <5> QED  BY <3>1
      <4>2. \A shown \in ShownType : shown.line \in LogLine
        BY <3>1 DEF ShownType
      <4> QED  BY <4>1, <4>2
    <3>3. DOMAIN log[scope] = 1..Len(log[scope]) /\ Len(log[scope]) \in Nat
      BY <3>1
    <3>4. lines \in [1..Len(log[scope]) -> LogLine]
      BY <3>2, <3>3 DEF Lines
    <3> HIDE DEF lines
    <3> QED  BY <3>3, <3>4
  <2>4. CASE reason = "Complete"
    <3>1. Lines(reported'.log) = lines /\ reported'.failures = failures
      BY <2>1, <2>2, <2>4
    <3> HIDE DEF lines
    <3>2. AllFailedReported(lines, failures)
      BY <2>3, ReportCollected
    <3> HIDE DEF failures
    <3> QED  BY <3>1, <3>2 DEF FailedTestsReported
  <2>5. CASE reason # "Complete"
    <3>1. reported'.reason # "Complete"
      BY <2>1, <2>5
    <3> QED  BY <3>1 DEF FailedTestsReported
  <2> QED  BY <2>4, <2>5
<1>4. CASE \E scope \in Scopes : \/ BeginScope(scope)
                                 \/ \E stream \in Streams : \E line \in format :
                                      Observe(scope, stream, line)
  BY <1>2, <1>4 DEF BeginScope, Observe
<1> QED  BY <1>1, <1>3, <1>4 DEF Next

(* Every test that the log of a completed scope names as failed is         *)
(* reported, however many tests there are and whatever the limit, unless   *)
(* what is collected of the log reaches the limit (MAX_LOG_FAILURES) or    *)
(* the blocks of go test were used up (observe_line, finish_log).          *)
THEOREM FailedTestsAlwaysReported == Spec => []FailedTestsReported
PROOF
<1>1. Init => GateInv /\ FailedTestsReported
  BY TypeInit, GateInit, FailedInit DEF GateInv
<1>2. GateInv /\ FailedTestsReported /\ [Next]_vars => (GateInv /\ FailedTestsReported)'
  BY TypeStep, GateStep, FailedStep DEF GateInv
<1> QED  BY <1>1, <1>2, PTL DEF Spec
=============================================================================
