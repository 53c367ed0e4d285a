------------------------ MODULE LanguageParsersProofs ------------------------
(***************************************************************************)
(* What the parsers of the languages find in one text, whatever its lines: *)
(* where each of them is after each line, that the exceptions it reports   *)
(* are in their places and no line is reported by two of them, that what   *)
(* looks like an error is never lost between them.  These are the lemmas   *)
(* of BuiltinParsersProofs, which has the theorems.                        *)
(***************************************************************************)
EXTENDS BuiltinParsersProperties, FoldLemmas

(* What is left of a text has no blank lines.                              *)
WrittenText(text) == text \in Seq(Lines) /\ \A i \in DOMAIN text : ~Reads[text[i]].blank

----------------------------------------------------------------------------
(* Stacks of frames *)

(* Positions above which, down to i, there is nothing but positions of F.  *)
Below(F, i, n) == {j \in (i + 1)..n : \A k \in (i + 1)..j : k \in F}

LEMMA LookedBelow ==
  ASSUME NEW F, NEW n \in Nat, NEW i \in 1..n
  PROVE  Looked(Below(F, i, n)) = {j \in Below(F, i, n) : j - i <= MaxStackFrames}
PROOF
<1> DEFINE stack == Below(F, i, n)
<1>1. ASSUME NEW j \in stack
      PROVE  Cardinality({k \in stack : k <= j}) = j - i
  <2>1. j \in (i + 1)..n /\ \A k \in (i + 1)..j : k \in F
    BY DEF Below
  <2>2. \A k \in (i + 1)..j : k \in stack
    <3> SUFFICES ASSUME NEW k \in (i + 1)..j
                 PROVE  k \in (i + 1)..n /\ \A q \in (i + 1)..k : q \in F
      BY DEF Below
    <3>1. \A q \in (i + 1)..k : q \in (i + 1)..j
      BY <2>1
    <3> QED  BY <2>1, <3>1
  <2>3. {k \in stack : k <= j} = (i + 1)..j
    <3>1. \A k \in stack : k \in (i + 1)..n
      BY DEF Below
    <3> HIDE DEF stack
    <3>2. \A k \in stack : k <= j => k \in (i + 1)..j
      BY <2>1, <3>1
    <3>3. \A k \in (i + 1)..j : k <= j
      BY <2>1
    <3> QED  BY <2>2, <3>2, <3>3
  <2>4. i + 1 \in Int /\ j \in Int /\ ~(i + 1 > j) /\ j - (i + 1) + 1 = j - i
    BY <2>1
  <2>5. Cardinality((i + 1)..j) = j - i
    <3> DEFINE a == i + 1
    <3>1. a \in Int /\ j \in Int /\ ~(a > j) /\ j - a + 1 = j - i
      BY <2>4
    <3> HIDE DEF a
    <3>2. Cardinality(a..j) = j - i
      BY <3>1, FS_Interval
    <3> QED  BY <3>2 DEF a
  <2> HIDE DEF stack
  <2> QED  BY <2>3, <2>5
<1> HIDE DEF stack
<1>2. Looked(stack) = {j \in stack : j - i <= MaxStackFrames}
  BY <1>1 DEF Looked
<1> QED  BY <1>2 DEF stack

(* The frames of the program itself, those not in W, that are looked at.   *)
Own(F, W, i, n) == {j \in Looked(Below(F, i, n)) : j \notin W}

LEMMA MinIs ==
  ASSUME NEW S \in SUBSET Nat, NEW m \in S, \A j \in S : m <= j
  PROVE  Min(S) = m
PROOF
<1>1. \A x \in S : (\A y \in S : x <= y) => x = m
  OBVIOUS
<1> QED  BY <1>1 DEF Min

LEMMA StackCases ==
  ASSUME NEW F, NEW W, NEW n \in Nat, NEW i \in 1..n, NEW m \in i..n,
         \A k \in (i + 1)..m : k \in F /\ k \in W,
         m - i < MaxStackFrames, MaxStackFrames \in Nat
  PROVE  /\ m > i => Below(F, i, n) # {}
         /\ m = n \/ m + 1 \notin F =>
              Own(F, W, i, n) = {} /\ (m = i => Below(F, i, n) = {})
         /\ m < n /\ m + 1 \in F =>
              /\ Below(F, i, n) # {}
              /\ m + 1 \notin W => Own(F, W, i, n) # {} /\ Min(Own(F, W, i, n)) = m + 1
              /\ m + 1 \in W /\ m + 1 - i >= MaxStackFrames => Own(F, W, i, n) = {}
PROOF
<1> DEFINE stack == Below(F, i, n)
           own == Own(F, W, i, n)
<1>0. i \in Nat /\ m \in Nat /\ i <= m /\ m <= n /\ 1 <= i
  OBVIOUS
<1>1. own = {j \in stack : j - i <= MaxStackFrames /\ j \notin W}
  BY LookedBelow DEF Own
<1>2. stack \subseteq (i + 1)..n /\ \A j \in stack : \A k \in (i + 1)..j : k \in F
  BY DEF Below
<1>3. \A j \in (i + 1)..m : j \in stack
  <2> SUFFICES ASSUME NEW j \in (i + 1)..m
               PROVE  j \in (i + 1)..n /\ \A k \in (i + 1)..j : k \in F
    BY DEF Below
  <2>1. \A k \in (i + 1)..j : k \in (i + 1)..m
    BY <1>0
  <2> QED  BY <1>0, <2>1
<1>4. m > i => stack # {}
  BY <1>0, <1>3
<1>5. ASSUME m = n \/ m + 1 \notin F
      PROVE  stack \subseteq (i + 1)..m
  <2>1. ASSUME NEW j \in stack, j > m
        PROVE  FALSE
    <3>1. m < n /\ m + 1 \in (i + 1)..j
      BY <1>0, <1>2, <2>1
    <3> QED  BY <1>2, <1>5, <2>1, <3>1
  <2> QED  BY <1>0, <1>2, <2>1
<1>6. ASSUME m < n, m + 1 \in F
      PROVE  m + 1 \in stack
  <2> SUFFICES m + 1 \in (i + 1)..n /\ \A k \in (i + 1)..(m + 1) : k \in F
    BY DEF Below
  <2>1. \A k \in (i + 1)..(m + 1) : k = m + 1 \/ k \in (i + 1)..m
    BY <1>0
  <2> QED  BY <1>0, <1>6, <2>1
<1>7. ASSUME m = n \/ m + 1 \notin F
      PROVE  own = {} /\ (m = i => stack = {})
  BY <1>0, <1>1, <1>5, <1>7
<1>8. ASSUME m < n, m + 1 \in F, m + 1 \notin W
      PROVE  own # {} /\ Min(own) = m + 1
  <2>1. m + 1 \in own
    BY <1>0, <1>1, <1>6, <1>8
  <2>2. own \in SUBSET Nat
    BY <1>0, <1>1, <1>2
  <2>3. \A j \in own : m + 1 <= j
    BY <1>0, <1>1, <1>2
  <2> HIDE DEF own
  <2>4. Min(own) = m + 1
    <3> DEFINE next == m + 1
    <3>1. next \in own /\ \A j \in own : next <= j
      BY <2>1, <2>3
    <3> HIDE DEF next
    <3> QED  BY <2>2, <3>1, MinIs DEF next
  <2> QED  BY <2>1, <2>4
<1>9. ASSUME m < n, m + 1 \in F, m + 1 \in W, m + 1 - i >= MaxStackFrames
      PROVE  own = {}
  <2>1. ASSUME NEW j \in own PROVE FALSE
    <3>1. j \in (i + 1)..(m + 1) /\ j \notin W
      BY <1>0, <1>1, <1>2, <1>9
    <3>2. j = m + 1 \/ j \in (i + 1)..m
      BY <1>0, <3>1
    <3> QED  BY <1>9, <3>1, <3>2
  <2> QED  BY <2>1
<1> HIDE DEF stack, own
<1> QED  BY <1>4, <1>6, <1>7, <1>8, <1>9 DEF stack, own

Silent(R, p, m) == \A i \in (p + 1)..m : R[i] = <<>>

(* Where nothing is added, the concatenation stays.                        *)
LEMMA FlatStays ==
  ASSUME NEW T, NEW n \in Nat, NEW R, NEW flat, Flattens(flat, T, n, R),
         NEW p \in 0..n, NEW m \in p..n, Silent(R, p, m)
  PROVE  flat[m] = flat[p]
PROOF
<1> DEFINE P == {d \in Nat : p + d <= m => flat[p + d] = flat[p]}
<1>0. p \in Nat /\ m \in Nat /\ p <= m /\ m <= n
  OBVIOUS
<1>1. 0 \in P
  BY <1>0
<1>2. ASSUME NEW d \in P PROVE d + 1 \in P
  <2> SUFFICES ASSUME p + (d + 1) <= m PROVE flat[p + (d + 1)] = flat[p]
    OBVIOUS
  <2> DEFINE k == p + (d + 1)
  <2>1. d \in Nat /\ k \in 1..n /\ k \in (p + 1)..m /\ k - 1 = p + d /\ p + d <= m /\ k - 1 \in 0..n
    BY <1>0
  <2>2. flat[k - 1] = flat[p]
    BY <2>1
  <2> HIDE DEF k
  <2>3. flat[k] = flat[k - 1] \o R[k] /\ flat[k - 1] \in Seq(T) /\ R[k] = <<>>
    BY <2>1 DEF Flattens, Silent
  <2>4. flat[k] = flat[k - 1]
    BY <2>3
  <2> QED  BY <2>2, <2>4 DEF k
<1>3. P \in SUBSET Nat
  OBVIOUS
<1>4. P = Nat
  <2> HIDE DEF P
  <2> QED  BY <1>1, <1>2, <1>3, InductionOnNat
<1>5. m - p \in Nat /\ p + (m - p) = m
  BY <1>0
<1>6. m - p \in P
  BY <1>4, <1>5
<1> QED  BY <1>0, <1>5, <1>6

(* Reports of at most one each. *)
Singles(n, R) == {R[i][1] : i \in 1..n}

LEMMA SinglesType ==
  ASSUME NEW n \in Nat, NEW R, DOMAIN R = 1..n, R = [i \in 1..n |-> R[i]],
         \A i \in 1..n : R[i] = <<>> \/ \E x : R[i] = <<x>>
  PROVE  R \in [1..n -> Seq(Singles(n, R))]
PROOF
<1> DEFINE T == Singles(n, R)
<1>1. ASSUME NEW i \in 1..n PROVE R[i] \in Seq(T)
  <2>1. CASE R[i] = <<>>
    <3>1. <<>> \in Seq(T)
      OBVIOUS
    <3> QED  BY <2>1, <3>1
  <2>2. ASSUME NEW x, R[i] = <<x>> PROVE R[i] \in Seq(T)
    <3>1. x = R[i][1]
      BY <2>2
    <3>2. x \in T
      BY <3>1 DEF Singles
    <3> HIDE DEF T
    <3>3. <<x>> \in Seq(T)
      BY <3>2
    <3> QED  BY <2>2, <3>3
  <2> QED  BY <2>1, <2>2
<1> HIDE DEF T
<1> QED  BY <1>1 DEF T

----------------------------------------------------------------------------
(* Java's parser of tests: what it goes through *)

DiagnosticsOf(owner) ==
  [owner : {owner}, line : Lines, message : Seq(OptionalTexts), location : OptionalPlaces,
   repetition_count : {1}]
Waiting(T) == {<<>>} \cup {<<d>> : d \in T}

LEMMA DiagnosticType ==
  ASSUME NEW owner, NEW line \in Lines, NEW message \in Seq(OptionalTexts),
         NEW location \in OptionalPlaces
  PROVE  Diagnostic(owner, line, message, location) \in DiagnosticsOf(owner)
BY DEF Diagnostic, DiagnosticsOf

LEMMA ReadIs ==
  ASSUME NEW line \in Lines
  PROVE  Reads[line] \in ReadingType
BY LanguageParsersAssumption DEF LanguageParsersAssumption

LEMMA FrameLimit == MaxStackFrames \in Nat /\ MaxStackFrames > 0
BY LanguageParsersAssumption DEF LanguageParsersAssumption

JavaType ==
  [pending : Waiting(DiagnosticsOf("java-test")), pending_is_explicit : BOOLEAN,
   frames_seen : Nat]

Results(Parsers, T) == [parser : Parsers, found : Seq(T)]

LEMMA JavaReadType ==
  ASSUME NEW line \in Lines
  PROVE  /\ Reads[line].java_exception \in OptionalTexts
         /\ Reads[line].java_explicit \in BOOLEAN
         /\ Reads[line].java_frame \in OptionalPlaces
         /\ Reads[line].java_framework \in BOOLEAN
<1>1. Reads[line] \in ReadingType
  BY ReadIs
<1> QED  BY <1>1 DEF ReadingType

LEMMA NewJavaType == NewJava \in JavaType
BY DEF NewJava, JavaType, Waiting

LEMMA JavaConfirmedType ==
  ASSUME NEW parser \in JavaType
  PROVE  JavaConfirmed(parser) \in Seq(DiagnosticsOf("java-test"))
<1> DEFINE T == DiagnosticsOf("java-test")
<1>1. parser.pending \in Waiting(T)
  BY DEF JavaType
<1>2. \A p \in Waiting(T) : p \in Seq(T)
  <2>1. \A x \in T : <<x>> \in Seq(T)
    OBVIOUS
  <2>2. <<>> \in Seq(T)
    OBVIOUS
  <2> HIDE DEF T
  <2> QED  BY <2>1, <2>2, Zenon DEF Waiting
<1>3. <<>> \in Seq(T)
  OBVIOUS
<1> QED  BY <1>1, <1>2, <1>3 DEF JavaConfirmed

LEMMA ObserveJavaType ==
  ASSUME NEW parser \in JavaType, NEW line \in Lines
  PROVE  ObserveJava(parser, line) \in Results(JavaType, DiagnosticsOf("java-test"))
<1> DEFINE T == DiagnosticsOf("java-test")
           read == Reads[line]
           R == Results(JavaType, T)
<1>0. /\ read.java_exception \in OptionalTexts
      /\ read.java_explicit \in BOOLEAN
      /\ read.java_frame \in OptionalPlaces
  BY JavaReadType
<1>1. JavaConfirmed(parser) \in Seq(T) /\ <<>> \in Seq(T) /\ NewJava \in JavaType
  BY JavaConfirmedType, NewJavaType
<1>2. \A p \in JavaType, f \in Seq(T) : Result(p, f) \in R
  BY DEF Result, Results
<1>3. CASE read.java_exception # 0
  <2> DEFINE d == Diagnostic("java-test", line, <<read.java_exception>>, 0)
             p == [pending |-> <<d>>, pending_is_explicit |-> read.java_explicit, frames_seen |-> 0]
  <2>1. d \in T
    <3>1. <<read.java_exception>> \in Seq(OptionalTexts) /\ 0 \in OptionalPlaces
      BY <1>0 DEF OptionalPlaces
    <3> QED  BY <3>1, DiagnosticType
  <2> HIDE DEF d
  <2>2. p \in JavaType
    BY <1>0, <2>1 DEF JavaType, Waiting
  <2>3. ObserveJava(parser, line) = Result(p, JavaConfirmed(parser))
    BY <1>3 DEF ObserveJava, d
  <2> HIDE DEF p
  <2> QED  BY <1>1, <1>2, <2>2, <2>3
<1>4. CASE read.java_exception = 0 /\ parser.pending # <<>> /\ read.java_frame # 0
  <2> DEFINE seen == [parser EXCEPT !.frames_seen = @ + 1]
             d == [parser.pending[1] EXCEPT !.location = read.java_frame]
  <2>1. seen \in JavaType
    BY DEF JavaType
  <2>2. parser.pending[1] \in T
    <3>1. parser.pending \in Waiting(T)
      BY DEF JavaType
    <3> HIDE DEF T
    <3>2. PICK x \in T : parser.pending = <<x>>
      BY <1>4, <3>1 DEF Waiting
    <3> QED  BY <3>2
  <2>3. d \in T
    BY <1>0, <2>2 DEF DiagnosticsOf
  <2>4. JavaConfirmed(seen) \in Seq(T) /\ <<d>> \in Seq(T)
    BY <2>1, <2>3, JavaConfirmedType
  <2>5. ObserveJava(parser, line) =
          IF ~read.java_framework THEN Result(NewJava, <<d>>)
          ELSE IF seen.frames_seen >= MaxStackFrames THEN Result(NewJava, JavaConfirmed(seen))
          ELSE Result(seen, <<>>)
    BY <1>4 DEF ObserveJava, ObserveJavaFrame
  <2> HIDE DEF seen, d
  <2> QED  BY <1>1, <1>2, <2>1, <2>4, <2>5
<1>5. CASE read.java_exception = 0 /\ (parser.pending = <<>> \/ read.java_frame = 0)
  <2>1. \/ ObserveJava(parser, line) = Result(parser, <<>>)
        \/ ObserveJava(parser, line) = Result(NewJava, JavaConfirmed(parser))
    BY <1>5 DEF ObserveJava
  <2> QED  BY <1>1, <1>2, <2>1
<1> QED  BY <1>3, <1>4, <1>5

LEMMA AndType ==
  ASSUME NEW P, NEW T, NEW a \in Results(P, T), NEW b \in Results(P, T)
  PROVE  And(a, b) \in Results(P, T)
<1>1. a.found \in Seq(T) /\ b.found \in Seq(T) /\ b.parser \in P
  BY DEF Results
<1>2. a.found \o b.found \in Seq(T)
  BY <1>1
<1> QED  BY <1>1, <1>2 DEF Results, And, Result

JavaPrefixes(text) == ParsedPrefixes(ObserveJava, NewJava, text)

LEMMA JavaCourse ==
  ASSUME NEW text \in Seq(Lines)
  PROVE  /\ JavaPrefixes(text)[0] = Result(NewJava, <<>>)
         /\ \A n \in 0..Len(text) :
              JavaPrefixes(text)[n] \in Results(JavaType, DiagnosticsOf("java-test"))
         /\ \A n \in 1..Len(text) :
              JavaPrefixes(text)[n] =
                And(JavaPrefixes(text)[n - 1],
                    ObserveJava(JavaPrefixes(text)[n - 1].parser, text[n]))
PROOF
<1> DEFINE V == Results(JavaType, DiagnosticsOf("java-test"))
           size == Len(text)
           base == Result(NewJava, <<>>)
           step == [p \in (1..size) \X V |-> And(p[2], ObserveJava(p[2].parser, text[p[1]]))]
           Eq(f) == f = [n \in 0..size |-> IF n = 0 THEN base
                            ELSE And(f[n - 1], ObserveJava(f[n - 1].parser, text[n]))]
<1>1. size \in Nat /\ base \in V
  BY NewJavaType DEF Result, Results
<1>2. /\ \A n \in 1..size, v \in V :
           step[<<n, v>>] = And(v, ObserveJava(v.parser, text[n]))
      /\ step \in [(1..size) \X V -> V]
  <2>1. ASSUME NEW n \in 1..size, NEW v \in V
        PROVE  And(v, ObserveJava(v.parser, text[n])) \in V
    <3>1. text[n] \in Lines /\ v.parser \in JavaType
      BY DEF Results
    <3>2. ObserveJava(v.parser, text[n]) \in V
      BY <3>1, ObserveJavaType
    <3> QED  BY <3>2, AndType
  <2> HIDE DEF V
  <2> QED  BY <2>1
<1> HIDE DEF step, V, base
<1>3. PICK g : IsCourse(g, size, V, base, step)
  BY <1>1, <1>2, CourseExists
<1>4. /\ g \in [0..size -> V] /\ g[0] = base
      /\ \A n \in 1..size : g[n] = step[<<n, g[n - 1]>>]
  BY <1>3 DEF IsCourse
<1>5. \A n \in 1..size :
        g[n - 1] \in V /\ g[n] = And(g[n - 1], ObserveJava(g[n - 1].parser, text[n]))
  <2> SUFFICES ASSUME NEW n \in 1..size
               PROVE  /\ g[n - 1] \in V
                      /\ g[n] = And(g[n - 1], ObserveJava(g[n - 1].parser, text[n]))
    OBVIOUS
  <2>1. n - 1 \in 0..size
    BY <1>1
  <2> QED  BY <1>2, <1>4, <2>1
<1>6. Eq(g)
  <2>1. \A n \in 0..size : n # 0 => n \in 1..size
    BY <1>1
  <2>2. g = [n \in 0..size |-> g[n]]
    BY <1>4
  <2>3. \A n \in 0..size : g[n] = IF n = 0 THEN base
                            ELSE And(g[n - 1], ObserveJava(g[n - 1].parser, text[n]))
    BY <1>4, <1>5, <2>1
  <2> HIDE DEF size
  <2> QED  BY <2>2, <2>3
<1>7. JavaPrefixes(text) = CHOOSE f : Eq(f)
  BY DEF JavaPrefixes, ParsedPrefixes, base
<1> DEFINE h == CHOOSE f : Eq(f)
<1>8. Eq(h)
  <2> HIDE DEF Eq
  <2> QED  BY <1>6
<1> HIDE DEF h
<1>9. /\ h[0] = base
      /\ \A n \in 1..size : h[n] = And(h[n - 1], ObserveJava(h[n - 1].parser, text[n]))
  <2>1. \A n \in 1..size : n \in 0..size /\ n # 0
    BY <1>1
  <2>2. 0 \in 0..size
    BY <1>1
  <2> HIDE DEF size
  <2> QED  BY <1>8, <2>1, <2>2
<1>10. StepsAgree(h, g, size)
  BY <1>4, <1>5, <1>9 DEF StepsAgree
<1>11. \A n \in 0..size : h[n] = g[n]
  BY <1>1, <1>10, CoursesAgree
<1>12. \A n \in 0..size : h[n] \in V
  BY <1>4, <1>11
<1> QED  BY <1>7, <1>9, <1>12 DEF h, V, base

----------------------------------------------------------------------------
(* Java's parser of tests: what it has after each line *)

JavaFrames(text) == {i \in DOMAIN text : IsJavaFrame(text[i])}
JavaFramework(text) == {i \in DOMAIN text : Reads[text[i]].java_framework}
JavaHeader(line, at) == Diagnostic("java-test", line, <<Reads[line].java_exception>>, at)
JavaReports(text) ==
  [i \in DOMAIN text |->
    IF Reads[text[i]].java_exception = 0 THEN <<>>
    ELSE JavaReport(text, i, StackBelow(text, i, IsJavaFrame), TRUE)]

(* All that follows the exception at i up to m are frames of a framework.  *)
JavaStack(text, i, m) ==
  /\ i \in 1..Len(text) /\ m \in i..Len(text)
  /\ Reads[text[i]].java_exception # 0
  /\ m - i < MaxStackFrames
  /\ \A k \in (i + 1)..m : k \in JavaFrames(text) /\ k \in JavaFramework(text)

LEMMA JavaReported ==
  ASSUME NEW text, WrittenText(text), NEW i, NEW m, JavaStack(text, i, m)
  PROVE  LET report == JavaReports(text)[i]
             line == text[i]
         IN  /\ m = Len(text) \/ m + 1 \notin JavaFrames(text) =>
                  report = IF m > i \/ Reads[line].java_explicit THEN <<JavaHeader(line, 0)>>
                           ELSE <<>>
             /\ m < Len(text) /\ m + 1 \in JavaFrames(text) /\ m + 1 \notin JavaFramework(text) =>
                  report = <<JavaHeader(line, Reads[text[m + 1]].java_frame)>>
             /\ m < Len(text) /\ m + 1 \in JavaFrames(text) /\ m + 1 \in JavaFramework(text)
                  /\ m + 1 - i >= MaxStackFrames =>
                  report = <<JavaHeader(line, 0)>>
PROOF
<1> DEFINE n == Len(text)
           F == JavaFrames(text)
           W == JavaFramework(text)
           stack == StackBelow(text, i, IsJavaFrame)
           own == Own(F, W, i, n)
           at == IF own = {} THEN 0 ELSE Reads[text[Min(own)]].java_frame
           line == text[i]
<1>1. /\ text \in Seq(Lines) /\ n \in Nat /\ DOMAIN text = 1..n
      /\ i \in 1..n /\ m \in i..n /\ \A k \in 1..n : ~Reads[text[k]].blank
      /\ Reads[line].java_exception # 0
  BY DEF WrittenText, JavaStack
<1>2. stack = Below(F, i, n)
  <2>1. \A j \in (i + 1)..n : \A k \in (i + 1)..j : k \in 1..n
    BY <1>1
  <2>2. \A j \in (i + 1)..n : j \in 1..n
    BY <1>1
  <2>3. \A k \in 1..n : k \in F <=> IsJavaFrame(text[k])
    BY <1>1 DEF JavaFrames
  <2>4. stack = {j \in (i + 1)..n : IsJavaFrame(text[j]) /\
                   \A k \in (i + 1)..j : IsJavaFrame(text[k]) \/ Reads[text[k]].blank}
    BY DEF StackBelow
  <2>5. \A j \in (i + 1)..n : j \in (i + 1)..j
    BY <1>1
  <2> HIDE DEF stack, n, F
  <2> QED  BY <1>1, <2>1, <2>2, <2>3, <2>4, <2>5 DEF Below
<1>3. {j \in Looked(stack) : ~Reads[text[j]].java_framework} = own
  <2>1. \A j \in Looked(stack) : j \in 1..n
    BY <1>1, <1>2 DEF Looked, Below
  <2>2. \A j \in 1..n : j \in W <=> Reads[text[j]].java_framework
    BY <1>1, JavaReadType DEF JavaFramework
  <2> HIDE DEF stack, n, F, W
  <2> QED  BY <1>2, <2>1, <2>2 DEF Own
<1>4. JavaReports(text)[i] =
        IF stack # {} \/ Reads[line].java_explicit THEN <<JavaHeader(line, at)>> ELSE <<>>
  BY <1>1, <1>3 DEF JavaReports, JavaReport, JavaHeader
<1>5. /\ m > i => stack # {}
      /\ m = n \/ m + 1 \notin F => own = {} /\ (m = i => stack = {})
      /\ m < n /\ m + 1 \in F =>
           /\ stack # {}
           /\ m + 1 \notin W => own # {} /\ Min(own) = m + 1
           /\ m + 1 \in W /\ m + 1 - i >= MaxStackFrames => own = {}
  <2>1. m - i < MaxStackFrames /\ \A k \in (i + 1)..m : k \in F /\ k \in W
    BY DEF JavaStack
  <2>2. MaxStackFrames \in Nat
    BY FrameLimit
  <2> HIDE DEF n, F, W, stack, own
  <2>3. /\ m > i => Below(F, i, n) # {}
        /\ m = n \/ m + 1 \notin F =>
             Own(F, W, i, n) = {} /\ (m = i => Below(F, i, n) = {})
        /\ m < n /\ m + 1 \in F =>
             /\ Below(F, i, n) # {}
             /\ m + 1 \notin W => Own(F, W, i, n) # {} /\ Min(Own(F, W, i, n)) = m + 1
             /\ m + 1 \in W /\ m + 1 - i >= MaxStackFrames => Own(F, W, i, n) = {}
    BY <1>1, <2>1, <2>2, StackCases
  <2>4. own = Own(F, W, i, n)
    BY DEF own
  <2> QED  BY <1>2, <2>3, <2>4
<1> HIDE DEF n, F, W, stack, own, line
<1>6. ~(m > i) => m = i
  BY <1>1
<1> QED  BY <1>4, <1>5, <1>6 DEF n, F, W, line

(* What the parser has after the n-th line.                                *)
JavaPending(text, flat, i, n) ==
  Result([pending |-> <<JavaHeader(text[i], 0)>>,
          pending_is_explicit |-> Reads[text[i]].java_explicit, frames_seen |-> n - i],
         flat[i - 1])
JavaAt(text, flat, n, now) ==
  \/ now = Result(NewJava, flat[n])
  \/ \E i \in 1..n : JavaStack(text, i, n) /\ now = JavaPending(text, flat, i, n)

JavaFlat(text, flat) ==
  Flattens(flat, Singles(Len(text), JavaReports(text)), Len(text), JavaReports(text))

LEMMA JavaReportsType ==
  ASSUME NEW text, WrittenText(text)
  PROVE  JavaReports(text) \in
           [1..Len(text) -> Seq(Singles(Len(text), JavaReports(text)))]
PROOF
<1> DEFINE R == JavaReports(text)
<1>1. DOMAIN text = 1..Len(text) /\ Len(text) \in Nat
  BY DEF WrittenText
<1>2. R = [i \in 1..Len(text) |-> R[i]] /\ DOMAIN R = 1..Len(text)
  BY <1>1 DEF JavaReports
<1>3. \A i \in 1..Len(text) : R[i] = <<>> \/ \E x : R[i] = <<x>>
  BY <1>1 DEF JavaReports, JavaReport
<1> HIDE DEF R
<1> QED  BY <1>1, <1>2, <1>3, SinglesType DEF R

----------------------------------------------------------------------------
(* Java's parser of tests: line by line *)

LEMMA AndNothing ==
  ASSUME NEW T, NEW f \in Seq(T), NEW p, NEW q
  PROVE  And(Result(p, f), Result(q, <<>>)) = Result(q, f)
BY DEF And, Result

LEMMA AndFound ==
  ASSUME NEW p, NEW f, NEW q, NEW g
  PROVE  And(Result(p, f), Result(q, g)) = Result(q, f \o g)
BY DEF And, Result

LEMMA JavaQuiet ==
  ASSUME NEW text, WrittenText(text), NEW flat, JavaFlat(text, flat), NEW i, NEW m, JavaStack(text, i, m)
  PROVE  /\ flat[m] = flat[i - 1] \o JavaReports(text)[i]
         /\ flat[i - 1] \in Seq(Singles(Len(text), JavaReports(text)))
PROOF
<1> DEFINE n == Len(text)
           T == Singles(Len(text), JavaReports(text))
           R == JavaReports(text)
<1>1. n \in Nat /\ DOMAIN text = 1..n /\ i \in 1..n /\ m \in i..n /\ i \in 0..n /\ i - 1 \in 0..n
  BY DEF WrittenText, JavaStack
<1>2. \A k \in (i + 1)..m : R[k] = <<>>
  <2> SUFFICES ASSUME NEW k \in (i + 1)..m PROVE R[k] = <<>>
    OBVIOUS
  <2>1. k \in DOMAIN text /\ Reads[text[k]].java_exception = 0
    BY DEF JavaStack, JavaFrames, IsJavaFrame
  <2> QED  BY <2>1 DEF JavaReports
<1>3. Flattens(flat, T, n, R)
  BY DEF JavaFlat
<1> HIDE DEF n, T, R
<1>4. flat[m] = flat[i]
  <2>1. Silent(R, i, m)
    BY <1>2 DEF Silent
  <2>2. i \in 0..n /\ m \in i..n /\ n \in Nat
    BY <1>1
  <2> QED  BY <1>3, <2>1, <2>2, FlatStays
<1>5. flat[i] = flat[i - 1] \o R[i] /\ flat[i - 1] \in Seq(T)
  BY <1>1, <1>3 DEF Flattens
<1> QED  BY <1>4, <1>5 DEF T, R

(* A line that is no exception adds nothing. *)
LEMMA JavaNothing ==
  ASSUME NEW text, WrittenText(text), NEW flat, JavaFlat(text, flat), NEW n \in 1..Len(text),
         Reads[text[n]].java_exception = 0
  PROVE  flat[n] = flat[n - 1]
PROOF
<1>1. n \in DOMAIN text /\ n - 1 \in 0..Len(text)
  BY DEF WrittenText
<1>2. JavaReports(text)[n] = <<>>
  BY <1>1 DEF JavaReports
<1>3. flat[n] = flat[n - 1] \o <<>> /\ flat[n - 1] \in Seq(Singles(Len(text), JavaReports(text)))
  BY <1>1, <1>2 DEF JavaFlat, Flattens
<1> QED  BY <1>3

LEMMA JavaStep ==
  ASSUME NEW text, WrittenText(text), NEW flat, JavaFlat(text, flat),
         NEW n \in 1..Len(text), NEW before, JavaAt(text, flat, n - 1, before)
  PROVE  JavaAt(text, flat, n, And(before, ObserveJava(before.parser, text[n])))
PROOF
<1> DEFINE line == text[n]
           read == Reads[line]
           T == Singles(Len(text), JavaReports(text))
           next == ObserveJava(before.parser, line)
           after == And(before, next)
           own == [pending |-> <<JavaHeader(line, 0)>>, pending_is_explicit |-> read.java_explicit,
                   frames_seen |-> 0]
<1>0. /\ text \in Seq(Lines) /\ Len(text) \in Nat /\ DOMAIN text = 1..Len(text) /\ n \in Nat
      /\ n - 1 \in Nat /\ n - 1 \in 0..Len(text) /\ (n - 1) + 1 = n /\ n - n = 0 /\ n >= 1
      /\ line \in Lines /\ ~read.blank /\ n \in n..Len(text)
  BY DEF WrittenText
<1>1. MaxStackFrames \in Nat /\ MaxStackFrames > 0
  BY FrameLimit
<1>2. /\ flat[n - 1] \in Seq(T) /\ flat[n] \in Seq(T)
      /\ flat[n - 1] \o <<>> = flat[n - 1]
  <2>1. flat[n - 1] \in Seq(T) /\ flat[n] \in Seq(T)
    <3>1. n \in 0..Len(text) /\ flat \in [0..Len(text) -> Seq(T)]
      BY <1>0 DEF JavaFlat, Flattens
    <3> QED  BY <1>0, <3>1
  <2> HIDE DEF T
  <2> QED  BY <2>1
<1>3. \A p, f : Result(p, f).parser = p /\ Result(p, f).found = f
  BY DEF Result
<1>4. \A p, f, q, g : And(Result(p, f), Result(q, g)) = Result(q, f \o g)
  BY <1>3 DEF And
(* A new exception waits alone. *)
<1>5. read.java_exception # 0 => /\ JavaStack(text, n, n)
                                 /\ JavaPending(text, flat, n, n) = Result(own, flat[n - 1])
                                 /\ n \notin JavaFrames(text)
  <2> SUFFICES ASSUME read.java_exception # 0
               PROVE  /\ JavaStack(text, n, n)
                      /\ JavaPending(text, flat, n, n) = Result(own, flat[n - 1])
                      /\ n \notin JavaFrames(text)
    OBVIOUS
  <2>1. \A k \in (n + 1)..n : FALSE
    BY <1>0
  <2>2. JavaStack(text, n, n)
    BY <1>0, <1>1, <2>1 DEF JavaStack
  <2>3. JavaPending(text, flat, n, n) = Result(own, flat[n - 1])
    BY <1>0 DEF JavaPending
  <2>4. n \notin JavaFrames(text)
    BY DEF JavaFrames, IsJavaFrame
  <2> QED  BY <2>2, <2>3, <2>4
<1>6. read.java_exception # 0 => next = Result(own, JavaConfirmed(before.parser))
  BY DEF ObserveJava, JavaHeader
<1>7. CASE before = Result(NewJava, flat[n - 1])
  <2>1. before.parser = NewJava /\ JavaConfirmed(NewJava) = <<>> /\ NewJava.pending = <<>>
    BY <1>3, <1>7 DEF JavaConfirmed, NewJava
  <2>2. CASE read.java_exception # 0
    <3>1. after = Result(own, flat[n - 1])
      <4>1. next = Result(own, <<>>)
        BY <1>6, <2>1, <2>2
      <4>2. And(before, Result(own, <<>>)) = Result(own, flat[n - 1])
        BY <1>2, <1>7, AndNothing
      <4> QED  BY <4>1, <4>2
    <3> QED  BY <1>5, <2>2, <3>1 DEF JavaAt
  <2>3. CASE read.java_exception = 0
    <3>1. next = Result(NewJava, <<>>)
      BY <2>1, <2>3 DEF ObserveJava
    <3>2. after = Result(NewJava, flat[n - 1])
      <4>2. And(before, Result(NewJava, <<>>)) = Result(NewJava, flat[n - 1])
        BY <1>2, <1>7, AndNothing
      <4> QED  BY <3>1, <4>2
    <3>3. flat[n] = flat[n - 1]
      BY <2>3, JavaNothing
    <3> QED  BY <3>2, <3>3 DEF JavaAt
  <2> QED  BY <2>2, <2>3
<1>8. ASSUME NEW i \in 1..(n - 1), JavaStack(text, i, n - 1),
             before = JavaPending(text, flat, i, n - 1)
      PROVE  JavaAt(text, flat, n, after)
  <2> DEFINE header == JavaHeader(text[i], 0)
             parser == [pending |-> <<header>>, pending_is_explicit |-> Reads[text[i]].java_explicit,
                        frames_seen |-> n - 1 - i]
             seen == [pending |-> <<header>>, pending_is_explicit |-> Reads[text[i]].java_explicit,
                      frames_seen |-> n - i]
             report == JavaReports(text)[i]
             confirmed == JavaConfirmed(parser)
  <2>1. i \in Nat /\ i < n /\ i >= 1 /\ n - 1 < Len(text) /\ i \in 1..n /\ text[i] \in Lines
        /\ i \in 1..Len(text) /\ n \in i..Len(text)
    BY <1>0
  <2>2. before = Result(parser, flat[i - 1]) /\ before.parser = parser
    BY <1>3, <1>8 DEF JavaPending
  <2>3. /\ parser.pending = <<header>> /\ parser.frames_seen = n - 1 - i
        /\ parser.pending_is_explicit = Reads[text[i]].java_explicit
        /\ [parser EXCEPT !.frames_seen = @ + 1] = seen
    <3> DEFINE d == n - 1 - i
    <3>1. d + 1 = n - i /\ d \in Nat
      BY <1>0, <2>1
    <3> HIDE DEF d, header
    <3>2. [[pending |-> <<header>>, pending_is_explicit |-> Reads[text[i]].java_explicit,
            frames_seen |-> d] EXCEPT !.frames_seen = @ + 1] =
            [pending |-> <<header>>, pending_is_explicit |-> Reads[text[i]].java_explicit,
             frames_seen |-> d + 1]
      OBVIOUS
    <3> QED  BY <3>1, <3>2 DEF d
  <2>4. seen.frames_seen = n - i /\ JavaConfirmed(seen) = <<header>>
    <3>1. n - i > 0
      BY <1>0, <2>1
    <3>2. seen.frames_seen = n - i /\ seen.pending = <<header>>
      OBVIOUS
    <3> HIDE DEF seen, header
    <3>3. seen.frames_seen > 0
      BY <3>1, <3>2
    <3> QED  BY <3>2, <3>3 DEF JavaConfirmed
  <2>5. confirmed = IF n - 1 > i \/ Reads[text[i]].java_explicit THEN <<header>> ELSE <<>>
    <3>1. n - 1 - i > 0 <=> n - 1 > i
      BY <1>0, <2>1
    <3> HIDE DEF parser
    <3> QED  BY <2>3, <3>1 DEF JavaConfirmed
  <2>6. /\ n \notin JavaFrames(text) => report = confirmed
        /\ n \in JavaFrames(text) /\ n \notin JavaFramework(text) =>
             report = <<JavaHeader(text[i], Reads[text[n]].java_frame)>>
        /\ n \in JavaFrames(text) /\ n \in JavaFramework(text) /\ n - i >= MaxStackFrames =>
             report = <<header>>
    <3> DEFINE m == n - 1
    <3>1. m + 1 = n /\ m < Len(text) /\ JavaStack(text, i, m)
      BY <1>0, <1>8, <2>1
    <3>2. confirmed = IF m > i \/ Reads[text[i]].java_explicit THEN <<header>> ELSE <<>>
      BY <2>5
    <3>3. /\ m = Len(text) \/ m + 1 \notin JavaFrames(text) =>
               report = IF m > i \/ Reads[text[i]].java_explicit THEN <<header>> ELSE <<>>
          /\ m < Len(text) /\ m + 1 \in JavaFrames(text) /\ m + 1 \notin JavaFramework(text) =>
               report = <<JavaHeader(text[i], Reads[text[m + 1]].java_frame)>>
          /\ m < Len(text) /\ m + 1 \in JavaFrames(text) /\ m + 1 \in JavaFramework(text)
               /\ m + 1 - i >= MaxStackFrames =>
               report = <<header>>
      <4> HIDE DEF m
      <4> QED  BY <3>1, JavaReported
    <3>4. m # Len(text) /\ m + 1 - i = n - i
      BY <1>0, <2>1, <3>1
    <3> HIDE DEF m, confirmed, report, header
    <3> QED  BY <3>1, <3>2, <3>3, <3>4
  <2>7. flat[n - 1] = flat[i - 1] \o report
    BY <1>8, JavaQuiet
  <2>8. n \in JavaFrames(text) <=> read.java_frame # 0 /\ read.java_exception = 0
    BY <1>0 DEF JavaFrames, IsJavaFrame
  <2>9. n \in JavaFramework(text) <=> read.java_framework
    BY <1>0, JavaReadType DEF JavaFramework
  <2> HIDE DEF parser, seen, header, report, confirmed, line, own
  <2>10. CASE read.java_exception # 0
    <3>1. next = Result(own, report)
      BY <1>6, <2>2, <2>6, <2>8, <2>10 DEF confirmed
    <3>2. after = Result(own, flat[i - 1] \o report)
      <4> HIDE DEF next
      <4> QED  BY <1>4, <2>2, <3>1
    <3>3. after = Result(own, flat[n - 1])
      BY <2>7, <3>2
    <3> QED  BY <1>5, <2>10, <3>3 DEF JavaAt
  <2>11. CASE read.java_exception = 0
    <3>1. flat[n] = flat[n - 1]
      BY <2>11, JavaNothing DEF line
    <3>2. CASE read.java_frame = 0
      <4>1. next = Result(NewJava, confirmed)
        BY <1>0, <2>2, <2>3, <2>11, <3>2 DEF ObserveJava, confirmed
      <4>2. after = Result(NewJava, flat[n])
        BY <1>4, <2>2, <2>6, <2>7, <2>8, <3>1, <3>2, <4>1
      <4> QED  BY <4>2 DEF JavaAt
    <3>3. CASE read.java_frame # 0
      <4>1. next = ObserveJavaFrame(parser, line) /\ n \in JavaFrames(text)
        BY <2>2, <2>3, <2>8, <2>11, <3>3 DEF ObserveJava
      <4>2. CASE ~read.java_framework
        <5>1. next = Result(NewJava, <<JavaHeader(text[i], read.java_frame)>>)
          <6>1. next = Result(NewJava, <<[header EXCEPT !.location = read.java_frame]>>)
            BY <2>3, <4>1, <4>2 DEF ObserveJavaFrame
          <6>2. [header EXCEPT !.location = read.java_frame] = JavaHeader(text[i], read.java_frame)
            BY DEF header, JavaHeader, Diagnostic
          <6> QED  BY <6>1, <6>2
        <5>2. next = Result(NewJava, report)
          BY <2>6, <2>9, <4>1, <4>2, <5>1 DEF line
        <5>3. after = Result(NewJava, flat[i - 1] \o report)
          <6> HIDE DEF next
          <6> QED  BY <1>4, <2>2, <5>2
        <5>4. after = Result(NewJava, flat[n])
          BY <2>7, <3>1, <5>3
        <5> QED  BY <5>4 DEF JavaAt
      <4>3. CASE read.java_framework /\ n - i >= MaxStackFrames
        <5>1. next = Result(NewJava, <<header>>)
          BY <2>3, <2>4, <4>1, <4>3 DEF ObserveJavaFrame
        <5>2. next = Result(NewJava, report)
          BY <2>6, <2>9, <4>1, <4>3, <5>1
        <5>3. after = Result(NewJava, flat[i - 1] \o report)
          <6> HIDE DEF next
          <6> QED  BY <1>4, <2>2, <5>2
        <5>4. after = Result(NewJava, flat[n])
          BY <2>7, <3>1, <5>3
        <5> QED  BY <5>4 DEF JavaAt
      <4>4. CASE read.java_framework /\ ~(n - i >= MaxStackFrames)
        <5>1. next = Result(seen, <<>>)
          BY <2>3, <2>4, <4>1, <4>4 DEF ObserveJavaFrame
        <5>2. flat[i - 1] \in Seq(T)
          BY <1>8, JavaQuiet
        <5>3. after = JavaPending(text, flat, i, n)
          <6>1. And(before, Result(seen, <<>>)) = Result(seen, flat[i - 1])
            BY <2>2, <5>2, AndNothing
          <6> QED  BY <5>1, <6>1 DEF JavaPending, seen, header
        <5>4. JavaStack(text, i, n)
          <6>1. \A k \in (i + 1)..n : k = n \/ k \in (i + 1)..(n - 1)
            BY <1>0, <2>1
          <6>2. n - i < MaxStackFrames
            BY <1>0, <1>1, <2>1, <4>4
          <6> QED  BY <1>8, <2>1, <2>9, <4>1, <4>4, <6>1, <6>2 DEF JavaStack
        <5> QED  BY <2>1, <5>3, <5>4 DEF JavaAt
      <4> QED  BY <1>0, <4>2, <4>3, <4>4, JavaReadType
    <3> QED  BY <3>2, <3>3
  <2> QED  BY <1>0, <2>10, <2>11
<1> QED  BY <1>7, <1>8 DEF JavaAt

(* What Java's parser reports of a text is what the reference says.        *)
LEMMA JavaTestsPlaced ==
  ASSUME NEW text, WrittenText(text)
  PROVE  /\ JavaTests(text) = JavaReference(text, TRUE)
         /\ JavaTests(text) \in Seq(DiagnosticsOf("java-test"))
PROOF
<1> DEFINE L == Len(text)
           T == Singles(Len(text), JavaReports(text))
           R == JavaReports(text)
           after == JavaPrefixes(text)
<1>1. text \in Seq(Lines) /\ L \in Nat /\ DOMAIN text = 1..L
  BY DEF WrittenText
<1>2. R \in [1..L -> Seq(T)] /\ JavaReference(text, TRUE) = FlattenSeq(R)
  BY JavaReportsType DEF JavaReference, JavaReports
<1>3. PICK flat : Flattens(flat, T, L, R) /\ FlattenSeq(R) = flat[L]
  <2> HIDE DEF L, T, R
  <2> QED  BY <1>1, <1>2, FlattenCourse
<1>4. JavaFlat(text, flat) /\ flat[0] = <<>> /\ flat \in [0..L -> Seq(T)]
  BY <1>3 DEF JavaFlat, Flattens
<1>5. /\ after[0] = Result(NewJava, <<>>)
      /\ \A n \in 1..L : after[n] = And(after[n - 1], ObserveJava(after[n - 1].parser, text[n]))
  BY <1>1, JavaCourse
<1> DEFINE P == {n \in Nat : n <= L => JavaAt(text, flat, n, after[n])}
<1>6. 0 \in P
  BY <1>4, <1>5 DEF JavaAt
<1>7. ASSUME NEW n \in P PROVE n + 1 \in P
  <2> SUFFICES ASSUME n + 1 <= L PROVE JavaAt(text, flat, n + 1, after[n + 1])
    OBVIOUS
  <2> DEFINE k == n + 1
  <2>1. k \in 1..L /\ k - 1 = n
    BY <1>1
  <2>2. JavaAt(text, flat, k - 1, after[k - 1])
    BY <1>1, <2>1
  <2> HIDE DEF k, after
  <2>3. JavaAt(text, flat, k, And(after[k - 1], ObserveJava(after[k - 1].parser, text[k])))
    BY <1>4, <2>1, <2>2, JavaStep
  <2>4. JavaAt(text, flat, k, after[k])
    BY <1>5, <2>1, <2>3
  <2> QED  BY <2>4 DEF k
<1>8. L \in P
  <2>1. P \in SUBSET Nat
    OBVIOUS
  <2> HIDE DEF P
  <2> QED  BY <1>1, <1>6, <1>7, <2>1, InductionOnNat
<1>9. JavaAt(text, flat, L, after[L])
  BY <1>1, <1>8
<1>10. JavaTests(text) = after[L].found \o JavaConfirmed(after[L].parser)
  BY DEF JavaTests, Parsed, JavaPrefixes
<1> HIDE DEF after
<1>11. ASSUME after[L] = Result(NewJava, flat[L])
       PROVE  JavaTests(text) = flat[L]
  <2>1. after[L].found = flat[L] /\ JavaConfirmed(after[L].parser) = <<>>
    BY <1>11 DEF Result, JavaConfirmed, NewJava
  <2>2. flat[L] \in Seq(T)
    BY <1>1, <1>4
  <2>3. flat[L] \o <<>> = flat[L]
    <3> HIDE DEF T
    <3> QED  BY <2>2
  <2>4. JavaTests(text) = flat[L]
    BY <1>10, <2>1, <2>3
  <2> QED  BY <2>4
<1>12. ASSUME NEW i \in 1..L, JavaStack(text, i, L), after[L] = JavaPending(text, flat, i, L)
       PROVE  JavaTests(text) = flat[L]
  <2> DEFINE header == JavaHeader(text[i], 0)
             explicit == Reads[text[i]].java_explicit
  <2>1. after[L].found = flat[i - 1]
    BY <1>12 DEF JavaPending, Result
  <2>2. after[L].parser.pending = <<header>> /\ after[L].parser.pending_is_explicit = explicit
        /\ after[L].parser.frames_seen = L - i
    BY <1>12 DEF JavaPending, Result
  <2>3. L - i > 0 <=> L > i
    BY <1>1
  <2> HIDE DEF header, explicit
  <2>4. JavaConfirmed(after[L].parser) = IF L > i \/ explicit THEN <<header>> ELSE <<>>
    BY <2>2, <2>3 DEF JavaConfirmed
  <2>5. R[i] = IF L > i \/ explicit THEN <<header>> ELSE <<>>
    BY <1>12, JavaReported DEF header, explicit
  <2>6. flat[L] = flat[i - 1] \o R[i]
    BY <1>4, <1>12, JavaQuiet
  <2> QED  BY <1>10, <2>1, <2>4, <2>5, <2>6
<1>13. flat[L] \in Seq(T)
  BY <1>1, <1>4
<1> HIDE DEF T
<1>14. JavaTests(text) = flat[L]
  BY <1>9, <1>11, <1>12 DEF JavaAt
<1>15. JavaTests(text) \in Seq(DiagnosticsOf("java-test"))
  <2>1. after[L] \in Results(JavaType, DiagnosticsOf("java-test"))
    <3>1. L \in 0..L
      BY <1>1
    <3> QED  BY <1>1, <3>1, JavaCourse DEF after
  <2>2. /\ after[L].found \in Seq(DiagnosticsOf("java-test"))
        /\ JavaConfirmed(after[L].parser) \in Seq(DiagnosticsOf("java-test"))
    BY <2>1, JavaConfirmedType DEF Results
  <2> QED  BY <1>10, <2>2
<1> QED  BY <1>2, <1>3, <1>14, <1>15

----------------------------------------------------------------------------
(* JavaScript's parser of tests: what it goes through *)

(* The place of the nearest position above i that has one, if no position  *)
(* of U is between.                                                        *)
Nearest(V, U, i) ==
  LET places == {j \in 1..(i - 1) : V[j] # 0 /\ \A k \in (j + 1)..(i - 1) : k \notin U}
  IN  IF places = {} THEN 0 ELSE V[Max(places)]

LEMMA MaxIs ==
  ASSUME NEW S \in SUBSET Nat, NEW m \in S, \A j \in S : j <= m
  PROVE  Max(S) = m
PROOF
<1>1. \A x \in S : (\A y \in S : x >= y) => x = m
  OBVIOUS
<1> QED  BY <1>1 DEF Max

LEMMA NearestStep ==
  ASSUME NEW V, NEW U, NEW i \in Nat, i >= 1
  PROVE  Nearest(V, U, i + 1) = IF V[i] # 0 THEN V[i] ELSE IF i \in U THEN 0 ELSE Nearest(V, U, i)
PROOF
<1> DEFINE above(m) == {j \in 1..(m - 1) : V[j] # 0 /\ \A k \in (j + 1)..(m - 1) : k \notin U}
           now == above(i)
           next == above(i + 1)
<1>1. next = {j \in 1..i : V[j] # 0 /\ \A k \in (j + 1)..i : k \notin U}
  <2>1. (i + 1) - 1 = i
    OBVIOUS
  <2> QED  BY <2>1
<1>2. now = {j \in 1..(i - 1) : V[j] # 0 /\ \A k \in (j + 1)..(i - 1) : k \notin U}
  OBVIOUS
<1>3. /\ Nearest(V, U, i + 1) = IF next = {} THEN 0 ELSE V[Max(next)]
      /\ Nearest(V, U, i) = IF now = {} THEN 0 ELSE V[Max(now)]
  BY DEF Nearest
<1> HIDE DEF now, next
<1>4. CASE V[i] # 0
  <2>1. \A k \in (i + 1)..i : FALSE
    OBVIOUS
  <2>2. i \in next /\ next \in SUBSET Nat /\ \A j \in next : j <= i
    BY <1>1, <1>4, <2>1
  <2>3. Max(next) = i
    BY <2>2, MaxIs
  <2> QED  BY <1>3, <1>4, <2>2, <2>3
<1>5. CASE V[i] = 0 /\ i \in U
  <2>1. \A j \in 1..(i - 1) : i \in (j + 1)..i
    OBVIOUS
  <2>2. \A j \in 1..i : j = i \/ j \in 1..(i - 1)
    OBVIOUS
  <2>3. next = {}
    BY <1>1, <1>5, <2>1, <2>2
  <2> QED  BY <1>3, <1>5, <2>3
<1>6. CASE V[i] = 0 /\ i \notin U
  <2>1. \A j \in 1..i : j = i \/ j \in 1..(i - 1)
    OBVIOUS
  <2>2. \A j \in 1..(i - 1) : j \in 1..i /\ \A k \in (j + 1)..i : k = i \/ k \in (j + 1)..(i - 1)
    OBVIOUS
  <2>3. \A j \in 1..(i - 1) : \A k \in (j + 1)..(i - 1) : k \in (j + 1)..i
    OBVIOUS
  <2>4. \A j : j \in next <=> j \in now
    BY <1>1, <1>2, <1>6, <2>1, <2>2, <2>3
  <2>5. next = now
    BY <2>4
  <2> QED  BY <1>3, <1>6, <2>5
<1> QED  BY <1>4, <1>5, <1>6

LEMMA NearestFirst ==
  ASSUME NEW V, NEW U
  PROVE  Nearest(V, U, 1) = 0
PROOF
<1>1. \A j \in 1..(1 - 1) : FALSE
  OBVIOUS
<1>2. {j \in 1..(1 - 1) : V[j] # 0 /\ \A k \in (j + 1)..(1 - 1) : k \notin U} = {}
  BY <1>1
<1> QED  BY <1>2 DEF Nearest

NodeType ==
  [leading_location : OptionalPlaces, pending : Waiting(DiagnosticsOf("javascript-test")),
   frames_seen : Nat]

LEMMA NodeReadType ==
  ASSUME NEW line \in Lines
  PROVE  /\ Reads[line].node_exception \in OptionalTexts
         /\ Reads[line].node_place \in OptionalPlaces
         /\ Reads[line].node_frame \in OptionalPlaces
         /\ Reads[line].node_framework \in BOOLEAN
<1>1. Reads[line] \in ReadingType
  BY ReadIs
<1> QED  BY <1>1 DEF ReadingType

LEMMA NewNodeType == NewNode \in NodeType
BY DEF NewNode, NodeType, Waiting, OptionalPlaces

LEMMA NodeConfirmedType ==
  ASSUME NEW parser \in NodeType
  PROVE  NodeConfirmed(parser) \in Seq(DiagnosticsOf("javascript-test"))
<1> DEFINE T == DiagnosticsOf("javascript-test")
<1>1. parser.pending \in Waiting(T)
  BY DEF NodeType
<1>2. \A p \in Waiting(T) : p \in Seq(T)
  <2>1. \A x \in T : <<x>> \in Seq(T)
    OBVIOUS
  <2>2. <<>> \in Seq(T)
    OBVIOUS
  <2> HIDE DEF T
  <2> QED  BY <2>1, <2>2, Zenon DEF Waiting
<1>3. <<>> \in Seq(T)
  OBVIOUS
<1>4. NodeConfirmed(parser) = parser.pending \/ NodeConfirmed(parser) = <<>>
  BY DEF NodeConfirmed
<1> HIDE DEF T
<1> QED  BY <1>1, <1>2, <1>3, <1>4 DEF T

LEMMA ObserveNodeType ==
  ASSUME NEW parser \in NodeType, NEW line \in Lines
  PROVE  ObserveNode(parser, line) \in Results(NodeType, DiagnosticsOf("javascript-test"))
<1> DEFINE T == DiagnosticsOf("javascript-test")
           read == Reads[line]
           R == Results(NodeType, T)
<1>0. /\ read.node_exception \in OptionalTexts
      /\ read.node_place \in OptionalPlaces
      /\ read.node_frame \in OptionalPlaces
  BY NodeReadType
<1>1. NodeConfirmed(parser) \in Seq(T) /\ <<>> \in Seq(T) /\ NewNode \in NodeType
  BY NodeConfirmedType, NewNodeType
<1>2. \A p \in NodeType, f \in Seq(T) : Result(p, f) \in R
  BY DEF Result, Results
<1>3. CASE read.node_place # 0
  <2> DEFINE p == [NewNode EXCEPT !.leading_location = read.node_place]
  <2>1. p \in NodeType
    BY <1>0, <1>1 DEF NodeType
  <2>2. ObserveNode(parser, line) = Result(p, NodeConfirmed(parser))
    BY <1>3 DEF ObserveNode
  <2> HIDE DEF p
  <2> QED  BY <1>1, <1>2, <2>1, <2>2
<1>4. CASE read.node_place = 0 /\ read.node_exception # 0
  <2> DEFINE d == Diagnostic("javascript-test", line, <<read.node_exception>>,
                             parser.leading_location)
             p == [NewNode EXCEPT !.pending = <<d>>]
  <2>1. d \in T
    <3>1. <<read.node_exception>> \in Seq(OptionalTexts) /\ parser.leading_location \in OptionalPlaces
      BY <1>0 DEF NodeType
    <3> QED  BY <3>1, DiagnosticType
  <2> HIDE DEF d
  <2>2. p \in NodeType
    <3>1. <<d>> \in Waiting(T)
      BY <2>1 DEF Waiting
    <3> HIDE DEF T
    <3>2. [NewNode EXCEPT !.pending = <<d>>] \in
             [leading_location : OptionalPlaces, pending : Waiting(T), frames_seen : Nat]
      <4>1. NewNode \in [leading_location : OptionalPlaces, pending : Waiting(T), frames_seen : Nat]
        BY <1>1 DEF NodeType, T
      <4> QED  BY <3>1, <4>1
    <3> QED  BY <3>2 DEF NodeType, T
  <2>3. ObserveNode(parser, line) = Result(p, NodeConfirmed(parser))
    BY <1>4 DEF ObserveNode, NodeException, d
  <2> HIDE DEF p
  <2> QED  BY <1>1, <1>2, <2>2, <2>3
<1>5. CASE /\ read.node_place = 0 /\ read.node_exception = 0 /\ parser.pending # <<>>
           /\ read.node_frame # 0 \/ read.node_framework
  <2> DEFINE seen == [parser EXCEPT !.frames_seen = @ + 1]
             done == [parser EXCEPT !.pending = <<>>, !.frames_seen = 0]
             d == [parser.pending[1] EXCEPT !.location = read.node_frame]
  <2>1. seen \in NodeType /\ done \in NodeType
    <3>1. <<>> \in Waiting(T)
      BY DEF Waiting
    <3> HIDE DEF T
    <3>2. parser \in [leading_location : OptionalPlaces, pending : Waiting(T), frames_seen : Nat]
      BY DEF NodeType, T
    <3>3. seen \in [leading_location : OptionalPlaces, pending : Waiting(T), frames_seen : Nat]
      BY <3>2
    <3>4. done \in [leading_location : OptionalPlaces, pending : Waiting(T), frames_seen : Nat]
      BY <3>1, <3>2
    <3> QED  BY <3>3, <3>4 DEF NodeType, T
  <2>2. parser.pending[1] \in T
    <3>1. parser.pending \in Waiting(T)
      BY DEF NodeType
    <3> HIDE DEF T
    <3>2. PICK x \in T : parser.pending = <<x>>
      BY <1>5, <3>1 DEF Waiting
    <3> QED  BY <3>2
  <2>3. d \in T
    BY <1>0, <2>2 DEF DiagnosticsOf
  <2>4. NodeConfirmed(seen) \in Seq(T) /\ <<d>> \in Seq(T)
    BY <2>1, <2>3, NodeConfirmedType
  <2>5. ObserveNode(parser, line) =
          IF ~read.node_framework THEN Result(done, <<d>>)
          ELSE IF seen.frames_seen >= MaxStackFrames THEN Result(NewNode, NodeConfirmed(seen))
          ELSE Result(seen, <<>>)
    BY <1>5 DEF ObserveNode, ObserveNodeFrame
  <2> HIDE DEF seen, done, d
  <2> QED  BY <1>1, <1>2, <2>1, <2>4, <2>5
<1>6. CASE /\ read.node_place = 0 /\ read.node_exception = 0
           /\ parser.pending = <<>> \/ ~(read.node_frame # 0 \/ read.node_framework)
  <2>1. \/ ObserveNode(parser, line) = Result(parser, <<>>)
        \/ ObserveNode(parser, line) = Result(NewNode, NodeConfirmed(parser))
    BY <1>6 DEF ObserveNode
  <2> QED  BY <1>1, <1>2, <2>1
<1> QED  BY <1>3, <1>4, <1>5, <1>6

NodePrefixes(text) == ParsedPrefixes(ObserveNode, NewNode, text)

LEMMA NodeCourse ==
  ASSUME NEW text \in Seq(Lines)
  PROVE  /\ NodePrefixes(text)[0] = Result(NewNode, <<>>)
         /\ \A n \in 0..Len(text) :
              NodePrefixes(text)[n] \in Results(NodeType, DiagnosticsOf("javascript-test"))
         /\ \A n \in 1..Len(text) :
              NodePrefixes(text)[n] =
                And(NodePrefixes(text)[n - 1],
                    ObserveNode(NodePrefixes(text)[n - 1].parser, text[n]))
PROOF
<1> DEFINE V == Results(NodeType, DiagnosticsOf("javascript-test"))
           size == Len(text)
           base == Result(NewNode, <<>>)
           step == [p \in (1..size) \X V |-> And(p[2], ObserveNode(p[2].parser, text[p[1]]))]
           Eq(f) == f = [n \in 0..size |-> IF n = 0 THEN base
                            ELSE And(f[n - 1], ObserveNode(f[n - 1].parser, text[n]))]
<1>1. size \in Nat /\ base \in V
  BY NewNodeType DEF Result, Results
<1>2. /\ \A n \in 1..size, v \in V :
           step[<<n, v>>] = And(v, ObserveNode(v.parser, text[n]))
      /\ step \in [(1..size) \X V -> V]
  <2>1. ASSUME NEW n \in 1..size, NEW v \in V
        PROVE  And(v, ObserveNode(v.parser, text[n])) \in V
    <3>1. text[n] \in Lines /\ v.parser \in NodeType
      BY DEF Results
    <3>2. ObserveNode(v.parser, text[n]) \in V
      BY <3>1, ObserveNodeType
    <3> QED  BY <3>2, AndType
  <2> HIDE DEF V
  <2> QED  BY <2>1
<1> HIDE DEF step, V, base
<1>3. PICK g : IsCourse(g, size, V, base, step)
  BY <1>1, <1>2, CourseExists
<1>4. /\ g \in [0..size -> V] /\ g[0] = base
      /\ \A n \in 1..size : g[n] = step[<<n, g[n - 1]>>]
  BY <1>3 DEF IsCourse
<1>5. \A n \in 1..size :
        g[n - 1] \in V /\ g[n] = And(g[n - 1], ObserveNode(g[n - 1].parser, text[n]))
  <2> SUFFICES ASSUME NEW n \in 1..size
               PROVE  /\ g[n - 1] \in V
                      /\ g[n] = And(g[n - 1], ObserveNode(g[n - 1].parser, text[n]))
    OBVIOUS
  <2>1. n - 1 \in 0..size
    BY <1>1
  <2> QED  BY <1>2, <1>4, <2>1
<1>6. Eq(g)
  <2>1. \A n \in 0..size : n # 0 => n \in 1..size
    BY <1>1
  <2>2. g = [n \in 0..size |-> g[n]]
    BY <1>4
  <2>3. \A n \in 0..size : g[n] = IF n = 0 THEN base
                            ELSE And(g[n - 1], ObserveNode(g[n - 1].parser, text[n]))
    BY <1>4, <1>5, <2>1
  <2> HIDE DEF size
  <2> QED  BY <2>2, <2>3
<1>7. NodePrefixes(text) = CHOOSE f : Eq(f)
  BY DEF NodePrefixes, ParsedPrefixes, base
<1> DEFINE h == CHOOSE f : Eq(f)
<1>8. Eq(h)
  <2> HIDE DEF Eq
  <2> QED  BY <1>6
<1> HIDE DEF h
<1>9. /\ h[0] = base
      /\ \A n \in 1..size : h[n] = And(h[n - 1], ObserveNode(h[n - 1].parser, text[n]))
  <2>1. \A n \in 1..size : n \in 0..size /\ n # 0
    BY <1>1
  <2>2. 0 \in 0..size
    BY <1>1
  <2> HIDE DEF size
  <2> QED  BY <1>8, <2>1, <2>2
<1>10. StepsAgree(h, g, size)
  BY <1>4, <1>5, <1>9 DEF StepsAgree
<1>11. \A n \in 0..size : h[n] = g[n]
  BY <1>1, <1>10, CoursesAgree
<1>12. \A n \in 0..size : h[n] \in V
  BY <1>4, <1>11
<1> QED  BY <1>7, <1>9, <1>12 DEF h, V, base

----------------------------------------------------------------------------
(* JavaScript's parser of tests: what it has after each line *)

NodeFrames(text) == {i \in DOMAIN text : IsNodeFrame(text[i])}
NodeFramework(text) == {i \in DOMAIN text : Reads[text[i]].node_framework}
NodeHeader(line, at) == Diagnostic("javascript-test", line, <<Reads[line].node_exception>>, at)
NodeLeading(text, i) == PlaceAbove(text, i, NodePlace, IsNodeException)
NodeReports(text) ==
  [i \in DOMAIN text |->
    IF ~IsNodeException(text[i]) THEN <<>>
    ELSE NodeReport(text, i, StackBelow(text, i, IsNodeFrame), NodeLeading(text, i), TRUE)]

NodeStack(text, i, m) ==
  /\ i \in 1..Len(text) /\ m \in i..Len(text)
  /\ IsNodeException(text[i])
  /\ m - i < MaxStackFrames
  /\ \A k \in (i + 1)..m : k \in NodeFrames(text) /\ k \in NodeFramework(text)

LEMMA NodeReported ==
  ASSUME NEW text, WrittenText(text), NEW i, NEW m, NodeStack(text, i, m)
  PROVE  LET report == NodeReports(text)[i]
             line == text[i]
             leading == NodeLeading(text, i)
         IN  /\ m = Len(text) \/ m + 1 \notin NodeFrames(text) =>
                  report = IF m > i \/ leading # 0 THEN <<NodeHeader(line, leading)>>
                           ELSE <<>>
             /\ m < Len(text) /\ m + 1 \in NodeFrames(text) /\ m + 1 \notin NodeFramework(text) =>
                  report = <<NodeHeader(line, Reads[text[m + 1]].node_frame)>>
             /\ m < Len(text) /\ m + 1 \in NodeFrames(text) /\ m + 1 \in NodeFramework(text)
                  /\ m + 1 - i >= MaxStackFrames =>
                  report = <<NodeHeader(line, leading)>>
PROOF
<1> DEFINE n == Len(text)
           F == NodeFrames(text)
           W == NodeFramework(text)
           stack == StackBelow(text, i, IsNodeFrame)
           own == Own(F, W, i, n)
           leading == NodeLeading(text, i)
           at == IF own = {} THEN leading ELSE Reads[text[Min(own)]].node_frame
           line == text[i]
<1>1. /\ text \in Seq(Lines) /\ n \in Nat /\ DOMAIN text = 1..n
      /\ i \in 1..n /\ m \in i..n /\ \A k \in 1..n : ~Reads[text[k]].blank
      /\ IsNodeException(line)
  BY DEF WrittenText, NodeStack
<1>2. stack = Below(F, i, n)
  <2>1. \A j \in (i + 1)..n : \A k \in (i + 1)..j : k \in 1..n
    BY <1>1
  <2>2. \A j \in (i + 1)..n : j \in 1..n
    BY <1>1
  <2>3. \A k \in 1..n : k \in F <=> IsNodeFrame(text[k])
    BY <1>1 DEF NodeFrames
  <2>4. stack = {j \in (i + 1)..n : IsNodeFrame(text[j]) /\
                   \A k \in (i + 1)..j : IsNodeFrame(text[k]) \/ Reads[text[k]].blank}
    BY DEF StackBelow
  <2>5. \A j \in (i + 1)..n : j \in (i + 1)..j
    BY <1>1
  <2> HIDE DEF stack, n, F
  <2> QED  BY <1>1, <2>1, <2>2, <2>3, <2>4, <2>5 DEF Below
<1>3. {j \in Looked(stack) : ~Reads[text[j]].node_framework} = own
  <2>1. \A j \in Looked(stack) : j \in 1..n
    BY <1>1, <1>2 DEF Looked, Below
  <2>2. \A j \in 1..n : j \in W <=> Reads[text[j]].node_framework
    BY <1>1, NodeReadType DEF NodeFramework
  <2> HIDE DEF stack, n, F, W
  <2> QED  BY <1>2, <2>1, <2>2 DEF Own
<1>4. NodeReports(text)[i] =
        IF stack # {} \/ leading # 0 THEN <<NodeHeader(line, at)>> ELSE <<>>
  <2> HIDE DEF leading, stack, own
  <2>1. NodeReports(text)[i] = NodeReport(text, i, stack, leading, TRUE)
    BY <1>1 DEF NodeReports, leading, stack
  <2> QED  BY <1>3, <2>1 DEF NodeReport, NodeHeader
<1>5. /\ m > i => stack # {}
      /\ m = n \/ m + 1 \notin F => own = {} /\ (m = i => stack = {})
      /\ m < n /\ m + 1 \in F =>
           /\ stack # {}
           /\ m + 1 \notin W => own # {} /\ Min(own) = m + 1
           /\ m + 1 \in W /\ m + 1 - i >= MaxStackFrames => own = {}
  <2>1. m - i < MaxStackFrames /\ \A k \in (i + 1)..m : k \in F /\ k \in W
    BY DEF NodeStack
  <2>2. MaxStackFrames \in Nat
    BY FrameLimit
  <2> HIDE DEF n, F, W, stack, own
  <2>3. /\ m > i => Below(F, i, n) # {}
        /\ m = n \/ m + 1 \notin F =>
             Own(F, W, i, n) = {} /\ (m = i => Below(F, i, n) = {})
        /\ m < n /\ m + 1 \in F =>
             /\ Below(F, i, n) # {}
             /\ m + 1 \notin W => Own(F, W, i, n) # {} /\ Min(Own(F, W, i, n)) = m + 1
             /\ m + 1 \in W /\ m + 1 - i >= MaxStackFrames => Own(F, W, i, n) = {}
    BY <1>1, <2>1, <2>2, StackCases
  <2>4. own = Own(F, W, i, n)
    BY DEF own
  <2> QED  BY <1>2, <2>3, <2>4
<1> HIDE DEF n, F, W, stack, own, line, leading
<1>6. ~(m > i) => m = i
  BY <1>1
<1> QED  BY <1>4, <1>5, <1>6 DEF n, F, W, line, leading

NodeIdle(text, flat, n) ==
  Result([leading_location |-> NodeLeading(text, n + 1), pending |-> <<>>, frames_seen |-> 0],
         flat[n])
NodePending(text, flat, i, n) ==
  Result([leading_location |-> 0, pending |-> <<NodeHeader(text[i], NodeLeading(text, i))>>,
          frames_seen |-> n - i],
         flat[i - 1])
NodeAt(text, flat, n, now) ==
  \/ now = NodeIdle(text, flat, n)
  \/ \E i \in 1..n : NodeStack(text, i, n) /\ now = NodePending(text, flat, i, n)

NodeFlat(text, flat) ==
  Flattens(flat, Singles(Len(text), NodeReports(text)), Len(text), NodeReports(text))

(* The place above the next line. *)
LEMMA NodeReportsType ==
  ASSUME NEW text, WrittenText(text)
  PROVE  NodeReports(text) \in
           [1..Len(text) -> Seq(Singles(Len(text), NodeReports(text)))]
PROOF
<1> DEFINE R == NodeReports(text)
<1>1. DOMAIN text = 1..Len(text) /\ Len(text) \in Nat
  BY DEF WrittenText
<1>2. R = [i \in 1..Len(text) |-> R[i]] /\ DOMAIN R = 1..Len(text)
  BY <1>1 DEF NodeReports
<1>3. \A i \in 1..Len(text) : R[i] = <<>> \/ \E x : R[i] = <<x>>
  BY <1>1 DEF NodeReports, NodeReport
<1> HIDE DEF R
<1> QED  BY <1>1, <1>2, <1>3, SinglesType DEF R

LEMMA NodeLeadingStep ==
  ASSUME NEW text, WrittenText(text), NEW n \in 1..Len(text)
  PROVE  NodeLeading(text, n + 1) =
           IF Reads[text[n]].node_place # 0 THEN Reads[text[n]].node_place
           ELSE IF IsNodeException(text[n]) THEN 0 ELSE NodeLeading(text, n)
PROOF
<1> DEFINE V == [j \in DOMAIN text |-> NodePlace(text[j])]
           U == {j \in DOMAIN text : IsNodeException(text[j])}
<1>1. DOMAIN text = 1..Len(text) /\ Len(text) \in Nat /\ n \in Nat /\ n >= 1 /\ n <= Len(text)
  BY DEF WrittenText
<1>2. ASSUME NEW i \in Nat, i <= Len(text) + 1
      PROVE  NodeLeading(text, i) = Nearest(V, U, i)
  <2> DEFINE places == {j \in 1..(i - 1) : NodePlace(text[j]) # 0 /\
                          \A k \in (j + 1)..(i - 1) : ~IsNodeException(text[k])}
             above == {j \in 1..(i - 1) : V[j] # 0 /\ \A k \in (j + 1)..(i - 1) : k \notin U}
  <2>1. \A j \in 1..(i - 1) : j \in DOMAIN text /\ \A k \in (j + 1)..(i - 1) : k \in DOMAIN text
    BY <1>1, <1>2
  <2>2. \A j \in DOMAIN text : V[j] = NodePlace(text[j]) /\ (j \in U <=> IsNodeException(text[j]))
    OBVIOUS
  <2> HIDE DEF V, U
  <2>3. \A j : j \in places <=> j \in above
    BY <2>1, <2>2
  <2>4. places = above
    BY <2>3
  <2>5. NodeLeading(text, i) = IF places = {} THEN 0 ELSE NodePlace(text[Max(places)])
    BY DEF NodeLeading, PlaceAbove
  <2>6. Nearest(V, U, i) = IF above = {} THEN 0 ELSE V[Max(above)]
    BY DEF Nearest
  <2>7. above # {} => Max(above) \in DOMAIN text
    <3>1. above \in SUBSET (1..(i - 1))
      OBVIOUS
    <3> HIDE DEF above
    <3>2. ASSUME above # {} PROVE \E x \in above : \A y \in above : x >= y
      <4> DEFINE gaps == {i - y : y \in above}
      <4>1. gaps \in SUBSET Nat /\ gaps # {}
        <5>1. \A y \in above : i - y \in Nat
          BY <1>2, <3>1
        <5> QED  BY <3>2, <5>1
      <4> HIDE DEF gaps
      <4>2. PICK g \in gaps : \A h \in gaps : g <= h
        BY <4>1, LeastNat
      <4>3. PICK x \in above : g = i - x
        BY DEF gaps
      <4>4. \A y \in above : i - y \in gaps
        BY DEF gaps
      <4>5. \A y \in above : i - x <= i - y /\ x \in Nat /\ y \in Nat
        BY <3>1, <4>2, <4>3, <4>4
      <4>6. \A y \in above : x >= y
        BY <4>5
      <4> QED  BY <4>6
    <3>3. above # {} => Max(above) \in above
      BY <3>2 DEF Max
    <3> QED  BY <2>1, <3>1, <3>3
  <2> HIDE DEF places, above
  <2> QED  BY <2>2, <2>4, <2>5, <2>6, <2>7
<1>3. V[n] = Reads[text[n]].node_place /\ (n \in U <=> IsNodeException(text[n]))
  BY <1>1 DEF NodePlace
<1> HIDE DEF V, U
<1>4. NodeLeading(text, n + 1) = Nearest(V, U, n + 1) /\ NodeLeading(text, n) = Nearest(V, U, n)
  BY <1>1, <1>2
<1>5. Nearest(V, U, n + 1) = IF V[n] # 0 THEN V[n] ELSE IF n \in U THEN 0 ELSE Nearest(V, U, n)
  <2>1. \A i \in Nat : i >= 1 =>
          Nearest(V, U, i + 1) = IF V[i] # 0 THEN V[i] ELSE IF i \in U THEN 0 ELSE Nearest(V, U, i)
    BY NearestStep
  <2> QED  BY <1>1, <2>1
<1> QED  BY <1>3, <1>4, <1>5

LEMMA NodeLeadingFirst ==
  ASSUME NEW text
  PROVE  NodeLeading(text, 1) = 0
PROOF
<1>1. \A j \in 1..(1 - 1) : FALSE
  OBVIOUS
<1>2. {j \in 1..(1 - 1) : NodePlace(text[j]) # 0 /\
                          \A k \in (j + 1)..(1 - 1) : ~IsNodeException(text[k])} = {}
  BY <1>1
<1> QED  BY <1>2 DEF NodeLeading, PlaceAbove

----------------------------------------------------------------------------
(* JavaScript's parser of tests: line by line *)

LEMMA NodeQuiet ==
  ASSUME NEW text, WrittenText(text), NEW flat, NodeFlat(text, flat), NEW i, NEW m, NodeStack(text, i, m)
  PROVE  /\ flat[m] = flat[i - 1] \o NodeReports(text)[i]
         /\ flat[i - 1] \in Seq(Singles(Len(text), NodeReports(text)))
PROOF
<1> DEFINE n == Len(text)
           T == Singles(Len(text), NodeReports(text))
           R == NodeReports(text)
<1>1. n \in Nat /\ DOMAIN text = 1..n /\ i \in 1..n /\ m \in i..n /\ i \in 0..n /\ i - 1 \in 0..n
  BY DEF WrittenText, NodeStack
<1>2. \A k \in (i + 1)..m : R[k] = <<>>
  <2> SUFFICES ASSUME NEW k \in (i + 1)..m PROVE R[k] = <<>>
    OBVIOUS
  <2>1. k \in DOMAIN text /\ ~IsNodeException(text[k])
    BY DEF NodeStack, NodeFrames, IsNodeFrame, IsNodeException
  <2> QED  BY <2>1 DEF NodeReports
<1>3. Flattens(flat, T, n, R)
  BY DEF NodeFlat
<1> HIDE DEF n, T, R
<1>4. flat[m] = flat[i]
  <2>1. Silent(R, i, m)
    BY <1>2 DEF Silent
  <2>2. i \in 0..n /\ m \in i..n /\ n \in Nat
    BY <1>1
  <2> QED  BY <1>3, <2>1, <2>2, FlatStays
<1>5. flat[i] = flat[i - 1] \o R[i] /\ flat[i - 1] \in Seq(T)
  BY <1>1, <1>3 DEF Flattens
<1> QED  BY <1>4, <1>5 DEF T, R

(* A line that is no exception adds nothing. *)
LEMMA NodeNothing ==
  ASSUME NEW text, WrittenText(text), NEW flat, NodeFlat(text, flat), NEW n \in 1..Len(text),
         ~IsNodeException(text[n])
  PROVE  flat[n] = flat[n - 1]
PROOF
<1>1. n \in DOMAIN text /\ n - 1 \in 0..Len(text)
  BY DEF WrittenText
<1>2. NodeReports(text)[n] = <<>>
  BY <1>1 DEF NodeReports
<1>3. flat[n] = flat[n - 1] \o <<>> /\ flat[n - 1] \in Seq(Singles(Len(text), NodeReports(text)))
  BY <1>1, <1>2 DEF NodeFlat, Flattens
<1> QED  BY <1>3

(* Below an exception, no place is left. *)
LEMMA NodePlaceUsed ==
  ASSUME NEW text, WrittenText(text), NEW i, NEW m, NodeStack(text, i, m)
  PROVE  NodeLeading(text, m + 1) = 0
PROOF
<1>1. /\ Len(text) \in Nat /\ i \in 1..Len(text) /\ m \in i..Len(text)
      /\ IsNodeException(text[i]) /\ NodePlace(text[i]) = 0
      /\ \A k \in (i + 1)..m : NodePlace(text[k]) = 0
  BY DEF WrittenText, NodeStack, NodeFrames, IsNodeFrame, IsNodeException, NodePlace
<1> DEFINE places == {j \in 1..m : NodePlace(text[j]) # 0 /\
                          \A k \in (j + 1)..m : ~IsNodeException(text[k])}
<1>2. \A j \in 1..m : j = i \/ j \in (i + 1)..m \/ i \in (j + 1)..m
  BY <1>1
<1>3. places = {}
  BY <1>1, <1>2
<1>4. (m + 1) - 1 = m
  BY <1>1
<1>5. NodeLeading(text, m + 1) = IF places = {} THEN 0 ELSE NodePlace(text[Max(places)])
  BY <1>4 DEF NodeLeading, PlaceAbove
<1> HIDE DEF places
<1> QED  BY <1>3, <1>5

LEMMA NodeStep ==
  ASSUME NEW text, WrittenText(text), NEW flat, NodeFlat(text, flat),
         NEW n \in 1..Len(text), NEW before, NodeAt(text, flat, n - 1, before)
  PROVE  NodeAt(text, flat, n, And(before, ObserveNode(before.parser, text[n])))
PROOF
<1> DEFINE line == text[n]
           read == Reads[line]
           T == Singles(Len(text), NodeReports(text))
           next == ObserveNode(before.parser, line)
           after == And(before, next)
           Idle(leading) == [leading_location |-> leading, pending |-> <<>>, frames_seen |-> 0]
           Waits(leading) ==
             [leading_location |-> 0, pending |-> <<NodeHeader(line, leading)>>, frames_seen |-> 0]
           p == before.parser
<1>0. /\ text \in Seq(Lines) /\ Len(text) \in Nat /\ DOMAIN text = 1..Len(text) /\ n \in Nat
      /\ n - 1 \in Nat /\ n - 1 \in 0..Len(text) /\ (n - 1) + 1 = n /\ n - n = 0 /\ n >= 1
      /\ line \in Lines /\ ~read.blank /\ n \in n..Len(text)
  BY DEF WrittenText
<1>1. MaxStackFrames \in Nat /\ MaxStackFrames > 0
  BY FrameLimit
<1>2. flat[n - 1] \in Seq(T) /\ flat[n] \in Seq(T)
  <2>1. n \in 0..Len(text) /\ flat \in [0..Len(text) -> Seq(T)]
    BY <1>0 DEF NodeFlat, Flattens
  <2> QED  BY <1>0, <2>1
<1>3. \A q, f : Result(q, f).parser = q /\ Result(q, f).found = f
  BY DEF Result
<1>4. IsNodeException(line) <=> read.node_exception # 0 /\ read.node_place = 0
  BY DEF IsNodeException
<1>5. NodeLeading(text, n + 1) = IF read.node_place # 0 THEN read.node_place
           ELSE IF IsNodeException(line) THEN 0 ELSE NodeLeading(text, n)
  BY NodeLeadingStep
<1>6. \A l : [NewNode EXCEPT !.leading_location = l] = Idle(l)
  BY DEF NewNode
<1>7. NewNode = Idle(0)
  BY DEF NewNode
<1>8. read.node_place # 0 => next = Result(Idle(read.node_place), NodeConfirmed(p))
  BY <1>6 DEF ObserveNode
<1>9. IsNodeException(line) => next = Result(Waits(p.leading_location), NodeConfirmed(p))
  <2>1. NodeException(p, line) = Waits(p.leading_location)
    BY DEF NodeException, NewNode, NodeHeader
  <2> QED  BY <1>4, <2>1 DEF ObserveNode
<1>10. IsNodeException(line) => NodeStack(text, n, n)
  <2>1. \A k \in (n + 1)..n : FALSE
    BY <1>0
  <2> QED  BY <1>0, <1>1, <2>1 DEF NodeStack
<1>11. NodePending(text, flat, n, n) = Result(Waits(NodeLeading(text, n)), flat[n - 1])
  BY <1>0 DEF NodePending
<1>12. NodeIdle(text, flat, n) = Result(Idle(NodeLeading(text, n + 1)), flat[n])
  BY DEF NodeIdle
<1>13. before = NodeIdle(text, flat, n - 1) => before = Result(Idle(NodeLeading(text, n)), flat[n - 1])
  BY <1>0 DEF NodeIdle
<1>14. ASSUME NEW leading
       PROVE  NodeConfirmed(Idle(leading)) = <<>> /\ Idle(leading).pending = <<>>
              /\ Idle(leading).leading_location = leading
  BY DEF NodeConfirmed
<1>15. CASE before = NodeIdle(text, flat, n - 1)
  <2>1. p = Idle(NodeLeading(text, n)) /\ before = Result(Idle(NodeLeading(text, n)), flat[n - 1])
    BY <1>3, <1>13, <1>15
  <2>2. NodeConfirmed(p) = <<>> /\ p.pending = <<>> /\ p.leading_location = NodeLeading(text, n)
    BY <1>14, <2>1
  <2> HIDE DEF Idle, Waits, p
  <2>3. \A q : And(before, Result(q, <<>>)) = Result(q, flat[n - 1])
    <3> SUFFICES ASSUME NEW q PROVE And(before, Result(q, <<>>)) = Result(q, flat[n - 1])
      OBVIOUS
    <3> QED  BY <1>2, <2>1, AndNothing
  <2>4. ~IsNodeException(line) => flat[n] = flat[n - 1]
    BY NodeNothing
  <2>5. CASE read.node_place # 0
    <3>1. next = Result(Idle(read.node_place), <<>>)
      BY <1>8, <2>2, <2>5
    <3>2. after = Result(Idle(read.node_place), flat[n - 1])
      BY <2>3, <3>1
    <3>3. after = NodeIdle(text, flat, n)
      BY <1>4, <1>5, <1>12, <2>4, <2>5, <3>2
    <3> QED  BY <3>3 DEF NodeAt
  <2>6. CASE IsNodeException(line)
    <3>1. next = Result(Waits(NodeLeading(text, n)), <<>>)
      BY <1>9, <2>2, <2>6
    <3>2. after = Result(Waits(NodeLeading(text, n)), flat[n - 1])
      BY <2>3, <3>1
    <3>3. after = NodePending(text, flat, n, n)
      BY <1>11, <3>2
    <3> QED  BY <1>0, <1>10, <2>6, <3>3 DEF NodeAt
  <2>7. CASE read.node_place = 0 /\ ~IsNodeException(line)
    <3>1. next = Result(p, <<>>)
      BY <1>4, <2>2, <2>7 DEF ObserveNode, p
    <3>2. after = Result(p, flat[n - 1])
      BY <2>3, <3>1
    <3>3. after = NodeIdle(text, flat, n)
      BY <1>5, <1>12, <2>1, <2>4, <2>7, <3>2
    <3> QED  BY <3>3 DEF NodeAt
  <2> QED  BY <2>5, <2>6, <2>7
<1>16. ASSUME NEW i \in 1..(n - 1), NodeStack(text, i, n - 1),
              before = NodePending(text, flat, i, n - 1)
       PROVE  NodeAt(text, flat, n, after)
  <2> DEFINE leading == NodeLeading(text, i)
             header == NodeHeader(text[i], leading)
             d == n - 1 - i
             parser == [leading_location |-> 0, pending |-> <<header>>, frames_seen |-> d]
             seen == [leading_location |-> 0, pending |-> <<header>>, frames_seen |-> n - i]
             report == NodeReports(text)[i]
             confirmed == NodeConfirmed(parser)
  <2>1. i \in Nat /\ i < n /\ i >= 1 /\ n - 1 < Len(text) /\ i \in 1..n /\ text[i] \in Lines
        /\ i \in 1..Len(text) /\ n \in i..Len(text) /\ n - i > 0 /\ d \in Nat /\ d + 1 = n - i
        /\ (d > 0 <=> n - 1 > i) /\ (n - 1) + 1 - i = n - i
    BY <1>0
  <2> HIDE DEF d
  <2>2. before = Result(parser, flat[i - 1]) /\ p = parser
    BY <1>3, <1>16 DEF NodePending, d
  <2>3. /\ parser.pending = <<header>> /\ parser.frames_seen = d /\ parser.leading_location = 0
        /\ [parser EXCEPT !.frames_seen = @ + 1] = seen
        /\ [parser EXCEPT !.pending = <<>>, !.frames_seen = 0] = Idle(0)
    <3> HIDE DEF header
    <3>1. [parser EXCEPT !.frames_seen = @ + 1] =
            [leading_location |-> 0, pending |-> <<header>>, frames_seen |-> d + 1]
      OBVIOUS
    <3>2. [parser EXCEPT !.pending = <<>>, !.frames_seen = 0] = Idle(0)
      <4>1. [parser EXCEPT !.pending = <<>>] =
              [leading_location |-> 0, pending |-> <<>>, frames_seen |-> d]
        OBVIOUS
      <4>2. [[leading_location |-> 0, pending |-> <<>>, frames_seen |-> d] EXCEPT !.frames_seen = 0]
              = Idle(0)
        OBVIOUS
      <4> QED  BY <4>1, <4>2
    <3> QED  BY <2>1, <3>1, <3>2
  <2>a. header.location = leading
    BY DEF NodeHeader, Diagnostic
  <2>4. seen.frames_seen = n - i /\ NodeConfirmed(seen) = <<header>>
    <3>2. seen.frames_seen = n - i /\ seen.pending = <<header>>
      OBVIOUS
    <3> HIDE DEF seen, header
    <3>3. seen.frames_seen > 0
      BY <2>1, <3>2
    <3> QED  BY <3>2, <3>3 DEF NodeConfirmed
  <2>5. confirmed = IF n - 1 > i \/ leading # 0 THEN <<header>> ELSE <<>>
    <3> HIDE DEF parser, header, leading
    <3> QED  BY <2>1, <2>3, <2>a DEF NodeConfirmed
  <2>6. /\ n \notin NodeFrames(text) => report = confirmed
        /\ n \in NodeFrames(text) /\ n \notin NodeFramework(text) =>
             report = <<NodeHeader(text[i], Reads[text[n]].node_frame)>>
        /\ n \in NodeFrames(text) /\ n \in NodeFramework(text) /\ n - i >= MaxStackFrames =>
             report = <<header>>
    <3> DEFINE m == n - 1
    <3>1. m + 1 = n /\ m < Len(text) /\ NodeStack(text, i, m)
      BY <1>0, <1>16, <2>1
    <3>2. confirmed = IF m > i \/ leading # 0 THEN <<header>> ELSE <<>>
      BY <2>5
    <3>3. /\ m = Len(text) \/ m + 1 \notin NodeFrames(text) =>
               report = IF m > i \/ leading # 0 THEN <<header>> ELSE <<>>
          /\ m < Len(text) /\ m + 1 \in NodeFrames(text) /\ m + 1 \notin NodeFramework(text) =>
               report = <<NodeHeader(text[i], Reads[text[m + 1]].node_frame)>>
          /\ m < Len(text) /\ m + 1 \in NodeFrames(text) /\ m + 1 \in NodeFramework(text)
               /\ m + 1 - i >= MaxStackFrames =>
               report = <<header>>
      <4> HIDE DEF m
      <4> QED  BY <3>1, NodeReported
    <3>4. m # Len(text) /\ m + 1 - i = n - i
      BY <1>0, <2>1, <3>1
    <3> HIDE DEF m, confirmed, report, header, leading
    <3> QED  BY <3>1, <3>2, <3>3, <3>4
  <2>7. flat[n - 1] = flat[i - 1] \o report
    BY <1>16, NodeQuiet
  <2>8. n \in NodeFrames(text) <=> /\ read.node_frame # 0 \/ read.node_framework
                                   /\ read.node_exception = 0 /\ read.node_place = 0
    BY <1>0 DEF NodeFrames, IsNodeFrame
  <2>9. n \in NodeFramework(text) <=> read.node_framework
    BY <1>0, NodeReadType DEF NodeFramework
  <2>10. NodeLeading(text, n) = 0
    <3> DEFINE m == n - 1
    <3>1. m + 1 = n /\ NodeStack(text, i, m)
      BY <1>0, <1>16
    <3> HIDE DEF m
    <3>2. NodeLeading(text, m + 1) = 0
      BY <3>1, NodePlaceUsed
    <3> QED  BY <3>1, <3>2
  <2>11. ~IsNodeException(line) => flat[n] = flat[n - 1]
    BY NodeNothing
  <2> HIDE DEF parser, seen, header, report, confirmed, line, Idle, Waits, leading, p
  <2>12. ASSUME NEW q, next = Result(q, report)
         PROVE  after = Result(q, flat[n - 1])
    <3>1. after = Result(q, flat[i - 1] \o report)
      <4> HIDE DEF next
      <4> QED  BY <2>2, <2>12, AndFound
    <3> QED  BY <2>7, <3>1
  <2>13. CASE IsNodeException(line)
    <3>1. next = Result(Waits(NodeLeading(text, n)), report)
      BY <1>4, <1>9, <2>2, <2>3, <2>6, <2>8, <2>10, <2>13 DEF confirmed
    <3>2. after = Result(Waits(NodeLeading(text, n)), flat[n - 1])
      BY <2>12, <3>1
    <3>3. after = NodePending(text, flat, n, n)
      BY <1>11, <3>2
    <3> QED  BY <1>0, <1>10, <2>13, <3>3 DEF NodeAt
  <2>14. CASE read.node_place # 0
    <3>1. next = Result(Idle(read.node_place), report)
      BY <1>8, <2>2, <2>6, <2>8, <2>14 DEF confirmed
    <3>2. after = Result(Idle(read.node_place), flat[n - 1])
      BY <2>12, <3>1
    <3>3. after = NodeIdle(text, flat, n)
      BY <1>4, <1>5, <1>12, <2>11, <2>14, <3>2
    <3> QED  BY <3>3 DEF NodeAt
  <2>15. CASE read.node_place = 0 /\ ~IsNodeException(line)
    <3>0. NodeLeading(text, n + 1) = 0 /\ flat[n] = flat[n - 1] /\ read.node_exception = 0
      BY <1>4, <1>5, <2>10, <2>11, <2>15
    <3>i. next = Result(Idle(0), report) => NodeAt(text, flat, n, after)
      <4> SUFFICES ASSUME next = Result(Idle(0), report) PROVE NodeAt(text, flat, n, after)
        OBVIOUS
      <4>1. after = Result(Idle(0), flat[n - 1])
        BY <2>12
      <4>2. after = NodeIdle(text, flat, n)
        BY <1>12, <3>0, <4>1
      <4> QED  BY <4>2 DEF NodeAt
    <3>2. CASE n \notin NodeFrames(text)
      <4>1. next = Result(Idle(0), confirmed)
        BY <1>0, <1>7, <2>2, <2>3, <2>8, <2>15, <3>0, <3>2 DEF ObserveNode, confirmed, p, line
      <4> QED  BY <2>6, <3>2, <3>i, <4>1
    <3>3. CASE n \in NodeFrames(text)
      <4>1. next = ObserveNodeFrame(parser, line)
        BY <2>2, <2>3, <2>8, <2>15, <3>0, <3>3 DEF ObserveNode, p, line
      <4>2. CASE ~read.node_framework
        <5>1. next = Result(Idle(0), <<NodeHeader(text[i], read.node_frame)>>)
          <6>1. next = Result(Idle(0), <<[header EXCEPT !.location = read.node_frame]>>)
            BY <2>3, <4>1, <4>2 DEF ObserveNodeFrame
          <6>2. [header EXCEPT !.location = read.node_frame] = NodeHeader(text[i], read.node_frame)
            BY DEF header, NodeHeader, Diagnostic
          <6> QED  BY <6>1, <6>2
        <5>2. next = Result(Idle(0), report)
          BY <2>6, <2>9, <3>3, <4>2, <5>1 DEF line
        <5> QED  BY <3>i, <5>2
      <4>3. CASE read.node_framework /\ n - i >= MaxStackFrames
        <5>1. next = Result(Idle(0), <<header>>)
          BY <1>7, <2>3, <2>4, <4>1, <4>3 DEF ObserveNodeFrame
        <5>2. next = Result(Idle(0), report)
          BY <2>6, <2>9, <3>3, <4>3, <5>1
        <5> QED  BY <3>i, <5>2
      <4>4. CASE read.node_framework /\ ~(n - i >= MaxStackFrames)
        <5>1. next = Result(seen, <<>>)
          BY <2>3, <2>4, <4>1, <4>4 DEF ObserveNodeFrame
        <5>2. flat[i - 1] \in Seq(T)
          BY <1>16, NodeQuiet
        <5>3. after = NodePending(text, flat, i, n)
          <6>1. And(before, Result(seen, <<>>)) = Result(seen, flat[i - 1])
            BY <2>2, <5>2, AndNothing
          <6> QED  BY <5>1, <6>1 DEF NodePending, seen, header, leading
        <5>4. NodeStack(text, i, n)
          <6>1. \A k \in (i + 1)..n : k = n \/ k \in (i + 1)..(n - 1)
            BY <1>0, <2>1
          <6>2. n - i < MaxStackFrames
            BY <1>0, <1>1, <2>1, <4>4
          <6> QED  BY <1>16, <2>1, <2>9, <3>3, <4>4, <6>1, <6>2 DEF NodeStack
        <5> QED  BY <2>1, <5>3, <5>4 DEF NodeAt
      <4> QED  BY <1>0, <4>2, <4>3, <4>4, NodeReadType
    <3> QED  BY <3>2, <3>3
  <2> QED  BY <2>13, <2>14, <2>15
<1> QED  BY <1>15, <1>16 DEF NodeAt

(* What Node's parser reports of a text is what the reference says.        *)
LEMMA NodeTestsPlaced ==
  ASSUME NEW text, WrittenText(text)
  PROVE  /\ NodeTests(text) = NodeReference(text, TRUE)
         /\ NodeTests(text) \in Seq(DiagnosticsOf("javascript-test"))
PROOF
<1> DEFINE L == Len(text)
           T == Singles(Len(text), NodeReports(text))
           R == NodeReports(text)
           after == NodePrefixes(text)
<1>1. text \in Seq(Lines) /\ L \in Nat /\ DOMAIN text = 1..L
  BY DEF WrittenText
<1>2. R \in [1..L -> Seq(T)] /\ NodeReference(text, TRUE) = FlattenSeq(R)
  BY NodeReportsType DEF NodeReference, NodeReports, NodeLeading
<1>3. PICK flat : Flattens(flat, T, L, R) /\ FlattenSeq(R) = flat[L]
  <2> HIDE DEF L, T, R
  <2> QED  BY <1>1, <1>2, FlattenCourse
<1>4. NodeFlat(text, flat) /\ flat[0] = <<>> /\ flat \in [0..L -> Seq(T)]
  BY <1>3 DEF NodeFlat, Flattens
<1>5. /\ after[0] = Result(NewNode, <<>>)
      /\ \A n \in 1..L : after[n] = And(after[n - 1], ObserveNode(after[n - 1].parser, text[n]))
      /\ \A n \in 0..L : after[n] \in Results(NodeType, DiagnosticsOf("javascript-test"))
  BY <1>1, NodeCourse
<1> DEFINE P == {n \in Nat : n <= L => NodeAt(text, flat, n, after[n])}
<1>6. 0 \in P
  <2>1. NodeLeading(text, 0 + 1) = 0
    BY NodeLeadingFirst
  <2>2. NodeIdle(text, flat, 0) = Result(NewNode, <<>>)
    BY <1>4, <2>1 DEF NodeIdle, NewNode
  <2> QED  BY <1>5, <2>2 DEF NodeAt
<1>7. ASSUME NEW n \in P PROVE n + 1 \in P
  <2> SUFFICES ASSUME n + 1 <= L PROVE NodeAt(text, flat, n + 1, after[n + 1])
    OBVIOUS
  <2> DEFINE k == n + 1
  <2>1. k \in 1..L /\ k - 1 = n
    BY <1>1
  <2>2. NodeAt(text, flat, k - 1, after[k - 1])
    BY <1>1, <2>1
  <2> HIDE DEF k, after
  <2>3. NodeAt(text, flat, k, And(after[k - 1], ObserveNode(after[k - 1].parser, text[k])))
    BY <1>4, <2>1, <2>2, NodeStep
  <2>4. NodeAt(text, flat, k, after[k])
    BY <1>5, <2>1, <2>3
  <2> QED  BY <2>4 DEF k
<1>8. L \in P
  <2>1. P \in SUBSET Nat
    OBVIOUS
  <2> HIDE DEF P
  <2> QED  BY <1>1, <1>6, <1>7, <2>1, InductionOnNat
<1>9. NodeAt(text, flat, L, after[L])
  BY <1>1, <1>8
<1>10. NodeTests(text) = after[L].found \o NodeConfirmed(after[L].parser)
  BY DEF NodeTests, Parsed, NodePrefixes
<1> HIDE DEF after
<1>11. ASSUME after[L] = NodeIdle(text, flat, L)
       PROVE  NodeTests(text) = flat[L]
  <2>1. after[L].found = flat[L] /\ NodeConfirmed(after[L].parser) = <<>>
    BY <1>11 DEF NodeIdle, Result, NodeConfirmed
  <2>2. flat[L] \in Seq(T)
    BY <1>1, <1>4
  <2>3. flat[L] \o <<>> = flat[L]
    <3> HIDE DEF T
    <3> QED  BY <2>2
  <2> QED  BY <1>10, <2>1, <2>3
<1>12. ASSUME NEW i \in 1..L, NodeStack(text, i, L), after[L] = NodePending(text, flat, i, L)
       PROVE  NodeTests(text) = flat[L]
  <2> DEFINE leading == NodeLeading(text, i)
             header == NodeHeader(text[i], leading)
  <2>1. after[L].found = flat[i - 1]
    BY <1>12 DEF NodePending, Result
  <2>2. after[L].parser.pending = <<header>> /\ after[L].parser.frames_seen = L - i
    BY <1>12 DEF NodePending, Result
  <2>3. L - i > 0 <=> L > i
    BY <1>1
  <2>a. header.location = leading
    BY DEF NodeHeader, Diagnostic
  <2> HIDE DEF header, leading
  <2>4. NodeConfirmed(after[L].parser) = IF L > i \/ leading # 0 THEN <<header>> ELSE <<>>
    BY <2>2, <2>3, <2>a DEF NodeConfirmed
  <2>5. R[i] = IF L > i \/ leading # 0 THEN <<header>> ELSE <<>>
    BY <1>12, NodeReported DEF header, leading
  <2>6. flat[L] = flat[i - 1] \o R[i]
    BY <1>4, <1>12, NodeQuiet
  <2> QED  BY <1>10, <2>1, <2>4, <2>5, <2>6
<1> HIDE DEF T
<1>14. NodeTests(text) = flat[L]
  BY <1>9, <1>11, <1>12 DEF NodeAt
<1>15. NodeTests(text) \in Seq(DiagnosticsOf("javascript-test"))
  <2>1. after[L] \in Results(NodeType, DiagnosticsOf("javascript-test"))
    BY <1>1, <1>5
  <2>2. /\ after[L].found \in Seq(DiagnosticsOf("javascript-test"))
        /\ NodeConfirmed(after[L].parser) \in Seq(DiagnosticsOf("javascript-test"))
    BY <2>1, NodeConfirmedType DEF Results
  <2> QED  BY <1>10, <2>2
<1> QED  BY <1>2, <1>3, <1>14, <1>15

----------------------------------------------------------------------------
(* rustc's headers *)

(* The first thing said below i and above the next position of H. *)
Said(V, H, i, n) ==
  LET below == {j \in (i + 1)..n : V[j] # 0 /\ \A k \in (i + 1)..j : k \notin H}
  IN  IF below = {} THEN 0 ELSE V[Min(below)]

LEMMA LeastIn ==
  ASSUME NEW S \in SUBSET Nat, S # {}
  PROVE  Min(S) \in S /\ \A j \in S : Min(S) <= j
PROOF
<1>1. \E x \in S : \A y \in S : x <= y
  BY LeastNat
<1> QED  BY <1>1 DEF Min

LEMMA SaidNothing ==
  ASSUME NEW V, NEW H, NEW i \in Nat
  PROVE  Said(V, H, i, i) = 0
PROOF
<1>1. \A j \in (i + 1)..i : FALSE
  OBVIOUS
<1> QED  BY <1>1 DEF Said

LEMMA SaidStep ==
  ASSUME NEW V, NEW H, NEW i \in Nat, NEW n \in Nat, i <= n, \A k \in (i + 1)..(n + 1) : k \notin H
  PROVE  Said(V, H, i, n + 1) = IF Said(V, H, i, n) # 0 THEN Said(V, H, i, n) ELSE V[n + 1]
PROOF
<1> DEFINE below(m) == {j \in (i + 1)..m : V[j] # 0 /\ \A k \in (i + 1)..j : k \notin H}
           now == below(n)
           next == below(n + 1)
<1>1. /\ Said(V, H, i, n) = IF now = {} THEN 0 ELSE V[Min(now)]
      /\ Said(V, H, i, n + 1) = IF next = {} THEN 0 ELSE V[Min(next)]
  BY DEF Said
<1>2. \A j : j \in now <=> j \in (i + 1)..n /\ V[j] # 0
  <2>1. \A j \in (i + 1)..n : \A k \in (i + 1)..j : k \in (i + 1)..(n + 1)
    OBVIOUS
  <2> QED  BY <2>1
<1>3. \A j : j \in next <=> j \in (i + 1)..(n + 1) /\ V[j] # 0
  <2>1. \A j \in (i + 1)..(n + 1) : \A k \in (i + 1)..j : k \in (i + 1)..(n + 1)
    OBVIOUS
  <2> QED  BY <2>1
<1>4. now \in SUBSET Nat /\ next \in SUBSET Nat
  OBVIOUS
<1> HIDE DEF now, next
<1>5. \A j \in (i + 1)..(n + 1) : j = n + 1 \/ j \in (i + 1)..n
  OBVIOUS
<1>6. n + 1 \in (i + 1)..(n + 1) /\ \A j \in (i + 1)..n : j < n + 1 /\ j \in (i + 1)..(n + 1)
  OBVIOUS
<1>7. CASE now # {}
  <2> DEFINE m == Min(now)
  <2>1. m \in now /\ \A j \in now : m <= j
    BY <1>4, <1>7, LeastIn
  <2> HIDE DEF m
  <2>2. m \in next /\ \A j \in next : m <= j
    BY <1>2, <1>3, <1>5, <1>6, <2>1
  <2>3. Min(next) = m
    BY <1>4, <2>2, MinIs
  <2>4. V[m] # 0 /\ next # {}
    BY <1>2, <2>1, <2>2
  <2> QED  BY <1>1, <1>7, <2>3, <2>4 DEF m
<1>8. CASE now = {} /\ V[n + 1] # 0
  <2> DEFINE m == n + 1
  <2>1. m \in next /\ \A j \in next : m <= j
    BY <1>2, <1>3, <1>5, <1>6, <1>8
  <2> HIDE DEF m
  <2>2. Min(next) = m
    BY <1>4, <2>1, MinIs
  <2> QED  BY <1>1, <1>8, <2>1, <2>2 DEF m
<1>9. CASE now = {} /\ V[n + 1] = 0
  <2>1. next = {}
    BY <1>2, <1>3, <1>5, <1>9
  <2> QED  BY <1>1, <1>9, <2>1
<1> QED  BY <1>7, <1>8, <1>9

LEMMA SaidStays ==
  ASSUME NEW V, NEW H, NEW i \in Nat, NEW n \in Nat, NEW m \in Nat, i <= n, n < m, n + 1 \in H
  PROVE  Said(V, H, i, m) = Said(V, H, i, n)
PROOF
<1> DEFINE below(q) == {j \in (i + 1)..q : V[j] # 0 /\ \A k \in (i + 1)..j : k \notin H}
           now == below(n)
           last == below(m)
<1>1. \A j \in (i + 1)..m : j \in (i + 1)..n \/ n + 1 \in (i + 1)..j
  OBVIOUS
<1>2. \A j \in (i + 1)..n : j \in (i + 1)..m
  OBVIOUS
<1>3. \A j : j \in now <=> j \in last
  BY <1>1, <1>2
<1>4. now = last
  BY <1>3
<1> QED  BY <1>4 DEF Said

RustType == Waiting(DiagnosticsOf("rust-compiler"))
RustHeaders(text) == {i \in DOMAIN text : Reads[text[i]].rust_header # 0}
Told(text, i, n) ==
  [place |-> Said([j \in DOMAIN text |-> Reads[text[j]].rust_place], RustHeaders(text), i, n),
   detail |-> Said([j \in DOMAIN text |-> Reads[text[j]].rust_detail], RustHeaders(text), i, n)]
RustWith(line, told) ==
  Diagnostic("rust-compiler", line,
    IF told.detail = 0 THEN <<Reads[line].rust_header>> ELSE <<Reads[line].rust_header, told.detail>>,
    told.place)
RustReports(text) ==
  [i \in DOMAIN text |->
    IF Reads[text[i]].rust_header = 0 THEN <<>>
    ELSE RustReport(text[i], RustBelow(text, i, LAMBDA line : Reads[line].rust_place),
                    RustBelow(text, i, LAMBDA line : Reads[line].rust_detail))]

LEMMA RustReadType ==
  ASSUME NEW line \in Lines
  PROVE  /\ Reads[line].rust_header \in OptionalTexts
         /\ Reads[line].rust_place \in OptionalPlaces
         /\ Reads[line].rust_detail \in OptionalTexts
<1>1. Reads[line] \in ReadingType
  BY ReadIs
<1> QED  BY <1>1 DEF ReadingType

LEMMA RustReported ==
  ASSUME NEW text, WrittenText(text), NEW i \in 1..Len(text), Reads[text[i]].rust_header # 0
  PROVE  LET told == Told(text, i, Len(text))
         IN  RustReports(text)[i] = IF told.place = 0 THEN <<>> ELSE <<RustWith(text[i], told)>>
PROOF
<1> DEFINE n == Len(text)
           VP == [j \in DOMAIN text |-> Reads[text[j]].rust_place]
           VD == [j \in DOMAIN text |-> Reads[text[j]].rust_detail]
           H == RustHeaders(text)
           told == Told(text, i, n)
<1>1. text \in Seq(Lines) /\ n \in Nat /\ DOMAIN text = 1..n /\ i \in Nat /\ i >= 1
  BY DEF WrittenText
<1>2. \A j \in (i + 1)..n : j \in 1..n /\ \A k \in (i + 1)..j : k \in 1..n
  BY <1>1
<1>3. \A j \in 1..n : /\ VP[j] = Reads[text[j]].rust_place
                      /\ VD[j] = Reads[text[j]].rust_detail
                      /\ j \notin H <=> Reads[text[j]].rust_header = 0
  BY <1>1 DEF RustHeaders
<1>4. told.place = Said(VP, H, i, n) /\ told.detail = Said(VD, H, i, n)
  BY DEF Told
<1> HIDE DEF VP, VD, H, told
<1>5. RustBelow(text, i, LAMBDA line : Reads[line].rust_place) = Said(VP, H, i, n)
  <2> DEFINE below == {j \in (i + 1)..n : Reads[text[j]].rust_place # 0
                         /\ \A k \in (i + 1)..j : Reads[text[k]].rust_header = 0}
             said == {j \in (i + 1)..n : VP[j] # 0 /\ \A k \in (i + 1)..j : k \notin H}
  <2>1. below = said
    BY <1>2, <1>3
  <2>2. RustBelow(text, i, LAMBDA line : Reads[line].rust_place)
          = IF below = {} THEN 0 ELSE Reads[text[Min(below)]].rust_place
    BY DEF RustBelow
  <2>3. Said(VP, H, i, n) = IF said = {} THEN 0 ELSE VP[Min(said)]
    BY DEF Said
  <2>4. said # {} => Min(said) \in 1..n
    <3>1. said \in SUBSET (1..n) /\ said \in SUBSET Nat
      BY <1>2
    <3> HIDE DEF said
    <3> QED  BY <3>1, LeastIn
  <2> HIDE DEF below, said
  <2> QED  BY <1>3, <2>1, <2>2, <2>3, <2>4
<1>6. RustBelow(text, i, LAMBDA line : Reads[line].rust_detail) = Said(VD, H, i, n)
  <2> DEFINE below == {j \in (i + 1)..n : Reads[text[j]].rust_detail # 0
                         /\ \A k \in (i + 1)..j : Reads[text[k]].rust_header = 0}
             said == {j \in (i + 1)..n : VD[j] # 0 /\ \A k \in (i + 1)..j : k \notin H}
  <2>1. below = said
    BY <1>2, <1>3
  <2>2. RustBelow(text, i, LAMBDA line : Reads[line].rust_detail)
          = IF below = {} THEN 0 ELSE Reads[text[Min(below)]].rust_detail
    BY DEF RustBelow
  <2>3. Said(VD, H, i, n) = IF said = {} THEN 0 ELSE VD[Min(said)]
    BY DEF Said
  <2>4. said # {} => Min(said) \in 1..n
    <3>1. said \in SUBSET (1..n) /\ said \in SUBSET Nat
      BY <1>2
    <3> HIDE DEF said
    <3> QED  BY <3>1, LeastIn
  <2> HIDE DEF below, said
  <2> QED  BY <1>3, <2>1, <2>2, <2>3, <2>4
<1>7. RustReports(text)[i] = RustReport(text[i], told.place, told.detail)
  BY <1>1, <1>4, <1>5, <1>6 DEF RustReports
<1>8. RustReports(text)[i] = IF told.place = 0 THEN <<>> ELSE <<RustWith(text[i], told)>>
  BY <1>7 DEF RustReport, RustWith
<1> QED  BY <1>8 DEF told

----------------------------------------------------------------------------
(* rustc's headers: what its parser goes through *)

LEMMA RustFinishedType ==
  ASSUME NEW pending \in RustType
  PROVE  RustFinished(pending) \in Seq(DiagnosticsOf("rust-compiler"))
<1> DEFINE T == DiagnosticsOf("rust-compiler")
<1>2. \A p \in Waiting(T) : p \in Seq(T)
  <2>1. \A x \in T : <<x>> \in Seq(T)
    OBVIOUS
  <2>2. <<>> \in Seq(T)
    OBVIOUS
  <2> HIDE DEF T
  <2> QED  BY <2>1, <2>2, Zenon DEF Waiting
<1>3. <<>> \in Seq(T)
  OBVIOUS
<1>4. RustFinished(pending) = pending \/ RustFinished(pending) = <<>>
  BY DEF RustFinished
<1>5. pending \in Waiting(T)
  BY DEF RustType
<1> HIDE DEF T
<1> QED  BY <1>2, <1>3, <1>4, <1>5 DEF T

LEMMA ObserveRustType ==
  ASSUME NEW pending \in RustType, NEW line \in Lines
  PROVE  ObserveRust(pending, line) \in Results(RustType, DiagnosticsOf("rust-compiler"))
<1> DEFINE T == DiagnosticsOf("rust-compiler")
           read == Reads[line]
           R == Results(RustType, T)
<1>0. /\ read.rust_header \in OptionalTexts
      /\ read.rust_place \in OptionalPlaces
      /\ read.rust_detail \in OptionalTexts
  BY RustReadType
<1>1. RustFinished(pending) \in Seq(T) /\ <<>> \in Seq(T)
  BY RustFinishedType
<1>2. \A p \in RustType, f \in Seq(T) : Result(p, f) \in R
  BY DEF Result, Results
<1>a. \A x \in T : <<x>> \in RustType
  BY DEF RustType, Waiting
<1>3. CASE read.rust_header # 0
  <2> DEFINE d == Diagnostic("rust-compiler", line, <<read.rust_header>>, 0)
  <2>1. d \in T
    <3>1. <<read.rust_header>> \in Seq(OptionalTexts) /\ 0 \in OptionalPlaces
      BY <1>0 DEF OptionalPlaces
    <3> QED  BY <3>1, DiagnosticType
  <2>3. ObserveRust(pending, line) = Result(<<d>>, RustFinished(pending))
    BY <1>3 DEF ObserveRust
  <2> HIDE DEF d
  <2> QED  BY <1>1, <1>2, <1>a, <2>1, <2>3
<1>4. CASE read.rust_header = 0 /\ pending = <<>>
  <2>1. ObserveRust(pending, line) = Result(pending, <<>>)
    BY <1>4 DEF ObserveRust
  <2> QED  BY <1>1, <1>2, <2>1
<1>5. CASE read.rust_header = 0 /\ pending # <<>>
  <2> DEFINE first == pending[1]
             located == IF first.location # 0 THEN first
                        ELSE [first EXCEPT !.location = read.rust_place]
             detailed == IF Len(located.message) > 1 \/ read.rust_detail = 0 THEN located
                         ELSE [located EXCEPT !.message = Append(@, read.rust_detail)]
  <2>1. first \in T
    <3>1. pending \in Waiting(T)
      BY DEF RustType
    <3> HIDE DEF T
    <3>2. PICK x \in T : pending = <<x>>
      BY <1>5, <3>1 DEF Waiting
    <3> QED  BY <3>2
  <2>2. ObserveRust(pending, line) = Result(<<detailed>>, <<>>)
    BY <1>5 DEF ObserveRust
  <2> HIDE DEF first
  <2>3. located \in T
    BY <1>0, <2>1 DEF DiagnosticsOf
  <2> HIDE DEF located
  <2>4. detailed \in T
    <3>1. located.message \in Seq(OptionalTexts)
      BY <2>3 DEF DiagnosticsOf
    <3>2. Append(located.message, read.rust_detail) \in Seq(OptionalTexts)
      BY <1>0, <3>1
    <3>3. [located EXCEPT !.message = Append(located.message, read.rust_detail)] \in T
      <4> DEFINE more == Append(located.message, read.rust_detail)
      <4> HIDE DEF more
      <4>1. more \in Seq(OptionalTexts)
        BY <3>2 DEF more
      <4>2. [located EXCEPT !.message = more] \in T
        BY <2>3, <4>1 DEF DiagnosticsOf
      <4> QED  BY <4>2 DEF more
    <3> QED  BY <2>3, <3>3
  <2> HIDE DEF detailed
  <2> QED  BY <1>1, <1>2, <1>a, <2>2, <2>4
<1> QED  BY <1>3, <1>4, <1>5

RustPrefixes(text) == ParsedPrefixes(ObserveRust, <<>>, text)

LEMMA RustCourse ==
  ASSUME NEW text \in Seq(Lines)
  PROVE  /\ RustPrefixes(text)[0] = Result(<<>>, <<>>)
         /\ \A n \in 0..Len(text) :
              RustPrefixes(text)[n] \in Results(RustType, DiagnosticsOf("rust-compiler"))
         /\ \A n \in 1..Len(text) :
              RustPrefixes(text)[n] =
                And(RustPrefixes(text)[n - 1],
                    ObserveRust(RustPrefixes(text)[n - 1].parser, text[n]))
PROOF
<1> DEFINE V == Results(RustType, DiagnosticsOf("rust-compiler"))
           size == Len(text)
           base == Result(<<>>, <<>>)
           step == [p \in (1..size) \X V |-> And(p[2], ObserveRust(p[2].parser, text[p[1]]))]
           Eq(f) == f = [n \in 0..size |-> IF n = 0 THEN base
                            ELSE And(f[n - 1], ObserveRust(f[n - 1].parser, text[n]))]
<1>1. size \in Nat /\ base \in V
  BY DEF Result, Results, RustType, Waiting
<1>2. /\ \A n \in 1..size, v \in V :
           step[<<n, v>>] = And(v, ObserveRust(v.parser, text[n]))
      /\ step \in [(1..size) \X V -> V]
  <2>1. ASSUME NEW n \in 1..size, NEW v \in V
        PROVE  And(v, ObserveRust(v.parser, text[n])) \in V
    <3>1. text[n] \in Lines /\ v.parser \in RustType
      BY DEF Results
    <3>2. ObserveRust(v.parser, text[n]) \in V
      BY <3>1, ObserveRustType
    <3> QED  BY <3>2, AndType
  <2> HIDE DEF V
  <2> QED  BY <2>1
<1> HIDE DEF step, V, base
<1>3. PICK g : IsCourse(g, size, V, base, step)
  BY <1>1, <1>2, CourseExists
<1>4. /\ g \in [0..size -> V] /\ g[0] = base
      /\ \A n \in 1..size : g[n] = step[<<n, g[n - 1]>>]
  BY <1>3 DEF IsCourse
<1>5. \A n \in 1..size :
        g[n - 1] \in V /\ g[n] = And(g[n - 1], ObserveRust(g[n - 1].parser, text[n]))
  <2> SUFFICES ASSUME NEW n \in 1..size
               PROVE  /\ g[n - 1] \in V
                      /\ g[n] = And(g[n - 1], ObserveRust(g[n - 1].parser, text[n]))
    OBVIOUS
  <2>1. n - 1 \in 0..size
    BY <1>1
  <2> QED  BY <1>2, <1>4, <2>1
<1>6. Eq(g)
  <2>1. \A n \in 0..size : n # 0 => n \in 1..size
    BY <1>1
  <2>2. g = [n \in 0..size |-> g[n]]
    BY <1>4
  <2>3. \A n \in 0..size : g[n] = IF n = 0 THEN base
                            ELSE And(g[n - 1], ObserveRust(g[n - 1].parser, text[n]))
    BY <1>4, <1>5, <2>1
  <2> HIDE DEF size
  <2> QED  BY <2>2, <2>3
<1>7. RustPrefixes(text) = CHOOSE f : Eq(f)
  BY DEF RustPrefixes, ParsedPrefixes, base
<1> DEFINE h == CHOOSE f : Eq(f)
<1>8. Eq(h)
  <2> HIDE DEF Eq
  <2> QED  BY <1>6
<1> HIDE DEF h
<1>9. /\ h[0] = base
      /\ \A n \in 1..size : h[n] = And(h[n - 1], ObserveRust(h[n - 1].parser, text[n]))
  <2>1. \A n \in 1..size : n \in 0..size /\ n # 0
    BY <1>1
  <2>2. 0 \in 0..size
    BY <1>1
  <2> HIDE DEF size
  <2> QED  BY <1>8, <2>1, <2>2
<1>10. StepsAgree(h, g, size)
  BY <1>4, <1>5, <1>9 DEF StepsAgree
<1>11. \A n \in 0..size : h[n] = g[n]
  BY <1>1, <1>10, CoursesAgree
<1>12. \A n \in 0..size : h[n] \in V
  BY <1>4, <1>11
<1> QED  BY <1>7, <1>9, <1>12 DEF h, V, base
RustStack(text, i, m) ==
  /\ i \in 1..Len(text) /\ m \in i..Len(text)
  /\ Reads[text[i]].rust_header # 0
  /\ \A k \in (i + 1)..m : k \notin RustHeaders(text)

RustPending(text, flat, i, n) == Result(<<RustWith(text[i], Told(text, i, n))>>, flat[i - 1])
RustAt(text, flat, n, now) ==
  \/ now = Result(<<>>, flat[n])
  \/ \E i \in 1..n : RustStack(text, i, n) /\ now = RustPending(text, flat, i, n)

RustFlat(text, flat) ==
  Flattens(flat, Singles(Len(text), RustReports(text)), Len(text), RustReports(text))

LEMMA RustReportsType ==
  ASSUME NEW text, WrittenText(text)
  PROVE  RustReports(text) \in
           [1..Len(text) -> Seq(Singles(Len(text), RustReports(text)))]
PROOF
<1> DEFINE R == RustReports(text)
<1>1. DOMAIN text = 1..Len(text) /\ Len(text) \in Nat
  BY DEF WrittenText
<1>2. R = [i \in 1..Len(text) |-> R[i]] /\ DOMAIN R = 1..Len(text)
  BY <1>1 DEF RustReports
<1>3. ASSUME NEW i \in 1..Len(text) PROVE R[i] = <<>> \/ \E x : R[i] = <<x>>
  <2>1. CASE Reads[text[i]].rust_header = 0
    BY <1>1, <2>1 DEF RustReports
  <2>2. CASE Reads[text[i]].rust_header # 0
    BY <2>2, RustReported
  <2> QED  BY <2>1, <2>2
<1> HIDE DEF R
<1> QED  BY <1>1, <1>2, <1>3, SinglesType DEF R

LEMMA RustQuiet ==
  ASSUME NEW text, WrittenText(text), NEW flat, RustFlat(text, flat), NEW i, NEW m, RustStack(text, i, m)
  PROVE  /\ flat[m] = flat[i - 1] \o RustReports(text)[i]
         /\ flat[i - 1] \in Seq(Singles(Len(text), RustReports(text)))
PROOF
<1> DEFINE n == Len(text)
           T == Singles(Len(text), RustReports(text))
           R == RustReports(text)
<1>1. n \in Nat /\ DOMAIN text = 1..n /\ i \in 1..n /\ m \in i..n /\ i \in 0..n /\ i - 1 \in 0..n
  BY DEF WrittenText, RustStack
<1>2. \A k \in (i + 1)..m : R[k] = <<>>
  <2> SUFFICES ASSUME NEW k \in (i + 1)..m PROVE R[k] = <<>>
    OBVIOUS
  <2>1. k \in DOMAIN text
    BY <1>1
  <2>2. Reads[text[k]].rust_header = 0
    BY <2>1 DEF RustStack, RustHeaders
  <2> QED  BY <2>1, <2>2 DEF RustReports
<1>3. Flattens(flat, T, n, R)
  BY DEF RustFlat
<1> HIDE DEF n, T, R
<1>4. flat[m] = flat[i]
  <2>1. Silent(R, i, m)
    BY <1>2 DEF Silent
  <2>2. i \in 0..n /\ m \in i..n /\ n \in Nat
    BY <1>1
  <2> QED  BY <1>3, <2>1, <2>2, FlatStays
<1>5. flat[i] = flat[i - 1] \o R[i] /\ flat[i - 1] \in Seq(T)
  BY <1>1, <1>3 DEF Flattens
<1> QED  BY <1>4, <1>5 DEF T, R

LEMMA RustNothing ==
  ASSUME NEW text, WrittenText(text), NEW flat, RustFlat(text, flat), NEW n \in 1..Len(text),
         Reads[text[n]].rust_header = 0
  PROVE  flat[n] = flat[n - 1]
PROOF
<1>1. n \in DOMAIN text /\ n - 1 \in 0..Len(text)
  BY DEF WrittenText
<1>2. RustReports(text)[n] = <<>>
  BY <1>1 DEF RustReports
<1>3. flat[n] = flat[n - 1] \o <<>> /\ flat[n - 1] \in Seq(Singles(Len(text), RustReports(text)))
  BY <1>1, <1>2 DEF RustFlat, Flattens
<1> QED  BY <1>3

(* What has been told of a header when the next comes, or the text ends.   *)
LEMMA RustTold ==
  ASSUME NEW text, WrittenText(text), NEW i, NEW m, RustStack(text, i, m),
         m = Len(text) \/ m + 1 \in RustHeaders(text)
  PROVE  RustFinished(<<RustWith(text[i], Told(text, i, m))>>) = RustReports(text)[i]
PROOF
<1> DEFINE told == Told(text, i, m)
           one == RustWith(text[i], told)
<1>1. /\ Len(text) \in Nat /\ i \in 1..Len(text) /\ m \in i..Len(text) /\ DOMAIN text = 1..Len(text)
      /\ Reads[text[i]].rust_header # 0 /\ i \in Nat /\ m \in Nat /\ i <= m
      /\ m = Len(text) \/ m < Len(text)
  BY DEF WrittenText, RustStack
<1>2. told = Told(text, i, Len(text))
  <2>1. CASE m = Len(text)
    BY <2>1
  <2>2. CASE m # Len(text)
    <3>1. m < Len(text) /\ m + 1 \in RustHeaders(text)
      BY <1>1, <2>2
    <3> QED  BY <1>1, <3>1, SaidStays DEF Told
  <2> QED  BY <2>1, <2>2
<1>3. one.location = told.place
  BY DEF RustWith, Diagnostic
<1> HIDE DEF told, one
<1>4. RustFinished(<<one>>) = IF told.place = 0 THEN <<>> ELSE <<one>>
  BY <1>3 DEF RustFinished
<1>5. RustReports(text)[i] = IF told.place = 0 THEN <<>> ELSE <<one>>
  BY <1>1, <1>2, RustReported DEF one
<1> QED  BY <1>4, <1>5 DEF one, told

----------------------------------------------------------------------------
(* rustc's headers: line by line *)

(* A line that is no header tells more of the header above. *)
LEMMA ToldStep ==
  ASSUME NEW text, WrittenText(text), NEW i, NEW n \in 1..Len(text), RustStack(text, i, n - 1),
         Reads[text[n]].rust_header = 0
  PROVE  LET told == Told(text, i, n - 1)
             read == Reads[text[n]]
         IN  /\ RustStack(text, i, n)
             /\ Told(text, i, n) =
                  [place |-> IF told.place # 0 THEN told.place ELSE read.rust_place,
                   detail |-> IF told.detail # 0 THEN told.detail ELSE read.rust_detail]
PROOF
<1> DEFINE VP == [j \in DOMAIN text |-> Reads[text[j]].rust_place]
           VD == [j \in DOMAIN text |-> Reads[text[j]].rust_detail]
           H == RustHeaders(text)
           m == n - 1
           read == Reads[text[n]]
<1>1. /\ Len(text) \in Nat /\ DOMAIN text = 1..Len(text) /\ i \in 1..Len(text) /\ n \in Nat
      /\ m \in i..Len(text) /\ m + 1 = n /\ i \in Nat /\ m \in Nat /\ i <= m /\ n \in i..Len(text)
      /\ Reads[text[i]].rust_header # 0
  BY DEF WrittenText, RustStack
<1>2. VP[n] = read.rust_place /\ VD[n] = read.rust_detail /\ n \notin H
  BY <1>1 DEF RustHeaders
<1>3. \A k \in (i + 1)..n : k \notin H
  <2>1. \A k \in (i + 1)..n : k = n \/ k \in (i + 1)..m
    BY <1>1
  <2>2. \A k \in (i + 1)..m : k \notin H
    BY DEF RustStack
  <2> HIDE DEF H, m
  <2> QED  BY <1>2, <2>1, <2>2
<1>4. RustStack(text, i, n)
  BY <1>1, <1>3 DEF RustStack
<1> HIDE DEF VP, VD, H, m
<1>5. /\ Said(VP, H, i, n) = IF Said(VP, H, i, m) # 0 THEN Said(VP, H, i, m) ELSE VP[n]
      /\ Said(VD, H, i, n) = IF Said(VD, H, i, m) # 0 THEN Said(VD, H, i, m) ELSE VD[n]
  <2>1. \A k \in (i + 1)..(m + 1) : k \notin H
    BY <1>1, <1>3
  <2>2. /\ Said(VP, H, i, m + 1) = IF Said(VP, H, i, m) # 0 THEN Said(VP, H, i, m) ELSE VP[m + 1]
        /\ Said(VD, H, i, m + 1) = IF Said(VD, H, i, m) # 0 THEN Said(VD, H, i, m) ELSE VD[m + 1]
    BY <1>1, <2>1, SaidStep
  <2> QED  BY <1>1, <2>2
<1>6. \A q : Told(text, i, q) = [place |-> Said(VP, H, i, q), detail |-> Said(VD, H, i, q)]
  BY DEF Told, VP, VD, H
<1> QED  BY <1>2, <1>4, <1>5, <1>6 DEF m

LEMMA AppendPair ==
  ASSUME NEW a, NEW b
  PROVE  Append(<<a>>, b) = <<a, b>>
PROOF
<1> DEFINE T == {a, b}
           s == <<a>>
           p == Append(s, b)
<1>1. s \in Seq(T) /\ Len(s) = 1 /\ s[1] = a /\ b \in T
  OBVIOUS
<1> HIDE DEF T, s
<1>2. /\ p \in Seq(T) /\ Len(p) = Len(s) + 1 /\ p[Len(s) + 1] = b
      /\ \A i \in 1..Len(s) : p[i] = s[i]
  <2>1. s \in Seq(T) /\ b \in T
    BY <1>1
  <2> QED  BY <2>1, AppendProperties
<1> HIDE DEF p
<1>3. Len(p) = 2 /\ p[1] = a /\ p[2] = b /\ DOMAIN p = 1..2
  BY <1>1, <1>2
<1>4. p = [i \in 1..Len(p) |-> p[i]]
  BY <1>2, <1>3
<1>5. p = <<a, b>>
  <2> DEFINE q == <<a, b>>
  <2>1. DOMAIN q = 1..2 /\ q = [i \in 1..2 |-> q[i]] /\ q[1] = a /\ q[2] = b
    OBVIOUS
  <2>2. \A i \in 1..2 : i = 1 \/ i = 2
    OBVIOUS
  <2> HIDE DEF q
  <2>3. \A i \in 1..2 : q[i] = p[i]
    BY <1>3, <2>1, <2>2
  <2>4. p = [i \in 1..2 |-> p[i]]
    BY <1>3, <1>4
  <2> QED  BY <2>1, <2>3, <2>4
<1> QED  BY <1>5 DEF p, s

LEMMA RustRead ==
  ASSUME NEW line, NEW message, NEW place
  PROVE  LET one == Diagnostic("rust-compiler", line, message, place)
         IN  one.location = place /\ one.message = message
PROOF
BY DEF Diagnostic

(* So does the parser. *)
LEMMA RustHears ==
  ASSUME NEW line, NEW read, NEW told, NEW first, first = RustWith(line, told),
         NEW located,
         located = IF first.location # 0 THEN first
                   ELSE Diagnostic("rust-compiler", line, first.message, read.rust_place),
         NEW detailed,
         detailed = IF Len(located.message) > 1 \/ read.rust_detail = 0 THEN located
                    ELSE Diagnostic("rust-compiler", line,
                                    Append(located.message, read.rust_detail), located.location)
  PROVE  detailed =
           RustWith(line, [place |-> IF told.place # 0 THEN told.place ELSE read.rust_place,
                           detail |-> IF told.detail # 0 THEN told.detail ELSE read.rust_detail])
PROOF
<1> DEFINE place == IF told.place # 0 THEN told.place ELSE read.rust_place
           header == Reads[line].rust_header
           message == IF told.detail = 0 THEN <<header>> ELSE <<header, told.detail>>
           One(m, at) == Diagnostic("rust-compiler", line, m, at)
           Detailed(detail) == RustWith(line, [place |-> place, detail |-> detail])
<1>1. first = One(message, told.place)
  BY DEF RustWith
<1>2. /\ \A d : d = 0 => Detailed(d) = One(<<header>>, place)
      /\ \A d : d # 0 => Detailed(d) = One(<<header, d>>, place)
  BY DEF RustWith
<1>3. /\ told.detail # 0 => Len(message) > 1 /\ message = <<header, told.detail>>
      /\ told.detail = 0 => ~(Len(message) > 1) /\ message = <<header>>
  OBVIOUS
<1> HIDE DEF message, place, Detailed
<1>4. located = One(message, place)
  <2>1. first.location = told.place /\ first.message = message
    BY <1>1, RustRead
  <2> QED  BY <1>1, <2>1 DEF place
<1>5. located.message = message /\ located.location = place
  BY <1>4, RustRead
<1>6. CASE told.detail # 0
  <2>1. detailed = located
    BY <1>3, <1>5, <1>6
  <2>2. Detailed(told.detail) = One(message, place)
    BY <1>2, <1>3, <1>6
  <2> QED  BY <1>4, <1>6, <2>1, <2>2 DEF Detailed, place
<1>7. CASE told.detail = 0 /\ read.rust_detail = 0
  <2>1. detailed = located
    BY <1>7
  <2>2. Detailed(read.rust_detail) = One(message, place)
    BY <1>2, <1>3, <1>7
  <2> QED  BY <1>4, <1>7, <2>1, <2>2 DEF Detailed, place
<1>8. CASE told.detail = 0 /\ read.rust_detail # 0
  <2> DEFINE longer == <<header, read.rust_detail>>
  <2>1. detailed = One(Append(message, read.rust_detail), place)
    BY <1>3, <1>5, <1>8
  <2>2. Append(message, read.rust_detail) = longer
    BY <1>3, <1>8, AppendPair
  <2>3. detailed = One(longer, place)
    BY <2>1, <2>2
  <2>4. Detailed(read.rust_detail) = One(longer, place)
    BY <1>2, <1>8
  <2> QED  BY <1>8, <2>3, <2>4 DEF Detailed, place
<1> QED  BY <1>6, <1>7, <1>8

LEMMA RustStep ==
  ASSUME NEW text, WrittenText(text), NEW flat, RustFlat(text, flat),
         NEW n \in 1..Len(text), NEW before, RustAt(text, flat, n - 1, before)
  PROVE  RustAt(text, flat, n, And(before, ObserveRust(before.parser, text[n])))
PROOF
<1> DEFINE line == text[n]
           read == Reads[line]
           T == Singles(Len(text), RustReports(text))
           next == ObserveRust(before.parser, line)
           after == And(before, next)
           own == Diagnostic("rust-compiler", line, <<read.rust_header>>, 0)
<1>0. /\ text \in Seq(Lines) /\ Len(text) \in Nat /\ DOMAIN text = 1..Len(text) /\ n \in Nat
      /\ n - 1 \in Nat /\ n - 1 \in 0..Len(text) /\ (n - 1) + 1 = n /\ n >= 1
      /\ line \in Lines /\ n \in n..Len(text)
  BY DEF WrittenText
<1>2. flat[n - 1] \in Seq(T)
  BY <1>0 DEF RustFlat, Flattens
<1>3. \A q, f : Result(q, f).parser = q /\ Result(q, f).found = f
  BY DEF Result
<1>4. read.rust_header = 0 => flat[n] = flat[n - 1]
  BY RustNothing
<1>5. read.rust_header # 0 => next = Result(<<own>>, RustFinished(before.parser))
  BY DEF ObserveRust
<1>6. read.rust_header # 0 => RustStack(text, n, n) /\ n \in RustHeaders(text)
  <2>1. \A k \in (n + 1)..n : FALSE
    BY <1>0
  <2> QED  BY <1>0, <2>1 DEF RustStack, RustHeaders
<1>7. RustPending(text, flat, n, n) = Result(<<own>>, flat[n - 1])
  <2>1. Told(text, n, n) = [place |-> 0, detail |-> 0]
    BY <1>0, SaidNothing DEF Told
  <2> QED  BY <2>1 DEF RustPending, RustWith
<1> HIDE DEF own
<1>8. CASE before = Result(<<>>, flat[n - 1])
  <2>1. before.parser = <<>> /\ RustFinished(<<>>) = <<>>
    BY <1>3, <1>8 DEF RustFinished
  <2>2. ASSUME NEW q PROVE And(before, Result(q, <<>>)) = Result(q, flat[n - 1])
    BY <1>2, <1>8, AndNothing
  <2>3. CASE read.rust_header # 0
    <3>1. next = Result(<<own>>, <<>>)
      BY <1>5, <2>1, <2>3
    <3>2. after = RustPending(text, flat, n, n)
      BY <1>7, <2>2, <3>1
    <3> QED  BY <1>0, <1>6, <2>3, <3>2 DEF RustAt
  <2>4. CASE read.rust_header = 0
    <3>1. next = Result(<<>>, <<>>)
      BY <2>1, <2>4 DEF ObserveRust
    <3>2. after = Result(<<>>, flat[n])
      BY <1>4, <2>2, <2>4, <3>1
    <3> QED  BY <3>2 DEF RustAt
  <2> QED  BY <2>3, <2>4
<1>9. ASSUME NEW i \in 1..(n - 1), RustStack(text, i, n - 1),
             before = RustPending(text, flat, i, n - 1)
      PROVE  RustAt(text, flat, n, after)
  <2> DEFINE told == Told(text, i, n - 1)
             first == RustWith(text[i], told)
             report == RustReports(text)[i]
  <2>1. before = Result(<<first>>, flat[i - 1]) /\ before.parser = <<first>>
    BY <1>3, <1>9 DEF RustPending
  <2>2. flat[n - 1] = flat[i - 1] \o report /\ flat[i - 1] \in Seq(T)
    BY <1>9, RustQuiet
  <2>3. i \in 1..n
    BY <1>0
  <2> HIDE DEF first, told
  <2>4. CASE read.rust_header # 0
    <3>1. RustFinished(<<first>>) = report
      <4> DEFINE m == n - 1
      <4>1. m + 1 \in RustHeaders(text) /\ RustStack(text, i, m)
        BY <1>0, <1>6, <1>9, <2>4
      <4>2. first = RustWith(text[i], Told(text, i, m))
        BY DEF first, told
      <4> HIDE DEF m, first
      <4> QED  BY <4>1, <4>2, RustTold
    <3>2. next = Result(<<own>>, report)
      BY <1>5, <2>1, <2>4, <3>1
    <3>3. after = Result(<<own>>, flat[i - 1] \o report)
      <4> HIDE DEF next, report
      <4> QED  BY <2>1, <3>2, AndFound
    <3>4. after = RustPending(text, flat, n, n)
      BY <1>7, <2>2, <3>3
    <3> QED  BY <1>0, <1>6, <2>4, <3>4 DEF RustAt
  <2>5. CASE read.rust_header = 0
    <3> DEFINE header == before.parser[1]
               located == IF header.location # 0 THEN header
                          ELSE [header EXCEPT !.location = read.rust_place]
               detailed == IF Len(located.message) > 1 \/ read.rust_detail = 0 THEN located
                           ELSE [located EXCEPT !.message = Append(@, read.rust_detail)]
               more == Told(text, i, n)
    <3>a. header = first /\ before.parser # <<>>
      <4> DEFINE pending == <<first>>
      <4>1. pending[1] = first /\ pending # <<>>
        OBVIOUS
      <4> QED  BY <2>1, <4>1
    <3>1. next = Result(<<detailed>>, <<>>)
      BY <2>5, <3>a DEF ObserveRust
    <3>2. /\ RustStack(text, i, n)
          /\ more = [place |-> IF told.place # 0 THEN told.place ELSE read.rust_place,
                     detail |-> IF told.detail # 0 THEN told.detail ELSE read.rust_detail]
      BY <1>9, <2>5, ToldStep DEF told
    <3>3. told = [place |-> told.place, detail |-> told.detail]
      BY DEF told, Told
    <3>4. detailed = RustWith(text[i], more)
      <4> HIDE DEF more, header
      <4>1. header = RustWith(text[i], told)
        BY <3>a DEF first
      <4>2. \A d : detailed = IF Len(located.message) > 1 \/ read.rust_detail = 0 THEN located
              ELSE [located EXCEPT !.message = Append(located.message, read.rust_detail)]
        OBVIOUS
      <4> HIDE DEF detailed
      <4>3. detailed = RustWith(text[i], [place |-> IF told.place # 0 THEN told.place ELSE read.rust_place,
                     detail |-> IF told.detail # 0 THEN told.detail ELSE read.rust_detail])
        <5> DEFINE spot == located
                   One(m, at) == Diagnostic("rust-compiler", text[i], m, at)
        <5>1. spot = IF header.location # 0 THEN header
                     ELSE One(header.message, read.rust_place)
          BY <4>1 DEF RustWith, Diagnostic
        <5>2. spot = One(spot.message, spot.location)
          BY <4>1, <5>1 DEF RustWith, Diagnostic
        <5>3. detailed = IF Len(spot.message) > 1 \/ read.rust_detail = 0 THEN spot
                         ELSE [spot EXCEPT !.message = Append(spot.message, read.rust_detail)]
          BY <4>2
        <5> HIDE DEF spot
        <5>4. \A m : [spot EXCEPT !.message = m] = One(m, spot.location)
          BY <5>2 DEF Diagnostic
        <5>5. detailed = IF Len(spot.message) > 1 \/ read.rust_detail = 0 THEN spot
                         ELSE One(Append(spot.message, read.rust_detail), spot.location)
          BY <5>3, <5>4
        <5> DEFINE base == text[i]
        <5> HIDE DEF detailed, base, read
        <5>6. /\ header = RustWith(base, told)
              /\ spot = IF header.location # 0 THEN header
                     ELSE Diagnostic("rust-compiler", base, header.message, read.rust_place)
              /\ detailed = IF Len(spot.message) > 1 \/ read.rust_detail = 0 THEN spot
                         ELSE Diagnostic("rust-compiler", base,
                                         Append(spot.message, read.rust_detail), spot.location)
          BY <4>1, <5>1, <5>5 DEF base
        <5>7. detailed = RustWith(base, [place |-> IF told.place # 0 THEN told.place ELSE read.rust_place,
                     detail |-> IF told.detail # 0 THEN told.detail ELSE read.rust_detail])
          BY <5>6, RustHears
        <5> QED  BY <5>7 DEF base
      <4> QED  BY <3>2, <4>3
    <3> HIDE DEF detailed, more
    <3>5. after = Result(<<detailed>>, flat[i - 1])
      BY <2>1, <2>2, <3>1, AndNothing
    <3>6. after = RustPending(text, flat, i, n)
      BY <3>4, <3>5 DEF RustPending, more
    <3> QED  BY <2>3, <3>2, <3>6 DEF RustAt
  <2> QED  BY <2>4, <2>5
<1> QED  BY <1>8, <1>9 DEF RustAt

(* What rustc's parser reports of a text is what the reference says.       *)
LEMMA RustCompilerPlaced ==
  ASSUME NEW text, WrittenText(text)
  PROVE  /\ RustCompiler(text) = RustReference(text)
         /\ RustCompiler(text) \in Seq(DiagnosticsOf("rust-compiler"))
PROOF
<1> DEFINE L == Len(text)
           T == Singles(Len(text), RustReports(text))
           R == RustReports(text)
           after == RustPrefixes(text)
<1>1. text \in Seq(Lines) /\ L \in Nat /\ DOMAIN text = 1..L
  BY DEF WrittenText
<1>2. R \in [1..L -> Seq(T)] /\ RustReference(text) = FlattenSeq(R)
  BY RustReportsType DEF RustReference, RustReports
<1>3. PICK flat : Flattens(flat, T, L, R) /\ FlattenSeq(R) = flat[L]
  <2> HIDE DEF L, T, R
  <2> QED  BY <1>1, <1>2, FlattenCourse
<1>4. RustFlat(text, flat) /\ flat[0] = <<>> /\ flat \in [0..L -> Seq(T)]
  BY <1>3 DEF RustFlat, Flattens
<1>5. /\ after[0] = Result(<<>>, <<>>)
      /\ \A n \in 1..L : after[n] = And(after[n - 1], ObserveRust(after[n - 1].parser, text[n]))
      /\ \A n \in 0..L : after[n] \in Results(RustType, DiagnosticsOf("rust-compiler"))
  BY <1>1, RustCourse
<1> DEFINE P == {n \in Nat : n <= L => RustAt(text, flat, n, after[n])}
<1>6. 0 \in P
  BY <1>4, <1>5 DEF RustAt
<1>7. ASSUME NEW n \in P PROVE n + 1 \in P
  <2> SUFFICES ASSUME n + 1 <= L PROVE RustAt(text, flat, n + 1, after[n + 1])
    OBVIOUS
  <2> DEFINE k == n + 1
  <2>1. k \in 1..L /\ k - 1 = n
    BY <1>1
  <2>2. RustAt(text, flat, k - 1, after[k - 1])
    BY <1>1, <2>1
  <2> HIDE DEF k, after
  <2>3. RustAt(text, flat, k, And(after[k - 1], ObserveRust(after[k - 1].parser, text[k])))
    BY <1>4, <2>1, <2>2, RustStep
  <2>4. RustAt(text, flat, k, after[k])
    BY <1>5, <2>1, <2>3
  <2> QED  BY <2>4 DEF k
<1>8. L \in P
  <2>1. P \in SUBSET Nat
    OBVIOUS
  <2> HIDE DEF P
  <2> QED  BY <1>1, <1>6, <1>7, <2>1, InductionOnNat
<1>9. RustAt(text, flat, L, after[L])
  BY <1>1, <1>8
<1>10. RustCompiler(text) = after[L].found \o RustFinished(after[L].parser)
  BY DEF RustCompiler, Parsed, RustPrefixes
<1> HIDE DEF after
<1>11. ASSUME after[L] = Result(<<>>, flat[L])
       PROVE  RustCompiler(text) = flat[L]
  <2>1. after[L].found = flat[L] /\ RustFinished(after[L].parser) = <<>>
    BY <1>11 DEF Result, RustFinished
  <2>2. flat[L] \in Seq(T)
    BY <1>1, <1>4
  <2>3. flat[L] \o <<>> = flat[L]
    <3> HIDE DEF T
    <3> QED  BY <2>2
  <2> QED  BY <1>10, <2>1, <2>3
<1>12. ASSUME NEW i \in 1..L, RustStack(text, i, L), after[L] = RustPending(text, flat, i, L)
       PROVE  RustCompiler(text) = flat[L]
  <2> DEFINE first == RustWith(text[i], Told(text, i, L))
  <2>1. after[L].found = flat[i - 1]
    BY <1>12 DEF RustPending, Result
  <2>2. after[L].parser = <<first>>
    BY <1>12 DEF RustPending, Result
  <2>3. RustFinished(<<first>>) = R[i]
    BY <1>12, RustTold
  <2>6. flat[L] = flat[i - 1] \o R[i]
    BY <1>4, <1>12, RustQuiet
  <2> HIDE DEF first
  <2> QED  BY <1>10, <2>1, <2>2, <2>3, <2>6
<1> HIDE DEF T
<1>14. RustCompiler(text) = flat[L]
  BY <1>9, <1>11, <1>12 DEF RustAt
<1>15. RustCompiler(text) \in Seq(DiagnosticsOf("rust-compiler"))
  <2>1. after[L] \in Results(RustType, DiagnosticsOf("rust-compiler"))
    BY <1>1, <1>5
  <2>2. /\ after[L].found \in Seq(DiagnosticsOf("rust-compiler"))
        /\ RustFinished(after[L].parser) \in Seq(DiagnosticsOf("rust-compiler"))
    BY <2>1, RustFinishedType DEF Results
  <2> QED  BY <1>10, <2>2
<1> QED  BY <1>2, <1>3, <1>14, <1>15

----------------------------------------------------------------------------
(* Python's places *)

LEMMA MaxIn ==
  ASSUME NEW n \in Nat, NEW S \in SUBSET (1..n), S # {}
  PROVE  Max(S) \in S /\ \A j \in S : j <= Max(S)
PROOF
<1> DEFINE gaps == {n - y : y \in S}
<1>1. gaps \in SUBSET Nat /\ gaps # {}
  <2>1. \A y \in S : n - y \in Nat
    OBVIOUS
  <2>2. PICK y \in S : TRUE
    OBVIOUS
  <2>3. n - y \in gaps
    OBVIOUS
  <2> QED  BY <2>1, <2>3
<1> HIDE DEF gaps
<1>2. PICK g \in gaps : \A h \in gaps : g <= h
  BY <1>1, LeastNat
<1>3. PICK x \in S : g = n - x
  BY DEF gaps
<1>4. \A y \in S : n - y \in gaps
  BY DEF gaps
<1>5. \A y \in S : n - x <= n - y /\ x \in Nat /\ y \in Nat
  BY <1>2, <1>3, <1>4
<1>6. \E m \in S : \A y \in S : m >= y
  BY <1>5
<1>7. Max(S) \in S /\ \A y \in S : Max(S) >= y
  BY <1>6 DEF Max
<1>8. \A y \in S : y \in Nat
  OBVIOUS
<1> QED  BY <1>7, <1>8

PythonPlaceAbove(text, i) == PlaceAbove(text, i, PythonPlace, EndsPython)
PythonLeft(text) == PythonPlaceAbove(text, Len(text) + 1)

LEMMA PythonPlaceAboveIs ==
  ASSUME NEW text \in Seq(Lines), NEW i \in 1..(Len(text) + 1)
  PROVE  PythonPlaceAbove(text, i) =
           Nearest([j \in DOMAIN text |-> PythonPlace(text[j])],
                   {j \in DOMAIN text : EndsPython(text[j])}, i)
PROOF
<1> DEFINE V == [j \in DOMAIN text |-> PythonPlace(text[j])]
           U == {j \in DOMAIN text : EndsPython(text[j])}
           places == {j \in 1..(i - 1) : PythonPlace(text[j]) # 0 /\
                        \A k \in (j + 1)..(i - 1) : ~EndsPython(text[k])}
           above == {j \in 1..(i - 1) : V[j] # 0 /\ \A k \in (j + 1)..(i - 1) : k \notin U}
<1>1. DOMAIN text = 1..Len(text) /\ Len(text) \in Nat /\ i - 1 \in Nat /\ i - 1 <= Len(text)
  OBVIOUS
<1>2. \A j \in 1..(i - 1) : j \in DOMAIN text /\ \A k \in (j + 1)..(i - 1) : k \in DOMAIN text
  BY <1>1
<1>3. \A j \in DOMAIN text : V[j] = PythonPlace(text[j]) /\ (j \in U <=> EndsPython(text[j]))
  OBVIOUS
<1> HIDE DEF V, U
<1>4. places = above
  <2>1. \A j : j \in places <=> j \in above
    BY <1>2, <1>3
  <2> QED  BY <2>1
<1>5. /\ PythonPlaceAbove(text, i) = IF places = {} THEN 0 ELSE PythonPlace(text[Max(places)])
      /\ Nearest(V, U, i) = IF above = {} THEN 0 ELSE V[Max(above)]
  BY DEF PythonPlaceAbove, PlaceAbove, Nearest
<1>6. above # {} => Max(above) \in DOMAIN text
  <2> DEFINE n == i - 1
  <2>1. above \in SUBSET (1..n) /\ n \in Nat
    BY <1>1
  <2>2. \A j \in 1..n : j \in DOMAIN text
    BY <1>2
  <2> HIDE DEF above, n
  <2> QED  BY <2>1, <2>2, MaxIn
<1> HIDE DEF places, above
<1> QED  BY <1>3, <1>4, <1>5, <1>6 DEF V, U

(* A line more does not change what is above the others.                   *)
LEMMA PythonPlaceStays ==
  ASSUME NEW text \in Seq(Lines), NEW line \in Lines, NEW i \in 1..(Len(text) + 1)
  PROVE  PythonPlaceAbove(Append(text, line), i) = PythonPlaceAbove(text, i)
PROOF
<1> DEFINE more == Append(text, line)
           n == i - 1
           places(t) == {j \in 1..n : PythonPlace(t[j]) # 0 /\
                           \A k \in (j + 1)..n : ~EndsPython(t[k])}
<1>1. \A j \in 1..n : more[j] = text[j] /\ \A k \in (j + 1)..n : more[k] = text[k]
  OBVIOUS
<1>2. /\ PythonPlaceAbove(text, i) = IF places(text) = {} THEN 0 ELSE PythonPlace(text[Max(places(text))])
      /\ PythonPlaceAbove(more, i) = IF places(more) = {} THEN 0 ELSE PythonPlace(more[Max(places(more))])
  BY DEF PythonPlaceAbove, PlaceAbove
<1>3. n \in Nat
  OBVIOUS
<1> DEFINE here == places(text)
           there == places(more)
<1> HIDE DEF more, n
<1>4. here = there
  BY <1>1
<1>5. here # {} => Max(here) \in 1..n
  <2>1. here \in SUBSET (1..n)
    OBVIOUS
  <2> HIDE DEF here
  <2> QED  BY <1>3, <2>1, MaxIn
<1>6. /\ PythonPlaceAbove(text, i) = IF here = {} THEN 0 ELSE PythonPlace(text[Max(here)])
      /\ PythonPlaceAbove(more, i) = IF there = {} THEN 0 ELSE PythonPlace(more[Max(there)])
  BY <1>2
<1> HIDE DEF here, there
<1>7. here # {} => more[Max(here)] = text[Max(here)]
  BY <1>1, <1>5
<1>8. PythonPlaceAbove(more, i) = PythonPlaceAbove(text, i)
  BY <1>4, <1>6, <1>7
<1> QED  BY <1>8 DEF more

LEMMA PythonLeftStep ==
  ASSUME NEW text \in Seq(Lines), NEW line \in Lines
  PROVE  PythonLeft(Append(text, line)) =
           IF PythonPlace(line) # 0 THEN PythonPlace(line)
           ELSE IF EndsPython(line) THEN 0 ELSE PythonLeft(text)
PROOF
<1> DEFINE more == Append(text, line)
           n == Len(text) + 1
           V == [j \in DOMAIN more |-> PythonPlace(more[j])]
           U == {j \in DOMAIN more : EndsPython(more[j])}
<1>1. /\ more \in Seq(Lines) /\ Len(more) = n /\ n \in Nat /\ n >= 1 /\ more[n] = line
      /\ n \in DOMAIN more
  OBVIOUS
<1>2. V[n] = PythonPlace(line) /\ (n \in U <=> EndsPython(line))
  BY <1>1
<1> HIDE DEF n
<1>3. PythonPlaceAbove(more, n) = Nearest(V, U, n) /\ PythonPlaceAbove(more, n + 1) = Nearest(V, U, n + 1)
  <2>1. n \in 1..(Len(more) + 1) /\ n + 1 \in 1..(Len(more) + 1)
    BY <1>1
  <2> HIDE DEF more
  <2> QED  BY <1>1, <2>1, PythonPlaceAboveIs
<1>4. PythonPlaceAbove(more, n) = PythonLeft(text)
  <2>1. n \in 1..(Len(text) + 1)
    BY DEF n
  <2> QED  BY <2>1, PythonPlaceStays DEF PythonLeft, n
<1> HIDE DEF V, U, more
<1>5. Nearest(V, U, n + 1) = IF V[n] # 0 THEN V[n] ELSE IF n \in U THEN 0 ELSE Nearest(V, U, n)
  <2>1. \A i \in Nat : i >= 1 =>
          Nearest(V, U, i + 1) = IF V[i] # 0 THEN V[i] ELSE IF i \in U THEN 0 ELSE Nearest(V, U, i)
    BY NearestStep
  <2> QED  BY <1>1, <2>1
<1>6. PythonLeft(more) = PythonPlaceAbove(more, n + 1)
  BY <1>1 DEF PythonLeft
<1> QED  BY <1>2, <1>3, <1>4, <1>5, <1>6 DEF more

PythonReports(text) ==
  [i \in DOMAIN text |->
    IF ~IsPythonException(text[i]) THEN <<>>
    ELSE <<Diagnostic("python", text[i], <<Reads[text[i]].python_exception>>,
                      PythonPlaceAbove(text, i))>>]

LEMMA PythonReadType ==
  ASSUME NEW line \in Lines
  PROVE  /\ Reads[line].python_exception \in OptionalTexts
         /\ Reads[line].python_summary \in OptionalTexts
         /\ Reads[line].python_place \in OptionalPlaces
         /\ Reads[line].summary_place \in OptionalPlaces
         /\ Reads[line].traceback \in BOOLEAN
<1>1. Reads[line] \in ReadingType
  BY ReadIs
<1> QED  BY <1>1 DEF ReadingType

PythonException(line, location) ==
  Diagnostic("python", line, <<Reads[line].python_exception>>, location)

----------------------------------------------------------------------------
(* Python's exceptions *)

LEMMA PythonPlaceType ==
  ASSUME NEW text \in Seq(Lines), NEW i \in 1..(Len(text) + 1)
  PROVE  PythonPlaceAbove(text, i) \in OptionalPlaces
PROOF
<1> DEFINE n == i - 1
           places == {j \in 1..n : PythonPlace(text[j]) # 0 /\
                        \A k \in (j + 1)..n : ~EndsPython(text[k])}
<1>1. n \in Nat /\ \A j \in 1..n : text[j] \in Lines
  OBVIOUS
<1>2. PythonPlaceAbove(text, i) = IF places = {} THEN 0 ELSE PythonPlace(text[Max(places)])
  BY DEF PythonPlaceAbove, PlaceAbove
<1>3. \A line \in Lines : PythonPlace(line) \in OptionalPlaces
  BY PythonReadType DEF PythonPlace, OptionalPlaces
<1>4. places \in SUBSET (1..n)
  OBVIOUS
<1> HIDE DEF places, n
<1>5. places # {} => Max(places) \in 1..n
  BY <1>1, <1>4, MaxIn
<1>6. 0 \in OptionalPlaces
  BY DEF OptionalPlaces
<1>7. CASE places = {}
  BY <1>2, <1>6, <1>7
<1>8. CASE places # {}
  BY <1>1, <1>2, <1>3, <1>5, <1>8
<1> QED  BY <1>7, <1>8

LEMMA PythonExceptionType ==
  ASSUME NEW line \in Lines, NEW location \in OptionalPlaces
  PROVE  PythonException(line, location) \in DiagnosticsOf("python")
PROOF
<1>1. <<Reads[line].python_exception>> \in Seq(OptionalTexts)
  <2>1. Reads[line].python_exception \in OptionalTexts
    BY PythonReadType
  <2> QED  BY <2>1
<1> QED  BY <1>1, DiagnosticType DEF PythonException

LEMMA PythonSummaryType ==
  ASSUME NEW line \in Lines
  PROVE  PythonSummary(line) \in DiagnosticsOf("python")
PROOF
<1>1. <<Reads[line].python_summary>> \in Seq(OptionalTexts) /\ Reads[line].summary_place \in OptionalPlaces
  <2>1. Reads[line].python_summary \in OptionalTexts /\ Reads[line].summary_place \in OptionalPlaces
    BY PythonReadType
  <2> QED  BY <2>1
<1> QED  BY <1>1, DiagnosticType DEF PythonSummary

LEMMA PythonReportsType ==
  ASSUME NEW text \in Seq(Lines)
  PROVE  /\ PythonReports(text) \in [1..Len(text) -> Seq(DiagnosticsOf("python"))]
         /\ PythonReference(text) = FlattenSeq(PythonReports(text))
         /\ \A i \in 1..Len(text) :
              PythonReports(text)[i] =
                IF ~IsPythonException(text[i]) THEN <<>>
                ELSE <<PythonException(text[i], PythonPlaceAbove(text, i))>>
PROOF
<1> DEFINE T == DiagnosticsOf("python")
           R == PythonReports(text)
<1>1. DOMAIN text = 1..Len(text) /\ R = [i \in 1..Len(text) |-> R[i]]
  BY DEF PythonReports
<1>2. \A i \in 1..Len(text) : R[i] = IF ~IsPythonException(text[i]) THEN <<>>
                                     ELSE <<PythonException(text[i], PythonPlaceAbove(text, i))>>
  BY <1>1 DEF PythonReports, PythonException
<1>3. PythonReference(text) = FlattenSeq(R)
  BY DEF PythonReports, PythonReference, PythonPlaceAbove
<1> HIDE DEF R
<1>4. ASSUME NEW i \in 1..Len(text)
      PROVE  R[i] \in Seq(T)
  <2> DEFINE d == PythonException(text[i], PythonPlaceAbove(text, i))
  <2>1. text[i] \in Lines /\ i \in 1..(Len(text) + 1)
    OBVIOUS
  <2>2. d \in T
    BY <2>1, PythonPlaceType, PythonExceptionType
  <2> HIDE DEF T, d
  <2>3. <<d>> \in Seq(T) /\ <<>> \in Seq(T)
    BY <2>2
  <2>4. R[i] = <<>> \/ R[i] = <<d>>
    BY <1>2 DEF d
  <2> QED  BY <2>3, <2>4
<1>5. R \in [1..Len(text) -> Seq(T)]
  <2> HIDE DEF T
  <2> QED  BY <1>1, <1>4
<1> QED  BY <1>2, <1>3, <1>5 DEF R

LEMMA PythonReferenceStep ==
  ASSUME NEW text \in Seq(Lines), NEW line \in Lines
  PROVE  /\ PythonReference(text) \in Seq(DiagnosticsOf("python"))
         /\ PythonReference(Append(text, line)) =
              IF IsPythonException(line)
              THEN Append(PythonReference(text), PythonException(line, PythonLeft(text)))
              ELSE PythonReference(text)
PROOF
<1> DEFINE T == DiagnosticsOf("python")
           n == Len(text)
           more == Append(text, line)
           R == PythonReports(text)
           Q == PythonReports(more)
           d == PythonException(line, PythonLeft(text))
<1>1. /\ more \in Seq(Lines) /\ Len(more) = n + 1 /\ n \in Nat /\ more[n + 1] = line
      /\ \A i \in 1..n : more[i] = text[i] /\ i \in 1..(n + 1)
      /\ n + 1 \in 1..(n + 1)
  OBVIOUS
<1>2. /\ R \in [1..n -> Seq(T)] /\ PythonReference(text) = FlattenSeq(R)
      /\ \A i \in 1..n : R[i] = IF ~IsPythonException(text[i]) THEN <<>>
                                ELSE <<PythonException(text[i], PythonPlaceAbove(text, i))>>
  BY PythonReportsType
<1>3. /\ Q \in [1..Len(more) -> Seq(T)] /\ PythonReference(more) = FlattenSeq(Q)
      /\ \A i \in 1..Len(more) : Q[i] = IF ~IsPythonException(more[i]) THEN <<>>
                                ELSE <<PythonException(more[i], PythonPlaceAbove(more, i))>>
  <2> HIDE DEF more
  <2> QED  BY <1>1, PythonReportsType
<1>4. \A i \in 1..(n + 1) : PythonPlaceAbove(more, i) = PythonPlaceAbove(text, i)
  BY PythonPlaceStays
<1> HIDE DEF Q, R, n, more, T
<1>5. \A i \in 1..n : Q[i] = R[i]
  BY <1>1, <1>2, <1>3, <1>4
<1>6. Q[n + 1] = IF ~IsPythonException(line) THEN <<>> ELSE <<d>>
  BY <1>1, <1>3, <1>4 DEF PythonLeft, n
<1>7. Q \in [1..n + 1 -> Seq(T)]
  BY <1>1, <1>3
<1>8. FlattenSeq(Q) = FlattenSeq(R) \o Q[n + 1] /\ FlattenSeq(R) \in Seq(T)
  BY <1>1, <1>2, <1>5, <1>7, FlattenAppend
<1> DEFINE all == FlattenSeq(R)
<1> HIDE DEF all
<1>9. all \in Seq(T) /\ all \o <<>> = all
  <2>1. all \in Seq(T)
    BY <1>8 DEF all
  <2> QED  BY <2>1
<1>10. d \in T
  <2>1. n + 1 \in 1..(Len(text) + 1)
    BY <1>1 DEF n
  <2>2. PythonLeft(text) \in OptionalPlaces
    BY <2>1, PythonPlaceType DEF PythonLeft, n
  <2> QED  BY <2>2, PythonExceptionType DEF T
<1> HIDE DEF d
<1>11. all \o <<d>> = Append(all, d)
  BY <1>9, <1>10
<1> QED  BY <1>2, <1>3, <1>6, <1>8, <1>9, <1>11 DEF all, d, more, T

----------------------------------------------------------------------------
(* Python's parser *)

PythonAccType ==
  [location : OptionalPlaces, found : Seq(DiagnosticsOf("python")),
   python_messages : SUBSET Seq(OptionalTexts)]
PythonFound == {one \in DiagnosticsOf("python") : IsPythonException(one.line)}

(* What one line does. *)
LEMMA PythonObserves ==
  ASSUME NEW location, NEW line \in Lines
  PROVE  LET seen == ObservePython(location, line)
         IN  /\ seen.parser = IF PythonPlace(line) # 0 THEN PythonPlace(line)
                              ELSE IF EndsPython(line) THEN 0 ELSE location
             /\ seen.found = IF IsPythonException(line) THEN <<PythonException(line, location)>>
                             ELSE <<>>
PROOF
<1> DEFINE read == Reads[line]
<1>0. read.traceback \in BOOLEAN
  BY PythonReadType
<1>1. \A q, f : Result(q, f).parser = q /\ Result(q, f).found = f
  BY DEF Result
<1>2. CASE read.traceback
  BY <1>1, <1>2 DEF ObservePython, PythonPlace, EndsPython, IsPythonException
<1>3. CASE ~read.traceback /\ read.python_place # 0
  BY <1>1, <1>3 DEF ObservePython, PythonPlace, EndsPython, IsPythonException
<1>4. CASE ~read.traceback /\ read.python_place = 0 /\ read.python_exception = 0
  BY <1>1, <1>4 DEF ObservePython, PythonPlace, EndsPython, IsPythonException
<1>5. CASE ~read.traceback /\ read.python_place = 0 /\ read.python_exception # 0
  BY <1>1, <1>5 DEF ObservePython, PythonPlace, EndsPython, IsPythonException, PythonException
<1> QED  BY <1>0, <1>2, <1>3, <1>4, <1>5

LEMMA PythonMessagesType ==
  ASSUME NEW owner, NEW found \in Seq(DiagnosticsOf(owner))
  PROVE  Messages(found) \in SUBSET Seq(OptionalTexts)
PROOF
<1>1. \A n \in DOMAIN found : found[n] \in DiagnosticsOf(owner)
  OBVIOUS
<1>2. \A one \in DiagnosticsOf(owner) : one.message \in Seq(OptionalTexts)
  BY DEF DiagnosticsOf
<1> QED  BY <1>1, <1>2 DEF Messages

LEMMA PythonReduces ==
  ASSUME NEW acc \in PythonAccType, NEW line \in Lines
  PROVE  LET next == ReducePythonLine(acc, line, ObservePython(acc.location, line))
         IN  /\ next \in PythonAccType
             /\ next.location = IF PythonPlace(line) # 0 THEN PythonPlace(line)
                                ELSE IF EndsPython(line) THEN 0 ELSE acc.location
             /\ Only(next.found, PythonFound) =
                  IF IsPythonException(line)
                  THEN Append(Only(acc.found, PythonFound), PythonException(line, acc.location))
                  ELSE Only(acc.found, PythonFound)
PROOF
<1> DEFINE T == DiagnosticsOf("python")
           seen == ObservePython(acc.location, line)
           next == ReducePythonLine(acc, line, seen)
           summary == PythonSummary(line)
           one == PythonException(line, acc.location)
           place == IF PythonPlace(line) # 0 THEN PythonPlace(line)
                    ELSE IF EndsPython(line) THEN 0 ELSE acc.location
<1>1. /\ acc.location \in OptionalPlaces /\ acc.found \in Seq(T)
      /\ acc.python_messages \in SUBSET Seq(OptionalTexts)
  BY DEF PythonAccType
<1>2. seen.parser = place /\ seen.found = IF IsPythonException(line) THEN <<one>> ELSE <<>>
  BY PythonObserves
<1>3. place \in OptionalPlaces
  BY <1>1, PythonReadType DEF PythonPlace, OptionalPlaces
<1>4. one \in T /\ summary \in T
  BY <1>1, PythonExceptionType, PythonSummaryType
<1>5. one.line = line /\ summary.line = line
  BY DEF PythonException, PythonSummary, Diagnostic
<1> HIDE DEF T, seen, place, one, summary
<1>6. \A f \in Seq(T), d \in T :
        /\ Append(f, d) \in Seq(T) /\ f \o <<d>> = Append(f, d)
        /\ Only(Append(f, d), PythonFound) =
             IF IsPythonException(d.line) THEN Append(Only(f, PythonFound), d)
             ELSE Only(f, PythonFound)
  <2> SUFFICES ASSUME NEW f \in Seq(T), NEW d \in T
               PROVE  /\ Append(f, d) \in Seq(T) /\ f \o <<d>> = Append(f, d)
                      /\ Only(Append(f, d), PythonFound) =
                           IF IsPythonException(d.line) THEN Append(Only(f, PythonFound), d)
                           ELSE Only(f, PythonFound)
    OBVIOUS
  <2>1. d \in PythonFound <=> IsPythonException(d.line)
    BY DEF PythonFound, T
  <2>2. Only(Append(f, d), PythonFound) =
          IF d \in PythonFound THEN Append(Only(f, PythonFound), d) ELSE Only(f, PythonFound)
    BY OnlyAppend
  <2> QED  BY <2>1, <2>2
<1>7. CASE IsPythonException(line)
  <2> DEFINE said == acc.python_messages \cup Messages(<<one>>)
             found == Append(acc.found, one)
  <2>1. next = [location |-> place, found |-> acc.found \o <<one>>, python_messages |-> said]
    BY <1>2, <1>7 DEF ReducePythonLine
  <2>2. said \in SUBSET Seq(OptionalTexts)
    <3>1. <<one>> \in Seq(T)
      BY <1>4
    <3> QED  BY <1>1, <3>1, PythonMessagesType DEF T
  <2>3. found \in Seq(T) /\ acc.found \o <<one>> = found
    BY <1>1, <1>4, <1>6
  <2>4. Only(found, PythonFound) = Append(Only(acc.found, PythonFound), one)
    BY <1>1, <1>4, <1>5, <1>6, <1>7
  <2> HIDE DEF said, found
  <2>5. next = [location |-> place, found |-> found, python_messages |-> said]
    BY <2>1, <2>3
  <2> HIDE DEF next
  <2>6. next \in PythonAccType /\ next.location = place /\ next.found = found
    BY <1>3, <2>2, <2>3, <2>5 DEF PythonAccType, T
  <2> QED  BY <1>7, <2>4, <2>6 DEF next, seen, place, one
<1>8. CASE ~IsPythonException(line)
  <2> DEFINE found == IF Reads[line].python_summary = 0 \/ summary.message \in acc.python_messages
                      THEN acc.found ELSE Append(acc.found, summary)
  <2>1. next = [acc EXCEPT !.location = place, !.found = found]
    BY <1>2, <1>8 DEF ReducePythonLine, summary
  <2>2. found \in Seq(T)
    BY <1>1, <1>4, <1>6
  <2>3. Only(found, PythonFound) = Only(acc.found, PythonFound)
    <3>1. Only(Append(acc.found, summary), PythonFound) = Only(acc.found, PythonFound)
      BY <1>1, <1>4, <1>5, <1>6, <1>8
    <3> QED  BY <3>1
  <2> HIDE DEF found, next
  <2>4. next \in PythonAccType /\ next.location = place /\ next.found = found
    BY <1>3, <2>1, <2>2 DEF PythonAccType, T
  <2> QED  BY <1>8, <2>3, <2>4 DEF next, seen, place, one
<1> QED  BY <1>7, <1>8

----------------------------------------------------------------------------
(* Python's parser: line by line *)

NewPython == [location |-> 0, found |-> <<>>, python_messages |-> {}]

LEMMA NewPythonType == NewPython \in PythonAccType
PROOF
<1>1. <<>> \in Seq(DiagnosticsOf("python")) /\ {} \in SUBSET Seq(OptionalTexts)
      /\ 0 \in OptionalPlaces
  BY DEF OptionalPlaces
<1> QED  BY <1>1 DEF NewPython, PythonAccType

LEMMA ReducedPythonLineType ==
  ASSUME NEW acc \in PythonAccType, NEW line \in Lines, NEW context
  PROVE  ReducedPythonLine(acc, line, context) \in PythonAccType
PROOF
<1>1. ReducePythonLine(acc, line, ObservePython(acc.location, line)) \in PythonAccType
  BY PythonReduces
<1> QED  BY <1>1 DEF ReducedPythonLine

LEMMA PythonCourse ==
  ASSUME NEW text \in Seq(Lines), NEW context
  PROVE  /\ PythonPrefixes(text, context)[0] = NewPython
         /\ \A n \in 0..Len(text) : PythonPrefixes(text, context)[n] \in PythonAccType
         /\ \A n \in 1..Len(text) :
              PythonPrefixes(text, context)[n] =
                ReducedPythonLine(PythonPrefixes(text, context)[n - 1], text[n], context)
PROOF
<1> DEFINE V == PythonAccType
           size == Len(text)
           base == NewPython
           step == [p \in (1..size) \X V |-> ReducedPythonLine(p[2], text[p[1]], context)]
           Eq(f) == f = [n \in 0..size |-> IF n = 0 THEN base
                            ELSE ReducedPythonLine(f[n - 1], text[n], context)]
<1>1. size \in Nat /\ base \in V
  BY NewPythonType
<1>2. /\ \A n \in 1..size, v \in V : step[<<n, v>>] = ReducedPythonLine(v, text[n], context)
      /\ step \in [(1..size) \X V -> V]
  <2>1. ASSUME NEW n \in 1..size, NEW v \in V
        PROVE  ReducedPythonLine(v, text[n], context) \in V
    <3>1. text[n] \in Lines
      OBVIOUS
    <3> QED  BY <3>1, ReducedPythonLineType
  <2> HIDE DEF V
  <2> QED  BY <2>1
<1> HIDE DEF step, V, base
<1>3. PICK g : IsCourse(g, size, V, base, step)
  BY <1>1, <1>2, CourseExists
<1>4. /\ g \in [0..size -> V] /\ g[0] = base
      /\ \A n \in 1..size : g[n] = step[<<n, g[n - 1]>>]
  BY <1>3 DEF IsCourse
<1>5. \A n \in 1..size :
        g[n - 1] \in V /\ g[n] = ReducedPythonLine(g[n - 1], text[n], context)
  <2> SUFFICES ASSUME NEW n \in 1..size
               PROVE  g[n - 1] \in V /\ g[n] = ReducedPythonLine(g[n - 1], text[n], context)
    OBVIOUS
  <2>1. n - 1 \in 0..size
    BY <1>1
  <2> QED  BY <1>2, <1>4, <2>1
<1>6. Eq(g)
  <2>1. \A n \in 0..size : n # 0 => n \in 1..size
    BY <1>1
  <2>2. g = [n \in 0..size |-> g[n]]
    BY <1>4
  <2>3. \A n \in 0..size : g[n] = IF n = 0 THEN base
                            ELSE ReducedPythonLine(g[n - 1], text[n], context)
    BY <1>4, <1>5, <2>1
  <2> HIDE DEF size
  <2> QED  BY <2>2, <2>3
<1>7. PythonPrefixes(text, context) = CHOOSE f : Eq(f)
  BY DEF PythonPrefixes, base, NewPython
<1> DEFINE h == CHOOSE f : Eq(f)
<1>8. Eq(h)
  <2> HIDE DEF Eq
  <2> QED  BY <1>6
<1> HIDE DEF h
<1>9. /\ h[0] = base
      /\ \A n \in 1..size : h[n] = ReducedPythonLine(h[n - 1], text[n], context)
  <2>1. \A n \in 1..size : n \in 0..size /\ n # 0
    BY <1>1
  <2>2. 0 \in 0..size
    BY <1>1
  <2> HIDE DEF size
  <2> QED  BY <1>8, <2>1, <2>2
<1>10. StepsAgree(h, g, size)
  BY <1>4, <1>5, <1>9 DEF StepsAgree
<1>11. \A n \in 0..size : h[n] = g[n]
  BY <1>1, <1>10, CoursesAgree
<1>12. \A n \in 0..size : h[n] \in V
  BY <1>4, <1>11
<1> QED  BY <1>7, <1>9, <1>12 DEF h, V, base

Free(context) == {line \in Lines : ~ClaimedTestException(line, context)}

PythonAt(u, now) ==
  /\ now.location = PythonLeft(u)
  /\ Only(now.found, PythonFound) = PythonReference(u)

LEMMA PythonEmpty ==
  PythonLeft(<<>>) = 0 /\ PythonReference(<<>>) = <<>>
PROOF
<1> DEFINE none == <<>>
<1>1. none \in Seq(Lines) /\ Len(none) = 0 /\ DOMAIN none = {} /\ 1..0 = {}
  OBVIOUS
<1>2. PythonReference(none) = <<>>
  <2>1. PythonReference(none) = FlattenSeq(PythonReports(none))
    <3> HIDE DEF none
    <3> QED  BY <1>1, PythonReportsType
  <2>2. PythonReports(none) = <<>>
    <3>1. PythonReports(none) = [i \in {} |-> 0]
      <4> HIDE DEF none
      <4> QED  BY <1>1 DEF PythonReports
    <3>2. <<>> = [i \in {} |-> 0]
      OBVIOUS
    <3> QED  BY <3>1, <3>2
  <2> QED  BY <2>1, <2>2, FlattenEmpty
<1>3. PythonLeft(none) = 0
  <2>1. \A j \in 1..((0 + 1) - 1) : FALSE
    OBVIOUS
  <2>2. {j \in 1..((0 + 1) - 1) : PythonPlace(none[j]) # 0 /\
                          \A k \in (j + 1)..((0 + 1) - 1) : ~EndsPython(none[k])} = {}
    BY <2>1
  <2> HIDE DEF none
  <2> QED  BY <1>1, <2>2 DEF PythonLeft, PythonPlaceAbove, PlaceAbove
<1> QED  BY <1>2, <1>3 DEF none

LEMMA PythonPlaced ==
  ASSUME NEW text \in Seq(Lines), NEW context
  PROVE  /\ ReducePython(text, context) \in Seq(DiagnosticsOf("python"))
         /\ Only(ReducePython(text, context), PythonFound) = PythonReference(Only(text, Free(context)))
PROOF
<1> DEFINE L == Len(text)
           S == Free(context)
           after == PythonPrefixes(text, context)
           u == Selected(text, S)
<1>1. L \in Nat /\ L \in 0..L /\ 0 \in 0..L
  OBVIOUS
<1>2. /\ after[0] = NewPython
      /\ \A n \in 0..L : after[n] \in PythonAccType
      /\ \A n \in 1..L : after[n] = ReducedPythonLine(after[n - 1], text[n], context)
  BY PythonCourse
<1>3. /\ u[0] = <<>>
      /\ \A n \in 1..L : u[n] = IF text[n] \in S THEN Append(u[n - 1], text[n]) ELSE u[n - 1]
      /\ \A n \in 0..L : u[n] \in Seq(Lines \cap S)
  BY SelectedProperties DEF IsSelection
<1>4. \A n \in 1..L : text[n] \in Lines /\ (text[n] \in S <=> ~ClaimedTestException(text[n], context))
  BY DEF Free
<1>5. Lines \cap S = S /\ \A n \in 0..L : u[n] \in Seq(Lines)
  <2>1. S \subseteq Lines
    BY DEF Free
  <2> HIDE DEF S, u, L
  <2> QED  BY <1>3, <2>1
<1>6. Only(text, S) = u[L] /\ ReducePython(text, context) = after[L].found
  BY DEF Only, ReducePython
<1> HIDE DEF L, S, after, u
<1> DEFINE P == {n \in Nat : n <= L => PythonAt(u[n], after[n])}
<1>7. 0 \in P
  <2>1. NewPython.location = 0 /\ NewPython.found = <<>>
    BY DEF NewPython
  <2> QED  BY <1>2, <1>3, <2>1, OnlyEmpty, PythonEmpty DEF PythonAt
<1>8. ASSUME NEW m \in P PROVE m + 1 \in P
  <2> SUFFICES ASSUME m + 1 <= L PROVE PythonAt(u[m + 1], after[m + 1])
    OBVIOUS
  <2> DEFINE n == m + 1
             line == text[n]
             acc == after[m]
             next == after[n]
  <2>1. m \in Nat /\ n \in 1..L /\ n - 1 = m /\ m \in 0..L /\ PythonAt(u[m], acc)
    BY <1>1
  <2> HIDE DEF n
  <2>2. next = ReducedPythonLine(acc, line, context) /\ acc \in PythonAccType
    BY <1>2, <2>1
  <2>3. line \in Lines /\ u[m] \in Seq(Lines)
    BY <1>4, <1>5, <2>1
  <2>4. u[n] = IF ClaimedTestException(line, context) THEN u[m] ELSE Append(u[m], line)
    BY <1>3, <1>4, <2>1
  <2>5. CASE ClaimedTestException(line, context)
    <3>1. next = acc
      BY <2>2, <2>5 DEF ReducedPythonLine
    <3> QED  BY <2>1, <2>4, <2>5, <3>1 DEF n
  <2>6. CASE ~ClaimedTestException(line, context)
    <3>1. next = ReducePythonLine(acc, line, ObservePython(acc.location, line))
      BY <2>2, <2>6 DEF ReducedPythonLine
    <3> HIDE DEF next, line, acc
    <3>2. /\ next.location = IF PythonPlace(line) # 0 THEN PythonPlace(line)
                             ELSE IF EndsPython(line) THEN 0 ELSE acc.location
          /\ Only(next.found, PythonFound) =
               IF IsPythonException(line)
               THEN Append(Only(acc.found, PythonFound), PythonException(line, acc.location))
               ELSE Only(acc.found, PythonFound)
      BY <2>2, <2>3, <3>1, PythonReduces
    <3>3. PythonLeft(u[n]) = IF PythonPlace(line) # 0 THEN PythonPlace(line)
                             ELSE IF EndsPython(line) THEN 0 ELSE PythonLeft(u[m])
      BY <2>3, <2>4, <2>6, PythonLeftStep
    <3>4. PythonReference(u[n]) =
            IF IsPythonException(line)
            THEN Append(PythonReference(u[m]), PythonException(line, PythonLeft(u[m])))
            ELSE PythonReference(u[m])
      BY <2>3, <2>4, <2>6, PythonReferenceStep
    <3>5. PythonAt(u[n], next)
      BY <2>1, <3>2, <3>3, <3>4 DEF PythonAt
    <3> QED  BY <3>5 DEF n, next
  <2> QED  BY <2>5, <2>6
<1>9. P \in SUBSET Nat
  OBVIOUS
<1>10. P = Nat
  <2> HIDE DEF P
  <2> QED  BY <1>7, <1>8, <1>9, InductionOnNat
<1>11. PythonAt(u[L], after[L])
  BY <1>1, <1>10
<1>12. after[L].found \in Seq(DiagnosticsOf("python"))
  BY <1>1, <1>2 DEF PythonAccType
<1> QED  BY <1>6, <1>11, <1>12 DEF PythonAt, S

----------------------------------------------------------------------------
(* The other parsers of texts, and the owners of what is found *)

LinkerType == [apple_undefined_symbols : BOOLEAN, symbols_seen : Nat]

LEMMA LinkerReadType ==
  ASSUME NEW line \in Lines
  PROVE  /\ Reads[line].linker \in OptionalTexts
         /\ Reads[line].linker_place \in OptionalPlaces
         /\ Reads[line].apple_symbol \in OptionalTexts
<1>1. Reads[line] \in ReadingType
  BY ReadIs
<1> QED  BY <1>1 DEF ReadingType

LEMMA ObserveLinkerType ==
  ASSUME NEW parser \in LinkerType, NEW line \in Lines
  PROVE  ObserveLinker(parser, line) \in Results(LinkerType, DiagnosticsOf("cpp-linker"))
PROOF
<1> DEFINE T == DiagnosticsOf("cpp-linker")
           read == Reads[line]
           R == Results(LinkerType, T)
           said == Diagnostic("cpp-linker", line, <<read.linker>>, read.linker_place)
           listing == Diagnostic("cpp-linker", line, <<read.apple_symbol>>, 0)
           ended == parser.apple_undefined_symbols /\ read.apple_end
           opened == [parser EXCEPT !.apple_undefined_symbols = TRUE]
           counted == [parser EXCEPT !.symbols_seen = @ + 1]
           closed == [parser EXCEPT !.apple_undefined_symbols = @ /\ ~ended]
<1>1. said \in T /\ listing \in T
  <2>1. /\ <<read.linker>> \in Seq(OptionalTexts) /\ <<read.apple_symbol>> \in Seq(OptionalTexts)
        /\ read.linker_place \in OptionalPlaces /\ 0 \in OptionalPlaces
    BY LinkerReadType DEF OptionalPlaces
  <2> QED  BY <2>1, DiagnosticType
<1>2. opened \in LinkerType /\ counted \in LinkerType /\ closed \in LinkerType
  <2>1. opened \in LinkerType /\ counted \in LinkerType
    <3>1. counted \in LinkerType
      BY DEF LinkerType
    <3>2. opened \in LinkerType
      <4> DEFINE yes == TRUE
      <4>1. yes \in BOOLEAN /\ opened = [parser EXCEPT !.apple_undefined_symbols = yes]
        OBVIOUS
      <4> HIDE DEF yes, opened
      <4> QED  BY <4>1 DEF LinkerType
    <3> QED  BY <3>1, <3>2
  <2> DEFINE still == parser.apple_undefined_symbols /\ ~ended
  <2>2. still \in BOOLEAN
    OBVIOUS
  <2>3. closed = [parser EXCEPT !.apple_undefined_symbols = still]
    OBVIOUS
  <2> HIDE DEF still, closed
  <2>4. closed \in LinkerType
    BY <2>2, <2>3 DEF LinkerType
  <2> QED  BY <2>1, <2>4
<1>3. \/ ObserveLinker(parser, line) = Result(opened, <<>>)
      \/ ObserveLinker(parser, line) = Result(parser, <<>>)
      \/ ObserveLinker(parser, line) = Result(counted, <<listing>>)
      \/ ObserveLinker(parser, line) = Result(closed, LinkerDiagnostic(line))
  BY DEF ObserveLinker
<1>4. LinkerDiagnostic(line) = <<>> \/ LinkerDiagnostic(line) = <<said>>
  BY DEF LinkerDiagnostic
<1> HIDE DEF said, listing, opened, counted, closed, T
<1>5. <<said>> \in Seq(T) /\ <<listing>> \in Seq(T) /\ <<>> \in Seq(T)
  BY <1>1
<1>6. \A p \in LinkerType, f \in Seq(T) : Result(p, f) \in R
  BY DEF Result, Results
<1> QED  BY <1>2, <1>3, <1>4, <1>5, <1>6 DEF T

LinkerPrefixes(text) == ParsedPrefixes(ObserveLinker, NewLinker, text)

LEMMA LinkerCourse ==
  ASSUME NEW text \in Seq(Lines)
  PROVE  LET after == LinkerPrefixes(text)
         IN  /\ after[0] = Result(NewLinker, <<>>)
             /\ \A n \in 0..Len(text) :
                  after[n] \in Results(LinkerType, DiagnosticsOf("cpp-linker"))
             /\ \A n \in 1..Len(text) :
                  after[n] = And(after[n - 1], ObserveLinker(after[n - 1].parser, text[n]))
PROOF
<1> DEFINE V == Results(LinkerType, DiagnosticsOf("cpp-linker"))
           size == Len(text)
           base == Result(NewLinker, <<>>)
           step == [p \in (1..size) \X V |-> And(p[2], ObserveLinker(p[2].parser, text[p[1]]))]
           Eq(f) == f = [n \in 0..size |-> IF n = 0 THEN base
                            ELSE And(f[n - 1], ObserveLinker(f[n - 1].parser, text[n]))]
<1>1. size \in Nat /\ base \in V
  <2>1. NewLinker \in LinkerType
    BY DEF NewLinker, LinkerType
  <2> QED  BY <2>1 DEF Result, Results
<1>2. /\ \A n \in 1..size, v \in V :
           step[<<n, v>>] = And(v, ObserveLinker(v.parser, text[n]))
      /\ step \in [(1..size) \X V -> V]
  <2>1. ASSUME NEW n \in 1..size, NEW v \in V
        PROVE  And(v, ObserveLinker(v.parser, text[n])) \in V
    <3>1. text[n] \in Lines /\ v.parser \in LinkerType
      BY DEF Results
    <3>2. ObserveLinker(v.parser, text[n]) \in V
      BY <3>1, ObserveLinkerType
    <3> QED  BY <3>2, AndType
  <2> HIDE DEF V
  <2> QED  BY <2>1
<1> HIDE DEF step, V, base
<1>3. PICK g : IsCourse(g, size, V, base, step)
  BY <1>1, <1>2, CourseExists
<1>4. /\ g \in [0..size -> V] /\ g[0] = base
      /\ \A n \in 1..size : g[n] = step[<<n, g[n - 1]>>]
  BY <1>3 DEF IsCourse
<1>5. \A n \in 1..size :
        g[n - 1] \in V /\ g[n] = And(g[n - 1], ObserveLinker(g[n - 1].parser, text[n]))
  <2> SUFFICES ASSUME NEW n \in 1..size
               PROVE  /\ g[n - 1] \in V
                      /\ g[n] = And(g[n - 1], ObserveLinker(g[n - 1].parser, text[n]))
    OBVIOUS
  <2>1. n - 1 \in 0..size
    BY <1>1
  <2> QED  BY <1>2, <1>4, <2>1
<1>6. Eq(g)
  <2>1. \A n \in 0..size : n # 0 => n \in 1..size
    BY <1>1
  <2>2. g = [n \in 0..size |-> g[n]]
    BY <1>4
  <2>3. \A n \in 0..size : g[n] = IF n = 0 THEN base
                            ELSE And(g[n - 1], ObserveLinker(g[n - 1].parser, text[n]))
    BY <1>4, <1>5, <2>1
  <2> HIDE DEF size
  <2> QED  BY <2>2, <2>3
<1>7. LinkerPrefixes(text) = CHOOSE f : Eq(f)
  BY DEF LinkerPrefixes, ParsedPrefixes, base
<1> DEFINE h == CHOOSE f : Eq(f)
<1>8. Eq(h)
  <2> HIDE DEF Eq
  <2> QED  BY <1>6
<1> HIDE DEF h
<1>9. /\ h[0] = base
      /\ \A n \in 1..size : h[n] = And(h[n - 1], ObserveLinker(h[n - 1].parser, text[n]))
  <2>1. \A n \in 1..size : n \in 0..size /\ n # 0
    BY <1>1
  <2>2. 0 \in 0..size
    BY <1>1
  <2> HIDE DEF size
  <2> QED  BY <1>8, <2>1, <2>2
<1>10. StepsAgree(h, g, size)
  BY <1>4, <1>5, <1>9 DEF StepsAgree
<1>11. \A n \in 0..size : h[n] = g[n]
  BY <1>1, <1>10, CoursesAgree
<1>12. \A n \in 0..size : h[n] \in V
  BY <1>4, <1>11
<1> QED  BY <1>7, <1>9, <1>12 DEF V, base, h

LEMMA CppLinkerType ==
  ASSUME NEW text \in Seq(Lines)
  PROVE  CppLinker(text) \in Seq(DiagnosticsOf("cpp-linker"))
PROOF
<1>1. CppLinker(text) = LinkerPrefixes(text)[Len(text)].found
  BY DEF CppLinker, Parsed, LinkerPrefixes
<1>2. LinkerPrefixes(text)[Len(text)] \in Results(LinkerType, DiagnosticsOf("cpp-linker"))
  BY LinkerCourse
<1> QED  BY <1>1, <1>2 DEF Results

(* Sequences of what some of the parsers have found.                       *)
From(found, owners) ==
  /\ found \in Seq(Range(found))
  /\ \A n \in 1..Len(found) : found[n].owner \in owners

LEMMA TypedFrom ==
  ASSUME NEW T, NEW owners, \A one \in T : one.owner \in owners, NEW found \in Seq(T)
  PROVE  From(found, owners)
PROOF
<1>1. \A n \in DOMAIN found : found[n] \in T /\ found[n] \in Range(found)
  BY DEF Range
<1>2. found \in Seq(Range(found))
  <2> DEFINE S == Range(found)
  <2>1. found = [n \in 1..Len(found) |-> found[n]] /\ Len(found) \in Nat /\ DOMAIN found = 1..Len(found)
    OBVIOUS
  <2>2. \A n \in 1..Len(found) : found[n] \in S
    BY <1>1, <2>1
  <2> HIDE DEF S
  <2> QED  BY <2>1, <2>2 DEF S
<1> QED  BY <1>1, <1>2 DEF From

LEMMA OfFrom ==
  ASSUME NEW owner, NEW found \in Seq(DiagnosticsOf(owner))
  PROVE  From(found, {owner})
PROOF
<1>1. \A one \in DiagnosticsOf(owner) : one.owner \in {owner}
  BY DEF DiagnosticsOf
<1> HIDE DEF DiagnosticsOf
<1> QED  BY <1>1, TypedFrom

LEMMA JavaCompilerFrom ==
  ASSUME NEW text \in Seq(Lines)
  PROVE  From(JavaCompiler(text), {"java-compiler"})
PROOF
<1> DEFINE n == Len(text)
           symbols == {0} \cup {SymbolBelow(text, i) : i \in DOMAIN text}
           T == {JavacDiagnostic(text[i], symbol) : i \in DOMAIN text, symbol \in symbols}
           R == [i \in DOMAIN text |->
                  IF Reads[text[i]].javac = 0 THEN <<>>
                  ELSE <<JavacDiagnostic(text[i],
                           IF Reads[text[i]].no_symbol THEN SymbolBelow(text, i) ELSE 0)>>]
<1>1. n \in Nat /\ DOMAIN text = 1..n
  OBVIOUS
<1>2. ASSUME NEW i \in 1..n
      PROVE  R[i] \in Seq(T)
  <2> DEFINE symbol == IF Reads[text[i]].no_symbol THEN SymbolBelow(text, i) ELSE 0
             d == JavacDiagnostic(text[i], symbol)
  <2>1. symbol \in symbols
    BY <1>1
  <2>2. d \in T
    BY <1>1, <2>1
  <2>3. R[i] = <<>> \/ R[i] = <<d>>
    BY <1>1
  <2> HIDE DEF d, T, R
  <2>4. <<d>> \in Seq(T) /\ <<>> \in Seq(T)
    BY <2>2
  <2> QED  BY <2>3, <2>4
<1>3. R = [i \in 1..n |-> R[i]]
  BY <1>1
<1>4. JavaCompiler(text) = FlattenSeq(R)
  BY DEF JavaCompiler
<1>5. \A one \in T : one.owner \in {"java-compiler"}
  BY DEF JavacDiagnostic, Diagnostic
<1> HIDE DEF T, R, n
<1>6. R \in [1..n -> Seq(T)]
  BY <1>2, <1>3
<1>7. PICK flat : Flattens(flat, T, n, R) /\ FlattenSeq(R) = flat[n]
  BY <1>1, <1>6, FlattenCourse
<1>8. FlattenSeq(R) \in Seq(T)
  BY <1>1, <1>7 DEF Flattens
<1> QED  BY <1>4, <1>5, <1>8, TypedFrom

LEMMA SwcFrom ==
  ASSUME NEW text \in Seq(Lines)
  PROVE  From(Swc(text).diagnostics, {"javascript-swc"})
PROOF
<1> DEFINE frames == SwcFrames(text)
           S == {i \in DOMAIN text : Reads[text[i]].swc_place # 0 /\ SwcHeader(text, i) # 0}
           foundAt(i) == SwcFoundBelow(text, i, SwcHeader(text, i), SwcFrameEnd(text, i))
           found == [n \in DOMAIN frames |-> foundAt(frames[n])]
           all == [n \in DOMAIN found |-> found[n].diagnostic]
           size == Cardinality(S)
<1>1. S \in SUBSET (Nat \ {0}) /\ IsFiniteSet(S)
  <2>1. DOMAIN text = 1..Len(text) /\ Len(text) \in Nat
    OBVIOUS
  <2>2. S \in SUBSET (1..Len(text))
    BY <2>1
  <2>3. IsFiniteSet(1..Len(text))
    BY <2>1, FS_Interval
  <2> HIDE DEF S
  <2>4. IsFiniteSet(S)
    BY <2>2, <2>3, FS_Subset
  <2> QED  BY <2>2, <2>4
<1>2. size \in Nat /\ DOMAIN frames = 1..size
  <2> HIDE DEF S
  <2> QED  BY <1>1, AscendingElements DEF SwcFrames, S
<1>3. Swc(text).diagnostics = all
  BY DEF Swc, SwcDiagnostics
<1> HIDE DEF frames, size
<1>4. all = [n \in 1..size |-> all[n]]
  BY <1>2
<1>5. \A n \in 1..size : all[n].owner = "javascript-swc"
  BY <1>2 DEF SwcFoundBelow, SwcFound, Diagnostic
<1> HIDE DEF all
<1> DEFINE T == {all[n] : n \in 1..size}
<1>6. all \in Seq(T)
  <2>1. \A n \in 1..size : all[n] \in T
    OBVIOUS
  <2> HIDE DEF T
  <2> QED  BY <1>2, <1>4, <2>1
<1>7. \A one \in T : one.owner \in {"javascript-swc"}
  BY <1>5
<1> HIDE DEF T
<1> QED  BY <1>3, <1>6, <1>7, TypedFrom

----------------------------------------------------------------------------
(* The parsers of lines *)

LineOwnersSet == Range(LineOwners) \cup {"generic.fallback"}
LineDiagnostics ==
  [owner : LineOwnersSet, line : Lines, message : Seq(OptionalTexts), location : OptionalPlaces,
   repetition_count : Nat]

LEMMA LineReadType ==
  ASSUME NEW line \in Lines
  PROVE  /\ Reads[line].parsed \in [Range(LineOwners) -> OptionalTexts]
         /\ Reads[line].parsed_place \in OptionalPlaces
<1>1. Reads[line] \in ReadingType
  BY ReadIs
<1> QED  BY <1>1 DEF ReadingType

(* A context to whose diagnostics more are added. *)
Added(context, more) ==
  [diagnostics |-> context.diagnostics \o more,
   swc_consumed_lines |-> context.swc_consumed_lines,
   has_swc_diagnostics |-> context.has_swc_diagnostics,
   javascript_test_messages |-> context.javascript_test_messages,
   java_test_messages |-> context.java_test_messages]

LEMMA AddedMore ==
  ASSUME NEW T, NEW context, context.diagnostics \in Seq(T), NEW a \in Seq(LineDiagnostics),
         NEW one \in LineDiagnostics
  PROVE  /\ Append(a, one) \in Seq(LineDiagnostics)
         /\ With(Added(context, a), <<one>>) = Added(context, Append(a, one))
PROOF
<1> DEFINE D == LineDiagnostics
           U == T \cup D
           d == context.diagnostics
           found == <<one>>
<1>1. d \in Seq(U) /\ a \in Seq(U) /\ one \in U
  <2>1. d \in Seq(U)
    OBVIOUS
  <2>2. a \in Seq(U)
    OBVIOUS
  <2> QED  BY <2>1, <2>2
<1>2. Append(a, one) \in Seq(LineDiagnostics)
  OBVIOUS
<1> HIDE DEF D, U, d
<1>3. (d \o a) \o <<one>> = d \o Append(a, one)
  <2>1. <<one>> \in Seq(U) /\ a \o <<one>> = Append(a, one)
    BY <1>1
  <2> HIDE DEF found
  <2>2. found \in Seq(U)
    BY <2>1 DEF found
  <2>3. (d \o a) \o found = d \o (a \o found)
    BY <1>1, <2>2
  <2> QED  BY <2>1, <2>3 DEF found
<1> DEFINE now == d \o a
           next == d \o Append(a, one)
           c == Added(context, a)
<1>4. c.diagnostics = now
  BY DEF Added, d
<1>5. With(c, <<one>>) = [c EXCEPT !.diagnostics = c.diagnostics \o <<one>>]
  BY DEF With
<1>6. Added(context, Append(a, one)) = [c EXCEPT !.diagnostics = next]
  <2> HIDE DEF next
  <2>1. [c EXCEPT !.diagnostics = next] =
          [diagnostics |-> next,
           swc_consumed_lines |-> context.swc_consumed_lines,
           has_swc_diagnostics |-> context.has_swc_diagnostics,
           javascript_test_messages |-> context.javascript_test_messages,
           java_test_messages |-> context.java_test_messages]
    BY DEF Added
  <2> QED  BY <2>1 DEF Added, next, d
<1> HIDE DEF c
<1> QED  BY <1>2, <1>3, <1>4, <1>5, <1>6 DEF c, now, next

(* What a line says is its own, with the count of its occurrences, and     *)
(* that it says nothing has a reason.                                      *)
SaysOf(line, count) ==
  {one \in LineDiagnostics : one.line = line /\ one.repetition_count = count}
Unsaid(line, context, options) ==
  \/ Consumed(line, context) \/ ClaimedLanguageLine(line, context)
  \/ options.fallback # "Generic" \/ ~Reads[line].actionable
OrOneMore(a, line, count, unsaid) ==
  {one \in {a} : unsaid} \cup {Append(a, one) : one \in SaysOf(line, count)}

LEMMA UnsaidAdded ==
  ASSUME NEW context, NEW more, NEW line, NEW options
  PROVE  /\ Consumed(line, Added(context, more)) <=> Consumed(line, context)
         /\ ClaimedLanguageLine(line, Added(context, more)) <=> ClaimedLanguageLine(line, context)
         /\ Unsaid(line, Added(context, more), options) <=> Unsaid(line, context, options)
PROOF
<1> DEFINE now == Added(context, more)
<1>1. /\ now.swc_consumed_lines = context.swc_consumed_lines
      /\ now.has_swc_diagnostics = context.has_swc_diagnostics
      /\ now.javascript_test_messages = context.javascript_test_messages
      /\ now.java_test_messages = context.java_test_messages
  BY DEF Added
<1> HIDE DEF now
<1>2. Consumed(line, now) <=> Consumed(line, context)
  BY <1>1 DEF Consumed
<1>3. ClaimedTestException(line, now) <=> ClaimedTestException(line, context)
  BY <1>1 DEF ClaimedTestException
<1>4. ClaimedLanguageLine(line, now) <=> ClaimedLanguageLine(line, context)
  BY <1>3 DEF ClaimedLanguageLine
<1> QED  BY <1>2, <1>4 DEF Unsaid, now

LEMMA ReduceLineAdds ==
  ASSUME NEW T, NEW context, context.diagnostics \in Seq(T), NEW a \in Seq(LineDiagnostics),
         NEW line \in Lines, NEW count \in Nat, NEW options
  PROVE  ReduceLine(Added(context, a), line, count, options)
           \in {Added(context, more) :
                   more \in OrOneMore(a, line, count, Unsaid(line, context, options))}
PROOF
<1> DEFINE D == SaysOf(line, count)
           unsaid == Unsaid(line, context, options)
           V == {Added(context, more) : more \in OrOneMore(a, line, count, unsaid)}
           now == Added(context, a)
           parsed == Reads[line].parsed
           parsers == {n \in DOMAIN LineOwners :
                         LineOwners[n] \notin options.overrides /\ parsed[LineOwners[n]] # 0}
           owner == LineOwners[Min(parsers)]
           said == [Diagnostic(owner, line, <<parsed[owner]>>, Reads[line].parsed_place)
                      EXCEPT !.repetition_count = count]
           plain == [Fallback(line) EXCEPT !.repetition_count = count]
           next == ReduceLine(now, line, count, options)
<1>0. /\ Consumed(line, now) => unsaid
      /\ ClaimedLanguageLine(line, now) => unsaid
      /\ options.fallback # "Generic" \/ ~Reads[line].actionable => unsaid
  <2> HIDE DEF now
  <2>1. Unsaid(line, now, options) <=> unsaid
    BY UnsaidAdded DEF now
  <2> HIDE DEF unsaid
  <2> QED  BY <2>1 DEF Unsaid
<1> HIDE DEF unsaid
<1>1. \/ unsaid /\ next = now
      \/ parsers # {} /\ next = With(now, <<said>>)
      \/ next = With(now, <<plain>>)
  <2> HIDE DEF now
  <2> QED  BY <1>0 DEF ReduceLine
<1>2. parsers # {} => said \in D
  <2> SUFFICES ASSUME parsers # {} PROVE said \in D
    OBVIOUS
  <2>1. parsers \in SUBSET (1..4) /\ parsers \in SUBSET Nat
    BY DEF LineOwners
  <2> HIDE DEF parsers
  <2>2. Min(parsers) \in 1..4
    BY <2>1, LeastIn
  <2>3. owner \in Range(LineOwners)
    BY <2>2 DEF LineOwners, Range
  <2> HIDE DEF owner
  <2>4. /\ parsed[owner] \in OptionalTexts /\ Reads[line].parsed_place \in OptionalPlaces
    BY <2>3, LineReadType
  <2> DEFINE message == <<parsed[owner]>>
  <2>5. message \in Seq(OptionalTexts) /\ owner \in LineOwnersSet
    BY <2>3, <2>4 DEF LineOwnersSet
  <2> HIDE DEF message
  <2>6. said = [owner |-> owner, line |-> line, message |-> message,
                location |-> Reads[line].parsed_place, repetition_count |-> count]
    BY DEF Diagnostic, message
  <2> HIDE DEF said
  <2> QED  BY <2>4, <2>5, <2>6 DEF LineDiagnostics, SaysOf
<1>3. plain \in D
  <2> DEFINE message == <<>>
             owners == "generic.fallback"
  <2>1. message \in Seq(OptionalTexts) /\ owners \in LineOwnersSet /\ 0 \in OptionalPlaces
    BY DEF LineOwnersSet, OptionalPlaces
  <2>2. plain = [owner |-> owners, line |-> line, message |-> message,
                 location |-> 0, repetition_count |-> count]
    BY DEF Diagnostic, Fallback
  <2> HIDE DEF message, owners, plain
  <2> QED  BY <2>1, <2>2 DEF LineDiagnostics, SaysOf
<1> HIDE DEF said, plain, parsers, next
<1>4. unsaid => now \in V
  BY DEF OrOneMore
<1>5. \A one \in D : With(now, <<one>>) \in V
  <2> SUFFICES ASSUME NEW one \in D PROVE With(now, <<one>>) \in V
    OBVIOUS
  <2>1. one \in LineDiagnostics
    BY DEF SaysOf
  <2>2. With(now, <<one>>) = Added(context, Append(a, one))
    BY <2>1, AddedMore
  <2>3. Append(a, one) \in OrOneMore(a, line, count, unsaid)
    BY DEF OrOneMore
  <2> HIDE DEF now, D
  <2> QED  BY <2>2, <2>3
<1> HIDE DEF V, now, D
<1>6. next \in V
  BY <1>1, <1>2, <1>3, <1>4, <1>5
<1> QED  BY <1>6 DEF V, now, next, unsaid

(* What is found of the first n lines: of some of them, in their order.    *)
Reported(text, lines, n) ==
  {more \in Seq(LineDiagnostics) :
     /\ \A m \in 1..Len(more) : /\ \E k \in 1..n : lines[k] = more[m].line
                                /\ more[m].repetition_count = Occurrences(text, more[m].line)
     /\ \A l, m \in 1..Len(more) : l < m =>
          \E j, k \in 1..n : j < k /\ lines[j] = more[l].line /\ lines[k] = more[m].line}

ReportedOf(text) == Reported(text, Candidates(text), Len(Candidates(text)))

LEMMA ReportedMore ==
  ASSUME NEW text, NEW lines \in Seq(Lines), NEW n \in Nat, n + 1 \in 1..Len(lines),
         NEW a \in Reported(text, lines, n),
         NEW unsaid,
         NEW more \in OrOneMore(a, lines[n + 1], Occurrences(text, lines[n + 1]), unsaid)
  PROVE  more \in Reported(text, lines, n + 1)
PROOF
<1> DEFINE size == Len(a)
<1>1. /\ a \in Seq(LineDiagnostics) /\ size \in Nat
      /\ \A m \in 1..size : /\ \E k \in 1..n : lines[k] = a[m].line
                            /\ a[m].repetition_count = Occurrences(text, a[m].line)
      /\ \A l, m \in 1..size : l < m =>
           \E j, k \in 1..n : j < k /\ lines[j] = a[l].line /\ lines[k] = a[m].line
  BY DEF Reported
<1>2. \A k \in 1..n : k \in 1..n + 1 /\ k < n + 1
  OBVIOUS
<1>3. CASE more = a
  <2>1. \A m \in 1..size : /\ \E k \in 1..n + 1 : lines[k] = a[m].line
                          /\ a[m].repetition_count = Occurrences(text, a[m].line)
    BY <1>1, <1>2
  <2>2. \A l, m \in 1..size : l < m =>
          \E j, k \in 1..n + 1 : j < k /\ lines[j] = a[l].line /\ lines[k] = a[m].line
    BY <1>1, <1>2
  <2> QED  BY <1>1, <1>3, <2>1, <2>2 DEF Reported
<1>4. CASE more # a
  <2>1. PICK one \in SaysOf(lines[n + 1], Occurrences(text, lines[n + 1])) : more = Append(a, one)
    BY <1>4 DEF OrOneMore
  <2>2. /\ one \in LineDiagnostics /\ one.line = lines[n + 1]
        /\ one.repetition_count = Occurrences(text, one.line)
    BY DEF SaysOf
  <2>3. /\ more \in Seq(LineDiagnostics) /\ Len(more) = size + 1
        /\ more[size + 1] = one /\ \A m \in 1..size : more[m] = a[m]
    BY <1>1, <2>1, <2>2
  <2> HIDE DEF size
  <2>4. \A m \in 1..size + 1 : m = size + 1 \/ m \in 1..size
    BY <1>1
  <2>5. n + 1 \in 1..n + 1
    OBVIOUS
  <2>6. ASSUME NEW m \in 1..size + 1
        PROVE  /\ \E k \in 1..n + 1 : lines[k] = more[m].line
               /\ more[m].repetition_count = Occurrences(text, more[m].line)
    <3>1. CASE m = size + 1
      BY <2>2, <2>3, <2>5, <3>1
    <3>2. CASE m \in 1..size
      <4>1. PICK k \in 1..n : lines[k] = a[m].line
        BY <1>1, <3>2
      <4>2. k \in 1..n + 1 /\ more[m] = a[m]
        BY <1>2, <2>3, <3>2
      <4>3. a[m].repetition_count = Occurrences(text, a[m].line)
        BY <1>1, <3>2
      <4> QED  BY <4>1, <4>2, <4>3
    <3> QED  BY <2>4, <3>1, <3>2
  <2>7. ASSUME NEW l \in 1..size + 1, NEW m \in 1..size + 1, l < m
        PROVE  \E j, k \in 1..n + 1 : j < k /\ lines[j] = more[l].line /\ lines[k] = more[m].line
    <3>1. l \in 1..size
      BY <1>1, <2>7
    <3>2. CASE m = size + 1
      <4>1. PICK j \in 1..n : lines[j] = a[l].line
        BY <1>1, <3>1
      <4> QED  BY <1>2, <2>2, <2>3, <2>5, <3>1, <3>2, <4>1
    <3>3. CASE m \in 1..size
      <4>1. PICK j \in 1..n, k \in 1..n : j < k /\ lines[j] = a[l].line /\ lines[k] = a[m].line
        BY <1>1, <2>7, <3>1, <3>3
      <4> QED  BY <1>2, <2>3, <3>1, <3>3, <4>1
    <3> QED  BY <2>4, <3>2, <3>3
  <2> QED  BY <2>3, <2>6, <2>7 DEF Reported
<1> QED  BY <1>3, <1>4

(* Of each of the first n lines something is said, or there is a reason.   *)
Tells(lines, n, more, context, options) ==
  \A k \in 1..n : \/ Unsaid(lines[k], context, options)
                 \/ \E m \in 1..Len(more) : more[m].line = lines[k]

LEMMA TellsMore ==
  ASSUME NEW lines, NEW n \in Nat, NEW context, NEW options,
         NEW a \in Seq(LineDiagnostics), Tells(lines, n, a, context, options), NEW count,
         NEW more \in OrOneMore(a, lines[n + 1], count, Unsaid(lines[n + 1], context, options))
  PROVE  Tells(lines, n + 1, more, context, options)
PROOF
<1> DEFINE line == lines[n + 1]
           size == Len(a)
           unsaid == Unsaid(line, context, options)
<1>1. /\ size \in Nat
      /\ \A k \in 1..n : \/ Unsaid(lines[k], context, options)
                        \/ \E m \in 1..size : a[m].line = lines[k]
  BY DEF Tells
<1>2. \A k \in 1..(n + 1) : k \in 1..n \/ k = n + 1
  OBVIOUS
<1>3. CASE more = a /\ unsaid
  BY <1>1, <1>2, <1>3 DEF Tells
<1>4. CASE \E one \in SaysOf(line, count) : more = Append(a, one)
  <2>1. PICK one \in SaysOf(line, count) : more = Append(a, one)
    BY <1>4
  <2>2. one \in LineDiagnostics /\ one.line = line
    BY DEF SaysOf
  <2>3. /\ Len(more) = size + 1 /\ more[size + 1] = one
        /\ \A m \in 1..size : more[m] = a[m] /\ m \in 1..(size + 1)
    BY <1>1, <2>1, <2>2
  <2> HIDE DEF size, line
  <2>4. size + 1 \in 1..Len(more)
    BY <1>1, <2>3
  <2>5. ASSUME NEW k \in 1..(n + 1)
        PROVE  Unsaid(lines[k], context, options) \/ \E m \in 1..Len(more) : more[m].line = lines[k]
    <3>1. CASE k = n + 1
      BY <2>2, <2>3, <2>4, <3>1 DEF line
    <3>2. CASE k \in 1..n
      BY <1>1, <2>3, <3>2
    <3> QED  BY <1>2, <3>1, <3>2
  <2> QED  BY <2>5 DEF Tells
<1>5. (more = a /\ unsaid) \/ \E one \in SaysOf(line, count) : more = Append(a, one)
  <2> HIDE DEF unsaid
  <2> QED  BY DEF OrOneMore, unsaid
<1> QED  BY <1>3, <1>4, <1>5

(* What is reported of the first n lines. *)
ReportedIn(text, lines, n, context, options) ==
  {more \in Reported(text, lines, n) : Tells(lines, n, more, context, options)}

LEMMA ReduceLinesAdds ==
  ASSUME NEW T, NEW context, context.diagnostics \in Seq(T),
         NEW text \in Seq(Lines), NEW lines \in Seq(Lines), NEW options
  PROVE  ReduceLines(text, lines, Added(context, <<>>), options)
           \in {Added(context, more) :
                   more \in ReportedIn(text, lines, Len(lines), context, options)}
PROOF
<1> DEFINE V == {Added(context, more) : more \in Seq(LineDiagnostics)}
           size == Len(lines)
           base == Added(context, <<>>)
           one(c, n) == ReduceLine(c, lines[n], Occurrences(text, lines[n]), options)
           step == [p \in (1..size) \X V |-> one(p[2], p[1])]
           Eq(f) == f = [n \in 0..size |-> IF n = 0 THEN base ELSE one(f[n - 1], n)]
<1>0. \A n \in 1..size : lines[n] \in Lines /\ Occurrences(text, lines[n]) \in Nat
  <2> SUFFICES ASSUME NEW n \in 1..size
               PROVE  lines[n] \in Lines /\ Occurrences(text, lines[n]) \in Nat
    OBVIOUS
  <2> DEFINE S == {i \in DOMAIN text : text[i] = lines[n]}
  <2>1. IsFiniteSet(1..Len(text)) /\ DOMAIN text = 1..Len(text)
    BY FS_Interval
  <2>2. S \in SUBSET (1..Len(text))
    BY <2>1
  <2> HIDE DEF S
  <2>3. Cardinality(S) \in Nat
    BY <2>1, <2>2, FS_Subset, FS_CardinalityType
  <2> QED  BY <2>3 DEF Occurrences, S
<1>1. size \in Nat /\ base \in V
  <2>1. <<>> \in Seq(LineDiagnostics)
    OBVIOUS
  <2>2. Added(context, <<>>) \in V
    BY <2>1
  <2>3. size \in Nat
    OBVIOUS
  <2> HIDE DEF V
  <2> QED  BY <2>2, <2>3
<1>2. /\ \A n \in 1..size, v \in V : step[<<n, v>>] = one(v, n)
      /\ step \in [(1..size) \X V -> V]
  <2>1. ASSUME NEW n \in 1..size, NEW v \in V
        PROVE  one(v, n) \in V
    <3>1. PICK a \in Seq(LineDiagnostics) : v = Added(context, a)
      OBVIOUS
    <3>2. lines[n] \in Lines /\ Occurrences(text, lines[n]) \in Nat
      BY <1>0
    <3> DEFINE unsaid == Unsaid(lines[n], context, options)
               found == OrOneMore(a, lines[n], Occurrences(text, lines[n]), unsaid)
    <3>3. ReduceLine(Added(context, a), lines[n], Occurrences(text, lines[n]), options)
            \in {Added(context, more) : more \in found}
      BY <3>2, ReduceLineAdds
    <3>4. ASSUME NEW more \in found PROVE more \in Seq(LineDiagnostics)
      <4>1. CASE more = a
        BY <4>1
      <4>2. CASE more # a
        <5>1. PICK said \in SaysOf(lines[n], Occurrences(text, lines[n])) : more = Append(a, said)
          BY <4>2 DEF OrOneMore
        <5>2. said \in LineDiagnostics
          BY DEF SaysOf
        <5> QED  BY <5>1, <5>2
      <4> QED  BY <4>1, <4>2
    <3> HIDE DEF found
    <3> QED  BY <3>1, <3>3, <3>4
  <2> HIDE DEF V, one
  <2> QED  BY <2>1
<1> HIDE DEF step, V, base, one
<1>3. PICK g : IsCourse(g, size, V, base, step)
  BY <1>1, <1>2, CourseExists
<1>4. /\ g \in [0..size -> V] /\ g[0] = base
      /\ \A n \in 1..size : g[n] = step[<<n, g[n - 1]>>]
  BY <1>3 DEF IsCourse
<1>5. \A n \in 1..size : g[n - 1] \in V /\ g[n] = one(g[n - 1], n)
  <2> SUFFICES ASSUME NEW n \in 1..size
               PROVE  g[n - 1] \in V /\ g[n] = one(g[n - 1], n)
    OBVIOUS
  <2>1. n - 1 \in 0..size
    BY <1>1
  <2> QED  BY <1>2, <1>4, <2>1
<1>6. Eq(g)
  <2>1. \A n \in 0..size : n # 0 => n \in 1..size
    BY <1>1
  <2>2. g = [n \in 0..size |-> g[n]]
    BY <1>4
  <2>3. \A n \in 0..size : g[n] = IF n = 0 THEN base ELSE one(g[n - 1], n)
    BY <1>4, <1>5, <2>1
  <2> HIDE DEF size
  <2> QED  BY <2>2, <2>3
<1> DEFINE h == CHOOSE f : Eq(f)
<1>7. ReduceLines(text, lines, Added(context, <<>>), options) = h[size]
  BY DEF ReduceLines, base, one
<1>8. Eq(h)
  <2> HIDE DEF Eq
  <2> QED  BY <1>6
<1> HIDE DEF h
<1>9. h[0] = base /\ \A n \in 1..size : h[n] = one(h[n - 1], n)
  <2>1. \A n \in 1..size : n \in 0..size /\ n # 0
    BY <1>1
  <2>2. 0 \in 0..size
    BY <1>1
  <2> HIDE DEF size
  <2> QED  BY <1>8, <2>1, <2>2
<1>10. StepsAgree(h, g, size)
  BY <1>4, <1>5, <1>9 DEF StepsAgree
<1>11. \A n \in 0..size : h[n] = g[n]
  BY <1>1, <1>10, CoursesAgree
<1> DEFINE R(n) == {Added(context, more) : more \in ReportedIn(text, lines, n, context, options)}
           P == {n \in Nat : n \in 0..size => g[n] \in R(n)}
<1>12. 0 \in P
  <2> DEFINE none == <<>>
  <2>1. none \in Seq(LineDiagnostics) /\ Len(none) = 0
    OBVIOUS
  <2>2. \A m \in 1..0 : FALSE
    OBVIOUS
  <2> HIDE DEF none
  <2>3. none \in ReportedIn(text, lines, 0, context, options)
    BY <2>1, <2>2 DEF Reported, ReportedIn, Tells
  <2>4. g[0] \in R(0)
    BY <1>4, <2>3 DEF none, base
  <2> QED  BY <2>4
<1>13. ASSUME NEW n \in P PROVE n + 1 \in P
  <2> SUFFICES ASSUME n + 1 \in 0..size PROVE g[n + 1] \in R(n + 1)
    OBVIOUS
  <2>1. n \in 0..size /\ n + 1 \in 1..size /\ n \in Nat /\ (n + 1) - 1 = n
    BY <1>1
  <2>2. PICK a \in ReportedIn(text, lines, n, context, options) : g[n] = Added(context, a)
    BY <2>1
  <2>a. a \in Reported(text, lines, n) /\ Tells(lines, n, a, context, options)
    BY DEF ReportedIn
  <2>3. g[n + 1] = one(g[n], n + 1)
    BY <1>5, <2>1
  <2> HIDE DEF R
  <2> DEFINE line == lines[n + 1]
             count == Occurrences(text, lines[n + 1])
             unsaid == Unsaid(line, context, options)
  <2>4. g[n + 1] = ReduceLine(Added(context, a), line, count, options)
    BY <2>2, <2>3 DEF one
  <2>5. line \in Lines /\ count \in Nat /\ a \in Seq(LineDiagnostics)
    BY <1>0, <2>1, <2>a DEF Reported
  <2> HIDE DEF line, count
  <2>6. g[n + 1] \in {Added(context, more) : more \in OrOneMore(a, line, count, unsaid)}
    <3>1. ReduceLine(Added(context, a), line, count, options)
            \in {Added(context, more) : more \in OrOneMore(a, line, count, unsaid)}
      BY <2>5, ReduceLineAdds
    <3> QED  BY <2>4, <3>1
  <2>7. PICK more \in OrOneMore(a, line, count, unsaid) : g[n + 1] = Added(context, more)
    BY <2>6
  <2>8. more \in ReportedIn(text, lines, n + 1, context, options)
    <3>1. Tells(lines, n + 1, more, context, options)
      BY <2>1, <2>5, <2>a, TellsMore DEF line
    <3> HIDE DEF unsaid
    <3>2. more \in Reported(text, lines, n + 1)
      BY <2>1, <2>a, ReportedMore DEF line, count, size
    <3> QED  BY <3>1, <3>2 DEF ReportedIn
  <2> QED  BY <2>7, <2>8 DEF R
<1> HIDE DEF R
<1>14. P = Nat
  <2> HIDE DEF P
  <2>1. P \in SUBSET Nat
    BY DEF P
  <2> QED  BY <1>12, <1>13, <2>1, InductionOnNat
<1>15. g[size] \in R(size) /\ h[size] = g[size]
  BY <1>1, <1>11, <1>14
<1> QED  BY <1>7, <1>15 DEF R, size

(* What is found of a concatenation, and of parsers that are others. *)
LEMMA FromConcat ==
  ASSUME NEW owners, NEW a, NEW b, From(a, owners), From(b, owners), NEW S
  PROVE  /\ From(a \o b, owners)
         /\ Only(a \o b, S) = Only(a, S) \o Only(b, S)
PROOF
<1> DEFINE T == Range(a) \cup Range(b)
<1>1. a \in Seq(Range(a)) /\ b \in Seq(Range(b))
  BY DEF From
<1>2. a \in Seq(T) /\ b \in Seq(T)
  <2>1. a \in Seq(T)
    BY <1>1
  <2>2. b \in Seq(T)
    BY <1>1
  <2> QED  BY <2>1, <2>2
<1>3. \A one \in T : one.owner \in owners
  <2>1. \A one \in Range(a) : \E n \in 1..Len(a) : one = a[n]
    BY <1>1 DEF Range
  <2>2. \A one \in Range(b) : \E n \in 1..Len(b) : one = b[n]
    BY <1>1 DEF Range
  <2> QED  BY <2>1, <2>2 DEF From
<1> HIDE DEF T
<1>4. a \o b \in Seq(T)
  BY <1>2
<1>5. From(a \o b, owners)
  <2> DEFINE both == a \o b
  <2> HIDE DEF both
  <2>1. both \in Seq(T)
    BY <1>4 DEF both
  <2>2. From(both, owners)
    BY <1>3, <2>1, TypedFrom
  <2> QED  BY <2>2 DEF both
<1>6. Only(a \o b, S) = Only(a, S) \o Only(b, S)
  BY <1>2, OnlyConcat
<1> QED  BY <1>5, <1>6

LEMMA FromMore ==
  ASSUME NEW owners, NEW more, owners \subseteq more, NEW a, From(a, owners)
  PROVE  From(a, more)
PROOF
BY DEF From

LEMMA FromNothing ==
  ASSUME NEW owners
  PROVE  From(<<>>, owners)
PROOF
<1> DEFINE none == <<>>
<1>1. none \in Seq(Range(none)) /\ Len(none) = 0
  OBVIOUS
<1>2. \A n \in 1..0 : FALSE
  OBVIOUS
<1> HIDE DEF none
<1>3. From(none, owners)
  BY <1>1, <1>2 DEF From
<1> QED  BY <1>3 DEF none

----------------------------------------------------------------------------
(* What is of one parser, among what several have found *)

IsFoundException(one) == one.owner = "python" /\ IsPythonException(one.line)

(* Two parts together: what either has, the other does not take away.      *)
LEMMA BothTogether ==
  ASSUME NEW A, NEW B, NEW a, NEW b, From(a, A), From(b, B)
  PROVE  /\ a \in Seq(Range(a)) /\ b \in Seq(Range(b))
         /\ \A S : Only(a \o b, S) = Only(a, S) \o Only(b, S)
         /\ \A n \in 1..Len(a) : a[n] \in Range(a) /\ a[n] \in Range(a \o b)
         /\ \A n \in 1..Len(b) : b[n] \in Range(b) /\ b[n] \in Range(a \o b)
PROOF
<1> DEFINE both == a \o b
<1>1. From(a, A \cup B) /\ From(b, A \cup B)
  BY FromMore
<1>2. \A S : Only(both, S) = Only(a, S) \o Only(b, S)
  <2> DEFINE C == A \cup B
  <2> HIDE DEF C, both
  <2>1. From(a, C) /\ From(b, C)
    BY <1>1 DEF C
  <2>2. ASSUME NEW S
        PROVE  From(a \o b, C) /\ Only(a \o b, S) = Only(a, S) \o Only(b, S)
    BY <2>1, FromConcat
  <2> QED  BY <2>2 DEF both
<1>3. a \in Seq(Range(a)) /\ b \in Seq(Range(b))
  BY DEF From
<1>4. /\ \A n \in 1..Len(a) : a[n] \in Range(a) /\ a[n] \in Range(both)
      /\ \A n \in 1..Len(b) : b[n] \in Range(b) /\ b[n] \in Range(both)
  <2>1. /\ \A n \in 1..Len(a) : n \in DOMAIN a /\ n \in DOMAIN both /\ both[n] = a[n]
        /\ \A n \in 1..Len(b) : /\ n \in DOMAIN b /\ Len(a) + n \in DOMAIN both
                                /\ both[Len(a) + n] = b[n]
    BY <1>3
  <2> HIDE DEF both
  <2> QED  BY <2>1 DEF Range
<1> HIDE DEF both
<1> QED  BY <1>2, <1>3, <1>4 DEF both

LEMMA OwnedBoth ==
  ASSUME NEW A, NEW B, NEW a, NEW b, From(a, A), From(b, B), NEW owner
  PROVE  Owned(a \o b, owner) = Owned(a, owner) \o Owned(b, owner)
PROOF
<1> DEFINE both == a \o b
<1>1. /\ a \in Seq(Range(a)) /\ b \in Seq(Range(b))
      /\ \A S : Only(both, S) = Only(a, S) \o Only(b, S)
      /\ \A n \in 1..Len(a) : a[n] \in Range(a) /\ a[n] \in Range(both)
      /\ \A n \in 1..Len(b) : b[n] \in Range(b) /\ b[n] \in Range(both)
  BY BothTogether
<1> HIDE DEF both
<1> DEFINE S == {one \in Range(both) : one.owner = owner}
           R(x) == {one \in Range(x) : one.owner = owner}
<1>2. /\ \A n \in 1..Len(a) : a[n] \in S <=> a[n] \in R(a)
      /\ \A n \in 1..Len(b) : b[n] \in S <=> b[n] \in R(b)
  BY <1>1
<1>3. Owned(both, owner) = Only(both, S) /\ \A x : Owned(x, owner) = Only(x, R(x))
  BY DEF Owned
<1> HIDE DEF S, R
<1>4. Only(a, S) = Only(a, R(a)) /\ Only(b, S) = Only(b, R(b))
  BY <1>1, <1>2, OnlySame
<1>5. Owned(both, owner) = Owned(a, owner) \o Owned(b, owner)
  BY <1>1, <1>3, <1>4
<1> QED  BY <1>5 DEF both

LEMMA ExceptionsBoth ==
  ASSUME NEW A, NEW B, NEW a, NEW b, From(a, A), From(b, B)
  PROVE  PythonExceptions(a \o b) = PythonExceptions(a) \o PythonExceptions(b)
PROOF
<1> DEFINE both == a \o b
<1>1. /\ a \in Seq(Range(a)) /\ b \in Seq(Range(b))
      /\ \A S : Only(both, S) = Only(a, S) \o Only(b, S)
      /\ \A n \in 1..Len(a) : a[n] \in Range(a) /\ a[n] \in Range(both)
      /\ \A n \in 1..Len(b) : b[n] \in Range(b) /\ b[n] \in Range(both)
  BY BothTogether
<1> HIDE DEF both
<1> DEFINE S == {one \in Range(both) : IsFoundException(one)}
           R(x) == {one \in Range(x) : IsFoundException(one)}
<1>2. /\ \A n \in 1..Len(a) : a[n] \in S <=> a[n] \in R(a)
      /\ \A n \in 1..Len(b) : b[n] \in S <=> b[n] \in R(b)
  BY <1>1
<1>3. PythonExceptions(both) = Only(both, S) /\ \A x : PythonExceptions(x) = Only(x, R(x))
  BY DEF PythonExceptions, IsFoundException
<1> HIDE DEF S, R
<1>4. Only(a, S) = Only(a, R(a)) /\ Only(b, S) = Only(b, R(b))
  BY <1>1, <1>2, OnlySame
<1>5. PythonExceptions(both) = PythonExceptions(a) \o PythonExceptions(b)
  BY <1>1, <1>3, <1>4
<1> QED  BY <1>5 DEF both

(* What is not there, and what is all there is. *)
LEMMA FromOthers ==
  ASSUME NEW A, NEW a, From(a, A)
  PROVE  /\ \A owner : owner \notin A => Owned(a, owner) = <<>>
         /\ "python" \notin A => PythonExceptions(a) = <<>>
         /\ \A owner : A = {owner} => Owned(a, owner) = a
         /\ \A owner : \E S : Owned(a, owner) \in Seq(S)
         /\ \E S : PythonExceptions(a) \in Seq(S)
PROOF
<1> DEFINE T == Range(a)
           S(owner) == {one \in Range(a) : one.owner = owner}
           E == {one \in Range(a) : one.owner = "python" /\ IsPythonException(one.line)}
<1>1. a \in Seq(T) /\ \A n \in 1..Len(a) : a[n] \in T /\ a[n].owner \in A
  BY DEF From, Range
<1>2. \A owner : Owned(a, owner) = Only(a, S(owner))
  BY DEF Owned
<1>3. PythonExceptions(a) = Only(a, E)
  BY DEF PythonExceptions
<1>4. ASSUME NEW owner, owner \notin A PROVE Owned(a, owner) = <<>>
  <2>1. \A n \in 1..Len(a) : a[n] \notin S(owner)
    BY <1>1, <1>4
  <2> HIDE DEF S, T
  <2> QED  BY <1>1, <1>2, <2>1, OnlyNone
<1>5. ASSUME "python" \notin A PROVE PythonExceptions(a) = <<>>
  <2>1. \A n \in 1..Len(a) : a[n] \notin E
    BY <1>1, <1>5
  <2> HIDE DEF E, T
  <2> QED  BY <1>1, <1>3, <2>1, OnlyNone
<1>6. ASSUME NEW owner, A = {owner} PROVE Owned(a, owner) = a
  <2>1. \A n \in 1..Len(a) : a[n] \in S(owner)
    BY <1>1, <1>6
  <2> HIDE DEF S, T
  <2> QED  BY <1>1, <1>2, <2>1, OnlyAll
<1>7. \A R : Only(a, R) \in Seq(T \cap R)
  <2> HIDE DEF T
  <2> QED  BY <1>1, OnlyType
<1> HIDE DEF T, S, E
<1>8. \A owner : \E R : Owned(a, owner) \in Seq(R)
  <2> SUFFICES ASSUME NEW owner PROVE \E R : Owned(a, owner) \in Seq(R)
    OBVIOUS
  <2>1. Owned(a, owner) \in Seq(T \cap S(owner))
    BY <1>2, <1>7
  <2> QED  BY <2>1
<1>9. \E R : PythonExceptions(a) \in Seq(R)
  BY <1>3, <1>7
<1> QED  BY <1>4, <1>5, <1>6, <1>8, <1>9

(* Of two parts, the one that an owner is in. *)
LEMMA FromTwo ==
  ASSUME NEW A, NEW B, NEW a, NEW b, From(a, A), From(b, B)
  PROVE  From(a \o b, A \cup B)
PROOF
<1>1. From(a, A \cup B) /\ From(b, A \cup B)
  BY FromMore
<1> QED  BY <1>1, FromConcat

LEMMA FromEither ==
  ASSUME NEW A, NEW B, NEW a, NEW b, From(a, A), From(b, B), NEW owner
  PROVE  /\ owner \notin B => Owned(a \o b, owner) = Owned(a, owner)
         /\ owner \notin A => Owned(a \o b, owner) = Owned(b, owner)
         /\ "python" \notin B => PythonExceptions(a \o b) = PythonExceptions(a)
         /\ "python" \notin A => PythonExceptions(a \o b) = PythonExceptions(b)
PROOF
<1>1. /\ Owned(a \o b, owner) = Owned(a, owner) \o Owned(b, owner)
      /\ PythonExceptions(a \o b) = PythonExceptions(a) \o PythonExceptions(b)
  <2>1. Owned(a \o b, owner) = Owned(a, owner) \o Owned(b, owner)
    BY OwnedBoth
  <2>2. PythonExceptions(a \o b) = PythonExceptions(a) \o PythonExceptions(b)
    BY ExceptionsBoth
  <2> QED  BY <2>1, <2>2
<1>2. ASSUME NEW s, NEW S, s \in Seq(S) PROVE s \o <<>> = s /\ <<>> \o s = s
  BY <1>2
<1>3. /\ Owned(a, owner) \o <<>> = Owned(a, owner)
      /\ <<>> \o Owned(b, owner) = Owned(b, owner)
      /\ PythonExceptions(a) \o <<>> = PythonExceptions(a)
      /\ <<>> \o PythonExceptions(b) = PythonExceptions(b)
  BY <1>2, FromOthers
<1>4. /\ owner \notin A => Owned(a, owner) = <<>>
      /\ "python" \notin A => PythonExceptions(a) = <<>>
      /\ owner \notin B => Owned(b, owner) = <<>>
      /\ "python" \notin B => PythonExceptions(b) = <<>>
  BY FromOthers
<1> QED  BY <1>1, <1>3, <1>4

----------------------------------------------------------------------------
(* All that is found of a text *)

(* A parser that does not run finds nothing. *)
LEMMA FromRun ==
  ASSUME NEW A, NEW run, NEW found, From(found, A)
  PROVE  From(IF run THEN found ELSE <<>>, A)
PROOF
BY FromNothing

(* The diagnostics of a text, in the order in which they are found. *)
LEMMA TextDiagnosticsAre ==
  ASSUME NEW text, WrittenText(text), NEW options
  PROVE  LET run == [owner \in Range(TextOwners) |-> IsRun(owner, Hints(text), options.overrides)]
             swc == IF run["javascript-swc"] THEN Swc(text) ELSE NoSwc
             linker == IF run["cpp-linker"] THEN CppLinker(text) ELSE <<>>
             javac == IF run["java-compiler"] THEN JavaCompiler(text) ELSE <<>>
             rust == IF run["rust-compiler"] THEN RustCompiler(text) ELSE <<>>
             node == IF run["javascript-test"] THEN NodeTests(text) ELSE <<>>
             java == IF run["java-test"] THEN JavaTests(text) ELSE <<>>
             context == Context(swc, (linker \o javac) \o rust, node, java)
             python == IF run["python"] THEN ReducePython(text, context) ELSE <<>>
         IN  \A T : context.diagnostics \in Seq(T) =>
               \E more \in ReportedOf(text) :
                 /\ TextDiagnostics(text, options) = (context.diagnostics \o python) \o more
                 /\ Tells(Candidates(text), Len(Candidates(text)), more, context, options)
PROOF
<1> DEFINE run == [owner \in Range(TextOwners) |-> IsRun(owner, Hints(text), options.overrides)]
           swc == IF run["javascript-swc"] THEN Swc(text) ELSE NoSwc
           linker == IF run["cpp-linker"] THEN CppLinker(text) ELSE <<>>
           javac == IF run["java-compiler"] THEN JavaCompiler(text) ELSE <<>>
           rust == IF run["rust-compiler"] THEN RustCompiler(text) ELSE <<>>
           node == IF run["javascript-test"] THEN NodeTests(text) ELSE <<>>
           java == IF run["java-test"] THEN JavaTests(text) ELSE <<>>
           context == Context(swc, (linker \o javac) \o rust, node, java)
           python == IF run["python"] THEN ReducePython(text, context) ELSE <<>>
<1>0. /\ run = [owner \in Range(TextOwners) |-> IsRun(owner, Hints(text), options.overrides)]
      /\ swc = IF run["javascript-swc"] THEN Swc(text) ELSE NoSwc
      /\ linker = IF run["cpp-linker"] THEN CppLinker(text) ELSE <<>>
      /\ javac = IF run["java-compiler"] THEN JavaCompiler(text) ELSE <<>>
      /\ rust = IF run["rust-compiler"] THEN RustCompiler(text) ELSE <<>>
      /\ node = IF run["javascript-test"] THEN NodeTests(text) ELSE <<>>
      /\ java = IF run["java-test"] THEN JavaTests(text) ELSE <<>>
      /\ context = Context(swc, (linker \o javac) \o rust, node, java)
      /\ python = IF run["python"] THEN ReducePython(text, context) ELSE <<>>
  OBVIOUS
<1> HIDE DEF run, swc, linker, javac, rust, node, java, context, python
<1> USE <1>0
<1> SUFFICES ASSUME NEW T, context.diagnostics \in Seq(T)
             PROVE  \E more \in ReportedOf(text) :
                      /\ TextDiagnostics(text, options) = (context.diagnostics \o python) \o more
                      /\ Tells(Candidates(text), Len(Candidates(text)), more, context, options)
  OBVIOUS
<1> DEFINE hints == Hints(text)
           overrides == options.overrides
           all == IF run["python"] THEN WithPython(text, context) ELSE context
           lines == Candidates(text)
<1>1. \A owner \in Range(TextOwners) : run[owner] = IsRun(owner, hints, overrides)
  OBVIOUS
<1>2. {"javascript-swc", "cpp-linker", "java-compiler", "rust-compiler", "javascript-test",
       "java-test", "python"} \subseteq Range(TextOwners)
  BY DEF TextOwners, Range
<1>3. ReduceTexts(text, hints, overrides) = all
  BY <1>1, <1>2 DEF ReduceTexts
<1>4. text \in Seq(Lines)
  BY DEF WrittenText
<1>5. python \in Seq(DiagnosticsOf("python"))
  <2>1. ReducePython(text, context) \in Seq(DiagnosticsOf("python"))
    BY <1>4, PythonPlaced
  <2> QED  BY <2>1
<1>6. context.diagnostics \o <<>> = context.diagnostics
  OBVIOUS
<1>7. all = Added(context, python)
  <2>1. context = [diagnostics |-> context.diagnostics,
                   swc_consumed_lines |-> context.swc_consumed_lines,
                   has_swc_diagnostics |-> context.has_swc_diagnostics,
                   javascript_test_messages |-> context.javascript_test_messages,
                   java_test_messages |-> context.java_test_messages]
    BY DEF Context
  <2>2. CASE run["python"]
    <3> DEFINE longer == context.diagnostics \o python
    <3>1. all = [context EXCEPT !.diagnostics = longer]
      BY <2>2 DEF WithPython, With
    <3>a. Added(context, python).diagnostics = longer
      BY DEF Added
    <3> HIDE DEF longer
    <3>2. [context EXCEPT !.diagnostics = longer] =
            [diagnostics |-> longer,
             swc_consumed_lines |-> context.swc_consumed_lines,
             has_swc_diagnostics |-> context.has_swc_diagnostics,
             javascript_test_messages |-> context.javascript_test_messages,
             java_test_messages |-> context.java_test_messages]
      BY <2>1
    <3>3. Added(context, python) =
            [diagnostics |-> longer,
             swc_consumed_lines |-> context.swc_consumed_lines,
             has_swc_diagnostics |-> context.has_swc_diagnostics,
             javascript_test_messages |-> context.javascript_test_messages,
             java_test_messages |-> context.java_test_messages]
      BY DEF Added, longer
    <3> HIDE DEF all
    <3> QED  BY <3>1, <3>2, <3>3
  <2>3. CASE ~run["python"]
    BY <1>6, <2>1, <2>3 DEF Added
  <2> QED  BY <2>2, <2>3
<1> HIDE DEF all
<1>8. all.diagnostics = context.diagnostics \o python
  BY <1>7 DEF Added
<1>9. \E U : all.diagnostics \in Seq(U)
  <2> DEFINE V == T \cup DiagnosticsOf("python")
  <2>1. context.diagnostics \in Seq(V)
    OBVIOUS
  <2>2. python \in Seq(V)
    BY <1>5
  <2> HIDE DEF V
  <2>3. context.diagnostics \o python \in Seq(V)
    BY <2>1, <2>2
  <2>4. all.diagnostics \in Seq(V)
    BY <1>8, <2>3
  <2> QED  BY <2>4
<1>10. PICK U : all.diagnostics \in Seq(U)
  BY <1>9
<1>11. all = Added(all, <<>>)
  <2>1. all.diagnostics \o <<>> = all.diagnostics
    BY <1>10
  <2> QED  BY <1>7, <2>1 DEF Added
<1>12. lines \in Seq(Lines)
  <2> DEFINE P == {i \in DOMAIN text : /\ Reads[text[i]].candidate
                                       /\ \A j \in 1..(i - 1) : text[j] # text[i]}
  <2>1. P \in SUBSET DOMAIN text
    OBVIOUS
  <2> HIDE DEF P
  <2> QED  BY <1>4, <2>1, PickedType DEF Candidates, P
<1>13. TextDiagnostics(text, options) = ReduceLines(text, lines, all, options).diagnostics
  BY <1>3 DEF TextDiagnostics, TextDiagnosticsWith
<1> HIDE DEF lines
<1>14. ReduceLines(text, lines, all, options)
         \in {Added(all, more) : more \in ReportedIn(text, lines, Len(lines), all, options)}
  <2> DEFINE c == all
  <2>1. c.diagnostics \in Seq(U)
    BY <1>10
  <2> HIDE DEF c
  <2>2. ReduceLines(text, lines, Added(c, <<>>), options)
          \in {Added(c, more) : more \in ReportedIn(text, lines, Len(lines), c, options)}
    BY <1>4, <1>12, <2>1, ReduceLinesAdds
  <2> QED  BY <1>11, <2>2 DEF c
<1>15. PICK more \in ReportedIn(text, lines, Len(lines), all, options) :
         ReduceLines(text, lines, all, options) = Added(all, more)
  BY <1>14
<1>16. TextDiagnostics(text, options) = all.diagnostics \o more
  BY <1>13, <1>15 DEF Added
<1>17. TextDiagnostics(text, options) = (context.diagnostics \o python) \o more
  BY <1>8, <1>16
<1>18. more \in ReportedOf(text)
  BY DEF ReportedOf, ReportedIn, lines
<1>19. Tells(Candidates(text), Len(Candidates(text)), more, context, options)
  <2>1. Tells(lines, Len(lines), more, all, options)
    BY DEF ReportedIn
  <2>2. \A line : Unsaid(line, all, options) => Unsaid(line, context, options)
    BY <1>7, UnsaidAdded
  <2>3. Tells(lines, Len(lines), more, context, options)
    BY <2>1, <2>2 DEF Tells
  <2> QED  BY <2>3 DEF lines
<1> QED  BY <1>17, <1>18, <1>19, Zenon

(* The parsers of texts, and what they have found of one: each its own.    *)
LEMMA PartsFrom ==
  ASSUME NEW text, WrittenText(text)
  PROVE  /\ From(Swc(text).diagnostics, {"javascript-swc"}) /\ From(NoSwc.diagnostics, {"javascript-swc"})
         /\ From(CppLinker(text), {"cpp-linker"})
         /\ From(JavaCompiler(text), {"java-compiler"})
         /\ From(RustCompiler(text), {"rust-compiler"})
         /\ From(NodeTests(text), {"javascript-test"})
         /\ From(JavaTests(text), {"java-test"})
         /\ \A context : From(ReducePython(text, context), {"python"})
         /\ \A more \in Seq(LineDiagnostics) : From(more, LineOwnersSet)
PROOF
<1>1. text \in Seq(Lines)
  BY DEF WrittenText
<1>2. From(Swc(text).diagnostics, {"javascript-swc"})
  BY <1>1, SwcFrom
<1>3. From(NoSwc.diagnostics, {"javascript-swc"})
  <2> DEFINE none == <<>>
  <2>1. NoSwc.diagnostics = <<>>
    <3>1. NoSwc.diagnostics = [n \in DOMAIN none |-> none[n].diagnostic]
      BY DEF NoSwc, SwcDiagnostics
    <3>2. DOMAIN none = {}
      OBVIOUS
    <3> HIDE DEF none
    <3>3. NoSwc.diagnostics = [n \in {} |-> 0]
      BY <3>1, <3>2
    <3>4. <<>> = [n \in {} |-> 0]
      OBVIOUS
    <3> QED  BY <3>3, <3>4
  <2> QED  BY <2>1, FromNothing
<1>4. From(CppLinker(text), {"cpp-linker"})
  BY <1>1, CppLinkerType, OfFrom
<1>5. From(JavaCompiler(text), {"java-compiler"})
  BY <1>1, JavaCompilerFrom
<1>6. From(RustCompiler(text), {"rust-compiler"})
  BY RustCompilerPlaced, OfFrom
<1>7. From(NodeTests(text), {"javascript-test"})
  BY NodeTestsPlaced, OfFrom
<1>8. From(JavaTests(text), {"java-test"})
  BY JavaTestsPlaced, OfFrom
<1>9. ASSUME NEW context PROVE From(ReducePython(text, context), {"python"})
  <2>1. ReducePython(text, context) \in Seq(DiagnosticsOf("python"))
    BY <1>1, PythonPlaced
  <2> QED  BY <2>1, OfFrom
<1>10. ASSUME NEW more \in Seq(LineDiagnostics) PROVE From(more, LineOwnersSet)
  <2>1. \A one \in LineDiagnostics : one.owner \in LineOwnersSet
    BY DEF LineDiagnostics
  <2> QED  BY <2>1, TypedFrom
<1> QED  BY <1>2, <1>3, <1>4, <1>5, <1>6, <1>7, <1>8, <1>9, <1>10

LEMMA LineOwnersAre ==
  LineOwnersSet = {"cpp", "typescript", "protobuf", "go", "generic.fallback"}
PROOF
<1>1. DOMAIN LineOwners = {1, 2, 3, 4}
  BY DEF LineOwners
<1>2. /\ LineOwners[1] = "cpp" /\ LineOwners[2] = "typescript" /\ LineOwners[3] = "protobuf"
      /\ LineOwners[4] = "go"
  BY DEF LineOwners
<1>3. Range(LineOwners) = {LineOwners[1], LineOwners[2], LineOwners[3], LineOwners[4]}
  BY <1>1 DEF Range
<1> QED  BY <1>2, <1>3 DEF LineOwnersSet

(* Of all of them together, what is of one. *)
Together(swc, linker, javac, rust, node, java, python, more) ==
  ((((swc \o ((linker \o javac) \o rust)) \o node) \o java) \o python) \o more

LEMMA PartsTogether ==
  ASSUME NEW swc, From(swc, {"javascript-swc"}), NEW linker, From(linker, {"cpp-linker"}),
         NEW javac, From(javac, {"java-compiler"}), NEW rust, From(rust, {"rust-compiler"}),
         NEW node, From(node, {"javascript-test"}), NEW java, From(java, {"java-test"}),
         NEW python, From(python, {"python"}), NEW more, From(more, LineOwnersSet)
  PROVE  LET all == Together(swc, linker, javac, rust, node, java, python, more)
         IN  /\ Owned(all, "javascript-test") = node
             /\ Owned(all, "java-test") = java
             /\ Owned(all, "rust-compiler") = rust
             /\ PythonExceptions(all) = PythonExceptions(python)
             /\ \E before, A : /\ all = before \o more /\ From(before, A)
                              /\ A \cap LineOwnersSet = {}
PROOF
<1> DEFINE all == Together(swc, linker, javac, rust, node, java, python, more)
<1> DEFINE p1 == linker \o javac
           p2 == p1 \o rust
           p3 == swc \o p2
           p4 == p3 \o node
           p5 == p4 \o java
           p6 == p5 \o python
           A1 == {"cpp-linker"} \cup {"java-compiler"}
           A2 == A1 \cup {"rust-compiler"}
           A3 == {"javascript-swc"} \cup A2
           A4 == A3 \cup {"javascript-test"}
           A5 == A4 \cup {"java-test"}
           A6 == A5 \cup {"python"}
<1>1. all = p6 \o more
  BY DEF Together
<1> HIDE DEF all
<1>2. /\ "rust-compiler" \notin A1 /\ "rust-compiler" \notin {"javascript-swc"}
      /\ "javascript-test" \notin A3 /\ "java-test" \notin A4
      /\ "python" \notin A5
      /\ \A owner \in {"javascript-test", "java-test", "rust-compiler", "python"} :
           owner \notin LineOwnersSet
  BY LineOwnersAre
<1>3. A6 \cap LineOwnersSet = {}
  BY LineOwnersAre
<1> HIDE DEF A1, A2, A3, A4, A5, A6
<1>4. From(p1, A1)
  BY FromTwo DEF A1
<1> HIDE DEF p1
<1>5. From(p2, A2)
  BY <1>4, FromTwo DEF A2
<1>6. Owned(p2, "rust-compiler") = Owned(rust, "rust-compiler")
  BY <1>2, <1>4, FromEither
<1> HIDE DEF p2
<1>7. From(p3, A3)
  BY <1>5, FromTwo DEF A3
<1>8. Owned(p3, "rust-compiler") = Owned(p2, "rust-compiler")
  BY <1>2, <1>5, FromEither
<1> HIDE DEF p3
<1>9. From(p4, A4)
  BY <1>7, FromTwo DEF A4
<1>10. /\ Owned(p4, "rust-compiler") = Owned(p3, "rust-compiler")
      /\ Owned(p4, "javascript-test") = Owned(node, "javascript-test")
  <2>1. Owned(p4, "rust-compiler") = Owned(p3, "rust-compiler")
    BY <1>7, FromEither
  <2>2. Owned(p4, "javascript-test") = Owned(node, "javascript-test")
    BY <1>2, <1>7, FromEither
  <2> QED  BY <2>1, <2>2
<1> HIDE DEF p4
<1>11. From(p5, A5)
  BY <1>9, FromTwo DEF A5
<1>12. /\ Owned(p5, "rust-compiler") = Owned(p4, "rust-compiler")
       /\ Owned(p5, "javascript-test") = Owned(p4, "javascript-test")
       /\ Owned(p5, "java-test") = Owned(java, "java-test")
  <2>1. \A owner : owner \notin {"java-test"} => Owned(p5, owner) = Owned(p4, owner)
    BY <1>9, FromEither
  <2>2. Owned(p5, "java-test") = Owned(java, "java-test")
    BY <1>2, <1>9, FromEither
  <2> QED  BY <2>1, <2>2
<1> HIDE DEF p5
<1>13. From(p6, A6)
  BY <1>11, FromTwo DEF A6
<1>14. /\ \A owner : owner \notin {"python"} => Owned(p6, owner) = Owned(p5, owner)
       /\ PythonExceptions(p6) = PythonExceptions(python)
  <2>1. \A owner : owner \notin {"python"} => Owned(p6, owner) = Owned(p5, owner)
    BY <1>11, FromEither
  <2>2. PythonExceptions(p6) = PythonExceptions(python)
    BY <1>2, <1>11, FromEither
  <2> QED  BY <2>1, <2>2
<1> HIDE DEF p6
<1>15. /\ \A owner : owner \notin LineOwnersSet => Owned(all, owner) = Owned(p6, owner)
       /\ PythonExceptions(all) = PythonExceptions(p6)
  <2>1. \A owner : owner \notin LineOwnersSet => Owned(all, owner) = Owned(p6, owner)
    BY <1>1, <1>13, FromEither
  <2>2. PythonExceptions(all) = PythonExceptions(p6)
    BY <1>1, <1>2, <1>13, FromEither
  <2> QED  BY <2>1, <2>2
<1>16. /\ Owned(rust, "rust-compiler") = rust
       /\ Owned(node, "javascript-test") = node
       /\ Owned(java, "java-test") = java
  BY FromOthers
<1>17. /\ Owned(all, "javascript-test") = node
       /\ Owned(all, "java-test") = java
       /\ Owned(all, "rust-compiler") = rust
       /\ PythonExceptions(all) = PythonExceptions(python)
  BY <1>2, <1>6, <1>8, <1>10, <1>12, <1>14, <1>15, <1>16
<1>18. \E before, A : all = before \o more /\ From(before, A) /\ A \cap LineOwnersSet = {}
  BY <1>1, <1>3, <1>13
<1> QED  BY <1>17, <1>18 DEF all

----------------------------------------------------------------------------
(* The lines that exceptions are reported of: each finding has its own     *)

Locates(p, found, R, n) ==
  /\ \A k \in 1..Len(found) : p[k] \in 1..n /\ R[p[k]] = <<found[k]>>
  /\ \A j, k \in 1..Len(found) : j # k => p[j] # p[k]

LEMMA PlacesMore ==
  ASSUME NEW T, NEW found \in Seq(T), NEW R, NEW n \in Nat, NEW p, Locates(p, found, R, n),
         NEW x \in T, R[n + 1] = <<x>>
  PROVE  \E q : Locates(q, Append(found, x), R, n + 1)
PROOF
<1> DEFINE m == Len(found)
           more == Append(found, x)
           q == [k \in 1..(m + 1) |-> IF k <= m THEN p[k] ELSE n + 1]
<1>1. /\ m \in Nat /\ Len(more) = m + 1 /\ more[m + 1] = x
      /\ \A k \in 1..m : more[k] = found[k] /\ q[k] = p[k]
      /\ q[m + 1] = n + 1
  OBVIOUS
<1>2. \A k \in 1..(m + 1) : k \in 1..m \/ k = m + 1
  BY <1>1
<1>3. \A k \in 1..m : p[k] \in 1..n /\ p[k] \in 1..(n + 1) /\ p[k] # n + 1 /\ R[p[k]] = <<found[k]>>
  BY DEF Locates
<1>4. \A j, k \in 1..m : j # k => p[j] # p[k]
  BY DEF Locates
<1>5. n + 1 \in 1..(n + 1)
  OBVIOUS
<1> HIDE DEF more, q, m
<1>6. \A k \in 1..(m + 1) : q[k] \in 1..(n + 1) /\ R[q[k]] = <<more[k]>>
  BY <1>1, <1>2, <1>3, <1>5
<1>7. \A j, k \in 1..(m + 1) : j # k => q[j] # q[k]
  BY <1>1, <1>2, <1>3, <1>4
<1>8. Locates(q, more, R, n + 1)
  BY <1>1, <1>6, <1>7 DEF Locates
<1> QED  BY <1>8 DEF more

LEMMA FlattenPlaces ==
  ASSUME NEW T, NEW L \in Nat, NEW R \in [1..L -> Seq(T)],
         \A i \in 1..L : R[i] = <<>> \/ \E x \in T : R[i] = <<x>>
  PROVE  \E p : Locates(p, FlattenSeq(R), R, L)
PROOF
<1>1. PICK flat : Flattens(flat, T, L, R) /\ FlattenSeq(R) = flat[L]
  BY FlattenCourse
<1>2. /\ flat \in [0..L -> Seq(T)] /\ flat[0] = <<>>
      /\ \A i \in 1..L : flat[i] = flat[i - 1] \o R[i]
  BY <1>1 DEF Flattens
<1> DEFINE P == {n \in Nat : n <= L => \E p : Locates(p, flat[n], R, n)}
<1>3. 0 \in P
  <2>1. Len(flat[0]) = 0 /\ 1..0 = {}
    BY <1>2
  <2>2. Locates(<<>>, flat[0], R, 0)
    BY <2>1 DEF Locates
  <2> QED  BY <2>2
<1>4. ASSUME NEW m \in P PROVE m + 1 \in P
  <2> SUFFICES ASSUME m + 1 <= L PROVE \E q : Locates(q, flat[m + 1], R, m + 1)
    OBVIOUS
  <2>1. m \in Nat /\ m + 1 \in 1..L /\ (m + 1) - 1 = m /\ m \in 0..L /\ m <= L
    OBVIOUS
  <2>2. PICK p : Locates(p, flat[m], R, m)
    BY <2>1
  <2>3. flat[m + 1] = flat[m] \o R[m + 1] /\ flat[m] \in Seq(T)
    BY <1>2, <2>1
  <2>4. CASE R[m + 1] = <<>>
    <3>1. flat[m + 1] = flat[m]
      BY <2>3, <2>4
    <3>2. \A i \in 1..m : i \in 1..(m + 1)
      BY <2>1
    <3>3. Locates(p, flat[m + 1], R, m + 1)
      BY <2>2, <3>1, <3>2 DEF Locates
    <3> QED  BY <3>3
  <2>5. ASSUME NEW x \in T, R[m + 1] = <<x>>
        PROVE  \E q : Locates(q, flat[m + 1], R, m + 1)
    <3>1. flat[m + 1] = Append(flat[m], x)
      BY <2>3, <2>5
    <3>2. \E q : Locates(q, Append(flat[m], x), R, m + 1)
      BY <2>1, <2>2, <2>3, <2>5, PlacesMore
    <3> QED  BY <3>1, <3>2
  <2> QED  BY <2>1, <2>4, <2>5
<1>5. P \in SUBSET Nat
  OBVIOUS
<1>6. P = Nat
  <2> HIDE DEF P
  <2> QED  BY <1>3, <1>4, <1>5, InductionOnNat
<1>7. L \in P /\ L <= L
  <2> HIDE DEF P
  <2> QED  BY <1>6
<1>8. \E p : Locates(p, flat[L], R, L)
  BY <1>7
<1> QED  BY <1>1, <1>8

(* Of JavaScript's and Java's reports.                                     *)
LEMMA NodeReportSays ==
  ASSUME NEW text \in Seq(Lines), NEW i \in 1..Len(text), NEW one, NodeReports(text)[i] = <<one>>
  PROVE  /\ one.line = text[i] /\ one.message = <<Reads[text[i]].node_exception>>
         /\ one.owner = "javascript-test"
         /\ Reads[text[i]].node_exception # 0
         /\ NodeLeading(text, i) # 0 \/ StackBelow(text, i, IsNodeFrame) # {}
PROOF
<1> DEFINE line == text[i]
           stack == StackBelow(text, i, IsNodeFrame)
<1>1. NodeReports(text)[i] = IF ~IsNodeException(line) THEN <<>>
                             ELSE NodeReport(text, i, stack, NodeLeading(text, i), TRUE)
  <2>1. i \in DOMAIN text
    OBVIOUS
  <2> QED  BY <2>1 DEF NodeReports
<1>2. <<one>> # <<>> /\ \A x : <<x>> = <<one>> => x = one
  OBVIOUS
<1>3. IsNodeException(line) /\ NodeReport(text, i, stack, NodeLeading(text, i), TRUE) = <<one>>
  BY <1>1, <1>2
<1> HIDE DEF stack, line
<1>4. /\ \E at : one = Diagnostic("javascript-test", text[i], <<Reads[text[i]].node_exception>>, at)
      /\ NodeLeading(text, i) # 0 \/ stack # {}
  BY <1>2, <1>3 DEF NodeReport
<1>5. /\ one.line = text[i] /\ one.message = <<Reads[text[i]].node_exception>>
      /\ one.owner = "javascript-test"
  BY <1>4 DEF Diagnostic
<1>6. Reads[text[i]].node_exception # 0
  BY <1>3 DEF IsNodeException, line
<1> QED  BY <1>4, <1>5, <1>6 DEF stack

LEMMA JavaReportSays ==
  ASSUME NEW text \in Seq(Lines), NEW i \in 1..Len(text), NEW one, JavaReports(text)[i] = <<one>>
  PROVE  /\ one.line = text[i] /\ one.message = <<Reads[text[i]].java_exception>>
         /\ one.owner = "java-test"
         /\ Reads[text[i]].java_explicit \/ StackBelow(text, i, IsJavaFrame) # {}
PROOF
<1> DEFINE line == text[i]
           stack == StackBelow(text, i, IsJavaFrame)
<1>1. JavaReports(text)[i] = IF Reads[line].java_exception = 0 THEN <<>>
                             ELSE JavaReport(text, i, stack, TRUE)
  <2>1. i \in DOMAIN text
    OBVIOUS
  <2> QED  BY <2>1 DEF JavaReports
<1>2. <<one>> # <<>> /\ \A x : <<x>> = <<one>> => x = one
  OBVIOUS
<1>3. JavaReport(text, i, stack, TRUE) = <<one>>
  BY <1>1, <1>2
<1> HIDE DEF stack, line
<1>4. /\ \E at : one = Diagnostic("java-test", text[i], <<Reads[text[i]].java_exception>>, at)
      /\ stack # {} \/ Reads[text[i]].java_explicit
  BY <1>2, <1>3 DEF JavaReport
<1>5. /\ one.line = text[i] /\ one.message = <<Reads[text[i]].java_exception>>
      /\ one.owner = "java-test"
  BY <1>4 DEF Diagnostic
<1> QED  BY <1>4, <1>5 DEF stack

(* Where no line is ambiguous, nothing confirms an exception for both.     *)
LEMMA OneConfirms ==
  ASSUME NEW text, WrittenText(text), \A line \in Range(text) : ~Ambiguous(line),
         NEW i \in 1..Len(text), NEW one, NEW other
  PROVE  ~(NodeReports(text)[i] = <<one>> /\ JavaReports(text)[i] = <<other>>)
PROOF
<1> SUFFICES ASSUME NodeReports(text)[i] = <<one>>, JavaReports(text)[i] = <<other>>
             PROVE  FALSE
  OBVIOUS
<1>1. /\ text \in Seq(Lines) /\ Len(text) \in Nat /\ DOMAIN text = 1..Len(text)
      /\ \A k \in 1..Len(text) : ~Reads[text[k]].blank /\ ~Ambiguous(text[k])
  BY DEF WrittenText, Range
<1>2. /\ Reads[text[i]].node_exception # 0
      /\ NodeLeading(text, i) # 0 \/ StackBelow(text, i, IsNodeFrame) # {}
      /\ Reads[text[i]].java_explicit \/ StackBelow(text, i, IsJavaFrame) # {}
  BY <1>1, NodeReportSays, JavaReportSays
<1>3. NodeLeading(text, i) = 0
  <2> DEFINE places == {j \in 1..(i - 1) : NodePlace(text[j]) # 0 /\
                          \A k \in (j + 1)..(i - 1) : ~IsNodeException(text[k])}
  <2>1. \A j \in 1..(i - 1) : NodePlace(text[j]) = 0
    BY <1>1 DEF Ambiguous, NodePlace
  <2>2. places = {}
    BY <2>1
  <2>3. NodeLeading(text, i) = IF places = {} THEN 0 ELSE NodePlace(text[Max(places)])
    BY DEF NodeLeading, PlaceAbove
  <2> QED  BY <2>2, <2>3
<1>4. StackBelow(text, i, IsNodeFrame) # {} => i + 1 \in 1..Len(text) /\ IsNodeFrame(text[i + 1])
  <2> SUFFICES ASSUME NEW j \in StackBelow(text, i, IsNodeFrame)
               PROVE  i + 1 \in 1..Len(text) /\ IsNodeFrame(text[i + 1])
    OBVIOUS
  <2>1. j \in (i + 1)..Len(text) /\ \A k \in (i + 1)..j : IsNodeFrame(text[k]) \/ Reads[text[k]].blank
    BY DEF StackBelow
  <2>2. i + 1 \in (i + 1)..j /\ i + 1 \in 1..Len(text)
    BY <1>1, <2>1
  <2> QED  BY <1>1, <2>1, <2>2
<1>5. StackBelow(text, i, IsJavaFrame) # {} => i + 1 \in 1..Len(text) /\ IsJavaFrame(text[i + 1])
  <2> SUFFICES ASSUME NEW j \in StackBelow(text, i, IsJavaFrame)
               PROVE  i + 1 \in 1..Len(text) /\ IsJavaFrame(text[i + 1])
    OBVIOUS
  <2>1. j \in (i + 1)..Len(text) /\ \A k \in (i + 1)..j : IsJavaFrame(text[k]) \/ Reads[text[k]].blank
    BY DEF StackBelow
  <2>2. i + 1 \in (i + 1)..j /\ i + 1 \in 1..Len(text)
    BY <1>1, <2>1
  <2> QED  BY <1>1, <2>1, <2>2
<1>6. ~(Reads[text[i]].node_exception # 0 /\ Reads[text[i]].java_explicit)
  BY <1>1 DEF Ambiguous
<1>7. i + 1 \in 1..Len(text) => ~(IsNodeFrame(text[i + 1]) /\ IsJavaFrame(text[i + 1]))
  BY <1>1 DEF Ambiguous
<1> QED  BY <1>2, <1>3, <1>4, <1>5, <1>6, <1>7

(* Python's parser says one thing of a line at most, and none of a claimed *)
PythonPlaces(p, found, text, n, context) ==
  /\ \A k \in 1..Len(found) : /\ p[k] \in 1..n /\ found[k].line = text[p[k]]
                              /\ ~ClaimedTestException(text[p[k]], context)
  /\ \A j, k \in 1..Len(found) : j # k => p[j] # p[k]

LEMMA PythonAdds ==
  ASSUME NEW acc \in PythonAccType, NEW line \in Lines
  PROVE  LET next == ReducePythonLine(acc, line, ObservePython(acc.location, line))
         IN  \/ next.found = acc.found
             \/ \E one \in DiagnosticsOf("python") :
                  one.line = line /\ next.found = Append(acc.found, one)
PROOF
<1> DEFINE T == DiagnosticsOf("python")
           seen == ObservePython(acc.location, line)
           next == ReducePythonLine(acc, line, seen)
           summary == PythonSummary(line)
           one == PythonException(line, acc.location)
<1>1. /\ acc.location \in OptionalPlaces /\ acc.found \in Seq(T)
      /\ acc \in [location : OptionalPlaces, found : Seq(T),
                  python_messages : SUBSET Seq(OptionalTexts)]
  BY DEF PythonAccType
<1>2. seen.found = IF IsPythonException(line) THEN <<one>> ELSE <<>>
  BY PythonObserves
<1>4. one \in T /\ summary \in T
  BY <1>1, PythonExceptionType, PythonSummaryType
<1>5. one.line = line /\ summary.line = line
  BY DEF PythonException, PythonSummary, Diagnostic
<1> HIDE DEF T, seen, one, summary
<1>6. CASE IsPythonException(line)
  <2>1. next.found = acc.found \o <<one>>
    BY <1>2, <1>6 DEF ReducePythonLine
  <2>2. acc.found \o <<one>> = Append(acc.found, one)
    BY <1>1, <1>4
  <2> QED  BY <1>4, <1>5, <2>1, <2>2 DEF T, seen
<1>7. CASE ~IsPythonException(line)
  <2> DEFINE found == IF Reads[line].python_summary = 0 \/ summary.message \in acc.python_messages
                      THEN acc.found ELSE Append(acc.found, summary)
  <2>1. next = [acc EXCEPT !.location = seen.parser, !.found = found]
    BY <1>2, <1>7 DEF ReducePythonLine, summary
  <2>2. found = acc.found \/ found = Append(acc.found, summary)
    OBVIOUS
  <2> HIDE DEF found
  <2>3. next.found = found
    <3> HIDE DEF next
    <3> QED  BY <1>1, <2>1
  <2> QED  BY <1>4, <1>5, <2>2, <2>3 DEF T, seen
<1> QED  BY <1>6, <1>7

LEMMA PythonPlacesMore ==
  ASSUME NEW T, NEW found \in Seq(T), NEW text, NEW n \in Nat, NEW context, NEW p,
         PythonPlaces(p, found, text, n, context), NEW x \in T, x.line = text[n + 1],
         ~ClaimedTestException(text[n + 1], context)
  PROVE  \E q : PythonPlaces(q, Append(found, x), text, n + 1, context)
PROOF
<1> DEFINE m == Len(found)
           more == Append(found, x)
           q == [k \in 1..(m + 1) |-> IF k <= m THEN p[k] ELSE n + 1]
<1>1. /\ m \in Nat /\ Len(more) = m + 1 /\ more[m + 1] = x
      /\ \A k \in 1..m : more[k] = found[k] /\ q[k] = p[k]
      /\ q[m + 1] = n + 1
  OBVIOUS
<1>2. \A k \in 1..(m + 1) : k \in 1..m \/ k = m + 1
  BY <1>1
<1>3. \A k \in 1..m : /\ p[k] \in 1..n /\ p[k] \in 1..(n + 1) /\ p[k] # n + 1
                      /\ found[k].line = text[p[k]] /\ ~ClaimedTestException(text[p[k]], context)
  BY DEF PythonPlaces
<1>4. \A j, k \in 1..m : j # k => p[j] # p[k]
  BY DEF PythonPlaces
<1>5. n + 1 \in 1..(n + 1)
  OBVIOUS
<1> HIDE DEF more, q, m
<1>6. \A k \in 1..(m + 1) : /\ q[k] \in 1..(n + 1) /\ more[k].line = text[q[k]]
                            /\ ~ClaimedTestException(text[q[k]], context)
  BY <1>1, <1>2, <1>3, <1>5
<1>7. \A j, k \in 1..(m + 1) : j # k => q[j] # q[k]
  BY <1>1, <1>2, <1>3, <1>4
<1>8. PythonPlaces(q, more, text, n + 1, context)
  BY <1>1, <1>6, <1>7 DEF PythonPlaces
<1> QED  BY <1>8 DEF more

LEMMA PythonPlacesFound ==
  ASSUME NEW text \in Seq(Lines), NEW context
  PROVE  \E p : PythonPlaces(p, ReducePython(text, context), text, Len(text), context)
PROOF
<1> DEFINE L == Len(text)
           after == PythonPrefixes(text, context)
           T == DiagnosticsOf("python")
<1>1. L \in Nat /\ \A n \in 1..L : text[n] \in Lines
  OBVIOUS
<1>2. /\ after[0] = NewPython
      /\ \A n \in 0..L : after[n] \in PythonAccType
      /\ \A n \in 1..L : after[n] = ReducedPythonLine(after[n - 1], text[n], context)
  BY PythonCourse
<1>3. ReducePython(text, context) = after[L].found
  BY DEF ReducePython
<1>4. \A acc \in PythonAccType : acc.found \in Seq(T)
  BY DEF PythonAccType
<1> HIDE DEF L, after, T
<1> DEFINE P == {n \in Nat : n <= L => \E p : PythonPlaces(p, after[n].found, text, n, context)}
<1>5. 0 \in P
  <2>1. Len(after[0].found) = 0 /\ 1..0 = {}
    BY <1>2 DEF NewPython
  <2>2. PythonPlaces(<<>>, after[0].found, text, 0, context)
    BY <2>1 DEF PythonPlaces
  <2> QED  BY <2>2
<1>6. ASSUME NEW m \in P PROVE m + 1 \in P
  <2> SUFFICES ASSUME m + 1 <= L
               PROVE  \E q : PythonPlaces(q, after[m + 1].found, text, m + 1, context)
    OBVIOUS
  <2> DEFINE line == text[m + 1]
             acc == after[m]
             next == after[m + 1]
  <2>1. m \in Nat /\ m + 1 \in 1..L /\ (m + 1) - 1 = m /\ m \in 0..L /\ m <= L
    BY <1>1
  <2>2. PICK p : PythonPlaces(p, acc.found, text, m, context)
    BY <2>1
  <2>3. next = ReducedPythonLine(acc, line, context) /\ acc \in PythonAccType /\ line \in Lines
    BY <1>1, <1>2, <2>1
  <2>4. CASE next.found = acc.found
    <3>1. \A i \in 1..m : i \in 1..(m + 1)
      BY <2>1
    <3>2. PythonPlaces(p, next.found, text, m + 1, context)
      BY <2>2, <2>4, <3>1 DEF PythonPlaces
    <3> QED  BY <3>2
  <2>5. ASSUME NEW one \in T, one.line = line, next.found = Append(acc.found, one),
               ~ClaimedTestException(line, context)
        PROVE  \E q : PythonPlaces(q, next.found, text, m + 1, context)
    <3>1. acc.found \in Seq(T)
      BY <1>4, <2>3
    <3>2. \E q : PythonPlaces(q, Append(acc.found, one), text, m + 1, context)
      BY <2>1, <2>2, <2>5, <3>1, PythonPlacesMore
    <3> QED  BY <2>5, <3>2
  <2>6. \/ next.found = acc.found
        \/ /\ ~ClaimedTestException(line, context)
           /\ \E one \in T : one.line = line /\ next.found = Append(acc.found, one)
    <3>1. CASE ClaimedTestException(line, context)
      BY <2>3, <3>1 DEF ReducedPythonLine
    <3>2. CASE ~ClaimedTestException(line, context)
      <4>1. next = ReducePythonLine(acc, line, ObservePython(acc.location, line))
        BY <2>3, <3>2 DEF ReducedPythonLine
      <4> HIDE DEF next, acc, line
      <4> QED  BY <2>3, <3>2, <4>1, PythonAdds DEF T
    <3> QED  BY <3>1, <3>2
  <2> QED  BY <2>4, <2>5, <2>6
<1>7. P \in SUBSET Nat
  OBVIOUS
<1>8. P = Nat
  <2> HIDE DEF P
  <2> QED  BY <1>5, <1>6, <1>7, InductionOnNat
<1>9. L \in P /\ L <= L
  BY <1>1, <1>8
<1>10. \E p : PythonPlaces(p, after[L].found, text, L, context)
  BY <1>9
<1> QED  BY <1>3, <1>10 DEF L

----------------------------------------------------------------------------
(* Each exception is reported once *)

(* Each finding has a line of its owner's, and no two of one owner have    *)
(* the same.                                                               *)
Spreads(p, found, text, own) ==
  /\ \A n \in 1..Len(found) : found[n].owner \in ExceptionOwners =>
       p[n] \in own[found[n].owner] /\ found[n].line = text[p[n]]
  /\ \A m, n \in 1..Len(found) :
       m # n /\ found[m].owner = found[n].owner /\ found[m].owner \in ExceptionOwners =>
         p[m] # p[n]
Spread(found, text, own) == \E p : Spreads(p, found, text, own)

LEMMA SpreadNone ==
  ASSUME NEW A, NEW a, From(a, A), A \cap ExceptionOwners = {}, NEW text, NEW own
  PROVE  Spread(a, text, own)
PROOF
<1>1. \A n \in 1..Len(a) : a[n].owner \notin ExceptionOwners
  BY DEF From
<1>2. Spreads(<<>>, a, text, own)
  BY <1>1 DEF Spreads
<1> QED  BY <1>2 DEF Spread

LEMMA SpreadTwo ==
  ASSUME NEW A, NEW B, NEW a, NEW b, From(a, A), From(b, B), A \cap B \cap ExceptionOwners = {},
         NEW text, NEW own, Spread(a, text, own), Spread(b, text, own)
  PROVE  Spread(a \o b, text, own)
PROOF
<1>1. PICK p : Spreads(p, a, text, own)
  BY DEF Spread
<1>2. PICK q : Spreads(q, b, text, own)
  BY DEF Spread
<1> DEFINE x == Len(a)
           y == Len(b)
           both == a \o b
           r == [n \in 1..(x + y) |-> IF n <= x THEN p[n] ELSE q[n - x]]
<1>3. /\ x \in Nat /\ y \in Nat /\ Len(both) = x + y
      /\ \A n \in 1..x : both[n] = a[n]
      /\ \A n \in (x + 1)..(x + y) : both[n] = b[n - x]
  BY DEF From
<1>4. /\ \A n \in 1..x : n \in 1..(x + y) /\ n <= x
      /\ \A n \in (x + 1)..(x + y) : n \in 1..(x + y) /\ ~(n <= x) /\ n - x \in 1..y
      /\ \A n \in 1..(x + y) : n \in 1..x \/ n \in (x + 1)..(x + y)
      /\ \A m, n \in (x + 1)..(x + y) : m # n => m - x # n - x
  BY <1>3
<1>5. /\ \A n \in 1..x : r[n] = p[n]
      /\ \A n \in (x + 1)..(x + y) : r[n] = q[n - x]
  BY <1>4
<1>6. /\ \A n \in 1..x : a[n].owner \in A
      /\ \A n \in 1..y : b[n].owner \in B
  BY DEF From
<1> HIDE DEF both, r
<1>7. /\ \A n \in 1..x : a[n].owner \in ExceptionOwners =>
           p[n] \in own[a[n].owner] /\ a[n].line = text[p[n]]
      /\ \A m, n \in 1..x :
           m # n /\ a[m].owner = a[n].owner /\ a[m].owner \in ExceptionOwners => p[m] # p[n]
      /\ \A n \in 1..y : b[n].owner \in ExceptionOwners =>
           q[n] \in own[b[n].owner] /\ b[n].line = text[q[n]]
      /\ \A m, n \in 1..y :
           m # n /\ b[m].owner = b[n].owner /\ b[m].owner \in ExceptionOwners => q[m] # q[n]
  BY <1>1, <1>2 DEF Spreads
<1> HIDE DEF x, y
<1>8. \A n \in 1..(x + y) : both[n].owner \in ExceptionOwners =>
        r[n] \in own[both[n].owner] /\ both[n].line = text[r[n]]
  BY <1>3, <1>4, <1>5, <1>7
<1>9. \A m, n \in 1..(x + y) :
        m # n /\ both[m].owner = both[n].owner /\ both[m].owner \in ExceptionOwners => r[m] # r[n]
  <2> SUFFICES ASSUME NEW m \in 1..(x + y), NEW n \in 1..(x + y), m # n,
                      both[m].owner = both[n].owner, both[m].owner \in ExceptionOwners
               PROVE  r[m] # r[n]
    OBVIOUS
  <2>1. CASE m \in 1..x /\ n \in 1..x
    BY <1>3, <1>5, <1>7, <2>1
  <2>2. CASE m \in (x + 1)..(x + y) /\ n \in (x + 1)..(x + y)
    BY <1>3, <1>4, <1>5, <1>7, <2>2
  <2>3. \A k \in 1..x, l \in (x + 1)..(x + y) :
          both[k].owner \in ExceptionOwners => both[k].owner # both[l].owner
    <3>1. \A k \in 1..x : both[k].owner \in A
      BY <1>3, <1>6
    <3>2. \A l \in (x + 1)..(x + y) : both[l].owner \in B
      BY <1>3, <1>4, <1>6
    <3> QED  BY <3>1, <3>2
  <2> QED  BY <1>4, <2>1, <2>2, <2>3
<1>10. Spreads(r, both, text, own)
  BY <1>3, <1>8, <1>9 DEF Spreads
<1> QED  BY <1>10 DEF Spread, both

IsTold(report) == \E one : report = <<one>>
(* The lines that are each owner's.                                        *)
OwnLines(text, node, java, context) ==
  [owner \in ExceptionOwners |->
     CASE owner = "javascript-test" ->
            {i \in DOMAIN text : /\ IsTold(NodeReports(text)[i])
                                 /\ <<Reads[text[i]].node_exception>> \in Messages(node)}
       [] owner = "java-test" ->
            {i \in DOMAIN text : /\ IsTold(JavaReports(text)[i])
                                 /\ <<Reads[text[i]].java_exception>> \in Messages(java)}
       [] owner = "python" -> {i \in DOMAIN text : ~ClaimedTestException(text[i], context)}]

LEMMA OwnLinesAre ==
  ASSUME NEW text, NEW node, NEW java, NEW context, NEW i
  PROVE  LET own == OwnLines(text, node, java, context)
         IN  /\ i \in own["javascript-test"] <=>
                  /\ i \in DOMAIN text /\ IsTold(NodeReports(text)[i])
                  /\ <<Reads[text[i]].node_exception>> \in Messages(node)
             /\ i \in own["java-test"] <=>
                  /\ i \in DOMAIN text /\ IsTold(JavaReports(text)[i])
                  /\ <<Reads[text[i]].java_exception>> \in Messages(java)
             /\ i \in own["python"] <=>
                  i \in DOMAIN text /\ ~ClaimedTestException(text[i], context)
PROOF
<1>1. /\ "javascript-test" \in ExceptionOwners /\ "java-test" \in ExceptionOwners
      /\ "python" \in ExceptionOwners
  BY DEF ExceptionOwners
<1> QED  BY <1>1 DEF OwnLines

LEMMA SpreadEmpty ==
  ASSUME NEW text, NEW own
  PROVE  Spread(<<>>, text, own)
PROOF
<1>1. Len(<<>>) = 0 /\ 1..0 = {}
  OBVIOUS
<1>2. Spreads(<<>>, <<>>, text, own)
  BY <1>1 DEF Spreads
<1> QED  BY <1>2 DEF Spread

LEMMA NodeSpread ==
  ASSUME NEW text, WrittenText(text), NEW java, NEW context
  PROVE  LET node == NodeReference(text, TRUE)
         IN  Spread(node, text, OwnLines(text, node, java, context))
PROOF
<1> DEFINE R == NodeReports(text)
           L == Len(text)
           T == Singles(L, R)
           node == NodeReference(text, TRUE)
           own == OwnLines(text, node, java, context)
<1>1. L \in Nat /\ text \in Seq(Lines) /\ DOMAIN text = 1..L
  BY DEF WrittenText
<1>2. R \in [1..L -> Seq(T)] /\ node = FlattenSeq(R)
  BY NodeReportsType DEF NodeReference, NodeReports, NodeLeading
<1>3. \A i \in 1..L : R[i] = <<>> \/ \E x \in T : R[i] = <<x>>
  <2> SUFFICES ASSUME NEW i \in 1..L PROVE R[i] = <<>> \/ \E x \in T : R[i] = <<x>>
    OBVIOUS
  <2>1. R[i] = <<>> \/ \E x : R[i] = <<x>>
    BY <1>1 DEF NodeReports, NodeReport
  <2> HIDE DEF R
  <2>2. ASSUME NEW x, R[i] = <<x>> PROVE x \in T
    <3>1. R[i][1] = x
      BY <2>2
    <3> QED  BY <3>1 DEF Singles
  <2> QED  BY <2>1, <2>2
<1> HIDE DEF T, node
<1>4. PICK p : Locates(p, node, R, L)
  <2> HIDE DEF R, L
  <2> QED  BY <1>1, <1>2, <1>3, FlattenPlaces
<1>5. \A n \in 1..Len(node) : p[n] \in 1..L /\ R[p[n]] = <<node[n]>>
  BY <1>4 DEF Locates
<1>6. \A n \in 1..Len(node) :
        /\ node[n].line = text[p[n]] /\ node[n].owner = "javascript-test"
        /\ node[n].message = <<Reads[text[p[n]]].node_exception>>
  <2> SUFFICES ASSUME NEW n \in 1..Len(node)
               PROVE  /\ node[n].line = text[p[n]] /\ node[n].owner = "javascript-test"
                      /\ node[n].message = <<Reads[text[p[n]]].node_exception>>
    OBVIOUS
  <2> DEFINE i == p[n]
             x == node[n]
  <2>1. i \in 1..Len(text) /\ NodeReports(text)[i] = <<x>>
    BY <1>5
  <2> HIDE DEF i, x
  <2>2. x.line = text[i] /\ x.message = <<Reads[text[i]].node_exception>> /\ x.owner = "javascript-test"
    BY <1>1, <2>1, NodeReportSays
  <2> QED  BY <2>2 DEF i, x
<1>7. \A n \in 1..Len(node) : n \in DOMAIN node
  <2>1. node \in Seq(T)
    <3>1. PICK flat : Flattens(flat, T, L, R) /\ node = flat[L]
      BY <1>1, <1>2, FlattenCourse
    <3>2. L \in 0..L
      BY <1>1
    <3> QED  BY <3>1, <3>2 DEF Flattens
  <2> QED  BY <2>1
<1>8. \A n \in 1..Len(node) : <<Reads[text[p[n]]].node_exception>> \in Messages(node)
  BY <1>6, <1>7 DEF Messages
<1>9. \A n \in 1..Len(node) : p[n] \in own["javascript-test"]
  <2> SUFFICES ASSUME NEW n \in 1..Len(node) PROVE p[n] \in own["javascript-test"]
    OBVIOUS
  <2> DEFINE i == p[n]
             x == node[n]
  <2>1. /\ i \in DOMAIN text /\ NodeReports(text)[i] = <<x>>
        /\ <<Reads[text[i]].node_exception>> \in Messages(node)
    BY <1>1, <1>5, <1>8
  <2> HIDE DEF i, x
  <2>2. IsTold(NodeReports(text)[i])
    BY <2>1 DEF IsTold
  <2>3. i \in own["javascript-test"]
    <3> HIDE DEF R
    <3> QED  BY <2>1, <2>2, OwnLinesAre
  <2> QED  BY <2>3 DEF i
<1>10. \A m, n \in 1..Len(node) : m # n => p[m] # p[n]
  BY <1>4 DEF Locates
<1> HIDE DEF own
<1>11. Spreads(p, node, text, own)
  BY <1>6, <1>9, <1>10 DEF Spreads
<1> QED  BY <1>11 DEF Spread, own, node

LEMMA JavaSpread ==
  ASSUME NEW text, WrittenText(text), NEW node, NEW context
  PROVE  LET java == JavaReference(text, TRUE)
         IN  Spread(java, text, OwnLines(text, node, java, context))
PROOF
<1> DEFINE R == JavaReports(text)
           L == Len(text)
           T == Singles(L, R)
           java == JavaReference(text, TRUE)
           own == OwnLines(text, node, java, context)
<1>1. L \in Nat /\ text \in Seq(Lines) /\ DOMAIN text = 1..L
  BY DEF WrittenText
<1>2. R \in [1..L -> Seq(T)] /\ java = FlattenSeq(R)
  BY JavaReportsType DEF JavaReference, JavaReports
<1>3. \A i \in 1..L : R[i] = <<>> \/ \E x \in T : R[i] = <<x>>
  <2> SUFFICES ASSUME NEW i \in 1..L PROVE R[i] = <<>> \/ \E x \in T : R[i] = <<x>>
    OBVIOUS
  <2>1. R[i] = <<>> \/ \E x : R[i] = <<x>>
    BY <1>1 DEF JavaReports, JavaReport
  <2> HIDE DEF R
  <2>2. ASSUME NEW x, R[i] = <<x>> PROVE x \in T
    <3>1. R[i][1] = x
      BY <2>2
    <3> QED  BY <3>1 DEF Singles
  <2> QED  BY <2>1, <2>2
<1> HIDE DEF T, java
<1>4. PICK p : Locates(p, java, R, L)
  <2> HIDE DEF R, L
  <2> QED  BY <1>1, <1>2, <1>3, FlattenPlaces
<1>5. \A n \in 1..Len(java) : p[n] \in 1..L /\ R[p[n]] = <<java[n]>>
  BY <1>4 DEF Locates
<1>6. \A n \in 1..Len(java) :
        /\ java[n].line = text[p[n]] /\ java[n].owner = "java-test"
        /\ java[n].message = <<Reads[text[p[n]]].java_exception>>
  <2> SUFFICES ASSUME NEW n \in 1..Len(java)
               PROVE  /\ java[n].line = text[p[n]] /\ java[n].owner = "java-test"
                      /\ java[n].message = <<Reads[text[p[n]]].java_exception>>
    OBVIOUS
  <2> DEFINE i == p[n]
             x == java[n]
  <2>1. i \in 1..Len(text) /\ JavaReports(text)[i] = <<x>>
    BY <1>5
  <2> HIDE DEF i, x
  <2>2. x.line = text[i] /\ x.message = <<Reads[text[i]].java_exception>> /\ x.owner = "java-test"
    BY <1>1, <2>1, JavaReportSays
  <2> QED  BY <2>2 DEF i, x
<1>7. \A n \in 1..Len(java) : n \in DOMAIN java
  <2>1. java \in Seq(T)
    <3>1. PICK flat : Flattens(flat, T, L, R) /\ java = flat[L]
      BY <1>1, <1>2, FlattenCourse
    <3>2. L \in 0..L
      BY <1>1
    <3> QED  BY <3>1, <3>2 DEF Flattens
  <2> QED  BY <2>1
<1>8. \A n \in 1..Len(java) : <<Reads[text[p[n]]].java_exception>> \in Messages(java)
  BY <1>6, <1>7 DEF Messages
<1>9. \A n \in 1..Len(java) : p[n] \in own["java-test"]
  <2> SUFFICES ASSUME NEW n \in 1..Len(java) PROVE p[n] \in own["java-test"]
    OBVIOUS
  <2> DEFINE i == p[n]
             x == java[n]
  <2>1. /\ i \in DOMAIN text /\ JavaReports(text)[i] = <<x>>
        /\ <<Reads[text[i]].java_exception>> \in Messages(java)
    BY <1>1, <1>5, <1>8
  <2> HIDE DEF i, x
  <2>2. IsTold(JavaReports(text)[i])
    BY <2>1 DEF IsTold
  <2>3. i \in own["java-test"]
    <3> HIDE DEF R
    <3> QED  BY <2>1, <2>2, OwnLinesAre
  <2> QED  BY <2>3 DEF i
<1>10. \A m, n \in 1..Len(java) : m # n => p[m] # p[n]
  BY <1>4 DEF Locates
<1> HIDE DEF own
<1>11. Spreads(p, java, text, own)
  BY <1>6, <1>9, <1>10 DEF Spreads
<1> QED  BY <1>11 DEF Spread, own, java

LEMMA PythonSpread ==
  ASSUME NEW text, WrittenText(text), NEW node, NEW java, NEW context
  PROVE  Spread(ReducePython(text, context), text, OwnLines(text, node, java, context))
PROOF
<1> DEFINE python == ReducePython(text, context)
           own == OwnLines(text, node, java, context)
<1>1. text \in Seq(Lines) /\ DOMAIN text = 1..Len(text)
  BY DEF WrittenText
<1>2. /\ From(python, {"python"})
      /\ \E p : PythonPlaces(p, python, text, Len(text), context)
  <2>1. python \in Seq(DiagnosticsOf("python"))
    BY <1>1, PythonPlaced
  <2>2. From(python, {"python"})
    BY <2>1, OfFrom
  <2>3. \E p : PythonPlaces(p, python, text, Len(text), context)
    BY <1>1, PythonPlacesFound
  <2> QED  BY <2>2, <2>3
<1> HIDE DEF python
<1>3. PICK p : PythonPlaces(p, python, text, Len(text), context)
  BY <1>2
<1>4. \A n \in 1..Len(python) : python[n].owner = "python"
  BY <1>2 DEF From
<1>5. \A n \in 1..Len(python) : p[n] \in own["python"] /\ python[n].line = text[p[n]]
  <2> SUFFICES ASSUME NEW n \in 1..Len(python)
               PROVE  p[n] \in own["python"] /\ python[n].line = text[p[n]]
    OBVIOUS
  <2> DEFINE i == p[n]
  <2>1. /\ i \in DOMAIN text /\ ~ClaimedTestException(text[i], context)
        /\ python[n].line = text[i]
    BY <1>1, <1>3 DEF PythonPlaces
  <2> HIDE DEF i
  <2>2. i \in own["python"]
    BY <2>1, OwnLinesAre
  <2> QED  BY <2>1, <2>2 DEF i
<1>6. \A m, n \in 1..Len(python) : m # n => p[m] # p[n]
  BY <1>3 DEF PythonPlaces
<1> HIDE DEF own
<1>7. Spreads(p, python, text, own)
  BY <1>4, <1>5, <1>6 DEF Spreads
<1> QED  BY <1>7 DEF Spread, own, python

LEMMA SpreadTogether ==
  ASSUME NEW swc, From(swc, {"javascript-swc"}), NEW linker, From(linker, {"cpp-linker"}),
         NEW javac, From(javac, {"java-compiler"}), NEW rust, From(rust, {"rust-compiler"}),
         NEW node, From(node, {"javascript-test"}), NEW java, From(java, {"java-test"}),
         NEW python, From(python, {"python"}), NEW more, From(more, LineOwnersSet),
         NEW text, NEW own, Spread(node, text, own), Spread(java, text, own),
         Spread(python, text, own)
  PROVE  /\ Spread(Together(swc, linker, javac, rust, node, java, python, more), text, own)
         /\ \E A : From(Together(swc, linker, javac, rust, node, java, python, more), A)
PROOF
<1> DEFINE all == Together(swc, linker, javac, rust, node, java, python, more)
           p1 == linker \o javac
           p2 == p1 \o rust
           p3 == swc \o p2
           p4 == p3 \o node
           p5 == p4 \o java
           p6 == p5 \o python
           A1 == {"cpp-linker"} \cup {"java-compiler"}
           A2 == A1 \cup {"rust-compiler"}
           A3 == {"javascript-swc"} \cup A2
           A4 == A3 \cup {"javascript-test"}
           A5 == A4 \cup {"java-test"}
           A6 == A5 \cup {"python"}
<1>1. all = p6 \o more
  BY DEF Together
<1> HIDE DEF all
<1>2. /\ A3 \cap ExceptionOwners = {} /\ LineOwnersSet \cap ExceptionOwners = {}
      /\ A3 \cap {"javascript-test"} \cap ExceptionOwners = {}
      /\ A4 \cap {"java-test"} \cap ExceptionOwners = {}
      /\ A5 \cap {"python"} \cap ExceptionOwners = {}
      /\ A6 \cap LineOwnersSet \cap ExceptionOwners = {}
  BY LineOwnersAre DEF ExceptionOwners
<1> HIDE DEF A1, A2, A3, A4, A5, A6
<1>4. From(p1, A1)
  BY FromTwo DEF A1
<1> HIDE DEF p1
<1>5. From(p2, A2)
  BY <1>4, FromTwo DEF A2
<1> HIDE DEF p2
<1>7. From(p3, A3)
  BY <1>5, FromTwo DEF A3
<1> HIDE DEF p3
<1>8. Spread(p3, text, own)
  BY <1>2, <1>7, SpreadNone
<1>9. From(p4, A4)
  BY <1>7, FromTwo DEF A4
<1>10. Spread(p4, text, own)
  BY <1>2, <1>7, <1>8, SpreadTwo
<1> HIDE DEF p4
<1>11. From(p5, A5)
  BY <1>9, FromTwo DEF A5
<1>12. Spread(p5, text, own)
  BY <1>2, <1>9, <1>10, SpreadTwo
<1> HIDE DEF p5
<1>13. From(p6, A6)
  BY <1>11, FromTwo DEF A6
<1>14. Spread(p6, text, own)
  BY <1>2, <1>11, <1>12, SpreadTwo
<1> HIDE DEF p6
<1>15. From(p6 \o more, A6 \cup LineOwnersSet)
  BY <1>13, FromTwo
<1>16. Spread(more, text, own)
  BY <1>2, SpreadNone
<1>17. Spread(p6 \o more, text, own)
  BY <1>2, <1>13, <1>14, <1>16, SpreadTwo
<1>18. Spread(all, text, own) /\ From(all, A6 \cup LineOwnersSet)
  BY <1>1, <1>15, <1>17
<1>19. \E A : From(all, A)
  BY <1>18
<1> QED  BY <1>18, <1>19 DEF all

LEMMA SpreadReported ==
  ASSUME NEW text, WrittenText(text), NEW node, NEW java, NEW context,
         context.javascript_test_messages = Messages(node),
         context.java_test_messages = Messages(java),
         NEW all, NEW A, From(all, A), Spread(all, text, OwnLines(text, node, java, context))
  PROVE  ReportedOnce(text, all)
PROOF
<1> DEFINE own == OwnLines(text, node, java, context)
<1>1. /\ text \in Seq(Lines) /\ Len(text) \in Nat /\ DOMAIN text = 1..Len(text)
      /\ DOMAIN all = 1..Len(all)
  BY DEF WrittenText, From
<1>2. PICK p : Spreads(p, all, text, own)
  BY DEF Spread
<1>3. ASSUME NEW i \in own["python"]
      PROVE  i \notin own["javascript-test"] /\ i \notin own["java-test"]
             /\ i \in DOMAIN text /\ ~ClaimedTestException(text[i], context)
  <2>1. i \in DOMAIN text /\ ~ClaimedTestException(text[i], context)
    BY <1>3, OwnLinesAre
  <2>2. /\ <<Reads[text[i]].node_exception>> \notin Messages(node)
        /\ <<Reads[text[i]].java_exception>> \notin Messages(java)
    BY <2>1 DEF ClaimedTestException
  <2>3. i \notin own["javascript-test"] /\ i \notin own["java-test"]
    BY <2>2, OwnLinesAre
  <2> QED  BY <2>1, <2>3
<1>4. ASSUME NEW owner \in {"javascript-test", "java-test"}, NEW i \in own[owner]
      PROVE  i \in DOMAIN text /\ ClaimedTestException(text[i], context)
  <2>1. CASE owner = "javascript-test"
    <3>1. i \in DOMAIN text /\ <<Reads[text[i]].node_exception>> \in Messages(node)
      BY <1>4, <2>1, OwnLinesAre
    <3> QED  BY <3>1 DEF ClaimedTestException
  <2>2. CASE owner = "java-test"
    <3>1. i \in DOMAIN text /\ <<Reads[text[i]].java_exception>> \in Messages(java)
      BY <1>4, <2>2, OwnLinesAre
    <3> QED  BY <3>1 DEF ClaimedTestException
  <2> QED  BY <2>1, <2>2
<1>5. ExceptionOwners = {"javascript-test", "java-test", "python"}
  BY DEF ExceptionOwners
<1>6. (\A line \in Range(text) : ~Ambiguous(line)) =>
        \A i : ~(i \in own["javascript-test"] /\ i \in own["java-test"])
  <2> SUFFICES ASSUME \A line \in Range(text) : ~Ambiguous(line), NEW i,
                      i \in own["javascript-test"], i \in own["java-test"]
               PROVE  FALSE
    OBVIOUS
  <2>1. i \in DOMAIN text /\ IsTold(NodeReports(text)[i])
    BY OwnLinesAre
  <2>2. IsTold(JavaReports(text)[i])
    BY OwnLinesAre
  <2>3. PICK one : NodeReports(text)[i] = <<one>>
    BY <2>1 DEF IsTold
  <2>4. PICK other : JavaReports(text)[i] = <<other>>
    BY <2>2 DEF IsTold
  <2>5. i \in 1..Len(text)
    BY <1>1, <2>1
  <2> HIDE DEF own
  <2> QED  BY <2>3, <2>4, <2>5, OneConfirms
<1> HIDE DEF own
<1>7. /\ \A n \in 1..Len(all) : all[n].owner \in ExceptionOwners =>
           p[n] \in own[all[n].owner] /\ all[n].line = text[p[n]]
      /\ \A m, n \in 1..Len(all) :
           m # n /\ all[m].owner = all[n].owner /\ all[m].owner \in ExceptionOwners => p[m] # p[n]
  BY <1>2 DEF Spreads
<1>8. ASSUME NEW m \in DOMAIN all, NEW n \in DOMAIN all,
             all[m].owner = "python", all[n].owner \in ExceptionOwners \ {"python"}
      PROVE  all[m].line # all[n].line
  <2>1. p[m] \in own["python"] /\ all[m].line = text[p[m]]
    BY <1>1, <1>5, <1>7, <1>8
  <2>2. /\ all[n].owner \in {"javascript-test", "java-test"}
        /\ p[n] \in own[all[n].owner] /\ all[n].line = text[p[n]]
    BY <1>1, <1>5, <1>7, <1>8
  <2>3. ~ClaimedTestException(all[m].line, context)
    BY <1>3, <2>1
  <2>4. ClaimedTestException(all[n].line, context)
    BY <1>4, <2>2
  <2> QED  BY <2>3, <2>4
<1>9. ASSUME \A line \in Range(text) : ~Ambiguous(line), NEW line \in Range(text)
      PROVE  Cardinality({n \in DOMAIN all : all[n].line = line /\ all[n].owner \in ExceptionOwners})
               <= Occurrences(text, line)
  <2> DEFINE S == {n \in DOMAIN all : all[n].line = line /\ all[n].owner \in ExceptionOwners}
             T == {i \in DOMAIN text : text[i] = line}
             f == [n \in S |-> p[n]]
  <2>1. \A n \in S : n \in 1..Len(all) /\ all[n].owner \in ExceptionOwners /\ all[n].line = line
    BY <1>1
  <2>2. \A n \in S : p[n] \in own[all[n].owner] /\ text[p[n]] = line /\ p[n] \in DOMAIN text
    <3> SUFFICES ASSUME NEW n \in S
                 PROVE  p[n] \in own[all[n].owner] /\ text[p[n]] = line /\ p[n] \in DOMAIN text
      OBVIOUS
    <3>1. p[n] \in own[all[n].owner] /\ text[p[n]] = line
      BY <1>7, <2>1
    <3>2. CASE all[n].owner = "python"
      BY <1>3, <3>1, <3>2
    <3>3. CASE all[n].owner \in {"javascript-test", "java-test"}
      BY <1>4, <3>1, <3>3
    <3> QED  BY <1>5, <2>1, <3>1, <3>2, <3>3
  <2>3. ASSUME NEW m \in S, NEW n \in S, m # n PROVE p[m] # p[n]
    <3>1. CASE all[m].owner = all[n].owner
      BY <1>7, <2>1, <2>3, <3>1
    <3>2. CASE all[m].owner # all[n].owner
      <4>1. \A i : ~(i \in own["javascript-test"] /\ i \in own["java-test"])
        BY <1>6, <1>9
      <4>2. p[m] \in own[all[m].owner] /\ p[n] \in own[all[n].owner]
        BY <2>2
      <4>3. all[m].owner \in ExceptionOwners /\ all[n].owner \in ExceptionOwners
        BY <2>1
      <4> QED  BY <1>3, <1>5, <3>2, <4>1, <4>2, <4>3
    <3> QED  BY <3>1, <3>2
  <2>4. \A n \in S : p[n] \in T
    BY <2>2
  <2>5. T \in SUBSET (1..Len(text)) /\ IsFiniteSet(T)
    <3>1. T \in SUBSET (1..Len(text)) /\ 1 \in Int /\ Len(text) \in Int
      BY <1>1
    <3> HIDE DEF T
    <3> QED  BY <3>1, FS_Interval, FS_Subset
  <2> HIDE DEF S, T
  <2>6. f \in Injection(S, T)
    BY <2>3, <2>4 DEF Injection, IsInjective
  <2>7. Cardinality(S) <= Cardinality(T)
    <3> HIDE DEF f
    <3> QED  BY <2>5, <2>6, FS_Injection
  <2>8. Occurrences(text, line) = Cardinality(T)
    BY DEF Occurrences, T
  <2> QED  BY <2>7, <2>8 DEF S
<1> QED  BY <1>8, <1>9 DEF ReportedOnce

----------------------------------------------------------------------------
(* Lines that look like errors: what is found stays found                  *)

Has(found, one) == \E n \in 1..Len(found) : found[n] = one

LEMMA HasEither ==
  ASSUME NEW T, NEW a \in Seq(T), NEW b \in Seq(T), NEW one, Has(a, one) \/ Has(b, one)
  PROVE  Has(a \o b, one)
PROOF
<1>1. CASE Has(a, one)
  <2>1. PICK n \in 1..Len(a) : a[n] = one
    BY <1>1 DEF Has
  <2>2. n \in 1..Len(a \o b) /\ (a \o b)[n] = one
    BY <2>1
  <2> QED  BY <2>2 DEF Has
<1>2. CASE Has(b, one)
  <2>1. PICK n \in 1..Len(b) : b[n] = one
    BY <1>2 DEF Has
  <2>2. Len(a) + n \in 1..Len(a \o b) /\ (a \o b)[Len(a) + n] = one
    BY <2>1
  <2> QED  BY <2>2 DEF Has
<1> QED  BY <1>1, <1>2

LEMMA GrowingHas ==
  ASSUME NEW T, NEW L \in Nat, NEW f, \A n \in 0..L : f[n] \in Seq(T),
         \A n \in 1..L : \E more \in Seq(T) : f[n] = f[n - 1] \o more,
         NEW i \in 0..L, NEW one, Has(f[i], one)
  PROVE  Has(f[L], one)
PROOF
<1> DEFINE P == {n \in Nat : i <= n /\ n <= L => Has(f[n], one)}
<1>1. 0 \in P
  <2>1. i <= 0 => i = 0
    OBVIOUS
  <2> QED  BY <2>1
<1>2. ASSUME NEW m \in P PROVE m + 1 \in P
  <2> SUFFICES ASSUME i <= m + 1, m + 1 <= L PROVE Has(f[m + 1], one)
    OBVIOUS
  <2>1. /\ m \in Nat /\ m + 1 \in 1..L /\ (m + 1) - 1 = m /\ m \in 0..L /\ m <= L
        /\ i = m + 1 \/ i <= m
    OBVIOUS
  <2>2. CASE i = m + 1
    BY <2>2
  <2>3. CASE i <= m
    <3>1. Has(f[m], one)
      BY <2>1, <2>3
    <3>2. PICK more \in Seq(T) : f[m + 1] = f[m] \o more
      BY <2>1
    <3> QED  BY <2>1, <3>1, <3>2, HasEither
  <2> QED  BY <2>1, <2>2, <2>3
<1>3. P \in SUBSET Nat
  OBVIOUS
<1>4. P = Nat
  <2> HIDE DEF P
  <2> QED  BY <1>1, <1>2, <1>3, InductionOnNat
<1>5. L \in P /\ i <= L /\ L <= L
  <2> HIDE DEF P
  <2> QED  BY <1>4
<1> QED  BY <1>5

LEMMA FlattenHas ==
  ASSUME NEW T, NEW L \in Nat, NEW R \in [1..L -> Seq(T)], NEW i \in 1..L, NEW one,
         R[i] = <<one>>
  PROVE  Has(FlattenSeq(R), one)
PROOF
<1>1. PICK flat : Flattens(flat, T, L, R) /\ FlattenSeq(R) = flat[L]
  BY FlattenCourse
<1>2. /\ \A n \in 0..L : flat[n] \in Seq(T)
      /\ \A n \in 1..L : flat[n] = flat[n - 1] \o R[n] /\ R[n] \in Seq(T)
  BY <1>1 DEF Flattens
<1>3. i \in 0..L /\ i - 1 \in 0..L
  OBVIOUS
<1>4. Has(R[i], one)
  <2> DEFINE s == R[i]
  <2>1. Len(s) = 1 /\ s[1] = one
    OBVIOUS
  <2> HIDE DEF s
  <2>2. Has(s, one)
    BY <2>1 DEF Has
  <2> QED  BY <2>2 DEF s
<1>5. Has(flat[i], one)
  <2>1. flat[i - 1] \in Seq(T) /\ R[i] \in Seq(T) /\ flat[i] = flat[i - 1] \o R[i]
    BY <1>2, <1>3
  <2>2. Has(flat[i - 1] \o R[i], one)
    BY <1>4, <2>1, HasEither
  <2> QED  BY <2>1, <2>2
<1>6. \A n \in 1..L : \E more \in Seq(T) : flat[n] = flat[n - 1] \o more
  BY <1>2
<1>7. Has(flat[L], one)
  BY <1>2, <1>3, <1>5, <1>6, GrowingHas
<1> QED  BY <1>1, <1>7

(* What a part of the findings says, all of them say. *)
Within(part, all) == \A n \in DOMAIN part : \E m \in DOMAIN all : all[m] = part[n]

LEMMA SaidByMore ==
  ASSUME NEW line, NEW part, NEW all, Within(part, all), SaidBy(line, part)
  PROVE  SaidBy(line, all)
PROOF
<1> DEFINE read == Reads[line]
           messages == {<<read.python_summary>>, <<read.java_exception>>, <<read.node_exception>>}
           Says(one) == \/ one.line = line
                        \/ one.message \in messages
                        \/ one.owner = "javascript-swc" /\ read.swc_wrapper
                        \/ one.owner = "javascript-swc" /\ read.swc_context \in Range(one.message)
<1>1. PICK n \in DOMAIN part : Says(part[n])
  BY DEF SaidBy
<1>2. PICK m \in DOMAIN all : all[m] = part[n]
  BY DEF Within
<1>3. Says(all[m])
  BY <1>1, <1>2
<1> QED  BY <1>2, <1>3 DEF SaidBy

LEMMA SaidByLine ==
  ASSUME NEW found, NEW n \in DOMAIN found
  PROVE  SaidBy(found[n].line, found)
BY DEF SaidBy

LEMMA WithinTwo ==
  ASSUME NEW A, NEW B, NEW a, NEW b, From(a, A), From(b, B)
  PROVE  Within(a, a \o b) /\ Within(b, a \o b)
PROOF
<1> DEFINE T == Range(a) \cup Range(b)
<1>1. a \in Seq(T) /\ b \in Seq(T)
  <2>1. a \in Seq(Range(a)) /\ b \in Seq(Range(b))
    BY DEF From
  <2>2. a \in Seq(T)
    BY <2>1
  <2>3. b \in Seq(T)
    BY <2>1
  <2> QED  BY <2>2, <2>3
<1> HIDE DEF T
<1>2. DOMAIN a = 1..Len(a) /\ DOMAIN b = 1..Len(b) /\ DOMAIN (a \o b) = 1..Len(a \o b)
  BY <1>1
<1>3. ASSUME NEW n \in DOMAIN a PROVE \E m \in DOMAIN (a \o b) : (a \o b)[m] = a[n]
  <2>1. Has(a, a[n])
    BY <1>2, <1>3 DEF Has
  <2>2. Has(a \o b, a[n])
    BY <1>1, <2>1, HasEither
  <2> QED  BY <1>2, <2>2 DEF Has
<1>4. ASSUME NEW n \in DOMAIN b PROVE \E m \in DOMAIN (a \o b) : (a \o b)[m] = b[n]
  <2>1. Has(b, b[n])
    BY <1>2, <1>4 DEF Has
  <2>2. Has(a \o b, b[n])
    BY <1>1, <2>1, HasEither
  <2> QED  BY <1>2, <2>2 DEF Has
<1> QED  BY <1>3, <1>4 DEF Within

LEMMA WithinTrans ==
  ASSUME NEW a, NEW b, NEW c, Within(a, b), Within(b, c)
  PROVE  Within(a, c)
PROOF
<1> SUFFICES ASSUME NEW n \in DOMAIN a PROVE \E m \in DOMAIN c : c[m] = a[n]
  BY DEF Within
<1>1. PICK k \in DOMAIN b : b[k] = a[n]
  BY DEF Within
<1>2. PICK m \in DOMAIN c : c[m] = b[k]
  BY DEF Within
<1> QED  BY <1>1, <1>2

LEMMA PartsWithin ==
  ASSUME NEW swc, From(swc, {"javascript-swc"}), NEW linker, From(linker, {"cpp-linker"}),
         NEW javac, From(javac, {"java-compiler"}), NEW rust, From(rust, {"rust-compiler"}),
         NEW node, From(node, {"javascript-test"}), NEW java, From(java, {"java-test"}),
         NEW python, From(python, {"python"}), NEW more, From(more, LineOwnersSet)
  PROVE  LET all == Together(swc, linker, javac, rust, node, java, python, more)
         IN  /\ Within(swc, all) /\ Within(linker, all) /\ Within(javac, all)
             /\ Within(node, all) /\ Within(java, all) /\ Within(python, all)
             /\ Within(more, all)
PROOF
<1> DEFINE b1 == linker \o javac
           b2 == b1 \o rust
           b3 == swc \o b2
           b4 == b3 \o node
           b5 == b4 \o java
           b6 == b5 \o python
           all == b6 \o more
<1>0. all = Together(swc, linker, javac, rust, node, java, python, more)
  BY DEF Together
<1>1. PICK A1 : From(b1, A1)
  BY FromTwo
<1>w1. Within(linker, b1) /\ Within(javac, b1)
  BY WithinTwo
<1>e2. b2 = b1 \o rust
  OBVIOUS
<1> HIDE DEF b1
<1>2. PICK A2 : From(b2, A2)
  BY <1>1, FromTwo
<1>w2. Within(b1, b2)
  BY <1>1, <1>e2, WithinTwo
<1> HIDE DEF b2
<1>3. PICK A3 : From(b3, A3)
  BY <1>2, FromTwo
<1>w3. Within(swc, b3) /\ Within(b2, b3)
  BY <1>2, WithinTwo
<1> HIDE DEF b3
<1>4. PICK A4 : From(b4, A4)
  BY <1>3, FromTwo
<1>w4. Within(b3, b4) /\ Within(node, b4)
  BY <1>3, WithinTwo
<1> HIDE DEF b4
<1>5. PICK A5 : From(b5, A5)
  BY <1>4, FromTwo
<1>w5. Within(b4, b5) /\ Within(java, b5)
  BY <1>4, WithinTwo
<1> HIDE DEF b5
<1>6. PICK A6 : From(b6, A6)
  BY <1>5, FromTwo
<1>w6. Within(b5, b6) /\ Within(python, b6)
  BY <1>5, WithinTwo
<1> HIDE DEF b6
<1>w7. Within(b6, all) /\ Within(more, all)
  BY <1>6, WithinTwo
<1> HIDE DEF all
<1>7. Within(b5, all) /\ Within(python, all)
  BY <1>w6, <1>w7, WithinTrans
<1>8. Within(b4, all) /\ Within(java, all)
  BY <1>w5, <1>7, WithinTrans
<1>9. Within(b3, all) /\ Within(node, all)
  BY <1>w4, <1>8, WithinTrans
<1>10. Within(b2, all) /\ Within(swc, all)
  BY <1>w3, <1>9, WithinTrans
<1>11. Within(b1, all)
  BY <1>w2, <1>10, WithinTrans
<1>12. Within(linker, all) /\ Within(javac, all)
  BY <1>w1, <1>11, WithinTrans
<1> QED  BY <1>0, <1>w7, <1>7, <1>8, <1>9, <1>10, <1>12
----------------------------------------------------------------------------
(* What the scan sees, and what each parser then says *)

LEMMA LineReadsTrue ==
  ASSUME NEW line \in Lines
  PROVE  /\ Reads[line].marks \subseteq Marks /\ Reads[line].interesting \in BOOLEAN
         /\ Reads[line].opens_linker \in BOOLEAN
<1>1. Reads[line] \in ReadingType
  BY ReadIs
<1> QED  BY <1>1 DEF ReadingType

LEMMA HintsSee ==
  ASSUME NEW text \in Seq(Lines), NEW one \in Range(text)
  PROVE  /\ Reads[one].marks \subseteq Hints(text)
         /\ Reads[one].opens_linker => "cpp_linker" \in Hints(text)
PROOF
<1> DEFINE interesting == {line \in Range(text) : Reads[line].interesting}
           opens_linker == \E line \in Range(text) \ interesting : Reads[line].opens_linker
           seen == UNION {Reads[line].marks : line \in interesting}
<1>1. one \in Lines
  BY DEF Range
<1>2. /\ Reads[one].marks # {} => Reads[one].interesting
      /\ Reads[one].opens_linker /\ Reads[one].interesting => "cpp_linker" \in Reads[one].marks
  BY <1>1, RecognisersAssumption DEF RecognisersAssumption
<1>3. Hints(text) = seen \cup (IF opens_linker THEN {"cpp_linker"} ELSE {})
  BY DEF Hints
<1>4. Reads[one].marks \subseteq seen
  <2>1. CASE Reads[one].marks = {}
    BY <2>1
  <2>2. CASE Reads[one].marks # {}
    BY <1>2, <2>2
  <2> QED  BY <2>1, <2>2
<1>5. ASSUME Reads[one].opens_linker PROVE "cpp_linker" \in seen \/ opens_linker
  <2>1. CASE Reads[one].interesting
    BY <1>2, <1>4, <1>5, <2>1
  <2>2. CASE ~Reads[one].interesting
    BY <1>5, <2>2
  <2> QED  BY <2>1, <2>2
<1> HIDE DEF seen, opens_linker
<1> QED  BY <1>3, <1>4, <1>5

LEMMA LinkerSays ==
  ASSUME NEW text \in Seq(Lines), NEW line \in Range(text), Reads[line].linker # 0,
         ~Reads[line].apple, Reads[line].apple_symbol = 0
  PROVE  SaidBy(line, CppLinker(text))
PROOF
<1> DEFINE L == Len(text)
           after == LinkerPrefixes(text)
           T == DiagnosticsOf("cpp-linker")
           said == Diagnostic("cpp-linker", line, <<Reads[line].linker>>, Reads[line].linker_place)
<1>1. L \in Nat /\ DOMAIN text = 1..L /\ \A n \in 1..L : text[n] \in Lines
  OBVIOUS
<1>2. /\ \A n \in 0..L : after[n] \in Results(LinkerType, T)
      /\ \A n \in 1..L : after[n] = And(after[n - 1], ObserveLinker(after[n - 1].parser, text[n]))
  BY LinkerCourse
<1>3. CppLinker(text) = after[L].found
  BY DEF CppLinker, Parsed, LinkerPrefixes
<1>4. PICK i \in 1..L : text[i] = line
  BY <1>1 DEF Range
<1> HIDE DEF L, after
<1> DEFINE f == [n \in 0..L |-> after[n].found]
<1>5. \A n \in 0..L : after[n].parser \in LinkerType /\ f[n] = after[n].found /\ f[n] \in Seq(T)
  BY <1>2 DEF Results
<1>6. \A n \in 1..L : n \in 0..L /\ n - 1 \in 0..L
  BY <1>1
<1>7. ASSUME NEW n \in 1..L
      PROVE  /\ ObserveLinker(after[n - 1].parser, text[n]).found \in Seq(T)
             /\ f[n] = f[n - 1] \o ObserveLinker(after[n - 1].parser, text[n]).found
  <2>1. ObserveLinker(after[n - 1].parser, text[n]) \in Results(LinkerType, T)
    BY <1>1, <1>5, <1>6, ObserveLinkerType
  <2> DEFINE next == ObserveLinker(after[n - 1].parser, text[n])
  <2>a. after[n] = And(after[n - 1], next)
    BY <1>2
  <2> HIDE DEF next
  <2>b. after[n].found = after[n - 1].found \o next.found
    <3> DEFINE acc == after[n - 1]
    <3> HIDE DEF acc
    <3>1. And(acc, next).found = acc.found \o next.found
      BY DEF And, Result
    <3> QED  BY <2>a, <3>1 DEF acc
  <2>2. after[n].found = after[n - 1].found \o ObserveLinker(after[n - 1].parser, text[n]).found
    BY <2>b DEF next
  <2> QED  BY <1>5, <1>6, <2>1, <2>2 DEF Results
<1>8. ObserveLinker(after[i - 1].parser, text[i]).found = <<said>>
  BY <1>4 DEF ObserveLinker, LinkerDiagnostic, Result
<1> HIDE DEF f, T
<1>9. Has(f[i], said)
  <2> DEFINE s == ObserveLinker(after[i - 1].parser, text[i]).found
  <2>1. Len(s) = 1 /\ s[1] = said
    BY <1>8
  <2>2. s \in Seq(T) /\ f[i] = f[i - 1] \o s /\ f[i - 1] \in Seq(T)
    BY <1>5, <1>6, <1>7
  <2> HIDE DEF s, said
  <2>3. Has(s, said)
    BY <2>1 DEF Has
  <2>4. Has(f[i - 1] \o s, said)
    BY <2>2, <2>3, HasEither
  <2> QED  BY <2>2, <2>4
<1>10. \A n \in 1..L : \E more \in Seq(T) : f[n] = f[n - 1] \o more
  BY <1>7
<1>11. said.line = line
  BY DEF Diagnostic
<1> HIDE DEF said
<1>12. Has(f[L], said)
  <2>1. \A n \in 0..L : f[n] \in Seq(T)
    BY <1>5
  <2>2. i \in 0..L /\ L \in Nat
    BY <1>1, <1>6
  <2> QED  BY <1>9, <1>10, <2>1, <2>2, GrowingHas
<1>13. f[L] = CppLinker(text) /\ CppLinker(text) \in Seq(T)
  BY <1>1, <1>3, <1>5
<1>14. PICK n \in 1..Len(CppLinker(text)) : CppLinker(text)[n] = said
  BY <1>12, <1>13 DEF Has
<1>15. n \in DOMAIN CppLinker(text)
  BY <1>13
<1> QED  BY <1>11, <1>14, <1>15 DEF SaidBy

LEMMA JavacSays ==
  ASSUME NEW text \in Seq(Lines), NEW line \in Range(text), Reads[line].javac # 0
  PROVE  SaidBy(line, JavaCompiler(text))
PROOF
<1> DEFINE n == Len(text)
           symbol(i) == IF Reads[text[i]].no_symbol THEN SymbolBelow(text, i) ELSE 0
           T == {JavacDiagnostic(text[i], symbol(i)) : i \in DOMAIN text}
           R == [i \in DOMAIN text |->
                  IF Reads[text[i]].javac = 0 THEN <<>> ELSE <<JavacDiagnostic(text[i], symbol(i))>>]
<1>1. n \in Nat /\ DOMAIN text = 1..n
  OBVIOUS
<1>2. ASSUME NEW i \in 1..n
      PROVE  R[i] \in Seq(T)
  <2> DEFINE d == JavacDiagnostic(text[i], symbol(i))
  <2>1. d \in T
    BY <1>1
  <2>2. R[i] = <<>> \/ R[i] = <<d>>
    BY <1>1
  <2> HIDE DEF d, T, R
  <2>3. <<d>> \in Seq(T) /\ <<>> \in Seq(T)
    BY <2>1
  <2> QED  BY <2>2, <2>3
<1>3. R = [i \in 1..n |-> R[i]]
  BY <1>1
<1>4. JavaCompiler(text) = FlattenSeq(R)
  BY DEF JavaCompiler
<1>5. PICK i \in 1..n : text[i] = line
  BY <1>1 DEF Range
<1>6. R[i] = <<JavacDiagnostic(line, symbol(i))>>
  BY <1>1, <1>5
<1>7. JavacDiagnostic(line, symbol(i)).line = line
  BY DEF JavacDiagnostic, Diagnostic
<1> DEFINE d == JavacDiagnostic(line, symbol(i))
<1>8. R[i] = <<d>> /\ d.line = line
  BY <1>6, <1>7
<1> HIDE DEF T, R, n, d
<1>9. R \in [1..n -> Seq(T)]
  BY <1>2, <1>3
<1>10. Has(FlattenSeq(R), d)
  BY <1>1, <1>8, <1>9, FlattenHas
<1>11. JavaCompiler(text) \in Seq(Range(JavaCompiler(text)))
  BY JavaCompilerFrom DEF From
<1>12. PICK m \in 1..Len(JavaCompiler(text)) : JavaCompiler(text)[m] = d
  BY <1>4, <1>10 DEF Has
<1>13. m \in DOMAIN JavaCompiler(text)
  BY <1>11
<1> QED  BY <1>8, <1>12, <1>13 DEF SaidBy

LEMMA TestExceptionSays ==
  ASSUME NEW line, NEW node, NEW java, NEW context,
         context.javascript_test_messages = Messages(node),
         context.java_test_messages = Messages(java),
         ClaimedTestException(line, context)
  PROVE  SaidBy(line, node) \/ SaidBy(line, java)
PROOF
<1>1. CASE <<Reads[line].node_exception>> \in Messages(node)
  BY <1>1 DEF SaidBy, Messages
<1>2. CASE <<Reads[line].java_exception>> \in Messages(java)
  BY <1>2 DEF SaidBy, Messages
<1> QED  BY <1>1, <1>2 DEF ClaimedTestException

(* Python's parser keeps the messages of exceptions that it has found.     *)
MessagesFound(acc) ==
  \A message \in acc.python_messages : \E one : Has(acc.found, one) /\ one.message = message
SaysAs(one, line) == one.line = line \/ one.message = <<Reads[line].python_summary>>

LEMMA PythonHears ==
  ASSUME NEW acc \in PythonAccType, MessagesFound(acc), NEW line \in Lines
  PROVE  LET next == ReducePythonLine(acc, line, ObservePython(acc.location, line))
         IN  /\ MessagesFound(next)
             /\ \E more \in Seq(DiagnosticsOf("python")) : next.found = acc.found \o more
             /\ IsPythonException(line) \/ Reads[line].python_summary # 0 =>
                  \E one : Has(next.found, one) /\ SaysAs(one, line)
PROOF
<1> DEFINE T == DiagnosticsOf("python")
           seen == ObservePython(acc.location, line)
           next == ReducePythonLine(acc, line, seen)
           summary == PythonSummary(line)
           one == PythonException(line, acc.location)
<1>1. /\ acc.location \in OptionalPlaces /\ acc.found \in Seq(T)
      /\ acc \in [location : OptionalPlaces, found : Seq(T),
                  python_messages : SUBSET Seq(OptionalTexts)]
  BY DEF PythonAccType
<1>2. seen.found = IF IsPythonException(line) THEN <<one>> ELSE <<>>
  BY PythonObserves
<1>4. one \in T /\ summary \in T
  BY <1>1, PythonExceptionType, PythonSummaryType
<1>5. one.line = line /\ summary.line = line /\ summary.message = <<Reads[line].python_summary>>
  BY DEF PythonException, PythonSummary, Diagnostic
<1> HIDE DEF T, seen, one, summary
<1>6. \A s : s = one \/ s = summary =>
        /\ <<s>> \in Seq(T) /\ Has(acc.found \o <<s>>, s)
        /\ \A x : Has(acc.found, x) => Has(acc.found \o <<s>>, x)
        /\ Append(acc.found, s) = acc.found \o <<s>>
  <2> SUFFICES ASSUME NEW s \in T
               PROVE  /\ <<s>> \in Seq(T) /\ Has(acc.found \o <<s>>, s)
                      /\ \A x : Has(acc.found, x) => Has(acc.found \o <<s>>, x)
                      /\ Append(acc.found, s) = acc.found \o <<s>>
    BY <1>4
  <2> DEFINE single == <<s>>
  <2>1. single \in Seq(T) /\ Len(single) = 1 /\ single[1] = s
    OBVIOUS
  <2>2. Append(acc.found, s) = acc.found \o single
    BY <1>1
  <2> HIDE DEF single
  <2>3. Has(single, s)
    BY <2>1 DEF Has
  <2>4. Has(acc.found \o single, s)
    BY <1>1, <2>1, <2>3, HasEither
  <2>5. ASSUME NEW x, Has(acc.found, x) PROVE Has(acc.found \o single, x)
    BY <1>1, <2>1, <2>5, HasEither
  <2> QED  BY <2>1, <2>2, <2>4, <2>5 DEF single
<1>7. CASE IsPythonException(line)
  <2> DEFINE found == acc.found \o <<one>>
             said == acc.python_messages \cup Messages(<<one>>)
  <2>1. next.found = found /\ next.python_messages = said
    BY <1>2, <1>7 DEF ReducePythonLine
  <2>2. Messages(<<one>>) = {one.message}
    <3> DEFINE single == <<one>>
    <3>1. DOMAIN single = {1} /\ single[1] = one
      OBVIOUS
    <3> HIDE DEF single
    <3>2. Messages(single) = {one.message}
      BY <3>1 DEF Messages
    <3> QED  BY <3>2 DEF single
  <2>3. \A message \in said : \E x : Has(found, x) /\ x.message = message
    <3> SUFFICES ASSUME NEW message \in said
                 PROVE  \E x : Has(found, x) /\ x.message = message
      OBVIOUS
    <3>1. CASE message \in acc.python_messages
      BY <1>6, <3>1 DEF MessagesFound
    <3>2. CASE message = one.message
      BY <1>6, <3>2
    <3> QED  BY <2>2, <3>1, <3>2
  <2>4. <<one>> \in Seq(T) /\ Has(found, one)
    BY <1>6
  <2>5. \E more \in Seq(T) : found = acc.found \o more
    BY <2>4
  <2> HIDE DEF found, said, next
  <2>6. MessagesFound(next)
    BY <2>1, <2>3 DEF MessagesFound
  <2>7. Has(next.found, one) /\ SaysAs(one, line)
    BY <1>5, <2>1, <2>4 DEF SaysAs
  <2> QED  BY <2>1, <2>5, <2>6, <2>7 DEF next, seen, T
<1>8. CASE ~IsPythonException(line)
  <2> DEFINE quiet == Reads[line].python_summary = 0 \/ summary.message \in acc.python_messages
             found == IF quiet THEN acc.found ELSE Append(acc.found, summary)
  <2>1. next = [acc EXCEPT !.location = seen.parser, !.found = found]
    BY <1>2, <1>8 DEF ReducePythonLine, summary
  <2>2. next.found = found /\ next.python_messages = acc.python_messages
    <3> HIDE DEF next, found
    <3> QED  BY <1>1, <2>1
  <2>3. CASE quiet
    <3>1. found = acc.found /\ acc.found \o <<>> = acc.found /\ <<>> \in Seq(T)
      BY <1>1, <2>3
    <3>2. Reads[line].python_summary # 0 => \E x : Has(found, x) /\ SaysAs(x, line)
      BY <1>5, <2>3, <3>1 DEF MessagesFound, SaysAs
    <3> HIDE DEF found, next
    <3>3. MessagesFound(next)
      BY <2>2, <3>1 DEF MessagesFound
    <3>4. \E more \in Seq(T) : next.found = acc.found \o more
      BY <2>2, <3>1
    <3> QED  BY <1>8, <2>2, <3>2, <3>3, <3>4 DEF next, seen, T
  <2>4. CASE ~quiet
    <3>1. found = acc.found \o <<summary>> /\ <<summary>> \in Seq(T) /\ Has(found, summary)
      BY <1>6, <2>4
    <3>2. \A x : Has(acc.found, x) => Has(found, x)
      BY <1>6, <2>4
    <3>3. SaysAs(summary, line)
      BY <1>5 DEF SaysAs
    <3> HIDE DEF found, next
    <3>4. MessagesFound(next)
      BY <2>2, <3>2 DEF MessagesFound
    <3>5. \E more \in Seq(T) : next.found = acc.found \o more
      BY <2>2, <3>1
    <3> QED  BY <2>2, <3>1, <3>3, <3>4, <3>5 DEF next, seen, T
  <2> QED  BY <2>3, <2>4
<1> QED  BY <1>7, <1>8

LEMMA PythonSays ==
  ASSUME NEW text \in Seq(Lines), NEW context, NEW line \in Range(text),
         ~ClaimedTestException(line, context),
         IsPythonException(line) \/ Reads[line].python_summary # 0
  PROVE  SaidBy(line, ReducePython(text, context))
PROOF
<1> DEFINE L == Len(text)
           after == PythonPrefixes(text, context)
           T == DiagnosticsOf("python")
<1>1. L \in Nat /\ DOMAIN text = 1..L /\ \A n \in 1..L : text[n] \in Lines
  OBVIOUS
<1>2. /\ after[0] = NewPython
      /\ \A n \in 0..L : after[n] \in PythonAccType
      /\ \A n \in 1..L : after[n] = ReducedPythonLine(after[n - 1], text[n], context)
  BY PythonCourse
<1>3. ReducePython(text, context) = after[L].found
  BY DEF ReducePython
<1>4. PICK i \in 1..L : text[i] = line
  BY <1>1 DEF Range
<1>5. \A acc \in PythonAccType : acc.found \in Seq(T)
  BY DEF PythonAccType
<1> HIDE DEF L, after
<1>6. \A n \in 1..L : n \in 0..L /\ n - 1 \in 0..L
  BY <1>1
<1> DEFINE Step(n) ==
             /\ MessagesFound(after[n])
             /\ \E more \in Seq(T) : after[n].found = after[n - 1].found \o more
             /\ n = i => \E one : Has(after[n].found, one) /\ SaysAs(one, line)
<1>7. ASSUME NEW n \in 1..L, MessagesFound(after[n - 1]) PROVE Step(n)
  <2> DEFINE acc == after[n - 1]
             next == ReducePythonLine(acc, text[n], ObservePython(acc.location, text[n]))
  <2>1. acc \in PythonAccType /\ text[n] \in Lines /\ acc.found \in Seq(T)
    BY <1>1, <1>2, <1>5, <1>6
  <2>2. CASE ClaimedTestException(text[n], context)
    <3>1. after[n] = acc /\ n # i
      BY <1>2, <1>4, <2>2 DEF ReducedPythonLine
    <3>2. acc.found \o <<>> = acc.found /\ <<>> \in Seq(T)
      BY <2>1
    <3> QED  BY <1>7, <3>1, <3>2
  <2>3. CASE ~ClaimedTestException(text[n], context)
    <3>1. after[n] = next
      BY <1>2, <2>3 DEF ReducedPythonLine
    <3> HIDE DEF acc, T
    <3>a. MessagesFound(acc)
      BY <1>7 DEF acc
    <3>2. /\ MessagesFound(next)
          /\ \E more \in Seq(T) : next.found = acc.found \o more
          /\ IsPythonException(text[n]) \/ Reads[text[n]].python_summary # 0 =>
               \E one : Has(next.found, one) /\ SaysAs(one, text[n])
      BY <2>1, <3>a, PythonHears DEF T
    <3> HIDE DEF next
    <3> QED  BY <1>4, <3>1, <3>2 DEF acc
  <2> QED  BY <2>2, <2>3
<1> HIDE DEF T
<1> DEFINE P == {n \in Nat : n <= L => MessagesFound(after[n])}
<1>8. 0 \in P
  BY <1>2 DEF NewPython, MessagesFound
<1>9. ASSUME NEW m \in P PROVE m + 1 \in P
  <2> SUFFICES ASSUME m + 1 <= L PROVE MessagesFound(after[m + 1])
    OBVIOUS
  <2>1. m + 1 \in 1..L /\ (m + 1) - 1 = m /\ m <= L
    BY <1>1
  <2> QED  BY <1>7, <2>1
<1>10. P = Nat
  <2>1. P \in SUBSET Nat
    OBVIOUS
  <2> HIDE DEF P
  <2> QED  BY <1>8, <1>9, <2>1, InductionOnNat
<1>11. \A n \in 1..L : Step(n)
  <2> SUFFICES ASSUME NEW n \in 1..L PROVE Step(n)
    OBVIOUS
  <2>1. n - 1 \in P /\ n - 1 <= L
    <3> HIDE DEF P
    <3> QED  BY <1>1, <1>10
  <2>2. MessagesFound(after[n - 1])
    BY <2>1
  <2> HIDE DEF Step
  <2> QED  BY <1>7, <2>2
<1>12. PICK one : Has(after[i].found, one) /\ SaysAs(one, line)
  BY <1>11
<1> DEFINE f == [n \in 0..L |-> after[n].found]
<1>13. \A n \in 0..L : f[n] = after[n].found /\ f[n] \in Seq(T)
  BY <1>2, <1>5
<1>14. \A n \in 1..L : \E more \in Seq(T) : f[n] = f[n - 1] \o more
  BY <1>6, <1>11, <1>13
<1> HIDE DEF f
<1>15. Has(f[L], one)
  <2>1. i \in 0..L /\ Has(f[i], one)
    BY <1>6, <1>12, <1>13
  <2>2. \A n \in 0..L : f[n] \in Seq(T)
    BY <1>13
  <2> QED  BY <1>1, <1>14, <2>1, <2>2, GrowingHas
<1>16. f[L] = ReducePython(text, context) /\ f[L] \in Seq(T)
  BY <1>1, <1>3, <1>13
<1>17. PICK n \in 1..Len(f[L]) : f[L][n] = one
  BY <1>15 DEF Has
<1>18. n \in DOMAIN f[L]
  BY <1>16
<1> QED  BY <1>12, <1>16, <1>17, <1>18 DEF SaidBy, SaysAs

----------------------------------------------------------------------------
(* The lines that belong to an error of SWC's                              *)

LEMMA SwcLimits ==
  /\ MaxContextItems \in Nat /\ MaxContextDistance \in Nat /\ MaxFrameLines \in Nat
BY LanguageParsersAssumption DEF LanguageParsersAssumption

LEMMA MinOfTwo ==
  ASSUME NEW a \in Nat, NEW b \in Nat
  PROVE  Min({a, b}) \in {a, b} /\ Min({a, b}) <= a /\ Min({a, b}) <= b
PROOF
<1> DEFINE S == {a, b}
<1>1. S \in SUBSET Nat /\ S # {} /\ a \in S /\ b \in S
  OBVIOUS
<1> HIDE DEF S
<1>2. Min(S) \in S /\ Min(S) <= a /\ Min(S) <= b
  BY <1>1, LeastIn
<1> QED  BY <1>2 DEF S

LEMMA SwcHeaderAbove ==
  ASSUME NEW text \in Seq(Lines), NEW i \in DOMAIN text, SwcHeader(text, i) # 0
  PROVE  SwcHeader(text, i) \in 1..(i - 1)
PROOF
<1> DEFINE S == {j \in 1..(i - 1) : i <= j + MaxHeaderDistance /\ Reads[text[j]].swc_header # 0}
<1>1. SwcHeader(text, i) = Max({0} \cup S)
  BY DEF SwcHeader
<1>2. i - 1 \in Nat /\ S \in SUBSET (1..(i - 1))
  OBVIOUS
<1> HIDE DEF S
<1>3. S # {}
  <2> SUFFICES ASSUME S = {} PROVE FALSE
    OBVIOUS
  <2> DEFINE none == {0} \cup S
  <2>1. none \in SUBSET Nat /\ 0 \in none /\ \A j \in none : j <= 0
    OBVIOUS
  <2> HIDE DEF none
  <2>2. Max(none) = 0
    BY <2>1, MaxIs
  <2> QED  BY <1>1, <2>2 DEF none
<1>4. Max(S) \in S
  BY <1>2, <1>3, MaxIn
<1>5. Max({0} \cup S) = Max(S)
  <2> DEFINE more == {0} \cup S
             m == Max(S)
  <2>1. more \in SUBSET Nat /\ m \in more
    BY <1>2, <1>4
  <2>2. \A j \in S : j <= m
    BY <1>2, <1>3, MaxIn
  <2>3. \A j \in more : j <= m
    <3>1. m \in S /\ (\A j \in S : j \in Nat)
      BY <1>2, <1>4
    <3> HIDE DEF m
    <3> QED  BY <2>2, <3>1
  <2> HIDE DEF more, m
  <2>4. Max(more) = m
    BY <2>1, <2>3, MaxIs
  <2> QED  BY <2>4 DEF more, m
<1> QED  BY <1>1, <1>2, <1>4, <1>5

LEMMA SwcFrameEndIs ==
  ASSUME NEW text \in Seq(Lines), NEW i \in DOMAIN text
  PROVE  SwcFrameEnd(text, i) \in i..Len(text)
PROOF
<1> DEFINE last == Min({Len(text), i + MaxFrameLines})
           starts == {j \in (i + 1)..last : SwcStarts(text[j])}
           ends == {j \in (i + 1)..last : Reads[text[j]].swc_end}
           S == {last} \cup {j - 1 : j \in starts} \cup ends
<1>1. i \in 1..Len(text) /\ Len(text) \in Nat /\ i + MaxFrameLines \in Nat
  BY SwcLimits
<1>2. last \in i..Len(text)
  <2>1. last \in {Len(text), i + MaxFrameLines} /\ last <= Len(text)
    BY <1>1, MinOfTwo
  <2> QED  BY <1>1, <2>1, SwcLimits
<1>3. SwcFrameEnd(text, i) = Min(S)
  BY DEF SwcFrameEnd
<1> HIDE DEF last
<1>4. S \in SUBSET (i..Len(text)) /\ S # {}
  <2>1. \A j \in (i + 1)..last : j \in i..Len(text) /\ j - 1 \in i..Len(text)
    BY <1>1, <1>2
  <2> QED  BY <1>2, <2>1
<1> HIDE DEF S
<1>5. S \in SUBSET Nat
  BY <1>1, <1>4
<1>6. Min(S) \in S
  BY <1>4, <1>5, LeastIn
<1> QED  BY <1>3, <1>4, <1>6

LEMMA SwcAroundType ==
  ASSUME NEW text \in Seq(Lines), NEW header \in 1..Len(text), NEW frame_end \in Nat
  PROVE  SwcAround(text, header, frame_end) \in Seq(1..Len(text))
PROOF
<1> DEFINE first == IF header > MaxContextDistance THEN header - MaxContextDistance ELSE 1
           last == Min({Len(text), frame_end + MaxContextDistance})
           S == {last} \cup {j - 1 : j \in {j \in (frame_end + 1)..last : SwcStarts(text[j])}}
           below == Min(S)
           above == [n \in 1..(header - first) |-> first + n - 1]
           under == [n \in 1..(below - frame_end) |-> frame_end + n]
           N == 1..Len(text)
<1>1. Len(text) \in Nat /\ frame_end + MaxContextDistance \in Nat
  BY SwcLimits
<1>2. last \in Nat /\ last <= Len(text)
  BY <1>1, MinOfTwo
<1>3. SwcAround(text, header, frame_end) = above \o under
  BY DEF SwcAround
<1>4. above \in Seq(N)
  <2>1. first \in Nat /\ first >= 1 /\ header - first \in Nat
    BY SwcLimits
  <2> HIDE DEF first
  <2>2. \A n \in 1..(header - first) : first + n - 1 \in N
    BY <1>1, <2>1
  <2> HIDE DEF N
  <2> QED  BY <2>1, <2>2
<1> HIDE DEF last, above
<1>5. below \in Nat /\ below <= Len(text)
  <2>1. S \in SUBSET Nat /\ last \in S
    BY <1>2
  <2> HIDE DEF S
  <2>2. below \in S /\ below <= last
    BY <2>1, LeastIn
  <2> HIDE DEF below
  <2> QED  BY <1>1, <1>2, <2>1, <2>2
<1> HIDE DEF below
<1>6. under \in Seq(N)
  <2> DEFINE size == below - frame_end
  <2>1. \A n \in 1..size : frame_end + n \in N
    BY <1>1, <1>5
  <2>2. size \in Int
    BY <1>5
  <2>3. CASE size \in Nat
    <3> HIDE DEF N, size
    <3>1. under = [n \in 1..size |-> frame_end + n]
      BY DEF size
    <3> HIDE DEF under
    <3> QED  BY <2>1, <2>3, <3>1
  <2>4. CASE size \notin Nat
    <3>1. 1..size = 1..0
      BY <2>2, <2>4
    <3>2. under = [n \in 1..0 |-> frame_end + n]
      BY <3>1
    <3>3. \A n \in 1..0 : frame_end + n \in N
      OBVIOUS
    <3> HIDE DEF under, N
    <3> QED  BY <3>2, <3>3
  <2> QED  BY <2>3, <2>4
<1> HIDE DEF under, N
<1>7. above \o under \in Seq(N)
  BY <1>4, <1>6
<1> QED  BY <1>3, <1>7 DEF N

(* Only one line too many is taken for a context: the one below the frame. *)
SwcSaying(text) == {j \in 1..Len(text) : Reads[text[j]].swc_context # 0}
SwcContextsOf(text, frame_end) ==
  {found \in Seq(SwcSaying(text)) :
     \A k \in 1..Len(found) : k > MaxContextItems => found[k] = frame_end + 1}

LEMMA SwcMoreType ==
  ASSUME NEW text \in Seq(Lines), NEW frame_end \in Nat,
         NEW found \in SwcContextsOf(text, frame_end), NEW j \in 1..Len(text)
  PROVE  SwcMore(text, found, j, frame_end) \in SwcContextsOf(text, frame_end)
PROOF
<1>1. CASE ~SwcSaysMore(text, found, j, frame_end)
  BY <1>1 DEF SwcMore
<1>2. CASE SwcSaysMore(text, found, j, frame_end)
  <2> DEFINE C == SwcSaying(text)
             more == Append(found, j)
  <2>1. found \in Seq(C) /\ \A k \in 1..Len(found) : k > MaxContextItems => found[k] = frame_end + 1
    BY DEF SwcContextsOf
  <2>2. j \in C /\ (Len(found) < MaxContextItems \/ j = frame_end + 1)
    BY <1>2 DEF SwcSaysMore, SwcSaying
  <2> HIDE DEF C
  <2>3. /\ more \in Seq(C) /\ Len(more) = Len(found) + 1 /\ Len(found) \in Nat
        /\ more[Len(found) + 1] = j /\ \A k \in 1..Len(found) : more[k] = found[k]
    BY <2>1, <2>2
  <2> HIDE DEF more
  <2>4. \A k \in 1..Len(more) : k > MaxContextItems => more[k] = frame_end + 1
    <3> SUFFICES ASSUME NEW k \in 1..Len(more), k > MaxContextItems
                 PROVE  more[k] = frame_end + 1
      OBVIOUS
    <3>1. k \in 1..Len(found) \/ k = Len(found) + 1
      BY <2>3
    <3> QED  BY <2>1, <2>2, <2>3, <3>1, SwcLimits
  <2>5. more \in SwcContextsOf(text, frame_end)
    BY <2>3, <2>4 DEF SwcContextsOf, C
  <2> QED  BY <1>2, <2>5 DEF SwcMore, more
<1> QED  BY <1>1, <1>2

LEMMA SwcContextsAre ==
  ASSUME NEW text \in Seq(Lines), NEW frame_end \in Nat, NEW around \in Seq(1..Len(text))
  PROVE  SwcContexts(text, around, frame_end) \in SwcContextsOf(text, frame_end)
PROOF
<1> DEFINE V == SwcContextsOf(text, frame_end)
           size == Len(around)
           base == <<>>
           one(v, n) == SwcMore(text, v, around[n], frame_end)
           step == [p \in (1..size) \X V |-> one(p[2], p[1])]
           Eq(f) == f = [n \in 0..size |-> IF n = 0 THEN base ELSE one(f[n - 1], n)]
<1>1. size \in Nat /\ base \in V
  <2>1. base \in Seq(SwcSaying(text)) /\ Len(base) = 0
    OBVIOUS
  <2> HIDE DEF base
  <2> QED  BY <2>1 DEF SwcContextsOf
<1>2. /\ \A n \in 1..size, v \in V : step[<<n, v>>] = one(v, n)
      /\ step \in [(1..size) \X V -> V]
  <2>1. ASSUME NEW n \in 1..size, NEW v \in V
        PROVE  one(v, n) \in V
    <3>1. around[n] \in 1..Len(text)
      OBVIOUS
    <3> QED  BY <3>1, SwcMoreType
  <2> HIDE DEF V, one
  <2> QED  BY <2>1
<1> HIDE DEF step, V, base, one
<1>3. PICK g : IsCourse(g, size, V, base, step)
  BY <1>1, <1>2, CourseExists
<1>4. /\ g \in [0..size -> V] /\ g[0] = base
      /\ \A n \in 1..size : g[n] = step[<<n, g[n - 1]>>]
  BY <1>3 DEF IsCourse
<1>5. \A n \in 1..size : g[n - 1] \in V /\ g[n] = one(g[n - 1], n)
  <2> SUFFICES ASSUME NEW n \in 1..size
               PROVE  g[n - 1] \in V /\ g[n] = one(g[n - 1], n)
    OBVIOUS
  <2>1. n - 1 \in 0..size
    BY <1>1
  <2> QED  BY <1>2, <1>4, <2>1
<1>6. Eq(g)
  <2>1. \A n \in 0..size : n # 0 => n \in 1..size
    BY <1>1
  <2>2. g = [n \in 0..size |-> g[n]]
    BY <1>4
  <2>3. \A n \in 0..size : g[n] = IF n = 0 THEN base ELSE one(g[n - 1], n)
    BY <1>4, <1>5, <2>1
  <2> HIDE DEF size
  <2> QED  BY <2>2, <2>3
<1> DEFINE h == CHOOSE f : Eq(f)
<1>7. SwcContexts(text, around, frame_end) = h[size]
  BY DEF SwcContexts, SwcContextPrefixes, base, one
<1>8. Eq(h)
  <2> HIDE DEF Eq
  <2> QED  BY <1>6
<1> HIDE DEF h
<1>9. h[0] = base /\ \A n \in 1..size : h[n] = one(h[n - 1], n)
  <2>1. \A n \in 1..size : n \in 0..size /\ n # 0
    BY <1>1
  <2>2. 0 \in 0..size
    BY <1>1
  <2> HIDE DEF size
  <2> QED  BY <1>8, <2>1, <2>2
<1>10. StepsAgree(h, g, size)
  BY <1>4, <1>5, <1>9 DEF StepsAgree
<1>11. \A n \in 0..size : h[n] = g[n]
  BY <1>1, <1>10, CoursesAgree
<1>12. h[size] \in V
  BY <1>1, <1>4, <1>11
<1> QED  BY <1>7, <1>12 DEF V

(* What an error of SWC's consumes: its header, the frame, contexts.       *)
LEMMA SwcErrorSays ==
  ASSUME NEW text \in Seq(Lines), NEW i \in DOMAIN text, SwcHeader(text, i) # 0,
         NEW line \in SwcFoundBelow(text, i, SwcHeader(text, i), SwcFrameEnd(text, i)).consumed,
         NEW one,
         one = SwcFoundBelow(text, i, SwcHeader(text, i), SwcFrameEnd(text, i)).diagnostic
  PROVE  \/ one.line = line
         \/ \E j \in i..SwcFrameEnd(text, i) : text[j] = line
         \/ Reads[line].swc_context \in Range(one.message)
         \/ /\ Reads[line].swc_context # 0
            /\ \E j \in 2..Len(text) : text[j] = line /\ SwcFrameEnd(text, i) = j - 1
PROOF
<1> DEFINE header == SwcHeader(text, i)
           frame_end == SwcFrameEnd(text, i)
           around == SwcAround(text, header, frame_end)
           contexts == SwcContexts(text, around, frame_end)
           shown == Min({Len(contexts), MaxContextItems})
           said == [n \in 1..shown |-> Reads[text[contexts[n]]].swc_context]
<1>1. header \in 1..(i - 1) /\ frame_end \in i..Len(text) /\ i \in 1..Len(text) /\ Len(text) \in Nat
  BY SwcHeaderAbove, SwcFrameEndIs
<1>2. contexts \in SwcContextsOf(text, frame_end)
  <2> HIDE DEF header, frame_end
  <2>1. header \in 1..Len(text) /\ frame_end \in Nat
    BY <1>1
  <2>2. around \in Seq(1..Len(text))
    BY <2>1, SwcAroundType
  <2> HIDE DEF around
  <2> QED  BY <2>1, <2>2, SwcContextsAre
<1>3. /\ one = Diagnostic("javascript-swc", text[header], <<Reads[text[header]].swc_header>> \o said,
                          Reads[text[i]].swc_place)
      /\ line \in {text[j] : j \in {header} \cup (i..frame_end) \cup Range(contexts)}
  BY DEF SwcFoundBelow, SwcFound
<1> HIDE DEF header, frame_end, contexts
<1>4. PICK j \in {header} \cup (i..frame_end) \cup Range(contexts) : text[j] = line
  BY <1>3
<1>5. /\ contexts \in Seq(SwcSaying(text))
      /\ \A k \in 1..Len(contexts) : k > MaxContextItems => contexts[k] = frame_end + 1
  BY <1>2 DEF SwcContextsOf
<1>6. Len(contexts) \in Nat /\ DOMAIN contexts = 1..Len(contexts)
  BY <1>5
<1>7. CASE j = header
  <2>1. one.line = text[header]
    BY <1>3 DEF Diagnostic
  <2> QED  BY <1>4, <1>7, <2>1
<1>8. CASE j \in i..frame_end
  BY <1>4, <1>8 DEF frame_end
<1>9. CASE j \in Range(contexts)
  <2>1. PICK k \in 1..Len(contexts) : contexts[k] = j
    BY <1>6, <1>9 DEF Range
  <2>2. j \in 1..Len(text) /\ Reads[line].swc_context # 0
    <3>1. j \in SwcSaying(text)
      BY <1>5, <2>1
    <3> QED  BY <1>4, <3>1 DEF SwcSaying
  <2>3. CASE k > MaxContextItems
    <3>1. j = frame_end + 1
      BY <1>5, <2>1, <2>3
    <3>2. j \in 2..Len(text) /\ frame_end = j - 1
      BY <1>1, <2>2, <3>1
    <3> QED  BY <1>4, <2>2, <3>2 DEF frame_end
  <2>4. CASE ~(k > MaxContextItems)
    <3>1. k \in 1..shown /\ shown \in Nat
      <4>1. shown \in {Len(contexts), MaxContextItems} /\ shown \in Nat
        BY <1>6, SwcLimits, MinOfTwo
      <4>2. k \in Nat /\ k >= 1 /\ k <= Len(contexts)
        BY <1>6
      <4>3. k <= MaxContextItems
        BY <2>4, <4>2, SwcLimits
      <4>4. k <= shown
        BY <4>1, <4>2, <4>3
      <4> HIDE DEF shown
      <4> QED  BY <4>1, <4>2, <4>4
    <3>2. said[k] = Reads[line].swc_context
      BY <1>4, <2>1, <3>1
    <3> HIDE DEF shown
    <3> DEFINE V == {said[n] : n \in 1..shown}
               first == <<Reads[text[header]].swc_header>>
               message == first \o said
               U == V \cup {first[1]}
    <3>3. said \in Seq(U) /\ Len(said) = shown
      <4>1. \A n \in 1..shown : said[n] \in U
        OBVIOUS
      <4>2. said = [n \in 1..shown |-> said[n]]
        OBVIOUS
      <4> HIDE DEF said, U
      <4> QED  BY <3>1, <4>1, <4>2
    <3>4. first \in Seq(U) /\ Len(first) = 1
      OBVIOUS
    <3> HIDE DEF said, first, U
    <3>5. one.message = message
      BY <1>3 DEF Diagnostic, first
    <3>6. Has(said, said[k])
      BY <3>1, <3>3 DEF Has
    <3>7. Has(message, said[k]) /\ message \in Seq(U)
      BY <3>3, <3>4, <3>6, HasEither
    <3> HIDE DEF message
    <3>8. PICK m \in 1..Len(message) : message[m] = said[k]
      BY <3>7 DEF Has
    <3>9. m \in DOMAIN message
      BY <3>7
    <3> QED  BY <3>2, <3>5, <3>8, <3>9 DEF Range
  <2> QED  BY <2>3, <2>4
<1> QED  BY <1>4, <1>7, <1>8, <1>9

LEMMA SwcSays ==
  ASSUME NEW text \in Seq(Lines), NEW line \in Swc(text).consumed_lines
  PROVE  SaidBy(line, Swc(text).diagnostics) \/ SaidInFrame(line, text) \/ Excused(line, text)
PROOF
<1> DEFINE frames == SwcFrames(text)
           S == {i \in DOMAIN text : Reads[text[i]].swc_place # 0 /\ SwcHeader(text, i) # 0}
           foundAt(i) == SwcFoundBelow(text, i, SwcHeader(text, i), SwcFrameEnd(text, i))
           found == [n \in DOMAIN frames |-> foundAt(frames[n])]
           all == [n \in DOMAIN found |-> found[n].diagnostic]
<1>1. S \in SUBSET (Nat \ {0}) /\ IsFiniteSet(S)
  <2>1. DOMAIN text = 1..Len(text) /\ Len(text) \in Nat
    OBVIOUS
  <2>2. S \in SUBSET (1..Len(text))
    BY <2>1
  <2>3. IsFiniteSet(1..Len(text))
    BY <2>1, FS_Interval
  <2> HIDE DEF S
  <2>4. IsFiniteSet(S)
    BY <2>2, <2>3, FS_Subset
  <2> QED  BY <2>2, <2>4
<1>2. \A n \in DOMAIN frames : frames[n] \in S
  <2> HIDE DEF S
  <2> QED  BY <1>1, AscendingElements DEF SwcFrames, S
<1>3. /\ Swc(text).diagnostics = all
      /\ Swc(text).consumed_lines = UNION {found[n].consumed : n \in DOMAIN found}
  BY DEF Swc, SwcDiagnostics
<1>4. PICK n \in DOMAIN frames : line \in foundAt(frames[n]).consumed
  BY <1>3
<1> DEFINE i == frames[n]
           one == foundAt(i).diagnostic
<1>5. i \in DOMAIN text /\ SwcHeader(text, i) # 0
  BY <1>2
<1>6. n \in DOMAIN all /\ all[n] = one
  OBVIOUS
<1>7. one.owner = "javascript-swc"
  BY DEF SwcFoundBelow, SwcFound, Diagnostic
<1>8. line \in SwcFoundBelow(text, i, SwcHeader(text, i), SwcFrameEnd(text, i)).consumed
  BY <1>4
<1>a. one = SwcFoundBelow(text, i, SwcHeader(text, i), SwcFrameEnd(text, i)).diagnostic
  OBVIOUS
<1>b. n \in DOMAIN SwcFrames(text) /\ i = SwcFrames(text)[n]
  BY DEF frames
<1> HIDE DEF i, one, all, foundAt, frames, found, S
<1>9. \/ one.line = line
      \/ \E j \in i..SwcFrameEnd(text, i) : text[j] = line
      \/ Reads[line].swc_context \in Range(one.message)
      \/ /\ Reads[line].swc_context # 0
         /\ \E j \in 2..Len(text) : text[j] = line /\ SwcFrameEnd(text, i) = j - 1
  BY <1>5, <1>8, <1>a, SwcErrorSays
<1>10. CASE one.line = line \/ Reads[line].swc_context \in Range(one.message)
  <2>1. SaidBy(line, all)
    BY <1>6, <1>7, <1>10 DEF SaidBy
  <2> QED  BY <1>3, <2>1
<1>11. CASE \E j \in i..SwcFrameEnd(text, i) : text[j] = line
  BY <1>11, <1>b DEF SaidInFrame
<1>12. CASE /\ Reads[line].swc_context # 0
            /\ \E j \in 2..Len(text) : text[j] = line /\ SwcFrameEnd(text, i) = j - 1
  BY <1>12, <1>b DEF Excused
<1> QED  BY <1>9, <1>10, <1>11, <1>12

LEMMA SwcWrapperSays ==
  ASSUME NEW line, Reads[line].swc_wrapper, NEW found, From(found, {"javascript-swc"}), found # <<>>
  PROVE  SaidBy(line, found)
PROOF
<1>1. found \in Seq(Range(found)) /\ \A n \in 1..Len(found) : found[n].owner = "javascript-swc"
  BY DEF From
<1>2. 1 \in 1..Len(found) /\ 1 \in DOMAIN found
  BY <1>1
<1> QED  BY <1>1, <1>2 DEF SaidBy

----------------------------------------------------------------------------
(* Every line is told of, or a parser of texts has said it                 *)

LEMMA CandidatesHave ==
  ASSUME NEW text \in Seq(Lines), NEW line \in Range(text), Reads[line].candidate
  PROVE  Has(Candidates(text), line)
PROOF
<1> DEFINE P == {i \in DOMAIN text : /\ Reads[text[i]].candidate
                                     /\ \A j \in 1..(i - 1) : text[j] # text[i]}
           S == {i \in DOMAIN text : text[i] = line}
           first == Min(S)
           lines == Candidates(text)
<1>1. DOMAIN text = 1..Len(text) /\ Len(text) \in Nat /\ P \in SUBSET DOMAIN text
  OBVIOUS
<1>2. S \in SUBSET Nat /\ S # {}
  BY <1>1 DEF Range
<1>3. first \in S /\ \A j \in S : first <= j
  <2> HIDE DEF S
  <2> QED  BY <1>2, LeastIn
<1> HIDE DEF first
<1>4. first \in P
  <2> SUFFICES ASSUME NEW j \in 1..(first - 1), text[j] = line PROVE FALSE
    BY <1>3
  <2>1. first \in 1..Len(text)
    BY <1>1, <1>3
  <2>2. j \in S /\ j < first
    BY <1>1, <2>1
  <2>3. first <= j
    BY <1>3, <2>2
  <2> QED  BY <2>1, <2>2, <2>3
<1>5. text[first] = line
  BY <1>3
<1>6. lines = Picked(text, P)
  BY DEF Candidates
<1> HIDE DEF P, S, lines
<1>7. \E p : /\ Enumerates(p, Len(lines), P)
             /\ \A i \in 1..Len(lines) : lines[i] = text[p[i]]
  BY <1>1, <1>6, PickedType
<1>8. PICK p : Enumerates(p, Len(lines), P) /\ \A i \in 1..Len(lines) : lines[i] = text[p[i]]
  BY <1>7
<1>9. PICK k \in 1..Len(lines) : p[k] = first
  BY <1>4, <1>8 DEF Enumerates
<1>10. lines[k] = line
  BY <1>5, <1>8, <1>9
<1> QED  BY <1>10 DEF Has, lines

(* Whoever claims a line has been run and says it, if it is not excused.   *)
LEMMA ClaimedSays ==
  ASSUME NEW text \in Seq(Lines), NEW line \in Range(text),
         NEW node, NEW java, NEW linker, NEW javac, NEW python, NEW context,
         context.javascript_test_messages = Messages(node),
         context.java_test_messages = Messages(java),
         "cpp_linker" \in Hints(text) => linker = CppLinker(text),
         "java_compiler" \in Hints(text) => javac = JavaCompiler(text),
         "python" \in Hints(text) => python = ReducePython(text, context),
         ClaimedLanguageLine(line, context), ~Excused(line, text)
  PROVE  \/ SaidBy(line, linker) \/ SaidBy(line, javac) \/ SaidBy(line, node)
         \/ SaidBy(line, java) \/ SaidBy(line, python)
PROOF
<1> DEFINE read == Reads[line]
<1>1. line \in Lines
  BY DEF Range
<1>2. /\ read.javac # 0 => "java_compiler" \in read.marks
      /\ read.python_summary # 0 => "python" \in read.marks
      /\ read.traceback => read.python_exception = 0
  BY <1>1, RecognisersAssumption DEF RecognisersAssumption
<1>3. /\ read.marks \subseteq Hints(text)
      /\ read.opens_linker => "cpp_linker" \in Hints(text)
  BY HintsSee
<1>4. /\ read.rust_header = 0 /\ read.python_place = 0
      /\ read.python_exception # 0 => "python" \in read.marks
      /\ read.linker # 0 => \/ "cpp_linker" \in read.marks \/ read.opens_linker
      /\ read.linker # 0 => ~read.apple /\ read.apple_symbol = 0
  BY DEF Excused
<1>5. CASE ClaimedTestException(line, context)
  BY <1>5, TestExceptionSays
<1>6. CASE read.linker # 0
  <2>1. linker = CppLinker(text)
    BY <1>3, <1>4, <1>6
  <2> QED  BY <1>4, <1>6, <2>1, LinkerSays
<1>7. CASE read.javac # 0
  <2>1. javac = JavaCompiler(text)
    BY <1>2, <1>3, <1>7
  <2> QED  BY <1>7, <2>1, JavacSays
<1>8. CASE ~ClaimedTestException(line, context) /\ (read.python_summary # 0 \/ read.python_exception # 0)
  <2>1. python = ReducePython(text, context)
    BY <1>2, <1>3, <1>4, <1>8
  <2>2. IsPythonException(line) \/ read.python_summary # 0
    BY <1>2, <1>4, <1>8 DEF IsPythonException
  <2> QED  BY <1>8, <2>1, <2>2, PythonSays
<1> QED  BY <1>4, <1>5, <1>6, <1>7, <1>8 DEF ClaimedLanguageLine

(* The parsers that lines call for are run, unless they are overridden.    *)
LEMMA CalledFor ==
  ASSUME NEW hints
  PROVE  /\ "cpp_linker" \in hints => IsRun("cpp-linker", hints, {})
         /\ "java_compiler" \in hints => IsRun("java-compiler", hints, {})
         /\ "python" \in hints => IsRun("python", hints, {})
PROOF
<1>1. /\ "cpp-linker" \in Range(TextOwners) /\ "java-compiler" \in Range(TextOwners)
      /\ "python" \in Range(TextOwners)
  BY DEF TextOwners, Range
<1>2. Needs["cpp-linker"] = {"cpp_linker"}
  BY <1>1 DEF Needs
<1>3. Needs["java-compiler"] = {"java_compiler"}
  BY <1>1 DEF Needs
<1>4. Needs["python"] = {"python"}
  BY <1>1 DEF Needs
<1> QED  BY <1>2, <1>3, <1>4 DEF IsRun

(* A line that SWC's parser consumes. *)
LEMMA ConsumedSays ==
  ASSUME NEW text \in Seq(Lines), NEW line, NEW context, NEW swc,
         swc = Swc(text) \/ swc = NoSwc, From(swc.diagnostics, {"javascript-swc"}),
         context.swc_consumed_lines = swc.consumed_lines,
         context.has_swc_diagnostics = (swc.diagnostics # <<>>),
         Consumed(line, context)
  PROVE  SaidBy(line, swc.diagnostics) \/ SaidInFrame(line, text) \/ Excused(line, text)
PROOF
<1>1. CASE line \in context.swc_consumed_lines
  <2>1. NoSwc.consumed_lines = {}
    <3> DEFINE none == <<>>
    <3>1. DOMAIN none = {}
      OBVIOUS
    <3> HIDE DEF none
    <3>2. SwcDiagnostics(none).consumed_lines = {}
      BY <3>1 DEF SwcDiagnostics
    <3> QED  BY <3>2 DEF NoSwc, none
  <2>2. swc = Swc(text)
    BY <1>1, <2>1
  <2> QED  BY <1>1, <2>2, SwcSays
<1>2. CASE swc.diagnostics # <<>> /\ Reads[line].swc_wrapper
  BY <1>2, SwcWrapperSays
<1> QED  BY <1>1, <1>2 DEF Consumed

(* Of a line that looks like an error. *)
IsSaid(line, text, found) ==
  SaidBy(line, found) \/ SaidInFrame(line, text) \/ Excused(line, text)

LEMMA LineSaid ==
  ASSUME NEW text \in Seq(Lines), NEW line \in Range(text),
         Reads[line].candidate, Reads[line].actionable,
         NEW options, options.fallback = "Generic",
         NEW swc, swc = Swc(text) \/ swc = NoSwc, From(swc.diagnostics, {"javascript-swc"}),
         NEW linker, From(linker, {"cpp-linker"}),
         NEW javac, From(javac, {"java-compiler"}), NEW rust, From(rust, {"rust-compiler"}),
         NEW node, From(node, {"javascript-test"}), NEW java, From(java, {"java-test"}),
         NEW python, From(python, {"python"}),
         NEW more \in ReportedOf(text), From(more, LineOwnersSet), NEW context,
         context.swc_consumed_lines = swc.consumed_lines,
         context.has_swc_diagnostics = (swc.diagnostics # <<>>),
         context.javascript_test_messages = Messages(node),
         context.java_test_messages = Messages(java),
         "cpp_linker" \in Hints(text) => linker = CppLinker(text),
         "java_compiler" \in Hints(text) => javac = JavaCompiler(text),
         "python" \in Hints(text) => python = ReducePython(text, context),
         Tells(Candidates(text), Len(Candidates(text)), more, context, options)
  PROVE  IsSaid(line, text, Together(swc.diagnostics, linker, javac, rust, node, java, python, more))
PROOF
<1> DEFINE found == swc.diagnostics
           all == Together(found, linker, javac, rust, node, java, python, more)
<1>1. more \in Seq(LineDiagnostics)
  BY DEF ReportedOf, Reported
<1>2. /\ Within(found, all) /\ Within(linker, all) /\ Within(javac, all)
      /\ Within(node, all) /\ Within(java, all) /\ Within(python, all)
      /\ Within(more, all)
  <2> HIDE DEF found
  <2>1. From(found, {"javascript-swc"})
    BY DEF found
  <2> QED  BY <1>1, <2>1, PartsWithin
<1> HIDE DEF all
<1>3. Has(Candidates(text), line)
  BY CandidatesHave
<1>4. PICK k \in 1..Len(Candidates(text)) : Candidates(text)[k] = line
  BY <1>3 DEF Has
<1>5. Unsaid(line, context, options) \/ \E m \in 1..Len(more) : more[m].line = line
  BY <1>4 DEF Tells
<1>6. CASE \E m \in 1..Len(more) : more[m].line = line
  <2>1. PICK m \in DOMAIN more : more[m].line = line
    BY <1>1, <1>6
  <2>2. SaidBy(line, more)
    BY <2>1, SaidByLine
  <2> QED  BY <1>2, <2>2, SaidByMore DEF IsSaid, all
<1>7. CASE Consumed(line, context)
  <2>1. SaidBy(line, found) \/ SaidInFrame(line, text) \/ Excused(line, text)
    BY <1>7, ConsumedSays
  <2> QED  BY <1>2, <2>1, SaidByMore DEF IsSaid, all
<1>8. CASE ClaimedLanguageLine(line, context)
  <2>1. \/ SaidBy(line, linker) \/ SaidBy(line, javac) \/ SaidBy(line, node)
        \/ SaidBy(line, java) \/ SaidBy(line, python) \/ Excused(line, text)
    BY <1>8, ClaimedSays
  <2> QED  BY <1>2, <2>1, SaidByMore DEF IsSaid, all
<1> QED  BY <1>5, <1>6, <1>7, <1>8 DEF Unsaid

----------------------------------------------------------------------------
(* The reports of a text *)

(* The exceptions among what Python's parser finds.                        *)
LEMMA PythonExceptionsFound ==
  ASSUME NEW found \in Seq(DiagnosticsOf("python"))
  PROVE  PythonExceptions(found) = Only(found, PythonFound)
PROOF
<1> DEFINE P == {one \in Range(found) : one.owner = "python" /\ IsPythonException(one.line)}
<1>1. \A i \in 1..Len(found) : found[i] \in DiagnosticsOf("python") /\ found[i] \in Range(found)
  BY DEF Range
<1>2. \A one \in DiagnosticsOf("python") : one.owner = "python"
  BY DEF DiagnosticsOf
<1>3. \A i \in 1..Len(found) : found[i] \in P <=> found[i] \in PythonFound
  BY <1>1, <1>2 DEF PythonFound
<1> HIDE DEF P
<1>4. Only(found, P) = Only(found, PythonFound)
  BY <1>3, OnlySame
<1> QED  BY <1>4 DEF PythonExceptions, P

(* Nothing is found by a parser that does not run.                         *)
LEMMA NoExceptions == PythonExceptions(<<>>) = <<>>
PROOF
<1> DEFINE none == <<>>
<1>1. none \in Seq({}) /\ \A S : Only(none, S) = <<>>
  BY OnlyEmpty
<1> HIDE DEF none
<1>2. PythonExceptions(none) = <<>>
  BY <1>1 DEF PythonExceptions
<1> QED  BY <1>2 DEF none

LEMMA CandidatesInOrder ==
  ASSUME NEW text \in Seq(Lines), NEW lines, lines = Candidates(text)
  PROVE  /\ lines \in Seq(Lines)
         /\ \A k \in 1..Len(lines) : lines[k] \in Range(text)
         /\ \A j, k \in 1..Len(lines) : j < k => FirstOf(text, lines[j]) < FirstOf(text, lines[k])
PROOF
<1> DEFINE P == {i \in DOMAIN text : /\ Reads[text[i]].candidate
                                     /\ \A j \in 1..(i - 1) : text[j] # text[i]}
           n == Len(lines)
<1>1. P \in SUBSET DOMAIN text /\ DOMAIN text = 1..Len(text) /\ Len(text) \in Nat
  OBVIOUS
<1>2. \A i \in P : FirstOf(text, text[i]) = i /\ i \in 1..Len(text)
  <2> SUFFICES ASSUME NEW i \in P PROVE FirstOf(text, text[i]) = i
    BY <1>1
  <2> DEFINE S == {j \in DOMAIN text : text[j] = text[i]}
  <2>1. S \in SUBSET Nat /\ i \in S
    OBVIOUS
  <2>2. \A j \in S : i <= j
    <3> SUFFICES ASSUME NEW j \in S, j < i PROVE FALSE
      BY <1>1
    <3>1. j \in 1..(i - 1)
      BY <1>1
    <3> QED  BY <3>1
  <2> HIDE DEF S, P
  <2>3. Min(S) = i
    BY <2>1, <2>2, MinIs
  <2> QED  BY <2>3 DEF FirstOf, S
<1>3. lines = Picked(text, P)
  BY DEF Candidates
<1> HIDE DEF P
<1>4. /\ lines \in Seq(Lines)
      /\ \E p : Enumerates(p, n, P) /\ \A i \in 1..n : lines[i] = text[p[i]]
  BY <1>1, <1>3, PickedType
<1>5. PICK p : Enumerates(p, n, P) /\ \A i \in 1..n : lines[i] = text[p[i]]
  BY <1>4
<1>6. /\ \A k \in 1..n : p[k] \in P
      /\ \A j, k \in 1..n : j < k => p[j] < p[k]
  BY <1>5 DEF Enumerates
<1>7. \A k \in 1..n : FirstOf(text, lines[k]) = p[k] /\ p[k] \in DOMAIN text /\ lines[k] = text[p[k]]
  BY <1>1, <1>2, <1>5, <1>6
<1>8. \A k \in 1..n : lines[k] \in Range(text)
  BY <1>7 DEF Range
<1>9. \A j, k \in 1..n : j < k => FirstOf(text, lines[j]) < FirstOf(text, lines[k])
  BY <1>6, <1>7
<1> QED  BY <1>4, <1>8, <1>9

LEMMA ReportedCounted ==
  ASSUME NEW text \in Seq(Lines), NEW more \in ReportedOf(text),
         NEW before, NEW A, From(before, A), A \cap LineOwnersSet = {}
  PROVE  RepetitionsCounted(text, before \o more)
PROOF
<1> DEFINE lines == Candidates(text)
           found == before \o more
           b == Len(before)
<1>1. /\ \A k \in 1..Len(lines) : lines[k] \in Range(text)
      /\ \A j, k \in 1..Len(lines) : j < k => FirstOf(text, lines[j]) < FirstOf(text, lines[k])
  BY CandidatesInOrder
<1>2. /\ more \in Seq(LineDiagnostics)
      /\ \A m \in 1..Len(more) : /\ \E k \in 1..Len(lines) : lines[k] = more[m].line
                                 /\ more[m].repetition_count = Occurrences(text, more[m].line)
      /\ \A l, m \in 1..Len(more) : l < m =>
           \E j, k \in 1..Len(lines) : j < k /\ lines[j] = more[l].line /\ lines[k] = more[m].line
  BY DEF ReportedOf, Reported
<1> HIDE DEF lines
<1>3. \A l, m \in 1..Len(more) :
        l < m => FirstOf(text, more[l].line) < FirstOf(text, more[m].line)
  <2> SUFFICES ASSUME NEW l \in 1..Len(more), NEW m \in 1..Len(more), l < m
               PROVE  FirstOf(text, more[l].line) < FirstOf(text, more[m].line)
    OBVIOUS
  <2>1. PICK j \in 1..Len(lines), k \in 1..Len(lines) :
          j < k /\ lines[j] = more[l].line /\ lines[k] = more[m].line
    BY <1>2
  <2>2. FirstOf(text, lines[j]) < FirstOf(text, lines[k])
    BY <1>1, <2>1
  <2> QED  BY <2>1, <2>2
<1>4. /\ before \in Seq(Range(before)) /\ b \in Nat
      /\ \A n \in 1..b : before[n].owner \in A
  BY DEF From
<1>5. /\ DOMAIN found = 1..(b + Len(more))
      /\ \A n \in 1..(b + Len(more)) :
           found[n] = IF n <= b THEN before[n] ELSE more[n - b]
  BY <1>2, <1>4
<1> HIDE DEF found, b
<1>6. ASSUME NEW n \in OfLines(found)
      PROVE  n \in Nat /\ n - b \in 1..Len(more) /\ found[n] = more[n - b]
  <2>1. n \in 1..(b + Len(more)) /\ found[n].owner \in LineOwnersSet
    BY <1>5 DEF OfLines, LineOwnersSet
  <2>2. n <= b => n \in 1..b
    BY <1>4, <2>1
  <2>3. ~(n <= b)
    BY <1>4, <1>5, <2>1, <2>2
  <2>4. Len(more) \in Nat
    BY <1>2
  <2> QED  BY <1>4, <1>5, <2>1, <2>3, <2>4
<1>7. ASSUME NEW n \in OfLines(found)
      PROVE  /\ found[n].line \in Range(text)
             /\ found[n].repetition_count = Occurrences(text, found[n].line)
  <2>1. n - b \in 1..Len(more) /\ found[n] = more[n - b]
    BY <1>6
  <2>2. PICK k \in 1..Len(lines) : lines[k] = more[n - b].line
    BY <1>2, <2>1
  <2> QED  BY <1>1, <1>2, <2>1, <2>2
<1>8. ASSUME NEW m \in OfLines(found), NEW n \in OfLines(found), m < n
      PROVE  FirstOf(text, found[m].line) < FirstOf(text, found[n].line)
  <2>1. /\ m - b \in 1..Len(more) /\ found[m] = more[m - b]
        /\ n - b \in 1..Len(more) /\ found[n] = more[n - b] /\ m - b < n - b
    BY <1>4, <1>6, <1>8
  <2> QED  BY <1>3, <2>1
<1> QED  BY <1>7, <1>8 DEF RepetitionsCounted, found

(* None of the lines that look like errors is lost. *)
EachSaid(text, found, options) ==
  options.fallback = "Generic" /\ options.overrides = {} =>
    \A line \in Range(text) :
      Reads[line].candidate /\ Reads[line].actionable => IsSaid(line, text, found)

LEMMA ReportsAre ==
  ASSUME NEW text, WrittenText(text), NEW options
  PROVE  /\ ReportsPlaced(text, TextDiagnostics(text, options), options)
         /\ RepetitionsCounted(text, TextDiagnostics(text, options))
         /\ ReportedOnce(text, TextDiagnostics(text, options))
         /\ EachSaid(text, TextDiagnostics(text, options), options)
PROOF
<1> DEFINE run == [owner \in Range(TextOwners) |-> IsRun(owner, Hints(text), options.overrides)]
           swc == IF run["javascript-swc"] THEN Swc(text) ELSE NoSwc
           linker == IF run["cpp-linker"] THEN CppLinker(text) ELSE <<>>
           javac == IF run["java-compiler"] THEN JavaCompiler(text) ELSE <<>>
           rust == IF run["rust-compiler"] THEN RustCompiler(text) ELSE <<>>
           node == IF run["javascript-test"] THEN NodeTests(text) ELSE <<>>
           java == IF run["java-test"] THEN JavaTests(text) ELSE <<>>
           others == (linker \o javac) \o rust
           context == Context(swc, others, node, java)
           python == IF run["python"] THEN ReducePython(text, context) ELSE <<>>
           all == TextDiagnostics(text, options)
<1>1. \A owner \in {"javascript-test", "java-test", "rust-compiler", "python",
                     "cpp-linker", "java-compiler"} :
        run[owner] = IsRun(owner, Hints(text), options.overrides)
  BY DEF TextOwners, Range
<1>2. /\ From(swc.diagnostics, {"javascript-swc"}) /\ From(linker, {"cpp-linker"})
      /\ From(javac, {"java-compiler"}) /\ From(rust, {"rust-compiler"})
      /\ From(node, {"javascript-test"}) /\ From(java, {"java-test"})
      /\ From(python, {"python"})
  <2>1. From(swc.diagnostics, {"javascript-swc"})
    BY PartsFrom
  <2>2. From(linker, {"cpp-linker"})
    BY PartsFrom, FromRun
  <2>3. From(javac, {"java-compiler"})
    BY PartsFrom, FromRun
  <2>4. From(rust, {"rust-compiler"})
    BY PartsFrom, FromRun
  <2>5. From(node, {"javascript-test"})
    BY PartsFrom, FromRun
  <2>6. From(java, {"java-test"})
    BY PartsFrom, FromRun
  <2> HIDE DEF context
  <2>7. From(python, {"python"})
    BY PartsFrom, FromRun
  <2> QED  BY <2>1, <2>2, <2>3, <2>4, <2>5, <2>6, <2>7
<1>3. /\ rust = IF run["rust-compiler"] THEN RustReference(text) ELSE <<>>
      /\ node = IF run["javascript-test"] THEN NodeReference(text, TRUE) ELSE <<>>
      /\ java = IF run["java-test"] THEN JavaReference(text, TRUE) ELSE <<>>
  BY RustCompilerPlaced, NodeTestsPlaced, JavaTestsPlaced
<1>4. text \in Seq(Lines)
  BY DEF WrittenText
<1>5. PythonExceptions(python) = IF run["python"] THEN PythonReference(Only(text, Free(context)))
                                 ELSE <<>>
  <2> HIDE DEF context, run
  <2>1. CASE run["python"]
    <3>1. python = ReducePython(text, context)
      BY <2>1
    <3> HIDE DEF python
    <3>2. python \in Seq(DiagnosticsOf("python"))
      BY <1>4, <3>1, PythonPlaced
    <3>3. PythonExceptions(python) = Only(python, PythonFound)
      BY <3>2, PythonExceptionsFound
    <3> QED  BY <1>4, <2>1, <3>1, <3>3, PythonPlaced
  <2>2. CASE ~run["python"]
    BY <2>2, NoExceptions
  <2> QED  BY <2>1, <2>2
<1>6. /\ context.diagnostics = ((swc.diagnostics \o others) \o node) \o java
      /\ context.javascript_test_messages = Messages(node)
      /\ context.java_test_messages = Messages(java)
      /\ context.swc_consumed_lines = swc.consumed_lines
      /\ context.has_swc_diagnostics = (swc.diagnostics # <<>>)
  <2> HIDE DEF swc, others, node, java
  <2> QED  BY DEF Context
<1>7. \E T : context.diagnostics \in Seq(T)
  <2> DEFINE both == linker \o javac
             first == swc.diagnostics \o others
             second == first \o node
  <2> HIDE DEF swc, linker, javac, rust, node, java, context
  <2>1. PICK A : From(both, A)
    BY <1>2, FromTwo
  <2>2. others = both \o rust
    OBVIOUS
  <2> HIDE DEF both, others
  <2>3. PICK B : From(others, B)
    BY <1>2, <2>1, <2>2, FromTwo
  <2>4. PICK C : From(first, C)
    BY <1>2, <2>3, FromTwo
  <2>5. context.diagnostics = (first \o node) \o java
    BY <1>6
  <2> HIDE DEF first
  <2>6. PICK D : From(second, D)
    BY <1>2, <2>4, FromTwo
  <2>7. context.diagnostics = second \o java
    BY <2>5
  <2> HIDE DEF second
  <2>8. PICK E : From(second \o java, E)
    BY <1>2, <2>6, FromTwo
  <2> QED  BY <2>7, <2>8 DEF From
<1>8. PICK T : context.diagnostics \in Seq(T)
  BY <1>7
<1>9. PICK more \in ReportedOf(text) :
        /\ all = (context.diagnostics \o python) \o more
        /\ Tells(Candidates(text), Len(Candidates(text)), more, context, options)
  BY <1>8, TextDiagnosticsAre
<1>10. all = Together(swc.diagnostics, linker, javac, rust, node, java, python, more)
  BY <1>6, <1>9 DEF Together
<1>11. From(more, LineOwnersSet)
  <2>1. more \in Seq(LineDiagnostics)
    BY DEF ReportedOf, Reported
  <2> QED  BY <2>1, PartsFrom
<1>12. /\ Owned(all, "javascript-test") = node
       /\ Owned(all, "java-test") = java
       /\ Owned(all, "rust-compiler") = rust
       /\ PythonExceptions(all) = PythonExceptions(python)
       /\ \E before, A : /\ all = before \o more /\ From(before, A)
                        /\ A \cap LineOwnersSet = {}
  <2> DEFINE found == swc.diagnostics
  <2> HIDE DEF run, swc, linker, javac, rust, node, java, context, python, all
  <2>1. From(found, {"javascript-swc"})
    BY <1>2
  <2>2. all = Together(found, linker, javac, rust, node, java, python, more)
    BY <1>10
  <2> HIDE DEF found
  <2> DEFINE one == Together(found, linker, javac, rust, node, java, python, more)
  <2>3. /\ Owned(one, "javascript-test") = node
        /\ Owned(one, "java-test") = java
        /\ Owned(one, "rust-compiler") = rust
        /\ PythonExceptions(one) = PythonExceptions(python)
        /\ \E before, A : /\ one = before \o more /\ From(before, A)
                         /\ A \cap LineOwnersSet = {}
    BY <1>2, <1>11, <2>1, PartsTogether
  <2> HIDE DEF one
  <2>4. all = one
    BY <2>2 DEF one
  <2> QED  BY <2>3, <2>4
<1>0. /\ python = IF run["python"] THEN ReducePython(text, context) ELSE <<>>
      /\ swc = Swc(text) \/ swc = NoSwc
      /\ run["cpp-linker"] => linker = CppLinker(text)
      /\ run["java-compiler"] => javac = JavaCompiler(text)
      /\ run["python"] => python = ReducePython(text, context)
  OBVIOUS
<1> HIDE DEF run, swc, linker, javac, rust, node, java, others, context, python, all
<1>13. Unclaimed(text, all) = Only(text, Free(context))
  <2>1. Free(context) = {line \in Lines :
          /\ <<Reads[line].node_exception>> \notin Messages(node)
          /\ <<Reads[line].java_exception>> \notin Messages(java)}
    BY <1>6 DEF Free, ClaimedTestException
  <2> QED  BY <1>12, <2>1 DEF Unclaimed
<1>14. /\ Owned(all, "javascript-test") =
            IF IsRun("javascript-test", Hints(text), options.overrides)
            THEN NodeReference(text, TRUE) ELSE <<>>
       /\ Owned(all, "java-test") =
            IF IsRun("java-test", Hints(text), options.overrides)
            THEN JavaReference(text, TRUE) ELSE <<>>
       /\ Owned(all, "rust-compiler") =
            IF IsRun("rust-compiler", Hints(text), options.overrides)
            THEN RustReference(text) ELSE <<>>
       /\ PythonExceptions(all) =
            IF IsRun("python", Hints(text), options.overrides)
            THEN PythonReference(Unclaimed(text, all)) ELSE <<>>
  BY <1>1, <1>3, <1>5, <1>12, <1>13
<1>15. ReportsPlaced(text, all, options)
  BY <1>14 DEF ReportsPlaced
<1>16. RepetitionsCounted(text, all)
  BY <1>4, <1>12, ReportedCounted
<1> DEFINE own == OwnLines(text, node, java, context)
<1>17. Spread(node, text, own) /\ Spread(java, text, own) /\ Spread(python, text, own)
  <2>1. Spread(node, text, own)
    <3>1. CASE run["javascript-test"]
      BY <1>3, <3>1, NodeSpread
    <3>2. CASE ~run["javascript-test"]
      BY <1>3, <3>2, SpreadEmpty
    <3> QED  BY <3>1, <3>2
  <2>2. Spread(java, text, own)
    <3>1. CASE run["java-test"]
      BY <1>3, <3>1, JavaSpread
    <3>2. CASE ~run["java-test"]
      BY <1>3, <3>2, SpreadEmpty
    <3> QED  BY <3>1, <3>2
  <2>3. Spread(python, text, own)
    <3>1. CASE run["python"]
      BY <1>0, <3>1, PythonSpread
    <3>2. CASE ~run["python"]
      BY <1>0, <3>2, SpreadEmpty
    <3> QED  BY <3>1, <3>2
  <2> QED  BY <2>1, <2>2, <2>3
<1> HIDE DEF own
<1>18. Spread(all, text, own) /\ \E A : From(all, A)
  <2> DEFINE found == swc.diagnostics
             one == Together(found, linker, javac, rust, node, java, python, more)
  <2>1. From(found, {"javascript-swc"}) /\ all = one
    BY <1>2, <1>10
  <2> HIDE DEF found
  <2>2. Spread(one, text, own) /\ \E A : From(one, A)
    BY <1>2, <1>11, <1>17, <2>1, SpreadTogether
  <2> QED  BY <2>1, <2>2
<1>19. ReportedOnce(text, all)
  <2>1. PICK A : From(all, A)
    BY <1>18
  <2> QED  BY <1>6, <1>18, <2>1, SpreadReported DEF own
<1>20. EachSaid(text, all, options)
  <2> SUFFICES ASSUME options.fallback = "Generic", options.overrides = {},
                      NEW line \in Range(text), Reads[line].candidate, Reads[line].actionable
               PROVE  IsSaid(line, text, all)
    BY DEF EachSaid
  <2>1. /\ "cpp_linker" \in Hints(text) => run["cpp-linker"]
        /\ "java_compiler" \in Hints(text) => run["java-compiler"]
        /\ "python" \in Hints(text) => run["python"]
    BY <1>1, CalledFor
  <2>2. /\ "cpp_linker" \in Hints(text) => linker = CppLinker(text)
        /\ "java_compiler" \in Hints(text) => javac = JavaCompiler(text)
        /\ "python" \in Hints(text) => python = ReducePython(text, context)
    BY <1>0, <2>1
  <2>3. IsSaid(line, text, Together(swc.diagnostics, linker, javac, rust, node, java, python, more))
    BY <1>0, <1>2, <1>4, <1>6, <1>9, <1>11, <2>2, LineSaid
  <2> QED  BY <1>10, <2>3
<1> QED  BY <1>15, <1>16, <1>19, <1>20 DEF all
==============================================================================
