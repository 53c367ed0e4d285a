------------------------- MODULE BuiltinParsersProofs -------------------------
(***************************************************************************)
(* For all lines, limits, scopes and streams: the buffers of the built-in  *)
(* diagnostic parser stay within their bound and span lines they saw, a    *)
(* text that fits its buffer is reduced as the batch interface does, its   *)
(* exceptions are reported in their places and once, its lines with their  *)
(* counts, no line that looks like an error is lost, and a test log keeps  *)
(* the best evidence in it.                                                *)
(***************************************************************************)
EXTENDS LanguageParsersProofs

Pushes ==
  {push \in [stream : Streams, line : Lines, raw : RawLines] : push.line = Framed[push.raw]}
BufferType == [text : Seq(Lines), first_line : Nat, last_line : Nat]

TypeOK ==
  /\ setup \in SetupType
  /\ open \subseteq Scopes
  /\ log \in [Scopes -> Seq(Pushes)]

(* The lines of a stream that are dispatched, and the number of the next.  *)
DispatchedOf(shown, stream) ==
  {i \in DOMAIN shown : shown[i].stream = stream /\ ~Reads[shown[i].line].blank}
NumberIn(shown, stream) == Cardinality(DispatchedOf(shown, stream)) + 1

(* A buffer of a stream whose next line is to have this number.            *)
BufferFits(buffer, max, number) ==
  /\ buffer \in BufferType
  /\ TextLength(buffer.text) <= max + 1
  /\ 1 <= buffer.first_line /\ buffer.first_line <= buffer.last_line
  /\ buffer.last_line < number

BuffersFit ==
  \A scope \in DOMAIN scopes : \A stream \in DOMAIN scopes[scope] :
    BufferFits(scopes[scope][stream], setup.options.max_buffered_scope_bytes,
               NumberIn(log[scope], stream))

IInv == TypeOK /\ DOMAIN scopes \subseteq open /\ BuffersFit

----------------------------------------------------------------------------
LEMMA ReadingFacts ==
  ASSUME NEW line \in Lines
  PROVE  /\ Reads[line].size \in Nat /\ Reads[line].blank \in BOOLEAN
         /\ ~Reads[line].blank => Reads[line].size > 0
BY LanguageParsersAssumption DEF ReadingType

LEMMA CutFacts ==
  ASSUME NEW line \in Lines, NEW n \in 0..Reads[line].size, Cut[line][n] # 0
  PROVE  Cut[line][n] \in Lines /\ Reads[Cut[line][n]].size \in 1..n
BY BuiltinParsersAssumption DEF BuiltinParsersAssumption

LEMMA RawFacts ==
  ASSUME NEW raw \in RawLines
  PROVE  Framed[raw] \in Lines /\ Normal[raw] \in Lines
BY BuiltinParsersAssumption DEF BuiltinParsersAssumption

LEMMA OptionsFacts ==
  ASSUME setup \in SetupType
  PROVE  /\ setup.options.max_buffered_scope_bytes \in Nat
         /\ setup.raws \subseteq RawLines /\ setup.streams \subseteq Streams
BY DEF SetupType

----------------------------------------------------------------------------
LEMMA DispatchedFinite ==
  ASSUME NEW shown \in Seq(Pushes), NEW stream
  PROVE  /\ IsFiniteSet(DispatchedOf(shown, stream))
         /\ Cardinality(DispatchedOf(shown, stream)) \in Nat
<1>1. IsFiniteSet(1..Len(shown))
  BY FS_Interval
<1>2. DispatchedOf(shown, stream) \subseteq 1..Len(shown)
  BY DEF DispatchedOf
<1>3. IsFiniteSet(DispatchedOf(shown, stream))
  BY <1>1, <1>2, FS_Subset
<1> QED
  BY <1>3, FS_CardinalityType

LEMMA DispatchedGrows ==
  ASSUME NEW shown \in Seq(Pushes), NEW pushed \in Pushes, NEW stream
  PROVE  Cardinality(DispatchedOf(Append(shown, pushed), stream)) =
           Cardinality(DispatchedOf(shown, stream))
             + (IF pushed.stream = stream /\ ~Reads[pushed.line].blank THEN 1 ELSE 0)
<1> DEFINE longer == Append(shown, pushed)
<1>1. /\ longer \in Seq(Pushes) /\ Len(longer) = Len(shown) + 1
      /\ \A i \in 1..Len(shown) : longer[i] = shown[i]
      /\ longer[Len(shown) + 1] = pushed
  OBVIOUS
<1>2. CASE pushed.stream = stream /\ ~Reads[pushed.line].blank
  <2>1. DispatchedOf(longer, stream) = DispatchedOf(shown, stream) \cup {Len(shown) + 1}
    BY <1>1, <1>2 DEF DispatchedOf
  <2>2. Len(shown) + 1 \notin DispatchedOf(shown, stream)
    BY DEF DispatchedOf
  <2> QED
    BY <1>2, <2>1, <2>2, DispatchedFinite, FS_AddElement
<1>3. CASE ~(pushed.stream = stream /\ ~Reads[pushed.line].blank)
  <2>1. DispatchedOf(longer, stream) = DispatchedOf(shown, stream)
    BY <1>1, <1>3 DEF DispatchedOf
  <2> QED
    BY <1>3, <2>1, DispatchedFinite
<1> QED
  BY <1>2, <1>3

LEMMA NumberGrows ==
  ASSUME NEW shown \in Seq(Pushes), NEW pushed \in Pushes, NEW stream
  PROVE  /\ NumberIn(shown, stream) \in Nat \ {0}
         /\ NumberIn(Append(shown, pushed), stream) =
              NumberIn(shown, stream)
                + (IF pushed.stream = stream /\ ~Reads[pushed.line].blank THEN 1 ELSE 0)
<1>1. Cardinality(DispatchedOf(shown, stream)) \in Nat
  BY DispatchedFinite
<1> QED
  BY <1>1, DispatchedGrows DEF NumberIn

----------------------------------------------------------------------------
(* The length of a text *)

LEMMA NoTextNoLength == TextLength(<<>>) = 0
PROOF
<1> DEFINE sizes == [i \in DOMAIN <<>> |-> Reads[<<>>[i]].size]
<1>1. sizes = <<>>
  OBVIOUS
<1> HIDE DEF sizes
<1>2. SumFunction(sizes) = 0
  BY <1>1, SumEmpty DEF SumFunction
<1> QED  BY <1>2 DEF TextLength, sizes

LEMMA TextLengthGrows ==
  ASSUME NEW text \in Seq(Lines), NEW line \in Lines
  PROVE  /\ TextLength(text) \in Nat
         /\ TextLength(Append(text, line)) =
              (IF text = <<>> THEN 0 ELSE TextLength(text) + 1) + Reads[line].size
PROOF
<1> DEFINE sizes(t) == [i \in DOMAIN t |-> Reads[t[i]].size]
           size == Reads[line].size
<1>1. \A l \in Lines : Reads[l].size \in Nat
  BY ReadingFacts
<1>2. sizes(text) \in Seq(Nat)
  <2>1. DOMAIN text = 1..Len(text) /\ Len(text) \in Nat
    OBVIOUS
  <2>2. \A i \in 1..Len(text) : Reads[text[i]].size \in Nat
    BY <1>1
  <2> QED  BY <2>1, <2>2
<1>3. sizes(Append(text, line)) = Append(sizes(text), size)
  <2>1. /\ DOMAIN Append(text, line) = 1..Len(text) + 1
        /\ \A i \in 1..Len(text) : Append(text, line)[i] = text[i]
        /\ Append(text, line)[Len(text) + 1] = line
        /\ Len(text) \in Nat
    OBVIOUS
  <2>2. /\ sizes(text) \in Seq(Nat) /\ size \in Nat /\ Len(sizes(text)) = Len(text)
        /\ \A i \in 1..Len(text) : sizes(text)[i] = Reads[text[i]].size
    BY <1>1, <1>2
  <2> DEFINE longer == sizes(Append(text, line))
  <2>3. /\ DOMAIN longer = 1..Len(text) + 1
        /\ \A i \in 1..Len(text) + 1 : longer[i] = Reads[Append(text, line)[i]].size
    BY <2>1
  <2>4. longer = [i \in 1..Len(text) + 1 |-> longer[i]]
    BY <2>1
  <2> HIDE DEF sizes, longer
  <2>5. \A i \in 1..Len(text) + 1 : longer[i] = Append(sizes(text), size)[i]
    <3> SUFFICES ASSUME NEW i \in 1..Len(text) + 1
                 PROVE  longer[i] = Append(sizes(text), size)[i]
      OBVIOUS
    <3>1. CASE i \in 1..Len(text)
      BY <2>1, <2>2, <2>3, <3>1
    <3>2. CASE i = Len(text) + 1
      BY <2>1, <2>2, <2>3, <3>2 DEF size
    <3>3. \A n \in Nat : \A k \in 1..n + 1 : k \in 1..n \/ k = n + 1
      OBVIOUS
    <3> QED  BY <2>1, <3>1, <3>2, <3>3
  <2>6. Append(sizes(text), size) =
          [i \in 1..Len(text) + 1 |-> Append(sizes(text), size)[i]]
    BY <2>2
  <2> QED  BY <2>4, <2>5, <2>6 DEF longer
<1> HIDE DEF sizes
<1>4. SumFunction(Append(sizes(text), size)) = SumFunction(sizes(text)) + size
  BY <1>1, <1>2, SumAppend
<1>5. SumFunction(sizes(text)) \in Nat
  BY <1>2, SumSeqNat
<1>6. /\ TextLength(text) = SumFunction(sizes(text)) + (IF text = <<>> THEN 0 ELSE Len(text) - 1)
      /\ TextLength(Append(text, line)) = SumFunction(sizes(Append(text, line))) + Len(text)
  BY DEF TextLength, sizes
<1>9. TextLength(<<>>) = 0
  BY NoTextNoLength
<1>10. CASE text = <<>>
  <2>1. Len(text) = 0
    BY <1>10
  <2> QED  BY <1>1, <1>3, <1>4, <1>5, <1>6, <1>9, <1>10, <2>1
<1>11. CASE text # <<>>
  <2>1. Len(text) \in Nat \ {0}
    BY <1>11
  <2> DEFINE sum == SumFunction(sizes(text))
  <2>2. TextLength(text) = sum + (Len(text) - 1)
    BY <1>6, <1>11
  <2>3. TextLength(Append(text, line)) = (sum + size) + Len(text)
    BY <1>3, <1>4, <1>6
  <2>4. sum \in Nat /\ size \in Nat
    BY <1>1, <1>5
  <2> HIDE DEF sum, size
  <2>5. TextLength(Append(text, line)) = (TextLength(text) + 1) + size
    BY <2>1, <2>2, <2>3, <2>4
  <2> QED  BY <1>9, <1>11, <2>1, <2>2, <2>4, <2>5 DEF size
<1> QED  BY <1>10, <1>11

(* Buffered keeps a buffer within its bound, whatever the line.            *)
LEMMA BufferedFits ==
  ASSUME setup \in SetupType, NEW buffer, NEW number \in Nat, NEW line \in Lines,
         ~Reads[line].blank, buffer \in BufferType,
         TextLength(buffer.text) <= setup.options.max_buffered_scope_bytes + 1,
         1 <= buffer.first_line, buffer.first_line <= number
  PROVE  BufferFits(Buffered(buffer, line, number),
                    setup.options.max_buffered_scope_bytes, number + 1)
<1> DEFINE length == TextLength(buffer.text)
           max == setup.options.max_buffered_scope_bytes
           available == IF length > max THEN 0 ELSE max - length
           size == Reads[line].size
           room == IF available < size THEN available ELSE size
           kept == IF size + 1 <= available THEN line ELSE Cut[line][room]
           text == IF kept = 0 THEN buffer.text ELSE Append(buffer.text, kept)
<1>1. max \in Nat /\ size \in Nat /\ size > 0 /\ length \in Nat
  BY OptionsFacts, ReadingFacts, TextLengthGrows DEF BufferType
<1>2. Buffered(buffer, line, number) = [buffer EXCEPT !.last_line = number, !.text = text]
  BY Zenon DEF Buffered
<1>3. available \in Nat /\ room \in 0..size /\ room <= available
  BY <1>1
<1>4. available # 0 => length + available = max
  BY <1>1
<1>5. Cut[line][room] # 0 => Cut[line][room] \in Lines /\ Reads[Cut[line][room]].size \in 1..room
  BY <1>3, CutFacts
<1>6. 0 \notin Lines
  BY BuiltinParsersAssumption DEF BuiltinParsersAssumption
<1>7. kept # 0 => /\ kept \in Lines /\ Reads[kept].size \in Nat
                  /\ 1 <= Reads[kept].size /\ Reads[kept].size <= available
  <2>1. CASE size + 1 <= available
    BY <1>1, <1>3, <2>1
  <2>2. CASE ~(size + 1 <= available)
    <3>1. kept = Cut[line][room]
      BY <2>2
    <3> HIDE DEF kept, available, room, size
    <3> QED  BY <1>1, <1>3, <1>5, <3>1
  <2> QED  BY <2>1, <2>2
<1> HIDE DEF kept, available, room, size
<1>8. text \in Seq(Lines) /\ TextLength(text) <= max + 1
  <2>1. CASE kept = 0
    BY <2>1 DEF BufferType
  <2>2. CASE kept # 0
    <3>1. /\ text = Append(buffer.text, kept) /\ text \in Seq(Lines)
          /\ TextLength(text) =
               (IF buffer.text = <<>> THEN 0 ELSE length + 1) + Reads[kept].size
      BY <1>7, <2>2, TextLengthGrows DEF BufferType
    <3> HIDE DEF text, length, max
    <3> QED  BY <1>1, <1>3, <1>4, <1>7, <2>2, <3>1
  <2> QED  BY <2>1, <2>2
<1> HIDE DEF text
<1>9. LET next == Buffered(buffer, line, number)
      IN  /\ next \in BufferType /\ next.text = text
          /\ next.first_line = buffer.first_line /\ next.last_line = number
  BY <1>2, <1>8 DEF BufferType
<1> QED  BY <1>8, <1>9 DEF BufferFits, max

----------------------------------------------------------------------------
LEMMA IInvInit == Init => IInv
<1> SUFFICES ASSUME Init PROVE IInv
  OBVIOUS
<1>1. TypeOK
  BY BuiltinParsersAssumption DEF Init, TypeOK, BuiltinParsersAssumption
<1>2. DOMAIN scopes = {}
  BY DEF Init
<1> QED
  BY <1>1, <1>2 DEF IInv, BuffersFit

(* A scope that keeps its buffers and its log keeps them within bounds.    *)
LEMMA FitKept ==
  ASSUME IInv, setup' = setup, DOMAIN scopes' \subseteq DOMAIN scopes,
         \A scope \in DOMAIN scopes' : scopes'[scope] = scopes[scope] /\ log'[scope] = log[scope]
  PROVE  BuffersFit'
BY DEF IInv, BuffersFit

LEMMA BeginScopeKeeps ==
  ASSUME IInv, NEW scope \in Scopes, BeginScope(scope)
  PROVE  IInv'
<1>1. BuffersFit'
  BY FitKept DEF BeginScope
<1>2. TypeOK' /\ DOMAIN scopes' \subseteq open'
  BY DEF IInv, TypeOK, BeginScope
<1> QED
  BY <1>1, <1>2 DEF IInv

LEMMA EndScopeKeeps ==
  ASSUME IInv, NEW scope \in Scopes, NEW reason \in setup.reasons, EndScope(scope, reason)
  PROVE  IInv'
<1>1. /\ DOMAIN scopes' = DOMAIN scopes \ {scope} /\ setup' = setup
      /\ \A other \in DOMAIN scopes' : scopes'[other] = scopes[other]
  BY DEF EndScope, Restrict
<1>2. \A other \in DOMAIN scopes' : log'[other] = log[other]
  BY <1>1 DEF IInv, TypeOK, EndScope
<1>3. BuffersFit'
  BY <1>1, <1>2, FitKept
<1>4. TypeOK' /\ DOMAIN scopes' \subseteq open'
  BY <1>1 DEF IInv, TypeOK, EndScope
<1> QED
  BY <1>3, <1>4 DEF IInv

(* The buffer that observe finds or inserts.                               *)
LEMMA BufferFound ==
  ASSUME IInv, NEW scope \in Scopes, NEW stream,
         NEW number \in Nat \ {0}, number = NumberIn(log[scope], stream)
  PROVE  LET buffer == Buffer(scope, stream, number)
         IN  /\ buffer \in BufferType
             /\ TextLength(buffer.text) <= setup.options.max_buffered_scope_bytes + 1
             /\ 1 <= buffer.first_line /\ buffer.first_line <= number
<1>1. CASE stream \in DOMAIN Buffers(scope)
  <2>1. scope \in DOMAIN scopes /\ Buffers(scope) = scopes[scope]
    BY <1>1 DEF Buffers
  <2>2. BufferFits(scopes[scope][stream], setup.options.max_buffered_scope_bytes, number)
    BY <1>1, <2>1 DEF IInv, BuffersFit
  <2> QED
    BY <1>1, <2>1, <2>2 DEF Buffer, BufferFits, BufferType
<1>2. CASE stream \notin DOMAIN Buffers(scope)
  <2>1. Buffer(scope, stream, number) = NewBuffer(number)
    BY <1>2 DEF Buffer
  <2>2. NewBuffer(number) \in BufferType
        /\ NewBuffer(number).first_line = number /\ NewBuffer(number).text = <<>>
    BY DEF NewBuffer, BufferType
  <2>3. setup.options.max_buffered_scope_bytes \in Nat
    BY OptionsFacts DEF IInv, TypeOK
  <2> QED
    BY <2>1, <2>2, <2>3, NoTextNoLength
<1> QED
  BY <1>1, <1>2

LEMMA ObserveKeeps ==
  ASSUME IInv, NEW scope \in Scopes, NEW stream \in setup.streams, NEW raw \in setup.raws,
         Observe(scope, stream, raw)
  PROVE  IInv'
<1> DEFINE line == Framed[raw]
           pushed == [stream |-> stream, line |-> line, raw |-> raw]
           number == NumberIn(log[scope], stream)
           max == setup.options.max_buffered_scope_bytes
<1>1. TypeOK /\ DOMAIN scopes \subseteq open /\ BuffersFit
  BY DEF IInv
<1>2. stream \in Streams /\ line \in Lines /\ pushed \in Pushes
  BY <1>1, OptionsFacts, RawFacts DEF TypeOK, Pushes
<1>3. /\ scope \in open /\ setup' = setup /\ open' = open
      /\ log' = [log EXCEPT ![scope] = Append(@, pushed)]
  BY DEF Observe
<1>4. TypeOK'
  BY <1>1, <1>2, <1>3 DEF TypeOK
<1>5. /\ log[scope] \in Seq(Pushes) /\ log'[scope] = Append(log[scope], pushed)
      /\ \A other \in Scopes \ {scope} : log'[other] = log[other]
  BY <1>1, <1>3 DEF TypeOK
<1>6. number \in Nat \ {0} /\ number = Number(scope, stream)
  <2>1. number \in Nat \ {0}
    BY <1>2, <1>5, NumberGrows
  <2>2. number = Number(scope, stream)
    BY DEF NumberIn, DispatchedOf, Number, Dispatched
  <2> QED
    BY <2>1, <2>2
<1>7. \A s : /\ NumberIn(log[scope], s) \in Nat
             /\ NumberIn(log'[scope], s) \in Nat
             /\ NumberIn(log[scope], s) <= NumberIn(log'[scope], s)
  BY <1>2, <1>5, NumberGrows
<1>8. CASE Reads[line].blank
  <2>1. scopes' = scopes
    BY <1>8 DEF Observe
  <2>2. ASSUME NEW other \in DOMAIN scopes, NEW s \in DOMAIN scopes[other]
        PROVE  BufferFits(scopes[other][s], max, NumberIn(log'[other], s))
    <3>1. BufferFits(scopes[other][s], max, NumberIn(log[other], s))
      BY <1>1 DEF BuffersFit
    <3>2. other \in Scopes
      BY <1>1 DEF TypeOK
    <3>3. CASE other = scope
      BY <1>7, <3>1, <3>3 DEF BufferFits, BufferType
    <3>4. CASE other # scope
      BY <1>5, <3>1, <3>2, <3>4
    <3> QED
      BY <3>3, <3>4
  <2> QED
    BY <1>1, <1>3, <1>4, <2>1, <2>2 DEF IInv, BuffersFit
<1>9. CASE ~Reads[line].blank
  <2> DEFINE buffers == [other \in DOMAIN Buffers(scope) \cup {stream} |->
               IF other = stream THEN Buffered(Buffer(scope, stream, number), line, number)
               ELSE Buffers(scope)[other]]
  <2>1. scopes' = [other \in DOMAIN scopes \cup {scope} |->
                     IF other = scope THEN buffers ELSE scopes[other]]
    BY <1>6, <1>9 DEF Observe, Kept
  <2>2. NumberIn(log'[scope], stream) = number + 1
    BY <1>2, <1>5, <1>9, NumberGrows
  <2>3. BufferFits(Buffered(Buffer(scope, stream, number), line, number), max, number + 1)
    BY <1>1, <1>2, <1>6, <1>9, BufferFound, BufferedFits DEF TypeOK
  <2> HIDE DEF number, max
  <2>4. ASSUME NEW s \in DOMAIN buffers
        PROVE  BufferFits(buffers[s], max, NumberIn(log'[scope], s))
    <3>1. CASE s = stream
      BY <2>2, <2>3, <3>1
    <3>2. CASE s # stream
      <4>1. scope \in DOMAIN scopes /\ s \in DOMAIN scopes[scope]
            /\ buffers[s] = scopes[scope][s]
        BY <3>2 DEF Buffers
      <4>2. BufferFits(scopes[scope][s], max, NumberIn(log[scope], s))
        BY <1>1, <4>1 DEF BuffersFit, max
      <4> QED
        BY <1>7, <4>1, <4>2 DEF BufferFits, BufferType
    <3> QED
      BY <3>1, <3>2
  <2> HIDE DEF buffers
  <2>5. ASSUME NEW other \in DOMAIN scopes', NEW s \in DOMAIN scopes'[other]
        PROVE  BufferFits(scopes'[other][s], max, NumberIn(log'[other], s))
    <3>1. CASE other = scope
      BY <2>1, <2>4, <3>1
    <3>2. CASE other # scope
      <4>1. other \in DOMAIN scopes /\ other \in Scopes /\ scopes'[other] = scopes[other]
        BY <1>1, <2>1, <3>2 DEF TypeOK
      <4>2. BufferFits(scopes[other][s], max, NumberIn(log[other], s))
        BY <1>1, <4>1 DEF BuffersFit, max
      <4> QED
        BY <1>5, <3>2, <4>1, <4>2
    <3> QED
      BY <3>1, <3>2
  <2>6. BuffersFit'
    BY <1>3, <2>5 DEF BuffersFit, max
  <2>7. DOMAIN scopes' \subseteq open'
    BY <1>1, <1>3, <2>1
  <2> QED
    BY <1>4, <2>6, <2>7 DEF IInv
<1> QED
  BY <1>8, <1>9

----------------------------------------------------------------------------
LEMMA IInvStep == IInv /\ [Next]_vars => IInv'
<1> SUFFICES ASSUME IInv, [Next]_vars PROVE IInv'
  OBVIOUS
<1>1. CASE Finish
  <2>1. BuffersFit'
    BY <1>1, FitKept DEF Finish
  <2> QED
    BY <1>1, <2>1 DEF IInv, TypeOK, Finish
<1>2. CASE UNCHANGED vars
  <2>1. BuffersFit'
    BY <1>2, FitKept DEF vars
  <2> QED
    BY <1>2, <2>1 DEF IInv, TypeOK, vars
<1> QED
  BY <1>1, <1>2, BeginScopeKeeps, ObserveKeeps, EndScopeKeeps DEF Next

(* The invariant: types, buffers of open scopes only, and bounds by the    *)
(* number of lines that the stream has shown.                              *)
THEOREM BuffersInvariant == Spec => []IInv
<1> QED
  BY IInvInit, IInvStep, PTL DEF Spec

(* Whatever is pushed, cut or left out and however scopes interleave, the  *)
(* parser's buffers are bounded and their spans are of lines shown         *)
(* (observe and flush_scope).                                              *)
THEOREM BuffersAlwaysBounded == Spec => []BuffersBounded
<1>1. IInv => BuffersBounded
  <2> SUFFICES ASSUME IInv, NEW scope \in DOMAIN scopes, NEW stream \in DOMAIN scopes[scope]
               PROVE  LET buffer == scopes[scope][stream]
                      IN  /\ TextLength(buffer.text) <= setup.options.max_buffered_scope_bytes + 1
                          /\ 1 <= buffer.first_line /\ buffer.first_line <= buffer.last_line
                          /\ buffer.last_line < Number(scope, stream)
    BY DEF BuffersBounded, IInv
  <2>1. NumberIn(log[scope], stream) = Number(scope, stream)
    BY DEF NumberIn, DispatchedOf, Number, Dispatched
  <2> QED
    BY <2>1 DEF IInv, BuffersFit, BufferFits
<1> QED
  BY <1>1, BuffersInvariant, PTL

----------------------------------------------------------------------------
(* The lines of one stream *)

TextOf(shown, stream) == WithoutBlanks(LinesOf(OfStream(shown, stream)))
Counts(shown, stream) ==
  /\ OfStream(shown, stream) \in Seq(Pushes)
  /\ Cardinality(Written(OfStream(shown, stream))) = Cardinality(DispatchedOf(shown, stream))
  /\ Written(OfStream(shown, stream)) = {} <=> DispatchedOf(shown, stream) = {}

LEMMA LinesGrow ==
  ASSUME NEW shown \in Seq(Pushes), NEW pushed \in Pushes
  PROVE  /\ LinesOf(shown) \in Seq(Lines)
         /\ LinesOf(Append(shown, pushed)) = Append(LinesOf(shown), pushed.line)
PROOF
<1> DEFINE longer == Append(shown, pushed)
<1>1. /\ longer \in Seq(Pushes) /\ Len(longer) = Len(shown) + 1 /\ Len(shown) \in Nat
      /\ \A i \in 1..Len(shown) : longer[i] = shown[i]
      /\ longer[Len(shown) + 1] = pushed
      /\ DOMAIN longer = 1..Len(shown) + 1 /\ DOMAIN shown = 1..Len(shown)
  OBVIOUS
<1>2. \A i \in 1..Len(shown) : shown[i].line \in Lines
  <2>1. \A i \in 1..Len(shown) : shown[i] \in Pushes
    OBVIOUS
  <2> QED  BY <2>1 DEF Pushes
<1>3. LinesOf(shown) = [i \in 1..Len(shown) |-> shown[i].line]
  BY <1>1 DEF LinesOf
<1>4. LinesOf(shown) \in Seq(Lines) /\ Len(LinesOf(shown)) = Len(shown)
  BY <1>1, <1>2, <1>3
<1> HIDE DEF longer
<1>5. LinesOf(longer) = [i \in 1..Len(shown) + 1 |-> longer[i].line]
  BY <1>1 DEF LinesOf
<1>6. pushed.line \in Lines
  BY DEF Pushes
<1> DEFINE texts == LinesOf(shown)
           more == LinesOf(longer)
<1>7. /\ \A i \in 1..Len(shown) : more[i] = texts[i]
      /\ more[Len(shown) + 1] = pushed.line
  BY <1>1, <1>3, <1>5
<1>8. DOMAIN more = 1..Len(shown) + 1
  BY <1>5
<1>9. more = [i \in 1..Len(shown) + 1 |-> more[i]]
  BY <1>5
<1> DEFINE n == Len(shown)
           x == pushed.line
<1>10. texts \in Seq(Lines) /\ Len(texts) = n /\ n \in Nat /\ x \in Lines
  BY <1>1, <1>4, <1>6
<1>11. /\ \A i \in 1..n : more[i] = texts[i]
       /\ more[n + 1] = x /\ more = [i \in 1..n + 1 |-> more[i]]
  BY <1>7, <1>9
<1> HIDE DEF texts, more, n, x
<1>12. more \in Seq(Lines) /\ Len(more) = n + 1
  <2>1. \A i \in 1..n + 1 : more[i] \in Lines
    <3>1. \A i \in 1..n : texts[i] \in Lines
      BY <1>10
    <3>2. \A i \in 1..n + 1 : i = n + 1 \/ i \in 1..n
      BY <1>10
    <3> QED  BY <1>10, <1>11, <3>1, <3>2
  <2> QED  BY <1>10, <1>11, <2>1
<1> DEFINE append == Append(texts, x)
<1>13. /\ append \in Seq(Lines) /\ Len(append) = n + 1
       /\ \A i \in 1..n : append[i] = texts[i]
       /\ append[n + 1] = x
  BY <1>10
<1> HIDE DEF append
<1>14. \A i \in 1..n + 1 : append[i] = more[i]
  <2>1. \A i \in 1..n + 1 : i = n + 1 \/ i \in 1..n
    BY <1>10
  <2> QED  BY <1>11, <1>13, <2>1
<1>15. append = more
  <2>1. /\ append = [i \in 1..n + 1 |-> append[i]]
        /\ more = [i \in 1..n + 1 |-> more[i]]
    BY <1>12, <1>13
  <2> HIDE DEF n
  <2> QED  BY <1>14, <2>1
<1> QED  BY <1>4, <1>15 DEF append, texts, more, x, longer

LEMMA StreamGrows ==
  ASSUME NEW shown \in Seq(Pushes), NEW pushed \in Pushes, NEW stream
  PROVE  /\ OfStream(shown, stream) \in Seq(Pushes)
         /\ OfStream(Append(shown, pushed), stream) =
              IF pushed.stream = stream THEN Append(OfStream(shown, stream), pushed)
              ELSE OfStream(shown, stream)
PROOF
<1> DEFINE those == [stream : {stream}, line : Lines, raw : RawLines]
<1>1. pushed \in those <=> pushed.stream = stream
  BY DEF Pushes
<1>2. Only(shown, those) \in Seq(Pushes \cap those)
  BY OnlyType
<1>3. Only(shown, those) \in Seq(Pushes)
  <2> HIDE DEF those
  <2>1. Pushes \cap those \subseteq Pushes
    OBVIOUS
  <2> QED  BY <1>2, <2>1
<1>4. Only(Append(shown, pushed), those) =
        IF pushed \in those THEN Append(Only(shown, those), pushed) ELSE Only(shown, those)
  <2> HIDE DEF those
  <2> QED  BY OnlyAppend
<1> QED  BY <1>1, <1>3, <1>4 DEF OfStream

LEMMA WrittenTextGrows ==
  ASSUME NEW text \in Seq(Lines), NEW line \in Lines
  PROVE  /\ WrittenText(WithoutBlanks(text))
         /\ WithoutBlanks(text) \in Seq(Lines)
         /\ WithoutBlanks(Append(text, line)) =
              IF Reads[line].blank THEN WithoutBlanks(text) ELSE Append(WithoutBlanks(text), line)
PROOF
<1>1. line \in WrittenLines <=> ~Reads[line].blank
  BY DEF WrittenLines
<1>2. WithoutBlanks(text) \in Seq(Lines \cap WrittenLines)
  BY OnlyType DEF WithoutBlanks
<1>3. Lines \cap WrittenLines \subseteq Lines
  OBVIOUS
<1>4. WithoutBlanks(Append(text, line)) =
        IF line \in WrittenLines THEN Append(WithoutBlanks(text), line) ELSE WithoutBlanks(text)
  BY OnlyAppend DEF WithoutBlanks
<1>5. WithoutBlanks(text) \in Seq(Lines)
  BY <1>2, <1>3
<1>6. \A i \in DOMAIN WithoutBlanks(text) : WithoutBlanks(text)[i] \in Lines \cap WrittenLines
  BY <1>2
<1>7. WrittenText(WithoutBlanks(text))
  BY <1>5, <1>6 DEF WrittenText, WrittenLines
<1> QED  BY <1>1, <1>4, <1>5, <1>7

(* One more line of a scope, for the text of each of its streams.          *)
LEMMA TextGrows ==
  ASSUME NEW shown \in Seq(Pushes), NEW pushed \in Pushes, NEW stream
  PROVE  /\ TextOf(shown, stream) \in Seq(Lines) /\ WrittenText(TextOf(shown, stream))
         /\ TextOf(Append(shown, pushed), stream) =
              IF pushed.stream = stream /\ ~Reads[pushed.line].blank
              THEN Append(TextOf(shown, stream), pushed.line) ELSE TextOf(shown, stream)
PROOF
<1> DEFINE own == OfStream(shown, stream)
<1>1. own \in Seq(Pushes) /\ pushed.line \in Lines
  BY StreamGrows DEF Pushes
<1>2. OfStream(Append(shown, pushed), stream) =
        IF pushed.stream = stream THEN Append(own, pushed) ELSE own
  BY StreamGrows
<1> HIDE DEF own
<1>3. LinesOf(own) \in Seq(Lines) /\ LinesOf(Append(own, pushed)) = Append(LinesOf(own), pushed.line)
  BY <1>1, LinesGrow
<1>4. /\ WithoutBlanks(LinesOf(own)) \in Seq(Lines) /\ WrittenText(WithoutBlanks(LinesOf(own)))
      /\ WithoutBlanks(Append(LinesOf(own), pushed.line)) =
           IF Reads[pushed.line].blank THEN WithoutBlanks(LinesOf(own))
           ELSE Append(WithoutBlanks(LinesOf(own)), pushed.line)
  BY <1>1, <1>3, WrittenTextGrows
<1>5. TextOf(shown, stream) = WithoutBlanks(LinesOf(own))
  BY DEF TextOf, own
<1>6. TextOf(Append(shown, pushed), stream) =
        IF pushed.stream = stream THEN WithoutBlanks(LinesOf(Append(own, pushed)))
        ELSE WithoutBlanks(LinesOf(own))
  BY <1>2 DEF TextOf
<1> QED  BY <1>3, <1>4, <1>5, <1>6

(* What the log says of a stream, by its lines and by its own lines.       *)
Accords(shown, stream) ==
  /\ Cardinality(Written(OfStream(shown, stream))) = Cardinality(DispatchedOf(shown, stream))
  /\ Cardinality(DispatchedOf(shown, stream)) = 0 => TextOf(shown, stream) = <<>>

LEMMA WrittenGrows ==
  ASSUME NEW own \in Seq(Pushes), NEW pushed \in Pushes
  PROVE  /\ IsFiniteSet(Written(own)) /\ Cardinality(Written(own)) \in Nat
         /\ Cardinality(Written(Append(own, pushed))) =
              Cardinality(Written(own)) + (IF Reads[pushed.line].blank THEN 0 ELSE 1)
PROOF
<1> DEFINE longer == Append(own, pushed)
           n == Len(own)
<1>1. /\ n \in Nat /\ DOMAIN own = 1..n /\ DOMAIN longer = 1..n + 1
      /\ \A i \in 1..n : longer[i] = own[i]
      /\ longer[n + 1] = pushed
  OBVIOUS
<1> HIDE DEF longer, n
<1>2. IsFiniteSet(Written(own)) /\ Cardinality(Written(own)) \in Nat
  <2>1. Written(own) \subseteq 1..n
    BY <1>1 DEF Written
  <2>2. IsFiniteSet(1..n)
    BY <1>1, FS_Interval
  <2> QED  BY <2>1, <2>2, FS_Subset, FS_CardinalityType
<1>3. CASE Reads[pushed.line].blank
  <2>1. Written(longer) = Written(own)
    BY <1>1, <1>3 DEF Written
  <2> QED  BY <1>2, <1>3, <2>1 DEF longer
<1>4. CASE ~Reads[pushed.line].blank
  <2>1. Written(longer) = Written(own) \cup {n + 1}
    BY <1>1, <1>4 DEF Written
  <2>2. n + 1 \notin Written(own)
    BY <1>1 DEF Written
  <2> QED  BY <1>2, <1>4, <2>1, <2>2, FS_AddElement DEF longer
<1> QED  BY <1>2, <1>3, <1>4

LEMMA StreamAccords ==
  ASSUME NEW shown \in Seq(Pushes), NEW stream
  PROVE  /\ Accords(shown, stream) /\ OfStream(shown, stream) \in Seq(Pushes)
         /\ Written(OfStream(shown, stream)) = {} <=> DispatchedOf(shown, stream) = {}
         /\ DispatchedOf(shown, stream) = {} => TextOf(shown, stream) = <<>>
PROOF
<1> DEFINE P == {s \in Seq(Pushes) : OfStream(s, stream) \in Seq(Pushes) /\ Accords(s, stream)}
<1>1. <<>> \in P
  <2> DEFINE none == <<>>
  <2>1. none \in Seq(Pushes) /\ none \in Seq(Lines) /\ DOMAIN none = {}
    OBVIOUS
  <2>2. OfStream(none, stream) = none /\ WithoutBlanks(none) = none
    BY OnlyEmpty DEF OfStream, WithoutBlanks
  <2>3. LinesOf(none) = none
    BY DEF LinesOf
  <2> HIDE DEF none
  <2>4. Written(none) = {} /\ DispatchedOf(none, stream) = {}
    BY <2>1 DEF Written, DispatchedOf
  <2>5. TextOf(none, stream) = none
    BY <2>2, <2>3 DEF TextOf
  <2>6. Accords(none, stream)
    BY <2>2, <2>4, <2>5 DEF Accords, none
  <2> QED  BY <2>1, <2>2, <2>6 DEF none
<1>2. ASSUME NEW s \in P, NEW pushed \in Pushes
      PROVE  Append(s, pushed) \in P
  <2> DEFINE own == OfStream(s, stream)
             longer == Append(s, pushed)
             counts == pushed.stream = stream /\ ~Reads[pushed.line].blank
  <2>1. s \in Seq(Pushes) /\ own \in Seq(Pushes) /\ Accords(s, stream) /\ longer \in Seq(Pushes)
    OBVIOUS
  <2>2. OfStream(longer, stream) = IF pushed.stream = stream THEN Append(own, pushed) ELSE own
    BY <2>1, StreamGrows
  <2>3. OfStream(longer, stream) \in Seq(Pushes)
    BY <2>1, <2>2
  <2>4. TextOf(longer, stream) =
          IF counts THEN Append(TextOf(s, stream), pushed.line) ELSE TextOf(s, stream)
    BY <2>1, TextGrows
  <2>5. /\ Cardinality(DispatchedOf(longer, stream)) =
             Cardinality(DispatchedOf(s, stream)) + (IF counts THEN 1 ELSE 0)
        /\ Cardinality(DispatchedOf(s, stream)) \in Nat
    BY <2>1, DispatchedGrows, DispatchedFinite
  <2>6. /\ Cardinality(Written(own)) \in Nat
        /\ Cardinality(Written(Append(own, pushed))) =
             Cardinality(Written(own)) + (IF Reads[pushed.line].blank THEN 0 ELSE 1)
    BY <2>1, WrittenGrows
  <2> HIDE DEF longer, own
  <2>7. Cardinality(Written(OfStream(longer, stream))) =
          Cardinality(Written(own)) + (IF counts THEN 1 ELSE 0)
    BY <2>2, <2>6
  <2>8. Cardinality(Written(own)) = Cardinality(DispatchedOf(s, stream))
    BY <2>1 DEF Accords, own
  <2>9. Cardinality(DispatchedOf(longer, stream)) = 0 => TextOf(longer, stream) = <<>>
    <3>1. CASE counts
      BY <2>5, <3>1
    <3>2. CASE ~counts
      BY <2>1, <2>4, <2>5, <3>2 DEF Accords
    <3> QED  BY <3>1, <3>2
  <2>10. Accords(longer, stream)
    BY <2>5, <2>7, <2>8, <2>9 DEF Accords
  <2> QED  BY <2>1, <2>3, <2>10 DEF longer
<1>3. P \in SUBSET Seq(Pushes)
  OBVIOUS
<1>4. P = Seq(Pushes)
  <2> HIDE DEF P
  <2> QED  BY <1>1, <1>2, <1>3, InductionOnSequences
<1>5. OfStream(shown, stream) \in Seq(Pushes) /\ Accords(shown, stream)
  BY <1>4
<1>6. IsFiniteSet(DispatchedOf(shown, stream)) /\ IsFiniteSet(Written(OfStream(shown, stream)))
  <2>1. DOMAIN OfStream(shown, stream) = 1..Len(OfStream(shown, stream))
        /\ Len(OfStream(shown, stream)) \in Nat
    BY <1>5
  <2>2. Written(OfStream(shown, stream)) \subseteq 1..Len(OfStream(shown, stream))
    BY <2>1 DEF Written
  <2>3. IsFiniteSet(1..Len(OfStream(shown, stream)))
    BY <2>1, FS_Interval
  <2> QED  BY <2>2, <2>3, DispatchedFinite, FS_Subset
<1>7. /\ Cardinality(DispatchedOf(shown, stream)) = 0 <=> DispatchedOf(shown, stream) = {}
      /\ Cardinality(Written(OfStream(shown, stream))) = 0
           <=> Written(OfStream(shown, stream)) = {}
  BY <1>6, FS_EmptySet
<1> QED  BY <1>5, <1>7 DEF Accords

----------------------------------------------------------------------------
(* A buffer, and the text of its stream while it fits *)

LEMMA WholeBuffered ==
  ASSUME setup \in SetupType, NEW buffer \in BufferType, NEW number \in Nat,
         NEW line \in Lines, ~Reads[line].blank, NEW text \in Seq(Lines),
         TextLength(text) <= setup.options.max_buffered_scope_bytes => buffer.text = text
  PROVE  LET next == Buffered(buffer, line, number)
         IN  /\ next.first_line = buffer.first_line /\ next.last_line = number
             /\ TextLength(Append(text, line)) <= setup.options.max_buffered_scope_bytes =>
                  next.text = Append(text, line)
PROOF
<1> DEFINE length == TextLength(buffer.text)
           max == setup.options.max_buffered_scope_bytes
           available == IF length > max THEN 0 ELSE max - length
           size == Reads[line].size
           room == IF available < size THEN available ELSE size
           kept == IF size + 1 <= available THEN line ELSE Cut[line][room]
           more == IF kept = 0 THEN buffer.text ELSE Append(buffer.text, kept)
           longer == Append(text, line)
<1>1. max \in Nat /\ size \in Nat /\ size > 0 /\ length \in Nat
  BY OptionsFacts, ReadingFacts, TextLengthGrows DEF BufferType
<1>2. Buffered(buffer, line, number) = [buffer EXCEPT !.last_line = number, !.text = more]
  BY Zenon DEF Buffered
<1>3. Cut[line][size] = line /\ line # 0
  <2>1. Cut[line][size] = line
    BY BuiltinParsersAssumption DEF BuiltinParsersAssumption
  <2>2. 0 \notin Lines
    BY BuiltinParsersAssumption DEF BuiltinParsersAssumption
  <2> QED  BY <2>1, <2>2
<1>4. ASSUME TextLength(longer) <= max
      PROVE  more = longer
  <2>1. /\ TextLength(text) \in Nat
        /\ TextLength(longer) = (IF text = <<>> THEN 0 ELSE TextLength(text) + 1) + size
    BY TextLengthGrows
  <2> HIDE DEF longer
  <2>2. TextLength(text) <= max
    <3>1. CASE text = <<>>
      BY <1>1, <3>1, NoTextNoLength
    <3>2. CASE text # <<>>
      BY <1>1, <1>4, <2>1, <3>2
    <3> QED  BY <3>1, <3>2
  <2>3. buffer.text = text /\ length = TextLength(text)
    BY <2>2
  <2>4. available = max - length
    BY <1>1, <2>2, <2>3
  <2> HIDE DEF length, available
  <2>5. available \in Nat /\ size <= available
    <3>1. CASE text = <<>>
      BY <1>1, <1>4, <2>1, <2>3, <2>4, <3>1, NoTextNoLength
    <3>2. CASE text # <<>>
      BY <1>1, <1>4, <2>1, <2>3, <2>4, <3>2
    <3> QED  BY <3>1, <3>2
  <2>6. room = size
    BY <1>1, <2>5
  <2>7. kept = line
    BY <1>3, <2>6
  <2> HIDE DEF kept
  <2> QED  BY <1>3, <2>3, <2>7 DEF longer
<1>5. more \in Seq(Lines)
  <2>1. room \in 0..size
    BY <1>1
  <2>2. Cut[line][room] # 0 => Cut[line][room] \in Lines
    BY <2>1, CutFacts
  <2> HIDE DEF room, size
  <2>3. kept # 0 => kept \in Lines
    BY <2>2
  <2> HIDE DEF kept
  <2> QED  BY <2>3 DEF BufferType
<1> HIDE DEF more, longer
<1>6. LET next == Buffered(buffer, line, number)
      IN  /\ next.text = more
          /\ next.first_line = buffer.first_line /\ next.last_line = number
  BY <1>2, <1>5 DEF BufferType
<1> QED  BY <1>4, <1>6 DEF longer, max

(* A buffer of a stream spans the lines of it that were dispatched, and    *)
(* while their text fits it holds all of it.                               *)
BufferHolds(buffer, shown, stream, max) ==
  /\ buffer.first_line = 1 /\ buffer.last_line = Cardinality(DispatchedOf(shown, stream))
  /\ TextLength(TextOf(shown, stream)) <= max => buffer.text = TextOf(shown, stream)

(* The streams of an open scope that have a buffer are those that wrote.   *)
BuffersHold(buffers, shown, max) ==
  /\ DOMAIN buffers = {stream \in Streams : DispatchedOf(shown, stream) # {}}
  /\ \A stream \in DOMAIN buffers : BufferHolds(buffers[stream], shown, stream, max)

Holding ==
  \A scope \in Scopes :
    /\ BuffersHold(Buffers(scope), log[scope], setup.options.max_buffered_scope_bytes)
    /\ scope \notin open => log[scope] = <<>>

LEMMA NothingHeld ==
  ASSUME NEW max
  PROVE  BuffersHold([stream \in {} |-> <<>>], <<>>, max)
PROOF
<1> DEFINE none == <<>>
           buffers == [stream \in {} |-> <<>>]
<1>1. \A stream \in Streams : DispatchedOf(none, stream) = {}
  BY DEF DispatchedOf
<1>2. DOMAIN buffers = {}
  OBVIOUS
<1> HIDE DEF none, buffers
<1>3. BuffersHold(buffers, none, max)
  BY <1>1, <1>2 DEF BuffersHold
<1> QED  BY <1>3 DEF none, buffers

LEMMA HoldingInit == Init => Holding /\ Ended = {}
PROOF
<1> SUFFICES ASSUME Init PROVE Holding /\ Ended = {}
  OBVIOUS
<1>1. \A scope \in Scopes : /\ log[scope] = <<>> /\ segments[scope] = <<>>
                            /\ Buffers(scope) = [stream \in {} |-> <<>>]
  BY DEF Init, Buffers
<1>2. Holding
  BY <1>1, NothingHeld DEF Holding
<1>3. \A scope \in Scopes : Range(segments[scope]) = {}
  BY <1>1 DEF Range
<1>4. Ended = {}
  BY <1>3 DEF Ended
<1> QED  BY <1>2, <1>4

----------------------------------------------------------------------------
(* One line more *)

LEMMA BufferHeldByOther ==
  ASSUME NEW buffer, NEW shown \in Seq(Pushes), NEW pushed \in Pushes, NEW stream, NEW max,
         ~(pushed.stream = stream /\ ~Reads[pushed.line].blank),
         BufferHolds(buffer, shown, stream, max)
  PROVE  BufferHolds(buffer, Append(shown, pushed), stream, max)
PROOF
<1>1. TextOf(Append(shown, pushed), stream) = TextOf(shown, stream)
  BY TextGrows
<1>2. Cardinality(DispatchedOf(Append(shown, pushed), stream)) =
        Cardinality(DispatchedOf(shown, stream))
  BY DispatchedGrows, DispatchedFinite
<1> QED  BY <1>1, <1>2 DEF BufferHolds

LEMMA DispatchedNext ==
  ASSUME NEW shown \in Seq(Pushes), NEW pushed \in Pushes, NEW stream
  PROVE  DispatchedOf(Append(shown, pushed), stream) # {} <=>
           \/ DispatchedOf(shown, stream) # {}
           \/ pushed.stream = stream /\ ~Reads[pushed.line].blank
PROOF
<1> DEFINE longer == Append(shown, pushed)
<1>1. /\ Cardinality(DispatchedOf(longer, stream)) =
           Cardinality(DispatchedOf(shown, stream))
             + (IF pushed.stream = stream /\ ~Reads[pushed.line].blank THEN 1 ELSE 0)
      /\ Cardinality(DispatchedOf(shown, stream)) \in Nat
      /\ IsFiniteSet(DispatchedOf(shown, stream))
      /\ longer \in Seq(Pushes)
  BY DispatchedGrows, DispatchedFinite
<1> HIDE DEF longer
<1>2. IsFiniteSet(DispatchedOf(longer, stream))
  BY <1>1, DispatchedFinite
<1>3. /\ Cardinality(DispatchedOf(longer, stream)) = 0 <=> DispatchedOf(longer, stream) = {}
      /\ Cardinality(DispatchedOf(shown, stream)) = 0 <=> DispatchedOf(shown, stream) = {}
  BY <1>1, <1>2, FS_EmptySet
<1>4. CASE pushed.stream = stream /\ ~Reads[pushed.line].blank
  BY <1>1, <1>3, <1>4 DEF longer
<1>5. CASE ~(pushed.stream = stream /\ ~Reads[pushed.line].blank)
  BY <1>1, <1>3, <1>5 DEF longer
<1> QED  BY <1>4, <1>5

LEMMA BufferHeld ==
  ASSUME IInv, Holding, NEW scope \in Scopes, NEW stream \in Streams, NEW raw \in RawLines,
         NEW line, line = Framed[raw], ~Reads[line].blank,
         NEW number, number = NumberIn(log[scope], stream)
  PROVE  BufferHolds(Buffered(Buffer(scope, stream, number), line, number),
                     Append(log[scope], [stream |-> stream, line |-> line, raw |-> raw]), stream,
                     setup.options.max_buffered_scope_bytes)
PROOF
<1> DEFINE shown == log[scope]
           pushed == [stream |-> stream, line |-> line, raw |-> raw]
           max == setup.options.max_buffered_scope_bytes
           buffer == Buffer(scope, stream, number)
           count == Cardinality(DispatchedOf(shown, stream))
           text == TextOf(shown, stream)
<1>1. setup \in SetupType /\ shown \in Seq(Pushes) /\ pushed \in Pushes /\ line \in Lines
  BY RawFacts DEF IInv, TypeOK, Pushes
<1>2. number \in Nat \ {0} /\ number = count + 1 /\ count \in Nat
  BY <1>1, DispatchedFinite DEF NumberIn
<1>3. buffer \in BufferType
  BY <1>2, BufferFound
<1>4. text \in Seq(Lines) /\ TextOf(Append(shown, pushed), stream) = Append(text, line)
  BY <1>1, TextGrows
<1>5. Cardinality(DispatchedOf(Append(shown, pushed), stream)) = count + 1
  BY <1>1, DispatchedGrows
<1>6. BuffersHold(Buffers(scope), shown, max)
  BY DEF Holding
<1> HIDE DEF shown, max, buffer, count, text
<1>7. buffer.first_line = 1 /\ (TextLength(text) <= max => buffer.text = text)
  <2>1. CASE stream \in DOMAIN Buffers(scope)
    <3>1. buffer = Buffers(scope)[stream]
      BY <2>1 DEF Buffer, buffer
    <3> QED  BY <1>6, <2>1, <3>1 DEF BuffersHold, BufferHolds, text
  <2>2. CASE stream \notin DOMAIN Buffers(scope)
    <3>1. buffer = NewBuffer(number)
      BY <2>2 DEF Buffer, buffer
    <3>2. DispatchedOf(shown, stream) = {}
      BY <1>6, <2>2 DEF BuffersHold
    <3>3. text = <<>> /\ count = 0
      BY <1>1, <3>2, StreamAccords, FS_EmptySet DEF text, count
    <3> QED  BY <1>2, <3>1, <3>3 DEF NewBuffer
  <2> QED  BY <2>1, <2>2
<1>8. LET next == Buffered(buffer, line, number)
      IN  /\ next.first_line = buffer.first_line /\ next.last_line = number
          /\ TextLength(Append(text, line)) <= max => next.text = Append(text, line)
  BY <1>1, <1>2, <1>3, <1>4, <1>7, WholeBuffered DEF max
<1>9. BufferHolds(Buffered(buffer, line, number), Append(shown, pushed), stream, max)
  BY <1>2, <1>4, <1>5, <1>7, <1>8 DEF BufferHolds
<1> QED  BY <1>9 DEF shown, max, buffer, pushed

LEMMA ObserveHolds ==
  ASSUME IInv, Holding, NEW scope \in Scopes, NEW stream \in setup.streams, NEW raw \in setup.raws,
         Observe(scope, stream, raw)
  PROVE  Holding'
PROOF
<1> DEFINE line == Framed[raw]
           pushed == [stream |-> stream, line |-> line, raw |-> raw]
           number == NumberIn(log[scope], stream)
           max == setup.options.max_buffered_scope_bytes
           longer == Append(log[scope], pushed)
           after == IF Reads[line].blank THEN Buffers(scope)
                    ELSE [other \in DOMAIN Buffers(scope) \cup {stream} |->
                            IF other = stream
                            THEN Buffered(Buffer(scope, stream, number), line, number)
                            ELSE Buffers(scope)[other]]
<1>1. setup \in SetupType /\ log[scope] \in Seq(Pushes) /\ log \in [Scopes -> Seq(Pushes)]
  BY DEF IInv, TypeOK
<1>2. stream \in Streams /\ raw \in RawLines /\ line \in Lines /\ pushed \in Pushes
  BY <1>1, OptionsFacts, RawFacts DEF Pushes
<1>3. /\ scope \in open /\ setup' = setup /\ open' = open
      /\ log' = [log EXCEPT ![scope] = Append(@, pushed)]
  BY DEF Observe
<1>4. log'[scope] = longer /\ \A other \in Scopes \ {scope} : log'[other] = log[other]
  BY <1>1, <1>3
<1>5. number = Number(scope, stream)
  BY DEF NumberIn, DispatchedOf, Number, Dispatched
<1>6. \A other \in Scopes : Buffers(other)' = IF other = scope THEN after ELSE Buffers(other)
  <2>1. CASE Reads[line].blank
    <3>1. scopes' = scopes
      BY <2>1 DEF Observe
    <3> QED  BY <2>1, <3>1 DEF Buffers
  <2>2. CASE ~Reads[line].blank
    <3>1. scopes' = [other \in DOMAIN scopes \cup {scope} |->
                       IF other = scope THEN after ELSE scopes[other]]
      BY <1>5, <2>2 DEF Observe, Kept
    <3> HIDE DEF after
    <3> QED  BY <3>1 DEF Buffers
  <2> QED  BY <2>1, <2>2
<1>7. BuffersHold(Buffers(scope), log[scope], max)
  BY DEF Holding
<1>8. BuffersHold(after, longer, max)
  <2>1. DOMAIN after = {s \in Streams : DispatchedOf(longer, s) # {}}
    <3>1. \A s \in Streams : DispatchedOf(longer, s) # {} <=>
                               \/ DispatchedOf(log[scope], s) # {}
                               \/ stream = s /\ ~Reads[line].blank
      <4>1. pushed.stream = stream /\ pushed.line = line
        OBVIOUS
      <4> HIDE DEF pushed
      <4>2. \A s \in Streams : DispatchedOf(longer, s) # {} <=>
                                 \/ DispatchedOf(log[scope], s) # {}
                                 \/ pushed.stream = s /\ ~Reads[pushed.line].blank
        BY <1>1, <1>2, DispatchedNext
      <4> HIDE DEF longer
      <4> QED  BY <4>1, <4>2
    <3>2. DOMAIN after = IF Reads[line].blank THEN DOMAIN Buffers(scope)
                         ELSE DOMAIN Buffers(scope) \cup {stream}
      OBVIOUS
    <3> HIDE DEF after, longer
    <3> QED  BY <1>2, <1>7, <3>1, <3>2 DEF BuffersHold
  <2>2. ASSUME NEW s \in DOMAIN after
        PROVE  BufferHolds(after[s], longer, s, max)
    <3>1. CASE s = stream /\ ~Reads[line].blank
      <4>1. after[s] = Buffered(Buffer(scope, stream, number), line, number)
        BY <3>1
      <4> HIDE DEF after
      <4> QED  BY <1>2, <3>1, <4>1, BufferHeld
    <3>2. CASE ~(s = stream /\ ~Reads[line].blank)
      <4>1. s \in DOMAIN Buffers(scope) /\ after[s] = Buffers(scope)[s]
        BY <3>2
      <4> HIDE DEF after
      <4>2. BufferHolds(Buffers(scope)[s], log[scope], s, max)
        BY <1>7, <4>1 DEF BuffersHold
      <4>3. ~(pushed.stream = s /\ ~Reads[pushed.line].blank)
        BY <3>2
      <4> HIDE DEF pushed, max
      <4> QED  BY <1>1, <1>2, <4>1, <4>2, <4>3, BufferHeldByOther
    <3> QED  BY <3>1, <3>2
  <2> HIDE DEF after, longer
  <2> QED  BY <2>1, <2>2 DEF BuffersHold
<1> HIDE DEF after, longer, max
<1>9. ASSUME NEW other \in Scopes
      PROVE  /\ BuffersHold(Buffers(other)', log'[other], max)
             /\ other \notin open' => log'[other] = <<>>
  <2>1. CASE other = scope
    BY <1>3, <1>4, <1>6, <1>8, <2>1
  <2>2. CASE other # scope
    BY <1>3, <1>4, <1>6, <2>2 DEF Holding, max
  <2> QED  BY <2>1, <2>2
<1> QED  BY <1>3, <1>9 DEF Holding, max

LEMMA BeginScopeHolds ==
  ASSUME Holding, NEW scope \in Scopes, BeginScope(scope)
  PROVE  Holding'
PROOF
<1>1. /\ scopes' = scopes /\ log' = log /\ setup' = setup /\ open' = open \cup {scope}
  BY DEF BeginScope
<1>2. \A other \in Scopes : Buffers(other)' = Buffers(other)
  BY <1>1 DEF Buffers
<1> QED  BY <1>1, <1>2 DEF Holding

LEMMA EndScopeHolds ==
  ASSUME IInv, Holding, NEW scope \in Scopes, NEW reason, EndScope(scope, reason)
  PROVE  Holding'
PROOF
<1> DEFINE max == setup.options.max_buffered_scope_bytes
<1>1. /\ open' = open \ {scope} /\ setup' = setup
      /\ log' = [log EXCEPT ![scope] = <<>>]
      /\ scopes' = Restrict(scopes, DOMAIN scopes \ {scope})
  BY DEF EndScope
<1>2. log'[scope] = <<>> /\ \A other \in Scopes \ {scope} : log'[other] = log[other]
  BY <1>1 DEF IInv, TypeOK
<1>3. /\ DOMAIN scopes' = DOMAIN scopes \ {scope}
      /\ \A other \in DOMAIN scopes' : scopes'[other] = scopes[other]
  BY <1>1 DEF Restrict
<1>4. \A other \in Scopes : Buffers(other)' = IF other = scope THEN [stream \in {} |-> <<>>]
                                              ELSE Buffers(other)
  BY <1>3 DEF Buffers
<1> HIDE DEF max
<1>5. ASSUME NEW other \in Scopes
      PROVE  /\ BuffersHold(Buffers(other)', log'[other], max)
             /\ other \notin open' => log'[other] = <<>>
  <2>1. CASE other = scope
    BY <1>2, <1>4, <2>1, NothingHeld
  <2>2. CASE other # scope
    BY <1>1, <1>2, <1>4, <2>2 DEF Holding, max
  <2> QED  BY <2>1, <2>2
<1> QED  BY <1>1, <1>5 DEF Holding, max

LEMMA FinishHolds ==
  ASSUME Holding, Finish
  PROVE  Holding'
PROOF
<1>1. scopes' = scopes /\ log' = log /\ setup' = setup /\ open' = open
  BY DEF Finish
<1>2. \A other \in Scopes : Buffers(other)' = Buffers(other)
  BY <1>1 DEF Buffers
<1> QED  BY <1>1, <1>2 DEF Holding

----------------------------------------------------------------------------
(* A text of lines that nothing was cut from and nothing runs over *)

LEMMA UnbrokenWhole ==
  ASSUME NEW raws \in Seq(RawLines),
         \A i \in 1..Len(raws) : i < Len(raws) => raws[i] \notin OpenLines
  PROVE  Unbroken(raws) = raws
PROOF
<1> DEFINE size == Len(raws)
           After(lines, k) ==
             IF lines # <<>> /\ Last(lines) \in OpenLines
             THEN Append(Front(lines), Joined[Last(lines)][raws[k]])
             ELSE Append(lines, raws[k])
           Eq(f) == f = [k \in 0..size |-> IF k = 0 THEN <<>> ELSE After(f[k - 1], k)]
           g == [k \in 0..size |-> SubSeq(raws, 1, k)]
<1>1. size \in Nat /\ \A k \in 1..size : k - 1 \in 0..size /\ k \in 0..size /\ k # 0
  OBVIOUS
<1>2. g[0] = <<>> /\ g[size] = raws
  OBVIOUS
<1>3. ASSUME NEW k \in 1..size
      PROVE  After(g[k - 1], k) = g[k]
  <2>1. /\ g[k - 1] = SubSeq(raws, 1, k - 1) /\ g[k] = SubSeq(raws, 1, k)
        /\ Append(SubSeq(raws, 1, k - 1), raws[k]) = SubSeq(raws, 1, k)
    BY <1>1
  <2>2. SubSeq(raws, 1, k - 1) # <<>> => Last(SubSeq(raws, 1, k - 1)) \notin OpenLines
    <3> SUFFICES ASSUME SubSeq(raws, 1, k - 1) # <<>>
                 PROVE  Last(SubSeq(raws, 1, k - 1)) \notin OpenLines
      OBVIOUS
    <3>1. Len(SubSeq(raws, 1, k - 1)) = k - 1 /\ k - 1 \in 1..size /\ k - 1 < size
      OBVIOUS
    <3>2. SubSeq(raws, 1, k - 1)[k - 1] = raws[k - 1]
      BY <3>1
    <3> QED  BY <3>1, <3>2 DEF Last
  <2> HIDE DEF g
  <2> QED  BY <2>1, <2>2
<1> HIDE DEF After
<1>4. Eq(g)
  <2>1. \A k \in 0..size : g[k] = IF k = 0 THEN <<>> ELSE After(g[k - 1], k)
    <3>1. \A k \in 0..size : k = 0 \/ k \in 1..size
      BY <1>1
    <3> HIDE DEF g
    <3> QED  BY <1>2, <1>3, <3>1
  <2>2. g = [k \in 0..size |-> g[k]]
    OBVIOUS
  <2> HIDE DEF g, size
  <2> QED  BY <2>1, <2>2
<1>5. Unbroken(raws) = (CHOOSE f : Eq(f))[size]
  BY DEF Unbroken, After
<1> DEFINE h == CHOOSE f : Eq(f)
<1>6. Eq(h)
  <2> HIDE DEF Eq
  <2> QED  BY <1>4
<1> HIDE DEF h, g
<1>7. h[0] = <<>> /\ \A k \in 1..size : h[k] = After(h[k - 1], k)
  <2>1. 0 \in 0..size
    BY <1>1
  <2> HIDE DEF size
  <2> QED  BY <1>1, <1>6, <2>1
<1>8. StepsAgree(h, g, size)
  BY <1>2, <1>3, <1>7 DEF StepsAgree
<1>9. h[size] = g[size]
  BY <1>1, <1>8, CoursesAgree
<1> QED  BY <1>2, <1>5, <1>9 DEF h

LEMMA NormalizedWhole ==
  ASSUME NEW shown \in Seq(Pushes), LinesWhole(shown)
  PROVE  Normalized(RawsOf(shown)) = WithoutBlanks(LinesOf(shown))
PROOF
<1> DEFINE raws == RawsOf(shown)
           size == Len(shown)
<1>1. \A i \in 1..size : shown[i].raw \in RawLines
  <2>1. \A i \in 1..size : shown[i] \in Pushes
    OBVIOUS
  <2> QED  BY <2>1 DEF Pushes
<1>2. size \in Nat /\ DOMAIN shown = 1..size
  OBVIOUS
<1>3. raws = [i \in 1..size |-> shown[i].raw]
  BY <1>2 DEF RawsOf
<1>4. raws \in Seq(RawLines) /\ Len(raws) = size /\ DOMAIN raws = 1..size
  BY <1>1, <1>2, <1>3
<1>5. \A i \in 1..size : i < size => raws[i] \notin OpenLines
  BY <1>2, <1>3 DEF LinesWhole
<1> HIDE DEF raws
<1>6. Unbroken(raws) = raws
  BY <1>4, <1>5, UnbrokenWhole
<1>7. [i \in DOMAIN raws |-> Normal[raws[i]]] = LinesOf(shown)
  <2>1. \A i \in 1..size : Normal[raws[i]] = shown[i].line
    BY <1>2, <1>3 DEF LinesWhole
  <2>2. LinesOf(shown) = [i \in 1..size |-> shown[i].line]
    BY <1>2 DEF LinesOf
  <2> QED  BY <1>4, <2>1, <2>2
<1> QED  BY <1>6, <1>7 DEF Normalized, raws

----------------------------------------------------------------------------
(* What is found at the end of a scope *)

(* What is found of a text that fits is found of all of it.                *)
FoundOfWhole(found, text, options) ==
  /\ WrittenText(text)
  /\ TextLength(text) <= options.max_buffered_scope_bytes
       => found.diagnostics = TextDiagnostics(text, options)
SegmentReduced(segment, options) ==
  /\ SegmentAgrees(segment, options)
  /\ \A found \in Range(segment.found) :
       FoundOfWhole(found, TextOf(segment.log, found.stream), options)
SegmentsReduced == \A segment \in Ended : SegmentReduced(segment, setup.options)

LEMMA FlushedReduced ==
  ASSUME IInv, Holding, NEW scope \in Scopes, NEW segment,
         segment.log = log[scope], segment.found = Flushed(scope)
  PROVE  SegmentReduced(segment, setup.options)
PROOF
<1> DEFINE shown == log[scope]
           buffers == Buffers(scope)
           max == setup.options.max_buffered_scope_bytes
           writing == {stream \in Streams : DispatchedOf(shown, stream) # {}}
           order == Ascending(writing)
           found == Flushed(scope)
<1>1. shown \in Seq(Pushes) /\ setup \in SetupType
  BY DEF IInv, TypeOK
<1>2. BuffersHold(buffers, shown, max) /\ DOMAIN buffers = writing
  BY DEF Holding, BuffersHold
<1>3. writing \in SUBSET (Nat \ {0}) /\ IsFiniteSet(writing)
  <2>1. \A stream \in writing : \E i \in 1..Len(shown) : shown[i].stream = stream
    BY <1>1 DEF DispatchedOf
  <2> DEFINE all == [i \in 1..Len(shown) |-> shown[i].stream]
             domain == 1..Len(shown)
             image == {all[i] : i \in domain}
  <2>2. writing \subseteq image
    BY <2>1
  <2>3. IsFiniteSet(domain)
    <3>1. Len(shown) \in Nat
      BY <1>1
    <3> QED  BY <3>1, FS_Interval
  <2>4. IsFiniteSet(image)
    <3>1. all \in [domain -> image]
      OBVIOUS
    <3>2. \A s \in image : \E i \in domain : all[i] = s
      OBVIOUS
    <3> HIDE DEF all, domain, image
    <3>3. all \in Surjection(domain, image)
      BY <3>1, <3>2, Fun_IsSurj
    <3> QED  BY <2>3, <3>3, FS_Surjection
  <2>5. Streams \subseteq Nat \ {0}
    BY BuiltinParsersAssumption DEF BuiltinParsersAssumption
  <2> HIDE DEF image
  <2> QED  BY <2>2, <2>4, <2>5, FS_Subset
<1>4. \A n \in DOMAIN order : order[n] \in writing
  <2> HIDE DEF writing
  <2> QED  BY <1>3, AscendingElements
<1>5. order = [n \in DOMAIN order |-> order[n]]
  <2> HIDE DEF writing
  <2> QED  BY DEF Ascending
<1>6. found = [n \in DOMAIN order |->
                 [stream |-> order[n], first_line |-> buffers[order[n]].first_line,
                  last_line |-> buffers[order[n]].last_line,
                  diagnostics |-> TextDiagnostics(buffers[order[n]].text, setup.options)]]
  BY <1>2 DEF Flushed
<1>7. \A stream \in Streams :
        Written(OfStream(shown, stream)) # {} <=> DispatchedOf(shown, stream) # {}
  BY <1>1, StreamAccords
<1>8. {stream \in Streams : Written(OfStream(shown, stream)) # {}} = writing
  BY <1>7
<1> HIDE DEF found, order, shown, buffers
<1>9. [n \in DOMAIN found |-> found[n].stream] = order
  <2>1. DOMAIN found = DOMAIN order /\ \A n \in DOMAIN order : found[n].stream = order[n]
    BY <1>6
  <2>2. [n \in DOMAIN found |-> found[n].stream] = [n \in DOMAIN order |-> order[n]]
    BY <2>1
  <2> QED  BY <1>5, <2>2
<1>10. ASSUME NEW n \in DOMAIN found
       PROVE  /\ ReducedAsBatch(OfStream(shown, found[n].stream), found[n], setup.options)
              /\ FoundOfWhole(found[n], TextOf(shown, found[n].stream), setup.options)
  <2> DEFINE stream == order[n]
             own == OfStream(shown, stream)
             buffer == buffers[stream]
             text == TextOf(shown, stream)
             batch == [setup.options EXCEPT !.overrides = {}]
  <2>1. n \in DOMAIN order /\ stream \in writing
    BY <1>4, <1>6
  <2>2. /\ found[n].stream = stream /\ found[n].first_line = buffer.first_line
        /\ found[n].last_line = buffer.last_line
        /\ found[n].diagnostics = TextDiagnostics(buffer.text, setup.options)
    BY <1>6, <2>1
  <2>3. BufferHolds(buffer, shown, stream, max)
    BY <1>2, <2>1 DEF BuffersHold
  <2>4. /\ Cardinality(Written(own)) = Cardinality(DispatchedOf(shown, stream))
        /\ own \in Seq(Pushes)
    BY <1>1, StreamAccords DEF Accords
  <2>5. setup.options.overrides = {} => batch = setup.options
    BY <1>1 DEF SetupType
  <2>6. text = WithoutBlanks(LinesOf(own))
    BY DEF TextOf
  <2>7. TextLength(text) \in Nat /\ max \in Nat /\ WrittenText(text)
    <3>1. PICK i \in 1..Len(shown) : TRUE
      BY <1>1, <2>1 DEF DispatchedOf
    <3>2. shown[i] \in Pushes
      BY <1>1, <3>1
    <3>3. text \in Seq(Lines) /\ WrittenText(text) /\ shown[i].line \in Lines
      BY <1>1, <3>2, TextGrows DEF Pushes
    <3> HIDE DEF text
    <3> QED  BY <1>1, <3>3, TextLengthGrows, OptionsFacts DEF max
  <2> HIDE DEF stream, own, buffer, text, batch
  <2>8. ASSUME TextLength(text) <= max, setup.options.overrides = {}, LinesWhole(own)
        PROVE  ReducedAsBatch(own, found[n], setup.options)
    <3>1. buffer.text = text
      BY <2>3, <2>8 DEF BufferHolds, text
    <3>2. found[n].diagnostics = TextDiagnostics(text, batch)
      BY <2>2, <2>5, <2>8, <3>1
    <3>3. text = Normalized(RawsOf(own))
      BY <2>4, <2>6, <2>8, NormalizedWhole
    <3>4. found[n].diagnostics = BatchDiagnostics(RawsOf(own), setup.options)
      BY <3>2, <3>3 DEF BatchDiagnostics, batch
    <3> QED  BY <2>2, <2>3, <2>4, <3>4 DEF ReducedAsBatch, BufferHolds, own
  <2>9. ASSUME \/ ~(TextLength(text) <= max) \/ setup.options.overrides # {}
               \/ ~LinesWhole(own)
        PROVE  ReducedAsBatch(own, found[n], setup.options)
    BY <2>2, <2>3, <2>4, <2>6, <2>7, <2>9 DEF ReducedAsBatch, BufferHolds, own, max
  <2>10. FoundOfWhole(found[n], text, setup.options)
    BY <2>2, <2>3, <2>7 DEF FoundOfWhole, BufferHolds, text, max
  <2>11. ReducedAsBatch(own, found[n], setup.options)
    BY <2>8, <2>9
  <2> QED  BY <2>2, <2>10, <2>11 DEF own, text
<1>11. ASSUME NEW one \in Range(found)
       PROVE  /\ ReducedAsBatch(OfStream(shown, one.stream), one, setup.options)
              /\ FoundOfWhole(one, TextOf(shown, one.stream), setup.options)
  BY <1>10 DEF Range
<1> HIDE DEF writing
<1>12. SegmentAgrees(segment, setup.options)
  BY <1>8, <1>9, <1>11 DEF SegmentAgrees, shown, found, order
<1> QED  BY <1>11, <1>12 DEF SegmentReduced, shown, found

----------------------------------------------------------------------------
(* The segments *)

(* Of each scope there is a sequence of them.                              *)
SegmentsKept ==
  /\ DOMAIN segments = Scopes
  /\ \A scope \in Scopes : \E T : segments[scope] \in Seq(T)

LEMMA OneMoreInRange ==
  ASSUME NEW T, NEW seq \in Seq(T), NEW x
  PROVE  /\ \E U : Append(seq, x) \in Seq(U)
         /\ \A e \in Range(Append(seq, x)) : e \in Range(seq) \/ e = x
PROOF
<1> DEFINE U == T \cup {x}
           longer == Append(seq, x)
           n == Len(seq)
<1>1. seq \in Seq(U) /\ x \in U
  OBVIOUS
<1> HIDE DEF U
<1>2. /\ longer \in Seq(U) /\ n \in Nat /\ DOMAIN seq = 1..n /\ DOMAIN longer = 1..n + 1
      /\ \A i \in 1..n : longer[i] = seq[i]
      /\ longer[n + 1] = x
  BY <1>1
<1> HIDE DEF longer, n
<1>3. \A i \in 1..n + 1 : i = n + 1 \/ i \in 1..n
  BY <1>2
<1>4. ASSUME NEW e \in Range(longer) PROVE e \in Range(seq) \/ e = x
  <2>1. PICK i \in 1..n + 1 : longer[i] = e
    BY <1>2 DEF Range
  <2> QED  BY <1>2, <1>3, <2>1 DEF Range
<1> QED  BY <1>2, <1>4 DEF longer

LEMMA SegmentsKeptNow ==
  ASSUME SegmentsKept, SegmentsReduced, NEW segment, SegmentReduced(segment, setup.options),
         NEW scope \in Scopes, setup' = setup,
         segments' = [segments EXCEPT ![scope] = Append(@, segment)]
  PROVE  SegmentsKept' /\ SegmentsReduced'
PROOF
<1>1. /\ DOMAIN segments' = Scopes /\ segments'[scope] = Append(segments[scope], segment)
      /\ \A other \in Scopes \ {scope} : segments'[other] = segments[other]
  BY DEF SegmentsKept
<1>2. PICK T : segments[scope] \in Seq(T)
  BY DEF SegmentsKept
<1>3. /\ \E U : segments'[scope] \in Seq(U)
      /\ \A e \in Range(segments'[scope]) : e \in Range(segments[scope]) \/ e = segment
  BY <1>1, <1>2, OneMoreInRange
<1>4. SegmentsKept'
  BY <1>1, <1>3 DEF SegmentsKept
<1>5. ASSUME NEW other \in Scopes, NEW e \in Range(segments'[other])
      PROVE  SegmentReduced(e, setup.options)
  <2>1. e \in Range(segments[other]) \/ e = segment
    BY <1>1, <1>3
  <2> QED  BY <2>1 DEF SegmentsReduced, Ended
<1>6. \A e \in Ended' : SegmentReduced(e, setup'.options)
  BY <1>5 DEF Ended
<1> QED  BY <1>4, <1>6 DEF SegmentsReduced

LEMMA BatchInit == Init => IInv /\ Holding /\ SegmentsKept /\ SegmentsReduced
PROOF
<1> SUFFICES ASSUME Init PROVE SegmentsKept
  BY IInvInit, HoldingInit DEF SegmentsReduced
<1>1. <<>> \in Seq({})
  OBVIOUS
<1>2. DOMAIN segments = Scopes /\ \A scope \in Scopes : segments[scope] = <<>>
  BY DEF Init
<1> QED  BY <1>1, <1>2 DEF SegmentsKept

(* Segments that stay as they are were reduced as they were.               *)
LEMMA SegmentsUnchanged ==
  ASSUME SegmentsKept, SegmentsReduced, setup' = setup, segments' = segments
  PROVE  SegmentsKept' /\ SegmentsReduced'
PROOF
<1>1. Ended' = Ended
  BY DEF Ended
<1>2. SegmentsKept'
  BY DEF SegmentsKept
<1>3. SegmentsReduced'
  BY <1>1 DEF SegmentsReduced
<1> QED  BY <1>2, <1>3

LEMMA BatchStep ==
  IInv /\ Holding /\ SegmentsKept /\ SegmentsReduced /\ [Next]_vars
    => (IInv /\ Holding /\ SegmentsKept /\ SegmentsReduced)'
PROOF
<1> SUFFICES ASSUME IInv, Holding, SegmentsKept, SegmentsReduced, [Next]_vars
             PROVE  Holding' /\ SegmentsKept' /\ SegmentsReduced'
  BY IInvStep
<1>1. CASE UNCHANGED vars
  <2>1. scopes' = scopes /\ log' = log /\ setup' = setup /\ open' = open /\ segments' = segments
    BY <1>1 DEF vars
  <2>2. \A other \in Scopes : Buffers(other)' = Buffers(other)
    BY <2>1 DEF Buffers
  <2>3. Holding'
    BY <2>1, <2>2 DEF Holding
  <2> QED  BY <2>1, <2>3, SegmentsUnchanged
<1>2. CASE Finish
  <2>1. DOMAIN segments' = Scopes /\ \A scope \in Scopes : segments'[scope] = <<>>
    BY <1>2 DEF Finish
  <2>2. <<>> \in Seq({})
    OBVIOUS
  <2>3. SegmentsKept'
    BY <2>1, <2>2 DEF SegmentsKept
  <2>4. \A scope \in Scopes : Range(segments'[scope]) = {}
    BY <2>1 DEF Range
  <2>5. Ended' = {}
    BY <2>4 DEF Ended
  <2> QED  BY <1>2, <2>3, <2>5, FinishHolds DEF SegmentsReduced
<1>3. ASSUME NEW scope \in Scopes, BeginScope(scope)
      PROVE  Holding' /\ SegmentsKept' /\ SegmentsReduced'
  <2>1. setup' = setup /\ segments' = segments
    BY <1>3 DEF BeginScope
  <2> QED  BY <1>3, <2>1, BeginScopeHolds, SegmentsUnchanged
<1>4. ASSUME NEW scope \in Scopes, NEW stream \in setup.streams, NEW raw \in setup.raws,
             Observe(scope, stream, raw)
      PROVE  Holding' /\ SegmentsKept' /\ SegmentsReduced'
  <2>1. setup' = setup /\ segments' = segments
    BY <1>4 DEF Observe
  <2> QED  BY <1>4, <2>1, ObserveHolds, SegmentsUnchanged
<1>5. ASSUME NEW scope \in Scopes, NEW reason \in setup.reasons, EndScope(scope, reason)
      PROVE  Holding' /\ SegmentsKept' /\ SegmentsReduced'
  <2> DEFINE segment == [log |-> log[scope], complete |-> reason = "Complete",
                         found |-> Flushed(scope)]
  <2>1. setup' = setup /\ segments' = [segments EXCEPT ![scope] = Append(@, segment)]
    BY <1>5 DEF EndScope
  <2>2. segment.log = log[scope] /\ segment.found = Flushed(scope)
    OBVIOUS
  <2> HIDE DEF segment
  <2>3. SegmentReduced(segment, setup.options)
    BY <2>2, FlushedReduced
  <2> QED  BY <1>5, <2>1, <2>3, EndScopeHolds, SegmentsKeptNow
<1> QED  BY <1>1, <1>2, <1>3, <1>4, <1>5 DEF Next

(* Whatever is pushed to whichever streams of whichever scopes, and in     *)
(* whatever order: a stream whose text fits the limit is reduced as        *)
(* reduce_with_policy reduces what was written to it, with the span of its *)
(* lines, the streams in their order (observe and flush_scope), unless a   *)
(* line was cut or leaves a terminal sequence open.                        *)
THEOREM BatchAlwaysAgrees == Spec => []BatchAgrees
PROOF
<1>1. SegmentsReduced => BatchAgrees
  BY DEF SegmentsReduced, SegmentReduced, BatchAgrees
<1> QED  BY <1>1, BatchInit, BatchStep, PTL DEF Spec

----------------------------------------------------------------------------
(* The theorems *)

LEMMA ReportsReduced ==
  ASSUME SegmentsReduced
  PROVE  ExceptionsPlaced /\ LinesCounted /\ ExceptionsReportedOnce /\ LinesAccounted
PROOF
<1> SUFFICES ASSUME NEW one \in WholeTexts
             PROVE  /\ ReportsPlaced(one.text, one.found, setup.options)
                    /\ RepetitionsCounted(one.text, one.found)
                    /\ ReportedOnce(one.text, one.found)
                    /\ EachSaid(one.text, one.found, setup.options)
  BY DEF ExceptionsPlaced, LinesCounted, ExceptionsReportedOnce, LinesAccounted, EachSaid, IsSaid
<1>1. TextLength(one.text) <= setup.options.max_buffered_scope_bytes
  BY DEF WholeTexts
<1>2. PICK segment \in Ended :
        \E found \in Range(segment.found) :
          one = [text |-> TextOf(segment.log, found.stream), found |-> found.diagnostics]
  BY DEF WholeTexts, TextOf
<1>3. PICK found \in Range(segment.found) :
        one = [text |-> TextOf(segment.log, found.stream), found |-> found.diagnostics]
  BY <1>2
<1>4. FoundOfWhole(found, one.text, setup.options)
  BY <1>3 DEF SegmentsReduced, SegmentReduced
<1>5. WrittenText(one.text) /\ one.found = TextDiagnostics(one.text, setup.options)
  BY <1>1, <1>3, <1>4 DEF FoundOfWhole
<1> QED  BY <1>5, ReportsAre

(* Whatever a stream is shown: if its text fits its buffer, the exceptions *)
(* of JavaScript, Java and Python in it and the headers of rustc are       *)
(* reported in their order, each once, with the place that belongs to it   *)
(* and only when something confirms it, and none is left out (NodeTests,   *)
(* JavaTests, RustCompiler and reduce_python, line by line, and            *)
(* add_normalized_text_diagnostics, which arbitrates between them).        *)
THEOREM ExceptionsAlwaysPlaced == Spec => []ExceptionsPlaced
PROOF
<1> QED  BY BatchInit, BatchStep, ReportsReduced, PTL DEF Spec

(* A line that repeats is reported by the parsers of lines once, in the    *)
(* order of first occurrences and with the number of its occurrences,      *)
(* whatever the other parsers have found (TextDiagnosticScan::from_input,  *)
(* reduce_lines).                                                          *)
THEOREM LinesAlwaysCounted == Spec => []LinesCounted
PROOF
<1> QED  BY BatchInit, BatchStep, ReportsReduced, PTL DEF Spec

(* Whatever a stream is shown: of the exceptions of a text that fits its   *)
(* buffer, none is reported both by Python's parser and by another, and    *)
(* where nothing confirms one for both JavaScript and Java, none is        *)
(* reported more often than it occurs (claimed_test_exception, the         *)
(* confirmations of JavaTestDiagnosticParser and of its JavaScript twin).  *)
THEOREM ExceptionsAlwaysReportedOnce == Spec => []ExceptionsReportedOnce
PROOF
<1> QED  BY BatchInit, BatchStep, ReportsReduced, PTL DEF Spec

(* Whatever a stream is shown, with nothing overridden and the generic     *)
(* fallback: each line of a text that fits its buffer which looks like an  *)
(* error is said by some finding, but for what Excused lists; a line that  *)
(* is consumed or claimed is one that a parser of texts has been run for   *)
(* and speaks of (swc_consumed_lines, claimed_language_line, from_input).  *)
THEOREM LinesAlwaysAccounted == Spec => []LinesAccounted
PROOF
<1> QED  BY BatchInit, BatchStep, ReportsReduced, PTL DEF Spec

----------------------------------------------------------------------------
(* Exceptions of which a text does not say enough *)

(* The stack below i is all of a framework and may go on below n.          *)
Undecided(F, W, i, n) ==
  n - i < MaxStackFrames /\ \A k \in (i + 1)..n : k \in F /\ k \in W

LEMMA UndecidedStack ==
  ASSUME NEW F, NEW W, NEW n \in Nat, NEW i \in 1..n
  PROVE  Undecided(F, W, i, n) <=>
           /\ Own(F, W, i, n) = {}
           /\ ~(Cardinality(Below(F, i, n)) >= MaxStackFrames)
           /\ ~\E j \in (i + 1)..n : j \notin Below(F, i, n)
PROOF
<1> DEFINE stack == Below(F, i, n)
<1>0. MaxStackFrames \in Nat /\ i \in Nat
  BY FrameLimit
<1>1. Own(F, W, i, n) = {j \in stack : j - i <= MaxStackFrames /\ j \notin W}
  BY LookedBelow DEF Own
<1>2. CASE \E j \in (i + 1)..n : j \notin F
  <2>1. PICK j \in (i + 1)..n : j \notin F
    BY <1>2
  <2>2. j \in (i + 1)..j
    BY <2>1
  <2>3. j \notin stack
    BY <2>1, <2>2 DEF Below
  <2> QED  BY <2>1, <2>3 DEF Undecided
<1>3. CASE \A j \in (i + 1)..n : j \in F
  <2>1. stack = (i + 1)..n
    <3>1. ASSUME NEW j \in (i + 1)..n PROVE \A k \in (i + 1)..j : k \in F
      <4>1. \A k \in (i + 1)..j : k \in (i + 1)..n
        OBVIOUS
      <4> QED  BY <1>3, <4>1
    <3> QED  BY <3>1 DEF Below
  <2>2. Cardinality(stack) = n - i
    <3> DEFINE a == i + 1
    <3>1. a \in Int /\ n \in Int /\ (~(a > n) \/ (a > n /\ n - i = 0))
      BY <1>0
    <3>2. a \in Int /\ n \in Int /\ n - a + 1 = n - i
      BY <1>0
    <3> HIDE DEF a
    <3>3. Cardinality(a..n) = IF a > n THEN 0 ELSE n - a + 1
      BY <3>2, FS_Interval
    <3> QED  BY <2>1, <3>1, <3>2, <3>3 DEF a
  <2> HIDE DEF stack
  <2>3. n - i < MaxStackFrames <=> ~(n - i >= MaxStackFrames)
    BY <1>0
  <2>4. n - i < MaxStackFrames => \A j \in (i + 1)..n : j - i <= MaxStackFrames
    BY <1>0
  <2>5. CASE n - i < MaxStackFrames
    <3>1. Own(F, W, i, n) = {} <=> \A j \in (i + 1)..n : j \in W
      BY <1>1, <2>1, <2>4, <2>5
    <3>2. ~\E j \in (i + 1)..n : j \notin stack
      BY <2>1
    <3>3. ~(Cardinality(stack) >= MaxStackFrames)
      BY <2>2, <2>3, <2>5
    <3> QED  BY <1>3, <2>5, <3>1, <3>2, <3>3 DEF Undecided, stack
  <2>6. CASE ~(n - i < MaxStackFrames)
    <3>1. Cardinality(stack) >= MaxStackFrames
      BY <2>2, <2>3, <2>6
    <3> QED  BY <2>6, <3>1 DEF Undecided, stack
  <2> QED  BY <2>5, <2>6
<1> QED  BY <1>2, <1>3

(* What a text that may go on does not yet report is the exception whose   *)
(* stack is undecided.                                                     *)
JavaSoFar(text) ==
  [i \in DOMAIN text |->
    IF Reads[text[i]].java_exception = 0 THEN <<>>
    ELSE JavaReport(text, i, StackBelow(text, i, IsJavaFrame), FALSE)]

LEMMA JavaUndecided ==
  ASSUME NEW text, WrittenText(text), NEW i \in 1..Len(text)
  PROVE  JavaSoFar(text)[i] = IF JavaStack(text, i, Len(text)) THEN <<>> ELSE JavaReports(text)[i]
PROOF
<1> DEFINE n == Len(text)
           F == JavaFrames(text)
           W == JavaFramework(text)
           stack == StackBelow(text, i, IsJavaFrame)
           own == Own(F, W, i, n)
           line == text[i]
<1>1. /\ text \in Seq(Lines) /\ n \in Nat /\ DOMAIN text = 1..n
      /\ i \in 1..n /\ n \in i..n /\ \A k \in 1..n : ~Reads[text[k]].blank
  BY DEF WrittenText
<1>2. CASE Reads[line].java_exception = 0
  BY <1>1, <1>2 DEF JavaSoFar, JavaReports, JavaStack
<1>3. CASE Reads[line].java_exception # 0
  <2>1. stack = Below(F, i, n)
    <3>1. \A j \in (i + 1)..n : \A k \in (i + 1)..j : k \in 1..n
      BY <1>1
    <3>2. \A j \in (i + 1)..n : j \in 1..n
      BY <1>1
    <3>3. \A k \in 1..n : k \in F <=> IsJavaFrame(text[k])
      BY <1>1 DEF JavaFrames
    <3>4. stack = {j \in (i + 1)..n : IsJavaFrame(text[j]) /\
                     \A k \in (i + 1)..j : IsJavaFrame(text[k]) \/ Reads[text[k]].blank}
      BY DEF StackBelow
    <3>5. \A j \in (i + 1)..n : j \in (i + 1)..j
      BY <1>1
    <3> HIDE DEF stack, n, F
    <3> QED  BY <1>1, <3>1, <3>2, <3>3, <3>4, <3>5 DEF Below
  <2>2. {j \in Looked(stack) : ~Reads[text[j]].java_framework} = own
    <3>1. \A j \in Looked(stack) : j \in 1..n
      BY <1>1, <2>1 DEF Looked, Below
    <3>2. \A j \in 1..n : j \in W <=> Reads[text[j]].java_framework
      BY <1>1, JavaReadType DEF JavaFramework
    <3> HIDE DEF stack, n, F, W
    <3> QED  BY <2>1, <3>1, <3>2 DEF Own
  <2>3. StackEnded(text, i, stack) <=>
          Cardinality(stack) >= MaxStackFrames \/ \E j \in (i + 1)..n : j \notin stack
    <3>1. \A j \in (i + 1)..n : ~Reads[text[j]].blank
      BY <1>1
    <3> HIDE DEF stack
    <3> QED  BY <3>1 DEF StackEnded
  <2>4. JavaStack(text, i, n) <=> Undecided(F, W, i, n)
    BY <1>1, <1>3 DEF JavaStack, Undecided
  <2> HIDE DEF n, F, W, own, stack
  <2>5. JavaStack(text, i, n) <=> own = {} /\ ~StackEnded(text, i, stack)
    BY <1>1, <2>1, <2>3, <2>4, UndecidedStack DEF own
  <2>6. JavaSoFar(text)[i] = JavaReport(text, i, stack, FALSE)
        /\ JavaReports(text)[i] = JavaReport(text, i, stack, TRUE)
    BY <1>1, <1>3 DEF JavaSoFar, JavaReports, stack
  <2> QED  BY <2>2, <2>5, <2>6 DEF JavaReport, n
<1> QED  BY <1>2, <1>3

(* An exception waits while its stack is undecided.                        *)
LEMMA JavaWaits ==
  ASSUME NEW text, WrittenText(text), NEW i, NEW m, JavaStack(text, i, m)
  PROVE  JavaPrefixes(text)[m].parser =
           [pending |-> <<JavaHeader(text[i], 0)>>,
            pending_is_explicit |-> Reads[text[i]].java_explicit, frames_seen |-> m - i]
PROOF
<1> DEFINE after == JavaPrefixes(text)
           waiting(d) == [pending |-> <<JavaHeader(text[i], 0)>>,
                          pending_is_explicit |-> Reads[text[i]].java_explicit, frames_seen |-> d]
           P == {d \in Nat : i + d <= m => after[i + d].parser = waiting(d)}
<1>0. /\ text \in Seq(Lines) /\ Len(text) \in Nat /\ i \in 1..Len(text) /\ m \in i..Len(text)
      /\ DOMAIN text = 1..Len(text) /\ MaxStackFrames \in Nat
      /\ \A k \in 1..Len(text) : text[k] \in Lines
  BY FrameLimit DEF WrittenText, JavaStack
<1>1. \A n \in 1..Len(text) :
        after[n].parser = ObserveJava(after[n - 1].parser, text[n]).parser
  <2>1. \A n \in 1..Len(text) :
          after[n] = And(after[n - 1], ObserveJava(after[n - 1].parser, text[n]))
    BY <1>0, JavaCourse
  <2>2. \A a, b : And(a, b).parser = b.parser
    BY DEF And, Result
  <2> HIDE DEF after
  <2> QED  BY <2>1, <2>2
<1> HIDE DEF after
<1>2. 0 \in P
  <2>1. Reads[text[i]].java_exception # 0
    BY DEF JavaStack
  <2>2. ObserveJava(after[i - 1].parser, text[i]).parser = waiting(0)
    BY <2>1 DEF ObserveJava, Result, JavaHeader
  <2> QED  BY <1>0, <1>1, <2>2
<1>3. ASSUME NEW d \in P PROVE d + 1 \in P
  <2> SUFFICES ASSUME i + (d + 1) <= m PROVE after[i + (d + 1)].parser = waiting(d + 1)
    OBVIOUS
  <2> DEFINE k == i + (d + 1)
             parser == after[k - 1].parser
             line == text[k]
  <2>1. /\ d \in Nat /\ k \in 1..Len(text) /\ k \in (i + 1)..m /\ k - 1 = i + d /\ i + d <= m
        /\ d + 1 < MaxStackFrames
    BY <1>0 DEF JavaStack
  <2>2. parser = waiting(d)
    BY <2>1
  <2>3. Reads[line].java_exception = 0 /\ Reads[line].java_frame # 0 /\ Reads[line].java_framework
    BY <2>1 DEF JavaStack, JavaFrames, JavaFramework, IsJavaFrame
  <2>4. parser.pending # <<>> /\ [parser EXCEPT !.frames_seen = @ + 1] = waiting(d + 1)
        /\ ~(waiting(d + 1).frames_seen >= MaxStackFrames)
    <3> DEFINE header == <<JavaHeader(text[i], 0)>>
    <3>1. header # <<>>
      OBVIOUS
    <3> HIDE DEF header, parser, k
    <3> QED  BY <1>0, <2>1, <2>2, <3>1
  <2> HIDE DEF parser, waiting, line
  <2>5. ObserveJava(parser, line) = Result(waiting(d + 1), <<>>)
    BY <2>3, <2>4 DEF ObserveJava, ObserveJavaFrame
  <2>6. after[k].parser = waiting(d + 1)
    BY <1>1, <2>1, <2>5 DEF Result, parser, line
  <2> QED  BY <2>6
<1>4. P = Nat
  <2>1. P \in SUBSET Nat
    OBVIOUS
  <2> HIDE DEF P
  <2> QED  BY <1>2, <1>3, <2>1, InductionOnNat
<1>5. m - i \in P /\ i + (m - i) = m /\ m <= m
  <2> HIDE DEF P
  <2> QED  BY <1>0, <1>4
<1> QED  BY <1>5 DEF after

LEMMA JavaReached ==
  ASSUME NEW text, WrittenText(text)
  PROVE  \E flat : /\ JavaFlat(text, flat)
                   /\ FlattenSeq(JavaReports(text)) = flat[Len(text)]
                   /\ JavaAt(text, flat, Len(text), JavaPrefixes(text)[Len(text)])
PROOF
<1> DEFINE L == Len(text)
           T == Singles(Len(text), JavaReports(text))
           R == JavaReports(text)
           after == JavaPrefixes(text)
<1>1. text \in Seq(Lines) /\ L \in Nat /\ DOMAIN text = 1..L
  BY DEF WrittenText
<1>2. R \in [1..L -> Seq(T)]
  BY JavaReportsType
<1>3. PICK flat : Flattens(flat, T, L, R) /\ FlattenSeq(R) = flat[L]
  <2> HIDE DEF L, T, R
  <2> QED  BY <1>1, <1>2, FlattenCourse
<1>4. JavaFlat(text, flat) /\ flat[0] = <<>>
  BY <1>3 DEF JavaFlat, Flattens
<1>5. /\ after[0] = Result(NewJava, <<>>)
      /\ \A n \in 1..L : after[n] = And(after[n - 1], ObserveJava(after[n - 1].parser, text[n]))
  BY <1>1, JavaCourse
<1> DEFINE P == {n \in Nat : n <= L => JavaAt(text, flat, n, after[n])}
<1>6. 0 \in P
  BY <1>4, <1>5 DEF JavaAt
<1>7. ASSUME NEW n \in P PROVE n + 1 \in P
  <2> SUFFICES ASSUME n + 1 <= L PROVE JavaAt(text, flat, n + 1, after[n + 1])
    OBVIOUS
  <2> DEFINE k == n + 1
  <2>1. k \in 1..L /\ k - 1 = n
    BY <1>1
  <2>2. JavaAt(text, flat, k - 1, after[k - 1])
    BY <1>1, <2>1
  <2> HIDE DEF k, after
  <2>3. JavaAt(text, flat, k, And(after[k - 1], ObserveJava(after[k - 1].parser, text[k])))
    BY <1>4, <2>1, <2>2, JavaStep
  <2>4. JavaAt(text, flat, k, after[k])
    BY <1>5, <2>1, <2>3
  <2> QED  BY <2>4 DEF k
<1>8. L \in P
  <2>1. P \in SUBSET Nat
    OBVIOUS
  <2> HIDE DEF P
  <2> QED  BY <1>1, <1>6, <1>7, <2>1, InductionOnNat
<1>9. JavaAt(text, flat, L, after[L])
  BY <1>1, <1>8
<1> QED  BY <1>3, <1>4, <1>9

(* What Java's parser has found so far is what the reference says of a     *)
(* text that may go on.                                                    *)
LEMMA JavaFoundSoFar ==
  ASSUME NEW text, WrittenText(text)
  PROVE  JavaReference(text, FALSE) = JavaPrefixes(text)[Len(text)].found
PROOF
<1> DEFINE n == Len(text)
           T == Singles(Len(text), JavaReports(text))
           R == JavaReports(text)
           Q == JavaSoFar(text)
           now == JavaPrefixes(text)[n]
<1>1. /\ text \in Seq(Lines) /\ n \in Nat /\ DOMAIN text = 1..n
      /\ JavaReference(text, FALSE) = FlattenSeq(Q)
  BY DEF WrittenText, JavaReference, JavaSoFar
<1>2. R \in [1..n -> Seq(T)]
  BY JavaReportsType
<1>3. \A i \in 1..n : Q[i] = IF JavaStack(text, i, n) THEN <<>> ELSE R[i]
  BY JavaUndecided
<1>4. Q \in [1..n -> Seq(T)]
  <2>1. Q = [i \in 1..n |-> Q[i]]
    BY <1>1 DEF JavaSoFar
  <2>2. <<>> \in Seq(T)
    OBVIOUS
  <2> HIDE DEF Q, R, T, n
  <2> QED  BY <1>2, <1>3, <2>1, <2>2
<1>5. PICK flat : /\ Flattens(flat, T, n, R)
                  /\ JavaAt(text, flat, n, now)
  BY JavaReached DEF JavaFlat
<1> HIDE DEF Q, R, T
<1>6. PICK so_far : Flattens(so_far, T, n, Q) /\ FlattenSeq(Q) = so_far[n]
  BY <1>1, <1>4, FlattenCourse
<1>7. ASSUME NEW m \in 0..n, \A i \in 1..m : Q[i] = R[i]
      PROVE  so_far[m] = flat[m]
  <2>1. \A i \in 1..m : i \in 1..n
    BY <1>1
  <2>2. StepsAgree(so_far, flat, m)
    BY <1>5, <1>6, <1>7, <2>1 DEF StepsAgree, Flattens
  <2>3. m \in Nat /\ m \in 0..m
    OBVIOUS
  <2> QED  BY <2>2, <2>3, CoursesAgree
<1>8. CASE now = Result(NewJava, flat[n])
  <2>1. now.parser.pending = <<>> /\ now.found = flat[n]
    BY <1>8 DEF Result, NewJava
  <2>2. ASSUME NEW i \in 1..n, JavaStack(text, i, n) PROVE FALSE
    <3> DEFINE header == <<JavaHeader(text[i], 0)>>
    <3>1. now.parser = [pending |-> header, pending_is_explicit |-> Reads[text[i]].java_explicit,
                        frames_seen |-> n - i]
      BY <2>2, JavaWaits
    <3>2. header # <<>>
      OBVIOUS
    <3> HIDE DEF now, header
    <3> QED  BY <2>1, <3>1, <3>2
  <2>3. so_far[n] = flat[n]
    <3>1. \A i \in 1..n : Q[i] = R[i]
      BY <1>3, <2>2
    <3> QED  BY <1>1, <1>7, <3>1
  <2> QED  BY <1>1, <1>6, <2>1, <2>3
<1>9. ASSUME NEW i \in 1..n, JavaStack(text, i, n), now = JavaPending(text, flat, i, n)
      PROVE  now.found = so_far[n]
  <2>1. now.found = flat[i - 1]
    BY <1>9 DEF JavaPending, Result
  <2>2. ASSUME NEW k \in 1..(i - 1), JavaStack(text, k, n) PROVE FALSE
    <3>1. i \in (k + 1)..n
      BY <1>1
    <3> QED  BY <1>9, <2>2, <3>1 DEF JavaStack, JavaFrames, IsJavaFrame
  <2>3. so_far[i - 1] = flat[i - 1]
    <3>1. \A k \in 1..(i - 1) : Q[k] = R[k]
      <4>1. \A k \in 1..(i - 1) : k \in 1..n
        BY <1>1
      <4> QED  BY <1>3, <2>2, <4>1
    <3>2. i - 1 \in 0..n
      BY <1>1
    <3> QED  BY <1>7, <3>1, <3>2
  <2>4. \A k \in ((i - 1) + 1)..n : Q[k] = <<>>
    <3> SUFFICES ASSUME NEW k \in ((i - 1) + 1)..n PROVE Q[k] = <<>>
      OBVIOUS
    <3>1. k \in 1..n /\ (k = i \/ k \in (i + 1)..n)
      BY <1>1
    <3>2. CASE k = i
      BY <1>3, <1>9, <3>2
    <3>3. CASE k \in (i + 1)..n
      <4>1. Reads[text[k]].java_exception = 0
        BY <1>9, <3>3 DEF JavaStack, JavaFrames, IsJavaFrame
      <4> QED  BY <1>1, <3>1, <4>1 DEF Q, JavaSoFar
    <3> QED  BY <3>1, <3>2, <3>3
  <2>5. so_far[n] = so_far[i - 1]
    <3>1. i - 1 \in 0..n /\ n \in (i - 1)..n
      BY <1>1
    <3>2. Silent(Q, i - 1, n)
      BY <2>4 DEF Silent
    <3> QED  BY <1>1, <1>6, <3>1, <3>2, FlatStays
  <2> QED  BY <2>1, <2>3, <2>5
<1> QED  BY <1>1, <1>5, <1>6, <1>8, <1>9 DEF JavaAt

NodeSoFar(text) ==
  [i \in DOMAIN text |->
    IF ~IsNodeException(text[i]) THEN <<>>
    ELSE NodeReport(text, i, StackBelow(text, i, IsNodeFrame), NodeLeading(text, i), FALSE)]

LEMMA NodeUndecided ==
  ASSUME NEW text, WrittenText(text), NEW i \in 1..Len(text)
  PROVE  NodeSoFar(text)[i] = IF NodeStack(text, i, Len(text)) THEN <<>> ELSE NodeReports(text)[i]
PROOF
<1> DEFINE n == Len(text)
           F == NodeFrames(text)
           W == NodeFramework(text)
           stack == StackBelow(text, i, IsNodeFrame)
           own == Own(F, W, i, n)
           line == text[i]
<1>1. /\ text \in Seq(Lines) /\ n \in Nat /\ DOMAIN text = 1..n
      /\ i \in 1..n /\ n \in i..n /\ \A k \in 1..n : ~Reads[text[k]].blank
  BY DEF WrittenText
<1>2. CASE ~IsNodeException(line)
  BY <1>1, <1>2 DEF NodeSoFar, NodeReports, NodeStack
<1>3. CASE IsNodeException(line)
  <2>1. stack = Below(F, i, n)
    <3>1. \A j \in (i + 1)..n : \A k \in (i + 1)..j : k \in 1..n
      BY <1>1
    <3>2. \A j \in (i + 1)..n : j \in 1..n
      BY <1>1
    <3>3. \A k \in 1..n : k \in F <=> IsNodeFrame(text[k])
      BY <1>1 DEF NodeFrames
    <3>4. stack = {j \in (i + 1)..n : IsNodeFrame(text[j]) /\
                     \A k \in (i + 1)..j : IsNodeFrame(text[k]) \/ Reads[text[k]].blank}
      BY DEF StackBelow
    <3>5. \A j \in (i + 1)..n : j \in (i + 1)..j
      BY <1>1
    <3> HIDE DEF stack, n, F
    <3> QED  BY <1>1, <3>1, <3>2, <3>3, <3>4, <3>5 DEF Below
  <2>2. {j \in Looked(stack) : ~Reads[text[j]].node_framework} = own
    <3>1. \A j \in Looked(stack) : j \in 1..n
      BY <1>1, <2>1 DEF Looked, Below
    <3>2. \A j \in 1..n : j \in W <=> Reads[text[j]].node_framework
      BY <1>1, NodeReadType DEF NodeFramework
    <3> HIDE DEF stack, n, F, W
    <3> QED  BY <2>1, <3>1, <3>2 DEF Own
  <2>3. StackEnded(text, i, stack) <=>
          Cardinality(stack) >= MaxStackFrames \/ \E j \in (i + 1)..n : j \notin stack
    <3>1. \A j \in (i + 1)..n : ~Reads[text[j]].blank
      BY <1>1
    <3> HIDE DEF stack
    <3> QED  BY <3>1 DEF StackEnded
  <2>4. NodeStack(text, i, n) <=> Undecided(F, W, i, n)
    BY <1>1, <1>3 DEF NodeStack, Undecided
  <2> HIDE DEF n, F, W, own, stack
  <2>5. NodeStack(text, i, n) <=> own = {} /\ ~StackEnded(text, i, stack)
    BY <1>1, <2>1, <2>3, <2>4, UndecidedStack DEF own
  <2>6. NodeSoFar(text)[i] = NodeReport(text, i, stack, NodeLeading(text, i), FALSE)
        /\ NodeReports(text)[i] = NodeReport(text, i, stack, NodeLeading(text, i), TRUE)
    BY <1>1, <1>3 DEF NodeSoFar, NodeReports, stack
  <2> QED  BY <2>2, <2>5, <2>6 DEF NodeReport, n
<1> QED  BY <1>2, <1>3

LEMMA NodeWaits ==
  ASSUME NEW text, WrittenText(text), NEW i, NEW m, NodeStack(text, i, m)
  PROVE  NodePrefixes(text)[m].parser.pending # <<>>
PROOF
<1> DEFINE after == NodePrefixes(text)
           header == NodeHeader(text[i], after[i - 1].parser.leading_location)
           waiting(d) == [leading_location |-> 0, pending |-> <<header>>, frames_seen |-> d]
           P == {d \in Nat : i + d <= m => after[i + d].parser = waiting(d)}
<1>0. /\ text \in Seq(Lines) /\ Len(text) \in Nat /\ i \in 1..Len(text) /\ m \in i..Len(text)
      /\ DOMAIN text = 1..Len(text) /\ MaxStackFrames \in Nat
      /\ \A k \in 1..Len(text) : text[k] \in Lines
  BY FrameLimit DEF WrittenText, NodeStack
<1>1. \A n \in 1..Len(text) :
        after[n].parser = ObserveNode(after[n - 1].parser, text[n]).parser
  <2>1. \A n \in 1..Len(text) :
          after[n] = And(after[n - 1], ObserveNode(after[n - 1].parser, text[n]))
    BY <1>0, NodeCourse
  <2>2. \A a, b : And(a, b).parser = b.parser
    BY DEF And, Result
  <2> HIDE DEF after
  <2> QED  BY <2>1, <2>2
<1> HIDE DEF after
<1>2. 0 \in P
  <2>1. Reads[text[i]].node_exception # 0 /\ Reads[text[i]].node_place = 0
    BY DEF NodeStack, IsNodeException
  <2>2. NodeException(after[i - 1].parser, text[i]) = waiting(0)
    BY DEF NodeException, NewNode, NodeHeader
  <2>3. ObserveNode(after[i - 1].parser, text[i]).parser = waiting(0)
    <3> HIDE DEF waiting
    <3> QED  BY <2>1, <2>2 DEF ObserveNode, Result
  <2> HIDE DEF waiting
  <2> QED  BY <1>0, <1>1, <2>3
<1>3. ASSUME NEW d \in P PROVE d + 1 \in P
  <2> SUFFICES ASSUME i + (d + 1) <= m PROVE after[i + (d + 1)].parser = waiting(d + 1)
    OBVIOUS
  <2> DEFINE k == i + (d + 1)
             parser == after[k - 1].parser
             line == text[k]
  <2>1. /\ d \in Nat /\ k \in 1..Len(text) /\ k \in (i + 1)..m /\ k - 1 = i + d /\ i + d <= m
        /\ d + 1 < MaxStackFrames
    BY <1>0 DEF NodeStack
  <2>2. parser = waiting(d)
    BY <2>1
  <2>3. /\ Reads[line].node_place = 0 /\ Reads[line].node_exception = 0
        /\ Reads[line].node_framework
    BY <2>1 DEF NodeStack, NodeFrames, NodeFramework, IsNodeFrame
  <2>4. parser.pending # <<>> /\ [parser EXCEPT !.frames_seen = @ + 1] = waiting(d + 1)
        /\ ~(waiting(d + 1).frames_seen >= MaxStackFrames)
    <3>1. <<header>> # <<>>
      OBVIOUS
    <3> HIDE DEF header, parser, k
    <3> QED  BY <1>0, <2>1, <2>2, <3>1
  <2> HIDE DEF parser, waiting, line
  <2>5. ObserveNode(parser, line) = Result(waiting(d + 1), <<>>)
    BY <2>3, <2>4 DEF ObserveNode, ObserveNodeFrame
  <2>6. after[k].parser = waiting(d + 1)
    BY <1>1, <2>1, <2>5 DEF Result, parser, line
  <2> QED  BY <2>6
<1>4. P = Nat
  <2>1. P \in SUBSET Nat
    OBVIOUS
  <2> HIDE DEF P
  <2> QED  BY <1>2, <1>3, <2>1, InductionOnNat
<1>5. m - i \in P /\ i + (m - i) = m /\ m <= m
  <2> HIDE DEF P
  <2> QED  BY <1>0, <1>4
<1>6. after[m].parser.pending = <<header>>
  BY <1>5
<1> HIDE DEF header
<1> QED  BY <1>6 DEF after

LEMMA NodeReached ==
  ASSUME NEW text, WrittenText(text)
  PROVE  \E flat : /\ NodeFlat(text, flat)
                   /\ FlattenSeq(NodeReports(text)) = flat[Len(text)]
                   /\ NodeAt(text, flat, Len(text), NodePrefixes(text)[Len(text)])
PROOF
<1> DEFINE L == Len(text)
           T == Singles(Len(text), NodeReports(text))
           R == NodeReports(text)
           after == NodePrefixes(text)
<1>1. text \in Seq(Lines) /\ L \in Nat /\ DOMAIN text = 1..L
  BY DEF WrittenText
<1>2. R \in [1..L -> Seq(T)]
  BY NodeReportsType
<1>3. PICK flat : Flattens(flat, T, L, R) /\ FlattenSeq(R) = flat[L]
  <2> HIDE DEF L, T, R
  <2> QED  BY <1>1, <1>2, FlattenCourse
<1>4. NodeFlat(text, flat) /\ flat[0] = <<>>
  BY <1>3 DEF NodeFlat, Flattens
<1>5. /\ after[0] = Result(NewNode, <<>>)
      /\ \A n \in 1..L : after[n] = And(after[n - 1], ObserveNode(after[n - 1].parser, text[n]))
  BY <1>1, NodeCourse
<1> DEFINE P == {n \in Nat : n <= L => NodeAt(text, flat, n, after[n])}
<1>6. 0 \in P
  <2>1. NodeLeading(text, 0 + 1) = 0
    BY NodeLeadingFirst
  <2>2. NodeIdle(text, flat, 0) = Result(NewNode, <<>>)
    BY <1>4, <2>1 DEF NodeIdle, NewNode
  <2> QED  BY <1>5, <2>2 DEF NodeAt
<1>7. ASSUME NEW n \in P PROVE n + 1 \in P
  <2> SUFFICES ASSUME n + 1 <= L PROVE NodeAt(text, flat, n + 1, after[n + 1])
    OBVIOUS
  <2> DEFINE k == n + 1
  <2>1. k \in 1..L /\ k - 1 = n
    BY <1>1
  <2>2. NodeAt(text, flat, k - 1, after[k - 1])
    BY <1>1, <2>1
  <2> HIDE DEF k, after
  <2>3. NodeAt(text, flat, k, And(after[k - 1], ObserveNode(after[k - 1].parser, text[k])))
    BY <1>4, <2>1, <2>2, NodeStep
  <2>4. NodeAt(text, flat, k, after[k])
    BY <1>5, <2>1, <2>3
  <2> QED  BY <2>4 DEF k
<1>8. L \in P
  <2>1. P \in SUBSET Nat
    OBVIOUS
  <2> HIDE DEF P
  <2> QED  BY <1>1, <1>6, <1>7, <2>1, InductionOnNat
<1>9. NodeAt(text, flat, L, after[L])
  BY <1>1, <1>8
<1> QED  BY <1>3, <1>4, <1>9

LEMMA NodeFoundSoFar ==
  ASSUME NEW text, WrittenText(text)
  PROVE  NodeReference(text, FALSE) = NodePrefixes(text)[Len(text)].found
PROOF
<1> DEFINE n == Len(text)
           T == Singles(Len(text), NodeReports(text))
           R == NodeReports(text)
           Q == NodeSoFar(text)
           now == NodePrefixes(text)[n]
<1>1. /\ text \in Seq(Lines) /\ n \in Nat /\ DOMAIN text = 1..n
      /\ NodeReference(text, FALSE) = FlattenSeq(Q)
  BY DEF WrittenText, NodeReference, NodeSoFar, NodeLeading
<1>2. R \in [1..n -> Seq(T)]
  BY NodeReportsType
<1>3. \A i \in 1..n : Q[i] = IF NodeStack(text, i, n) THEN <<>> ELSE R[i]
  BY NodeUndecided
<1>4. Q \in [1..n -> Seq(T)]
  <2>1. Q = [i \in 1..n |-> Q[i]]
    BY <1>1 DEF NodeSoFar
  <2>2. <<>> \in Seq(T)
    OBVIOUS
  <2> HIDE DEF Q, R, T, n
  <2> QED  BY <1>2, <1>3, <2>1, <2>2
<1>5. PICK flat : /\ Flattens(flat, T, n, R)
                  /\ NodeAt(text, flat, n, now)
  BY NodeReached DEF NodeFlat
<1> HIDE DEF Q, R, T
<1>6. PICK so_far : Flattens(so_far, T, n, Q) /\ FlattenSeq(Q) = so_far[n]
  BY <1>1, <1>4, FlattenCourse
<1>7. ASSUME NEW m \in 0..n, \A i \in 1..m : Q[i] = R[i]
      PROVE  so_far[m] = flat[m]
  <2>1. \A i \in 1..m : i \in 1..n
    BY <1>1
  <2>2. StepsAgree(so_far, flat, m)
    BY <1>5, <1>6, <1>7, <2>1 DEF StepsAgree, Flattens
  <2>3. m \in Nat /\ m \in 0..m
    OBVIOUS
  <2> QED  BY <2>2, <2>3, CoursesAgree
<1>8. CASE now = NodeIdle(text, flat, n)
  <2>1. now.parser.pending = <<>> /\ now.found = flat[n]
    BY <1>8 DEF NodeIdle, Result
  <2>2. ASSUME NEW i \in 1..n, NodeStack(text, i, n) PROVE FALSE
    <3>1. now.parser.pending # <<>>
      BY <2>2, NodeWaits
    <3> QED  BY <2>1, <3>1
  <2>3. so_far[n] = flat[n]
    <3>1. \A i \in 1..n : Q[i] = R[i]
      BY <1>3, <2>2
    <3> QED  BY <1>1, <1>7, <3>1
  <2> QED  BY <1>1, <1>6, <2>1, <2>3
<1>9. ASSUME NEW i \in 1..n, NodeStack(text, i, n), now = NodePending(text, flat, i, n)
      PROVE  now.found = so_far[n]
  <2>1. now.found = flat[i - 1]
    BY <1>9 DEF NodePending, Result
  <2>2. ASSUME NEW k \in 1..(i - 1), NodeStack(text, k, n) PROVE FALSE
    <3>1. i \in (k + 1)..n
      BY <1>1
    <3> QED  BY <1>9, <2>2, <3>1 DEF NodeStack, NodeFrames, IsNodeFrame, IsNodeException
  <2>3. so_far[i - 1] = flat[i - 1]
    <3>1. \A k \in 1..(i - 1) : Q[k] = R[k]
      <4>1. \A k \in 1..(i - 1) : k \in 1..n
        BY <1>1
      <4> QED  BY <1>3, <2>2, <4>1
    <3>2. i - 1 \in 0..n
      BY <1>1
    <3> QED  BY <1>7, <3>1, <3>2
  <2>4. \A k \in ((i - 1) + 1)..n : Q[k] = <<>>
    <3> SUFFICES ASSUME NEW k \in ((i - 1) + 1)..n PROVE Q[k] = <<>>
      OBVIOUS
    <3>1. k \in 1..n /\ (k = i \/ k \in (i + 1)..n)
      BY <1>1
    <3>2. CASE k = i
      BY <1>3, <1>9, <3>2
    <3>3. CASE k \in (i + 1)..n
      <4>1. ~IsNodeException(text[k])
        BY <1>9, <3>3 DEF NodeStack, NodeFrames, IsNodeFrame, IsNodeException
      <4> QED  BY <1>1, <3>1, <4>1 DEF Q, NodeSoFar
    <3> QED  BY <3>1, <3>2, <3>3
  <2>5. so_far[n] = so_far[i - 1]
    <3>1. i - 1 \in 0..n /\ n \in (i - 1)..n
      BY <1>1
    <3>2. Silent(Q, i - 1, n)
      BY <2>4 DEF Silent
    <3> QED  BY <1>1, <1>6, <3>1, <3>2, FlatStays
  <2> QED  BY <2>1, <2>3, <2>5
<1> QED  BY <1>1, <1>5, <1>6, <1>8, <1>9 DEF NodeAt

----------------------------------------------------------------------------
(* Parsers that are shown one line more *)

NodeNow(text) == NodePrefixes(text)[Len(text)]
JavaNow(text) == JavaPrefixes(text)[Len(text)]

LEMMA JavaGrows ==
  ASSUME NEW text \in Seq(Lines), NEW line \in Lines
  PROVE  JavaNow(Append(text, line)) = And(JavaNow(text), ObserveJava(JavaNow(text).parser, line))
PROOF
<1> DEFINE more == Append(text, line)
           n == Len(text)
           before == JavaPrefixes(text)
           after == JavaPrefixes(more)
<1>1. /\ n \in Nat /\ more \in Seq(Lines) /\ Len(more) = n + 1 /\ more[n + 1] = line
      /\ \A i \in 1..n : more[i] = text[i]
  OBVIOUS
<1>2. /\ before[0] = Result(NewJava, <<>>)
      /\ \A i \in 1..n : before[i] = And(before[i - 1], ObserveJava(before[i - 1].parser, text[i]))
  BY JavaCourse
<1>3. /\ after[0] = Result(NewJava, <<>>)
      /\ \A i \in 1..Len(more) :
           after[i] = And(after[i - 1], ObserveJava(after[i - 1].parser, more[i]))
  <2> HIDE DEF more
  <2> QED  BY <1>1, JavaCourse
<1> HIDE DEF before, after, more
<1>4. StepsAgree(after, before, n)
  <2>1. \A i \in 1..n : i \in 1..Len(more)
    BY <1>1
  <2> QED  BY <1>1, <1>2, <1>3, <2>1 DEF StepsAgree
<1>5. after[n] = before[n]
  <2>1. n \in 0..n
    BY <1>1
  <2> QED  BY <1>1, <1>4, <2>1, CoursesAgree
<1>6. after[n + 1] = And(after[n], ObserveJava(after[n].parser, line))
  <2>1. n + 1 \in 1..Len(more) /\ (n + 1) - 1 = n
    BY <1>1
  <2> QED  BY <1>1, <1>3, <2>1
<1> QED  BY <1>1, <1>5, <1>6 DEF JavaNow, before, after, more

LEMMA NodeGrows ==
  ASSUME NEW text \in Seq(Lines), NEW line \in Lines
  PROVE  NodeNow(Append(text, line)) = And(NodeNow(text), ObserveNode(NodeNow(text).parser, line))
PROOF
<1> DEFINE more == Append(text, line)
           n == Len(text)
           before == NodePrefixes(text)
           after == NodePrefixes(more)
<1>1. /\ n \in Nat /\ more \in Seq(Lines) /\ Len(more) = n + 1 /\ more[n + 1] = line
      /\ \A i \in 1..n : more[i] = text[i]
  OBVIOUS
<1>2. /\ before[0] = Result(NewNode, <<>>)
      /\ \A i \in 1..n : before[i] = And(before[i - 1], ObserveNode(before[i - 1].parser, text[i]))
  BY NodeCourse
<1>3. /\ after[0] = Result(NewNode, <<>>)
      /\ \A i \in 1..Len(more) :
           after[i] = And(after[i - 1], ObserveNode(after[i - 1].parser, more[i]))
  <2> HIDE DEF more
  <2> QED  BY <1>1, NodeCourse
<1> HIDE DEF before, after, more
<1>4. StepsAgree(after, before, n)
  <2>1. \A i \in 1..n : i \in 1..Len(more)
    BY <1>1
  <2> QED  BY <1>1, <1>2, <1>3, <2>1 DEF StepsAgree
<1>5. after[n] = before[n]
  <2>1. n \in 0..n
    BY <1>1
  <2> QED  BY <1>1, <1>4, <2>1, CoursesAgree
<1>6. after[n + 1] = And(after[n], ObserveNode(after[n].parser, line))
  <2>1. n + 1 \in 1..Len(more) /\ (n + 1) - 1 = n
    BY <1>1
  <2> QED  BY <1>1, <1>3, <2>1
<1> QED  BY <1>1, <1>5, <1>6 DEF NodeNow, before, after, more

LEMMA NowTypes ==
  ASSUME NEW text \in Seq(Lines)
  PROVE  /\ NodeNow(text) \in Results(NodeType, DiagnosticsOf("javascript-test"))
         /\ JavaNow(text) \in Results(JavaType, DiagnosticsOf("java-test"))
PROOF
<1>1. Len(text) \in 0..Len(text)
  OBVIOUS
<1> QED  BY <1>1, NodeCourse, JavaCourse DEF NodeNow, JavaNow

LEMMA RangeConcat ==
  ASSUME NEW T, NEW a \in Seq(T), NEW b \in Seq(T)
  PROVE  Range(a \o b) = Range(a) \cup Range(b)
PROOF
<1>1. ASSUME NEW i \in DOMAIN (a \o b)
      PROVE  (a \o b)[i] \in Range(a) \cup Range(b)
  <2>1. CASE i <= Len(a)
    <3>1. i \in DOMAIN a /\ (a \o b)[i] = a[i]
      BY <2>1
    <3> QED  BY <3>1 DEF Range
  <2>2. CASE ~(i <= Len(a))
    <3>1. i - Len(a) \in DOMAIN b /\ (a \o b)[i] = b[i - Len(a)]
      BY <2>2
    <3> QED  BY <3>1 DEF Range
  <2> QED  BY <2>1, <2>2
<1>2. ASSUME NEW i \in DOMAIN a PROVE a[i] \in Range(a \o b)
  <2>1. i \in DOMAIN (a \o b) /\ (a \o b)[i] = a[i]
    OBVIOUS
  <2> QED  BY <2>1 DEF Range
<1>3. ASSUME NEW i \in DOMAIN b PROVE b[i] \in Range(a \o b)
  <2>1. Len(a) + i \in DOMAIN (a \o b) /\ (a \o b)[Len(a) + i] = b[i]
    OBVIOUS
  <2> QED  BY <2>1 DEF Range
<1> DEFINE both == a \o b
<1> HIDE DEF both
<1>4. \A one : one \in Range(both) <=> one \in Range(a) \/ one \in Range(b)
  <2>1. \A one \in Range(both) : one \in Range(a) \cup Range(b)
    BY <1>1 DEF Range, both
  <2>2. \A one \in Range(a) \cup Range(b) : one \in Range(both)
    BY <1>2, <1>3 DEF Range, both
  <2> QED  BY <2>1, <2>2
<1> QED  BY <1>4 DEF both

LEMMA WrittenMore ==
  ASSUME NEW text, WrittenText(text), NEW line \in Lines, ~Reads[line].blank
  PROVE  WrittenText(Append(text, line))
PROOF
<1> DEFINE more == Append(text, line)
<1>1. /\ more \in Seq(Lines) /\ DOMAIN more = 1..(Len(text) + 1)
      /\ \A i \in 1..(Len(text) + 1) : more[i] = IF i = Len(text) + 1 THEN line ELSE text[i]
      /\ \A i \in 1..(Len(text) + 1) : i = Len(text) + 1 \/ i \in DOMAIN text
  BY DEF WrittenText
<1> HIDE DEF more
<1>2. \A i \in DOMAIN more : ~Reads[more[i]].blank
  BY <1>1 DEF WrittenText
<1> QED  BY <1>1, <1>2 DEF WrittenText, more

LEMMA AndIs ==
  \A a, b : And(a, b).found = a.found \o b.found /\ And(a, b).parser = b.parser
BY DEF And, Result

(* What the references say of a longer text, and of one that has ended.    *)
LEMMA JavaEvidenceGrows ==
  ASSUME NEW text, WrittenText(text)
  PROVE  /\ \A line \in Lines : ~Reads[line].blank =>
              Range(JavaReference(Append(text, line), FALSE)) =
                Range(JavaReference(text, FALSE))
                  \cup Range(ObserveJava(JavaNow(text).parser, line).found)
         /\ Range(JavaReference(text, TRUE)) =
              Range(JavaReference(text, FALSE)) \cup Range(JavaConfirmed(JavaNow(text).parser))
PROOF
<1> DEFINE T == DiagnosticsOf("java-test")
           now == JavaNow(text)
<1>1. text \in Seq(Lines)
  BY DEF WrittenText
<1>2. now \in Results(JavaType, T) /\ JavaReference(text, FALSE) = now.found
  BY <1>1, NowTypes, JavaFoundSoFar DEF JavaNow
<1>3. now.parser \in JavaType /\ now.found \in Seq(T)
  BY <1>2 DEF Results
<1> HIDE DEF T, now
<1>4. ASSUME NEW line \in Lines, ~Reads[line].blank
      PROVE  Range(JavaReference(Append(text, line), FALSE)) =
               Range(now.found) \cup Range(ObserveJava(now.parser, line).found)
  <2> DEFINE more == Append(text, line)
             next == ObserveJava(now.parser, line)
  <2>1. WrittenText(more)
    BY <1>4, WrittenMore
  <2>2. JavaReference(more, FALSE) = JavaNow(more).found
    <3> HIDE DEF more
    <3> QED  BY <2>1, JavaFoundSoFar DEF JavaNow
  <2>3. JavaNow(more) = And(now, next)
    BY <1>1, JavaGrows DEF now
  <2>4. next.found \in Seq(T)
    BY <1>3, ObserveJavaType DEF Results, T
  <2> HIDE DEF more, next
  <2>5. JavaNow(more).found = now.found \o next.found
    BY <2>3, AndIs
  <2>6. Range(now.found \o next.found) = Range(now.found) \cup Range(next.found)
    BY <1>3, <2>4, RangeConcat
  <2> QED  BY <2>2, <2>5, <2>6 DEF more, next
<1>5. Range(JavaReference(text, TRUE)) = Range(now.found) \cup Range(JavaConfirmed(now.parser))
  <2>1. JavaTests(text) = JavaReference(text, TRUE)
    BY JavaTestsPlaced
  <2>2. JavaTests(text) = now.found \o JavaConfirmed(now.parser)
    BY DEF JavaTests, Parsed, JavaPrefixes, JavaNow, now
  <2>3. JavaConfirmed(now.parser) \in Seq(T)
    BY <1>3, JavaConfirmedType DEF T
  <2> QED  BY <1>3, <2>1, <2>2, <2>3, RangeConcat
<1> QED  BY <1>2, <1>4, <1>5 DEF now

LEMMA NodeEvidenceGrows ==
  ASSUME NEW text, WrittenText(text)
  PROVE  /\ \A line \in Lines : ~Reads[line].blank =>
              Range(NodeReference(Append(text, line), FALSE)) =
                Range(NodeReference(text, FALSE))
                  \cup Range(ObserveNode(NodeNow(text).parser, line).found)
         /\ Range(NodeReference(text, TRUE)) =
              Range(NodeReference(text, FALSE)) \cup Range(NodeConfirmed(NodeNow(text).parser))
PROOF
<1> DEFINE T == DiagnosticsOf("javascript-test")
           now == NodeNow(text)
<1>1. text \in Seq(Lines)
  BY DEF WrittenText
<1>2. now \in Results(NodeType, T) /\ NodeReference(text, FALSE) = now.found
  BY <1>1, NowTypes, NodeFoundSoFar DEF NodeNow
<1>3. now.parser \in NodeType /\ now.found \in Seq(T)
  BY <1>2 DEF Results
<1> HIDE DEF T, now
<1>4. ASSUME NEW line \in Lines, ~Reads[line].blank
      PROVE  Range(NodeReference(Append(text, line), FALSE)) =
               Range(now.found) \cup Range(ObserveNode(now.parser, line).found)
  <2> DEFINE more == Append(text, line)
             next == ObserveNode(now.parser, line)
  <2>1. WrittenText(more)
    BY <1>4, WrittenMore
  <2>2. NodeReference(more, FALSE) = NodeNow(more).found
    <3> HIDE DEF more
    <3> QED  BY <2>1, NodeFoundSoFar DEF NodeNow
  <2>3. NodeNow(more) = And(now, next)
    BY <1>1, NodeGrows DEF now
  <2>4. next.found \in Seq(T)
    BY <1>3, ObserveNodeType DEF Results, T
  <2> HIDE DEF more, next
  <2>5. NodeNow(more).found = now.found \o next.found
    BY <2>3, AndIs
  <2>6. Range(now.found \o next.found) = Range(now.found) \cup Range(next.found)
    BY <1>3, <2>4, RangeConcat
  <2> QED  BY <2>2, <2>5, <2>6 DEF more, next
<1>5. Range(NodeReference(text, TRUE)) = Range(now.found) \cup Range(NodeConfirmed(now.parser))
  <2>1. NodeTests(text) = NodeReference(text, TRUE)
    BY NodeTestsPlaced
  <2>2. NodeTests(text) = now.found \o NodeConfirmed(now.parser)
    BY DEF NodeTests, Parsed, NodePrefixes, NodeNow, now
  <2>3. NodeConfirmed(now.parser) \in Seq(T)
    BY <1>3, NodeConfirmedType DEF T
  <2> QED  BY <1>3, <2>1, <2>2, <2>3, RangeConcat
<1> QED  BY <1>2, <1>4, <1>5 DEF now

----------------------------------------------------------------------------
(* What stands for a test log *)

Urgent(kept) == kept # <<>> /\ kept[1].priority = 0
Located(kept) == kept # <<>> /\ kept[1].diagnostic.location # 0
HasPlace(lines) == \E line \in lines : Reads[line].python_place # 0
Shares(lines) == \E line \in lines : IsNodeFrame(line) /\ IsJavaFrame(line)

(* Why one piece of evidence may be kept: the parsers before Python's have *)
(* found it, or Python's has, which is right when they found nothing, or   *)
(* it is a line that tells.                                                *)
Explains(one, others, guesses, lines) ==
  \/ one.priority = 0 /\ one.diagnostic \in others
  \/ /\ one.priority = 0
     /\ others = {} => one.diagnostic \in guesses
     /\ one.diagnostic.location # 0 => HasPlace(lines)
  \/ \E line \in lines :
       /\ Reads[line].evidence # 3 /\ one.priority = Reads[line].evidence
       /\ one.diagnostic.line = line /\ one.diagnostic.location = 0

IsEvidence(kept, others, guesses, lines) ==
  kept = <<>> \/ \E one : /\ kept = <<one>> /\ one.priority \in Nat
                          /\ Explains(one, others, guesses, lines)

Standing(kept, others, guesses, lines) ==
  /\ IsEvidence(kept, others, guesses, lines)
  /\ others # {} \/ guesses # {} => Urgent(kept)
  /\ \A line \in lines : Reads[line].evidence # 3 =>
       kept # <<>> /\ kept[1].priority <= Reads[line].evidence
  /\ ~Shares(lines) /\ (\E found \in others : found.location # 0) => Located(kept)
  /\ others = {} /\ (\E found \in guesses : found.location # 0) => Located(kept)

(* A candidate for what has been found and shown since.                    *)
Stands(candidate, others, guesses, lines, found, guessed, shown) ==
  /\ IsEvidence(candidate, others, guesses, lines)
  /\ found # {} \/ (guessed # {} /\ others = {}) => Urgent(candidate)
  /\ \A line \in shown : Reads[line].evidence # 3 =>
       candidate # <<>> /\ candidate[1].priority <= Reads[line].evidence
  /\ ~Shares(lines) /\ (\E one \in found : one.location # 0) => Located(candidate)
  /\ others = {} /\ (\E one \in guessed : one.location # 0) => Located(candidate)

LEMMA ExplainsMore ==
  ASSUME NEW one, NEW O, NEW G, NEW M, NEW D, NEW P, NEW N, Explains(one, O, G, M)
  PROVE  Explains(one, O \cup D, G \cup P, M \cup N)
PROOF
<1>1. HasPlace(M) => HasPlace(M \cup N)
  BY DEF HasPlace
<1>2. O \cup D = {} => O = {}
  OBVIOUS
<1> QED  BY <1>1, <1>2 DEF Explains

LEMMA BestOf ==
  ASSUME NEW kept, kept = <<>> \/ \E one : kept = <<one>> /\ one.priority \in Nat,
         NEW candidate, candidate = <<>> \/ \E one : candidate = <<one>> /\ one.priority \in Nat
  PROVE  LET best == Best(kept, candidate)
         IN  /\ best = kept \/ best = candidate
             /\ best = <<>> => kept = <<>> /\ candidate = <<>>
             /\ kept # <<>> => best # <<>> /\ best[1].priority <= kept[1].priority
             /\ candidate # <<>> => best # <<>> /\ best[1].priority <= candidate[1].priority
             /\ Urgent(kept) /\ Located(kept) => Located(best)
             /\ Urgent(candidate) /\ Located(candidate) => Located(best)
PROOF
<1>1. (kept # <<>> => kept[1].priority \in Nat) /\ (candidate # <<>> => candidate[1].priority \in Nat)
  OBVIOUS
<1>2. CASE Better(kept, candidate)
  <2>1. Best(kept, candidate) = candidate
    BY <1>2 DEF Best
  <2> QED  BY <1>1, <1>2, <2>1 DEF Better, Urgent, Located
<1>3. CASE ~Better(kept, candidate)
  <2>1. Best(kept, candidate) = kept
    BY <1>3 DEF Best
  <2> QED  BY <1>1, <1>3, <2>1 DEF Better, Urgent, Located
<1> QED  BY <1>2, <1>3

(* Nothing that stands is lost to a candidate, nor the other way around.   *)
LEMMA StandingMore ==
  ASSUME NEW kept, NEW O, NEW G, NEW M, Standing(kept, O, G, M), M \subseteq Lines,
         NEW candidate, NEW D, NEW P, NEW N, N \subseteq Lines,
         Stands(candidate, O \cup D, G \cup P, M \cup N, D, P, N)
  PROVE  Standing(Best(kept, candidate), O \cup D, G \cup P, M \cup N)
PROOF
<1> DEFINE best == Best(kept, candidate)
           O2 == O \cup D
           G2 == G \cup P
           M2 == M \cup N
<1>1. /\ kept = <<>> \/ \E one : kept = <<one>> /\ one.priority \in Nat
      /\ candidate = <<>> \/ \E one : candidate = <<one>> /\ one.priority \in Nat
  BY DEF Standing, Stands, IsEvidence
<1>2. /\ best = kept \/ best = candidate
      /\ best = <<>> => kept = <<>> /\ candidate = <<>>
      /\ kept # <<>> => best # <<>> /\ best[1].priority <= kept[1].priority
      /\ candidate # <<>> => best # <<>> /\ best[1].priority <= candidate[1].priority
      /\ Urgent(kept) /\ Located(kept) => Located(best)
      /\ Urgent(candidate) /\ Located(candidate) => Located(best)
  BY <1>1, BestOf
<1>3. best # <<>> => best[1].priority \in Nat
  <2> HIDE DEF best
  <2> QED  BY <1>1, <1>2
<1>4. \A line \in M2 : Reads[line].evidence \in Nat
  <2>1. \A line \in Lines : Reads[line].evidence \in Nat
    BY ReadIs DEF ReadingType
  <2> QED  BY <2>1
<1>5. /\ kept # <<>> => kept[1].priority \in Nat
      /\ candidate # <<>> => candidate[1].priority \in Nat
  BY <1>1
<1> HIDE DEF best
<1>6. IsEvidence(best, O2, G2, M2)
  <2>1. IsEvidence(kept, O2, G2, M2)
    BY ExplainsMore DEF Standing, IsEvidence
  <2> QED  BY <1>2, <2>1 DEF Stands
<1>7. Urgent(kept) \/ Urgent(candidate) => Urgent(best)
  BY <1>2, <1>3 DEF Urgent
<1>8. O2 # {} \/ G2 # {} => Urgent(best)
  BY <1>7 DEF Standing, Stands
<1>9. ASSUME NEW line \in M2, Reads[line].evidence # 3
      PROVE  best # <<>> /\ best[1].priority <= Reads[line].evidence
  <2>1. CASE line \in M
    <3>1. kept # <<>> /\ kept[1].priority <= Reads[line].evidence
      BY <1>9, <2>1 DEF Standing
    <3> QED  BY <1>2, <1>3, <1>4, <1>5, <3>1
  <2>2. CASE line \in N
    <3>1. candidate # <<>> /\ candidate[1].priority <= Reads[line].evidence
      BY <1>9, <2>2 DEF Stands
    <3> QED  BY <1>2, <1>3, <1>4, <1>5, <3>1
  <2> QED  BY <2>1, <2>2
<1>10. ASSUME ~Shares(M2), NEW found \in O2, found.location # 0
       PROVE  Located(best)
  <2>1. ~Shares(M)
    BY <1>10 DEF Shares
  <2>2. CASE found \in O
    BY <1>2, <1>10, <2>1, <2>2 DEF Standing
  <2>3. CASE found \in D
    BY <1>2, <1>10, <2>3 DEF Stands
  <2> QED  BY <2>2, <2>3
<1>11. ASSUME O2 = {}, NEW found \in G2, found.location # 0
       PROVE  Located(best)
  <2>1. O = {} /\ (\A one \in G : Urgent(kept)) /\ \A one \in P : Urgent(candidate)
    BY <1>11 DEF Standing, Stands
  <2>2. CASE found \in G
    BY <1>2, <1>11, <2>1, <2>2 DEF Standing
  <2>3. CASE found \in P
    BY <1>2, <1>11, <2>1, <2>3 DEF Stands
  <2> QED  BY <2>2, <2>3
<1> QED  BY <1>6, <1>8, <1>9, <1>10, <1>11 DEF Standing, best

----------------------------------------------------------------------------
(* What the parsers find in one line *)

AtMostOne(found) == found = <<>> \/ IsTold(found)

LEMMA JavaFindsOne ==
  ASSUME NEW parser \in JavaType
  PROVE  /\ AtMostOne(JavaConfirmed(parser))
         /\ \A line : AtMostOne(ObserveJava(parser, line).found)
PROOF
<1>1. \A some \in JavaType : AtMostOne(some.pending)
  BY DEF JavaType, Waiting, AtMostOne, IsTold
<1>2. AtMostOne(<<>>)
  BY DEF AtMostOne
<1>3. \A some \in JavaType : AtMostOne(JavaConfirmed(some))
  BY <1>1, <1>2 DEF JavaConfirmed
<1> SUFFICES ASSUME NEW line PROVE AtMostOne(ObserveJava(parser, line).found)
  BY <1>3
<1> DEFINE seen == [parser EXCEPT !.frames_seen = @ + 1]
           own == <<[parser.pending[1] EXCEPT !.location = Reads[line].java_frame]>>
           found == ObserveJava(parser, line).found
<1>4. seen \in JavaType
  BY DEF JavaType
<1>5. AtMostOne(own)
  BY DEF AtMostOne, IsTold
<1>6. \A p, f : Result(p, f).found = f
  BY DEF Result
<1>7. found \in {<<>>, own, JavaConfirmed(parser), JavaConfirmed(seen)}
  <2> HIDE DEF found
  <2>1. \/ found = <<>> \/ found = own \/ found = JavaConfirmed(parser)
        \/ found = JavaConfirmed(seen)
    BY <1>6 DEF found, ObserveJava, ObserveJavaFrame
  <2> HIDE DEF own, seen
  <2> QED  BY <2>1
<1> HIDE DEF own, seen, found
<1>8. AtMostOne(found)
  BY <1>2, <1>3, <1>4, <1>5, <1>7
<1> QED  BY <1>8 DEF found

LEMMA NodeFindsOne ==
  ASSUME NEW parser \in NodeType
  PROVE  /\ AtMostOne(NodeConfirmed(parser))
         /\ \A line : AtMostOne(ObserveNode(parser, line).found)
PROOF
<1>1. \A some \in NodeType : AtMostOne(some.pending)
  BY DEF NodeType, Waiting, AtMostOne, IsTold
<1>2. AtMostOne(<<>>)
  BY DEF AtMostOne
<1>3. \A some \in NodeType : AtMostOne(NodeConfirmed(some))
  BY <1>1, <1>2 DEF NodeConfirmed
<1> SUFFICES ASSUME NEW line PROVE AtMostOne(ObserveNode(parser, line).found)
  BY <1>3
<1> DEFINE seen == [parser EXCEPT !.frames_seen = @ + 1]
           own == <<[parser.pending[1] EXCEPT !.location = Reads[line].node_frame]>>
           found == ObserveNode(parser, line).found
<1>4. seen \in NodeType
  BY DEF NodeType
<1>5. AtMostOne(own)
  BY DEF AtMostOne, IsTold
<1>6. \A p, f : Result(p, f).found = f
  BY DEF Result
<1>7. found \in {<<>>, own, NodeConfirmed(parser), NodeConfirmed(seen)}
  <2> HIDE DEF found
  <2>1. \/ found = <<>> \/ found = own \/ found = NodeConfirmed(parser)
        \/ found = NodeConfirmed(seen)
    BY <1>6 DEF found, ObserveNode, ObserveNodeFrame
  <2> HIDE DEF own, seen
  <2> QED  BY <2>1
<1> HIDE DEF own, seen, found
<1>8. AtMostOne(found)
  BY <1>2, <1>3, <1>4, <1>5, <1>7
<1> QED  BY <1>8 DEF found

(* Java's parser waits without a place, and not while JavaScript's has     *)
(* seen frames of its own, unless there are frames of both.                *)
LEMMA JavaWithoutPlace ==
  ASSUME NEW text, WrittenText(text)
  PROVE  /\ JavaNow(text).parser.pending # <<>> => JavaNow(text).parser.pending[1].location = 0
         /\ JavaNow(text).parser.pending # <<>> /\ ~Shares(Range(text)) =>
              NodeNow(text).parser.frames_seen = 0
PROOF
<1> DEFINE n == Len(text)
           java == JavaNow(text).parser
           node == NodeNow(text).parser
<1>0. text \in Seq(Lines) /\ n \in Nat /\ DOMAIN text = 1..n /\ \A i \in 1..n : text[i] \in Range(text)
  BY DEF WrittenText, Range
<1>1. PICK flat : JavaAt(text, flat, n, JavaNow(text))
  BY JavaReached DEF JavaNow
<1>2. PICK flat2 : NodeAt(text, flat2, n, NodeNow(text))
  BY NodeReached DEF NodeNow
<1> SUFFICES ASSUME java.pending # <<>>
             PROVE  java.pending[1].location = 0 /\ (~Shares(Range(text)) => node.frames_seen = 0)
  OBVIOUS
<1>3. PICK k \in 1..n : JavaStack(text, k, n) /\ JavaNow(text) = JavaPending(text, flat, k, n)
  BY <1>1 DEF JavaAt, Result, NewJava
<1>4. java.pending = <<JavaHeader(text[k], 0)>>
  BY <1>3 DEF JavaPending, Result
<1>5. java.pending[1].location = 0
  BY <1>4 DEF JavaHeader, Diagnostic
<1>6. ASSUME ~Shares(Range(text)) PROVE node.frames_seen = 0
  <2>1. CASE NodeNow(text) = NodeIdle(text, flat2, n)
    BY <2>1 DEF NodeIdle, Result
  <2>2. ASSUME NEW i \in 1..n, NodeStack(text, i, n), NodeNow(text) = NodePending(text, flat2, i, n)
        PROVE  node.frames_seen = 0
    <3>1. node.frames_seen = n - i
      BY <2>2 DEF NodePending, Result
    <3>2. ASSUME i # n PROVE FALSE
      <4>1. n \in (i + 1)..n
        BY <3>2
      <4>2. IsNodeFrame(text[n])
        BY <2>2, <4>1 DEF NodeStack, NodeFrames
      <4>3. k = n \/ n \in (k + 1)..n
        OBVIOUS
      <4>4. CASE k = n
        <5>1. Reads[text[n]].java_exception # 0 /\ text[n] \in Lines
          BY <1>0, <1>3, <4>4 DEF JavaStack
        <5> QED  BY <4>2, <5>1, RecognisersAssumption DEF IsNodeFrame
      <4>5. CASE n \in (k + 1)..n
        <5>1. IsJavaFrame(text[n])
          BY <1>3, <4>5 DEF JavaStack, JavaFrames
        <5>2. text[n] \in Range(text)
          <6>1. n \in 1..n
            BY <1>0
          <6> QED  BY <1>0, <6>1
        <5> QED  BY <1>6, <4>2, <5>1, <5>2 DEF Shares
      <4> QED  BY <4>3, <4>4, <4>5
    <3>3. i = n
      BY <3>2
    <3>4. n - n = 0
      BY <1>0
    <3> HIDE DEF n
    <3> QED  BY <3>1, <3>3, <3>4
  <2> QED  BY <1>2, <2>1, <2>2 DEF NodeAt
<1> QED  BY <1>5, <1>6


(* What JavaScript's parser finds has a place when what Java's does has.   *)
LEMMA FoundApart ==
  ASSUME NEW text, WrittenText(text), NEW line \in Lines, ~Shares(Range(text) \cup {line}),
         ObserveNode(NodeNow(text).parser, line).found # <<>>,
         ObserveJava(JavaNow(text).parser, line).found # <<>>,
         ObserveJava(JavaNow(text).parser, line).found[1].location # 0
  PROVE  ObserveNode(NodeNow(text).parser, line).found[1].location # 0
PROOF
<1> DEFINE java == JavaNow(text).parser
           node == NodeNow(text).parser
           javas == ObserveJava(java, line).found
           nodes == ObserveNode(node, line).found
           read == Reads[line]
<1>0. \A p, f : Result(p, f).found = f
  BY DEF Result
<1>1. java.pending # <<>> => java.pending[1].location = 0
  BY JavaWithoutPlace
<1>2. ~Shares(Range(text)) /\ ~(IsNodeFrame(line) /\ IsJavaFrame(line))
  BY DEF Shares
<1>3. java.pending # <<>> => node.frames_seen = 0
  BY <1>2, JavaWithoutPlace
<1>4. javas # <<>> /\ javas[1].location # 0 /\ nodes # <<>>
  OBVIOUS
<1> HIDE DEF java, node
<1>5. \A some : JavaConfirmed(some) # <<>> => JavaConfirmed(some) = some.pending
  BY DEF JavaConfirmed
<1>6. java.pending # <<>> /\ IsJavaFrame(line)
  <2>1. CASE read.java_exception # 0
    <3>1. javas = JavaConfirmed(java)
      BY <1>0, <2>1 DEF ObserveJava
    <3> QED  BY <1>1, <1>4, <1>5, <3>1
  <2>2. CASE read.java_exception = 0 /\ java.pending = <<>>
    BY <1>0, <1>4, <2>2 DEF ObserveJava
  <2>3. CASE read.java_exception = 0 /\ java.pending # <<>> /\ read.java_frame = 0
    <3>1. javas = <<>> \/ javas = JavaConfirmed(java)
      BY <1>0, <2>3 DEF ObserveJava
    <3> QED  BY <1>1, <1>4, <1>5, <3>1
  <2> QED  BY <2>1, <2>2, <2>3 DEF IsJavaFrame
<1>7. ~IsNodeFrame(line) /\ node.frames_seen = 0
  BY <1>2, <1>3, <1>6
<1>8. nodes = NodeConfirmed(node)
  <2> HIDE DEF nodes
  <2>1. nodes = <<>> \/ nodes = NodeConfirmed(node)
    BY <1>0, <1>7 DEF nodes, ObserveNode, IsNodeFrame
  <2> QED  BY <1>4, <2>1
<1>9. nodes[1].location # 0
  BY <1>4, <1>7, <1>8 DEF NodeConfirmed
<1> QED  BY <1>9 DEF node, nodes

(* The first of what three parsers find. *)
LEMMA FirstFound ==
  ASSUME NEW T, NEW go \in Seq(T), NEW node \in Seq(T), NEW java \in Seq(T),
         AtMostOne(go), AtMostOne(node), AtMostOne(java)
  PROVE  LET earlier == go \o node \o java
         IN  /\ Range(earlier) = Range(go) \cup Range(node) \cup Range(java)
             /\ earlier = <<>> <=> Range(earlier) = {}
             /\ earlier # <<>> =>
                  /\ earlier[1] \in Range(earlier)
                  /\ earlier[1] = IF go # <<>> THEN go[1]
                                  ELSE IF node # <<>> THEN node[1] ELSE java[1]
             /\ \A one \in Range(earlier) : \/ go # <<>> /\ one = go[1]
                                            \/ node # <<>> /\ one = node[1]
                                            \/ java # <<>> /\ one = java[1]
PROOF
<1> DEFINE two == go \o node
           earlier == two \o java
<1>1. two \in Seq(T) /\ earlier \in Seq(T)
  OBVIOUS
<1>2. Range(earlier) = Range(go) \cup Range(node) \cup Range(java)
  <2>1. Range(two) = Range(go) \cup Range(node)
    BY RangeConcat
  <2>2. Range(two \o java) = Range(two) \cup Range(java)
    <3> HIDE DEF two
    <3> QED  BY <1>1, RangeConcat
  <2> QED  BY <2>1, <2>2
<1>3. \A s \in Seq(T) : AtMostOne(s) => \A one \in Range(s) : s # <<>> /\ one = s[1]
  BY DEF AtMostOne, IsTold, Range
<1>4. \A s \in Seq(T) : (s = <<>> <=> Range(s) = {}) /\ (s # <<>> => s[1] \in Range(s) /\ Len(s) >= 1)
  <2> SUFFICES ASSUME NEW s \in Seq(T)
               PROVE  (s = <<>> <=> Range(s) = {}) /\ (s # <<>> => s[1] \in Range(s) /\ Len(s) >= 1)
    OBVIOUS
  <2>1. s = <<>> => Range(s) = {}
    BY DEF Range
  <2>2. s # <<>> => s[1] \in Range(s) /\ Len(s) >= 1
    <3>1. s # <<>> => 1 \in DOMAIN s /\ Len(s) >= 1
      OBVIOUS
    <3> QED  BY <3>1 DEF Range
  <2> QED  BY <2>1, <2>2
<1>5. earlier[1] = IF go # <<>> THEN go[1] ELSE IF node # <<>> THEN node[1] ELSE java[1]
  <2>1. \A a, b \in Seq(T) : (a \o b)[1] = IF a # <<>> THEN a[1] ELSE b[1]
    <3> SUFFICES ASSUME NEW a \in Seq(T), NEW b \in Seq(T)
                 PROVE  (a \o b)[1] = IF a # <<>> THEN a[1] ELSE b[1]
      OBVIOUS
    <3>1. CASE a = <<>>
      BY <3>1
    <3>2. CASE a # <<>>
      <4>1. Len(a) >= 1
        BY <1>4, <3>2
      <4> QED  BY <3>2, <4>1
    <3> QED  BY <3>1, <3>2
  <2>2. two = <<>> <=> go = <<>> /\ node = <<>>
    OBVIOUS
  <2>3. two[1] = IF go # <<>> THEN go[1] ELSE node[1]
    BY <2>1
  <2> HIDE DEF two
  <2>4. earlier[1] = IF two # <<>> THEN two[1] ELSE java[1]
    BY <1>1, <2>1
  <2> QED  BY <2>2, <2>3, <2>4
<1>6. earlier = <<>> <=> Range(earlier) = {}
  <2> HIDE DEF earlier
  <2> QED  BY <1>1, <1>4
<1>7. earlier # <<>> => earlier[1] \in Range(earlier)
  <2> HIDE DEF earlier
  <2> QED  BY <1>1, <1>4
<1>8. \A one \in Range(earlier) : \/ go # <<>> /\ one = go[1]
                                  \/ node # <<>> /\ one = node[1]
                                  \/ java # <<>> /\ one = java[1]
  BY <1>2, <1>3
<1> QED  BY <1>2, <1>5, <1>6, <1>7, <1>8

----------------------------------------------------------------------------
(* What is found in a text *)

(* What the parsers before Python's find in the line below a text.         *)
EarlierIn(text, line) ==
  ParsedGo(line) \o ObserveNode(NodeNow(text).parser, line).found
    \o ObserveJava(JavaNow(text).parser, line).found
PythonIn(text, line) ==
  IF IsPythonException(line) THEN {PythonException(line, PythonLeft(text))} ELSE {}

Findings == DiagnosticsOf("go") \cup DiagnosticsOf("javascript-test") \cup DiagnosticsOf("java-test")

LEMMA ParsedGoType ==
  ASSUME NEW line \in Lines
  PROVE  /\ ParsedGo(line) \in Seq(DiagnosticsOf("go")) /\ AtMostOne(ParsedGo(line))
         /\ ParsedGo(line) # <<>> => ParsedGo(line)[1].location # 0
PROOF
<1> DEFINE one == Diagnostic("go", line, <<Reads[line].parsed["go"]>>, Reads[line].parsed_place)
<1>1. Reads[line].parsed["go"] \in OptionalTexts /\ Reads[line].parsed_place \in OptionalPlaces
  <2>1. "go" \in Range(LineOwners)
    <3>1. 4 \in DOMAIN LineOwners /\ LineOwners[4] = "go"
      BY DEF LineOwners
    <3> QED  BY <3>1 DEF Range
  <2> QED  BY <2>1, LineReadType
<1>2. one \in DiagnosticsOf("go")
  <2>1. <<Reads[line].parsed["go"]>> \in Seq(OptionalTexts)
    BY <1>1
  <2> QED  BY <1>1, <2>1, DiagnosticType
<1>3. ParsedGo(line) = <<>> \/ (ParsedGo(line) = <<one>> /\ Reads[line].parsed["go"] # 0)
  BY DEF ParsedGo
<1>4. Reads[line].parsed["go"] # 0 => one.location # 0
  BY RecognisersAssumption DEF Diagnostic
<1> DEFINE T == DiagnosticsOf("go")
<1> HIDE DEF one, T
<1>5. <<>> \in Seq(T) /\ <<one>> \in Seq(T)
  BY <1>2 DEF T
<1>6. AtMostOne(<<>>) /\ AtMostOne(<<one>>)
  BY DEF AtMostOne, IsTold
<1>7. CASE ParsedGo(line) = <<>>
  BY <1>5, <1>6, <1>7 DEF T
<1>8. CASE ParsedGo(line) = <<one>> /\ Reads[line].parsed["go"] # 0
  <2>1. <<one>>[1] = one
    OBVIOUS
  <2> QED  BY <1>4, <1>5, <1>6, <1>8, <2>1 DEF T
<1> QED  BY <1>3, <1>7, <1>8

LEMMA RangeAppend ==
  ASSUME NEW T, NEW seq \in Seq(T), NEW x
  PROVE  Range(Append(seq, x)) = Range(seq) \cup {x}
PROOF
<1> DEFINE U == T \cup {x}
           one == <<x>>
<1>1. seq \in Seq(U) /\ one \in Seq(U)
  OBVIOUS
<1>2. Append(seq, x) = seq \o one
  OBVIOUS
<1>3. Range(one) = {x}
  BY DEF Range
<1> HIDE DEF U, one
<1> QED  BY <1>1, <1>2, <1>3, RangeConcat

LEMMA GoEvidenceGrows ==
  ASSUME NEW text \in Seq(Lines), NEW line \in Lines
  PROVE  Range(GoReference(Append(text, line))) = Range(GoReference(text)) \cup Range(ParsedGo(line))
PROOF
<1> DEFINE T == DiagnosticsOf("go")
           n == Len(text)
           more == Append(text, line)
           R == [i \in DOMAIN text |-> ParsedGo(text[i])]
           Q == [i \in DOMAIN more |-> ParsedGo(more[i])]
<1>1. /\ n \in Nat /\ DOMAIN text = 1..n /\ DOMAIN more = 1..n + 1 /\ more[n + 1] = line
      /\ \A i \in 1..n : more[i] = text[i] /\ text[i] \in Lines /\ i \in 1..n + 1
      /\ \A i \in 1..n + 1 : more[i] \in Lines
      /\ n + 1 \in 1..n + 1
  OBVIOUS
<1> HIDE DEF n, more, T
<1>2. \A x \in Lines : ParsedGo(x) \in Seq(T)
  BY ParsedGoType DEF T
<1>3. R \in [1..n -> Seq(T)] /\ Q \in [1..n + 1 -> Seq(T)]
  BY <1>1, <1>2
<1>4. (\A i \in 1..n : Q[i] = R[i]) /\ Q[n + 1] = ParsedGo(line)
  BY <1>1
<1>5. GoReference(text) = FlattenSeq(R) /\ GoReference(more) = FlattenSeq(Q)
  BY DEF GoReference
<1> HIDE DEF Q, R
<1>6. FlattenSeq(Q) = FlattenSeq(R) \o Q[n + 1] /\ FlattenSeq(R) \in Seq(T)
  BY <1>1, <1>3, <1>4, FlattenAppend
<1> QED  BY <1>2, <1>4, <1>5, <1>6, RangeConcat DEF more

(* One line more, in what the references say.                              *)
LEMMA EvidenceGrows ==
  ASSUME NEW text, WrittenText(text), NEW line \in Lines, ~Reads[line].blank
  PROVE  /\ ForeignEvidence(Append(text, line), FALSE) =
              ForeignEvidence(text, FALSE) \cup Range(EarlierIn(text, line))
         /\ PythonEvidence(Append(text, line)) = PythonEvidence(text) \cup PythonIn(text, line)
         /\ Range(Append(text, line)) = Range(text) \cup {line}
PROOF
<1> DEFINE T == Findings
           more == Append(text, line)
           go == ParsedGo(line)
           node == ObserveNode(NodeNow(text).parser, line).found
           java == ObserveJava(JavaNow(text).parser, line).found
<1>1. text \in Seq(Lines)
  BY DEF WrittenText
<1>2. /\ NodeNow(text).parser \in NodeType /\ JavaNow(text).parser \in JavaType
  BY <1>1, NowTypes DEF Results
<1>3. /\ go \in Seq(DiagnosticsOf("go")) /\ node \in Seq(DiagnosticsOf("javascript-test"))
      /\ java \in Seq(DiagnosticsOf("java-test"))
  BY <1>2, ParsedGoType, ObserveNodeType, ObserveJavaType DEF Results
<1>4. Range(EarlierIn(text, line)) = Range(go) \cup Range(node) \cup Range(java)
  <2> HIDE DEF go, node, java
  <2>1. go \in Seq(T) /\ node \in Seq(T) /\ java \in Seq(T)
    BY <1>3 DEF Findings
  <2> HIDE DEF T
  <2>2. go \o node \in Seq(T)
    BY <2>1
  <2>3. Range(go \o node) = Range(go) \cup Range(node)
    BY <2>1, RangeConcat
  <2>4. Range((go \o node) \o java) = Range(go \o node) \cup Range(java)
    <3> DEFINE both == go \o node
    <3> HIDE DEF both
    <3>1. both \in Seq(T)
      BY <2>2 DEF both
    <3>2. Range(both \o java) = Range(both) \cup Range(java)
      BY <2>1, <3>1, RangeConcat
    <3> QED  BY <3>2 DEF both
  <2> QED  BY <2>3, <2>4 DEF EarlierIn, go, node, java
<1>5. /\ Range(GoReference(more)) = Range(GoReference(text)) \cup Range(go)
      /\ Range(NodeReference(more, FALSE)) = Range(NodeReference(text, FALSE)) \cup Range(node)
      /\ Range(JavaReference(more, FALSE)) = Range(JavaReference(text, FALSE)) \cup Range(java)
  BY <1>1, GoEvidenceGrows, NodeEvidenceGrows, JavaEvidenceGrows
<1>6. ForeignEvidence(more, FALSE) = ForeignEvidence(text, FALSE) \cup Range(EarlierIn(text, line))
  <2> HIDE DEF more, go, node, java
  <2> QED  BY <1>4, <1>5 DEF ForeignEvidence
<1>7. PythonEvidence(more) = PythonEvidence(text) \cup PythonIn(text, line)
  <2> DEFINE one == PythonException(line, PythonLeft(text))
             found == PythonReference(text)
  <2>1. /\ found \in Seq(DiagnosticsOf("python"))
        /\ PythonReference(more) = IF IsPythonException(line) THEN Append(found, one) ELSE found
    BY <1>1, PythonReferenceStep
  <2> HIDE DEF one, found
  <2>2. Range(Append(found, one)) = Range(found) \cup {one}
    BY <2>1, RangeAppend
  <2> QED  BY <2>1, <2>2 DEF PythonEvidence, PythonIn, one, found
<1>8. Range(more) = Range(text) \cup {line}
  BY <1>1, RangeAppend
<1> QED  BY <1>6, <1>7, <1>8

LEMMA EvidenceEnds ==
  ASSUME NEW text, WrittenText(text)
  PROVE  ForeignEvidence(text, TRUE) =
           (ForeignEvidence(text, FALSE) \cup Range(NodeConfirmed(NodeNow(text).parser)))
             \cup Range(JavaConfirmed(JavaNow(text).parser))
BY NodeEvidenceGrows, JavaEvidenceGrows DEF ForeignEvidence

LEMMA NoEvidence ==
  /\ WrittenText(<<>>) /\ Range(<<>>) = {}
  /\ ForeignEvidence(<<>>, FALSE) = {} /\ PythonEvidence(<<>>) = {}
  /\ NodeNow(<<>>).parser = NewNode /\ JavaNow(<<>>).parser = NewJava /\ PythonLeft(<<>>) = 0
PROOF
<1> DEFINE none == <<>>
<1>1. WrittenText(none) /\ none \in Seq(Lines) /\ Range(none) = {} /\ Len(none) = 0
  BY DEF WrittenText, Range
<1>2. NodePrefixes(none)[0] = Result(NewNode, <<>>) /\ JavaPrefixes(none)[0] = Result(NewJava, <<>>)
  BY <1>1, NodeCourse, JavaCourse
<1>3. PythonLeft(none) = 0 /\ PythonReference(none) = <<>>
  BY PythonEmpty
<1>4. FlattenSeq([i \in DOMAIN none |-> ParsedGo(none[i])]) = <<>>
  <2>1. [i \in DOMAIN none |-> ParsedGo(none[i])] = <<>>
    OBVIOUS
  <2> QED  BY <2>1, FlattenEmpty
<1> HIDE DEF none
<1>6. NodeReference(none, FALSE) = <<>> /\ JavaReference(none, FALSE) = <<>>
  <2>1. /\ NodeReference(none, FALSE) = NodePrefixes(none)[0].found
        /\ JavaReference(none, FALSE) = JavaPrefixes(none)[0].found
    BY <1>1, NodeFoundSoFar, JavaFoundSoFar
  <2>2. \A p, f : Result(p, f).found = f
    BY DEF Result
  <2> QED  BY <1>2, <2>1, <2>2
<1>7. NodeNow(none).parser = NewNode /\ JavaNow(none).parser = NewJava
  BY <1>1, <1>2 DEF NodeNow, JavaNow, Result
<1>8. ForeignEvidence(none, FALSE) = {} /\ PythonEvidence(none) = {}
  BY <1>1, <1>3, <1>4, <1>6 DEF ForeignEvidence, PythonEvidence, GoReference, none
<1> QED  BY <1>1, <1>3, <1>7, <1>8 DEF none

LEMMA EarlierFirst ==
  ASSUME NEW text, WrittenText(text), NEW line \in Lines
  PROVE  LET earlier == EarlierIn(text, line)
         IN  /\ earlier = <<>> <=> Range(earlier) = {}
             /\ earlier # <<>> => earlier[1] \in Range(earlier)
             /\ ~Shares(Range(text) \cup {line}) /\ (\E one \in Range(earlier) : one.location # 0) =>
                  earlier[1].location # 0
PROOF
<1> DEFINE T == Findings
           go == ParsedGo(line)
           node == ObserveNode(NodeNow(text).parser, line).found
           java == ObserveJava(JavaNow(text).parser, line).found
           earlier == go \o node \o java
<1>1. NodeNow(text).parser \in NodeType /\ JavaNow(text).parser \in JavaType
  BY NowTypes DEF Results, WrittenText
<1>2. /\ go \in Seq(DiagnosticsOf("go")) /\ node \in Seq(DiagnosticsOf("javascript-test"))
      /\ java \in Seq(DiagnosticsOf("java-test"))
  BY <1>1, ParsedGoType, ObserveNodeType, ObserveJavaType DEF Results
<1>3. AtMostOne(go) /\ AtMostOne(node) /\ AtMostOne(java)
  BY <1>1, ParsedGoType, NodeFindsOne, JavaFindsOne
<1>4. go # <<>> => go[1].location # 0
  BY ParsedGoType
<1>5. ~Shares(Range(text) \cup {line}) /\ node # <<>> /\ java # <<>> /\ java[1].location # 0 =>
        node[1].location # 0
  BY FoundApart
<1> HIDE DEF go, node, java
<1>6. go \in Seq(T) /\ node \in Seq(T) /\ java \in Seq(T)
  BY <1>2 DEF Findings
<1> HIDE DEF T
<1>7. /\ earlier = <<>> <=> Range(earlier) = {}
      /\ earlier # <<>> =>
           /\ earlier[1] \in Range(earlier)
           /\ earlier[1] = IF go # <<>> THEN go[1] ELSE IF node # <<>> THEN node[1] ELSE java[1]
      /\ \A one \in Range(earlier) : \/ go # <<>> /\ one = go[1]
                                     \/ node # <<>> /\ one = node[1]
                                     \/ java # <<>> /\ one = java[1]
  BY <1>3, <1>6, FirstFound
<1> HIDE DEF earlier
<1>8. ASSUME ~Shares(Range(text) \cup {line}), NEW one \in Range(earlier), one.location # 0
      PROVE  earlier[1].location # 0
  BY <1>4, <1>5, <1>7, <1>8
<1>9. EarlierIn(text, line) = earlier
  BY DEF EarlierIn, earlier, go, node, java
<1> QED  BY <1>7, <1>8, <1>9

(* The candidate of a line stands for what is found in it.                 *)
LEMMA CandidateStands ==
  ASSUME NEW text, WrittenText(text), NEW line \in Lines,
         NEW O, NEW G, NEW M, NEW python, NEW provenance,
         Range(EarlierIn(text, line)) \subseteq O, PythonIn(text, line) \subseteq G,
         Range(text) \cup {line} \subseteq M,
         O = {} => python = PythonLeft(text),
         python # 0 => HasPlace(M)
  PROVE  Stands(LineCandidate(line, EarlierIn(text, line), ObservePython(python, line).found,
                              provenance),
                O, G, M, Range(EarlierIn(text, line)), PythonIn(text, line), {line})
PROOF
<1> DEFINE earlier == EarlierIn(text, line)
           D == Range(earlier)
           P == PythonIn(text, line)
           found == ObservePython(python, line).found
           candidate == LineCandidate(line, earlier, found, provenance)
           evidence == Reads[line].evidence
<1>1. /\ earlier = <<>> <=> D = {}
      /\ earlier # <<>> => earlier[1] \in D
      /\ ~Shares(Range(text) \cup {line}) /\ (\E one \in D : one.location # 0) =>
           earlier[1].location # 0
  BY EarlierFirst
<1>2. found = IF IsPythonException(line) THEN <<PythonException(line, python)>> ELSE <<>>
  BY PythonObserves
<1>3. ~Shares(M) => ~Shares(Range(text) \cup {line})
  BY DEF Shares
<1>4. evidence \in 0..3
  BY ReadIs DEF ReadingType
<1>5. D \subseteq O /\ P \subseteq G /\ line \in M
  OBVIOUS
<1>6. PythonException(line, python).location = python
  BY DEF PythonException, Diagnostic
<1>7. PythonException(line, PythonLeft(text)).location = PythonLeft(text)
  BY DEF PythonException, Diagnostic
<1> HIDE DEF earlier, D, found
<1>8. CASE earlier # <<>>
  <2> DEFINE one == [priority |-> 0, diagnostic |-> earlier[1], provenance |-> provenance]
  <2>1. candidate = <<one>>
    BY <1>8 DEF LineCandidate, Found, Evidence
  <2>2. one.priority = 0 /\ one.diagnostic = earlier[1]
    OBVIOUS
  <2> HIDE DEF candidate, one
  <2>3. candidate # <<>> /\ candidate[1] = one
    BY <2>1
  <2>4. IsEvidence(candidate, O, G, M)
    BY <1>1, <1>5, <1>8, <2>1, <2>2 DEF IsEvidence, Explains
  <2>5. Urgent(candidate) /\ (earlier[1].location # 0 => Located(candidate))
    BY <2>2, <2>3 DEF Urgent, Located
  <2>6. O # {}
    BY <1>1, <1>5, <1>8
  <2>7. candidate[1].priority <= evidence
    BY <1>4, <2>2, <2>3
  <2> QED  BY <1>1, <1>3, <2>3, <2>4, <2>5, <2>6, <2>7 DEF Stands, candidate, earlier, D, found
<1>9. CASE earlier = <<>> /\ IsPythonException(line)
  <2> DEFINE d == PythonException(line, python)
             one == [priority |-> 0, diagnostic |-> d, provenance |-> provenance]
  <2>1. found = <<d>>
    BY <1>2, <1>9
  <2>2. one.priority = 0 /\ one.diagnostic = d /\ found # <<>> /\ found[1] = d
    BY <2>1
  <2>3. candidate = <<one>>
    BY <1>9, <2>2 DEF LineCandidate, Found, Evidence
  <2>4. P = {PythonException(line, PythonLeft(text))}
    BY <1>9 DEF PythonIn
  <2>5. O = {} => d \in P
    BY <2>4
  <2>6. d.location # 0 => HasPlace(M)
    BY <1>6
  <2> HIDE DEF candidate, one
  <2>7. candidate # <<>> /\ candidate[1] = one
    BY <2>3
  <2>8. IsEvidence(candidate, O, G, M)
    BY <1>5, <2>2, <2>3, <2>5, <2>6 DEF IsEvidence, Explains
  <2>9. Urgent(candidate) /\ (d.location # 0 => Located(candidate))
    BY <2>2, <2>7 DEF Urgent, Located
  <2>10. candidate[1].priority <= evidence
    BY <1>4, <2>2, <2>7
  <2>11. O = {} /\ (\E some \in P : some.location # 0) => Located(candidate)
    <3>1. O = {} /\ (\E some \in P : some.location # 0) => d.location # 0
      BY <1>6, <1>7, <2>4
    <3> QED  BY <2>9, <3>1
  <2> HIDE DEF P
  <2>12. D = {}
    BY <1>1, <1>9
  <2> QED  BY <2>7, <2>8, <2>9, <2>10, <2>11, <2>12 DEF Stands, candidate, earlier, D, found, P
<1>10. CASE earlier = <<>> /\ ~IsPythonException(line)
  <2> DEFINE d == Diagnostic("test.fallback", line, <<>>, 0)
             one == [priority |-> evidence, diagnostic |-> d, provenance |-> provenance]
  <2>1. candidate = IF evidence = 3 THEN <<>> ELSE <<one>>
    BY <1>2, <1>10 DEF LineCandidate, LineEvidence, Evidence
  <2>2. one.priority = evidence /\ one.diagnostic = d /\ d.line = line /\ d.location = 0
    BY DEF Diagnostic
  <2> HIDE DEF candidate, one, d
  <2>3. evidence # 3 => candidate # <<>> /\ candidate[1] = one
    BY <2>1
  <2>4. IsEvidence(candidate, O, G, M)
    <3>1. evidence # 3 => Explains(one, O, G, M)
      BY <1>5, <2>2 DEF Explains
    <3> QED  BY <1>4, <2>1, <2>2, <3>1 DEF IsEvidence
  <2>5. evidence # 3 => candidate[1].priority <= evidence
    BY <1>4, <2>2, <2>3
  <2>6. D = {} /\ P = {}
    BY <1>1, <1>10 DEF PythonIn
  <2> HIDE DEF P
  <2> QED  BY <2>3, <2>4, <2>5, <2>6 DEF Stands, candidate, earlier, D, found, P
<1> QED  BY <1>8, <1>9, <1>10

----------------------------------------------------------------------------
(* What is found in texts of one kind *)

LEMMA FlattenNothing ==
  ASSUME NEW n \in Nat, NEW R, R = [i \in 1..n |-> R[i]], \A i \in 1..n : R[i] = <<>>
  PROVE  FlattenSeq(R) = <<>>
PROOF
<1> DEFINE T == {}
<1>1. R \in [1..n -> Seq(T)]
  <2>1. <<>> \in Seq(T)
    OBVIOUS
  <2> QED  BY <2>1
<1> HIDE DEF T
<1>2. PICK flat : Flattens(flat, T, n, R) /\ FlattenSeq(R) = flat[n]
  BY <1>1, FlattenCourse
<1>3. 0 \in 0..n /\ n \in 0..n /\ Silent(R, 0, n)
  BY DEF Silent
<1>4. flat[n] = flat[0]
  BY <1>2, <1>3, FlatStays
<1> QED  BY <1>2, <1>4 DEF Flattens

LEMMA NothingForeign ==
  ASSUME NEW text \in Seq(Lines), \A line \in Range(text) : ~Foreign(line), NEW complete
  PROVE  ForeignEvidence(text, complete) = {}
PROOF
<1> DEFINE n == Len(text)
           go == [i \in DOMAIN text |-> ParsedGo(text[i])]
           node == [i \in DOMAIN text |->
                     IF ~IsNodeException(text[i]) THEN <<>>
                     ELSE NodeReport(text, i, StackBelow(text, i, IsNodeFrame),
                                     PlaceAbove(text, i, NodePlace, IsNodeException), complete)]
           java == [i \in DOMAIN text |->
                     IF Reads[text[i]].java_exception = 0 THEN <<>>
                     ELSE JavaReport(text, i, StackBelow(text, i, IsJavaFrame), complete)]
<1>1. n \in Nat /\ DOMAIN text = 1..n /\ \A i \in 1..n : text[i] \in Lines /\ ~Foreign(text[i])
  BY DEF Range
<1>2. \A i \in 1..n : /\ Reads[text[i]].node_place = 0 /\ ~IsNodeFrame(text[i])
                      /\ ~IsJavaFrame(text[i]) /\ ~Reads[text[i]].java_explicit
                      /\ Reads[text[i]].parsed["go"] = 0
  BY <1>1 DEF Foreign
<1>3. \A i \in 1..n : \A j \in (i + 1)..n : j \in 1..n
  BY <1>1
<1>4. \A i \in 1..n : StackBelow(text, i, IsNodeFrame) = {} /\ StackBelow(text, i, IsJavaFrame) = {}
  BY <1>2, <1>3 DEF StackBelow
<1>5. \A i \in 1..n : PlaceAbove(text, i, NodePlace, IsNodeException) = 0
  <2>1. \A i \in 1..n : \A j \in 1..(i - 1) : j \in 1..n
    BY <1>1
  <2> QED  BY <1>2, <2>1 DEF PlaceAbove, NodePlace
<1> HIDE DEF n
<1>6. FlattenSeq(go) = <<>>
  <2>1. go = [i \in 1..n |-> go[i]] /\ \A i \in 1..n : go[i] = <<>>
    BY <1>1, <1>2 DEF ParsedGo
  <2> HIDE DEF go
  <2> QED  BY <1>1, <2>1, FlattenNothing
<1>7. FlattenSeq(node) = <<>>
  <2>1. node = [i \in 1..n |-> node[i]] /\ \A i \in 1..n : node[i] = <<>>
    BY <1>1, <1>4, <1>5 DEF NodeReport
  <2> HIDE DEF node
  <2> QED  BY <1>1, <2>1, FlattenNothing
<1>8. FlattenSeq(java) = <<>>
  <2>1. java = [i \in 1..n |-> java[i]] /\ \A i \in 1..n : java[i] = <<>>
    BY <1>1, <1>2, <1>4 DEF JavaReport
  <2> HIDE DEF java
  <2> QED  BY <1>1, <2>1, FlattenNothing
<1>9. Range(<<>>) = {}
  BY DEF Range
<1>10. /\ GoReference(text) = FlattenSeq(go) /\ NodeReference(text, complete) = FlattenSeq(node)
       /\ JavaReference(text, complete) = FlattenSeq(java)
  BY DEF GoReference, NodeReference, JavaReference
<1> HIDE DEF go, node, java
<1> QED  BY <1>6, <1>7, <1>8, <1>9, <1>10 DEF ForeignEvidence

(* A place of Python's is one that a line of the text names.               *)
LEMMA PythonPlaceNamed ==
  ASSUME NEW text \in Seq(Lines), NEW one \in PythonEvidence(text), one.location # 0
  PROVE  HasPlace(Range(text))
PROOF
<1> DEFINE n == Len(text)
           T == {d \in DiagnosticsOf("python") : d.location # 0 => HasPlace(Range(text))}
           R == PythonReports(text)
<1>1. /\ n \in Nat /\ \A i \in 1..n : text[i] \in Lines /\ text[i] \in Range(text)
      /\ \A i \in 1..n : i \in 1..(n + 1)
  BY DEF Range
<1>2. /\ R \in [1..n -> Seq(DiagnosticsOf("python"))] /\ PythonReference(text) = FlattenSeq(R)
      /\ \A i \in 1..n : R[i] = IF ~IsPythonException(text[i]) THEN <<>>
                                ELSE <<PythonException(text[i], PythonPlaceAbove(text, i))>>
  BY PythonReportsType
<1>3. ASSUME NEW i \in 1..n, PythonPlaceAbove(text, i) # 0 PROVE HasPlace(Range(text))
  <2> DEFINE m == i - 1
             places == {j \in 1..m : PythonPlace(text[j]) # 0 /\
                          \A k \in (j + 1)..m : ~EndsPython(text[k])}
  <2>1. PythonPlaceAbove(text, i) = IF places = {} THEN 0 ELSE PythonPlace(text[Max(places)])
    BY DEF PythonPlaceAbove, PlaceAbove
  <2>2. PICK j \in 1..m : PythonPlace(text[j]) # 0
    BY <1>3, <2>1
  <2>3. j \in 1..n /\ Reads[text[j]].python_place # 0
    BY <1>1, <2>2 DEF PythonPlace
  <2> QED  BY <1>1, <2>3 DEF HasPlace
<1> HIDE DEF R, n
<1>4. ASSUME NEW i \in 1..n PROVE R[i] \in Seq(T)
  <2> DEFINE d == PythonException(text[i], PythonPlaceAbove(text, i))
  <2>1. d \in DiagnosticsOf("python")
    <3>1. PythonPlaceAbove(text, i) \in OptionalPlaces
      BY <1>1, PythonPlaceType DEF n
    <3> QED  BY <1>1, <3>1, PythonExceptionType
  <2>2. d.location = PythonPlaceAbove(text, i)
    BY DEF PythonException, Diagnostic
  <2>3. d \in T
    BY <1>3, <2>1, <2>2
  <2>4. R[i] = <<>> \/ R[i] = <<d>>
    BY <1>2
  <2> HIDE DEF T, d
  <2>5. <<>> \in Seq(T) /\ <<d>> \in Seq(T)
    BY <2>3
  <2> QED  BY <2>4, <2>5
<1>5. R \in [1..n -> Seq(T)]
  <2> HIDE DEF T
  <2> QED  BY <1>2, <1>4
<1>6. FlattenSeq(R) \in Seq(T)
  <2> HIDE DEF T
  <2>1. PICK flat : Flattens(flat, T, n, R) /\ FlattenSeq(R) = flat[n]
    BY <1>1, <1>5, FlattenCourse
  <2> QED  BY <1>1, <2>1 DEF Flattens
<1>7. one \in T
  <2> HIDE DEF T
  <2> QED  BY <1>2, <1>6 DEF PythonEvidence, Range
<1> QED  BY <1>7

----------------------------------------------------------------------------
(* Test logs *)

OthersIn(texts) == UNION {ForeignEvidence(one.text, one.complete) : one \in texts}
GuessesIn(texts) == UNION {PythonEvidence(one.text) : one \in texts}
LinesIn(texts) == UNION {Range(one.text) : one \in texts}

(* The texts of the segments that have ended and of the one that has not.  *)
EndedTexts(ended) == {Segment(segment.log, segment.complete) : segment \in Range(ended)}
TextsOf(ended, shown) == EndedTexts(ended) \cup {Segment(shown, FALSE)}
TextShown(shown) == WithoutBlanks(LinesOf(shown))

HeldForm(held) ==
  held = [segment |-> held.segment, extracted_failures |-> held.extracted_failures,
          fallback |-> held.fallback]
(* What is kept of a test log whose segment's parsers have seen its text:  *)
(* Python's all of it, unless what others found has hidden some.           *)
HeldBy(held, texts, text) ==
  /\ HeldForm(held)
  /\ held.segment.javascript = NodeNow(text).parser /\ held.segment.java = JavaNow(text).parser
  /\ OthersIn(texts) = {} => held.segment.python = PythonLeft(text)
  /\ held.segment.python # 0 => HasPlace(LinesIn(texts))
  /\ LinesIn(texts) \subseteq Lines
  /\ Standing(held.fallback, OthersIn(texts), GuessesIn(texts), LinesIn(texts))

LEMMA TextsMore ==
  ASSUME NEW texts, NEW text, NEW complete
  PROVE  LET more == texts \cup {[text |-> text, complete |-> complete]}
         IN  /\ OthersIn(more) = OthersIn(texts) \cup ForeignEvidence(text, complete)
             /\ GuessesIn(more) = GuessesIn(texts) \cup PythonEvidence(text)
             /\ LinesIn(more) = LinesIn(texts) \cup Range(text)
PROOF
<1> DEFINE x == [text |-> text, complete |-> complete]
<1>1. x.text = text /\ x.complete = complete
  OBVIOUS
<1> HIDE DEF x
<1> QED  BY <1>1 DEF OthersIn, GuessesIn, LinesIn, x

LEMMA StandingFirst == Standing(<<>>, {}, {}, {})
BY DEF Standing, IsEvidence, Urgent, Located

LEMMA NoMoreEvidence ==
  ASSUME NEW kept
  PROVE  Best(kept, <<>>) = kept
BY DEF Best, Better

(* A log that is new, or that has been shown nothing since a segment.      *)
LEMMA HeldNew ==
  ASSUME NEW held, HeldForm(held), held.segment = NewSegment, NEW texts, LinesIn(texts) \subseteq Lines,
         Standing(held.fallback, OthersIn(texts), GuessesIn(texts), LinesIn(texts))
  PROVE  HeldBy(held, texts \cup {[text |-> <<>>, complete |-> FALSE]}, <<>>)
PROOF
<1> DEFINE more == texts \cup {[text |-> <<>>, complete |-> FALSE]}
<1>1. /\ OthersIn(more) = OthersIn(texts) \cup ForeignEvidence(<<>>, FALSE)
      /\ GuessesIn(more) = GuessesIn(texts) \cup PythonEvidence(<<>>)
      /\ LinesIn(more) = LinesIn(texts) \cup Range(<<>>)
  BY TextsMore
<1> HIDE DEF more
<1>2. OthersIn(more) = OthersIn(texts) /\ GuessesIn(more) = GuessesIn(texts) /\ LinesIn(more) = LinesIn(texts)
  BY <1>1, NoEvidence
<1>3. held.segment.javascript = NewNode /\ held.segment.java = NewJava /\ held.segment.python = 0
  BY DEF NewSegment
<1>4. HeldBy(held, more, <<>>)
  BY <1>2, <1>3, NoEvidence DEF HeldBy
<1> QED  BY <1>4 DEF more

(* One line more.                                                          *)
LEMMA HeldObserve ==
  ASSUME NEW texts, NEW text, WrittenText(text), NEW line \in Lines, NEW provenance, NEW held,
         HeldBy(held, texts \cup {[text |-> text, complete |-> FALSE]}, text),
         ~Reads[line].blank
  PROVE  HeldBy(ObserveTestLine(held, line, provenance),
                texts \cup {[text |-> Append(text, line), complete |-> FALSE]}, Append(text, line))
PROOF
<1> DEFINE longer == Append(text, line)
           before == texts \cup {[text |-> text, complete |-> FALSE]}
           after == texts \cup {[text |-> longer, complete |-> FALSE]}
           D == Range(EarlierIn(text, line))
           P == PythonIn(text, line)
           O == OthersIn(before)
           G == GuessesIn(before)
           M == LinesIn(before)
           node == ObserveNode(held.segment.javascript, line)
           java == ObserveJava(held.segment.java, line)
           python == ObservePython(held.segment.python, line)
           candidate == LineCandidate(line, EarlierIn(text, line), python.found, provenance)
           next == ObserveTestLine(held, line, provenance)
<1>1. /\ held.segment.javascript = NodeNow(text).parser /\ held.segment.java = JavaNow(text).parser
      /\ O = {} => held.segment.python = PythonLeft(text)
      /\ held.segment.python # 0 => HasPlace(M)
      /\ M \subseteq Lines /\ Standing(held.fallback, O, G, M) /\ HeldForm(held)
  BY DEF HeldBy
<1>2. /\ ForeignEvidence(longer, FALSE) = ForeignEvidence(text, FALSE) \cup D
      /\ PythonEvidence(longer) = PythonEvidence(text) \cup P
      /\ Range(longer) = Range(text) \cup {line}
  BY EvidenceGrows
<1>3. /\ O = OthersIn(texts) \cup ForeignEvidence(text, FALSE)
      /\ G = GuessesIn(texts) \cup PythonEvidence(text)
      /\ M = LinesIn(texts) \cup Range(text)
  BY TextsMore
<1>4. /\ OthersIn(after) = OthersIn(texts) \cup ForeignEvidence(longer, FALSE)
      /\ GuessesIn(after) = GuessesIn(texts) \cup PythonEvidence(longer)
      /\ LinesIn(after) = LinesIn(texts) \cup Range(longer)
  BY TextsMore
<1>5. text \in Seq(Lines)
  BY DEF WrittenText
<1>6. NodeNow(longer).parser = node.parser /\ JavaNow(longer).parser = java.parser
  BY <1>1, <1>5, AndIs, NodeGrows, JavaGrows
<1>7. /\ python.parser = IF PythonPlace(line) # 0 THEN PythonPlace(line)
                         ELSE IF EndsPython(line) THEN 0 ELSE held.segment.python
      /\ PythonLeft(longer) = IF PythonPlace(line) # 0 THEN PythonPlace(line)
                              ELSE IF EndsPython(line) THEN 0 ELSE PythonLeft(text)
  BY <1>5, PythonObserves, PythonLeftStep
<1>8. EarlierIn(text, line) = ParsedGo(line) \o node.found \o java.found
  BY <1>1 DEF EarlierIn
<1>9. /\ HeldForm(next)
      /\ next.segment.javascript = node.parser /\ next.segment.java = java.parser
      /\ next.segment.python = IF EarlierIn(text, line) # <<>> THEN held.segment.python
                               ELSE python.parser
      /\ next.fallback = Best(held.fallback, candidate)
  <2> DEFINE earlier == EarlierIn(text, line)
             segment == [javascript |-> node.parser, java |-> java.parser,
                         python |-> IF earlier # <<>> THEN held.segment.python ELSE python.parser,
                         failures |-> TF!ObserveLine(held.segment.failures, FailureReads[line]),
                         segment_provenance |->
                           IF held.segment.segment_provenance = NoProvenance THEN provenance
                           ELSE held.segment.segment_provenance]
             best == Best(held.fallback, candidate)
  <2>1. next = [held EXCEPT !.segment = segment, !.fallback = best]
    BY <1>8 DEF ObserveTestLine, ObserveTestLineWith
  <2>2. /\ segment.javascript = node.parser /\ segment.java = java.parser
        /\ segment.python = IF earlier # <<>> THEN held.segment.python ELSE python.parser
    OBVIOUS
  <2> HIDE DEF segment, best, next
  <2>3. next = [segment |-> segment, extracted_failures |-> held.extracted_failures,
                fallback |-> best]
    BY <1>1, <2>1 DEF HeldForm
  <2>4. HeldForm(next) /\ next.segment = segment /\ next.fallback = best
    BY <2>3 DEF HeldForm
  <2> QED  BY <2>2, <2>4 DEF best
<1> HIDE DEF next, candidate, node, java
<1>10. /\ OthersIn(after) = O \cup D /\ GuessesIn(after) = G \cup P
       /\ LinesIn(after) = M \cup {line}
  BY <1>2, <1>3, <1>4
<1>11. O \cup D = {} => EarlierIn(text, line) = <<>> /\ O = {}
  BY EarlierFirst
<1>12. Standing(next.fallback, O \cup D, G \cup P, M \cup {line})
  <2>1. held.segment.python # 0 => HasPlace(M \cup {line})
    BY <1>1 DEF HasPlace
  <2>2. Range(text) \cup {line} \subseteq M \cup {line}
    BY <1>3
  <2>3. O \cup D = {} => held.segment.python = PythonLeft(text)
    BY <1>1
  <2> HIDE DEF O, G, M
  <2>4. Stands(candidate, O \cup D, G \cup P, M \cup {line}, D, P, {line})
    BY <2>1, <2>2, <2>3, CandidateStands DEF candidate
  <2> QED  BY <1>1, <1>9, <2>4, StandingMore
<1>13. next.segment.python # 0 => HasPlace(M \cup {line})
  <2>1. python.parser # 0 => HasPlace(M \cup {line})
    BY <1>1, <1>7 DEF HasPlace, PythonPlace
  <2>2. held.segment.python # 0 => HasPlace(M \cup {line})
    BY <1>1 DEF HasPlace
  <2> QED  BY <1>9, <2>1, <2>2
<1>14. O \cup D = {} => next.segment.python = PythonLeft(longer)
  BY <1>1, <1>7, <1>9, <1>11
<1>15. M \cup {line} \subseteq Lines
  BY <1>1
<1> HIDE DEF O, G, M, D, P, after, longer
<1>16. HeldBy(next, after, longer)
  BY <1>6, <1>9, <1>10, <1>12, <1>13, <1>14, <1>15 DEF HeldBy
<1> QED  BY <1>16 DEF next, after, longer

(* Blank lines are seen by the parsers, which make nothing of them.        *)
LEMMA HeldBlank ==
  ASSUME NEW texts, NEW text, WrittenText(text), NEW line \in Lines, NEW provenance, NEW held,
         HeldBy(held, texts, text), Reads[line].blank
  PROVE  HeldBy(ObserveTestLine(held, line, provenance), texts, text)
PROOF
<1> DEFINE node == ObserveNode(held.segment.javascript, line)
           java == ObserveJava(held.segment.java, line)
           python == ObservePython(held.segment.python, line)
           next == ObserveTestLine(held, line, provenance)
           read == Reads[line]
<1>1. /\ read.node_place = 0 /\ read.node_exception = 0 /\ read.node_frame = 0
      /\ read.java_exception = 0 /\ read.java_frame = 0 /\ read.python_place = 0
      /\ read.python_exception = 0 /\ read.parsed["go"] = 0
      /\ ~read.node_framework /\ ~read.traceback /\ read.evidence = 3
  BY RecognisersAssumption
<1>2. \A p, f : Result(p, f).parser = p /\ Result(p, f).found = f
  BY DEF Result
<1>3. node.parser = held.segment.javascript /\ node.found = <<>>
  BY <1>1, <1>2 DEF ObserveNode
<1>4. java.parser = held.segment.java /\ java.found = <<>>
  BY <1>1, <1>2 DEF ObserveJava
<1>5. python.parser = held.segment.python /\ python.found = <<>>
  BY <1>1, <1>2 DEF ObservePython
<1>6. ParsedGo(line) \o node.found \o java.found = <<>>
  <2>1. ParsedGo(line) = <<>>
    BY <1>1 DEF ParsedGo
  <2> QED  BY <1>3, <1>4, <2>1
<1>7. LineCandidate(line, <<>>, <<>>, provenance) = <<>>
  BY <1>1 DEF LineCandidate, LineEvidence
<1> DEFINE segment == [javascript |-> node.parser, java |-> java.parser, python |-> python.parser,
                       failures |-> TF!ObserveLine(held.segment.failures, FailureReads[line]),
                       segment_provenance |->
                         IF held.segment.segment_provenance = NoProvenance THEN provenance
                         ELSE held.segment.segment_provenance]
<1>8. next = [held EXCEPT !.segment = segment, !.fallback = Best(held.fallback, <<>>)]
  BY <1>5, <1>6, <1>7 DEF ObserveTestLine, ObserveTestLineWith
<1>9. Best(held.fallback, <<>>) = held.fallback
  BY NoMoreEvidence
<1>10. /\ segment.javascript = held.segment.javascript /\ segment.java = held.segment.java
       /\ segment.python = held.segment.python
  BY <1>3, <1>4, <1>5
<1> HIDE DEF segment, next
<1>11. HeldForm(next) /\ next.segment = segment /\ next.fallback = held.fallback
  BY <1>8, <1>9 DEF HeldBy, HeldForm
<1> QED  BY <1>10, <1>11 DEF HeldBy, next

(* The end of a segment.                                                   *)
LEMMA HeldEnd ==
  ASSUME NEW texts, NEW text, WrittenText(text), NEW held, NEW complete \in BOOLEAN,
         HeldBy(held, texts \cup {[text |-> text, complete |-> FALSE]}, text)
  PROVE  HeldBy(FinishTestLog(held, complete),
                (texts \cup {[text |-> text, complete |-> complete]})
                  \cup {[text |-> <<>>, complete |-> FALSE]}, <<>>)
PROOF
<1> DEFINE before == texts \cup {[text |-> text, complete |-> FALSE]}
           after == texts \cup {[text |-> text, complete |-> complete]}
           O == OthersIn(before)
           G == GuessesIn(before)
           M == LinesIn(before)
           next == FinishTestLog(held, complete)
<1>1. /\ held.segment.javascript = NodeNow(text).parser /\ held.segment.java = JavaNow(text).parser
      /\ M \subseteq Lines /\ Standing(held.fallback, O, G, M) /\ HeldForm(held)
  BY DEF HeldBy
<1>2. /\ O = OthersIn(texts) \cup ForeignEvidence(text, FALSE)
      /\ G = GuessesIn(texts) \cup PythonEvidence(text)
      /\ M = LinesIn(texts) \cup Range(text)
  BY TextsMore
<1>3. /\ OthersIn(after) = OthersIn(texts) \cup ForeignEvidence(text, complete)
      /\ GuessesIn(after) = GuessesIn(texts) \cup PythonEvidence(text)
      /\ LinesIn(after) = LinesIn(texts) \cup Range(text)
  BY TextsMore
<1>4. CASE ~complete
  <2>1. next = [held EXCEPT !.segment = NewSegment]
    BY <1>4 DEF FinishTestLog
  <2> HIDE DEF next
  <2>2. HeldForm(next) /\ next.segment = NewSegment /\ next.fallback = held.fallback
    BY <1>1, <2>1 DEF HeldForm
  <2>3. OthersIn(after) = O /\ GuessesIn(after) = G /\ LinesIn(after) = M
    BY <1>2, <1>3, <1>4
  <2> HIDE DEF O, G, M, after
  <2>4. HeldBy(next, after \cup {[text |-> <<>>, complete |-> FALSE]}, <<>>)
    BY <1>1, <2>2, <2>3, HeldNew
  <2> QED  BY <2>4 DEF next, after
<1>5. CASE complete
  <2> DEFINE node == NodeConfirmed(NodeNow(text).parser)
             java == JavaConfirmed(JavaNow(text).parser)
             last(found) == IF found = <<>> THEN <<>>
                            ELSE Found(found, held.segment.segment_provenance)
  <2>1. ForeignEvidence(text, TRUE) = (ForeignEvidence(text, FALSE) \cup Range(node)) \cup Range(java)
    BY EvidenceEnds
  <2>2. /\ OthersIn(after) = (O \cup Range(node)) \cup Range(java)
        /\ GuessesIn(after) = G /\ LinesIn(after) = M
    BY <1>2, <1>3, <1>5, <2>1
  <2>3. AtMostOne(node) /\ AtMostOne(java)
    <3>1. NodeNow(text).parser \in NodeType /\ JavaNow(text).parser \in JavaType
      BY NowTypes DEF Results, WrittenText
    <3> QED  BY <3>1, JavaFindsOne, NodeFindsOne
  <2> HIDE DEF node, java
  <2>4. ASSUME NEW found, AtMostOne(found), NEW others
        PROVE  Stands(last(found), others \cup Range(found), G \cup {}, M \cup {}, Range(found), {}, {})
    <3> DEFINE one == [priority |-> 0, diagnostic |-> found[1],
                       provenance |-> held.segment.segment_provenance]
    <3>1. CASE found = <<>>
      <4>1. Range(found) = {}
        BY <3>1 DEF Range
      <4> QED  BY <3>1, <4>1 DEF Stands, IsEvidence
    <3>2. ASSUME NEW d, found = <<d>>
          PROVE  Stands(last(found), others \cup Range(found), G \cup {}, M \cup {}, Range(found), {}, {})
      <4>1. found # <<>> /\ found[1] = d /\ Range(found) = {d}
        BY <3>2 DEF Range
      <4>2. last(found) = <<one>>
        BY <4>1 DEF Found, Evidence
      <4>3. one.priority = 0 /\ one.diagnostic = d
        BY <4>1
      <4> DEFINE candidate == last(found)
      <4> HIDE DEF one
      <4>4. candidate = <<one>> /\ candidate # <<>> /\ candidate[1] = one
        BY <4>2
      <4> HIDE DEF candidate
      <4>5. IsEvidence(candidate, others \cup Range(found), G \cup {}, M \cup {})
        BY <4>1, <4>3, <4>4 DEF IsEvidence, Explains
      <4>6. Urgent(candidate) /\ (d.location # 0 => Located(candidate))
        BY <4>3, <4>4 DEF Urgent, Located
      <4>7. Stands(candidate, others \cup Range(found), G \cup {}, M \cup {}, Range(found), {}, {})
        BY <4>1, <4>5, <4>6 DEF Stands
      <4> QED  BY <4>7 DEF candidate
    <3> QED  BY <2>4, <3>1, <3>2 DEF AtMostOne, IsTold
  <2> DEFINE first == Best(held.fallback, last(node))
             best == Best(first, last(java))
             failures == TF!ExtractedInto(held.extracted_failures, TF!Finish(held.segment.failures))
  <2>5. next = [segment |-> NewSegment, extracted_failures |-> failures, fallback |-> best]
    BY <1>1, <1>5 DEF FinishTestLog, node, java
  <2> HIDE DEF next, failures, last
  <2>6. HeldForm(next) /\ next.segment = NewSegment /\ next.fallback = best
    BY <2>5 DEF HeldForm
  <2>7. G \cup {} = G /\ M \cup {} = M
    OBVIOUS
  <2> HIDE DEF O, G, M
  <2>8. Standing(first, O \cup Range(node), G, M)
    <3>1. Stands(last(node), O \cup Range(node), G \cup {}, M \cup {}, Range(node), {}, {})
      BY <2>3, <2>4
    <3>2. Standing(first, O \cup Range(node), G \cup {}, M \cup {})
      BY <1>1, <3>1, StandingMore
    <3> QED  BY <2>7, <3>2
  <2> HIDE DEF first
  <2>9. Standing(best, (O \cup Range(node)) \cup Range(java), G, M)
    <3>1. Stands(last(java), (O \cup Range(node)) \cup Range(java), G \cup {}, M \cup {},
                 Range(java), {}, {})
      BY <2>3, <2>4
    <3>2. Standing(best, (O \cup Range(node)) \cup Range(java), G \cup {}, M \cup {})
      BY <1>1, <2>8, <3>1, StandingMore
    <3> QED  BY <2>7, <3>2
  <2> HIDE DEF best, after
  <2>10. HeldBy(next, after \cup {[text |-> <<>>, complete |-> FALSE]}, <<>>)
    BY <1>1, <2>2, <2>6, <2>9, HeldNew
  <2> QED  BY <2>10 DEF next, after
<1> QED  BY <1>4, <1>5

(* What is held is the best.                                               *)
LEMMA HeldBest ==
  ASSUME NEW texts, \A one \in texts : one.text \in Seq(Lines),
         NEW text, NEW held, HeldBy(held, texts, text)
  PROVE  IsBest(held.fallback,
                UNION {StructuredEvidence(one.text, one.complete) : one \in texts},
                UNION {PythonEvidence(one.text) : one \in texts},
                UNION {Range(one.text) : one \in texts})
PROOF
<1> DEFINE O == OthersIn(texts)
           G == GuessesIn(texts)
           M == LinesIn(texts)
           S == UNION {StructuredEvidence(one.text, one.complete) : one \in texts}
           kept == held.fallback
           told == {line \in M : Reads[line].evidence # 3}
           located == {found \in S : found.location # 0}
<1>1. Standing(kept, O, G, M) /\ M \subseteq Lines
  BY DEF HeldBy
<1>2. O \subseteq S /\ \A found \in S : found \in O \/ found \in G
  BY DEF OthersIn, GuessesIn, StructuredEvidence
<1>3. ASSUME NEW found \in G, found.location # 0 PROVE HasPlace(M)
  <2>1. PICK one \in texts : found \in PythonEvidence(one.text)
    BY DEF GuessesIn
  <2>2. HasPlace(Range(one.text))
    BY <1>3, <2>1, PythonPlaceNamed
  <2> QED  BY <2>2 DEF HasPlace, LinesIn
<1>4. (\A line \in M : ~Foreign(line)) => O = {} /\ S = G
  <2> SUFFICES ASSUME \A line \in M : ~Foreign(line) PROVE O = {} /\ S = G
    OBVIOUS
  <2>1. \A one \in texts : \A line \in Range(one.text) : ~Foreign(line)
    BY DEF LinesIn
  <2>2. \A one \in texts : ForeignEvidence(one.text, one.complete) = {}
    BY <2>1, NothingForeign
  <2>3. \A one \in texts : StructuredEvidence(one.text, one.complete) = PythonEvidence(one.text)
    BY <2>1, <2>2 DEF StructuredEvidence
  <2> QED  BY <2>2, <2>3 DEF OthersIn, GuessesIn
<1> HIDE DEF O, G, M, S
<1>5. kept # <<>> => Explains(kept[1], O, G, M) /\ kept[1].priority \in Nat
  BY <1>1 DEF Standing, IsEvidence
<1>6. S # {} => Urgent(kept)
  BY <1>1, <1>2 DEF Standing
<1>7. ASSUME located # {}, ~Mixed(M) PROVE kept # <<>> /\ kept[1].diagnostic \in located
  <2>1. ~Shares(M) /\ (HasPlace(M) => \A line \in M : ~Foreign(line))
    BY <1>7 DEF Mixed, Shares, HasPlace
  <2>2. PICK found \in S : found.location # 0
    BY <1>7
  <2>3. CASE HasPlace(M)
    <3>1. O = {} /\ S = G
      BY <1>4, <2>1, <2>3
    <3>2. Located(kept)
      BY <1>1, <2>2, <3>1 DEF Standing
    <3>3. kept[1].diagnostic \in G
      BY <1>5, <3>1, <3>2 DEF Explains, Located
    <3> QED  BY <3>1, <3>2, <3>3 DEF Located
  <2>4. CASE ~HasPlace(M)
    <3>1. found \in O
      BY <1>2, <1>3, <2>2, <2>4
    <3>2. Located(kept)
      BY <1>1, <2>1, <2>2, <3>1 DEF Standing
    <3>3. kept[1].diagnostic \in O
      BY <1>5, <2>4, <3>2 DEF Explains, Located
    <3> QED  BY <1>2, <3>2, <3>3 DEF Located
  <2> QED  BY <2>3, <2>4
<1>8. ASSUME S = {}, kept # <<>>
      PROVE  \/ kept[1].diagnostic \in G
             \/ /\ kept[1].diagnostic.line \in told
                /\ \A line \in told :
                     Reads[kept[1].diagnostic.line].evidence <= Reads[line].evidence
  <2>1. O = {}
    BY <1>2, <1>8
  <2>2. CASE kept[1].diagnostic \in G
    BY <2>2
  <2>3. CASE kept[1].diagnostic \notin G
    <3>1. /\ kept[1].diagnostic.line \in told
          /\ kept[1].priority = Reads[kept[1].diagnostic.line].evidence
      BY <1>5, <1>8, <2>1, <2>3 DEF Explains
    <3>2. \A line \in told : kept[1].priority <= Reads[line].evidence
      BY <1>1 DEF Standing
    <3> QED  BY <3>1, <3>2
  <2> QED  BY <2>2, <2>3
<1>9. S # {} \/ told # {} => kept # <<>>
  BY <1>1, <1>6 DEF Standing, Urgent
<1>10. IsBest(kept, S, G, M)
  BY <1>6, <1>7, <1>8, <1>9 DEF IsBest, Urgent
<1> QED  BY <1>10 DEF S, G, M, GuessesIn, LinesIn

----------------------------------------------------------------------------
(* The logs of all scopes *)

LogHeld(held, ended, shown) ==
  /\ \A one \in EndedTexts(ended) : WrittenText(one.text)
  /\ HeldBy(held, TextsOf(ended, shown), TextShown(shown))
LogsHeld ==
  /\ DOMAIN test_logs = Scopes
  /\ \A scope \in Scopes : LogHeld(test_logs[scope], segments[scope], log[scope])

LEMMA TextShownIs ==
  /\ TextShown(<<>>) = <<>>
  /\ \A shown \in Seq(Pushes) :
       /\ WrittenText(TextShown(shown))
       /\ \A pushed \in Pushes :
            TextShown(Append(shown, pushed)) = IF Reads[pushed.line].blank THEN TextShown(shown)
                                               ELSE Append(TextShown(shown), pushed.line)
PROOF
<1>1. TextShown(<<>>) = <<>>
  <2>1. LinesOf(<<>>) = <<>>
    BY DEF LinesOf
  <2> QED  BY <2>1, OnlyEmpty DEF TextShown, WithoutBlanks
<1>2. ASSUME NEW shown \in Seq(Pushes), NEW pushed \in Pushes
      PROVE  TextShown(Append(shown, pushed)) = IF Reads[pushed.line].blank THEN TextShown(shown)
                                                ELSE Append(TextShown(shown), pushed.line)
  <2>1. LinesOf(shown) \in Seq(Lines) /\ LinesOf(Append(shown, pushed)) = Append(LinesOf(shown), pushed.line)
    BY LinesGrow
  <2>2. pushed.line \in Lines
    BY DEF Pushes
  <2> QED  BY <2>1, <2>2, WrittenTextGrows DEF TextShown
<1>3. ASSUME NEW shown \in Seq(Pushes) PROVE WrittenText(TextShown(shown))
  <2>1. LinesOf(shown) \in Seq(Lines)
    <3>1. ASSUME NEW i \in 1..Len(shown) PROVE shown[i].line \in Lines
      <4>1. shown[i] \in Pushes
        OBVIOUS
      <4> QED  BY <4>1 DEF Pushes
    <3>2. DOMAIN shown = 1..Len(shown) /\ Len(shown) \in Nat
      OBVIOUS
    <3> QED  BY <3>1, <3>2 DEF LinesOf
  <2>2. WithoutBlanks(LinesOf(shown)) \in Seq(Lines \cap WrittenLines)
    BY <2>1, OnlyType DEF WithoutBlanks
  <2> QED  BY <2>2 DEF TextShown, WrittenText, WrittenLines
<1> QED  BY <1>1, <1>2, <1>3

LEMMA NewLogHeld == LogHeld(NewTestLog, <<>>, <<>>)
PROOF
<1> DEFINE none == {}
<1>1. EndedTexts(<<>>) = none
  BY DEF EndedTexts, Range
<1>2. Segment(<<>>, FALSE) = [text |-> <<>>, complete |-> FALSE]
  BY TextShownIs DEF Segment, TextShown
<1>3. HeldForm(NewTestLog) /\ NewTestLog.segment = NewSegment /\ NewTestLog.fallback = <<>>
  BY DEF HeldForm, NewTestLog
<1>4. OthersIn(none) = {} /\ GuessesIn(none) = {} /\ LinesIn(none) = {}
  BY DEF OthersIn, GuessesIn, LinesIn
<1>5. LinesIn(none) \subseteq Lines
  BY <1>4
<1> HIDE DEF none
<1>6. HeldBy(NewTestLog, none \cup {[text |-> <<>>, complete |-> FALSE]}, <<>>)
  BY <1>3, <1>4, <1>5, StandingFirst, HeldNew
<1> QED  BY <1>1, <1>2, <1>6, TextShownIs DEF LogHeld, TextsOf, none

LEMMA LogObserves ==
  ASSUME NEW held, NEW ended, NEW shown \in Seq(Pushes), LogHeld(held, ended, shown),
         NEW pushed \in Pushes, NEW provenance
  PROVE  LogHeld(ObserveTestLine(held, pushed.line, provenance), ended, Append(shown, pushed))
PROOF
<1> DEFINE line == pushed.line
           longer == Append(shown, pushed)
           text == TextShown(shown)
           texts == EndedTexts(ended)
           next == ObserveTestLine(held, line, provenance)
<1>1. line \in Lines /\ WrittenText(text)
  BY TextShownIs DEF Pushes
<1>2. /\ TextShown(longer) = IF Reads[line].blank THEN text ELSE Append(text, line)
      /\ TextsOf(ended, longer) = texts \cup {[text |-> TextShown(longer), complete |-> FALSE]}
      /\ TextsOf(ended, shown) = texts \cup {[text |-> text, complete |-> FALSE]}
  BY TextShownIs DEF TextsOf, Segment, TextShown
<1>3. HeldBy(held, texts \cup {[text |-> text, complete |-> FALSE]}, text)
  BY <1>2 DEF LogHeld
<1> HIDE DEF longer, text, texts, line, next
<1>4. CASE Reads[line].blank
  <2>1. HeldBy(next, texts \cup {[text |-> text, complete |-> FALSE]}, text)
    BY <1>1, <1>3, <1>4, HeldBlank DEF next
  <2> QED  BY <1>2, <1>4, <2>1 DEF LogHeld, next, longer, line
<1>5. CASE ~Reads[line].blank
  <2>1. HeldBy(next, texts \cup {[text |-> Append(text, line), complete |-> FALSE]}, Append(text, line))
    BY <1>1, <1>3, <1>5, HeldObserve DEF next
  <2> QED  BY <1>2, <1>5, <2>1 DEF LogHeld, next, longer, line
<1> QED  BY <1>4, <1>5

LEMMA LogEnds ==
  ASSUME NEW held, NEW T, NEW ended \in Seq(T), NEW shown \in Seq(Pushes), LogHeld(held, ended, shown),
         NEW segment, segment.log = shown, segment.complete \in BOOLEAN
  PROVE  LogHeld(FinishTestLog(held, segment.complete), Append(ended, segment), <<>>)
PROOF
<1> DEFINE text == TextShown(shown)
           texts == EndedTexts(ended)
           more == Append(ended, segment)
           one == [text |-> text, complete |-> segment.complete]
           next == FinishTestLog(held, segment.complete)
<1>1. WrittenText(text) /\ \A some \in texts : WrittenText(some.text)
  BY TextShownIs DEF LogHeld
<1>2. EndedTexts(more) = texts \cup {one}
  <2>1. Range(more) = Range(ended) \cup {segment}
    BY RangeAppend
  <2>2. Segment(segment.log, segment.complete) = one
    BY DEF Segment, TextShown
  <2> HIDE DEF one, more
  <2> QED  BY <2>1, <2>2 DEF EndedTexts
<1>3. TextsOf(ended, shown) = texts \cup {[text |-> text, complete |-> FALSE]}
  BY DEF TextsOf, Segment, TextShown
<1>4. TextsOf(more, <<>>) = (texts \cup {one}) \cup {[text |-> <<>>, complete |-> FALSE]}
  BY <1>2, TextShownIs DEF TextsOf, Segment, TextShown
<1>5. HeldBy(held, texts \cup {[text |-> text, complete |-> FALSE]}, text)
  BY <1>3 DEF LogHeld
<1>6. one.text = text
  OBVIOUS
<1>7. \A some \in EndedTexts(more) : WrittenText(some.text)
  <2> HIDE DEF one, text, texts, more
  <2> QED  BY <1>1, <1>2, <1>6
<1> HIDE DEF text, texts, more
<1>8. HeldBy(next, (texts \cup {one}) \cup {[text |-> <<>>, complete |-> FALSE]}, <<>>)
  BY <1>1, <1>5, HeldEnd
<1> HIDE DEF one, next
<1>9. LogHeld(next, more, <<>>)
  BY <1>4, <1>7, <1>8, TextShownIs DEF LogHeld
<1> QED  BY <1>9 DEF next, more

LEMMA LogsHeldInit == Init => LogsHeld
PROOF
<1> SUFFICES ASSUME Init PROVE LogsHeld
  OBVIOUS
<1>1. DOMAIN test_logs = Scopes
      /\ \A scope \in Scopes : /\ test_logs[scope] = NewTestLog /\ segments[scope] = <<>>
                               /\ log[scope] = <<>>
  BY DEF Init
<1> QED  BY <1>1, NewLogHeld DEF LogsHeld

LEMMA LogsHeldStep == IInv /\ Holding /\ SegmentsKept /\ LogsHeld /\ [Next]_vars => LogsHeld'
PROOF
<1> SUFFICES ASSUME IInv, Holding, SegmentsKept, LogsHeld, [Next]_vars PROVE LogsHeld'
  OBVIOUS
<1>0. /\ DOMAIN test_logs = Scopes /\ DOMAIN log = Scopes /\ DOMAIN segments = Scopes
      /\ \A scope \in Scopes : log[scope] \in Seq(Pushes)
      /\ \A scope \in Scopes : LogHeld(test_logs[scope], segments[scope], log[scope])
  BY DEF LogsHeld, SegmentsKept, IInv, TypeOK
<1>1. ASSUME UNCHANGED <<test_logs, segments, log>> PROVE LogsHeld'
  BY <1>0, <1>1 DEF LogsHeld
<1>2. CASE UNCHANGED vars
  BY <1>1, <1>2 DEF vars
<1>3. CASE Finish
  <2>1. /\ DOMAIN test_logs' = Scopes
        /\ \A scope \in Scopes : test_logs'[scope] = NewTestLog /\ segments'[scope] = <<>>
        /\ log' = log /\ open = {}
    BY <1>3 DEF Finish
  <2>2. \A scope \in Scopes : log'[scope] = <<>>
    BY <2>1 DEF Holding
  <2> QED  BY <2>1, <2>2, NewLogHeld DEF LogsHeld
<1>4. ASSUME NEW scope \in Scopes, BeginScope(scope) PROVE LogsHeld'
  BY <1>1, <1>4 DEF BeginScope
<1>5. ASSUME NEW scope \in Scopes, NEW stream \in setup.streams, NEW raw \in setup.raws,
             Observe(scope, stream, raw)
      PROVE  LogsHeld'
  <2> DEFINE line == Framed[raw]
             pushed == [stream |-> stream, line |-> line, raw |-> raw]
             provenance == [stream |-> stream, number |-> Number(scope, stream)]
             next == ObserveTestLine(test_logs[scope], line, provenance)
  <2>1. pushed \in Pushes /\ pushed.line = line
    BY OptionsFacts, RawFacts DEF IInv, TypeOK, Pushes
  <2>2. /\ test_logs' = [test_logs EXCEPT ![scope] = next]
        /\ log' = [log EXCEPT ![scope] = Append(@, pushed)]
        /\ segments' = segments
    BY <1>5 DEF Observe
  <2> HIDE DEF pushed, provenance
  <2>3. LogHeld(next, segments[scope], Append(log[scope], pushed))
    BY <1>0, <2>1, LogObserves
  <2> HIDE DEF next
  <2>4. /\ DOMAIN test_logs' = Scopes /\ test_logs'[scope] = next
        /\ log'[scope] = Append(log[scope], pushed)
        /\ \A other \in Scopes \ {scope} :
             test_logs'[other] = test_logs[other] /\ log'[other] = log[other]
    BY <1>0, <2>2
  <2> QED  BY <1>0, <2>2, <2>3, <2>4 DEF LogsHeld
<1>6. ASSUME NEW scope \in Scopes, NEW reason \in setup.reasons, EndScope(scope, reason)
      PROVE  LogsHeld'
  <2> DEFINE complete == reason = "Complete"
             segment == [log |-> log[scope], complete |-> complete, found |-> Flushed(scope)]
             next == FinishTestLog(test_logs[scope], complete)
  <2>1. /\ test_logs' = [test_logs EXCEPT ![scope] = next]
        /\ log' = [log EXCEPT ![scope] = <<>>]
        /\ segments' = [segments EXCEPT ![scope] = Append(@, segment)]
    BY <1>6 DEF EndScope
  <2>2. segment.log = log[scope] /\ segment.complete = complete /\ complete \in BOOLEAN
    OBVIOUS
  <2> HIDE DEF segment, complete
  <2>3. PICK T : segments[scope] \in Seq(T)
    BY DEF SegmentsKept
  <2>4. LogHeld(next, Append(segments[scope], segment), <<>>)
    <3>1. LogHeld(FinishTestLog(test_logs[scope], segment.complete),
                  Append(segments[scope], segment), <<>>)
      BY <1>0, <2>2, <2>3, LogEnds
    <3> QED  BY <2>2, <3>1
  <2> HIDE DEF next
  <2>5. /\ DOMAIN test_logs' = Scopes /\ test_logs'[scope] = next
        /\ log'[scope] = <<>> /\ segments'[scope] = Append(segments[scope], segment)
        /\ \A other \in Scopes \ {scope} :
             /\ test_logs'[other] = test_logs[other] /\ log'[other] = log[other]
             /\ segments'[other] = segments[other]
    BY <1>0, <2>1
  <2> QED  BY <1>0, <2>4, <2>5 DEF LogsHeld
<1> QED  BY <1>2, <1>3, <1>4, <1>5, <1>6 DEF Next

(* Whatever the segments of a test log are and however they end: the one   *)
(* piece of evidence that stands for it is the best in all of it, an       *)
(* exception with its own place before any exception, an exception before  *)
(* a line that tells less, a more telling line before a less telling one   *)
(* (observe_line and finish_log keep one candidate at a time).             *)
THEOREM EvidenceAlwaysBest == Spec => []EvidenceIsBest
PROOF
<1>1. IInv /\ LogsHeld => EvidenceIsBest
  <2> SUFFICES ASSUME IInv, LogsHeld, NEW scope \in Scopes
               PROVE  IsBest(test_logs[scope].fallback,
                        UNION {StructuredEvidence(one.text, one.complete) : one \in Segments(scope)},
                        UNION {PythonEvidence(one.text) : one \in Segments(scope)},
                        UNION {Range(one.text) : one \in Segments(scope)})
    BY DEF EvidenceIsBest
  <2>1. Segments(scope) = TextsOf(segments[scope], log[scope])
    BY DEF Segments, TextsOf, EndedTexts
  <2>2. \A one \in Segments(scope) : one.text \in Seq(Lines)
    <3>1. WrittenText(TextShown(log[scope]))
      BY TextShownIs DEF IInv, TypeOK
    <3>2. Segment(log[scope], FALSE).text = TextShown(log[scope])
      BY DEF Segment, TextShown
    <3>3. \A one \in EndedTexts(segments[scope]) : WrittenText(one.text)
      BY DEF LogsHeld, LogHeld
    <3> QED  BY <2>1, <3>1, <3>2, <3>3 DEF TextsOf, WrittenText
  <2>3. HeldBy(test_logs[scope], Segments(scope), TextShown(log[scope]))
    BY <2>1 DEF LogsHeld, LogHeld
  <2> QED  BY <2>2, <2>3, HeldBest
<1>2. Init => IInv /\ Holding /\ SegmentsKept /\ SegmentsReduced /\ LogsHeld
  BY BatchInit, LogsHeldInit
<1>3. IInv /\ Holding /\ SegmentsKept /\ SegmentsReduced /\ LogsHeld /\ [Next]_vars
        => (IInv /\ Holding /\ SegmentsKept /\ SegmentsReduced /\ LogsHeld)'
  BY BatchStep, LogsHeldStep
<1> QED  BY <1>1, <1>2, <1>3, PTL DEF Spec
=============================================================================
