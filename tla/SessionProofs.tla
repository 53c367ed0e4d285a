--------------------------- MODULE SessionProofs ---------------------------
(***************************************************************************)
(* What the session keeps and shows, for every value of the constants: its *)
(* types and limits, its accounts of candidates and of bytes, that parsers *)
(* are shown the split of the bytes retained and told of every loss, and   *)
(* that it implements LineFeed.                                            *)
(***************************************************************************)
EXTENDS SessionProperties, FoldLemmas

----------------------------------------------------------------------------
(* Lines: what trimming returns, and how the open line of a feed and what  *)
(* is kept of it grow byte by byte.                                        *)

(* SelectLastInSeq for the two tests used here: 0, or the last match. *)
LEMMA LastText ==
  ASSUME NEW B, NEW bytes \in Seq(B)
  PROVE  LET last == SelectLastInSeq(bytes, IsText)
         IN  /\ last \in 0..Len(bytes)
             /\ last # 0 => IsText(bytes[last])
             /\ \A i \in 1..Len(bytes) : IsText(bytes[i]) => i <= last
PROOF
<1> DEFINE I == {i \in 1..Len(bytes) : IsText(bytes[i])}
<1>1. CASE I = {}
  BY <1>1 DEF SelectLastInSeq
<1>2. CASE I # {}
  <2>1. \E x \in I : \A y \in I : x >= y
    <3>1. Len(bytes) \in Nat /\ I \in SUBSET (1..Len(bytes))
      OBVIOUS
    <3> QED  BY <1>2, <3>1, LastPosition
  <2>2. Max(I) \in I /\ \A i \in I : Max(I) >= i
    BY <2>1 DEF Max
  <2> QED  BY <2>2, <1>2 DEF SelectLastInSeq
<1> QED  BY <1>1, <1>2

LEMMA LastBreak ==
  ASSUME NEW B, NEW bytes \in Seq(B)
  PROVE  LET last == SelectLastInSeq(bytes, IsBreak)
         IN  /\ last \in 0..Len(bytes)
             /\ last # 0 => IsBreak(bytes[last])
             /\ \A i \in 1..Len(bytes) : IsBreak(bytes[i]) => i <= last
PROOF
<1> DEFINE I == {i \in 1..Len(bytes) : IsBreak(bytes[i])}
<1>1. CASE I = {}
  BY <1>1 DEF SelectLastInSeq
<1>2. CASE I # {}
  <2>1. \E x \in I : \A y \in I : x >= y
    <3>1. Len(bytes) \in Nat /\ I \in SUBSET (1..Len(bytes))
      OBVIOUS
    <3> QED  BY <1>2, <3>1, LastPosition
  <2>2. Max(I) \in I /\ \A i \in I : Max(I) >= i
    BY <2>1 DEF Max
  <2> QED  BY <2>2, <1>2 DEF SelectLastInSeq
<1> QED  BY <1>1, <1>2

(* Trimming keeps a prefix. *)
LEMMA TrimEndType ==
  ASSUME NEW B, NEW bytes \in Seq(B)
  PROVE  TrimEnd(bytes) \in Seq(B)
PROOF
<1>1. SelectLastInSeq(bytes, IsText) \in 0..Len(bytes)
  BY LastText
<1>2. \A i \in 1..SelectLastInSeq(bytes, IsText) : bytes[i] \in B
  BY <1>1
<1> QED  BY <1>1, <1>2, SubSeqProperties DEF TrimEnd

----------------------------------------------------------------------------
(* The open line of a feed *)

LEMMA OpenLineType ==
  ASSUME NEW B, NEW bytes \in Seq(B)
  PROVE  OpenLine(bytes) \in Seq(B)
PROOF
<1>1. SelectLastInSeq(bytes, IsBreak) \in 0..Len(bytes)
  BY LastBreak
<1>2. \A i \in SelectLastInSeq(bytes, IsBreak) + 1 .. Len(bytes) : bytes[i] \in B
  BY <1>1
<1> QED  BY <1>1, <1>2, SubSeqProperties DEF OpenLine

(* A break ends the open line; any other byte extends it. *)
LEMMA OpenLineAppend ==
  ASSUME NEW B, NEW bytes \in Seq(B), NEW b \in B
  PROVE  OpenLine(Append(bytes, b)) =
           IF IsBreak(b) THEN <<>> ELSE Append(OpenLine(bytes), b)
PROOF
<1> DEFINE f == Append(bytes, b)
           n == Len(bytes)
           old == SelectLastInSeq(bytes, IsBreak)
           new == SelectLastInSeq(f, IsBreak)
<1>1. /\ f \in Seq(B)
      /\ n \in Nat /\ Len(f) = n + 1
      /\ \A i \in 1..n : f[i] = bytes[i]
      /\ f[n + 1] = b
  OBVIOUS
<1>2. /\ old \in 0..n
      /\ old # 0 => IsBreak(bytes[old])
      /\ \A i \in 1..n : IsBreak(bytes[i]) => i <= old
  BY LastBreak
<1>3. /\ new \in 0..n + 1
      /\ new # 0 => IsBreak(f[new])
      /\ \A i \in 1..n + 1 : IsBreak(f[i]) => i <= new
  BY <1>1, LastBreak
<1> HIDE DEF f, n, old, new
<1>4. CASE IsBreak(b)
  <2>1. new = n + 1
    BY <1>1, <1>3, <1>4
  <2>2. OpenLine(f) = SubSeq(f, n + 2, n + 1)
    BY <1>1, <2>1 DEF OpenLine, new
  <2> QED  BY <1>1, <1>4, <2>2, SubSeqEmpty DEF f
<1>5. CASE ~IsBreak(b)
  <2>1. new = old
    <3>1. new <= n
      BY <1>1, <1>3, <1>5
    <3>2. old # 0 => old <= new
      BY <1>1, <1>2, <1>3
    <3>3. new # 0 => new <= old
      BY <1>1, <1>2, <1>3, <3>1
    <3> QED  BY <1>2, <1>3, <3>2, <3>3
  <2>2. OpenLine(f) = SubSeq(f, old + 1, n + 1)
    BY <1>1, <2>1 DEF OpenLine, new
  <2>3. OpenLine(bytes) = SubSeq(bytes, old + 1, n)
    BY DEF OpenLine, old, n
  <2>4. /\ SubSeq(f, old + 1, n + 1) \in Seq(B)
        /\ Len(SubSeq(f, old + 1, n + 1)) = n + 1 - old
        /\ \A i \in 1..n + 1 - old : SubSeq(f, old + 1, n + 1)[i] = f[old + i]
    BY <1>1, <1>2, SubSeqProperties
  <2>5. /\ SubSeq(bytes, old + 1, n) \in Seq(B)
        /\ Len(SubSeq(bytes, old + 1, n)) = n - old
        /\ \A i \in 1..n - old : SubSeq(bytes, old + 1, n)[i] = bytes[old + i]
    BY <1>1, <1>2, SubSeqProperties DEF n
  <2>6. SubSeq(f, old + 1, n + 1) = Append(SubSeq(bytes, old + 1, n), b)
    BY <1>1, <1>2, <2>4, <2>5, SeqEqual
  <2> QED  BY <1>5, <2>2, <2>3, <2>6 DEF f
<1> QED  BY <1>4, <1>5

(* What the line limit keeps of a line that grew by one byte. *)
LEMMA KeptAppend ==
  ASSUME NEW B, NEW line \in Seq(B), NEW b \in B, MaxLineBytes \in Nat
  PROVE  /\ Kept(Append(line, b)) =
              IF Len(line) < MaxLineBytes THEN Append(line, b) ELSE Kept(line)
         /\ Len(line) < MaxLineBytes => Kept(line) = line
         /\ IsCut(Append(line, b)) = ~(Len(line) < MaxLineBytes)
         /\ Len(Kept(line)) < MaxLineBytes <=> Len(line) < MaxLineBytes
         /\ Len(Kept(line)) <= MaxLineBytes
PROOF
<1>1. Append(line, b) \in Seq(B) /\ Len(Append(line, b)) = Len(line) + 1
  OBVIOUS
<1>2. CASE Len(line) < MaxLineBytes
  BY <1>1, <1>2, SubSeqFull DEF Kept, IsCut
<1>3. CASE ~(Len(line) < MaxLineBytes)
  <2>1. Kept(line) = SubSeq(line, 1, MaxLineBytes)
    BY <1>3, SubSeqFull DEF Kept
  <2>2. Kept(Append(line, b)) = SubSeq(Append(line, b), 1, MaxLineBytes)
    BY <1>1, <1>3 DEF Kept
  <2>3. /\ SubSeq(line, 1, MaxLineBytes) \in Seq(B)
        /\ Len(SubSeq(line, 1, MaxLineBytes)) = MaxLineBytes
        /\ \A i \in 1..MaxLineBytes : SubSeq(line, 1, MaxLineBytes)[i] = line[i]
    BY <1>3, SubSeqProperties
  <2>4. /\ SubSeq(Append(line, b), 1, MaxLineBytes) \in Seq(B)
        /\ Len(SubSeq(Append(line, b), 1, MaxLineBytes)) = MaxLineBytes
        /\ \A i \in 1..MaxLineBytes :
             SubSeq(Append(line, b), 1, MaxLineBytes)[i] = line[i]
    BY <1>1, <1>3, SubSeqProperties
  <2>5. SubSeq(line, 1, MaxLineBytes) = SubSeq(Append(line, b), 1, MaxLineBytes)
    BY <2>3, <2>4, SeqEqual
  <2> QED  BY <1>1, <1>3, <2>1, <2>2, <2>3, <2>5 DEF IsCut
<1> QED  BY <1>2, <1>3

LEMMA KeptBound ==
  ASSUME NEW B, NEW line \in Seq(B), MaxLineBytes \in Nat
  PROVE  Len(Kept(line)) <= MaxLineBytes
PROOF
<1> DEFINE n == IF Len(line) <= MaxLineBytes THEN Len(line) ELSE MaxLineBytes
<1>1. n \in Nat /\ n <= Len(line) /\ n <= MaxLineBytes
  OBVIOUS
<1>2. Len(Kept(line)) = n
  BY <1>1, SubSeqProperties DEF Kept
<1> QED  BY <1>1, <1>2

(* Only the empty line leaves an empty, uncut buffer. *)
LEMMA KeptEmpty ==
  ASSUME NEW B, NEW line \in Seq(B), MaxLineBytes \in Nat,
         Kept(line) = <<>>, ~IsCut(line)
  PROVE  line = <<>>
PROOF
<1>1. Len(line) <= MaxLineBytes
  BY DEF IsCut
<1>2. Kept(line) = SubSeq(line, 1, Len(line))
  BY <1>1 DEF Kept
<1> QED  BY <1>2, SubSeqFull

LEMMA EmptyLine ==
  ASSUME MaxLineBytes \in Nat
  PROVE  Kept(<<>>) = <<>> /\ IsCut(<<>>) = FALSE /\ OpenLine(<<>>) = <<>> /\ TrimEnd(<<>>) = <<>>
PROOF
<1>1. <<>> \in Seq({}) /\ Len(<<>>) = 0
  OBVIOUS
<1>2. SelectLastInSeq(<<>>, IsBreak) = 0 /\ SelectLastInSeq(<<>>, IsText) = 0
  <2>1. {i \in 1..Len(<<>>) : IsBreak(<<>>[i])} = {}
    BY <1>1
  <2>2. {i \in 1..Len(<<>>) : IsText(<<>>[i])} = {}
    BY <1>1
  <2> QED  BY <2>1, <2>2 DEF SelectLastInSeq
<1> QED  BY <1>1, <1>2, SubSeqEmpty DEF Kept, IsCut, OpenLine, TrimEnd

----------------------------------------------------------------------------
(* Types *)

(* The initial values and the events have their types. *)
LEMMA PartsTyped ==
  /\ NoCall \in Calls
  /\ FreshScope \in ScopeStates
  /\ EmptyBuffer \in LineBuffers
  /\ ZeroStats \in Stats
PROOF
<1>1. NoCall \in Calls
  BY DEF NoCall, Calls, EndReasons
<1>2. FreshScope \in ScopeStates
  BY DEF FreshScope, ScopeStates
<1>3. EmptyBuffer \in LineBuffers
  BY DEF EmptyBuffer, LineBuffers
<1>4. ZeroStats \in Stats
  BY DEF ZeroStats, Stats
<1> QED  BY <1>1, <1>2, <1>3, <1>4

LEMMA EventsTyped ==
  /\ \A s \in ScopeIds : BeginEvent(s) \in Events
  /\ \A s \in ScopeIds, reason \in EndReasons, t \in BOOLEAN :
       EndEvent(s, reason, t) \in Events
  /\ \A s \in ScopeIds, k \in Streams, m \in Nat, n \in Nat \ {0},
        text \in Seq(Bytes), t \in BOOLEAN :
       LineEvent(s, k, m, n, text, t) \in Events
PROOF
BY DEF BeginEvent, EndEvent, LineEvent, Events

LEMMA TypeInit == Init => TypeOK
PROOF
<1> SUFFICES ASSUME Init
             PROVE  TypeOK
  OBVIOUS
<1>1. /\ pc \in Points
      /\ open \subseteq ScopeIds
      /\ next_ordinal \in Nat
      /\ dropped \in Nat
      /\ truncated \in BOOLEAN
      /\ emissions \in Nat
  BY DEF Init, Points
<1>2. parser \in 0..(NumParsers + 1)
  BY SessionAssumption DEF Init
<1>3. call \in Calls /\ stats \in Stats
  BY PartsTyped DEF Init
<1>4. scope \in [ScopeIds -> ScopeStates]
  BY PartsTyped DEF Init
<1>5. buffer \in [ScopeIds -> [Streams -> LineBuffers]]
  BY PartsTyped DEF Init
<1>6. /\ feed \in [ScopeIds -> [Streams -> Seq(Bytes \cup {"eof"})]]
      /\ offered \in [ScopeIds -> Nat]
      /\ log \in Seq(Events)
      /\ candidates \in Seq(Candidates)
  BY DEF Init
<1> QED  BY <1>1, <1>2, <1>3, <1>4, <1>5, <1>6 DEF TypeOK

(* dispatch_bytes keeps the types of what it writes. *)
LEMMA DispatchTyped ==
  ASSUME TypeOK,
         NEW s \in ScopeIds, NEW k \in Streams, NEW buf \in LineBuffers,
         NEW resume \in Points, DispatchBytes(s, k, buf, resume)
  PROVE  /\ pc' \in Points
         /\ parser' \in 0..(NumParsers + 1)
         /\ scope' \in [ScopeIds -> ScopeStates]
         /\ stats' \in Stats
         /\ next_ordinal' \in Nat
         /\ log' \in Seq(Events)
PROOF
<1>1. /\ parser \in 0..(NumParsers + 1)
      /\ scope \in [ScopeIds -> ScopeStates]
      /\ stats \in Stats
      /\ next_ordinal \in Nat
      /\ log \in Seq(Events)
  BY DEF TypeOK
<1>2. buf.bytes \in Seq(Bytes) /\ buf.truncated \in BOOLEAN
  BY DEF LineBuffers
<1>3. CASE TrimEnd(buf.bytes) = <<>>
  BY <1>1, <1>3 DEF DispatchBytes
<1>4. CASE TrimEnd(buf.bytes) # <<>>
  <2> DEFINE number == scope[s].stream_lines[k] + 1
  <2>1. number \in Nat \ {0}
    BY <1>1 DEF ScopeStates
  <2>2. /\ pc' = "observe"
        /\ parser' = 1
        /\ scope' = [scope EXCEPT ![s].stream_lines[k] = number,
                                  ![s].truncated = @ \/ buf.truncated]
        /\ stats' = [stats EXCEPT
                       !.lines_seen = @ + 1,
                       !.truncated_lines = @ + (IF buf.truncated THEN 1 ELSE 0)]
        /\ next_ordinal' = next_ordinal + 1
        /\ log' = Append(log, LineEvent(s, k, next_ordinal, number,
                                        TrimEnd(buf.bytes), buf.truncated))
    BY <1>4 DEF DispatchBytes
  <2>3. scope' \in [ScopeIds -> ScopeStates]
    BY <1>1, <1>2, <2>1, <2>2 DEF ScopeStates
  <2>4. stats' \in Stats
    <3>1. /\ stats.lines_seen + 1 \in Nat
          /\ stats.truncated_lines + (IF buf.truncated THEN 1 ELSE 0) \in Nat
      BY <1>1, <1>2 DEF Stats
    <3> QED  BY <1>1, <2>2, <3>1 DEF Stats
  <2>5. LineEvent(s, k, next_ordinal, number, TrimEnd(buf.bytes), buf.truncated) \in Events
    BY <1>1, <1>2, <2>1, TrimEndType, EventsTyped
  <2>6. log' \in Seq(Events)
    BY <1>1, <2>2, <2>5
  <2> QED  BY <1>1, <2>2, <2>3, <2>4, <2>6, SessionAssumption DEF Points
<1> QED  BY <1>3, <1>4

LEMMA FramedTyped ==
  ASSUME NEW buf \in LineBuffers, NEW b \in Bytes
  PROVE  Framed(buf, b) \in LineBuffers
PROOF
<1>1. CASE IsBreak(b)
  <2>1. AfterSwallow(buf) \in LineBuffers
    BY DEF AfterSwallow, LineBuffers
  <2>2. AfterBreak(buf, b) \in LineBuffers
    BY DEF AfterBreak, LineBuffers
  <2> QED  BY <1>1, <2>1, <2>2 DEF Framed
<1>2. CASE ~IsBreak(b) /\ Len(buf.bytes) < MaxLineBytes
  <2>1. Append(buf.bytes, b) \in Seq(Bytes)
    BY DEF LineBuffers
  <2> QED  BY <1>2, <2>1 DEF Framed, AfterByte, LineBuffers
<1>3. CASE ~IsBreak(b) /\ ~(Len(buf.bytes) < MaxLineBytes)
  BY <1>3 DEF Framed, AfterByte, LineBuffers
<1> QED  BY <1>1, <1>2, <1>3

(* Only a part of the chunk, and no more than fits, is retained. *)
LEMMA RetainedFits ==
  ASSUME TypeOK, NEW s \in ScopeIds, NEW chunk \in Seq(Bytes),
         scope[s].retained_bytes <= MaxScopeBytes
  PROVE  /\ Retained(s, chunk) \in Seq(Bytes)
         /\ Len(Retained(s, chunk)) <= Len(chunk)
         /\ Len(Retained(s, chunk)) \in Nat
         /\ scope[s].retained_bytes + Len(Retained(s, chunk)) \in 0..MaxScopeBytes
PROOF
<1> DEFINE n == IF Len(chunk) <= Available(s) THEN Len(chunk) ELSE Available(s)
<1>1. scope[s].retained_bytes \in Nat
  BY DEF TypeOK, ScopeStates
<1>2. /\ n \in 0..Len(chunk)
      /\ scope[s].retained_bytes + n <= MaxScopeBytes
  BY <1>1, SessionAssumption DEF Available
<1>3. \A i \in 1..n : chunk[i] \in Bytes
  BY <1>2
<1>4. Retained(s, chunk) \in Seq(Bytes) /\ Len(Retained(s, chunk)) = n
  BY <1>2, <1>3, SubSeqProperties DEF Retained
<1> QED  BY <1>1, <1>2, <1>4

(* The four limits, for open and closed scopes alike. *)
Limits ==
  /\ IsFiniteSet(open)
  /\ Cardinality(open) <= MaxScopes
  /\ \A s \in ScopeIds : scope[s].retained_bytes <= MaxScopeBytes
  /\ Len(candidates) <= MaxCandidates

LEMMA TypeStep == IInv /\ Limits /\ [Next]_vars => TypeOK'
PROOF
<1> SUFFICES ASSUME IInv, Limits, [Next]_vars
             PROVE  TypeOK'
  OBVIOUS
<1>1. TypeOK /\ Control
  BY DEF IInv
<1>2. /\ pc \in Points
      /\ parser \in 0..(NumParsers + 1)
      /\ open \subseteq ScopeIds
      /\ next_ordinal \in Nat
      /\ dropped \in Nat
      /\ truncated \in BOOLEAN
      /\ emissions \in Nat
  BY <1>1 DEF TypeOK
<1>call. call \in Calls
  BY <1>1 DEF TypeOK
<1>scope. scope \in [ScopeIds -> ScopeStates]
  BY <1>1 DEF TypeOK
<1>buffer. buffer \in [ScopeIds -> [Streams -> LineBuffers]]
  BY <1>1 DEF TypeOK
<1>stats. stats \in Stats
  BY <1>1 DEF TypeOK
<1>candidates. candidates \in Seq(Candidates)
  BY <1>1 DEF TypeOK
<1>feed. feed \in [ScopeIds -> [Streams -> Seq(Bytes \cup {"eof"})]]
  BY <1>1 DEF TypeOK
<1>offered. offered \in [ScopeIds -> Nat]
  BY <1>1 DEF TypeOK
<1>log. log \in Seq(Events)
  BY <1>1 DEF TypeOK
<1>3. NumParsers \in Nat
  BY SessionAssumption
<1>4. /\ stats.bytes_seen \in Nat /\ stats.bytes_retained \in Nat
      /\ stats.candidates_dropped \in Nat
      /\ stats.scopes_started \in Nat
      /\ stats.scopes_completed \in Nat
  BY <1>stats DEF Stats
<1>5. ASSUME NEW s \in ScopeIds, RejectScope(s)
      PROVE  TypeOK'
  <2>1. stats' = [stats EXCEPT !.candidates_dropped = @ + 1]
    BY <1>5 DEF RejectScope
  <2>2. stats' \in Stats
    BY <1>stats, <1>4, <2>1 DEF Stats
  <2>3. UNCHANGED <<callVars, scopeVars, next_ordinal, storeVars, truncated, history>>
    BY <1>5 DEF RejectScope
  <2> QED  BY <1>1, <2>2, <2>3 DEF TypeOK, callVars, scopeVars, storeVars, history
<1>6. ASSUME NEW s \in ScopeIds, BeginScope(s)
      PROVE  TypeOK'
  <2>1. /\ open' = open \cup {s}
        /\ scope' = [scope EXCEPT ![s] = FreshScope]
        /\ stats' = [stats EXCEPT !.scopes_started = @ + 1]
        /\ pc' = "begun"
        /\ call' = [NoCall EXCEPT !.op = "begin", !.scope = s]
        /\ parser' = 1
        /\ feed' = [feed EXCEPT ![s] = [k \in Streams |-> <<>>]]
        /\ offered' = [offered EXCEPT ![s] = 0]
        /\ log' = Append(log, BeginEvent(s))
        /\ UNCHANGED <<buffer, next_ordinal, storeVars, truncated, emissions>>
    BY <1>6 DEF BeginScope
  <2>2. call' \in Calls
    BY <2>1, PartsTyped DEF Calls
  <2>3. stats' \in Stats
    <3>1. stats' = [stats EXCEPT !.scopes_started = @ + 1]
      BY <2>1
    <3> QED  BY <1>stats, <1>4, <3>1 DEF Stats
  <2>4. scope' \in [ScopeIds -> ScopeStates]
    BY <1>scope, <2>1, PartsTyped
  <2>5. /\ feed' \in [ScopeIds -> [Streams -> Seq(Bytes \cup {"eof"})]]
        /\ offered' \in [ScopeIds -> Nat]
    BY <1>feed, <1>offered, <2>1
  <2>6. log' \in Seq(Events)
    BY <1>log, <2>1, EventsTyped
  <2> QED  BY <1>2, <1>3, <1>buffer, <1>candidates, <2>1, <2>2, <2>3, <2>4, <2>5, <2>6
           DEF TypeOK, Points, storeVars
<1>7. ASSUME NEW s \in ScopeIds, NEW k \in Streams, NEW chunk \in Chunks,
             PushChunk(s, k, chunk)
      PROVE  TypeOK'
  <2> DEFINE retained == Retained(s, chunk)
  <2>1. /\ stats' = [stats EXCEPT !.bytes_seen = @ + Len(chunk),
                                  !.bytes_retained = @ + Len(retained)]
        /\ scope' = [scope EXCEPT
                       ![s].retained_bytes = @ + Len(retained),
                       ![s].truncated = @ \/ Len(retained) < Len(chunk)]
        /\ pc' = "frame"
        /\ call' = [NoCall EXCEPT !.op = "push", !.scope = s, !.stream = k,
                                  !.rest = retained]
        /\ offered' = [offered EXCEPT ![s] = @ + Len(chunk)]
        /\ UNCHANGED <<parser, open, buffer, next_ordinal, storeVars, truncated,
                       feed, log, emissions>>
    BY <1>7 DEF PushChunk
  <2>2. chunk \in Seq(Bytes)
    BY SessionAssumption DEF Chunks, BoundedSeq, SeqOf
  <2>3. retained \in Seq(Bytes) /\ Len(retained) \in Nat
    BY <1>1, <2>2, RetainedFits DEF Limits
  <2>4. stats' \in Stats
    <3>1. /\ stats.bytes_seen + Len(chunk) \in Nat
          /\ stats.bytes_retained + Len(retained) \in Nat
      BY <1>4, <2>2, <2>3
    <3> QED  BY <1>stats, <2>1, <3>1 DEF Stats
  <2>5. scope' \in [ScopeIds -> ScopeStates]
    <3> HIDE DEF retained
    <3>1. /\ scope[s].retained_bytes + Len(retained) \in Nat
          /\ (scope[s].truncated \/ Len(retained) < Len(chunk)) \in BOOLEAN
          /\ scope[s] \in ScopeStates
      BY <1>scope, <2>3 DEF ScopeStates
    <3> QED  BY <1>scope, <2>1, <3>1 DEF ScopeStates
  <2>6. call' \in Calls
    <3> HIDE DEF retained
    <3> QED  BY <2>1, <2>3, PartsTyped DEF Calls
  <2>7. offered' \in [ScopeIds -> Nat]
    BY <1>offered, <2>1, <2>2
  <2> QED  BY <1>2, <1>buffer, <1>candidates, <1>feed, <1>log, <2>1, <2>4, <2>5, <2>6, <2>7
           DEF TypeOK, Points, storeVars
<1>8. CASE FrameByte
  <2> DEFINE s == call.scope
             k == call.stream
             b == Head(call.rest)
  <2>1. /\ pc = "frame"
        /\ call.rest # <<>>
        /\ call' = [call EXCEPT !.rest = Tail(@)]
        /\ buffer' = [buffer EXCEPT ![s][k] = Framed(@, b)]
        /\ feed' = [feed EXCEPT ![s][k] = Append(@, b)]
        /\ IF IsBreak(b) /\ ~Swallows(buffer[s][k], b)
           THEN DispatchBytes(s, k, buffer[s][k], "frame")
           ELSE UNCHANGED <<pc, parser, scope, stats, next_ordinal, log>>
        /\ UNCHANGED <<open, storeVars, truncated, offered, emissions>>
    BY <1>8 DEF FrameByte
  <2>2. s \in ScopeIds /\ k \in Streams
    BY <1>1, <1>2, <2>1 DEF Control
  <2>3. b \in Bytes /\ Tail(call.rest) \in Seq(Bytes)
    BY <1>call, <2>1, HeadTailProperties DEF Calls
  <2> HIDE DEF s, k, b
  <2>4. call' \in Calls
    BY <1>call, <2>1, <2>3 DEF Calls
  <2>5. buffer' \in [ScopeIds -> [Streams -> LineBuffers]]
    <3>1. Framed(buffer[s][k], b) \in LineBuffers
      BY <1>buffer, <2>2, <2>3, FramedTyped
    <3> QED  BY <1>buffer, <2>1, <2>2, <3>1
  <2>6. feed' \in [ScopeIds -> [Streams -> Seq(Bytes \cup {"eof"})]]
    <3>1. Append(feed[s][k], b) \in Seq(Bytes \cup {"eof"})
      BY <1>feed, <2>2, <2>3
    <3> QED  BY <1>feed, <2>1, <2>2, <3>1
  <2>7. /\ pc' \in Points
        /\ parser' \in 0..(NumParsers + 1)
        /\ scope' \in [ScopeIds -> ScopeStates]
        /\ stats' \in Stats
        /\ next_ordinal' \in Nat
        /\ log' \in Seq(Events)
    <3>1. CASE IsBreak(b) /\ ~Swallows(buffer[s][k], b)
      <4>1. buffer[s][k] \in LineBuffers
        BY <1>buffer, <2>2
      <4>2. "frame" \in Points
        BY DEF Points
      <4>3. DispatchBytes(s, k, buffer[s][k], "frame")
        BY <2>1, <3>1
      <4> QED  BY <1>1, <2>2, <4>1, <4>2, <4>3, DispatchTyped
    <3>2. CASE ~(IsBreak(b) /\ ~Swallows(buffer[s][k], b))
      BY <1>2, <1>scope, <1>stats, <1>log, <2>1, <3>2
    <3> QED  BY <3>1, <3>2
  <2> QED  BY <1>2, <1>candidates, <1>offered, <2>1, <2>4, <2>5, <2>6, <2>7
           DEF TypeOK, storeVars
<1>9. CASE PushReturns
  BY <1>1, <1>9, PartsTyped DEF PushReturns, TypeOK, Points, scopeVars, storeVars, history
<1>10. ASSUME NEW s \in ScopeIds, NEW reason \in EndReasons, NEW finishing \in BOOLEAN,
              StartEnd(s, reason, finishing)
       PROVE  TypeOK'
  <2>1. /\ pc' = "flush"
        /\ call' = [NoCall EXCEPT !.op = "end", !.scope = s, !.flushing = Streams,
                                  !.reason = reason, !.finishing = finishing]
        /\ UNCHANGED <<parser, scopeVars, stats, next_ordinal, storeVars, truncated, history>>
    BY <1>10 DEF StartEnd
  <2>2. call' \in Calls
    BY <2>1, PartsTyped DEF Calls
  <2> QED  BY <1>1, <2>1, <2>2 DEF TypeOK, Points, scopeVars, storeVars, history
<1>11. ASSUME NEW s \in ScopeIds, NEW reason \in Reasons, EndScope(s, reason)
       PROVE  TypeOK'
  BY <1>10, <1>11, SessionAssumption DEF EndScope
<1>12. ASSUME NEW k \in Streams, FlushBuffer(k)
       PROVE  TypeOK'
  <2> DEFINE s == call.scope
             buf == buffer[s][k]
  <2>1. /\ pc = "flush"
        /\ k \in call.flushing
        /\ call' = [call EXCEPT !.flushing = @ \ {k}]
        /\ buffer' = [buffer EXCEPT ![s][k] = EmptyBuffer]
        /\ feed' = [feed EXCEPT ![s][k] = Append(@, "eof")]
        /\ IF buf.bytes # <<>> \/ buf.truncated
           THEN DispatchBytes(s, k, buf, "flush")
           ELSE UNCHANGED <<pc, parser, scope, stats, next_ordinal, log>>
        /\ UNCHANGED <<open, storeVars, truncated, offered, emissions>>
    BY <1>12 DEF FlushBuffer
  <2>2. s \in ScopeIds
    BY <1>1, <1>2, <2>1 DEF Control
  <2>3. buf \in LineBuffers
    BY <1>buffer, <2>2
  <2> HIDE DEF s, buf
  <2>4. call' \in Calls
    BY <1>call, <2>1 DEF Calls
  <2>5. buffer' \in [ScopeIds -> [Streams -> LineBuffers]]
    BY <1>buffer, <2>1, <2>2, PartsTyped
  <2>6. feed' \in [ScopeIds -> [Streams -> Seq(Bytes \cup {"eof"})]]
    <3>1. Append(feed[s][k], "eof") \in Seq(Bytes \cup {"eof"})
      BY <1>feed, <2>2
    <3> QED  BY <1>feed, <2>1, <2>2, <3>1
  <2>7. /\ pc' \in Points
        /\ parser' \in 0..(NumParsers + 1)
        /\ scope' \in [ScopeIds -> ScopeStates]
        /\ stats' \in Stats
        /\ next_ordinal' \in Nat
        /\ log' \in Seq(Events)
    <3>1. CASE buf.bytes # <<>> \/ buf.truncated
      <4>1. "flush" \in Points
        BY DEF Points
      <4>2. DispatchBytes(s, k, buf, "flush")
        BY <2>1, <3>1
      <4> QED  BY <1>1, <2>2, <2>3, <4>1, <4>2, DispatchTyped
    <3>2. CASE ~(buf.bytes # <<>> \/ buf.truncated)
      BY <1>2, <1>scope, <1>stats, <1>log, <2>1, <3>2
    <3> QED  BY <3>1, <3>2
  <2> QED  BY <1>2, <1>candidates, <1>offered, <2>1, <2>4, <2>5, <2>6, <2>7
           DEF TypeOK, storeVars
<1>13. CASE CloseScope
  <2> DEFINE s == call.scope
             event == EndEvent(s, EffectiveReason(scope[s], call.reason),
                               scope[s].truncated)
  <2>1. /\ pc = "flush"
        /\ open' = open \ {s}
        /\ scope' = [scope EXCEPT ![s] = FreshScope]
        /\ pc' = "ended"
        /\ parser' = 1
        /\ log' = Append(log, event)
        /\ UNCHANGED <<call, buffer, stats, next_ordinal, storeVars, truncated, feed,
                       offered, emissions>>
    BY <1>13 DEF CloseScope
  <2>2. s \in ScopeIds
    BY <1>1, <1>2, <2>1 DEF Control
  <2>3. /\ EffectiveReason(scope[s], call.reason) \in EndReasons
        /\ scope[s].truncated \in BOOLEAN
    BY <1>call, <1>scope, <2>2 DEF EffectiveReason, EndReasons, Calls, ScopeStates
  <2>4. event \in Events
    BY <2>2, <2>3, EventsTyped
  <2> HIDE DEF s, event
  <2>5. scope' \in [ScopeIds -> ScopeStates]
    BY <1>scope, <2>1, PartsTyped
  <2>6. log' \in Seq(Events)
    BY <1>log, <2>1, <2>4
  <2> QED  BY <1>2, <1>3, <1>call, <1>buffer, <1>stats, <1>candidates, <1>feed,
              <1>offered, <2>1, <2>5, <2>6
           DEF TypeOK, Points, storeVars
<1>14. CASE ParserReturns
  BY <1>1, <1>3, <1>14
  DEF ParserReturns, InCallback, TypeOK, scopeVars, storeVars, history
<1>15. CASE LineObserved
  BY <1>1, <1>3, <1>15 DEF LineObserved, TypeOK, Points, scopeVars, storeVars, history
<1>16. CASE BeginReturns
  BY <1>1, <1>3, <1>16, PartsTyped
  DEF BeginReturns, TypeOK, Points, scopeVars, storeVars, history
<1>17. CASE EndReturns
  <2>1. /\ stats' = [stats EXCEPT !.scopes_completed = @ + 1]
        /\ pc' = AfterEnd
        /\ parser' = 0
        /\ call' = NoCall
        /\ UNCHANGED <<scopeVars, next_ordinal, storeVars, truncated, history>>
    BY <1>17 DEF EndReturns
  <2>2. stats' \in Stats
    BY <1>stats, <1>4, <2>1 DEF Stats
  <2>3. pc' \in Points
    BY <2>1 DEF AfterEnd, Points
  <2> QED  BY <1>1, <1>3, <2>1, <2>2, <2>3, PartsTyped
           DEF TypeOK, scopeVars, storeVars, history
<1>18. CASE Finish
  BY <1>1, <1>18 DEF Finish, TypeOK, Points, scopeVars, storeVars, history
<1>19. CASE InterruptNextScope
  <2>1. PICK s \in open : StartEnd(s, "Interrupted", TRUE)
    BY <1>19 DEF InterruptNextScope
  <2> QED  BY <1>2, <1>10, <2>1 DEF EndReasons
<1>20. CASE FinishParsers
  BY <1>1, <1>3, <1>20 DEF FinishParsers, TypeOK, Points, scopeVars, storeVars, history
<1>21. CASE FinishReturns
  <2>1. /\ stats' = [stats EXCEPT !.candidates_emitted = Len(candidates),
                                  !.candidates_dropped = @ + dropped]
        /\ truncated' = ReportsTruncation(stats')
        /\ pc' = "done"
        /\ parser' = 0
        /\ UNCHANGED <<call, scopeVars, next_ordinal, storeVars, history>>
    BY <1>21 DEF FinishReturns
  <2>2. Len(candidates) \in Nat /\ stats.candidates_dropped + dropped \in Nat
    BY <1>2, <1>4, <1>candidates
  <2>3. stats' \in Stats
    BY <1>stats, <2>1, <2>2 DEF Stats
  <2>4. truncated' \in BOOLEAN
    BY <2>1 DEF ReportsTruncation
  <2> QED  BY <1>1, <1>3, <2>1, <2>3, <2>4 DEF TypeOK, Points, scopeVars, storeVars, history
<1>22. CASE ParserEmits
  <2>1. PICK kind \in {"diagnostic", "test_failure"},
             provenance \in {EngineProvenance, OwnProvenance} : Emit(kind, provenance)
    BY <1>22 DEF ParserEmits
  <2>2. EngineProvenance \in Provenances
    <3>1. InCallback
      BY <2>1 DEF Emit
    <3>2. parser \in Nat /\ call.scope \in ScopeIds \cup {0}
      BY <1>2, <1>3, <1>call DEF Calls
    <3>3. CASE pc = "observe"
      <4>1. log # <<>> /\ log[Len(log)].type = "line"
        BY <1>1, <3>3 DEF Control
      <4>2. log[Len(log)] \in Events
        BY <1>log, <4>1
      <4>3. log[Len(log)].stream \in Streams /\ log[Len(log)].stream_line \in Nat
        BY <4>1, <4>2 DEF Events
      <4> QED  BY <3>2, <3>3, <4>3 DEF EngineProvenance, Provenances
    <3>4. CASE pc \in {"begun", "ended"}
      BY <3>2, <3>4 DEF EngineProvenance, Provenances
    <3>5. CASE pc = "wrapup"
      BY <3>2, <3>5 DEF EngineProvenance, Provenances
    <3> QED  BY <3>1, <3>3, <3>4, <3>5 DEF InCallback
  <2>3. OwnProvenance \in Provenances
    BY <1>2, <1>3 DEF OwnProvenance, Provenances
  <2>4. [kind |-> kind, provenance |-> provenance] \in Candidates
    BY <2>1, <2>2, <2>3 DEF Candidates
  <2>5. candidates' \in Seq(Candidates) /\ dropped' \in Nat /\ emissions' \in Nat
    <3>1. emissions \in Nat /\ dropped \in Nat
      BY <1>2
    <3>2. emissions' = emissions + 1
      BY <2>1 DEF Emit
    <3>3. dropped' = dropped + 1 \/ dropped' = dropped
      BY <2>1 DEF Emit
    <3>4. \/ candidates' = candidates
          \/ candidates' = Append(candidates, [kind |-> kind, provenance |-> provenance])
      BY <2>1 DEF Emit
    <3>5. Append(candidates, [kind |-> kind, provenance |-> provenance]) \in Seq(Candidates)
      BY <1>candidates, <2>4
    <3>6. candidates' \in Seq(Candidates)
      BY <1>candidates, <3>4, <3>5
    <3>7. dropped' \in Nat
      BY <3>1, <3>3
    <3>8. emissions' \in Nat
      BY <3>1, <3>2
    <3> QED  BY <3>6, <3>7, <3>8
  <2>6. UNCHANGED <<callVars, scopeVars, stats, next_ordinal, truncated, feed, offered, log>>
    BY <2>1 DEF Emit
  <2> QED  BY <1>1, <2>5, <2>6 DEF TypeOK, callVars, scopeVars
<1>23. CASE ParserDrops
  BY <1>1, <1>23 DEF ParserDrops, TypeOK, callVars, scopeVars
<1>24. CASE UNCHANGED vars
  BY <1>1, <1>24 DEF vars, TypeOK, callVars, scopeVars, storeVars, history
<1> QED
  BY <1>5, <1>6, <1>7, <1>8, <1>9, <1>11, <1>12, <1>13, <1>14, <1>15, <1>16, <1>17,
     <1>18, <1>19, <1>20, <1>21, <1>22, <1>23, <1>24
  DEF Next, CallerNext, SessionNext, Finished

----------------------------------------------------------------------------
(* Control *)

LEMMA ControlStep == IInv /\ [Next]_vars => Control'
PROOF
<1> SUFFICES ASSUME IInv, [Next]_vars
             PROVE  Control'
  OBVIOUS
<1>1. TypeOK /\ Control
  BY DEF IInv
<1>2. /\ call \in Calls /\ log \in Seq(Events)
      /\ open \subseteq ScopeIds
      /\ buffer \in [ScopeIds -> [Streams -> LineBuffers]]
  BY <1>1 DEF TypeOK
<1>3. NoCall.op = "none"
  BY DEF NoCall
<1>4. ASSUME NEW s \in ScopeIds, RejectScope(s)
      PROVE  Control'
  BY <1>1, <1>4 DEF RejectScope, Control, callVars, scopeVars, history
<1>5. ASSUME NEW s \in ScopeIds, BeginScope(s)
      PROVE  Control'
  <2>1. pc' = "begun" /\ call'.op = "begin"
    BY <1>5 DEF BeginScope, NoCall
  <2> QED  BY <2>1 DEF Control
<1>6. ASSUME NEW s \in ScopeIds, NEW k \in Streams, NEW chunk \in Chunks,
             PushChunk(s, k, chunk)
      PROVE  Control'
  <2>1. /\ pc' = "frame" /\ open' = open /\ s \in open
        /\ call'.op = "push" /\ call'.scope = s /\ call'.stream = k
    BY <1>6 DEF PushChunk, NoCall
  <2> QED  BY <2>1 DEF Control
<1>7. ASSUME NEW s, NEW k, NEW buf, NEW resume, DispatchBytes(s, k, buf, resume)
      PROVE  \/ pc' = resume /\ log' = log
             \/ /\ pc' = "observe"
                /\ log' # <<>> /\ log'[Len(log')].type = "line"
  <2>1. CASE TrimEnd(buf.bytes) = <<>>
    BY <1>7, <2>1 DEF DispatchBytes
  <2>2. CASE TrimEnd(buf.bytes) # <<>>
    <3> DEFINE event == LineEvent(s, k, next_ordinal, scope[s].stream_lines[k] + 1,
                                  TrimEnd(buf.bytes), buf.truncated)
    <3>1. log' = Append(log, event) /\ pc' = "observe"
      BY <1>7, <2>2 DEF DispatchBytes
    <3>2. event.type = "line"
      BY DEF LineEvent
    <3> HIDE DEF event
    <3> QED  BY <1>2, <3>1, <3>2
  <2> QED  BY <2>1, <2>2
<1>8. CASE FrameByte
  <2>1. /\ pc = "frame" /\ open' = open
        /\ call' = [call EXCEPT !.rest = Tail(@)]
        /\ \/ DispatchBytes(call.scope, call.stream, buffer[call.scope][call.stream], "frame")
           \/ UNCHANGED <<pc, log>>
    BY <1>8 DEF FrameByte
  <2>2. call'.op = call.op /\ call'.scope = call.scope /\ call'.stream = call.stream
    BY <1>2, <2>1 DEF Calls
  <2>3. \/ pc' = "frame"
        \/ pc' = "observe" /\ log' # <<>> /\ log'[Len(log')].type = "line"
    BY <1>7, <2>1
  <2>4. call.op = "push" /\ call.scope \in open /\ call.stream \in Streams
    BY <1>1, <2>1 DEF Control
  <2> QED  BY <2>1, <2>2, <2>3, <2>4 DEF Control
<1>9. CASE PushReturns
  BY <1>3, <1>9 DEF PushReturns, Control
<1>10. ASSUME NEW s \in ScopeIds, NEW reason, NEW finishing, StartEnd(s, reason, finishing)
       PROVE  Control'
  <2>1. /\ pc' = "flush" /\ open' = open /\ s \in open
        /\ call'.op = "end" /\ call'.scope = s /\ call'.flushing = Streams
    BY <1>10 DEF StartEnd, NoCall, scopeVars
  <2> QED  BY <2>1 DEF Control
<1>11. ASSUME NEW k \in Streams, FlushBuffer(k)
       PROVE  Control'
  <2> DEFINE s == call.scope
  <2>1. /\ pc = "flush" /\ open' = open
        /\ call' = [call EXCEPT !.flushing = @ \ {k}]
        /\ buffer' = [buffer EXCEPT ![s][k] = EmptyBuffer]
        /\ \/ DispatchBytes(s, k, buffer[s][k], "flush")
           \/ UNCHANGED <<pc, log>>
    BY <1>11 DEF FlushBuffer
  <2>2. call'.op = call.op /\ call'.scope = s /\ call'.flushing = call.flushing \ {k}
    BY <1>2, <2>1 DEF Calls
  <2>3. \/ pc' = "flush"
        \/ pc' = "observe" /\ log' # <<>> /\ log'[Len(log')].type = "line"
    BY <1>7, <2>1
  <2>4. /\ call.op = "end" /\ s \in open
        /\ \A j \in Streams \ call.flushing : buffer[s][j] = EmptyBuffer
    BY <1>1, <2>1 DEF Control
  <2> HIDE DEF s
  <2>5. \A j \in Streams \ (call.flushing \ {k}) : buffer'[s][j] = EmptyBuffer
    BY <1>2, <2>1, <2>4
  <2> QED  BY <2>1, <2>2, <2>3, <2>4, <2>5 DEF Control
<1>12. CASE CloseScope
  <2>1. pc = "flush" /\ pc' = "ended" /\ call' = call
    BY <1>12 DEF CloseScope
  <2>2. call.op = "end"
    BY <1>1, <2>1 DEF Control
  <2> QED  BY <2>1, <2>2 DEF Control
<1>13. CASE ParserReturns
  BY <1>1, <1>13 DEF ParserReturns, Control, scopeVars, history
<1>14. CASE LineObserved
  BY <1>1, <1>14 DEF LineObserved, Control, scopeVars, history
<1>15. CASE BeginReturns
  BY <1>3, <1>15 DEF BeginReturns, Control
<1>16. CASE EndReturns
  BY <1>3, <1>16 DEF EndReturns, AfterEnd, Control
<1>17. CASE Finish \/ FinishParsers \/ FinishReturns
  <2>1. /\ pc \in {"idle", "finish", "wrapup"}
        /\ pc' \in {"finish", "wrapup", "done"}
        /\ call' = call
    BY <1>17 DEF Finish, FinishParsers, FinishReturns
  <2> QED  BY <1>1, <2>1 DEF Control
<1>18. CASE ParserEmits \/ ParserDrops
  <2>1. UNCHANGED <<callVars, scopeVars, log>>
    BY <1>18 DEF ParserEmits, Emit, ParserDrops
  <2> QED  BY <1>1, <2>1 DEF Control, callVars, scopeVars
<1>19. CASE UNCHANGED vars
  BY <1>1, <1>19 DEF vars, Control, callVars, scopeVars, history
<1> QED
  BY <1>2, <1>4, <1>5, <1>6, <1>8, <1>9, <1>10, <1>11, <1>12, <1>13, <1>14, <1>15, <1>16,
     <1>17, <1>18, <1>19
  DEF Next, CallerNext, SessionNext, EndScope, InterruptNextScope, Finished

----------------------------------------------------------------------------
(* Line buffers *)

(* A byte that does not break the line keeps the buffer in step with the   *)
(* open line.                                                              *)
LEMMA AfterByteKeeps ==
  ASSUME NEW buf \in LineBuffers, NEW line \in Seq(Bytes \cup {"eof"}),
         NEW b \in Bytes \cup {"eof"}, HoldsOpenLine(buf, line)
  PROVE  HoldsOpenLine(AfterByte(buf, b), Append(line, b))
PROOF
<1>1. buf.bytes = Kept(line) /\ buf.truncated = IsCut(line)
  BY DEF HoldsOpenLine
<1>2. /\ Kept(Append(line, b)) =
            IF Len(line) < MaxLineBytes THEN Append(line, b) ELSE Kept(line)
      /\ Len(line) < MaxLineBytes => Kept(line) = line
      /\ IsCut(Append(line, b)) = ~(Len(line) < MaxLineBytes)
      /\ Len(Kept(line)) < MaxLineBytes <=> Len(line) < MaxLineBytes
  BY LinesAssumption, KeptAppend
<1>3. CASE Len(line) < MaxLineBytes
  <2>1. /\ AfterByte(buf, b).bytes = Append(buf.bytes, b)
        /\ AfterByte(buf, b).truncated = buf.truncated
        /\ AfterByte(buf, b).previous_was_cr = FALSE
    BY <1>1, <1>2, <1>3 DEF AfterByte, LineBuffers
  <2>2. IsCut(line) = FALSE
    BY LinesAssumption, <1>3 DEF IsCut
  <2> QED  BY <1>1, <1>2, <1>3, <2>1, <2>2 DEF HoldsOpenLine
<1>4. CASE ~(Len(line) < MaxLineBytes)
  <2>0. ~(Len(buf.bytes) < MaxLineBytes)
    BY <1>1, <1>2, <1>4
  <2>1. /\ AfterByte(buf, b).bytes = buf.bytes
        /\ AfterByte(buf, b).truncated = TRUE
        /\ AfterByte(buf, b).previous_was_cr = FALSE
    BY <2>0 DEF AfterByte, LineBuffers
  <2> QED  BY <1>1, <1>2, <1>4, <2>1 DEF HoldsOpenLine
<1> QED  BY <1>3, <1>4

LEMMA EmptyBufferHolds == HoldsOpenLine(EmptyBuffer, <<>>)
PROOF
BY EmptyLine, LinesAssumption DEF HoldsOpenLine, EmptyBuffer

LEMMA BufferInit == Init => BufferIsOpenLine
PROOF
<1> SUFFICES ASSUME Init, NEW s \in ScopeIds, NEW k \in Streams
             PROVE  /\ HoldsOpenLine(buffer[s][k], OpenLine(feed[s][k]))
                    /\ s \notin open => buffer[s][k] = EmptyBuffer
  BY DEF BufferIsOpenLine
<1>1. buffer[s][k] = EmptyBuffer /\ feed[s][k] = <<>>
  BY DEF Init
<1> QED  BY <1>1, EmptyBufferHolds, EmptyLine, LinesAssumption

LEMMA BufferStep == IInv /\ [Next]_vars => BufferIsOpenLine'
PROOF
<1> SUFFICES ASSUME IInv, [Next]_vars
             PROVE  BufferIsOpenLine'
  OBVIOUS
<1>1. TypeOK /\ Control /\ BufferIsOpenLine
  BY DEF IInv
<1>2. /\ open \subseteq ScopeIds
      /\ buffer \in [ScopeIds -> [Streams -> LineBuffers]]
      /\ feed \in [ScopeIds -> [Streams -> Seq(Bytes \cup {"eof"})]]
  BY <1>1 DEF TypeOK
<1>3. OpenLine(<<>>) = <<>>
  BY LinesAssumption, EmptyLine
<1>4. HoldsOpenLine(EmptyBuffer, <<>>)
  BY EmptyBufferHolds
<1>5. ASSUME UNCHANGED <<open, buffer, feed>>
      PROVE  BufferIsOpenLine'
  BY <1>1, <1>5 DEF BufferIsOpenLine
<1>6. ASSUME NEW s \in ScopeIds, BeginScope(s)
      PROVE  BufferIsOpenLine'
  <2>1. /\ s \notin open /\ open' = open \cup {s} /\ buffer' = buffer
        /\ feed' = [feed EXCEPT ![s] = [k \in Streams |-> <<>>]]
    BY <1>6 DEF BeginScope, Rejects
  <2> SUFFICES ASSUME NEW t \in ScopeIds, NEW k \in Streams
               PROVE  /\ HoldsOpenLine(buffer'[t][k], OpenLine(feed'[t][k]))
                      /\ t \notin open' => buffer'[t][k] = EmptyBuffer
    BY DEF BufferIsOpenLine, HoldsOpenLine
  <2>2. CASE t = s
    <3>1. buffer[s][k] = EmptyBuffer /\ feed'[s][k] = <<>>
      BY <1>1, <1>2, <2>1 DEF BufferIsOpenLine
    <3> QED  BY <1>3, <1>4, <2>1, <2>2, <3>1
  <2>3. CASE t # s
    <3>1. feed'[t][k] = feed[t][k]
      BY <1>2, <2>1, <2>3
    <3> QED  BY <1>1, <2>1, <2>3, <3>1 DEF BufferIsOpenLine
  <2> QED  BY <2>2, <2>3
<1>7. CASE FrameByte
  <2> DEFINE s == call.scope
             k == call.stream
             b == Head(call.rest)
             line == OpenLine(feed[s][k])
  <2>1. /\ pc = "frame" /\ call.rest # <<>> /\ open' = open
        /\ buffer' = [buffer EXCEPT ![s][k] = Framed(@, b)]
        /\ feed' = [feed EXCEPT ![s][k] = Append(@, b)]
    BY <1>7 DEF FrameByte
  <2>2. s \in open /\ s \in ScopeIds /\ k \in Streams
    BY <1>1, <1>2, <2>1 DEF Control
  <2>3. b \in Bytes
    BY <1>1, <2>1, HeadTailProperties DEF TypeOK, Calls
  <2> HIDE DEF s, k, b
  <2>4. /\ feed[s][k] \in Seq(Bytes \cup {"eof"})
        /\ buffer[s][k] \in LineBuffers
        /\ HoldsOpenLine(buffer[s][k], line)
    BY <1>1, <1>2, <2>2 DEF BufferIsOpenLine
  <2>5. line \in Seq(Bytes \cup {"eof"}) /\ b \in Bytes \cup {"eof"}
    BY <2>3, <2>4, OpenLineType
  <2>6. OpenLine(Append(feed[s][k], b)) = IF IsBreak(b) THEN <<>> ELSE Append(line, b)
    BY <2>4, <2>5, OpenLineAppend
  <2> HIDE DEF line
  <2>7. HoldsOpenLine(Framed(buffer[s][k], b), OpenLine(Append(feed[s][k], b)))
    <3>1. CASE ~IsBreak(b)
      BY <2>4, <2>5, <2>6, <3>1, AfterByteKeeps DEF Framed
    <3>2. CASE IsBreak(b) /\ Swallows(buffer[s][k], b)
      <4>1. line = <<>>
        BY <2>4, <3>2 DEF Swallows, HoldsOpenLine
      <4>2. /\ AfterSwallow(buffer[s][k]).bytes = buffer[s][k].bytes
            /\ AfterSwallow(buffer[s][k]).truncated = buffer[s][k].truncated
        BY <2>4 DEF AfterSwallow, LineBuffers
      <4>3. HoldsOpenLine(AfterSwallow(buffer[s][k]), <<>>)
        BY <2>4, <4>1, <4>2 DEF HoldsOpenLine
      <4> QED  BY <2>6, <3>2, <4>3 DEF Framed
    <3>3. CASE IsBreak(b) /\ ~Swallows(buffer[s][k], b)
      <4>1. HoldsOpenLine(AfterBreak(buffer[s][k], b), <<>>)
        BY LinesAssumption, EmptyLine DEF AfterBreak, HoldsOpenLine
      <4> QED  BY <2>6, <3>3, <4>1 DEF Framed
    <3> QED  BY <3>1, <3>2, <3>3
  <2> SUFFICES ASSUME NEW t \in ScopeIds, NEW j \in Streams
               PROVE  /\ HoldsOpenLine(buffer'[t][j], OpenLine(feed'[t][j]))
                      /\ t \notin open' => buffer'[t][j] = EmptyBuffer
    BY DEF BufferIsOpenLine, HoldsOpenLine
  <2>8. CASE t = s /\ j = k
    <3>1. /\ buffer'[s][k] = Framed(buffer[s][k], b)
          /\ feed'[s][k] = Append(feed[s][k], b)
      BY <1>2, <2>1, <2>2
    <3> QED  BY <2>1, <2>2, <2>7, <2>8, <3>1
  <2>9. CASE ~(t = s /\ j = k)
    <3>1. buffer'[t][j] = buffer[t][j] /\ feed'[t][j] = feed[t][j]
      BY <1>2, <2>1, <2>2, <2>9
    <3> QED  BY <1>1, <2>1, <3>1 DEF BufferIsOpenLine
  <2> QED  BY <2>8, <2>9
<1>8. ASSUME NEW k \in Streams, FlushBuffer(k)
      PROVE  BufferIsOpenLine'
  <2> DEFINE s == call.scope
  <2>1. /\ pc = "flush" /\ open' = open
        /\ buffer' = [buffer EXCEPT ![s][k] = EmptyBuffer]
        /\ feed' = [feed EXCEPT ![s][k] = Append(@, "eof")]
    BY <1>8 DEF FlushBuffer
  <2>2. s \in ScopeIds
    BY <1>1, <1>2, <2>1 DEF Control
  <2> HIDE DEF s
  <2>3. OpenLine(Append(feed[s][k], "eof")) = <<>>
    BY <1>2, <2>2, OpenLineAppend DEF IsBreak
  <2> SUFFICES ASSUME NEW t \in ScopeIds, NEW j \in Streams
               PROVE  /\ HoldsOpenLine(buffer'[t][j], OpenLine(feed'[t][j]))
                      /\ t \notin open' => buffer'[t][j] = EmptyBuffer
    BY DEF BufferIsOpenLine, HoldsOpenLine
  <2>4. CASE t = s /\ j = k
    <3>1. buffer'[s][k] = EmptyBuffer /\ feed'[s][k] = Append(feed[s][k], "eof")
      BY <1>2, <2>1, <2>2
    <3> QED  BY <1>3, <1>4, <2>3, <2>4, <3>1
  <2>5. CASE ~(t = s /\ j = k)
    <3>1. buffer'[t][j] = buffer[t][j] /\ feed'[t][j] = feed[t][j]
      BY <1>2, <2>1, <2>2, <2>5
    <3> QED  BY <1>1, <2>1, <3>1 DEF BufferIsOpenLine
  <2> QED  BY <2>4, <2>5
<1>9. CASE CloseScope
  <2> DEFINE s == call.scope
  <2>1. /\ pc = "flush" /\ call.flushing = {}
        /\ open' = open \ {s} /\ UNCHANGED <<buffer, feed>>
    BY <1>9 DEF CloseScope
  <2>2. \A k \in Streams : buffer[s][k] = EmptyBuffer
    BY <1>1, <2>1 DEF Control
  <2> HIDE DEF s
  <2> QED  BY <1>1, <2>1, <2>2 DEF BufferIsOpenLine
<1>10. ASSUME NEW s \in ScopeIds,
              \/ RejectScope(s)
              \/ \E k \in Streams, chunk \in Chunks : PushChunk(s, k, chunk)
              \/ \E reason \in Reasons : EndScope(s, reason)
       PROVE  UNCHANGED <<open, buffer, feed>>
  BY <1>10 DEF RejectScope, PushChunk, EndScope, StartEnd, scopeVars, history
<1>11. ASSUME \/ PushReturns \/ ParserReturns \/ LineObserved \/ BeginReturns
              \/ EndReturns \/ Finish \/ InterruptNextScope \/ FinishParsers
              \/ FinishReturns
       PROVE  UNCHANGED <<open, buffer, feed>>
  BY <1>11
  DEF PushReturns, ParserReturns, LineObserved, BeginReturns, EndReturns, Finish,
      InterruptNextScope, StartEnd, FinishParsers, FinishReturns, scopeVars, history
<1>12. ASSUME ParserEmits \/ ParserDrops \/ UNCHANGED vars
       PROVE  UNCHANGED <<open, buffer, feed>>
  BY <1>12 DEF ParserEmits, Emit, ParserDrops, vars, scopeVars, history
<1> QED
  BY <1>5, <1>6, <1>7, <1>8, <1>9, <1>10, <1>11, <1>12
  DEF Next, CallerNext, SessionNext, Finished

----------------------------------------------------------------------------
(* Limits *)

LEMMA LimitsInit == Init => Limits
PROOF
BY FS_EmptySet, SessionAssumption DEF Init, Limits, FreshScope

LEMMA LimitsStep == IInv /\ Limits /\ [Next]_vars => Limits'
PROOF
<1> SUFFICES ASSUME IInv, Limits, [Next]_vars
             PROVE  Limits'
  OBVIOUS
<1>1. TypeOK
  BY DEF IInv
<1>2. /\ IsFiniteSet(open)
      /\ Cardinality(open) <= MaxScopes
      /\ \A s \in ScopeIds : scope[s].retained_bytes <= MaxScopeBytes
      /\ Len(candidates) <= MaxCandidates
  BY DEF Limits
<1>3. scope \in [ScopeIds -> ScopeStates] /\ candidates \in Seq(Candidates)
  BY <1>1 DEF TypeOK
<1>4. Cardinality(open) \in Nat
  BY <1>2, FS_CardinalityType
<1>5. FreshScope.retained_bytes <= MaxScopeBytes
  BY SessionAssumption DEF FreshScope
<1>6. ASSUME UNCHANGED <<open, scope, candidates>>
      PROVE  Limits'
  BY <1>2, <1>6 DEF Limits
<1>7. ASSUME NEW s \in ScopeIds, BeginScope(s)
      PROVE  Limits'
  <2>1. /\ s \notin open /\ ~(Cardinality(open) >= MaxScopes)
        /\ open' = open \cup {s}
        /\ scope' = [scope EXCEPT ![s] = FreshScope]
        /\ candidates' = candidates
    BY <1>7 DEF BeginScope, Rejects, storeVars
  <2>2. IsFiniteSet(open') /\ Cardinality(open') = Cardinality(open) + 1
    BY <1>2, <2>1, FS_AddElement
  <2>3. Cardinality(open') <= MaxScopes
    BY <1>4, <2>1, <2>2, SessionAssumption
  <2>4. \A t \in ScopeIds : scope'[t].retained_bytes <= MaxScopeBytes
    BY <1>2, <1>3, <1>5, <2>1
  <2> QED  BY <1>2, <2>1, <2>2, <2>3, <2>4 DEF Limits
<1>8. ASSUME NEW s \in ScopeIds, NEW k \in Streams, NEW chunk \in Chunks,
             PushChunk(s, k, chunk)
      PROVE  Limits'
  <2> DEFINE retained == Retained(s, chunk)
  <2>1. /\ UNCHANGED <<open, candidates>>
        /\ scope' = [scope EXCEPT
                       ![s].retained_bytes = @ + Len(retained),
                       ![s].truncated = @ \/ Len(retained) < Len(chunk)]
    BY <1>8 DEF PushChunk, storeVars
  <2>2. chunk \in Seq(Bytes)
    BY SessionAssumption DEF Chunks, BoundedSeq, SeqOf
  <2>3. scope[s].retained_bytes + Len(retained) <= MaxScopeBytes
    BY <1>1, <1>2, <2>2, RetainedFits
  <2> HIDE DEF retained
  <2>4. \A t \in ScopeIds : scope'[t].retained_bytes <= MaxScopeBytes
    BY <1>2, <1>3, <2>1, <2>3 DEF ScopeStates
  <2> QED  BY <1>2, <2>1, <2>4 DEF Limits
<1>9. ASSUME NEW s, NEW k, NEW buf, NEW resume, DispatchBytes(s, k, buf, resume),
             UNCHANGED <<open, candidates>>
      PROVE  Limits'
  <2>1. \A t \in ScopeIds : scope'[t].retained_bytes = scope[t].retained_bytes
    <3>1. CASE TrimEnd(buf.bytes) = <<>>
      BY <1>9, <3>1 DEF DispatchBytes
    <3>2. CASE TrimEnd(buf.bytes) # <<>>
      <4>1. PICK number, cut :
              scope' = [scope EXCEPT ![s].stream_lines[k] = number, ![s].truncated = cut]
        BY <1>9, <3>2 DEF DispatchBytes
      <4> QED  BY <1>3, <4>1 DEF ScopeStates
    <3> QED  BY <3>1, <3>2
  <2> QED  BY <1>2, <1>9, <2>1 DEF Limits
<1>10. CASE FrameByte
  <2>1. /\ UNCHANGED <<open, candidates>>
        /\ \/ DispatchBytes(call.scope, call.stream, buffer[call.scope][call.stream], "frame")
           \/ UNCHANGED scope
    BY <1>10 DEF FrameByte, storeVars
  <2> QED  BY <1>6, <1>9, <2>1
<1>11. ASSUME NEW k \in Streams, FlushBuffer(k)
       PROVE  Limits'
  <2>1. /\ UNCHANGED <<open, candidates>>
        /\ \/ DispatchBytes(call.scope, k, buffer[call.scope][k], "flush")
           \/ UNCHANGED scope
    BY <1>11 DEF FlushBuffer, storeVars
  <2> QED  BY <1>6, <1>9, <2>1
<1>12. CASE CloseScope
  <2>1. /\ open' = open \ {call.scope}
        /\ scope' = [scope EXCEPT ![call.scope] = FreshScope]
        /\ candidates' = candidates
    BY <1>12 DEF CloseScope, storeVars
  <2>2. IsFiniteSet(open') /\ Cardinality(open') <= MaxScopes
    <3>1. /\ IsFiniteSet(open')
          /\ Cardinality(open') = IF call.scope \in open THEN Cardinality(open) - 1
                                  ELSE Cardinality(open)
      BY <1>2, <2>1, FS_RemoveElement
    <3> QED  BY <1>2, <1>4, <3>1, SessionAssumption
  <2>3. \A t \in ScopeIds : scope'[t].retained_bytes <= MaxScopeBytes
    BY <1>2, <1>3, <1>5, <2>1
  <2> QED  BY <1>2, <2>1, <2>2, <2>3 DEF Limits
<1>13. CASE ParserEmits
  <2>1. PICK kind \in {"diagnostic", "test_failure"},
             provenance \in {EngineProvenance, OwnProvenance} : Emit(kind, provenance)
    BY <1>13 DEF ParserEmits
  <2>2. UNCHANGED <<open, scope>>
    BY <2>1 DEF Emit, scopeVars
  <2>3. Len(candidates') <= MaxCandidates
    <3>1. CASE Full
      BY <1>2, <2>1, <3>1 DEF Emit
    <3>2. CASE ~Full
      <4>1. candidates' = Append(candidates, [kind |-> kind, provenance |-> provenance])
        BY <2>1, <3>2 DEF Emit
      <4>2. Len(candidates') = Len(candidates) + 1
        BY <1>3, <4>1
      <4> QED  BY <1>3, <3>2, <4>2, SessionAssumption DEF Full
    <3> QED  BY <3>1, <3>2
  <2> QED  BY <1>2, <2>2, <2>3 DEF Limits
<1>14. ASSUME NEW s \in ScopeIds,
              RejectScope(s) \/ \E reason \in Reasons : EndScope(s, reason)
       PROVE  UNCHANGED <<open, scope, candidates>>
  BY <1>14 DEF RejectScope, EndScope, StartEnd, scopeVars, storeVars
<1>15. ASSUME \/ PushReturns \/ ParserReturns \/ LineObserved \/ BeginReturns
              \/ EndReturns \/ Finish \/ InterruptNextScope \/ FinishParsers
              \/ FinishReturns \/ ParserDrops \/ UNCHANGED vars
       PROVE  UNCHANGED <<open, scope, candidates>>
  BY <1>15
  DEF PushReturns, ParserReturns, LineObserved, BeginReturns, EndReturns, Finish,
      InterruptNextScope, StartEnd, FinishParsers, FinishReturns, ParserDrops, vars,
      scopeVars, storeVars
<1> QED
  BY <1>6, <1>7, <1>8, <1>10, <1>11, <1>12, <1>13, <1>14, <1>15
  DEF Next, CallerNext, SessionNext, Finished

----------------------------------------------------------------------------
(* Retained bytes *)

LEMMA RetainedInit == Init => RetainedIsPrefix
  BY DEF Init, RetainedIsPrefix

LEMMA RetainedStep == IInv /\ RetainedIsPrefix /\ [Next]_vars => RetainedIsPrefix'
PROOF
<1> SUFFICES ASSUME IInv, RetainedIsPrefix, [Next]_vars
             PROVE  RetainedIsPrefix'
  OBVIOUS
<1>1. TypeOK
  BY DEF IInv
<1>2. /\ scope \in [ScopeIds -> ScopeStates] /\ offered \in [ScopeIds -> Nat]
      /\ open \subseteq ScopeIds
  BY <1>1 DEF TypeOK
<1>3. \A s \in open :
        /\ scope[s].retained_bytes =
             IF offered[s] <= MaxScopeBytes THEN offered[s] ELSE MaxScopeBytes
        /\ offered[s] > MaxScopeBytes => scope[s].truncated
  BY DEF RetainedIsPrefix
<1>4. ASSUME UNCHANGED <<open, scope, offered>>
      PROVE  RetainedIsPrefix'
  BY <1>3, <1>4 DEF RetainedIsPrefix
<1>5. ASSUME NEW s \in ScopeIds, BeginScope(s)
      PROVE  RetainedIsPrefix'
  <2>1. /\ open' = open \cup {s}
        /\ scope' = [scope EXCEPT ![s] = FreshScope]
        /\ offered' = [offered EXCEPT ![s] = 0]
    BY <1>5 DEF BeginScope
  <2>2. FreshScope.retained_bytes = 0
    BY DEF FreshScope
  <2>3. \A t \in open \ {s} : scope'[t] = scope[t] /\ offered'[t] = offered[t]
    BY <1>2, <2>1
  <2>4. scope'[s].retained_bytes = 0 /\ offered'[s] = 0
    BY <1>2, <2>1, <2>2
  <2> QED  BY <1>3, <2>1, <2>3, <2>4, SessionAssumption DEF RetainedIsPrefix
<1>6. ASSUME NEW s \in ScopeIds, NEW k \in Streams, NEW chunk \in Chunks,
             PushChunk(s, k, chunk)
      PROVE  RetainedIsPrefix'
  <2> DEFINE retained == Retained(s, chunk)
  <2>1. /\ open' = open /\ s \in open
        /\ scope' = [scope EXCEPT
                       ![s].retained_bytes = @ + Len(retained),
                       ![s].truncated = @ \/ Len(retained) < Len(chunk)]
        /\ offered' = [offered EXCEPT ![s] = @ + Len(chunk)]
    BY <1>6 DEF PushChunk
  <2>2. chunk \in Seq(Bytes)
    BY SessionAssumption DEF Chunks, BoundedSeq, SeqOf
  <2>3. /\ scope[s].retained_bytes \in 0..MaxScopeBytes
        /\ scope[s].truncated \in BOOLEAN
    <3>1. scope[s].retained_bytes \in Nat /\ scope[s].truncated \in BOOLEAN
      BY <1>2 DEF ScopeStates
    <3>2. offered[s] \in Nat
      BY <1>2
    <3> QED  BY <1>3, <2>1, <3>1, <3>2, SessionAssumption
  <2>4. Len(retained) = IF Len(chunk) <= Available(s) THEN Len(chunk) ELSE Available(s)
    <3> DEFINE n == IF Len(chunk) <= Available(s) THEN Len(chunk) ELSE Available(s)
    <3>1. n \in 0..Len(chunk)
      BY <2>2, <2>3, SessionAssumption DEF Available
    <3>2. \A i \in 1..n : chunk[i] \in Bytes
      BY <2>2, <3>1
    <3> QED  BY <3>1, <3>2, SubSeqProperties DEF Retained
  <2> HIDE DEF retained
  <2>5. /\ Len(chunk) \in Nat /\ offered[s] \in Nat
        /\ Available(s) = MaxScopeBytes - scope[s].retained_bytes
    BY <1>2, <2>1, <2>2 DEF Available
  <2>6. /\ scope'[s].retained_bytes = scope[s].retained_bytes + Len(retained)
        /\ scope'[s].truncated = (scope[s].truncated \/ Len(retained) < Len(chunk))
        /\ offered'[s] = offered[s] + Len(chunk)
    BY <1>2, <2>1 DEF ScopeStates
  <2>7. \A t \in open \ {s} : scope'[t] = scope[t] /\ offered'[t] = offered[t]
    BY <1>2, <2>1
  <2>8. /\ scope'[s].retained_bytes =
             IF offered'[s] <= MaxScopeBytes THEN offered'[s] ELSE MaxScopeBytes
        /\ offered'[s] > MaxScopeBytes => scope'[s].truncated
    <3> DEFINE r == scope[s].retained_bytes
               o == offered[s]
               c == Len(chunk)
               n == Len(retained)
    <3>1. /\ r \in 0..MaxScopeBytes /\ o \in Nat /\ c \in Nat /\ MaxScopeBytes \in Nat
          /\ r = IF o <= MaxScopeBytes THEN o ELSE MaxScopeBytes
          /\ n = IF c <= MaxScopeBytes - r THEN c ELSE MaxScopeBytes - r
      BY <1>3, <2>1, <2>3, <2>4, <2>5, SessionAssumption
    <3> HIDE DEF r, o, c, n
    <3>2. /\ r + n = IF o + c <= MaxScopeBytes THEN o + c ELSE MaxScopeBytes
          /\ o + c > MaxScopeBytes => o > MaxScopeBytes \/ n < c
      BY <3>1
    <3>3. o > MaxScopeBytes => scope[s].truncated
      BY <1>3, <2>1 DEF o
    <3>4. /\ scope'[s].retained_bytes = r + n
          /\ scope'[s].truncated = (scope[s].truncated \/ n < c)
          /\ offered'[s] = o + c
      BY <2>6 DEF r, o, c, n
    <3>5. offered'[s] > MaxScopeBytes => scope'[s].truncated
      BY <3>2, <3>3, <3>4
    <3> QED  BY <3>2, <3>4, <3>5
  <2>9. ASSUME NEW t \in open
        PROVE  /\ scope'[t].retained_bytes =
                    IF offered'[t] <= MaxScopeBytes THEN offered'[t] ELSE MaxScopeBytes
               /\ offered'[t] > MaxScopeBytes => scope'[t].truncated
    <3>1. CASE t = s
      BY <2>8, <3>1
    <3>2. CASE t # s
      BY <1>3, <2>7, <3>2
    <3> QED  BY <3>1, <3>2
  <2> QED  BY <2>1, <2>9 DEF RetainedIsPrefix
<1>7. ASSUME NEW s, NEW k, NEW buf, NEW resume, DispatchBytes(s, k, buf, resume),
             UNCHANGED <<open, offered>>
      PROVE  RetainedIsPrefix'
  <2>1. \A t \in ScopeIds :
          /\ scope'[t].retained_bytes = scope[t].retained_bytes
          /\ scope[t].truncated => scope'[t].truncated
    <3>1. CASE TrimEnd(buf.bytes) = <<>>
      BY <1>7, <3>1 DEF DispatchBytes
    <3>2. CASE TrimEnd(buf.bytes) # <<>>
      <4>1. PICK number :
              scope' = [scope EXCEPT ![s].stream_lines[k] = number,
                                     ![s].truncated = @ \/ buf.truncated]
        BY <1>7, <3>2 DEF DispatchBytes
      <4> QED  BY <1>2, <4>1 DEF ScopeStates
    <3> QED  BY <3>1, <3>2
  <2> QED  BY <1>2, <1>3, <1>7, <2>1 DEF RetainedIsPrefix
<1>8. CASE FrameByte
  <2>1. /\ UNCHANGED <<open, offered>>
        /\ \/ DispatchBytes(call.scope, call.stream, buffer[call.scope][call.stream], "frame")
           \/ UNCHANGED scope
    BY <1>8 DEF FrameByte
  <2> QED  BY <1>4, <1>7, <2>1
<1>9. ASSUME NEW k \in Streams, FlushBuffer(k)
      PROVE  RetainedIsPrefix'
  <2>1. /\ UNCHANGED <<open, offered>>
        /\ \/ DispatchBytes(call.scope, k, buffer[call.scope][k], "flush")
           \/ UNCHANGED scope
    BY <1>9 DEF FlushBuffer
  <2> QED  BY <1>4, <1>7, <2>1
<1>10. CASE CloseScope
  <2>1. /\ open' = open \ {call.scope}
        /\ scope' = [scope EXCEPT ![call.scope] = FreshScope]
        /\ offered' = offered
    BY <1>10 DEF CloseScope
  <2>2. \A t \in open' : scope'[t] = scope[t]
    BY <1>2, <2>1
  <2> QED  BY <1>3, <2>1, <2>2 DEF RetainedIsPrefix
<1>11. ASSUME NEW s \in ScopeIds,
              RejectScope(s) \/ \E reason \in Reasons : EndScope(s, reason)
       PROVE  UNCHANGED <<open, scope, offered>>
  BY <1>11 DEF RejectScope, EndScope, StartEnd, scopeVars, history
<1>12. ASSUME \/ PushReturns \/ ParserReturns \/ LineObserved \/ BeginReturns
              \/ EndReturns \/ Finish \/ InterruptNextScope \/ FinishParsers
              \/ FinishReturns
       PROVE  UNCHANGED <<open, scope, offered>>
  BY <1>12
  DEF PushReturns, ParserReturns, LineObserved, BeginReturns, EndReturns, Finish,
      InterruptNextScope, StartEnd, FinishParsers, FinishReturns, scopeVars, history
<1>13. ASSUME ParserEmits \/ ParserDrops \/ UNCHANGED vars
       PROVE  UNCHANGED <<open, scope, offered>>
  BY <1>13 DEF ParserEmits, Emit, ParserDrops, vars, scopeVars, history
<1> QED
  BY <1>4, <1>5, <1>6, <1>8, <1>9, <1>10, <1>11, <1>12, <1>13
  DEF Next, CallerNext, SessionNext, Finished

----------------------------------------------------------------------------
(* The theorems on single states *)

(* The inductive invariant: the session's types, its control, its line     *)
(* buffers and its limits.                                                 *)
THEOREM Invariant == Spec => [](IInv /\ Limits)
PROOF
<1>1. Init => IInv /\ Limits
  <2>1. Init => Control
    BY DEF Init, Control, NoCall
  <2> QED  BY <2>1, TypeInit, BufferInit, LimitsInit DEF IInv
<1>2. IInv /\ Limits /\ [Next]_vars => (IInv /\ Limits)'
  BY TypeStep, ControlStep, BufferStep, LimitsStep DEF IInv
<1> QED  BY <1>1, <1>2, PTL DEF Spec

(* Every variable of the session keeps its type. *)
THEOREM TypeCorrect == Spec => []TypeOK
PROOF
<1>1. IInv => TypeOK
  BY DEF IInv
<1> QED  BY <1>1, Invariant, PTL

(* The four Limits hold in every step of every call (session.rs).          *)
THEOREM LimitsAlwaysHold == Spec => []LimitsHold
PROOF
<1>1. IInv /\ Limits => LimitsHold
  <2> SUFFICES ASSUME IInv, Limits
               PROVE  LimitsHold
    OBVIOUS
  <2>1. \A s \in open : s \in ScopeIds
    BY DEF IInv, TypeOK
  <2>2. ASSUME NEW s \in ScopeIds, NEW k \in Streams
        PROVE  Len(buffer[s][k].bytes) <= MaxLineBytes
    <3>1. feed[s][k] \in Seq(Bytes \cup {"eof"})
      BY DEF IInv, TypeOK
    <3>2. OpenLine(feed[s][k]) \in Seq(Bytes \cup {"eof"})
      BY <3>1, OpenLineType
    <3>3. buffer[s][k].bytes = Kept(OpenLine(feed[s][k]))
      BY DEF IInv, BufferIsOpenLine, HoldsOpenLine
    <3> QED  BY <3>2, <3>3, KeptBound, LinesAssumption
  <2> QED  BY <2>1, <2>2 DEF Limits, LimitsHold
<1> QED  BY <1>1, Invariant, PTL

(* However input is cut into chunks, the first MaxScopeBytes bytes of a    *)
(* scope are retained, and no byte is refused without a mark (push_chunk). *)
THEOREM RetainedAlwaysPrefix == Spec => []RetainedIsPrefix
  BY RetainedInit, RetainedStep, Invariant, PTL DEF Spec

(* No finding a parser emitted is dropped without being counted and        *)
(* reported (Emitter, finish).                                             *)
THEOREM NothingDroppedSilently == Spec => []NothingSilentlyDropped
PROOF
<1>1. Init => NothingSilentlyDropped
  BY DEF Init, NothingSilentlyDropped
<1>2. TypeOK /\ NothingSilentlyDropped /\ [Next]_vars => NothingSilentlyDropped'
  <2> SUFFICES ASSUME TypeOK, NothingSilentlyDropped, [Next]_vars
               PROVE  NothingSilentlyDropped'
    OBVIOUS
  <2>1. /\ candidates \in Seq(Candidates) /\ dropped \in Nat /\ emissions \in Nat
        /\ stats \in Stats
        /\ emissions = Len(candidates) + dropped
    BY DEF TypeOK, NothingSilentlyDropped
  <2>2. CASE FinishReturns
    <3>1. /\ stats' = [stats EXCEPT !.candidates_emitted = Len(candidates),
                                    !.candidates_dropped = @ + dropped]
          /\ truncated' = ReportsTruncation(stats')
          /\ UNCHANGED <<candidates, dropped, emissions>>
      BY <2>2 DEF FinishReturns, storeVars, history
    <3>2. /\ stats'.candidates_emitted = Len(candidates)
          /\ stats'.candidates_dropped = stats.candidates_dropped + dropped
      BY <2>1, <3>1 DEF Stats
    <3>3. emissions > Len(candidates) => truncated'
      <4>1. stats.candidates_dropped \in Nat
        BY <2>1 DEF Stats
      <4>2. emissions > Len(candidates) => stats'.candidates_dropped > 0
        BY <2>1, <3>2, <4>1
      <4> QED  BY <3>1, <4>2 DEF ReportsTruncation
    <3> QED  BY <2>1, <3>1, <3>2, <3>3 DEF NothingSilentlyDropped
  <2>3. ASSUME UNCHANGED <<candidates, dropped, emissions>>, pc' # "done"
        PROVE  NothingSilentlyDropped'
    BY <2>1, <2>3 DEF NothingSilentlyDropped
  <2>4. CASE ParserEmits \/ ParserDrops
    <3>1. pc' = pc /\ pc # "done"
      BY <2>4 DEF ParserEmits, Emit, ParserDrops, InCallback, callVars
    <3>2. emissions' = Len(candidates') + dropped'
      <4>1. \/ /\ candidates' = candidates
               /\ dropped' = dropped + 1
               /\ emissions' = emissions + 1
            \/ \E c : /\ candidates' = Append(candidates, c)
                      /\ dropped' = dropped
                      /\ emissions' = emissions + 1
        BY <2>4 DEF ParserEmits, Emit, ParserDrops
      <4>2. \A c : Len(Append(candidates, c)) = Len(candidates) + 1
        BY <2>1
      <4> QED  BY <2>1, <4>1, <4>2
    <3> QED  BY <3>1, <3>2 DEF NothingSilentlyDropped
  <2>5. ASSUME NEW s, NEW k, NEW buf, NEW resume, DispatchBytes(s, k, buf, resume),
               resume # "done"
        PROVE  pc' # "done"
    BY <2>5 DEF DispatchBytes
  <2>6. CASE FrameByte
    <3>1. /\ UNCHANGED <<candidates, dropped, emissions>> /\ pc = "frame"
          /\ \/ DispatchBytes(call.scope, call.stream, buffer[call.scope][call.stream], "frame")
             \/ UNCHANGED pc
      BY <2>6 DEF FrameByte, storeVars
    <3> QED  BY <2>3, <2>5, <3>1
  <2>7. ASSUME NEW k \in Streams, FlushBuffer(k)
        PROVE  NothingSilentlyDropped'
    <3>1. /\ UNCHANGED <<candidates, dropped, emissions>> /\ pc = "flush"
          /\ \/ DispatchBytes(call.scope, k, buffer[call.scope][k], "flush")
             \/ UNCHANGED pc
      BY <2>7 DEF FlushBuffer, storeVars
    <3> QED  BY <2>3, <2>5, <3>1
  <2>8. ASSUME NEW s \in ScopeIds,
               \/ RejectScope(s)
               \/ BeginScope(s)
               \/ \E k \in Streams, chunk \in Chunks : PushChunk(s, k, chunk)
               \/ \E reason \in Reasons : EndScope(s, reason)
        PROVE  UNCHANGED <<candidates, dropped, emissions>> /\ pc' # "done"
    BY <2>8
    DEF RejectScope, BeginScope, PushChunk, EndScope, StartEnd, callVars, storeVars, history
  <2>9. ASSUME \/ PushReturns \/ CloseScope \/ LineObserved \/ BeginReturns
               \/ EndReturns \/ Finish \/ InterruptNextScope \/ FinishParsers
               \/ ParserReturns
        PROVE  UNCHANGED <<candidates, dropped, emissions>> /\ pc' # "done"
    BY <2>9
    DEF PushReturns, CloseScope, LineObserved, BeginReturns, EndReturns, AfterEnd, Finish,
        InterruptNextScope, StartEnd, FinishParsers, ParserReturns, InCallback,
        storeVars, history
  <2>10. CASE UNCHANGED vars
    BY <2>10 DEF vars, callVars, storeVars, history, NothingSilentlyDropped
  <2> QED
    BY <2>2, <2>3, <2>4, <2>6, <2>7, <2>8, <2>9, <2>10
    DEF Next, CallerNext, SessionNext, Finished
<1> QED  BY <1>1, <1>2, TypeCorrect, PTL DEF Spec

----------------------------------------------------------------------------
(* The session implements the line feed *)

lost == {s \in open : scope[s].truncated}
numbers == [s \in ScopeIds |-> scope[s].stream_lines]

(* The operators on lines mean the same on both sides. *)
LEMMA SameLines ==
  /\ \A b : LineFeed!IsBreak(b) <=> IsBreak(b)
  /\ \A f : LineFeed!OpenLine(f) = OpenLine(f)
  /\ \A l : LineFeed!Kept(l) = Kept(l)
  /\ \A l : LineFeed!IsCut(l) = IsCut(l)
  /\ \A l : LineFeed!TrimEnd(l) = TrimEnd(l)
PROOF
<1>1. \A b : LineFeed!IsBreak(b) <=> IsBreak(b)
  BY DEF LineFeed!IsBreak, IsBreak
<1>2. \A f : LineFeed!OpenLine(f) = OpenLine(f)
  BY DEF LineFeed!OpenLine, OpenLine, LineFeed!IsBreak, IsBreak,
         LineFeed!SelectLastInSeq, SelectLastInSeq, LineFeed!Max, Max
<1>3. \A l : LineFeed!TrimEnd(l) = TrimEnd(l)
  BY DEF LineFeed!TrimEnd, TrimEnd, LineFeed!IsText, IsText,
         LineFeed!SelectLastInSeq, SelectLastInSeq, LineFeed!Max, Max
<1>4. \A l : LineFeed!Kept(l) = Kept(l)
  BY DEF LineFeed!Kept, Kept
<1>5. \A l : LineFeed!IsCut(l) = IsCut(l)
  BY DEF LineFeed!IsCut, IsCut
<1> QED  BY <1>1, <1>2, <1>3, <1>4, <1>5

(* Showing, or not showing, what a buffer holds when a line break reaches  *)
(* its stream is what the line feed does on receiving the break.           *)
LEMMA DispatchReceives ==
  ASSUME TypeOK,
         NEW s \in open, NEW k \in Streams, NEW b \in Bytes \cup {"eof"}, NEW resume,
         IsBreak(b),
         HoldsOpenLine(buffer[s][k], OpenLine(feed[s][k])),
         DispatchBytes(s, k, buffer[s][k], resume),
         feed' = [feed EXCEPT ![s][k] = Append(@, b)],
         open' = open
  PROVE  LineFeed!Receive(s, k, b)
PROOF
<1> DEFINE line == OpenLine(feed[s][k])
           buf == buffer[s][k]
           text == TrimEnd(buf.bytes)
<1>1. s \in ScopeIds /\ scope \in [ScopeIds -> ScopeStates] /\ open \subseteq ScopeIds
  BY DEF TypeOK
<1>2. buf.bytes = Kept(line) /\ buf.truncated = IsCut(line)
  BY DEF HoldsOpenLine
<1>3. CASE text = <<>>
  <2>1. UNCHANGED <<scope, next_ordinal, log>>
    BY <1>3 DEF DispatchBytes
  <2>2. ~(IsBreak(b) /\ TrimEnd(Kept(line)) # <<>>)
    BY <1>2, <1>3
  <2>3. UNCHANGED <<log, numbers, next_ordinal, lost>>
    BY <2>1 DEF numbers, lost
  <2> QED  BY <2>2, <2>3, SameLines DEF LineFeed!Receive, numbers, lost
<1>4. CASE text # <<>>
  <2> DEFINE number == scope[s].stream_lines[k] + 1
  <2>1. /\ scope' = [scope EXCEPT ![s].stream_lines[k] = number,
                                  ![s].truncated = @ \/ buf.truncated]
        /\ next_ordinal' = next_ordinal + 1
        /\ log' = Append(log, LineEvent(s, k, next_ordinal, number, text, buf.truncated))
    BY <1>4 DEF DispatchBytes
  <2>2. IsBreak(b) /\ TrimEnd(Kept(line)) # <<>>
    BY <1>2, <1>4
  <2>3. numbers[s][k] + 1 = number
    BY <1>1 DEF numbers
  <2>4. numbers' = [numbers EXCEPT ![s][k] = @ + 1]
    BY <1>1, <2>1 DEF numbers, ScopeStates
  <2>5. \A t \in ScopeIds :
          scope'[t].truncated = (scope[t].truncated \/ (t = s /\ buf.truncated))
    BY <1>1, <2>1 DEF ScopeStates
  <2> HIDE DEF line, buf, text, number
  <2>6. lost' = IF IsCut(line) THEN lost \cup {s} ELSE lost
    <3>1. IsCut(line) \in BOOLEAN
      BY DEF IsCut
    <3> QED  BY <1>1, <1>2, <2>5, <3>1 DEF lost
  <2>7. log' = Append(log, LineEvent(s, k, next_ordinal, numbers[s][k] + 1,
                                     TrimEnd(Kept(line)), IsCut(line)))
    BY <1>2, <2>1, <2>3 DEF text
  <2> QED  BY <2>1, <2>2, <2>4, <2>6, <2>7, SameLines
           DEF LineFeed!Receive, LineFeed!LineEvent, LineEvent, numbers, lost, line
<1> QED  BY <1>3, <1>4

LEMMA LineFeedInit == Init => LineFeed!Init
PROOF
<1> SUFFICES ASSUME Init
             PROVE  LineFeed!Init
  OBVIOUS
<1>1. lost = {}
  BY DEF Init, lost
<1>2. numbers = [s \in ScopeIds |-> [k \in Streams |-> 0]]
  BY DEF Init, numbers, FreshScope
<1> QED  BY <1>1, <1>2 DEF Init, LineFeed!Init, lost, numbers

LEMMA LineFeedStep == IInv /\ [Next]_vars => [LineFeed!Next]_LineFeed!vars
PROOF
<1> SUFFICES ASSUME IInv, [Next]_vars
             PROVE  LineFeed!Next \/ UNCHANGED LineFeed!vars
  OBVIOUS
<1>1. TypeOK /\ Control /\ BufferIsOpenLine
  BY DEF IInv
<1>2. /\ open \subseteq ScopeIds
      /\ call \in Calls
      /\ scope \in [ScopeIds -> ScopeStates]
      /\ feed \in [ScopeIds -> [Streams -> Seq(Bytes \cup {"eof"})]]
      /\ buffer \in [ScopeIds -> [Streams -> LineBuffers]]
  BY <1>1 DEF TypeOK
<1>3. ASSUME UNCHANGED <<open, feed, scope, next_ordinal, log>>
      PROVE  UNCHANGED LineFeed!vars
  BY <1>3 DEF LineFeed!vars
<1>4. ASSUME NEW s \in ScopeIds, BeginScope(s)
      PROVE  LineFeed!Begin(s)
  <2>1. /\ s \notin open
        /\ open' = open \cup {s}
        /\ scope' = [scope EXCEPT ![s] = FreshScope]
        /\ feed' = [feed EXCEPT ![s] = [k \in Streams |-> <<>>]]
        /\ log' = Append(log, BeginEvent(s))
        /\ next_ordinal' = next_ordinal
    BY <1>4 DEF BeginScope, Rejects
  <2>2. numbers' = [numbers EXCEPT ![s] = [k \in Streams |-> 0]]
    BY <1>2, <2>1 DEF numbers, FreshScope
  <2>3. lost' = lost \ {s}
    BY <1>2, <2>1 DEF lost, FreshScope
  <2> QED  BY <2>1, <2>2, <2>3
           DEF LineFeed!Begin, LineFeed!BeginEvent, BeginEvent, lost, numbers
<1>5. ASSUME NEW s \in ScopeIds, NEW k \in Streams, NEW chunk \in Chunks,
             PushChunk(s, k, chunk)
      PROVE  LineFeed!Lose(s) \/ UNCHANGED LineFeed!vars
  <2>1. /\ s \in open
        /\ UNCHANGED <<open, feed, log, next_ordinal>>
    BY <1>5 DEF PushChunk
  <2> DEFINE n == scope[s].retained_bytes + Len(Retained(s, chunk))
             cut == Len(Retained(s, chunk)) < Len(chunk)
  <2>2. scope' = [scope EXCEPT ![s].retained_bytes = n, ![s].truncated = @ \/ cut]
    BY <1>5 DEF PushChunk
  <2> HIDE DEF n, cut
  <2>3. numbers' = numbers
    BY <1>2, <2>2 DEF numbers, ScopeStates
  <2>4. \A t \in ScopeIds : scope'[t].truncated = (scope[t].truncated \/ (t = s /\ cut))
    BY <1>2, <2>2 DEF ScopeStates
  <2>5. CASE cut
    <3>1. lost' = lost \cup {s}
      BY <1>2, <2>1, <2>4, <2>5 DEF lost
    <3> QED  BY <2>1, <2>3, <3>1 DEF LineFeed!Lose, lost, numbers
  <2>6. CASE ~cut
    <3>1. lost' = lost
      BY <1>2, <2>1, <2>4, <2>6 DEF lost
    <3> QED  BY <2>1, <2>3, <3>1 DEF LineFeed!vars, lost, numbers
  <2> QED  BY <2>5, <2>6
<1>6. ASSUME FrameByte
      PROVE  \E s \in ScopeIds, k \in Streams, b \in Bytes \cup {"eof"} :
               LineFeed!Receive(s, k, b)
  <2>1. pc = "frame" /\ call.rest # <<>>
    BY <1>6 DEF FrameByte
  <2>2. call.scope \in open /\ call.scope \in ScopeIds /\ call.stream \in Streams
    BY <1>1, <1>2, <2>1 DEF Control
  <2>3. Head(call.rest) \in Bytes
    BY <1>2, <2>1, HeadTailProperties DEF Calls
  <2>4. PICK cs \in ScopeIds, ck \in Streams, cb \in Bytes :
          cs = call.scope /\ ck = call.stream /\ cb = Head(call.rest)
    BY <2>2, <2>3
  <2>5. /\ open' = open /\ cs \in open
        /\ feed' = [feed EXCEPT ![cs][ck] = Append(@, cb)]
        /\ IF IsBreak(cb) /\ ~Swallows(buffer[cs][ck], cb)
           THEN DispatchBytes(cs, ck, buffer[cs][ck], "frame")
           ELSE UNCHANGED <<scope, next_ordinal, log>>
    BY <1>6, <2>2, <2>4 DEF FrameByte
  <2>6. HoldsOpenLine(buffer[cs][ck], OpenLine(feed[cs][ck]))
    BY <1>1, <2>5 DEF BufferIsOpenLine
  <2>7. cb \in Bytes \cup {"eof"}
    OBVIOUS
  <2>8. CASE IsBreak(cb) /\ ~Swallows(buffer[cs][ck], cb)
    <3>1. LineFeed!Receive(cs, ck, cb)
      BY <1>1, <2>5, <2>6, <2>7, <2>8, DispatchReceives
    <3> QED  BY <2>7, <3>1
  <2>9. CASE ~(IsBreak(cb) /\ ~Swallows(buffer[cs][ck], cb))
    <3>1. ~(IsBreak(cb) /\ TrimEnd(Kept(OpenLine(feed[cs][ck]))) # <<>>)
      <4>1. CASE ~IsBreak(cb)
        BY <4>1
      <4>2. CASE Swallows(buffer[cs][ck], cb)
        <5>1. OpenLine(feed[cs][ck]) = <<>>
          BY <2>6, <4>2 DEF Swallows, HoldsOpenLine
        <5> QED  BY <5>1, EmptyLine, LinesAssumption
      <4> QED  BY <2>9, <4>1, <4>2
    <3>2. UNCHANGED <<open, scope, next_ordinal, log>>
      BY <2>5, <2>9
    <3>3. UNCHANGED <<log, numbers, next_ordinal, lost>>
      BY <3>2 DEF numbers, lost
    <3>4. LineFeed!Receive(cs, ck, cb)
      BY <2>5, <3>1, <3>3, SameLines DEF LineFeed!Receive, numbers, lost
    <3> QED  BY <2>7, <3>4
  <2> QED  BY <2>8, <2>9
<1>7. ASSUME NEW k \in Streams, FlushBuffer(k)
      PROVE  \E s \in ScopeIds : LineFeed!Receive(s, k, "eof")
  <2> DEFINE s == call.scope
  <2>1. /\ pc = "flush" /\ open' = open
        /\ feed' = [feed EXCEPT ![s][k] = Append(@, "eof")]
        /\ IF buffer[s][k].bytes # <<>> \/ buffer[s][k].truncated
           THEN DispatchBytes(s, k, buffer[s][k], "flush")
           ELSE UNCHANGED <<scope, next_ordinal, log>>
    BY <1>7 DEF FlushBuffer
  <2>2. s \in open /\ s \in ScopeIds
    BY <1>1, <1>2, <2>1 DEF Control
  <2>3. HoldsOpenLine(buffer[s][k], OpenLine(feed[s][k]))
    BY <1>1, <2>2 DEF BufferIsOpenLine
  <2> HIDE DEF s
  <2>4. IsBreak("eof") /\ "eof" \in Bytes \cup {"eof"}
    BY DEF IsBreak
  <2>5. LineFeed!Receive(s, k, "eof")
    <3>1. CASE buffer[s][k].bytes # <<>> \/ buffer[s][k].truncated
      BY <1>1, <2>1, <2>2, <2>3, <2>4, <3>1, DispatchReceives
    <3>2. CASE ~(buffer[s][k].bytes # <<>> \/ buffer[s][k].truncated)
      <4>1. TrimEnd(Kept(OpenLine(feed[s][k]))) = <<>>
        BY <2>3, <3>2, EmptyLine, LinesAssumption DEF HoldsOpenLine
      <4>2. UNCHANGED <<numbers, lost, next_ordinal, log>>
        BY <2>1, <3>2 DEF numbers, lost
      <4> QED  BY <2>1, <2>2, <4>1, <4>2, SameLines DEF LineFeed!Receive, numbers, lost
    <3> QED  BY <3>1, <3>2
  <2> QED  BY <2>2, <2>5
<1>8. ASSUME CloseScope
      PROVE  \E s \in ScopeIds, reason \in EndReasons : LineFeed!End(s, reason)
  <2>1. /\ pc = "flush" /\ call.flushing = {}
        /\ call.scope \in open /\ call.scope \in ScopeIds
        /\ call.reason \in EndReasons
    BY <1>1, <1>2, <1>8 DEF CloseScope, Control, Calls
  <2>2. PICK cs \in ScopeIds, cr \in EndReasons : cs = call.scope /\ cr = call.reason
    BY <2>1
  <2>3. /\ cs \in open
        /\ open' = open \ {cs}
        /\ scope' = [scope EXCEPT ![cs] = FreshScope]
        /\ log' = Append(log, EndEvent(cs, EffectiveReason(scope[cs], cr),
                                       scope[cs].truncated))
        /\ UNCHANGED <<feed, next_ordinal>>
        /\ \A k \in Streams : buffer[cs][k] = EmptyBuffer
    BY <1>1, <1>8, <2>1, <2>2 DEF CloseScope, Control
  <2>4. \A k \in Streams : OpenLine(feed[cs][k]) = <<>>
    <3> SUFFICES ASSUME NEW k \in Streams
                 PROVE  OpenLine(feed[cs][k]) = <<>>
      OBVIOUS
    <3>1. OpenLine(feed[cs][k]) \in Seq(Bytes \cup {"eof"})
      BY <1>2, <2>3, OpenLineType
    <3>2. Kept(OpenLine(feed[cs][k])) = <<>> /\ ~IsCut(OpenLine(feed[cs][k]))
      BY <1>1, <2>3 DEF BufferIsOpenLine, HoldsOpenLine, EmptyBuffer
    <3> QED  BY <3>1, <3>2, KeptEmpty, LinesAssumption
  <2>5. /\ cs \in lost <=> scope[cs].truncated
        /\ (cs \in lost) = scope[cs].truncated
    BY <1>2, <2>3 DEF lost, ScopeStates
  <2>6. lost' = lost \ {cs}
    BY <1>2, <2>3 DEF lost
  <2>7. numbers' = [numbers EXCEPT ![cs] = [k \in Streams |-> 0]]
    BY <1>2, <2>3 DEF numbers, FreshScope
  <2>8. EndEvent(cs, EffectiveReason(scope[cs], cr), scope[cs].truncated) =
          EndEvent(cs, IF cs \in lost /\ cr = "Complete" THEN "Truncated" ELSE cr,
                   cs \in lost)
    BY <2>5 DEF EffectiveReason
  <2>9. LineFeed!End(cs, cr)
    BY <2>3, <2>4, <2>6, <2>7, <2>8, SameLines
    DEF LineFeed!End, LineFeed!EndEvent, EndEvent, lost, numbers
  <2> QED  BY <2>9
<1>9. ASSUME NEW s \in ScopeIds,
             RejectScope(s) \/ \E reason \in Reasons : EndScope(s, reason)
      PROVE  UNCHANGED LineFeed!vars
  BY <1>3, <1>9 DEF RejectScope, EndScope, StartEnd, scopeVars, history
<1>10. ASSUME \/ PushReturns \/ ParserReturns \/ LineObserved \/ BeginReturns
              \/ EndReturns \/ Finish \/ InterruptNextScope \/ FinishParsers
              \/ FinishReturns
       PROVE  UNCHANGED LineFeed!vars
  <2>1. UNCHANGED <<open, feed, scope, next_ordinal, log>>
    BY <1>10
    DEF PushReturns, ParserReturns, LineObserved, BeginReturns, EndReturns, Finish,
        InterruptNextScope, StartEnd, FinishParsers, FinishReturns, scopeVars, history
  <2> QED  BY <1>3, <2>1
<1>11. ASSUME ParserEmits \/ ParserDrops \/ UNCHANGED vars
       PROVE  UNCHANGED LineFeed!vars
  <2>1. UNCHANGED <<open, feed, scope, next_ordinal, log>>
    BY <1>11 DEF ParserEmits, Emit, ParserDrops, vars, scopeVars, history
  <2> QED  BY <1>3, <2>1
<1> HIDE DEF LineFeed!vars
<1> QED
  BY <1>4, <1>5, <1>6, <1>7, <1>8, <1>9, <1>10, <1>11
  DEF Next, CallerNext, SessionNext, Finished, LineFeed!Next, LineFeed!EndReasons, EndReasons

(* Whatever the chunks, the limits and the number of streams and scopes, a *)
(* session shows its parsers what the line feed shows: lines depend on the *)
(* retained bytes of each stream only (push_chunk, end_scope, finish).     *)
THEOREM SessionImplementsLineFeed == Spec => ImplementsLineFeed
PROOF
<1>1. Init => LineFeed!Init
  BY LineFeedInit
<1>2. IInv /\ [Next]_vars => [LineFeed!Next]_LineFeed!vars
  BY LineFeedStep
<1>3. Spec => []IInv
  BY Invariant, PTL
<1> QED  BY <1>1, <1>2, <1>3, PTL DEF Spec, ImplementsLineFeed, LineFeed!Spec

----------------------------------------------------------------------------
(* What parsers are shown: every scope is bracketed by its Begin and End,  *)
(* its lines are the split of the bytes retained of it, its End tells      *)
(* whether any were lost, and the provenance stamped on a finding names a  *)
(* line or a boundary that was shown.                                      *)

----------------------------------------------------------------------------
(* The log between steps *)

(* Before position i of l, scope s was begun and not ended since. *)
Inside(l, i, s) ==
  \E p \in 1..(i - 1) :
    l[p] = BeginEvent(s) /\ \A j \in (p + 1)..(i - 1) : ~IsBoundaryOf(s, l[j])

LogBracketed ==
  \A i \in DOMAIN log : Inside(log, i, log[i].scope) <=> log[i].type # "begin"

(* A step shows parsers nothing, or one event of the scope of its call. *)
ShowsNothing ==
  /\ UNCHANGED <<open, log>>
  /\ pc' \in {"observe", "begun", "ended"} => pc' = pc /\ call'.scope = call.scope
ShowsBegin(s) ==
  /\ s \notin open
  /\ open' = open \cup {s}
  /\ log' = Append(log, BeginEvent(s))
  /\ pc' = "begun"
  /\ call'.scope = s
ShowsLine(s, e) ==
  /\ s \in open
  /\ open' = open
  /\ e \in Events
  /\ e.type = "line" /\ e.scope = s
  /\ log' = Append(log, e)
  /\ pc' = "observe"
  /\ call'.scope = s
ShowsEnd(s, e) ==
  /\ s \in open
  /\ open' = open \ {s}
  /\ e \in Events
  /\ e.type = "end" /\ e.scope = s
  /\ log' = Append(log, e)
  /\ pc' = "ended"
  /\ call'.scope = s

Shows ==
  \/ ShowsNothing
  \/ \E s \in ScopeIds : ShowsBegin(s)
  \/ \E s \in ScopeIds, e \in Events : ShowsLine(s, e) \/ ShowsEnd(s, e)

LEMMA DispatchShows ==
  ASSUME IInv, NEW s \in open, NEW k \in Streams, NEW resume \in {"frame", "flush"},
         DispatchBytes(s, k, buffer[s][k], resume), call'.scope = s, open' = open
  PROVE  ShowsNothing \/ \E e \in Events : ShowsLine(s, e)
PROOF
<1> DEFINE buf == buffer[s][k]
           event == LineEvent(s, k, next_ordinal, scope[s].stream_lines[k] + 1,
                              TrimEnd(buf.bytes), buf.truncated)
<1>1. CASE TrimEnd(buf.bytes) = <<>>
  BY <1>1 DEF DispatchBytes, ShowsNothing
<1>2. CASE TrimEnd(buf.bytes) # <<>>
  <2>1. log' = Append(log, event) /\ pc' = "observe"
    BY <1>2 DEF DispatchBytes
  <2>2. event \in Events
    <3>1. /\ s \in ScopeIds
          /\ next_ordinal \in Nat
          /\ scope \in [ScopeIds -> ScopeStates]
          /\ buffer \in [ScopeIds -> [Streams -> LineBuffers]]
      BY DEF IInv, TypeOK
    <3>2. scope[s].stream_lines[k] \in Nat
      BY <3>1 DEF ScopeStates
    <3>3. buf.bytes \in Seq(Bytes) /\ buf.truncated \in BOOLEAN
      BY <3>1 DEF LineBuffers
    <3>4. TrimEnd(buf.bytes) \in Seq(Bytes)
      BY <3>3, TrimEndType
    <3>5. scope[s].stream_lines[k] + 1 \in Nat \ {0}
      BY <3>2
    <3> HIDE DEF buf
    <3> QED  BY <3>1, <3>3, <3>4, <3>5, EventsTyped
  <2>3. event.type = "line" /\ event.scope = s
    BY DEF LineEvent
  <2> HIDE DEF event
  <2> QED  BY <2>1, <2>2, <2>3 DEF ShowsLine
<1> QED  BY <1>1, <1>2

LEMMA StepShows == IInv /\ [Next]_vars => Shows
PROOF
<1> SUFFICES ASSUME IInv, [Next]_vars
             PROVE  Shows
  OBVIOUS
<1>t. /\ call \in Calls /\ open \subseteq ScopeIds /\ Control
      /\ scope \in [ScopeIds -> ScopeStates]
  BY DEF IInv, TypeOK
<1>n. ShowsNothing => Shows
  BY DEF Shows
<1>1. ASSUME NEW s \in ScopeIds,
             \/ RejectScope(s)
             \/ \E k \in Streams, chunk \in Chunks : PushChunk(s, k, chunk)
             \/ \E reason, finishing : StartEnd(s, reason, finishing)
      PROVE  ShowsNothing
  BY <1>1
  DEF RejectScope, PushChunk, StartEnd, ShowsNothing, callVars, scopeVars, history
<1>2. ASSUME NEW s \in ScopeIds, BeginScope(s)
      PROVE  ShowsBegin(s)
  BY <1>2 DEF BeginScope, Rejects, NoCall, ShowsBegin
<1>3. CASE FrameByte
  <2>1. /\ pc = "frame" /\ open' = open
        /\ call' = [call EXCEPT !.rest = Tail(@)]
        /\ \/ DispatchBytes(call.scope, call.stream, buffer[call.scope][call.stream], "frame")
           \/ UNCHANGED <<pc, log>>
    BY <1>3 DEF FrameByte
  <2>2. call'.scope = call.scope
    BY <1>t, <2>1 DEF Calls
  <2>3. call.scope \in open /\ call.stream \in Streams
    BY <1>t, <2>1 DEF Control
  <2>4. CASE UNCHANGED <<pc, log>>
    BY <1>n, <2>1, <2>4 DEF ShowsNothing
  <2> QED  BY <1>n, <1>t, <2>1, <2>2, <2>3, <2>4, DispatchShows DEF Shows
<1>4. ASSUME NEW k \in Streams, FlushBuffer(k)
      PROVE  Shows
  <2>1. /\ pc = "flush" /\ open' = open
        /\ call' = [call EXCEPT !.flushing = @ \ {k}]
        /\ \/ DispatchBytes(call.scope, k, buffer[call.scope][k], "flush")
           \/ UNCHANGED <<pc, log>>
    BY <1>4 DEF FlushBuffer
  <2>2. call'.scope = call.scope
    BY <1>t, <2>1 DEF Calls
  <2>3. call.scope \in open
    BY <1>4, <1>t, <2>1 DEF Control
  <2>4. CASE UNCHANGED <<pc, log>>
    BY <1>n, <2>1, <2>4 DEF ShowsNothing
  <2> QED  BY <1>n, <1>t, <2>1, <2>2, <2>3, <2>4, DispatchShows DEF Shows
<1>5. CASE CloseScope
  <2> DEFINE s == call.scope
             event == EndEvent(s, EffectiveReason(scope[s], call.reason), scope[s].truncated)
  <2>1. /\ pc = "flush" /\ call' = call
        /\ open' = open \ {s}
        /\ log' = Append(log, event)
        /\ pc' = "ended"
    BY <1>5 DEF CloseScope
  <2>2. s \in open
    BY <1>5, <1>t, <2>1 DEF Control, CloseScope
  <2>3. event \in Events
    <3>1. scope[s].truncated \in BOOLEAN /\ call.reason \in EndReasons
      BY <1>t, <2>2 DEF ScopeStates, Calls
    <3>2. EffectiveReason(scope[s], call.reason) \in EndReasons
      BY <3>1 DEF EffectiveReason, EndReasons
    <3> QED  BY <1>t, <2>2, <3>1, <3>2, EventsTyped
  <2>4. event.type = "end" /\ event.scope = s
    BY DEF EndEvent
  <2> HIDE DEF event, s
  <2>5. ShowsEnd(s, event)
    BY <2>1, <2>2, <2>3, <2>4 DEF ShowsEnd, s
  <2> QED  BY <1>t, <2>2, <2>3, <2>5 DEF Shows
<1>6. ASSUME \/ PushReturns \/ LineObserved \/ BeginReturns \/ EndReturns
             \/ Finish \/ FinishParsers \/ FinishReturns
      PROVE  ShowsNothing
  BY <1>6
  DEF PushReturns, LineObserved, BeginReturns, EndReturns, AfterEnd, Finish, FinishParsers,
      FinishReturns, ShowsNothing, scopeVars, history
<1>7. ASSUME ParserReturns \/ ParserEmits \/ ParserDrops \/ UNCHANGED vars
      PROVE  ShowsNothing
  BY <1>7
  DEF ParserReturns, ParserEmits, Emit, ParserDrops, ShowsNothing, vars, callVars,
      scopeVars, history
<1>8. CASE CallerNext
  <2>1. ASSUME NEW s \in ScopeIds, NEW reason \in Reasons, EndScope(s, reason)
        PROVE  StartEnd(s, reason, FALSE)
    BY <2>1 DEF EndScope
  <2> QED  BY <1>n, <1>1, <1>2, <1>6, <1>8, <2>1 DEF CallerNext, Shows
<1>9. CASE SessionNext
  <2>1. ASSUME InterruptNextScope
        PROVE  \E s \in ScopeIds : StartEnd(s, "Interrupted", TRUE)
    BY <1>t, <2>1 DEF InterruptNextScope
  <2> QED  BY <1>n, <1>1, <1>3, <1>4, <1>5, <1>6, <1>7, <1>9, <2>1 DEF SessionNext
<1> QED  BY <1>n, <1>7, <1>8, <1>9 DEF Next, Finished

----------------------------------------------------------------------------
(* Scopes *)

(* One more event changes nothing before it, and decides for its scope.    *)
LEMMA InsideAppend ==
  ASSUME NEW l \in Seq(Events), NEW e \in Events, NEW s
  PROVE  /\ \A i \in 1..(Len(l) + 1) : Inside(Append(l, e), i, s) <=> Inside(l, i, s)
         /\ Inside(Append(l, e), Len(l) + 2, s) <=>
              \/ e = BeginEvent(s)
              \/ Inside(l, Len(l) + 1, s) /\ ~IsBoundaryOf(s, e)
PROOF
<1> DEFINE m == Append(l, e)
<1>1. /\ Len(l) \in Nat
      /\ \A j \in 1..Len(l) : m[j] = l[j]
      /\ m[Len(l) + 1] = e
  OBVIOUS
<1> HIDE DEF m
<1>2. \A i \in 1..(Len(l) + 1) : Inside(m, i, s) <=> Inside(l, i, s)
  <2> SUFFICES ASSUME NEW i \in 1..(Len(l) + 1)
               PROVE  Inside(m, i, s) <=> Inside(l, i, s)
    OBVIOUS
  <2>1. \A j \in 1..(i - 1) : m[j] = l[j]
    BY <1>1
  <2>2. \A p \in 1..(i - 1) : \A j \in (p + 1)..(i - 1) : j \in 1..(i - 1)
    BY <1>1
  <2> QED  BY <2>1, <2>2 DEF Inside
<1>3. CASE e = BeginEvent(s)
  <2>1. Inside(m, Len(l) + 2, s)
    <3>1. /\ Len(l) + 1 \in 1..(Len(l) + 2 - 1)
          /\ (Len(l) + 1 + 1)..(Len(l) + 2 - 1) = {}
      BY <1>1
    <3> QED  BY <1>1, <1>3, <3>1 DEF Inside
  <2> QED  BY <1>2, <1>3, <2>1 DEF m
<1>4. CASE e # BeginEvent(s)
  <2>1. Inside(m, Len(l) + 2, s) => Inside(l, Len(l) + 1, s) /\ ~IsBoundaryOf(s, e)
    <3> SUFFICES ASSUME NEW p \in 1..(Len(l) + 1), m[p] = BeginEvent(s),
                        \A j \in (p + 1)..(Len(l) + 1) : ~IsBoundaryOf(s, m[j])
                 PROVE  Inside(l, Len(l) + 1, s) /\ ~IsBoundaryOf(s, e)
      <4>1. Len(l) + 2 - 1 = Len(l) + 1
        BY <1>1
      <4> QED  BY <4>1 DEF Inside
    <3>1. p \in 1..Len(l) /\ Len(l) + 1 \in (p + 1)..(Len(l) + 1)
      BY <1>1, <1>4
    <3>2. \A j \in (p + 1)..Len(l) : j \in (p + 1)..(Len(l) + 1) /\ m[j] = l[j]
      BY <1>1
    <3>3. Len(l) + 1 - 1 = Len(l)
      BY <1>1
    <3> QED  BY <1>1, <3>1, <3>2, <3>3 DEF Inside
  <2>2. Inside(l, Len(l) + 1, s) /\ ~IsBoundaryOf(s, e) => Inside(m, Len(l) + 2, s)
    <3> SUFFICES ASSUME NEW p \in 1..Len(l), l[p] = BeginEvent(s),
                        \A j \in (p + 1)..Len(l) : ~IsBoundaryOf(s, l[j]),
                        ~IsBoundaryOf(s, e)
                 PROVE  Inside(m, Len(l) + 2, s)
      <4>1. Len(l) + 1 - 1 = Len(l)
        BY <1>1
      <4> QED  BY <4>1 DEF Inside
    <3>1. \A j \in (p + 1)..(Len(l) + 1) : ~IsBoundaryOf(s, m[j])
      <4> TAKE j \in (p + 1)..(Len(l) + 1)
      <4>1. j \in (p + 1)..Len(l) \/ j = Len(l) + 1
        BY <1>1
      <4>2. j \in (p + 1)..Len(l) => m[j] = l[j]
        BY <1>1
      <4> QED  BY <1>1, <4>1, <4>2
    <3>2. Len(l) + 2 - 1 = Len(l) + 1 /\ p \in 1..(Len(l) + 1)
      BY <1>1
    <3> QED  BY <1>1, <3>1, <3>2 DEF Inside
  <2> QED  BY <1>2, <1>4, <2>1, <2>2 DEF m
<1> QED  BY <1>3, <1>4

(* The open scopes are those the log is inside of. *)
OpenIsInside == \A s \in ScopeIds : s \in open <=> Inside(log, Len(log) + 1, s)

(* finish has ended every scope before it lets the parsers wrap up. *)
WrapsUpClosed == pc \in {"wrapup", "done"} => open = {}

LEMMA BracketsInit == Init => OpenIsInside /\ LogBracketed /\ WrapsUpClosed
  BY DEF Init, OpenIsInside, LogBracketed, Inside, WrapsUpClosed

LEMMA BracketsStep ==
  IInv /\ OpenIsInside /\ LogBracketed /\ [Next]_vars
    => OpenIsInside' /\ LogBracketed'
PROOF
<1> SUFFICES ASSUME IInv, OpenIsInside, LogBracketed, [Next]_vars
             PROVE  OpenIsInside' /\ LogBracketed'
  OBVIOUS
<1>t. log \in Seq(Events)
  BY DEF IInv, TypeOK
<1>1. CASE ShowsNothing
  BY <1>1 DEF ShowsNothing, OpenIsInside, LogBracketed
<1>2. ASSUME NEW s \in ScopeIds, NEW e \in Events, log' = Append(log, e), e.scope = s,
             Inside(log, Len(log) + 1, s) <=> e.type # "begin",
             e.type = "begin" => e = BeginEvent(s),
             open' = IF e.type = "begin" THEN open \cup {s}
                     ELSE IF e.type = "end" THEN open \ {s} ELSE open
      PROVE  OpenIsInside' /\ LogBracketed'
  <2>1. /\ \A i \in 1..(Len(log) + 1) : \A z : Inside(log', i, z) <=> Inside(log, i, z)
        /\ \A z : Inside(log', Len(log) + 2, z) <=>
                    \/ e = BeginEvent(z)
                    \/ Inside(log, Len(log) + 1, z) /\ ~IsBoundaryOf(z, e)
    BY <1>t, <1>2, InsideAppend
  <2>2. /\ Len(log) \in Nat /\ Len(log') = Len(log) + 1
        /\ DOMAIN log' = 1..(Len(log) + 1)
        /\ \A i \in 1..Len(log) : log'[i] = log[i]
        /\ log'[Len(log) + 1] = e
    BY <1>t, <1>2
  <2>3. LogBracketed'
    <3> SUFFICES ASSUME NEW i \in 1..(Len(log) + 1)
                 PROVE  Inside(log', i, log'[i].scope) <=> log'[i].type # "begin"
      BY <2>2 DEF LogBracketed
    <3>1. CASE i \in 1..Len(log)
      <4>1. Inside(log, i, log[i].scope) <=> log[i].type # "begin"
        BY <1>t, <3>1 DEF LogBracketed
      <4> QED  BY <2>1, <2>2, <3>1, <4>1
    <3>2. CASE i = Len(log) + 1
      BY <1>2, <2>1, <2>2, <3>2
    <3> QED  BY <2>2, <3>1, <3>2
  <2>4. OpenIsInside'
    <3> SUFFICES ASSUME NEW z \in ScopeIds
                 PROVE  z \in open' <=> Inside(log', Len(log) + 2, z)
      <4>1. Len(log') + 1 = Len(log) + 2
        BY <2>2
      <4> QED  BY <4>1 DEF OpenIsInside
    <3>1. z \in open <=> Inside(log, Len(log) + 1, z)
      BY DEF OpenIsInside
    <3>2. e = BeginEvent(z) <=> e.type = "begin" /\ z = s
      BY <1>2 DEF BeginEvent
    <3>3. IsBoundaryOf(z, e) <=> e.type # "line" /\ z = s
      BY <1>2 DEF IsBoundaryOf
    <3>4. e.type \in {"begin", "line", "end"}
      BY DEF Events
    <3>5. Inside(log', Len(log) + 2, z) <=>
            e = BeginEvent(z) \/ (z \in open /\ ~IsBoundaryOf(z, e))
      BY <2>1, <3>1
    <3>6. z = s => (z \in open <=> e.type # "begin")
      BY <1>2, <3>1
    <3> QED  BY <1>2, <3>2, <3>3, <3>4, <3>5, <3>6
  <2> QED  BY <2>3, <2>4
<1>3. ASSUME NEW s \in ScopeIds, ShowsBegin(s)
      PROVE  OpenIsInside' /\ LogBracketed'
  <2>1. BeginEvent(s) \in Events /\ BeginEvent(s).type = "begin" /\ BeginEvent(s).scope = s
    BY EventsTyped DEF BeginEvent
  <2>2. ~Inside(log, Len(log) + 1, s)
    BY <1>3 DEF ShowsBegin, OpenIsInside
  <2> QED  BY <1>2, <1>3, <2>1, <2>2 DEF ShowsBegin
<1>4. ASSUME NEW s \in ScopeIds, NEW e \in Events, ShowsLine(s, e) \/ ShowsEnd(s, e)
      PROVE  OpenIsInside' /\ LogBracketed'
  <2>1. Inside(log, Len(log) + 1, s)
    BY <1>4 DEF ShowsLine, ShowsEnd, OpenIsInside
  <2>2. /\ log' = Append(log, e) /\ e.scope = s /\ e.type # "begin"
        /\ open' = IF e.type = "begin" THEN open \cup {s}
                   ELSE IF e.type = "end" THEN open \ {s} ELSE open
    BY <1>4 DEF ShowsLine, ShowsEnd
  <2> QED  BY <1>2, <2>1, <2>2
<1> QED  BY <1>1, <1>3, <1>4, StepShows DEF Shows

LEMMA WrapsUpStep == IInv /\ WrapsUpClosed /\ [Next]_vars => WrapsUpClosed'
PROOF
<1> SUFFICES ASSUME IInv, WrapsUpClosed, [Next]_vars
             PROVE  WrapsUpClosed'
  OBVIOUS
<1>1. ASSUME NEW s, NEW k, NEW buf, NEW resume \in {"frame", "flush"},
             DispatchBytes(s, k, buf, resume)
      PROVE  pc' \notin {"wrapup", "done"}
  BY <1>1 DEF DispatchBytes
<1>2. ASSUME FrameByte \/ \E k \in Streams : FlushBuffer(k)
      PROVE  pc' \notin {"wrapup", "done"}
  BY <1>1, <1>2 DEF FrameByte, FlushBuffer
<1>3. ASSUME NEW s \in ScopeIds,
             \/ RejectScope(s)
             \/ BeginScope(s)
             \/ \E k \in Streams, chunk \in Chunks : PushChunk(s, k, chunk)
             \/ \E reason \in Reasons : EndScope(s, reason)
      PROVE  pc' \notin {"wrapup", "done"}
  BY <1>3 DEF RejectScope, BeginScope, PushChunk, EndScope, StartEnd, callVars
<1>4. ASSUME \/ PushReturns \/ CloseScope \/ LineObserved \/ BeginReturns
             \/ EndReturns \/ Finish \/ InterruptNextScope
      PROVE  pc' \notin {"wrapup", "done"}
  BY <1>4
  DEF PushReturns, CloseScope, LineObserved, BeginReturns, EndReturns, AfterEnd, Finish,
      InterruptNextScope, StartEnd
<1>5. CASE FinishParsers
  BY <1>5 DEF FinishParsers, WrapsUpClosed, scopeVars
<1>6. CASE FinishReturns
  BY <1>6 DEF FinishReturns, WrapsUpClosed, scopeVars
<1>7. CASE ParserReturns \/ ParserEmits \/ ParserDrops \/ UNCHANGED vars
  BY <1>7
  DEF ParserReturns, ParserEmits, Emit, ParserDrops, WrapsUpClosed, vars, callVars, scopeVars
<1>8. pc' \notin {"wrapup", "done"} => WrapsUpClosed'
  BY DEF WrapsUpClosed
<1> QED
  BY <1>2, <1>3, <1>4, <1>5, <1>6, <1>7, <1>8 DEF Next, CallerNext, SessionNext, Finished

(* The library's search for the last event is the one Inside speaks of. *)
LastBoundaryBefore(l, i, s) ==
  SelectLastInSubSeq(l, 1, i - 1, LAMBDA e : IsBoundaryOf(s, e))

LEMMA LastBoundary ==
  ASSUME NEW l \in Seq(Events), NEW i \in 1..(Len(l) + 1), NEW s
  PROVE  LET last == LastBoundaryBefore(l, i, s)
         IN  /\ last = 0 \/ (last \in 1..(i - 1) /\ IsBoundaryOf(s, l[last]))
             /\ (last # 0 /\ l[last] = BeginEvent(s)) <=> Inside(l, i, s)
PROOF
<1> DEFINE I == {j \in 1..(i - 1) : IsBoundaryOf(s, l[j])}
           last == LastBoundaryBefore(l, i, s)
<1>1. last = IF I # {} THEN Max(I) ELSE 0
  BY DEF LastBoundaryBefore, SelectLastInSubSeq
<1>2. i - 1 \in Nat
  OBVIOUS
<1>3. last = 0 \/ last \in I
  BY <1>1, <1>2, LastPosition DEF Max
<1>4. \A j \in I : j <= last
  BY <1>1, <1>2, LastPosition DEF Max
<1> HIDE DEF last
<1>5. IsBoundaryOf(s, BeginEvent(s))
  BY DEF IsBoundaryOf, BeginEvent
<1>6. ASSUME last # 0, l[last] = BeginEvent(s)
      PROVE  Inside(l, i, s)
  <2>1. \A j \in (last + 1)..(i - 1) : ~IsBoundaryOf(s, l[j])
    BY <1>2, <1>3, <1>4, <1>6
  <2> QED  BY <1>3, <1>6, <2>1 DEF Inside
<1>7. ASSUME Inside(l, i, s)
      PROVE  last # 0 /\ l[last] = BeginEvent(s)
  <2>1. PICK p \in 1..(i - 1) :
          l[p] = BeginEvent(s) /\ \A j \in (p + 1)..(i - 1) : ~IsBoundaryOf(s, l[j])
    BY <1>7 DEF Inside
  <2>2. p \in I
    BY <1>5, <2>1
  <2>3. p <= last /\ last \in I
    BY <1>2, <1>3, <1>4, <2>2
  <2>4. ~(last \in (p + 1)..(i - 1))
    BY <2>1, <2>3
  <2>5. last = p
    BY <1>2, <2>3, <2>4
  <2> QED  BY <1>2, <2>1, <2>5
<1> QED  BY <1>3, <1>6, <1>7 DEF last

(* Parsers see every scope bracketed by its Begin and its End, whatever    *)
(* the owner calls and however often it uses an id again (begin_scope,     *)
(* end_scope, finish).                                                     *)
THEOREM ScopesAlwaysBracketed == Spec => []ScopesBracketed
PROOF
<1>1. IInv /\ OpenIsInside /\ LogBracketed /\ WrapsUpClosed => ScopesBracketed
  <2> SUFFICES ASSUME IInv, OpenIsInside, LogBracketed, WrapsUpClosed
               PROVE  ScopesBracketed
    OBVIOUS
  <2>1. log \in Seq(Events)
    BY DEF IInv, TypeOK
  <2>2. ASSUME NEW i \in DOMAIN log
        PROVE  LET s == log[i].scope
                   p == LastEventBefore(i, LAMBDA e : IsBoundaryOf(s, e))
               IN  (p # 0 /\ log[p] = BeginEvent(s)) <=> log[i].type # "begin"
    <3>1. i \in 1..(Len(log) + 1)
      BY <2>1
    <3>2. Inside(log, i, log[i].scope) <=> log[i].type # "begin"
      BY DEF LogBracketed
    <3> QED  BY <2>1, <3>1, <3>2, LastBoundary DEF LastEventBefore, LastBoundaryBefore
  <2>3. ASSUME pc = "done", NEW s \in ScopeIds
        PROVE  LET p == LastEventBefore(Len(log) + 1, LAMBDA e : IsBoundaryOf(s, e))
               IN  p # 0 => log[p].type = "end"
    <3> DEFINE p == LastBoundaryBefore(log, Len(log) + 1, s)
    <3>1. ~Inside(log, Len(log) + 1, s)
      BY <2>3 DEF OpenIsInside, WrapsUpClosed
    <3>2. Len(log) + 1 \in 1..(Len(log) + 1) /\ Len(log) + 1 - 1 = Len(log)
      BY <2>1
    <3>3. /\ p = 0 \/ (p \in 1..Len(log) /\ IsBoundaryOf(s, log[p]))
          /\ ~(p # 0 /\ log[p] = BeginEvent(s))
      BY <2>1, <3>1, <3>2, LastBoundary
    <3> HIDE DEF p
    <3>4. p # 0 => log[p].type = "end"
      <4> SUFFICES ASSUME p # 0, log[p].type # "end"
                   PROVE  FALSE
        OBVIOUS
      <4>1. log[p] \in Events /\ log[p].type # "line" /\ log[p].scope = s
        BY <2>1, <3>3 DEF IsBoundaryOf
      <4>2. log[p] \in [type : {"begin"}, scope : ScopeIds]
        BY <4>1 DEF Events
      <4>3. log[p] = BeginEvent(s)
        BY <4>1, <4>2 DEF BeginEvent
      <4> QED  BY <3>3, <4>3
    <3> QED  BY <3>4 DEF p, LastEventBefore, LastBoundaryBefore
  <2> QED  BY <2>2, <2>3 DEF ScopesBracketed
<1> QED
  BY <1>1, BracketsInit, BracketsStep, WrapsUpStep, Invariant, PTL DEF Spec

----------------------------------------------------------------------------
(* Provenance *)

(* During a callback the last event is the one being dispatched.           *)
LastIsDispatched ==
  /\ pc = "observe" =>
       log # <<>> /\ log[Len(log)].type = "line" /\ log[Len(log)].scope = call.scope
  /\ pc \in {"begun", "ended"} => log # <<>> /\ IsBoundaryOf(call.scope, log[Len(log)])

LEMMA DispatchedStep == IInv /\ LastIsDispatched /\ [Next]_vars => LastIsDispatched'
PROOF
<1> SUFFICES ASSUME IInv, LastIsDispatched, [Next]_vars
             PROVE  LastIsDispatched'
  OBVIOUS
<1>t. log \in Seq(Events)
  BY DEF IInv, TypeOK
<1>1. CASE ShowsNothing
  BY <1>1 DEF ShowsNothing, LastIsDispatched
<1>2. ASSUME NEW e \in Events, log' = Append(log, e)
      PROVE  log' # <<>> /\ log'[Len(log')] = e
  BY <1>t, <1>2
<1>3. ASSUME NEW s \in ScopeIds, ShowsBegin(s)
      PROVE  LastIsDispatched'
  <2>1. /\ log' # <<>> /\ log'[Len(log')] = BeginEvent(s)
        /\ pc' = "begun" /\ call'.scope = s
    BY <1>2, <1>3, EventsTyped DEF ShowsBegin
  <2> QED  BY <2>1 DEF LastIsDispatched, IsBoundaryOf, BeginEvent
<1>4. ASSUME NEW s \in ScopeIds, NEW e \in Events, ShowsLine(s, e) \/ ShowsEnd(s, e)
      PROVE  LastIsDispatched'
  <2>1. log' # <<>> /\ log'[Len(log')] = e
    BY <1>2, <1>4 DEF ShowsLine, ShowsEnd
  <2> QED  BY <1>4, <2>1 DEF ShowsLine, ShowsEnd, LastIsDispatched, IsBoundaryOf
<1> QED  BY <1>1, <1>3, <1>4, StepShows DEF Shows

(* What ProvenanceIsReal says of one provenance. *)
NamesShown(p, l) ==
  /\ p.source = "stream" =>
       \E n \in DOMAIN l :
         /\ l[n].type = "line"
         /\ l[n].scope = p.scope
         /\ l[n].stream = p.stream
         /\ l[n].stream_line = p.line
  /\ p.source = "boundary" => \E n \in DOMAIN l : IsBoundaryOf(p.scope, l[n])

LEMMA EngineNamesShown ==
  ASSUME IInv, LastIsDispatched, InCallback
  PROVE  NamesShown(EngineProvenance, log) /\ NamesShown(OwnProvenance, log)
PROOF
<1>1. log # <<>> => Len(log) \in DOMAIN log
  BY DEF IInv, TypeOK
<1>2. OwnProvenance.source = "own"
  BY DEF OwnProvenance
<1>3. CASE pc = "observe"
  <2>1. /\ EngineProvenance.source = "stream"
        /\ EngineProvenance.scope = call.scope
        /\ EngineProvenance.stream = log[Len(log)].stream
        /\ EngineProvenance.line = log[Len(log)].stream_line
    BY <1>3 DEF EngineProvenance
  <2> QED  BY <1>1, <1>2, <1>3, <2>1 DEF NamesShown, LastIsDispatched
<1>4. CASE pc \in {"begun", "ended"}
  <2>1. EngineProvenance.source = "boundary" /\ EngineProvenance.scope = call.scope
    BY <1>4 DEF EngineProvenance
  <2> QED  BY <1>1, <1>2, <1>4, <2>1 DEF NamesShown, LastIsDispatched
<1>5. CASE pc = "wrapup"
  <2>1. EngineProvenance.source = "parser"
    BY <1>5 DEF EngineProvenance
  <2> QED  BY <1>2, <2>1 DEF NamesShown
<1> QED  BY <1>3, <1>4, <1>5 DEF InCallback

LEMMA ProvenanceStep ==
  IInv /\ LastIsDispatched /\ ProvenanceIsReal /\ [Next]_vars => ProvenanceIsReal'
PROOF
<1> SUFFICES ASSUME IInv, LastIsDispatched, ProvenanceIsReal, [Next]_vars
             PROVE  ProvenanceIsReal'
  OBVIOUS
<1>t. log \in Seq(Events) /\ candidates \in Seq(Candidates)
  BY DEF IInv, TypeOK
<1>1. \A i \in DOMAIN candidates : NamesShown(candidates[i].provenance, log)
  BY DEF ProvenanceIsReal, NamesShown
<1>2. \A p : NamesShown(p, log) => NamesShown(p, log')
  <2>1. log' = log \/ \E e \in Events : log' = Append(log, e)
    BY StepShows, EventsTyped DEF Shows, ShowsNothing, ShowsBegin, ShowsLine, ShowsEnd
  <2>2. \A n \in DOMAIN log : n \in DOMAIN log' /\ log'[n] = log[n]
    BY <1>t, <2>1
  <2> QED  BY <2>2 DEF NamesShown
<1>3. \/ candidates' = candidates
      \/ \E c : candidates' = Append(candidates, c) /\ NamesShown(c.provenance, log)
  <2>1. ASSUME NEW kind, NEW p, Emit(kind, p), NamesShown(p, log)
        PROVE  \/ candidates' = candidates
               \/ \E c : candidates' = Append(candidates, c) /\ NamesShown(c.provenance, log)
    <3> DEFINE c == [kind |-> kind, provenance |-> p]
    <3>1. candidates' = candidates \/ candidates' = Append(candidates, c)
      BY <2>1 DEF Emit
    <3>2. c.provenance = p
      OBVIOUS
    <3> HIDE DEF c
    <3> QED  BY <2>1, <3>1, <3>2
  <2>2. CASE ParserEmits
    <3>1. InCallback
      BY <2>2 DEF ParserEmits, Emit
    <3> QED  BY <2>1, <2>2, <3>1, EngineNamesShown DEF ParserEmits
  <2>3. ASSUME CallerNext
        PROVE  candidates' = candidates
    BY <2>3
    DEF CallerNext, RejectScope, BeginScope, PushChunk, EndScope, StartEnd, Finish, storeVars
  <2>4. ASSUME SessionNext
        PROVE  candidates' = candidates
    BY <2>4
    DEF SessionNext, FrameByte, PushReturns, FlushBuffer, CloseScope, ParserReturns,
        LineObserved, BeginReturns, EndReturns, InterruptNextScope, StartEnd, FinishParsers,
        FinishReturns, storeVars
  <2>5. ASSUME ParserDrops \/ UNCHANGED vars
        PROVE  candidates' = candidates
    BY <2>5 DEF ParserDrops, vars, storeVars
  <2> QED  BY <2>2, <2>3, <2>4, <2>5 DEF Next, Finished
<1>4. \A i \in DOMAIN candidates' : NamesShown(candidates'[i].provenance, log')
  BY <1>t, <1>1, <1>2, <1>3
<1> QED  BY <1>4 DEF ProvenanceIsReal, NamesShown

(* The provenance the engine stamps names a line shown to the parsers or a *)
(* boundary of a scope that exists (dispatch_bytes, dispatch_boundary).    *)
THEOREM ProvenanceAlwaysReal == Spec => []ProvenanceIsReal
PROOF
<1>1. Init => LastIsDispatched /\ ProvenanceIsReal
  BY DEF Init, LastIsDispatched, ProvenanceIsReal
<1> QED  BY <1>1, DispatchedStep, ProvenanceStep, Invariant, PTL DEF Spec

----------------------------------------------------------------------------
(* Positions and their ranks *)

LEMMA PositionsFinite ==
  ASSUME NEW n \in Nat, NEW S \in SUBSET (1..n)
  PROVE  /\ IsFiniteSet(S) /\ Cardinality(S) \in Nat
         /\ n + 1 \notin S
         /\ IsFiniteSet(S \cup {n + 1})
         /\ Cardinality(S \cup {n + 1}) = Cardinality(S) + 1
PROOF
<1>1. IsFiniteSet(1..n)
  BY FS_Interval
<1>2. IsFiniteSet(S) /\ Cardinality(S) \in Nat
  BY <1>1, FS_Subset, FS_CardinalityType
<1>3. n + 1 \notin S
  OBVIOUS
<1> QED  BY <1>2, <1>3, FS_AddElement

(* A new last position keeps the ranks of the earlier ones and has the     *)
(* next rank.                                                              *)
LEMMA RankExtended ==
  ASSUME NEW n \in Nat, NEW S \in SUBSET (1..n)
  PROVE  /\ \A i \in S : Rank(S, i) \in Nat /\ Rank(S, i) <= Cardinality(S)
         /\ \A i \in S : Rank(S \cup {n + 1}, i) = Rank(S, i)
         /\ Rank(S \cup {n + 1}, n + 1) = Cardinality(S) + 1
PROOF
<1>1. ASSUME NEW i \in S
      PROVE  /\ Rank(S, i) \in Nat /\ Rank(S, i) <= Cardinality(S)
             /\ Rank(S \cup {n + 1}, i) = Rank(S, i)
  <2>1. IsFiniteSet(S) /\ {j \in S : j <= i} \in SUBSET S
    BY PositionsFinite
  <2>2. Rank(S, i) \in Nat /\ Rank(S, i) <= Cardinality(S)
    BY <2>1, FS_Subset, FS_CardinalityType DEF Rank
  <2>3. ~(n + 1 <= i)
    OBVIOUS
  <2>4. {j \in S \cup {n + 1} : j <= i} = {j \in S : j <= i}
    BY <2>3
  <2> QED  BY <2>2, <2>4 DEF Rank
<1>2. {j \in S \cup {n + 1} : j <= n + 1} = S \cup {n + 1}
  <2>1. \A j \in S \cup {n + 1} : j <= n + 1
    OBVIOUS
  <2> QED  BY <2>1
<1> QED  BY <1>1, <1>2, PositionsFinite DEF Rank

----------------------------------------------------------------------------
(* Framing *)

(* What one more event changes of the lines shown since a scope began.     *)
LEMMA ShownAppend ==
  ASSUME log \in Seq(Events), NEW e \in Events, log' = Append(log, e),
         NEW s \in ScopeIds, NEW k \in Streams
  PROVE  /\ Shown(s, k) \in SUBSET (1..Len(log))
         /\ \A i \in 1..Len(log) : log'[i] = log[i]
         /\ Len(log) \in Nat /\ log'[Len(log) + 1] = e
         /\ Shown(s, k)' =
              IF e = BeginEvent(s) THEN {}
              ELSE IF e.type = "line" /\ e.scope = s /\ e.stream = k
                   THEN Shown(s, k) \cup {Len(log) + 1}
                   ELSE Shown(s, k)
PROOF
<1> DEFINE n == Len(log)
<1>1. /\ n \in Nat /\ Len(log') = n + 1
      /\ DOMAIN log = 1..n /\ DOMAIN log' = 1..(n + 1)
      /\ \A i \in 1..n : log'[i] = log[i]
      /\ log'[n + 1] = e
  OBVIOUS
<1> HIDE DEF n
<1>2. BeginEvent(s).type = "begin"
  BY DEF BeginEvent
<1>3. Shown(s, k)' =
        {i \in 1..(n + 1) :
           /\ log'[i].type = "line" /\ log'[i].scope = s /\ log'[i].stream = k
           /\ \A j \in i..(n + 1) : log'[j] # BeginEvent(s)}
  BY <1>1 DEF Shown
<1>4. Shown(s, k) =
        {i \in 1..n :
           /\ log[i].type = "line" /\ log[i].scope = s /\ log[i].stream = k
           /\ \A j \in i..n : log[j] # BeginEvent(s)}
  BY <1>1 DEF Shown, n
<1>5. ASSUME NEW i \in 1..n
      PROVE  i \in Shown(s, k)' <=> i \in Shown(s, k) /\ e # BeginEvent(s)
  <2>1. i..(n + 1) = (i..n) \cup {n + 1}
    BY <1>1
  <2>2. (\A j \in i..(n + 1) : log'[j] # BeginEvent(s)) <=>
          (\A j \in i..n : log[j] # BeginEvent(s)) /\ e # BeginEvent(s)
    BY <1>1, <2>1
  <2> QED  BY <1>1, <1>3, <1>4, <2>2
<1>6. n + 1 \in Shown(s, k)' <=>
        e # BeginEvent(s) /\ e.type = "line" /\ e.scope = s /\ e.stream = k
  <2>1. (n + 1)..(n + 1) = {n + 1}
    BY <1>1
  <2> QED  BY <1>1, <1>3, <2>1
<1>7. Shown(s, k)' \subseteq (1..n) \cup {n + 1} /\ Shown(s, k) \subseteq 1..n
  BY <1>1, <1>3, <1>4
<1>8. CASE e = BeginEvent(s)
  BY <1>1, <1>5, <1>6, <1>7, <1>8 DEF n
<1>9. CASE e # BeginEvent(s) /\ e.type = "line" /\ e.scope = s /\ e.stream = k
  <2>1. Shown(s, k)' = Shown(s, k) \cup {n + 1}
    BY <1>5, <1>6, <1>7, <1>9
  <2> QED  BY <1>1, <1>7, <1>9, <2>1 DEF n
<1>10. CASE e # BeginEvent(s) /\ ~(e.type = "line" /\ e.scope = s /\ e.stream = k)
  <2>1. Shown(s, k)' = Shown(s, k)
    BY <1>5, <1>6, <1>7, <1>10
  <2> QED  BY <1>1, <1>7, <1>10, <2>1 DEF n
<1> QED  BY <1>8, <1>9, <1>10

(* A byte more in a feed keeps its visible breaks, and is one itself if it *)
(* breaks a line of which something is kept.                               *)
LEMMA BreaksAppend ==
  ASSUME NEW f \in Seq(Bytes \cup {"eof"}), NEW b \in Bytes \cup {"eof"}
  PROVE  /\ VisibleBreaks(f) \in SUBSET (1..Len(f)) /\ Len(f) \in Nat
         /\ \A j \in 1..Len(f) : LineAt(Append(f, b), j) = LineAt(f, j)
         /\ LineAt(Append(f, b), Len(f) + 1) = OpenLine(f)
         /\ VisibleBreaks(Append(f, b)) =
              IF IsBreak(b) /\ TrimEnd(Kept(OpenLine(f))) # <<>>
              THEN VisibleBreaks(f) \cup {Len(f) + 1}
              ELSE VisibleBreaks(f)
PROOF
<1> DEFINE g == Append(f, b)
           n == Len(f)
<1>1. /\ n \in Nat /\ Len(g) = n + 1 /\ g \in Seq(Bytes \cup {"eof"})
      /\ DOMAIN f = 1..n /\ DOMAIN g = 1..(n + 1)
      /\ \A i \in 1..n : g[i] = f[i]
      /\ g[n + 1] = b
  OBVIOUS
<1> HIDE DEF g, n
<1>2. ASSUME NEW j \in 1..(n + 1)
      PROVE  SubSeq(g, 1, j - 1) = SubSeq(f, 1, j - 1)
  <2>1. j - 1 \in 0..n
    BY <1>1
  <2>2. \A i \in 1..(j - 1) : g[i] = f[i] /\ f[i] \in Bytes \cup {"eof"}
    BY <1>1, <2>1
  <2>3. /\ SubSeq(f, 1, j - 1) \in Seq(Bytes \cup {"eof"}) /\ Len(SubSeq(f, 1, j - 1)) = j - 1
        /\ \A i \in 1..(j - 1) : SubSeq(f, 1, j - 1)[i] = f[i]
    BY <1>1, <2>1, <2>2, SubSeqProperties DEF n
  <2>4. /\ SubSeq(g, 1, j - 1) \in Seq(Bytes \cup {"eof"}) /\ Len(SubSeq(g, 1, j - 1)) = j - 1
        /\ \A i \in 1..(j - 1) : SubSeq(g, 1, j - 1)[i] = g[i]
    BY <1>1, <2>1, <2>2, SubSeqProperties
  <2> QED  BY <2>2, <2>3, <2>4, SeqEqual
<1>3. SubSeq(f, 1, n) = f
  BY <1>1 DEF n
<1>4. ASSUME NEW j \in 1..n
      PROVE  LineAt(g, j) = LineAt(f, j)
  <2>1. j \in 1..(n + 1)
    BY <1>1
  <2>2. SubSeq(g, 1, j - 1) = SubSeq(f, 1, j - 1)
    BY <1>2, <2>1
  <2> QED  BY <2>2 DEF LineAt
<1>5. LineAt(g, n + 1) = OpenLine(f)
  <2>1. PICK j \in 1..(n + 1) : j = n + 1 /\ j - 1 = n
    BY <1>1
  <2>2. SubSeq(g, 1, j - 1) = SubSeq(f, 1, j - 1)
    BY <1>2
  <2>3. SubSeq(g, 1, j - 1) = f
    BY <1>3, <2>1, <2>2
  <2>4. LineAt(g, j) = OpenLine(f)
    BY <2>3 DEF LineAt
  <2> QED  BY <2>1, <2>4
<1>6. VisibleBreaks(f) \in SUBSET (1..n)
  BY <1>1 DEF VisibleBreaks
<1>7. VisibleBreaks(g) =
        {j \in 1..(n + 1) : IsBreak(g[j]) /\ TrimEnd(Kept(LineAt(g, j))) # <<>>}
  BY <1>1 DEF VisibleBreaks
<1>8. \A j \in 1..n : j \in VisibleBreaks(g) <=> j \in VisibleBreaks(f)
  BY <1>1, <1>4, <1>7 DEF VisibleBreaks
<1>9. n + 1 \in VisibleBreaks(g) <=> IsBreak(b) /\ TrimEnd(Kept(OpenLine(f))) # <<>>
  BY <1>1, <1>5, <1>7
<1>10. VisibleBreaks(g) =
         IF IsBreak(b) /\ TrimEnd(Kept(OpenLine(f))) # <<>>
         THEN VisibleBreaks(f) \cup {n + 1}
         ELSE VisibleBreaks(f)
  BY <1>1, <1>6, <1>7, <1>8, <1>9
<1> QED  BY <1>1, <1>4, <1>5, <1>6, <1>10 DEF g, n

(* The line at each of the positions shown in l is the one that the break  *)
(* of the same rank ends in the feed f.                                    *)
LinesOf(shown, breaks, f, l) ==
  \A i \in shown, j \in breaks :
    Rank(shown, i) = Rank(breaks, j) =>
      LET line == LineAt(f, j)
      IN  /\ l[i].text = TrimEnd(Kept(line))
          /\ l[i].truncated = IsCut(line)
          /\ l[i].stream_line = Rank(breaks, j)

(* Parsers were shown, of stream k of scope s, the lines its breaks end,   *)
(* in their order; an open scope counts them.                              *)
ShowsBreaks(s, k) ==
  LET breaks == VisibleBreaks(feed[s][k])
      shown == Shown(s, k)
  IN  /\ Cardinality(shown) = Cardinality(breaks)
      /\ s \in open => scope[s].stream_lines[k] = Cardinality(breaks)
      /\ LinesOf(shown, breaks, feed[s][k], log)
BreaksShown == \A s \in ScopeIds, k \in Streams : ShowsBreaks(s, k)

LEMMA BreaksShownInit == Init => BreaksShown
PROOF
<1> SUFFICES ASSUME Init, NEW s \in ScopeIds, NEW k \in Streams
             PROVE  ShowsBreaks(s, k)
  BY DEF BreaksShown
<1>1. Shown(s, k) = {} /\ VisibleBreaks(feed[s][k]) = {} /\ s \notin open
  BY DEF Init, Shown, VisibleBreaks
<1> QED  BY <1>1 DEF ShowsBreaks, LinesOf

(* A stream whose feed and shown lines a step leaves alone. *)
LEMMA ShowsBreaksSame ==
  ASSUME IInv, NEW s \in ScopeIds, NEW k \in Streams, ShowsBreaks(s, k),
         feed'[s][k] = feed[s][k], Shown(s, k)' = Shown(s, k),
         \A i \in Shown(s, k) : log'[i] = log[i],
         s \in open' => s \in open /\ scope'[s].stream_lines[k] = scope[s].stream_lines[k]
  PROVE  ShowsBreaks(s, k)'
PROOF
<1>1. VisibleBreaks(feed[s][k])' = VisibleBreaks(feed[s][k])
  OBVIOUS
<1>2. LinesOf(Shown(s, k), VisibleBreaks(feed[s][k]), feed[s][k], log')
  BY DEF ShowsBreaks, LinesOf
<1> QED  BY <1>1, <1>2 DEF ShowsBreaks

(* A break that shows a line adds one to both. *)
LEMMA ShowsBreaksMore ==
  ASSUME IInv, NEW s \in open, NEW k \in Streams, ShowsBreaks(s, k),
         NEW b \in Bytes \cup {"eof"}, IsBreak(b),
         TrimEnd(Kept(OpenLine(feed[s][k]))) # <<>>,
         feed'[s][k] = Append(feed[s][k], b),
         NEW e \in Events, log' = Append(log, e),
         e.type = "line", e.scope = s, e.stream = k,
         e.text = TrimEnd(Kept(OpenLine(feed[s][k]))),
         e.truncated = IsCut(OpenLine(feed[s][k])),
         e.stream_line = scope[s].stream_lines[k] + 1,
         scope'[s].stream_lines[k] = scope[s].stream_lines[k] + 1
  PROVE  ShowsBreaks(s, k)'
PROOF
<1> DEFINE f == feed[s][k]
           breaks == VisibleBreaks(f)
           shown == Shown(s, k)
           m == Len(f)
           n == Len(log)
<1>1. s \in ScopeIds /\ log \in Seq(Events) /\ f \in Seq(Bytes \cup {"eof"})
  BY DEF IInv, TypeOK
<1>2. e # BeginEvent(s)
  BY DEF BeginEvent
<1>3. /\ shown \in SUBSET (1..n) /\ n \in Nat
      /\ \A i \in 1..n : log'[i] = log[i]
      /\ log'[n + 1] = e
      /\ Shown(s, k)' = shown \cup {n + 1}
  BY <1>1, <1>2, ShownAppend
<1>4. /\ breaks \in SUBSET (1..m) /\ m \in Nat
      /\ \A j \in 1..m : LineAt(feed'[s][k], j) = LineAt(f, j)
      /\ LineAt(feed'[s][k], m + 1) = OpenLine(f)
      /\ VisibleBreaks(feed'[s][k]) = breaks \cup {m + 1}
  BY <1>1, BreaksAppend
<1>5. /\ Cardinality(shown) = Cardinality(breaks)
      /\ scope[s].stream_lines[k] = Cardinality(breaks)
      /\ LinesOf(shown, breaks, f, log)
  BY DEF ShowsBreaks
<1> HIDE DEF f, breaks, shown, m, n
<1>6. /\ Cardinality(breaks) \in Nat
      /\ Cardinality(shown \cup {n + 1}) = Cardinality(breaks) + 1
      /\ Cardinality(breaks \cup {m + 1}) = Cardinality(breaks) + 1
  <2>1. /\ Cardinality(breaks) \in Nat
        /\ Cardinality(breaks \cup {m + 1}) = Cardinality(breaks) + 1
    BY <1>4, PositionsFinite
  <2>2. Cardinality(shown \cup {n + 1}) = Cardinality(shown) + 1
    BY <1>3, PositionsFinite
  <2> QED  BY <1>5, <2>1, <2>2
<1>7. /\ \A i \in shown : Rank(shown \cup {n + 1}, i) = Rank(shown, i)
                           /\ Rank(shown, i) \in Nat /\ Rank(shown, i) <= Cardinality(breaks)
      /\ Rank(shown \cup {n + 1}, n + 1) = Cardinality(breaks) + 1
  BY <1>3, <1>5, RankExtended
<1>8. /\ \A j \in breaks : Rank(breaks \cup {m + 1}, j) = Rank(breaks, j)
                           /\ Rank(breaks, j) \in Nat /\ Rank(breaks, j) <= Cardinality(breaks)
      /\ Rank(breaks \cup {m + 1}, m + 1) = Cardinality(breaks) + 1
  BY <1>4, RankExtended
<1>9. ASSUME NEW i \in shown \cup {n + 1}, NEW j \in breaks \cup {m + 1},
             Rank(shown \cup {n + 1}, i) = Rank(breaks \cup {m + 1}, j)
      PROVE  LET line == LineAt(feed'[s][k], j)
             IN  /\ log'[i].text = TrimEnd(Kept(line))
                 /\ log'[i].truncated = IsCut(line)
                 /\ log'[i].stream_line = Rank(breaks \cup {m + 1}, j)
  <2>1. CASE i \in shown /\ j \in breaks
    <3>1. Rank(shown, i) = Rank(breaks, j)
      BY <1>7, <1>8, <1>9, <2>1
    <3>2. log'[i] = log[i] /\ LineAt(feed'[s][k], j) = LineAt(f, j)
      BY <1>3, <1>4, <2>1
    <3> QED  BY <1>5, <1>8, <2>1, <3>1, <3>2 DEF LinesOf
  <2>2. CASE i = n + 1 /\ j = m + 1
    BY <1>3, <1>4, <1>5, <1>8, <2>2 DEF f
  <2>3. ~(i \in shown /\ j = m + 1)
    <3> SUFFICES ASSUME i \in shown, j = m + 1 PROVE FALSE
      OBVIOUS
    <3>1. Rank(breaks \cup {m + 1}, j) = Cardinality(breaks) + 1
      BY <1>8
    <3>2. /\ Rank(shown \cup {n + 1}, i) = Rank(shown, i)
          /\ Rank(shown, i) \in Nat /\ Rank(shown, i) <= Cardinality(breaks)
      BY <1>7
    <3> QED  BY <1>6, <1>9, <3>1, <3>2
  <2>4. ~(i = n + 1 /\ j \in breaks)
    <3> SUFFICES ASSUME i = n + 1, j \in breaks PROVE FALSE
      OBVIOUS
    <3>1. Rank(shown \cup {n + 1}, i) = Cardinality(breaks) + 1
      BY <1>7
    <3>2. /\ Rank(breaks \cup {m + 1}, j) = Rank(breaks, j)
          /\ Rank(breaks, j) \in Nat /\ Rank(breaks, j) <= Cardinality(breaks)
      BY <1>8
    <3> QED  BY <1>6, <1>9, <3>1, <3>2
  <2> QED  BY <2>1, <2>2, <2>3, <2>4
<1>10. scope'[s].stream_lines[k] = Cardinality(breaks) + 1
  BY <1>5
<1>11. LinesOf(shown \cup {n + 1}, breaks \cup {m + 1}, feed'[s][k], log')
  BY <1>9 DEF LinesOf
<1> QED  BY <1>3, <1>4, <1>6, <1>10, <1>11 DEF ShowsBreaks

LEMMA BreaksShownStep == IInv /\ BreaksShown /\ [Next]_vars => BreaksShown'
PROOF
<1> SUFFICES ASSUME IInv, BreaksShown, [Next]_vars,
                    NEW z \in ScopeIds, NEW y \in Streams
             PROVE  ShowsBreaks(z, y)'
  BY DEF BreaksShown
<1>1. LineFeed!Next \/ UNCHANGED LineFeed!vars
  BY LineFeedStep
<1>t. /\ log \in Seq(Events)
      /\ open \subseteq ScopeIds
      /\ scope \in [ScopeIds -> ScopeStates]
      /\ feed \in [ScopeIds -> [Streams -> Seq(Bytes \cup {"eof"})]]
  BY DEF IInv, TypeOK
<1>b. ShowsBreaks(z, y)
  BY DEF BreaksShown
<1>s. Shown(z, y) \in SUBSET (1..Len(log))
  BY <1>t DEF Shown
<1>same. ASSUME UNCHANGED <<log, feed, numbers>>, open' = open
         PROVE  ShowsBreaks(z, y)'
  <2>1. Shown(z, y)' = Shown(z, y)
    BY <1>same DEF Shown
  <2>2. scope'[z].stream_lines = scope[z].stream_lines
    BY <1>same DEF numbers
  <2> QED  BY <1>b, <1>same, <2>1, <2>2, ShowsBreaksSame
<1>2. CASE UNCHANGED LineFeed!vars
  BY <1>2, <1>same DEF LineFeed!vars, numbers
<1>3. ASSUME NEW s \in ScopeIds, LineFeed!Begin(s)
      PROVE  ShowsBreaks(z, y)'
  <2>1. /\ open' = open \cup {s}
        /\ feed' = [feed EXCEPT ![s] = [k \in Streams |-> <<>>]]
        /\ numbers' = [numbers EXCEPT ![s] = [k \in Streams |-> 0]]
        /\ log' = Append(log, BeginEvent(s))
    BY <1>3 DEF LineFeed!Begin, LineFeed!BeginEvent, BeginEvent, numbers
  <2>2. BeginEvent(s) \in Events /\ BeginEvent(s).type = "begin"
        /\ (BeginEvent(s) = BeginEvent(z) <=> s = z)
    BY EventsTyped DEF BeginEvent
  <2>3. /\ Shown(z, y)' = IF s = z THEN {} ELSE Shown(z, y)
        /\ \A i \in Shown(z, y) : log'[i] = log[i]
    BY <1>t, <1>s, <2>1, <2>2, ShownAppend
  <2>4. CASE s = z
    <3>1. feed'[z][y] = <<>> /\ scope'[z].stream_lines[y] = 0
      BY <1>t, <2>1, <2>4 DEF numbers
    <3>2. VisibleBreaks(feed'[z][y]) = {}
      BY <3>1 DEF VisibleBreaks
    <3> QED  BY <2>3, <2>4, <3>1, <3>2, FS_EmptySet DEF ShowsBreaks, LinesOf
  <2>5. CASE s # z
    <3>1. feed'[z][y] = feed[z][y] /\ scope'[z].stream_lines = scope[z].stream_lines
      BY <1>t, <2>1, <2>5 DEF numbers
    <3> QED  BY <1>b, <2>1, <2>3, <2>5, <3>1, ShowsBreaksSame
  <2> QED  BY <2>4, <2>5
<1>4. ASSUME NEW s \in ScopeIds, NEW k \in Streams, NEW b \in Bytes \cup {"eof"},
             LineFeed!Receive(s, k, b)
      PROVE  ShowsBreaks(z, y)'
  <2> DEFINE line == OpenLine(feed[s][k])
             e == LineEvent(s, k, next_ordinal, numbers[s][k] + 1, TrimEnd(Kept(line)), IsCut(line))
  <2>1. /\ s \in open /\ open' = open
        /\ feed' = [feed EXCEPT ![s][k] = Append(@, b)]
        /\ IF IsBreak(b) /\ TrimEnd(Kept(line)) # <<>>
           THEN log' = Append(log, e) /\ numbers' = [numbers EXCEPT ![s][k] = @ + 1]
           ELSE log' = log /\ numbers' = numbers
    BY <1>4, SameLines DEF LineFeed!Receive, LineFeed!LineEvent, LineEvent, numbers
  <2>2. feed'[z][y] = IF z = s /\ y = k THEN Append(feed[z][y], b) ELSE feed[z][y]
    BY <1>t, <2>1
  <2>3. CASE IsBreak(b) /\ TrimEnd(Kept(line)) # <<>>
    <3>1. /\ numbers[s][k] = scope[s].stream_lines[k]
          /\ scope'[z].stream_lines = [numbers EXCEPT ![s][k] = @ + 1][z]
      BY <2>1, <2>3 DEF numbers
    <3>2. scope'[z].stream_lines[y] =
            scope[z].stream_lines[y] + (IF z = s /\ y = k THEN 1 ELSE 0)
      BY <1>t, <3>1 DEF numbers, ScopeStates
    <3>3. e \in Events
      <4>1. line \in Seq(Bytes \cup {"eof"})
        BY <1>t, OpenLineType
      <4>2. /\ buffer[s][k] \in LineBuffers
            /\ HoldsOpenLine(buffer[s][k], line)
        BY <2>1 DEF IInv, TypeOK, BufferIsOpenLine
      <4>3. Kept(line) \in Seq(Bytes) /\ IsCut(line) \in BOOLEAN
        BY <4>2 DEF HoldsOpenLine, LineBuffers
      <4>4. TrimEnd(Kept(line)) \in Seq(Bytes)
        BY <4>3, TrimEndType
      <4>5. next_ordinal \in Nat /\ numbers[s][k] + 1 \in Nat \ {0}
        <5>1. scope[s].stream_lines[k] \in Nat
          BY <1>t DEF ScopeStates
        <5>2. next_ordinal \in Nat
          BY DEF IInv, TypeOK
        <5> QED  BY <3>1, <5>1, <5>2
      <4> HIDE DEF line
      <4> QED  BY <4>3, <4>4, <4>5, EventsTyped
    <3>4. /\ e.type = "line" /\ e.scope = s /\ e.stream = k
          /\ e.text = TrimEnd(Kept(line)) /\ e.truncated = IsCut(line)
          /\ e.stream_line = scope[s].stream_lines[k] + 1
          /\ e # BeginEvent(z)
      BY <3>1 DEF LineEvent, BeginEvent
    <3>5. log' = Append(log, e)
      BY <2>1, <2>3
    <3> HIDE DEF e
    <3>6. CASE z = s /\ y = k
      BY <1>b, <2>1, <2>2, <2>3, <3>2, <3>3, <3>4, <3>5, <3>6, ShowsBreaksMore
    <3>7. CASE ~(z = s /\ y = k)
      <4>1. /\ Shown(z, y)' = Shown(z, y)
            /\ \A i \in Shown(z, y) : log'[i] = log[i]
        BY <1>t, <1>s, <3>3, <3>4, <3>5, <3>7, ShownAppend
      <4>2. feed'[z][y] = feed[z][y] /\ scope'[z].stream_lines[y] = scope[z].stream_lines[y]
        <5>1. scope[z].stream_lines[y] \in Nat
          BY <1>t DEF ScopeStates
        <5> QED  BY <2>2, <3>2, <3>7, <5>1
      <4> QED  BY <1>b, <2>1, <4>1, <4>2, ShowsBreaksSame
    <3> QED  BY <3>6, <3>7
  <2>4. CASE ~(IsBreak(b) /\ TrimEnd(Kept(line)) # <<>>)
    <3>1. log' = log /\ numbers' = numbers
      BY <2>1, <2>4
    <3>2. VisibleBreaks(feed'[z][y]) = VisibleBreaks(feed[z][y])
      BY <1>t, <2>2, <2>4, BreaksAppend
    <3>3. \A j \in VisibleBreaks(feed[z][y]) : LineAt(feed'[z][y], j) = LineAt(feed[z][y], j)
      BY <1>t, <2>2, BreaksAppend
    <3>4. Shown(z, y)' = Shown(z, y)
      BY <3>1 DEF Shown
    <3>5. scope'[z].stream_lines = scope[z].stream_lines
      BY <3>1 DEF numbers
    <3> QED  BY <1>b, <2>1, <3>1, <3>2, <3>3, <3>4, <3>5 DEF ShowsBreaks, LinesOf
  <2> QED  BY <2>3, <2>4
<1>5. ASSUME NEW s \in ScopeIds, LineFeed!Lose(s)
      PROVE  ShowsBreaks(z, y)'
  BY <1>5, <1>same DEF LineFeed!Lose, numbers
<1>6. ASSUME NEW s \in ScopeIds, NEW reason \in EndReasons, LineFeed!End(s, reason)
      PROVE  ShowsBreaks(z, y)'
  <2> DEFINE e == EndEvent(s, IF s \in lost /\ reason = "Complete" THEN "Truncated" ELSE reason,
                           s \in lost)
  <2>1. /\ open' = open \ {s} /\ feed' = feed
        /\ numbers' = [numbers EXCEPT ![s] = [k \in Streams |-> 0]]
        /\ log' = Append(log, e)
    BY <1>6 DEF LineFeed!End, LineFeed!EndEvent, EndEvent, numbers, lost
  <2>2. e \in Events /\ e.type = "end" /\ e # BeginEvent(z)
    <3>1. (IF s \in lost /\ reason = "Complete" THEN "Truncated" ELSE reason) \in EndReasons
      BY DEF EndReasons
    <3>2. (s \in lost) \in BOOLEAN
      OBVIOUS
    <3>3. e.type = "end" /\ BeginEvent(z).type = "begin"
      BY DEF EndEvent, BeginEvent
    <3>4. e \in Events
      BY <3>1, <3>2, EventsTyped
    <3> QED  BY <3>3, <3>4
  <2> HIDE DEF e
  <2>3. /\ Shown(z, y)' = Shown(z, y)
        /\ \A i \in Shown(z, y) : log'[i] = log[i]
    BY <1>t, <1>s, <2>1, <2>2, ShownAppend
  <2>4. z \in open' => z \in open /\ scope'[z].stream_lines = scope[z].stream_lines
    BY <2>1 DEF numbers
  <2> QED  BY <1>b, <2>1, <2>3, <2>4, ShowsBreaksSame
<1> QED
  BY <1>1, <1>2, <1>3, <1>4, <1>5, <1>6
  DEF LineFeed!Next, LineFeed!EndReasons, EndReasons

(* What parsers are shown of a stream is the split of its retained bytes,  *)
(* wherever the chunk boundaries fell (push_chunk, end_scope).             *)
THEOREM FramingAlwaysSplit == Spec => []FramingIsSplit
PROOF
<1>1. BreaksShown => FramingIsSplit
  BY DEF BreaksShown, ShowsBreaks, LinesOf, FramingIsSplit
<1> QED  BY <1>1, BreaksShownInit, BreaksShownStep, Invariant, PTL DEF Spec

----------------------------------------------------------------------------
(* Byte accounting *)

FeedTyped(f) == f \in [Streams -> Seq(Bytes \cup {"eof"})]

LEMMA FramedBytesTyped ==
  ASSUME NEW s, FeedTyped(feed[s])
  PROVE  /\ \A k \in Streams : FramedBytes(s)[k] = Cardinality(FeedBytes(feed[s][k]))
         /\ \A k \in Streams : FramedBytes(s)[k] \in Nat
         /\ BytesFramed(s) = SumFunctionOnSet(FramedBytes(s), Streams)
         /\ BytesFramed(s) \in Nat
PROOF
<1>1. ASSUME NEW k \in Streams
      PROVE  Cardinality(FeedBytes(feed[s][k])) \in Nat
  <2>1. Len(feed[s][k]) \in Nat /\ FeedBytes(feed[s][k]) \in SUBSET (1..Len(feed[s][k]))
    BY DEF FeedTyped, FeedBytes
  <2> QED  BY <2>1, PositionsFinite
<1>2. /\ \A k \in Streams : FramedBytes(s)[k] = Cardinality(FeedBytes(feed[s][k]))
      /\ DOMAIN FramedBytes(s) = Streams
  BY DEF FramedBytes
<1>3. BytesFramed(s) = SumFunctionOnSet(FramedBytes(s), Streams)
  BY <1>2 DEF BytesFramed, SumFunction
<1>4. BytesFramed(s) \in Nat
  BY <1>1, <1>2, <1>3, SumNat, LinesAssumption
<1> QED  BY <1>1, <1>2, <1>3, <1>4

LEMMA FeedBytesAppend ==
  ASSUME NEW f \in Seq(Bytes \cup {"eof"}), NEW b \in Bytes \cup {"eof"}
  PROVE  Cardinality(FeedBytes(Append(f, b))) =
           Cardinality(FeedBytes(f)) + (IF b = "eof" THEN 0 ELSE 1)
PROOF
<1> DEFINE g == Append(f, b)
           n == Len(f)
<1>1. /\ n \in Nat /\ DOMAIN f = 1..n /\ DOMAIN g = 1..(n + 1)
      /\ \A i \in 1..n : g[i] = f[i]
      /\ g[n + 1] = b
  OBVIOUS
<1> HIDE DEF g, n
<1>2. FeedBytes(f) \in SUBSET (1..n)
  BY <1>1 DEF FeedBytes
<1>3. FeedBytes(g) = IF b = "eof" THEN FeedBytes(f) ELSE FeedBytes(f) \cup {n + 1}
  BY <1>1 DEF FeedBytes
<1>4. /\ Cardinality(FeedBytes(f)) \in Nat
      /\ Cardinality(FeedBytes(f) \cup {n + 1}) = Cardinality(FeedBytes(f)) + 1
  BY <1>1, <1>2, PositionsFinite
<1> QED  BY <1>3, <1>4 DEF g

(* A byte, or the end of input, that reaches one stream of a scope.        *)
LEMMA BytesFramedAppend ==
  ASSUME NEW s \in ScopeIds, NEW k \in Streams, NEW b \in Bytes \cup {"eof"},
         feed \in [ScopeIds -> [Streams -> Seq(Bytes \cup {"eof"})]],
         feed' = [feed EXCEPT ![s][k] = Append(@, b)]
  PROVE  /\ BytesFramed(s)' = BytesFramed(s) + (IF b = "eof" THEN 0 ELSE 1)
         /\ \A z \in ScopeIds \ {s} : BytesFramed(z)' = BytesFramed(z)
PROOF
<1>1. FeedTyped(feed[s]) /\ FeedTyped(feed'[s])
  <2>1. Append(feed[s][k], b) \in Seq(Bytes \cup {"eof"})
    OBVIOUS
  <2> QED  BY <2>1 DEF FeedTyped
<1> DEFINE g == FramedBytes(s)
           h == FramedBytes(s)'
           d == IF b = "eof" THEN 0 ELSE 1
<1>2. /\ \A j \in Streams : g[j] = Cardinality(FeedBytes(feed[s][j])) /\ g[j] \in Nat
      /\ BytesFramed(s) = SumFunctionOnSet(g, Streams) /\ BytesFramed(s) \in Nat
  BY <1>1, FramedBytesTyped
<1>3. /\ \A j \in Streams : h[j] = Cardinality(FeedBytes(feed'[s][j])) /\ h[j] \in Nat
      /\ BytesFramed(s)' = SumFunctionOnSet(h, Streams) /\ BytesFramed(s)' \in Nat
  <2>1. \A j \in Streams : h[j] = Cardinality(FeedBytes(feed'[s][j]))
    BY DEF FramedBytes
  <2>2. DOMAIN h = Streams
    BY DEF FramedBytes
  <2>3. BytesFramed(s)' = SumFunctionOnSet(h, Streams)
    BY <2>2 DEF BytesFramed, SumFunction
  <2>4. ASSUME NEW j \in Streams
        PROVE  Cardinality(FeedBytes(feed'[s][j])) \in Nat
    <3>1. Len(feed'[s][j]) \in Nat /\ FeedBytes(feed'[s][j]) \in SUBSET (1..Len(feed'[s][j]))
      BY <1>1 DEF FeedTyped, FeedBytes
    <3> QED  BY <3>1, PositionsFinite
  <2>5. \A j \in Streams : h[j] \in Nat
    BY <2>1, <2>4
  <2>6. SumFunctionOnSet(h, Streams) \in Nat
    <3> HIDE DEF h
    <3> QED  BY <2>5, SumNat, LinesAssumption
  <2> QED  BY <2>1, <2>3, <2>5, <2>6
<1>4. h[k] = g[k] + d
  <2>1. feed'[s][k] = Append(feed[s][k], b) /\ feed[s][k] \in Seq(Bytes \cup {"eof"})
    OBVIOUS
  <2>2. Cardinality(FeedBytes(feed'[s][k])) = Cardinality(FeedBytes(feed[s][k])) + d
    BY <2>1, FeedBytesAppend
  <2>3. /\ g[k] = Cardinality(FeedBytes(feed[s][k]))
        /\ h[k] = Cardinality(FeedBytes(feed'[s][k]))
    BY <1>2, <1>3
  <2> QED  BY <2>2, <2>3
<1>5. \A j \in Streams \ {k} : g[j] = h[j]
  <2>1. \A j \in Streams \ {k} : feed'[s][j] = feed[s][j]
    OBVIOUS
  <2> QED  BY <1>2, <1>3, <2>1
<1>6. \A z \in ScopeIds \ {s} : BytesFramed(z)' = BytesFramed(z)
  <2> SUFFICES ASSUME NEW z \in ScopeIds \ {s}
               PROVE  BytesFramed(z)' = BytesFramed(z)
    OBVIOUS
  <2>1. feed'[z] = feed[z]
    OBVIOUS
  <2> QED  BY <2>1 DEF BytesFramed, FramedBytes
<1> HIDE DEF g, h
<1>7. SumFunctionOnSet(h, Streams) + g[k] = SumFunctionOnSet(g, Streams) + h[k]
  <2>1. \A j \in Streams : g[j] \in Nat /\ h[j] \in Nat
    BY <1>2, <1>3
  <2>2. IsFiniteSet(Streams)
    BY LinesAssumption
  <2>3. ChangedAt(g, h, Streams, k)
    BY <1>5, <2>1 DEF ChangedAt
  <2> QED  BY <2>2, <2>3, SumExcept
<1>8. g[k] \in Nat
  BY <1>2
<1> QED  BY <1>2, <1>3, <1>4, <1>6, <1>7, <1>8

Pending(s) == IF call.op = "push" /\ call.scope = s THEN Len(call.rest) ELSE 0

(* What is retained of an open scope was framed or is about to be. *)
BytesAccounted == \A s \in open : scope[s].retained_bytes = BytesFramed(s) + Pending(s)

LEMMA AccountedStep == IInv /\ Limits /\ BytesAccounted /\ [Next]_vars => BytesAccounted'
PROOF
<1> SUFFICES ASSUME IInv, Limits, BytesAccounted, [Next]_vars, NEW z \in open'
             PROVE  scope'[z].retained_bytes = BytesFramed(z)' + Pending(z)'
  BY DEF BytesAccounted
<1>t. /\ call \in Calls /\ open \subseteq ScopeIds /\ Control
      /\ scope \in [ScopeIds -> ScopeStates]
      /\ feed \in [ScopeIds -> [Streams -> Seq(Bytes \cup {"eof"})]]
  BY DEF IInv, TypeOK
<1>n. NoCall.op = "none"
  BY DEF NoCall
<1>f. ASSUME NEW s \in ScopeIds
      PROVE  BytesFramed(s) \in Nat
  BY <1>t, FramedBytesTyped DEF FeedTyped
<1>idle. ASSUME call.op # "push", z \in open
         PROVE  scope[z].retained_bytes = BytesFramed(z)
  <2>1. Pending(z) = 0 /\ BytesFramed(z) \in Nat
    BY <1>t, <1>f, <1>idle DEF Pending
  <2> QED  BY <1>idle, <2>1 DEF BytesAccounted
<1>same. ASSUME z \in open, feed' = feed, scope'[z].retained_bytes = scope[z].retained_bytes,
                call' = call \/ (call.op # "push" /\ call'.op # "push")
         PROVE  scope'[z].retained_bytes = BytesFramed(z)' + Pending(z)'
  <2>1. BytesFramed(z)' = BytesFramed(z)
    BY <1>same DEF BytesFramed, FramedBytes
  <2>2. Pending(z)' = Pending(z)
    BY <1>same DEF Pending
  <2> QED  BY <1>same, <2>1, <2>2 DEF BytesAccounted
<1>1. ASSUME NEW s \in ScopeIds, BeginScope(s)
      PROVE  scope'[z].retained_bytes = BytesFramed(z)' + Pending(z)'
  <2>1. /\ pc = "idle" /\ open' = open \cup {s}
        /\ scope' = [scope EXCEPT ![s] = FreshScope]
        /\ call'.op = "begin"
        /\ feed' = [feed EXCEPT ![s] = [k \in Streams |-> <<>>]]
    BY <1>1 DEF BeginScope, NoCall
  <2>2. call.op # "push" /\ Pending(z)' = 0
    BY <1>t, <2>1 DEF Control, Pending
  <2>3. CASE z = s
    <3>1. scope'[z].retained_bytes = 0 /\ feed'[z] = [k \in Streams |-> <<>>]
      BY <1>t, <2>1, <2>3 DEF FreshScope
    <3> DEFINE h == FramedBytes(z)'
    <3>2. \A k \in Streams : h[k] = 0
      <4>1. \A k \in Streams : FeedBytes(feed'[z][k]) = {}
        BY <3>1 DEF FeedBytes
      <4> QED  BY <4>1, FS_EmptySet DEF FramedBytes
    <3>3. BytesFramed(z)' = SumFunctionOnSet(h, Streams)
      <4>1. DOMAIN h = Streams
        BY DEF FramedBytes
      <4> QED  BY <4>1 DEF BytesFramed, SumFunction
    <3> HIDE DEF h
    <3>4. SumFunctionOnSet(h, Streams) = 0
      BY <3>2, SumZeros, LinesAssumption
    <3> QED  BY <2>2, <3>1, <3>3, <3>4
  <2>4. CASE z # s
    <3>1. z \in open /\ scope'[z] = scope[z] /\ feed'[z] = feed[z]
      BY <1>t, <2>1, <2>4
    <3>2. BytesFramed(z)' = BytesFramed(z)
      BY <3>1 DEF BytesFramed, FramedBytes
    <3>3. scope[z].retained_bytes = BytesFramed(z) /\ BytesFramed(z) \in Nat
      BY <1>t, <1>f, <1>idle, <2>2, <3>1
    <3> QED  BY <2>2, <3>1, <3>2, <3>3
  <2> QED  BY <2>3, <2>4
<1>2. ASSUME NEW s \in ScopeIds, NEW k \in Streams, NEW chunk \in Chunks,
             PushChunk(s, k, chunk)
      PROVE  scope'[z].retained_bytes = BytesFramed(z)' + Pending(z)'
  <2> DEFINE retained == Retained(s, chunk)
             cut == Len(retained) < Len(chunk)
  <2>1. /\ pc = "idle" /\ open' = open /\ feed' = feed
        /\ scope' = [scope EXCEPT ![s].retained_bytes = @ + Len(retained),
                                  ![s].truncated = @ \/ cut]
        /\ call'.op = "push" /\ call'.scope = s /\ call'.rest = retained
    BY <1>2 DEF PushChunk, NoCall
  <2>2. scope[z].retained_bytes = BytesFramed(z) /\ z \in ScopeIds
    BY <1>t, <1>idle, <2>1 DEF Control
  <2>3. BytesFramed(z)' = BytesFramed(z) /\ BytesFramed(z) \in Nat
    BY <1>f, <2>1, <2>2 DEF BytesFramed, FramedBytes
  <2> HIDE DEF retained, cut
  <2>4. scope'[z].retained_bytes =
          IF z = s THEN scope[z].retained_bytes + Len(retained) ELSE scope[z].retained_bytes
    BY <1>t, <2>1, <2>2 DEF ScopeStates
  <2>5. Pending(z)' = IF z = s THEN Len(retained) ELSE 0
    BY <2>1 DEF Pending
  <2> QED  BY <2>2, <2>3, <2>4, <2>5
<1>3. ASSUME NEW s, NEW k, NEW buf, NEW resume, DispatchBytes(s, k, buf, resume), s \in ScopeIds
      PROVE  \A y \in ScopeIds : scope'[y].retained_bytes = scope[y].retained_bytes
  <2>1. CASE TrimEnd(buf.bytes) = <<>>
    BY <1>3, <2>1 DEF DispatchBytes
  <2>2. CASE TrimEnd(buf.bytes) # <<>>
    <3> DEFINE number == scope[s].stream_lines[k] + 1
    <3>1. scope' = [scope EXCEPT ![s].stream_lines[k] = number,
                                 ![s].truncated = @ \/ buf.truncated]
      BY <1>3, <2>2 DEF DispatchBytes
    <3> HIDE DEF number
    <3> QED  BY <1>t, <1>3, <3>1 DEF ScopeStates
  <2> QED  BY <2>1, <2>2
<1>4. CASE FrameByte
  <2>1. PICK s, k, b : s = call.scope /\ k = call.stream /\ b = Head(call.rest)
    OBVIOUS
  <2>2. /\ pc = "frame" /\ call.rest # <<>> /\ open' = open
        /\ call' = [call EXCEPT !.rest = Tail(@)]
        /\ feed' = [feed EXCEPT ![s][k] = Append(@, b)]
        /\ \/ DispatchBytes(s, k, buffer[s][k], "frame")
           \/ scope' = scope
    BY <1>4, <2>1 DEF FrameByte
  <2>3. call.op = "push" /\ s \in ScopeIds /\ k \in Streams
    BY <1>t, <2>1, <2>2 DEF Control
  <2>4. /\ b \in Bytes /\ Len(Tail(call.rest)) = Len(call.rest) - 1
        /\ Len(call.rest) \in Nat \ {0}
    BY <1>t, <2>1, <2>2, HeadTailProperties DEF Calls
  <2>5. b # "eof"
    BY <2>4, LinesAssumption DEF AllBytes
  <2>6. /\ BytesFramed(s)' = BytesFramed(s) + 1
        /\ \A y \in ScopeIds \ {s} : BytesFramed(y)' = BytesFramed(y)
    BY <1>t, <2>2, <2>3, <2>4, <2>5, BytesFramedAppend
  <2>7. z \in ScopeIds /\ scope'[z].retained_bytes = scope[z].retained_bytes
    BY <1>t, <1>3, <2>2, <2>3
  <2>8. scope[z].retained_bytes = BytesFramed(z) + Pending(z) /\ BytesFramed(z) \in Nat
    BY <1>f, <2>2, <2>7 DEF BytesAccounted
  <2>9. /\ Pending(z) = IF z = s THEN Len(call.rest) ELSE 0
        /\ Pending(z)' = IF z = s THEN Len(call.rest) - 1 ELSE 0
    <3>1. call'.op = call.op /\ call'.scope = call.scope /\ call'.rest = Tail(call.rest)
      BY <1>t, <2>2 DEF Calls
    <3> QED  BY <2>1, <2>3, <2>4, <3>1 DEF Pending
  <2> QED  BY <2>4, <2>6, <2>7, <2>8, <2>9
<1>5. ASSUME NEW k \in Streams, FlushBuffer(k)
      PROVE  scope'[z].retained_bytes = BytesFramed(z)' + Pending(z)'
  <2>1. PICK s : s = call.scope
    OBVIOUS
  <2>2. /\ pc = "flush" /\ open' = open
        /\ call' = [call EXCEPT !.flushing = @ \ {k}]
        /\ feed' = [feed EXCEPT ![s][k] = Append(@, "eof")]
        /\ \/ DispatchBytes(s, k, buffer[s][k], "flush")
           \/ scope' = scope
    BY <1>5, <2>1 DEF FlushBuffer
  <2>3. call.op = "end" /\ s \in ScopeIds
    BY <1>t, <2>1, <2>2 DEF Control
  <2>4. z \in ScopeIds /\ scope'[z].retained_bytes = scope[z].retained_bytes
    BY <1>t, <1>3, <2>2, <2>3
  <2>5. "eof" \in Bytes \cup {"eof"}
    OBVIOUS
  <2>6. BytesFramed(s)' = BytesFramed(s) + 0
    BY <1>t, <2>2, <2>3, <2>5, BytesFramedAppend
  <2>7. \A y \in ScopeIds \ {s} : BytesFramed(y)' = BytesFramed(y)
    BY <1>t, <2>2, <2>3, <2>5, BytesFramedAppend
  <2>8. BytesFramed(z)' = BytesFramed(z) /\ BytesFramed(z) \in Nat
    BY <1>f, <2>3, <2>4, <2>6, <2>7
  <2>9. call'.op = "end"
    BY <1>t, <2>2, <2>3 DEF Calls
  <2> QED  BY <1>idle, <2>2, <2>3, <2>4, <2>8, <2>9 DEF Pending
<1>6. CASE CloseScope
  <2>1. /\ open' = open \ {call.scope} /\ call' = call /\ feed' = feed
        /\ scope' = [scope EXCEPT ![call.scope] = FreshScope]
    BY <1>6 DEF CloseScope
  <2>2. z \in open /\ scope'[z].retained_bytes = scope[z].retained_bytes
    BY <1>t, <2>1
  <2> QED  BY <1>same, <2>1, <2>2
<1>7. CASE PushReturns
  <2>1. pc = "frame" /\ call.rest = <<>> /\ call' = NoCall /\ UNCHANGED <<open, scope, feed>>
    BY <1>7 DEF PushReturns, scopeVars, history
  <2>2. Pending(z) = 0 /\ Pending(z)' = 0
    BY <1>n, <2>1 DEF Pending
  <2>3. BytesFramed(z)' = BytesFramed(z)
    BY <2>1 DEF BytesFramed, FramedBytes
  <2> QED  BY <2>1, <2>2, <2>3 DEF BytesAccounted
<1>8. ASSUME NEW s \in ScopeIds, pc \in {"idle", "finish"},
             \E reason, finishing : StartEnd(s, reason, finishing)
      PROVE  scope'[z].retained_bytes = BytesFramed(z)' + Pending(z)'
  <2>1. call'.op = "end" /\ UNCHANGED <<open, scope, feed>>
    BY <1>8 DEF StartEnd, NoCall, scopeVars, history
  <2>2. call.op # "push"
    BY <1>t, <1>8 DEF Control
  <2> QED  BY <1>same, <2>1, <2>2
<1>9. CASE BeginReturns \/ EndReturns
  <2>1. pc \in {"begun", "ended"} /\ call' = NoCall /\ UNCHANGED <<open, scope, feed>>
    BY <1>9 DEF BeginReturns, EndReturns, scopeVars, history
  <2>2. call.op # "push"
    BY <1>t, <2>1 DEF Control
  <2> QED  BY <1>n, <1>same, <2>1, <2>2
<1>10. CASE \/ \E s \in ScopeIds : RejectScope(s)
            \/ ParserReturns \/ LineObserved \/ Finish \/ FinishParsers \/ FinishReturns
            \/ ParserEmits \/ ParserDrops \/ UNCHANGED vars
  <2>1. UNCHANGED <<open, scope, feed, call>>
    BY <1>10
    DEF RejectScope, ParserReturns, LineObserved, Finish, FinishParsers, FinishReturns,
        ParserEmits, Emit, ParserDrops, vars, callVars, scopeVars, history
  <2> QED  BY <1>same, <2>1
<1>11. CASE \E s \in ScopeIds, reason \in Reasons : EndScope(s, reason)
  BY <1>8, <1>11 DEF EndScope
<1>12. CASE InterruptNextScope
  BY <1>t, <1>8, <1>12 DEF InterruptNextScope
<1> QED
  BY <1>1, <1>2, <1>4, <1>5, <1>6, <1>7, <1>9, <1>10, <1>11, <1>12
  DEF Next, CallerNext, SessionNext, Finished

(* No byte is lost between the count of what is retained and the line      *)
(* buffers, in any step of any call (push_chunk).                          *)
THEOREM BytesAlwaysAccounted == Spec => []ByteAccounting
PROOF
<1>1. Init => BytesAccounted
  BY DEF Init, BytesAccounted
<1>2. RetainedIsPrefix /\ BytesAccounted => ByteAccounting
  BY DEF ByteAccounting, BytesAccounted, Pending
<1> QED
  BY <1>1, <1>2, AccountedStep, RetainedInit, RetainedStep, Invariant, PTL DEF Spec

----------------------------------------------------------------------------
(* Truncation *)

CutShown(s) == \E k \in Streams : \E i \in Shown(s, k) : log[i].truncated

(* An open scope is marked exactly when something of it was lost. *)
LossMarked ==
  \A s \in open : scope[s].truncated <=> offered[s] > MaxScopeBytes \/ CutShown(s)

LEMMA CutShownAppend ==
  ASSUME log \in Seq(Events), NEW e \in Events, log' = Append(log, e), NEW s \in ScopeIds,
         e.type = "line" => e.stream \in Streams
  PROVE  CutShown(s)' <=>
           /\ e # BeginEvent(s)
           /\ CutShown(s) \/ (e.type = "line" /\ e.scope = s /\ e.truncated)
PROOF
<1> DEFINE n == Len(log)
<1>1. /\ \A i \in 1..n : log'[i] = log[i]
      /\ n \in Nat /\ log'[n + 1] = e
      /\ \A k \in Streams : Shown(s, k) \in SUBSET (1..n)
  BY ShownAppend DEF Shown
<1>2. \A k \in Streams :
        Shown(s, k)' = IF e = BeginEvent(s) THEN {}
                       ELSE IF e.type = "line" /\ e.scope = s /\ e.stream = k
                            THEN Shown(s, k) \cup {n + 1}
                            ELSE Shown(s, k)
  BY ShownAppend
<1>3. CutShown(s)' <=> \E k \in Streams : \E i \in Shown(s, k)' : log'[i].truncated
  BY DEF CutShown
<1>4. CASE e = BeginEvent(s)
  BY <1>2, <1>3, <1>4
<1>5. CASE e # BeginEvent(s) /\ e.type = "line" /\ e.scope = s
  <2>1. \A k \in Streams : (\E i \in Shown(s, k)' : log'[i].truncated) <=>
          (\E i \in Shown(s, k) : log[i].truncated) \/ (e.stream = k /\ e.truncated)
    <3> SUFFICES ASSUME NEW k \in Streams
                 PROVE  (\E i \in Shown(s, k)' : log'[i].truncated) <=>
                          (\E i \in Shown(s, k) : log[i].truncated)
                            \/ (e.stream = k /\ e.truncated)
      OBVIOUS
    <3>1. Shown(s, k)' = IF e.stream = k THEN Shown(s, k) \cup {n + 1} ELSE Shown(s, k)
      BY <1>2, <1>5
    <3>2. \A i \in Shown(s, k) : log'[i] = log[i]
      BY <1>1
    <3> QED  BY <1>1, <3>1, <3>2
  <2> QED  BY <1>3, <1>5, <2>1 DEF CutShown
<1>6. CASE e # BeginEvent(s) /\ ~(e.type = "line" /\ e.scope = s)
  <2>1. \A k \in Streams : Shown(s, k)' = Shown(s, k)
    BY <1>2, <1>6
  <2>2. \A k \in Streams : \A i \in Shown(s, k) : log'[i] = log[i]
    BY <1>1
  <2> QED  BY <1>3, <1>6, <2>1, <2>2 DEF CutShown
<1> QED  BY <1>4, <1>5, <1>6

LEMMA LossMarkedStep ==
  IInv /\ Limits /\ RetainedIsPrefix /\ LossMarked /\ [Next]_vars => LossMarked'
PROOF
<1> SUFFICES ASSUME IInv, Limits, RetainedIsPrefix, LossMarked, [Next]_vars, NEW z \in open'
             PROVE  scope'[z].truncated <=> offered'[z] > MaxScopeBytes \/ CutShown(z)'
  BY DEF LossMarked
<1>t. /\ call \in Calls /\ open \subseteq ScopeIds /\ Control
      /\ log \in Seq(Events)
      /\ scope \in [ScopeIds -> ScopeStates]
      /\ buffer \in [ScopeIds -> [Streams -> LineBuffers]]
      /\ feed \in [ScopeIds -> [Streams -> Seq(Bytes \cup {"eof"})]]
      /\ offered \in [ScopeIds -> Nat]
  BY DEF IInv, TypeOK
<1>same. ASSUME z \in open, log' = log, offered' = offered,
                scope'[z].truncated = scope[z].truncated
         PROVE  scope'[z].truncated <=> offered'[z] > MaxScopeBytes \/ CutShown(z)'
  <2>1. CutShown(z)' = CutShown(z)
    BY <1>same DEF CutShown, Shown
  <2> QED  BY <1>same, <2>1 DEF LossMarked
<1>1. ASSUME NEW s \in ScopeIds, BeginScope(s)
      PROVE  scope'[z].truncated <=> offered'[z] > MaxScopeBytes \/ CutShown(z)'
  <2>1. /\ open' = open \cup {s}
        /\ scope' = [scope EXCEPT ![s] = FreshScope]
        /\ offered' = [offered EXCEPT ![s] = 0]
        /\ log' = Append(log, BeginEvent(s))
    BY <1>1 DEF BeginScope
  <2>2. z \in ScopeIds /\ BeginEvent(s) \in Events /\ BeginEvent(s).type = "begin"
        /\ (BeginEvent(s) = BeginEvent(z) <=> s = z)
    BY <1>t, <2>1, EventsTyped DEF BeginEvent
  <2>3. CutShown(z)' <=> s # z /\ CutShown(z)
    BY <1>t, <2>1, <2>2, CutShownAppend
  <2>4. CASE z = s
    <3>1. ~scope'[z].truncated /\ offered'[z] = 0
      BY <1>t, <2>1, <2>4 DEF FreshScope
    <3> QED  BY <2>3, <2>4, <3>1, SessionAssumption
  <2>5. CASE z # s
    <3>1. scope'[z] = scope[z] /\ offered'[z] = offered[z] /\ z \in open
      BY <1>t, <2>1, <2>2, <2>5
    <3> QED  BY <2>3, <2>5, <3>1 DEF LossMarked
  <2> QED  BY <2>4, <2>5
<1>2. ASSUME NEW s \in ScopeIds, NEW k \in Streams, NEW chunk \in Chunks,
             PushChunk(s, k, chunk)
      PROVE  scope'[z].truncated <=> offered'[z] > MaxScopeBytes \/ CutShown(z)'
  <2> DEFINE m == Len(Retained(s, chunk))
             c == Len(chunk)
             r == scope[s].retained_bytes
             o == offered[s]
  <2>1. /\ s \in open /\ open' = open /\ log' = log
        /\ scope' = [scope EXCEPT ![s].retained_bytes = @ + m,
                                  ![s].truncated = @ \/ m < c]
        /\ offered' = [offered EXCEPT ![s] = @ + c]
    BY <1>2 DEF PushChunk
  <2>2. chunk \in Seq(Bytes) /\ c \in Nat
    BY SessionAssumption DEF Chunks, BoundedSeq, SeqOf
  <2>3. /\ r = IF o <= MaxScopeBytes THEN o ELSE MaxScopeBytes
        /\ o \in Nat /\ r \in Nat /\ MaxScopeBytes \in Nat
        /\ o > MaxScopeBytes => scope[s].truncated
    BY <1>t, <2>1, SessionAssumption DEF RetainedIsPrefix, ScopeStates
  <2>4. m = IF c <= MaxScopeBytes - r THEN c ELSE MaxScopeBytes - r
    <3>1. Retained(s, chunk) = SubSeq(chunk, 1, IF c <= MaxScopeBytes - r THEN c
                                                ELSE MaxScopeBytes - r)
      BY DEF Retained, Available
    <3>2. (IF c <= MaxScopeBytes - r THEN c ELSE MaxScopeBytes - r) \in 0..c
      BY <2>2, <2>3
    <3> HIDE DEF r
    <3> QED  BY <2>2, <3>1, <3>2
  <2> HIDE DEF m, c, r, o
  <2>5. o <= MaxScopeBytes => (m < c <=> o + c > MaxScopeBytes)
    BY <2>2, <2>3, <2>4
  <2>6. /\ scope'[z].truncated = IF z = s THEN scope[s].truncated \/ m < c
                                 ELSE scope[z].truncated
        /\ offered'[z] = IF z = s THEN o + c ELSE offered[z]
        /\ scope[s].truncated \in BOOLEAN
    BY <1>t, <2>1 DEF ScopeStates, o
  <2>7. CutShown(z)' <=> CutShown(z)
    BY <2>1 DEF CutShown, Shown
  <2>8. scope[z].truncated <=> offered[z] > MaxScopeBytes \/ CutShown(z)
    BY <2>1 DEF LossMarked
  <2>9. CASE z = s
    <3>1. o > MaxScopeBytes \/ m < c <=> o + c > MaxScopeBytes
      BY <2>2, <2>3, <2>5
    <3> QED  BY <2>3, <2>6, <2>7, <2>8, <2>9, <3>1 DEF o
  <2>10. CASE z # s
    BY <2>6, <2>7, <2>8, <2>10
  <2> QED  BY <2>9, <2>10
<1>3. ASSUME NEW s \in open, NEW k \in Streams, NEW resume,
             DispatchBytes(s, k, buffer[s][k], resume), open' = open, offered' = offered
      PROVE  scope'[z].truncated <=> offered'[z] > MaxScopeBytes \/ CutShown(z)'
  <2> DEFINE buf == buffer[s][k]
             text == TrimEnd(buf.bytes)
             e == LineEvent(s, k, next_ordinal, scope[s].stream_lines[k] + 1, text,
                            buf.truncated)
  <2>1. CASE text = <<>>
    BY <1>3, <1>same, <2>1 DEF DispatchBytes
  <2>2. CASE text # <<>>
    <3> DEFINE number == scope[s].stream_lines[k] + 1
    <3>1. /\ scope' = [scope EXCEPT ![s].stream_lines[k] = number,
                                    ![s].truncated = @ \/ buf.truncated]
          /\ log' = Append(log, e)
      BY <1>3, <2>2 DEF DispatchBytes
    <3>2. s \in ScopeIds /\ buf.bytes \in Seq(Bytes) /\ buf.truncated \in BOOLEAN
      BY <1>t DEF LineBuffers
    <3>3. text \in Seq(Bytes)
      BY <3>2, TrimEndType
    <3>4. number \in Nat \ {0}
      BY <1>t, <3>2 DEF ScopeStates
    <3>5. next_ordinal \in Nat
      BY DEF IInv, TypeOK
    <3> HIDE DEF buf, text
    <3>6. e \in Events
      BY <3>2, <3>3, <3>4, <3>5, EventsTyped
    <3>7. /\ e.type = "line" /\ e.scope = s /\ e.stream \in Streams
          /\ e.truncated = buf.truncated /\ e # BeginEvent(z)
      BY DEF LineEvent, BeginEvent
    <3> HIDE DEF e, number
    <3>8. z \in open /\ z \in ScopeIds
      BY <1>t, <1>3
    <3>9. CutShown(z)' <=> CutShown(z) \/ (z = s /\ buf.truncated)
      BY <1>t, <3>1, <3>6, <3>7, <3>8, CutShownAppend
    <3>10. scope'[z].truncated <=> scope[z].truncated \/ (z = s /\ buf.truncated)
      BY <1>t, <3>1, <3>2, <3>8 DEF ScopeStates
    <3>11. scope[z].truncated <=> offered[z] > MaxScopeBytes \/ CutShown(z)
      BY <3>8 DEF LossMarked
    <3> QED  BY <1>3, <3>9, <3>10, <3>11
  <2> QED  BY <2>1, <2>2
<1>4. CASE FrameByte
  <2>1. /\ pc = "frame" /\ open' = open /\ offered' = offered
        /\ \/ DispatchBytes(call.scope, call.stream, buffer[call.scope][call.stream], "frame")
           \/ scope' = scope /\ log' = log
    BY <1>4 DEF FrameByte
  <2>2. call.scope \in open /\ call.stream \in Streams
    BY <1>t, <2>1 DEF Control
  <2> QED  BY <1>same, <1>3, <2>1, <2>2
<1>5. ASSUME NEW k \in Streams, FlushBuffer(k)
      PROVE  scope'[z].truncated <=> offered'[z] > MaxScopeBytes \/ CutShown(z)'
  <2>1. /\ pc = "flush" /\ open' = open /\ offered' = offered
        /\ \/ DispatchBytes(call.scope, k, buffer[call.scope][k], "flush")
           \/ scope' = scope /\ log' = log
    BY <1>5 DEF FlushBuffer
  <2>2. call.scope \in open
    BY <1>t, <2>1 DEF Control
  <2> QED  BY <1>same, <1>3, <2>1, <2>2
<1>6. CASE CloseScope
  <2> DEFINE s == call.scope
             e == EndEvent(s, EffectiveReason(scope[s], call.reason), scope[s].truncated)
  <2>1. /\ pc = "flush" /\ open' = open \ {s} /\ offered' = offered
        /\ scope' = [scope EXCEPT ![s] = FreshScope]
        /\ log' = Append(log, e)
    BY <1>6 DEF CloseScope
  <2>2. s \in open
    BY <1>t, <2>1 DEF Control
  <2>3. e \in Events
    <3>1. scope[s].truncated \in BOOLEAN /\ call.reason \in EndReasons
      BY <1>t, <2>2 DEF ScopeStates, Calls
    <3>2. EffectiveReason(scope[s], call.reason) \in EndReasons
      BY <3>1 DEF EffectiveReason, EndReasons
    <3> QED  BY <1>t, <2>2, <3>1, <3>2, EventsTyped
  <2>4. e.type = "end" /\ e # BeginEvent(z)
    BY DEF EndEvent, BeginEvent
  <2>5. z \in open /\ z \in ScopeIds /\ scope'[z] = scope[z]
    BY <1>t, <2>1
  <2> HIDE DEF e
  <2>6. CutShown(z)' <=> CutShown(z)
    BY <1>t, <2>1, <2>3, <2>4, <2>5, CutShownAppend
  <2> QED  BY <2>1, <2>5, <2>6 DEF LossMarked
<1>7. CASE \/ \E s \in ScopeIds :
              RejectScope(s) \/ \E reason, finishing : StartEnd(s, reason, finishing)
           \/ PushReturns \/ ParserReturns \/ LineObserved \/ BeginReturns \/ EndReturns
           \/ Finish \/ FinishParsers \/ FinishReturns
           \/ ParserEmits \/ ParserDrops \/ UNCHANGED vars
  <2>1. UNCHANGED <<open, scope, log, offered>>
    BY <1>7
    DEF RejectScope, StartEnd, PushReturns, ParserReturns, LineObserved, BeginReturns,
        EndReturns, Finish, FinishParsers, FinishReturns, ParserEmits, Emit, ParserDrops,
        vars, callVars, scopeVars, history
  <2> QED  BY <1>same, <2>1
<1>8. CASE InterruptNextScope \/ \E s \in ScopeIds, reason \in Reasons : EndScope(s, reason)
  BY <1>t, <1>7, <1>8 DEF InterruptNextScope, EndScope
<1> QED
  BY <1>1, <1>2, <1>4, <1>5, <1>6, <1>7, <1>8
  DEF Next, CallerNext, SessionNext, Finished

LEMMA CloseTells ==
  ASSUME IInv, Limits, BytesAccounted, RetainedIsPrefix, LossMarked, CloseScope
  PROVE  TruncationTold'
PROOF
<1> DEFINE s == call.scope
           e == EndEvent(s, EffectiveReason(scope[s], call.reason), scope[s].truncated)
<1>t. /\ call \in Calls /\ open \subseteq ScopeIds /\ Control
      /\ log \in Seq(Events)
      /\ scope \in [ScopeIds -> ScopeStates]
      /\ feed \in [ScopeIds -> [Streams -> Seq(Bytes \cup {"eof"})]]
      /\ offered \in [ScopeIds -> Nat]
  BY DEF IInv, TypeOK
<1>1. /\ pc = "flush" /\ UNCHANGED <<call, feed, offered>>
      /\ log' = Append(log, e)
  BY DEF CloseScope
<1>2. call.op = "end" /\ s \in open /\ s \in ScopeIds
  BY <1>t, <1>1 DEF Control
<1>3. scope[s].truncated \in BOOLEAN /\ call.reason \in EndReasons
  BY <1>t, <1>2 DEF ScopeStates, Calls
<1>4. e \in Events
  <2>1. EffectiveReason(scope[s], call.reason) \in EndReasons
    BY <1>3 DEF EffectiveReason, EndReasons
  <2> QED  BY <1>2, <1>3, <2>1, EventsTyped
<1>5. /\ e.type = "end" /\ e # BeginEvent(s)
      /\ e.input_truncated = scope[s].truncated
      /\ e.reason = "Complete" => ~scope[s].truncated
  BY <1>3 DEF EndEvent, BeginEvent, EffectiveReason
<1> HIDE DEF e
<1>6. log'[Len(log')] = e
  BY <1>t, <1>1, <1>4
<1>7. CutShown(s)' <=> CutShown(s)
  BY <1>t, <1>1, <1>2, <1>4, <1>5, CutShownAppend
<1>8. BytesFramed(s)' = BytesFramed(s)
  BY <1>1 DEF BytesFramed, FramedBytes
<1>9. BytesFramed(s) < offered[s] <=> offered[s] > MaxScopeBytes
  <2>1. scope[s].retained_bytes = BytesFramed(s) + 0 /\ BytesFramed(s) \in Nat
    BY <1>t, <1>2, FramedBytesTyped DEF BytesAccounted, Pending, FeedTyped
  <2>2. scope[s].retained_bytes =
          IF offered[s] <= MaxScopeBytes THEN offered[s] ELSE MaxScopeBytes
    BY <1>2 DEF RetainedIsPrefix
  <2> QED  BY <1>t, <1>2, <2>1, <2>2, SessionAssumption
<1>10. scope[s].truncated <=> offered[s] > MaxScopeBytes \/ CutShown(s)
  BY <1>2 DEF LossMarked
<1> QED  BY <1>1, <1>5, <1>6, <1>7, <1>8, <1>9, <1>10 DEF TruncationTold, CutShown

LEMMA TruncationToldStep ==
  IInv /\ Limits /\ BytesAccounted /\ RetainedIsPrefix /\ LossMarked /\ TruncationTold
    /\ [Next]_vars => TruncationTold'
PROOF
<1> SUFFICES ASSUME IInv, Limits, BytesAccounted, RetainedIsPrefix, LossMarked, TruncationTold,
                    [Next]_vars
             PROVE  TruncationTold'
  OBVIOUS
<1>1. CASE CloseScope
  BY <1>1, CloseTells
<1>2. CASE ParserReturns \/ ParserEmits \/ ParserDrops \/ UNCHANGED vars
  <2>1. UNCHANGED <<pc, call, log, feed, offered>>
    BY <1>2 DEF ParserReturns, ParserEmits, Emit, ParserDrops, vars, callVars, history
  <2> QED  BY <2>1 DEF TruncationTold, BytesFramed, FramedBytes, Shown
<1>3. CASE /\ ~CloseScope
           /\ ~(ParserReturns \/ ParserEmits \/ ParserDrops \/ UNCHANGED vars)
  <2>1. ASSUME NEW s, NEW k, NEW buf, NEW resume \in {"frame", "flush"},
               DispatchBytes(s, k, buf, resume)
        PROVE  pc' # "ended"
    BY <2>1 DEF DispatchBytes
  <2>2. FrameByte \/ (\E k \in Streams : FlushBuffer(k)) => pc' # "ended"
    BY <2>1 DEF FrameByte, FlushBuffer
  <2>3. CallerNext => pc' # "ended"
    BY DEF CallerNext, RejectScope, BeginScope, PushChunk, EndScope, StartEnd, Finish, callVars
  <2>4. PushReturns \/ LineObserved \/ BeginReturns \/ EndReturns \/ InterruptNextScope
          \/ FinishParsers \/ FinishReturns => pc' # "ended"
    BY DEF PushReturns, LineObserved, BeginReturns, EndReturns, AfterEnd, InterruptNextScope,
           StartEnd, FinishParsers, FinishReturns
  <2>5. pc' # "ended"
    BY <1>3, <2>2, <2>3, <2>4 DEF Next, SessionNext, Finished
  <2> QED  BY <2>5 DEF TruncationTold
<1> QED  BY <1>1, <1>2, <1>3

(* A scope ends as truncated exactly when bytes of it were refused or a    *)
(* line of it was shown cut (push_chunk, dispatch_bytes, end_scope).       *)
THEOREM TruncationAlwaysTold == Spec => []TruncationTold
PROOF
<1>1. Init => BytesAccounted /\ LossMarked /\ TruncationTold
  BY DEF Init, BytesAccounted, LossMarked, TruncationTold
<1> QED
  BY <1>1, AccountedStep, LossMarkedStep, TruncationToldStep, RetainedInit, RetainedStep,
     Invariant, PTL DEF Spec
=============================================================================
