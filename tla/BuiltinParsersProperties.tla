----------------------- MODULE BuiltinParsersProperties -----------------------
(***************************************************************************)
(* What the findings of the built-in parsers have to do with the lines.    *)
(***************************************************************************)
EXTENDS BuiltinParsers

LinesOf(shown) == [i \in DOMAIN shown |-> shown[i].line]
RawsOf(shown) == [i \in DOMAIN shown |-> shown[i].raw]
OfStream(shown, stream) == Only(shown, [stream : {stream}, line : Lines, raw : RawLines])

(* Buffers are those of open scopes, span lines that their streams have    *)
(* shown, and exceed max_buffered_scope_bytes by no more than the separator *)
(* that observe does not count when it cuts a line.                        *)
BuffersBounded ==
  /\ DOMAIN scopes \subseteq open
  /\ \A scope \in DOMAIN scopes : \A stream \in DOMAIN scopes[scope] :
       LET buffer == scopes[scope][stream]
       IN  /\ TextLength(buffer.text) <= setup.options.max_buffered_scope_bytes + 1
           /\ 1 <= buffer.first_line /\ buffer.first_line <= buffer.last_line
           /\ buffer.last_line < Number(scope, stream)

----------------------------------------------------------------------------
(* Streaming and batch *)

Ended == UNION {Range(segments[scope]) : scope \in Scopes}

Written(shown) == {i \in DOMAIN shown : ~Reads[shown[i].line].blank}

(* Lines that the session did not cut, and no terminal sequence among them *)
(* that is still open where a line ends and another follows.               *)
LinesWhole(shown) ==
  /\ \A i \in DOMAIN shown : shown[i].line = Normal[shown[i].raw]
  /\ \A i \in DOMAIN shown : i < Len(shown) => shown[i].raw \notin OpenLines

ReducedAsBatch(shown, found, options) ==
  /\ found.first_line = 1 /\ found.last_line = Cardinality(Written(shown))
  /\ \/ TextLength(WithoutBlanks(LinesOf(shown))) > options.max_buffered_scope_bytes
     \/ options.overrides # {}
     \/ ~LinesWhole(shown)
     \/ found.diagnostics = BatchDiagnostics(RawsOf(shown), options)

SegmentAgrees(segment, options) ==
  /\ [n \in DOMAIN segment.found |-> segment.found[n].stream] =
       Ascending({stream \in Streams : Written(OfStream(segment.log, stream)) # {}})
  /\ \A found \in Range(segment.found) :
       ReducedAsBatch(OfStream(segment.log, found.stream), found, options)

(* However scopes and streams interleave, and whatever a scope of the same *)
(* id was shown before, a stream whose text fits its buffer is reduced as  *)
(* reduce_with_policy reduces what was written to it, each finding with    *)
(* the span of the stream, the streams in their order (observe and         *)
(* flush_scope).  Two things differ, and are left out: the session cuts    *)
(* long lines, and a terminal sequence that a line leaves open swallows    *)
(* the next lines of a text, where the session normalizes each by itself.  *)
BatchAgrees == \A segment \in Ended : SegmentAgrees(segment, setup.options)

----------------------------------------------------------------------------
(* References for the parsers that remember lines: what each exception or  *)
(* header of a text comes with, found by looking at the whole text.        *)

Owned(diagnostics, owner) == Only(diagnostics, {found \in Range(diagnostics) : found.owner = owner})

(* The frames below line i, blank lines between them or not.               *)
StackBelow(text, i, isFrame(_)) ==
  {j \in (i + 1)..Len(text) :
     /\ isFrame(text[j])
     /\ \A k \in (i + 1)..j : isFrame(text[k]) \/ Reads[text[k]].blank}
Looked(stack) == {j \in stack : Cardinality({k \in stack : k <= j}) <= MaxStackFrames}
(* An exception that nothing follows that would end its stack is not known *)
(* to be complete.                                                         *)
StackEnded(text, i, stack) ==
  \/ Cardinality(stack) >= MaxStackFrames
  \/ \E j \in (i + 1)..Len(text) : j \notin stack /\ ~Reads[text[j]].blank

IsNodeFrame(line) ==
  /\ Reads[line].node_frame # 0 \/ Reads[line].node_framework
  /\ Reads[line].node_exception = 0 /\ Reads[line].node_place = 0
IsJavaFrame(line) == Reads[line].java_frame # 0 /\ Reads[line].java_exception = 0

(* The nearest place above line i that no earlier exception has used.      *)
PlaceAbove(text, i, place(_), uses(_)) ==
  LET places == {j \in 1..(i - 1) : /\ place(text[j]) # 0
                                    /\ \A k \in (j + 1)..(i - 1) : ~uses(text[k])}
  IN  IF places = {} THEN 0 ELSE place(text[Max(places)])

NodePlace(line) == Reads[line].node_place
IsNodeException(line) == Reads[line].node_exception # 0 /\ Reads[line].node_place = 0
NodeReport(text, i, stack, leading, complete) ==
  LET own == {j \in Looked(stack) : ~Reads[text[j]].node_framework}
      at == IF own = {} THEN leading ELSE Reads[text[Min(own)]].node_frame
  IN  IF /\ stack # {} \/ leading # 0
         /\ complete \/ own # {} \/ StackEnded(text, i, stack)
      THEN <<Diagnostic("javascript-test", text[i], <<Reads[text[i]].node_exception>>, at)>>
      ELSE <<>>
NodeReference(text, complete) ==
  FlattenSeq([i \in DOMAIN text |->
    IF ~IsNodeException(text[i]) THEN <<>>
    ELSE NodeReport(text, i, StackBelow(text, i, IsNodeFrame),
                    PlaceAbove(text, i, NodePlace, IsNodeException), complete)])

JavaReport(text, i, stack, complete) ==
  LET own == {j \in Looked(stack) : ~Reads[text[j]].java_framework}
      at == IF own = {} THEN 0 ELSE Reads[text[Min(own)]].java_frame
  IN  IF /\ stack # {} \/ Reads[text[i]].java_explicit
         /\ complete \/ own # {} \/ StackEnded(text, i, stack)
      THEN <<Diagnostic("java-test", text[i], <<Reads[text[i]].java_exception>>, at)>>
      ELSE <<>>
JavaReference(text, complete) ==
  FlattenSeq([i \in DOMAIN text |->
    IF Reads[text[i]].java_exception = 0 THEN <<>>
    ELSE JavaReport(text, i, StackBelow(text, i, IsJavaFrame), complete)])

PythonPlace(line) == IF Reads[line].traceback THEN 0 ELSE Reads[line].python_place
IsPythonException(line) ==
  /\ Reads[line].python_exception # 0
  /\ Reads[line].python_place = 0 /\ ~Reads[line].traceback
EndsPython(line) == IsPythonException(line) \/ Reads[line].traceback
PythonReference(text) ==
  FlattenSeq([i \in DOMAIN text |->
    IF ~IsPythonException(text[i]) THEN <<>>
    ELSE <<Diagnostic("python", text[i], <<Reads[text[i]].python_exception>>,
                      PlaceAbove(text, i, PythonPlace, EndsPython))>>])

(* Below a header and above the next: the first of what they say.          *)
RustBelow(text, i, says(_)) ==
  LET below == {j \in (i + 1)..Len(text) :
                  says(text[j]) # 0 /\ \A k \in (i + 1)..j : Reads[text[k]].rust_header = 0}
  IN  IF below = {} THEN 0 ELSE says(text[Min(below)])
RustReport(header, place, detail) ==
  IF place = 0 THEN <<>>
  ELSE <<Diagnostic("rust-compiler", header,
           IF detail = 0 THEN <<Reads[header].rust_header>> ELSE <<Reads[header].rust_header, detail>>,
           place)>>
RustReference(text) ==
  FlattenSeq([i \in DOMAIN text |->
    IF Reads[text[i]].rust_header = 0 THEN <<>>
    ELSE RustReport(text[i], RustBelow(text, i, LAMBDA line : Reads[line].rust_place),
                    RustBelow(text, i, LAMBDA line : Reads[line].rust_detail))])

(* The texts of streams that nothing was cut from, with what was found.    *)
WholeTexts ==
  {one \in UNION {{[text |-> WithoutBlanks(LinesOf(OfStream(segment.log, found.stream))),
                    found |-> found.diagnostics] : found \in Range(segment.found)} :
              segment \in Ended} :
     TextLength(one.text) <= setup.options.max_buffered_scope_bytes}

(* Lines that are not an exception which JavaScript's or Java's parser has *)
(* reported, and the exceptions that Python's parser reports.              *)
Unclaimed(text, found) ==
  LET javascript == Messages(Owned(found, "javascript-test"))
      java == Messages(Owned(found, "java-test"))
  IN  Only(text, {line \in Lines : /\ <<Reads[line].node_exception>> \notin javascript
                                   /\ <<Reads[line].java_exception>> \notin java})
PythonExceptions(found) ==
  Only(found, {one \in Range(found) : one.owner = "python" /\ IsPythonException(one.line)})

(* Exceptions are reported with the place that belongs to them, the first  *)
(* frame of their own stack that is not the framework's or the place their *)
(* language prints above them, and only when something confirms them; so   *)
(* are headers of rustc; in the order of the text, each once, and none is  *)
(* left out if its parser runs.  State kept between lines (pending,        *)
(* frames_seen, leading_location, location) never moves a place to another *)
(* exception, and arbitration never takes one that is reported away.       *)
ReportsPlaced(text, found, options) ==
  LET reference ==
        [owner \in {"javascript-test", "java-test", "rust-compiler"} |->
           CASE owner = "javascript-test" -> NodeReference(text, TRUE)
             [] owner = "java-test" -> JavaReference(text, TRUE)
             [] owner = "rust-compiler" -> RustReference(text)]
  IN  /\ \A owner \in DOMAIN reference :
           Owned(found, owner) = IF IsRun(owner, Hints(text), options.overrides)
                                 THEN reference[owner] ELSE <<>>
      /\ PythonExceptions(found) = IF IsRun("python", Hints(text), options.overrides)
                                   THEN PythonReference(Unclaimed(text, found)) ELSE <<>>
ExceptionsPlaced == \A one \in WholeTexts : ReportsPlaced(one.text, one.found, setup.options)

(* Lines that may confirm an exception of JavaScript's and one of Java's: a *)
(* place of JavaScript's does any below it, a frame of both does, and       *)
(* "Exception in thread" needs no frame of Java's.                          *)
Ambiguous(line) ==
  \/ Reads[line].node_place # 0
  \/ IsNodeFrame(line) /\ IsJavaFrame(line)
  \/ Reads[line].node_exception # 0 /\ Reads[line].java_explicit

(* An exception that three languages recognise is reported by one of them: *)
(* never by Python's parser and another, and where nothing confirms it for *)
(* both of the others, as many times as it occurs at most                  *)
(* (claimed_test_exception).                                               *)
ExceptionOwners == {"javascript-test", "java-test", "python"}
ReportedOnce(text, found) ==
  /\ \A m, n \in DOMAIN found :
       found[m].owner = "python" /\ found[n].owner \in ExceptionOwners \ {"python"} =>
         found[m].line # found[n].line
  /\ (\A line \in Range(text) : ~Ambiguous(line)) =>
       \A line \in Range(text) :
         Cardinality({n \in DOMAIN found :
                        found[n].line = line /\ found[n].owner \in ExceptionOwners})
           <= Occurrences(text, line)
ExceptionsReportedOnce == \A one \in WholeTexts : ReportedOnce(one.text, one.found)

----------------------------------------------------------------------------
(* What looks like an error is not lost *)

(* A finding says it: the finding of the line, or of the same message, or  *)
(* of the frame that the line is in.                                       *)
SaidBy(line, found) ==
  LET read == Reads[line]
      messages == {<<read.python_summary>>, <<read.java_exception>>, <<read.node_exception>>}
  IN  \E n \in DOMAIN found :
        \/ found[n].line = line
        \/ found[n].message \in messages
        \/ found[n].owner = "javascript-swc" /\ read.swc_wrapper
        \/ found[n].owner = "javascript-swc" /\ read.swc_context \in Range(found[n].message)
SaidInFrame(line, text) ==
  \E n \in DOMAIN SwcFrames(text) :
    \E i \in SwcFrames(text)[n]..SwcFrameEnd(text, SwcFrames(text)[n]) : text[i] = line

(* What the code does lose: a header of rustc without a place, an apparent *)
(* Python exception or linker error that the scan saw no sign of, a linker *)
(* error in the line of a list of Apple's linker, a line of a traceback,   *)
(* and the line below an SWC frame that is one context too many.  The      *)
(* README says more.                                                       *)
Excused(line, text) ==
  LET read == Reads[line]
  IN  \/ read.rust_header # 0
      \/ read.python_exception # 0 /\ "python" \notin read.marks
      \/ read.linker # 0 /\ "cpp_linker" \notin read.marks /\ ~read.opens_linker
      \/ read.linker # 0 /\ (read.apple \/ read.apple_symbol # 0)
      \/ read.python_place # 0
      \/ read.swc_context # 0 /\ \E i \in 2..Len(text) :
           text[i] = line /\ \E n \in DOMAIN SwcFrames(text) :
             SwcFrameEnd(text, SwcFrames(text)[n]) = i - 1

(* Every line that looks like an error is said by some finding: none is    *)
(* claimed by a parser (claimed_language_line, swc_consumed_lines) that    *)
(* then says nothing of it, or was never run for want of a hint.           *)
LinesAccounted ==
  \A one \in WholeTexts :
    setup.options.fallback = "Generic" /\ setup.options.overrides = {} =>
      \A line \in Range(one.text) :
        Reads[line].candidate /\ Reads[line].actionable =>
          \/ SaidBy(line, one.found)
          \/ SaidInFrame(line, one.text)
          \/ Excused(line, one.text)

(* A line that repeats is reported by the parsers of lines once, where it  *)
(* occurs first and with the number of its occurrences, whatever is        *)
(* overridden, consumed or claimed in between (from_input, reduce_lines).  *)
FirstOf(text, line) == Min({i \in DOMAIN text : text[i] = line})
OfLines(found) ==
  {n \in DOMAIN found : found[n].owner \in Range(LineOwners) \cup {"generic.fallback"}}
RepetitionsCounted(text, found) ==
  /\ \A n \in OfLines(found) :
       /\ found[n].line \in Range(text)
       /\ found[n].repetition_count = Occurrences(text, found[n].line)
  /\ \A m, n \in OfLines(found) :
       m < n => FirstOf(text, found[m].line) < FirstOf(text, found[n].line)
LinesCounted == \A one \in WholeTexts : RepetitionsCounted(one.text, one.found)

----------------------------------------------------------------------------
(* The evidence of a test log *)

(* The segments that have ended, and the one that has not.                 *)
Segment(shown, complete) == [text |-> WithoutBlanks(LinesOf(shown)), complete |-> complete]
Segments(scope) ==
  {Segment(segment.log, segment.complete) : segment \in Range(segments[scope])}
  \cup {Segment(log[scope], FALSE)}

Foreign(line) ==        \* of a language whose findings hide a line from Python's parser
  \/ Reads[line].node_place # 0 \/ IsNodeFrame(line) \/ IsJavaFrame(line)
  \/ Reads[line].java_explicit \/ Reads[line].parsed["go"] # 0

GoReference(text) == FlattenSeq([i \in DOMAIN text |-> ParsedGo(text[i])])
ForeignEvidence(text, complete) ==
  Range(GoReference(text)) \cup Range(NodeReference(text, complete))
    \cup Range(JavaReference(text, complete))
PythonEvidence(text) == Range(PythonReference(text))
StructuredEvidence(text, complete) ==
  ForeignEvidence(text, complete)
    \cup {found \in PythonEvidence(text) : \A line \in Range(text) : ~Foreign(line)}

(* Lines of which the order of the parsers decides what is found or kept:  *)
(* places of Python's with lines that may hide them, and frames of both    *)
(* JavaScript's and Java's, where what Java's parser finds may be dropped. *)
Mixed(lines) ==
  \/ (\E line \in lines : Foreign(line)) /\ \E line \in lines : Reads[line].python_place # 0
  \/ \E line \in lines : IsNodeFrame(line) /\ IsJavaFrame(line)

IsBest(kept, structured, guessed, lines) ==
  LET located == {found \in structured : found.location # 0}
      told == {line \in lines : Reads[line].evidence # 3}
  IN  /\ located # {} /\ ~Mixed(lines) => kept # <<>> /\ kept[1].diagnostic \in located
      /\ structured # {} => kept # <<>> /\ kept[1].priority = 0
      /\ structured = {} /\ kept # <<>> =>
           \/ kept[1].diagnostic \in guessed
           \/ /\ kept[1].diagnostic.line \in told
              /\ \A line \in told : Reads[kept[1].diagnostic.line].evidence <= Reads[line].evidence
      /\ structured # {} \/ told # {} => kept # <<>>

(* The evidence that stands for a test log is the best in all of it: an    *)
(* exception with its own place if there is one (logs with Mixed lines     *)
(* aside), any exception before a line unless that tells as much, a more   *)
(* telling line before a less telling one; whatever the segments, their    *)
(* completeness, their blank lines and the order of lines (observe_line    *)
(* and finish_log replace what they keep one candidate at a time).         *)
EvidenceIsBest ==
  \A scope \in Scopes :
    IsBest(test_logs[scope].fallback,
           UNION {StructuredEvidence(segment.text, segment.complete) : segment \in Segments(scope)},
           UNION {PythonEvidence(segment.text) : segment \in Segments(scope)},
           UNION {Range(segment.text) : segment \in Segments(scope)})
=============================================================================
