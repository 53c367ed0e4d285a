---------------------------- MODULE BuiltinParsers ----------------------------
(***************************************************************************)
(* BuiltinDiagnosticParser (streaming.rs): the lines of every stream of    *)
(* every scope are kept in a buffer of bounded size, which is reduced when *)
(* the scope ends.  Beside it, a caller that shows the same lines to one   *)
(* TestLogReducer per scope, whose segments are the times it is open.      *)
(*                                                                         *)
(* The session calls the parser (Session.tla); here it is the environment. *)
(***************************************************************************)
EXTENDS BuiltinDiagnostics, TestLog

CONSTANTS
  Scopes, Streams,     \* streams are numbers, in the order of Stream
  RawLines,            \* lines as they are written, with how they end
  Framed,              \* what the session dispatches of one: cut, normalized by itself
  Normal,              \* what normalize_terminal_text makes of it by itself
  OpenLines,           \* they end inside a terminal sequence, which takes the line end too
  Joined,              \* Joined[raw][next]: the one line that such a line is with the next
  Cut,                 \* Cut[line][n]: what is left of a line in n bytes, 0 for nothing
  EndReasons,
  Setups               \* of a session, and what it is given

VARIABLES
  setup,
  open,                \* scopes between their boundaries
  log,                 \* of each, the lines pushed, as written and as framed, with streams
  scopes,              \* the parser's buffers, by scope and stream
  test_logs,
  segments             \* of each scope, the logs that have ended and what was found

vars == <<setup, open, log, scopes, test_logs, segments>>

SetupType ==
  [options : [fallback : {"Generic", "Disabled"}, max_buffered_scope_bytes : Nat,
              overrides : SUBSET BuiltinOwners],
   raws : SUBSET RawLines, streams : SUBSET Streams, scopes : SUBSET Scopes,
   reasons : SUBSET EndReasons,
   max_lines : Nat, max_begins : Nat]

ASSUME BuiltinParsersAssumption ==
  /\ Streams \subseteq Nat \ {0}
  /\ Setups \subseteq SetupType
  /\ 0 \notin Lines
  /\ Framed \in [RawLines -> Lines] /\ Normal \in [RawLines -> Lines]
  /\ OpenLines \subseteq RawLines /\ Joined \in [OpenLines -> [RawLines -> RawLines]]
  /\ \A line \in Lines : \A n \in 0..Reads[line].size :
       Cut[line][n] # 0 => Cut[line][n] \in Lines /\ Reads[Cut[line][n]].size \in 1..n
  /\ \A line \in Lines : ~Reads[line].blank => Cut[line][Reads[line].size] = line

Init ==
  /\ setup \in Setups
  /\ open = {}
  /\ log = [scope \in Scopes |-> <<>>]
  /\ scopes = [scope \in {} |-> <<>>]
  /\ test_logs = [scope \in Scopes |-> NewTestLog]
  /\ segments = [scope \in Scopes |-> <<>>]

----------------------------------------------------------------------------
(* The buffers *)

(* Nothing reads the buffer's flag that it was truncated; it is left out.  *)
NewBuffer(number) == [text |-> <<>>, first_line |-> number, last_line |-> number]

(* The bytes of a text, with a separator between lines: none is empty.     *)
TextLength(text) ==
  SumFunction([i \in DOMAIN text |-> Reads[text[i]].size])
    + (IF text = <<>> THEN 0 ELSE Len(text) - 1)

BufferedWhole(buffer, line, number) ==     \* variant: a line with any room is kept whole
  IF TextLength(buffer.text) < setup.options.max_buffered_scope_bytes
  THEN [buffer EXCEPT !.last_line = number, !.text = Append(@, line)]
  ELSE [buffer EXCEPT !.last_line = number]
Buffered(buffer, line, number) ==
  LET length == TextLength(buffer.text)
      max == setup.options.max_buffered_scope_bytes
      available == IF length > max THEN 0 ELSE max - length
      size == Reads[line].size
      kept == IF size + 1 <= available THEN line
              ELSE Cut[line][IF available < size THEN available ELSE size]
  IN  [buffer EXCEPT !.last_line = number, !.text = IF kept = 0 THEN @ ELSE Append(@, kept)]

Buffers(scope) == IF scope \in DOMAIN scopes THEN scopes[scope] ELSE [stream \in {} |-> <<>>]
BufferOfScope(scope, stream, number) ==    \* variant: a line goes to any buffer there is
  LET streams == DOMAIN Buffers(scope)
  IN  IF streams # {} THEN Buffers(scope)[Min(streams)] ELSE NewBuffer(number)
Buffer(scope, stream, number) ==
  IF stream \in DOMAIN Buffers(scope) THEN Buffers(scope)[stream] ELSE NewBuffer(number)

(* observe of a line that is not blank; the session dispatches no others.  *)
Kept(scope, stream, line, number) ==
  LET buffers == [other \in DOMAIN Buffers(scope) \cup {stream} |->
                    IF other = stream THEN Buffered(Buffer(scope, stream, number), line, number)
                    ELSE Buffers(scope)[other]]
  IN  [other \in DOMAIN scopes \cup {scope} |->
         IF other = scope THEN buffers ELSE scopes[other]]

(* flush_scope *)
Flushed(scope) ==
  LET buffers == Buffers(scope)
      streams == Ascending(DOMAIN buffers)
  IN  [n \in DOMAIN streams |->
         [stream |-> streams[n],
          first_line |-> buffers[streams[n]].first_line,
          last_line |-> buffers[streams[n]].last_line,
          diagnostics |-> TextDiagnostics(buffers[streams[n]].text, setup.options)]]

----------------------------------------------------------------------------
(* The calls *)

Begun == Cardinality(open) + MapThenSumSet(LAMBDA scope : Len(segments[scope]), Scopes)
LinesPushed ==
  MapThenSumSet(LAMBDA scope :
      Len(log[scope]) + MapThenSumSet(LAMBDA n : Len(segments[scope][n].log), DOMAIN segments[scope]),
    Scopes)

BeginScope(scope) ==
  /\ scope \in setup.scopes \ open
  /\ Begun < setup.max_begins
  /\ open' = open \cup {scope}
  /\ UNCHANGED <<setup, log, scopes, test_logs, segments>>

(* stream_line: lines that are blank are not dispatched and not numbered.  *)
Dispatched(scope, stream) ==
  {i \in DOMAIN log[scope] : log[scope][i].stream = stream /\ ~Reads[log[scope][i].line].blank}
Number(scope, stream) == Cardinality(Dispatched(scope, stream)) + 1

Observe(scope, stream, raw) ==
  LET line == Framed[raw]
      number == Number(scope, stream)
  IN  /\ scope \in open
      /\ LinesPushed < setup.max_lines
      /\ log' = [log EXCEPT ![scope] = Append(@, [stream |-> stream, line |-> line, raw |-> raw])]
      /\ scopes' = IF Reads[line].blank THEN scopes ELSE Kept(scope, stream, line, number)
      /\ test_logs' = [test_logs EXCEPT
           ![scope] = ObserveTestLine(@, line, [stream |-> stream, number |-> number])]
      /\ UNCHANGED <<setup, open, segments>>

EndScope(scope, reason) ==
  /\ scope \in open
  /\ open' = open \ {scope}
  /\ log' = [log EXCEPT ![scope] = <<>>]
  /\ scopes' = Restrict(scopes, DOMAIN scopes \ {scope})
  /\ test_logs' = [test_logs EXCEPT ![scope] = FinishTestLog(@, reason = "Complete")]
  /\ segments' = [segments EXCEPT ![scope] =
       Append(@, [log |-> log[scope], complete |-> reason = "Complete",
                  found |-> Flushed(scope)])]
  /\ UNCHANGED setup

(* The session and the test logs are done; others may follow.              *)
Finish ==
  /\ open = {}
  /\ test_logs' = [scope \in Scopes |-> NewTestLog]
  /\ segments' = [scope \in Scopes |-> <<>>]
  /\ UNCHANGED <<setup, open, log, scopes>>

Next ==
  \/ \E scope \in Scopes :
       \/ BeginScope(scope)
       \/ \E stream \in setup.streams : \E raw \in setup.raws : Observe(scope, stream, raw)
       \/ \E reason \in setup.reasons : EndScope(scope, reason)
  \/ Finish

Spec == Init /\ [][Next]_vars

----------------------------------------------------------------------------
(* A text at once *)

WrittenLines == {line \in Lines : ~Reads[line].blank}
WithoutBlanks(text) == Only(text, WrittenLines)

(* normalize_terminal_text: terminal sequences run over the ends of lines. *)
Unbroken(raws) ==
  LET lines[n \in 0..Len(raws)] ==
        IF n = 0 THEN <<>>
        ELSE IF lines[n - 1] # <<>> /\ Last(lines[n - 1]) \in OpenLines
        THEN Append(Front(lines[n - 1]), Joined[Last(lines[n - 1])][raws[n]])
        ELSE Append(lines[n - 1], raws[n])
  IN  lines[Len(raws)]
Normalized(raws) ==
  LET lines == Unbroken(raws)
  IN  WithoutBlanks([i \in DOMAIN lines |-> Normal[lines[i]]])

(* reduce_with_policy (lib.rs), up to finalize: there are no overrides.    *)
BatchDiagnostics(raws, options) ==
  TextDiagnostics(Normalized(raws), [options EXCEPT !.overrides = {}])
=============================================================================
