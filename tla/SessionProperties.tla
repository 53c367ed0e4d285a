------------------------- MODULE SessionProperties -------------------------
(***************************************************************************)
(* What a reduction session guarantees its owner and its parsers.          *)
(***************************************************************************)
EXTENDS Session, Selections

ScopeStates ==
  [retained_bytes : Nat, truncated : BOOLEAN, stream_lines : [Streams -> Nat]]

LineBuffers == [bytes : Seq(Bytes), truncated : BOOLEAN, previous_was_cr : BOOLEAN]

Stats ==
  [bytes_seen : Nat, bytes_retained : Nat, lines_seen : Nat, truncated_lines : Nat,
   scopes_started : Nat, scopes_completed : Nat, candidates_emitted : Nat,
   candidates_dropped : Nat]

Calls ==
  [op : {"none", "begin", "push", "end"}, scope : ScopeIds \cup {0},
   stream : Streams \cup {0}, rest : Seq(Bytes), flushing : SUBSET Streams,
   reason : EndReasons, finishing : BOOLEAN]

Provenances ==
  [source : {"stream", "boundary", "parser", "own"}, scope : ScopeIds \cup {0},
   stream : Streams \cup {0}, line : Nat, parser : Nat]

Candidates == [kind : {"diagnostic", "test_failure"}, provenance : Provenances]

Points ==
  {"idle", "frame", "flush", "observe", "begun", "ended", "finish", "wrapup", "done"}

(* Every variable has its type. *)
TypeOK ==
  /\ pc \in Points
  /\ call \in Calls
  /\ parser \in 0..(NumParsers + 1)
  /\ open \subseteq ScopeIds
  /\ scope \in [ScopeIds -> ScopeStates]
  /\ buffer \in [ScopeIds -> [Streams -> LineBuffers]]
  /\ stats \in Stats
  /\ next_ordinal \in Nat
  /\ candidates \in Seq(Candidates)
  /\ dropped \in Nat
  /\ truncated \in BOOLEAN
  /\ feed \in [ScopeIds -> [Streams -> Seq(Bytes \cup {"eof"})]]
  /\ offered \in [ScopeIds -> Nat]
  /\ log \in Seq(Events)
  /\ emissions \in Nat

----------------------------------------------------------------------------
(* Framing *)

(* The position of the last event of log before i that satisfies Test. *)
LastEventBefore(i, Test(_)) == SelectLastInSubSeq(log, 1, i - 1, Test)

IsBoundaryOf(s, e) == e.type # "line" /\ e.scope = s

(* The positions in log of the lines of a stream parsers were shown since  *)
(* its scope last began.                                                   *)
Shown(s, k) ==
  {i \in DOMAIN log :
     /\ log[i].type = "line" /\ log[i].scope = s /\ log[i].stream = k
     /\ \A j \in i..Len(log) : log[j] # BeginEvent(s)}

(* The positions of the breaks that end a line of which something is kept, *)
(* and the line each one ends.                                             *)
LineAt(f, j) == OpenLine(SubSeq(f, 1, j - 1))
VisibleBreaks(f) == {j \in DOMAIN f : IsBreak(f[j]) /\ TrimEnd(Kept(LineAt(f, j))) # <<>>}

(* What parsers are shown of a stream is the split of its retained bytes   *)
(* at CR, LF and CRLF, cut at the line limit, without the lines of which   *)
(* nothing is left, and numbered without gaps, wherever the chunk          *)
(* boundaries fell (push_chunk, end_scope, dispatch_bytes).                *)
FramingIsSplit ==
  \A s \in ScopeIds, k \in Streams :
    LET breaks == VisibleBreaks(feed[s][k])
        shown == Shown(s, k)
    IN  /\ Cardinality(shown) = Cardinality(breaks)
        /\ \A i \in shown, j \in breaks :
             Rank(shown, i) = Rank(breaks, j) =>
               LET line == LineAt(feed[s][k], j)
               IN  /\ log[i].text = TrimEnd(Kept(line))
                   /\ log[i].truncated = IsCut(line)
                   /\ log[i].stream_line = Rank(breaks, j)

(* The session implements the line feed, which knows no chunks: its        *)
(* open scopes, feeds, truncation marks, line numbers and events.          *)
LineFeed ==
  INSTANCE LineFeed WITH
    lost <- {s \in open : scope[s].truncated},
    numbers <- [s \in ScopeIds |-> scope[s].stream_lines],
    total <- next_ordinal
ImplementsLineFeed == LineFeed!Spec

----------------------------------------------------------------------------
(* Scopes *)

(* Parsers see every scope bracketed: between two Ends of an id there is a *)
(* Begin, no line of a scope is shown outside its Begin and End even when  *)
(* its id is reused, and once finish returns every Begin has its End       *)
(* (begin_scope, end_scope, finish).                                       *)
ScopesBracketed ==
  /\ \A i \in DOMAIN log :
       LET s == log[i].scope
           p == LastEventBefore(i, LAMBDA e : IsBoundaryOf(s, e))
           inside == p # 0 /\ log[p] = BeginEvent(s)
       IN  inside <=> log[i].type # "begin"
  /\ pc = "done" =>
       \A s \in ScopeIds :
         LET p == LastEventBefore(Len(log) + 1, LAMBDA e : IsBoundaryOf(s, e))
         IN  p # 0 => log[p].type = "end"

(* The bytes of a scope that reached the line buffers, of each stream and  *)
(* of all of them.                                                         *)
FeedBytes(f) == {i \in DOMAIN f : f[i] # "eof"}
FramedBytes(s) == [k \in Streams |-> Cardinality(FeedBytes(feed[s][k]))]
BytesFramed(s) == SumFunction(FramedBytes(s))

(* What is retained of a scope is all that was offered, or the first       *)
(* MaxScopeBytes of it, however it was cut into chunks; and a scope of     *)
(* which anything was refused is marked (push_chunk).                      *)
RetainedIsPrefix ==
  \A s \in open :
    /\ scope[s].retained_bytes =
         IF offered[s] <= MaxScopeBytes THEN offered[s] ELSE MaxScopeBytes
    /\ offered[s] > MaxScopeBytes => scope[s].truncated

(* And these bytes are those framed of the scope's streams or waiting to   *)
(* be in the call in progress, so none is lost between the count and the   *)
(* line buffers (push_chunk).                                              *)
ByteAccounting ==
  /\ RetainedIsPrefix
  /\ \A s \in open :
       LET pending == IF call.op = "push" /\ call.scope = s THEN Len(call.rest) ELSE 0
       IN  scope[s].retained_bytes = BytesFramed(s) + pending

(* "Retained input, line length, open scopes, candidates [...] are         *)
(* explicitly bounded" (README.md): each of the four Limits holds in every *)
(* step of every call.                                                     *)
LimitsHold ==
  /\ Cardinality(open) <= MaxScopes
  /\ \A s \in open :
       /\ scope[s].retained_bytes <= MaxScopeBytes
       /\ \A k \in Streams : Len(buffer[s][k].bytes) <= MaxLineBytes
  /\ Len(candidates) <= MaxCandidates

(* A scope ends as truncated exactly when bytes of it were refused or a    *)
(* line of it was shown cut, and then never as Complete: test-failure      *)
(* parsers trust this before they report (end_scope).                      *)
TruncationTold ==
  pc = "ended" =>
    LET s == call.scope
        last == log[Len(log)]
    IN  /\ last.input_truncated <=>
             \/ BytesFramed(s) < offered[s]
             \/ \E k \in Streams : \E i \in Shown(s, k) : log[i].truncated
        /\ last.reason = "Complete" => ~last.input_truncated

----------------------------------------------------------------------------
(* Candidates *)

(* Every finding a parser emitted that is not in the candidate store is    *)
(* counted, and makes the reduction truncated (Emitter, finish).           *)
NothingSilentlyDropped ==
  /\ emissions = Len(candidates) + dropped
  /\ pc = "done" =>
       /\ stats.candidates_emitted = Len(candidates)
       /\ emissions > Len(candidates) => truncated

(* The provenance the engine stamps on a finding names a line that was     *)
(* shown to the parser that emitted it, or a boundary of a scope that      *)
(* exists (dispatch_bytes, dispatch_boundary).                             *)
ProvenanceIsReal ==
  \A i \in DOMAIN candidates :
    LET p == candidates[i].provenance
    IN  /\ p.source = "stream" =>
             \E n \in DOMAIN log :
               /\ log[n].type = "line"
               /\ log[n].scope = p.scope
               /\ log[n].stream = p.stream
               /\ log[n].stream_line = p.line
        /\ p.source = "boundary" =>
             \E n \in DOMAIN log : IsBoundaryOf(p.scope, log[n])

----------------------------------------------------------------------------
(* The inductive invariant behind the theorems of SessionProofs.tla *)

(* Which call is in progress at each point, and what it may rely on. *)
Control ==
  /\ pc = "frame" => call.op = "push"
  /\ pc = "flush" => call.op = "end"
  /\ pc = "observe" =>
       /\ call.op \in {"push", "end"}
       /\ log # <<>>
       /\ log[Len(log)].type = "line"
  /\ call.op = "push" =>
       /\ pc \in {"frame", "observe"}
       /\ call.scope \in open
       /\ call.stream \in Streams
  /\ call.op = "end" /\ pc \in {"flush", "observe"} =>
       /\ call.scope \in open
       /\ \A k \in Streams \ call.flushing : buffer[call.scope][k] = EmptyBuffer

(* A line buffer holds what the line limit keeps of the open line of its   *)
(* feed, whatever chunks it arrived in; the CR flag is set only on an      *)
(* empty line.                                                             *)
HoldsOpenLine(buf, line) ==
  /\ buf.bytes = Kept(line)
  /\ buf.truncated = IsCut(line)
  /\ buf.previous_was_cr => line = <<>>

(* So does every buffer; and a scope that is not open left nothing behind  *)
(* for the next scope of its id.                                           *)
BufferIsOpenLine ==
  \A s \in ScopeIds, k \in Streams :
    /\ HoldsOpenLine(buffer[s][k], OpenLine(feed[s][k]))
    /\ s \notin open => buffer[s][k] = EmptyBuffer

IInv == TypeOK /\ Control /\ BufferIsOpenLine

----------------------------------------------------------------------------
(* Calls *)

(* Every call returns, and finish returns with every scope ended, whatever *)
(* the parsers emit (the loops of push_chunk, end_scope and finish).       *)
CallsReturn ==
  /\ (pc # "idle") ~> (pc \in {"idle", "done"})
  /\ (pc = "finish") ~> (pc = "done" /\ open = {})

----------------------------------------------------------------------------
(* What the documentation promises and the code does not do *)

(* "Bounded result and explicit truncation accounting" (Reduction): input  *)
(* refused by the scope limit makes the reduction truncated.               *)
RefusedBytesReported ==
  pc = "done" /\ stats.bytes_seen > stats.bytes_retained => truncated
=============================================================================
