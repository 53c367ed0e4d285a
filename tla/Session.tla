------------------------------ MODULE Session ------------------------------
(***************************************************************************)
(* logcompact-core's ReductionSession (session.rs): caller-owned scopes,   *)
(* line framing of the pushed chunks, the parser plan's callbacks and the  *)
(* bounded candidate store.                                                *)
(*                                                                         *)
(* Callers hold the session by &mut, so calls never overlap; a call is     *)
(* modelled step by step (one byte, one flushed buffer, one parser         *)
(* callback at a time) because what a parser sees and emits in the middle  *)
(* of a call is what later steps of the same call build on.  pc names the  *)
(* point reached and call holds the arguments and locals.                  *)
(*                                                                         *)
(* Parsers are the environment: during a callback each may use its Emitter *)
(* in every way the type allows.  u64 counters that saturate in the code   *)
(* are plain naturals here: no run can reach their maximum.                *)
(***************************************************************************)
EXTENDS Lines

CONSTANTS
  NumParsers,       \* parsers in the plan, called in the order 1..NumParsers
  MaxScopes,        \* Limits::max_scopes
  MaxScopeBytes,    \* Limits::max_scope_bytes
  MaxCandidates,    \* Limits::max_candidates
  Reasons,          \* bound: the reasons owners end scopes with
  MaxChunk,         \* bound: bytes of one chunk
  MaxInput,         \* bound: bytes pushed into open scopes in all
  MaxBegins,        \* bound: begin_scope calls
  MaxEmissions      \* bound: uses of an Emitter

ASSUME SessionAssumption ==
  /\ NumParsers \in Nat
  /\ MaxScopes \in Nat
  /\ MaxScopeBytes \in Nat
  /\ MaxCandidates \in Nat
  /\ Reasons \subseteq EndReasons
  /\ {MaxChunk, MaxInput, MaxBegins, MaxEmissions} \subseteq Nat

VARIABLES
  pc,           \* where the call in progress stands
  call,         \* its arguments and locals
  parser,       \* the next parser of the plan to call back, 0 outside callbacks
  open,         \* the keys of the map `scopes`
  scope,        \* their ScopeState
  buffer,       \* the LineBuffer of every (scope, stream); absent = EmptyBuffer
  stats,        \* ReductionStats as far as the session counts it
  next_ordinal,
  candidates,   \* CandidateStore: both vectors, in the order of emission
  dropped,      \* CandidateStore::dropped
  truncated,    \* Reduction::truncated, once finish has returned
  \* history; the code keeps only the last event of log, during its dispatch
  feed,         \* the retained bytes framed so far, and "eof" once flushed
  offered,      \* bytes pushed into the scope since it began
  log,          \* what parsers were shown
  emissions     \* uses of an Emitter

callVars == <<pc, call, parser>>
scopeVars == <<open, scope, buffer>>
storeVars == <<candidates, dropped>>
history == <<feed, offered, log, emissions>>
vars == <<callVars, scopeVars, stats, next_ordinal, storeVars, truncated, history>>

FreshScope ==
  [retained_bytes |-> 0, truncated |-> FALSE,
   stream_lines |-> [k \in Streams |-> 0]]

EmptyBuffer == [bytes |-> <<>>, truncated |-> FALSE, previous_was_cr |-> FALSE]

NoCall ==
  [op |-> "none", scope |-> 0, stream |-> 0, rest |-> <<>>, flushing |-> {},
   reason |-> "Complete", finishing |-> FALSE]

ZeroStats ==
  [bytes_seen |-> 0, bytes_retained |-> 0, lines_seen |-> 0,
   truncated_lines |-> 0, scopes_started |-> 0, scopes_completed |-> 0,
   candidates_emitted |-> 0, candidates_dropped |-> 0]

Init ==
  /\ pc = "idle"
  /\ call = NoCall
  /\ parser = 0
  /\ open = {}
  /\ scope = [s \in ScopeIds |-> FreshScope]
  /\ buffer = [s \in ScopeIds |-> [k \in Streams |-> EmptyBuffer]]
  /\ stats = ZeroStats
  /\ next_ordinal = 0
  /\ candidates = <<>>
  /\ dropped = 0
  /\ truncated = FALSE
  /\ feed = [s \in ScopeIds |-> [k \in Streams |-> <<>>]]
  /\ offered = [s \in ScopeIds |-> 0]
  /\ log = <<>>
  /\ emissions = 0

----------------------------------------------------------------------------
(* begin_scope *)

RejectsOnlyWhenFull(s) == Cardinality(open) >= MaxScopes  \* variant: no id check
Rejects(s) == s \in open \/ Cardinality(open) >= MaxScopes

BeginCalls == stats.scopes_started + stats.candidates_dropped

(* A duplicate id or a scope too many is refused and counted. *)
RejectScope(s) ==
  /\ pc = "idle"
  /\ BeginCalls < MaxBegins
  /\ Rejects(s)
  /\ stats' = [stats EXCEPT !.candidates_dropped = @ + 1]
  /\ UNCHANGED <<callVars, scopeVars, next_ordinal, storeVars, truncated, history>>

BeginScope(s) ==
  /\ pc = "idle"
  /\ BeginCalls < MaxBegins
  /\ ~Rejects(s)
  /\ open' = open \cup {s}
  /\ scope' = [scope EXCEPT ![s] = FreshScope]
  /\ stats' = [stats EXCEPT !.scopes_started = @ + 1]
  /\ pc' = "begun"
  /\ call' = [NoCall EXCEPT !.op = "begin", !.scope = s]
  /\ parser' = 1
  /\ feed' = [feed EXCEPT ![s] = [k \in Streams |-> <<>>]]
  /\ offered' = [offered EXCEPT ![s] = 0]
  /\ log' = Append(log, BeginEvent(s))
  /\ UNCHANGED <<buffer, next_ordinal, storeVars, truncated, emissions>>

----------------------------------------------------------------------------
(* push_chunk; a chunk for a scope that is not open changes nothing *)

Available(s) == MaxScopeBytes - scope[s].retained_bytes

RetainedWhole(s, chunk) ==                     \* variant: room for one is room for all
  IF Available(s) > 0 THEN chunk ELSE <<>>
Retained(s, chunk) ==
  SubSeq(chunk, 1, IF Len(chunk) <= Available(s) THEN Len(chunk) ELSE Available(s))

PushChunk(s, k, chunk) ==
  LET retained == Retained(s, chunk)
  IN  /\ pc = "idle"
      /\ stats.bytes_seen + Len(chunk) <= MaxInput
      /\ s \in open
      /\ stats' = [stats EXCEPT !.bytes_seen = @ + Len(chunk),
                                !.bytes_retained = @ + Len(retained)]
      /\ scope' = [scope EXCEPT
                     ![s].retained_bytes = @ + Len(retained),
                     ![s].truncated = @ \/ Len(retained) < Len(chunk)]
      /\ pc' = "frame"
      /\ call' = [NoCall EXCEPT !.op = "push", !.scope = s, !.stream = k,
                                !.rest = retained]
      /\ offered' = [offered EXCEPT ![s] = @ + Len(chunk)]
      /\ UNCHANGED <<parser, open, buffer, next_ordinal, storeVars, truncated,
                     feed, log, emissions>>

(* dispatch_bytes: number the line, account for it and show it to the      *)
(* parsers, unless it normalises to nothing; the call resumes at resume.   *)
DispatchBytes(s, k, buf, resume) ==
  LET text == TrimEnd(buf.bytes)
      number == scope[s].stream_lines[k] + 1
  IN  IF text = <<>>
      THEN /\ pc' = resume
           /\ UNCHANGED <<parser, scope, stats, next_ordinal, log>>
      ELSE /\ pc' = "observe"
           /\ parser' = 1
           /\ scope' = [scope EXCEPT ![s].stream_lines[k] = number,
                                     ![s].truncated = @ \/ buf.truncated]
           /\ stats' = [stats EXCEPT
                          !.lines_seen = @ + 1,
                          !.truncated_lines = @ + (IF buf.truncated THEN 1 ELSE 0)]
           /\ next_ordinal' = next_ordinal + 1
           /\ log' = Append(log, LineEvent(s, k, next_ordinal, number, text,
                                           buf.truncated))

(* The line feed of a CRLF pair belongs to the break already made. *)
Swallows(buf, b) == b = "lf" /\ buf.previous_was_cr

AfterSwallow(buf) == [buf EXCEPT !.previous_was_cr = FALSE]
AfterBreakStillCut(buf, b) ==                  \* variant: the cut mark is not cleared
  [bytes |-> <<>>, truncated |-> buf.truncated, previous_was_cr |-> b = "cr"]
AfterBreak(buf, b) ==
  [bytes |-> <<>>, truncated |-> FALSE, previous_was_cr |-> b = "cr"]
AfterByteStillCr(buf, b) ==                    \* variant: the CR is not forgotten
  IF Len(buf.bytes) < MaxLineBytes
  THEN [buf EXCEPT !.bytes = Append(@, b)]
  ELSE [buf EXCEPT !.truncated = TRUE]
AfterByte(buf, b) ==
  IF Len(buf.bytes) < MaxLineBytes
  THEN [buf EXCEPT !.bytes = Append(@, b), !.previous_was_cr = FALSE]
  ELSE [buf EXCEPT !.truncated = TRUE, !.previous_was_cr = FALSE]

Framed(buf, b) ==
  IF ~IsBreak(b) THEN AfterByte(buf, b)
  ELSE IF Swallows(buf, b) THEN AfterSwallow(buf)
  ELSE AfterBreak(buf, b)

(* One turn of the byte loop. *)
FrameByte ==
  LET s == call.scope
      k == call.stream
      b == Head(call.rest)
  IN  /\ pc = "frame"
      /\ call.rest # <<>>
      /\ call' = [call EXCEPT !.rest = Tail(@)]
      /\ buffer' = [buffer EXCEPT ![s][k] = Framed(@, b)]
      /\ feed' = [feed EXCEPT ![s][k] = Append(@, b)]
      /\ IF IsBreak(b) /\ ~Swallows(buffer[s][k], b)
         THEN DispatchBytes(s, k, buffer[s][k], "frame")
         ELSE UNCHANGED <<pc, parser, scope, stats, next_ordinal, log>>
      /\ UNCHANGED <<open, storeVars, truncated, offered, emissions>>

PushReturns ==
  /\ pc = "frame"
  /\ call.rest = <<>>
  /\ pc' = "idle"
  /\ call' = NoCall
  /\ UNCHANGED <<parser, scopeVars, stats, next_ordinal, storeVars, truncated, history>>

----------------------------------------------------------------------------
(* end_scope, called by the owner or by finish for every scope still open *)

StartEnd(s, reason, finishing) ==
  /\ s \in open
  /\ pc' = "flush"
  /\ call' = [NoCall EXCEPT !.op = "end", !.scope = s, !.flushing = Streams,
                            !.reason = reason, !.finishing = finishing]
  /\ UNCHANGED <<parser, scopeVars, stats, next_ordinal, storeVars, truncated, history>>

EndScope(s, reason) ==
  /\ pc = "idle"
  /\ StartEnd(s, reason, FALSE)

(* Buffers are flushed in stream order; one with nothing in it is only     *)
(* removed.                                                                *)
FlushBuffer(k) ==
  LET s == call.scope
      buf == buffer[s][k]
  IN  /\ pc = "flush"
      /\ k \in call.flushing
      /\ \A other \in call.flushing : k <= other
      /\ call' = [call EXCEPT !.flushing = @ \ {k}]
      /\ buffer' = [buffer EXCEPT ![s][k] = EmptyBuffer]
      /\ feed' = [feed EXCEPT ![s][k] = Append(@, "eof")]
      /\ IF buf.bytes # <<>> \/ buf.truncated
         THEN DispatchBytes(s, k, buf, "flush")
         ELSE UNCHANGED <<pc, parser, scope, stats, next_ordinal, log>>
      /\ UNCHANGED <<open, storeVars, truncated, offered, emissions>>

ReasonAsGiven(state, reason) == reason         \* variant: truncation is ignored
EffectiveReason(state, reason) ==
  IF state.truncated /\ reason = "Complete" THEN "Truncated" ELSE reason

CloseScope ==
  LET s == call.scope
  IN  /\ pc = "flush"
      /\ call.flushing = {}
      /\ open' = open \ {s}
      /\ scope' = [scope EXCEPT ![s] = FreshScope]
      /\ pc' = "ended"
      /\ parser' = 1
      /\ log' = Append(log, EndEvent(s, EffectiveReason(scope[s], call.reason),
                                     scope[s].truncated))
      /\ UNCHANGED <<call, buffer, stats, next_ordinal, storeVars, truncated, feed,
                     offered, emissions>>

----------------------------------------------------------------------------
(* Parser callbacks *)

InCallback == pc \in {"observe", "begun", "ended", "wrapup"} /\ parser \in 1..NumParsers

(* The provenance the engine supplies in this callback. *)
OrdinalProvenance ==                           \* variant: the session-wide number
  IF pc # "observe"
  THEN [source |-> "boundary", scope |-> call.scope, stream |-> 0, line |-> 0,
        parser |-> parser]
  ELSE [source |-> "stream", scope |-> call.scope, stream |-> log[Len(log)].stream,
        line |-> log[Len(log)].ordinal + 1, parser |-> parser]
EngineProvenance ==
  CASE pc = "observe" ->
         [source |-> "stream", scope |-> call.scope, stream |-> log[Len(log)].stream,
          line |-> log[Len(log)].stream_line, parser |-> parser]
    [] pc \in {"begun", "ended"} ->
         [source |-> "boundary", scope |-> call.scope, stream |-> 0, line |-> 0,
          parser |-> parser]
    [] OTHER ->
         [source |-> "parser", scope |-> 0, stream |-> 0, line |-> 0, parser |-> parser]

(* What a parser that fills in provenance itself passes. *)
OwnProvenance ==
  [source |-> "own", scope |-> 0, stream |-> 0, line |-> 0, parser |-> parser]

FullLate == Len(candidates) > MaxCandidates    \* variant: off by one
Full == Len(candidates) >= MaxCandidates

(* Emitter::diagnostic and Emitter::test_failure *)
EmitUncounted(kind, provenance) ==             \* variant: a full store forgets silently
  /\ InCallback
  /\ emissions < MaxEmissions
  /\ emissions' = emissions + 1
  /\ candidates' = IF Full THEN candidates
                   ELSE Append(candidates, [kind |-> kind, provenance |-> provenance])
  /\ UNCHANGED <<callVars, scopeVars, stats, next_ordinal, dropped, truncated, feed,
                 offered, log>>
Emit(kind, provenance) ==
  /\ InCallback
  /\ emissions < MaxEmissions
  /\ emissions' = emissions + 1
  /\ IF Full
     THEN /\ dropped' = dropped + 1
          /\ UNCHANGED candidates
     ELSE /\ candidates' = Append(candidates, [kind |-> kind, provenance |-> provenance])
          /\ UNCHANGED dropped
  /\ UNCHANGED <<callVars, scopeVars, stats, next_ordinal, truncated, feed, offered, log>>

ParserEmits ==
  \E kind \in {"diagnostic", "test_failure"},
     provenance \in {EngineProvenance, OwnProvenance} : Emit(kind, provenance)

(* Emitter::candidate_dropped *)
ParserDrops ==
  /\ InCallback
  /\ emissions < MaxEmissions
  /\ emissions' = emissions + 1
  /\ dropped' = dropped + 1
  /\ UNCHANGED <<callVars, scopeVars, stats, next_ordinal, candidates, truncated,
                 feed, offered, log>>

ParserReturns ==
  /\ InCallback
  /\ parser' = parser + 1
  /\ UNCHANGED <<pc, call, scopeVars, stats, next_ordinal, storeVars, truncated, history>>

(* The plan is exhausted: the call goes on where it dispatched from. *)
LineObserved ==
  /\ pc = "observe"
  /\ parser = NumParsers + 1
  /\ pc' = IF call.op = "push" THEN "frame" ELSE "flush"
  /\ parser' = 0
  /\ UNCHANGED <<call, scopeVars, stats, next_ordinal, storeVars, truncated, history>>

BeginReturns ==
  /\ pc = "begun"
  /\ parser = NumParsers + 1
  /\ pc' = "idle"
  /\ parser' = 0
  /\ call' = NoCall
  /\ UNCHANGED <<scopeVars, stats, next_ordinal, storeVars, truncated, history>>

(* finish calls end_scope in a loop; the owner's call just returns. *)
AfterEndIdle == "idle"                         \* variant: finish stops at one scope
AfterEnd == IF call.finishing THEN "finish" ELSE "idle"

EndReturns ==
  /\ pc = "ended"
  /\ parser = NumParsers + 1
  /\ stats' = [stats EXCEPT !.scopes_completed = @ + 1]
  /\ pc' = AfterEnd
  /\ parser' = 0
  /\ call' = NoCall
  /\ UNCHANGED <<scopeVars, next_ordinal, storeVars, truncated, history>>

----------------------------------------------------------------------------
(* finish *)

Finish ==
  /\ pc = "idle"
  /\ pc' = "finish"
  /\ UNCHANGED <<call, parser, scopeVars, stats, next_ordinal, storeVars, truncated, history>>

InterruptNextScope ==
  /\ pc = "finish"
  /\ \E s \in open :
       /\ \A other \in open : s <= other
       /\ StartEnd(s, "Interrupted", TRUE)

FinishParsers ==
  /\ pc = "finish"
  /\ open = {}
  /\ pc' = "wrapup"
  /\ parser' = 1
  /\ UNCHANGED <<call, scopeVars, stats, next_ordinal, storeVars, truncated, history>>

(* finalize_findings' truncated flag under a budget that omits nothing;    *)
(* Finalize.tla models the rest of that function.                          *)
ReportsTruncation(st) == st.candidates_dropped > 0 \/ st.truncated_lines > 0

FinishReturns ==
  /\ pc = "wrapup"
  /\ parser = NumParsers + 1
  /\ stats' = [stats EXCEPT !.candidates_emitted = Len(candidates),
                            !.candidates_dropped = @ + dropped]
  /\ truncated' = ReportsTruncation(stats')
  /\ pc' = "done"
  /\ parser' = 0
  /\ UNCHANGED <<call, scopeVars, next_ordinal, storeVars, history>>

----------------------------------------------------------------------------
Chunks == BoundedSeq(Bytes, MaxChunk)

CallerNext ==
  \/ \E s \in ScopeIds :
       \/ RejectScope(s)
       \/ BeginScope(s)
       \/ \E k \in Streams, chunk \in Chunks : PushChunk(s, k, chunk)
       \/ \E reason \in Reasons : EndScope(s, reason)
  \/ Finish

(* What the session and the plan do once called, and parsers always return. *)
SessionNext ==
  \/ FrameByte
  \/ PushReturns
  \/ \E k \in Streams : FlushBuffer(k)
  \/ CloseScope
  \/ ParserReturns
  \/ LineObserved
  \/ BeginReturns
  \/ EndReturns
  \/ InterruptNextScope
  \/ FinishParsers
  \/ FinishReturns

(* finish consumed the session: nothing can be called any more. *)
Finished ==
  /\ pc = "done"
  /\ UNCHANGED vars

Next == CallerNext \/ SessionNext \/ ParserEmits \/ ParserDrops \/ Finished

Spec == Init /\ [][Next]_vars

(* A call that was made runs to its end: the code is sequential and every  *)
(* loop in it is over a finite collection; a parser is trusted to return.  *)
FairSpec == Spec /\ WF_vars(SessionNext)
=============================================================================
