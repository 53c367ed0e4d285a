------------------------------- MODULE Lines -------------------------------
(***************************************************************************)
(* Bytes, lines and parser events: the vocabulary shared by the streaming  *)
(* session (Session.tla) and by the line-feed specification it implements  *)
(* (LineFeed.tla).                                                         *)
(*                                                                         *)
(* A byte is one of four kinds, which is all that framing and              *)
(* normalisation tell apart:                                               *)
(*   "text"   a byte that is still there after normalize_terminal_line     *)
(*   "blank"  a space, a tab or a control byte: a line of nothing else     *)
(*            normalises to the empty string, and trailing ones go away    *)
(*   "cr", "lf"  the two framing bytes                                     *)
(* "eof" is no byte: it marks the place in a scope's feed where end_scope  *)
(* flushed the stream.                                                     *)
(***************************************************************************)
EXTENDS Integers, FiniteSets, Sequences, SequencesExt

CONSTANTS
  ScopeIds,      \* scope identities; their order is the order of the id strings
  Streams,       \* streams, in the order of the Stream enum
  Bytes,         \* the kinds of bytes callers push, a subset of AllBytes
  MaxLineBytes   \* Limits::max_line_bytes

AllBytes == {"text", "blank", "cr", "lf"}

ASSUME LinesAssumption ==
  /\ ScopeIds \subseteq Nat \ {0}
  /\ Streams \subseteq Nat \ {0}
  /\ IsFiniteSet(Streams)
  /\ Bytes \subseteq AllBytes
  /\ MaxLineBytes \in Nat

EndReasons == {"Complete", "Truncated", "Cancelled", "Interrupted"}

IsText(b) == b = "text"
IsBreak(b) == b \in {"cr", "lf", "eof"}

(* normalize_terminal_line on the four kinds of bytes: everything after    *)
(* the last byte that survives is trimmed.                                 *)
TrimEnd(bytes) == SubSeq(bytes, 1, SelectLastInSeq(bytes, IsText))

(* The part of a stream's feed after its last line break. *)
OpenLine(feed) ==
  SubSeq(feed, SelectLastInSeq(feed, IsBreak) + 1, Len(feed))

(* What the line limit keeps of a line, and whether it cuts anything. *)
Kept(bytes) ==
  SubSeq(bytes, 1, IF Len(bytes) <= MaxLineBytes THEN Len(bytes) ELSE MaxLineBytes)
IsCut(bytes) == Len(bytes) > MaxLineBytes

(* What parsers are shown: a scope boundary or a numbered line. *)
BeginEvent(s) == [type |-> "begin", scope |-> s]
EndEvent(s, reason, truncated) ==
  [type |-> "end", scope |-> s, reason |-> reason, input_truncated |-> truncated]
LineEvent(s, k, ordinal, number, text, truncated) ==
  [type |-> "line", scope |-> s, stream |-> k, ordinal |-> ordinal,
   stream_line |-> number, text |-> text, truncated |-> truncated]

Events ==
  [type : {"begin"}, scope : ScopeIds]
    \cup [type : {"end"}, scope : ScopeIds, reason : EndReasons,
          input_truncated : BOOLEAN]
    \cup [type : {"line"}, scope : ScopeIds, stream : Streams, ordinal : Nat,
          stream_line : Nat \ {0}, text : Seq(Bytes), truncated : BOOLEAN]
=============================================================================
