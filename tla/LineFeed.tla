----------------------------- MODULE LineFeed ------------------------------
(***************************************************************************)
(* What a reduction session promises its parsers, without buffers, chunks  *)
(* or calls in progress: each stream of an open scope is a feed of bytes   *)
(* that arrive one at a time; a byte that breaks a line shows parsers the  *)
(* bytes since the previous break, cut at the line limit and trimmed,      *)
(* unless nothing is left of them; a scope ends after every stream of it   *)
(* was flushed, and is told "Complete" only if nothing of it was lost.     *)
(* How the bytes were cut into chunks is not part of the state: a session  *)
(* that implements this specification is chunk-invariant.                  *)
(***************************************************************************)
EXTENDS Lines

VARIABLES
  open,      \* the open scopes
  feed,      \* feed[s][k]: what stream k of scope s received since s began
  lost,      \* the scopes that input was cut from
  numbers,   \* numbers[s][k]: lines shown of stream k since s began
  total,     \* lines shown in all
  log        \* what parsers were shown, in order

vars == <<open, feed, lost, numbers, total, log>>

Init ==
  /\ open = {}
  /\ feed = [s \in ScopeIds |-> [k \in Streams |-> <<>>]]
  /\ lost = {}
  /\ numbers = [s \in ScopeIds |-> [k \in Streams |-> 0]]
  /\ total = 0
  /\ log = <<>>

Begin(s) ==
  /\ s \notin open
  /\ open' = open \cup {s}
  /\ feed' = [feed EXCEPT ![s] = [k \in Streams |-> <<>>]]
  /\ numbers' = [numbers EXCEPT ![s] = [k \in Streams |-> 0]]
  /\ lost' = lost \ {s}
  /\ log' = Append(log, BeginEvent(s))
  /\ UNCHANGED total

(* One more byte, or the end-of-scope flush, reaches a stream. *)
Receive(s, k, b) ==
  LET line == OpenLine(feed[s][k])
      shows == IsBreak(b) /\ TrimEnd(Kept(line)) # <<>>
  IN  /\ s \in open
      /\ feed' = [feed EXCEPT ![s][k] = Append(@, b)]
      /\ IF shows
         THEN /\ log' = Append(log, LineEvent(s, k, total, numbers[s][k] + 1,
                                              TrimEnd(Kept(line)), IsCut(line)))
              /\ numbers' = [numbers EXCEPT ![s][k] = @ + 1]
              /\ total' = total + 1
              /\ lost' = IF IsCut(line) THEN lost \cup {s} ELSE lost
         ELSE UNCHANGED <<log, numbers, total, lost>>
      /\ UNCHANGED open

(* Bytes beyond the scope limit never reach a stream. *)
Lose(s) ==
  /\ s \in open
  /\ lost' = lost \cup {s}
  /\ UNCHANGED <<open, feed, numbers, total, log>>

End(s, reason) ==
  /\ s \in open
  /\ \A k \in Streams : OpenLine(feed[s][k]) = <<>>
  /\ open' = open \ {s}
  /\ lost' = lost \ {s}
  /\ log' = Append(log, EndEvent(s, IF s \in lost /\ reason = "Complete"
                                    THEN "Truncated" ELSE reason, s \in lost))
  /\ numbers' = [numbers EXCEPT ![s] = [k \in Streams |-> 0]]
  /\ UNCHANGED <<feed, total>>

Next ==
  \E s \in ScopeIds :
    \/ Begin(s)
    \/ \E k \in Streams, b \in Bytes \cup {"eof"} : Receive(s, k, b)
    \/ Lose(s)
    \/ \E reason \in EndReasons : End(s, reason)

Spec == Init /\ [][Next]_vars
=============================================================================
