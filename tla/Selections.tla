----------------------------- MODULE Selections -----------------------------
(***************************************************************************)
(* Parts of a sequence, in its order: what SelectSeq gives, with a set of  *)
(* elements or of positions for the test, which proofs can speak of.       *)
(***************************************************************************)
EXTENDS Integers, Sequences, FiniteSets

(* The part of each prefix of seq. *)
Selected(seq, S) ==
  LET chosen[n \in 0..Len(seq)] ==
        IF n = 0 THEN <<>>
        ELSE IF seq[n] \in S THEN Append(chosen[n - 1], seq[n]) ELSE chosen[n - 1]
  IN  chosen

Only(seq, S) == Selected(seq, S)[Len(seq)]

(* The how-manyth position of P position i is. *)
Rank(P, i) == Cardinality({j \in P : j <= i})

(* The numbers in a finite set of them, in their order. *)
Ascending(S) == [n \in 1..Cardinality(S) |-> CHOOSE i \in S : Rank(S, i) = n]

(* The elements at the positions in P. *)
Picked(seq, P) ==
  [n \in 1..Cardinality(P) |-> seq[CHOOSE i \in P : Rank(P, i) = n]]
=============================================================================
