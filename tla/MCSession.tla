----------------------------- MODULE MCSession -----------------------------
(***************************************************************************)
(* Instances of the session for TLC.  The configurations name the sets.    *)
(***************************************************************************)
EXTENDS SessionProperties

MCOneScope == {1}
MCTwoScopes == {1, 2}
MCOneStream == {1}
MCTwoStreams == {1, 2}
MCTextAndLf == {"text", "lf"}
MCCompleteOnly == {"Complete"}
MCCompleteOrCancelled == {"Complete", "Cancelled"}
MCTextOnly == {"text"}
=============================================================================
