----------------------------- MODULE MCFinalize -----------------------------
(***************************************************************************)
(* Instances of finalize_findings for TLC.  Findings are chosen so that    *)
(* they repeat once sanitised, cover one another, tie in rank, and do not  *)
(* all fit.                                                                *)
(***************************************************************************)
EXTENDS FinalizeProperties

(* 1 and 2 are secrets that redaction turns into 3; 4 is plain and 7 long; *)
(* the path mapper shortens 5 to 2, so that a path may need redaction only *)
(* once it is mapped, and 6 to 4; 8 and 9 are scope ids; 11 is 4 with      *)
(* terminal escapes and 12 is 4 over several lines; 10 names a stream.     *)
MCTexts == 1..12
Becomes(from, to) == [t \in MCTexts |-> IF t \in from THEN to ELSE t]
MCRedact == Becomes({1, 2}, 3)
MCMapPath == [t \in MCTexts |-> CASE t = 5 -> 2 [] t = 6 -> 4 [] OTHER -> t]
MCNormalize == Becomes({11}, 4)
MCOneLine == Becomes({12}, 4)
MCSize ==
  [t \in MCTexts |-> CASE t = 7 -> 5 [] t \in {1, 2} -> 5 [] t \in 8..10 -> 0 [] OTHER -> 1]

At(scope, stream, start, end) ==
  [source |-> 10, scope |-> scope, stream |-> stream, start |-> start, end |-> end]

D(severity, class, message, path, provenance, quality, count) ==
  [severity |-> severity, class |-> class, message |-> message, path |-> path,
   provenance |-> provenance, quality |-> quality, count |-> count]
F(name, message, path, provenance) ==
  [name |-> name, message |-> message, path |-> path, provenance |-> provenance]

MCDiagnostics ==
  { D(1, "compiler", 1, 5, At(8, 1, 1, 1), 2, 1),          \* these two are one finding
    D(1, "compiler", 2, 2, At(8, 1, 1, 1), 1, 2),
    D(1, "tool", 4, 0, At(8, 1, 1, 2), 4, 1),              \* a fallback they cover
    D(1, "tool", 4, 0, At(8, 2, 1, 1), 4, 1),              \* and one on another stream
    D(2, "lint", 4, 6, At(9, 1, 2, 0), 2, 1),
    D(3, "test", 11, 0, At(9, 1, 1, 3), 4, 1),             \* covered by the last one
    D(1, "compiler", 7, 0, NoProvenance, 3, 1),            \* these two rank equally
    D(1, "compiler", 12, 0, NoProvenance, 3, 3) }
MCFailures ==
  {F(12, 1, 5, At(8, 1, 1, 1)), F(4, 2, 1, At(8, 1, 1, 1)), F(4, 4, 0, At(8, 1, 1, 1)),
   F(4, 7, 0, NoProvenance)}

Calls(diagnostics_passed, failures_passed, losses) ==
  [diagnostics : diagnostics_passed, failures : failures_passed,
   max_bytes : {4, 20}, max_items : {0, 2, 9},
   candidates_dropped : losses, truncated_lines : losses]

MCInputs ==
  Calls(BoundedSeq(MCDiagnostics, 3), {<<>>}, {0})
    \cup Calls(BoundedSeq(MCDiagnostics, 1), BoundedSeq(MCFailures, 3), {0, 1})

(* Few findings, for what the documentation says otherwise. *)
MCFewInputs ==
  Calls(BoundedSeq(MCDiagnostics, 2), {<<>>}, {0})
    \cup Calls({<<>>}, BoundedSeq(MCFailures, 3), {0})
=============================================================================
