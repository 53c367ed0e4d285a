------------------------- MODULE CommandLineProperties -------------------------
(***************************************************************************)
(* What the callers of the command, mostly scripts, rely on.               *)
(***************************************************************************)
EXTENDS CommandLine

(* The errors that main has for a session that does not serve it never     *)
(* happen: whatever inputs there are, none of them included, each has a    *)
(* scope id of its own and the session has room for its scope, which is    *)
(* open as long as the input is read (begin_scope, stream_reader).         *)
SessionServes ==
  /\ error \notin {"refused", "disappeared"}
  /\ read_result # "disappeared"
  /\ stage \in {"open", "read", "end"} => DOMAIN session.scopes = {ScopeId}

(* Nothing is written before every input was read to its end, in order and *)
(* in a scope that ended as complete; of a command that failed nothing     *)
(* comes out, unless it is writing that failed; and one that succeeds has  *)
(* written everything, but for an unterminated last line.                  *)
OutputOfAll ==
  /\ written # "none" => session.ends = [n \in DOMAIN Inputs |-> "Complete"]
  /\ error # "none" => status = 1 /\ (written = "none" \/ error = "write")
  /\ stage = "done" /\ error = "none" => written = "all" \/ args.unterminated

(* A failed test is an error; whether it must raise the status at a lower  *)
(* threshold is what ThresholdHonored is about.                            *)
Reaches(finding) == finding.test_failure \/ finding.severity <= args.fail_on
Obliges(finding) == Reaches(finding) /\ (finding.test_failure => args.fail_on = Error)

TotalSize(candidates) == SumFunction([n \in DOMAIN candidates |-> candidates[n].finding.size])

(* Why a finding in the log may not show: bytes of a scope were refused,  *)
(* candidates dropped, the bytes of the output are too few, or there are   *)
(* no items; other findings take the place of a test failure; and a better *)
(* one hides a fallback.                                                   *)
Lost(finding) ==
  \/ session.refused
  \/ session.candidates_dropped > 0
  \/ TotalSize(session.candidates) > args.max_output_bytes
  \/ args.max_items = 0
  \/ finding.test_failure /\ reduction.truncated
  \/ finding.fallback /\ \E other \in session.seen : ~other.test_failure /\ ~other.fallback

(* A command that returns tells the truth by its exit status: it is 1 only *)
(* if the log has a failed test or a diagnostic that reaches the threshold,*)
(* and 0 only if every diagnostic that reaches it, and every failed test   *)
(* under --fail-on error, was lost; in particular ranking keeps diagnostics*)
(* that reach it whatever else takes the items (has_severity looks at what *)
(* is left).                                                               *)
StatusTold ==
  stage = "done" /\ error = "none" /\ args.fail_on # NoThreshold =>
    /\ (status = 1 => \E finding \in session.seen : Reaches(finding))
    /\ (status = 0 => \A finding \in session.seen : Obliges(finding) => Lost(finding))

(* "Exit with status 1 when a finding at this severity or higher exists."  *)
(* (main.rs, --fail-on).  A failed test, which the renderers report as an  *)
(* error, is such a finding at every threshold.                            *)
ThresholdHonored ==
  \/ ~(stage = "done" /\ error = "none" /\ args.fail_on # NoThreshold)
  \/ \A n \in DOMAIN reduction.findings : ~reduction.findings[n].test_failure
  \/ status = 1
=============================================================================
