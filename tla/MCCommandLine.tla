----------------------------- MODULE MCCommandLine -----------------------------
(***************************************************************************)
(* Instances of the command for TLC.                                       *)
(***************************************************************************)
EXTENDS CommandLineProperties, TLC

Diagnostic(severity, fallback, size) ==
  [test_failure |-> FALSE, severity |-> severity, fallback |-> fallback, size |-> size]
MCFindings ==
  { Diagnostic(1, TRUE, 1), Diagnostic(1, FALSE, 2), Diagnostic(2, FALSE, 1), Diagnostic(3, FALSE, 1),
    [test_failure |-> TRUE, severity |-> 1, fallback |-> FALSE, size |-> 1] }

Command(inputs, fail_on, max_items) ==
  [empty_literal |-> FALSE, problem_matchers |-> 0, inputs |-> inputs,
   max_items |-> max_items, max_output_bytes |-> 10, max_input_bytes |-> 10,
   fail_on |-> fail_on, unterminated |-> FALSE]

MCInvocations ==
  { [Command(<<>>, 0, 1) EXCEPT !.empty_literal = TRUE],
    [Command(<<>>, 0, 1) EXCEPT !.problem_matchers = 2],
    [Command(<<>>, 0, 1) EXCEPT !.problem_matchers = 3],
    [Command(<<>>, 0, 1) EXCEPT !.unterminated = TRUE],
    [Command(<<"stdin", "file">>, 1, 1) EXCEPT !.max_input_bytes = 1],
    [Command(<<"file">>, 2, 2) EXCEPT !.max_output_bytes = 2],
    Command(<<"stdin", "stdin">>, 0, 1),
    Command(<<"file", "file", "stdin">>, 0, 1) }
  \cup {Command(<<"file">>, fail_on, max_items) : fail_on \in 1..3, max_items \in 0..2}
  \cup {Command(<<"file", "file">>, 1, 2)}
=============================================================================
