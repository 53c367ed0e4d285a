\* Invocations with several inputs, thresholds and budgets; the command ends.
SPECIFICATION Spec
CONSTANTS
  Findings <- MCFindings
  NoFinding = NoFinding
  Invocations <- MCInvocations
  MaxMatchers = 2
  CandidatesPerItem = 1
  MinCandidates = 3
  MaxReads = 3
INVARIANTS
  SessionServes
  OutputOfAll
  StatusTold
CHECK_DEADLOCK FALSE
