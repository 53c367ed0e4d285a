\* A failed test and a threshold below errors; the command ends.
SPECIFICATION Spec
CONSTANTS
  Findings <- MCFindings
  NoFinding = NoFinding
  Invocations <- MCInvocations
  MaxMatchers = 2
  CandidatesPerItem = 1
  MinCandidates = 3
  MaxReads = 3
INVARIANT ThresholdHonored
CHECK_DEADLOCK FALSE
