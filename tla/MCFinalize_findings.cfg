\* Every list of up to three diagnostics, and of one with up to three failures.
SPECIFICATION Spec
CONSTANTS
  Texts <- MCTexts
  Redact <- MCRedact
  MapPath <- MCMapPath
  Normalize <- MCNormalize
  OneLine <- MCOneLine
  Size <- MCSize
  Inputs <- MCInputs
  MaxCount = 3
INVARIANTS
  FindingsAccounted
  BestKept
  IInv
  BudgetsHold
  NoDiagnosticTwice
  UsedBytesExact
  LossIsTold
  OutputSanitized
