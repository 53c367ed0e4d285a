SPECIFICATION Spec
CONSTANTS
  Texts <- MCTexts
  Redact <- MCRedact
  MapPath <- MCMapPath
  Normalize <- MCNormalize
  OneLine <- MCOneLine
  Size <- MCSize
  Inputs <- MCFewInputs
  MaxCount = 3
INVARIANT
  ErrorsBeforeWarnings
