\* Logs of every format in two scopes.
SPECIFICATION Spec
CONSTANTS
  s1 = s1
  s2 = s2
  Scopes = {s1, s2}
  Streams = {1}
  Names <- MCNames
  Texts <- MCTexts
  Places <- MCPlaces
  Bounded <- MCBounded
  UnknownGtest = 5
  Formats <- MCFormats
  EndReasons = {"Complete", "Truncated"}
  MaxLogFailures = 3
  MaxGtestDetails = 1
  MaxGoDetails = 1
  MaxGoBlocks = 2
  MaxRustDetails = 1
  MaxLines = 4
INVARIANTS
  ReducersBounded
  GateIsTransparent
  ReportsEvidenced
  FailedTestsReported
SYMMETRY
  MCSymmetry
