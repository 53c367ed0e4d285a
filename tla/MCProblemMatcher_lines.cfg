\* Three matchers on the lines of two scopes and two streams, under limits that
\* matches cross.
SPECIFICATION Spec
CONSTANTS
  Texts <- MCTexts
  Regexes <- MCRegexes
  GroupCount <- MCGroupCount
  Matchers <- MCMatchers
  Match <- MCMatch
  Bytes <- MCBytes
  Coordinates <- MCCoordinates
  SeverityNamed <- MCSeverityNamed
  Absolute = {3}
  s1 = s1
  s2 = s2
  out = out
  err = err
  Scopes = {s1, s2}
  Streams = {out, err}
  LogLines = {1, 2, 3, 4, 5, 6}
  MaxActiveStates = 2
  MaxStateBytes = 6
  MaxLines = 4
INVARIANTS
  IInv
  StatesBounded
  ProblemsAreRuns
  ProblemsComplete
SYMMETRY
  MCSymmetry
