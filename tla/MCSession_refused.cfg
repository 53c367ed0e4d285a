SPECIFICATION Spec
CONSTANTS
  ScopeIds <- MCOneScope
  Streams <- MCOneStream
  Bytes <- MCTextOnly
  MaxLineBytes = 4
  NumParsers = 0
  MaxScopes = 1
  MaxScopeBytes = 1
  MaxCandidates = 1
  Reasons <- MCCompleteOnly
  MaxChunk = 3
  MaxInput = 3
  MaxBegins = 1
  MaxEmissions = 0
INVARIANT
  RefusedBytesReported
