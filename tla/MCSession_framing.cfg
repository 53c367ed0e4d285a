\* Framing: one stream, all kinds of bytes, every way to cut them into chunks;
\* two parsers emit at any callback into a store of one.
SPECIFICATION Spec
CONSTANTS
  ScopeIds <- MCOneScope
  Streams <- MCOneStream
  Bytes <- AllBytes
  MaxLineBytes = 2
  NumParsers = 2
  MaxScopes = 1
  MaxScopeBytes = 5
  MaxCandidates = 1
  Reasons <- MCCompleteOrCancelled
  MaxChunk = 3
  MaxInput = 6
  MaxBegins = 1
  MaxEmissions = 2
INVARIANTS
  FramingIsSplit
  LimitsHold
  NothingSilentlyDropped
PROPERTY
  ImplementsLineFeed
