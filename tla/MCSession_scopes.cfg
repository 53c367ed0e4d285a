\* Scopes: several open at once, refused, ended in any order and begun again,
\* while a parser emits at every callback into a store of one; calls return.
SPECIFICATION FairSpec
CONSTANTS
  ScopeIds <- MCTwoScopes
  Streams <- MCTwoStreams
  Bytes <- MCTextAndLf
  MaxLineBytes = 1
  NumParsers = 1
  MaxScopes = 2
  MaxScopeBytes = 2
  MaxCandidates = 1
  Reasons <- MCCompleteOnly
  MaxChunk = 2
  MaxInput = 3
  MaxBegins = 2
  MaxEmissions = 2
INVARIANTS
  IInv
  ScopesBracketed
  ByteAccounting
  TruncationTold
  LimitsHold
  ProvenanceIsReal
PROPERTY
  CallsReturn
