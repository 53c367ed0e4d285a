\* Logs of each language, of a mix, in several scopes, streams and segments.
SPECIFICATION Spec
CONSTANTS
  Scopes = {"s1", "s2"}
  Streams = {1, 2}
  Lines <- MCLines
  Reads <- MCReads
  Texts <- MCTexts
  Places <- MCPlaces
  RawLines <- MCRawLines
  Framed <- MCFramed
  Normal <- MCNormal
  OpenLines <- MCOpenLines
  Joined <- MCJoined
  Cut <- MCCut
  EndReasons = {"Complete", "Truncated"}
  Setups <- MCSetups
  MaxStackFrames = 2
  MaxSymbols = 1
  MaxContextLines = 2
  MaxHeaderDistance = 2
  MaxFrameLines = 1
  MaxContextDistance = 2
  MaxContextItems = 1
  Names = {1}
  Bounded <- MCBounded
  UnknownGtest = 1
  MaxLogFailures = 1
  MaxGtestDetails = 1
  MaxGoDetails = 1
  MaxGoBlocks = 1
  MaxRustDetails = 1
  FailureReads <- MCFailureReads
  NoProvenance = NoProvenance
INVARIANTS
  BuffersBounded
  BatchAgrees
  ExceptionsPlaced
  ExceptionsReportedOnce
  LinesAccounted
  LinesCounted
  EvidenceIsBest
