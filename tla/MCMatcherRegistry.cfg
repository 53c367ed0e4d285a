\* Three calls; the registry may hold two owners and seven bytes of regexes.
SPECIFICATION RegistrySpec
CONSTANTS
  Texts <- MCTexts
  Regexes <- MCRegexes
  GroupCount <- MCGroupCount
  RegexBytes <- MCRegexBytes
  Documents <- MCDocuments
  MaxDocumentBytes = 1
  MaxMatchers = 2
  MaxPatterns = 3
  MaxTotalRegexBytes = 7
  MaxCalls = 3
INVARIANTS
  RegistryIInv
  InstalledCanReport
PROPERTY
  ImplementsAtomicRegistry
