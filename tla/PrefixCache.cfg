CONSTANTS
  Models <- MCModels
  Prefixes <- MCPrefixes
  Messages <- MCMessages
  Generated = 4
  Block = 2
  ExpandChunk = 1
  MaxTold = 4
  Situations = {}
SPECIFICATION Spec
INVARIANT TypeOK
INVARIANT PrefixIntact
INVARIANT RowsMatch
