SPECIFICATION FairSpec
CONSTANTS
  U64Max = 4
  Requests <- MCRequests
  Quotes <- MCQuotes
  DexModel = "quoted"
INVARIANTS ChecksAfterHonestLegsPass HoldingsNeverSold
PROPERTIES QuotedRouteLands
