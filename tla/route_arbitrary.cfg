SPECIFICATION Spec
CONSTANTS
  U64Max = 3
  Requests <- MCRequests
  Quotes <- MCQuotes
  DexModel = "arbitrary"
INVARIANTS TypeOK
PROPERTIES ImplementsPromise
