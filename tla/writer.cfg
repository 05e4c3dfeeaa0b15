SPECIFICATION WriterFairSpec
CONSTANTS
  Drains <- MCDrains
  Flushers <- MCFlushers
  MaxVersion = 4
INVARIANTS WriterTypeOK ManifestNeverTorn
PROPERTIES ImplementsStore FlushPersists RequestsReachTheManifest
