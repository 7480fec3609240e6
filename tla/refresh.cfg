CONSTANTS
  Backoffs = 2
  ChangesPerTx = 2
  MaxLSN = 2
  MaxGen = 3
SPECIFICATION FairSpec
INVARIANTS TypeOK FreshGrantApplies SkewNeedsSecondSwap OutageIsReal
PROPERTY FailsClosed
