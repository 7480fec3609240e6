CONSTANTS
  Backoffs = 2
  ChangesPerTx = 2
  MaxLSN = 3
  MaxGen = 3
SPECIFICATION Spec
INVARIANT KeepsPreviousGrant
