CONSTANTS
  e = e
  w = w
  Subs = {e}
  Exact = {e}
  ExactBuffer = 1
  WildcardBuffer = 2
  ChanCap = 1
  TxShapes <- ShapesOne
  SinceLSNs = {1}
  AuthReasons = {"auth_revoked"}
  WriteReasons = {"client_closed"}
  MaxTx = 2
SPECIFICATION Spec
INVARIANTS TypeOK NoGap DoneHasReason RouterNeverWaits WaitsAreAnswered ShutdownReachesAll
PROPERTIES KeepsContract DropStopsWrites
CHECK_DEADLOCK FALSE
