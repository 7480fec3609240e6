CONSTANTS
  e = e
  w = w
  Subs = {w}
  Exact = {}
  ExactBuffer = 1
  WildcardBuffer = 2
  ChanCap = 1
  TxShapes <- ShapesFrame
  SinceLSNs = {}
  AuthReasons = {}
  WriteReasons = {"client_closed"}
  MaxTx = 2
SPECIFICATION FairSpec
PROPERTIES KeepsContract DroppedIsReleased ShutdownEndsStreams ShutdownTerminates OwedIsDelivered
CHECK_DEADLOCK FALSE
