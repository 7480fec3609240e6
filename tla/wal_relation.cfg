CONSTANTS
  t = t
  a = a
  b = b
  x = x
  Tables = {t}
  Shapes = {a, b, x}
  Usable = {a, b}
  NoShape = NoShape
  Records <- SomeRecords
  ChanCap = 1
  MaxRows = 2
  MaxRecords = 2
  MaxSlots = 2
SPECIFICATION Spec
INVARIANT RefusedIsSkipped
CHECK_DEADLOCK FALSE
