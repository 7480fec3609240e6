SPECIFICATION Spec
CONSTANTS
  SubSchema <- public
  Rows <- SomeRows
  Renames <- NewPKs
  PKCol = "id"
  Columns = {"x", "y"}
  FloatCol = "y"
  UpdateImages <- SomeImages
  Values = {"fine", "nan", "undecodable"}
  SubTables <- OneTable
  SubPKs <- SomePKs
  Grants <- SomeGrants
  MaxChangesPerTx = 2
  MaxPayload = 6
  MaxChanges = 3
INVARIANTS DeliversItsRoot MovedRowGoesByNewKey GrantConfines SkipsOnlyUndecodable
PROPERTY InvisibleIsIrrelevant
