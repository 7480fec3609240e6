SPECIFICATION Spec
CONSTANTS
  SubSchema <- public
  Rows <- BlankRows
  Renames <- NewPKs
  PKCol = "id"
  Columns = {"x", "y"}
  FloatCol = "y"
  UpdateImages <- SomeImages
  Values = {"fine"}
  SubTables <- OneTable
  SubPKs <- SomePKs
  Grants <- SomeGrants
  MaxChangesPerTx = 2
  MaxPayload = 6
  MaxChanges = 3
INVARIANT OneRootOnly

