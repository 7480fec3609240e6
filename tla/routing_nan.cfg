SPECIFICATION Spec
CONSTANTS
  SubSchema <- public
  Rows <- FewRows
  Renames <- NewPKs
  PKCol = "id"
  Columns = {"x", "y"}
  FloatCol = "y"
  UpdateImages <- SomeImages
  Values = {"fine", "nan"}
  SubTables <- OneTable
  SubPKs <- SomePKs
  Grants <- SomeGrants
  MaxChangesPerTx = 2
  MaxPayload = 6
  MaxChanges = 3
INVARIANT Atomic

