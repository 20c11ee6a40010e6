CONSTANTS
  e1 = e1
  e2 = e2
  e3 = e3
  v1 = v1
  v2 = v2
  t1 = t1
  f1 = f1
  NoId = NoId
  NoRow = NoRow
  NoNote = NoNote
  NoEntry = NoEntry
  EntryId <- E3
  Value <- V1
  Tag <- None
  File <- None
  WithMemo <- None
  Preexisting <- First
  May <- Overlap
  MaxChanges = 2
SPECIFICATION Spec
PROPERTIES DeleteReachesTrash
CHECK_DEADLOCK FALSE
