CONSTANTS
  e1 = e1
  e2 = e2
  e3 = e3
  v1 = v1
  v2 = v2
  t1 = t1
  f1 = f1
  NoId = NoId
  NoRow = NoRow
  NoNote = NoNote
  NoEntry = NoEntry
  EntryId <- E3
  Value <- V1
  Tag <- T1
  File <- None
  WithMemo <- None
  Preexisting <- First
  May <- Calmly
  MaxChanges = 3
SPECIFICATION Spec
INVARIANTS LocalDataFollows
CHECK_DEADLOCK FALSE
