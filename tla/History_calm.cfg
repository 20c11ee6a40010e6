CONSTANTS
  e1 = e1
  e2 = e2
  e3 = e3
  v1 = v1
  v2 = v2
  t1 = t1
  f1 = f1
  NoId = NoId
  NoRow = NoRow
  NoNote = NoNote
  NoEntry = NoEntry
  EntryId <- E3
  Value <- V2
  Tag <- None
  File <- F1
  WithMemo <- V1
  Preexisting <- First
  May <- Calmly
  MaxChanges = 5
SPECIFICATION FairSpec
INVARIANTS LedgerMatchesHistory CacheMatchesLedger LocalDataFollows
PROPERTIES EditKeepsPrevious DeleteReachesTrash ViewCatchesUp
CHECK_DEADLOCK FALSE
