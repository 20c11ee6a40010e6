CONSTANTS
  e1 = e1
  e2 = e2
  e3 = e3
  n1 = n1
  c1 = c1
  c2 = c2
  NoFile = NoFile
  EntryId <- E3
  Old <- Third
  Name <- N1
  Content <- C2
  Days = 1
  MaxRows = 1
  May <- Command
SPECIFICATION Spec
PROPERTIES GcSparesLedger
CHECK_DEADLOCK FALSE
