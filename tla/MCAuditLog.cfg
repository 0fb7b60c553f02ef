\* Batches of three rows.
SPECIFICATION LiveSpec
CONSTANTS
  Batch = 3
  MaxEntries = 8
INVARIANTS
  RowsInOrder
  OneLossPerInsert
PROPERTIES
  CallersReturn
  NothingStays
\* Nothing is left to log.
CHECK_DEADLOCK FALSE
