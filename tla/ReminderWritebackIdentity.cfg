\* One removal on a note of two lines with the same token.
CONSTANTS
  Workers = {w1}
  LockIds = {l1}
  NoLock = NoLock
  NoWorker = NoWorker
  InitialNotes <- OnlyDifferent
  MaxEdits = 0
  NewUid <- MCNewUid
  Time = "early"
  Lead = 1
  Paths = {p1}
  Tokens = {"t"}
  Anchors = {"a", "b"}
  Uids = {1, 2, 3}
  Times = {"early"}
  DueAt <- MCDueAt
  MaxLines = 2
  Grace = 0
  Minute = 1
  NoTime = NoTime
SPECIFICATION Spec
CHECK_DEADLOCK FALSE
INVARIANTS IndexComplete
