\* Two removals on a note of two lines that read the same.
CONSTANTS
  Workers = {w1, w2}
  LockIds = {l1, l2}
  NoLock = NoLock
  NoWorker = NoWorker
  InitialNotes <- OnlyTwins
  MaxEdits = 0
  NewUid <- MCNewUid
  Time = "early"
  Lead = 1
  Paths = {p1}
  Tokens = {"t"}
  Anchors = {"a", "b"}
  Uids = {1, 2, 3}
  Times = {"early"}
  DueAt <- MCDueAt
  MaxLines = 2
  Grace = 0
  Minute = 1
  NoTime = NoTime
SPECIFICATION Spec
CHECK_DEADLOCK FALSE
INVARIANTS StrikesThisOccurrence
