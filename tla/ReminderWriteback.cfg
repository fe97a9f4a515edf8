\* Two workers on one note of one line, two lines that read the same, or two
\* lines that do not, all with the same token, and one edit by somebody else.
CONSTANTS
  Workers = {w1, w2}
  LockIds = {l1, l2}
  NoLock = NoLock
  NoWorker = NoWorker
  InitialNotes <- Starts
  MaxEdits = 1
  NewUid <- MCNewUid
  Time = "early"
  Lead = 1
  Paths = {p1}
  Tokens = {"t"}
  Anchors = {"a", "b"}
  Uids = {1, 2, 3}
  Times = {"early"}
  DueAt <- MCDueAt
  MaxLines = 2
  Grace = 0
  Minute = 1
  NoTime = NoTime
SPECIFICATION Spec
CHECK_DEADLOCK FALSE
INVARIANTS TypeOK MutualExclusion NoStrikeLost StrikesSameText MergeIsSafe
PROPERTY ImplementsTurns
SYMMETRY Symmetry
