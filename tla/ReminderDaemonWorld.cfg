\* Two vaults with two notes each: switches, batches, failing watches and lost
\* index files.  The clock stands still, so reminders are armed, snoozed, removed
\* and stale here but never due.
CONSTANTS
  Vaults = {v1, v2}
  Paths = {p1, p2}
  Tokens = {"timed"}
  Anchors = {"plain"}
  Uids = {1}
  Times = {"early"}
  Leads = {1}
  DueAt <- ShortDueAt
  MaxLines = 1
  Contents <- Kept
  Grace = 0
  Minute = 1
  ConfigFiles <- Configs
  MaxTime = 0
  Faults = {"watchArm", "corrupt"}
  NoTime = NoTime
  NoConfig = NoConfig
  Absent = Absent
  NoVault = NoVault
  Invalid = Invalid
  NoRemove = NoRemove
SPECIFICATION Spec
CHECK_DEADLOCK FALSE
INVARIANTS IndexTracksNotes
SYMMETRY Symmetry
