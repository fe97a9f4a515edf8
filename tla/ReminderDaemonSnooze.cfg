\* One vault, one note, one lead setting, no faults.
CONSTANTS
  Vaults = {v1}
  Paths = {p1}
  Tokens = {"timed"}
  Anchors = {"plain", "edited"}
  Uids = {1}
  Times = {"early"}
  Leads = {2}
  DueAt <- MCDueAt
  MaxLines = 1
  Contents <- OneLine
  Grace = 1
  Minute = 2
  ConfigFiles <- Configs
  MaxTime = 9
  Faults = {}
  NoTime = NoTime
  NoConfig = NoConfig
  Absent = Absent
  NoVault = NoVault
  Invalid = Invalid
  NoRemove = NoRemove
SPECIFICATION Spec
CHECK_DEADLOCK FALSE
PROPERTIES SnoozeSurvivesRescan
