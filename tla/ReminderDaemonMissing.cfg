\* One vault that may go missing.
CONSTANTS
  Vaults = {v1}
  Paths = {p1}
  Tokens = {"timed"}
  Anchors = {"plain"}
  Uids = {1}
  Times = {"early"}
  Leads = {1}
  DueAt <- ShortDueAt
  MaxLines = 1
  Contents <- Kept
  Grace = 0
  Minute = 1
  ConfigFiles <- Configs
  MaxTime = 1
  Faults = {"unmount"}
  NoTime = NoTime
  NoConfig = NoConfig
  Absent = Absent
  NoVault = NoVault
  Invalid = Invalid
  NoRemove = NoRemove
SPECIFICATION Spec
CHECK_DEADLOCK FALSE
PROPERTIES MissingVaultKeepsIndex
