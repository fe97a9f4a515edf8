\* One vault, one note with one timed token, two lead settings; crashes,
\* failing note writes and watch errors.
CONSTANTS
  Vaults = {v1}
  Paths = {p1}
  Tokens = {"timed"}
  Anchors = {"plain", "edited"}
  Uids = {1}
  Times = {"early"}
  Leads = {1, 2}
  DueAt <- MCDueAt
  MaxLines = 1
  Contents <- OneLine
  Grace = 1
  Minute = 2
  ConfigFiles <- Configs
  MaxTime = 9
  Faults = {"crash", "noteWrite", "watchError"}
  NoTime = NoTime
  NoConfig = NoConfig
  Absent = Absent
  NoVault = NoVault
  Invalid = Invalid
  NoRemove = NoRemove
SPECIFICATION Spec
CHECK_DEADLOCK FALSE
INVARIANTS TypeOK ArmedCanFire WakeupCoversArmed NoRepeatedPopup
PROPERTIES StaleStaysStale
