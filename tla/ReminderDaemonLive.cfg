\* One vault with one note: every kind of config file, lost config events, a
\* vault that comes and goes, and index files that cannot be written, under
\* fairness.  Under one setting the reminder fires at 1, the last instant; under
\* the other one, it stays armed for ever and no safety tick comes.
CONSTANTS
  Vaults = {v1}
  Paths = {p1}
  Tokens = {"timed"}
  Anchors = {"plain"}
  Uids = {1}
  Times = {"early", "late"}
  Leads = {0}
  DueAt <- EarlyOrNever
  MaxLines = 1
  Contents <- Kept
  Grace = 0
  Minute = 1
  ConfigFiles <- AnyConfigFile
  MaxTime = 1
  Faults = {"unmount", "lostConfigEvent", "indexWrite"}
  NoTime = NoTime
  NoConfig = NoConfig
  Absent = Absent
  NoVault = NoVault
  Invalid = Invalid
  NoRemove = NoRemove
SPECIFICATION FairSpec
CHECK_DEADLOCK FALSE
PROPERTIES ArmedEventuallyResolved ToldConfigIsApplied ConfigCatchesUp
