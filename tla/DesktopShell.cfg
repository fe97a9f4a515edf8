\* Tabs of two hubs, and of one with pages; the Git engine, alone and in the app;
\* the file watcher.
CONSTANTS
  h1 = h1
  h2 = h2
  p1 = p1
  p2 = p2
  a1 = a1
  a2 = a2
  b1 = b1
  b2 = b2
  fa = fa
  fb = fb
  v1 = v1
  v2 = v2
  x = x
  y = y
  Hubs <- MCHubs
  Pages <- MCPages
  NoUri = NoUri
  MaxTabs = 2
  MaxEntries = 3
  MaxPending = 1
  MaxChanges = 1
  LocalChanges <- MCLocalChanges
  RemoteChanges <- MCRemoteChanges
  File <- MCFile
  MaxFaults = 1
  Vaults <- MCVaults
  Paths <- MCPaths
  VaultOf <- MCVaultOf
  NoVault = NoVault
  MaxEdits = 2
  MaxSessions = 2
SPECIFICATION ShellSpec
SYMMETRY MCSymmetry
CHECK_DEADLOCK FALSE
INVARIANTS
  WorkspaceTypeOK
  WorkspaceValid
  EditorShowsSurface
  TabsOfOneHub
  SyncTypeOK
  NothingLeftOver
  UsableAgain
  AutosyncRemembers
  CloseLeavesNothing
  NothingMissed
  OneVaultPerBatch
PROPERTIES
  TabsStay
  OthersKeepPlace
  ImplementsExchange
