--------------------------- MODULE MCDesktopShell ---------------------------
(***************************************************************************)
(* Parts of the desktop app that share no state, each on a small instance  *)
(* of its own: a behaviour runs one of them, chosen at the start, and the  *)
(* others stand still.                                                     *)
(*   tabs    the workspaces of two hubs, without other notes               *)
(*   pages   the workspace of one hub, with two other notes                *)
(*   engine  the Git engine alone, two changes here and two elsewhere      *)
(*   git     the app around the engine: one change here, one elsewhere in  *)
(*           the same file and a fault, or two changes here and no fault   *)
(*   watch   the file watcher, on two vaults of one file each              *)
(***************************************************************************)
EXTENDS WorkspaceTabs, GitSync, VaultWatch, TLC

CONSTANTS h1, h2, p1, p2, a1, a2, b1, b2, fa, fb, v1, v2, x, y

MCHubs          == {h1, h2}
MCPages         == {p1, p2}
MCLocalChanges  == {a1, a2}
MCRemoteChanges == {b1, b2}
MCFile          == (a1 :> fa) @@ (a2 :> fb) @@ (b1 :> fa) @@ (b2 :> fb)
MCVaults        == {v1, v2}
MCPaths         == {x, y}
MCVaultOf       == (x :> v1) @@ (y :> v2)

MCSymmetry == Permutations(MCHubs)

VARIABLE part

shellVars == <<workspaceVars, syncVars, watchVars, part>>

ShellInit ==
  /\ WorkspaceInit /\ SyncInit /\ WatchInit
  /\ part \in {"tabs", "pages", "engine", "git", "watch"}
  /\ part = "pages" => Cardinality(vaultHubs) = 1
  /\ part \in {"engine", "git", "watch"} => vaultHubs = {}

-----------------------------------------------------------------------------
(* Bounds.  In the part of the hubs one history at most, besides Home of   *)
(* the active hub, has two entries, the others one; a close waits only in  *)
(* workspaces whose tabs are at the end of their histories, while no file  *)
(* changes.  In that of the pages no command waits, Home shows the Today   *)
(* note, and a change of a file is the last step.  In that of the app      *)
(* around Git only the first poll runs, before any fault, and the second   *)
(* change here is made without polls, a close or other devices.  In that   *)
(* of the watch two signals wait and one batch is unread at most; either   *)
(* only the file of one vault changes, once or (without errors) twice, the *)
(* second time or in a second session, or those of both vaults are written *)
(* once and no poll runs.  Nothing is explored after a step that strays,   *)
(* or forgets work under a slow request.                                   *)
Closing == \E c \in waiting : c.kind # "switch"

AtTheEnd(tabs) ==
  \A i \in DOMAIN tabs : tabs[i].history.index = Len(tabs[i].history.entries)

Short(h) == Len(h.entries) <= 2 /\ Visited(h) \subseteq MCHubs

LongTabs(tabs) ==
  {tabs[i].id : i \in {j \in DOMAIN tabs : Len(tabs[j].history.entries) > 1}}
Long ==
  LongTabs(strip)
    \cup UNION {LongTabs(workspaces[h].tabs) : h \in DOMAIN workspaces}
    \cup {h \in DOMAIN workspaces \ {activeHub} : Len(workspaces[h].home.entries) > 1}

SmallTabs ==
  /\ ~strayed
  /\ \A i \in DOMAIN strip : Short(strip[i].history)
  /\ \A h \in DOMAIN workspaces : Short(workspaces[h].home)
  /\ Cardinality(Long) <= 1
  /\ Closing => /\ \A h \in DOMAIN workspaces : AtTheEnd(workspaces[h].tabs)
                /\ changes = 0

\* A change of the files is one of the hubs.
hubSets == <<vaultHubs, DOMAIN workspaces>>

SmallPages ==
  /\ ~strayed
  /\ waiting = {}
  /\ Cardinality(DOMAIN workspaces) = 1
  /\ \A h \in DOMAIN workspaces : Len(workspaces[h].home.entries) = 1

SmallGit ==
  /\ ~slow
  /\ polling => startup = "waiting" /\ faults = 0
  /\ b2 \notin origin
  /\ a2 \in work \cup typed =>
       b1 \notin origin /\ faults = 0 /\ ~polling /\ closing = "open"

SmallWatch ==
  /\ Cardinality(signals) <= 2 /\ Cardinality(unread) <= 1
  /\ \/ /\ onDisk[y] = Missing /\ watchedRoot # v2
        /\ edits + activeSession <= 3
        /\ edits + activeSession = 3 => \A s \in signals : s.paths # {}
     \/ /\ edits = Cardinality({p \in Paths : onDisk[p] # Missing}) /\ blind = {}
        /\ ~pollOn

-----------------------------------------------------------------------------
ShellNext ==
  /\ part' = part
  /\ \/ /\ part = "tabs" /\ WorkspaceNext
        /\ SmallTabs' /\ (changes' # changes => ~UNCHANGED hubSets)
        /\ UNCHANGED <<syncVars, watchVars>>
     \/ /\ part = "pages" /\ changes = 0 /\ WorkspaceNext
        /\ SmallPages' /\ UNCHANGED <<syncVars, watchVars>>
     \/ /\ part = "engine" /\ EngineNext
        /\ UNCHANGED <<workspaceVars, typed, autoVars, statusVars, polling, runVars,
                       closeVars, watchVars>>
     \/ /\ part = "git" /\ SyncNext
        /\ SmallGit' /\ UNCHANGED <<workspaceVars, watchVars>>
     \/ /\ part = "watch" /\ WatchNext
        /\ SmallWatch' /\ UNCHANGED <<workspaceVars, syncVars>>

ShellSpec == ShellInit /\ [][ShellNext]_shellVars
=============================================================================
