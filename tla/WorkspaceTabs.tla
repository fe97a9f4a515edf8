--------------------------- MODULE WorkspaceTabs ---------------------------
(***************************************************************************)
(* The workspaces of the desktop app: every Today hub of the vault has its *)
(* own editor tabs, its own Home history and its own active surface        *)
(* (apps/desktop/src: lib/workspaceModel/, lib/editorDocumentHistory.ts,   *)
(* lib/editorWorkspaceTabs.ts, hooks/workspaceTabCommands.ts,              *)
(* hooks/workspaceTodayHubSwitch.ts, hooks/todayHub/).                     *)
(*                                                                         *)
(* The state is kept twice: in the workspace model and, for the active hub, *)
(* in the older tab strip the commands read.  Effects of the renderer put  *)
(* the model in the strip's place and bring the model in line with the     *)
(* hubs of the vault.  The code runs on one thread: an action is what      *)
(* happens between two awaits.  What an open command does about the text   *)
(* and while it reads its note is NoteSession's; here it is one step.      *)
(* Indices start at 1, not at 0.                                           *)
(***************************************************************************)
EXTENDS Integers, Sequences, FiniteSets

CONSTANTS
  Hubs,         \* Today notes, by URI
  Pages,        \* other notes, by URI
  NoUri,        \* null as a URI
  MaxTabs,      \* bound on tabs opened in a session
  MaxEntries,   \* bound on the entries of a history
  MaxPending,   \* bound on commands that wait for a save
  MaxChanges    \* bound on changes of the vault's files

Uris   == Hubs \cup Pages
NoTab  == 0
TabIds == 1..MaxTabs

ASSUME WorkspaceAssumption ==
  /\ NoUri \notin Uris
  /\ MaxTabs \in Nat /\ MaxEntries \in Nat \ {0}
  /\ MaxPending \in Nat /\ MaxChanges \in Nat

VARIABLES
  workspaces,   \* WorkspaceModel.workspaces: state per hub
  activeHub,    \* WorkspaceModel.activeHub
  strip,        \* editorWorkspaceTabsRef: the tabs commands work on
  stripActive,  \* activeEditorTabIdRef, NoTab on Home
  shown,        \* selectedUriRef: the note in the editor
  opened,       \* number of tabs opened so far, the last id given
  vaultHubs,    \* Today notes in the vault
  knownHubs,    \* Today notes of the last scan of the vault
  scanned,      \* no scan is running (vaultMarkdownRefsReady)
  waiting,      \* commands that wait for a save to end
  changes,      \* number of changes of the vault's files
  strayed       \* history: a step that may cost tabs has been taken

modelVars == <<workspaces, activeHub>>
stripVars == <<strip, stripActive, shown>>
vaultVars == <<vaultHubs, knownHubs, scanned, changes>>
workspaceVars == <<modelVars, stripVars, opened, vaultVars, waiting, strayed>>

-----------------------------------------------------------------------------
(* Histories.                                                              *)

History(u)  == [entries |-> <<u>>, index |-> 1]
Current(h)  == h.entries[h.index]
Visited(h)  == {h.entries[i] : i \in DOMAIN h.entries}

\* Mutant of Push: the current note is entered again.
PushAgain(h, u) ==
  [entries |-> Append(SubSeq(h.entries, 1, h.index), u), index |-> h.index + 1]

(* A visit cuts the forward part off; the current note is not entered twice. *)
Push(h, u) ==
  IF Current(h) = u THEN h
  ELSE [entries |-> Append(SubSeq(h.entries, 1, h.index), u),
        index   |-> h.index + 1]

(* The positions of S up to k, the i-th smallest position, and s at these. *)
UpTo(S, k)  == {j \in S : j <= k}
Nth(S, i)   == CHOOSE k \in S : Cardinality(UpTo(S, k)) = i
Pick(s, S)  == [i \in 1..Cardinality(S) |-> s[Nth(S, i)]]

(* Entries are taken out.  The current note stays current; if it goes, the *)
(* one before it takes its place, or the first after it.                   *)
Staying(h, gone) == {i \in DOMAIN h.entries : h.entries[i] \notin gone}

\* Mutant of Pruned: the note before the current one takes its place always.
PrunedToBefore(h, gone) ==
  LET kept   == Staying(h, gone)
      before == Cardinality(UpTo(kept, h.index - 1))
  IN  [entries |-> Pick(h.entries, kept),
       index   |-> IF before = 0 THEN 1 ELSE before]

Pruned(h, gone) ==
  LET kept   == Staying(h, gone)
      before == Cardinality(UpTo(kept, h.index))
  IN  [entries |-> Pick(h.entries, kept),
       index   |-> IF before = 0 THEN 1 ELSE before]

Renamed(u, old, new) == IF u = old THEN new ELSE u

Remapped(h, old, new) ==
  [h EXCEPT !.entries = [i \in DOMAIN h.entries |-> Renamed(h.entries[i], old, new)]]

-----------------------------------------------------------------------------
(* Tabs.                                                                   *)

Tab(id, u) == [id |-> id, history |-> History(u)]
Ids(tabs)  == {tabs[i].id : i \in DOMAIN tabs}
IdList(tabs) == [i \in DOMAIN tabs |-> tabs[i].id]
Position(tabs, id) == CHOOSE i \in DOMAIN tabs : tabs[i].id = id
UriOf(tabs, id) == Current(tabs[Position(tabs, id)].history)

InsertAt(tabs, i, tab) ==
  SubSeq(tabs, 1, i - 1) \o <<tab>> \o SubSeq(tabs, i, Len(tabs))

TabsWithout(tabs, id) == Pick(tabs, {i \in DOMAIN tabs : tabs[i].id # id})

(* The active tab if it is there, else the first. *)
EnsureActive(tabs, id) ==
  IF tabs = <<>> THEN NoTab ELSE IF id \in Ids(tabs) THEN id ELSE tabs[1].id

(* The tab after the closed one, or the one before. *)
Neighbor(tabs, id) ==
  LET i == Position(tabs, id)
  IN  IF Len(tabs) = 1 THEN NoTab
      ELSE IF i < Len(tabs) THEN tabs[i + 1].id ELSE tabs[i - 1].id

PushOn(tabs, id, u) ==
  [i \in DOMAIN tabs |-> IF tabs[i].id = id
     THEN [tabs[i] EXCEPT !.history = Push(@, u)] ELSE tabs[i]]

Moved(tabs, id, step) ==
  [i \in DOMAIN tabs |-> IF tabs[i].id = id
     THEN [tabs[i] EXCEPT !.history.index = @ + step] ELSE tabs[i]]

PrunedTabs(tabs, gone) ==
  Pick([i \in DOMAIN tabs |-> [tabs[i] EXCEPT !.history = Pruned(@, gone)]],
       {i \in DOMAIN tabs : Staying(tabs[i].history, gone) # {}})

RemappedTabs(tabs, old, new) ==
  [i \in DOMAIN tabs |-> [tabs[i] EXCEPT !.history = Remapped(@, old, new)]]

-----------------------------------------------------------------------------
(* Workspaces.                                                             *)

DefaultWorkspace(h) == [tabs |-> <<>>, home |-> History(h), active |-> NoTab]

ActiveTabs == IF activeHub \in DOMAIN workspaces THEN workspaces[activeHub].tabs
              ELSE <<>>

\* Mutant of Mirrored: the active tab is copied, the tabs are not.
MirroredActive(all, hub, tabs, id) ==
  IF hub \in DOMAIN all /\ id \in Ids(all[hub].tabs)
  THEN [all EXCEPT ![hub].active = id] ELSE all

(* The strip is copied into the workspace of a hub. *)
Mirrored(all, hub, tabs, id) ==
  IF hub \in DOMAIN all
  THEN [all EXCEPT ![hub].tabs = tabs,
                   ![hub].active = IF id \in Ids(tabs) THEN id ELSE NoTab]
  ELSE all

\* Mutant of PrunedWorkspace: the active tab stays active when it goes.
PrunedTabsOnly(ws, gone) ==
  [ws EXCEPT !.tabs = PrunedTabs(@, gone), !.home = Pruned(@, gone)]

PrunedWorkspace(ws, gone) ==
  LET tabs == PrunedTabs(ws.tabs, gone)
  IN  [tabs   |-> tabs,
       home   |-> Pruned(ws.home, gone),
       active |-> IF ws.active \in Ids(tabs) THEN ws.active ELSE NoTab]

(* Workspaces of removed hubs are dropped, removed notes leave the others. *)
PrunedWorkspaces(all, gone) ==
  [h \in DOMAIN all \ gone |-> PrunedWorkspace(all[h], gone)]

(* The hub that is active when some are left (in the code the first by path). *)
ActiveAmong(left, hub) ==
  IF left = {} THEN {NoUri} ELSE IF hub \in left \/ hub = NoUri THEN {hub} ELSE left

\* Mutant of HomeUri: Home is always the Today note.
TodayUri(all, hub) == hub

HomeUri(all, hub) == IF hub \in DOMAIN all THEN Current(all[hub].home) ELSE hub

-----------------------------------------------------------------------------
Histories == [entries : Seq(Uris), index : 1..MaxEntries]
Tabs      == [id : TabIds, history : Histories]
States    == [tabs : Seq(Tabs), home : Histories, active : {NoTab} \cup TabIds]

Commands ==
  [kind : {"close", "closeOther", "closeRest"}, tab : TabIds,
   before : Seq(Tabs), wasActive : BOOLEAN]
    \cup [kind : {"switch"}, hub : Hubs]

WorkspaceTypeOK ==
  /\ DOMAIN workspaces \subseteq Hubs
  /\ \A h \in DOMAIN workspaces : workspaces[h] \in States
  /\ activeHub \in Hubs \cup {NoUri}
  /\ strip \in Seq(Tabs) /\ stripActive \in {NoTab} \cup TabIds
  /\ shown \in Uris \cup {NoUri}
  /\ opened \in 0..MaxTabs
  /\ vaultHubs \subseteq Hubs /\ knownHubs \subseteq Hubs
  /\ scanned \in BOOLEAN
  /\ waiting \subseteq Commands
  /\ changes \in 0..MaxChanges
  /\ strayed \in BOOLEAN

WorkspaceInit ==
  /\ vaultHubs \in SUBSET Hubs
  /\ knownHubs = vaultHubs /\ scanned = TRUE
  /\ workspaces = [h \in vaultHubs |-> DefaultWorkspace(h)]
  /\ activeHub \in IF vaultHubs = {} THEN {NoUri} ELSE vaultHubs
  /\ strip = <<>> /\ stripActive = NoTab
  /\ shown = activeHub
  /\ opened = 0
  /\ waiting = {} /\ changes = 0
  /\ strayed = FALSE

-----------------------------------------------------------------------------
(* Opening notes.                                                          *)

(* A note is shown in the active tab, or in a first tab.  The placement is *)
(* made in the strip and copied into the workspace of the hub.             *)
ShowInTab(all, hub, tabs, id, u, skipHistory) ==
  /\ tabs = <<>> => opened < MaxTabs
  /\ stripActive' = IF tabs = <<>> THEN opened + 1 ELSE EnsureActive(tabs, id)
  /\ strip' = IF tabs = <<>> THEN <<Tab(opened + 1, u)>>
              ELSE IF skipHistory THEN tabs
              ELSE PushOn(tabs, EnsureActive(tabs, id), u)
  /\ opened' = IF tabs = <<>> THEN opened + 1 ELSE opened
  /\ workspaces' = Mirrored(all, hub, strip', stripActive')
  /\ shown' = u

(* A note is shown on the Home surface: no tab is active. *)
ShowOnHome(all, hub, tabs, u) ==
  /\ strip' = tabs /\ stripActive' = NoTab
  /\ opened' = opened
  /\ workspaces' = Mirrored(all, hub, tabs, NoTab)
  /\ shown' = u

(* Tabs change and the note in the editor does not. *)
ShowSame(all, tabs, id) ==
  /\ strip' = tabs /\ stripActive' = id
  /\ workspaces' = all
  /\ UNCHANGED <<shown, opened>>

ShowNothing(all, tabs) ==
  /\ strip' = tabs /\ stripActive' = NoTab
  /\ workspaces' = all
  /\ shown' = NoUri
  /\ opened' = opened

HomeMode(u, home) ==
  \/ home
  \/ stripActive = NoTab /\ u \in Hubs /\ activeHub \in {NoUri, u}

Fits(h, u) == Current(h) = u \/ h.index < MaxEntries

(* Notes the vault can have: a page may have been made again. *)
Openable == Pages \cup vaultHubs

(* A note is opened in place: on Home, or in the active tab. *)
OpenMarkdown(u, home) ==
  /\ home => activeHub # NoUri /\ stripActive = NoTab
  /\ IF HomeMode(u, home)
     THEN IF activeHub \in DOMAIN workspaces
          THEN /\ Fits(workspaces[activeHub].home, u)
               /\ ShowOnHome([workspaces EXCEPT ![activeHub].home = Push(@, u)],
                             activeHub, strip, u)
          ELSE ShowOnHome(workspaces, activeHub, strip, u)
     ELSE /\ \A i \in DOMAIN strip : Fits(strip[i].history, u)
          /\ ShowInTab(workspaces, activeHub, strip, stripActive, u, FALSE)
  /\ UNCHANGED <<activeHub, vaultVars, waiting, strayed>>

(* A new tab: at the end, after the active one, or where a closed tab was. *)
OpenNewTab(u, at) ==
  /\ opened < MaxTabs
  /\ opened' = opened + 1
  /\ strip' = InsertAt(strip, at, Tab(opened + 1, u))
  /\ stripActive' = opened + 1
  /\ workspaces' = Mirrored(workspaces, activeHub, strip', stripActive')
  /\ shown' = u
  /\ UNCHANGED <<activeHub, vaultVars, waiting, strayed>>

OpenBackgroundTab(u, at) ==
  /\ opened < MaxTabs
  /\ opened' = opened + 1
  /\ strip' = InsertAt(strip, at, Tab(opened + 1, u))
  /\ workspaces' = Mirrored(workspaces, activeHub, strip', stripActive)
  /\ UNCHANGED <<activeHub, stripActive, shown, vaultVars, waiting, strayed>>

ActivateOpenTab(t) ==
  /\ t \in Ids(strip)
  /\ ShowInTab(workspaces, activeHub, strip, t, UriOf(strip, t), TRUE)
  /\ UNCHANGED <<activeHub, vaultVars, waiting, strayed>>

(* A tab is dragged in front of another, or to the end. *)
Reorder(from, before) ==
  /\ activeHub \in DOMAIN workspaces
  /\ from \in DOMAIN ActiveTabs /\ before \in 1..Len(ActiveTabs) + 1
  /\ LET tab  == ActiveTabs[from]
         at   == IF from < before THEN before - 1 ELSE before
         tabs == InsertAt(TabsWithout(ActiveTabs, tab.id), at, tab)
     IN  /\ tabs # strip
         /\ ShowSame([workspaces EXCEPT ![activeHub].tabs = tabs], tabs, stripActive)
  /\ UNCHANGED <<activeHub, vaultVars, waiting, strayed>>

(* Back and forward in the history of Home or of the active tab. *)
HistoryStep(step) ==
  /\ IF stripActive = NoTab
     THEN /\ activeHub \in DOMAIN workspaces
          /\ workspaces[activeHub].home.index + step
               \in DOMAIN workspaces[activeHub].home.entries
          /\ LET all == [workspaces EXCEPT ![activeHub].home.index = @ + step]
             IN  ShowOnHome(all, activeHub, strip, Current(all[activeHub].home))
     ELSE /\ stripActive \in Ids(strip)
          /\ LET h == strip[Position(strip, stripActive)].history
             IN  /\ h.index + step \in DOMAIN h.entries
                 /\ ShowInTab(workspaces, activeHub, Moved(strip, stripActive, step),
                              stripActive, h.entries[h.index + step], TRUE)
  /\ UNCHANGED <<activeHub, vaultVars, waiting, strayed>>

(* The workspace selector: to Home as it was left, from there to Today. *)
HomeSelector ==
  /\ activeHub \in DOMAIN workspaces
  /\ stripActive # NoTab \/ shown = NoUri \/ workspaces[activeHub].home.index > 1
  /\ LET all == IF stripActive # NoTab THEN workspaces
                ELSE [workspaces EXCEPT ![activeHub].home.index = 1]
     IN  ShowOnHome(all, activeHub, strip, Current(all[activeHub].home))
  /\ UNCHANGED <<activeHub, vaultVars, waiting, strayed>>

-----------------------------------------------------------------------------
(* Closing tabs.  A command takes the strip it was given for, waits until  *)
(* the note is saved, and goes on with that strip.                         *)

CloseRequest(kind, t) ==
  /\ t \in Ids(strip)
  /\ Cardinality(waiting) < MaxPending
  /\ waiting' = waiting \cup {[kind |-> kind, tab |-> t, before |-> strip,
                               wasActive |-> stripActive = t]}
  /\ UNCHANGED <<modelVars, stripVars, opened, vaultVars, strayed>>

(* The tabs are no longer those the command was given for (without a hub:  *)
(* nor their histories), or a tab it closes has been shown meanwhile.      *)
Late(c) ==
  \/ IdList(c.before) # IdList(strip)
  \/ activeHub \notin DOMAIN workspaces /\ c.before # strip
  \/ c.kind = "close" /\ ~c.wasActive /\ stripActive = c.tab
  \/ c.kind = "closeRest" /\ stripActive \notin {c.tab, NoTab}

(* closeTabAction in the model of the hub that is active now. *)
ClosedTab(t) ==
  IF t \notin Ids(ActiveTabs) THEN workspaces
  ELSE [workspaces EXCEPT
          ![activeHub].tabs = TabsWithout(@, t),
          ![activeHub].active = IF @ = t THEN Neighbor(ActiveTabs, t) ELSE @]

CloseFinish(c) ==
  /\ c \in waiting /\ c.kind = "close"
  /\ LET rest  == TabsWithout(c.before, c.tab)
         all   == ClosedTab(c.tab)
         model == IF activeHub \in DOMAIN all THEN all[activeHub].tabs ELSE rest
         tabs  == IF IdList(model) = IdList(rest) THEN model ELSE rest
         next  == Neighbor(c.before, c.tab)
     IN  IF ~c.wasActive THEN ShowSame(all, tabs, stripActive)
         ELSE IF next # NoTab
         THEN ShowInTab(all, activeHub, tabs, next, UriOf(tabs, next), TRUE)
         ELSE IF activeHub # NoUri
         THEN ShowOnHome(all, activeHub, tabs, HomeUri(all, activeHub))
         ELSE ShowNothing(all, tabs)
  /\ waiting' = waiting \ {c}
  /\ strayed' = (strayed \/ Late(c))
  /\ UNCHANGED <<activeHub, vaultVars>>

(* The kept tab is shown first, with the note it had when the command was   *)
(* given, which waits once more.                                           *)
CloseOtherShow(c) ==
  /\ c \in waiting /\ c.kind = "closeOther"
  /\ IF stripActive = c.tab THEN UNCHANGED <<workspaces, stripVars, opened>>
     ELSE ShowInTab(workspaces, activeHub, strip, c.tab, UriOf(c.before, c.tab), TRUE)
  /\ waiting' = (waiting \ {c}) \cup {[c EXCEPT !.kind = "closeRest"]}
  /\ strayed' = (strayed \/ c.before # strip)
  /\ UNCHANGED <<activeHub, vaultVars>>

OnlyTab(tabs, t) == Pick(tabs, {i \in DOMAIN tabs : tabs[i].id = t})

CloseOtherFinish(c) ==
  /\ c \in waiting /\ c.kind = "closeRest"
  /\ LET all == IF c.tab \notin Ids(ActiveTabs) THEN workspaces
                ELSE [workspaces EXCEPT
                        ![activeHub].tabs = OnlyTab(@, c.tab),
                        ![activeHub].active = IF @ = NoTab THEN NoTab ELSE c.tab]
     IN  ShowSame(all, OnlyTab(IF c.tab \in Ids(ActiveTabs) THEN ActiveTabs
                               ELSE c.before, c.tab), stripActive)
  /\ waiting' = waiting \ {c}
  /\ strayed' = (strayed \/ Late(c))
  /\ UNCHANGED <<activeHub, vaultVars>>

CloseAll ==
  /\ strip # <<>>
  /\ IF activeHub \in DOMAIN workspaces
     THEN ShowOnHome(workspaces, activeHub, <<>>, HomeUri(workspaces, activeHub))
     ELSE ShowNothing(workspaces, <<>>)
  /\ UNCHANGED <<activeHub, vaultVars, waiting, strayed>>

-----------------------------------------------------------------------------
(* Switching between hubs.                                                 *)

(* The selector lists the hubs of the last scan; the layout effect that    *)
(* syncs the workspaces runs before the list can be clicked.               *)
SwitchRequest(h) ==
  /\ h \in knownHubs \cap DOMAIN workspaces /\ h # activeHub
  /\ Cardinality(waiting) < MaxPending
  /\ waiting' = waiting \cup {[kind |-> "switch", hub |-> h]}
  /\ UNCHANGED <<modelVars, stripVars, opened, vaultVars, strayed>>

\* Mutant of StripKept: the strip is kept for the hub that is entered.
StripGiven(h) == Mirrored(workspaces, h, strip, stripActive)

(* The strip is kept as the tabs of the hub that is left.                  *)
StripKept(h) ==
  Mirrored(workspaces, IF activeHub = h THEN NoUri ELSE activeHub, strip, stripActive)

(* The other hub gets its tabs and its Home surface. *)
SwitchFinish(c) ==
  /\ c \in waiting /\ c.kind = "switch"
  /\ LET left == StripKept(c.hub)
         ws   == IF c.hub \in DOMAIN left THEN left[c.hub] ELSE DefaultWorkspace(c.hub)
         all  == [h \in DOMAIN workspaces \cup {c.hub} |->
                    IF h = c.hub THEN ws ELSE left[h]]
     IN  ShowOnHome(all, c.hub, ws.tabs, Current(ws.home))
  /\ activeHub' = c.hub
  /\ waiting' = waiting \ {c}
  /\ strayed' = (strayed \/ (activeHub = NoUri /\ strip # <<>>))
  /\ UNCHANGED vaultVars

-----------------------------------------------------------------------------
(* The vault changes.                                                      *)

VisitedIn(tabs) == UNION {Visited(tabs[i].history) : i \in DOMAIN tabs}

(* A note open in some tab, or shown, disappears from the vault. *)
RemovedExternally(u) ==
  /\ u \in VisitedIn(strip) \cup ({shown} \ {NoUri})
  /\ changes < MaxChanges
  /\ changes' = changes + 1
  /\ vaultHubs' = vaultHubs \ {u}
  /\ activeHub' \in ActiveAmong(DOMAIN workspaces \ {u}, activeHub)
  /\ LET tabs == PrunedTabs(strip, {u})
         id   == EnsureActive(tabs, stripActive)
         all  == PrunedWorkspaces(workspaces, {u})
     IN  IF shown # u THEN ShowSame(all, tabs, id)
         ELSE IF tabs = <<>> THEN ShowNothing(all, tabs)
         ELSE ShowInTab(all, activeHub', tabs, id, UriOf(tabs, id), TRUE)
  /\ strayed' = (strayed \/ u = activeHub \/ stripActive = NoTab)
  /\ UNCHANGED <<knownHubs, scanned, waiting>>

(* A note is deleted in the vault tree: Home stays if no tab is active.    *)
(* The file goes after the tabs; that may fail, or come later (HubChanged). *)
DeletedInTree(u) ==
  /\ u \in Pages \cup vaultHubs
  /\ changes < MaxChanges
  /\ changes' = changes + 1
  /\ vaultHubs' \in {vaultHubs, vaultHubs \ {u}}
  /\ activeHub' \in ActiveAmong(DOMAIN workspaces \ {u}, activeHub)
  /\ LET tabs == PrunedTabs(strip, {u})
         id   == IF stripActive = NoTab THEN NoTab ELSE EnsureActive(tabs, stripActive)
         at   == IF activeHub \in DOMAIN workspaces /\ id \in Ids(ActiveTabs) \cup {NoTab}
                 THEN [workspaces EXCEPT ![activeHub].active = id] ELSE workspaces
         all  == PrunedWorkspaces(at, {u})
     IN  IF shown # u THEN ShowSame(all, tabs, id)
         ELSE IF id # NoTab
         THEN ShowInTab(all, activeHub', tabs, id, UriOf(tabs, id), TRUE)
         ELSE IF activeHub \notin {NoUri, u}
         THEN ShowOnHome(all, activeHub', tabs, HomeUri(all, activeHub))
         ELSE ShowNothing(all, tabs)
  /\ strayed' = (strayed \/ u = activeHub)
  /\ UNCHANGED <<knownHubs, scanned, waiting>>

InUse(u) ==
  \/ u \in VisitedIn(strip) \cup {shown} \cup vaultHubs \cup knownHubs
  \/ \E h \in DOMAIN workspaces :
       u \in VisitedIn(workspaces[h].tabs) \cup Visited(workspaces[h].home)

(* A note, or the folder of a hub, is renamed in the vault tree. *)
RenamedInTree(u, v) ==
  /\ u \in Hubs <=> v \in Hubs
  /\ u \in Hubs => u \in vaultHubs
  /\ ~InUse(v)
  /\ changes < MaxChanges
  /\ changes' = changes + 1
  /\ vaultHubs' = {Renamed(h, u, v) : h \in vaultHubs}
  /\ activeHub' = Renamed(activeHub, u, v)
  /\ workspaces' =
       [h \in {Renamed(g, u, v) : g \in DOMAIN workspaces} |->
          LET ws == workspaces[Renamed(h, v, u)]
          IN  [ws EXCEPT !.tabs = RemappedTabs(@, u, v), !.home = Remapped(@, u, v)]]
  /\ strip' = RemappedTabs(strip, u, v)
  /\ shown' = Renamed(shown, u, v)
  /\ UNCHANGED <<stripActive, opened, knownHubs, scanned, waiting, strayed>>

(* A hub that is not open is added or removed. *)
HubChanged(h) ==
  /\ h \notin VisitedIn(strip) \cup {shown}
  /\ changes < MaxChanges
  /\ changes' = changes + 1
  /\ vaultHubs' = IF h \in vaultHubs THEN vaultHubs \ {h} ELSE vaultHubs \cup {h}
  /\ UNCHANGED <<modelVars, stripVars, opened, knownHubs, scanned, waiting, strayed>>

(* After a change the vault is scanned for its notes. *)
ScanStart ==
  /\ scanned /\ knownHubs # vaultHubs
  /\ scanned' = FALSE
  /\ UNCHANGED <<modelVars, stripVars, opened, vaultHubs, knownHubs, changes,
                 waiting, strayed>>

ScanEnd ==
  /\ ~scanned
  /\ scanned' = TRUE
  /\ knownHubs' = vaultHubs
  /\ UNCHANGED <<modelVars, stripVars, opened, vaultHubs, changes, waiting, strayed>>

-----------------------------------------------------------------------------
(* Effects of the renderer.                                                *)

(* The workspaces are brought in line with the hubs of the last scan, and  *)
(* the strip with the active one.  The first hub of a vault that had none  *)
(* gets the tabs there are; a hub that is gone leads to a switch.          *)
SyncHubs ==
  /\ scanned /\ DOMAIN workspaces # knownHubs
  /\ LET gone == DOMAIN workspaces \ knownHubs
         kept == PrunedWorkspaces(workspaces, gone)
         all  == [h \in knownHubs |-> IF h \in DOMAIN kept THEN kept[h]
                                      ELSE DefaultWorkspace(h)]
     IN  /\ activeHub' \in
              IF activeHub = NoUri THEN knownHubs
              ELSE ActiveAmong(IF DOMAIN kept = {} THEN knownHubs ELSE DOMAIN kept,
                               activeHub)
         /\ IF activeHub = NoUri
            THEN workspaces' = Mirrored(all, activeHub', strip, stripActive)
            ELSE workspaces' = all
         /\ IF activeHub' = NoUri \/ activeHub = NoUri
            THEN UNCHANGED <<strip, stripActive>>
            ELSE /\ strip' = all[activeHub'].tabs
                 /\ stripActive' = all[activeHub'].active
  /\ waiting' \in IF activeHub \in knownHubs \cup {NoUri} \/ knownHubs = {}
                  THEN {waiting}
                  ELSE {waiting \cup {[kind |-> "switch", hub |-> h]} : h \in knownHubs}
  /\ strayed' = \/ strayed
                \/ activeHub = NoUri /\ stripActive = NoTab /\ shown \notin {NoUri, activeHub'}
                \/ \E h \in DOMAIN workspaces \ knownHubs : h \in vaultHubs \cup {shown}
  /\ UNCHANGED <<shown, opened, vaultVars>>

ProjectStrip ==
  /\ activeHub \in DOMAIN workspaces
  /\ <<strip, stripActive>> # <<ActiveTabs, workspaces[activeHub].active>>
  /\ ShowSame(workspaces, ActiveTabs, workspaces[activeHub].active)
  /\ UNCHANGED <<activeHub, vaultVars, waiting, strayed>>

-----------------------------------------------------------------------------
WorkspaceNext ==
  \/ \E u \in Openable, home \in BOOLEAN : OpenMarkdown(u, home)
  \/ \E u \in Openable : \E at \in 1..Len(strip) + 1 : OpenNewTab(u, at)
  \/ \E u \in Openable : \E at \in 1..Len(strip) + 1 : OpenBackgroundTab(u, at)
  \/ \E t \in TabIds : ActivateOpenTab(t)
  \/ \E from, before \in 1..MaxTabs + 1 : Reorder(from, before)
  \/ \E back \in BOOLEAN : HistoryStep(IF back THEN -1 ELSE 1)
  \/ HomeSelector
  \/ \E kind \in {"close", "closeOther"}, t \in TabIds : CloseRequest(kind, t)
  \/ \E c \in waiting : CloseFinish(c)
  \/ \E c \in waiting : CloseOtherShow(c)
  \/ \E c \in waiting : CloseOtherFinish(c)
  \/ CloseAll
  \/ \E h \in Hubs : SwitchRequest(h)
  \/ \E c \in waiting : SwitchFinish(c)
  \/ \E u \in Uris : RemovedExternally(u)
  \/ \E u \in Uris : DeletedInTree(u)
  \/ \E u, v \in Uris : RenamedInTree(u, v)
  \/ \E h \in Hubs : HubChanged(h)
  \/ ScanStart \/ ScanEnd
  \/ SyncHubs \/ ProjectStrip

WorkspaceSpec == WorkspaceInit /\ [][WorkspaceNext]_workspaceVars

-----------------------------------------------------------------------------
(* The checks of validateWorkspaceModel: a hub is active unless there is   *)
(* none; every Home history starts at its hub; tab ids are distinct;       *)
(* every history has a current entry; the active tab exists.               *)
HasCurrent(h) == h.entries # <<>> /\ h.index \in DOMAIN h.entries

ValidTabs(tabs) ==
  /\ \A i, j \in DOMAIN tabs : tabs[i].id = tabs[j].id => i = j
  /\ \A i \in DOMAIN tabs : HasCurrent(tabs[i].history)

ValidWorkspace(h, ws) ==
  /\ HasCurrent(ws.home) /\ ws.home.entries[1] = h
  /\ ValidTabs(ws.tabs)
  /\ ws.active \in {NoTab} \cup Ids(ws.tabs)

WorkspaceValid ==
  /\ IF activeHub = NoUri THEN DOMAIN workspaces = {}
     ELSE activeHub \in DOMAIN workspaces
  /\ \A h \in DOMAIN workspaces : ValidWorkspace(h, workspaces[h])

(* With all commands done and all effects run, the note in the editor, if  *)
(* there is one, is the current note of the active surface: a click on the *)
(* active tab shows what is shown already.                                 *)
Settled ==
  /\ waiting = {}
  /\ scanned /\ knownHubs = vaultHubs /\ DOMAIN workspaces = knownHubs
  /\ activeHub # NoUri => /\ strip = ActiveTabs
                          /\ stripActive = workspaces[activeHub].active

SurfaceUri ==
  IF stripActive \in Ids(strip) THEN UriOf(strip, stripActive)
  ELSE IF activeHub # NoUri THEN Current(workspaces[activeHub].home) ELSE shown

EditorShowsSurface ==
  Settled /\ ~strayed => shown \in {NoUri, SurfaceUri}

(* A tab the user has opened goes away only when it is closed, when every  *)
(* note it has visited is gone, or with its hub: no switch, no command that *)
(* comes late and no effect costs one, but for the steps that stray.       *)
AllTabs == Ids(strip) \cup UNION {Ids(workspaces[h].tabs) : h \in DOMAIN workspaces}

Closes(t) ==
  \/ CloseAll
  \/ \E c \in waiting \ waiting' :
       \/ c.kind = "close" /\ c.tab = t
       \/ c.kind = "closeRest" /\ c.tab # t

AllStrips == {strip} \cup {workspaces[h].tabs : h \in DOMAIN workspaces}
VisitedBy(t) ==
  UNION {Visited(tabs[Position(tabs, t)].history) :
           tabs \in {s \in AllStrips : t \in Ids(s)}}

GoesWithItsNotes(t) ==
  \/ \E h \in DOMAIN workspaces \ DOMAIN workspaces' : t \in Ids(workspaces[h].tabs)
  \/ VisitedBy(t) \subseteq Hubs \ DOMAIN workspaces'
  \/ changes' # changes /\ \E u \in Uris : VisitedBy(t) = {u}

TabsStay ==
  [][\A t \in AllTabs \ AllTabs' :
       Closes(t) \/ GoesWithItsNotes(t) \/ strayed']_workspaceVars

(* The note of a tab that is not shown stays what it was, whatever leaves  *)
(* the histories around it, until that note itself is gone or renamed.     *)
KeepsPlace(before, after, active) ==
  \A t \in (Ids(before) \cap Ids(after)) \ {active} :
    LET h == after[Position(after, t)].history
    IN  UriOf(before, t) \in Visited(h) => UriOf(before, t) = Current(h)

OthersKeepPlace ==
  [][~strayed' => \A h \in DOMAIN workspaces \cap DOMAIN workspaces' :
       KeepsPlace(workspaces[h].tabs, workspaces'[h].tabs, stripActive')]_workspaceVars

(* A tab belongs to one hub: no tab turns up in the strips of two.         *)
TabsOfOneHub ==
  ~strayed => \A g, h \in DOMAIN workspaces :
                g # h => Ids(workspaces[g].tabs) \cap Ids(workspaces[h].tabs) = {}
=============================================================================
