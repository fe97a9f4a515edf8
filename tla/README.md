# Eskerra Studio in TLA+

Eskerra Studio is a local-first Markdown editor for the desktop: a TypeScript front end
(`apps/desktop/src`, `packages/eskerra-core`) on a Tauri back end in Rust
(`apps/desktop/src-tauri/src`), with Rust crates for reminders and watching (`crates/`).
Its hard parts are those where several actors write the same notes: the editor, the user's
other programs, git, and a reminder daemon that runs beside the app. This directory holds
TLA+ modules of those parts, TLC configurations that check them on small instances, and
TLAPS proofs for every value of the constants.

Modelled are the reminder daemon and its write-back, the file watcher both programs share,
the open note with its saves and conflicts, the editor workspaces with their tabs, and Git sync:
the engine, and what starts it. Section 7 says what is left.

## 1. The system

| Component | State it keeps | Operations | Talks to |
|---|---|---|---|
| Reminder scheduler (`eskerra-reminderd/src/scheduler.rs`) | none; rewrites `state`, `fire_at_ms`, `last_notified_ms` of reminders | discover, run_timers, next_wakeup, apply_action | called by the daemon |
| Scan, merge, rederive, resolve (`eskerra-reminder-core/src`, `scan.rs`, `rederive.rs`) | none | scan a note or a vault, merge a scan with the old index, rederive times, find the live token of a stored reminder | daemon and write-back |
| Daemon loop (`run.rs`, `daemon.rs`, `config.rs`, `index_store.rs`) | active config, index, next wakeup, watch flags; one index file for each vault | config reload, watch batch, tick, resume, snooze, lookup and outcome of a removal | one channel from all other threads; popups; index files |
| Write-back (`writeback.rs`, `perform_remove` in `run.rs`) | the map of note locks | one thread for each removal: look up, lock, read, strike, replace, record, unlock, clean up | daemon loop (two requests and their answers), notes on disk |
| Notifications, D-Bus (`notify.rs`, `service.rs`) | notification ids | notify, actions, `Snooze`, `RemoveReminder` | daemon loop |
| Watch engine (`eskerra-vault-watch/src/lib.rs`) | session number, pending batch, debouncers of two backends | start, stop, signal, flush | daemon and app |
| Reminder pane of the app (`src-tauri/src/reminders.rs`, `useReminderPane.ts`) | the config file it writes, a view of the index file | write config, snooze, remove, open | daemon over D-Bus and files |
| Git sync engine (`src-tauri/src/vault_git_sync/`) | repository, lock file, set of running syncs | validate, stage, commit, fetch, merge, push, snapshot, status | git processes with timeouts |
| Autosync and close (`shell/useApp*Sync*.ts`, `useVaultGit*.ts`, `manualSyncClose.ts`) | timers, generations of pending work, status shown, running flags | autosync, startup, manual, poll, close | git sync engine, note persistence |
| Note persistence (`workspacePersistence/`, `workspaceFsWatch*.ts`, `useDiskConflictState.ts`) | open note, last saved text, body cache, save queue, conflicts | type, save, open, leave, reconcile with the disk, resolve | files, watch engine |
| Editor workspaces (`lib/workspaceModel/`, `workspaceTabCommands.ts`, `workspaceTodayHubSwitch.ts`, `todayHub/`) | workspace model, tab strip, histories, active surface | open, close, reorder, history, hub switch, rename, delete, scan | note persistence, tree, watch session |
| Search, frontmatter index (`src-tauri`, `vaultWatchSession.ts`) | caches of the vault | touch, reindex | watch engine |
| Podcasts, Markdown and wiki links, mobile | playback, playlist; none; its own | | |

What is hard, component by component:

* **Scheduler.** Three fields encode one idea, "has this fire been spent": a snooze, a
  settings change, a tick and a merge each rewrite some of them. *Correct*: an armed
  reminder can fire, a notified one has its guard, nothing fires twice.
* **Scan and merge.** A reminder's id holds an ordinal, which shifts when lines are added,
  struck or moved, so state may be carried to the wrong line. *Correct*: one claim for each
  fresh reminder, by an anchor or an unchanged text; the index follows the notes.
* **Daemon loop.** Handlers are atomic for each other and not for the world: notes change
  between a scan and the arming of the watch, the process may die between the index write and
  the popup, config events are lost, vaults come and go. *Correct*: the wakeup covers what is
  armed; no popup twice; a config the daemon hears of is applied.
* **Write-back.** Workers share notes with each other, with the loop's rescans and with the
  user; the lock map drops entries by a reference count; a worker waits for the loop with a
  lock held. *Correct*: mutual exclusion on a note, no strike undone, no line struck that reads
  otherwise, every removal ends.
* **Watch engine.** Old sessions signal late, two backends report one change twice, and
  the debouncer drops by fingerprint. *Correct*: each change is in some batch of the current
  session.
* **Git sync engine.** Every step is a process that may time out or be killed, and what it leaves
  (`MERGE_HEAD`, `index.lock`, a staged index, a commit not pushed) is the next sync's start, while
  the editor and other devices go on. *Correct*: changes are exchanged and none is lost; no sync works
  on what another left; one that failed leaves a repository the next one can use.
* **Autosync and close.** Answers to status requests come late, saves happen while a run goes on,
  buttons and timers overlap. *Correct*: autosync forgets no save, a close that synced leaves
  nothing behind.
* **Note persistence.** A save, an open that reads, a change on disk and a merge race on one
  thread, between awaits. *Correct*: the last open wins, unsaved text is watched by something,
  no save or leave loses text.
* **Editor workspaces.** The state is kept twice, and commands wait for a save while the hub is
  switched or a file goes. *Correct*: a tab stays until it is closed or its notes are gone, keeps
  its place, and belongs to one hub; the editor shows the active surface.

## 2. Plan

Done, in this order:

1. `ReminderScheduler`, `ReminderIndex`: the pure rules, as operators. `ReminderDaemon`: the run
   loop and its world. `RemovalTurns`, an abstract specification; `ReminderWriteback`: the steps of
   removals, which implement it. Their proofs.
2. `NoteSession`: the open note. `WorkspaceTabs`: the tabs. Their proofs.
3. `VaultExchange`, an abstract specification; `GitEngine`, which implements it; `GitSync`, the app
   around the engine. Their proofs.
4. `VaultWatch`: sessions, two backends, the debouncer and a consumer. Its proofs. It stands for
   the feed that `ReminderDaemon` sees as `touched`, `coarse` and `watching`.

Left: the deletion of an open note in `NoteSession`, the stage plan of `GitEngine`, the app's watch
session as the consumer of `VaultWatch`, and an abstract feed of changes that `VaultWatch` implements, in
the terms of `ReminderDaemon`.

## 3. Modules and the code

**ReminderScheduler** (`scheduler.rs`). A reminder is a record with `state`, `due`, `fire` and
`last` (`state`, `due_at_ms`, `fire_at_ms`, `last_notified_ms`). `DiscoverOne`, `RunTimerOne`,
`NextWakeup`, `SnoozeAtTime`, `SnoozeBefore` and `Reschedule` are the functions of the same
names. `Discover` marks a past-due reminder due without a popup while `RunTimers` pops within
the grace: which of the two sees a reminder first is left to the events, as in the code.

**ReminderIndex** (`scanner.rs`, `index.rs`, `merge.rs`, `resolve.rs`, `scan.rs`,
`rederive.rs`). A note is a sequence of lines with one date token each, an index is a function
from ids `[path, tok, ord]`. Hashes are the values they hash; a fingerprint is the text itself.
`Merge` is made of `Claims` (anchor, then ordinal under an unchanged text) and `Carry` (same due
time, and not a stale baseline); `Resolve` is `resolve_live_token`. The field `uid` names the
user's line: no rule reads it, only properties do. Not modelled: how tokens are recognized
in bytes, local time and DST (the table `DueAt` instead), note size limits and exclusions.

**ReminderDaemon** (`run.rs`, `daemon.rs`). One action for each event of the run loop, whole
handlers at a time:

| Action | Code |
|---|---|
| `GoIdle`, `KeepLastKnownGood`, `IdleOnInvalid`, `VaultUnavailable`, `NoChange`, `SettingsRederived`, `Activate` | the outcomes of `reload_config` and `apply_config` |
| `Arm` | the end of `activate`: arm the watch, discover, dispatch |
| `HandleBatch` | `on_watch_batch` |
| `ScheduledWake`, `SafetyTick`, `Resume` | `recv_timeout` run out, by `TimeoutKind`; the login1 signal |
| `Snooze`, `RemoveApply` | `on_action`, `apply_remove_result` |
| `Send` | one popup after the index was written |
| `RemoveWorker` | a removal as the loop sees it, at once (in steps in `ReminderWriteback`) |
| `Advance`, `EditNote`, `WriteConfig`, `MountChange`, `WatchError`, `CorruptIndex`, `Crash`, `Restart` | the world |

Two parts of handlers are steps of their own because the world may act between: arming after
the scan of a switch, and the popups after the write. `Crash` may come in either. Every
fault is named in `Faults`, so a run says which can happen. `shown` and `unseen` are history
variables: popups sent and not asked for again since, and notes that changed while no watch ran.

**RemovalTurns, ReminderWriteback** (`writeback.rs`, `perform_remove`). `RemovalTurns` is rule 0 of the
write-back without threads or locks: for each note there is at most one removal between its read and the
record of its outcome; it finds a line of the note, strikes it in the text it read or gives up, and
records what it did. In `ReminderWriteback`, `Lookup` is the start of a thread with
the loop's answer; `ForNote`, `Acquire`, `Read`, `Write`, `Record`, `Unlock`, `CleanupIfIdle` and
`DropLocals` are the steps of `Remover::remove`, with `ReadFails` and `WriteFails`. `lockMap`,
`lockOf` and `holder` are the map, the clones of `Arc<Mutex<()>>` and the mutexes;
`StrongCount` counts as `Arc::strong_count` does. `Rescan` is the loop, `EditNote`
the user. Reminders here have one due time and are not fired. The turn of a note (`turns`) is that of
the worker at `Write` or `Record` on it; every other step is none of a turn.

**NoteSession** (`workspacePersistence/`, `workspaceFsWatch*.ts`, `useDiskConflictState.ts`,
`useMergeViewState.ts`, `workspaceOpenMarkdownCommand.ts`). A text is a set of marks, each a change
made once at a paragraph of a note; the three-way merge works on paragraphs. The code runs on one
thread, so an action is what happens between two awaits:

| Action | Code |
|---|---|
| `Type`, `AutosaveFire`, `Flush` | the editor, the autosave effect and its timer, the save shortcut |
| `JobStart`, `JobWrite`, `JobFail`, `JobFinish` | one entry of `saveChainRef`: up to the write, the write, after it |
| `OpenRequest`, `OpenRead`, `OpenFinish`, `CloseTab` | an open up to its read, the read, after the generation check |
| `ReconcileRead`, `Reconcile...`, `DeferFire` | the read of a reconciliation, and its answers: background note, nothing, reload, merge, defer, banner |
| `ResolveReload`, `KeepLocal`, `Elevate`, `EnterMerge`, `DismissSoft`, `ApplyMerged` | what the user does about a conflict |
| `ExternalEdit` | Git and other programs |

**WorkspaceTabs** (`lib/workspaceModel/`, `workspaceTabCommands.ts`, `workspaceTodayHubSwitch.ts`,
`todayHub/`). `workspaces` and `activeHub` are the workspace model; `strip`, `stripActive` and `shown`
are the older state the commands read. Commands that wait for a save are in `waiting` between
`...Request` and `...Finish`. `ProjectStrip` and `SyncHubs` are the effects that bring one in line
with the other and with the scan of the vault (`ScanStart`, `ScanEnd`). `WorkspaceValid` is
`validateWorkspaceModel`, which the code calls in its tests. `activeHub` stands for
`activeTodayHubUriRef` and for the model's own active hub, which agree once the layout effect has run
(`useTodayHubLegacyProjectionSync.ts:86-89`). A switch stores the strip of the hub it leaves even if the model has
dropped that hub (`syncWorkspaceModelForHubSwitch.ts:32-47`); with one variable for both, the hub that is left
is in the model, so `StripKept` never meets that case. What the code stores then goes with the next
sync of the hubs. In `DeletedInTree` the file goes after the tabs: at once, or later (a
`HubChanged`), or not at all, when the deletion fails.

**VaultExchange, GitEngine, GitSync.** `VaultExchange` says what a sync promises: sets of changes
grow, recorded ones are never lost, the shared branch takes what is recorded here if that has
all it had, and a merge that is undone, or in part, costs at most unrecorded changes. `GitEngine`
(`sync_run.rs`, `local_commit.rs`, `validation.rs`, `status.rs`) has the steps of
`sync_fetch_merge_push` (`Validate`, `Stage`, `Commit`, `Fetch`, `Merge`, `MergeRefused`,
`MergeConflict`, `Recover`, `Abort`, `PushHead`), `CommandFails` for a command that fails or is
stopped at its timeout, and `Crash`. In both, `Cut` says what the command may have done by then,
step by step (`StageCut` to `PushCut`): nothing, some of the files, or all of it without the engine
knowing. `locked` is the `index.lock` that a killed command leaves (`LockLeft`); `LockRemoved` is the
user who removes it by hand. A commit, a branch and the files are sets of changes.
`GitSync` (`useAppGitSyncOrchestration.ts`, `useVaultGit*.ts`, `manualSyncClose.ts`,
`useAppOsCloseSync.ts`) extends it by the status the app shows, the generations of pending work, the
four askers of a sync, and both ways to close. Times are there only by their order.

**VaultWatch** (`eskerra-vault-watch/src/lib.rs`). A file is the number of its last change.
`Edit`, `Remove`, `PollScan` and `BackendError` put signals into one set without order;
`StartWatching` and `Stop` are the engine's calls; `ReceiveFirst`, `ReceiveMore`, `CloseBatch`
and `Emit` are the debouncer thread, which checks the session when the batch is closed and delivers it
later; `Expire` ends an entry of `recent_emissions`. `ReadBatch` is the consumer.

`MCReminderDaemon`, `MCReminderWriteback`, `MCNoteSession` and `MCDesktopShell` hold the
instances. The last one puts parts that share no state side by side: a behaviour
runs one of them, chosen at the start.

## 4. Runs

| Run | Instance | Shows |
|---|---|---|
| `daemon` | one note of one line (absent, live, struck, edited), two lead settings, clock 0..9, crashes, failing note writes, watch errors | type, `ArmedCanFire`, `WakeupCoversArmed`, `NoRepeatedPopup`, `StaleStaysStale` |
| `daemon_world` | two vaults with two notes, clock still, failing watches, lost index files | `IndexTracksNotes` |
| `daemon_live` | every kind of config file, two settings, of which one keeps a reminder armed for ever, lost config events, a vault that comes and goes, unwritable index files | `ArmedEventuallyResolved`, `ToldConfigIsApplied`, `ConfigCatchesUp` |
| `writeback` | two workers, one note with one line, twins or different lines, one foreign edit | type, `MutualExclusion`, `NoStrikeLost`, `StrikesSameText`, `MergeIsSafe`, `ImplementsTurns` |
| `writeback_live` | two workers, two lines | `RemovalEnds` |
| `note_session` | two notes, two changes typed into two paragraphs of one, one foreign change in the first of them, two saves queued, one open pending, one failed save | type, `LastOpenWins`, `DirtyIsWatched`, `TextOutlivesSaves` |
| `desktop_shell`, part *tabs* | two hubs without other notes, two tabs, one command waiting, one change of the files | type, `WorkspaceValid`, `EditorShowsSurface`, `TabsOfOneHub`, `TabsStay`, `OthersKeepPlace` |
| part *pages* | one hub, two notes, histories of three entries, one change of a note | the same |
| part *engine* | two changes here, two elsewhere, two files, one fault | `ImplementsExchange`, `NothingLeftOver`, `UsableAgain` |
| part *git* | one change here and one elsewhere in the same file with a fault, or two here without | type, `AutosyncRemembers`, `CloseLeavesNothing`, and the three of the engine |
| part *watch* | two vaults of one file, two sessions, two edits, any removals and errors | `NothingMissed`, `OneVaultPerBatch` |
| `note_session_merge`, `snooze_rescan`, `missing_vault`, `twin_strike`, `remove_identity` | the smallest that show it | the five disagreements with a run of section 6 |

Bounds, and why they are enough:

* *Clock.* With due time 7, a minute of two units and a grace of one, the instants 0 to 9 hold
  both baseline fires (3 and 5), the three snoozes (1, 5, 7), the due instant, the last
  instant of grace (8) and one beyond it. A tick at any instant is any delay of a timer.
  In `daemon_live` one instant passes: under one setting the reminder fires at it, under the other it is due
  after the clock has stopped, so it stays armed for ever, as one of many future reminders would.
* *Lines.* Two lines with one token are the least that make ordinals shift, anchors clash and
  claims compete; one edit inserts, removes, rewrites, strikes or swaps at any moment of a removal.
* *Workers.* A worker that is done starts again, so two make any sequence of overlapping pairs.
  Two locks are what two workers can point to; an allocation that nobody points to is used again.
* *Vaults.* Two vaults with two notes give switches there and back and batches of part of a vault;
  in `daemon_world` time stands still, because only typing and tracking are asked.
* *Marks.* Two paragraphs, one of them with a foreign change, are the least for which a merge succeeds
  with one of the typed changes and fails with the other; a second note to leave for has none.
* *Tabs.* Two tabs have a neighbour, an order and another tab; three entries have a middle, so that a
  prune may take what is before or after the current one. With two hubs one history at most has
  two entries, and with a close waiting every tab is at the end of its history.
* *Git.* Two changes and two files on either side give a clean merge, a conflict and a refused merge in one
  run; the app around the engine adds the saves that come while a run is on its way. Only the first poll
  runs there, before any fault, and the second change is made without polls, a close or other
  devices: later polls hold autosync back while they run, and change nothing but the tracking ref,
  which part *engine* moves at any moment.
* *Watch.* Two signals wait and one batch is unread at most; either one file changes
  twice, the second time without errors or in a second session, or the files of both vaults are
  written once, without the poll. Two edits are what it takes for an echo to be taken for another change.
* *One outcome waits.* `remove` holds at most one outcome at the loop; overlapping removals
  are in `ReminderWriteback`.

Symmetry is used only in runs without liveness, on sets no definition tells apart. Deadlock is
not checked: the clock is bounded, and a quiet system with nothing armed may stop.

**Fairness** (`daemon_live`, `writeback_live`). Weak fairness of time, of handlers once started, of
the restart by systemd, and of the worker threads; the loop takes a batch and an outcome that
wait. Strong fairness of config reload and of the two timeouts: other events disable them
again and again, but the channel is first in, first out, and `recv_timeout` runs out whenever it
is empty for long enough, which the model takes to happen now and then. This is an assumption
about the load: under an endless stream of events the code would delay every reminder. Strong
fairness of `Acquire`: a waiter gets a mutex that is unlocked again and again. No request and no
other step of the world is fair.

A config the daemon was told of is applied, or has changed again by then (`ToldConfigIsApplied`). One it was not told of,
since the event was lost, or could not follow, since the vault was missing, is promised only if *again and again nothing is
armed*: `[]<>NothingArmed` is a hypothesis of `ConfigCatchesUp`. Only the safety tick reloads without an
event, and a daemon with some future reminder always wakes by `ScheduledWake` instead, which does not
reload (`run.rs:172-177`, `190-199`). The run has behaviours of both kinds; without the
hypothesis the property is false in it (section 6).

What the properties exempt, and why: `IndexTracksNotes` says nothing of notes that changed between
the scan and the arming of the watch, or while the watch was down, or whose reminder was dropped
by id although another line has that id now (`unseen`): these gaps are in the code.
The other modules name what they exempt by history variables, too:

* `excused` (NoteSession): typing under a pending open, taking the disk's version of a conflict,
  applying a merge to a note that is not shown, a save that ends after its note was left with more
  text, a reconciliation that judges a note while a save of it is pending. Each of them can cost typed
  text in the code; the property says that nothing else can.
* `strayed` (WorkspaceTabs): a close that comes late (its hub or its tab's note is not the one it was
  asked for), a switch to a hub while none is active but tabs are open, a scan that makes a hub active
  while another note is shown, and changes of the active hub's own files; section 6 lists them.
  `OthersKeepPlace` is about the tabs that are not shown, in steps that do not stray.
* `upset` (GitEngine): a fault in a step that works under the lock of the index (stage, commit, merge, abort)
  or in the recovery of a standing merge, whatever the fault left, and an abort that Git refuses.
  Removing the lock ends it if nothing else was left. Only `UsableAgain` has this exemption;
  `NothingLeftOver` holds whatever was cut short before.
* `slow`, `unsure` (GitSync): pending work was cleared under an unanswered status request;
  a close that waited for another asker's sync, was forced, or saw no safe status.
* `blind` (VaultWatch): a file was deleted while all its absences look alike, to the poll that has
  not seen it in between, or to the debouncer that has just reported it missing.

`NoRepeatedPopup` assumes that the index file can be written and read, and like `StaleStaysStale` it is about
notes without twins; the notes of run `daemon` have one line. A snooze takes the reminder's popups out of
`shown`, since it asks for another one; that a rescan may then bring back the fire before the snooze is the
matter of `SnoozeSurvivesRescan` (section 6). The clock never goes
back; the wall clock may, and then `reschedule` drops a guard (a branch that is never taken here).

## 5. Proofs

All theorems hold for every set of vaults, notes, settings, workers, locks and
faults, and every bound. They rest on the named assumptions of the modules: that markers
such as `NoTime` and `NoConfig` are not values, that `DueAt` is a table of instants,
that `Contents` are notes and closed under `Strike`, that the
sets of workers and of notes are finite (`Cardinality` counts references), that no change is both
the user's and another program's (`UserMarks`, `ExternalMarks`), and that a history may hold an
entry (`MaxEntries`).

`ReminderIndexProofs` proves that every operation on an index gives a *sound* index:

    Sound(r, now) == /\ r.state = "scheduled" => r.last # r.fire /\ r.last # r.due
                     /\ r.state = "notified"  => r.last = r.fire
                     /\ r.last # NoTime       => r.last <= now

`ArmedCanFire` alone is not inductive: a snooze at the very due instant keeps the state of a
reminder that was notified for that instant, so an armed one must not have been (first line),
and a snooze before it needs that guards are in the past (last line). `MergeSound` holds whatever
is claimed, since state is carried with the fire time and the guard and only under the
same due time.

`ReminderDaemonProofs` proves `Spec => []Inv`, where `Inv` is `TypeOK`, soundness of the index
in memory *and of every index file* (a switch or a restart merges the file back), what is
pending at each point of a handler, and the wakeup also while a reload waits (a reload that
finds nothing new goes back to sleep with the old wakeup). From it: `TypeCorrect`,
`ArmedCanAlwaysFire` and `WakeupAlwaysCovers`. There is a lemma for each action.

`ReminderPopupProofs` adds three invariants on top of `Inv`, each resting on the one before. `Tracking`:
a watch that does not run has nothing pending, every note that no report, error or gap waits for is
shown by the index line for line, and what may fire is dated by the present settings; from it
`IndexFollowsNotes`. `SavedState`: between handlers the file is the index, and until a switch has armed its
watch the index keeps what is stale in the file; from it `StaleForGood`. `PopupState`: every popup that
was sent is *spent* in the file, and in memory when its vault is active:

    Spent(r, s) == /\ r.due = DueAt[s.id.tok][s.under.time]
                   /\ r.fire = s.fire => r.state = "stale" \/ r.last = s.fire
                   /\ s.fire = Baseline(s) => r.fire = s.fire

The last line is what a rescan needs: when it carries nothing, it puts the baseline back, so a popup sent
for the baseline must leave the reminder there. `Guarded` (who was notified at the due time has that fire
time) keeps a snooze to the due time from breaking it. From it `PopupsNeverRepeat`. The last two theorems
assume `NoTwins` (no note has two live tokens of the same text), under which a reminder is claimed by
its own id (`MergeById`), and `StaleForGood` that the index file can be written; with twins
they fail, since a rescan of changed twins with one anchor starts both afresh.

`ReminderWritebackProofs` proves `Spec => []Inv` with four ideas: a worker on its way to or out of
a critical section has the lock the map has (`Locked`), which the reference count keeps
(`SharedLockCount`); a worker inside holds it; a stored reminder is *faithful*, that is, its
stored text has the stored anchor at its ordinal, which needs that ordinals are
injective (`OrdinalInjective`), survives merges and makes the resolver right
(`ResolveSameText`); notes stay notes under every edit. From it: `WritebackTypeCorrect`,
`OneWorkerPerNote` and `StrikesWhatWasShown`. `StrikesStay` adds that a worker's buffer has every strike
of the note it read, which mutual exclusion keeps until the buffer is written; `RescansCarrySafely` adds
that a reminder is claimed by one fresh line at most, and by one with its text. `RemovalsTakeTurns` is the
refinement of `RemovalTurns`: by mutual exclusion the turn of a note is that of the one worker that is busy
with it (`TurnsAre`), so a step of that worker changes the turn of its note alone (`OwnTurn`), and all other
steps change none (`SameTurns`).

`GitSyncProofs` proves of the engine `EngineInv`: types, `Nested` (what is recorded is in the files, what is
tracked is shared; this is what makes every step one of the exchange) and `Tidy`, what may be
staged, standing or locked at each step. From it: `RunsLeaveUsable`, `RunsStartClean` (`NothingLeftOver`)
and `EngineImplements`, the refinement of `VaultExchange`, one lemma for each kind of step. Commands
cut short have lemmas of their own: `Cut` keeps `Nested` (`CutNested`), leaves `Tidy` what it need
not repair (`CutTidy`) and is a step of the exchange (`CutExchange`).

Of the app around it, it proves `SyncInv`, the types with the phases of a run, and on top of it two invariants
of their own. `CloseSyncs`: while a close of its own is on its way, what was there when it was asked
for is in the files, then in `HEAD`, then shared, as its phase says, and a status that lets
it skip the run was read after. `AutosyncForgetsNothing`: a generation that is forgotten was
covered by a run that began after it, or by a status that was asked for after it.

`VaultWatchProofs` proves `NothingMissed` together with `Fresh` (signals, batches and polls do not come
from the future) and `RecentKnown` (a fingerprint that is remembered is known to the consumer or is on
its way to it, which is why an echo may be dropped), and `OneVaultPerBatch` from the roots of
sessions (`VaultInv`).

`NoteSessionProofs` proves five invariants, each with the ones before. `NoteInv`: the types, `ReadIsNote` (a read on
its way carries the note it was asked for), `OneLive` (no two live reads: each open makes the earlier ones
stale) and `LiveIsWanted` (the live one is for the note opened last); `OpensEndAtTheLast` follows when nothing is
pending. `KnownInv`: whatever the app holds of a note, in the editor, a save, a conflict or a merge, is of a note
whose text it has cached, so the first open of a note overwrites nothing. `PlacedInv`: every text is made of changes that
were made, so that a new one makes a text differ from all others. `TextInv`, as long as nothing is `excused`: the
editor or the cache has all that was typed and is on disk or in a save; when the editor and the saved text agree,
what a save under way lacks waits in the queue behind it. From these: `TypedTextIsKept`, and, with a fifth one,
`TypedTextIsWatched`:

    Watched == \/ Secured                   (a timer, a failed save, a conflict, a save that has the text)
               \/ /\ GoingHere = {}          (no save of the note is under way)
                  /\ \/ selected = NoNote
                     \/ Typed(editor) \subseteq persisted.md
                     \/ disk[selected] # persisted.md

`DirtyIsWatched` is not inductive: a save under way counts for it as a watcher, though its text may be
older than the editor's, and when it ends nothing watches any more. `Watched` asks for a save that *has*
the editor's text. `MergeTakesBoth` says what the three-way merge computes: all that either side added, nothing
that either took out.

`WorkspaceTabsProofs` proves `LiveInv`, the types with the ids in use (a tab, a strip or a waiting command has
only ids that were given out, each once in a strip), and `CoherentInv`: as long as no step has strayed, the strip of
the commands is that of the active hub in the model, no tab is in two strips, and the editor is empty, waits for a
switch, or shows the current note of the surface that is active in both copies. None of the
properties is inductive without it: each command changes one copy by what it reads in the other. `LiveInv` gives
`WorkspacesStayValid`, and `CoherentInv` gives
`EditorFollowsSurface`, `TabsStayWithOneHub`, `TabsAreKept` and `OthersAreKept`. The proof found two
of the steps that stray, which need more hubs or tabs than the instances have: the last two of the tabs in section 6.

Every invariant and every action property of the passing runs is a theorem. Only model-checked: liveness
(`ArmedEventuallyResolved`, `ToldConfigIsApplied`, `ConfigCatchesUp`, `RemovalEnds`), which needs fairness and `ENABLED` and is out of the
prover's reach. The five properties of section 6 are false and have a run each.

## 6. Where code and documents disagree

* **A snooze does not survive a rescan** (`snooze_rescan`). `looks_like_stale_baseline_fire` takes a
  snoozed reminder that has not fired again for one with an old baseline, and the next rescan of
  its note puts the fire time back. The ADR says snooze state survives rescans.
* **A missing vault loses its index** (`missing_vault`). A watch batch handled between the loss of the
  vault and the next reload scans nothing and writes that. The ADR says not to overwrite.
* **The twin is struck** (`twin_strike`). Two removals of one reminder, the second looked up before the
  first is recorded: the token left has the stored anchor, now unique, and is struck.
  `resolve.rs` says the match re-finds this occurrence or fails closed.
* **The wrong reminder is dropped** (`remove_identity`). A rescan between a worker's write and the record
  of its outcome gives the id to the next line, whose reminder is then dropped.

* **A merge that is not saved is reloaded away** (`note_session_merge`). A three-way merge puts its text
  into the editor and into `lastPersisted`, though the disk has only its own side, and cancels the
  autosave; the next change on disk finds the editor "aligned" and reloads over it.

Seen while modelling, without a run of their own (the history variables of section 4 set them aside):

* *Reminders.* The comment at `run.rs:173-175` has the safety tick heal missed config events and a watch that could not be
  armed. While some future reminder is armed there is no safety tick (`run.rs:190-199`), so the old
  config stays, and the vault unwatched, as long as that lasts. (A missing vault disarms all, and heals.)
* *Notes.* `persistActiveInboxNote.ts:58` with `inboxNoteBodyCache.ts:29-34`: a save that ends after its note
  was left with more text puts the older text into the cache, and the snapshot behind it is skipped.
* *Tabs.* A close that waits for its save while the hub is switched works on the other hub's strip.
  Renaming a hub's folder drops its tabs and Home history when the effect runs on the scan from before.
  An external deletion on Home activates the first tab. A switch keeps the strip only if a hub was active
  before it (`workspaceTodayHubSwitch.ts:159-271`): tabs opened while there was none are lost. When a vault gets its first hubs,
  the first one by path becomes active, whatever note is shown (`actions/workspace.ts`).
* *Git.* Nothing removes the `index.lock`, the standing merge or the staged files that a killed command leaves: every later
  sync is refused until the user repairs the repository. A close that finds a standing merge closes silently with nothing synced: the
  silent refresh has cleared the error (`useVaultGitStatus.ts:98-106`), where
  `gitSyncPreflight.ts:23-24` means to stop. The window manager's close is refused while a sync runs,
  since "Syncing vault" is checked before the branch that would wait
  (`manualSyncClose.ts:186-207`). A close that waits for another asker's run leaves what was saved after its
  commit unsynced. `git-sync-engine.md:83` says a failed sync is retried after 30 s; the code waits
  the regular 5 minutes.
* *Watcher.* A deletion reported within the dedup window hides the next one of the same path when the
  file lived unnoticed in between. A batch past its last session check may be delivered after
  `start_watching`, although `lib.rs:16-18` says it is dropped; it carries no session id.
* *App's watch session.* `vaultWatchSession.ts:200-210` drops the second touch of a path within a second, so the
  search index may keep the first one's text.

## 7. Not modelled

* Reminders: notification ids and the D-Bus transport, the byte level of tokens, local time, the app's
  view of the index.
* `NoteSession`: deletion of an open note, reads that fail, the Today hub's rows, new
  entries, the merge view of a backup, images.
* `WorkspaceTabs`: the restoring of tabs at start, bulk changes of the tree, the stack of closed tabs, the
  renderer's batching of updates, and with it the time between `activeTodayHubUriRef` and the model's active hub; what
  runs while a removal or a rename waits for the note that it opens instead.
* Git: the stage plan of deletions and renames, wrong or detached branches, the initial set-up; the `index.lock` of
  another process, and of a command at work when the status is read; the repair of a standing merge or of staged files by
  hand; a Git process that outlives the app, which is taken to end with it.
* Watcher: which directories the poll registers, exclusions, the channel's disconnection.
* Markdown, wiki links and tables: text algorithms on strings, which the models abstract. Search and the
  frontmatter index: caches that can be rebuilt. The mobile app: a legacy client. These, with the
  user interface, are most of the repository's lines.
* Podcasts: the player's machine, its remote playlist and the RSS sync; they share no state with the notes
  but the files they write.

`PROJECT.json` lists every component with its status, and under `hazards` the lines where each risk bites,
with the properties that cover it or the reason why none does.
