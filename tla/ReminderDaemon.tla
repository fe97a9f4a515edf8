--------------------------- MODULE ReminderDaemon ---------------------------
(***************************************************************************)
(* The run loop of eskerra-reminderd (crates/eskerra-reminderd/src/run.rs  *)
(* and daemon.rs) and its world: the clock, the vaults on disk, the config *)
(* file the app writes, the index files, the watchers, the popups, and a   *)
(* remove worker (its own steps are in ReminderWriteback).                 *)
(*                                                                         *)
(* A handler runs to its end before the loop takes the next event, but two *)
(* parts of it are not atomic for the world around it and are steps here:  *)
(* arming the watch after the scan of a vault switch, and sending the      *)
(* popups after the index was written.                                     *)
(***************************************************************************)
EXTENDS ReminderIndex

CONSTANTS
  Vaults,     \* vault roots, each with its hash
  Contents,   \* what a note may contain: sequences of lines
  Leads,      \* values of the lead setting, in minutes
  NoConfig,   \* no active vault
  Absent,     \* reminderd.json does not exist
  NoVault,    \* a valid reminderd.json that names no vault
  Invalid,    \* an unparseable or unreadable reminderd.json
  NoRemove,   \* no finished remove worker is waiting
  ConfigFiles, \* what reminderd.json may say
  MaxTime,    \* bound of the clock
  Faults      \* what may go wrong in the world, see AllFaults

Configs == [vault : Vaults, time : Times, lead : Leads]

AnyConfigFile == Configs \cup {Absent, NoVault, Invalid}

AllFaults == {"crash", "corrupt", "indexWrite", "noteWrite", "watchArm",
              "watchError", "lostConfigEvent", "unmount"}

ASSUME DaemonAssumption ==
  /\ Contents \subseteq UNION {[1..n -> Lines] : n \in 0..MaxLines}
  /\ \A c \in Contents : \A i \in DOMAIN c : Strike(c, i) \in Contents
  /\ Leads \subseteq Nat
  /\ Configs \cap {NoConfig, Absent, NoVault, Invalid} = {}
  /\ ConfigFiles \subseteq AnyConfigFile
  /\ MaxTime \in Nat
  /\ Faults \subseteq AllFaults

VARIABLES
  clock,        \* now_ms()
  notes,        \* notes[v][p]: the note at path p of vault v
  mounted,      \* vaults whose root is a directory
  configFile,   \* what reminderd.json says
  configEvent,  \* a ConfigChanged event waits
  pc,           \* where the run loop is: loop, reload, arming, down
  applied,      \* the active vault and its settings, or NoConfig
  index,        \* the active vault's index in memory
  indexDisk,    \* indexDisk[v]: the index file; absent and corrupt read as empty
  haveGood,     \* last_known_good.is_some()
  unavailable,  \* the config names a vault that is missing
  nextWakeup,   \* next_wakeup_ms
  watching,     \* the watchers of the active vault run
  needsRearm,   \* watch_needs_rearm
  touched,      \* paths in the watch engine's pending batch
  coarse,       \* the pending batch is coarse
  outbox,       \* popups decided and not yet sent
  remove,       \* a worker's outcome waiting for the loop (RemoveApply)
  shown,        \* history: the fires whose popup was sent and not re-armed since
  unseen        \* history: paths of the active vault changed with no watch to tell

world    == <<clock, notes, mounted, configFile>>
watch    == <<watching, needsRearm, touched, coarse>>
daemon   == <<pc, applied, index, haveGood, unavailable, nextWakeup, outbox>>
history  == <<shown, unseen>>
vars     == <<world, configEvent, daemon, indexDisk, watch, remove, history>>

Active == applied # NoConfig

Fault(f) == f \in Faults

\* What a scan of vault v reads: nothing at all when the root is gone.
OnDisk(v) == IF v \in mounted THEN notes[v] ELSE [p \in Paths |-> << >>]

Pops == [under : Configs, id : Ids, fire : Int]

Pop(id) == [under |-> applied, id |-> id, fire |-> index[id].fire]

Removals == [vault : Vaults, id : Ids, result : {"removed", "stale"}]

TypeOK ==
  /\ clock \in 0..MaxTime
  /\ notes \in [Vaults -> [Paths -> Contents]]
  /\ mounted \subseteq Vaults
  /\ configFile \in ConfigFiles
  /\ configEvent \in BOOLEAN
  /\ pc \in {"loop", "reload", "arming", "down"}
  /\ applied \in Configs \cup {NoConfig}
  /\ IsIndex(index)
  /\ DOMAIN indexDisk = Vaults
  /\ \A v \in Vaults : IsIndex(indexDisk[v])
  /\ haveGood \in BOOLEAN
  /\ unavailable \in BOOLEAN
  /\ nextWakeup \in Int \cup {NoTime}
  /\ watching \in BOOLEAN
  /\ needsRearm \in BOOLEAN
  /\ touched \subseteq Paths
  /\ coarse \in BOOLEAN
  /\ outbox \subseteq Ids
  /\ remove \in Removals \cup {NoRemove}
  /\ shown \subseteq Pops
  /\ unseen \subseteq Paths

Init ==
  /\ clock = 0
  /\ notes \in [Vaults -> [Paths -> Contents]]
  /\ mounted = Vaults
  /\ configFile \in ConfigFiles
  /\ configEvent = FALSE
  /\ pc = "reload"
  /\ applied = NoConfig
  /\ index = NoReminders
  /\ indexDisk = [v \in Vaults |-> NoReminders]
  /\ haveGood = FALSE
  /\ unavailable = FALSE
  /\ nextWakeup = NoTime
  /\ watching = FALSE /\ needsRearm = FALSE
  /\ touched = {} /\ coarse = FALSE
  /\ outbox = {}
  /\ remove = NoRemove
  /\ shown = {} /\ unseen = {}

---------------------------------------------------------------------------
(* What handlers share.  A whole index that a handler computes is bound by  *)
(* \E over a singleton, which TLC evaluates once, rather than by LET.       *)

\* The loop takes an event.
Ready == pc = "loop" /\ outbox = {}

\* A failed write of the index file is only logged.
Persist(idx) ==
  \/ indexDisk' = [indexDisk EXCEPT ![applied.vault] = idx]
  \/ Fault("indexWrite") /\ UNCHANGED indexDisk

\* Mutants of Dispatch: the wakeup is recomputed only when something fired; the
\* index is left for later when popups go out first.
DispatchKeepingWakeup(idx, fires) ==
  /\ index' = idx
  /\ Persist(idx)
  /\ nextWakeup' = IF fires = {} THEN nextWakeup ELSE NextWakeup(idx, clock)
  /\ outbox' = fires

DispatchBeforePersist(idx, fires) ==
  /\ index' = idx
  /\ IF fires = {} THEN Persist(idx) ELSE UNCHANGED indexDisk
  /\ nextWakeup' = NextWakeup(idx, clock)
  /\ outbox' = fires

\* Write the index, recompute the wakeup, then send the popups (action Send).
Dispatch(idx, fires) ==
  /\ index' = idx
  /\ Persist(idx)
  /\ nextWakeup' = NextWakeup(idx, clock)
  /\ outbox' = fires

DiscoverAndDispatch(idx) ==
  \E found \in {Discover(idx, clock)} : Dispatch(found, DiscoverFires(idx, clock))

\* History: a reminder that left the index starts afresh when it is back, and
\* so does every reminder when the vault's settings changed.
Forget(idx) ==
  shown' = {s \in shown : s.under.vault = applied.vault =>
                             s.under = applied /\ s.id \in DOMAIN idx}

StopWatch == watching' = FALSE /\ touched' = {} /\ coarse' = FALSE

\* start_watching stops the old watchers, so what they had pending is dropped.
StartWatch ==
  \/ watching' = TRUE /\ needsRearm' = FALSE /\ touched' = {} /\ coarse' = FALSE
  \/ Fault("watchArm") /\ StopWatch /\ needsRearm' = TRUE

RearmIfNeeded == IF needsRearm THEN StartWatch ELSE UNCHANGED watch

Deactivate ==
  /\ StopWatch
  /\ needsRearm' = FALSE
  /\ applied' = NoConfig
  /\ index' = NoReminders
  /\ nextWakeup' = NoTime
  /\ unseen' = {}

---------------------------------------------------------------------------
(* reload_config and apply_config.                                         *)

\* Mutant of Reloads: a change event does not lead to a reload.
ReloadsAfterTick ==
  /\ outbox = {}
  /\ pc = "reload"
  /\ UNCHANGED configEvent

\* The loop runs reload_config: at start, on ConfigChanged, after a safety tick.
Reloads ==
  /\ outbox = {}
  /\ \/ pc = "reload"
     \/ pc = "loop" /\ configEvent
  /\ configEvent' = (configEvent /\ pc = "reload")

GoIdle ==
  /\ Reloads
  /\ configFile \in {Absent, NoVault}
  /\ haveGood' = (haveGood \/ configFile = NoVault)
  /\ unavailable' = FALSE
  /\ Deactivate
  /\ pc' = "loop"
  /\ UNCHANGED <<world, indexDisk, outbox, remove, shown>>

KeepLastKnownGood ==
  /\ Reloads
  /\ configFile = Invalid
  /\ haveGood
  /\ pc' = "loop"
  /\ UNCHANGED <<world, applied, index, haveGood, unavailable, nextWakeup,
                 outbox, indexDisk, watch, remove, history>>

IdleOnInvalid ==
  /\ Reloads
  /\ configFile = Invalid
  /\ ~haveGood
  /\ unavailable' = FALSE
  /\ Deactivate
  /\ pc' = "loop"
  /\ UNCHANGED <<world, haveGood, indexDisk, outbox, remove, shown>>

VaultUnavailable ==
  /\ Reloads
  /\ configFile \in Configs
  /\ configFile.vault \notin mounted
  /\ haveGood' = TRUE
  /\ unavailable' = TRUE
  /\ Deactivate
  /\ pc' = "loop"
  /\ UNCHANGED <<world, indexDisk, outbox, remove, shown>>

\* The config names a vault that is there.
ReloadsVault ==
  /\ Reloads
  /\ configFile \in Configs
  /\ configFile.vault \in mounted
  /\ haveGood' = TRUE

NoChange ==
  /\ ReloadsVault
  /\ applied = configFile
  /\ RearmIfNeeded
  /\ pc' = "loop"
  /\ UNCHANGED <<world, applied, index, unavailable, nextWakeup, outbox,
                 indexDisk, remove, history>>

SettingsRederived ==
  /\ ReloadsVault
  /\ Active
  /\ applied.vault = configFile.vault
  /\ applied # configFile
  /\ applied' = configFile
  /\ DiscoverAndDispatch(Rederive(index, configFile.time, configFile.lead))
  /\ RearmIfNeeded
  /\ pc' = "loop"
  /\ shown' = {s \in shown : s.under.vault # applied.vault}
  /\ UNCHANGED <<world, unavailable, remove, unseen>>

\* Vault switch or first activation, up to the scan and the merge ...
Activate ==
  /\ ReloadsVault
  /\ Active => applied.vault # configFile.vault
  /\ StopWatch
  /\ needsRearm' = FALSE
  /\ unavailable' = FALSE
  /\ applied' = configFile
  /\ \E scan \in {ScanVault(OnDisk(configFile.vault), configFile.time, configFile.lead)} :
       index' = Merge(indexDisk[configFile.vault], scan)
  /\ unseen' = {}
  /\ pc' = "arming"
  /\ UNCHANGED <<world, indexDisk, nextWakeup, outbox, remove, shown>>

\* ... then arm the watch, discover and dispatch.
Arm ==
  /\ pc = "arming"
  /\ StartWatch
  /\ DiscoverAndDispatch(index)
  /\ pc' = "loop"
  /\ Forget(index)
  /\ UNCHANGED <<world, configEvent, applied, haveGood, unavailable, remove, unseen>>

---------------------------------------------------------------------------
(* The other events of the loop.                                           *)

\* The changed notes of a precise batch, every note for a coarse one.
Rescan ==
  LET now == OnDisk(applied.vault)
  IN  IF coarse THEN ScanVault(now, applied.time, applied.lead)
      ELSE RescanChangedFiles(now, index, touched, applied.time, applied.lead)

HandleBatch ==
  /\ Ready
  /\ Active
  /\ coarse \/ touched # {}
  /\ touched' = {} /\ coarse' = FALSE
  /\ \E fresh \in {Rescan} : \E merged \in {Merge(index, fresh)} :
       DiscoverAndDispatch(merged) /\ Forget(merged)
  /\ unseen' = IF coarse THEN {} ELSE unseen \ touched
  /\ UNCHANGED <<world, configEvent, pc, applied, haveGood, unavailable,
                 watching, needsRearm, remove>>

\* Mutant of OnTick: a wakeup in the very instant it was armed for does nothing.
OnTickLate ==
  IF Active /\ nextWakeup # NoTime /\ nextWakeup < clock
  THEN \E timed \in {RunTimers(index, clock)} : \E found \in {Discover(timed, clock)} :
         Dispatch(found, TimerFires(index, clock) \cup DiscoverFires(timed, clock))
  ELSE UNCHANGED <<index, indexDisk, nextWakeup, outbox>>

\* run_timers, then discover on what it left.
OnTick ==
  IF Active
  THEN \E timed \in {RunTimers(index, clock)} : \E found \in {Discover(timed, clock)} :
         Dispatch(found, TimerFires(index, clock) \cup DiscoverFires(timed, clock))
  ELSE UNCHANGED <<index, indexDisk, nextWakeup, outbox>>

\* recv_timeout ran out: at the next wakeup, or at the 30 s cap before it, so
\* at any time here.
ScheduledWake ==
  /\ Ready
  /\ nextWakeup # NoTime
  /\ UNCHANGED <<world, configEvent, pc, applied, haveGood, unavailable, watch, remove, history>>
  /\ OnTick

\* Mutant of SafetyTick: the config is not read again.
SafetyTickWithoutReload ==
  /\ Ready
  /\ nextWakeup = NoTime
  /\ UNCHANGED <<world, configEvent, pc, applied, haveGood, unavailable, watch, remove, history>>
  /\ OnTick

\* With nothing armed it was the safety tick, and reload_config follows.
SafetyTick ==
  /\ Ready
  /\ nextWakeup = NoTime
  /\ pc' = "reload"
  /\ UNCHANGED <<world, configEvent, applied, haveGood, unavailable, watch, remove, history>>
  /\ OnTick

Resume ==
  /\ Ready
  /\ OnTick
  /\ UNCHANGED <<world, configEvent, pc, applied, haveGood, unavailable, watch, remove, history>>

\* A snooze from the popup or from the app's pane.  History: one that re-arms
\* the reminder asks for another popup.
Snooze(id, minutes) ==
  /\ Ready
  /\ Active
  /\ id \in DOMAIN index
  /\ LET before == index[id]
         snooze == ApplySnooze(before, minutes, clock)
     IN  /\ Dispatch([index EXCEPT ![id] = snooze.to], IF snooze.fires THEN {id} ELSE {})
         /\ shown' = IF snooze.to.state = "scheduled" \/ snooze.fires
                     THEN {s \in shown : s.under.vault # applied.vault \/ s.id # id}
                     ELSE shown
  /\ UNCHANGED <<world, configEvent, pc, applied, haveGood, unavailable, watch, remove, unseen>>

RemoveApply ==
  /\ Ready
  /\ remove # NoRemove
  /\ remove' = NoRemove
  /\ IF Active /\ remove.id \in DOMAIN index
     THEN /\ Dispatch(ApplyRemoveResult(index, remove.id, remove.result), {})
          /\ Forget(ApplyRemoveResult(index, remove.id, remove.result))
          /\ LET p == remove.id.path
             IN  unseen' = IF /\ remove.result = "removed"
                              /\ remove.id \in DOMAIN ScanVault(OnDisk(applied.vault), applied.time, applied.lead)
                           THEN unseen \cup {p} ELSE unseen
     ELSE UNCHANGED <<index, indexDisk, nextWakeup, outbox, shown, unseen>>
  /\ UNCHANGED <<world, configEvent, pc, applied, haveGood, unavailable, watch>>

\* The popups go out one by one after the index was written.
Send(id) ==
  /\ id \in outbox
  /\ outbox' = outbox \ {id}
  /\ shown' = shown \cup {Pop(id)}
  /\ UNCHANGED <<world, configEvent, pc, applied, index, haveGood, unavailable,
                 nextWakeup, indexDisk, watch, remove, unseen>>

\* systemd starts the daemon again; everything it knew is on disk.
Restart ==
  /\ pc = "down"
  /\ pc' = "reload"
  /\ UNCHANGED <<world, configEvent, applied, index, haveGood, unavailable,
                 nextWakeup, outbox, indexDisk, watch, remove, history>>
---------------------------------------------------------------------------
(* A remove worker: it asks the loop for the stored reminder, strikes the   *)
(* token it resolves to, and reports the outcome.                          *)

\* Somebody changed note p of vault v: the watch tells, if there is one.
Noticed(v, p) ==
  IF Active /\ applied.vault = v
  THEN /\ touched' = IF watching THEN touched \cup {p} ELSE touched
       /\ unseen' = IF watching THEN unseen ELSE unseen \cup {p}
  ELSE UNCHANGED <<touched, unseen>>

SetNote(v, p, content) == notes' = [notes EXCEPT ![v][p] = content]

Report(id, result) ==
  remove' = [vault |-> applied.vault, id |-> id, result |-> result]

RemoveWorker(id) ==
  /\ Ready
  /\ Active
  /\ remove = NoRemove
  /\ id \in DOMAIN index
  /\ LET v == applied.vault
         content == OnDisk(v)[id.path]
         lines == Resolve(content, id, index[id])
     IN  \/ \* gone already: nothing to write
            /\ Candidates(content, id) = {}
            /\ Report(id, "removed")
            /\ UNCHANGED <<notes, touched, unseen>>
         \/ \* ambiguous, or the file could not be read or written
            /\ (Candidates(content, id) # {} /\ lines = {}) \/ Fault("noteWrite")
            /\ Report(id, "stale")
            /\ UNCHANGED <<notes, touched, unseen>>
         \/ \E i \in lines :
              /\ Report(id, "removed")
              /\ SetNote(v, id.path, Strike(content, i))
              /\ Noticed(v, id.path)
  /\ UNCHANGED <<clock, mounted, configFile, configEvent, daemon, indexDisk,
                 watching, needsRearm, coarse, shown>>

---------------------------------------------------------------------------
(* The world.                                                              *)

Advance ==
  /\ clock < MaxTime
  /\ clock' = clock + 1
  /\ UNCHANGED <<notes, mounted, configFile, configEvent, daemon, indexDisk,
                 watch, remove, history>>

\* Another program, or the user in an editor, replaces a note.
EditNote(v, p, content) ==
  /\ v \in mounted
  /\ content # notes[v][p]
  /\ SetNote(v, p, content)
  /\ Noticed(v, p)
  /\ UNCHANGED <<clock, mounted, configFile, configEvent, daemon, indexDisk,
                 watching, needsRearm, coarse, remove, shown>>

\* The app writes reminderd.json; the event may be lost.
WriteConfig(file) ==
  /\ file # configFile
  /\ configFile' = file
  /\ configEvent' \in {TRUE} \cup (IF Fault("lostConfigEvent") THEN {configEvent} ELSE {})
  /\ UNCHANGED <<clock, notes, mounted, daemon, indexDisk, watch, remove, history>>

\* A root disappears or is back.  Which of its paths the watchers report then
\* is the operating system's affair.
MountChange(v, S) ==
  /\ Fault("unmount")
  /\ mounted' = IF v \in mounted THEN mounted \ {v} ELSE mounted \cup {v}
  /\ IF Active /\ applied.vault = v
     THEN /\ touched' = IF watching THEN touched \cup S ELSE touched
          /\ unseen' = Paths
     ELSE UNCHANGED <<touched, unseen>>
  /\ UNCHANGED <<clock, notes, configFile, configEvent, daemon, indexDisk,
                 watching, needsRearm, coarse, remove, shown>>

\* An event without paths, an error or an overflow of a watcher.
WatchError ==
  /\ Fault("watchError")
  /\ watching
  /\ coarse' = TRUE
  /\ UNCHANGED <<world, configEvent, daemon, indexDisk, watching, needsRearm,
                 touched, remove, history>>

\* The index file of v becomes unreadable, which load_index takes for empty.
CorruptIndex(v) ==
  /\ Fault("corrupt")
  /\ indexDisk' = [indexDisk EXCEPT ![v] = NoReminders]
  /\ UNCHANGED <<world, configEvent, daemon, watch, remove, history>>

\* The daemon dies with all its threads, at any point of a handler.
Crash ==
  /\ Fault("crash")
  /\ pc # "down"
  /\ pc' = "down"
  /\ Deactivate
  /\ haveGood' = FALSE
  /\ unavailable' = FALSE
  /\ outbox' = {}
  /\ remove' = NoRemove
  /\ configEvent' = FALSE
  /\ UNCHANGED <<world, indexDisk, shown>>

---------------------------------------------------------------------------
Loop ==
  \/ GoIdle \/ KeepLastKnownGood \/ IdleOnInvalid \/ VaultUnavailable
  \/ NoChange \/ SettingsRederived \/ Activate \/ Arm
  \/ HandleBatch \/ ScheduledWake \/ SafetyTick \/ Resume \/ RemoveApply
  \/ \E id \in outbox : Send(id)

Requests ==
  \/ \E id \in DOMAIN index, m \in LockedSnoozeMinutes : Snooze(id, m)
  \/ \E id \in DOMAIN index : RemoveWorker(id)

World ==
  \/ Advance
  \/ \E v \in Vaults, p \in Paths, content \in Contents : EditNote(v, p, content)
  \/ \E file \in ConfigFiles : WriteConfig(file)
  \/ \E v \in Vaults, S \in SUBSET Paths : MountChange(v, S)
  \/ WatchError
  \/ \E v \in Vaults : CorruptIndex(v)
  \/ Crash \/ Restart

Next == Loop \/ Requests \/ World

Spec == Init /\ [][Next]_vars

\* Time passes, a started handler ends, systemd restarts the daemon (weak
\* fairness).  Other events disable a config change or a timeout again and again,
\* but the channel hands out every event in its turn, and the model assumes that
\* it runs empty now and then, so that recv_timeout does run out (strong fairness).
\* That a safety tick comes is assumed only of a loop that again and again sleeps
\* with nothing armed; nothing makes it do so.
Fairness ==
  /\ WF_vars(Advance)
  /\ SF_vars(GoIdle \/ KeepLastKnownGood \/ IdleOnInvalid \/ VaultUnavailable
             \/ NoChange \/ SettingsRederived \/ Activate)
  /\ WF_vars(Arm)
  /\ WF_vars(HandleBatch)
  /\ SF_vars(ScheduledWake)
  /\ SF_vars(SafetyTick)
  /\ WF_vars(RemoveApply)
  /\ WF_vars(\E id \in outbox : Send(id))
  /\ WF_vars(Restart)

FairSpec == Spec /\ Fairness

---------------------------------------------------------------------------
(* Safety.                                                                 *)

\* An armed reminder is never one whose fire time is already spent, and a
\* notified one always has its guard: if the two fields got out of step, the
\* reminder would either never pop or pop twice (scheduler.rs:27-29).
ArmedCanFire ==
  \A id \in DOMAIN index :
    /\ index[id].state = "scheduled" => index[id].last # index[id].fire
    /\ index[id].state = "notified" => index[id].last = index[id].fire

\* Whenever the loop is about to sleep, it wakes no later than the fire time of
\* any armed reminder (or at once, when that is past): daemon.rs:105-107.
WakeupCoversArmed ==
  pc = "loop" /\ Active =>
    \A id \in DOMAIN index :
      Armed(index[id]) =>
        /\ nextWakeup # NoTime
        /\ nextWakeup <= index[id].fire \/ nextWakeup <= clock

\* The index shows exactly the live tokens of every note whose changes the
\* watch reported and the loop has handled, each with the line it is on and, if
\* it may fire, the time it is due: incremental rescans, full rescans, settings
\* changes, switches and write-backs together lose and invent nothing.
IndexTracksNotes ==
  pc = "loop" /\ Active /\ ~coarse =>
    \A p \in Paths \ (touched \cup unseen) :
      LET live == ScanFile(p, OnDisk(applied.vault)[p], applied.time, applied.lead)
      IN  /\ {id \in DOMAIN index : id.path = p} = DOMAIN live
          /\ \A id \in DOMAIN live :
               /\ index[id].anchor = live[id].anchor
               /\ index[id].print = live[id].print
               /\ index[id].state # "stale" => index[id].due = live[id].due

\* No popup is sent twice for the same fire of a reminder, across rescans,
\* ticks, resumes, vault switches and crashes, unless the user snoozed it, its
\* settings changed or it left the index in between (scheduler.rs:27-29; the
\* guard is written before the popup is sent, daemon.rs:538-566).  Promised only
\* while the index file can be written and read, and for notes in which no two
\* live tokens have the same text: a rescan that cannot tell such twins apart
\* starts them afresh (merge.rs:14-18).
NoRepeatedPopup ==
  ~Fault("indexWrite") /\ ~Fault("corrupt") =>
    \A id \in outbox : Pop(id) \notin shown

\* A stale reminder stays stale while it stays in the index file with the same
\* due time: no settings change, snooze, tick, switch or restart makes it
\* schedulable again (ADR 003 section 5, rederive.rs:29-35).  Twins are excepted
\* here, too.
StaleStaysStale ==
  [][\A v \in Vaults : \A id \in DOMAIN indexDisk[v] \cap DOMAIN indexDisk'[v] :
       /\ indexDisk[v][id].state = "stale"
       /\ indexDisk'[v][id].due = indexDisk[v][id].due
       => indexDisk'[v][id].state = "stale"]_vars

---------------------------------------------------------------------------
(* What the documents promise and the code does not keep.                  *)

\* A snooze survives rescans of its note: with one lead setting, an armed or
\* notified reminder whose fire time is not the baseline was snoozed, and while
\* its line reads the same only another snooze moves it (ADR 003:195-196,
\* merge.rs:174-176).
SnoozeSurvivesRescan ==
  [][\A id \in DOMAIN index \cap DOMAIN index' :
       /\ applied' = applied
       /\ index[id].state \in {"scheduled", "notified"}
       /\ index[id].fire # index[id].due - applied.lead * Minute
       /\ index'[id].due = index[id].due /\ index'[id].anchor = index[id].anchor
       /\ index'[id].fire # index[id].fire
       => \E m \in LockedSnoozeMinutes : Snooze(id, m)]_vars

\* A missing vault's index keeps its reminders: "do not scan, do not
\* clear/overwrite the existing index" (ADR 003:242-243).
MissingVaultKeepsIndex ==
  [][\A v \in Vaults \ mounted : DOMAIN indexDisk[v] \subseteq DOMAIN indexDisk'[v]]_vars

---------------------------------------------------------------------------
(* Liveness.                                                               *)

Overdue(id) == id \in DOMAIN index /\ Expired(index[id], clock)

\* An armed reminder whose time has come is notified, marked due or gone.
ArmedEventuallyResolved == \A id \in Ids : Overdue(id) ~> ~Overdue(id)

Named(c) == configFile = c /\ c.vault \in mounted

\* A config whose change event came is applied, whatever is armed, unless another
\* one is written or its vault goes missing first (run.rs:126-129).
ToldConfigIsApplied ==
  \A c \in Configs : (configEvent /\ Named(c)) ~> (applied = c \/ ~Named(c))

NothingArmed == nextWakeup = NoTime

\* A config that stays is applied in the end, and a vault that the app closed
\* for good is let go, even when the change event was lost or the vault was
\* missing for a while, provided that again and again nothing is armed: only the
\* safety tick heals this, and a vault that always has a future reminder never
\* gets one (run.rs:172-177, 190-199).
ConfigCatchesUp ==
  []<>NothingArmed =>
    /\ \A c \in Configs : <>[]Named(c) => <>[](applied = c)
    /\ <>[](configFile \in {Absent, NoVault}) => <>[](applied = NoConfig)
=============================================================================
