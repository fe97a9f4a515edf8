------------------------- MODULE ReminderDaemonProofs -------------------------
(***************************************************************************)
(* Theorems about the run loop of ReminderDaemon, for every set of vaults, *)
(* notes, settings and faults: its type, that the state and the fire-guard *)
(* of every reminder agree, and that the loop wakes for every armed one.   *)
(***************************************************************************)
EXTENDS ReminderDaemon, ReminderIndexProofs

\* Every index in memory or on disk is sound: the files matter because the next
\* activation merges them into memory.
IndexesSound ==
  /\ SoundIndex(index, clock)
  /\ \A v \in Vaults : SoundIndex(indexDisk[v], clock)

\* Where a handler may be interrupted, and what is pending then.
Control ==
  /\ pc = "arming" => Active /\ outbox = {}
  /\ pc = "down" => ~Active
  /\ outbox # {} => Active /\ outbox \subseteq DOMAIN index

Covered(idx, wakeup, now) ==
  \A id \in DOMAIN idx :
    Armed(idx[id]) => wakeup # NoTime /\ (wakeup <= idx[id].fire \/ wakeup <= now)

\* The wakeup is right not only when the loop is about to sleep but also while
\* a reload waits, because a reload may find nothing to do.
WakeupRight == pc \in {"loop", "reload"} /\ Active => Covered(index, nextWakeup, clock)

Inv == TypeOK /\ IndexesSound /\ Control /\ WakeupRight

---------------------------------------------------------------------------
(* Lemmas.                                                                 *)

\* The fields of a config, and that a config is not one of the markers.
LEMMA ConfigFields ==
  ASSUME NEW c \in Configs
  PROVE  /\ c # NoConfig /\ c.vault \in Vaults /\ c.time \in Times
         /\ c.lead \in Leads /\ c.lead \in Nat
<1>1. c # NoConfig
  BY DaemonAssumption DEF DaemonAssumption
<1>2. c.vault \in Vaults /\ c.time \in Times /\ c.lead \in Leads
  BY DEF Configs
<1>3. Leads \subseteq Nat
  BY DaemonAssumption DEF DaemonAssumption
<1> QED
  BY <1>1, <1>2, <1>3

\* An active daemon has a config.
LEMMA ActiveConfig ==
  ASSUME TypeOK, Active
  PROVE  applied \in Configs
BY DEF TypeOK, Active

\* A scan reads notes, or empty ones where the root is gone.
LEMMA OnDiskNotes ==
  ASSUME TypeOK, NEW v \in Vaults
  PROVE  DOMAIN OnDisk(v) = Paths /\ \A p \in Paths : IsNote(OnDisk(v)[p])
<1>1. CASE v \in mounted
  <2>1. OnDisk(v) \in [Paths -> Contents]
    BY <1>1 DEF OnDisk, TypeOK
  <2>2. \A c \in Contents : IsNote(c)
    BY DaemonAssumption DEF DaemonAssumption, IsNote
  <2> QED
    BY <2>1, <2>2
<1>2. CASE v \notin mounted
  <2>1. OnDisk(v) = [p \in Paths |-> << >>]
    BY <1>2 DEF OnDisk
  <2>2. << >> \in [1..0 -> Lines]
    OBVIOUS
  <2>3. 0 \in 0..MaxLines
    BY IndexAssumption DEF IndexAssumption
  <2> QED
    BY <2>1, <2>2, <2>3 DEF IsNote
<1> QED
  BY <1>1, <1>2

\* A handler that ends by writing the index, recomputing the wakeup and queueing
\* popups leaves all of them right (daemon.rs:523-566).
LEMMA DispatchRight ==
  ASSUME TypeOK, IndexesSound, Active,
         NEW idx, SoundIndex(idx, clock), NEW fires \in SUBSET DOMAIN idx,
         Dispatch(idx, fires)
  PROVE  /\ SoundIndex(index', clock)
         /\ DOMAIN indexDisk' = Vaults
         /\ \A v \in Vaults : SoundIndex(indexDisk'[v], clock)
         /\ nextWakeup' \in Int \cup {NoTime}
         /\ Covered(index', nextWakeup', clock)
         /\ outbox' \subseteq DOMAIN index'
<1>1. index' = idx /\ outbox' = fires /\ nextWakeup' = NextWakeup(idx, clock)
  BY DEF Dispatch
<1>2. DOMAIN indexDisk = Vaults
  BY DEF TypeOK
<1>3. /\ DOMAIN indexDisk' = Vaults
      /\ \A v \in Vaults : SoundIndex(indexDisk'[v], clock)
  BY <1>2 DEF Dispatch, Persist, IndexesSound
<1>4. clock \in Nat /\ IsIndex(idx)
  BY DaemonAssumption DEF TypeOK, DaemonAssumption, SoundIndex
<1>5. NextWakeup(idx, clock) \in Int \cup {NoTime} /\ Covered(idx, NextWakeup(idx, clock), clock)
  BY <1>4, NextWakeupCovers DEF Covered
<1> QED
  BY <1>1, <1>3, <1>5

\* The same when the handler ends with discovery (daemon.rs:568-577).
LEMMA DiscoverAndDispatchRight ==
  ASSUME TypeOK, IndexesSound, Active, NEW idx, SoundIndex(idx, clock), DiscoverAndDispatch(idx)
  PROVE  /\ SoundIndex(index', clock)
         /\ DOMAIN indexDisk' = Vaults
         /\ \A v \in Vaults : SoundIndex(indexDisk'[v], clock)
         /\ nextWakeup' \in Int \cup {NoTime}
         /\ Covered(index', nextWakeup', clock)
         /\ outbox' \subseteq DOMAIN index'
<1>1. clock \in Int
  BY DEF TypeOK
<1>2. SoundIndex(Discover(idx, clock), clock)
  BY <1>1, DiscoverSound
<1>3. DiscoverFires(idx, clock) \in SUBSET DOMAIN Discover(idx, clock)
  BY DEF DiscoverFires, Discover
<1>4. Dispatch(Discover(idx, clock), DiscoverFires(idx, clock))
  BY DEF DiscoverAndDispatch
<1> QED
  BY <1>2, <1>3, <1>4, DispatchRight

\* A tick of an active daemon (daemon.rs:470-521).
LEMMA OnTickRight ==
  ASSUME TypeOK, IndexesSound, Active, OnTick
  PROVE  /\ SoundIndex(index', clock)
         /\ DOMAIN indexDisk' = Vaults
         /\ \A v \in Vaults : SoundIndex(indexDisk'[v], clock)
         /\ nextWakeup' \in Int \cup {NoTime}
         /\ Covered(index', nextWakeup', clock)
         /\ outbox' \subseteq DOMAIN index'
<1> DEFINE timed == RunTimers(index, clock)
           found == Discover(timed, clock)
           fires == TimerFires(index, clock) \cup DiscoverFires(timed, clock)
<1>1. clock \in Int
  BY DEF TypeOK
<1>2. SoundIndex(found, clock)
  BY <1>1, RunTimersSound, DiscoverSound DEF IndexesSound
<1>3. fires \in SUBSET DOMAIN found
  BY DEF DiscoverFires, TimerFires, Discover, RunTimers
<1>4. Dispatch(found, fires)
  BY DEF OnTick
<1> QED
  BY <1>2, <1>3, <1>4, DispatchRight

\* Steps that touch neither the indexes nor the loop.
LEMMA Aside ==
  ASSUME Inv, UNCHANGED <<clock, pc, applied, index, indexDisk, nextWakeup, outbox>>
  PROVE  IndexesSound' /\ Control' /\ WakeupRight'
BY DEF Inv, IndexesSound, Control, WakeupRight, Active

\* Letting the vault go.
LEMMA DeactivateRight ==
  ASSUME Inv, Deactivate, outbox' = {}, pc' \in {"loop", "reload", "down"}, UNCHANGED <<clock, indexDisk>>
  PROVE  IndexesSound' /\ Control' /\ WakeupRight'
<1>1. index' = NoReminders /\ applied' = NoConfig
  BY DEF Deactivate
<1>2. SoundIndex(index', clock')
  BY <1>1, NoRemindersSound
<1>3. IndexesSound'
  BY <1>2 DEF Inv, IndexesSound
<1>4. Control' /\ WakeupRight'
  BY <1>1 DEF Control, WakeupRight, Active
<1> QED
  BY <1>3, <1>4

\* A dispatching handler that leaves the clock alone and keeps the vault re-establishes
\* everything but the type of what it does not dispatch.
LEMMA AfterDispatch ==
  ASSUME UNCHANGED clock, pc' \in {"loop", "reload"}, applied' # NoConfig,
         SoundIndex(index', clock),
         \A v \in Vaults : SoundIndex(indexDisk'[v], clock),
         Covered(index', nextWakeup', clock),
         outbox' \subseteq DOMAIN index'
  PROVE  IndexesSound' /\ Control' /\ WakeupRight'
BY DEF IndexesSound, Control, WakeupRight, Active

---------------------------------------------------------------------------
(* Every action keeps the invariant.                                       *)

LEMMA InitInv == Init => Inv
<1> SUFFICES ASSUME Init PROVE Inv
  OBVIOUS
<1>1. SoundIndex(NoReminders, clock) /\ IsIndex(NoReminders)
  BY NoRemindersSound DEF SoundIndex
<1>2. TypeOK
  <2>1. clock \in 0..MaxTime
    BY DaemonAssumption DEF Init, DaemonAssumption
  <2>2. IsIndex(index) /\ DOMAIN indexDisk = Vaults /\ \A v \in Vaults : IsIndex(indexDisk[v])
    BY <1>1 DEF Init
  <2>3. mounted \subseteq Vaults /\ notes \in [Vaults -> [Paths -> Contents]]
    BY DEF Init
  <2>4. touched \subseteq Paths /\ outbox \subseteq Ids /\ shown \subseteq Pops /\ unseen \subseteq Paths
    BY DEF Init
  <2> QED
    BY <2>1, <2>2, <2>3, <2>4 DEF Init, TypeOK
<1>3. IndexesSound
  BY <1>1 DEF Init, IndexesSound
<1>4. Control /\ WakeupRight
  BY DEF Init, Control, WakeupRight, Active
<1> QED
  BY <1>2, <1>3, <1>4 DEF Inv

\* reload_config that finds no vault, with the four reasons there are.
LEMMA IdleInv ==
  ASSUME Inv, GoIdle \/ IdleOnInvalid \/ VaultUnavailable
  PROVE  Inv'
<1>1. /\ Deactivate /\ pc' = "loop" /\ outbox = {} /\ Reloads
      /\ UNCHANGED <<world, indexDisk, outbox, remove, shown>>
  BY DEF GoIdle, IdleOnInvalid, VaultUnavailable, Reloads
<1>2. IndexesSound' /\ Control' /\ WakeupRight'
  BY <1>1, DeactivateRight DEF world
<1>3. haveGood' \in BOOLEAN /\ unavailable' \in BOOLEAN
  BY DEF GoIdle, IdleOnInvalid, VaultUnavailable, Inv, TypeOK
<1>4. configEvent' \in BOOLEAN
  BY <1>1 DEF Reloads
<1>5. TypeOK'
  BY <1>1, <1>2, <1>3, <1>4 DEF Inv, TypeOK, Deactivate, StopWatch, world, IndexesSound, SoundIndex
<1> QED
  BY <1>2, <1>5 DEF Inv

LEMMA KeepLastKnownGoodInv ==
  ASSUME Inv, KeepLastKnownGood
  PROVE  Inv'
<1>1. /\ UNCHANGED <<world, applied, index, haveGood, unavailable, nextWakeup,
                     outbox, indexDisk, watch, remove, history>>
      /\ pc' = "loop" /\ pc \in {"loop", "reload"} /\ configEvent' \in BOOLEAN
  BY DEF KeepLastKnownGood, Reloads
<1>2. TypeOK'
  BY <1>1 DEF Inv, TypeOK, world, watch, history
<1>3. IndexesSound' /\ Control' /\ WakeupRight'
  BY <1>1 DEF Inv, IndexesSound, Control, WakeupRight, Active, world
<1> QED
  BY <1>2, <1>3 DEF Inv

\* The watch restarts or stays as it is.
LEMMA WatchType ==
  ASSUME TypeOK, StartWatch \/ RearmIfNeeded
  PROVE  /\ watching' \in BOOLEAN /\ needsRearm' \in BOOLEAN
         /\ touched' \subseteq Paths /\ coarse' \in BOOLEAN
<1>1. CASE StartWatch
  BY <1>1 DEF StartWatch, StopWatch
<1>2. CASE UNCHANGED watch
  BY <1>2 DEF watch, TypeOK
<1> QED
  BY <1>1, <1>2 DEF RearmIfNeeded

LEMMA NoChangeInv ==
  ASSUME Inv, NoChange
  PROVE  Inv'
<1>1. /\ UNCHANGED <<world, applied, index, unavailable, nextWakeup, outbox,
                     indexDisk, remove, history>>
      /\ pc' = "loop" /\ pc \in {"loop", "reload"}
      /\ configEvent' \in BOOLEAN /\ haveGood' = TRUE /\ RearmIfNeeded
  BY DEF NoChange, ReloadsVault, Reloads
<1>2. /\ watching' \in BOOLEAN /\ needsRearm' \in BOOLEAN
      /\ touched' \subseteq Paths /\ coarse' \in BOOLEAN
  BY <1>1, WatchType DEF Inv
<1>3. TypeOK'
  BY <1>1, <1>2 DEF Inv, TypeOK, world, history
<1>4. IndexesSound' /\ Control' /\ WakeupRight'
  BY <1>1 DEF Inv, IndexesSound, Control, WakeupRight, Active, world
<1> QED
  BY <1>3, <1>4 DEF Inv

LEMMA SettingsRederivedInv ==
  ASSUME Inv, SettingsRederived
  PROVE  Inv'
<1>1. /\ UNCHANGED <<world, unavailable, remove, unseen>>
      /\ pc' = "loop" /\ applied' = configFile /\ configFile \in Configs
      /\ configEvent' \in BOOLEAN /\ haveGood' = TRUE /\ RearmIfNeeded /\ Active
      /\ DiscoverAndDispatch(Rederive(index, configFile.time, configFile.lead))
      /\ shown' \subseteq shown
  BY DEF SettingsRederived, ReloadsVault, Reloads
<1>2. /\ watching' \in BOOLEAN /\ needsRearm' \in BOOLEAN
      /\ touched' \subseteq Paths /\ coarse' \in BOOLEAN
  BY <1>1, WatchType DEF Inv
<1>3. SoundIndex(Rederive(index, configFile.time, configFile.lead), clock)
  <2>1. clock \in Int
    BY DEF Inv, TypeOK
  <2> QED
    BY <1>1, <2>1, ConfigFields, RederiveSound DEF Inv, IndexesSound
<1>4. /\ SoundIndex(index', clock)
      /\ DOMAIN indexDisk' = Vaults
      /\ \A v \in Vaults : SoundIndex(indexDisk'[v], clock)
      /\ nextWakeup' \in Int \cup {NoTime}
      /\ Covered(index', nextWakeup', clock)
      /\ outbox' \subseteq DOMAIN index'
  BY <1>1, <1>3, DiscoverAndDispatchRight DEF Inv
<1>5. TypeOK'
  BY <1>1, <1>2, <1>4 DEF Inv, TypeOK, world, SoundIndex, IsIndex
<1>6. IndexesSound' /\ Control' /\ WakeupRight'
  BY <1>1, <1>4, ConfigFields, AfterDispatch DEF world
<1> QED
  BY <1>5, <1>6 DEF Inv

\* A switch merges the index file of the new vault, which is why the files must be
\* sound too.
LEMMA ActivateInv ==
  ASSUME Inv, Activate
  PROVE  Inv'
<1> DEFINE v == configFile.vault
           scan == ScanVault(OnDisk(v), configFile.time, configFile.lead)
<1>1. /\ UNCHANGED <<world, indexDisk, nextWakeup, outbox, remove, shown>>
      /\ pc' = "arming" /\ applied' = configFile /\ configFile \in Configs /\ outbox = {}
      /\ configEvent' \in BOOLEAN /\ haveGood' = TRUE /\ unavailable' = FALSE /\ unseen' = {}
      /\ StopWatch /\ needsRearm' = FALSE
      /\ index' = Merge(indexDisk[v], scan)
  BY DEF Activate, ReloadsVault, Reloads
<1>2. v \in Vaults /\ configFile.time \in Times /\ configFile.lead \in Nat /\ configFile # NoConfig
  BY <1>1, ConfigFields
<1>3. clock \in Int
  BY DEF Inv, TypeOK
<1>4. SoundIndex(scan, clock)
  <2>1. DOMAIN OnDisk(v) = Paths /\ \A p \in Paths : IsNote(OnDisk(v)[p])
    BY <1>2, OnDiskNotes DEF Inv
  <2> QED
    BY <1>2, <1>3, <2>1, ScanVaultSound
<1>5. SoundIndex(index', clock)
  BY <1>1, <1>2, <1>3, <1>4, MergeSound DEF Inv, IndexesSound
<1> HIDE DEF v, scan
<1>6. TypeOK'
  BY <1>1, <1>5 DEF Inv, TypeOK, world, StopWatch, SoundIndex
<1>7. IndexesSound' /\ Control' /\ WakeupRight'
  BY <1>1, <1>2, <1>5 DEF Inv, IndexesSound, Control, WakeupRight, Active, world
<1> QED
  BY <1>6, <1>7 DEF Inv

LEMMA ArmInv ==
  ASSUME Inv, Arm
  PROVE  Inv'
<1>1. /\ UNCHANGED <<world, configEvent, applied, haveGood, unavailable, remove, unseen>>
      /\ pc' = "loop" /\ Active /\ StartWatch /\ DiscoverAndDispatch(index)
      /\ shown' \subseteq shown
  BY DEF Arm, Forget, Inv, Control
<1>2. /\ watching' \in BOOLEAN /\ needsRearm' \in BOOLEAN
      /\ touched' \subseteq Paths /\ coarse' \in BOOLEAN
  BY <1>1, WatchType DEF Inv
<1>3. /\ SoundIndex(index', clock)
      /\ DOMAIN indexDisk' = Vaults
      /\ \A v \in Vaults : SoundIndex(indexDisk'[v], clock)
      /\ nextWakeup' \in Int \cup {NoTime}
      /\ Covered(index', nextWakeup', clock)
      /\ outbox' \subseteq DOMAIN index'
  BY <1>1, DiscoverAndDispatchRight DEF Inv, IndexesSound
<1>4. TypeOK'
  BY <1>1, <1>2, <1>3 DEF Inv, TypeOK, world, SoundIndex, IsIndex
<1>5. IndexesSound' /\ Control' /\ WakeupRight'
  BY <1>1, <1>3, AfterDispatch DEF world, Active
<1> QED
  BY <1>4, <1>5 DEF Inv

LEMMA HandleBatchInv ==
  ASSUME Inv, HandleBatch
  PROVE  Inv'
<1> DEFINE merged == Merge(index, Rescan)
<1>1. /\ UNCHANGED <<world, configEvent, pc, applied, haveGood, unavailable,
                     watching, needsRearm, remove>>
      /\ pc = "loop" /\ Active /\ DiscoverAndDispatch(merged)
      /\ touched' = {} /\ coarse' = FALSE
      /\ shown' \subseteq shown /\ unseen' \subseteq unseen
  BY DEF HandleBatch, Ready, Forget
<1>2. /\ applied.vault \in Vaults /\ applied.time \in Times /\ applied.lead \in Nat
      /\ applied # NoConfig
  BY <1>1, ActiveConfig, ConfigFields DEF Inv
<1>3. clock \in Int
  BY DEF Inv, TypeOK
<1>4. SoundIndex(Rescan, clock)
  <2> DEFINE now == OnDisk(applied.vault)
  <2>1. DOMAIN now = Paths /\ \A p \in Paths : IsNote(now[p])
    BY <1>2, OnDiskNotes DEF Inv
  <2>2. SoundIndex(ScanVault(now, applied.time, applied.lead), clock)
    BY <1>2, <1>3, <2>1, ScanVaultSound
  <2>3. SoundIndex(RescanChangedFiles(now, index, touched, applied.time, applied.lead), clock)
    BY <1>2, <1>3, <2>1, RescanChangedFilesSound DEF Inv, IndexesSound
  <2> QED
    BY <2>2, <2>3 DEF Rescan
<1>5. SoundIndex(merged, clock)
  BY <1>3, <1>4, MergeSound DEF Inv, IndexesSound
<1> HIDE DEF merged
<1>6. /\ SoundIndex(index', clock)
      /\ DOMAIN indexDisk' = Vaults
      /\ \A v \in Vaults : SoundIndex(indexDisk'[v], clock)
      /\ nextWakeup' \in Int \cup {NoTime}
      /\ Covered(index', nextWakeup', clock)
      /\ outbox' \subseteq DOMAIN index'
  BY <1>1, <1>5, DiscoverAndDispatchRight DEF Inv
<1>7. TypeOK'
  BY <1>1, <1>6 DEF Inv, TypeOK, world, SoundIndex, IsIndex
<1>8. IndexesSound' /\ Control' /\ WakeupRight'
  BY <1>1, <1>2, <1>6, AfterDispatch DEF world
<1> QED
  BY <1>7, <1>8 DEF Inv

\* Ticks of all three kinds.
LEMMA TickInv ==
  ASSUME Inv, ScheduledWake \/ SafetyTick \/ Resume
  PROVE  Inv'
<1>1. /\ UNCHANGED <<world, configEvent, applied, haveGood, unavailable, watch, remove, history>>
      /\ pc = "loop" /\ pc' \in {"loop", "reload"} /\ outbox = {} /\ OnTick
  BY DEF ScheduledWake, SafetyTick, Resume, Ready
<1>2. CASE Active
  <2>1. /\ SoundIndex(index', clock)
        /\ DOMAIN indexDisk' = Vaults
        /\ \A v \in Vaults : SoundIndex(indexDisk'[v], clock)
        /\ nextWakeup' \in Int \cup {NoTime}
        /\ Covered(index', nextWakeup', clock)
        /\ outbox' \subseteq DOMAIN index'
    BY <1>1, <1>2, OnTickRight DEF Inv
  <2>2. TypeOK'
    BY <1>1, <2>1 DEF Inv, TypeOK, world, watch, history, SoundIndex, IsIndex
  <2>3. IndexesSound' /\ Control' /\ WakeupRight'
    BY <1>1, <1>2, <2>1, AfterDispatch DEF world, Active
  <2> QED
    BY <2>2, <2>3 DEF Inv
<1>3. CASE ~Active
  <2>1. UNCHANGED <<index, indexDisk, nextWakeup, outbox>>
    BY <1>1, <1>3 DEF OnTick
  <2>2. TypeOK'
    BY <1>1, <2>1 DEF Inv, TypeOK, world, watch, history
  <2>3. IndexesSound' /\ Control' /\ WakeupRight'
    BY <1>1, <1>3, <2>1 DEF Inv, IndexesSound, Control, WakeupRight, Active, world
  <2> QED
    BY <2>2, <2>3 DEF Inv
<1> QED
  BY <1>2, <1>3

LEMMA SnoozeInv ==
  ASSUME Inv, NEW id, NEW minutes \in LockedSnoozeMinutes, Snooze(id, minutes)
  PROVE  Inv'
<1> DEFINE snooze == ApplySnooze(index[id], minutes, clock)
           idx    == [index EXCEPT ![id] = snooze.to]
           fires  == IF snooze.fires THEN {id} ELSE {}
<1>1. /\ UNCHANGED <<world, configEvent, pc, applied, haveGood, unavailable, watch, remove, unseen>>
      /\ pc = "loop" /\ Active /\ id \in DOMAIN index
      /\ Dispatch(idx, fires) /\ shown' \subseteq shown
  BY DEF Snooze, Ready
<1>2. clock \in Int
  BY DEF Inv, TypeOK
<1>3. index[id] \in Reminders /\ Sound(index[id], clock)
  BY <1>1 DEF Inv, IndexesSound, SoundIndex, IsIndex
<1>4. SoundIndex(idx, clock)
  <2>1. snooze.to \in Reminders /\ Sound(snooze.to, clock)
    BY <1>2, <1>3, ApplySnoozeSound
  <2> HIDE DEF snooze
  <2> QED
    BY <1>1, <1>2, <2>1, ReplaceSound DEF Inv, IndexesSound
<1>5. fires \in SUBSET DOMAIN idx
  BY <1>1
<1> HIDE DEF idx, fires
<1>6. /\ SoundIndex(index', clock)
      /\ DOMAIN indexDisk' = Vaults
      /\ \A v \in Vaults : SoundIndex(indexDisk'[v], clock)
      /\ nextWakeup' \in Int \cup {NoTime}
      /\ Covered(index', nextWakeup', clock)
      /\ outbox' \subseteq DOMAIN index'
  BY <1>1, <1>4, <1>5, DispatchRight DEF Inv
<1>7. TypeOK'
  BY <1>1, <1>6 DEF Inv, TypeOK, world, watch, SoundIndex, IsIndex
<1>8. IndexesSound' /\ Control' /\ WakeupRight'
  BY <1>1, <1>6, AfterDispatch DEF world, Active
<1> QED
  BY <1>7, <1>8 DEF Inv

LEMMA RemoveApplyInv ==
  ASSUME Inv, RemoveApply
  PROVE  Inv'
<1>1. /\ UNCHANGED <<world, configEvent, pc, applied, haveGood, unavailable, watch>>
      /\ pc = "loop" /\ remove # NoRemove /\ remove' = NoRemove
  BY DEF RemoveApply, Ready
<1>2. CASE Active /\ remove.id \in DOMAIN index
  <2> DEFINE idx == ApplyRemoveResult(index, remove.id, remove.result)
  <2>1. Dispatch(idx, {}) /\ shown' \subseteq shown /\ unseen' \subseteq unseen \cup {remove.id.path}
    BY <1>2 DEF RemoveApply, Forget
  <2>2. clock \in Int
    BY DEF Inv, TypeOK
  <2>3. SoundIndex(idx, clock)
    BY <2>2, ApplyRemoveResultSound DEF Inv, IndexesSound
  <2>4. remove.id.path \in Paths
    BY <1>2 DEF Inv, TypeOK, IsIndex, Ids
  <2> HIDE DEF idx
  <2>5. /\ SoundIndex(index', clock)
        /\ DOMAIN indexDisk' = Vaults
        /\ \A v \in Vaults : SoundIndex(indexDisk'[v], clock)
        /\ nextWakeup' \in Int \cup {NoTime}
        /\ Covered(index', nextWakeup', clock)
        /\ outbox' \subseteq DOMAIN index'
    BY <1>2, <2>1, <2>3, DispatchRight DEF Inv
  <2>6. shown' \subseteq Pops /\ unseen' \subseteq Paths
    BY <2>1, <2>4 DEF Inv, TypeOK
  <2>7. TypeOK'
    BY <1>1, <2>5, <2>6 DEF Inv, TypeOK, world, watch, SoundIndex, IsIndex
  <2>8. IndexesSound' /\ Control' /\ WakeupRight'
    BY <1>1, <1>2, <2>5, AfterDispatch DEF world, Active
  <2> QED
    BY <2>7, <2>8 DEF Inv
<1>3. CASE ~(Active /\ remove.id \in DOMAIN index)
  <2>1. UNCHANGED <<index, indexDisk, nextWakeup, outbox, shown, unseen>>
    BY <1>3 DEF RemoveApply
  <2>2. TypeOK'
    BY <1>1, <2>1 DEF Inv, TypeOK, world, watch
  <2>3. IndexesSound' /\ Control' /\ WakeupRight'
    BY <1>1, <2>1, Aside DEF world
  <2> QED
    BY <2>2, <2>3 DEF Inv
<1> QED
  BY <1>2, <1>3

LEMMA SendInv ==
  ASSUME Inv, NEW id, Send(id)
  PROVE  Inv'
<1>1. /\ UNCHANGED <<world, configEvent, pc, applied, index, haveGood, unavailable,
                     nextWakeup, indexDisk, watch, remove, unseen>>
      /\ id \in outbox /\ outbox' \subseteq outbox /\ shown' = shown \cup {Pop(id)}
  BY DEF Send
<1>2. Active /\ outbox \subseteq DOMAIN index
  BY <1>1 DEF Inv, Control
<1>3. Pop(id) \in Pops
  <2>1. applied \in Configs
    BY <1>2, ActiveConfig DEF Inv
  <2>2. id \in Ids /\ index[id].fire \in Int
    BY <1>1, <1>2 DEF Inv, TypeOK, IsIndex, Reminders
  <2> QED
    BY <2>1, <2>2 DEF Pop, Pops
<1>4. TypeOK'
  <2>1. outbox' \subseteq Ids /\ shown' \subseteq Pops
    BY <1>1, <1>3 DEF Inv, TypeOK
  <2> QED
    BY <1>1, <2>1 DEF Inv, TypeOK, world, watch
<1>5. IndexesSound' /\ Control' /\ WakeupRight'
  <2>1. pc # "arming"
    BY <1>1 DEF Inv, Control
  <2> QED
    BY <1>1, <1>2, <2>1 DEF Inv, IndexesSound, Control, WakeupRight, Active, world
<1> QED
  BY <1>4, <1>5 DEF Inv

LEMMA RestartInv ==
  ASSUME Inv, Restart
  PROVE  Inv'
<1>1. /\ UNCHANGED <<world, configEvent, applied, index, haveGood, unavailable,
                     nextWakeup, outbox, indexDisk, watch, remove, history>>
      /\ pc' = "reload" /\ ~Active
  BY DEF Restart, Inv, Control
<1>2. TypeOK'
  BY <1>1 DEF Inv, TypeOK, world, watch, history
<1>3. IndexesSound' /\ Control' /\ WakeupRight'
  BY <1>1 DEF Inv, IndexesSound, Control, WakeupRight, Active, world
<1> QED
  BY <1>2, <1>3 DEF Inv

\* What a change of one note does to the typing.
LEMMA NoticedType ==
  ASSUME TypeOK, NEW v, NEW p \in Paths, Noticed(v, p)
  PROVE  touched' \subseteq Paths /\ unseen' \subseteq Paths
<1>1. touched \subseteq Paths /\ unseen \subseteq Paths
  BY DEF TypeOK
<1>2. CASE Active /\ applied.vault = v
  BY <1>1, <1>2 DEF Noticed
<1>3. CASE ~(Active /\ applied.vault = v)
  BY <1>1, <1>3 DEF Noticed
<1> QED
  BY <1>2, <1>3

LEMMA SetNoteType ==
  ASSUME TypeOK, NEW v \in Vaults, NEW p \in Paths, NEW content \in Contents, SetNote(v, p, content)
  PROVE  notes' \in [Vaults -> [Paths -> Contents]]
BY DEF TypeOK, SetNote

LEMMA RemoveWorkerInv ==
  ASSUME Inv, NEW id, RemoveWorker(id)
  PROVE  Inv'
<1> DEFINE v == applied.vault
           content == OnDisk(v)[id.path]
           lines == Resolve(content, id, index[id])
<1>1. /\ UNCHANGED <<clock, mounted, configFile, configEvent, daemon, indexDisk,
                     watching, needsRearm, coarse, shown>>
      /\ Active /\ id \in DOMAIN index
      /\ \/ Report(id, "removed") /\ UNCHANGED <<notes, touched, unseen>>
         \/ Report(id, "stale") /\ UNCHANGED <<notes, touched, unseen>>
         \/ \E i \in lines : /\ Report(id, "removed")
                             /\ SetNote(v, id.path, Strike(content, i))
                             /\ Noticed(v, id.path)
  BY DEF RemoveWorker, Ready
<1>2. v \in Vaults /\ id \in Ids /\ id.path \in Paths
  <2>1. applied \in Configs
    BY <1>1, ActiveConfig DEF Inv
  <2>2. id \in Ids
    BY <1>1 DEF Inv, TypeOK, IsIndex
  <2> QED
    BY <2>1, <2>2, ConfigFields DEF Ids
<1>3. lines \subseteq DOMAIN content
  BY DEF Resolve, Candidates, Live
<1>4. ASSUME NEW i \in lines PROVE Strike(content, i) \in Contents
  <2>1. v \in mounted
    BY <1>2, <1>3, <1>4 DEF OnDisk
  <2>2. content \in Contents
    BY <1>2, <2>1 DEF OnDisk, Inv, TypeOK
  <2> QED
    BY <1>3, <2>2, DaemonAssumption DEF DaemonAssumption
<1> HIDE DEF content, lines
<1>5. /\ notes' \in [Vaults -> [Paths -> Contents]]
      /\ touched' \subseteq Paths /\ unseen' \subseteq Paths
  <2>1. CASE UNCHANGED <<notes, touched, unseen>>
    BY <2>1 DEF Inv, TypeOK
  <2>2. CASE \E i \in lines : SetNote(v, id.path, Strike(content, i)) /\ Noticed(v, id.path)
    <3>1. PICK i \in lines : SetNote(v, id.path, Strike(content, i)) /\ Noticed(v, id.path)
      BY <2>2
    <3>2. notes' \in [Vaults -> [Paths -> Contents]]
      BY <1>2, <1>4, <3>1, SetNoteType DEF Inv
    <3> QED
      BY <1>2, <3>1, <3>2, NoticedType DEF Inv
  <2> QED
    BY <1>1, <2>1, <2>2
<1>6. remove' \in Removals
  BY <1>1, <1>2 DEF Report, Removals
<1>7. TypeOK'
  BY <1>1, <1>5, <1>6 DEF Inv, TypeOK, daemon
<1>8. IndexesSound' /\ Control' /\ WakeupRight'
  BY <1>1, Aside DEF daemon
<1> QED
  BY <1>7, <1>8 DEF Inv

\* Time only makes guards older and wakeups more overdue.
LEMMA AdvanceInv ==
  ASSUME Inv, Advance
  PROVE  Inv'
<1>1. /\ UNCHANGED <<notes, mounted, configFile, configEvent, daemon, indexDisk,
                     watch, remove, history>>
      /\ clock < MaxTime /\ clock' = clock + 1
  BY DEF Advance
<1>2. clock \in 0..MaxTime /\ MaxTime \in Nat
  BY DaemonAssumption DEF Inv, TypeOK, DaemonAssumption
<1>3. clock' \in 0..MaxTime /\ clock \in Int /\ clock' \in Int /\ clock <= clock'
  BY <1>1, <1>2
<1>4. TypeOK'
  BY <1>1, <1>3 DEF Inv, TypeOK, daemon, watch, history
<1>5. IndexesSound'
  BY <1>1, <1>3, SoundIndexLater DEF Inv, IndexesSound, daemon
<1>6. Control'
  BY <1>1 DEF Inv, Control, Active, daemon
<1>7. WakeupRight'
  <2> SUFFICES ASSUME pc \in {"loop", "reload"}, Active
               PROVE  Covered(index, nextWakeup, clock')
    BY <1>1 DEF WakeupRight, Active, daemon
  <2>1. Covered(index, nextWakeup, clock) /\ nextWakeup \in Int \cup {NoTime}
    BY DEF Inv, WakeupRight, TypeOK
  <2> QED
    BY <1>3, <2>1 DEF Covered
<1> QED
  BY <1>4, <1>5, <1>6, <1>7 DEF Inv

LEMMA EditNoteInv ==
  ASSUME Inv, NEW v \in Vaults, NEW p \in Paths, NEW content \in Contents, EditNote(v, p, content)
  PROVE  Inv'
<1>1. /\ UNCHANGED <<clock, mounted, configFile, configEvent, daemon, indexDisk,
                     watching, needsRearm, coarse, remove, shown>>
      /\ SetNote(v, p, content) /\ Noticed(v, p)
  BY DEF EditNote
<1>2. /\ notes' \in [Vaults -> [Paths -> Contents]]
      /\ touched' \subseteq Paths /\ unseen' \subseteq Paths
  BY <1>1, SetNoteType, NoticedType DEF Inv
<1>3. TypeOK'
  BY <1>1, <1>2 DEF Inv, TypeOK, daemon
<1>4. IndexesSound' /\ Control' /\ WakeupRight'
  BY <1>1, Aside DEF daemon
<1> QED
  BY <1>3, <1>4 DEF Inv

LEMMA WriteConfigInv ==
  ASSUME Inv, NEW file \in ConfigFiles, WriteConfig(file)
  PROVE  Inv'
<1>1. /\ UNCHANGED <<clock, notes, mounted, daemon, indexDisk, watch, remove, history>>
      /\ configFile' \in ConfigFiles /\ configEvent' \in BOOLEAN
  BY DEF WriteConfig, Inv, TypeOK
<1>2. TypeOK'
  BY <1>1 DEF Inv, TypeOK, daemon, watch, history
<1>3. IndexesSound' /\ Control' /\ WakeupRight'
  BY <1>1, Aside DEF daemon
<1> QED
  BY <1>2, <1>3 DEF Inv

LEMMA MountChangeInv ==
  ASSUME Inv, NEW v \in Vaults, NEW S \in SUBSET Paths, MountChange(v, S)
  PROVE  Inv'
<1>1. /\ UNCHANGED <<clock, notes, configFile, configEvent, daemon, indexDisk,
                     watching, needsRearm, coarse, remove, shown>>
      /\ mounted' \subseteq Vaults /\ touched' \subseteq Paths /\ unseen' \subseteq Paths
  BY DEF MountChange, Inv, TypeOK
<1>2. TypeOK'
  BY <1>1 DEF Inv, TypeOK, daemon
<1>3. IndexesSound' /\ Control' /\ WakeupRight'
  BY <1>1, Aside DEF daemon
<1> QED
  BY <1>2, <1>3 DEF Inv

LEMMA WatchErrorInv ==
  ASSUME Inv, WatchError
  PROVE  Inv'
<1>1. /\ UNCHANGED <<world, configEvent, daemon, indexDisk, watching, needsRearm,
                     touched, remove, history>>
      /\ coarse' = TRUE
  BY DEF WatchError
<1>2. TypeOK'
  BY <1>1 DEF Inv, TypeOK, world, daemon, history
<1>3. IndexesSound' /\ Control' /\ WakeupRight'
  BY <1>1, Aside DEF world, daemon
<1> QED
  BY <1>2, <1>3 DEF Inv

LEMMA CorruptIndexInv ==
  ASSUME Inv, NEW v \in Vaults, CorruptIndex(v)
  PROVE  Inv'
<1>1. /\ UNCHANGED <<world, configEvent, daemon, watch, remove, history>>
      /\ indexDisk' = [indexDisk EXCEPT ![v] = NoReminders]
  BY DEF CorruptIndex
<1>2. /\ DOMAIN indexDisk' = Vaults
      /\ \A u \in Vaults : SoundIndex(indexDisk'[u], clock)
  BY <1>1, NoRemindersSound DEF Inv, TypeOK, IndexesSound
<1>3. TypeOK'
  BY <1>1, <1>2 DEF Inv, TypeOK, world, daemon, watch, history, SoundIndex
<1>4. IndexesSound' /\ Control' /\ WakeupRight'
  BY <1>1, <1>2 DEF Inv, IndexesSound, Control, WakeupRight, Active, world, daemon
<1> QED
  BY <1>3, <1>4 DEF Inv

LEMMA CrashInv ==
  ASSUME Inv, Crash
  PROVE  Inv'
<1>1. /\ UNCHANGED <<world, indexDisk, shown>>
      /\ pc' = "down" /\ Deactivate /\ outbox' = {}
      /\ haveGood' = FALSE /\ unavailable' = FALSE /\ remove' = NoRemove /\ configEvent' = FALSE
  BY DEF Crash
<1>2. IndexesSound' /\ Control' /\ WakeupRight'
  BY <1>1, DeactivateRight DEF world
<1>3. TypeOK'
  BY <1>1, <1>2 DEF Inv, TypeOK, Deactivate, StopWatch, world, IndexesSound, SoundIndex
<1> QED
  BY <1>2, <1>3 DEF Inv

---------------------------------------------------------------------------
(* Theorems.                                                               *)

\* The inductive invariant: no step of the loop, of its clients or of the world
\* around it breaks it.
THEOREM Invariance == Spec => []Inv
<1>1. Inv /\ [Next]_vars => Inv'
  <2> SUFFICES ASSUME Inv, [Next]_vars PROVE Inv'
    OBVIOUS
  <2>1. CASE Loop
    BY <2>1, IdleInv, KeepLastKnownGoodInv, NoChangeInv, SettingsRederivedInv, ActivateInv,
       ArmInv, HandleBatchInv, TickInv, RemoveApplyInv, SendInv DEF Loop
  <2>2. CASE Requests
    BY <2>2, SnoozeInv, RemoveWorkerInv DEF Requests
  <2>3. CASE World
    BY <2>3, AdvanceInv, EditNoteInv, WriteConfigInv, MountChangeInv, WatchErrorInv,
       CorruptIndexInv, CrashInv, RestartInv DEF World
  <2>4. CASE UNCHANGED vars
    <3>1. UNCHANGED <<world, configEvent, daemon, indexDisk, watch, remove, history>>
      BY <2>4 DEF vars
    <3>2. TypeOK'
      BY <3>1 DEF Inv, TypeOK, world, daemon, watch, history
    <3>3. IndexesSound' /\ Control' /\ WakeupRight'
      BY <3>1, Aside DEF world, daemon
    <3> QED
      BY <3>2, <3>3 DEF Inv
  <2> QED
    BY <2>1, <2>2, <2>3, <2>4 DEF Next
<1> QED
  BY <1>1, InitInv, PTL DEF Spec

\* The type of the daemon, for every vault, note, setting and fault.
THEOREM TypeCorrect == Spec => []TypeOK
<1>1. Inv => TypeOK
  BY DEF Inv
<1> QED
  BY <1>1, Invariance, PTL

\* State and fire-guard of every reminder agree (scheduler.rs:27-29), although
\* snoozes, ticks, settings changes, merges and restarts all rewrite both.
THEOREM ArmedCanAlwaysFire == Spec => []ArmedCanFire
<1>1. Inv => ArmedCanFire
  BY DEF Inv, IndexesSound, SoundIndex, Sound, ArmedCanFire
<1> QED
  BY <1>1, Invariance, PTL

\* The loop never sleeps past the fire time of an armed reminder (daemon.rs:105-107).
THEOREM WakeupAlwaysCovers == Spec => []WakeupCoversArmed
<1>1. Inv => WakeupCoversArmed
  BY DEF Inv, WakeupRight, Covered, WakeupCoversArmed
<1> QED
  BY <1>1, Invariance, PTL
=============================================================================
