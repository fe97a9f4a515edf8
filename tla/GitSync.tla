------------------------------ MODULE GitSync ------------------------------
(***************************************************************************)
(* When the desktop app syncs a vault: the status it shows, autosync,      *)
(* startup sync, manual sync, polling of the remote and sync on close      *)
(* (apps/desktop/src: shell/useAppGitSyncOrchestration.ts,                 *)
(* shell/useAppOsCloseSync.ts, hooks/useVaultGit*.ts,                      *)
(* hooks/useManualVaultGitSync.ts, lib/manualSyncClose.ts,                 *)
(* lib/gitSyncPreflight.ts), around the engine of GitEngine.               *)
(*                                                                         *)
(* One vault on one branch; times are abstracted to their order: the 500   *)
(* ms debounce of a status refresh ends before a change is the 60 s old    *)
(* that autosync asks for.                                                 *)
(***************************************************************************)
EXTENDS GitEngine

VARIABLES
  typed,       \* changes in the editor that are not saved
  mine,        \* history: changes the app has saved in this session
  pendingSync, \* pendingGenerationRef # syncedGenerationRef
  newer,       \* pendingGenerationRef has moved since autosync began
  fresh,       \* gitStatusRevision > pendingStatusRevisionRef
  refreshDue,  \* the debounced status refresh after a save
  asking,      \* the last status request: none, sent, or read by Git
  answer,      \* what Git read for it
  status,      \* gitStatus
  loading,     \* gitStatusLoading
  statusError, \* gitStatusError
  polling,     \* a remote status request runs
  startup,     \* the startup sync waits for the first poll, is due or done
  run,         \* the sync that runs, by what asked for it
  phase,       \* where it is
  closing,     \* the window: open, waiting for a sync, leaving, closed
  closeOf,     \* history: changes made when the last close was asked for
  unsure,      \* history: that close did not sync by itself
  slow         \* history: pending work was cleared under an unanswered request

statusVars == <<asking, answer, status, loading, statusError>>
autoVars   == <<mine, pendingSync, newer, fresh, refreshDue, slow>>
runVars    == <<run, phase, startup>>
closeVars  == <<closing, closeOf, unsure>>
syncVars   == <<engineVars, typed, autoVars, statusVars, polling, runVars, closeVars>>

NoStatus == [known |-> FALSE, dirty |-> FALSE, staged |-> FALSE, ahead |-> FALSE,
             behind |-> FALSE, unsafe |-> FALSE]

(* git_status never fetches: ahead and behind are against the tracking ref. *)
StatusNow ==
  [known |-> TRUE, dirty |-> work # head, staged |-> index # {},
   ahead |-> head \ tracked # {}, behind |-> tracked \ head # {},
   unsafe |-> standing # {} \/ locked]

Statuses == [known : BOOLEAN, dirty : BOOLEAN, staged : BOOLEAN, ahead : BOOLEAN,
             behind : BOOLEAN, unsafe : BOOLEAN]

Askers == {"manual", "auto", "startup", "close"}

SyncTypeOK ==
  /\ EngineTypeOK
  /\ typed \subseteq LocalChanges /\ mine \subseteq LocalChanges
  /\ pendingSync \in BOOLEAN /\ newer \in BOOLEAN /\ fresh \in BOOLEAN
  /\ refreshDue \in BOOLEAN
  /\ asking \in {"no", "sent", "read"}
  /\ answer \in Statuses /\ status \in Statuses
  /\ loading \in BOOLEAN /\ statusError \in BOOLEAN
  /\ polling \in BOOLEAN
  /\ startup \in {"waiting", "due", "done"}
  /\ run \in {"none"} \cup Askers
  /\ phase \in {"none", "flush", "check", "begin", "git"}
  /\ closing \in {"open", "waiting", "leaving", "closed"}
  /\ closeOf \subseteq LocalChanges \cup RemoteChanges
  /\ unsure \in BOOLEAN /\ slow \in BOOLEAN

(* A session begins: the first status request is sent, nothing is pending. *)
(* What the app keeps in memory goes with the session.                     *)
SessionStart ==
  /\ typed' = {} /\ mine' = {}
  /\ pendingSync' = FALSE /\ newer' = FALSE /\ fresh' = FALSE /\ refreshDue' = FALSE
  /\ asking' = "sent" /\ answer' = NoStatus
  /\ status' = NoStatus /\ loading' = TRUE /\ statusError' = FALSE
  /\ polling' = FALSE /\ startup' = "waiting"
  /\ run' = "none" /\ phase' = "none"
  /\ slow' = FALSE

StaysOpen == closing' = "open" /\ closeOf' = {} /\ unsure' = FALSE

SyncInit ==
  /\ EngineInit
  /\ typed = {} /\ mine = {}
  /\ pendingSync = FALSE /\ newer = FALSE /\ fresh = FALSE /\ refreshDue = FALSE
  /\ asking = "sent" /\ answer = NoStatus
  /\ status = NoStatus /\ loading = TRUE /\ statusError = FALSE
  /\ polling = FALSE /\ startup = "waiting"
  /\ run = "none" /\ phase = "none"
  /\ closing = "open" /\ closeOf = {} /\ unsure = FALSE
  /\ slow = FALSE

Running == closing # "closed"

-----------------------------------------------------------------------------
(* Typing and saving.                                                      *)

TypeChange(c) ==
  /\ Running
  /\ c \in LocalChanges \ (work \cup typed \cup mine)
  /\ typed' = typed \cup {c}
  /\ UNCHANGED <<engineVars, autoVars, statusVars, polling, runVars, closeVars>>

(* A save moves the pending generation, and the status is refreshed soon;  *)
(* a vault that is written to is not synced by the startup sync.           *)
Saves ==
  /\ work' = work \cup typed
  /\ typed' = {}
  /\ IF typed = {} THEN UNCHANGED <<autoVars, startup>>
     ELSE /\ mine' = mine \cup typed
          /\ pendingSync' = TRUE /\ newer' = TRUE /\ fresh' = FALSE
          /\ refreshDue' = TRUE
          /\ startup' = "done"
          /\ slow' = slow
  /\ UNCHANGED <<index, head, tracked, origin, unsafeVars, snapshots, before,
                 faults, upset>>

SaveNote ==
  /\ Running /\ typed # {}
  /\ Saves
  /\ UNCHANGED <<engine, statusVars, polling, run, phase, closeVars>>

OtherProgram(c) ==
  /\ c \notin typed \cup mine
  /\ WriteFile(c)
  /\ UNCHANGED <<typed, autoVars, statusVars, polling, runVars, closeVars>>

OtherDevice(c) ==
  /\ PushElsewhere(c)
  /\ UNCHANGED <<typed, autoVars, statusVars, polling, runVars, closeVars>>

ByHand ==
  /\ LockRemoved
  /\ UNCHANGED <<typed, autoVars, statusVars, polling, runVars, closeVars>>

-----------------------------------------------------------------------------
(* The status.  Only the answer to the last request counts.                *)

Ask(silently) ==
  /\ asking' = "sent"
  /\ loading' = (loading \/ ~silently \/ ~status.known)
  /\ statusError' = FALSE
  /\ UNCHANGED <<answer, status>>

RefreshAfterSave ==
  /\ Running /\ refreshDue
  /\ refreshDue' = FALSE
  /\ Ask(TRUE)
  /\ UNCHANGED <<engineVars, typed, mine, pendingSync, newer, fresh, slow, polling,
                 runVars, closeVars>>

StatusRead ==
  /\ Running /\ asking = "sent"
  /\ asking' = "read" /\ answer' = StatusNow
  /\ UNCHANGED <<engineVars, typed, autoVars, status, loading, statusError, polling,
                 runVars, closeVars>>

StatusAnswer ==
  /\ Running /\ asking = "read"
  /\ asking' = "no" /\ answer' = NoStatus
  /\ status' = answer /\ loading' = FALSE /\ statusError' = FALSE
  /\ fresh' = TRUE
  /\ UNCHANGED <<engineVars, typed, mine, pendingSync, newer, refreshDue, slow,
                 polling, runVars, closeVars>>

StatusFails ==
  /\ Running /\ asking # "no"
  /\ faults < MaxFaults /\ faults' = faults + 1
  /\ asking' = "no" /\ answer' = NoStatus
  /\ loading' = FALSE /\ statusError' = TRUE
  /\ fresh' = TRUE
  /\ UNCHANGED <<repoVars, snapshots, engine, before, upset, typed, mine, pendingSync,
                 newer, refreshDue, slow, status, polling, runVars, closeVars>>

(* A poll of the remote, on open, every five minutes, and when the window  *)
(* is shown: not while a sync runs (one may start while it runs).          *)
PollStart ==
  /\ Running /\ run = "none" /\ ~polling
  /\ polling' = TRUE
  /\ UNCHANGED <<engineVars, typed, autoVars, statusVars, runVars, closeVars>>

PollFinish ==
  /\ Running /\ polling
  /\ polling' = FALSE
  /\ startup' = IF startup = "waiting" THEN "due" ELSE startup
  /\ \/ RemoteStatus /\ Ask(TRUE)
     \/ /\ faults < MaxFaults /\ faults' = faults + 1
        /\ UNCHANGED <<repoVars, snapshots, engine, before, upset, statusVars>>
  /\ UNCHANGED <<typed, autoVars, run, phase, closeVars>>

-----------------------------------------------------------------------------
(* Whether to sync.                                                        *)

LocalWork(s)   == s.dirty \/ s.staged
ShouldSync(s, pulls) ==
  /\ s.known /\ ~s.unsafe
  /\ LocalWork(s) \/ s.ahead \/ (s.behind /\ pulls)
CleanSynced(s) ==
  s.known /\ ~s.unsafe /\ ~LocalWork(s) /\ ~s.ahead /\ ~s.behind

(* getManualSyncDisabledReason *)
Disabled ==
  run # "none" \/ loading \/ statusError \/ status.unsafe \/ status.staged

Begin(asker) ==
  /\ run' = asker /\ phase' = "flush"

SyncManual ==
  /\ closing = "open" /\ ~Disabled
  /\ Begin("manual")
  /\ UNCHANGED <<engineVars, typed, autoVars, statusVars, polling, startup, closeVars>>

SyncAtStartup ==
  /\ closing = "open" /\ startup = "due" /\ ~Disabled
  /\ ShouldSync(status, TRUE)
  /\ startup' = "done"
  /\ Begin("startup")
  /\ UNCHANGED <<engineVars, typed, autoVars, statusVars, polling, closeVars>>

AutosyncReady ==
  /\ Running
  /\ pendingSync /\ ~Disabled /\ ~polling
  /\ ~refreshDue

Autosync ==
  /\ AutosyncReady
  /\ ShouldSync(status, FALSE)
  /\ newer' = FALSE
  /\ Begin("auto")
  /\ UNCHANGED <<engineVars, typed, mine, pendingSync, fresh, refreshDue, slow,
                 statusVars, polling, startup, closeVars>>

(* A clean status that is newer than the last save clears pending work. *)
AutosyncClears ==
  /\ AutosyncReady
  /\ CleanSynced(status) /\ fresh
  /\ pendingSync' = FALSE
  /\ slow' = (slow \/ asking # "no")
  /\ UNCHANGED <<engineVars, typed, mine, newer, fresh, refreshDue, statusVars,
                 polling, runVars, closeVars>>

-----------------------------------------------------------------------------
(* A sync: the note in the editor is saved, a sync for a close looks at the *)
(* status once more, the engine runs.                                      *)

FlushFirst ==
  /\ Running /\ phase = "flush"
  /\ Saves
  /\ phase' = IF run = "close" THEN "check" ELSE "begin"
  /\ UNCHANGED <<engine, statusVars, polling, run, closeVars>>

EndsWith(success) ==
  /\ run' = "none" /\ phase' = "none"
  /\ IF closing # "waiting" THEN UNCHANGED closeVars
     ELSE IF success THEN closing' = "leaving" /\ UNCHANGED <<closeOf, unsure>>
     ELSE StaysOpen

\* Mutant of StatusForClose: the status shown is used.
StatusShown(failed) == status

(* If the fresh status cannot be read, the one shown is used.  A status     *)
(* with a merge that stands asks for no sync: the window closes without.   *)
StatusForClose(failed) == IF failed THEN status ELSE StatusNow

CheckForClose ==
  /\ Running /\ phase = "check"
  /\ \E failed \in BOOLEAN :
       /\ failed => faults < MaxFaults
       /\ faults' = IF failed THEN faults + 1 ELSE faults
       /\ IF ShouldSync(StatusForClose(failed), FALSE)
          THEN phase' = "begin" /\ UNCHANGED <<run, closing, closeOf>>
          ELSE /\ run' = "none" /\ phase' = "none" /\ closeOf' = closeOf
               /\ closing' = IF closing = "waiting" THEN "leaving" ELSE closing
       /\ unsure' = (unsure \/ (closing = "waiting"
                                  /\ (failed \/ StatusForClose(failed).unsafe)))
  /\ UNCHANGED <<repoVars, snapshots, engine, before, upset, typed, autoVars,
                 statusVars, polling, startup>>

SyncBegins ==
  /\ Running /\ phase = "begin"
  /\ RunStart
  /\ phase' = "git"
  /\ UNCHANGED <<typed, autoVars, statusVars, polling, run, startup, closeVars>>

EngineWorks ==
  /\ EngineStep
  /\ UNCHANGED <<typed, autoVars, statusVars, polling, runVars, closeVars>>

\* Mutant of Synced: what was saved meanwhile is forgotten too.
SyncedAll == run = "auto" /\ engine = "ok"

(* Autosync forgets the work it has synced, if nothing was saved meanwhile. *)
Synced == run = "auto" /\ engine = "ok" /\ ~newer

(* The run ends and the status is asked for. *)
SyncEnds ==
  /\ Running /\ phase = "git"
  /\ RunEnd
  /\ Ask(FALSE)
  /\ pendingSync' = (pendingSync /\ ~Synced)
  /\ EndsWith(engine = "ok")
  /\ UNCHANGED <<typed, mine, newer, fresh, refreshDue, slow, polling, startup>>

-----------------------------------------------------------------------------
(* Closing the window.                                                     *)

(* The close button waits for a sync that runs (the close of the window    *)
(* manager is refused then); else a sync for the close is started.         *)
CloseWindow ==
  /\ closing = "open"
  /\ closeOf' = work \cup typed
  /\ closing' = "waiting"
  /\ \/ run # "none" /\ unsure' = TRUE /\ UNCHANGED runVars
     \/ ~Disabled /\ unsure' = FALSE /\ Begin("close") /\ startup' = startup
  /\ UNCHANGED <<engineVars, typed, autoVars, statusVars, polling>>

CloseTimeout ==
  /\ closing = "waiting"
  /\ StaysOpen
  /\ UNCHANGED <<engineVars, typed, autoVars, statusVars, polling, runVars>>

CloseInstant ==
  /\ closing \in {"open", "waiting"}
  /\ closing' = "leaving" /\ closeOf' = work \cup typed /\ unsure' = TRUE
  /\ UNCHANGED <<engineVars, typed, autoVars, statusVars, polling, runVars>>

(* The note is saved and the window destroyed; a run of the engine dies.   *)
Shutdown ==
  /\ closing = "leaving" /\ typed = {}
  /\ EngineDies
  /\ SessionStart
  /\ closing' = "closed"
  /\ UNCHANGED <<faults, closeOf, unsure>>

(* The app is killed, or opened again after it was closed. *)
Killed ==
  /\ Running /\ Crash
  /\ SessionStart /\ StaysOpen

Reopened ==
  /\ closing = "closed" /\ faults < MaxFaults
  /\ faults' = faults + 1
  /\ SessionStart /\ StaysOpen
  /\ UNCHANGED <<repoVars, snapshots, engine, before, upset>>

-----------------------------------------------------------------------------
SyncNext ==
  \/ \E c \in LocalChanges : TypeChange(c)
  \/ \E c \in LocalChanges : OtherProgram(c)
  \/ \E c \in RemoteChanges : OtherDevice(c)
  \/ SaveNote \/ ByHand
  \/ RefreshAfterSave \/ StatusRead \/ StatusAnswer \/ StatusFails
  \/ PollStart \/ PollFinish
  \/ SyncManual \/ SyncAtStartup \/ Autosync \/ AutosyncClears
  \/ FlushFirst \/ CheckForClose \/ SyncBegins \/ EngineWorks \/ SyncEnds
  \/ CloseWindow \/ CloseTimeout \/ CloseInstant \/ Shutdown
  \/ Killed \/ Reopened

SyncSpec == SyncInit /\ [][SyncNext]_syncVars

-----------------------------------------------------------------------------
(* What the app has saved and the shared branch does not have is pending:  *)
(* autosync forgets no save, whatever answers, saves and runs overlap.  The *)
(* exception is a status request that takes longer than a change has to    *)
(* wait (slow).                                                            *)
AutosyncRemembers ==
  ~slow /\ ~((mine \cap work) \subseteq origin) /\ Running => pendingSync

(* A window that closed after a sync of its own leaves nothing unsynced of *)
(* what had been typed or saved when the close was asked for.  (unsure: it *)
(* waited for the sync of another asker or was told to close at once, or   *)
(* its look at the status failed or found a merge that stands.)            *)
CloseLeavesNothing ==
  closing = "closed" /\ ~unsure => closeOf \subseteq origin
=============================================================================
