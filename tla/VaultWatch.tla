----------------------------- MODULE VaultWatch -----------------------------
(***************************************************************************)
(* The file watcher that the desktop app and the reminder daemon share     *)
(* (crates/eskerra-vault-watch): two backends notice changes under one     *)
(* vault root, a debouncer thread turns their signals into batches and     *)
(* drops what the other backend has reported already, and the consumer     *)
(* reads the paths of each batch.                                          *)
(*                                                                         *)
(* A file is the number of its last change, Missing when there is none:    *)
(* every change shows in length and modification time.  The signals that   *)
(* wait in the operating system and in the channel are one set: no order   *)
(* between backends, and one signal for several changes.                   *)
(***************************************************************************)
EXTENDS Naturals, FiniteSets

CONSTANTS
  Vaults,          \* vault roots
  Paths,           \* files in them
  VaultOf,         \* VaultOf[p]: the vault of path p
  NoVault,         \* no root is watched
  MaxEdits,        \* bound on the changes of files
  MaxSessions      \* bound on the watch sessions

ASSUME WatchAssumption ==
  /\ NoVault \notin Vaults
  /\ VaultOf \in [Paths -> Vaults]
  /\ MaxEdits \in Nat /\ MaxSessions \in Nat

VARIABLES
  onDisk,          \* file of each path
  edits,           \* number of changes so far
  known,           \* what the consumer last read of each path
  activeSession,   \* active_session_id
  watchedRoot,     \* the root the watchers of the active session are armed on
  pollOn,          \* the poll backend was created
  polled,          \* file of each path at the last poll
  signals,         \* signals not received by the debouncer
  batch,           \* the batch the debouncer is at
  reported,        \* recent_emissions: fingerprint
  reporters,       \* recent_emissions: backends, {} for no entry
  unread,          \* batches the consumer has not read
  blind            \* history: paths whose last deletion no signal may show

diskVars     == <<onDisk, edits>>
watcherVars  == <<activeSession, watchedRoot, pollOn>>
recentVars   == <<reported, reporters>>
consumerVars == <<known, unread>>
watchVars == <<diskVars, consumerVars, watcherVars, polled, signals, batch, recentVars,
               blind>>

Missing  == 0
Backends == {"recommended", "poll"}
Sources  == [Paths -> SUBSET Backends]

\* VaultWatchSignal; one without paths is a coarse one.
Signals == [session : Nat, backend : Backends, paths : SUBSET Paths]
Signal(s, b, paths) == [session |-> s, backend |-> b, paths |-> paths]
CoarseSignal(s)     == Signal(s, "recommended", {})

\* An empty batch: no paths, path_backends and coarse_reason.
NoSources == [p \in Paths |-> {}]
EmptyBatch(phase, session) ==
  [phase |-> phase, session |-> session, sources |-> NoSources, coarse |-> FALSE]
NoBatch   == EmptyBatch("idle", 0)
Named(b)  == {p \in Paths : b.sources[p] # {}}

Notices  == [paths : SUBSET Paths, coarse : BOOLEAN]
Batches  == [phase : {"idle", "collecting", "checked"}, session : Nat,
             sources : Sources, coarse : BOOLEAN]

WatchTypeOK ==
  /\ onDisk \in [Paths -> Nat] /\ edits \in Nat
  /\ known \in [Paths -> Nat] /\ unread \subseteq Notices
  /\ activeSession \in Nat /\ watchedRoot \in Vaults \cup {NoVault} /\ pollOn \in BOOLEAN
  /\ polled \in [Paths -> Nat]
  /\ signals \subseteq Signals
  /\ batch \in Batches
  /\ reported \in [Paths -> Nat] /\ reporters \in Sources
  /\ blind \subseteq Paths

WatchInit ==
  /\ onDisk = [p \in Paths |-> Missing] /\ edits = 0
  /\ known = [p \in Paths |-> Missing] /\ unread = {}
  /\ activeSession = 0 /\ watchedRoot = NoVault /\ pollOn = FALSE
  /\ polled = [p \in Paths |-> Missing]
  /\ signals = {} /\ batch = NoBatch
  /\ reported = [p \in Paths |-> Missing] /\ reporters = NoSources
  /\ blind = {}

-----------------------------------------------------------------------------
(* The files, and what the backends notice of them.                        *)

Watched(p) == VaultOf[p] = watchedRoot

\* A change is signalled at once by the native backend, unless the file
\* system tells it nothing: then the poll has to find it.
Noticed(p) ==
  \/ Watched(p) /\ signals' = signals \cup {Signal(activeSession, "recommended", {p})}
  \/ (Watched(p) => pollOn) /\ signals' = signals

\* A program writes a file.
Edit(p) ==
  /\ edits < MaxEdits
  /\ edits' = edits + 1
  /\ onDisk' = [onDisk EXCEPT ![p] = edits']
  /\ Noticed(p)
  /\ blind' = blind \ {p}
  /\ UNCHANGED <<consumerVars, watcherVars, polled, batch, recentVars>>

\* A program deletes a file.  All its absences look alike: to the poll when
\* it has not seen the file in between, to the debouncer while the report of
\* the last one is recent.
Remove(p) ==
  /\ onDisk[p] # Missing
  /\ onDisk' = [onDisk EXCEPT ![p] = Missing]
  /\ Noticed(p)
  /\ blind' = IF \/ polled[p] = Missing /\ signals' = signals
                 \/ reporters[p] # {} /\ reported[p] = Missing
              THEN blind \cup {p} ELSE blind
  /\ UNCHANGED <<edits, consumerVars, watcherVars, polled, batch, recentVars>>

\* The poll compares what stat returns with the last time.
PollScan(p) ==
  /\ pollOn /\ Watched(p)
  /\ polled[p] # onDisk[p]
  /\ polled' = [polled EXCEPT ![p] = onDisk[p]]
  /\ signals' = signals \cup {Signal(activeSession, "poll", {p})}
  /\ UNCHANGED <<diskVars, consumerVars, watcherVars, batch, recentVars, blind>>

\* A backend fails, or the queue of the native one overflows: its signals
\* may be lost, and an error or an event without paths takes their place.
BackendError ==
  /\ watchedRoot # NoVault
  /\ CoarseSignal(activeSession) \notin signals
  /\ \E lost \in {{}, {s \in signals : s.backend = "recommended"}} :
       signals' = (signals \ lost) \cup {CoarseSignal(activeSession)}
  /\ UNCHANGED <<diskVars, consumerVars, watcherVars, polled, batch, recentVars, blind>>

-----------------------------------------------------------------------------
(* The engine's calls.                                                     *)

\* The watchers, what the poll has seen among it, are dropped.
Unwatched ==
  /\ watchedRoot' = NoVault /\ pollOn' = FALSE
  /\ polled' = [p \in Paths |-> Missing]

\* start_watching: the old watchers are dropped and the session changes;
\* without a native watcher the call fails, a poll that cannot be created or
\* a root that is missing only leave a coarse signal.  The consumer reads
\* the vault when it is watched.
StartWatching(v) ==
  /\ activeSession < MaxSessions
  /\ activeSession' = activeSession + 1
  /\ \/ /\ Unwatched
        /\ signals' \in {signals, signals \cup {CoarseSignal(activeSession')}}
        /\ UNCHANGED <<known, blind>>
     \/ /\ watchedRoot' = v
        /\ \/ pollOn' = TRUE /\ signals' = signals
           \/ pollOn' = FALSE /\ signals' = signals \cup {CoarseSignal(activeSession')}
        /\ polled' = [p \in Paths |->
             IF VaultOf[p] = v /\ pollOn' THEN onDisk[p] ELSE Missing]
        /\ known' = [p \in Paths |-> IF VaultOf[p] = v THEN onDisk[p] ELSE known[p]]
        /\ blind' = {p \in blind : VaultOf[p] # v}
  /\ UNCHANGED <<diskVars, batch, recentVars, unread>>

Stop ==
  /\ activeSession < MaxSessions
  /\ activeSession' = activeSession + 1
  /\ Unwatched
  /\ UNCHANGED <<diskVars, consumerVars, signals, batch, recentVars, blind>>

-----------------------------------------------------------------------------
(* The debouncer thread.                                                   *)

\* apply_watch_signal
Applied(b, signal) ==
  [phase |-> b.phase, session |-> b.session,
   sources |-> [p \in Paths |->
      b.sources[p] \cup {c \in {signal.backend} : p \in signal.paths}],
   coarse |-> b.coarse \/ signal.paths = {}]

\* Mutant of Restarted: the paths and backends collected so far are kept.
RestartedUncleared(b, signal) ==
  Applied([b EXCEPT !.phase = "collecting", !.session = signal.session], signal)

Restarted(b, signal) ==
  Applied(EmptyBatch("collecting", signal.session), signal)

\* A signal received may stand for one of several: then it stays.
Receive1(signal) ==
  /\ signal \in signals
  /\ signals' \in {signals, signals \ {signal}}

ReceiveFirst(signal) ==
  /\ batch.phase = "idle"
  /\ Receive1(signal)
  /\ batch' = IF signal.session = activeSession THEN Restarted(batch, signal) ELSE batch
  /\ UNCHANGED <<diskVars, consumerVars, watcherVars, polled, recentVars, blind>>

\* A signal of another session restarts the batch when that session is the
\* active one, and is dropped when it is not.
ReceiveMore(signal) ==
  /\ batch.phase = "collecting"
  /\ Receive1(signal)
  /\ batch' = IF signal.session = batch.session THEN Applied(batch, signal)
              ELSE IF signal.session = activeSession THEN Restarted(batch, signal)
              ELSE batch
  /\ UNCHANGED <<diskVars, consumerVars, watcherVars, polled, recentVars, blind>>

\* No signal for the debounce time, or the batch is as old as it may be.
CloseBatch ==
  /\ batch.phase = "collecting"
  /\ batch' = IF batch.session = activeSession THEN [batch EXCEPT !.phase = "checked"]
              ELSE NoBatch
  /\ UNCHANGED <<diskVars, consumerVars, watcherVars, polled, signals, recentVars, blind>>

\* Mutant of Echo: the fingerprint is not compared.
EchoOfPath(p) == reporters[p] # {} /\ reporters[p] \cap batch.sources[p] = {}

\* is_recent_duplicate: only the other backend reported the path, as it is now.
Echo(p) ==
  /\ reporters[p] # {} /\ reported[p] = onDisk[p]
  /\ reporters[p] \cap batch.sources[p] = {}

\* dedupe_recent_precise_payload, then on_batch.
Emit ==
  /\ batch.phase = "checked"
  /\ LET kept == {p \in Named(batch) : batch.coarse \/ ~Echo(p)} IN
       /\ reported' = [p \in Paths |-> IF p \in kept THEN onDisk[p] ELSE reported[p]]
       /\ reporters' = [p \in Paths |-> IF p \in kept THEN batch.sources[p]
                                                       ELSE reporters[p]]
       /\ unread' = IF kept = {} /\ ~batch.coarse THEN unread
                    ELSE unread \cup {[paths |-> kept, coarse |-> batch.coarse]}
  /\ batch' = NoBatch
  /\ UNCHANGED <<diskVars, known, watcherVars, polled, signals, blind>>

\* An entry of recent_emissions is older than the dedup window.
Expire(p) ==
  /\ reporters[p] # {}
  /\ reporters' = [reporters EXCEPT ![p] = {}]
  /\ reported' = [reported EXCEPT ![p] = Missing]
  /\ UNCHANGED <<diskVars, consumerVars, watcherVars, polled, signals, batch, blind>>

-----------------------------------------------------------------------------
(* The consumer reads the paths of a batch, of a coarse one the vault.     *)

Covers(notice, p) == p \in notice.paths \/ (notice.coarse /\ Watched(p))

ReadBatch(notice) ==
  /\ unread' = unread \ {notice}
  /\ known' = [p \in Paths |-> IF Covers(notice, p) THEN onDisk[p] ELSE known[p]]
  /\ UNCHANGED <<diskVars, watcherVars, polled, signals, batch, recentVars, blind>>

-----------------------------------------------------------------------------
WatchNext ==
  \/ \E p \in Paths : Edit(p) \/ Remove(p) \/ PollScan(p) \/ Expire(p)
  \/ BackendError
  \/ \E v \in Vaults : StartWatching(v)
  \/ Stop
  \/ \E signal \in signals : ReceiveFirst(signal) \/ ReceiveMore(signal)
  \/ CloseBatch
  \/ Emit
  \/ \E notice \in unread : ReadBatch(notice)

WatchSpec == WatchInit /\ [][WatchNext]_watchVars

-----------------------------------------------------------------------------
(* Somebody will still tell the consumer of p. *)
Signalled(p) ==
  \E s \in signals : s.session = activeSession /\ (s.paths = {} \/ p \in s.paths)
Collected(p) ==
  /\ batch.phase # "idle" /\ batch.session = activeSession
  /\ batch.coarse \/ p \in Named(batch)
Unread(p)   == \E notice \in unread : Covers(notice, p)
Unpolled(p) == pollOn /\ polled[p] # onDisk[p]

(* What the consumer knows of a watched file is what is on disk, or a signal, *)
(* a batch or the next poll will tell it otherwise: neither the debouncer's   *)
(* sessions (collect_debounced_payload) nor the removal of the other          *)
(* backend's echoes (dedupe_recent_precise_payload) lose a change, whatever   *)
(* the order of signals, edits and reads, and of errors.  Excused are files   *)
(* deleted again while no signal may show it.                                 *)
NothingMissed ==
  \A p \in Paths :
    Watched(p) /\ known[p] # onDisk[p] /\ ~(p \in blind /\ onDisk[p] = Missing) =>
      Signalled(p) \/ Collected(p) \/ Unread(p) \/ Unpolled(p)

(* A batch names paths of one vault only, the one its session watched        *)
(* (lib.rs:16-18): also when the vault is switched while a batch is          *)
(* collected and signals of both sessions arrive in any order.               *)
OneVaultPerBatch ==
  \A notice \in unread \cup {[paths |-> Named(batch), coarse |-> batch.coarse]} :
    \A p, q \in notice.paths : VaultOf[p] = VaultOf[q]
=============================================================================
