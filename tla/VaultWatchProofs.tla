-------------------------- MODULE VaultWatchProofs --------------------------
(***************************************************************************)
(* Theorems about VaultWatch, for any vaults, paths, edits and sessions.   *)
(***************************************************************************)
EXTENDS VaultWatch, TLAPS

(* A change has a number of its own. *)
Fresh ==
  \A p \in Paths : onDisk[p] <= edits /\ reported[p] <= edits /\ polled[p] <= edits

Excused(p) == p \in blind /\ onDisk[p] = Missing

(* What was reported as it is now has been read, or is in an unread batch. *)
RecentKnown ==
  \A p \in Paths :
    /\ Watched(p) /\ ~Excused(p)
    /\ reporters[p] # {} /\ reported[p] = onDisk[p]
    => known[p] = onDisk[p] \/ Unread(p)

WatchInv == WatchTypeOK /\ Fresh /\ RecentKnown /\ NothingMissed

LEMMA SourcesType ==
  /\ NoSources \in Sources /\ NoBatch \in Batches
  /\ \A q \in Paths : NoSources[q] = {}
BY DEF NoSources, NoBatch, EmptyBatch, Sources, Batches

(* The inductive invariant holds before anything is watched. *)
THEOREM WatchInitInv == WatchInit => WatchInv
<1> SUFFICES ASSUME WatchInit PROVE WatchInv
  OBVIOUS
<1>1. WatchTypeOK
  BY SourcesType DEF WatchInit, WatchTypeOK, Missing, Sources, NoSources
<1>2. Fresh
  BY DEF WatchInit, Fresh, Missing
<1>3. RecentKnown /\ NothingMissed
  BY DEF WatchInit, RecentKnown, NothingMissed, Missing, NoSources
<1>4. QED
  BY <1>1, <1>2, <1>3 DEF WatchInv

-----------------------------------------------------------------------------
(* The types.                                                              *)

LEMMA SignalType ==
  ASSUME NEW s \in Nat, NEW b \in Backends, NEW paths \in SUBSET Paths
  PROVE  /\ Signal(s, b, paths) \in Signals
         /\ CoarseSignal(s) \in Signals
         /\ Signal(s, b, paths).session = s
         /\ Signal(s, b, paths).backend = b
         /\ Signal(s, b, paths).paths = paths
         /\ CoarseSignal(s).session = s
         /\ CoarseSignal(s).paths = {}
BY DEF Signal, CoarseSignal, Signals, Backends

(* What the operators on batches give. *)
LEMMA AppliedType ==
  ASSUME NEW b \in Batches, NEW signal \in Signals
  PROVE  LET a == Applied(b, signal) IN
         /\ a \in Batches
         /\ a.phase = b.phase /\ a.session = b.session
         /\ a.coarse = (b.coarse \/ signal.paths = {})
         /\ Named(a) = Named(b) \cup signal.paths
<1> DEFINE sources == [p \in Paths |->
             b.sources[p] \cup {c \in {signal.backend} : p \in signal.paths}]
<1>1. Applied(b, signal) =
        [phase |-> b.phase, session |-> b.session, sources |-> sources,
         coarse |-> b.coarse \/ signal.paths = {}]
  BY DEF Applied
<1>2. sources \in Sources
  BY DEF Sources, Batches, Signals
<1>3. \A p \in Paths : sources[p] # {} <=> b.sources[p] # {} \/ p \in signal.paths
  BY DEF Signals
<1>4. signal.paths \subseteq Paths
  BY DEF Signals
<1> HIDE DEF sources
<1>5. Applied(b, signal) \in Batches
  BY <1>1, <1>2 DEF Batches
<1>6. Named(Applied(b, signal)) = Named(b) \cup signal.paths
  BY <1>1, <1>3, <1>4 DEF Named
<1>7. QED
  BY <1>1, <1>5, <1>6

LEMMA RestartedType ==
  ASSUME NEW b, NEW signal \in Signals
  PROVE  LET a == Restarted(b, signal) IN
         /\ a \in Batches
         /\ a.phase = "collecting" /\ a.session = signal.session
         /\ a.coarse = (signal.paths = {})
         /\ Named(a) = signal.paths
<1> DEFINE new == EmptyBatch("collecting", signal.session)
<1>1. new.phase = "collecting" /\ new.session = signal.session /\ new.coarse = FALSE
  BY DEF EmptyBatch
<1>2. new \in Batches
  BY SourcesType DEF EmptyBatch, Batches, Signals
<1>3. Named(new) = {}
  BY SourcesType DEF EmptyBatch, Named
<1>4. Restarted(b, signal) = Applied(new, signal)
  BY DEF Restarted
<1>5. QED
  <2> HIDE DEF new
  <2>1. QED
    BY <1>1, <1>2, <1>3, <1>4, AppliedType

LEMMA NoticedType ==
  ASSUME NEW p \in Paths, WatchTypeOK, Noticed(p)
  PROVE  signals' \subseteq Signals /\ signals \subseteq signals'
<1>1. Signal(activeSession, "recommended", {p}) \in Signals
  BY SignalType DEF WatchTypeOK, Backends
<1>2. QED
  BY <1>1 DEF WatchTypeOK, Noticed

LEMMA WatchTypeStep ==
  ASSUME WatchTypeOK, [WatchNext]_watchVars
  PROVE  WatchTypeOK'
<1> USE DEF WatchTypeOK, diskVars, watcherVars, recentVars, consumerVars
<1>1. ASSUME NEW p \in Paths, Edit(p) PROVE WatchTypeOK'
  BY <1>1, NoticedType DEF Edit
<1>2. ASSUME NEW p \in Paths, Remove(p) PROVE WatchTypeOK'
  BY <1>2, NoticedType DEF Remove, Missing
<1>3. ASSUME NEW p \in Paths, PollScan(p) PROVE WatchTypeOK'
  BY <1>3, SignalType DEF PollScan, Backends
<1>4. ASSUME NEW p \in Paths, Expire(p) PROVE WatchTypeOK'
  BY <1>4 DEF Expire, Missing, Sources
<1>5. CASE BackendError
  BY <1>5, SignalType DEF BackendError, Backends
<1>6. ASSUME NEW v \in Vaults, StartWatching(v) PROVE WatchTypeOK'
  <2>1. activeSession' \in Nat /\ watchedRoot' \in Vaults \cup {NoVault}
    BY <1>6 DEF StartWatching, Unwatched
  <2>2. signals' \subseteq Signals
    BY <1>6, <2>1, SignalType DEF StartWatching, Backends
  <2>3. polled' \in [Paths -> Nat]
    BY <1>6 DEF StartWatching, Unwatched, Missing
  <2>4. known' \in [Paths -> Nat] /\ blind' \subseteq Paths
    BY <1>6 DEF StartWatching
  <2>5. pollOn' \in BOOLEAN
    BY <1>6 DEF StartWatching, Unwatched
  <2>6. QED
    BY <1>6, <2>1, <2>2, <2>3, <2>4, <2>5 DEF StartWatching
<1>7. CASE Stop
  <2>1. polled' \in [Paths -> Nat] /\ pollOn' \in BOOLEAN
    BY <1>7 DEF Stop, Unwatched, Missing
  <2>2. QED
    BY <1>7, <2>1 DEF Stop, Unwatched
<1>8. ASSUME NEW signal \in signals, ReceiveFirst(signal) \/ ReceiveMore(signal)
      PROVE WatchTypeOK'
  <2>1. batch' \in Batches
    BY <1>8, AppliedType, RestartedType DEF ReceiveFirst, ReceiveMore
  <2>2. QED
    BY <1>8, <2>1 DEF ReceiveFirst, ReceiveMore, Receive1
<1>9. CASE CloseBatch
  <2>1. batch' \in Batches
    BY <1>9, SourcesType DEF CloseBatch, Batches
  <2>2. QED
    BY <1>9, <2>1 DEF CloseBatch
<1>10. CASE Emit
  <2>1. batch' \in Batches
    BY <1>10, SourcesType DEF Emit
  <2>2. reported' \in [Paths -> Nat] /\ reporters' \in Sources
    BY <1>10 DEF Emit, Sources, Batches
  <2>3. unread' \subseteq Notices
    BY <1>10 DEF Emit, Notices, Batches, Named
  <2>4. QED
    BY <1>10, <2>1, <2>2, <2>3 DEF Emit
<1>11. ASSUME NEW notice \in unread, ReadBatch(notice) PROVE WatchTypeOK'
  BY <1>11 DEF ReadBatch
<1>12. CASE UNCHANGED watchVars
  BY <1>12 DEF watchVars
<1>13. QED
  BY <1>1, <1>2, <1>3, <1>4, <1>5, <1>6, <1>7, <1>8, <1>9, <1>10, <1>11, <1>12
  DEF WatchNext

-----------------------------------------------------------------------------
(* Numbers of changes.                                                     *)

LEMMA FreshStep ==
  ASSUME WatchTypeOK, Fresh, [WatchNext]_watchVars
  PROVE  Fresh'
<1> USE DEF WatchTypeOK, Fresh, diskVars, recentVars, Missing
<1>1. ASSUME NEW p \in Paths, Edit(p) PROVE Fresh'
  BY <1>1 DEF Edit
<1>2. ASSUME NEW p \in Paths, Remove(p) PROVE Fresh'
  BY <1>2 DEF Remove
<1>3. ASSUME NEW p \in Paths, PollScan(p) PROVE Fresh'
  BY <1>3 DEF PollScan
<1>4. ASSUME NEW p \in Paths, Expire(p) PROVE Fresh'
  BY <1>4 DEF Expire
<1>5. CASE BackendError
  BY <1>5 DEF BackendError
<1>6. ASSUME NEW v \in Vaults, StartWatching(v) PROVE Fresh'
  <2>1. \A p \in Paths : polled'[p] \in {onDisk[p], 0}
    BY <1>6 DEF StartWatching, Unwatched
  <2>2. QED
    BY <1>6, <2>1 DEF StartWatching
<1>7. CASE Stop
  BY <1>7 DEF Stop, Unwatched
<1>8. ASSUME NEW signal \in signals, ReceiveFirst(signal) \/ ReceiveMore(signal)
      PROVE Fresh'
  BY <1>8 DEF ReceiveFirst, ReceiveMore
<1>9. CASE CloseBatch
  BY <1>9 DEF CloseBatch
<1>10. CASE Emit
  BY <1>10 DEF Emit
<1>11. ASSUME NEW notice \in unread, ReadBatch(notice) PROVE Fresh'
  BY <1>11 DEF ReadBatch
<1>12. CASE UNCHANGED watchVars
  BY <1>12 DEF watchVars
<1>13. QED
  BY <1>1, <1>2, <1>3, <1>4, <1>5, <1>6, <1>7, <1>8, <1>9, <1>10, <1>11, <1>12
  DEF WatchNext

-----------------------------------------------------------------------------
(* What was reported is known.                                             *)

LEMMA RecentKept ==
  ASSUME RecentKnown, UNCHANGED <<diskVars, consumerVars, watcherVars, recentVars, blind>>
  PROVE  RecentKnown'
BY DEF RecentKnown, diskVars, consumerVars, watcherVars, recentVars, Watched, Excused,
       Unread, Covers

(* A vault that is not watched promises nothing. *)
LEMMA NobodyWatched ==
  ASSUME NEW p \in Paths, watchedRoot = NoVault
  PROVE  ~Watched(p)
BY WatchAssumption DEF Watched

LEMMA RecentStep ==
  ASSUME WatchInv, [WatchNext]_watchVars
  PROVE  RecentKnown'
<1> USE DEF WatchInv
<1>1. ASSUME NEW q \in Paths, Edit(q) PROVE RecentKnown'
  <2> SUFFICES ASSUME NEW p \in Paths, Watched(p)', ~Excused(p)',
                      reporters'[p] # {}, reported'[p] = onDisk'[p]
               PROVE  (known[p] = onDisk[p] \/ Unread(p))'
    BY DEF RecentKnown
  <2>1. UNCHANGED <<consumerVars, watcherVars, recentVars>> /\ Unread(p)' = Unread(p)
        /\ Watched(p)
    BY <1>1 DEF Edit, consumerVars, watcherVars, recentVars, Unread, Covers, Watched
  <2>2. p # q
    BY <1>1, <2>1 DEF Edit, WatchTypeOK, Fresh, recentVars
  <2>3. onDisk'[p] = onDisk[p] /\ ~Excused(p)
    BY <1>1, <2>2 DEF Edit, WatchTypeOK, Excused
  <2>4. QED
    BY <2>1, <2>3 DEF RecentKnown, consumerVars, recentVars
<1>2. ASSUME NEW q \in Paths, Remove(q) PROVE RecentKnown'
  <2> SUFFICES ASSUME NEW p \in Paths, Watched(p)', ~Excused(p)',
                      reporters'[p] # {}, reported'[p] = onDisk'[p]
               PROVE  (known[p] = onDisk[p] \/ Unread(p))'
    BY DEF RecentKnown
  <2>1. UNCHANGED <<consumerVars, watcherVars, recentVars>> /\ Unread(p)' = Unread(p)
        /\ Watched(p)
    BY <1>2 DEF Remove, consumerVars, watcherVars, recentVars, Unread, Covers, Watched
  <2>2. p # q
    <3>1. SUFFICES ASSUME p = q PROVE FALSE
      OBVIOUS
    <3>2. onDisk'[p] = Missing
      BY <1>2, <3>1 DEF Remove, WatchTypeOK
    <3>3. p \in blind'
      BY <1>2, <2>1, <3>1, <3>2 DEF Remove, recentVars
    <3>4. QED
      BY <3>2, <3>3 DEF Excused
  <2>3. onDisk'[p] = onDisk[p] /\ blind \subseteq blind'
    BY <1>2, <2>2 DEF Remove, WatchTypeOK
  <2>4. ~Excused(p)
    BY <2>3 DEF Excused
  <2>5. QED
    BY <2>1, <2>3, <2>4 DEF RecentKnown, consumerVars, recentVars
<1>3. ASSUME NEW q \in Paths, PollScan(q) PROVE RecentKnown'
  BY <1>3, RecentKept DEF PollScan
<1>4. ASSUME NEW q \in Paths, Expire(q) PROVE RecentKnown'
  <2> SUFFICES ASSUME NEW p \in Paths, Watched(p)', ~Excused(p)',
                      reporters'[p] # {}, reported'[p] = onDisk'[p]
               PROVE  (known[p] = onDisk[p] \/ Unread(p))'
    BY DEF RecentKnown
  <2>1. p # q /\ reporters'[p] = reporters[p] /\ reported'[p] = reported[p]
    BY <1>4 DEF Expire, WatchTypeOK, Sources
  <2>2. UNCHANGED <<diskVars, consumerVars, watcherVars, blind>>
    BY <1>4 DEF Expire
  <2>3. Watched(p) /\ ~Excused(p) /\ Unread(p)' = Unread(p)
    BY <2>2 DEF diskVars, consumerVars, watcherVars, Watched, Excused, Unread, Covers
  <2>4. QED
    BY <2>1, <2>2, <2>3 DEF RecentKnown, diskVars, consumerVars
<1>5. CASE BackendError
  BY <1>5, RecentKept DEF BackendError
<1>6. ASSUME NEW v \in Vaults, StartWatching(v) PROVE RecentKnown'
  <2> SUFFICES ASSUME NEW p \in Paths, Watched(p)'
               PROVE  (known[p] = onDisk[p])'
    BY DEF RecentKnown
  <2>1. watchedRoot' # NoVault
    BY WatchAssumption DEF Watched
  <2>2. QED
    BY <1>6, <2>1 DEF StartWatching, Unwatched, Watched, diskVars
<1>7. CASE Stop
  <2>1. watchedRoot' = NoVault
    BY <1>7 DEF Stop, Unwatched
  <2>2. QED
    BY <2>1, WatchAssumption DEF RecentKnown, Watched
<1>8. ASSUME NEW signal \in signals, ReceiveFirst(signal) \/ ReceiveMore(signal)
      PROVE RecentKnown'
  BY <1>8, RecentKept DEF ReceiveFirst, ReceiveMore
<1>9. CASE CloseBatch
  BY <1>9, RecentKept DEF CloseBatch
<1>10. CASE Emit
  <2> SUFFICES ASSUME NEW p \in Paths, Watched(p)', ~Excused(p)',
                      reporters'[p] # {}, reported'[p] = onDisk'[p]
               PROVE  (known[p] = onDisk[p] \/ Unread(p))'
    BY DEF RecentKnown
  <2> DEFINE kept == {q \in Named(batch) : batch.coarse \/ ~Echo(q)}
             new  == [paths |-> kept, coarse |-> batch.coarse]
  <2>1. UNCHANGED <<diskVars, known, watcherVars, blind>>
    BY <1>10 DEF Emit
  <2>2. Watched(p) /\ ~Excused(p)
    BY <2>1 DEF diskVars, watcherVars, Watched, Excused
  <2>3. unread \subseteq unread' /\ (Unread(p) => Unread(p)')
    <3>1. unread \subseteq unread'
      BY <1>10 DEF Emit
    <3>2. \A notice : Covers(notice, p)' <=> Covers(notice, p)
      BY <2>1 DEF watcherVars, Covers, Watched
    <3>3. QED
      BY <3>1, <3>2 DEF Unread
  <2>4. CASE p \in kept
    <3>1. new \in unread' /\ p \in new.paths
      BY <1>10, <2>4 DEF Emit
    <3>2. PICK notice : notice \in unread' /\ p \in notice.paths
      BY <3>1
    <3>3. QED
      BY <3>2 DEF Unread, Covers
  <2>5. CASE p \notin kept
    <3>1. reporters'[p] = reporters[p] /\ reported'[p] = reported[p]
      BY <1>10, <2>5 DEF Emit
    <3>2. QED
      BY <2>1, <2>2, <2>3, <3>1 DEF RecentKnown, diskVars
  <2>6. QED
    BY <2>4, <2>5
<1>11. ASSUME NEW notice \in unread, ReadBatch(notice) PROVE RecentKnown'
  <2> SUFFICES ASSUME NEW p \in Paths, Watched(p)', ~Excused(p)',
                      reporters'[p] # {}, reported'[p] = onDisk'[p]
               PROVE  (known[p] = onDisk[p] \/ Unread(p))'
    BY DEF RecentKnown
  <2>1. UNCHANGED <<diskVars, watcherVars, recentVars, blind>>
    BY <1>11 DEF ReadBatch
  <2>2. Watched(p) /\ ~Excused(p)
    BY <2>1 DEF diskVars, watcherVars, Watched, Excused
  <2>3. CASE Covers(notice, p)
    BY <1>11, <2>1, <2>3 DEF ReadBatch, diskVars
  <2>4. CASE ~Covers(notice, p)
    <3>1. Unread(p) => Unread(p)'
      BY <1>11, <2>1, <2>4 DEF ReadBatch, Unread, Covers, Watched, watcherVars
    <3>2. known'[p] = known[p]
      BY <1>11, <2>4 DEF ReadBatch
    <3>3. QED
      BY <2>1, <2>2, <3>1, <3>2 DEF RecentKnown, diskVars, recentVars
  <2>5. QED
    BY <2>3, <2>4
<1>12. CASE UNCHANGED watchVars
  BY <1>12, RecentKept DEF watchVars
<1>13. QED
  BY <1>1, <1>2, <1>3, <1>4, <1>5, <1>6, <1>7, <1>8, <1>9, <1>10, <1>11, <1>12
  DEF WatchNext

-----------------------------------------------------------------------------
(* Nothing is missed.                                                      *)

Told(p) == Signalled(p) \/ Collected(p) \/ Unread(p) \/ Unpolled(p)

LEMMA MissedFrom ==
  ASSUME NothingMissed, NEW p \in Paths, Watched(p), known[p] # onDisk[p], ~Excused(p)
  PROVE  Told(p)
BY DEF NothingMissed, Told, Excused

(* With the files, the sessions and the consumer as they were, it is enough *)
(* that who was told is told still.                                         *)
LEMMA MissedKept ==
  ASSUME NothingMissed, UNCHANGED <<diskVars, known, watcherVars, blind>>,
         ASSUME NEW p \in Paths, Watched(p), Told(p), known[p] # onDisk[p], ~Excused(p)
         PROVE  Told(p)'
  PROVE  NothingMissed'
<1> SUFFICES ASSUME NEW p \in Paths, Watched(p)', (known[p] # onDisk[p])',
                    ~(p \in blind /\ onDisk[p] = Missing)'
             PROVE  Told(p)'
  BY DEF NothingMissed, Told
<1>1. Watched(p) /\ known[p] # onDisk[p] /\ ~Excused(p)
  BY DEF diskVars, watcherVars, Watched, Excused
<1>2. QED
  BY <1>1, MissedFrom

(* Signals only become more. *)
LEMMA MoreSignals ==
  ASSUME NEW p \in Paths, UNCHANGED <<watcherVars, unread, batch>>,
         onDisk'[p] = onDisk[p], polled'[p] = polled[p],
         signals \subseteq signals', Told(p)
  PROVE  Told(p)'
<1>1. Signalled(p) => Signalled(p)'
  BY DEF Signalled, watcherVars
<1>2. /\ Collected(p) => Collected(p)'
      /\ Unread(p) => Unread(p)'
      /\ Unpolled(p) => Unpolled(p)'
  BY DEF Collected, Unread, Covers, Watched, Unpolled, watcherVars
<1>3. QED
  BY <1>1, <1>2 DEF Told

(* A received signal is in the batch or was of no use. *)
LEMMA ReceivedTold ==
  ASSUME WatchTypeOK, NEW signal \in signals, Receive1(signal),
         UNCHANGED <<diskVars, consumerVars, watcherVars, polled>>,
         signal.session = activeSession =>
           /\ batch'.phase # "idle" /\ batch'.session = activeSession
           /\ batch'.coarse \/ signal.paths \subseteq Named(batch')
           /\ signal.paths = {} => batch'.coarse,
         ASSUME batch.phase # "idle", batch.session = activeSession
         PROVE  /\ batch'.phase # "idle" /\ batch'.session = activeSession
                /\ batch.coarse => batch'.coarse
                /\ Named(batch) \subseteq Named(batch'),
         NEW p \in Paths, Told(p)
  PROVE  Told(p)'
<1>1. CASE Signalled(p)
  <2>1. PICK s \in signals : s.session = activeSession /\ (s.paths = {} \/ p \in s.paths)
    BY <1>1 DEF Signalled
  <2>2. CASE s \in signals'
    BY <2>1, <2>2 DEF Signalled, Told, watcherVars
  <2>3. CASE s \notin signals'
    <3>1. s = signal
      BY <2>3 DEF Receive1
    <3>2. QED
      BY <2>1, <3>1 DEF Collected, Told, watcherVars
  <2>4. QED
    BY <2>2, <2>3
<1>2. CASE Collected(p)
  BY <1>2 DEF Collected, Told, watcherVars
<1>3. CASE Unread(p) \/ Unpolled(p)
  BY <1>3 DEF Unread, Covers, Watched, Unpolled, Told, watcherVars, diskVars,
              consumerVars
<1>4. QED
  BY <1>1, <1>2, <1>3 DEF Told

LEMMA ReceiveMissed ==
  ASSUME WatchInv, NEW signal \in signals, ReceiveFirst(signal) \/ ReceiveMore(signal)
  PROVE  NothingMissed'
<1> USE DEF WatchInv
<1>1. /\ Receive1(signal) /\ signal \in Signals /\ batch \in Batches
      /\ UNCHANGED <<diskVars, consumerVars, watcherVars, polled, blind>>
  BY DEF ReceiveFirst, ReceiveMore, WatchTypeOK
<1> DEFINE applied == Applied(batch, signal)
           restarted == Restarted(batch, signal)
<1>2. /\ applied.phase = batch.phase /\ applied.session = batch.session
      /\ applied.coarse = (batch.coarse \/ signal.paths = {})
      /\ Named(applied) = Named(batch) \cup signal.paths
  BY <1>1, AppliedType
<1>3. /\ restarted.phase = "collecting" /\ restarted.session = signal.session
      /\ restarted.coarse = (signal.paths = {})
      /\ Named(restarted) = signal.paths
  BY <1>1, RestartedType
<1>4. /\ batch.phase = "idle" =>
           batch' = IF signal.session = activeSession THEN restarted ELSE batch
      /\ batch.phase # "idle" =>
           /\ batch.phase = "collecting"
           /\ batch' = IF signal.session = batch.session THEN applied
                       ELSE IF signal.session = activeSession THEN restarted
                       ELSE batch
  BY DEF ReceiveFirst, ReceiveMore
<1> HIDE DEF applied, restarted
<1>5. signal.session = activeSession =>
        /\ batch'.phase # "idle" /\ batch'.session = activeSession
        /\ batch'.coarse \/ signal.paths \subseteq Named(batch')
        /\ signal.paths = {} => batch'.coarse
  BY <1>2, <1>3, <1>4
<1>6. ASSUME batch.phase # "idle", batch.session = activeSession
      PROVE  /\ batch'.phase # "idle" /\ batch'.session = activeSession
             /\ batch.coarse => batch'.coarse
             /\ Named(batch) \subseteq Named(batch')
  BY <1>2, <1>3, <1>4, <1>6
<1>7. ASSUME NEW p \in Paths, Told(p) PROVE Told(p)'
  BY <1>1, <1>5, <1>6, <1>7, ReceivedTold
<1>8. QED
  BY <1>1, <1>7, MissedKept DEF consumerVars

(* A change of p that is noticed, or differs from what the poll has seen. *)
LEMMA ChangeTold ==
  ASSUME NEW p \in Paths, WatchTypeOK, Watched(p), Noticed(p),
         UNCHANGED <<watcherVars, polled>>,
         signals' = signals => polled[p] # onDisk'[p]
  PROVE  Told(p)'
<1>1. CASE Signal(activeSession, "recommended", {p}) \in signals'
  BY <1>1 DEF Signal, Signalled, Told, watcherVars
<1>2. CASE Signal(activeSession, "recommended", {p}) \notin signals'
  BY <1>2 DEF Noticed, Unpolled, Told, watcherVars
<1>3. QED
  BY <1>1, <1>2

LEMMA MissedStep ==
  ASSUME WatchInv, WatchTypeOK', [WatchNext]_watchVars
  PROVE  NothingMissed'
<1> USE DEF WatchInv
<1>1. ASSUME NEW q \in Paths, Edit(q) PROVE NothingMissed'
  <2> SUFFICES ASSUME NEW p \in Paths, Watched(p)', (known[p] # onDisk[p])',
                      ~(p \in blind /\ onDisk[p] = Missing)'
               PROVE  Told(p)'
    BY DEF NothingMissed, Told
  <2>1. UNCHANGED <<watcherVars, unread, known, batch, polled>> /\ Watched(p)
        /\ signals \subseteq signals'
    BY <1>1, NoticedType DEF Edit, watcherVars, consumerVars, Watched
  <2>2. CASE p = q
    <3>1. onDisk'[p] = edits + 1 /\ Noticed(p)
      BY <1>1, <2>2 DEF Edit, WatchTypeOK
    <3>2. polled[p] # onDisk'[p]
      BY <3>1 DEF Fresh, WatchTypeOK
    <3>3. QED
      BY <2>1, <3>1, <3>2, ChangeTold
  <2>3. CASE p # q
    <3>1. onDisk'[p] = onDisk[p] /\ ~Excused(p)
      BY <1>1, <2>3 DEF Edit, WatchTypeOK, Excused
    <3>2. Told(p)
      BY <2>1, <3>1, MissedFrom
    <3>3. QED
      BY <2>1, <3>1, <3>2, MoreSignals
  <2>4. QED
    BY <2>2, <2>3
<1>2. ASSUME NEW q \in Paths, Remove(q) PROVE NothingMissed'
  <2> SUFFICES ASSUME NEW p \in Paths, Watched(p)', (known[p] # onDisk[p])',
                      ~(p \in blind /\ onDisk[p] = Missing)'
               PROVE  Told(p)'
    BY DEF NothingMissed, Told
  <2>1. UNCHANGED <<watcherVars, unread, known, batch, polled>> /\ Watched(p)
        /\ signals \subseteq signals'
    BY <1>2, NoticedType DEF Remove, watcherVars, consumerVars, Watched
  <2>2. CASE p = q
    <3>1. onDisk'[p] = Missing /\ p \notin blind'
      BY <1>2, <2>2 DEF Remove, WatchTypeOK
    <3>2. Noticed(p) /\ (signals' = signals => polled[p] # Missing)
      BY <1>2, <2>2, <3>1 DEF Remove
    <3>3. QED
      BY <2>1, <3>1, <3>2, ChangeTold
  <2>3. CASE p # q
    <3>1. onDisk'[p] = onDisk[p] /\ ~Excused(p)
      BY <1>2, <2>3 DEF Remove, WatchTypeOK, Excused
    <3>2. Told(p)
      BY <2>1, <3>1, MissedFrom
    <3>3. QED
      BY <2>1, <3>1, <3>2, MoreSignals
  <2>4. QED
    BY <2>2, <2>3
<1>3. ASSUME NEW q \in Paths, PollScan(q) PROVE NothingMissed'
  <2> SUFFICES ASSUME NEW p \in Paths, Watched(p), Told(p) PROVE Told(p)'
    BY <1>3, MissedKept DEF PollScan, consumerVars
  <2>1. UNCHANGED <<watcherVars, unread, batch, onDisk>> /\ signals \subseteq signals'
    BY <1>3 DEF PollScan, consumerVars, diskVars
  <2>2. CASE p = q
    <3>1. Signal(activeSession, "poll", {p}) \in signals'
      BY <1>3, <2>2 DEF PollScan
    <3>2. QED
      BY <2>1, <3>1 DEF Signal, Signalled, Told, watcherVars
  <2>3. CASE p # q
    <3>1. polled'[p] = polled[p]
      BY <1>3, <2>3 DEF PollScan, WatchTypeOK
    <3>2. QED
      BY <2>1, <3>1, MoreSignals
  <2>4. QED
    BY <2>2, <2>3
<1>4. ASSUME NEW q \in Paths, Expire(q) PROVE NothingMissed'
  <2> SUFFICES ASSUME NEW p \in Paths, Watched(p), Told(p) PROVE Told(p)'
    BY <1>4, MissedKept DEF Expire, consumerVars
  <2>1. QED
    BY <1>4, MoreSignals DEF Expire, consumerVars, diskVars
<1>5. CASE BackendError
  <2> SUFFICES ASSUME NEW p \in Paths PROVE Told(p)'
    BY <1>5, MissedKept DEF BackendError, consumerVars
  <2>1. CoarseSignal(activeSession) \in signals'
    BY <1>5 DEF BackendError
  <2>2. QED
    BY <1>5, <2>1 DEF BackendError, CoarseSignal, Signal, Signalled, Told, watcherVars
<1>6. ASSUME NEW v \in Vaults, StartWatching(v) PROVE NothingMissed'
  <2> SUFFICES ASSUME NEW p \in Paths, Watched(p)'
               PROVE  (known[p] = onDisk[p])'
    BY DEF NothingMissed
  <2>1. watchedRoot' # NoVault
    BY WatchAssumption DEF Watched
  <2>2. QED
    BY <1>6, <2>1 DEF StartWatching, Unwatched, Watched, diskVars
<1>7. CASE Stop
  <2>1. watchedRoot' = NoVault
    BY <1>7 DEF Stop, Unwatched
  <2>2. QED
    BY <2>1, WatchAssumption DEF NothingMissed, Watched
<1>8. ASSUME NEW signal \in signals, ReceiveFirst(signal) \/ ReceiveMore(signal)
      PROVE NothingMissed'
  BY <1>8, ReceiveMissed
<1>9. CASE CloseBatch
  <2> SUFFICES ASSUME NEW p \in Paths, Watched(p), Told(p) PROVE Told(p)'
    BY <1>9, MissedKept DEF CloseBatch, consumerVars
  <2>1. UNCHANGED <<diskVars, consumerVars, watcherVars, polled, signals>>
    BY <1>9 DEF CloseBatch
  <2>2. CASE Collected(p)
    <3>1. batch' = [batch EXCEPT !.phase = "checked"]
      BY <1>9, <2>2 DEF CloseBatch, Collected
    <3>2. QED
      BY <2>1, <2>2, <3>1 DEF Collected, Told, Named, WatchTypeOK, Batches, watcherVars
  <2>3. CASE ~Collected(p)
    BY <2>1, <2>3 DEF Told, Signalled, Unread, Covers, Watched, Unpolled, watcherVars,
                      diskVars, consumerVars
  <2>4. QED
    BY <2>2, <2>3
<1>10. CASE Emit
  <2> DEFINE kept == {q \in Named(batch) : batch.coarse \/ ~Echo(q)}
             new  == [paths |-> kept, coarse |-> batch.coarse]
  <2> SUFFICES ASSUME NEW p \in Paths, Watched(p), Told(p), known[p] # onDisk[p],
                      ~Excused(p)
               PROVE  Told(p)'
    BY <1>10, MissedKept DEF Emit
  <2>1. UNCHANGED <<diskVars, known, watcherVars, polled, signals>>
        /\ unread \subseteq unread'
    BY <1>10 DEF Emit
  <2>2. Unread(p) => Unread(p)'
    <3>1. \A notice : Covers(notice, p)' <=> Covers(notice, p)
      BY <2>1 DEF watcherVars, Covers, Watched
    <3>2. QED
      BY <2>1, <3>1 DEF Unread
  <2>3. CASE Collected(p)
    <3>1. CASE p \in kept \/ batch.coarse
      <4>1. new \in unread'
        BY <1>10, <3>1 DEF Emit
      <4>2. PICK notice : notice \in unread' /\ (p \in notice.paths \/ notice.coarse)
        BY <3>1, <4>1
      <4>3. Watched(p)'
        BY <2>1 DEF Watched, watcherVars
      <4>4. QED
        BY <4>2, <4>3 DEF Unread, Covers, Told
    <3>2. CASE p \notin kept /\ ~batch.coarse
      <4>1. Echo(p)
        BY <2>3, <3>2 DEF Collected
      <4>2. Unread(p)
        BY <4>1 DEF Echo, RecentKnown
      <4>3. QED
        BY <2>2, <4>2 DEF Told
    <3>3. QED
      BY <3>1, <3>2
  <2>4. CASE ~Collected(p)
    BY <2>1, <2>2, <2>4 DEF Told, Signalled, Unpolled, watcherVars, diskVars
  <2>5. QED
    BY <2>3, <2>4
<1>11. ASSUME NEW notice \in unread, ReadBatch(notice) PROVE NothingMissed'
  <2> SUFFICES ASSUME NEW p \in Paths, Watched(p)', (known[p] # onDisk[p])',
                      ~(p \in blind /\ onDisk[p] = Missing)'
               PROVE  Told(p)'
    BY DEF NothingMissed, Told
  <2>1. UNCHANGED <<diskVars, watcherVars, polled, signals, batch, blind>>
    BY <1>11 DEF ReadBatch
  <2>2. ~Covers(notice, p) /\ known'[p] = known[p]
    BY <1>11, <2>1 DEF ReadBatch, diskVars
  <2>3. Watched(p) /\ ~Excused(p) /\ known[p] # onDisk[p]
    BY <2>1, <2>2 DEF diskVars, watcherVars, Watched, Excused
  <2>4. Told(p)
    BY <2>3, MissedFrom
  <2>5. Unread(p) => Unread(p)'
    BY <1>11, <2>1, <2>2 DEF ReadBatch, Unread, Covers, Watched, watcherVars
  <2>6. QED
    BY <2>1, <2>4, <2>5 DEF Told, Signalled, Collected, Unpolled, watcherVars, diskVars
<1>12. CASE UNCHANGED watchVars
  <2> SUFFICES ASSUME NEW p \in Paths, Watched(p), Told(p) PROVE Told(p)'
    BY <1>12, MissedKept DEF watchVars, consumerVars
  <2>1. QED
    BY <1>12, MoreSignals DEF watchVars, consumerVars, diskVars
<1>13. QED
  BY <1>1, <1>2, <1>3, <1>4, <1>5, <1>6, <1>7, <1>8, <1>9, <1>10, <1>11, <1>12
  DEF WatchNext

(* The inductive invariant: NothingMissed, and what was reported is known. *)
THEOREM WatchInvariant == WatchSpec => []WatchInv
<1>1. WatchInv /\ [WatchNext]_watchVars => WatchInv'
  BY WatchTypeStep, FreshStep, RecentStep, MissedStep DEF WatchInv
<1>2. QED
  BY <1>1, WatchInitInv, PTL DEF WatchSpec

(* The consumer of the engine misses no change (NothingMissed), whatever the *)
(* order of signals, reads, switches and errors.                             *)
THEOREM ChangesReachConsumer == WatchSpec => []NothingMissed
<1>1. WatchInv => NothingMissed
  BY DEF WatchInv
<1>2. QED
  BY <1>1, WatchInvariant, PTL

-----------------------------------------------------------------------------
(* A batch is of one vault: a session watches one, and no signal outlives   *)
(* the watch under the name of a later session.                            *)
SameVault(these, those) == \A p \in these, q \in those : VaultOf[p] = VaultOf[q]

SignalsOfVault ==
  \A s \in signals :
    /\ s.session <= activeSession
    /\ s.session = activeSession => \A p \in s.paths : Watched(p)
    /\ \A s2 \in signals : s.session = s2.session => SameVault(s.paths, s2.paths)

BatchOfVault ==
  /\ batch.session <= activeSession
  /\ batch.session = activeSession => \A p \in Named(batch) : Watched(p)
  /\ SameVault(Named(batch), Named(batch))
  /\ \A s \in signals : s.session = batch.session => SameVault(s.paths, Named(batch))

UnreadOfVault == \A notice \in unread : SameVault(notice.paths, notice.paths)

VaultInv == SignalsOfVault /\ BatchOfVault /\ UnreadOfVault

LEMMA VaultInvKept ==
  ASSUME VaultInv, UNCHANGED <<watcherVars, batch, unread>>, signals' \subseteq signals
  PROVE  VaultInv'
BY DEF VaultInv, SignalsOfVault, BatchOfVault, UnreadOfVault, SameVault, watcherVars,
       Watched, Named

LEMMA VaultInvSignal ==
  ASSUME WatchTypeOK, VaultInv, UNCHANGED <<watcherVars, batch, unread>>,
         NEW signal, signal.session = activeSession, \A p \in signal.paths : Watched(p),
         signals' \subseteq signals \cup {signal}
  PROVE  VaultInv'
<1>1. \A s \in signals' : s.session <= activeSession
        /\ (s.session = activeSession => \A p \in s.paths : Watched(p))
  BY DEF VaultInv, SignalsOfVault, WatchTypeOK
<1>2. SignalsOfVault'
  BY <1>1 DEF VaultInv, SignalsOfVault, SameVault, watcherVars, Watched
<1>3. BatchOfVault'
  BY <1>1 DEF VaultInv, BatchOfVault, SameVault, watcherVars, Watched, Named
<1>4. UnreadOfVault'
  BY DEF VaultInv, UnreadOfVault, SameVault
<1>5. QED
  BY <1>2, <1>3, <1>4 DEF VaultInv

(* A new session has no signals yet but coarse ones. *)
LEMMA VaultInvSession ==
  ASSUME WatchTypeOK, VaultInv, activeSession' = activeSession + 1,
         UNCHANGED <<batch, unread>>,
         signals' \subseteq signals \cup {CoarseSignal(activeSession')}
  PROVE  VaultInv'
<1>1. \A s \in signals' :
        \/ s \in signals /\ s.session <= activeSession
        \/ s.session = activeSession' /\ s.paths = {}
  BY DEF CoarseSignal, Signal, VaultInv, SignalsOfVault
<1>2. \A s \in signals : s.session \in Nat
  BY DEF WatchTypeOK, Signals
<1>3. batch.session \in Nat /\ activeSession \in Nat
  BY DEF WatchTypeOK, Batches
<1>4. SignalsOfVault'
  BY <1>1, <1>2, <1>3 DEF VaultInv, SignalsOfVault, SameVault
<1>5. BatchOfVault'
  BY <1>1, <1>2, <1>3 DEF VaultInv, BatchOfVault, SameVault, Named
<1>6. UnreadOfVault'
  BY DEF VaultInv, UnreadOfVault, SameVault
<1>7. QED
  BY <1>4, <1>5, <1>6 DEF VaultInv

LEMMA VaultInvBatch ==
  ASSUME VaultInv, UNCHANGED <<watcherVars, unread>>, signals' \subseteq signals, BatchOfVault'
  PROVE  VaultInv'
BY DEF VaultInv, SignalsOfVault, UnreadOfVault, SameVault, watcherVars, Watched

LEMMA IdleOfVault ==
  ASSUME activeSession' \in Nat, batch' = NoBatch
  PROVE  BatchOfVault'
<1>1. Named(NoBatch) = {} /\ NoBatch.session = 0
  BY SourcesType DEF Named, NoBatch, EmptyBatch
<1>2. QED
  BY <1>1 DEF BatchOfVault, SameVault, Named

LEMMA ReceiveOfVault ==
  ASSUME WatchTypeOK, VaultInv,
         NEW signal \in signals, ReceiveFirst(signal) \/ ReceiveMore(signal)
  PROVE  VaultInv'
<1> DEFINE applied == Applied(batch, signal)
           restarted == Restarted(batch, signal)
<1>1. /\ Receive1(signal) /\ signal \in Signals /\ batch \in Batches
      /\ UNCHANGED <<watcherVars, unread>> /\ signals' \subseteq signals
  BY DEF ReceiveFirst, ReceiveMore, WatchTypeOK, Receive1, consumerVars
<1>2. /\ applied.session = batch.session
      /\ Named(applied) = Named(batch) \cup signal.paths
  BY <1>1, AppliedType
<1>3. restarted.session = signal.session /\ Named(restarted) = signal.paths
  BY <1>1, RestartedType
<1>4. \/ batch' = batch
      \/ batch' = applied /\ signal.session = batch.session
      \/ batch' = restarted /\ signal.session = activeSession
  BY DEF ReceiveFirst, ReceiveMore
<1> HIDE DEF applied, restarted
<1>5. CASE batch' = batch
  BY <1>1, <1>5, VaultInvKept
<1>6. CASE batch' = applied /\ signal.session = batch.session
  <2>1. batch'.session = batch.session /\ Named(batch)' = Named(batch) \cup signal.paths
    BY <1>2, <1>6 DEF Named
  <2>2. BatchOfVault'
    BY <1>1, <1>6, <2>1
    DEF VaultInv, SignalsOfVault, BatchOfVault, SameVault, watcherVars, Watched
  <2>3. QED
    BY <1>1, <2>2, VaultInvBatch
<1>7. CASE batch' = restarted /\ signal.session = activeSession
  <2>1. batch'.session = activeSession /\ Named(batch)' = signal.paths
    BY <1>3, <1>7 DEF Named
  <2>2. activeSession \in Nat
    BY DEF WatchTypeOK
  <2>3. BatchOfVault'
    BY <1>1, <1>7, <2>1, <2>2
    DEF VaultInv, SignalsOfVault, BatchOfVault, SameVault, watcherVars, Watched
  <2>4. QED
    BY <1>1, <2>3, VaultInvBatch
<1>8. QED
  BY <1>4, <1>5, <1>6, <1>7

LEMMA VaultStep ==
  ASSUME WatchTypeOK, WatchTypeOK', VaultInv, [WatchNext]_watchVars
  PROVE  VaultInv'
<1> USE DEF consumerVars
<1>1. ASSUME NEW p \in Paths, Noticed(p), UNCHANGED <<watcherVars, batch, unread>>
      PROVE  VaultInv'
  <2>1. CASE signals' = signals
    BY <1>1, <2>1, VaultInvKept
  <2>2. CASE signals' # signals
    <3>1. Watched(p) /\ signals' = signals \cup {Signal(activeSession, "recommended", {p})}
      BY <1>1, <2>2 DEF Noticed
    <3>2. QED
      BY <1>1, <3>1, VaultInvSignal DEF Signal
  <2>3. QED
    BY <2>1, <2>2
<1>2. ASSUME NEW p \in Paths, PollScan(p) PROVE VaultInv'
  BY <1>2, VaultInvSignal DEF PollScan, Signal
<1>3. CASE BackendError
  <2>1. signals' \subseteq signals \cup {CoarseSignal(activeSession)}
    BY <1>3 DEF BackendError
  <2>2. CoarseSignal(activeSession).session = activeSession
        /\ CoarseSignal(activeSession).paths = {}
    BY DEF CoarseSignal, Signal
  <2>3. QED
    BY <1>3, <2>1, <2>2, VaultInvSignal DEF BackendError
<1>4. ASSUME NEW v \in Vaults, StartWatching(v) PROVE VaultInv'
  BY <1>4, VaultInvSession DEF StartWatching
<1>5. CASE Stop
  BY <1>5, VaultInvSession DEF Stop
<1>6. ASSUME NEW signal \in signals, ReceiveFirst(signal) \/ ReceiveMore(signal)
      PROVE VaultInv'
  BY <1>6, ReceiveOfVault
<1>7. CASE CloseBatch
  <2>1. CASE batch' = NoBatch
    BY <1>7, <2>1, IdleOfVault, VaultInvBatch DEF CloseBatch, WatchTypeOK, watcherVars
  <2>2. CASE batch' # NoBatch
    <3>1. batch' = [batch EXCEPT !.phase = "checked"]
      BY <1>7, <2>2 DEF CloseBatch
    <3>2. batch'.session = batch.session /\ Named(batch)' = Named(batch)
      BY <3>1 DEF Named, WatchTypeOK, Batches
    <3>3. UNCHANGED <<watcherVars, signals, unread>>
      BY <1>7 DEF CloseBatch
    <3>4. BatchOfVault'
      BY <3>2, <3>3 DEF VaultInv, BatchOfVault, SameVault, watcherVars, Watched
    <3>5. QED
      BY <3>3, <3>4, VaultInvBatch
  <2>3. QED
    BY <2>1, <2>2
<1>8. CASE Emit
  <2> DEFINE kept == {q \in Named(batch) : batch.coarse \/ ~Echo(q)}
             new  == [paths |-> kept, coarse |-> batch.coarse]
  <2>1. /\ UNCHANGED <<watcherVars, signals>> /\ batch' = NoBatch
        /\ unread' \subseteq unread \cup {new}
    BY <1>8 DEF Emit
  <2>2. SameVault(new.paths, new.paths)
    BY DEF VaultInv, BatchOfVault, SameVault
  <2> HIDE DEF new
  <2>3. UnreadOfVault'
    BY <2>1, <2>2 DEF VaultInv, UnreadOfVault, SameVault
  <2>4. BatchOfVault'
    BY <2>1, IdleOfVault DEF WatchTypeOK
  <2>5. SignalsOfVault'
    BY <2>1 DEF VaultInv, SignalsOfVault, SameVault, watcherVars, Watched
  <2>6. QED
    BY <2>3, <2>4, <2>5 DEF VaultInv
<1>9. ASSUME NEW notice \in unread, ReadBatch(notice) PROVE VaultInv'
  <2>1. UNCHANGED <<watcherVars, signals, batch>> /\ unread' \subseteq unread
    BY <1>9 DEF ReadBatch
  <2>2. QED
    BY <2>1 DEF VaultInv, SignalsOfVault, BatchOfVault, UnreadOfVault, SameVault,
                watcherVars, Watched, Named
<1>10. ASSUME NEW p \in Paths, Edit(p) \/ Remove(p) PROVE VaultInv'
  BY <1>1, <1>10 DEF Edit, Remove
<1>11. ASSUME NEW p \in Paths, Expire(p) PROVE VaultInv'
  BY <1>11, VaultInvKept DEF Expire
<1>12. CASE UNCHANGED watchVars
  BY <1>12, VaultInvKept DEF watchVars
<1>13. QED
  BY <1>2, <1>3, <1>4, <1>5, <1>6, <1>7, <1>8, <1>9, <1>10, <1>11, <1>12 DEF WatchNext

(* No batch mixes paths of two vaults (OneVaultPerBatch).                   *)
THEOREM BatchesOfOneVault == WatchSpec => []OneVaultPerBatch
<1>1. WatchInit => VaultInv
  <2> SUFFICES ASSUME WatchInit PROVE VaultInv
    OBVIOUS
  <2>1. Named(NoBatch) = {} /\ NoBatch.session = 0
    BY SourcesType DEF Named, NoBatch, EmptyBatch
  <2>2. QED
    BY <2>1 DEF WatchInit, VaultInv, SignalsOfVault, BatchOfVault, UnreadOfVault,
                SameVault
<1>2. WatchInv /\ WatchInv' /\ VaultInv /\ [WatchNext]_watchVars => VaultInv'
  BY VaultStep DEF WatchInv
<1>3. VaultInv => OneVaultPerBatch
  BY DEF VaultInv, BatchOfVault, UnreadOfVault, SameVault, OneVaultPerBatch
<1>4. QED
  BY <1>1, <1>2, <1>3, WatchInvariant, PTL DEF WatchSpec
=============================================================================
