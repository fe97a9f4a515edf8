------------------------- MODULE ReminderPopupProofs -------------------------
(***************************************************************************)
(* Theorems about ReminderDaemon that relate the index to what it is made  *)
(* from and to what came of it: it follows the notes, a stale reminder     *)
(* stays stale, and no popup is sent twice.                                *)
(***************************************************************************)
EXTENDS ReminderDaemonProofs

---------------------------------------------------------------------------
(* What operations on an index do to one reminder.                         *)

\* A pass of discovery or of timers: the reminder is left alone, or one that is
\* not stale and was not notified for its fire time goes on.
Ticked(r, q) ==
  /\ q.due = r.due /\ q.fire = r.fire /\ q.anchor = r.anchor /\ q.print = r.print
  /\ \/ q.state = r.state /\ q.last = r.last
     \/ /\ r.state # "stale" /\ r.last # r.fire
        /\ q.state \in {"notified", "due"} /\ q.last \in {r.last, r.fire}

TickedIndex(a, b) ==
  DOMAIN b = DOMAIN a /\ \A id \in DOMAIN a : Ticked(a[id], b[id])

\* A popup is for a reminder that was not notified for its fire time before.
Popped(a, b, fires) ==
  \A id \in fires :
    /\ id \in DOMAIN a /\ a[id].state # "stale" /\ a[id].last # a[id].fire
    /\ b[id].state = "notified" /\ b[id].last = b[id].fire

LEMMA MarkFields ==
  ASSUME NEW r \in Reminders
  PROVE  /\ MarkNotified(r).due = r.due /\ MarkNotified(r).fire = r.fire
         /\ MarkNotified(r).anchor = r.anchor /\ MarkNotified(r).print = r.print
         /\ MarkNotified(r).state = "notified" /\ MarkNotified(r).last = r.fire
         /\ MarkDue(r).due = r.due /\ MarkDue(r).fire = r.fire
         /\ MarkDue(r).anchor = r.anchor /\ MarkDue(r).print = r.print
         /\ MarkDue(r).state = "due" /\ MarkDue(r).last = r.last
BY DEF MarkNotified, MarkDue, Reminders

LEMMA DiscoverTicks ==
  ASSUME NEW idx, IsIndex(idx), NEW now \in Int
  PROVE  TickedIndex(idx, Discover(idx, now)) /\ Popped(idx, Discover(idx, now), DiscoverFires(idx, now))
<1>1. ASSUME NEW id \in DOMAIN idx
      PROVE  Ticked(idx[id], DiscoverOne(idx[id], now))
  <2>1. idx[id] \in Reminders
    BY DEF IsIndex
  <2> QED
    BY <2>1, MarkFields DEF Ticked, DiscoverOne, Discoverable, AlreadyFired
<1>2. ASSUME NEW id \in DiscoverFires(idx, now)
      PROVE  /\ id \in DOMAIN idx /\ idx[id].state # "stale" /\ idx[id].last # idx[id].fire
             /\ DiscoverOne(idx[id], now).state = "notified"
             /\ DiscoverOne(idx[id], now).last = DiscoverOne(idx[id], now).fire
  <2>1. id \in DOMAIN idx /\ Discoverable(idx[id], now) /\ now < idx[id].due
    BY DEF DiscoverFires
  <2>2. idx[id] \in Reminders
    BY <2>1 DEF IsIndex
  <2>3. DiscoverOne(idx[id], now) = MarkNotified(idx[id])
    BY <2>1 DEF DiscoverOne
  <2>4. idx[id].state # "stale" /\ idx[id].last # idx[id].fire
    BY <2>1 DEF Discoverable, AlreadyFired
  <2> QED
    BY <2>1, <2>2, <2>3, <2>4, MarkFields
<1>3. \A id \in DiscoverFires(idx, now) : id \in DOMAIN idx
  BY DEF DiscoverFires
<1> QED
  BY <1>1, <1>2, <1>3 DEF TickedIndex, Popped, Discover

LEMMA RunTimersTicks ==
  ASSUME NEW idx, IsIndex(idx), NEW now \in Int
  PROVE  TickedIndex(idx, RunTimers(idx, now)) /\ Popped(idx, RunTimers(idx, now), TimerFires(idx, now))
<1>1. ASSUME NEW id \in DOMAIN idx
      PROVE  Ticked(idx[id], RunTimerOne(idx[id], now))
  <2>1. idx[id] \in Reminders
    BY DEF IsIndex
  <2> QED
    BY <2>1, MarkFields DEF Ticked, RunTimerOne, Expired, Armed, AlreadyFired
<1>2. ASSUME NEW id \in TimerFires(idx, now)
      PROVE  /\ id \in DOMAIN idx /\ idx[id].state # "stale" /\ idx[id].last # idx[id].fire
             /\ RunTimerOne(idx[id], now).state = "notified"
             /\ RunTimerOne(idx[id], now).last = RunTimerOne(idx[id], now).fire
  <2>1. id \in DOMAIN idx /\ Expired(idx[id], now) /\ now <= idx[id].due + Grace
    BY DEF TimerFires
  <2>2. idx[id] \in Reminders
    BY <2>1 DEF IsIndex
  <2>3. RunTimerOne(idx[id], now) = MarkNotified(idx[id])
    BY <2>1 DEF RunTimerOne
  <2>4. idx[id].state # "stale" /\ idx[id].last # idx[id].fire
    BY <2>1 DEF Expired, Armed, AlreadyFired
  <2> QED
    BY <2>1, <2>2, <2>3, <2>4, MarkFields
<1>3. \A id \in TimerFires(idx, now) : id \in DOMAIN idx
  BY DEF TimerFires
<1> QED
  BY <1>1, <1>2, <1>3 DEF TickedIndex, Popped, RunTimers

\* Timers, then discovery on what they left (daemon.rs:470-521).
LEMMA TickTicks ==
  ASSUME NEW idx, NEW now \in Int, SoundIndex(idx, now),
         NEW timed, timed = RunTimers(idx, now)
  PROVE  /\ TickedIndex(idx, Discover(timed, now))
         /\ Popped(idx, Discover(timed, now), TimerFires(idx, now) \cup DiscoverFires(timed, now))
<1>1. IsIndex(idx) /\ IsIndex(timed)
  BY RunTimersSound DEF SoundIndex
<1>2. TickedIndex(idx, timed) /\ Popped(idx, timed, TimerFires(idx, now))
  BY <1>1, RunTimersTicks
<1> DEFINE found == Discover(timed, now)
<1>3. TickedIndex(timed, found) /\ Popped(timed, found, DiscoverFires(timed, now))
  BY <1>1, DiscoverTicks
<1>4. ASSUME NEW id \in DOMAIN idx, timed[id].last = timed[id].fire
      PROVE  found[id] = timed[id]
  BY <1>2, <1>4 DEF Discover, DiscoverOne, Discoverable, AlreadyFired, TickedIndex
<1> HIDE DEF found
<1>5. TickedIndex(idx, found)
  BY <1>2, <1>3 DEF TickedIndex, Ticked
<1>6. ASSUME NEW id \in TimerFires(idx, now)
      PROVE  /\ id \in DOMAIN idx /\ idx[id].state # "stale" /\ idx[id].last # idx[id].fire
             /\ found[id].state = "notified" /\ found[id].last = found[id].fire
  BY <1>2, <1>4 DEF Popped
<1>7. ASSUME NEW id \in DiscoverFires(timed, now)
      PROVE  /\ id \in DOMAIN idx /\ idx[id].state # "stale" /\ idx[id].last # idx[id].fire
             /\ found[id].state = "notified" /\ found[id].last = found[id].fire
  BY <1>2, <1>3 DEF Popped, TickedIndex, Ticked
<1>8. Popped(idx, found, TimerFires(idx, now) \cup DiscoverFires(timed, now))
  BY <1>6, <1>7 DEF Popped
<1> QED
  BY <1>5, <1>8 DEF found
---------------------------------------------------------------------------
(* The index follows the notes.                                            *)

\* The reminders of note p are those of `live', each with the same line.
Shows(idx, live, p) ==
  /\ {id \in DOMAIN idx : id.path = p} = DOMAIN live
  /\ \A id \in DOMAIN live : idx[id].anchor = live[id].anchor /\ idx[id].print = live[id].print

\* Every reminder that may fire is due when its token says.
Dated(idx, time) ==
  \A id \in DOMAIN idx : idx[id].state # "stale" => idx[id].due = DueAt[id.tok][time]

\* The live tokens of note p on disk.
LiveIn(p) == ScanFile(p, OnDisk(applied.vault)[p], applied.time, applied.lead)

\* The same ids, with the same lines: what all but merges keep.
SameLines(a, b) ==
  DOMAIN b = DOMAIN a /\ \A id \in DOMAIN a : b[id].anchor = a[id].anchor /\ b[id].print = a[id].print

\* What a watch that does not run has pending: nothing.  It is what makes the
\* paths of `unseen' the only ones that nobody will be told about.
WatchQuiet ==
  /\ ~watching => touched = {} /\ ~coarse
  /\ needsRearm \/ pc = "arming" => ~watching

NotesTracked ==
  Active /\ ~coarse => \A p \in Paths \ (touched \cup unseen) : Shows(index, LiveIn(p), p)

Tracking ==
  /\ WatchQuiet
  /\ NotesTracked
  /\ Active => Dated(index, applied.time)

\* The fields of a scanned reminder.
LEMMA ScanFields ==
  ASSUME NEW p, NEW content, NEW time, NEW lead,
         NEW id \in DOMAIN ScanFile(p, content, time, lead)
  PROVE  LET r == ScanFile(p, content, time, lead)[id]
         IN  /\ id.path = p
             /\ r.anchor = content[LineNamed(content, id)].anchor
             /\ r.print = TextOf(content)
             /\ r.state = "scheduled"
             /\ r.last = NoTime
             /\ r.due = DueAt[id.tok][time]
             /\ r.fire = DueAt[id.tok][time] - lead * Minute
<1> DEFINE r == ScanFile(p, content, time, lead)[id]
           k == LineNamed(content, id)
<1>1. PICK i \in Live(content) : id = TokenId(p, content, i)
  BY DEF ScanFile
<1>2. content[k].tok = id.tok
  BY <1>1, LineNamedLive DEF TokenId
<1>3. r = FreshReminder(content, k, time, lead)
  BY DEF ScanFile
<1>4. FreshReminder(content, k, time, lead) =
        [anchor |-> content[k].anchor, print |-> TextOf(content), uid |-> content[k].uid,
         state |-> "scheduled", due |-> DueAt[content[k].tok][time],
         fire |-> DueAt[content[k].tok][time] - lead * Minute, last |-> NoTime]
  BY DEF FreshReminder
<1>5. id.path = p
  BY <1>1 DEF TokenId
<1> HIDE DEF k, r
<1> QED
  BY <1>2, <1>3, <1>4, <1>5 DEF k, r

\* Settings change nothing of what is tracked.
LEMMA ScanSameLines ==
  ASSUME NEW p, NEW content, NEW time, NEW lead, NEW time2, NEW lead2
  PROVE  SameLines(ScanFile(p, content, time, lead), ScanFile(p, content, time2, lead2))
<1>1. DOMAIN ScanFile(p, content, time, lead) = DOMAIN ScanFile(p, content, time2, lead2)
  BY DEF ScanFile
<1> QED
  BY <1>1, ScanFields DEF SameLines

LEMMA SameLinesShows ==
  ASSUME NEW a, NEW b, SameLines(a, b), NEW live, NEW p, Shows(a, live, p)
  PROVE  Shows(b, live, p)
BY DEF SameLines, Shows

LEMMA ShowsSameLines ==
  ASSUME NEW a, NEW live, NEW live2, SameLines(live, live2), NEW p, Shows(a, live, p)
  PROVE  Shows(a, live2, p)
BY DEF SameLines, Shows

LEMMA TickedSameLines ==
  ASSUME NEW a, NEW b, TickedIndex(a, b)
  PROVE  SameLines(a, b)
BY DEF TickedIndex, Ticked, SameLines

LEMMA TickedDated ==
  ASSUME NEW a, NEW b, TickedIndex(a, b), NEW time, Dated(a, time)
  PROVE  Dated(b, time)
BY DEF TickedIndex, Ticked, Dated

\* What carrying keeps of the fresh reminder, and what it takes.
LEMMA CarryFields ==
  ASSUME NEW r \in Reminders, NEW fresh \in Reminders
  PROVE  /\ Carry(r, fresh).anchor = fresh.anchor /\ Carry(r, fresh).print = fresh.print
         /\ Carry(r, fresh).due = fresh.due
         /\ \/ ~CanApplyTo(r, fresh) /\ Carry(r, fresh) = fresh
            \/ /\ CanApplyTo(r, fresh)
               /\ Carry(r, fresh).state = r.state /\ Carry(r, fresh).fire = r.fire
               /\ Carry(r, fresh).last = r.last
BY DEF Carry, Reminders

\* A merge has the ids and lines of the fresh index (merge.rs:49-146).
LEMMA MergeSameLines ==
  ASSUME NEW prior, IsIndex(prior), NEW fresh, IsIndex(fresh)
  PROVE  /\ SameLines(fresh, Merge(prior, fresh))
         /\ \A c \in DOMAIN fresh : Merge(prior, fresh)[c].due = fresh[c].due
<1>1. DOMAIN Merge(prior, fresh) = DOMAIN fresh
  BY DEF Merge
<1>2. ASSUME NEW c \in DOMAIN fresh
      PROVE  /\ Merge(prior, fresh)[c].anchor = fresh[c].anchor
             /\ Merge(prior, fresh)[c].print = fresh[c].print
             /\ Merge(prior, fresh)[c].due = fresh[c].due
  <2>1. fresh[c] \in Reminders
    BY DEF IsIndex
  <2>2. \A id \in Claimants(prior, fresh, c) : prior[id] \in Reminders
    BY DEF Claimants, SameContent, IsIndex
  <2> QED
    BY <2>1, <2>2, MergeChoice, CarryFields
<1> QED
  BY <1>1, <1>2 DEF SameLines

LEMMA MergedTyped ==
  ASSUME NEW prior, IsIndex(prior), NEW fresh, IsIndex(fresh)
  PROVE  IsIndex(Merge(prior, fresh))
<1>1. ASSUME NEW c \in DOMAIN fresh
      PROVE  Merge(prior, fresh)[c] \in Reminders
  <2>1. fresh[c] \in Reminders
    BY DEF IsIndex
  <2>2. \A id \in Claimants(prior, fresh, c) : prior[id] \in Reminders
    BY DEF Claimants, SameContent, IsIndex
  <2>3. \A r \in Reminders : Carry(r, fresh[c]) \in Reminders
    BY <2>1 DEF Carry, Reminders
  <2> QED
    BY <2>1, <2>2, <2>3, MergeChoice
<1> QED
  BY <1>1 DEF IsIndex, Merge

\* A merge of two indexes that are dated alike is dated.
LEMMA MergeDated ==
  ASSUME NEW prior, IsIndex(prior), NEW fresh, IsIndex(fresh),
         NEW time, Dated(prior, time), Dated(fresh, time)
  PROVE  Dated(Merge(prior, fresh), time)
<1> SUFFICES ASSUME NEW c \in DOMAIN fresh, Merge(prior, fresh)[c].state # "stale"
             PROVE  Merge(prior, fresh)[c].due = DueAt[c.tok][time]
  BY DEF Dated, Merge
<1>1. fresh[c] \in Reminders
  BY DEF IsIndex
<1>2. CASE Merge(prior, fresh)[c] = fresh[c]
  BY <1>2 DEF Dated
<1>3. CASE \E id \in Claimants(prior, fresh, c) : Merge(prior, fresh)[c] = Carry(prior[id], fresh[c])
  <2>1. PICK id \in Claimants(prior, fresh, c) : Merge(prior, fresh)[c] = Carry(prior[id], fresh[c])
    BY <1>3
  <2>2. id \in DOMAIN prior /\ id.tok = c.tok /\ prior[id] \in Reminders
    BY DEF Claimants, SameContent, IsIndex
  <2>3. CASE Carry(prior[id], fresh[c]) = fresh[c]
    BY <2>1, <2>3 DEF Dated
  <2>4. CASE CanApplyTo(prior[id], fresh[c]) /\ Carry(prior[id], fresh[c]).state = prior[id].state
    <3>1. prior[id].due = DueAt[c.tok][time]
      BY <2>1, <2>2, <2>4 DEF Dated
    <3>2. prior[id].due = fresh[c].due
      BY <2>4 DEF CanApplyTo
    <3> QED
      BY <1>1, <2>1, <2>2, <3>1, <3>2, CarryFields
  <2> QED
    BY <1>1, <2>2, <2>3, <2>4, CarryFields
<1> QED
  BY <1>2, <1>3, MergeChoice

\* The reminders of note p are exactly those of `part'.
HasPart(idx, p, part) ==
  /\ {id \in DOMAIN idx : id.path = p} = DOMAIN part
  /\ \A id \in DOMAIN part : idx[id] = part[id]

\* The ids of one note in a joined index.
LEMMA JoinedNote ==
  ASSUME NEW f, \A q \in DOMAIN f : \A id \in DOMAIN f[q] : id.path = q, NEW p \in DOMAIN f
  PROVE  HasPart(JoinNotes(f), p, f[p])
<1>1. DOMAIN JoinNotes(f) = UNION {DOMAIN f[q] : q \in DOMAIN f}
  BY DEF JoinNotes
<1>2. \A id \in DOMAIN JoinNotes(f) : JoinNotes(f)[id] = f[id.path][id]
  BY DEF JoinNotes
<1>3. ASSUME NEW id \in DOMAIN JoinNotes(f), id.path = p
      PROVE  id \in DOMAIN f[p]
  <2>1. PICK q \in DOMAIN f : id \in DOMAIN f[q]
    BY <1>1
  <2> QED
    BY <1>3, <2>1
<1>4. ASSUME NEW id \in DOMAIN f[p]
      PROVE  id \in DOMAIN JoinNotes(f) /\ id.path = p
  BY <1>1
<1> QED
  BY <1>2, <1>3, <1>4 DEF HasPart

LEMMA ScanVaultNote ==
  ASSUME NEW files, NEW time, NEW lead, NEW p \in DOMAIN files
  PROVE  HasPart(ScanVault(files, time, lead), p, ScanFile(p, files[p], time, lead))
<1> DEFINE f == [q \in DOMAIN files |-> ScanFile(q, files[q], time, lead)]
<1>1. DOMAIN f = DOMAIN files /\ \A q \in DOMAIN f : \A id \in DOMAIN f[q] : id.path = q
  BY ScanFields
<1>2. f[p] = ScanFile(p, files[p], time, lead)
  OBVIOUS
<1>3. ScanVault(files, time, lead) = JoinNotes(f)
  BY DEF ScanVault
<1> HIDE DEF f
<1> QED
  BY <1>1, <1>2, <1>3, JoinedNote

LEMMA RescanNote ==
  ASSUME NEW files, NEW prior, NEW changed, NEW time, NEW lead, NEW p \in DOMAIN files
  PROVE  HasPart(RescanChangedFiles(files, prior, changed, time, lead), p,
                 IF p \in changed THEN ScanFile(p, files[p], time, lead) ELSE RemindersOf(prior, p))
<1> DEFINE f == [q \in DOMAIN files |-> IF q \in changed THEN ScanFile(q, files[q], time, lead)
                                                        ELSE RemindersOf(prior, q)]
<1>1. \A q \in DOMAIN f : \A id \in DOMAIN f[q] : id.path = q
  <2>1. \A q : \A id \in DOMAIN RemindersOf(prior, q) : id.path = q
    BY DEF RemindersOf
  <2>2. \A q \in DOMAIN f : f[q] = IF q \in changed THEN ScanFile(q, files[q], time, lead)
                                                    ELSE RemindersOf(prior, q)
    OBVIOUS
  <2> HIDE DEF f
  <2> QED
    BY <2>1, <2>2, ScanFields
<1>2. DOMAIN f = DOMAIN files
  OBVIOUS
<1>3. f[p] = IF p \in changed THEN ScanFile(p, files[p], time, lead) ELSE RemindersOf(prior, p)
  OBVIOUS
<1>4. RescanChangedFiles(files, prior, changed, time, lead) = JoinNotes(f)
  BY DEF RescanChangedFiles
<1> HIDE DEF f
<1> QED
  BY <1>1, <1>2, <1>3, <1>4, JoinedNote
---------------------------------------------------------------------------
(* Every action keeps the tracking.                                        *)

\* What is on disk changes only with the notes and the mounts.
LEMMA SameDisk ==
  ASSUME UNCHANGED <<notes, mounted>>, NEW v
  PROVE  OnDisk(v)' = OnDisk(v)
BY DEF OnDisk

LEMMA TrackingAside ==
  ASSUME Tracking, UNCHANGED <<notes, mounted, applied, index, watch, unseen>>,
         pc' = pc \/ pc' # "arming"
  PROVE  Tracking'
<1>1. WatchQuiet'
  BY DEF Tracking, WatchQuiet, watch
<1>2. \A p : LiveIn(p)' = LiveIn(p)
  BY DEF LiveIn, OnDisk
<1>3. NotesTracked'
  BY <1>2 DEF Tracking, NotesTracked, Active, watch
<1> QED
  BY <1>1, <1>3 DEF Tracking, Active

LEMMA TrackingIdle ==
  ASSUME Deactivate, pc' # "arming"
  PROVE  Tracking'
BY DEF Deactivate, StopWatch, Tracking, WatchQuiet, NotesTracked, Active

\* A watch that is armed again had nothing pending.
LEMMA RearmQuiet ==
  ASSUME WatchQuiet, coarse \in BOOLEAN, RearmIfNeeded \/ (pc = "arming" /\ StartWatch), pc' # "arming"
  PROVE  WatchQuiet' /\ touched' = touched /\ coarse' = coarse
<1>1. CASE UNCHANGED watch
  BY <1>1 DEF WatchQuiet, watch
<1>2. CASE StartWatch /\ (needsRearm \/ pc = "arming")
  <2>1. touched = {} /\ coarse = FALSE
    BY <1>2 DEF WatchQuiet
  <2> QED
    BY <1>2 DEF WatchQuiet, StartWatch, StopWatch
<1> QED
  BY <1>1, <1>2 DEF RearmIfNeeded

\* Operations that keep the ids and the lines, under any settings of the vault.
LEMMA LinesKept ==
  ASSUME NotesTracked, Active, UNCHANGED <<notes, mounted, touched, coarse, unseen>>,
         applied'.vault = applied.vault, SameLines(index, index')
  PROVE  NotesTracked'
<1> SUFFICES ASSUME ~coarse, NEW p \in Paths \ (touched \cup unseen)
             PROVE  Shows(index', LiveIn(p)', p)
  BY DEF NotesTracked
<1>1. Shows(index, LiveIn(p), p)
  BY DEF NotesTracked
<1>2. SameLines(LiveIn(p), LiveIn(p)')
  BY SameDisk, ScanSameLines DEF LiveIn
<1> QED
  BY <1>1, <1>2, SameLinesShows, ShowsSameLines

\* Under other settings of the same vault every reminder that may fire is dated anew.
LEMMA RederiveTracks ==
  ASSUME NEW idx, IsIndex(idx), NEW time, NEW lead
  PROVE  SameLines(idx, Rederive(idx, time, lead)) /\ Dated(Rederive(idx, time, lead), time)
<1>1. ASSUME NEW id \in DOMAIN idx
      PROVE  LET q == RederiveOne(idx[id], id, time, lead)
             IN  /\ q.anchor = idx[id].anchor /\ q.print = idx[id].print
                 /\ q.state # "stale" => q.due = DueAt[id.tok][time]
  <2>1. idx[id] \in Reminders
    BY DEF IsIndex
  <2> DEFINE due == DueAt[id.tok][time]
             fire == due - lead * Minute
  <2>2. RederiveOne(idx[id], id, time, lead) =
          IF idx[id].state = "stale" \/ (idx[id].due = due /\ idx[id].fire = fire) THEN idx[id]
          ELSE [idx[id] EXCEPT !.due = due, !.fire = fire, !.state = "scheduled", !.last = NoTime]
    BY DEF RederiveOne
  <2> HIDE DEF due, fire
  <2>3. LET q == RederiveOne(idx[id], id, time, lead)
        IN  /\ q.anchor = idx[id].anchor /\ q.print = idx[id].print
            /\ q.state # "stale" => q.due = due
    BY <2>1, <2>2 DEF Reminders
  <2> QED
    BY <2>3 DEF due
<1> QED
  BY <1>1 DEF SameLines, Dated, Rederive

LEMMA SettingsTracking ==
  ASSUME Inv, Tracking, SettingsRederived
  PROVE  Tracking'
<1> DEFINE idx == Rederive(index, configFile.time, configFile.lead)
<1>1. /\ UNCHANGED <<notes, mounted, unseen>> /\ Active /\ pc' = "loop" /\ RearmIfNeeded
      /\ applied' = configFile /\ applied.vault = configFile.vault
      /\ index' = Discover(idx, clock)
  BY DEF SettingsRederived, ReloadsVault, DiscoverAndDispatch, Dispatch, world
<1>2. WatchQuiet' /\ touched' = touched /\ coarse' = coarse
  BY <1>1, RearmQuiet DEF Tracking, Inv, TypeOK
<1>3. SameLines(index, idx) /\ Dated(idx, configFile.time)
  BY RederiveTracks DEF Inv, TypeOK
<1>4. TickedIndex(idx, index')
  <2>1. clock \in Int /\ configFile.time \in Times /\ configFile.lead \in Nat
    BY <1>1, ConfigFields DEF SettingsRederived, ReloadsVault, Inv, TypeOK
  <2>2. IsIndex(idx)
    BY <2>1, RederiveSound DEF SoundIndex, Inv, IndexesSound
  <2> HIDE DEF idx
  <2> QED
    BY <1>1, <2>1, <2>2, DiscoverTicks
<1> HIDE DEF idx
<1>5. SameLines(index, index') /\ Dated(index', configFile.time)
  <2>1. SameLines(idx, index') /\ Dated(index', configFile.time)
    BY <1>3, <1>4, TickedSameLines, TickedDated
  <2> QED
    BY <1>3, <2>1 DEF SameLines
<1>6. NotesTracked'
  BY <1>1, <1>2, <1>5, LinesKept DEF Tracking
<1> QED
  BY <1>1, <1>2, <1>5, <1>6 DEF Tracking
\* A full scan of the active vault shows every note and is dated.
LEMMA ScanTracks ==
  ASSUME NEW files, DOMAIN files = Paths, NEW time, NEW lead,
         NEW scan, scan = ScanVault(files, time, lead)
  PROVE  /\ \A p \in Paths : Shows(scan, ScanFile(p, files[p], time, lead), p)
         /\ \A id \in DOMAIN scan : id.path \in Paths => scan[id].due = DueAt[id.tok][time]
<1>1. \A p \in Paths : HasPart(scan, p, ScanFile(p, files[p], time, lead))
  BY ScanVaultNote
<1>2. ASSUME NEW p \in Paths
      PROVE  Shows(scan, ScanFile(p, files[p], time, lead), p)
  BY <1>1 DEF HasPart, Shows
<1>3. ASSUME NEW id \in DOMAIN scan, id.path \in Paths
      PROVE  scan[id].due = DueAt[id.tok][time]
  <2>1. id \in DOMAIN ScanFile(id.path, files[id.path], time, lead)
    BY <1>1, <1>3 DEF HasPart
  <2>2. scan[id] = ScanFile(id.path, files[id.path], time, lead)[id]
    BY <1>1, <1>3, <2>1 DEF HasPart
  <2> QED
    BY <2>1, <2>2, ScanFields
<1> QED
  BY <1>2, <1>3

LEMMA ActivateTracking ==
  ASSUME Inv, Tracking, Activate
  PROVE  Tracking'
<1> DEFINE v == configFile.vault
           files == OnDisk(v)
           scan == ScanVault(files, configFile.time, configFile.lead)
           merged == Merge(indexDisk[v], scan)
<1>1. /\ UNCHANGED <<notes, mounted>> /\ pc' = "arming" /\ applied' = configFile
      /\ configFile \in Configs /\ index' = merged
      /\ watching' = FALSE /\ touched' = {} /\ coarse' = FALSE /\ needsRearm' = FALSE
  BY DEF Activate, ReloadsVault, StopWatch, world
<1>2. v \in Vaults /\ configFile.time \in Times /\ configFile.lead \in Nat /\ clock \in Int
  BY <1>1, ConfigFields DEF Inv, TypeOK
<1>3. DOMAIN files = Paths /\ \A p \in Paths : IsNote(files[p])
  BY <1>2, OnDiskNotes DEF Inv
<1>4. IsIndex(scan) /\ IsIndex(indexDisk[v])
  BY <1>2, <1>3, ScanVaultSound DEF SoundIndex, Inv, TypeOK
<1>5. /\ \A p \in Paths : Shows(scan, ScanFile(p, files[p], configFile.time, configFile.lead), p)
      /\ \A id \in DOMAIN scan : scan[id].due = DueAt[id.tok][configFile.time]
  <2>1. \A id \in DOMAIN scan : id.path \in Paths
    BY <1>4 DEF IsIndex, Ids
  <2> HIDE DEF files, v
  <2> QED
    BY <1>3, <2>1, ScanTracks
<1>6. \A p \in Paths : LiveIn(p)' = ScanFile(p, files[p], configFile.time, configFile.lead)
  BY <1>1, SameDisk DEF LiveIn
<1> HIDE DEF files, v, scan
<1>7. SameLines(scan, merged) /\ \A c \in DOMAIN scan : merged[c].due = scan[c].due
  BY <1>4, MergeSameLines
<1> HIDE DEF merged
<1>8. NotesTracked'
  <2> SUFFICES ASSUME NEW p \in Paths PROVE Shows(index', LiveIn(p)', p)
    BY DEF NotesTracked
  <2> QED
    BY <1>1, <1>5, <1>6, <1>7, SameLinesShows
<1>9. Dated(index', configFile.time)
  BY <1>1, <1>5, <1>7 DEF Dated, SameLines
<1> QED
  BY <1>1, <1>8, <1>9 DEF Tracking, WatchQuiet

LEMMA ArmTracking ==
  ASSUME Inv, Tracking, Arm
  PROVE  Tracking'
<1>1. /\ UNCHANGED <<notes, mounted, applied, unseen>> /\ Active /\ pc = "arming" /\ pc' = "loop"
      /\ StartWatch /\ index' = Discover(index, clock)
  BY DEF Arm, DiscoverAndDispatch, Dispatch, world, Inv, Control
<1>2. WatchQuiet' /\ touched' = touched /\ coarse' = coarse
  BY <1>1, RearmQuiet DEF Tracking, Inv, TypeOK
<1>3. TickedIndex(index, index')
  BY <1>1, DiscoverTicks DEF Inv, TypeOK
<1>4. NotesTracked'
  BY <1>1, <1>2, <1>3, TickedSameLines, LinesKept DEF Tracking
<1> QED
  BY <1>1, <1>2, <1>3, <1>4, TickedDated DEF Tracking

LEMMA TickTracking ==
  ASSUME Inv, Tracking, ScheduledWake \/ SafetyTick \/ Resume
  PROVE  Tracking'
<1>1. /\ UNCHANGED <<notes, mounted, applied, watch, unseen>> /\ pc = "loop" /\ pc' # "arming" /\ OnTick
  BY DEF ScheduledWake, SafetyTick, Resume, Ready, world, history
<1>2. CASE ~Active
  BY <1>1, <1>2, TrackingAside DEF OnTick
<1>3. CASE Active
  <2>1. index' = Discover(RunTimers(index, clock), clock)
    BY <1>1, <1>3 DEF OnTick, Dispatch
  <2>2. TickedIndex(index, index')
    <3>1. clock \in Int /\ SoundIndex(index, clock)
      BY DEF Inv, TypeOK, IndexesSound
    <3> DEFINE timed == RunTimers(index, clock)
    <3>2. TickedIndex(index, Discover(timed, clock))
      BY <3>1, TickTicks
    <3> QED
      BY <2>1, <3>2
  <2>3. NotesTracked'
    BY <1>1, <1>3, <2>2, TickedSameLines, LinesKept DEF Tracking, watch
  <2>4. WatchQuiet'
    BY <1>1 DEF Tracking, WatchQuiet, watch
  <2> QED
    BY <1>1, <1>3, <2>2, <2>3, <2>4, TickedDated DEF Tracking
<1> QED
  BY <1>2, <1>3

\* A snooze moves neither a reminder's line nor its due time.
LEMMA SnoozeKeeps ==
  ASSUME NEW r \in Reminders, NEW m \in LockedSnoozeMinutes, NEW now \in Int
  PROVE  LET q == ApplySnooze(r, m, now).to
         IN  /\ q.anchor = r.anchor /\ q.print = r.print /\ q.due = r.due
             /\ q.state = "stale" <=> r.state = "stale"
<1> DEFINE Keeps(q) == /\ q.anchor = r.anchor /\ q.print = r.print /\ q.due = r.due
                       /\ q.state = "stale" <=> r.state = "stale"
<1>1. r.state # "stale" => Keeps(SnoozeBefore(r, m, now).to)
  BY DEF SnoozeBefore, Reschedule, Reminders
<1>2. r.state # "stale" => Keeps(SnoozeAtTime(r, now).to)
  BY DEF SnoozeAtTime, Reschedule, MarkDue, MarkNotified, Reminders
<1>3. ApplySnooze(r, m, now).to = IF r.state = "stale" THEN r
                                  ELSE IF m = 0 THEN SnoozeAtTime(r, now).to ELSE SnoozeBefore(r, m, now).to
  BY DEF ApplySnooze
<1>4. Keeps(ApplySnooze(r, m, now).to)
  <2> HIDE DEF Keeps
  <2> QED
    BY <1>1, <1>2, <1>3 DEF Keeps
<1> QED
  BY <1>4

LEMMA SnoozeTracking ==
  ASSUME Inv, Tracking, NEW id, NEW m \in LockedSnoozeMinutes, Snooze(id, m)
  PROVE  Tracking'
<1> DEFINE to == ApplySnooze(index[id], m, clock).to
<1>1. /\ UNCHANGED <<notes, mounted, applied, pc, watch, unseen>> /\ Active /\ id \in DOMAIN index
      /\ index' = [index EXCEPT ![id] = to]
  BY DEF Snooze, Dispatch, world
<1>2. /\ to.anchor = index[id].anchor /\ to.print = index[id].print /\ to.due = index[id].due
      /\ to.state = "stale" <=> index[id].state = "stale"
  BY <1>1, SnoozeKeeps DEF Inv, TypeOK, IsIndex
<1> HIDE DEF to
<1>3. SameLines(index, index')
  BY <1>1, <1>2 DEF SameLines
<1>4. NotesTracked'
  BY <1>1, <1>3, LinesKept DEF Tracking, watch
<1>5. Dated(index', applied.time)
  BY <1>1, <1>2 DEF Tracking, Dated
<1>6. WatchQuiet'
  BY <1>1 DEF Tracking, WatchQuiet, watch
<1> QED
  BY <1>1, <1>4, <1>5, <1>6 DEF Tracking
\* What a batch reads again, and what it leaves as it was.
LEMMA RescanTracks ==
  ASSUME Inv, Tracking, Active, NEW fresh, fresh = Rescan
  PROVE  /\ IsIndex(fresh)
         /\ \A p \in Paths : coarse \/ p \in touched => Shows(fresh, LiveIn(p), p)
         /\ ~coarse => \A p \in Paths \ touched : Shows(fresh, RemindersOf(index, p), p)
         /\ Dated(fresh, applied.time)
<1> DEFINE now == OnDisk(applied.vault)
<1>1. /\ applied.vault \in Vaults /\ applied.time \in Times /\ applied.lead \in Nat /\ clock \in Int
      /\ SoundIndex(index, clock) /\ coarse \in BOOLEAN
  BY ActiveConfig, ConfigFields DEF Inv, TypeOK, IndexesSound
<1>2. DOMAIN now = Paths /\ \A p \in Paths : IsNote(now[p])
  BY <1>1, OnDiskNotes DEF Inv
<1>3. \A p : LiveIn(p) = ScanFile(p, now[p], applied.time, applied.lead)
  BY DEF LiveIn
<1> HIDE DEF now
<1>4. CASE coarse
  <2>1. fresh = ScanVault(now, applied.time, applied.lead)
    BY <1>4 DEF Rescan, now
  <2>2. IsIndex(fresh)
    BY <1>1, <1>2, <2>1, ScanVaultSound DEF SoundIndex
  <2>3. \A id \in DOMAIN fresh : id.path \in Paths
    BY <2>2 DEF IsIndex, Ids
  <2>4. /\ \A p \in Paths : Shows(fresh, ScanFile(p, now[p], applied.time, applied.lead), p)
        /\ \A id \in DOMAIN fresh : fresh[id].due = DueAt[id.tok][applied.time]
    BY <1>2, <2>1, <2>3, ScanTracks
  <2> QED
    BY <1>3, <1>4, <2>2, <2>4 DEF Dated
<1>5. CASE ~coarse
  <2>1. fresh = RescanChangedFiles(now, index, touched, applied.time, applied.lead)
    BY <1>5 DEF Rescan, now
  <2>2. IsIndex(fresh)
    BY <1>1, <1>2, <2>1, RescanChangedFilesSound DEF SoundIndex
  <2>3. \A p \in Paths : HasPart(fresh, p, IF p \in touched THEN LiveIn(p) ELSE RemindersOf(index, p))
    BY <1>2, <1>3, <2>1, RescanNote
  <2>4. ASSUME NEW id \in DOMAIN fresh, fresh[id].state # "stale"
        PROVE  fresh[id].due = DueAt[id.tok][applied.time]
    <3>1. id.path \in Paths
      BY <2>2 DEF IsIndex, Ids
    <3>2. CASE id.path \in touched
      <4>1. HasPart(fresh, id.path, LiveIn(id.path))
        BY <2>3, <3>1, <3>2
      <4>2. id \in DOMAIN LiveIn(id.path) /\ fresh[id] = LiveIn(id.path)[id]
        BY <4>1 DEF HasPart
      <4> QED
        BY <4>2, ScanFields DEF LiveIn
    <3>3. CASE id.path \notin touched
      <4>1. HasPart(fresh, id.path, RemindersOf(index, id.path))
        BY <2>3, <3>1, <3>3
      <4>2. id \in DOMAIN RemindersOf(index, id.path) /\ fresh[id] = RemindersOf(index, id.path)[id]
        BY <4>1 DEF HasPart
      <4>3. id \in DOMAIN index /\ fresh[id] = index[id]
        BY <4>2 DEF RemindersOf
      <4> QED
        BY <2>4, <4>3 DEF Tracking, Dated
    <3> QED
      BY <3>2, <3>3
  <2>5. \A p \in Paths : Shows(fresh, IF p \in touched THEN LiveIn(p) ELSE RemindersOf(index, p), p)
    BY <2>3 DEF HasPart, Shows
  <2> QED
    BY <1>5, <2>2, <2>4, <2>5 DEF Dated
<1> QED
  BY <1>1, <1>4, <1>5

LEMMA HandleBatchTracking ==
  ASSUME Inv, Tracking, HandleBatch
  PROVE  Tracking'
<1> DEFINE fresh == Rescan
           merged == Merge(index, fresh)
<1>1. /\ UNCHANGED <<notes, mounted, applied, pc, watching, needsRearm>> /\ Active /\ pc = "loop"
      /\ touched' = {} /\ coarse' = FALSE
      /\ unseen' = IF coarse THEN {} ELSE unseen \ touched
      /\ index' = Discover(merged, clock)
  BY DEF HandleBatch, Ready, DiscoverAndDispatch, Dispatch, world
<1>2. /\ IsIndex(fresh)
      /\ \A p \in Paths : coarse \/ p \in touched => Shows(fresh, LiveIn(p), p)
      /\ ~coarse => \A p \in Paths \ touched : Shows(fresh, RemindersOf(index, p), p)
      /\ Dated(fresh, applied.time)
  <2> HIDE DEF fresh
  <2> QED
    BY <1>1, RescanTracks DEF fresh
<1> HIDE DEF fresh
<1>3. IsIndex(index) /\ clock \in Int /\ SoundIndex(index, clock) /\ coarse \in BOOLEAN
  BY DEF Inv, TypeOK, IndexesSound
<1>4. SameLines(fresh, merged) /\ Dated(merged, applied.time)
  BY <1>1, <1>2, <1>3, MergeSameLines, MergeDated DEF Tracking
<1>5. IsIndex(merged)
  BY <1>2, <1>3, MergedTyped
<1> HIDE DEF merged
<1>6. TickedIndex(merged, index')
  BY <1>1, <1>3, <1>5, DiscoverTicks
<1>7. Dated(index', applied.time)
  BY <1>4, <1>6, TickedDated
<1>8. SameLines(fresh, index')
  BY <1>4, <1>6, TickedSameLines DEF SameLines
<1>9. NotesTracked'
  <2> SUFFICES ASSUME NEW p \in Paths \ unseen' PROVE Shows(index', LiveIn(p)', p)
    BY <1>1 DEF NotesTracked
  <2>1. LiveIn(p)' = LiveIn(p)
    BY <1>1, SameDisk DEF LiveIn
  <2>2. CASE coarse \/ p \in touched
    BY <1>2, <1>8, <2>1, <2>2, SameLinesShows
  <2>3. CASE ~coarse /\ p \notin touched
    <3>1. Shows(index, LiveIn(p), p)
      BY <1>1, <2>3 DEF Tracking, NotesTracked
    <3>2. Shows(index', RemindersOf(index, p), p)
      BY <1>2, <1>8, <2>3, SameLinesShows
    <3>3. SameLines(RemindersOf(index, p), LiveIn(p))
      BY <3>1 DEF Shows, RemindersOf, SameLines
    <3> QED
      BY <2>1, <3>2, <3>3, ShowsSameLines
  <2> QED
    BY <1>3, <2>2, <2>3
<1>10. WatchQuiet'
  BY <1>1 DEF Tracking, WatchQuiet
<1> QED
  BY <1>1, <1>7, <1>9, <1>10 DEF Tracking
\* A reminder that is dropped although the scan would find it again is a path in
\* `unseen'; one that is marked stale keeps its line (daemon.rs:395-409).
LEMMA RemoveApplyTracking ==
  ASSUME Inv, Tracking, RemoveApply
  PROVE  Tracking'
<1>1. UNCHANGED <<notes, mounted, applied, pc, watch>>
  BY DEF RemoveApply, world
<1>2. CASE ~(Active /\ remove.id \in DOMAIN index)
  BY <1>1, <1>2, TrackingAside DEF RemoveApply
<1>3. CASE Active /\ remove.id \in DOMAIN index
  <2> DEFINE id == remove.id
             scan == ScanVault(OnDisk(applied.vault), applied.time, applied.lead)
  <2>1. /\ index' = ApplyRemoveResult(index, id, remove.result)
        /\ unseen' = IF remove.result = "removed" /\ id \in DOMAIN scan
                     THEN unseen \cup {id.path} ELSE unseen
    BY <1>3 DEF RemoveApply, Dispatch
  <2>2. WatchQuiet'
    BY <1>1 DEF Tracking, WatchQuiet, watch
  <2>3. id \in DOMAIN index /\ id.path \in Paths /\ index[id] \in Reminders
    BY <1>3 DEF Inv, TypeOK, IsIndex, Ids
  <2>4. CASE remove.result = "removed"
    <3>1. index' = [other \in DOMAIN index \ {id} |-> index[other]]
      BY <1>3, <2>1, <2>4 DEF ApplyRemoveResult, Drop
    <3>2. Dated(index', applied.time)
      BY <1>3, <3>1 DEF Tracking, Dated
    <3>3. NotesTracked'
      <4> SUFFICES ASSUME ~coarse, NEW p \in Paths \ (touched \cup unseen')
                   PROVE  Shows(index', LiveIn(p)', p)
        BY <1>1 DEF NotesTracked, watch
      <4>1. LiveIn(p)' = LiveIn(p)
        BY <1>1, SameDisk DEF LiveIn
      <4>2. Shows(index, LiveIn(p), p)
        BY <1>3, <2>1 DEF Tracking, NotesTracked
      <4>3. id.path # p
        <5> SUFFICES ASSUME id.path = p PROVE FALSE
          OBVIOUS
        <5>1. id \in DOMAIN LiveIn(p)
          BY <2>3, <4>2 DEF Shows
        <5>2. applied.vault \in Vaults
          BY <1>3, ActiveConfig, ConfigFields DEF Inv
        <5>3. DOMAIN OnDisk(applied.vault) = Paths
          BY <5>2, OnDiskNotes DEF Inv
        <5>4. HasPart(scan, p, LiveIn(p))
          BY <5>3, ScanVaultNote DEF LiveIn
        <5>5. id \in DOMAIN scan
          BY <5>1, <5>4 DEF HasPart
        <5> QED
          BY <2>1, <2>4, <5>5
      <4> HIDE DEF id
      <4>4. Shows(index', LiveIn(p), p)
        BY <3>1, <4>2, <4>3 DEF Shows
      <4> QED
        BY <4>1, <4>4
    <3> QED
      BY <1>1, <2>2, <3>2, <3>3 DEF Tracking
  <2>5. CASE remove.result # "removed"
    <3>1. index' = [index EXCEPT ![id].state = "stale"] /\ unseen' = unseen
      BY <1>3, <2>1, <2>5 DEF ApplyRemoveResult
    <3>2. /\ DOMAIN index' = DOMAIN index
          /\ \A k \in DOMAIN index : k # id => index'[k] = index[k]
          /\ index'[id] = [index[id] EXCEPT !.state = "stale"]
      BY <2>3, <3>1
    <3>3. /\ index'[id].anchor = index[id].anchor /\ index'[id].print = index[id].print
          /\ index'[id].state = "stale"
      BY <2>3, <3>2 DEF Reminders
    <3> HIDE DEF id
    <3>4. SameLines(index, index')
      BY <3>2, <3>3 DEF SameLines
    <3>5. Dated(index', applied.time)
      BY <1>3, <3>2, <3>3 DEF Tracking, Dated
    <3>6. NotesTracked'
      BY <1>1, <1>3, <3>1, <3>4, LinesKept DEF Tracking, watch
    <3> QED
      BY <1>1, <2>2, <3>5, <3>6 DEF Tracking
  <2> QED
    BY <2>4, <2>5
<1> QED
  BY <1>2, <1>3

\* A note that changes is one that the watch will tell of, or that it missed.
LEMMA NoteTracking ==
  ASSUME Inv, Tracking, NEW v \in Vaults, NEW p \in Paths, NEW content,
         SetNote(v, p, content), Noticed(v, p),
         UNCHANGED <<mounted, daemon, watching, needsRearm, coarse>>
  PROVE  Tracking'
<1>1. UNCHANGED <<pc, applied, index>>
  BY DEF daemon
<1>2. WatchQuiet'
  BY <1>1 DEF Tracking, WatchQuiet, Noticed
<1>3. notes' = [notes EXCEPT ![v][p] = content] /\ notes \in [Vaults -> [Paths -> Contents]]
  BY DEF SetNote, Inv, TypeOK
<1>4. ASSUME Active, NEW q \in Paths, ~(v = applied.vault /\ q = p)
      PROVE  LiveIn(q)' = LiveIn(q)
  <2>1. applied.vault \in Vaults
    BY <1>4, ActiveConfig, ConfigFields DEF Inv
  <2>2. notes'[applied.vault][q] = notes[applied.vault][q]
    BY <1>3, <1>4, <2>1
  <2>3. OnDisk(applied.vault)'[q] = OnDisk(applied.vault)[q]
    BY <1>1, <2>2 DEF OnDisk
  <2> QED
    BY <1>1, <2>3 DEF LiveIn
<1>5. NotesTracked'
  <2> SUFFICES ASSUME Active, ~coarse, NEW q \in Paths \ (touched' \cup unseen')
               PROVE  Shows(index, LiveIn(q)', q)
    BY <1>1 DEF NotesTracked, Active
  <2>1. q \notin touched \cup unseen
    BY DEF Noticed
  <2>2. ~(v = applied.vault /\ q = p)
    BY DEF Noticed
  <2> QED
    BY <1>4, <2>1, <2>2 DEF Tracking, NotesTracked
<1> QED
  BY <1>1, <1>2, <1>5 DEF Tracking, Active

LEMMA RemoveWorkerTracking ==
  ASSUME Inv, Tracking, NEW id, RemoveWorker(id)
  PROVE  Tracking'
<1>1. /\ UNCHANGED <<mounted, daemon, watching, needsRearm, coarse>>
      /\ Active /\ id \in DOMAIN index
      /\ \/ UNCHANGED <<notes, touched, unseen>>
         \/ \E content : SetNote(applied.vault, id.path, content) /\ Noticed(applied.vault, id.path)
  BY DEF RemoveWorker
<1>2. applied.vault \in Vaults /\ id.path \in Paths
  BY <1>1, ActiveConfig, ConfigFields DEF Inv, TypeOK, IsIndex, Ids
<1>3. CASE UNCHANGED <<notes, touched, unseen>>
  BY <1>1, <1>3, TrackingAside DEF watch, daemon
<1> QED
  BY <1>1, <1>2, <1>3, NoteTracking

LEMMA MountTracking ==
  ASSUME Inv, Tracking, NEW v, NEW S \in SUBSET Paths, MountChange(v, S)
  PROVE  Tracking'
<1>1. /\ UNCHANGED <<notes, pc, applied, index, watching, needsRearm, coarse>>
      /\ mounted' = (IF v \in mounted THEN mounted \ {v} ELSE mounted \cup {v})
      /\ IF Active /\ applied.vault = v
         THEN /\ touched' = IF watching THEN touched \cup S ELSE touched
              /\ unseen' = Paths
         ELSE UNCHANGED <<touched, unseen>>
  BY DEF MountChange, daemon
<1>2. WatchQuiet'
  BY <1>1 DEF Tracking, WatchQuiet
<1>3. NotesTracked'
  <2>1. CASE Active /\ applied.vault = v
    BY <1>1, <2>1 DEF NotesTracked
  <2>2. CASE Active /\ applied.vault # v
    <3>1. OnDisk(applied.vault)' = OnDisk(applied.vault)
      BY <1>1, <2>2 DEF OnDisk
    <3>2. \A p : LiveIn(p)' = LiveIn(p)
      BY <1>1, <3>1 DEF LiveIn
    <3> QED
      BY <1>1, <2>2, <3>2 DEF Tracking, NotesTracked, Active
  <2>3. CASE ~Active
    BY <1>1, <2>3 DEF NotesTracked, Active
  <2> QED
    BY <2>1, <2>2, <2>3
<1> QED
  BY <1>1, <1>2, <1>3 DEF Tracking, Active

LEMMA WatchErrorTracking ==
  ASSUME Tracking, WatchError
  PROVE  Tracking'
<1>1. /\ UNCHANGED <<pc, applied, index, watching, needsRearm, touched>>
      /\ coarse' = TRUE /\ watching
  BY DEF WatchError, daemon
<1> QED
  BY <1>1 DEF Tracking, WatchQuiet, NotesTracked, Active

LEMMA RestTracking ==
  ASSUME Inv, Tracking,
         \/ KeepLastKnownGood \/ NoChange \/ Restart \/ Advance \/ UNCHANGED vars
         \/ \E id \in outbox : Send(id)
         \/ \E file \in ConfigFiles : WriteConfig(file)
         \/ \E v \in Vaults : CorruptIndex(v)
  PROVE  Tracking'
<1>1. CASE NoChange
  <2>1. UNCHANGED <<notes, mounted, applied, index, unseen>> /\ RearmIfNeeded /\ pc' = "loop"
    BY <1>1 DEF NoChange, world, history
  <2>2. WatchQuiet' /\ touched' = touched /\ coarse' = coarse
    BY <2>1, RearmQuiet DEF Tracking, Inv, TypeOK
  <2>3. \A p : LiveIn(p)' = LiveIn(p)
    BY <2>1 DEF LiveIn, OnDisk
  <2> QED
    BY <2>1, <2>2, <2>3 DEF Tracking, NotesTracked, Active
<1>2. CASE ~NoChange
  <2>1. /\ UNCHANGED <<notes, mounted, applied, index, watch, unseen>>
        /\ pc' = pc \/ pc' # "arming"
    BY <1>2 DEF KeepLastKnownGood, Restart, Advance, Send, WriteConfig, CorruptIndex, vars,
                world, history, daemon
  <2> QED
    BY <2>1, TrackingAside
<1> QED
  BY <1>1, <1>2

LEMMA TrackingStep ==
  ASSUME Inv, Tracking, [Next]_vars
  PROVE  Tracking'
<1>1. CASE GoIdle \/ IdleOnInvalid \/ VaultUnavailable \/ Crash
  <2>1. Deactivate /\ pc' # "arming"
    BY <1>1 DEF GoIdle, IdleOnInvalid, VaultUnavailable, Crash
  <2> QED
    BY <2>1, TrackingIdle
<1>2. CASE Loop
  BY <1>1, <1>2, SettingsTracking, ActivateTracking, ArmTracking, HandleBatchTracking,
     TickTracking, RemoveApplyTracking, RestTracking DEF Loop
<1>3. CASE Requests
  BY <1>3, SnoozeTracking, RemoveWorkerTracking DEF Requests
<1>4. CASE \E v \in Vaults, p \in Paths, content \in Contents : EditNote(v, p, content)
  BY <1>4, NoteTracking DEF EditNote
<1>5. CASE World
  BY <1>1, <1>4, <1>5, MountTracking, WatchErrorTracking, RestTracking DEF World
<1> QED
  BY <1>2, <1>3, <1>5, RestTracking DEF Next

LEMMA TrackingAlways == Spec => [](Inv /\ Tracking)
<1>1. Init => Tracking
  BY DEF Init, Tracking, WatchQuiet, NotesTracked, Active
<1>2. Inv /\ Tracking /\ [Next]_vars => Tracking'
  BY TrackingStep
<1> QED
  BY <1>1, <1>2, Invariance, PTL DEF Spec

\* The index shows the notes, whatever the vaults, notes, settings and faults, and
\* with twins or without (ADR 003, scan.rs:85-128).
THEOREM IndexFollowsNotes == Spec => []IndexTracksNotes
<1>1. Inv /\ Tracking => IndexTracksNotes
  <2> SUFFICES ASSUME Inv, Tracking, Active, ~coarse, NEW p \in Paths \ (touched \cup unseen)
               PROVE  LET live == LiveIn(p)
                      IN  /\ {id \in DOMAIN index : id.path = p} = DOMAIN live
                          /\ \A id \in DOMAIN live :
                               /\ index[id].anchor = live[id].anchor
                               /\ index[id].print = live[id].print
                               /\ index[id].state # "stale" => index[id].due = live[id].due
    BY DEF IndexTracksNotes, LiveIn
  <2>1. Shows(index, LiveIn(p), p)
    BY DEF Tracking, NotesTracked
  <2>2. \A id \in DOMAIN LiveIn(p) : LiveIn(p)[id].due = DueAt[id.tok][applied.time]
    BY ScanFields DEF LiveIn
  <2> QED
    BY <2>1, <2>2 DEF Shows, Tracking, Dated
<1> QED
  BY <1>1, TrackingAlways, PTL
---------------------------------------------------------------------------
(* Notes without twins.  Two live tokens of one note with the same text    *)
(* cannot always be told apart, and a rescan then starts them afresh       *)
(* (merge.rs:14-18): what follows is about notes without such twins.       *)

NoTwins ==
  \A c \in Contents : \A i, k \in Live(c) : c[i].tok = c[k].tok => i = k

\* Without twins every token is the first of its text.
FirstOnly(idx) == \A id \in DOMAIN idx : id.ord = 0

LEMMA FirstOfItsText ==
  ASSUME NoTwins, NEW c \in Contents \cup {<< >>}, NEW i \in Live(c)
  PROVE  Ordinal(c, i) = 0
<1>1. c \in Contents
  BY DEF Live
<1>2. {j \in Live(c) : j < i /\ c[j].tok = c[i].tok} = {}
  <2> SUFFICES ASSUME NEW j \in Live(c), j < i, c[j].tok = c[i].tok PROVE FALSE
    OBVIOUS
  <2>1. j = i
    BY <1>1 DEF NoTwins
  <2>2. i \in Int
    <3>1. PICK n \in 0..MaxLines : c \in [1..n -> Lines]
      BY <1>1, DaemonAssumption DEF DaemonAssumption
    <3> QED
      BY <3>1, IndexAssumption DEF Live, IndexAssumption
  <2> QED
    BY <2>1, <2>2
<1> QED
  BY <1>2, FS_EmptySet DEF Ordinal

LEMMA ScanFirstOnly ==
  ASSUME NoTwins, NEW p, NEW c \in Contents \cup {<< >>}, NEW time, NEW lead
  PROVE  FirstOnly(ScanFile(p, c, time, lead))
<1>1. ASSUME NEW i \in Live(c) PROVE TokenId(p, c, i).ord = 0
  BY FirstOfItsText DEF TokenId
<1> QED
  BY <1>1 DEF ScanFile, FirstOnly

LEMMA OnDiskContents ==
  ASSUME TypeOK, NEW v \in Vaults, NEW p \in Paths
  PROVE  OnDisk(v)[p] \in Contents \cup {<< >>}
BY DEF OnDisk, TypeOK

LEMMA ScanVaultFirstOnly ==
  ASSUME NoTwins, TypeOK, NEW v \in Vaults, NEW time, NEW lead,
         IsIndex(ScanVault(OnDisk(v), time, lead))
  PROVE  FirstOnly(ScanVault(OnDisk(v), time, lead))
<1> DEFINE scan == ScanVault(OnDisk(v), time, lead)
<1> SUFFICES ASSUME NEW id \in DOMAIN scan PROVE id.ord = 0
  BY DEF FirstOnly
<1>1. id.path \in Paths
  BY DEF IsIndex, Ids
<1>2. HasPart(scan, id.path, ScanFile(id.path, OnDisk(v)[id.path], time, lead))
  BY <1>1, OnDiskNotes, ScanVaultNote
<1>3. id \in DOMAIN ScanFile(id.path, OnDisk(v)[id.path], time, lead)
  BY <1>2 DEF HasPart
<1>4. FirstOnly(ScanFile(id.path, OnDisk(v)[id.path], time, lead))
  BY <1>1, OnDiskContents, ScanFirstOnly
<1> QED
  BY <1>3, <1>4 DEF FirstOnly

LEMMA RescanFirstOnly ==
  ASSUME NoTwins, Inv, Active, FirstOnly(index), IsIndex(Rescan)
  PROVE  FirstOnly(Rescan)
<1> DEFINE files == OnDisk(applied.vault)
<1>1. applied.vault \in Vaults
  BY ActiveConfig, ConfigFields DEF Inv
<1>2. CASE coarse
  BY <1>1, <1>2, ScanVaultFirstOnly DEF Rescan, Inv
<1>3. CASE ~coarse
  <2> DEFINE part(p) == IF p \in touched THEN ScanFile(p, files[p], applied.time, applied.lead)
                                         ELSE RemindersOf(index, p)
  <2> SUFFICES ASSUME NEW id \in DOMAIN Rescan PROVE id.ord = 0
    BY DEF FirstOnly
  <2>1. id.path \in Paths
    BY DEF IsIndex, Ids
  <2>2. Rescan = RescanChangedFiles(files, index, touched, applied.time, applied.lead)
    BY <1>3 DEF Rescan
  <2>3. HasPart(Rescan, id.path, part(id.path))
    <3>1. DOMAIN files = Paths
      BY <1>1, OnDiskNotes DEF Inv
    <3> HIDE DEF files
    <3> QED
      BY <2>1, <2>2, <3>1, RescanNote
  <2>4. id \in DOMAIN part(id.path)
    BY <2>3 DEF HasPart
  <2>5. FirstOnly(ScanFile(id.path, files[id.path], applied.time, applied.lead))
    BY <1>1, <2>1, OnDiskContents, ScanFirstOnly DEF Inv
  <2>6. FirstOnly(RemindersOf(index, id.path))
    BY DEF FirstOnly, RemindersOf
  <2> QED
    BY <2>4, <2>5, <2>6 DEF FirstOnly
<1> QED
  BY <1>2, <1>3 DEF Inv, TypeOK

\* Without twins a reminder is claimed by its own id.
LEMMA MergeById ==
  ASSUME NEW prior, IsIndex(prior), FirstOnly(prior),
         NEW fresh, IsIndex(fresh), FirstOnly(fresh),
         NEW c \in DOMAIN fresh
  PROVE  Merge(prior, fresh)[c] = IF c \in DOMAIN prior THEN Carry(prior[c], fresh[c]) ELSE fresh[c]
<1>1. \A idx : IsIndex(idx) /\ FirstOnly(idx) => SameContent(idx, c) \subseteq {c}
  <2> SUFFICES ASSUME NEW idx, IsIndex(idx), FirstOnly(idx), NEW id \in DOMAIN idx,
                      id.path = c.path, id.tok = c.tok
               PROVE  id = c
    BY DEF SameContent
  <2>1. id \in Ids /\ c \in Ids /\ id.ord = c.ord
    BY DEF IsIndex, FirstOnly
  <2> QED
    BY <2>1 DEF Ids
<1>2. Claimants(prior, fresh, c) \subseteq {c}
  BY <1>1 DEF Claimants
<1>3. CASE c \notin DOMAIN prior
  <2>1. Claimants(prior, fresh, c) = {}
    BY <1>2, <1>3 DEF Claimants, SameContent
  <2> QED
    BY <1>3, <2>1 DEF Merge
<1>4. CASE c \in DOMAIN prior
  <2>1. /\ Cardinality(SameContent(prior, c)) <= 1 /\ Cardinality(SameContent(prior, c)) \in Nat
        /\ Cardinality(SameContent(fresh, c)) <= 1 /\ Cardinality(SameContent(fresh, c)) \in Nat
    BY <1>1, SingletonBound, FS_CardinalityType
  <2>2. Claims(prior, fresh, c) = {c}
    BY <2>1 DEF Claims, DuplicateKey
  <2>3. c \in SameContent(prior, c)
    BY <1>4 DEF SameContent
  <2>4. Claimants(prior, fresh, c) = {c}
    BY <1>2, <2>2, <2>3 DEF Claimants
  <2>5. c.ord = 0
    BY DEF FirstOnly
  <2>6. FirstClaim({c}) = c
    BY <2>5 DEF FirstClaim
  <2> QED
    BY <1>4, <2>4, <2>6 DEF Merge
<1> QED
  BY <1>3, <1>4
---------------------------------------------------------------------------
(* Stale reminders stay stale.                                             *)

StaleKept(a, b) ==
  \A id \in DOMAIN a \cap DOMAIN b :
    a[id].state = "stale" /\ b[id].due = a[id].due => b[id].state = "stale"

\* What the loop knows is on disk between handlers, or was lost with the file;
\* until a switch has armed its watch, the file is the one that was merged.
SavedState ==
  /\ FirstOnly(index) /\ \A v \in Vaults : FirstOnly(indexDisk[v])
  /\ Active /\ pc # "arming" =>
       indexDisk[applied.vault] = index \/ (Fault("corrupt") /\ indexDisk[applied.vault] = NoReminders)
  /\ pc = "arming" => StaleKept(indexDisk[applied.vault], index)

StaleStep == \A v \in Vaults : StaleKept(indexDisk[v], indexDisk'[v])

LEMMA StaleKeptRefl ==
  ASSUME NEW a
  PROVE  StaleKept(a, a) /\ StaleKept(NoReminders, a) /\ StaleKept(a, NoReminders)
BY DEF StaleKept, NoReminders

LEMMA TickedStale ==
  ASSUME NEW a, NEW b, NEW c, StaleKept(a, b), TickedIndex(b, c)
  PROVE  StaleKept(a, c)
BY DEF StaleKept, TickedIndex, Ticked

LEMMA TickedFirstOnly ==
  ASSUME NEW a, NEW b, TickedIndex(a, b), FirstOnly(a)
  PROVE  FirstOnly(b)
BY DEF TickedIndex, FirstOnly

LEMMA MergeFirstOnly ==
  ASSUME NEW prior, NEW fresh, FirstOnly(fresh)
  PROVE  FirstOnly(Merge(prior, fresh))
BY DEF Merge, FirstOnly

\* A rescan carries staleness: a stale state applies whatever the fire time
\* (merge.rs:165-180).
LEMMA MergeStale ==
  ASSUME NEW prior, IsIndex(prior), FirstOnly(prior), NEW fresh, IsIndex(fresh), FirstOnly(fresh)
  PROVE  StaleKept(prior, Merge(prior, fresh))
<1> SUFFICES ASSUME NEW c \in DOMAIN prior, c \in DOMAIN fresh, prior[c].state = "stale",
                    Merge(prior, fresh)[c].due = prior[c].due
             PROVE  Merge(prior, fresh)[c].state = "stale"
  BY DEF StaleKept, Merge
<1>1. prior[c] \in Reminders /\ fresh[c] \in Reminders
  BY DEF IsIndex
<1>2. Merge(prior, fresh)[c] = Carry(prior[c], fresh[c])
  BY MergeById
<1>3. CanApplyTo(prior[c], fresh[c])
  BY <1>1, <1>2, CarryFields DEF CanApplyTo, LooksLikeStaleBaselineFire
<1> QED
  BY <1>1, <1>2, <1>3, CarryFields

\* A handler that ends in a dispatch.
LEMMA DispatchSaves ==
  ASSUME ~Fault("indexWrite"), Inv, SavedState, Active,
         NEW fires, Dispatch(index', fires), FirstOnly(index'),
         StaleKept(indexDisk[applied.vault], index'),
         applied' # NoConfig, applied'.vault = applied.vault, pc' # "arming"
  PROVE  SavedState' /\ StaleStep
<1>1. indexDisk' = [indexDisk EXCEPT ![applied.vault] = index']
  BY DEF Dispatch, Persist
<1>2. DOMAIN indexDisk = Vaults /\ applied.vault \in Vaults
  BY ActiveConfig, ConfigFields DEF Inv, TypeOK
<1>3. /\ indexDisk'[applied.vault] = index'
      /\ \A v \in Vaults : v # applied.vault => indexDisk'[v] = indexDisk[v]
  BY <1>1, <1>2
<1>4. StaleStep
  BY <1>2, <1>3, StaleKeptRefl DEF StaleStep
<1>5. SavedState'
  BY <1>2, <1>3 DEF SavedState
<1> QED
  BY <1>4, <1>5

\* Between handlers the file keeps what the index in memory keeps.
LEMMA FileKept ==
  ASSUME SavedState, Active, pc # "arming", NEW idx, StaleKept(index, idx)
  PROVE  StaleKept(indexDisk[applied.vault], idx)
BY StaleKeptRefl DEF SavedState

LEMMA SettingsSaves ==
  ASSUME ~Fault("indexWrite"), Inv, SavedState, SettingsRederived
  PROVE  SavedState' /\ StaleStep
<1> DEFINE idx == Rederive(index, configFile.time, configFile.lead)
<1>1. /\ Active /\ pc \in {"loop", "reload"} /\ pc' = "loop" /\ configFile \in Configs
      /\ applied' = configFile /\ applied.vault = configFile.vault
      /\ index' = Discover(idx, clock) /\ Dispatch(index', DiscoverFires(idx, clock))
  BY DEF SettingsRederived, ReloadsVault, Reloads, DiscoverAndDispatch, Dispatch
<1>2. IsIndex(idx) /\ clock \in Int
  <2>1. configFile.time \in Times /\ configFile.lead \in Nat /\ clock \in Int
    BY <1>1, ConfigFields DEF Inv, TypeOK
  <2> QED
    BY <2>1, RederiveSound DEF SoundIndex, Inv, IndexesSound
<1>3. FirstOnly(idx) /\ StaleKept(index, idx)
  BY DEF SavedState, FirstOnly, StaleKept, Rederive, RederiveOne
<1> HIDE DEF idx
<1>4. TickedIndex(idx, index')
  BY <1>1, <1>2, DiscoverTicks
<1>5. FirstOnly(index') /\ StaleKept(index, index')
  BY <1>3, <1>4, TickedFirstOnly, TickedStale
<1>6. applied' # NoConfig
  BY <1>1, ConfigFields
<1> QED
  BY <1>1, <1>5, <1>6, FileKept, DispatchSaves

LEMMA ActivateSaves ==
  ASSUME NoTwins, Inv, SavedState, Activate
  PROVE  SavedState' /\ StaleStep
<1> DEFINE v == configFile.vault
           scan == ScanVault(OnDisk(v), configFile.time, configFile.lead)
<1>1. /\ UNCHANGED indexDisk /\ pc' = "arming" /\ applied' = configFile /\ configFile \in Configs
      /\ index' = Merge(indexDisk[v], scan)
  BY DEF Activate, ReloadsVault
<1>2. v \in Vaults /\ configFile.time \in Times /\ configFile.lead \in Nat /\ clock \in Int
  BY <1>1, ConfigFields DEF Inv, TypeOK
<1>3. IsIndex(scan) /\ FirstOnly(scan)
  <2>1. IsIndex(scan)
    BY <1>2, OnDiskNotes, ScanVaultSound DEF SoundIndex, Inv
  <2> QED
    BY <1>2, <2>1, ScanVaultFirstOnly DEF Inv
<1>4. IsIndex(indexDisk[v]) /\ FirstOnly(indexDisk[v])
  BY <1>2 DEF Inv, TypeOK, SavedState
<1> HIDE DEF v, scan
<1>5. FirstOnly(index') /\ StaleKept(indexDisk[v], index')
  BY <1>1, <1>3, <1>4, MergeFirstOnly, MergeStale
<1>6. StaleStep
  BY <1>1, StaleKeptRefl DEF StaleStep
<1>7. SavedState'
  BY <1>1, <1>5 DEF SavedState, v
<1> QED
  BY <1>6, <1>7

LEMMA ArmSaves ==
  ASSUME ~Fault("indexWrite"), Inv, SavedState, Arm
  PROVE  SavedState' /\ StaleStep
<1>1. /\ Active /\ pc = "arming" /\ pc' = "loop" /\ applied' = applied
      /\ index' = Discover(index, clock) /\ Dispatch(index', DiscoverFires(index, clock))
  BY DEF Arm, DiscoverAndDispatch, Dispatch, Inv, Control
<1>2. TickedIndex(index, index')
  BY <1>1, DiscoverTicks DEF Inv, TypeOK
<1>3. FirstOnly(index') /\ StaleKept(indexDisk[applied.vault], index')
  BY <1>1, <1>2, TickedFirstOnly, TickedStale DEF SavedState
<1> QED
  BY <1>1, <1>3, DispatchSaves DEF Active

LEMMA HandleBatchSaves ==
  ASSUME NoTwins, ~Fault("indexWrite"), Inv, Tracking, SavedState, HandleBatch
  PROVE  SavedState' /\ StaleStep
<1> DEFINE merged == Merge(index, Rescan)
<1>1. /\ Active /\ pc = "loop" /\ pc' = pc /\ applied' = applied
      /\ index' = Discover(merged, clock) /\ Dispatch(index', DiscoverFires(merged, clock))
  BY DEF HandleBatch, Ready, DiscoverAndDispatch, Dispatch
<1>2. IsIndex(index) /\ clock \in Int /\ IsIndex(Rescan) /\ FirstOnly(Rescan) /\ FirstOnly(index)
  <2>1. IsIndex(Rescan)
    BY <1>1, RescanTracks
  <2> QED
    BY <1>1, <2>1, RescanFirstOnly DEF Inv, TypeOK, SavedState
<1>3. IsIndex(merged) /\ FirstOnly(merged) /\ StaleKept(index, merged)
  BY <1>2, MergedTyped, MergeFirstOnly, MergeStale
<1> HIDE DEF merged
<1>4. TickedIndex(merged, index')
  BY <1>1, <1>2, <1>3, DiscoverTicks
<1>5. FirstOnly(index') /\ StaleKept(index, index')
  BY <1>3, <1>4, TickedFirstOnly, TickedStale
<1> QED
  BY <1>1, <1>5, FileKept, DispatchSaves DEF Active

LEMMA TickSaves ==
  ASSUME ~Fault("indexWrite"), Inv, SavedState, ScheduledWake \/ SafetyTick \/ Resume
  PROVE  SavedState' /\ StaleStep
<1>1. pc = "loop" /\ pc' # "arming" /\ applied' = applied /\ OnTick
  BY DEF ScheduledWake, SafetyTick, Resume, Ready
<1>2. CASE ~Active
  BY <1>1, <1>2, StaleKeptRefl DEF OnTick, SavedState, StaleStep, Active
<1>3. CASE Active
  <2> DEFINE timed == RunTimers(index, clock)
             fires == TimerFires(index, clock) \cup DiscoverFires(timed, clock)
  <2>1. index' = Discover(timed, clock) /\ Dispatch(index', fires)
    BY <1>1, <1>3 DEF OnTick, Dispatch
  <2>2. clock \in Int /\ SoundIndex(index, clock)
    BY DEF Inv, TypeOK, IndexesSound
  <2>3. TickedIndex(index, Discover(timed, clock))
    BY <2>2, TickTicks
  <2> HIDE DEF timed, fires
  <2>4. FirstOnly(index') /\ StaleKept(index, index')
    BY <2>1, <2>3, StaleKeptRefl, TickedFirstOnly, TickedStale DEF SavedState
  <2> QED
    BY <1>1, <1>3, <2>1, <2>4, FileKept, DispatchSaves DEF Active
<1> QED
  BY <1>2, <1>3

LEMMA SnoozeSaves ==
  ASSUME ~Fault("indexWrite"), Inv, SavedState, NEW id, NEW m \in LockedSnoozeMinutes, Snooze(id, m)
  PROVE  SavedState' /\ StaleStep
<1> DEFINE snooze == ApplySnooze(index[id], m, clock)
           fires == IF snooze.fires THEN {id} ELSE {}
<1>1. /\ Active /\ pc = "loop" /\ pc' = pc /\ applied' = applied /\ id \in DOMAIN index
      /\ index' = [index EXCEPT ![id] = snooze.to] /\ Dispatch(index', fires)
  BY DEF Snooze, Ready, Dispatch
<1>2. snooze.to.state = "stale" <=> index[id].state = "stale"
  BY <1>1, SnoozeKeeps DEF Inv, TypeOK, IsIndex
<1> HIDE DEF snooze, fires
<1>3. FirstOnly(index') /\ StaleKept(index, index')
  BY <1>1, <1>2 DEF SavedState, FirstOnly, StaleKept
<1> QED
  BY <1>1, <1>3, FileKept, DispatchSaves DEF Active

LEMMA RemoveApplySaves ==
  ASSUME ~Fault("indexWrite"), Inv, SavedState, RemoveApply
  PROVE  SavedState' /\ StaleStep
<1>1. pc = "loop" /\ pc' = pc /\ applied' = applied
  BY DEF RemoveApply, Ready
<1>2. CASE ~(Active /\ remove.id \in DOMAIN index)
  BY <1>1, <1>2, StaleKeptRefl DEF RemoveApply, SavedState, StaleStep, Active
<1>3. CASE Active /\ remove.id \in DOMAIN index
  <2>1. /\ index' = ApplyRemoveResult(index, remove.id, remove.result)
        /\ Dispatch(index', {})
    BY <1>3 DEF RemoveApply, Dispatch
  <2>2. \A k \in DOMAIN index : index[k] \in Reminders
    BY DEF Inv, TypeOK, IsIndex
  <2>3. FirstOnly(index') /\ StaleKept(index, index')
    <3>1. CASE remove.result = "removed"
      BY <1>3, <2>1, <3>1 DEF ApplyRemoveResult, Drop, SavedState, FirstOnly, StaleKept
    <3>2. CASE remove.result # "removed"
      <4>1. index' = [index EXCEPT ![remove.id].state = "stale"]
        BY <1>3, <2>1, <3>2 DEF ApplyRemoveResult
      <4>2. /\ DOMAIN index' = DOMAIN index
            /\ \A k \in DOMAIN index : k # remove.id => index'[k] = index[k]
            /\ index'[remove.id].state = "stale"
        BY <1>3, <2>2, <4>1 DEF Reminders
      <4> QED
        BY <4>2 DEF SavedState, FirstOnly, StaleKept
    <3> QED
      BY <3>1, <3>2
  <2> QED
    BY <1>1, <1>3, <2>1, <2>3, FileKept, DispatchSaves DEF Active
<1> QED
  BY <1>2, <1>3

LEMMA IdleSaves ==
  ASSUME SavedState, Deactivate, UNCHANGED indexDisk, pc' # "arming"
  PROVE  SavedState' /\ StaleStep
BY StaleKeptRefl DEF SavedState, StaleStep, Deactivate, Active, FirstOnly, NoReminders

LEMMA CorruptSaves ==
  ASSUME Inv, SavedState, NEW v \in Vaults, CorruptIndex(v)
  PROVE  SavedState' /\ StaleStep
<1>1. /\ UNCHANGED <<pc, applied, index>> /\ Fault("corrupt")
      /\ indexDisk' = [indexDisk EXCEPT ![v] = NoReminders]
  BY DEF CorruptIndex, daemon
<1>2. DOMAIN indexDisk = Vaults
  BY DEF Inv, TypeOK
<1>3. /\ indexDisk'[v] = NoReminders
      /\ \A w \in Vaults : w # v => indexDisk'[w] = indexDisk[w]
  BY <1>1, <1>2
<1>4. StaleStep
  BY <1>3, StaleKeptRefl DEF StaleStep
<1>5. FirstOnly(NoReminders)
  BY DEF FirstOnly, NoReminders
<1>6. pc = "arming" \/ Active => Active /\ applied.vault \in Vaults
  BY ActiveConfig, ConfigFields DEF Inv, Control
<1>7. SavedState'
  BY <1>1, <1>3, <1>5, <1>6, StaleKeptRefl DEF SavedState, Active
<1> QED
  BY <1>4, <1>7

LEMMA RestSaves ==
  ASSUME Inv, SavedState, UNCHANGED <<applied, index, indexDisk>>, pc' = pc \/ (pc # "arming" /\ pc' # "arming")
  PROVE  SavedState' /\ StaleStep
<1>1. StaleStep
  BY StaleKeptRefl DEF StaleStep
<1> QED
  BY <1>1 DEF SavedState, Active
LEMMA SavedStep ==
  ASSUME NoTwins, ~Fault("indexWrite"), Inv, Tracking, SavedState, [Next]_vars
  PROVE  SavedState' /\ StaleStep
<1>1. CASE GoIdle \/ IdleOnInvalid \/ VaultUnavailable \/ Crash
  <2>1. Deactivate /\ UNCHANGED indexDisk /\ pc' # "arming"
    BY <1>1 DEF GoIdle, IdleOnInvalid, VaultUnavailable, Crash
  <2> QED
    BY <2>1, IdleSaves
<1>2. CASE KeepLastKnownGood \/ NoChange \/ Restart
  <2>1. UNCHANGED <<applied, index, indexDisk>> /\ pc # "arming" /\ pc' # "arming"
    BY <1>2 DEF KeepLastKnownGood, NoChange, ReloadsVault, Reloads, Restart
  <2> QED
    BY <2>1, RestSaves
<1>3. CASE UNCHANGED <<daemon, indexDisk>> \/ \E id \in outbox : Send(id)
  <2>1. UNCHANGED <<applied, index, indexDisk, pc>>
    BY <1>3 DEF Send, daemon
  <2> QED
    BY <2>1, RestSaves
<1>4. CASE Loop
  BY <1>1, <1>2, <1>3, <1>4, SettingsSaves, ActivateSaves, ArmSaves, HandleBatchSaves, TickSaves,
     RemoveApplySaves DEF Loop
<1>5. CASE Requests
  <2>1. ASSUME NEW id, RemoveWorker(id) PROVE UNCHANGED <<daemon, indexDisk>>
    BY <2>1 DEF RemoveWorker
  <2> QED
    BY <1>3, <1>5, <2>1, SnoozeSaves DEF Requests
<1>6. CASE World
  <2>1. ASSUME NEW v, NEW p, NEW content, EditNote(v, p, content) PROVE UNCHANGED <<daemon, indexDisk>>
    BY <2>1 DEF EditNote
  <2>2. ASSUME NEW v, NEW S, MountChange(v, S) PROVE UNCHANGED <<daemon, indexDisk>>
    BY <2>2 DEF MountChange
  <2>3. ASSUME NEW file, WriteConfig(file) PROVE UNCHANGED <<daemon, indexDisk>>
    BY <2>3 DEF WriteConfig
  <2>4. Advance \/ WatchError => UNCHANGED <<daemon, indexDisk>>
    BY DEF Advance, WatchError
  <2> QED
    BY <1>1, <1>2, <1>3, <1>6, <2>1, <2>2, <2>3, <2>4, CorruptSaves DEF World
<1>7. CASE UNCHANGED vars
  BY <1>3, <1>7 DEF vars
<1> QED
  BY <1>4, <1>5, <1>6, <1>7 DEF Next

\* A stale reminder is never armed again under the same due time, in the file
\* that outlives the daemon: for notes of any length without twins, as long as
\* writes of the file succeed (rederive.rs:29-35, merge.rs:165-180).
THEOREM StaleForGood == NoTwins /\ ~Fault("indexWrite") /\ Spec => StaleStaysStale
<1> SUFFICES ASSUME NoTwins, ~Fault("indexWrite") PROVE Spec => StaleStaysStale
  OBVIOUS
<1>1. Init => SavedState
  BY DEF Init, SavedState, FirstOnly, NoReminders, Active
<1>2. Inv /\ Tracking /\ SavedState /\ [Next]_vars => SavedState'
  BY SavedStep
<1>3. Inv /\ Tracking /\ SavedState /\ [Next]_vars =>
        [\A v \in Vaults : \A id \in DOMAIN indexDisk[v] \cap DOMAIN indexDisk'[v] :
           /\ indexDisk[v][id].state = "stale"
           /\ indexDisk'[v][id].due = indexDisk[v][id].due
           => indexDisk'[v][id].state = "stale"]_vars
  <2> SUFFICES ASSUME Inv, Tracking, SavedState, [Next]_vars, ~UNCHANGED vars
               PROVE  \A v \in Vaults : \A id \in DOMAIN indexDisk[v] \cap DOMAIN indexDisk'[v] :
                        /\ indexDisk[v][id].state = "stale"
                        /\ indexDisk'[v][id].due = indexDisk[v][id].due
                        => indexDisk'[v][id].state = "stale"
    OBVIOUS
  <2>1. StaleStep
    BY SavedStep
  <2> QED
    BY <2>1 DEF StaleStep, StaleKept
<1> QED
  BY <1>1, <1>2, <1>3, TrackingAlways, PTL DEF Spec, StaleStaysStale
---------------------------------------------------------------------------
(* No popup is sent twice.                                                 *)

\* The fire time that the settings give, before any snooze.
Baseline(s) == DueAt[s.id.tok][s.under.time] - s.under.lead * Minute

\* Popup s cannot come again from reminder r: its fire time is guarded, or r has
\* another one; and r left its baseline for good only if s was not sent for it,
\* since a rescan that carries nothing puts the baseline back.
Spent(r, s) ==
  /\ r.due = DueAt[s.id.tok][s.under.time]
  /\ r.fire = s.fire => r.state = "stale" \/ r.last = s.fire
  /\ s.fire = Baseline(s) => r.fire = s.fire

SpentIn(idx, s) == s.id \in DOMAIN idx /\ Spent(idx[s.id], s)

\* A reminder that was notified at its due time has that fire time, so a snooze to
\* the due time moves no other one (scheduler.rs:244-262).
Guarded(idx) == \A id \in DOMAIN idx : idx[id].last = idx[id].due => idx[id].fire = idx[id].due

PopupState ==
  /\ Guarded(index) /\ \A v \in Vaults : Guarded(indexDisk[v])
  /\ \A s \in shown : SpentIn(indexDisk[s.under.vault], s)
  /\ Active /\ pc # "arming" => \A s \in shown : s.under.vault = applied.vault => s.under = applied
  /\ pc = "arming" => \A s \in shown : s.under = applied /\ s.id \in DOMAIN index => Spent(index[s.id], s)
  /\ \A id \in outbox : /\ index[id].state = "notified" /\ index[id].last = index[id].fire
                        /\ Pop(id) \notin shown

LEMMA TickedSpent ==
  ASSUME NEW a, NEW b, TickedIndex(a, b), NEW s, SpentIn(a, s)
  PROVE  SpentIn(b, s)
<1>1. s.id \in DOMAIN a /\ s.id \in DOMAIN b /\ Ticked(a[s.id], b[s.id]) /\ Spent(a[s.id], s)
  BY DEF SpentIn, TickedIndex
<1>2. Spent(b[s.id], s)
  BY <1>1 DEF Ticked, Spent
<1> QED
  BY <1>1, <1>2 DEF SpentIn

LEMMA TickedGuarded ==
  ASSUME NEW a, NEW b, TickedIndex(a, b), Guarded(a)
  PROVE  Guarded(b)
<1> SUFFICES ASSUME NEW id \in DOMAIN b, b[id].last = b[id].due PROVE b[id].fire = b[id].due
  BY DEF Guarded
<1>1. id \in DOMAIN a /\ Ticked(a[id], b[id])
  BY DEF TickedIndex
<1> QED
  BY <1>1 DEF Ticked, Guarded

\* Carrying keeps a popup spent: under the same due time only a fire time that is
\* not the baseline is given up (merge.rs:165-180).
LEMMA CarrySpent ==
  ASSUME NEW r \in Reminders, NEW fresh \in Reminders, NEW s, Spent(r, s),
         \/ fresh = r
         \/ fresh.due = DueAt[s.id.tok][s.under.time] /\ fresh.fire = Baseline(s)
  PROVE  Spent(Carry(r, fresh), s)
<1> DEFINE q == Carry(r, fresh)
<1> SUFFICES Spent(q, s)
  OBVIOUS
<1>1. q.due = fresh.due /\ fresh.due = r.due
  BY CarryFields DEF Spent
<1>2. CASE CanApplyTo(r, fresh)
  <2>1. q.state = r.state /\ q.fire = r.fire /\ q.last = r.last
    BY <1>2, CarryFields
  <2> HIDE DEF q
  <2> QED
    BY <1>1, <2>1 DEF Spent
<1>3. CASE ~CanApplyTo(r, fresh)
  <2>1. q = fresh /\ r.fire # fresh.fire
    BY <1>1, <1>3, CarryFields DEF CanApplyTo
  <2>2. fresh.fire = Baseline(s) /\ s.fire # Baseline(s)
    BY <2>1 DEF Spent
  <2> HIDE DEF q
  <2> QED
    BY <1>1, <2>1, <2>2 DEF Spent
<1> QED
  BY <1>2, <1>3

LEMMA MergeGuarded ==
  ASSUME NEW prior, IsIndex(prior), Guarded(prior), NEW fresh, IsIndex(fresh), Guarded(fresh)
  PROVE  Guarded(Merge(prior, fresh))
<1> SUFFICES ASSUME NEW c \in DOMAIN fresh, Merge(prior, fresh)[c].last = Merge(prior, fresh)[c].due
             PROVE  Merge(prior, fresh)[c].fire = Merge(prior, fresh)[c].due
  BY DEF Guarded, Merge
<1>1. fresh[c] \in Reminders
  BY DEF IsIndex
<1>2. CASE Merge(prior, fresh)[c] = fresh[c]
  BY <1>2 DEF Guarded
<1>3. CASE \E id \in Claimants(prior, fresh, c) : Merge(prior, fresh)[c] = Carry(prior[id], fresh[c])
  <2>1. PICK id \in Claimants(prior, fresh, c) : Merge(prior, fresh)[c] = Carry(prior[id], fresh[c])
    BY <1>3
  <2>2. id \in DOMAIN prior /\ prior[id] \in Reminders
    BY DEF Claimants, SameContent, IsIndex
  <2>3. CASE ~CanApplyTo(prior[id], fresh[c])
    <3>1. Merge(prior, fresh)[c] = fresh[c]
      BY <1>1, <2>1, <2>2, <2>3, CarryFields
    <3> QED
      BY <3>1 DEF Guarded
  <2>4. CASE CanApplyTo(prior[id], fresh[c])
    <3>1. /\ Merge(prior, fresh)[c].last = prior[id].last /\ Merge(prior, fresh)[c].fire = prior[id].fire
          /\ Merge(prior, fresh)[c].due = prior[id].due
      BY <1>1, <2>1, <2>2, <2>4, CarryFields DEF CanApplyTo
    <3> QED
      BY <2>2, <3>1 DEF Guarded
  <2> QED
    BY <2>3, <2>4
<1> QED
  BY <1>2, <1>3, MergeChoice

\* A scanned reminder has its baseline and no guard.
FromScan(r, id, under) ==
  /\ r.due = DueAt[id.tok][under.time]
  /\ r.fire = DueAt[id.tok][under.time] - under.lead * Minute
  /\ r.last = NoTime

LEMMA ScanVaultFields ==
  ASSUME NEW files, DOMAIN files = Paths, NEW under,
         IsIndex(ScanVault(files, under.time, under.lead)),
         NEW id \in DOMAIN ScanVault(files, under.time, under.lead)
  PROVE  FromScan(ScanVault(files, under.time, under.lead)[id], id, under)
<1> DEFINE note == ScanFile(id.path, files[id.path], under.time, under.lead)
<1>1. id.path \in Paths
  BY DEF IsIndex, Ids
<1>2. HasPart(ScanVault(files, under.time, under.lead), id.path, note)
  BY <1>1, ScanVaultNote
<1>3. id \in DOMAIN note /\ ScanVault(files, under.time, under.lead)[id] = note[id]
  BY <1>2 DEF HasPart
<1>4. /\ note[id].due = DueAt[id.tok][under.time]
      /\ note[id].fire = DueAt[id.tok][under.time] - under.lead * Minute
      /\ note[id].last = NoTime
  BY <1>3, ScanFields
<1> HIDE DEF note
<1> QED
  BY <1>3, <1>4 DEF FromScan

LEMMA RescanFields ==
  ASSUME Inv, Active, IsIndex(Rescan), NEW id \in DOMAIN Rescan
  PROVE  \/ FromScan(Rescan[id], id, applied)
         \/ id \in DOMAIN index /\ Rescan[id] = index[id]
<1> DEFINE files == OnDisk(applied.vault)
           note == ScanFile(id.path, files[id.path], applied.time, applied.lead)
<1>1. DOMAIN files = Paths
  BY ActiveConfig, ConfigFields, OnDiskNotes DEF Inv
<1>2. id.path \in Paths
  BY DEF IsIndex, Ids
<1>3. CASE coarse
  <2>1. Rescan = ScanVault(files, applied.time, applied.lead)
    BY <1>3 DEF Rescan
  <2> HIDE DEF files
  <2> QED
    BY <1>1, <2>1, ScanVaultFields
<1>4. CASE ~coarse
  <2>1. Rescan = RescanChangedFiles(files, index, touched, applied.time, applied.lead)
    BY <1>4 DEF Rescan
  <2>2. HasPart(Rescan, id.path, IF id.path \in touched THEN note ELSE RemindersOf(index, id.path))
    <3> HIDE DEF files
    <3> QED
      BY <1>1, <1>2, <2>1, RescanNote
  <2>3. CASE id.path \in touched
    <3>1. id \in DOMAIN note /\ Rescan[id] = note[id]
      BY <2>2, <2>3 DEF HasPart
    <3>2. /\ note[id].due = DueAt[id.tok][applied.time]
          /\ note[id].fire = DueAt[id.tok][applied.time] - applied.lead * Minute
          /\ note[id].last = NoTime
      BY <3>1, ScanFields
    <3> HIDE DEF note
    <3> QED
      BY <3>1, <3>2 DEF FromScan
  <2>4. CASE id.path \notin touched
    <3>1. id \in DOMAIN RemindersOf(index, id.path) /\ Rescan[id] = RemindersOf(index, id.path)[id]
      BY <2>2, <2>4 DEF HasPart
    <3> QED
      BY <3>1 DEF RemindersOf
  <2> QED
    BY <2>3, <2>4
<1> QED
  BY <1>3, <1>4 DEF Inv, TypeOK

LEMMA ScanGuarded ==
  ASSUME NEW r \in Reminders, NEW id, NEW under, FromScan(r, id, under)
  PROVE  r.last # r.due
BY SchedulerAssumption DEF SchedulerAssumption, FromScan, Reminders

\* A rescan keeps the popups of a vault spent, for all reminders that are still there.
LEMMA MergeSpent ==
  ASSUME NEW prior, IsIndex(prior), FirstOnly(prior),
         NEW fresh, IsIndex(fresh), FirstOnly(fresh), NEW under,
         \A id \in DOMAIN fresh : \/ FromScan(fresh[id], id, under)
                                  \/ id \in DOMAIN prior /\ fresh[id] = prior[id],
         NEW s, s.under = under, s.id \in DOMAIN fresh, SpentIn(prior, s)
  PROVE  SpentIn(Merge(prior, fresh), s)
<1>1. s.id \in DOMAIN prior /\ Spent(prior[s.id], s) /\ prior[s.id] \in Reminders /\ fresh[s.id] \in Reminders
  BY DEF SpentIn, IsIndex
<1>2. Merge(prior, fresh)[s.id] = Carry(prior[s.id], fresh[s.id])
  BY <1>1, MergeById
<1>3. \/ fresh[s.id] = prior[s.id]
      \/ fresh[s.id].due = DueAt[s.id.tok][s.under.time] /\ fresh[s.id].fire = Baseline(s)
  BY DEF FromScan, Baseline
<1>4. Spent(Merge(prior, fresh)[s.id], s)
  BY <1>1, <1>2, <1>3, CarrySpent
<1> QED
  BY <1>4 DEF SpentIn, Merge
\* Popups that are still counted after a handler: those of the other vaults, and of
\* this vault under the present settings for reminders that are still there.
Counted(idx, under, S) ==
  \A s \in S : s.under.vault = under.vault => s.under = under /\ SpentIn(idx, s)

NoFileFaults == ~Fault("indexWrite") /\ ~Fault("corrupt")

\* Between handlers every popup of the active vault is spent in memory.
LEMMA CountedNow ==
  ASSUME NoFileFaults, SavedState, PopupState, Active, pc # "arming"
  PROVE  Counted(index, applied, shown)
BY DEF NoFileFaults, SavedState, PopupState, Counted

\* A handler that dispatches an index in which every popup is spent.
LEMMA DispatchCounts ==
  ASSUME NoFileFaults, Inv, PopupState, Active,
         Dispatch(index', outbox'), applied' # NoConfig, applied'.vault = applied.vault, pc' # "arming",
         Guarded(index'), shown' \subseteq shown, Counted(index', applied', shown'),
         \A id \in outbox' : /\ index'[id].state = "notified" /\ index'[id].last = index'[id].fire
                             /\ Pop(id)' \notin shown'
  PROVE  PopupState'
<1>1. indexDisk' = [indexDisk EXCEPT ![applied.vault] = index']
  BY DEF Dispatch, Persist, NoFileFaults
<1>2. DOMAIN indexDisk = Vaults /\ applied.vault \in Vaults
  BY ActiveConfig, ConfigFields DEF Inv, TypeOK
<1>3. /\ indexDisk'[applied.vault] = index'
      /\ \A v \in Vaults : v # applied.vault => indexDisk'[v] = indexDisk[v]
  BY <1>1, <1>2
<1>4. ASSUME NEW s \in shown' PROVE SpentIn(indexDisk'[s.under.vault], s)
  <2>1. s.under.vault \in Vaults
    BY ConfigFields DEF Inv, TypeOK, Pops
  <2>2. CASE s.under.vault = applied.vault
    BY <1>3, <2>2 DEF Counted
  <2>3. CASE s.under.vault # applied.vault
    BY <1>3, <2>1, <2>3 DEF PopupState
  <2> QED
    BY <2>2, <2>3
<1>5. \A v \in Vaults : Guarded(indexDisk'[v])
  BY <1>3 DEF PopupState
<1>6. \A s \in shown' : s.under.vault = applied'.vault => s.under = applied'
  BY DEF Counted
<1> QED
  BY <1>4, <1>5, <1>6 DEF PopupState

\* The same for a handler that ends in passes of timers or discovery over an index
\* in which every popup is spent.
LEMMA TickCounts ==
  ASSUME NoFileFaults, Inv, PopupState, Active,
         Dispatch(index', outbox'), applied' # NoConfig, applied'.vault = applied.vault, pc' # "arming",
         NEW idx, Guarded(idx), TickedIndex(idx, index'), Popped(idx, index', outbox'),
         shown' \subseteq shown, Counted(idx, applied', shown')
  PROVE  PopupState'
<1>1. Guarded(index')
  BY TickedGuarded
<1>2. Counted(index', applied', shown')
  BY TickedSpent DEF Counted
<1>3. ASSUME NEW id \in outbox'
      PROVE  /\ index'[id].state = "notified" /\ index'[id].last = index'[id].fire
             /\ Pop(id)' \notin shown'
  <2>1. /\ id \in DOMAIN idx /\ idx[id].state # "stale" /\ idx[id].last # idx[id].fire
        /\ index'[id].state = "notified" /\ index'[id].last = index'[id].fire
    BY DEF Popped
  <2>2. index'[id].fire = idx[id].fire
    BY <2>1 DEF TickedIndex, Ticked
  <2>3. ASSUME Pop(id)' \in shown' PROVE FALSE
    <3> DEFINE s == Pop(id)'
    <3>1. s.under = applied' /\ s.id = id /\ s.fire = index'[id].fire
      BY DEF Pop
    <3>2. SpentIn(idx, s)
      BY <2>3, <3>1 DEF Counted
    <3> HIDE DEF s
    <3>3. Spent(idx[id], s)
      BY <3>1, <3>2 DEF SpentIn
    <3> QED
      BY <2>1, <2>2, <3>1, <3>3 DEF Spent
  <2> QED
    BY <2>1, <2>3
<1> QED
  BY <1>1, <1>2, <1>3, DispatchCounts

LEMMA SettingsCounts ==
  ASSUME NoFileFaults, Inv, PopupState, SettingsRederived
  PROVE  PopupState'
<1> DEFINE idx == Rederive(index, configFile.time, configFile.lead)
<1>1. /\ Active /\ pc' = "loop" /\ configFile \in Configs
      /\ applied' = configFile /\ applied.vault = configFile.vault
      /\ index' = Discover(idx, clock) /\ outbox' = DiscoverFires(idx, clock) /\ Dispatch(index', outbox')
      /\ shown' = {s \in shown : s.under.vault # applied.vault}
  BY DEF SettingsRederived, ReloadsVault, DiscoverAndDispatch, Dispatch
<1>2. clock \in Int /\ configFile.time \in Times /\ configFile.lead \in Nat /\ configFile # NoConfig
  BY <1>1, ConfigFields DEF Inv, TypeOK
<1>3. IsIndex(idx)
  BY <1>2, RederiveSound DEF SoundIndex, Inv, IndexesSound
<1>4. Guarded(idx)
  <2> SUFFICES ASSUME NEW id \in DOMAIN index,
                      RederiveOne(index[id], id, configFile.time, configFile.lead).last
                        = RederiveOne(index[id], id, configFile.time, configFile.lead).due
               PROVE  RederiveOne(index[id], id, configFile.time, configFile.lead).fire
                        = RederiveOne(index[id], id, configFile.time, configFile.lead).due
    BY DEF Rederive, Guarded
  <2>1. index[id] \in Reminders /\ id \in Ids
    BY DEF Inv, TypeOK, IsIndex
  <2> DEFINE due  == DueAt[id.tok][configFile.time]
             fire == due - configFile.lead * Minute
  <2>2. due \in Int
    BY <1>2, <2>1, IndexAssumption DEF IndexAssumption, Ids
  <2>3. RederiveOne(index[id], id, configFile.time, configFile.lead) =
          IF index[id].state = "stale" \/ (index[id].due = due /\ index[id].fire = fire) THEN index[id]
          ELSE [index[id] EXCEPT !.due = due, !.fire = fire, !.state = "scheduled", !.last = NoTime]
    BY DEF RederiveOne
  <2> HIDE DEF due, fire
  <2> QED
    BY <2>1, <2>2, <2>3, SchedulerAssumption DEF SchedulerAssumption, Reminders, PopupState, Guarded
<1> HIDE DEF idx
<1>5. TickedIndex(idx, index') /\ Popped(idx, index', outbox')
  BY <1>1, <1>2, <1>3, DiscoverTicks
<1>6. shown' \subseteq shown /\ Counted(idx, applied', shown')
  BY <1>1 DEF Counted
<1> QED
  BY <1>1, <1>2, <1>4, <1>5, <1>6, TickCounts

LEMMA ActivateCounts ==
  ASSUME NoTwins, NoFileFaults, Inv, SavedState, PopupState, Activate
  PROVE  PopupState'
<1> DEFINE v == configFile.vault
           scan == ScanVault(OnDisk(v), configFile.time, configFile.lead)
<1>1. /\ UNCHANGED <<indexDisk, shown, outbox>> /\ outbox = {} /\ pc' = "arming"
      /\ applied' = configFile /\ configFile \in Configs
      /\ index' = Merge(indexDisk[v], scan)
  BY DEF Activate, ReloadsVault, Reloads
<1>2. v \in Vaults /\ configFile.time \in Times /\ configFile.lead \in Nat /\ clock \in Int
  BY <1>1, ConfigFields DEF Inv, TypeOK
<1>3. DOMAIN OnDisk(v) = Paths /\ \A p \in Paths : IsNote(OnDisk(v)[p])
  BY <1>2, OnDiskNotes DEF Inv
<1>4. IsIndex(scan)
  BY <1>2, <1>3, ScanVaultSound DEF SoundIndex
<1>5. FirstOnly(scan)
  BY <1>2, <1>4, ScanVaultFirstOnly DEF Inv
<1>6. \A id \in DOMAIN scan : FromScan(scan[id], id, configFile)
  BY <1>3, <1>4, ScanVaultFields
<1>7. IsIndex(indexDisk[v]) /\ FirstOnly(indexDisk[v]) /\ Guarded(indexDisk[v])
  BY <1>2 DEF Inv, TypeOK, SavedState, PopupState
<1> HIDE DEF scan
<1>8. Guarded(scan)
  <2>1. \A id \in DOMAIN scan : scan[id] \in Reminders
    BY <1>4 DEF IsIndex
  <2> QED
    BY <1>6, <2>1, ScanGuarded DEF Guarded
<1>9. Guarded(index')
  BY <1>1, <1>4, <1>7, <1>8, MergeGuarded
<1>10. ASSUME NEW s \in shown, s.under = configFile, s.id \in DOMAIN index'
       PROVE  Spent(index'[s.id], s)
  <2>1. SpentIn(indexDisk[v], s)
    BY <1>10 DEF PopupState
  <2>2. s.id \in DOMAIN scan
    BY <1>1, <1>10 DEF Merge
  <2>3. SpentIn(Merge(indexDisk[v], scan), s)
    BY <1>4, <1>5, <1>6, <1>7, <1>10, <2>1, <2>2, MergeSpent
  <2> QED
    BY <1>1, <2>3 DEF SpentIn
<1> QED
  BY <1>1, <1>9, <1>10 DEF PopupState

LEMMA ArmCounts ==
  ASSUME NoFileFaults, Inv, PopupState, Arm
  PROVE  PopupState'
<1>1. /\ Active /\ pc = "arming" /\ pc' = "loop" /\ applied' = applied
      /\ index' = Discover(index, clock) /\ outbox' = DiscoverFires(index, clock) /\ Dispatch(index', outbox')
      /\ shown' = {s \in shown : s.under.vault = applied.vault => s.under = applied /\ s.id \in DOMAIN index}
  BY DEF Arm, DiscoverAndDispatch, Dispatch, Forget, Inv, Control
<1>2. TickedIndex(index, index') /\ Popped(index, index', outbox')
  BY <1>1, DiscoverTicks DEF Inv, TypeOK
<1>3. shown' \subseteq shown /\ Counted(index, applied', shown')
  BY <1>1 DEF Counted, PopupState, SpentIn
<1>4. Guarded(index)
  BY DEF PopupState
<1> QED
  BY <1>1, <1>2, <1>3, <1>4, TickCounts DEF Active

LEMMA HandleBatchCounts ==
  ASSUME NoTwins, NoFileFaults, Inv, Tracking, SavedState, PopupState, HandleBatch
  PROVE  PopupState'
<1> DEFINE merged == Merge(index, Rescan)
<1>1. /\ Active /\ pc = "loop" /\ pc' = pc /\ applied' = applied
      /\ index' = Discover(merged, clock) /\ outbox' = DiscoverFires(merged, clock)
      /\ Dispatch(index', outbox')
      /\ shown' = {s \in shown : s.under.vault = applied.vault => s.under = applied /\ s.id \in DOMAIN merged}
  BY DEF HandleBatch, Ready, DiscoverAndDispatch, Dispatch, Forget
<1>2. IsIndex(index) /\ FirstOnly(index) /\ Guarded(index) /\ clock \in Int
  BY DEF Inv, TypeOK, SavedState, PopupState
<1>3. IsIndex(Rescan)
  BY <1>1, RescanTracks
<1>4. FirstOnly(Rescan)
  BY <1>1, <1>2, <1>3, RescanFirstOnly
<1>5. \A id \in DOMAIN Rescan : \/ FromScan(Rescan[id], id, applied)
                                \/ id \in DOMAIN index /\ Rescan[id] = index[id]
  BY <1>1, <1>3, RescanFields
<1>6. Guarded(Rescan)
  <2>1. \A id \in DOMAIN Rescan : Rescan[id] \in Reminders
    BY <1>3 DEF IsIndex
  <2> QED
    BY <1>2, <1>5, <2>1, ScanGuarded DEF Guarded
<1>7. IsIndex(merged) /\ Guarded(merged) /\ DOMAIN merged = DOMAIN Rescan
  BY <1>2, <1>3, <1>6, MergedTyped, MergeGuarded DEF Merge
<1>8. ASSUME NEW s \in shown', s.under.vault = applied.vault
      PROVE  s.under = applied /\ SpentIn(merged, s)
  <2>1. s \in shown /\ s.under = applied /\ s.id \in DOMAIN Rescan
    BY <1>1, <1>7, <1>8
  <2>2. SpentIn(index, s)
    BY <1>1, <2>1, CountedNow DEF Counted
  <2> QED
    BY <1>2, <1>3, <1>4, <1>5, <2>1, <2>2, MergeSpent
<1> HIDE DEF merged
<1>9. TickedIndex(merged, index') /\ Popped(merged, index', outbox')
  BY <1>1, <1>2, <1>7, DiscoverTicks
<1>10. shown' \subseteq shown /\ Counted(merged, applied', shown')
  BY <1>1, <1>8 DEF Counted
<1> QED
  BY <1>1, <1>7, <1>9, <1>10, TickCounts DEF Active
LEMMA TickActionCounts ==
  ASSUME NoFileFaults, Inv, SavedState, PopupState, ScheduledWake \/ SafetyTick \/ Resume
  PROVE  PopupState'
<1>1. pc = "loop" /\ pc' # "arming" /\ UNCHANGED <<applied, shown>> /\ OnTick
  BY DEF ScheduledWake, SafetyTick, Resume, Ready, history
<1>2. CASE ~Active
  BY <1>1, <1>2 DEF OnTick, PopupState, Active, Pop
<1>3. CASE Active
  <2> DEFINE timed == RunTimers(index, clock)
             fires == TimerFires(index, clock) \cup DiscoverFires(timed, clock)
  <2>1. index' = Discover(timed, clock) /\ outbox' = fires /\ Dispatch(index', outbox')
    BY <1>1, <1>3 DEF OnTick, Dispatch
  <2>2. clock \in Int /\ SoundIndex(index, clock) /\ Guarded(index)
    BY DEF Inv, TypeOK, IndexesSound, PopupState
  <2>3. TickedIndex(index, Discover(timed, clock)) /\ Popped(index, Discover(timed, clock), fires)
    BY <2>2, TickTicks
  <2> HIDE DEF timed, fires
  <2>4. Counted(index, applied', shown')
    BY <1>1, <1>3, CountedNow
  <2> QED
    BY <1>1, <1>3, <2>1, <2>2, <2>3, <2>4, TickCounts DEF Active
<1> QED
  BY <1>2, <1>3

\* A snooze that does not arm the reminder again and sends nothing leaves its
\* popups spent; one that does either has them forgotten.
LEMMA SnoozeSpends ==
  ASSUME NEW r \in Reminders, NEW now \in Int, Sound(r, now), r.last = r.due => r.fire = r.due,
         NEW m \in LockedSnoozeMinutes
  PROVE  LET z == ApplySnooze(r, m, now)
         IN  /\ z.to.last = z.to.due => z.to.fire = z.to.due
             /\ z.fires => z.to.state = "notified" /\ z.to.last = z.to.fire
             /\ \A s : Spent(r, s) /\ z.to.state # "scheduled" /\ ~z.fires => Spent(z.to, s)
<1> DEFINE Keeps(z) ==
             /\ z.to.last = z.to.due => z.to.fire = z.to.due
             /\ z.fires => z.to.state = "notified" /\ z.to.last = z.to.fire
             /\ \A s : Spent(r, s) /\ z.to.state # "scheduled" /\ ~z.fires => Spent(z.to, s)
<1> SUFFICES Keeps(ApplySnooze(r, m, now))
  OBVIOUS
<1>1. r.due \in Int /\ r.fire \in Int /\ r.last \in Int \cup {NoTime} /\ NoTime \notin Int
  BY SchedulerAssumption DEF Reminders, SchedulerAssumption
<1>2. ASSUME NEW z, z.to = r, ~z.fires PROVE Keeps(z)
  BY <1>2
<1>3. ASSUME NEW z, NEW t \in Int, now < r.due, z.to = Reschedule(r, t), ~z.fires PROVE Keeps(z)
  <2>1. /\ Reschedule(r, t).state = "scheduled" /\ Reschedule(r, t).due = r.due
        /\ Reschedule(r, t).last = IF r.last = t THEN NoTime ELSE r.last
    BY DEF Reschedule, Reminders
  <2>2. r.last # r.due
    BY <1>1, <1>3 DEF Sound
  <2>3. z.to.state = "scheduled" /\ z.to.last # z.to.due
    BY <1>1, <1>3, <2>1, <2>2
  <2> QED
    BY <1>3, <2>3
<1>4. ASSUME NEW z, z.to = MarkDue(r), ~z.fires, r.state # "stale" PROVE Keeps(z)
  BY <1>4, MarkFields DEF Spent
<1>5. ASSUME r.state # "stale", now = r.due PROVE Keeps(SnoozeAtTime(r, now))
  <2> DEFINE atDue == [r EXCEPT !.fire = r.due]
  <2>1. /\ atDue \in Reminders /\ atDue.fire = r.due /\ atDue.due = r.due
        /\ atDue.last = r.last /\ atDue.state = r.state
    BY <1>1 DEF Reminders
  <2>2. SnoozeAtTime(r, now) = IF AlreadyFired(atDue) THEN [to |-> atDue, fires |-> FALSE]
                               ELSE [to |-> MarkNotified(atDue), fires |-> TRUE]
    BY <1>1, <1>5 DEF SnoozeAtTime
  <2> HIDE DEF atDue
  <2>3. CASE AlreadyFired(atDue)
    <3>1. r.last = r.due /\ r.fire = r.due
      BY <2>1, <2>3 DEF AlreadyFired
    <3>2. \A s : Spent(r, s) => Spent(atDue, s)
      BY <2>1, <3>1 DEF Spent
    <3>3. SnoozeAtTime(r, now).to = atDue /\ SnoozeAtTime(r, now).fires = FALSE
      BY <2>2, <2>3
    <3> QED
      BY <2>1, <3>2, <3>3
  <2>4. CASE ~AlreadyFired(atDue)
    <3>1. SnoozeAtTime(r, now).to = MarkNotified(atDue) /\ SnoozeAtTime(r, now).fires = TRUE
      BY <2>2, <2>4
    <3> QED
      BY <2>1, <3>1, MarkFields
  <2> QED
    BY <2>3, <2>4
<1> HIDE DEF Keeps
<1>6. ASSUME r.state # "stale" PROVE Keeps(SnoozeAtTime(r, now))
  <2>1. CASE now < r.due
    BY <1>1, <1>3, <2>1 DEF SnoozeAtTime
  <2>2. CASE now > r.due
    BY <1>1, <1>4, <1>6, <2>2 DEF SnoozeAtTime
  <2> QED
    BY <1>1, <1>5, <1>6, <2>1, <2>2
<1>7. ASSUME m # 0 PROVE Keeps(SnoozeBefore(r, m, now))
  <2> DEFINE target == r.due - m * Minute
  <2>1. target \in Int /\ target <= r.due
    <3>1. m \in Nat /\ Minute \in Nat
      BY SchedulerAssumption DEF LockedSnoozeMinutes, SchedulerAssumption
    <3>2. m * Minute \in Nat
      BY <3>1
    <3> QED
      BY <1>1, <3>2
  <2>2. /\ SnoozeBefore(r, m, now).to = IF target > now THEN Reschedule(r, target) ELSE r
        /\ SnoozeBefore(r, m, now).fires = FALSE
    BY DEF SnoozeBefore
  <2> HIDE DEF target
  <2>3. CASE target > now
    <3>1. now < r.due
      BY <1>1, <2>1, <2>3
    <3> QED
      BY <1>3, <2>1, <2>2, <2>3, <3>1
  <2>4. CASE ~(target > now)
    BY <1>2, <2>2, <2>4
  <2> QED
    BY <2>3, <2>4
<1>8. Keeps([to |-> r, fires |-> FALSE])
  BY <1>2
<1> QED
  BY <1>6, <1>7, <1>8 DEF ApplySnooze

LEMMA SnoozeCounts ==
  ASSUME NoFileFaults, Inv, SavedState, PopupState,
         NEW id, NEW m \in LockedSnoozeMinutes, Snooze(id, m)
  PROVE  PopupState'
<1> DEFINE z == ApplySnooze(index[id], m, clock)
<1>1. /\ Active /\ pc = "loop" /\ pc' = pc /\ applied' = applied /\ id \in DOMAIN index
      /\ index' = [index EXCEPT ![id] = z.to] /\ outbox' = (IF z.fires THEN {id} ELSE {})
      /\ Dispatch(index', outbox')
      /\ shown' = IF z.to.state = "scheduled" \/ z.fires
                  THEN {s \in shown : s.under.vault # applied.vault \/ s.id # id}
                  ELSE shown
  BY DEF Snooze, Ready, Dispatch
<1>2. /\ index[id] \in Reminders /\ Sound(index[id], clock) /\ clock \in Int
      /\ index[id].last = index[id].due => index[id].fire = index[id].due
  BY <1>1 DEF Inv, TypeOK, IsIndex, IndexesSound, SoundIndex, PopupState, Guarded
<1>3. /\ z.to.last = z.to.due => z.to.fire = z.to.due
      /\ z.fires => z.to.state = "notified" /\ z.to.last = z.to.fire
      /\ \A s : Spent(index[id], s) /\ z.to.state # "scheduled" /\ ~z.fires => Spent(z.to, s)
  BY <1>2, SnoozeSpends
<1> HIDE DEF z
<1>4. DOMAIN index' = DOMAIN index /\ index'[id] = z.to /\ \A k \in DOMAIN index : k # id => index'[k] = index[k]
  BY <1>1
<1>5. Guarded(index')
  BY <1>3, <1>4 DEF PopupState, Guarded
<1>6. shown' \subseteq shown
  BY <1>1
<1>7. ASSUME NEW s \in shown', s.under.vault = applied.vault
      PROVE  s.under = applied /\ SpentIn(index', s)
  <2>1. s.under = applied /\ SpentIn(index, s)
    BY <1>1, <1>6, <1>7, CountedNow DEF Counted
  <2>2. CASE s.id # id
    BY <1>4, <2>1, <2>2 DEF SpentIn
  <2>3. CASE s.id = id
    <3>1. z.to.state # "scheduled" /\ ~z.fires
      BY <1>1, <1>7, <2>3
    <3> QED
      BY <1>3, <1>4, <2>1, <2>3, <3>1 DEF SpentIn
  <2> QED
    BY <2>1, <2>2, <2>3
<1>8. ASSUME NEW k \in outbox'
      PROVE  /\ index'[k].state = "notified" /\ index'[k].last = index'[k].fire
             /\ Pop(k)' \notin shown'
  <2>1. k = id /\ z.fires
    BY <1>1
  <2>2. \A s \in shown' : s.under # applied \/ s.id # id
    BY <1>1, <2>1
  <2> QED
    BY <1>1, <1>3, <1>4, <2>1, <2>2 DEF Pop
<1> QED
  BY <1>1, <1>5, <1>6, <1>7, <1>8, DispatchCounts DEF Active, Counted

LEMMA RemoveApplyCounts ==
  ASSUME NoFileFaults, Inv, SavedState, PopupState, RemoveApply
  PROVE  PopupState'
<1>1. pc = "loop" /\ pc' = pc /\ applied' = applied /\ outbox = {}
  BY DEF RemoveApply, Ready
<1>2. CASE ~(Active /\ remove.id \in DOMAIN index)
  BY <1>1, <1>2 DEF RemoveApply, PopupState, Active, Pop
<1>3. CASE Active /\ remove.id \in DOMAIN index
  <2> DEFINE id == remove.id
             idx == ApplyRemoveResult(index, id, remove.result)
  <2>1. /\ index' = idx /\ outbox' = {} /\ Dispatch(index', outbox')
        /\ shown' = {s \in shown : s.under.vault = applied.vault => s.under = applied /\ s.id \in DOMAIN idx}
    BY <1>3 DEF RemoveApply, Dispatch, Forget
  <2>2. \A k \in DOMAIN index : index[k] \in Reminders
    BY DEF Inv, TypeOK, IsIndex
  <2>3. /\ DOMAIN index' \subseteq DOMAIN index
        /\ \A k \in DOMAIN index' : /\ index'[k].due = index[k].due /\ index'[k].fire = index[k].fire
                                    /\ index'[k].last = index[k].last
                                    /\ index'[k].state \in {index[k].state, "stale"}
    <3>1. CASE remove.result = "removed"
      BY <1>3, <2>1, <3>1 DEF ApplyRemoveResult, Drop
    <3>2. CASE remove.result # "removed"
      <4>1. index' = [index EXCEPT ![id].state = "stale"]
        BY <1>3, <2>1, <3>2 DEF ApplyRemoveResult
      <4>2. /\ DOMAIN index' = DOMAIN index
            /\ \A k \in DOMAIN index : k # id => index'[k] = index[k]
            /\ index'[id] = [index[id] EXCEPT !.state = "stale"]
        BY <1>3, <4>1
      <4>3. /\ index'[id].due = index[id].due /\ index'[id].fire = index[id].fire
            /\ index'[id].last = index[id].last /\ index'[id].state = "stale"
        BY <1>3, <2>2, <4>2 DEF Reminders
      <4> QED
        BY <4>2, <4>3
    <3> QED
      BY <3>1, <3>2
  <2> HIDE DEF id, idx
  <2>4. Guarded(index')
    BY <2>3 DEF PopupState, Guarded
  <2>5. ASSUME NEW s \in shown', s.under.vault = applied.vault
        PROVE  s.under = applied /\ SpentIn(index', s)
    <3>1. s.under = applied /\ SpentIn(index, s) /\ s.id \in DOMAIN index'
      BY <1>1, <1>3, <2>1, <2>5, CountedNow DEF Counted
    <3> QED
      BY <2>3, <3>1 DEF SpentIn, Spent
  <2> QED
    BY <1>1, <1>3, <2>1, <2>4, <2>5, DispatchCounts DEF Active, Counted
<1> QED
  BY <1>2, <1>3

LEMMA SendCounts ==
  ASSUME NoFileFaults, Inv, Tracking, SavedState, PopupState, NEW id, Send(id)
  PROVE  PopupState'
<1>1. /\ UNCHANGED <<pc, applied, index, indexDisk>> /\ id \in outbox /\ outbox' = outbox \ {id}
      /\ shown' = shown \cup {Pop(id)}
  BY DEF Send
<1>2. Active /\ id \in DOMAIN index /\ pc # "arming"
  BY <1>1 DEF Inv, Control
<1>3. index[id].state = "notified" /\ index[id].last = index[id].fire
  BY <1>1 DEF PopupState
<1>4. index[id].due = DueAt[id.tok][applied.time]
  BY <1>2, <1>3 DEF Tracking, Dated
<1>5. Pop(id).under = applied /\ Pop(id).id = id /\ Pop(id).fire = index[id].fire
  BY DEF Pop
<1>6. SpentIn(index, Pop(id))
  BY <1>2, <1>3, <1>4, <1>5 DEF SpentIn, Spent
<1>7. indexDisk[applied.vault] = index
  BY <1>2 DEF SavedState, NoFileFaults
<1>8. ASSUME NEW k \in outbox' PROVE Pop(k)' \notin shown'
  <2>1. Pop(k)' = Pop(k) /\ k \in outbox /\ k # id
    BY <1>1 DEF Pop
  <2>2. Pop(k) # Pop(id)
    BY <2>1 DEF Pop
  <2> QED
    BY <1>1, <2>1, <2>2 DEF PopupState
<1>9. \A s \in shown' : SpentIn(indexDisk[s.under.vault], s)
  BY <1>1, <1>5, <1>6, <1>7 DEF PopupState
<1>10. \A s \in shown' : s.under.vault = applied.vault => s.under = applied
  BY <1>1, <1>2, <1>5 DEF PopupState
<1> QED
  BY <1>1, <1>2, <1>8, <1>9, <1>10 DEF PopupState, Active

LEMMA IdleCounts ==
  ASSUME PopupState, Deactivate, UNCHANGED <<indexDisk, shown>>, outbox' = {}, pc' # "arming"
  PROVE  PopupState'
BY DEF PopupState, Deactivate, Active, Guarded, NoReminders

LEMMA RestCounts ==
  ASSUME PopupState, UNCHANGED <<applied, index, indexDisk, outbox, shown>>,
         pc' = pc \/ (pc # "arming" /\ pc' # "arming")
  PROVE  PopupState'
<1>1. \A id : Pop(id)' = Pop(id)
  BY DEF Pop
<1> QED
  BY <1>1 DEF PopupState, Active

LEMMA PopupStep ==
  ASSUME NoTwins, NoFileFaults, Inv, Tracking, SavedState, PopupState, [Next]_vars
  PROVE  PopupState'
<1>1. CASE GoIdle \/ IdleOnInvalid \/ VaultUnavailable \/ Crash
  <2>1. Deactivate /\ UNCHANGED <<indexDisk, shown>> /\ outbox' = {} /\ pc' # "arming"
    BY <1>1 DEF GoIdle, IdleOnInvalid, VaultUnavailable, Crash, Reloads
  <2> QED
    BY <2>1, IdleCounts
<1>2. CASE KeepLastKnownGood \/ NoChange \/ Restart
  <2>1. UNCHANGED <<applied, index, indexDisk, outbox, shown>> /\ pc # "arming" /\ pc' # "arming"
    BY <1>2 DEF KeepLastKnownGood, NoChange, ReloadsVault, Reloads, Restart, history
  <2> QED
    BY <2>1, RestCounts
<1>3. CASE UNCHANGED <<daemon, indexDisk, shown>>
  BY <1>3, RestCounts DEF daemon
<1>4. CASE Loop
  BY <1>1, <1>2, <1>4, SettingsCounts, ActivateCounts, ArmCounts, HandleBatchCounts, TickActionCounts,
     RemoveApplyCounts, SendCounts DEF Loop
<1>5. CASE Requests
  <2>1. ASSUME NEW id, RemoveWorker(id) PROVE UNCHANGED <<daemon, indexDisk, shown>>
    BY <2>1 DEF RemoveWorker
  <2> QED
    BY <1>3, <1>5, <2>1, SnoozeCounts DEF Requests
<1>6. CASE World
  <2>1. ASSUME NEW v, NEW p, NEW content, EditNote(v, p, content)
        PROVE  UNCHANGED <<daemon, indexDisk, shown>>
    BY <2>1 DEF EditNote
  <2>2. ASSUME NEW v, NEW S, MountChange(v, S) PROVE UNCHANGED <<daemon, indexDisk, shown>>
    BY <2>2 DEF MountChange
  <2>3. ASSUME NEW file, WriteConfig(file) PROVE UNCHANGED <<daemon, indexDisk, shown>>
    BY <2>3 DEF WriteConfig, history
  <2>4. Advance \/ WatchError => UNCHANGED <<daemon, indexDisk, shown>>
    BY DEF Advance, WatchError, history
  <2>5. ASSUME NEW v, CorruptIndex(v) PROVE FALSE
    BY <2>5 DEF CorruptIndex, NoFileFaults
  <2> QED
    BY <1>1, <1>2, <1>3, <1>6, <2>1, <2>2, <2>3, <2>4, <2>5 DEF World
<1>7. CASE UNCHANGED vars
  BY <1>3, <1>7 DEF vars, history
<1> QED
  BY <1>4, <1>5, <1>6, <1>7 DEF Next

\* No popup is sent twice for one fire of a reminder, across rescans, ticks, switches,
\* settings changes and crashes between the write of the index and the popup, for
\* notes of any length without twins (scheduler.rs:27-29, daemon.rs:538-566).
THEOREM PopupsNeverRepeat == NoTwins /\ Spec => []NoRepeatedPopup
<1>1. CASE NoFileFaults
  <2> SUFFICES ASSUME NoTwins PROVE Spec => []NoRepeatedPopup
    OBVIOUS
  <2>1. Init => SavedState /\ PopupState
    BY DEF Init, SavedState, PopupState, FirstOnly, Guarded, NoReminders, Active
  <2>2. Inv /\ Tracking /\ SavedState /\ PopupState /\ [Next]_vars => SavedState' /\ PopupState'
    BY <1>1, SavedStep, PopupStep DEF NoFileFaults
  <2>3. PopupState => NoRepeatedPopup
    BY DEF PopupState, NoRepeatedPopup
  <2> QED
    BY <2>1, <2>2, <2>3, TrackingAlways, PTL DEF Spec
<1>2. CASE ~NoFileFaults
  <2>1. NoRepeatedPopup
    BY <1>2 DEF NoRepeatedPopup, NoFileFaults
  <2> QED
    BY <2>1, PTL
<1> QED
  BY <1>1, <1>2
=============================================================================
