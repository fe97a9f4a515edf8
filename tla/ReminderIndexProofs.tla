------------------------- MODULE ReminderIndexProofs -------------------------
(***************************************************************************)
(* What the operators of ReminderScheduler and ReminderIndex return: every *)
(* operation on an index yields an index of the right type in which the    *)
(* state and the fire-guard of each reminder agree.                        *)
(***************************************************************************)
EXTENDS ReminderIndex, FiniteSetTheorems, WellFoundedInduction, TLAPS

\* The state of a reminder and its fire-guard agree: it is inductive only with
\* the guard in the past, and with no armed reminder that was already notified at
\* its due time, which a snooze at that very instant would leave armed for good.
Sound(r, now) ==
  /\ r.state = "scheduled" => r.last # r.fire /\ r.last # r.due
  /\ r.state = "notified" => r.last = r.fire
  /\ r.last # NoTime => r.last <= now

SoundIndex(idx, now) ==
  /\ IsIndex(idx)
  /\ \A id \in DOMAIN idx : Sound(idx[id], now)

---------------------------------------------------------------------------
(* Numbers.                                                                *)

\* A nonempty set of naturals has a least element (WakeTimes, FirstClaim).
LEMMA LeastNat ==
  ASSUME NEW S \in SUBSET Nat, S # {}
  PROVE  \E x \in S : \A y \in S : x <= y
<1>1. \E x \in S : \A y \in S : ~(<<y, x>> \in OpToRel(<, Nat))
  BY NatLessThanWellFounded, WFMin
<1>2. PICK x \in S : \A y \in S : ~(<<y, x>> \in OpToRel(<, Nat))
  BY <1>1
<1>3. \A y \in S : ~(y < x)
  BY <1>2 DEF OpToRel
<1> QED
  BY <1>3

---------------------------------------------------------------------------
(* The scheduler on one reminder.                                          *)

\* MarkNotified sets the guard with the state (scheduler.rs:149-154).
LEMMA MarkNotifiedSound ==
  ASSUME NEW r \in Reminders, NEW now \in Int, r.fire <= now
  PROVE  MarkNotified(r) \in Reminders /\ Sound(MarkNotified(r), now)
BY DEF Reminders, ReminderStates, MarkNotified, Sound

\* MarkDue leaves a reminder that no pass looks at as armed.
LEMMA MarkDueSound ==
  ASSUME NEW r \in Reminders, NEW now \in Int, Sound(r, now)
  PROVE  MarkDue(r) \in Reminders /\ Sound(MarkDue(r), now)
BY DEF Reminders, ReminderStates, MarkDue, Sound

\* Discovery keeps state and guard in step (scheduler.rs:136-165).
LEMMA DiscoverOneSound ==
  ASSUME NEW r \in Reminders, NEW now \in Int, Sound(r, now)
  PROVE  DiscoverOne(r, now) \in Reminders /\ Sound(DiscoverOne(r, now), now)
BY MarkNotifiedSound, MarkDueSound DEF DiscoverOne, Discoverable

\* So does the execution of timers (scheduler.rs:172-198).
LEMMA RunTimerOneSound ==
  ASSUME NEW r \in Reminders, NEW now \in Int, Sound(r, now)
  PROVE  RunTimerOne(r, now) \in Reminders /\ Sound(RunTimerOne(r, now), now)
BY MarkNotifiedSound, MarkDueSound DEF RunTimerOne, Expired

\* A reminder re-armed before its due time can fire (scheduler.rs:292-302).
LEMMA RescheduleSound ==
  ASSUME NEW r \in Reminders, NEW t \in Int, NEW now \in Int, Sound(r, now), now < r.due
  PROVE  Reschedule(r, t) \in Reminders /\ Sound(Reschedule(r, t), now)
<1> DEFINE last == IF r.last = t THEN NoTime ELSE r.last
<1>1. /\ Reschedule(r, t).state = "scheduled"
      /\ Reschedule(r, t).due = r.due
      /\ Reschedule(r, t).fire = t
      /\ Reschedule(r, t).last = last
  BY DEF Reschedule, Reminders
<1>2. r.due \in Int /\ r.last \in Int \cup {NoTime} /\ NoTime \notin Int
  BY SchedulerAssumption DEF SchedulerAssumption, Reminders
<1>3. last \in Int \cup {NoTime} /\ last # t
  BY <1>2
<1>4. last # NoTime => last <= now
  BY <1>2 DEF Sound
<1>5. last # r.due
  BY <1>2, <1>4
<1>6. Reschedule(r, t) \in Reminders
  BY <1>3 DEF Reschedule, Reminders, ReminderStates
<1> HIDE DEF last
<1> QED
  BY <1>1, <1>3, <1>4, <1>5, <1>6 DEF Sound

\* Every snooze keeps state and guard in step (scheduler.rs:243-290).
LEMMA ApplySnoozeSound ==
  ASSUME NEW r \in Reminders, NEW now \in Int, Sound(r, now), NEW m \in LockedSnoozeMinutes
  PROVE  /\ ApplySnooze(r, m, now).to \in Reminders
         /\ Sound(ApplySnooze(r, m, now).to, now)
<1>1. r.due \in Int
  BY DEF Reminders
<1>2. /\ SnoozeBefore(r, m, now).to \in Reminders
      /\ Sound(SnoozeBefore(r, m, now).to, now)
  <2>1. r.due - m * Minute \in Int /\ r.due - m * Minute <= r.due
    BY <1>1, SchedulerAssumption DEF SchedulerAssumption, LockedSnoozeMinutes
  <2> QED
    BY <1>1, <2>1, RescheduleSound DEF SnoozeBefore
<1>3. /\ SnoozeAtTime(r, now).to \in Reminders
      /\ Sound(SnoozeAtTime(r, now).to, now)
  <2> DEFINE atDue == [r EXCEPT !.fire = r.due]
  <2>1. atDue \in Reminders /\ atDue.fire = r.due
    BY <1>1 DEF Reminders
  <2>2. CASE now < r.due
    BY <1>1, <2>2, RescheduleSound DEF SnoozeAtTime
  <2>3. CASE now > r.due
    BY <1>1, <2>3, MarkDueSound DEF SnoozeAtTime
  <2>4. CASE now = r.due /\ AlreadyFired(atDue)
    BY <1>1, <2>1, <2>4 DEF SnoozeAtTime, AlreadyFired, Sound, Reminders
  <2>5. CASE now = r.due /\ ~AlreadyFired(atDue)
    <3>1. SnoozeAtTime(r, now).to = MarkNotified(atDue)
      BY <1>1, <2>5 DEF SnoozeAtTime
    <3> HIDE DEF atDue
    <3>2. atDue.fire <= now
      BY <1>1, <2>1, <2>5
    <3> QED
      BY <2>1, <3>1, <3>2, MarkNotifiedSound
  <2> QED
    BY <1>1, <2>2, <2>3, <2>4, <2>5
<1> QED
  BY <1>2, <1>3 DEF ApplySnooze
---------------------------------------------------------------------------
(* One reminder outside the scheduler.                                     *)

\* Time alone does not spoil a reminder.
LEMMA SoundLater ==
  ASSUME NEW r \in Reminders, NEW now \in Int, NEW later \in Int, now <= later, Sound(r, now)
  PROVE  Sound(r, later)
<1>1. r.last \in Int \cup {NoTime}
  BY DEF Reminders
<1> QED
  BY <1>1 DEF Sound

\* A settings change re-arms without a guard or leaves alone (rederive.rs:25-45).
LEMMA RederiveOneSound ==
  ASSUME NEW r \in Reminders, NEW now \in Int, Sound(r, now),
         NEW id \in Ids, NEW time \in Times, NEW lead \in Nat
  PROVE  RederiveOne(r, id, time, lead) \in Reminders /\ Sound(RederiveOne(r, id, time, lead), now)
<1> DEFINE due == DueAt[id.tok][time]
           fire == due - lead * Minute
<1>1. due \in Int /\ fire \in Int
  BY IndexAssumption, SchedulerAssumption DEF IndexAssumption, SchedulerAssumption, Ids
<1>2. NoTime # due /\ NoTime # fire
  BY <1>1, SchedulerAssumption DEF SchedulerAssumption
<1> HIDE DEF due, fire
<1> DEFINE armed == [r EXCEPT !.due = due, !.fire = fire, !.state = "scheduled", !.last = NoTime]
<1>3. armed \in Reminders
  BY <1>1 DEF Reminders, ReminderStates
<1>4. armed.state = "scheduled" /\ armed.due = due /\ armed.fire = fire /\ armed.last = NoTime
  BY DEF Reminders
<1>5. Sound(armed, now)
  BY <1>2, <1>4 DEF Sound
<1>6. RederiveOne(r, id, time, lead) = r \/ RederiveOne(r, id, time, lead) = armed
  BY DEF RederiveOne, due, fire
<1> QED
  BY <1>3, <1>5, <1>6

\* What a reminder receives across a rescan agrees with its due time, which is
\* the same (merge.rs:148-186).
LEMMA CarrySound ==
  ASSUME NEW r \in Reminders, NEW fresh \in Reminders, NEW now \in Int,
         Sound(r, now), Sound(fresh, now)
  PROVE  Carry(r, fresh) \in Reminders /\ Sound(Carry(r, fresh), now)
<1> DEFINE carried == [fresh EXCEPT !.state = r.state, !.fire = r.fire, !.last = r.last]
<1>1. CASE CanApplyTo(r, fresh)
  <2>1. Carry(r, fresh) = carried
    BY <1>1 DEF Carry
  <2>2. carried \in Reminders
    BY DEF Reminders
  <2>3. /\ carried.state = r.state /\ carried.fire = r.fire
        /\ carried.last = r.last /\ carried.due = r.due
    BY <1>1 DEF Reminders, CanApplyTo
  <2> QED
    BY <2>1, <2>2, <2>3 DEF Sound
<1>2. CASE ~CanApplyTo(r, fresh)
  BY <1>2 DEF Carry
<1> QED
  BY <1>1, <1>2

---------------------------------------------------------------------------
(* Scanning.                                                               *)

\* Ordinals of a note's tokens are bounded by its length (scanner.rs).
LEMMA OrdinalBounded ==
  ASSUME NEW content, IsNote(content), NEW i
  PROVE  Ordinal(content, i) \in 0..MaxLines
<1> DEFINE before == {j \in Live(content) : j < i /\ content[j].tok = content[i].tok}
<1>1. PICK n \in 0..MaxLines : content \in [1..n -> Lines]
  BY DEF IsNote
<1>2. n \in Nat /\ MaxLines \in Nat
  BY <1>1, IndexAssumption DEF IndexAssumption
<1>3. before \subseteq 1..n
  BY <1>1 DEF Live
<1>4. IsFiniteSet(1..n) /\ Cardinality(1..n) = n
  BY <1>2, FS_Interval
<1>5. IsFiniteSet(before) /\ Cardinality(before) <= n
  BY <1>3, <1>4, FS_Subset
<1>6. Cardinality(before) \in Nat
  BY <1>5, FS_CardinalityType
<1> QED
  BY <1>1, <1>2, <1>5, <1>6 DEF Ordinal

\* The line an id of a live token names is a live line with that token.
LEMMA LineNamedLive ==
  ASSUME NEW path, NEW content, NEW i \in Live(content)
  PROVE  /\ LineNamed(content, TokenId(path, content, i)) \in Live(content)
         /\ content[LineNamed(content, TokenId(path, content, i))].tok = content[i].tok
<1> DEFINE id == TokenId(path, content, i)
<1>1. id.tok = content[i].tok /\ id.ord = Ordinal(content, i)
  BY DEF TokenId
<1>2. \E k \in Live(content) : content[k].tok = id.tok /\ Ordinal(content, k) = id.ord
  BY <1>1
<1> HIDE DEF id
<1>3. /\ LineNamed(content, id) \in Live(content)
      /\ content[LineNamed(content, id)].tok = id.tok
  BY <1>2 DEF LineNamed
<1> QED
  BY <1>1, <1>3 DEF id

\* The scan of a note gives reminders of that note, armed and unguarded.
LEMMA ScanFileSound ==
  ASSUME NEW path \in Paths, NEW content, IsNote(content),
         NEW time \in Times, NEW lead \in Nat, NEW now \in Int
  PROVE  /\ SoundIndex(ScanFile(path, content, time, lead), now)
         /\ \A id \in DOMAIN ScanFile(path, content, time, lead) : id.path = path
<1> DEFINE scan == ScanFile(path, content, time, lead)
           ids  == {TokenId(path, content, i) : i \in Live(content)}
<1>1. DOMAIN scan = ids
  BY DEF ScanFile
<1>2. PICK n \in 0..MaxLines : content \in [1..n -> Lines]
  BY DEF IsNote
<1>3. Live(content) \subseteq 1..n
  BY <1>2 DEF Live
<1>4. ASSUME NEW i \in Live(content)
      PROVE  TokenId(path, content, i) \in Ids /\ TokenId(path, content, i).path = path
  <2>1. content[i].tok \in Tokens
    BY <1>2, <1>3 DEF Lines
  <2>2. Ordinal(content, i) \in 0..MaxLines
    BY OrdinalBounded
  <2> QED
    BY <2>1, <2>2 DEF TokenId, Ids
<1>5. TextOf(content) \in Texts
  <2>1. TextOf(content) \in [1..n -> [tok : Tokens, anchor : Anchors, struck : BOOLEAN]]
    BY <1>2 DEF TextOf, Lines
  <2> QED
    BY <2>1 DEF Texts
<1>6. ASSUME NEW k \in Live(content)
      PROVE  /\ FreshReminder(content, k, time, lead) \in Reminders
             /\ Sound(FreshReminder(content, k, time, lead), now)
  <2> DEFINE due  == DueAt[content[k].tok][time]
             fire == due - lead * Minute
  <2>1. content[k] \in Lines
    BY <1>2, <1>3
  <2>2. content[k].tok \in Tokens /\ content[k].anchor \in Anchors /\ content[k].uid \in Uids
    BY <2>1 DEF Lines
  <2>3. due \in Int /\ fire \in Int
    BY <2>2, IndexAssumption, SchedulerAssumption DEF IndexAssumption, SchedulerAssumption
  <2>4. NoTime # due /\ NoTime # fire
    BY <2>3, SchedulerAssumption DEF SchedulerAssumption
  <2>5. FreshReminder(content, k, time, lead) =
          [anchor |-> content[k].anchor, print |-> TextOf(content), uid |-> content[k].uid,
           state |-> "scheduled", due |-> due, fire |-> fire, last |-> NoTime]
    BY DEF FreshReminder
  <2> HIDE DEF due, fire
  <2>6. FreshReminder(content, k, time, lead) \in Reminders
    BY <1>5, <2>2, <2>3, <2>5 DEF Reminders, ReminderStates
  <2>7. Sound(FreshReminder(content, k, time, lead), now)
    BY <2>4, <2>5 DEF Sound
  <2> QED
    BY <2>6, <2>7
<1>7. ASSUME NEW id \in ids
      PROVE  scan[id] \in Reminders /\ Sound(scan[id], now)
  <2>1. scan[id] = FreshReminder(content, LineNamed(content, id), time, lead)
    BY DEF ScanFile
  <2>2. LineNamed(content, id) \in Live(content)
    BY LineNamedLive
  <2> QED
    BY <1>6, <2>1, <2>2
<1>8. scan = [id \in DOMAIN scan |-> scan[id]]
  BY DEF ScanFile
<1>9. DOMAIN scan \subseteq Ids /\ \A id \in DOMAIN scan : id.path = path
  BY <1>1, <1>4
<1> QED
  BY <1>1, <1>7, <1>8, <1>9 DEF SoundIndex, IsIndex

\* Indexes of several notes make one index.
LEMMA JoinNotesSound ==
  ASSUME NEW f, NEW now \in Int,
         \A p \in DOMAIN f : SoundIndex(f[p], now) /\ \A id \in DOMAIN f[p] : id.path = p
  PROVE  SoundIndex(JoinNotes(f), now)
<1>1. JoinNotes(f) = [id \in DOMAIN JoinNotes(f) |-> JoinNotes(f)[id]]
  BY DEF JoinNotes
<1>2. ASSUME NEW id \in DOMAIN JoinNotes(f)
      PROVE  id \in Ids /\ JoinNotes(f)[id] \in Reminders /\ Sound(JoinNotes(f)[id], now)
  <2>1. PICK p \in DOMAIN f : id \in DOMAIN f[p]
    BY DEF JoinNotes
  <2>2. JoinNotes(f)[id] = f[p][id]
    BY <2>1 DEF JoinNotes
  <2> QED
    BY <2>1, <2>2 DEF SoundIndex, IsIndex
<1> QED
  BY <1>1, <1>2 DEF SoundIndex, IsIndex

\* The reminders of one note are an index.
LEMMA RemindersOfSound ==
  ASSUME NEW idx, NEW now \in Int, SoundIndex(idx, now), NEW p
  PROVE  SoundIndex(RemindersOf(idx, p), now) /\ \A id \in DOMAIN RemindersOf(idx, p) : id.path = p
BY DEF SoundIndex, IsIndex, RemindersOf

\* A full scan (scan.rs:29-77).
LEMMA ScanVaultSound ==
  ASSUME NEW notes, DOMAIN notes = Paths, \A p \in Paths : IsNote(notes[p]),
         NEW time \in Times, NEW lead \in Nat, NEW now \in Int
  PROVE  SoundIndex(ScanVault(notes, time, lead), now)
BY JoinNotesSound, ScanFileSound DEF ScanVault

\* An incremental rescan keeps what it does not read (scan.rs:85-128).
LEMMA RescanChangedFilesSound ==
  ASSUME NEW notes, DOMAIN notes = Paths, \A p \in Paths : IsNote(notes[p]), NEW changed,
         NEW time \in Times, NEW lead \in Nat, NEW now \in Int,
         NEW prior, SoundIndex(prior, now)
  PROVE  SoundIndex(RescanChangedFiles(notes, prior, changed, time, lead), now)
<1> DEFINE f == [p \in DOMAIN notes |->
                   IF p \in changed THEN ScanFile(p, notes[p], time, lead)
                                    ELSE RemindersOf(prior, p)]
<1>1. ASSUME NEW p \in DOMAIN f
      PROVE  SoundIndex(f[p], now) /\ \A id \in DOMAIN f[p] : id.path = p
  BY ScanFileSound, RemindersOfSound
<1> QED
  BY <1>1, JoinNotesSound DEF RescanChangedFiles

---------------------------------------------------------------------------
(* Claims.                                                                 *)

\* The entries of one content key differ in their ordinal, so they are few.
LEMMA SameContentFinite ==
  ASSUME NEW idx, IsIndex(idx), NEW id
  PROVE  IsFiniteSet(SameContent(idx, id))
<1> DEFINE S == SameContent(idx, id)
           f == [c \in S |-> c.ord]
<1>1. \A c \in S : c \in Ids /\ c.path = id.path /\ c.tok = id.tok
  BY DEF SameContent, IsIndex
<1>2. \A a \in S, b \in S : a.ord = b.ord => a = b
  BY <1>1 DEF Ids
<1>3. f \in [S -> 0..MaxLines]
  BY <1>1 DEF Ids
<1>4. f \in Injection(S, 0..MaxLines)
  BY <1>2, <1>3 DEF Injection, IsInjective
<1>5. IsFiniteSet(0..MaxLines)
  BY FS_Interval, IndexAssumption DEF IndexAssumption
<1> QED
  BY <1>4, <1>5, FS_Injection

\* Of a finite set with at most one element.
LEMMA AtMostOne ==
  ASSUME NEW S, IsFiniteSet(S), ~(Cardinality(S) > 1), NEW a \in S, NEW b \in S
  PROVE  a = b
<1>1. Cardinality(S) \in Nat /\ Cardinality(S) # 0
  BY FS_CardinalityType, FS_EmptySet
<1>2. Cardinality(S) = 1
  BY <1>1
<1> QED
  BY <1>2, FS_Singleton

\* A subset of a singleton is finite and has at most one element.
LEMMA SingletonBound ==
  ASSUME NEW S, NEW x, S \subseteq {x}
  PROVE  IsFiniteSet(S) /\ Cardinality(S) <= 1
<1>1. IsFiniteSet({x}) /\ Cardinality({x}) = 1
  BY FS_Singleton
<1> QED
  BY <1>1, FS_Subset

LEMMA AnchorMatchesFinite ==
  ASSUME NEW idx, IsIndex(idx), NEW id, NEW anchor
  PROVE  IsFiniteSet(AnchorMatches(idx, id, anchor))
BY SameContentFinite, FS_Subset DEF AnchorMatches

---------------------------------------------------------------------------
(* Operations on a whole index.                                            *)

\* The empty index.
LEMMA NoRemindersSound ==
  ASSUME NEW now
  PROVE  SoundIndex(NoReminders, now)
BY DEF SoundIndex, IsIndex, NoReminders

LEMMA SoundIndexLater ==
  ASSUME NEW idx, NEW now \in Int, NEW later \in Int, now <= later, SoundIndex(idx, now)
  PROVE  SoundIndex(idx, later)
BY SoundLater DEF SoundIndex, IsIndex

\* Replacing the reminder of one id.
LEMMA ReplaceSound ==
  ASSUME NEW idx, NEW now \in Int, SoundIndex(idx, now), NEW id \in DOMAIN idx,
         NEW r \in Reminders, Sound(r, now)
  PROVE  SoundIndex([idx EXCEPT ![id] = r], now)
BY DEF SoundIndex, IsIndex

LEMMA DiscoverSound ==
  ASSUME NEW idx, NEW now \in Int, SoundIndex(idx, now)
  PROVE  SoundIndex(Discover(idx, now), now)
BY DiscoverOneSound DEF SoundIndex, IsIndex, Discover

LEMMA RunTimersSound ==
  ASSUME NEW idx, NEW now \in Int, SoundIndex(idx, now)
  PROVE  SoundIndex(RunTimers(idx, now), now)
BY RunTimerOneSound DEF SoundIndex, IsIndex, RunTimers

LEMMA RederiveSound ==
  ASSUME NEW idx, NEW now \in Int, SoundIndex(idx, now), NEW time \in Times, NEW lead \in Nat
  PROVE  SoundIndex(Rederive(idx, time, lead), now)
BY RederiveOneSound DEF SoundIndex, IsIndex, Rederive

\* A merged reminder is the fresh one, or carries the state of a prior one of the
\* same note and token that claims it (merge.rs:49-146).
LEMMA MergeChoice ==
  ASSUME NEW prior, NEW fresh, IsIndex(prior), NEW c \in DOMAIN fresh
  PROVE  \/ Merge(prior, fresh)[c] = fresh[c]
         \/ \E id \in Claimants(prior, fresh, c) : Merge(prior, fresh)[c] = Carry(prior[id], fresh[c])
<1> DEFINE S == Claimants(prior, fresh, c)
<1>1. CASE S = {}
  BY <1>1 DEF Merge
<1>2. CASE S # {}
  <2>1. S \subseteq DOMAIN prior
    BY DEF Claimants, SameContent
  <2>2. \A id \in S : id.ord \in Nat
    BY <2>1, IndexAssumption DEF IsIndex, Ids, IndexAssumption
  <2> DEFINE ords == {id.ord : id \in S}
  <2>3. \E x \in ords : \A y \in ords : x <= y
    <3>1. ords \in SUBSET Nat /\ ords # {}
      BY <1>2, <2>2
    <3> HIDE DEF ords
    <3> QED
      BY <3>1, LeastNat
  <2>4. \E id \in S : \A other \in S : id.ord <= other.ord
    BY <2>3
  <2> HIDE DEF S
  <2>5. FirstClaim(S) \in S
    BY <2>4 DEF FirstClaim
  <2>6. Merge(prior, fresh)[c] = Carry(prior[FirstClaim(S)], fresh[c])
    BY <1>2 DEF Merge, S
  <2> QED
    BY <2>5, <2>6 DEF S
<1> QED
  BY <1>1, <1>2

\* Whatever merging decides, each fresh reminder ends up sound.
LEMMA MergeSound ==
  ASSUME NEW prior, NEW fresh, NEW now \in Int,
         SoundIndex(prior, now), SoundIndex(fresh, now)
  PROVE  SoundIndex(Merge(prior, fresh), now)
<1>1. ASSUME NEW c \in DOMAIN fresh
      PROVE  Merge(prior, fresh)[c] \in Reminders /\ Sound(Merge(prior, fresh)[c], now)
  <2>1. fresh[c] \in Reminders /\ Sound(fresh[c], now)
    BY DEF SoundIndex, IsIndex
  <2>2. CASE Merge(prior, fresh)[c] = fresh[c]
    BY <2>1, <2>2
  <2>3. CASE \E id \in Claimants(prior, fresh, c) : Merge(prior, fresh)[c] = Carry(prior[id], fresh[c])
    <3>1. PICK id \in Claimants(prior, fresh, c) : Merge(prior, fresh)[c] = Carry(prior[id], fresh[c])
      BY <2>3
    <3>2. prior[id] \in Reminders /\ Sound(prior[id], now)
      BY DEF Claimants, SameContent, SoundIndex, IsIndex
    <3> QED
      BY <2>1, <3>1, <3>2, CarrySound
  <2> QED
    BY <2>2, <2>3, MergeChoice DEF SoundIndex
<1>2. DOMAIN Merge(prior, fresh) = DOMAIN fresh
  BY DEF Merge
<1>3. Merge(prior, fresh) = [c \in DOMAIN Merge(prior, fresh) |-> Merge(prior, fresh)[c]]
  BY DEF Merge
<1> QED
  BY <1>1, <1>2, <1>3 DEF SoundIndex, IsIndex

\* Recording the outcome of a write-back (daemon.rs, index.rs).
LEMMA ApplyRemoveResultSound ==
  ASSUME NEW idx, NEW now \in Int, SoundIndex(idx, now), NEW id, NEW result
  PROVE  SoundIndex(ApplyRemoveResult(idx, id, result), now)
<1>1. SoundIndex(Drop(idx, id), now)
  BY DEF SoundIndex, IsIndex, Drop
<1>2. ASSUME id \in DOMAIN idx
      PROVE  SoundIndex([idx EXCEPT ![id].state = "stale"], now)
  <2> DEFINE r == [idx[id] EXCEPT !.state = "stale"]
  <2>1. idx[id] \in Reminders /\ Sound(idx[id], now)
    BY <1>2 DEF SoundIndex, IsIndex
  <2>2. r \in Reminders
    BY <2>1 DEF Reminders, ReminderStates
  <2>3. r.state = "stale" /\ r.last = idx[id].last
    BY <2>1 DEF Reminders
  <2>4. Sound(r, now)
    BY <2>1, <2>3 DEF Sound
  <2> HIDE DEF r
  <2>5. SoundIndex([idx EXCEPT ![id] = r], now)
    BY <1>2, <2>2, <2>4, ReplaceSound
  <2> QED
    BY <2>5 DEF r
<1> QED
  BY <1>1, <1>2 DEF ApplyRemoveResult

\* The next wakeup comes no later than any armed reminder wants it
\* (scheduler.rs:205-225).
LEMMA NextWakeupCovers ==
  ASSUME NEW idx, NEW now \in Nat, IsIndex(idx)
  PROVE  /\ NextWakeup(idx, now) \in Int \cup {NoTime}
         /\ \A id \in DOMAIN idx : Armed(idx[id]) =>
              /\ NextWakeup(idx, now) # NoTime
              /\ NextWakeup(idx, now) <= idx[id].fire \/ NextWakeup(idx, now) <= now
<1> DEFINE W == WakeTimes(idx, now)
<1>1. \A id \in DOMAIN idx : idx[id].fire \in Int
  BY DEF IsIndex, Reminders
<1>2. W \in SUBSET Nat
  BY <1>1 DEF WakeTimes
<1>3. ASSUME NEW id \in DOMAIN idx, Armed(idx[id])
      PROVE  (IF idx[id].fire < now THEN now ELSE idx[id].fire) \in W
  BY <1>3 DEF WakeTimes
<1>4. CASE W = {}
  BY <1>3, <1>4 DEF NextWakeup
<1>5. CASE W # {}
  <2>1. \E t \in W : \A u \in W : t <= u
    BY <1>2, <1>5, LeastNat
  <2>2. NextWakeup(idx, now) \in W /\ \A u \in W : NextWakeup(idx, now) <= u
    BY <1>5, <2>1 DEF NextWakeup
  <2> HIDE DEF W
  <2>3. NextWakeup(idx, now) \in Nat /\ NextWakeup(idx, now) # NoTime
    <3>1. NextWakeup(idx, now) \in Nat
      BY <1>2, <2>2
    <3>2. NoTime \notin Nat
      BY SchedulerAssumption DEF SchedulerAssumption
    <3> QED
      BY <3>1, <3>2
  <2>4. ASSUME NEW id \in DOMAIN idx, Armed(idx[id])
        PROVE  NextWakeup(idx, now) <= idx[id].fire \/ NextWakeup(idx, now) <= now
    <3>1. NextWakeup(idx, now) <= (IF idx[id].fire < now THEN now ELSE idx[id].fire)
      BY <1>3, <2>2, <2>4
    <3> QED
      BY <1>1, <2>3, <3>1
  <2> QED
    BY <2>3, <2>4
<1> QED
  BY <1>4, <1>5
=============================================================================
