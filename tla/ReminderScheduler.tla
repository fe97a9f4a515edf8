------------------------- MODULE ReminderScheduler -------------------------
(***************************************************************************)
(* The pure scheduling rules of the reminder daemon                        *)
(* (crates/eskerra-reminderd/src/scheduler.rs).  A reminder is a record    *)
(* with at least the fields                                                *)
(*    state, due (due_at_ms), fire (fire_at_ms), last (last_notified_ms);  *)
(* an index is a function from reminder ids to reminders.  Instants are    *)
(* integers, `NoTime' is Rust's None.                                      *)
(***************************************************************************)
EXTENDS Integers, FiniteSets

CONSTANTS
  Grace,    \* SCHEDULER_GRACE_MS: how far past `due' a scheduled fire still pops
  Minute,   \* MS_PER_MINUTE in the model's unit of time
  NoTime    \* None, for an Option<i64>

ASSUME SchedulerAssumption ==
  /\ Grace \in Nat
  /\ Minute \in Nat \ {0}
  /\ NoTime \notin Int

ReminderStates == {"scheduled", "notified", "due", "stale"}

LockedSnoozeMinutes == {3, 1, 0}

---------------------------------------------------------------------------
(* One reminder.                                                           *)

AlreadyFired(r) == r.last = r.fire

MarkNotified(r) == [r EXCEPT !.state = "notified", !.last = r.fire]

MarkDue(r) == [r EXCEPT !.state = "due"]

\* Discovery looks at every reminder that is not stale, whose fire time has
\* come and that was not notified for that fire time.
Discoverable(r, now) == /\ r.state # "stale"
                        /\ r.fire <= now
                        /\ ~AlreadyFired(r)

DiscoverOne(r, now) ==
  IF ~Discoverable(r, now) THEN r
  ELSE IF now < r.due THEN MarkNotified(r) ELSE MarkDue(r)

\* Scheduled-fire execution looks at armed reminders only.
Armed(r) == r.state = "scheduled" /\ ~AlreadyFired(r)

Expired(r, now) == Armed(r) /\ r.fire <= now

RunTimerOne(r, now) ==
  IF ~Expired(r, now) THEN r
  ELSE IF now <= r.due + Grace THEN MarkNotified(r) ELSE MarkDue(r)

\* Mutant of Reschedule: the state of the previous fire is kept.
RescheduleKeepingState(r, t) ==
  [r EXCEPT !.fire = t, !.last = IF r.last = t THEN NoTime ELSE r.last]

\* Arm a fire at t.  The guard is dropped only when it would suppress t itself.
Reschedule(r, t) ==
  [r EXCEPT !.fire = t,
            !.state = "scheduled",
            !.last = IF r.last = t THEN NoTime ELSE r.last]

\* What a snooze does to a reminder: [to: the reminder after it, fires: whether
\* the at-time popup is sent at once].
SnoozeAtTime(r, now) ==
  IF now < r.due
  THEN [to |-> Reschedule(r, r.due), fires |-> FALSE]
  ELSE IF now > r.due
  THEN [to |-> MarkDue(r), fires |-> FALSE]
  ELSE LET atDue == [r EXCEPT !.fire = r.due]
       IN  IF AlreadyFired(atDue)
           THEN [to |-> atDue, fires |-> FALSE]
           ELSE [to |-> MarkNotified(atDue), fires |-> TRUE]

SnoozeBefore(r, minutes, now) ==
  LET target == r.due - minutes * Minute
  IN  [to |-> IF target > now THEN Reschedule(r, target) ELSE r, fires |-> FALSE]

ApplySnooze(r, minutes, now) ==
  IF r.state = "stale" THEN [to |-> r, fires |-> FALSE]
  ELSE IF minutes = 0 THEN SnoozeAtTime(r, now)
  ELSE SnoozeBefore(r, minutes, now)

---------------------------------------------------------------------------
(* A whole index.                                                          *)

Discover(idx, now) == [id \in DOMAIN idx |-> DiscoverOne(idx[id], now)]

DiscoverFires(idx, now) ==
  {id \in DOMAIN idx : Discoverable(idx[id], now) /\ now < idx[id].due}

RunTimers(idx, now) == [id \in DOMAIN idx |-> RunTimerOne(idx[id], now)]

TimerFires(idx, now) ==
  {id \in DOMAIN idx : Expired(idx[id], now) /\ now <= idx[id].due + Grace}

\* The instants at which an armed reminder wants the run loop to wake.
WakeTimes(idx, now) ==
  {IF idx[id].fire < now THEN now ELSE idx[id].fire :
     id \in {i \in DOMAIN idx : Armed(idx[i])}}

NextWakeup(idx, now) ==
  IF WakeTimes(idx, now) = {} THEN NoTime
  ELSE CHOOSE t \in WakeTimes(idx, now) : \A u \in WakeTimes(idx, now) : t <= u
=============================================================================
