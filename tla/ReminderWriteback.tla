------------------------- MODULE ReminderWriteback -------------------------
(***************************************************************************)
(* Removing reminders: worker threads that strike a token in a note under  *)
(* a per-note lock (crates/eskerra-reminderd/src/writeback.rs, and         *)
(* perform_remove in run.rs), next to the run loop that owns the index,    *)
(* and to the user and other programs that edit the notes.                 *)
(*                                                                         *)
(* The reminders here have one due time and are never fired or snoozed:    *)
(* ReminderDaemon has the schedule, this module the steps of a removal.    *)
(***************************************************************************)
EXTENDS ReminderIndex

CONSTANTS
  Workers,       \* remove worker threads
  LockIds,       \* identities of Arc<Mutex<()>> allocations
  NoLock,        \* no lock entry, no lock held in a local variable
  NoWorker,      \* an unlocked mutex
  InitialNotes,  \* notes the user may have at the start: [Paths -> Seq(Lines)]
  MaxEdits,      \* bound on the edits of the user and other programs
  NewUid,        \* NewUid[n]: the line that the n-th edit adds, if it adds one
  Time, Lead     \* the settings

ASSUME WritebackAssumption ==
  /\ InitialNotes \subseteq [Paths -> UNION {[1..n -> Lines] : n \in 0..MaxLines}]
  /\ IsFiniteSet(Paths) /\ IsFiniteSet(Workers)
  /\ NoLock \notin LockIds
  /\ NoWorker \notin Workers
  /\ MaxEdits \in Nat
  /\ NewUid \in [1..MaxEdits -> Uids]
  /\ Time \in Times /\ Lead \in Nat

VARIABLES
  notes,     \* notes[p]: the note at p
  index,     \* the loop's index
  touched,   \* notes in the watch's pending batch
  pc,        \* pc[w]: the next step of worker w
  goal,      \* goal[w]: the reminder w was asked to remove
  stored,    \* stored[w]: the reminder as the loop's answer had it
  buffer,    \* buffer[w]: the note as w read it
  line,      \* line[w]: the line of the buffer to strike
  result,    \* result[w]: the outcome, "removed" or "stale"
  lockOf,    \* lockOf[w]: the lock w's local Arc points to
  lockMap,   \* lockMap[p]: NoteLocks.locks
  holder,    \* holder[l]: who has locked l
  edits,     \* number of edits so far
  struckBy   \* history: lines of notes struck by a worker and left so by the user

loopVars   == <<index, touched>>
workerVars == <<pc, goal, stored, buffer, line, result>>
lockVars   == <<lockOf, lockMap, holder>>
vars       == <<notes, loopVars, workerVars, lockVars, edits, struckBy>>

NoId       == [path |-> NoLock]
NoReminder == [anchor |-> NoLock]

Steps == {"idle", "forNote", "acquire", "read", "write", "record",
          "unlock", "cleanup", "drop"}

Critical == {"read", "write", "record", "unlock"}

TypeOK ==
  /\ DOMAIN notes = Paths /\ \A p \in Paths : IsNote(notes[p])
  /\ IsIndex(index)
  /\ touched \subseteq Paths
  /\ pc \in [Workers -> Steps]
  /\ goal \in [Workers -> Ids \cup {NoId}]
  /\ stored \in [Workers -> Reminders \cup {NoReminder}]
  /\ DOMAIN buffer = Workers /\ \A w \in Workers : IsNote(buffer[w])
  /\ line \in [Workers -> 0..MaxLines]
  /\ result \in [Workers -> {"removed", "stale"}]
  /\ lockOf \in [Workers -> LockIds \cup {NoLock}]
  /\ lockMap \in [Paths -> LockIds \cup {NoLock}]
  /\ holder \in [LockIds -> Workers \cup {NoWorker}]
  /\ edits \in 0..MaxEdits
  /\ struckBy \subseteq [path : Paths, uid : Uids]

Init ==
  /\ notes \in InitialNotes
  /\ index = ScanVault(notes, Time, Lead)
  /\ touched = {}
  /\ pc = [w \in Workers |-> "idle"]
  /\ goal = [w \in Workers |-> NoId]
  /\ stored = [w \in Workers |-> NoReminder]
  /\ buffer = [w \in Workers |-> << >>]
  /\ line = [w \in Workers |-> 0]
  /\ result = [w \in Workers |-> "removed"]
  /\ lockOf = [w \in Workers |-> NoLock]
  /\ lockMap = [p \in Paths |-> NoLock]
  /\ holder = [l \in LockIds |-> NoWorker]
  /\ edits = 0
  /\ struckBy = {}

---------------------------------------------------------------------------
(* perform_remove and Remover::remove, one action per step of a worker w.   *)

Goto(w, step) == pc' = [pc EXCEPT ![w] = step]

\* The notification's Remove action or RemoveReminder over D-Bus starts a
\* thread, and the loop answers its RemoveLookup.  With no such reminder the
\* thread ends at once.
Lookup(w, id) ==
  /\ pc[w] = "idle"
  /\ id \in DOMAIN index
  /\ goal' = [goal EXCEPT ![w] = id]
  /\ stored' = [stored EXCEPT ![w] = index[id]]
  /\ Goto(w, "forNote")
  /\ UNCHANGED <<notes, loopVars, buffer, line, result, lockVars, edits, struckBy>>

\* An allocation nobody points to any more may be used again.
FreeLocks == LockIds \ ({lockMap[p] : p \in Paths} \cup {lockOf[w] : w \in Workers})

ForNote(w) ==
  /\ pc[w] = "forNote"
  /\ LET p == goal[w].path
     IN  \E l \in IF lockMap[p] = NoLock THEN FreeLocks ELSE {lockMap[p]} :
           /\ lockMap' = [lockMap EXCEPT ![p] = l]
           /\ lockOf' = [lockOf EXCEPT ![w] = l]
  /\ Goto(w, "acquire")
  /\ UNCHANGED <<notes, loopVars, goal, stored, buffer, line, result, holder, edits, struckBy>>

\* Mutant of Acquire: a worker does not wait for the one before it.
AcquireWithoutWaiting(w) ==
  /\ pc[w] = "acquire"
  /\ holder' = [holder EXCEPT ![lockOf[w]] = w]
  /\ Goto(w, "read")
  /\ UNCHANGED <<notes, loopVars, goal, stored, buffer, line, result, lockOf, lockMap, edits, struckBy>>

Acquire(w) ==
  /\ pc[w] = "acquire"
  /\ holder[lockOf[w]] = NoWorker
  /\ holder' = [holder EXCEPT ![lockOf[w]] = w]
  /\ Goto(w, "read")
  /\ UNCHANGED <<notes, loopVars, goal, stored, buffer, line, result, lockOf, lockMap, edits, struckBy>>

\* resolve_and_strike returns: what it read is gone.
Decide(w, outcome) ==
  /\ buffer' = [buffer EXCEPT ![w] = << >>]
  /\ line' = [line EXCEPT ![w] = 0]
  /\ result' = [result EXCEPT ![w] = outcome]
  /\ Goto(w, "record")

\* Read the note, scan it, resolve the stored reminder in it.
Read(w) ==
  /\ pc[w] = "read"
  /\ LET content == notes[goal[w].path]
         lines == Resolve(content, goal[w], stored[w])
     IN  \/ \* gone
            /\ Candidates(content, goal[w]) = {}
            /\ Decide(w, "removed")
         \/ \* ambiguous
            /\ Candidates(content, goal[w]) # {} /\ lines = {}
            /\ Decide(w, "stale")
         \/ \E i \in lines :
              /\ buffer' = [buffer EXCEPT ![w] = content]
              /\ line' = [line EXCEPT ![w] = i]
              /\ Goto(w, "write")
              /\ UNCHANGED result
  /\ UNCHANGED <<notes, loopVars, goal, stored, lockVars, edits, struckBy>>

\* An unreadable or non-UTF-8 note is not written.
ReadFails(w) ==
  /\ pc[w] = "read"
  /\ Decide(w, "stale")
  /\ UNCHANGED <<notes, loopVars, goal, stored, lockVars, edits, struckBy>>

\* Rename a temporary file over the note: what the buffer lacks is lost.
Write(w) ==
  /\ pc[w] = "write"
  /\ notes' = [notes EXCEPT ![goal[w].path] = Strike(buffer[w], line[w])]
  /\ touched' = touched \cup {goal[w].path}
  /\ struckBy' = struckBy \cup
       {[path |-> goal[w].path, uid |-> buffer[w][line[w]].uid]}
  /\ Decide(w, "removed")
  /\ UNCHANGED <<index, goal, stored, lockVars, edits>>

\* Mutant of WriteFails: an early return that leaves the lock taken.
WriteFailsReturning(w) ==
  /\ pc[w] = "write"
  /\ buffer' = [buffer EXCEPT ![w] = << >>]
  /\ line' = [line EXCEPT ![w] = 0]
  /\ Goto(w, "drop")
  /\ UNCHANGED <<notes, loopVars, goal, stored, result, lockVars, edits, struckBy>>

\* Mutant of WriteFails: the reminder is dropped though its line is live.
WriteFailsUnnoticed(w) ==
  /\ pc[w] = "write"
  /\ Decide(w, "removed")
  /\ UNCHANGED <<notes, loopVars, goal, stored, lockVars, edits, struckBy>>

WriteFails(w) ==
  /\ pc[w] = "write"
  /\ Decide(w, "stale")
  /\ UNCHANGED <<notes, loopVars, goal, stored, lockVars, edits, struckBy>>

\* The loop handles RemoveApply and acknowledges it; w still holds the lock.
Record(w) ==
  /\ pc[w] = "record"
  /\ index' = ApplyRemoveResult(index, goal[w], result[w])
  /\ Goto(w, "unlock")
  /\ UNCHANGED <<notes, touched, goal, stored, buffer, line, result, lockVars, edits, struckBy>>

Unlock(w) ==
  /\ pc[w] = "unlock"
  /\ holder' = [holder EXCEPT ![lockOf[w]] = NoWorker]
  /\ Goto(w, "cleanup")
  /\ UNCHANGED <<notes, loopVars, goal, stored, buffer, line, result, lockOf, lockMap, edits, struckBy>>

\* Arc::strong_count: the map's entry and every worker's local.
StrongCount(l) ==
  Cardinality({w \in Workers : lockOf[w] = l}) + Cardinality({p \in Paths : lockMap[p] = l})

\* Mutant of CleanupIfIdle: the entry is dropped though others wait for it.
CleanupAlways(w) ==
  /\ pc[w] = "cleanup"
  /\ lockMap' = [lockMap EXCEPT ![goal[w].path] = NoLock]
  /\ Goto(w, "drop")
  /\ UNCHANGED <<notes, loopVars, goal, stored, buffer, line, result, lockOf, holder, edits, struckBy>>

CleanupIfIdle(w) ==
  /\ pc[w] = "cleanup"
  /\ LET p == goal[w].path
     IN  lockMap' = IF lockMap[p] = lockOf[w] /\ StrongCount(lockOf[w]) = 2
                    THEN [lockMap EXCEPT ![p] = NoLock] ELSE lockMap
  /\ Goto(w, "drop")
  /\ UNCHANGED <<notes, loopVars, goal, stored, buffer, line, result, lockOf, holder, edits, struckBy>>

\* The worker returns, its locals are gone.
DropLocals(w) ==
  /\ pc[w] = "drop"
  /\ lockOf' = [lockOf EXCEPT ![w] = NoLock]
  /\ goal' = [goal EXCEPT ![w] = NoId]
  /\ stored' = [stored EXCEPT ![w] = NoReminder]
  /\ result' = [result EXCEPT ![w] = "removed"]
  /\ Goto(w, "idle")
  /\ UNCHANGED <<notes, loopVars, buffer, line, lockMap, holder, edits, struckBy>>

---------------------------------------------------------------------------
(* The loop and the other writers of the notes.                            *)

Rescan ==
  /\ touched # {}
  /\ \E fresh \in {RescanChangedFiles(notes, index, touched, Time, Lead)} :
       index' = Merge(index, fresh)
  /\ touched' = {}
  /\ UNCHANGED <<notes, workerVars, lockVars, edits, struckBy>>

InsertAt(c, i, l) == [j \in 1..(Len(c) + 1) |-> IF j < i THEN c[j] ELSE IF j = i THEN l ELSE c[j - 1]]

Without(c, i) == [j \in 1..(Len(c) - 1) |-> IF j < i THEN c[j] ELSE c[j + 1]]

Inserted(c, uid) ==
  IF Len(c) = MaxLines THEN {}
  ELSE UNION {{InsertAt(c, i, l) : l \in {m \in Lines : m.uid = uid /\ ~m.struck}} :
                i \in 1..(Len(c) + 1)}

Rewritten(c) ==
  UNION {{[c EXCEPT ![i] = l] : l \in {m \in Lines : m.uid = c[i].uid /\ m.tok = c[i].tok}} :
           i \in DOMAIN c}

Swapped(c) == UNION {{[c EXCEPT ![i] = c[j], ![j] = c[i]] : j \in DOMAIN c} : i \in DOMAIN c}

\* One edit: a line is added, removed, rewritten, struck or unstruck, or two
\* lines change places.
EditsOf(c, uid) ==
  (Inserted(c, uid) \cup {Without(c, i) : i \in DOMAIN c} \cup Rewritten(c) \cup Swapped(c)) \ {c}

\* History: a line that is struck no more, or gone, was the user's doing.
StillStruck(c) == {c[i].uid : i \in {j \in DOMAIN c : c[j].struck}}

EditNote(p) ==
  /\ edits < MaxEdits
  /\ edits' = edits + 1
  /\ \E c \in EditsOf(notes[p], NewUid[edits + 1]) :
       /\ notes' = [notes EXCEPT ![p] = c]
       /\ struckBy' = {s \in struckBy : s.path = p => s.uid \in StillStruck(c)}
  /\ touched' = touched \cup {p}
  /\ UNCHANGED <<index, workerVars, lockVars>>

---------------------------------------------------------------------------
WorkerStep(w) ==
  \/ ForNote(w) \/ Acquire(w)
  \/ Read(w) \/ ReadFails(w) \/ Write(w) \/ WriteFails(w) \/ Record(w)
  \/ Unlock(w) \/ CleanupIfIdle(w) \/ DropLocals(w)

Next ==
  \/ \E w \in Workers : WorkerStep(w)
  \/ \E w \in Workers, id \in DOMAIN index : Lookup(w, id)
  \/ Rescan
  \/ \E p \in Paths : EditNote(p)

Spec == Init /\ [][Next]_vars

\* Threads are scheduled and a mutex that is unlocked again and again is locked
\* by each waiter in the end.
Fairness == \A w \in Workers : WF_vars(WorkerStep(w)) /\ SF_vars(Acquire(w))

FairSpec == Spec /\ Fairness
---------------------------------------------------------------------------
(* Safety.                                                                 *)

\* At most one worker is between reading a note and releasing its lock, though
\* the lock entry is made, dropped and made again: two workers never work on
\* one note with two locks (writeback.rs:5-11, 81-95).
MutualExclusion ==
  \A v, w \in Workers :
    v # w /\ pc[v] \in Critical /\ pc[w] \in Critical => goal[v].path # goal[w].path

\* What one worker struck no other worker's write takes back: only the user
\* makes such a line live again or removes it (writeback.rs:9-11).
NoStrikeLost ==
  \A s \in struckBy : s.uid \in StillStruck(notes[s.path])

\* The line a worker is about to strike reads as the reminder it was asked to
\* remove did when the loop looked it up, whatever happened to the note since:
\* the ordinal alone never selects (resolve.rs:11-18).
StrikesSameText ==
  \A w \in Workers :
    pc[w] = "write" =>
      LET l == buffer[w][line[w]]
      IN  ~l.struck /\ l.tok = goal[w].tok /\ l.anchor = stored[w].anchor

\* If the loop rescanned the touched notes now, no two reminders would claim the
\* same fresh one, none would claim two, and with twin tokens a claim would
\* always be for a line with the same anchor (merge.rs:14-18).
Rescanned == RescanChangedFiles(notes, index, touched, Time, Lead)

MergeIsSafe ==
  \E fresh \in {Rescanned} :
    \A id \in DOMAIN index :
      /\ Cardinality(Claims(index, fresh, id)) <= 1
      /\ \A c \in Claims(index, fresh, id) :
           /\ Claimants(index, fresh, c) = {id}
           /\ DuplicateKey(index, fresh, id) => fresh[c].anchor = index[id].anchor

\* Every removal ends, although a worker holds a note's lock while it waits for
\* the loop, and others wait for the lock.
RemovalEnds == \A w \in Workers : pc[w] = "forNote" ~> pc[w] = "idle"

---------------------------------------------------------------------------
(* Without threads and locks: removals of one note take turns.             *)

\* The workers between the read of the note at p and the record.
Removing(p) == {w \in Workers : pc[w] \in {"write", "record"} /\ goal[w].path = p}

\* What such a worker holds.
TurnOf(w) ==
  IF pc[w] = "write"
  THEN [step |-> "found", id |-> goal[w], note |-> buffer[w], line |-> line[w]]
  ELSE [step |-> "decided", id |-> goal[w], outcome |-> result[w]]

\* The removal under way in each note.
turns ==
  [p \in Paths |-> IF Removing(p) = {} THEN [step |-> "none"]
                   ELSE TurnOf(CHOOSE w \in Removing(p) : TRUE)]

Turns == INSTANCE RemovalTurns WITH turn <- turns

\* Removals of one note run sequentially, from the read to the record of the
\* outcome, so each reads what the one before has struck; and the outcome that
\* is recorded is that of the note: a reminder is dropped only for a line that
\* was struck or was not there (writeback.rs:5-11, 140-142).
ImplementsTurns == Turns!TurnsSpec

---------------------------------------------------------------------------
(* What the documents promise and the code does not keep.                  *)

\* The line about to be struck is the one the reminder was scanned from: the
\* resolver "re-finds *this* occurrence" and fails closed otherwise
\* (resolve.rs:7-14).
StrikesThisOccurrence ==
  \A w \in Workers : pc[w] = "write" => buffer[w][line[w]].uid = stored[w].uid

\* With no removal under way and no batch pending, the index has every live
\* token: "never select by ordinal-derived id alone" (ADR 003:218).
IndexComplete ==
  touched = {} /\ (\A w \in Workers : pc[w] = "idle") =>
    DOMAIN ScanVault(notes, Time, Lead) \subseteq DOMAIN index
=============================================================================
