---------------------------- MODULE RemovalTurns ----------------------------
(***************************************************************************)
(* What the write-back promises, whatever its threads and locks: removals  *)
(* of reminders of one note take turns, each from its read of the note to  *)
(* the record of its outcome, while the notes and the index go on changing *)
(* (crates/eskerra-reminderd/src/writeback.rs:5-11, 140-142).              *)
(* ReminderWriteback implements it.                                        *)
(***************************************************************************)
CONSTANTS
  Paths,                      \* paths of the notes
  Ids,                        \* ids of reminders, with the path of their note
  Candidates(_, _),           \* the lines of a note that may be an id's
  Strike(_, _),               \* a note with one of its lines struck
  ApplyRemoveResult(_, _, _)  \* an index with the outcome of a removal

VARIABLES
  notes,    \* notes[p]: the note at p
  index,    \* the reminders of all notes
  turn      \* turn[p]: the removal that works on the note at p, if any

turnVars == <<notes, index, turn>>

NoTurn == [step |-> "none"]

Found(id, note, line) == [step |-> "found", id |-> id, note |-> note, line |-> line]

Decided(id, outcome) == [step |-> "decided", id |-> id, outcome |-> outcome]

TurnsInit == turn = [p \in Paths |-> NoTurn]

(* A removal reads the note and has nothing to strike: its line is gone,   *)
(* or cannot be told from others, or the note cannot be read.              *)
Decline(id) ==
  /\ turn[id.path] = NoTurn
  /\ \/ /\ Candidates(notes[id.path], id) = {}
        /\ turn' = [turn EXCEPT ![id.path] = Decided(id, "removed")]
     \/ turn' = [turn EXCEPT ![id.path] = Decided(id, "stale")]
  /\ UNCHANGED <<notes, index>>

Find(id) ==
  /\ turn[id.path] = NoTurn
  /\ \E line \in Candidates(notes[id.path], id) :
       turn' = [turn EXCEPT ![id.path] = Found(id, notes[id.path], line)]
  /\ UNCHANGED <<notes, index>>

(* The note is written as it was read, with one line struck.               *)
StrikeFound(p) ==
  /\ turn[p].step = "found"
  /\ notes' = [notes EXCEPT ![p] = Strike(turn[p].note, turn[p].line)]
  /\ turn' = [turn EXCEPT ![p] = Decided(turn[p].id, "removed")]
  /\ UNCHANGED index

GiveUp(p) ==
  /\ turn[p].step = "found"
  /\ turn' = [turn EXCEPT ![p] = Decided(turn[p].id, "stale")]
  /\ UNCHANGED <<notes, index>>

(* The turn ends with the record, so the next one reads what this wrote.   *)
RecordOutcome(p) ==
  /\ turn[p].step = "decided"
  /\ index' = ApplyRemoveResult(index, turn[p].id, turn[p].outcome)
  /\ turn' = [turn EXCEPT ![p] = NoTurn]
  /\ UNCHANGED notes

(* Users and other programs write a note at any time, the loop the index.  *)
EditOf(p) ==
  /\ notes' = [notes EXCEPT ![p] = notes'[p]]
  /\ UNCHANGED <<index, turn>>

Reindex == UNCHANGED <<notes, turn>>

TurnsNext ==
  \/ \E id \in Ids : Decline(id) \/ Find(id)
  \/ \E p \in Paths : StrikeFound(p) \/ GiveUp(p) \/ RecordOutcome(p) \/ EditOf(p)
  \/ Reindex

TurnsSpec == TurnsInit /\ [][TurnsNext]_turnVars
=============================================================================
