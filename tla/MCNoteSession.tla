--------------------------- MODULE MCNoteSession ---------------------------
(***************************************************************************)
(* Two notes; the user makes two changes to the first, in two paragraphs,  *)
(* and another program changes the first of the two paragraphs.            *)
(***************************************************************************)
EXTENDS NoteSession, TLC

CONSTANTS n1, n2, first, second, external

MCNotes         == {n1, n2}
MCUserMarks     == {first, second}
MCExternalMarks == {external}

MCPlace ==
  (first    :> [note |-> n1, paragraph |-> 1]) @@
  (second   :> [note |-> n1, paragraph |-> 2]) @@
  (external :> [note |-> n1, paragraph |-> 1])

(* Nothing is explored after a step that may cost typed text, and one save *)
(* at a time after one that failed.                                        *)
Explored == ~excused /\ (failures > 0 => Len(chain) <= 1)

ExploredSpec == NoteInit /\ [][NoteNext /\ Explored']_noteVars
=============================================================================
