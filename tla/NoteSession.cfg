\* A note that is typed in, saved, left, opened and changed by others.
CONSTANTS
  n1 = n1
  n2 = n2
  first = first
  second = second
  external = external
  Notes <- MCNotes
  UserMarks <- MCUserMarks
  ExternalMarks <- MCExternalMarks
  Place <- MCPlace
  NoNote = NoNote
  NoText = NoText
  MaxChain = 2
  MaxOpens = 1
  MaxFailures = 1
SPECIFICATION ExploredSpec
CHECK_DEADLOCK FALSE
INVARIANTS
  NoteTypeOK
  LastOpenWins
  DirtyIsWatched
PROPERTIES
  TextOutlivesSaves
