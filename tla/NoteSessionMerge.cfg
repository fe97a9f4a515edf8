\* A merge that was never saved is reloaded away.
CONSTANTS
  n1 = n1
  n2 = n2
  first = first
  second = second
  external = external
  Notes <- MCNotes
  UserMarks <- MCUserMarks
  ExternalMarks <- MCExternalMarks
  Place <- MCPlace
  NoNote = NoNote
  NoText = NoText
  MaxChain = 1
  MaxOpens = 1
  MaxFailures = 0
SPECIFICATION NoteSpec
CHECK_DEADLOCK FALSE
PROPERTY
  ReloadIsSafe
