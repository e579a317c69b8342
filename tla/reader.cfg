CONSTANTS
  nameA = nameA
  nameB = nameB
  fileU = fileU
  fileV = fileV
  note = note
  Names = {nameA, nameB, NoName}
  NoName = NoName
  Urls = {fileU, fileV}
  Notes = {note}
  Index = Index
  None = None
  FirstDisks <- Repositories
  MaxBooks = 2
  MaxPanes = 3
  MaxLinks = 2
  MaxEvents = 5
SPECIFICATION CarefulSpec
INVARIANT TypeOK
INVARIANT BooksOnDisk
INVARIANT NotesOnDisk
INVARIANT PanesShowItems
INVARIANT TrailBeginsAtRoot
PROPERTY StartFindsNotes
SYMMETRY Alike
CHECK_DEADLOCK FALSE
