SPECIFICATION Spec
CONSTANTS
  F = F
  G = G
  a = a
  b = b
  i1 = i1
  i2 = i2
  Root = root
  Folders <- TwoFolders
  Files <- OneFile
  Old <- TwoFolders
  Slot <- TwoSlots
  MaxTrash = 2
  MaxFault = 0
  Apart <- Races
  Ops = {"create", "abandon", "reject", "finalize", "trash", "restore", "purge", "empty", "expire", "sweep", "move", "hold"}
  Faults = {}
SYMMETRY Symmetry
INVARIANTS
  TypeOK
  LiveFilesIntact
  LiveNodesShown
PROPERTIES
  RestoreUndoesTrash
  HeldSurvives
  ObjectsGoFirst
CHECK_DEADLOCK FALSE
