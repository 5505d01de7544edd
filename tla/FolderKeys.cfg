SPECIFICATION MCSpec
CONSTANTS
  shared = shared
  sub = sub
  file = file
  o = o
  m1 = m1
  m2 = m2
  i1 = i1
  i2 = i2
  Top = top
  Gone = gone
  Nobody = nobody
  Folder <- TwoFolders
  File <- OneFile
  Shared = shared
  User <- ThreeUsers
  Owner = o
  Member <- OwnerAndViewer
  Viewer <- OneViewer
  Slot <- TwoSlots
  MaxEra = 3
  MaxSent = 5
  Ops = {"create", "move", "share", "rotate"}
  Apart <- WithoutRotation
SYMMETRY Symmetry
INVARIANTS
  TypeOK
  ClaimsOpen
  GrantsOpen
  NewFilesProtected
CHECK_DEADLOCK FALSE
