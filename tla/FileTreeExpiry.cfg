SPECIFICATION FairSpec
CONSTANTS
  F = F
  G = G
  a = a
  b = b
  i1 = i1
  i2 = i2
  Root = root
  Folders <- TwoFolders
  Files <- OneFile
  Old <- Drive
  Slot <- OneSlot
  MaxTrash = 2
  MaxFault = 1
  Apart <- Serial
  Ops = {"trash", "restore", "purge", "empty", "expire", "move", "hold"}
  Faults = {"crash", "halfway", "objects", "hold", "chunks"}
PROPERTIES
  ExpiredTrashGoes
CHECK_DEADLOCK FALSE
