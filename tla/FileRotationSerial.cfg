SPECIFICATION Spec
CONSTANTS
  owner = owner
  alice = alice
  bob = bob
  i1 = i1
  i2 = i2
  Owner = owner
  Users <- ThreeUsers
  Slot <- OneSlot
  MaxEra = 2
  MaxRow = 3
  MaxFault = 1
  Overlap = FALSE
  Ops = {"rotate", "share", "unshare", "link", "upload"}
  Faults = {"crash", "locked", "linked", "max"}
SYMMETRY Symmetry
INVARIANTS
  TypeOK
  CurrentReadable
  RevokedLosesAccess
  GrantsOpenFile
  LinkNeedsAccess
CHECK_DEADLOCK FALSE
