SPECIFICATION Spec
CONSTANTS
  owner = owner
  alice = alice
  bob = bob
  i1 = i1
  i2 = i2
  Owner = owner
  Users <- ThreeUsers
  Slot <- TwoSlots
  MaxEra = 2
  MaxRow = 4
  MaxFault = 1
  Overlap = TRUE
  Ops = {"rotate", "resend", "reject", "share", "hold"}
  Faults = {"crash", "locked", "max"}
SYMMETRY Symmetry
INVARIANTS
  CurrentReadable
  RevokedLosesAccess
CHECK_DEADLOCK FALSE
