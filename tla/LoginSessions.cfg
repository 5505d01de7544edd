SPECIFICATION Spec
CONSTANTS
  d1 = d1
  d2 = d2
  j1 = j1
  j2 = j2
  j3 = j3
  i1 = i1
  i2 = i2
  NoJti = nojti
  Nobody = nobody
  Device <- TwoDevices
  Jti <- Rows3
  Slot <- TwoSlots
  MaxEra = 2
  MaxSecret = 1
  MaxStep = 2
  Window = 2
  Apart <- RacesAndCommuting
  ApartTab <- TabRaces
  Ops = {"verify", "code", "passkey", "logout", "revokeAll", "revokeOthers", "revokeOne", "change", "recover", "suspend", "unsuspend", "setup", "enable", "disable"}
SYMMETRY Symmetry
INVARIANTS
  TypeOK
  SignOutHolds
  NoOrphanSessions
  SecondFactorPassable
PROPERTIES
  CodeUsedOnce
CHECK_DEADLOCK FALSE
