SPECIFICATION FairSpec
CONSTANTS
  plus = plus
  pro = pro
  b1 = b1
  i1 = i1
  i2 = i2
  NoTab = notab
  Free = free
  MaxSub = 2
  Price <- TwoPrices
  Tab <- OneTab
  Fore <- ForeSlot
  Aside <- AsideSlot
  MaxChange = 3
  MaxEvent = 1
INVARIANTS
  TypeOK
  EndsAsTold
PROPERTIES
  PaidIsSpared
  MirrorConverges
CHECK_DEADLOCK FALSE
