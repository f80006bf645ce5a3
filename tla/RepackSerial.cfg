SPECIFICATION Spec
CONSTANTS
  g1 = g1
  g2 = g2
  u1 = u1
  fa = fa
  fb = fb
  fc = fc
  fu = fu
  t1 = t1
  t2 = t2
  Threads = {t1}
  Shipped = {g1}
  UserGroup = u1
  Files <- OneFiles
  GroupOf <- OneGroupOf
  ShippedPaz <- OnePaz
  ShippedRecs <- OneRecs
  UserSlot = TRUE
  Sizes = {8, 40}
  PazLimit = 100
  MaxSaves = 3
  Overlap = "serial"
  Root = Root
  Torn = Torn
  Absent = Absent
  NoRec = NoRec
  NoThread = NoThread
INVARIANTS TypeOK RecordsReadable AckedSurvives ChainUnlessCut IndexesWhole
