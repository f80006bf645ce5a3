SPECIFICATION Spec
CONSTANTS
  None = None
  AtNames = {}
  Groups = {5, 6}
  UserGroup = 9000
  Shipped <- ShippedIn
  UserPaths <- Asked
  VirtualTops = {"vroot"}
  Legacy <- OlderBuilds
  Threads = {t1, t2}
  t1 = t1
  t2 = t2
  Overlap = FALSE
  MaxChanges = 3
INVARIANTS
  TypeOK
  NoShadow
  UserTreeAgrees
  IndexFresh
PROPERTIES
  NotUndone
