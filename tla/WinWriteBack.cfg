SPECIFICATION Spec
CONSTANTS
  None = None
  dds = dds
  png = png
  note = note
  temp = temp
  h1 = h1
  h2 = h2
  w1 = w1
  w2 = w2
  Shipped <- MCShipped
  Views <- MCViews
  User <- MCUser
  SourceOf <- MCSourceOf
  Handles <- MCHandles
  Threads <- MCThreads
  Evictable <- MCEvictable
  Unsaid <- MCUnsaid
  MaxEdits = 2
  Habits = {}
SYMMETRY Alike
INVARIANTS
  SavesKept
  ReadsBack
  NoTornSave
  SizesAgree
PROPERTIES
  StoresLatest
CHECK_DEADLOCK FALSE
