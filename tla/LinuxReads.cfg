SPECIFICATION Spec
CONSTANTS
  None = None
  table = table
  view = view
  t1 = t1
  t2 = t2
  Files <- MCFiles
  Virtual <- MCVirtual
  SourceOf <- MCSourceOf
  Saved <- MCVirtual
  Readers <- MCReaders
  Slots <- MCSlots
  Size <- MCSize
  MaxBytes = 2
  MaxEntries = 2
  MaxSaves = 1
  MaxCounted = 3
  MaxPanics = 1
INVARIANTS
  Coherent
  CacheBounded
PROPERTIES
  Answered
CHECK_DEADLOCK FALSE
