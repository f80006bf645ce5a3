SPECIFICATION Spec
CONSTANTS
  paloc = paloc
  jsonl = jsonl
  notes = notes
  temp = temp
  t1 = t1
  t2 = t2
  None = None
  Shipped = {}
  Synth = {}
  User = {notes, temp}
  Pool = {t1}
  MaxEdits = 2
  Stubbed = {}
  Unsaid <- Unspoken
  Evictable = {notes, temp}
  SourceOf <- NoSource
  Habits <- Waiting
INVARIANTS
  SavesKept
  ReadsBack
PROPERTIES
  StoresLatest
