SPECIFICATION Spec
CONSTANTS
  paloc = paloc
  jsonl = jsonl
  notes = notes
  temp = temp
  t1 = t1
  t2 = t2
  None = None
  Shipped = {paloc}
  Synth = {jsonl}
  User = {notes}
  Pool = {t1}
  MaxEdits = 2
  Stubbed = {}
  Unsaid <- Spoken
  Evictable = {paloc, jsonl, notes}
  SourceOf <- Rendered
  Habits <- Waiting
INVARIANTS
  TypeOK
  SavesKept
  ReadsBack
PROPERTIES
  StoresLatest
  AutoSaved
