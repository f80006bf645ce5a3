SPECIFICATION Spec
CONSTANTS
  paloc = paloc
  jsonl = jsonl
  notes = notes
  temp = temp
  t1 = t1
  t2 = t2
  None = None
  Shipped = {paloc}
  Synth = {jsonl}
  User = {temp}
  Pool = {t1}
  MaxEdits = 1
  Stubbed = {}
  Unsaid <- Spoken
  Evictable = {}
  SourceOf <- Rendered
  Habits <- SafeSave
INVARIANTS
  SavesKept
