SPECIFICATION Spec
CONSTANTS
  paloc = paloc
  jsonl = jsonl
  notes = notes
  temp = temp
  t1 = t1
  t2 = t2
  None = None
  Shipped = {paloc}
  Synth = {}
  User = {}
  Pool = {t1, t2}
  MaxEdits = 2
  Stubbed = {}
  Unsaid <- Spoken
  Evictable = {}
  SourceOf <- NoSource
  Habits <- InAHurry
INVARIANTS
  SavesKept
