SPECIFICATION Spec
CONSTANTS
  Libraries <- MCLibraries
  FullSetups <- MCFullSetups
  LinearMax = 3
  Shipped <- MCShipped
  Recordings <- MCRecordings
  Payloads <- MCPayloads
  Phrases <- MCPhrases
  Keys <- MCKeys
  Paints <- MCPaints
  Places <- MCPlaces
  FarPlaces <- MCFarPlaces
  PartNames <- MCPartNames
  MaxSaves = 2
  MaxLines = 3
  MaxVerts = 6
INVARIANTS
  UnpackedIsOriginal
  StringsKept
  TexturesKept
  PacketsKept
  MeshReadsBack
  BonesFollow
CHECK_DEADLOCK FALSE
