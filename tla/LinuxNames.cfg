SPECIFICATION Spec
CONSTANTS
  None = None
  AtNames = {}
  Roots <- MCRoots
  PrefabRoot <- MCPrefab
  RefsOf <- MCRefs
  MeshOf <- MCMesh
  Platform = "linux"
  Shipped <- MCShipped
  Writable <- MCWritable
  Makeable <- MCMakeable
  Listed <- MCListed
  LookedUp <- MCLookedUp
  Pool = {"t1", "t2"}
  MaxChanges = 4
INVARIANTS
  NamesReach
  GoneIsGone
  ListingsExist
  SynthAgree

CHECK_DEADLOCK FALSE
