\* Writing, deleting and listing files, with errors and power losses.
CONSTANTS
  Name = {"f", "d", "d/x", "d/x/y"}
  NoName = "none"
  Parent <- MCParent
  Data = {"a", "b"}
  Zero = "0"
  SECTOR = 2
  SLOTS = 3
  DATA_LBA = 0
  LAST_LBA = 4
  DIR_BUF_SIZE = 4
  FD_BUF_SIZE = 3
  FS_MAX_OPEN = 1
  Payloads <- MCPayloads
  OpenFlags = {}
  Seeds <- MCSeeds
  MAX_CALLS = 5
SPECIFICATION Spec
INVARIANTS
  NamesUnique
  ExtentsDisjoint
  WriteHarmsNoOther
PROPERTIES
  ImplementsFileStore
  CallsReturn
