\* Open handles, the write buffer, and the way out of a program.
CONSTANTS
  Name = {"f", "d", "d/x"}
  NoName = "none"
  Parent <- MCParent
  Data = {"a", "b"}
  Zero = "0"
  SECTOR = 2
  SLOTS = 3
  DATA_LBA = 0
  LAST_LBA = 3
  DIR_BUF_SIZE = 4
  FD_BUF_SIZE = 3
  FS_MAX_OPEN = 2
  Payloads <- MCPayloads
  OpenFlags <- MCFlags
  Seeds <- MCSeeds
  MAX_CALLS = 2
SPECIFICATION Spec
INVARIANTS
  OneWriter
PROPERTIES
  ImplementsFileStore
  ClosingEnds
