SPECIFICATION Spec
CONSTANTS
  c1 = c1
  c2 = c2
  v1 = v1
  v2 = v2
  Null = Null
  Clients = {c1, c2}
  Volumes = {v1}
  VolumeOf <- Shared
  Acbs = {}
  Val <- Bytes
  Zero = 0
  FileSize = 6
  max_queue_size = 2
  max_data_size = 4
  MaxStarts = 1
  Faults = {}
  ServerMayDie = FALSE
  CallsMayThrow = FALSE
  BDRV_SECTOR_SIZE = 1
  CVBD_BLKSIZE = 2
  MSGQ_MAX_SIZE = 4
  GuestReads <- Reads
  GuestWrites <- Writes
  MaxCalls = 1
  Exclusive = TRUE
  KillPoints <- KillAnywhere
INVARIANT GetSizeAssertion
CHECK_DEADLOCK FALSE
