SPECIFICATION Spec
CONSTANTS
  c1 = c1
  c2 = c2
  v1 = v1
  v2 = v2
  Null = Null
  Clients = {c1, c2}
  Volumes = {v1}
  VolumeOf <- Shared
  Acbs = {}
  Val <- Bytes
  Zero = 0
  FileSize = 6
  max_queue_size = 2
  max_data_size = 4
  MaxStarts = 2
  Faults = {"ftruncate", "fstat"}
  ServerMayDie = TRUE
  CallsMayThrow = FALSE
  BDRV_SECTOR_SIZE = 1
  CVBD_BLKSIZE = 2
  MSGQ_MAX_SIZE = 4
  GuestReads <- Reads
  GuestWrites <- Writes
  MaxCalls = 3
  Exclusive = TRUE
  KillPoints <- KillOutsideOpen
INVARIANT RepliesMatch
INVARIANT NoLostCall
INVARIANT NoVolumeLeak
INVARIANT ServerNeverAborts
INVARIANT HandlesLive
PROPERTY ImplementsBlockDevice
CHECK_DEADLOCK FALSE
