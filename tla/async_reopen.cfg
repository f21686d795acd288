SPECIFICATION Spec
CONSTANTS
  c1 = c1
  c2 = c2
  v1 = v1
  v2 = v2
  a1 = a1
  a2 = a2
  a3 = a3
  Null = Null
  Clients = {c1, c2}
  Volumes = {v1}
  VolumeOf <- Shared
  Acbs = {a1}
  Val <- Bytes
  Zero = 0
  FileSize = 4
  max_queue_size = 2
  max_data_size = 2
  MaxStarts = 2
  Faults = {"ftruncate", "fsync"}
  ServerMayDie = TRUE
  SpuriousWakeups = FALSE
  SendMayFail = FALSE
  HeapAddress = 100
  BDRV_SECTOR_SIZE = 1
  CVBD_BLKSIZE = 2
  GuestReads <- OneRead
  GuestWrites <- OneWrite
  MaxCalls = 1
  Exclusive = TRUE
  KillPoints <- KillInUse
INVARIANT HandlesLive
INVARIANT NoVolumeLeak
INVARIANT ServerNeverAborts
INVARIANT ClientNeverAborts
INVARIANT AllWritesLand
INVARIANT FlushIsBarrier
PROPERTY ImplementsBlockDevice
CHECK_DEADLOCK FALSE
