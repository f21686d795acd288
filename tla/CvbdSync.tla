------------------------------- MODULE CvbdSync -------------------------------
(***************************************************************************)
(* The synchronous stack: the block driver cvbd_syncio.c on the blocking   *)
(* client, talking to the storage server through the shared-memory queues. *)
(* Each client is driven by one QEMU thread, so its calls do not overlap;  *)
(* clients run in parallel with one another and with the server.           *)
(***************************************************************************)
EXTENDS SharedMemServer, SharedMemClient, NonAlignedCopy

CONSTANTS
  BDRV_SECTOR_SIZE,  \* 512
  CVBD_BLKSIZE,      \* 4096, the alignment the driver asks QEMU for
  MSGQ_MAX_SIZE,     \* 4096 * 128, what one message carries
  GuestReads,        \* [Clients -> sets of reads the guest may issue]
  GuestWrites,       \* [Clients -> sets of writes the guest may issue]
  MaxCalls,          \* bound: read, write and getlength calls of a client
  Exclusive,         \* whether a volume has at most one user at a time
  KillPoints         \* the pc values at which a QEMU process may be killed

OffsetOf(r) == r.sector_num * BDRV_SECTOR_SIZE
SizeOf(r) == r.nb_sectors * BDRV_SECTOR_SIZE

ASSUME CvbdAssumption ==
  /\ BDRV_SECTOR_SIZE \in Nat \ {0}
  /\ CVBD_BLKSIZE \in Nat \ {0}
  /\ MSGQ_MAX_SIZE \in 1 .. max_data_size
  /\ \A c \in Clients : \A r \in GuestReads[c] \cup GuestWrites[c] :
       r.sector_num \in Nat /\ r.nb_sectors \in Nat
  /\ \A c \in Clients : \A w \in GuestWrites[c] : w.buffer \in [0 .. SizeOf(w) - 1 -> Val]
  /\ MaxCalls \in Nat
  /\ Exclusive \in BOOLEAN
  /\ KillPoints \subseteq PC \ Gone

VARIABLES
  length,  \* the length QEMU has for the device: 0 until cvbd_getlength
  io,      \* locals of a running cvbd_read or cvbd_write, else Null
  calls,   \* how many calls QEMU has made
  view,    \* history: the contents of each volume with all queued writes done
  want     \* history: what a running read should deliver, chunk by chunk
driverVars == <<length, io, calls>>
vars == <<queueVars, serverVars, clientVars, driverVars, view, want>>

\* A read's destination holds Null where nothing has been copied yet.
InitialBuffer(n) == [k \in 0 .. n - 1 |-> Null]

Init ==
  /\ QueuesInit /\ ServerInit /\ ClientInit
  /\ length = [c \in Clients |-> 0]
  /\ io = [c \in Clients |-> Null]
  /\ calls = [c \in Clients |-> 0]
  /\ view = disk
  /\ want = [c \in Clients |-> Null]

-------------------------------------------------------------------------------
is_request_aligned(r) ==
  /\ OffsetOf(r) % CVBD_BLKSIZE = 0
  /\ SizeOf(r) % CVBD_BLKSIZE = 0

\* cvbd_open makes a client; nobody else uses the volume if Exclusive.
cvbd_open(c) ==
  /\ Exclusive => \A d \in Clients \ {c} : VolumeOf[d] = VolumeOf[c] => pc[d] \in Gone
  /\ CtorRemove(c)
  /\ UNCHANGED driverVars

\* QEMU makes one more call on an idle device.
Call(c) ==
  /\ pc[c] = "idle" /\ calls[c] < MaxCalls
  /\ calls' = [calls EXCEPT ![c] = @ + 1]

cvbd_getlength(c) == Call(c) /\ send_getsize(c) /\ UNCHANGED <<length, io>>

GetLengthReturns(c) ==
  /\ GetSizeReturns(c)
  /\ length' = [length EXCEPT ![c] = Answer(c).size]
  /\ UNCHANGED <<io, calls>>

\* An exception in either half of the call: the length is taken to be 0.
GetLengthThrows(c) ==
  /\ GetSizeThrows(c)
  /\ length' = [length EXCEPT ![c] = 0]
  /\ IF pc[c] = "idle" THEN Call(c) ELSE UNCHANGED calls
  /\ UNCHANGED io

\* QEMU only issues requests inside the length it was given.
Admitted(c, r) == OffsetOf(r) + SizeOf(r) <= length[c]

\* cvbd_read and cvbd_write up to their loops, and their early return.
StartIo(c, r, isWrite, buffer) ==
  /\ Call(c)
  /\ Admitted(c, r)
  /\ is_request_aligned(r)
  /\ Goto(c, "io")
  /\ io' = [io EXCEPT ![c] =
              [write |-> isWrite, buf |-> buffer,
               a |-> NonAlignedCopyInit(OffsetOf(r), SizeOf(r), MSGQ_MAX_SIZE)]]
  /\ UNCHANGED <<queueVars, request_mq_, volume_, length>>

cvbd_read(c, r) == StartIo(c, r, FALSE, InitialBuffer(SizeOf(r)))
cvbd_write(c, w) == StartIo(c, w, TRUE, w.buffer)

Misaligned(c, r) ==
  /\ Call(c)
  /\ Admitted(c, r)
  /\ ~is_request_aligned(r)
  /\ UNCHANGED <<queueVars, clientVars, length, io>>

RelativeOff(a) == a.cur - a.start

\* One turn of the loop of cvbd_write.
WriteChunk(c) ==
  /\ pc[c] = "io" /\ io[c].write /\ NonAlignedCopyIsValid(io[c].a)
  /\ LET a == io[c].a
     IN  send_write(c, a.cur, RetSize(a), Slice(io[c].buf, RelativeOff(a), RetSize(a)))
  /\ io' = [io EXCEPT ![c].a = NonAlignedCopyNext(@)]
  /\ UNCHANGED <<length, calls>>

\* One turn of the loop of cvbd_read: ask, wait, copy out.
ReadChunk(c) ==
  /\ pc[c] = "io" /\ ~io[c].write /\ NonAlignedCopyIsValid(io[c].a)
  /\ send_read(c, io[c].a.cur, RetSize(io[c].a))
  /\ UNCHANGED driverVars

ReadChunkReturns(c) ==
  /\ pc[c] = "wait_read"
  /\ LET a == io[c].a
     IN  /\ ReadReturns(c, RetSize(a))
         /\ io' = [io EXCEPT ![c].buf = Overwrite(@, RelativeOff(a), Answer(c).data, RetSize(a)),
                             ![c].a = NonAlignedCopyNext(@)]
  /\ UNCHANGED <<length, calls>>

IoReturns(c) ==
  /\ pc[c] = "io" /\ ~NonAlignedCopyIsValid(io[c].a)
  /\ Goto(c, "idle")
  /\ io' = [io EXCEPT ![c] = Null]
  /\ UNCHANGED <<queueVars, request_mq_, volume_, length, calls>>

\* An exception in a turn of either loop.
IoThrows(c) ==
  /\ ReadWriteThrows(c)
  /\ NonAlignedCopyIsValid(io[c].a)
  /\ io' = [io EXCEPT ![c] = Null]
  /\ UNCHANGED <<length, calls>>

ClientAborts(c) ==
  /\ \/ AssertFails(c, "wait_open", 0)
     \/ AssertFails(c, "wait_getsize", 0)
     \/ pc[c] = "wait_read" /\ AssertFails(c, "wait_read", RetSize(io[c].a))
  /\ io' = [io EXCEPT ![c] = Null]
  /\ UNCHANGED <<length, calls>>

\* cvbd_close: release_volume, then shared_mem_destroy_client.
cvbd_close(c) == send_close(c) /\ UNCHANGED driverVars

QemuKilled(c) ==
  /\ pc[c] \in KillPoints
  /\ Die(c)
  /\ io' = [io EXCEPT ![c] = Null]
  /\ UNCHANGED <<length, calls>>

-------------------------------------------------------------------------------
(***************************************************************************)
(* The history variables.  A write counts from the moment it is queued to  *)
(* a server that runs; if that server dies, what it had not done is lost.  *)
(***************************************************************************)
Served(c) == server = "up" /\ request_mq_[c] = epoch

NoteNothing == UNCHANGED <<view, want>>

NoteWrite(c) ==
  /\ LET a == io[c].a
     IN  view' = IF Served(c)
                 THEN [view EXCEPT ![VolumeOf[c]] =
                         Overwrite(@, a.cur, Slice(io[c].buf, RelativeOff(a), RetSize(a)), RetSize(a))]
                 ELSE view
  /\ UNCHANGED want

NoteReadStart(c, r) ==
  /\ want' = [want EXCEPT ![c] = InitialBuffer(SizeOf(r))]
  /\ UNCHANGED view

NoteRead(c) ==
  /\ LET a == io[c].a
     IN  want' = [want EXCEPT ![c] =
                    Overwrite(@, RelativeOff(a), Slice(view[VolumeOf[c]], a.cur, RetSize(a)), RetSize(a))]
  /\ UNCHANGED view

NoteReadEnd(c) == want' = [want EXCEPT ![c] = Null] /\ UNCHANGED view

NoteServer ==
  /\ view' = IF server' = "up" THEN view ELSE disk'
  /\ UNCHANGED want

\* Steps of a call that is in progress, and steps QEMU or the guest starts or an
\* accident is.
Progress(c) ==
  \/ /\ \/ CtorOpen(c) /\ UNCHANGED driverVars
        \/ CtorCreate(c) /\ UNCHANGED driverVars
        \/ send_open(c) /\ UNCHANGED driverVars
        \/ OpenReturns(c) /\ UNCHANGED driverVars
        \/ GetLengthReturns(c)
        \/ ReadChunkReturns(c)
        \/ Destroy(c) /\ UNCHANGED driverVars
     /\ NoteNothing
  \/ WriteChunk(c) /\ NoteWrite(c)
  \/ ReadChunk(c) /\ NoteRead(c)
  \/ (IoReturns(c) \/ ClientAborts(c)) /\ NoteReadEnd(c)

Environment(c) ==
  \/ /\ \/ cvbd_open(c)
        \/ cvbd_getlength(c)
        \/ \E r \in GuestReads[c] : Misaligned(c, r)
        \/ \E w \in GuestWrites[c] : cvbd_write(c, w) \/ Misaligned(c, w)
        \/ cvbd_close(c)
        \/ (OpenThrows(c) \/ CloseThrows(c)) /\ UNCHANGED driverVars
        \/ GetLengthThrows(c)
     /\ NoteNothing
  \/ \E r \in GuestReads[c] : cvbd_read(c, r) /\ NoteReadStart(c, r)
  \/ (IoThrows(c) \/ QemuKilled(c)) /\ NoteReadEnd(c)

ClientStep(c) == (Progress(c) \/ Environment(c)) /\ UNCHANGED serverVars
ServerStep == ServerNext /\ NoteServer /\ UNCHANGED <<clientVars, driverVars>>

Next == ServerStep \/ \E c \in Clients : ClientStep(c)

Spec == Init /\ [][Next]_vars

(***************************************************************************)
(* Fairness: the handler thread and every QEMU thread inside a call keep   *)
(* running, and a server that is starting finishes.  Nothing obliges QEMU  *)
(* to make another call, or anyone to start the server again.              *)
(***************************************************************************)
FairSpec ==
  /\ Spec
  /\ WF_vars(ServerStep /\ (StartCreate \/ handle_requests))
  /\ \A c \in Clients : WF_vars(Progress(c) /\ UNCHANGED serverVars)

-------------------------------------------------------------------------------
IoTypeOK(c) ==
  IF pc[c] \in {"io", "wait_read"}
  THEN LET i == io[c] IN
       /\ i = [write |-> i.write, buf |-> i.buf, a |-> i.a]
       /\ i.write \in BOOLEAN
       /\ IsNonAlignedCopy(i.a)
       /\ i.a.blockSize = MSGQ_MAX_SIZE
       /\ i.a.start + i.a.len <= FileSize
       /\ i.buf \in [0 .. i.a.len - 1 -> Val \cup {Null}]
       /\ pc[c] = "wait_read" => NonAlignedCopyIsValid(i.a)
       /\ IF i.write THEN pc[c] = "io" /\ i.buf \in [0 .. i.a.len - 1 -> Val]
                     ELSE want[c] \in [0 .. i.a.len - 1 -> Val \cup {Null}]
  ELSE io[c] = Null

TypeOK ==
  /\ QueuesTypeOK /\ ServerTypeOK /\ ClientTypeOK
  /\ length \in [Clients -> {0, FileSize}]
  /\ calls \in [Clients -> 0 .. MaxCalls]
  /\ view \in [Volumes -> [0 .. FileSize - 1 -> Val]]
  /\ DOMAIN io = Clients /\ DOMAIN want = Clients
  /\ \A c \in Clients : IoTypeOK(c)

(***************************************************************************)
(* A client finds in its reply queue at most one message, and that is the  *)
(* answer to the call it is blocked in: the assertions after each receive  *)
(* of SharedMemClient.cpp cannot fail, and since a reply queue never fills *)
(* up the server never blocks on a client.                                 *)
(***************************************************************************)
RepliesMatch ==
  \A c \in Clients :
    /\ Len(reply_mq[c]) <= 1
    /\ reply_mq[c] # << >> =>
         \/ pc[c] = "killed"
         \/ /\ pc[c] \in Waiting
            /\ AnswerFits(c, IF pc[c] = "wait_read" THEN RetSize(io[c].a) ELSE 0)

(***************************************************************************)
(* A client blocked on the server that is running has its request in the   *)
(* queue or its reply delivered: no handler forgets to answer.             *)
(***************************************************************************)
NoLostCall ==
  \A c \in Clients : pc[c] \in Waiting /\ Served(c) =>
    \/ reply_mq[c] # << >>
    \/ \E i \in 1 .. Len(Pending) :
         Pending[i].from = c /\ Pending[i].type = Awaited(pc[c])

(***************************************************************************)
(* The server keeps a VolumeState only for a client that still uses it,    *)
(* that was killed, or whose CLOSE is on its way; in particular an open    *)
(* that reports an error leaves none behind.                               *)
(***************************************************************************)
NoVolumeLeak ==
  \A c \in Clients : vols[c] # Null =>
    \/ pc[c] \notin Gone
    \/ pc[c] = "killed"
    \/ \E i \in 1 .. Len(Pending) : Pending[i].from = c /\ Pending[i].type = "REQ_CLOSE"

(***************************************************************************)
(* What cvbd_read has copied out so far is, byte for byte, the contents of *)
(* the volume at the moment each chunk was asked for, with every write     *)
(* queued before it done, although writes are not acknowledged.            *)
(***************************************************************************)
ReadsSeeWrites ==
  \A c \in Clients : pc[c] = "io" =>
    \A k \in 0 .. (RelativeOff(io[c].a) - 1) : ~io[c].write => io[c].buf[k] = want[c][k]

\* Once the running server has drained its queue, the files hold every write
\* that was reported done to a guest on this server.
AllWritesLand == server = "up" /\ Pending = << >> => view = disk

\* The assertion of send_getsize, SharedMemClient.cpp line 104.
GetSizeAssertion ==
  \A c \in Clients : pc[c] = "wait_getsize" /\ reply_mq[c] # << >> =>
    Answer(c).type = "REQ_GETSIZE"

\* Every call into the driver returns, with success or with an error.
CallsReturn == \A c \in Clients : pc[c] \notin {"idle"} \cup Gone ~> pc[c] \in {"idle"} \cup Gone

\* A closed volume is eventually closed by the server too.
VolumesFreed == \A c \in Clients : pc[c] = "closed" ~> vols[c] = Null
===============================================================================
