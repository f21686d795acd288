------------------------------- MODULE CvbdAsync -------------------------------
(***************************************************************************)
(* The asynchronous stack: the block driver cvbd.c on the asynchronous     *)
(* client, with the storage server.  Requests of a guest run in coroutines *)
(* of QEMU's main thread: one submits its message and yields; its bottom   *)
(* half, which the event loop runs, resumes it.  Requests are not split.   *)
(***************************************************************************)
EXTENDS SharedMemServer, SharedMemClientASync

CONSTANTS
  BDRV_SECTOR_SIZE, CVBD_BLKSIZE,
  GuestReads,   \* [Clients -> sets of reads the guest may issue]
  GuestWrites,  \* [Clients -> sets of writes the guest may issue]
  MaxCalls,     \* bound: read, write and flush calls of a client
  Exclusive,    \* whether a volume has at most one user at a time
  KillPoints    \* the pc values at which a QEMU process may be killed

OffsetOf(r) == r.sector_num * BDRV_SECTOR_SIZE
SizeOf(r) == r.nb_sectors * BDRV_SECTOR_SIZE

\* A write past the end of the file would extend it, which is not modelled.
ASSUME CvbdAssumption ==
  /\ BDRV_SECTOR_SIZE \in Nat \ {0}
  /\ CVBD_BLKSIZE \in Nat \ {0}
  /\ \A c \in Clients : \A r \in GuestReads[c] \cup GuestWrites[c] :
       r.sector_num \in Nat /\ r.nb_sectors \in Nat
  /\ \A c \in Clients : \A w \in GuestWrites[c] :
       /\ w.buffer \in [0 .. SizeOf(w) - 1 -> Val]
       /\ OffsetOf(w) + SizeOf(w) <= FileSize
  /\ MaxCalls \in Nat
  /\ Exclusive \in BOOLEAN
  /\ KillPoints \subseteq PC \ Gone

VARIABLES
  length,  \* the length QEMU has for the device: 0 until cvbd_getlength
  calls,   \* how many calls QEMU has made
  view,    \* history: the contents of each volume with all queued writes done
  due,     \* history: due[c][a], what the request of an acb must bring about
  writes   \* history: how many writes of a volume were queued, done and synced
driverVars == <<length, calls>>
history == <<view, due, writes>>
vars == <<queueVars, serverVars, clientVars, driverVars, history>>

NothingDue == [bytes |-> << >>, writes |-> 0]

InitialBuffer(n) == [k \in 0 .. n - 1 |-> Null]

Init ==
  /\ QueuesInit /\ ServerInit /\ ClientInit
  /\ length = [c \in Clients |-> 0]
  /\ calls = [c \in Clients |-> 0]
  /\ view = disk
  /\ due = [c \in Clients |-> [a \in Acbs |-> NothingDue]]
  /\ writes = [v \in Volumes |-> [queued |-> 0, done |-> 0, synced |-> 0]]

--------------------------------------------------------------------------------
is_request_aligned(r) ==
  /\ OffsetOf(r) % CVBD_BLKSIZE = 0
  /\ SizeOf(r) % CVBD_BLKSIZE = 0

cvbd_open(c) ==
  /\ Exclusive => \A d \in Clients \ {c} : VolumeOf[d] = VolumeOf[c] => pc[d] \in Gone
  /\ CtorRemove(c)
  /\ UNCHANGED driverVars

\* QEMU's block layer asks for the length once, as soon as the device is open,
\* and then makes its calls from the event loop.
Open(c) == pc[c] = "idle" /\ calls[c] = 0
Call(c) == pc[c] = "idle" /\ calls[c] \in 1 .. MaxCalls
CountCall(c) == calls' = [calls EXCEPT ![c] = @ + 1]

cvbd_getlength(c) == Open(c) /\ CountCall(c) /\ send_getsize(c) /\ UNCHANGED length

GetLengthReturns(c) ==
  /\ pc[c] = "getsize"
  /\ length' = [length EXCEPT ![c] = SizeWord(reply_msg_[c])]
  /\ Goto(c, "idle")
  /\ UNCHANGED <<queueVars, thr, request_mq_, volume_, reply_msg_, freed, acbs, calls>>

\* getsize_volume catches what send_getsize throws and returns 0.
GetLengthThrows(c) ==
  /\ SendMayFail
  /\ Open(c) /\ CountCall(c)
  /\ length' = [length EXCEPT ![c] = 0]
  /\ UNCHANGED <<queueVars, clientVars>>

Admitted(c, r) == OffsetOf(r) + SizeOf(r) <= length[c]

\* A coroutine allocates its CVBDAIOCB and is about to send.
Submit(c, a, acb) ==
  /\ Call(c) /\ CountCall(c)
  /\ acbs[c][a] = Null
  /\ SetAcb(c, a, acb)
  /\ Goto(c, "sending")
  /\ UNCHANGED <<queueVars, thr, request_mq_, volume_, reply_msg_, freed, length>>

NewAcb(type, offset, size, buffer) ==
  [type |-> type, offset |-> offset, size |-> size, buf |-> buffer, ret |-> 0,
   bh |-> FALSE, yielded |-> FALSE]

\* The assertions of send_readv and send_writev: the request fits a message.
cvbd_co_rw(c, a, r, type, buffer) ==
  /\ Admitted(c, r)
  /\ is_request_aligned(r)
  /\ SizeOf(r) <= max_data_size
  /\ Submit(c, a, NewAcb(type, OffsetOf(r), SizeOf(r), buffer))

cvbd_co_readv(c, a, r) == cvbd_co_rw(c, a, r, "REQ_READ", InitialBuffer(SizeOf(r)))
cvbd_co_writev(c, a, w) == cvbd_co_rw(c, a, w, "REQ_WRITE", w.buffer)

TooLarge(c, r) ==
  /\ Call(c) /\ CountCall(c)
  /\ Admitted(c, r)
  /\ is_request_aligned(r)
  /\ SizeOf(r) > max_data_size
  /\ Perish(c, "aborted")
  /\ UNCHANGED length

\* The CVBDAIOCB allocated before the check is never freed, nor referred to.
Misaligned(c, r) ==
  /\ Call(c) /\ CountCall(c)
  /\ Admitted(c, r)
  /\ ~is_request_aligned(r)
  /\ UNCHANGED <<queueVars, clientVars, length>>

cvbd_co_flush_to_disk(c, a) == Submit(c, a, NewAcb("REQ_FSYNC", 0, 0, InitialBuffer(0)))

\* qemu_coroutine_yield: back to the event loop.
Yield(c, a) ==
  /\ pc[c] = "submitted" /\ Running(c, a)
  /\ SetAcb(c, a, [acbs[c][a] EXCEPT !.yielded = TRUE])
  /\ Goto(c, "idle")
  /\ UNCHANGED <<queueVars, thr, request_mq_, volume_, reply_msg_, freed, driverVars>>

\* The event loop runs a bottom half: the coroutine ends and frees its CVBDAIOCB.
cvbd_complete_aio(c, a) ==
  /\ pc[c] = "idle"
  /\ acbs[c][a] # Null /\ acbs[c][a].bh
  /\ SetAcb(c, a, Null)
  /\ UNCHANGED <<queueVars, pc, thr, request_mq_, volume_, reply_msg_, freed, driverVars>>

\* QEMU drains all requests, then calls cvbd_close.
cvbd_close(c) ==
  /\ calls[c] > 0
  /\ \A a \in Acbs : acbs[c][a] = Null
  /\ send_close(c)
  /\ UNCHANGED driverVars

QemuKilled(c) ==
  /\ pc[c] \in KillPoints
  /\ Perish(c, "killed")
  /\ UNCHANGED driverVars

--------------------------------------------------------------------------------
(***************************************************************************)
(* The history variables.  A write counts from the moment it is queued to  *)
(* a server that runs; if that server dies, what it had not done is lost.  *)
(* A read is due the contents at the moment it is queued, a flush the      *)
(* durability of all writes of its volume queued by then.                  *)
(***************************************************************************)
Served(c) == server = "up" /\ request_mq_[c] = epoch

NoteWrite(c, a) ==
  LET v == VolumeOf[c]
      acb == acbs[c][a]
  IN  /\ IF Served(c)
         THEN /\ view' = [view EXCEPT ![v] = Overwrite(@, acb.offset, acb.buf, acb.size)]
              /\ writes' = [writes EXCEPT ![v].queued = @ + 1]
         ELSE UNCHANGED <<view, writes>>
      /\ UNCHANGED due

NoteRead(c, a) ==
  /\ due' = [due EXCEPT ![c][a].bytes =
               LET acb == acbs[c][a]
                   v == view[VolumeOf[c]]
               IN  [k \in 0 .. acb.size - 1 |->
                      IF acb.offset + k \in DOMAIN v THEN v[acb.offset + k] ELSE Null]]
  /\ UNCHANGED <<view, writes>>

NoteFlush(c, a) ==
  /\ due' = [due EXCEPT ![c][a].writes = writes[VolumeOf[c]].queued]
  /\ UNCHANGED <<view, writes>>

\* Nothing is due to a CVBDAIOCB that has been freed.
NoteFreed ==
  /\ due' = [c \in Clients |->
               [a \in Acbs |-> IF acbs'[c][a] = Null THEN NothingDue ELSE due[c][a]]]
  /\ UNCHANGED <<view, writes>>

\* One write or fsync done; or the server has gone and takes its queue with it.
WriteDone == server = "up" /\ Pending # << >> /\ Msg.type = "REQ_WRITE" /\ server' = "up"
FsyncDone(v) ==
  /\ server = "up" /\ Pending # << >> /\ Msg.type = "REQ_FSYNC" /\ Msg.name = v /\ server' = "up"
  /\ \A c \in Clients : reply_mq'[c] # reply_mq[c] => reply_mq'[c][Len(reply_mq'[c])].err = 0

NoteServer ==
  /\ view' = IF server' = "up" THEN view ELSE disk'
  /\ writes' = [v \in Volumes |->
       CASE server' # "up"               -> [writes[v] EXCEPT !.queued = writes[v].done]
         [] WriteDone /\ Msg.name = v    -> [writes[v] EXCEPT !.done = @ + 1]
         [] FsyncDone(v)                 -> [writes[v] EXCEPT !.synced = writes[v].done]
         [] OTHER                        -> writes[v]]
  /\ UNCHANGED due

\* Steps of the main thread inside a call or of a scheduled bottom half, steps
\* of the reply thread, and steps QEMU or the guest starts or an accident is.
Progress(c) ==
  \/ /\ \/ CtorOpen(c) \/ CtorCreate(c) \/ send_open(c) \/ BeginWait(c)
        \/ OpenReturns(c) \/ OpenAssertFails(c)
        \/ DtorFree(c) \/ DtorStop(c) \/ DtorDelete(c)
     /\ UNCHANGED <<driverVars, history>>
  \/ GetLengthReturns(c) /\ UNCHANGED history
  \/ \E a \in Acbs :
       \/ send_readv(c, a) /\ NoteRead(c, a) /\ UNCHANGED driverVars
       \/ send_writev(c, a) /\ NoteWrite(c, a) /\ UNCHANGED driverVars
       \/ send_fsync(c, a) /\ NoteFlush(c, a) /\ UNCHANGED driverVars
       \/ Yield(c, a) /\ UNCHANGED history

BottomHalf(c) == \E a \in Acbs : cvbd_complete_aio(c, a) /\ NoteFreed

ReplyThread(c) == handle_co_reply(c) /\ NoteFreed /\ UNCHANGED driverVars

Environment(c) ==
  /\ \/ cvbd_open(c)
     \/ cvbd_getlength(c)
     \/ GetLengthThrows(c)
     \/ \E a \in Acbs, r \in GuestReads[c] : cvbd_co_readv(c, a, r)
     \/ \E a \in Acbs, w \in GuestWrites[c] : cvbd_co_writev(c, a, w)
     \/ \E r \in GuestReads[c] \cup GuestWrites[c] : Misaligned(c, r) \/ TooLarge(c, r)
     \/ \E a \in Acbs : cvbd_co_flush_to_disk(c, a)
     \/ cvbd_close(c)
     \/ SpuriousWakeup(c) /\ UNCHANGED driverVars
     \/ SendThrows(c) /\ UNCHANGED driverVars
     \/ DtorCrashes(c) /\ UNCHANGED driverVars
     \/ QemuKilled(c)
  /\ NoteFreed

ClientStep(c) ==
  (Progress(c) \/ BottomHalf(c) \/ ReplyThread(c) \/ Environment(c)) /\ UNCHANGED serverVars
ServerStep == ServerNext /\ NoteServer /\ UNCHANGED <<clientVars, driverVars>>

Next == ServerStep \/ \E c \in Clients : ClientStep(c)

Spec == Init /\ [][Next]_vars

(***************************************************************************)
(* Fairness: the handler thread of the server, the reply thread and the    *)
(* main thread inside a call keep running, and the event loop runs the     *)
(* bottom halves that are scheduled.                                       *)
(***************************************************************************)
FairSpec ==
  /\ Spec
  /\ WF_vars(ServerStep /\ (StartCreate \/ handle_requests))
  /\ \A c \in Clients :
       /\ WF_vars(Progress(c) /\ UNCHANGED serverVars)
       /\ WF_vars(BottomHalf(c) /\ UNCHANGED serverVars)
       /\ WF_vars(ReplyThread(c) /\ UNCHANGED serverVars)

--------------------------------------------------------------------------------
TypeOK ==
  /\ QueuesTypeOK /\ ServerTypeOK /\ ClientTypeOK
  /\ length \in [Clients -> Nat]
  /\ calls \in [Clients -> 0 .. MaxCalls + 1]
  /\ view \in [Volumes -> [0 .. FileSize - 1 -> Val]]
  /\ \A c \in Clients : pc[c] \in {"sending", "submitted"} <=> \E a \in Acbs : Running(c, a)
  /\ writes \in [Volumes -> [queued : Nat, done : Nat, synced : Nat]]
  /\ \A v \in Volumes : LET w == writes[v] IN w.synced <= w.done /\ w.done <= w.queued

(***************************************************************************)
(* The messages that will make the reply thread of c touch a CVBDAIOCB:    *)
(* requests the running server has to answer, replies in the queue, and    *)
(* the reply the thread has in hand.                                       *)
(***************************************************************************)
Completes(m) == m.type \in {"REQ_READ", "REQ_FSYNC"}
InRequests(c) == {i \in 1 .. Len(Pending) : Pending[i].from = c /\ Completes(Pending[i])}
InReplies(c) == {i \in 1 .. Len(reply_mq[c]) : Completes(reply_mq[c][i])}
InHand(c) == IF thr[c] = "handle" /\ Completes(reply_msg_[c]) THEN {reply_msg_[c]} ELSE {}

InFlight(c) ==
  (IF Served(c) THEN {<<"request", i, Pending[i].acb, Pending[i].type>> : i \in InRequests(c)} ELSE {})
  \cup {<<"reply", i, reply_mq[c][i].acb, reply_mq[c][i].type>> : i \in InReplies(c)}
  \cup {<<"hand", 0, m.acb, m.type>> : m \in InHand(c)}

(***************************************************************************)
(* Each of them points to a CVBDAIOCB that is allocated, is of the kind    *)
(* the message is about and has not been completed, and no two point to    *)
(* the same: what handle_co_reply makes of header->acb is never freed      *)
(* memory or another request, and no coroutine is entered twice.           *)
(***************************************************************************)
AcbsLive ==
  \A c \in Clients : pc[c] \notin Dead =>
    /\ \A f \in InFlight(c) : /\ f[3] # Null
                              /\ acbs[c][f[3]] # Null
                              /\ acbs[c][f[3]].type = f[4]
                              /\ ~acbs[c][f[3]].bh
    /\ \A f, g \in InFlight(c) : f[3] = g[3] => f = g

(***************************************************************************)
(* A coroutine that waits on the running server has its bottom half        *)
(* scheduled or a message on its way: no handler and no error path of the  *)
(* server forgets the answer.                                              *)
(***************************************************************************)
NoLostCompletion ==
  \A c \in Clients, a \in Acbs :
    pc[c] \notin Dead /\ Served(c) /\ acbs[c][a] # Null =>
      \/ acbs[c][a].bh
      \/ pc[c] = "sending" /\ Running(c, a)
      \/ \E f \in InFlight(c) : f[3] = a

(***************************************************************************)
(* A coroutine is resumed only after it has yielded, although the reply    *)
(* may be handled by the other thread, and a write is completed by the     *)
(* coroutine itself, before that.                                          *)
(***************************************************************************)
EnteredAfterYield ==
  [][\A c \in Clients, a \in Acbs :
       acbs[c][a] # Null /\ acbs'[c][a] = Null =>
         (acbs[c][a].yielded /\ pc[c] = "idle") \/ pc'[c] \in Dead]_vars

(***************************************************************************)
(* A completed read has succeeded and delivers, byte for byte, the         *)
(* contents at the moment it was queued, with all writes before it done,   *)
(* however requests of several coroutines and clients interleave.          *)
(***************************************************************************)
ReadsSeeWrites ==
  \A c \in Clients, a \in Acbs :
    acbs[c][a] # Null /\ acbs[c][a].type = "REQ_READ" /\ acbs[c][a].bh =>
      acbs[c][a].ret = 0 /\ acbs[c][a].buf = due[c][a].bytes

(***************************************************************************)
(* A flush that reports success does so after every write of the volume    *)
(* that was queued, hence reported done to the guest, before it was issued *)
(* has reached the file and the file has been synced.  Writes a server had *)
(* not handled when it died are not counted: they are lost, and the        *)
(* history variable writes forgets them.                                   *)
(***************************************************************************)
FlushIsBarrier ==
  \A c \in Clients, a \in Acbs :
    acbs[c][a] # Null /\ acbs[c][a].type = "REQ_FSYNC" /\ acbs[c][a].bh /\ acbs[c][a].ret = 0 =>
      writes[VolumeOf[c]].synced >= due[c][a].writes

\* Once the running server has drained its queue, the files hold every write
\* that was reported done to a guest on this server.
AllWritesLand == server = "up" /\ Pending = << >> => view = disk

\* A VolumeState is kept only for a client that uses it or died, or whose CLOSE
\* is on its way, in spite of all that can go wrong in the destructor.
NoVolumeLeak ==
  \A c \in Clients : vols[c] # Null =>
    \/ pc[c] \notin {"closed", "failed"}
    \/ \E i \in 1 .. Len(Pending) : Pending[i].from = c /\ Pending[i].type = "REQ_CLOSE"

(***************************************************************************)
(* No assertion of the client or the driver fails: the one of send_open on *)
(* what woke it, those of send_readv and send_writev on the size of a      *)
(* request, those of handle_co_reply on what a reply points to.            *)
(***************************************************************************)
ClientNeverAborts == \A c \in Clients : pc[c] # "aborted"

\* send_open comes back once the server has answered: WAIT_TO_COMPLETE ends.
OpenCompletes == \A c \in Clients : pc[c] = "before_wait" ~> pc[c] \notin Opening

\* Every coroutine that has submitted a request is resumed.
CoroutinesResume ==
  \A c \in Clients, a \in Acbs : acbs[c][a] # Null ~> acbs[c][a] = Null

\* A closed volume is eventually closed by the server too.
VolumesFreed == \A c \in Clients : pc[c] = "closed" ~> vols[c] = Null
================================================================================
