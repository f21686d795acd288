------------------------- MODULE SharedMemClientASync -------------------------
(***************************************************************************)
(* The asynchronous client of SharedMemClientASync.cpp, which the driver   *)
(* cvbd.c is linked with.  Each client has two threads: QEMU's main thread *)
(* (pc), which sends, and the reply thread (thr), which runs               *)
(* handle_co_reply: it receives every reply into the one buffer reply_msg_ *)
(* and completes the CVBDAIOCB whose address the reply carries.            *)
(*                                                                         *)
(* pc:  "none", "ctor_open", "ctor_create"  as in SharedMemClient          *)
(*      "open"        in send_open, about to send                          *)
(*      "before_wait" OPEN sent, not yet in pthread_cond_wait              *)
(*      "waiting"     in pthread_cond_wait     "woken"  returned from it   *)
(*      "typed"       the type of the answer is checked                    *)
(*      "granted"     its error is 0, its pointer not yet taken            *)
(*      "returning"   about to read the error again, and return it         *)
(*      "idle"        in QEMU's event loop                                 *)
(*      "getsize"     GETSIZE sent, about to read reply_msg_               *)
(*      "sending"     in a coroutine, about to send its request            *)
(*      "submitted"   in a coroutine, about to yield                       *)
(*      "dtor_free", "dtor_stop", "dtor_delete"  in the destructor         *)
(*      "closed", "failed", "aborted", "killed"  as in SharedMemClient     *)
(*      "crashed"     the process died of a memory error                   *)
(* thr: "none", "receive", "handle" (a reply is in reply_msg_), "done",    *)
(*      "receive_null" (in receive with a null buffer)                     *)
(*                                                                         *)
(* The class as declared in SharedMemClient.h lacks the members this file  *)
(* uses, and cvbd.h, with CVBDAIOCB, is not in the repository: both are    *)
(* taken from their use.  send_write and send_read have no caller in this  *)
(* stack.                                                                  *)
(***************************************************************************)
EXTENDS SharedMemShared

CONSTANTS
  SpuriousWakeups,  \* whether pthread_cond_wait may return without a signal
  SendMayFail,      \* whether message_queue::send may throw
  HeapAddress       \* a VolumeState's address in the server, as a number

\* CVBDAIOCBs.  bh: cvbd_complete_aio is scheduled; yielded: the coroutine has yielded.
AcbType == {"REQ_READ", "REQ_WRITE", "REQ_FSYNC"}
AcbBuffer(n) == [0 .. n - 1 -> Val \cup {Null}]
AcbState ==
  [type : AcbType, offset : Nat, size : 0 .. max_data_size,
   buf : UNION {AcbBuffer(n) : n \in 0 .. max_data_size},
   ret : Int, bh : BOOLEAN, yielded : BOOLEAN]

ASSUME ClientASyncAssumption ==
  /\ SpuriousWakeups \in BOOLEAN
  /\ SendMayFail \in BOOLEAN
  /\ HeapAddress \in Nat
  /\ Null \notin AcbState /\ Null \notin Reply

VARIABLES
  pc,
  thr,
  request_mq_,   \* the request queue object the client has mapped, or Null
  volume_,       \* the VolumeState pointer it sends with every request
  reply_msg_,    \* contents of the reply buffer, Null before the first reply
  freed,         \* whether that buffer has been freed
  acbs           \* acbs[c][a]: the CVBDAIOCB at a and its coroutine, or Null
clientVars == <<pc, thr, request_mq_, volume_, reply_msg_, freed, acbs>>

Dead == {"aborted", "killed", "crashed"}
Gone == {"none", "closed", "failed"} \cup Dead
Reading == {"woken", "typed", "granted", "returning"}
Opening == {"before_wait", "waiting"} \cup Reading
PC == {"ctor_open", "ctor_create", "open", "idle", "getsize", "sending", "submitted",
       "dtor_free", "dtor_stop", "dtor_delete"} \cup Opening \cup Gone

\* A buffer has the size of its request; what is written comes from the guest.
Acb(a) ==
  /\ a \in AcbState
  /\ a.buf \in AcbBuffer(a.size)
  /\ a.type = "REQ_WRITE" => a.buf \in [0 .. a.size - 1 -> Val]
  /\ a.type = "REQ_FSYNC" => a.size = 0

ClientTypeOK ==
  /\ pc \in [Clients -> PC]
  /\ thr \in [Clients -> {"none", "receive", "handle", "receive_null", "done"}]
  /\ request_mq_ \in [Clients -> Epochs \cup {Null}]
  /\ volume_ \in [Clients -> Clients \cup {Null}]
  /\ reply_msg_ \in [Clients -> Reply \cup {Null}]
  /\ freed \in [Clients -> BOOLEAN]
  /\ acbs \in [Clients -> [Acbs -> AcbState \cup {Null}]]
  /\ \A c \in Clients, a \in Acbs : acbs[c][a] # Null => Acb(acbs[c][a])

ClientInit ==
  /\ pc = [c \in Clients |-> "none"]
  /\ thr = [c \in Clients |-> "none"]
  /\ request_mq_ = [c \in Clients |-> Null]
  /\ volume_ = [c \in Clients |-> Null]
  /\ reply_msg_ = [c \in Clients |-> Null]
  /\ freed = [c \in Clients |-> FALSE]
  /\ acbs = [c \in Clients |-> [a \in Acbs |-> Null]]

Goto(c, p) == pc' = [pc EXCEPT ![c] = p]
ThreadGoto(c, t) == thr' = [thr EXCEPT ![c] = t]
SetAcb(c, a, acb) == acbs' = [acbs EXCEPT ![c][a] = acb]

\* The CVBDAIOCB whose coroutine the main thread is running.
Running(c, a) == acbs[c][a] # Null /\ ~acbs[c][a].yielded

\* The process ends, and its memory with it; what it has in shared memory stays.
Perish(c, how) ==
  /\ Goto(c, how)
  /\ ThreadGoto(c, "none")
  /\ volume_' = [volume_ EXCEPT ![c] = Null]
  /\ reply_msg_' = [reply_msg_ EXCEPT ![c] = Null]
  /\ freed' = [freed EXCEPT ![c] = FALSE]
  /\ acbs' = [acbs EXCEPT ![c] = [a \in Acbs |-> Null]]
  /\ UNCHANGED <<queueVars, request_mq_>>

-------------------------------------------------------------------------------
CtorRemove(c) ==
  /\ pc[c] = "none"
  /\ Goto(c, "ctor_open")
  /\ reply_name' = [reply_name EXCEPT ![VolumeOf[c]] = Null]
  /\ UNCHANGED <<request_mq, request_name, reply_mq,
                 thr, request_mq_, volume_, reply_msg_, freed, acbs>>

CtorOpen(c) ==
  /\ pc[c] = "ctor_open"
  /\ Goto(c, IF request_name = Null THEN "failed" ELSE "ctor_create")
  /\ request_mq_' = [request_mq_ EXCEPT ![c] = request_name]
  /\ UNCHANGED <<queueVars, thr, volume_, reply_msg_, freed, acbs>>

\* Creating the reply queue also starts the reply thread.
CtorCreate(c) ==
  /\ pc[c] = "ctor_create"
  /\ IF reply_name[VolumeOf[c]] = Null
     THEN /\ Goto(c, "open")
          /\ ThreadGoto(c, "receive")
          /\ reply_name' = [reply_name EXCEPT ![VolumeOf[c]] = c]
     ELSE /\ Goto(c, "failed")
          /\ UNCHANGED <<thr, reply_name>>
  /\ UNCHANGED <<request_mq, request_name, reply_mq,
                 request_mq_, volume_, reply_msg_, freed, acbs>>

-------------------------------------------------------------------------------
\* The main thread sends, blocking while the queue is full, and goes on at p.
Send(c, m, p) ==
  /\ send_request(request_mq_[c], m)
  /\ Goto(c, p)
  /\ UNCHANGED <<request_name, reply_mq, reply_name, thr, request_mq_, volume_, reply_msg_, freed>>

send_open(c) ==
  pc[c] = "open" /\ Send(c, OpenRequest(c), "before_wait") /\ UNCHANGED acbs

\* WAIT_TO_COMPLETE: no condition is tested before the wait, nor after it.
BeginWait(c) ==
  /\ pc[c] = "before_wait"
  /\ Goto(c, "waiting")
  /\ UNCHANGED <<queueVars, thr, request_mq_, volume_, reply_msg_, freed, acbs>>

SpuriousWakeup(c) ==
  /\ SpuriousWakeups
  /\ pc[c] = "waiting"
  /\ Goto(c, "woken")
  /\ UNCHANGED <<queueVars, thr, request_mq_, volume_, reply_msg_, freed, acbs>>

OpenAnswered(c) == reply_msg_[c] # Null /\ reply_msg_[c].type = "REQ_OPEN"

\* Mutant: the error of the answer is not looked at.
OpenReturns_IgnoresErr(c) ==
  /\ \/ pc[c] = "woken" /\ OpenAnswered(c) /\ Goto(c, "granted") /\ UNCHANGED volume_
     \/ /\ pc[c] = "granted" /\ Goto(c, "returning")
        /\ volume_' = [volume_ EXCEPT ![c] = reply_msg_[c].volume]
     \/ pc[c] = "returning" /\ Goto(c, "idle") /\ UNCHANGED volume_
  /\ UNCHANGED <<queueVars, thr, request_mq_, reply_msg_, freed, acbs>>

\* The rest of send_open reads the buffer word by word, while the reply thread
\* may receive into it: the type it asserts, the error, the pointer unless there
\* is an error, and once more the error, which it returns.
OpenReturns(c) ==
  /\ \/ pc[c] = "woken" /\ OpenAnswered(c) /\ Goto(c, "typed") /\ UNCHANGED volume_
     \/ /\ pc[c] = "typed"
        /\ Goto(c, IF reply_msg_[c].err = 0 THEN "granted" ELSE "returning")
        /\ UNCHANGED volume_
     \/ /\ pc[c] = "granted" /\ Goto(c, "returning")
        /\ volume_' = [volume_ EXCEPT ![c] = reply_msg_[c].volume]
     \/ /\ pc[c] = "returning"
        /\ Goto(c, IF reply_msg_[c].err = 0 THEN "idle" ELSE "failed")
        /\ UNCHANGED volume_
  /\ UNCHANGED <<queueVars, thr, request_mq_, reply_msg_, freed, acbs>>

OpenAssertFails(c) == pc[c] = "woken" /\ ~OpenAnswered(c) /\ Perish(c, "aborted")

\* send_getsize does not wait: it returns whatever word reply_msg_ has where a
\* GetSizeReply has its size.  In an OpenReply that is the pointer.
send_getsize(c) ==
  pc[c] = "idle" /\ Send(c, GetSizeRequest(c, volume_[c]), "getsize") /\ UNCHANGED acbs

SizeWord(r) ==
  IF r = Null THEN 0 ELSE IF r.type = "REQ_OPEN" THEN HeapAddress ELSE r.size

-------------------------------------------------------------------------------
\* cvbd_finish_aio, the callback of every CVBDAIOCB: result, then the bottom half.
cvbd_finish_aio(acb, ret) ==
  [acb EXCEPT !.ret = IF ret = 0 \/ acb.ret = acb.size THEN 0 ELSE -1,
              !.bh = TRUE]

send_readv(c, a) ==
  /\ pc[c] = "sending" /\ Running(c, a) /\ acbs[c][a].type = "REQ_READ"
  /\ LET acb == acbs[c][a]
     IN  Send(c, For(a, ReadRequest(c, volume_[c], acb.offset, acb.size)), "submitted")
  /\ UNCHANGED acbs

\* A write is complete once its message is queued.
send_writev(c, a) ==
  /\ pc[c] = "sending" /\ Running(c, a) /\ acbs[c][a].type = "REQ_WRITE"
  /\ LET acb == acbs[c][a]
     IN  /\ Send(c, For(a, WriteRequest(c, volume_[c], acb.offset, acb.size,
                                        Slice(acb.buf, 0, acb.size))), "submitted")
         /\ SetAcb(c, a, cvbd_finish_aio([acb EXCEPT !.ret = acb.size], 0))

\* Mutant: a flush, too, is completed once its message is queued.
send_fsync_NoWait(c, a) ==
  /\ pc[c] = "sending" /\ Running(c, a) /\ acbs[c][a].type = "REQ_FSYNC"
  /\ Send(c, For(a, FsyncRequest(c, volume_[c])), "submitted")
  /\ SetAcb(c, a, cvbd_finish_aio(acbs[c][a], 0))

send_fsync(c, a) ==
  /\ pc[c] = "sending" /\ Running(c, a) /\ acbs[c][a].type = "REQ_FSYNC"
  /\ Send(c, For(a, FsyncRequest(c, volume_[c])), "submitted")
  /\ UNCHANGED acbs

send_close(c) ==
  pc[c] = "idle" /\ Send(c, CloseRequest(c, volume_[c]), "dtor_free") /\ UNCHANGED acbs

(***************************************************************************)
(* A send throws.  create_volume returns -errno, which may well be 0; a    *)
(* read or write meets assert(0) in cvbd_co_rw; cvbd_co_flush_to_disk tests*)
(* a bool for < 0, notices nothing and yields; release_volume's result is  *)
(* ignored.  (For getsize see CvbdAsync.)                                  *)
(***************************************************************************)
Flushing(c) == \E a \in Acbs : Running(c, a) /\ acbs[c][a].type = "REQ_FSYNC"

SendThrows(c) ==
  /\ SendMayFail
  /\ \/ /\ \/ pc[c] = "open" /\ (Goto(c, "failed") \/ Goto(c, "idle"))
           \/ pc[c] = "sending" /\ Flushing(c) /\ Goto(c, "submitted")
           \/ pc[c] = "idle" /\ (\A a \in Acbs : acbs[c][a] = Null) /\ Goto(c, "dtor_free")
        /\ UNCHANGED <<queueVars, thr, request_mq_, volume_, reply_msg_, freed, acbs>>
     \/ pc[c] = "sending" /\ ~Flushing(c) /\ Perish(c, "aborted")

-------------------------------------------------------------------------------
\* The reply thread.  A process that died, or has unmapped the queue, runs none.
ThreadRuns(c) == pc[c] \notin Dead \cup {"closed"}

ThreadReceives(c) ==
  /\ ThreadRuns(c) /\ thr[c] = "receive"
  /\ reply_mq[c] # << >>
  /\ reply_mq' = [reply_mq EXCEPT ![c] = Tail(@)]
  /\ reply_msg_' = [reply_msg_ EXCEPT ![c] = Head(reply_mq[c])]
  /\ ThreadGoto(c, "handle")
  /\ UNCHANGED <<request_mq, request_name, reply_name, pc, request_mq_, volume_, freed, acbs>>

Handling(c, types) ==
  ThreadRuns(c) /\ thr[c] = "handle" /\ reply_msg_[c].type \in types

Handles(c, types) ==
  /\ Handling(c, types)
  /\ UNCHANGED <<queueVars, request_mq_, volume_, reply_msg_, freed>>

\* Back to receive; reply_msg_.get() is null once the destructor has reset it.
ThreadLoops(c) == ThreadGoto(c, IF freed[c] THEN "receive_null" ELSE "receive")

HandleStop(c) == Handles(c, {"STOP"}) /\ ThreadGoto(c, "done") /\ UNCHANGED <<pc, acbs>>

\* SIGNAL_COMPLETION wakes the main thread if it is waiting, else is lost.
HandleSignal(c) ==
  /\ Handles(c, {"REQ_OPEN", "REQ_GETSIZE"})
  /\ IF pc[c] = "waiting" THEN Goto(c, "woken") ELSE UNCHANGED pc
  /\ ThreadLoops(c)
  /\ UNCHANGED acbs

\* The CVBDAIOCB the reply in hand points to is allocated, or it is not.
AcbOf(c) == reply_msg_[c].acb
AcbAllocated(c) == AcbOf(c) # Null /\ acbs[c][AcbOf(c)] # Null

\* A read is filled from the data of the reply (iov_from_buf).
Filled(acb, m) ==
  [acb EXCEPT !.ret = m.size,
              !.buf = [k \in DOMAIN @ |-> IF k < m.size THEN m.data[k] ELSE @[k]]]

\* Mutant: the error of a failed fsync is not passed on.
Completed_IgnoresErr(acb, m) ==
  IF m.type = "REQ_READ" THEN cvbd_finish_aio(Filled(acb, m), 0)
                         ELSE cvbd_finish_aio([acb EXCEPT !.ret = 0], 0)

\* The CVBDAIOCB once the reply m has been handled.
Completed(acb, m) ==
  IF m.type = "REQ_READ" THEN cvbd_finish_aio(Filled(acb, m), 0)
                         ELSE cvbd_finish_aio([acb EXCEPT !.ret = m.err], m.err)

\* Mutant: the thread enters the coroutine itself instead of scheduling it.
HandleCompletion_Enters(c) ==
  /\ Handles(c, {"REQ_READ", "REQ_FSYNC"})
  /\ AcbAllocated(c)
  /\ SetAcb(c, AcbOf(c), Null)
  /\ ThreadLoops(c)
  /\ UNCHANGED pc

\* Otherwise assert(0) or assert(acb) fails, or the pointer is to freed memory.
HandleCompletion(c) ==
  /\ Handling(c, RequestType \ {"REQ_OPEN", "REQ_GETSIZE"})
  /\ IF reply_msg_[c].type \in {"REQ_READ", "REQ_FSYNC"} /\ AcbAllocated(c)
     THEN /\ SetAcb(c, AcbOf(c), Completed(acbs[c][AcbOf(c)], reply_msg_[c]))
          /\ ThreadLoops(c)
          /\ UNCHANGED <<queueVars, pc, request_mq_, volume_, reply_msg_, freed>>
     ELSE Perish(c, IF reply_msg_[c].type \in {"REQ_READ", "REQ_FSYNC"} /\ AcbOf(c) # Null
                    THEN "crashed" ELSE "aborted")

handle_co_reply(c) ==
  ThreadReceives(c) \/ HandleStop(c) \/ HandleSignal(c) \/ HandleCompletion(c)

-------------------------------------------------------------------------------
(***************************************************************************)
(* The destructor frees the buffer the reply thread is receiving into,     *)
(* removes the name, tries to send the stop message (which reads           *)
(* reply_size bytes from a mere Header), and destroys the queue.  From the *)
(* first of these steps on a step of either thread may meet freed or       *)
(* unmapped memory: it does what it would have done, or the process dies.  *)
(***************************************************************************)
DtorFree(c) ==
  /\ pc[c] = "dtor_free"
  /\ Goto(c, "dtor_stop")
  /\ freed' = [freed EXCEPT ![c] = TRUE]
  /\ reply_name' = [reply_name EXCEPT ![VolumeOf[c]] = Null]
  /\ UNCHANGED <<request_mq, request_name, reply_mq, thr, request_mq_, volume_, reply_msg_, acbs>>

DtorStop(c) ==
  /\ pc[c] = "dtor_stop"
  /\ Goto(c, "dtor_delete")
  /\ reply_mq' = IF HasRoom(reply_mq[c])
                 THEN [reply_mq EXCEPT ![c] = Append(@, StopMessage)] ELSE reply_mq
  /\ UNCHANGED <<request_mq, request_name, reply_name, thr, request_mq_, volume_, reply_msg_, freed, acbs>>

DtorDelete(c) ==
  /\ pc[c] = "dtor_delete"
  /\ Goto(c, "closed")
  /\ UNCHANGED <<queueVars, thr, request_mq_, volume_, reply_msg_, freed, acbs>>

DtorCrashes(c) ==
  /\ \/ pc[c] = "dtor_stop"
     \/ /\ ThreadRuns(c) /\ freed[c]
        /\ thr[c] = "handle" \/ (thr[c] \in {"receive", "receive_null"} /\ reply_mq[c] # << >>)
     \/ pc[c] = "closed" /\ thr[c] # "done"
  /\ Perish(c, "crashed")
===============================================================================
