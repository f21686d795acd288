---------------------------- MODULE SharedMemClient ----------------------------
(***************************************************************************)
(* The blocking client of SharedMemClient.cpp, which the driver            *)
(* cvbd_syncio.c is linked with.  One element of Clients is one            *)
(* SharedMemClient object, from shared_mem_make_client to                  *)
(* shared_mem_destroy_client.  pc says where its caller stands:            *)
(*                                                                         *)
(*   "none"         not made yet                                           *)
(*   "ctor_open"    constructor, the old reply queue name just removed     *)
(*   "ctor_create"  constructor, the request queue just opened             *)
(*   "open"         in send_open, about to send                            *)
(*   "wait_open", "wait_getsize", "wait_read"  blocked in receive          *)
(*   "idle"         no call in progress                                    *)
(*   "io"           in the loop of cvbd_read or cvbd_write                 *)
(*   "destroy"      release_volume done, about to run the destructor       *)
(*   "closed"       destroyed          "failed"  cvbd_open returned an     *)
(*                                     error (the object is never freed)   *)
(*   "aborted"      an assert failed   "killed"  the QEMU process died     *)
(*                                                                         *)
(* The C wrappers catch every exception.  The constructor throws when it   *)
(* does not find, or cannot create, a queue; send and receive throw when   *)
(* Boost cannot lock the queue, which CallsMayThrow allows at any time.    *)
(***************************************************************************)
EXTENDS SharedMemShared

CONSTANT CallsMayThrow  \* whether message_queue::send and receive may throw

ASSUME ClientAssumption == CallsMayThrow \in BOOLEAN

VARIABLES
  pc,
  request_mq_,   \* the request queue object the client has mapped, or Null
  volume_        \* the VolumeState pointer it sends with every request
clientVars == <<pc, request_mq_, volume_>>

Waiting == {"wait_open", "wait_getsize", "wait_read"}
Gone == {"none", "closed", "failed", "aborted", "killed"}
PC == {"ctor_open", "ctor_create", "open", "idle", "io", "destroy"} \cup Waiting \cup Gone

\* The reply type the code after each receive asserts.
Awaited(p) == CASE p = "wait_open"    -> "REQ_OPEN"
                [] p = "wait_getsize" -> "REQ_GETSIZE"
                [] p = "wait_read"    -> "REQ_READ"

ClientTypeOK ==
  /\ pc \in [Clients -> PC]
  /\ request_mq_ \in [Clients -> Epochs \cup {Null}]
  /\ \A c \in Clients : pc[c] \notin {"ctor_open"} \cup Gone => request_mq_[c] # Null
  /\ volume_ \in [Clients -> Clients \cup {Null}]

\* volume_ is not initialised: Null stands for whatever it is then.  It is read
\* only if OPEN failed and that went unnoticed (the server does not look at the
\* field of an OPEN, and overwrites it in the reply).
ClientInit ==
  /\ pc = [c \in Clients |-> "none"]
  /\ request_mq_ = [c \in Clients |-> Null]
  /\ volume_ = [c \in Clients |-> Null]

Goto(c, p) == pc' = [pc EXCEPT ![c] = p]

--------------------------------------------------------------------------------
\* The constructor, in its three steps.  The last two throw when the request
\* queue does not exist, or when another client took the reply name meanwhile.
CtorRemove(c) ==
  /\ pc[c] = "none"
  /\ Goto(c, "ctor_open")
  /\ reply_name' = [reply_name EXCEPT ![VolumeOf[c]] = Null]
  /\ UNCHANGED <<request_mq, request_name, reply_mq, request_mq_, volume_>>

CtorOpen(c) ==
  /\ pc[c] = "ctor_open"
  /\ Goto(c, IF request_name = Null THEN "failed" ELSE "ctor_create")
  /\ request_mq_' = [request_mq_ EXCEPT ![c] = request_name]
  /\ UNCHANGED <<queueVars, volume_>>

CtorCreate(c) ==
  /\ pc[c] = "ctor_create"
  /\ IF reply_name[VolumeOf[c]] = Null
     THEN /\ Goto(c, "open")
          /\ reply_name' = [reply_name EXCEPT ![VolumeOf[c]] = c]
     ELSE /\ Goto(c, "failed")
          /\ UNCHANGED reply_name
  /\ UNCHANGED <<request_mq, request_name, reply_mq, request_mq_, volume_>>

--------------------------------------------------------------------------------
\* The first half of every call: send, blocking while the queue is full.
Send(c, m, p) ==
  /\ send_request(request_mq_[c], m)
  /\ Goto(c, p)
  /\ UNCHANGED <<request_name, reply_mq, reply_name, request_mq_, volume_>>

\* The second half: receive, blocking while the queue is empty, and assert
\* that the reply is of the awaited kind.
Receives(c, p) ==
  /\ pc[c] = p
  /\ reply_mq[c] # << >>
  /\ reply_mq' = [reply_mq EXCEPT ![c] = Tail(@)]
  /\ UNCHANGED <<request_mq, request_name, reply_name, request_mq_>>

Answer(c) == Head(reply_mq[c])

\* assert(header.type == ...), and in send_read assert(size_in_bytes == ...).
AnswerFits(c, size) ==
  /\ Answer(c).type = Awaited(pc[c])
  /\ pc[c] = "wait_read" => Answer(c).size = size

AssertFails(c, p, size) ==
  /\ Receives(c, p)
  /\ ~AnswerFits(c, size)
  /\ Goto(c, "aborted")
  /\ UNCHANGED volume_

send_open(c) == pc[c] = "open" /\ Send(c, OpenRequest(c), "wait_open")

\* Mutant: the error the server reported is ignored.
OpenReturns_IgnoresErr(c) ==
  /\ Receives(c, "wait_open")
  /\ AnswerFits(c, 0)
  /\ volume_' = [volume_ EXCEPT ![c] = Answer(c).volume]
  /\ Goto(c, "idle")

OpenReturns(c) ==
  /\ Receives(c, "wait_open")
  /\ AnswerFits(c, 0)
  /\ IF Answer(c).err = 0
     THEN /\ volume_' = [volume_ EXCEPT ![c] = Answer(c).volume]
          /\ Goto(c, "idle")
     ELSE /\ Goto(c, "failed")
          /\ UNCHANGED volume_

send_getsize(c) ==
  pc[c] = "idle" /\ Send(c, GetSizeRequest(c, volume_[c]), "wait_getsize")

GetSizeReturns(c) ==
  /\ Receives(c, "wait_getsize")
  /\ AnswerFits(c, 0)
  /\ Goto(c, "idle")
  /\ UNCHANGED volume_

send_read(c, offset, size) ==
  pc[c] = "io" /\ Send(c, ReadRequest(c, volume_[c], offset, size), "wait_read")

ReadReturns(c, size) ==
  /\ Receives(c, "wait_read")
  /\ AnswerFits(c, size)
  /\ Goto(c, "io")
  /\ UNCHANGED volume_

\* Writes are not acknowledged: send_write returns once the message is queued.
send_write(c, offset, size, data) ==
  pc[c] = "io" /\ Send(c, WriteRequest(c, volume_[c], offset, size, data), "io")

send_close(c) ==
  pc[c] = "idle" /\ Send(c, CloseRequest(c, volume_[c]), "destroy")

\* The destructor removes the name of the volume's reply queue, whoever made
\* the queue it denotes.
Destroy(c) ==
  /\ pc[c] = "destroy"
  /\ Goto(c, "closed")
  /\ reply_name' = [reply_name EXCEPT ![VolumeOf[c]] = Null]
  /\ UNCHANGED <<request_mq, request_name, reply_mq, request_mq_, volume_>>

--------------------------------------------------------------------------------
\* A send or receive throws; the wrapper catches it and its caller goes on at p.
Throws(c, p) ==
  /\ CallsMayThrow
  /\ Goto(c, p)
  /\ UNCHANGED <<queueVars, request_mq_, volume_>>

\* create_volume returns -errno, which may well be 0: cvbd_open then succeeds.
OpenThrows(c) ==
  pc[c] \in {"open", "wait_open"} /\ (Throws(c, "failed") \/ Throws(c, "idle"))

\* getsize_volume returns 0.
GetSizeThrows(c) == pc[c] \in {"idle", "wait_getsize"} /\ Throws(c, "idle")

\* shared_mem_read and shared_mem_write return false, and the drivers assert(0).
ReadWriteThrows(c) == pc[c] \in {"io", "wait_read"} /\ Throws(c, "aborted")

\* release_volume returns false, which cvbd_close ignores.
CloseThrows(c) == pc[c] = "idle" /\ Throws(c, "destroy")

--------------------------------------------------------------------------------
\* The QEMU process dies; what it left in shared memory stays.
Die(c) ==
  /\ Goto(c, "killed")
  /\ UNCHANGED <<queueVars, request_mq_, volume_>>
================================================================================
