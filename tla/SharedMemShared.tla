---------------------------- MODULE SharedMemShared ----------------------------
(***************************************************************************)
(* What the QEMU side and the storage server share: the message formats of *)
(* SharedMemShared.h and the shared-memory message queues they travel in   *)
(* (boost::interprocess::message_queue, an external library: a bounded     *)
(* FIFO whose send and receive block; every message has priority 0).       *)
(*                                                                         *)
(* A queue is an object reached through a name.  Removing a name leaves    *)
(* the object to the processes that have it mapped, so objects and names   *)
(* are separate state:                                                     *)
(*   - the e-th start of the server creates the request queue object       *)
(*     request_mq[e]; request_name is the object the name denotes now;     *)
(*   - a SharedMemClient c creates the reply queue object reply_mq[c]      *)
(*     under the name of its volume; reply_name[v] is what it denotes now. *)
(***************************************************************************)
EXTENDS Integers, Sequences

CONSTANTS
  Clients,         \* SharedMemClient objects, one for each cvbd_open
  Volumes,         \* volume names
  VolumeOf,        \* [Clients -> Volumes]: the volume a client is made for
  Acbs,            \* CVBDAIOCBs a client may have at a time (blocking client: none)
  Null,            \* NULL, or a queue name that denotes nothing
  Val, Zero,       \* values of a byte; what a hole in a file reads as
  FileSize,        \* 1 << 34, the size the server gives every volume
  max_queue_size,  \* messages a queue holds (32)
  max_data_size,   \* bytes of data in one message (4096 * max_sectors_write)
  MaxStarts        \* bound: how often the server is started

VolumeState == [file : Volumes, reply_mq : Clients]

ASSUME SharedMemAssumption ==
  /\ VolumeOf \in [Clients -> Volumes]
  /\ Null \notin Clients /\ Null \notin Acbs
  /\ Null \notin VolumeState /\ Null \notin 1 .. MaxStarts
  /\ Zero \in Val
  /\ FileSize \in Nat
  /\ max_queue_size \in Nat \ {0}
  /\ max_data_size \in Nat
  /\ MaxStarts \in Nat \ {0}

VARIABLES request_mq, request_name, reply_mq, reply_name
queueVars == <<request_mq, request_name, reply_mq, reply_name>>

Epochs == 1 .. MaxStarts

RequestType == {"REQ_READ", "REQ_WRITE", "REQ_OPEN", "REQ_CLOSE", "REQ_GETSIZE",
                "REQ_FSYNC"}

\* The data array of a message, and that array filled with size bytes of f.
Data == [0 .. max_data_size - 1 -> Val]
NoData == [k \in 0 .. max_data_size - 1 |-> Zero]
Slice(f, offset, size) ==
  [k \in 0 .. max_data_size - 1 |-> IF k < size THEN f[offset + k] ELSE Zero]

(***************************************************************************)
(* A pointer to a VolumeState is named by the client whose OPEN made it:   *)
(* each client sends one OPEN, so the name stands for a fresh address.     *)
(* The field from is that client; no handler tells requests apart by it.   *)
(***************************************************************************)
Request ==
  [type : RequestType, from : Clients, name : Volumes, acb : Acbs \cup {Null},
   volume : Clients \cup {Null}, offset : Nat, size : 0 .. max_data_size, data : Data]

Header(type, c, volume) ==
  [type |-> type, from |-> c, name |-> VolumeOf[c], acb |-> Null,
   volume |-> volume, offset |-> 0, size |-> 0, data |-> NoData]

OpenRequest(c) == Header("REQ_OPEN", c, Null)
CloseRequest(c, volume) == Header("REQ_CLOSE", c, volume)
GetSizeRequest(c, volume) == Header("REQ_GETSIZE", c, volume)
FsyncRequest(c, volume) == Header("REQ_FSYNC", c, volume)
ReadRequest(c, volume, offset, size) ==
  [Header("REQ_READ", c, volume) EXCEPT !.offset = offset, !.size = size]
WriteRequest(c, volume, offset, size, data) ==
  [Header("REQ_WRITE", c, volume) EXCEPT !.offset = offset, !.size = size, !.data = data]

\* A request on behalf of the CVBDAIOCB a; its address comes back in the reply.
For(a, m) == [m EXCEPT !.acb = a]

\* "STOP" stands for a header with its stop flag set, which only the destructor
\* of the asynchronous client sends, to itself.
Reply ==
  [type : {"REQ_OPEN", "REQ_READ", "REQ_FSYNC", "STOP"}, acb : Acbs \cup {Null},
   volume : Clients \cup {Null}, err : {0, -1}, size : 0 .. max_data_size, data : Data]
  \cup
  [type : {"REQ_GETSIZE"}, acb : Acbs \cup {Null},
   volume : Clients \cup {Null}, err : {0}, size : {0, FileSize}, data : Data]

OpenReply(volume, err) ==
  [type |-> "REQ_OPEN", acb |-> Null, volume |-> volume, err |-> err, size |-> 0, data |-> NoData]
GetSizeReply(m, size) ==
  [type |-> m.type, acb |-> m.acb, volume |-> m.volume, err |-> 0, size |-> size, data |-> NoData]
ReadReply(m, size, data) ==
  [type |-> m.type, acb |-> m.acb, volume |-> m.volume, err |-> 0, size |-> size, data |-> data]
FsyncReply(m, err) ==
  [type |-> m.type, acb |-> m.acb, volume |-> m.volume, err |-> err, size |-> 0, data |-> NoData]
StopMessage ==
  [type |-> "STOP", acb |-> Null, volume |-> Null, err |-> 0, size |-> 0, data |-> NoData]

\* message_queue::send blocks until there is room, receive until there is a message.
HasRoom(q) == Len(q) < max_queue_size

\* Mutant: reads are sent with a higher priority than everything else.
send_request_ReadsFirst(e, m) ==
  /\ HasRoom(request_mq[e])
  /\ request_mq' = [request_mq EXCEPT ![e] =
                      IF m.type = "REQ_READ" THEN <<m>> \o @ ELSE Append(@, m)]

send_request(e, m) ==
  /\ HasRoom(request_mq[e])
  /\ request_mq' = [request_mq EXCEPT ![e] = Append(@, m)]

send_reply(c, m) ==
  /\ HasRoom(reply_mq[c])
  /\ reply_mq' = [reply_mq EXCEPT ![c] = Append(@, m)]

QueuesInit ==
  /\ request_mq = [e \in Epochs |-> << >>]
  /\ request_name = Null
  /\ reply_mq = [c \in Clients |-> << >>]
  /\ reply_name = [v \in Volumes |-> Null]

QueuesTypeOK ==
  /\ request_mq \in [Epochs -> Seq(Request)]
  /\ request_name \in Epochs \cup {Null}
  /\ reply_mq \in [Clients -> Seq(Reply)]
  /\ reply_name \in [Volumes -> Clients \cup {Null}]
================================================================================
