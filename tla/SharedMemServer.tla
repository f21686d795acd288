---------------------------- MODULE SharedMemServer ----------------------------
(***************************************************************************)
(* The storage server: SharedMemServer (its constructor and the loop of    *)
(* its handler thread) and the IOHandler of server.c.  There is one        *)
(* request queue and one handler thread (max_queue_num = 1).  One action   *)
(* is one turn of the loop of handle_requests: receive a message, run its  *)
(* handler, send the reply.  Nothing but this thread touches the files or  *)
(* the VolumeStates, so the turn can be taken as one step.                 *)
(*                                                                         *)
(* The process ends when it is killed, when an assert fails, or when the   *)
(* VolumeState constructor throws (no handler catches it).  Of a turn that *)
(* is cut off only a pwrite can leave a trace.  A later start              *)
(* removes the request queue's name and creates a new queue under it.      *)
(***************************************************************************)
EXTENDS SharedMemShared

CONSTANTS
  Faults,        \* which system calls may fail, see below
  ServerMayDie   \* whether the server process may be killed

(***************************************************************************)
(* "open":      ::open fails with an errno other than ENOENT               *)
(* "create":    ::open with O_CREAT fails                                  *)
(* "ftruncate": ftruncate fails        "fstat": fstat fails                *)
(* "io":        pread or pwrite fails or transfers less than asked         *)
(* "fsync":     fsync fails                                                *)
(***************************************************************************)
ASSUME ServerAssumption ==
  /\ Faults \subseteq {"open", "create", "ftruncate", "fstat", "io", "fsync"}
  /\ ServerMayDie \in BOOLEAN

VARIABLES
  server,   \* "down", "starting" (name removed), "up", "aborted"
  epoch,    \* how often the server has created its request queue
  vols,     \* the VolumeStates allocated in the server, Null when freed
  disk      \* contents of the file of each volume
serverVars == <<server, epoch, vols, disk>>

ServerTypeOK ==
  /\ server \in {"down", "starting", "up", "aborted"}
  /\ epoch \in 0 .. MaxStarts
  /\ server = "starting" => epoch < MaxStarts
  /\ server = "up" => epoch > 0
  /\ vols \in [Clients -> VolumeState \cup {Null}]
  /\ disk \in [Volumes -> [0 .. FileSize - 1 -> Val]]

ServerInit ==
  /\ server = "down"
  /\ epoch = 0
  /\ vols = [c \in Clients |-> Null]
  /\ disk = [v \in Volumes |-> [p \in 0 .. FileSize - 1 |-> Zero]]

\* size bytes of data put at offset of f: pwrite, or a memcpy.
Overwrite(f, offset, data, size) ==
  [p \in DOMAIN f |-> IF p \in offset .. (offset + size - 1) THEN data[p - offset] ELSE f[p]]

--------------------------------------------------------------------------------
\* The constructor: drop whatever queue a previous server left, then create one.
StartRemove ==
  /\ server \in {"down", "aborted"} /\ epoch < MaxStarts
  /\ server' = "starting"
  /\ request_name' = Null
  /\ UNCHANGED <<request_mq, reply_mq, reply_name, epoch, vols, disk>>

\* Mutant: the queue a previous server left is opened instead of a new one.
StartCreate_Reuses ==
  /\ server = "starting"
  /\ server' = "up"
  /\ epoch' = epoch + 1
  /\ request_name' = epoch + 1
  /\ request_mq' = [request_mq EXCEPT ![epoch + 1] = IF epoch = 0 THEN << >> ELSE request_mq[epoch]]
  /\ UNCHANGED <<reply_mq, reply_name, vols, disk>>

StartCreate ==
  /\ server = "starting"
  /\ server' = "up"
  /\ epoch' = epoch + 1
  /\ request_name' = epoch + 1
  /\ request_mq' = [request_mq EXCEPT ![epoch + 1] = << >>]
  /\ UNCHANGED <<reply_mq, reply_name, vols, disk>>

\* The process is gone, and its heap with it; the queues are not.
Exit(how) ==
  /\ server' = how
  /\ vols' = [c \in Clients |-> Null]
  /\ UNCHANGED <<epoch, request_name, reply_name>>

\* The message handle_requests is about to receive.
Pending == request_mq[epoch]
Msg == Head(Pending)

\* Whether header.volume, cast to a VolumeState *, points to one.
Allocated(volume) == volume # Null /\ vols[volume] # Null

\* The files once pwrite has put the first n bytes of the message in place, and
\* what a pwrite that is cut short may leave.
Written(n) ==
  [disk EXCEPT ![vols[Msg.volume].file] = Overwrite(@, Msg.offset, Msg.data, n)]
WrittenInPart == {Written(n) : n \in {0} \cup 0 .. (Msg.size - 1)}

Writing == Pending # << >> /\ Msg.type = "REQ_WRITE" /\ Allocated(Msg.volume)

\* The process is killed, perhaps in the middle of a pwrite.
Kill ==
  /\ ServerMayDie
  /\ server \in {"starting", "up"}
  /\ Exit("down")
  /\ \/ UNCHANGED disk
     \/ server = "up" /\ Writing /\ disk' \in WrittenInPart
  /\ UNCHANGED <<request_mq, reply_mq>>

--------------------------------------------------------------------------------

Receive(type) ==
  /\ server = "up"
  /\ Pending # << >>
  /\ Msg.type = type
  /\ request_mq' = [request_mq EXCEPT ![epoch] = Tail(@)]

\* IOHandler::open when the file can be opened or created and sized.
OpenOk ==
  /\ Receive("REQ_OPEN")
  /\ reply_name[Msg.name] # Null
  /\ vols' = [vols EXCEPT ![Msg.from] =
                [file |-> Msg.name, reply_mq |-> reply_name[Msg.name]]]
  /\ send_reply(reply_name[Msg.name], OpenReply(Msg.from, 0))
  /\ UNCHANGED <<server, epoch, disk, request_name, reply_name>>

\* Mutant: the VolumeState is not freed after the error.
OpenTruncateFails_Leaks ==
  /\ "ftruncate" \in Faults
  /\ Receive("REQ_OPEN")
  /\ reply_name[Msg.name] # Null
  /\ vols' = [vols EXCEPT ![Msg.from] =
                [file |-> Msg.name, reply_mq |-> reply_name[Msg.name]]]
  /\ send_reply(reply_name[Msg.name], OpenReply(Msg.from, -1))
  /\ UNCHANGED <<server, epoch, disk, request_name, reply_name>>

\* ftruncate fails: the error is sent, then the VolumeState is closed again.
OpenTruncateFails ==
  /\ "ftruncate" \in Faults
  /\ Receive("REQ_OPEN")
  /\ reply_name[Msg.name] # Null
  /\ send_reply(reply_name[Msg.name], OpenReply(Msg.from, -1))
  /\ UNCHANGED <<serverVars, request_name, reply_name>>

\* The file cannot be created: there is no VolumeState yet, so no queue to
\* send the error to, and the request is dropped.
OpenCreateFails ==
  /\ "create" \in Faults
  /\ Receive("REQ_OPEN")
  /\ UNCHANGED <<serverVars, reply_mq, request_name, reply_name>>

\* assert(errno == ENOENT) fails, or the VolumeState constructor finds no
\* reply queue under the name and throws.
OpenAborts ==
  /\ Receive("REQ_OPEN")
  /\ "open" \in Faults \/ reply_name[Msg.name] = Null
  /\ Exit("aborted")
  /\ UNCHANGED <<disk, reply_mq>>

open == OpenOk \/ OpenTruncateFails \/ OpenCreateFails \/ OpenAborts

\* Mutant: the VolumeState is not freed.
close_Keeps ==
  /\ Receive("REQ_CLOSE")
  /\ UNCHANGED <<serverVars, reply_mq, request_name, reply_name>>

close ==
  /\ Receive("REQ_CLOSE")
  /\ Msg.volume # Null => Allocated(Msg.volume)
  /\ vols' = [c \in Clients |-> IF c = Msg.volume THEN Null ELSE vols[c]]
  /\ UNCHANGED <<server, epoch, disk, reply_mq, request_name, reply_name>>

\* Mutant: no reply is sent when fstat fails.
getsize_SilentOnError ==
  /\ Receive("REQ_GETSIZE")
  /\ Allocated(Msg.volume)
  /\ \/ send_reply(vols[Msg.volume].reply_mq, GetSizeReply(Msg, FileSize))
     \/ "fstat" \in Faults /\ UNCHANGED reply_mq
  /\ UNCHANGED <<serverVars, request_name, reply_name>>

getsize ==
  /\ Receive("REQ_GETSIZE")
  /\ Allocated(Msg.volume)
  /\ \E size \in {FileSize} \cup (IF "fstat" \in Faults THEN {0} ELSE {}) :
       send_reply(vols[Msg.volume].reply_mq, GetSizeReply(Msg, size))
  /\ UNCHANGED <<serverVars, request_name, reply_name>>

\* Mutant: the answer does not carry the request's header.
fsync_OtherHeader ==
  /\ Receive("REQ_FSYNC")
  /\ Allocated(Msg.volume)
  /\ send_reply(vols[Msg.volume].reply_mq, FsyncReply([Msg EXCEPT !.acb = Null], 0))
  /\ UNCHANGED <<serverVars, request_name, reply_name>>

\* Mutant: no reply is sent when fsync fails.
fsync_SilentOnError ==
  /\ Receive("REQ_FSYNC")
  /\ Allocated(Msg.volume)
  /\ \/ send_reply(vols[Msg.volume].reply_mq, FsyncReply(Msg, 0))
     \/ "fsync" \in Faults /\ UNCHANGED reply_mq
  /\ UNCHANGED <<serverVars, request_name, reply_name>>

fsync ==
  /\ Receive("REQ_FSYNC")
  /\ Allocated(Msg.volume)
  /\ \E err \in {0} \cup (IF "fsync" \in Faults THEN {-1} ELSE {}) :
       send_reply(vols[Msg.volume].reply_mq, FsyncReply(Msg, err))
  /\ UNCHANGED <<serverVars, request_name, reply_name>>

InFile(m) == m.offset + m.size <= FileSize

\* Mutant: the last byte of a write is left out.
write_Short ==
  /\ Receive("REQ_WRITE")
  /\ Allocated(Msg.volume)
  /\ disk' = [disk EXCEPT ![vols[Msg.volume].file] =
                Overwrite(@, Msg.offset, Msg.data, Msg.size - 1)]
  /\ UNCHANGED <<server, epoch, vols, reply_mq, request_name, reply_name>>

\* Mutant: a write is answered, as the other requests are.
write_Answers ==
  /\ Receive("REQ_WRITE")
  /\ Allocated(Msg.volume)
  /\ disk' = [disk EXCEPT ![vols[Msg.volume].file] =
                Overwrite(@, Msg.offset, Msg.data, Msg.size)]
  /\ send_reply(vols[Msg.volume].reply_mq, ReadReply(Msg, Msg.size, NoData))
  /\ UNCHANGED <<server, epoch, vols, request_name, reply_name>>

\* Without a VolumeState the write is logged and dropped.
write ==
  /\ Receive("REQ_WRITE")
  /\ Msg.volume # Null => Allocated(Msg.volume)
  /\ disk' = IF Msg.volume = Null THEN disk ELSE Written(Msg.size)
  /\ UNCHANGED <<server, epoch, vols, reply_mq, request_name, reply_name>>

\* Mutant: the offset of the request is ignored.
read_FromStart ==
  /\ Receive("REQ_READ")
  /\ Allocated(Msg.volume)
  /\ LET vol == vols[Msg.volume]
     IN  send_reply(vol.reply_mq, ReadReply(Msg, Msg.size, Slice(disk[vol.file], 0, Msg.size)))
  /\ UNCHANGED <<serverVars, request_name, reply_name>>

read ==
  /\ Receive("REQ_READ")
  /\ Allocated(Msg.volume)
  /\ InFile(Msg)
  /\ LET vol == vols[Msg.volume]
     IN  send_reply(vol.reply_mq,
                    ReadReply(Msg, Msg.size, Slice(disk[vol.file], Msg.offset, Msg.size)))
  /\ UNCHANGED <<serverVars, request_name, reply_name>>

(***************************************************************************)
(* The handler uses a pointer to nothing.  A dangling one is undefined     *)
(* behaviour, of which a crash is one outcome; HandlesResolve shows that   *)
(* there is none in the synchronous stack.  Null stands for the word an    *)
(* OPEN that failed unnoticed leaves in a client: zero, which CLOSE and    *)
(* WRITE test for, or the address of nothing.                              *)
(***************************************************************************)
BadPointer(m) == m.type # "REQ_OPEN" /\ ~Allocated(m.volume)

\* assert(dataSize == req->size_in_bytes) fails: pread stops at the end of the
\* file, or either call fails or is cut short.
ReadFails(m) ==
  m.type = "REQ_READ" /\ Allocated(m.volume) /\ ("io" \in Faults \/ ~InFile(m))

IoAborts ==
  /\ \E type \in RequestType \ {"REQ_OPEN"} : Receive(type)
  /\ \/ (BadPointer(Msg) \/ ReadFails(Msg)) /\ UNCHANGED disk
     \/ "io" \in Faults /\ Writing /\ disk' \in WrittenInPart
  /\ Exit("aborted")
  /\ UNCHANGED reply_mq

handle_requests == open \/ close \/ getsize \/ fsync \/ write \/ read \/ IoAborts

ServerNext == StartRemove \/ StartCreate \/ Kill \/ handle_requests

--------------------------------------------------------------------------------
(***************************************************************************)
(* Every request the running server has still to handle carries a pointer  *)
(* to a VolumeState of this very process that is still allocated and is    *)
(* the sender's own, and nothing follows a CLOSE that frees it: the casts  *)
(* of header.volume in IOHandler never meet a dangling pointer, not even   *)
(* after a crash and restart of either side.                               *)
(***************************************************************************)
HandlesLive ==
  server = "up" =>
    \A i \in 1 .. Len(Pending) : Pending[i].type # "REQ_OPEN" =>
      LET c == Pending[i].from
      IN  /\ Pending[i].volume = c
          /\ vols[c] = [file |-> VolumeOf[c], reply_mq |-> c]
          /\ Pending[i].type = "REQ_CLOSE" =>
               \A j \in (i + 1) .. Len(Pending) : Pending[j].volume # c

(***************************************************************************)
(* No client can bring the server down: IOHandler::open always finds the   *)
(* reply queue it was told of, every pointer is good, and no request       *)
(* reaches past the end of the file.  Provided that ::open, pread and      *)
(* pwrite do not fail, that a volume has one user at a time, that no QEMU  *)
(* is killed while its OPEN is unanswered and that no queue call throws.   *)
(***************************************************************************)
ServerNeverAborts == server # "aborted"

(***************************************************************************)
(* Even with several users of one volume, and whatever dies, fails or      *)
(* throws at whatever moment, each request still to be handled carries a   *)
(* pointer to an allocated VolumeState of the volume its sender opened.    *)
(* The one exception is a sender whose create_volume met an exception and  *)
(* returned -errno = 0: it sends whatever volume_ was left with, but only  *)
(* to ask for the size or to close, never to read or write.                *)
(***************************************************************************)
HandlesResolve ==
  server = "up" =>
    \A i \in 1 .. Len(Pending) : Pending[i].type # "REQ_OPEN" =>
      IF Pending[i].volume = Null
      THEN Pending[i].type \in {"REQ_GETSIZE", "REQ_CLOSE"}
      ELSE /\ Allocated(Pending[i].volume)
           /\ vols[Pending[i].volume].file = VolumeOf[Pending[i].from]
================================================================================
