---------------------------- MODULE CvbdAsyncDevice ----------------------------
(***************************************************************************)
(* The asynchronous stack implements BlockDevice: the request slots are    *)
(* the CVBDAIOCBs of reads and writes, and a request takes effect as a     *)
(* whole when its message is queued.                                       *)
(***************************************************************************)
EXTENDS CvbdAsync

WriteOp(w) == [write |-> TRUE, start |-> OffsetOf(w), buf |-> w.buffer]
ReadOp(r) == [write |-> FALSE, start |-> OffsetOf(r), buf |-> InitialBuffer(SizeOf(r))]

\* The message of the request has not been queued yet.
Unsent(c, a) == pc[c] = "sending" /\ Running(c, a)

DeviceOp(c, a) ==
  LET acb == acbs[c][a]
  IN  IF acb = Null \/ pc[c] \in Dead THEN Null
      ELSE IF acb.type = "REQ_FSYNC" THEN Null
      ELSE [write |-> acb.type = "REQ_WRITE", start |-> acb.offset, buf |-> acb.buf,
            todo |-> IF Unsent(c, a) THEN 0 .. acb.size - 1 ELSE {},
            got  |-> IF Unsent(c, a) \/ acb.type = "REQ_WRITE" THEN InitialBuffer(acb.size)
                     ELSE due[c][a].bytes]

IsWrite(m) == m.type = "REQ_WRITE"
QueuedWrites ==
  LET ws == SelectSeq(Pending, IsWrite)
  IN  [i \in 1 .. Len(ws) |->
         [volume |-> ws[i].name,
          bytes |-> [p \in ws[i].offset .. ws[i].offset + ws[i].size - 1 |->
                       ws[i].data[p - ws[i].offset]]]]

Slots == Clients \X Acbs

Device == INSTANCE BlockDevice WITH
  Users     <- Slots,
  VolumeFor <- [u \in Slots |-> VolumeOf[u[1]]],
  Ops       <- [u \in Slots |-> {WriteOp(w) : w \in GuestWrites[u[1]]} \cup
                                {ReadOp(r) : r \in GuestReads[u[1]]}],
  contents  <- view,
  file      <- disk,
  behind    <- IF server = "up" THEN QueuedWrites ELSE << >>,
  online    <- {u \in Slots : Served(u[1])},
  gone      <- {u \in Slots : pc[u[1]] \in Dead},
  op        <- [u \in Slots |-> DeviceOp(u[1], u[2])]

(***************************************************************************)
(* Everything cvbd_co_readv and cvbd_co_writev do through coroutines, reply*)
(* thread, queues and server is something the abstract device may do.      *)
(***************************************************************************)
ImplementsBlockDevice == Device!Spec
================================================================================
