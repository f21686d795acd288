---------------------------- MODULE CvbdSyncDevice ----------------------------
(***************************************************************************)
(* The synchronous stack implements BlockDevice: a piece of a request is a *)
(* chunk, and takes effect when its message is queued.                     *)
(***************************************************************************)
EXTENDS CvbdSync

WriteOp(w) == [write |-> TRUE, start |-> OffsetOf(w), buf |-> w.buffer]
ReadOp(r) == [write |-> FALSE, start |-> OffsetOf(r), buf |-> InitialBuffer(SizeOf(r))]

\* The bytes of a request whose message has not been queued yet.
Unsent(c) ==
  LET a == io[c].a
      sent == RelativeOff(a) + (IF pc[c] = "wait_read" THEN RetSize(a) ELSE 0)
  IN  sent .. a.len - 1

DeviceOp(c) ==
  IF io[c] = Null THEN Null
  ELSE [write |-> io[c].write, start |-> io[c].a.start, buf |-> io[c].buf, todo |-> Unsent(c),
        got |-> IF io[c].write THEN InitialBuffer(io[c].a.len) ELSE want[c]]

IsWrite(m) == m.type = "REQ_WRITE"
QueuedWrites ==
  LET ws == SelectSeq(Pending, IsWrite)
  IN  [i \in 1 .. Len(ws) |->
         [volume |-> ws[i].name,
          bytes |-> [p \in ws[i].offset .. ws[i].offset + ws[i].size - 1 |->
                       ws[i].data[p - ws[i].offset]]]]

Device == INSTANCE BlockDevice WITH
  Users     <- Clients,
  VolumeFor <- VolumeOf,
  Ops       <- [c \in Clients |-> {WriteOp(w) : w \in GuestWrites[c]} \cup
                                  {ReadOp(r) : r \in GuestReads[c]}],
  contents  <- view,
  file      <- disk,
  behind    <- IF server = "up" THEN QueuedWrites ELSE << >>,
  online    <- {c \in Clients : Served(c)},
  gone      <- {c \in Clients : pc[c] \in {"aborted", "killed"}},
  op        <- [c \in Clients |-> DeviceOp(c)]

(***************************************************************************)
(* Everything cvbd_read and cvbd_write do through client, queues and       *)
(* server is something the abstract device may do.                         *)
(***************************************************************************)
ImplementsBlockDevice == Device!Spec
===============================================================================
