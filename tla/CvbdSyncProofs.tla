---------------------------- MODULE CvbdSyncProofs ----------------------------
(***************************************************************************)
(* Safety of the protocol between the blocking clients and the server, for *)
(* every value of the constants: provided a volume has one user at a time  *)
(* and no QEMU is killed while it waits for the answer to its OPEN, and no *)
(* queue call throws, every reply reaches the call that waits for it and   *)
(* every pointer a request carries is valid when the server uses it.       *)
(***************************************************************************)
EXTENDS CvbdSync, SharedMemServerProofs, NonAlignedCopyLemmas

(***************************************************************************)
(* Type correctness.  It carries the arithmetic of the data path: a chunk  *)
(* always lies inside the guest's buffer, inside one message and inside    *)
(* the file.                                                               *)
(***************************************************************************)
LEMMA TypeInit == Init => TypeOK
<1> SUFFICES ASSUME Init PROVE TypeOK
  OBVIOUS
<1>1. QueuesTypeOK
  BY DEF Init, QueuesInit, QueuesTypeOK
<1>2. ServerTypeOK
  BY SharedMemAssumption DEF Init, ServerInit, ServerTypeOK
<1>3. ClientTypeOK
  BY DEF Init, ClientInit, ClientTypeOK, PC, Gone
<1>4. /\ length \in [Clients -> {0, FileSize}]
      /\ calls \in [Clients -> 0 .. MaxCalls]
      /\ DOMAIN io = Clients /\ DOMAIN want = Clients
      /\ \A c \in Clients : IoTypeOK(c)
  BY CvbdAssumption DEF Init, ClientInit, IoTypeOK
<1>5. view \in [Volumes -> [0 .. FileSize - 1 -> Val]]
  BY <1>2 DEF Init, ServerTypeOK
<1> QED
  BY <1>1, <1>2, <1>3, <1>4, <1>5 DEF TypeOK

-------------------------------------------------------------------------------
LEMMA TypeServer == ASSUME TypeOK, ServerStep PROVE TypeOK'
<1>1. QueuesTypeOK' /\ ServerTypeOK'
  BY TypeServerNext DEF ServerStep, TypeOK
<1>2. UNCHANGED <<clientVars, driverVars, want>>
  BY DEF ServerStep, NoteServer
<1>3. view' \in [Volumes -> [0 .. FileSize - 1 -> Val]]
  BY <1>1 DEF ServerStep, NoteServer, TypeOK, ServerTypeOK
<1>4. ClientTypeOK' /\ \A c \in Clients : IoTypeOK(c)'
  BY <1>2 DEF TypeOK, ClientTypeOK, clientVars, driverVars, IoTypeOK
<1> QED
  BY <1>1, <1>2, <1>3, <1>4 DEF TypeOK, driverVars

-------------------------------------------------------------------------------
\* A step of client c leaves the driver state of the others alone.
OthersUnchanged(c) ==
  \A d \in Clients \ {c} : pc'[d] = pc[d] /\ io'[d] = io[d] /\ want'[d] = want[d]

\* It is enough to look at the parts of TypeOK that a client step can disturb.
LEMMA TypeFromParts ==
  ASSUME TypeOK, NEW c \in Clients, UNCHANGED serverVars,
         QueuesTypeOK', ClientTypeOK',
         length' \in [Clients -> {0, FileSize}],
         calls' \in [Clients -> 0 .. MaxCalls],
         view' \in [Volumes -> [0 .. FileSize - 1 -> Val]],
         DOMAIN io' = Clients, DOMAIN want' = Clients,
         OthersUnchanged(c), IoTypeOK(c)'
  PROVE  TypeOK'
<1>1. ServerTypeOK'
  BY DEF TypeOK, ServerTypeOK, serverVars
<1>2. ASSUME NEW d \in Clients PROVE IoTypeOK(d)'
  <2>1. CASE d = c
    BY <2>1
  <2>2. CASE d # c
    BY <2>2 DEF OthersUnchanged, TypeOK, IoTypeOK
  <2> QED BY <2>1, <2>2
<1> QED
  BY <1>1, <1>2 DEF TypeOK

LEMMA SendTypes ==
  ASSUME TypeOK, NEW c \in Clients, NEW m \in Request,
         pc[c] \notin {"ctor_open"} \cup Gone, NEW p \in PC, Send(c, m, p)
  PROVE  QueuesTypeOK' /\ ClientTypeOK'
<1>1. request_mq_[c] \in Epochs
  BY DEF TypeOK, ClientTypeOK
<1>2. Append(request_mq[request_mq_[c]], m) \in Seq(Request)
  BY <1>1 DEF TypeOK, QueuesTypeOK
<1>3. QueuesTypeOK'
  BY <1>1, <1>2 DEF Send, send_request, TypeOK, QueuesTypeOK
<1>4. ClientTypeOK'
  BY DEF Send, Goto, TypeOK, ClientTypeOK
<1> QED BY <1>3, <1>4

\* The answer at hand is well formed, and taking it keeps the queues so.
LEMMA ReceivesTypes ==
  ASSUME TypeOK, NEW c \in Clients, NEW p, Receives(c, p)
  PROVE  Answer(c) \in Reply /\ QueuesTypeOK'
<1>1. reply_mq[c] \in Seq(Reply) /\ reply_mq[c] # << >>
  BY DEF Receives, TypeOK, QueuesTypeOK
<1>2. Answer(c) \in Reply /\ Tail(reply_mq[c]) \in Seq(Reply)
  BY <1>1 DEF Answer
<1> QED
  BY <1>2 DEF Receives, TypeOK, QueuesTypeOK

\* A running cvbd_read or cvbd_write has a chunk that fits everywhere.
LEMMA ChunkBounds ==
  ASSUME TypeOK, NEW c \in Clients, pc[c] \in {"io", "wait_read"},
         NonAlignedCopyIsValid(io[c].a)
  PROVE  LET a == io[c].a IN
         /\ a.cur \in Nat /\ a.len \in Nat /\ RelativeOff(a) \in Nat
         /\ RetSize(a) \in 1 .. max_data_size
         /\ RelativeOff(a) + RetSize(a) <= a.len
         /\ a.cur + RetSize(a) <= FileSize
<1> DEFINE a == io[c].a
<1>1. IsNonAlignedCopy(a) /\ a.blockSize = MSGQ_MAX_SIZE /\ a.start + a.len <= FileSize
  BY DEF TypeOK, IoTypeOK
<1>2. RetSize(a) \in 1 .. a.blockSize /\ a.cur + RetSize(a) <= a.start + a.len
  BY <1>1, RetSizeBounds
<1>3. a.start \in Nat /\ a.len \in Nat /\ a.cur \in a.start .. (a.start + a.len)
  BY <1>1 DEF IsNonAlignedCopy
<1>4. MSGQ_MAX_SIZE \in 1 .. max_data_size /\ max_data_size \in Nat /\ FileSize \in Nat
  BY CvbdAssumption, SharedMemAssumption
<1> HIDE DEF a
<1>5. /\ a.cur \in Nat /\ a.len \in Nat /\ RelativeOff(a) \in Nat
      /\ RetSize(a) \in 1 .. max_data_size
      /\ RelativeOff(a) + RetSize(a) <= a.len
      /\ a.cur + RetSize(a) <= FileSize
  BY <1>1, <1>2, <1>3, <1>4 DEF RelativeOff
<1> QED BY <1>5 DEF a

LEMMA TypeConstructor ==
  ASSUME TypeOK, NEW c \in Clients, UNCHANGED <<serverVars, driverVars, view, want>>,
         CtorRemove(c) \/ CtorOpen(c) \/ CtorCreate(c) \/ Destroy(c)
  PROVE  TypeOK'
<1>1. QueuesTypeOK'
  BY SharedMemAssumption
  DEF CtorRemove, CtorOpen, CtorCreate, Destroy, queueVars, TypeOK, QueuesTypeOK
<1>2. ClientTypeOK'
  <2>1. CASE CtorOpen(c)
    BY <2>1 DEF CtorOpen, Goto, PC, Gone, TypeOK, QueuesTypeOK, ClientTypeOK
  <2>2. CASE CtorCreate(c)
    BY <2>2 DEF CtorCreate, Goto, PC, Gone, TypeOK, ClientTypeOK
  <2>3. CASE CtorRemove(c) \/ Destroy(c)
    BY <2>3 DEF CtorRemove, Destroy, Goto, PC, Gone, TypeOK, ClientTypeOK
  <2> QED BY <2>1, <2>2, <2>3
<1>3. OthersUnchanged(c) /\ IoTypeOK(c)'
  BY DEF CtorRemove, CtorOpen, CtorCreate, Destroy, Goto, TypeOK, ClientTypeOK,
     IoTypeOK, OthersUnchanged, driverVars
<1> QED
  BY <1>1, <1>2, <1>3, TypeFromParts DEF TypeOK, driverVars

LEMMA TypeSimpleSends ==
  ASSUME TypeOK, NEW c \in Clients, UNCHANGED <<serverVars, length, io, view, want>>,
         \/ send_open(c) /\ UNCHANGED calls
         \/ cvbd_getlength(c)
         \/ cvbd_close(c)
  PROVE  TypeOK'
<1>1. volume_[c] \in Clients \cup {Null}
  BY DEF TypeOK, ClientTypeOK
<1>2. /\ OpenRequest(c) \in Request /\ CloseRequest(c, volume_[c]) \in Request
      /\ GetSizeRequest(c, volume_[c]) \in Request
  <2>1. 0 \in Nat /\ 0 \in 0 .. max_data_size
    BY SharedMemAssumption
  <2> QED BY <1>1, <2>1, NoDataType, RequestTypes
<1>3. PICK m \in Request, p \in {"wait_open", "wait_getsize", "destroy"} :
        Send(c, m, p) /\ pc[c] \in {"open", "idle"}
  BY <1>2 DEF send_open, cvbd_getlength, send_getsize, cvbd_close, send_close
<1>4. QueuesTypeOK' /\ ClientTypeOK'
  BY <1>3, SendTypes DEF PC, Gone, Waiting
<1>5. calls' \in [Clients -> 0 .. MaxCalls]
  BY CvbdAssumption DEF cvbd_getlength, cvbd_close, Call, driverVars, TypeOK
<1>6. OthersUnchanged(c) /\ IoTypeOK(c)'
  BY <1>3 DEF Send, Goto, TypeOK, ClientTypeOK, IoTypeOK, OthersUnchanged
<1> QED
  BY <1>4, <1>5, <1>6, TypeFromParts DEF TypeOK

LEMMA TypeSimpleReturns ==
  ASSUME TypeOK, NEW c \in Clients, UNCHANGED <<serverVars, view, want>>,
         (OpenReturns(c) /\ UNCHANGED driverVars) \/ GetLengthReturns(c)
  PROVE  TypeOK'
<1>1. pc[c] \in {"wait_open", "wait_getsize"} /\ Receives(c, pc[c])
  BY DEF OpenReturns, GetLengthReturns, GetSizeReturns, Receives
<1>2. QueuesTypeOK' /\ Answer(c) \in Reply
  BY <1>1, ReceivesTypes
<1>3. PICK p \in {"idle", "failed"} : Goto(c, p) /\ UNCHANGED <<io, calls>>
  BY DEF OpenReturns, GetLengthReturns, GetSizeReturns, driverVars
<1>4. volume_' \in [Clients -> Clients \cup {Null}]
  <2>1. Answer(c).volume \in Clients \cup {Null}
    BY <1>2 DEF Reply
  <2> QED
    BY <2>1 DEF OpenReturns, GetLengthReturns, GetSizeReturns, TypeOK, ClientTypeOK
<1>5. ClientTypeOK'
  BY <1>1, <1>3, <1>4 DEF Receives, Goto, PC, Gone, TypeOK, ClientTypeOK
<1>6. length' \in [Clients -> {0, FileSize}]
  <2>1. CASE GetLengthReturns(c)
    <3>1. Answer(c).type = "REQ_GETSIZE"
      BY <2>1 DEF GetLengthReturns, GetSizeReturns, Receives, AnswerFits, Awaited
    <3>2. Answer(c).size \in {0, FileSize}
      BY <3>1, <1>2 DEF Reply
    <3> QED BY <2>1, <3>2 DEF GetLengthReturns, TypeOK
  <2>2. CASE UNCHANGED driverVars
    BY <2>2 DEF driverVars, TypeOK
  <2> QED BY <2>1, <2>2
<1>7. OthersUnchanged(c) /\ IoTypeOK(c)'
  BY <1>1, <1>3 DEF Goto, TypeOK, ClientTypeOK, IoTypeOK, OthersUnchanged
<1> QED
  BY <1>2, <1>3, <1>5, <1>6, <1>7, TypeFromParts DEF TypeOK

\* An admitted request starts with locals of the right shape.
LEMMA TypeStartIo ==
  ASSUME TypeOK, NEW c \in Clients, UNCHANGED <<serverVars, view>>,
         \/ \E w \in GuestWrites[c] : cvbd_write(c, w) /\ UNCHANGED want
         \/ \E r \in GuestReads[c] : cvbd_read(c, r) /\ NoteReadStart(c, r)
  PROVE  TypeOK'
<1>1. PICK r, isWrite, buffer :
        /\ r \in GuestReads[c] \cup GuestWrites[c] /\ isWrite \in BOOLEAN
        /\ buffer \in [0 .. SizeOf(r) - 1 -> Val \cup {Null}]
        /\ StartIo(c, r, isWrite, buffer)
        /\ isWrite => buffer \in [0 .. SizeOf(r) - 1 -> Val] /\ UNCHANGED want
        /\ ~isWrite => NoteReadStart(c, r)
  <2>1. CASE \E w \in GuestWrites[c] : cvbd_write(c, w) /\ UNCHANGED want
    <3>1. PICK w \in GuestWrites[c] : cvbd_write(c, w) /\ UNCHANGED want
      BY <2>1
    <3>2. w.buffer \in [0 .. SizeOf(w) - 1 -> Val]
      BY CvbdAssumption
    <3>3. w.buffer \in [0 .. SizeOf(w) - 1 -> Val \cup {Null}]
      BY <3>2
    <3> QED BY <3>1, <3>2, <3>3 DEF cvbd_write
  <2>2. CASE \E r \in GuestReads[c] : cvbd_read(c, r) /\ NoteReadStart(c, r)
    <3>1. PICK r \in GuestReads[c] : cvbd_read(c, r) /\ NoteReadStart(c, r)
      BY <2>2
    <3>2. InitialBuffer(SizeOf(r)) \in [0 .. SizeOf(r) - 1 -> Val \cup {Null}]
      BY DEF InitialBuffer
    <3> QED BY <3>1, <3>2 DEF cvbd_read
  <2> QED BY <2>1, <2>2
<1> DEFINE x == NonAlignedCopyInit(OffsetOf(r), SizeOf(r), MSGQ_MAX_SIZE)
<1>2. /\ OffsetOf(r) \in Nat /\ SizeOf(r) \in Nat
      /\ MSGQ_MAX_SIZE \in Nat \ {0}
  <2>1. r.sector_num \in Nat /\ r.nb_sectors \in Nat
    BY <1>1, CvbdAssumption
  <2>2. BDRV_SECTOR_SIZE \in Nat /\ MSGQ_MAX_SIZE \in Nat \ {0}
    BY CvbdAssumption, SharedMemAssumption
  <2>3. \A m, n \in Nat : m * n \in Nat
    OBVIOUS
  <2> QED BY <2>1, <2>2, <2>3 DEF OffsetOf, SizeOf
<1>3. OffsetOf(r) + SizeOf(r) <= FileSize
  <2>1. OffsetOf(r) + SizeOf(r) <= length[c] /\ length[c] \in {0, FileSize}
    BY <1>1 DEF StartIo, Admitted, TypeOK
  <2> QED BY <2>1, <1>2, SharedMemAssumption
<1>4. /\ IsNonAlignedCopy(x) /\ x.blockSize = MSGQ_MAX_SIZE
      /\ x.start + x.len <= FileSize /\ x.len = SizeOf(r)
  BY <1>2, <1>3 DEF NonAlignedCopyInit, IsNonAlignedCopy
<1>5. QueuesTypeOK'
  BY <1>1 DEF StartIo, queueVars, TypeOK, QueuesTypeOK
<1>6. ClientTypeOK' /\ pc'[c] = "io"
  BY <1>1 DEF StartIo, Call, Goto, PC, Gone, TypeOK, ClientTypeOK
<1>7. calls' \in [Clients -> 0 .. MaxCalls]
  BY <1>1, CvbdAssumption DEF StartIo, Call, TypeOK
<1>8. /\ DOMAIN io' = Clients /\ DOMAIN want' = Clients
      /\ OthersUnchanged(c)
      /\ io'[c] = [write |-> isWrite, buf |-> buffer, a |-> x]
  BY <1>1 DEF StartIo, Goto, NoteReadStart, TypeOK, ClientTypeOK, OthersUnchanged
<1>9. ~isWrite => want'[c] \in [0 .. x.len - 1 -> Val \cup {Null}]
  BY <1>1, <1>4 DEF NoteReadStart, InitialBuffer, TypeOK
<1>10. IoTypeOK(c)'
  <2> HIDE DEF x
  <2> QED BY <1>1, <1>4, <1>6, <1>8, <1>9 DEF IoTypeOK
<1>11. UNCHANGED <<length, view>>
  BY <1>1 DEF StartIo
<1> QED
  BY <1>5, <1>6, <1>7, <1>8, <1>10, <1>11, TypeFromParts DEF TypeOK

LEMMA TypeWriteChunk ==
  ASSUME TypeOK, NEW c \in Clients, UNCHANGED serverVars, WriteChunk(c), NoteWrite(c)
  PROVE  TypeOK'
<1> DEFINE a == io[c].a
           data == Slice(io[c].buf, RelativeOff(a), RetSize(a))
           m == WriteRequest(c, volume_[c], a.cur, RetSize(a), data)
           i == [io[c] EXCEPT !.a = NonAlignedCopyNext(a)]
<1>1. pc[c] = "io" /\ io[c].write /\ NonAlignedCopyIsValid(a)
  BY DEF WriteChunk
<1>2. /\ a.cur \in Nat /\ a.len \in Nat /\ RelativeOff(a) \in Nat
      /\ RetSize(a) \in 1 .. max_data_size
      /\ RelativeOff(a) + RetSize(a) <= a.len
      /\ a.cur + RetSize(a) <= FileSize
  BY <1>1, ChunkBounds
<1>3. /\ IsNonAlignedCopy(a) /\ a.blockSize = MSGQ_MAX_SIZE
      /\ a.start + a.len <= FileSize
      /\ io[c].buf \in [0 .. a.len - 1 -> Val]
      /\ io[c] = [write |-> io[c].write, buf |-> io[c].buf, a |-> a]
  BY <1>1 DEF TypeOK, IoTypeOK
<1>4. RetSize(a) \in Nat /\ RetSize(a) \in 0 .. max_data_size
  BY <1>2, SharedMemAssumption
<1>5. data \in Data
  BY <1>2, <1>3, <1>4, SliceType
<1>6. m \in Request
  <2>1. volume_[c] \in Clients \cup {Null}
    BY DEF TypeOK, ClientTypeOK
  <2> HIDE DEF data
  <2> QED BY <2>1, <1>2, <1>4, <1>5, RequestTypes
<1>7. Send(c, m, "io")
  BY DEF WriteChunk, send_write
<1>8. QueuesTypeOK' /\ ClientTypeOK'
  <2> HIDE DEF m
  <2> QED BY <1>1, <1>6, <1>7, SendTypes DEF PC, Gone
<1>9. view' \in [Volumes -> [0 .. FileSize - 1 -> Val]]
  <2> DEFINE v == VolumeOf[c]
  <2>1. v \in Volumes /\ FileSize \in Nat
    BY SharedMemAssumption
  <2>2. view[v] \in [0 .. FileSize - 1 -> Val]
    BY <2>1 DEF TypeOK
  <2>3. Overwrite(view[v], a.cur, data, RetSize(a)) \in [0 .. FileSize - 1 -> Val]
    <3>1. data \in [0 .. max_data_size - 1 -> Val]
      BY <1>5 DEF Data
    <3> HIDE DEF data
    <3> QED BY <2>1, <2>2, <1>2, <1>4, <3>1, OverwriteType
  <2> QED
    BY <2>1, <2>3 DEF NoteWrite, TypeOK
<1>10. /\ IsNonAlignedCopy(NonAlignedCopyNext(a))
       /\ NonAlignedCopyNext(a).start = a.start /\ NonAlignedCopyNext(a).len = a.len
       /\ NonAlignedCopyNext(a).blockSize = a.blockSize
  BY <1>1, <1>3, NextIsNonAlignedCopy
<1>11. /\ DOMAIN io' = Clients /\ DOMAIN want' = Clients
       /\ OthersUnchanged(c) /\ pc'[c] = "io"
       /\ io'[c] = i
  BY <1>7 DEF WriteChunk, NoteWrite, Send, Goto, TypeOK, ClientTypeOK, OthersUnchanged
<1>12. i = [write |-> TRUE, buf |-> io[c].buf, a |-> NonAlignedCopyNext(a)]
  <2>1. io[c].write = TRUE
    BY <1>1, <1>3 DEF TypeOK, IoTypeOK
  <2>2. io[c] = [write |-> TRUE, buf |-> io[c].buf, a |-> a]
    BY <1>3, <2>1
  <2> DEFINE b == io[c].buf
  <2>b. io[c] = [write |-> TRUE, buf |-> b, a |-> a]
    BY <2>2
  <2> HIDE DEF a, b
  <2>3. io[c] \in [write : {TRUE}, buf : {b}, a : {a}]
    BY <2>b
  <2>4. i \in [write : {TRUE}, buf : {b}, a : {NonAlignedCopyNext(a)}]
    BY <2>3
  <2> HIDE DEF i
  <2>5. i = [write |-> TRUE, buf |-> b, a |-> NonAlignedCopyNext(a)]
    BY <2>4
  <2> QED BY <2>5 DEF b
<1>13. IoTypeOK(c)'
  <2>1. io[c].buf \in [0 .. a.len - 1 -> Val \cup {Null}]
    BY <1>3
  <2> QED BY <2>1, <1>3, <1>10, <1>11, <1>12 DEF IoTypeOK
<1>14. UNCHANGED <<length, calls>>
  BY DEF WriteChunk
<1> QED
  BY <1>8, <1>9, <1>11, <1>13, <1>14, TypeFromParts DEF TypeOK

LEMMA TypeReadChunk ==
  ASSUME TypeOK, NEW c \in Clients, UNCHANGED serverVars, ReadChunk(c), NoteRead(c)
  PROVE  TypeOK'
<1> DEFINE a == io[c].a
           m == ReadRequest(c, volume_[c], a.cur, RetSize(a))
           data == Slice(view[VolumeOf[c]], a.cur, RetSize(a))
           W == [0 .. a.len - 1 -> Val \cup {Null}]
<1>1. pc[c] = "io" /\ ~io[c].write /\ NonAlignedCopyIsValid(a)
  BY DEF ReadChunk
<1>2. /\ a.cur \in Nat /\ a.len \in Nat /\ RelativeOff(a) \in Nat
      /\ RetSize(a) \in 1 .. max_data_size
      /\ RelativeOff(a) + RetSize(a) <= a.len
      /\ a.cur + RetSize(a) <= FileSize
  BY <1>1, ChunkBounds
<1>3. want[c] \in W
  BY <1>1 DEF TypeOK, IoTypeOK
<1>4. RetSize(a) \in Nat /\ RetSize(a) \in 0 .. max_data_size
  BY <1>2, SharedMemAssumption
<1>5. m \in Request
  <2>1. volume_[c] \in Clients \cup {Null}
    BY DEF TypeOK, ClientTypeOK
  <2> QED BY <2>1, <1>2, <1>4, NoDataType, RequestTypes
<1>6. Send(c, m, "wait_read")
  BY DEF ReadChunk, send_read
<1>7. QueuesTypeOK' /\ ClientTypeOK'
  <2> HIDE DEF m
  <2> QED BY <1>1, <1>5, <1>6, SendTypes DEF PC, Gone, Waiting
<1>8. Overwrite(want[c], RelativeOff(a), data, RetSize(a)) \in W
  <2>1. FileSize \in Nat /\ view[VolumeOf[c]] \in [0 .. FileSize - 1 -> Val]
    BY SharedMemAssumption DEF TypeOK
  <2>2. data \in [0 .. max_data_size - 1 -> Val]
    BY <2>1, <1>2, <1>4, SliceType DEF Data
  <2> HIDE DEF data
  <2> QED BY <2>2, <1>2, <1>3, <1>4, OverwriteType
<1>9. /\ DOMAIN io' = Clients /\ DOMAIN want' = Clients
      /\ OthersUnchanged(c) /\ pc'[c] = "wait_read"
      /\ io'[c] = io[c]
      /\ want'[c] \in W
  BY <1>6, <1>8 DEF ReadChunk, NoteRead, Send, Goto, TypeOK, ClientTypeOK,
     OthersUnchanged, driverVars
<1>10. IoTypeOK(c)'
  BY <1>1, <1>9 DEF TypeOK, IoTypeOK
<1>11. UNCHANGED <<length, calls, view>>
  BY DEF ReadChunk, NoteRead, driverVars
<1> QED
  BY <1>7, <1>9, <1>10, <1>11, TypeFromParts DEF TypeOK

LEMMA TypeReadChunkReturns ==
  ASSUME TypeOK, NEW c \in Clients, UNCHANGED <<serverVars, view, want>>, ReadChunkReturns(c)
  PROVE  TypeOK'
<1> DEFINE a == io[c].a
           b == Overwrite(io[c].buf, RelativeOff(a), Answer(c).data, RetSize(a))
           W == [0 .. a.len - 1 -> Val \cup {Null}]
<1>1. pc[c] = "wait_read" /\ Receives(c, "wait_read") /\ Goto(c, "io") /\ UNCHANGED volume_
  BY DEF ReadChunkReturns, ReadReturns
<1>2. /\ IsNonAlignedCopy(a) /\ NonAlignedCopyIsValid(a) /\ a.blockSize = MSGQ_MAX_SIZE
      /\ a.start + a.len <= FileSize
      /\ io[c].buf \in W /\ want[c] \in W
      /\ io[c] = [write |-> FALSE, buf |-> io[c].buf, a |-> a]
  BY <1>1 DEF TypeOK, IoTypeOK
<1>3. /\ a.len \in Nat /\ RelativeOff(a) \in Nat
      /\ RetSize(a) \in 0 .. max_data_size
  <2>1. /\ a.len \in Nat /\ RelativeOff(a) \in Nat
        /\ RetSize(a) \in 1 .. max_data_size
    BY <1>1, <1>2, ChunkBounds
  <2> QED BY <2>1, SharedMemAssumption
<1>4. QueuesTypeOK' /\ Answer(c) \in Reply
  BY <1>1, ReceivesTypes
<1>5. ClientTypeOK' /\ pc'[c] = "io"
  BY <1>1 DEF Receives, Goto, PC, Gone, TypeOK, ClientTypeOK
<1>6. b \in W
  <2>1. Answer(c).data \in [0 .. max_data_size - 1 -> Val]
    BY <1>4 DEF Reply, Data
  <2> QED BY <2>1, <1>2, <1>3, OverwriteType
<1>7. /\ IsNonAlignedCopy(NonAlignedCopyNext(a))
      /\ NonAlignedCopyNext(a).start = a.start /\ NonAlignedCopyNext(a).len = a.len
      /\ NonAlignedCopyNext(a).blockSize = a.blockSize
  BY <1>2, NextIsNonAlignedCopy
<1>8. /\ DOMAIN io' = Clients /\ OthersUnchanged(c)
      /\ io'[c] = [write |-> FALSE, buf |-> b, a |-> NonAlignedCopyNext(a)]
  <2>1. io' = [io EXCEPT ![c].buf = b, ![c].a = NonAlignedCopyNext(a)]
    BY DEF ReadChunkReturns
  <2>2. /\ DOMAIN io' = Clients /\ OthersUnchanged(c)
        /\ io'[c] = [io[c] EXCEPT !.buf = b, !.a = NonAlignedCopyNext(a)]
    <3> HIDE DEF b
    <3> QED BY <2>1, <1>1 DEF Goto, TypeOK, ClientTypeOK, OthersUnchanged
  <2> HIDE DEF a, b
  <2>3. io[c] = [write |-> FALSE, buf |-> io[c].buf, a |-> a]
    BY <1>2
  <2> DEFINE b0 == io[c].buf
  <2>b. io[c] = [write |-> FALSE, buf |-> b0, a |-> a]
    BY <2>3
  <2> HIDE DEF b0
  <2>4. io[c] \in [write : {FALSE}, buf : {b0}, a : {a}]
    BY <2>b
  <2>5. [io[c] EXCEPT !.buf = b, !.a = NonAlignedCopyNext(a)]
          \in [write : {FALSE}, buf : {b}, a : {NonAlignedCopyNext(a)}]
    BY <2>4
  <2>6. io'[c] \in [write : {FALSE}, buf : {b}, a : {NonAlignedCopyNext(a)}]
    BY <2>2, <2>5
  <2> QED BY <2>2, <2>6
<1>9. IoTypeOK(c)'
  <2> HIDE DEF b
  <2> QED BY <1>2, <1>5, <1>6, <1>7, <1>8 DEF IoTypeOK
<1>10. UNCHANGED <<length, calls>>
  BY DEF ReadChunkReturns
<1> QED
  BY <1>4, <1>5, <1>8, <1>9, <1>10, TypeFromParts DEF TypeOK

LEMMA TypeCallEnds ==
  ASSUME TypeOK, NEW c \in Clients, UNCHANGED serverVars, NoteReadEnd(c),
         IoReturns(c) \/ ClientAborts(c) \/ IoThrows(c) \/ QemuKilled(c)
  PROVE  TypeOK'
<1>1. PICK p \in {"idle", "aborted", "killed"} :
        /\ Goto(c, p)
        /\ p = "idle" => pc[c] = "io"
        /\ io' = [io EXCEPT ![c] = Null]
        /\ UNCHANGED <<request_mq_, volume_, length, calls>>
  BY DEF IoReturns, ClientAborts, AssertFails, Receives, IoThrows, ReadWriteThrows, Throws,
     QemuKilled, Die
<1>2. QueuesTypeOK'
  <2>1. CASE UNCHANGED queueVars
    BY <2>1 DEF queueVars, TypeOK, QueuesTypeOK
  <2>2. CASE ClientAborts(c)
    <3>1. \E q : Receives(c, q)
      BY <2>2 DEF ClientAborts, AssertFails
    <3> QED BY <3>1, ReceivesTypes
  <2> QED BY <2>1, <2>2 DEF IoReturns, IoThrows, ReadWriteThrows, Throws, QemuKilled, Die
<1>3. ClientTypeOK'
  BY <1>1 DEF Goto, PC, Gone, TypeOK, ClientTypeOK
<1>4. /\ DOMAIN io' = Clients /\ DOMAIN want' = Clients
      /\ OthersUnchanged(c) /\ IoTypeOK(c)' /\ UNCHANGED view
  BY <1>1 DEF NoteReadEnd, Goto, TypeOK, ClientTypeOK, IoTypeOK, OthersUnchanged
<1> QED
  BY <1>1, <1>2, <1>3, <1>4, TypeFromParts DEF TypeOK

LEMMA TypeMisaligned ==
  ASSUME TypeOK, NEW c \in Clients, UNCHANGED <<serverVars, view, want>>,
         NEW r, Misaligned(c, r)
  PROVE  TypeOK'
<1>1. QueuesTypeOK' /\ ClientTypeOK' /\ IoTypeOK(c)' /\ OthersUnchanged(c)
  BY DEF Misaligned, queueVars, clientVars, TypeOK, QueuesTypeOK, ClientTypeOK,
     IoTypeOK, OthersUnchanged
<1>2. calls' \in [Clients -> 0 .. MaxCalls]
  BY CvbdAssumption DEF Misaligned, Call, TypeOK
<1> QED
  BY <1>1, <1>2, TypeFromParts DEF Misaligned, TypeOK

LEMMA TypeThrows ==
  ASSUME TypeOK, NEW c \in Clients, UNCHANGED <<serverVars, view, want>>,
         ((OpenThrows(c) \/ CloseThrows(c)) /\ UNCHANGED driverVars) \/ GetLengthThrows(c)
  PROVE  TypeOK'
<1>1. PICK p \in {"failed", "idle", "destroy"} : Throws(c, p)
  BY DEF OpenThrows, CloseThrows, GetLengthThrows, GetSizeThrows
<1>2. pc[c] \in {"open", "wait_open", "idle", "wait_getsize"}
  BY DEF OpenThrows, CloseThrows, GetLengthThrows, GetSizeThrows
<1>3. QueuesTypeOK' /\ ClientTypeOK'
  BY <1>1, <1>2 DEF Throws, Goto, queueVars, PC, Gone, TypeOK, QueuesTypeOK, ClientTypeOK
<1>4. UNCHANGED io /\ length' \in [Clients -> {0, FileSize}] /\ calls' \in [Clients -> 0 .. MaxCalls]
  BY CvbdAssumption DEF GetLengthThrows, Call, driverVars, TypeOK
<1>5. OthersUnchanged(c) /\ IoTypeOK(c)'
  BY <1>1, <1>2, <1>4 DEF Throws, Goto, TypeOK, ClientTypeOK, IoTypeOK, OthersUnchanged
<1> QED
  BY <1>3, <1>4, <1>5, TypeFromParts DEF TypeOK

LEMMA TypeClient == ASSUME TypeOK, NEW c \in Clients, ClientStep(c) PROVE TypeOK'
<1>1. CASE Progress(c)
  BY <1>1, TypeConstructor, TypeSimpleSends, TypeSimpleReturns, TypeReadChunkReturns,
     TypeWriteChunk, TypeReadChunk, TypeCallEnds
  DEF ClientStep, Progress, NoteNothing, driverVars
<1>2. CASE Environment(c)
  BY <1>2, TypeConstructor, TypeSimpleSends, TypeStartIo, TypeMisaligned, TypeThrows, TypeCallEnds
  DEF ClientStep, Environment, NoteNothing, NoteReadStart, driverVars, cvbd_open,
      cvbd_getlength, cvbd_close
<1> QED
  BY <1>1, <1>2 DEF ClientStep

LEMMA TypeNext == TypeOK /\ [Next]_vars => TypeOK'
<1> SUFFICES ASSUME TypeOK, [Next]_vars PROVE TypeOK'
  OBVIOUS
<1>1. CASE Next
  BY <1>1, TypeServer, TypeClient DEF Next
<1>2. CASE UNCHANGED vars
  BY <1>2 DEF vars, queueVars, serverVars, clientVars, driverVars, TypeOK, QueuesTypeOK,
     ServerTypeOK, ClientTypeOK, IoTypeOK
<1> QED BY <1>1, <1>2

(***************************************************************************)
(* TypeOK holds for any number of clients and volumes, any queue, message  *)
(* and file size, any faults and deaths: no chunk leaves the guest's       *)
(* buffer, the message's data array or the file.                           *)
(***************************************************************************)
THEOREM TypeCorrect == Spec => []TypeOK
  BY TypeInit, TypeNext, PTL DEF Spec

-------------------------------------------------------------------------------

(***************************************************************************)
(* The inductive invariant.  RepliesMatch and HandlesLive are not          *)
(* inductive: that a reply goes to the right queue depends on what the     *)
(* name denoted when the OPEN was handled (NameInv), that a pointer is     *)
(* live depends on the order of a client's requests in the queue and on    *)
(* where the client stands (RequestInv), and that both survive a restart   *)
(* depends on queues being new (EpochInv).                                 *)
(***************************************************************************)
Before == {"none", "ctor_open", "ctor_create", "open", "failed"}
Using == {"idle", "io", "wait_getsize", "wait_read"}
Holding == Using \cup {"open", "wait_open", "destroy"}
After == {"destroy", "closed", "killed"}

\* Clients of one volume that are not done with it: at most one.
OneUser ==
  \A c, d \in Clients : c # d /\ VolumeOf[c] = VolumeOf[d] => pc[c] \in Gone \/ pc[d] \in Gone

\* No client has mapped a request queue that is yet to be made.
EpochInv ==
  /\ request_name # Null => request_name <= epoch
  /\ \A c \in Clients : request_mq_[c] # Null => request_mq_[c] <= epoch

\* While a client may have an OPEN pending, or uses the volume, the name is its own.
NameInv(c) == pc[c] \in Holding => reply_name[VolumeOf[c]] = c

VolsInv(c) ==
  vols[c] # Null =>
    /\ Served(c)
    /\ vols[c] = [file |-> VolumeOf[c], reply_mq |-> c]
    /\ pc[c] \notin Before

HandleInv(c) ==
  /\ pc[c] \in Using => volume_[c] = c
  /\ pc[c] \in Using /\ Served(c) => vols[c] # Null

\* What is in the reply queue of c.
ReplyInv(c) ==
  reply_mq[c] # << >> =>
    /\ Len(reply_mq[c]) = 1
    /\ \/ pc[c] = "killed"
       \/ /\ pc[c] \in Waiting
          /\ Answer(c).type = Awaited(pc[c])
          /\ pc[c] = "wait_read" => Answer(c).size = RetSize(io[c].a)
          /\ pc[c] = "wait_open" =>
               /\ Answer(c).volume = c
               /\ Answer(c).err = 0 /\ Served(c) => vols[c] # Null
               /\ Answer(c).err # 0 => vols[c] = Null

ClientInv(c) ==
  pc[c] # "aborted" /\ NameInv(c) /\ VolsInv(c) /\ HandleInv(c) /\ ReplyInv(c)

\* What a request m that the running server has yet to handle says of its sender.
RequestOK(m) ==
  LET c == m.from IN
  /\ request_mq_[c] = epoch
  /\ m.name = VolumeOf[c]
  /\ m.type = "REQ_OPEN" => pc[c] = "wait_open" /\ m.volume = Null /\ vols[c] = Null
  /\ m.type # "REQ_OPEN" => pc[c] \in Using \cup After /\ m.volume = c /\ vols[c] # Null
  /\ m.type # "REQ_FSYNC"
  /\ m.type = "REQ_GETSIZE" => pc[c] \in {"wait_getsize", "killed"}
  /\ m.type = "REQ_READ" =>
       /\ pc[c] \in {"wait_read", "killed"}
       /\ InFile(m)
       /\ pc[c] = "wait_read" => m.size = RetSize(io[c].a)
  /\ m.type = "REQ_CLOSE" => pc[c] \in After
  /\ m.type \in {"REQ_OPEN", "REQ_GETSIZE", "REQ_READ"} => reply_mq[c] = << >>

\* Only a WRITE is followed by another request of the same client.
LastOfSender(q) ==
  \A i \in 1 .. Len(q) : \A j \in (i + 1) .. Len(q) :
    q[i].type # "REQ_WRITE" => q[j].from # q[i].from

RequestInv ==
  server = "up" =>
    /\ \A i \in 1 .. Len(Pending) : RequestOK(Pending[i])
    /\ LastOfSender(Pending)

Inv ==
  /\ TypeOK /\ OneUser /\ EpochInv
  /\ \A c \in Clients : ClientInv(c)
  /\ RequestInv

-------------------------------------------------------------------------------
LEMMA InvInit == Init => Inv
<1> SUFFICES ASSUME Init PROVE Inv
  OBVIOUS
<1>1. TypeOK
  BY TypeInit
<1>2. \A c \in Clients : ClientInv(c)
  BY DEF Init, QueuesInit, ServerInit, ClientInit, ClientInv, NameInv, VolsInv, HandleInv,
     ReplyInv, Holding, Using
<1>3. OneUser /\ EpochInv /\ RequestInv
  BY DEF Init, QueuesInit, ServerInit, ClientInit, OneUser, EpochInv, RequestInv, Gone
<1> QED BY <1>1, <1>2, <1>3 DEF Inv

-------------------------------------------------------------------------------
\* Steps of a client.  What a step of c leaves alone.
ClientFrame(c) ==
  /\ UNCHANGED serverVars
  /\ \A d \in Clients \ {c} :
       /\ pc'[d] = pc[d] /\ io'[d] = io[d]
       /\ request_mq_'[d] = request_mq_[d] /\ volume_'[d] = volume_[d]
       /\ reply_mq'[d] = reply_mq[d]

Requests == {Pending[i] : i \in 1 .. Len(Pending)}

LEMMA RequestsTypes ==
  ASSUME TypeOK, server = "up"
  PROVE  /\ epoch \in Epochs /\ Pending \in Seq(Request) /\ Requests \subseteq Request
         /\ \A m \in Requests : m.from \in Clients
<1>1. epoch \in Epochs
  BY SharedMemAssumption DEF TypeOK, ServerTypeOK, Epochs
<1>2. Pending \in Seq(Request)
  BY <1>1 DEF TypeOK, QueuesTypeOK, Pending
<1>3. Requests \subseteq Request
  BY <1>2 DEF Requests
<1> QED BY <1>1, <1>2, <1>3 DEF Request

LEMMA RequestsOK ==
  ASSUME Inv, server = "up", NEW m \in Requests
  PROVE  RequestOK(m)
BY DEF Inv, RequestInv, Requests

\* The requests and the state of the other clients are as before.
LEMMA OtherRequests ==
  ASSUME Inv, server = "up", NEW c \in Clients, ClientFrame(c),
         NEW m \in Requests, m.from # c
  PROVE  RequestOK(m)'
<1>1. RequestOK(m) /\ m.from \in Clients \ {c}
  BY RequestsOK, RequestsTypes DEF Inv
<1> QED
  BY <1>1 DEF ClientFrame, RequestOK, serverVars, InFile

LEMMA OtherClients ==
  ASSUME Inv, NEW c \in Clients, ClientFrame(c), NEW d \in Clients \ {c}, NameInv(d)'
  PROVE  ClientInv(d)'
<1>1. ClientInv(d)
  BY DEF Inv
<1> QED
  BY <1>1 DEF ClientFrame, ClientInv, VolsInv, HandleInv, ReplyInv, Served, Answer,
     serverVars

LEMMA RequestsKept ==
  ASSUME Inv, NEW c \in Clients, ClientFrame(c), UNCHANGED request_mq,
         server = "up" => \A m \in Requests : m.from = c => RequestOK(m)'
  PROVE  RequestInv'
<1> SUFFICES ASSUME server' = "up"
             PROVE  /\ \A i \in 1 .. Len(Pending') : RequestOK(Pending[i])'
                    /\ LastOfSender(Pending)'
  BY DEF RequestInv
<1>1. server = "up" /\ Pending' = Pending
  BY DEF ClientFrame, serverVars, Pending
<1>2. \A m \in Requests : RequestOK(m)'
  BY <1>1, OtherRequests
<1>3. ASSUME NEW i \in 1 .. Len(Pending) PROVE RequestOK(Pending[i])'
  <2>1. PICK m \in Requests : m = Pending[i] /\ m = Pending'[i]
    BY <1>1 DEF Requests
  <2>2. RequestOK(m)'
    BY <1>2
  <2> QED BY <2>1, <2>2 DEF RequestOK, InFile
<1>4. LastOfSender(Pending)'
  BY <1>1 DEF Inv, RequestInv, LastOfSender
<1> QED BY <1>1, <1>3, <1>4

\* A client that sends has at most WRITEs in the queue.
LEMMA RequestsSent ==
  ASSUME Inv, NEW c \in Clients, ClientFrame(c),
         pc[c] \notin {"ctor_open"} \cup Gone,
         NEW m \in Request, m.from = c, NEW p, Send(c, m, p),
         server = "up" => \A n \in Requests :
           n.from = c => n.type = "REQ_WRITE" /\ RequestOK(n)',
         Served(c) => RequestOK(m)'
  PROVE  RequestInv'
<1> SUFFICES ASSUME server' = "up"
             PROVE  /\ \A i \in 1 .. Len(Pending') : RequestOK(Pending[i])'
                    /\ LastOfSender(Pending)'
  BY DEF RequestInv
<1>1. server = "up" /\ epoch' = epoch
  BY DEF ClientFrame, serverVars
<1>2. epoch \in Epochs /\ Pending \in Seq(Request) /\ request_mq_[c] \in Epochs
  BY <1>1, RequestsTypes DEF Inv, TypeOK, ClientTypeOK
<1>3. CASE request_mq_[c] # epoch
  <2>1. Pending' = Pending
    BY <1>1, <1>2, <1>3 DEF Pending, Send, send_request, Inv, TypeOK, QueuesTypeOK
  <2>2. \A n \in Requests : RequestOK(n)'
    BY <1>1, OtherRequests
  <2>3. ASSUME NEW i \in 1 .. Len(Pending) PROVE RequestOK(Pending[i])'
    <3>1. PICK n \in Requests : n = Pending[i] /\ n = Pending'[i]
      BY <2>1 DEF Requests
    <3> QED BY <3>1, <2>2 DEF RequestOK, InFile
  <2>4. LastOfSender(Pending)'
    BY <1>1, <2>1 DEF Inv, RequestInv, LastOfSender
  <2> QED BY <2>1, <2>3, <2>4
<1>4. CASE request_mq_[c] = epoch
  <2>1. Pending' = Append(Pending, m)
    BY <1>1, <1>2, <1>4 DEF Pending, Send, send_request, Inv, TypeOK, QueuesTypeOK
  <2>2. /\ Len(Pending') = Len(Pending) + 1 /\ Len(Pending) \in Nat
        /\ Pending'[Len(Pending) + 1] = m
        /\ \A i \in 1 .. Len(Pending) : Pending'[i] = Pending[i] /\ Pending[i] \in Requests
    BY <1>2, <2>1 DEF Requests
  <2>3. \A n \in Requests : RequestOK(n)'
    BY <1>1, OtherRequests
  <2>4. RequestOK(m)'
    BY <1>1, <1>4 DEF Served
  <2>5. ASSUME NEW i \in 1 .. Len(Pending') PROVE RequestOK(Pending[i])'
    <3>1. PICK n : n = Pending'[i] /\ RequestOK(n)'
      BY <2>2, <2>3, <2>4
    <3> QED BY <3>1 DEF RequestOK, InFile
  <2>6. LastOfSender(Pending)'
    <3> SUFFICES ASSUME NEW i \in 1 .. Len(Pending'), NEW j \in (i + 1) .. Len(Pending'),
                        Pending'[i].type # "REQ_WRITE"
                 PROVE  Pending'[j].from # Pending'[i].from
      BY DEF LastOfSender
    <3>1. i \in 1 .. Len(Pending) /\ Pending'[i] = Pending[i] /\ Pending[i] \in Requests
      BY <2>2
    <3>2. CASE j = Len(Pending) + 1
      BY <3>1, <3>2, <1>1, <2>2
    <3>3. CASE j # Len(Pending) + 1
      <4>1. j \in (i + 1) .. Len(Pending) /\ Pending'[j] = Pending[j]
        BY <3>1, <3>3, <2>2
      <4> QED BY <3>1, <4>1, <1>1 DEF Inv, RequestInv, LastOfSender
    <3> QED BY <3>2, <3>3
  <2> QED BY <2>5, <2>6
<1> QED BY <1>3, <1>4

\* Steps that neither start nor end the use of a volume.
LEMMA OrdinaryStep ==
  ASSUME Inv, TypeOK', NEW c \in Clients, ClientFrame(c),
         UNCHANGED <<request_name, reply_name, request_mq_>>,
         pc[c] \notin Gone, ClientInv(c)', RequestInv'
  PROVE  Inv'
<1>1. \A d \in Clients \ {c} : NameInv(d)'
  BY DEF Inv, ClientInv, ClientFrame, NameInv
<1>2. \A d \in Clients : ClientInv(d)'
  BY <1>1, OtherClients
<1>3. OneUser'
  BY DEF Inv, OneUser, ClientFrame
<1>4. EpochInv'
  BY DEF Inv, EpochInv, ClientFrame, serverVars
<1> QED BY <1>2, <1>3, <1>4 DEF Inv

\* The requests of a client that is about to make its next call, or goes on
\* with a read or write: only WRITEs.
LEMMA OnlyWrites ==
  ASSUME Inv, server = "up", NEW c \in Clients,
         \/ pc[c] \in {"open", "idle", "io"}
         \/ pc[c] \in Waiting /\ reply_mq[c] # << >>,
         NEW m \in Requests, m.from = c
  PROVE  m.type = "REQ_WRITE" /\ pc[c] \in Using
<1>1. RequestOK(m) /\ m.type \in RequestType
  BY RequestsOK, RequestsTypes DEF Inv, Request
<1> QED
  BY <1>1 DEF RequestOK, RequestType, Using, After, Waiting

\* A pending WRITE stays acceptable while its sender uses the volume, or is gone.
LEMMA WritesStayOK ==
  ASSUME Inv, server = "up", NEW c \in Clients, UNCHANGED <<serverVars, request_mq_>>,
         NEW m \in Requests, m.from = c, m.type = "REQ_WRITE",
         pc'[c] \in Using \cup After
  PROVE  RequestOK(m)'
<1>1. RequestOK(m)
  BY RequestsOK
<1> QED
  BY <1>1 DEF RequestOK, serverVars

LEMMA InvSendOpen ==
  ASSUME Inv, TypeOK', NEW c \in Clients, UNCHANGED <<serverVars, driverVars>>, send_open(c)
  PROVE  Inv'
<1> DEFINE m == OpenRequest(c)
<1>1. Send(c, m, "wait_open") /\ pc[c] = "open" /\ pc'[c] = "wait_open"
  BY DEF send_open, Send, Goto, Inv, TypeOK, ClientTypeOK
<1>2. ClientFrame(c) /\ UNCHANGED <<request_name, reply_name, request_mq_, volume_, reply_mq>>
  BY DEF send_open, Send, Goto, Inv, TypeOK, ClientTypeOK, ClientFrame, driverVars
<1>3. ClientInv(c) /\ reply_mq[c] = << >> /\ vols[c] = Null
  BY <1>1 DEF Inv, ClientInv, ReplyInv, VolsInv, Waiting, Before
<1>4. ClientInv(c)'
  BY <1>1, <1>2, <1>3 DEF ClientInv, NameInv, VolsInv, HandleInv, ReplyInv, Holding, Using,
     ClientFrame, serverVars
<1>5. m \in Request /\ m.from = c
  <2>1. 0 \in Nat /\ 0 \in 0 .. max_data_size /\ Null \in Clients \cup {Null}
    BY SharedMemAssumption
  <2> QED BY <2>1, NoDataType, RequestTypes DEF OpenRequest, Header
<1>6. Served(c) => RequestOK(m)'
  BY <1>1, <1>2, <1>3 DEF Served, RequestOK, OpenRequest, Header, ClientFrame, serverVars
<1>7. RequestInv'
  <2>1. server = "up" => \A n \in Requests : n.from # c
    BY <1>1, OnlyWrites DEF Using
  <2> HIDE DEF m
  <2> QED BY <1>1, <1>2, <1>5, <1>6, <2>1, RequestsSent DEF Gone
<1> QED BY <1>1, <1>2, <1>4, <1>7, OrdinaryStep DEF Gone

LEMMA InvGetLength ==
  ASSUME Inv, TypeOK', NEW c \in Clients, UNCHANGED serverVars, cvbd_getlength(c)
  PROVE  Inv'
<1>m. PICK m : m = GetSizeRequest(c, volume_[c])
  OBVIOUS
<1>1. Send(c, m, "wait_getsize") /\ pc[c] = "idle" /\ pc'[c] = "wait_getsize"
  BY <1>m DEF cvbd_getlength, send_getsize, Send, Goto, Inv, TypeOK, ClientTypeOK
<1>2. ClientFrame(c) /\ UNCHANGED <<request_name, reply_name, request_mq_, volume_, reply_mq>>
  BY <1>1 DEF cvbd_getlength, Send, Goto, Inv, TypeOK, ClientTypeOK, ClientFrame
<1>3. ClientInv(c) /\ reply_mq[c] = << >> /\ volume_[c] = c
  BY <1>1 DEF Inv, ClientInv, ReplyInv, HandleInv, Waiting, Using
<1>4. ClientInv(c)'
  BY <1>1, <1>2, <1>3 DEF ClientInv, NameInv, VolsInv, HandleInv, ReplyInv, Holding, Using,
     Before, Served, ClientFrame, serverVars
<1>5. m \in Request /\ m.from = c
  <2>1. 0 \in Nat /\ 0 \in 0 .. max_data_size /\ volume_[c] \in Clients \cup {Null}
    BY <1>3, SharedMemAssumption
  <2> QED BY <1>m, <2>1, NoDataType, RequestTypes DEF GetSizeRequest, Header
<1>6. Served(c) => RequestOK(m)'
  <2>1. Served(c) => vols[c] # Null
    BY <1>1, <1>3 DEF ClientInv, HandleInv, Using
  <2> QED
    BY <1>m, <1>1, <1>2, <1>3, <2>1 DEF Served, RequestOK, GetSizeRequest, Header, Using,
       ClientFrame, serverVars
<1>7. RequestInv'
  <2>1. server = "up" => \A n \in Requests : n.from = c => n.type = "REQ_WRITE" /\ RequestOK(n)'
    BY <1>1, <1>2, OnlyWrites, WritesStayOK DEF Using, ClientFrame
  <2> QED BY <1>1, <1>2, <1>5, <1>6, <2>1, RequestsSent DEF Gone
<1> QED BY <1>1, <1>2, <1>4, <1>7, OrdinaryStep DEF Gone

LEMMA InvClose ==
  ASSUME Inv, TypeOK', NEW c \in Clients, UNCHANGED serverVars, cvbd_close(c)
  PROVE  Inv'
<1>m. PICK m : m = CloseRequest(c, volume_[c])
  OBVIOUS
<1>1. Send(c, m, "destroy") /\ pc[c] = "idle" /\ pc'[c] = "destroy"
  BY <1>m DEF cvbd_close, send_close, Send, Goto, Inv, TypeOK, ClientTypeOK
<1>2. ClientFrame(c) /\ UNCHANGED <<request_name, reply_name, request_mq_, volume_, reply_mq>>
  BY <1>1 DEF cvbd_close, Send, Goto, Inv, TypeOK, ClientTypeOK, ClientFrame, driverVars
<1>3. ClientInv(c) /\ reply_mq[c] = << >> /\ volume_[c] = c
  BY <1>1 DEF Inv, ClientInv, ReplyInv, HandleInv, Waiting, Using
<1>4. ClientInv(c)'
  BY <1>1, <1>2, <1>3 DEF ClientInv, NameInv, VolsInv, HandleInv, ReplyInv, Holding, Using,
     Before, Served, ClientFrame, serverVars
<1>5. m \in Request /\ m.from = c
  <2>1. 0 \in Nat /\ 0 \in 0 .. max_data_size /\ volume_[c] \in Clients \cup {Null}
    BY <1>3, SharedMemAssumption
  <2> QED BY <1>m, <2>1, NoDataType, RequestTypes DEF CloseRequest, Header
<1>6. Served(c) => RequestOK(m)'
  <2>1. Served(c) => vols[c] # Null
    BY <1>1, <1>3 DEF ClientInv, HandleInv, Using
  <2> QED
    BY <1>m, <1>1, <1>2, <1>3, <2>1 DEF Served, RequestOK, CloseRequest, Header, After,
       ClientFrame, serverVars
<1>7. RequestInv'
  <2>1. server = "up" => \A n \in Requests : n.from = c => n.type = "REQ_WRITE" /\ RequestOK(n)'
    BY <1>1, <1>2, OnlyWrites, WritesStayOK DEF After, ClientFrame
  <2> QED BY <1>1, <1>2, <1>5, <1>6, <2>1, RequestsSent DEF Gone
<1> QED BY <1>1, <1>2, <1>4, <1>7, OrdinaryStep DEF Gone

LEMMA InvWriteChunk ==
  ASSUME Inv, TypeOK', NEW c \in Clients, UNCHANGED serverVars, WriteChunk(c)
  PROVE  Inv'
<1> DEFINE a == io[c].a
<1>m. PICK m : m = WriteRequest(c, volume_[c], a.cur, RetSize(a),
                                Slice(io[c].buf, RelativeOff(a), RetSize(a)))
  OBVIOUS
<1>1. Send(c, m, "io") /\ pc[c] = "io" /\ pc'[c] = "io"
  BY <1>m DEF WriteChunk, send_write, Send, Goto, Inv, TypeOK, ClientTypeOK
<1>2. ClientFrame(c) /\ UNCHANGED <<request_name, reply_name, request_mq_, volume_, reply_mq>>
  BY <1>1 DEF WriteChunk, Send, Goto, Inv, TypeOK, ClientTypeOK, ClientFrame
<1>3. ClientInv(c) /\ reply_mq[c] = << >> /\ volume_[c] = c
  BY <1>1 DEF Inv, ClientInv, ReplyInv, HandleInv, Waiting, Using
<1>4. ClientInv(c)'
  BY <1>1, <1>2, <1>3 DEF ClientInv, NameInv, VolsInv, HandleInv, ReplyInv, Holding, Using,
     Before, Served, ClientFrame, serverVars
<1>5. m.from = c /\ m.type = "REQ_WRITE" /\ m.volume = volume_[c] /\ m.name = VolumeOf[c]
  BY <1>m DEF WriteRequest, Header
<1>6. m \in Request
  <2>1. NonAlignedCopyIsValid(a) /\ io[c].write
    BY DEF WriteChunk
  <2>2. /\ a.cur \in Nat /\ a.len \in Nat /\ RelativeOff(a) \in Nat
        /\ RetSize(a) \in 1 .. max_data_size
        /\ RelativeOff(a) + RetSize(a) <= a.len
    BY <1>1, <2>1, ChunkBounds DEF Inv
  <2>3. RetSize(a) \in Nat /\ RetSize(a) \in 0 .. max_data_size
    BY <2>2, SharedMemAssumption
  <2>4. io[c].buf \in [0 .. a.len - 1 -> Val]
    BY <1>1, <2>1 DEF Inv, TypeOK, IoTypeOK
  <2>5. Slice(io[c].buf, RelativeOff(a), RetSize(a)) \in Data
    BY <2>2, <2>3, <2>4, SliceType
  <2> QED BY <1>m, <1>3, <2>2, <2>3, <2>5, RequestTypes
<1>7. Served(c) => RequestOK(m)'
  <2>1. Served(c) => vols[c] # Null
    BY <1>1, <1>3 DEF ClientInv, HandleInv, Using
  <2> QED
    BY <1>1, <1>2, <1>3, <1>5, <2>1 DEF Served, RequestOK, Using, ClientFrame, serverVars
<1>8. RequestInv'
  <2>1. server = "up" => \A n \in Requests : n.from = c => n.type = "REQ_WRITE" /\ RequestOK(n)'
    BY <1>1, <1>2, OnlyWrites, WritesStayOK DEF Using, ClientFrame
  <2> QED BY <1>1, <1>2, <1>5, <1>6, <1>7, <2>1, RequestsSent DEF Gone
<1> QED BY <1>1, <1>2, <1>4, <1>8, OrdinaryStep DEF Gone

LEMMA InvReadChunk ==
  ASSUME Inv, TypeOK', NEW c \in Clients, UNCHANGED serverVars, ReadChunk(c)
  PROVE  Inv'
<1> DEFINE a == io[c].a
<1>m. PICK m : m = ReadRequest(c, volume_[c], a.cur, RetSize(a))
  OBVIOUS
<1>1. Send(c, m, "wait_read") /\ pc[c] = "io" /\ pc'[c] = "wait_read" /\ io' = io
  BY <1>m DEF ReadChunk, send_read, Send, Goto, Inv, TypeOK, ClientTypeOK, driverVars
<1>2. ClientFrame(c) /\ UNCHANGED <<request_name, reply_name, request_mq_, volume_, reply_mq>>
  BY <1>1 DEF Send, Goto, Inv, TypeOK, ClientTypeOK, ClientFrame
<1>3. ClientInv(c) /\ reply_mq[c] = << >> /\ volume_[c] = c
  BY <1>1 DEF Inv, ClientInv, ReplyInv, HandleInv, Waiting, Using
<1>4. ClientInv(c)'
  BY <1>1, <1>2, <1>3 DEF ClientInv, NameInv, VolsInv, HandleInv, ReplyInv, Holding, Using,
     Before, Served, ClientFrame, serverVars
<1>5. /\ m.from = c /\ m.type = "REQ_READ" /\ m.volume = volume_[c] /\ m.name = VolumeOf[c]
      /\ m.offset = a.cur /\ m.size = RetSize(a)
  BY <1>m DEF ReadRequest, Header
<1>6. m \in Request /\ InFile(m)
  <2>1. NonAlignedCopyIsValid(a)
    BY DEF ReadChunk
  <2>2. a.cur \in Nat /\ RetSize(a) \in 1 .. max_data_size /\ a.cur + RetSize(a) <= FileSize
    BY <1>1, <2>1, ChunkBounds DEF Inv
  <2>3. RetSize(a) \in 0 .. max_data_size
    BY <2>2, SharedMemAssumption
  <2>4. m \in Request
    BY <1>m, <1>3, <2>2, <2>3, NoDataType, RequestTypes
  <2> QED BY <2>2, <2>4, <1>5 DEF InFile
<1>7. Served(c) => RequestOK(m)'
  <2>1. Served(c) => vols[c] # Null
    BY <1>1, <1>3 DEF ClientInv, HandleInv, Using
  <2> QED
    BY <1>1, <1>2, <1>3, <1>5, <1>6, <2>1 DEF Served, RequestOK, Using, InFile, ClientFrame,
       serverVars
<1>8. RequestInv'
  <2>1. server = "up" => \A n \in Requests : n.from = c => n.type = "REQ_WRITE" /\ RequestOK(n)'
    BY <1>1, <1>2, OnlyWrites, WritesStayOK DEF Using, ClientFrame
  <2> QED BY <1>1, <1>2, <1>5, <1>6, <1>7, <2>1, RequestsSent DEF Gone
<1> QED BY <1>1, <1>2, <1>4, <1>8, OrdinaryStep DEF Gone

\* A client with no request in the queue, before and after the step.
LEMMA NoRequests ==
  ASSUME Inv, server = "up", NEW c \in Clients,
         pc[c] \notin Using \cup After \cup {"wait_open"},
         NEW m \in Requests
  PROVE  m.from # c
<1>1. RequestOK(m) /\ m.type \in RequestType
  BY RequestsOK, RequestsTypes DEF Inv, Request
<1> QED BY <1>1 DEF RequestOK

\* Steps that change what the name of a volume denotes: the others that use
\* the volume are gone.
LEMMA NameStep ==
  ASSUME Inv, TypeOK', NEW c \in Clients, ClientFrame(c), UNCHANGED <<request_name, request_mq_>>,
         NEW x, reply_name' = [reply_name EXCEPT ![VolumeOf[c]] = x],
         \A d \in Clients \ {c} : VolumeOf[d] = VolumeOf[c] => pc[d] \in Gone,
         ClientInv(c)', RequestInv'
  PROVE  Inv'
<1>1. ASSUME NEW d \in Clients \ {c} PROVE NameInv(d)'
  <2>1. CASE VolumeOf[d] = VolumeOf[c]
    BY <2>1 DEF ClientFrame, NameInv, Gone, Holding, Using
  <2>2. CASE VolumeOf[d] # VolumeOf[c]
    <3>1. NameInv(d)
      BY DEF Inv, ClientInv
    <3>2. reply_name'[VolumeOf[d]] = reply_name[VolumeOf[d]]
      BY <2>2, SharedMemAssumption DEF Inv, TypeOK, QueuesTypeOK
    <3> QED BY <3>1, <3>2 DEF ClientFrame, NameInv
  <2> QED BY <2>1, <2>2
<1>2. \A d \in Clients : ClientInv(d)'
  BY <1>1, OtherClients
<1>3. OneUser'
  BY DEF Inv, OneUser, ClientFrame
<1>4. EpochInv'
  BY DEF Inv, EpochInv, ClientFrame, serverVars
<1> QED BY <1>2, <1>3, <1>4 DEF Inv

LEMMA InvCvbdOpen ==
  ASSUME Inv, TypeOK', NEW c \in Clients, UNCHANGED serverVars, cvbd_open(c), Exclusive
  PROVE  Inv'
<1>1. pc[c] = "none" /\ pc'[c] = "ctor_open" /\ UNCHANGED <<reply_mq, volume_, request_mq>>
  BY DEF cvbd_open, CtorRemove, Goto, Inv, TypeOK, ClientTypeOK
<1>2. ClientFrame(c) /\ UNCHANGED <<request_name, request_mq_>>
  BY DEF cvbd_open, CtorRemove, Goto, Inv, TypeOK, ClientTypeOK, ClientFrame, driverVars
<1>3. ClientInv(c)'
  BY <1>1, <1>2 DEF Inv, ClientInv, NameInv, VolsInv, HandleInv, ReplyInv, Holding, Using,
     Before, Waiting, ClientFrame, serverVars
<1>4. RequestInv'
  BY <1>1, <1>2, NoRequests, RequestsKept DEF Using, After
<1>5. \A d \in Clients \ {c} : VolumeOf[d] = VolumeOf[c] => pc[d] \in Gone
  BY DEF cvbd_open
<1>6. reply_name' = [reply_name EXCEPT ![VolumeOf[c]] = Null]
  BY DEF cvbd_open, CtorRemove
<1> QED BY <1>2, <1>3, <1>4, <1>5, <1>6, NameStep

LEMMA InvCtorOpen ==
  ASSUME Inv, TypeOK', NEW c \in Clients, UNCHANGED <<serverVars, driverVars>>, CtorOpen(c)
  PROVE  Inv'
<1>1. /\ pc[c] = "ctor_open" /\ pc'[c] \in {"failed", "ctor_create"}
      /\ request_mq_'[c] = request_name
      /\ UNCHANGED <<reply_mq, volume_, request_mq, request_name, reply_name>>
  BY DEF CtorOpen, Goto, queueVars, Inv, TypeOK, ClientTypeOK
<1>2. ClientFrame(c)
  BY <1>1 DEF CtorOpen, Goto, Inv, TypeOK, ClientTypeOK, ClientFrame, driverVars
<1>3. ClientInv(c)'
  BY <1>1, <1>2 DEF Inv, ClientInv, NameInv, VolsInv, HandleInv, ReplyInv, Holding, Using,
     Before, Waiting, ClientFrame, serverVars
<1>4. RequestInv'
  BY <1>1, <1>2, NoRequests, RequestsKept DEF Using, After
<1>5. \A d \in Clients : ClientInv(d)'
  <2>1. \A d \in Clients \ {c} : NameInv(d)'
    BY <1>1, <1>2 DEF Inv, ClientInv, NameInv, ClientFrame
  <2> QED BY <1>2, <1>3, <2>1, OtherClients
<1>6. OneUser'
  BY <1>1, <1>2 DEF Inv, OneUser, ClientFrame, Gone
<1>7. EpochInv'
  BY <1>1, <1>2 DEF Inv, EpochInv, ClientFrame, serverVars
<1> QED BY <1>4, <1>5, <1>6, <1>7 DEF Inv

LEMMA InvCtorCreate ==
  ASSUME Inv, TypeOK', NEW c \in Clients, UNCHANGED <<serverVars, driverVars>>, CtorCreate(c)
  PROVE  Inv'
<1>1. pc[c] = "ctor_create" /\ UNCHANGED <<reply_mq, volume_, request_mq, request_name, request_mq_>>
  BY DEF CtorCreate
<1>2. ClientFrame(c) /\ pc'[c] \in {"open", "failed"}
  BY DEF CtorCreate, Goto, Inv, TypeOK, ClientTypeOK, ClientFrame, driverVars
<1>3. pc'[c] = "open" => reply_name'[VolumeOf[c]] = c
  BY SharedMemAssumption DEF CtorCreate, Goto, Inv, TypeOK, ClientTypeOK, QueuesTypeOK
<1>4. ClientInv(c)'
  BY <1>1, <1>2, <1>3 DEF Inv, ClientInv, NameInv, VolsInv, HandleInv, ReplyInv, Holding, Using,
     Before, Waiting, ClientFrame, serverVars
<1>5. RequestInv'
  BY <1>1, <1>2, NoRequests, RequestsKept DEF Using, After
<1>6. \A d \in Clients \ {c} : VolumeOf[d] = VolumeOf[c] => pc[d] \in Gone
  BY <1>1 DEF Inv, OneUser, Gone
<1>7. PICK x : reply_name' = [reply_name EXCEPT ![VolumeOf[c]] = x]
  <2>1. CASE reply_name' = reply_name
    BY <2>1, SharedMemAssumption DEF Inv, TypeOK, QueuesTypeOK
  <2> QED BY <2>1 DEF CtorCreate
<1> QED BY <1>1, <1>2, <1>4, <1>5, <1>6, <1>7, NameStep

LEMMA InvDestroy ==
  ASSUME Inv, TypeOK', NEW c \in Clients, UNCHANGED <<serverVars, driverVars>>, Destroy(c)
  PROVE  Inv'
<1>1. /\ pc[c] = "destroy" /\ pc'[c] = "closed"
      /\ UNCHANGED <<reply_mq, volume_, request_mq, request_name, request_mq_>>
  BY DEF Destroy, Goto, Inv, TypeOK, ClientTypeOK
<1>2. ClientFrame(c)
  BY DEF Destroy, Goto, Inv, TypeOK, ClientTypeOK, ClientFrame, driverVars
<1>3. ClientInv(c)'
  BY <1>1, <1>2 DEF Inv, ClientInv, NameInv, VolsInv, HandleInv, ReplyInv, Holding, Using,
     Before, Waiting, Served, ClientFrame, serverVars
<1>4. RequestInv'
  <2>1. ASSUME server = "up", NEW m \in Requests, m.from = c PROVE RequestOK(m)'
    <3>1. RequestOK(m)
      BY <2>1, RequestsOK
    <3> QED BY <1>1, <1>2, <2>1, <3>1 DEF RequestOK, After, Using, InFile, ClientFrame, serverVars
  <2> QED BY <1>1, <1>2, <2>1, RequestsKept
<1>5. \A d \in Clients \ {c} : VolumeOf[d] = VolumeOf[c] => pc[d] \in Gone
  BY <1>1 DEF Inv, OneUser, Gone
<1>6. reply_name' = [reply_name EXCEPT ![VolumeOf[c]] = Null]
  BY DEF Destroy
<1> QED BY <1>1, <1>2, <1>3, <1>4, <1>5, <1>6, NameStep

\* An answer in the queue of a waiting client is the one it waits for, and
\* taking it empties the queue.
LEMMA AnswerInv ==
  ASSUME Inv, NEW c \in Clients, NEW p \in Waiting, Receives(c, p)
  PROVE  /\ pc[c] = p /\ reply_mq[c] # << >>
         /\ Answer(c).type = Awaited(p)
         /\ p = "wait_read" => Answer(c).size = RetSize(io[c].a)
         /\ p = "wait_open" => /\ Answer(c).volume = c
                               /\ Answer(c).err = 0 /\ Served(c) => vols[c] # Null
                               /\ Answer(c).err # 0 => vols[c] = Null
         /\ reply_mq'[c] = << >>
<1>1. pc[c] = p /\ reply_mq[c] # << >> /\ reply_mq[c] \in Seq(Reply)
  BY DEF Receives, Inv, TypeOK, QueuesTypeOK
<1>2. ReplyInv(c) /\ pc[c] # "killed"
  BY <1>1 DEF Inv, ClientInv, Waiting
<1>3. Len(reply_mq[c]) = 1
  BY <1>1, <1>2 DEF ReplyInv
<1>4. reply_mq'[c] = Tail(reply_mq[c])
  BY DEF Receives, Inv, TypeOK, QueuesTypeOK
<1>5. Tail(reply_mq[c]) = << >>
  <2> DEFINE q == Tail(reply_mq[c])
  <2>1. q \in Seq(Reply) /\ Len(q) = 0
    BY <1>1, <1>3
  <2> HIDE DEF q
  <2>2. q = << >>
    BY <2>1
  <2> QED BY <2>2 DEF q
<1> QED BY <1>1, <1>2, <1>4, <1>5 DEF ReplyInv

\* No assertion of the client fails.
LEMMA NoClientAborts == ASSUME Inv, NEW c \in Clients PROVE ~ClientAborts(c)
<1> SUFFICES ASSUME ClientAborts(c) PROVE FALSE
  OBVIOUS
<1>1. PICK p, size :
        /\ p \in Waiting /\ AssertFails(c, p, size)
        /\ p = "wait_read" => size = RetSize(io[c].a)
  BY DEF ClientAborts, Waiting
<1>2. Receives(c, p) /\ ~AnswerFits(c, size)
  BY <1>1 DEF AssertFails
<1>3. /\ pc[c] = p /\ Answer(c).type = Awaited(p)
      /\ p = "wait_read" => Answer(c).size = RetSize(io[c].a)
  BY <1>1, <1>2, AnswerInv
<1> QED BY <1>1, <1>2, <1>3 DEF AnswerFits

LEMMA InvOpenReturns ==
  ASSUME Inv, TypeOK', NEW c \in Clients, UNCHANGED <<serverVars, driverVars>>, OpenReturns(c)
  PROVE  Inv'
<1>1. /\ Receives(c, "wait_open") /\ pc[c] = "wait_open"
      /\ UNCHANGED <<request_mq, request_name, reply_name, request_mq_>>
  BY DEF OpenReturns, Receives
<1>2. /\ Answer(c).volume = c
      /\ Answer(c).err = 0 /\ Served(c) => vols[c] # Null
      /\ Answer(c).err # 0 => vols[c] = Null
      /\ reply_mq[c] # << >> /\ reply_mq'[c] = << >>
  BY <1>1, AnswerInv DEF Waiting
<1>3. ClientFrame(c)
  BY <1>1 DEF OpenReturns, Receives, Goto, Inv, TypeOK, ClientTypeOK, QueuesTypeOK,
     ClientFrame, driverVars
<1>4. \/ pc'[c] = "idle" /\ volume_'[c] = c /\ Answer(c).err = 0
      \/ pc'[c] = "failed" /\ volume_'[c] = volume_[c] /\ vols[c] = Null
  BY <1>2 DEF OpenReturns, Goto, Inv, TypeOK, ClientTypeOK
<1>5. ClientInv(c)'
  BY <1>1, <1>2, <1>3, <1>4 DEF Inv, ClientInv, NameInv, VolsInv, HandleInv, ReplyInv,
     Holding, Using, Before, Waiting, Served, ClientFrame, serverVars
<1>6. server = "up" => \A m \in Requests : m.from # c
  BY <1>1, <1>2, OnlyWrites DEF Waiting, Using
<1>7. RequestInv'
  BY <1>1, <1>3, <1>6, RequestsKept
<1> QED BY <1>1, <1>3, <1>5, <1>7, OrdinaryStep DEF Gone

LEMMA InvGetLengthReturns ==
  ASSUME Inv, TypeOK', NEW c \in Clients, UNCHANGED serverVars, GetLengthReturns(c)
  PROVE  Inv'
<1>1. /\ Receives(c, "wait_getsize") /\ pc[c] = "wait_getsize" /\ pc'[c] = "idle"
      /\ UNCHANGED <<request_mq, request_name, reply_name, request_mq_, volume_, io>>
  BY DEF GetLengthReturns, GetSizeReturns, Receives, Goto, Inv, TypeOK, ClientTypeOK
<1>2. reply_mq[c] # << >> /\ reply_mq'[c] = << >>
  BY <1>1, AnswerInv DEF Waiting
<1>3. ClientFrame(c)
  BY <1>1 DEF GetLengthReturns, GetSizeReturns, Receives, Goto, Inv, TypeOK, ClientTypeOK,
     QueuesTypeOK, ClientFrame
<1>4. ClientInv(c)'
  BY <1>1, <1>2, <1>3 DEF Inv, ClientInv, NameInv, VolsInv, HandleInv, ReplyInv, Holding, Using,
     Before, Served, ClientFrame, serverVars
<1>5. server = "up" => \A m \in Requests : m.from = c => RequestOK(m)'
  BY <1>1, <1>2, OnlyWrites, WritesStayOK DEF Waiting, Using
<1>6. RequestInv'
  BY <1>1, <1>3, <1>5, RequestsKept
<1> QED BY <1>1, <1>3, <1>4, <1>6, OrdinaryStep DEF Gone

LEMMA InvReadChunkReturns ==
  ASSUME Inv, TypeOK', NEW c \in Clients, UNCHANGED serverVars, ReadChunkReturns(c)
  PROVE  Inv'
<1>1. /\ Receives(c, "wait_read") /\ pc[c] = "wait_read" /\ pc'[c] = "io"
      /\ UNCHANGED <<request_mq, request_name, reply_name, request_mq_, volume_>>
  BY DEF ReadChunkReturns, ReadReturns, Receives, Goto, Inv, TypeOK, ClientTypeOK
<1>2. reply_mq[c] # << >> /\ reply_mq'[c] = << >>
  BY <1>1, AnswerInv DEF Waiting
<1>3. ClientFrame(c)
  BY <1>1 DEF ReadChunkReturns, ReadReturns, Receives, Goto, Inv, TypeOK, ClientTypeOK,
     QueuesTypeOK, ClientFrame
<1>4. ClientInv(c)'
  BY <1>1, <1>2, <1>3 DEF Inv, ClientInv, NameInv, VolsInv, HandleInv, ReplyInv, Holding, Using,
     Before, Served, ClientFrame, serverVars
<1>5. server = "up" => \A m \in Requests : m.from = c => RequestOK(m)'
  BY <1>1, <1>2, OnlyWrites, WritesStayOK DEF Waiting, Using
<1>6. RequestInv'
  BY <1>1, <1>3, <1>5, RequestsKept
<1> QED BY <1>1, <1>3, <1>4, <1>6, OrdinaryStep DEF Gone

\* Steps between calls, or between the chunks of a call, that only move pc and
\* the locals.
LEMMA InvLocal ==
  ASSUME Inv, TypeOK', NEW c \in Clients, UNCHANGED serverVars,
         \/ \E r, isWrite, buffer : StartIo(c, r, isWrite, buffer)
         \/ \E r : Misaligned(c, r)
         \/ IoReturns(c)
  PROVE  Inv'
<1>1. /\ pc[c] \in {"idle", "io"} /\ pc'[c] \in {"idle", "io"}
      /\ UNCHANGED <<queueVars, request_mq_, volume_>>
      /\ \A d \in Clients \ {c} : pc'[d] = pc[d] /\ io'[d] = io[d]
  BY DEF StartIo, Misaligned, IoReturns, Call, Goto, clientVars, Inv, TypeOK, ClientTypeOK
<1>2. ClientFrame(c) /\ UNCHANGED <<request_mq, request_name, reply_name, request_mq_, reply_mq>>
  BY <1>1 DEF ClientFrame, queueVars
<1>3. ClientInv(c)'
  BY <1>1, <1>2 DEF Inv, ClientInv, NameInv, VolsInv, HandleInv, ReplyInv, Holding, Using,
     Before, Waiting, Served, ClientFrame, serverVars
<1>4. server = "up" => \A m \in Requests : m.from = c => RequestOK(m)'
  BY <1>1, OnlyWrites, WritesStayOK DEF Using
<1>5. RequestInv'
  BY <1>2, <1>4, RequestsKept
<1> QED BY <1>1, <1>2, <1>3, <1>5, OrdinaryStep DEF Gone

LEMMA InvQemuKilled ==
  ASSUME Inv, TypeOK', NEW c \in Clients, UNCHANGED serverVars, QemuKilled(c),
         "wait_open" \notin KillPoints
  PROVE  Inv'
<1>1. /\ pc[c] \notin Gone \cup {"wait_open"} /\ pc'[c] = "killed"
      /\ UNCHANGED <<queueVars, request_mq_, volume_>>
      /\ \A d \in Clients \ {c} : pc'[d] = pc[d] /\ io'[d] = io[d]
  BY CvbdAssumption DEF QemuKilled, Die, Goto, Inv, TypeOK, ClientTypeOK
<1>2. ClientFrame(c) /\ UNCHANGED <<request_mq, request_name, reply_name, request_mq_, reply_mq>>
  BY <1>1 DEF ClientFrame, queueVars
<1>3. ClientInv(c)'
  BY <1>1, <1>2 DEF Inv, ClientInv, NameInv, VolsInv, HandleInv, ReplyInv, Holding, Using,
     Before, Waiting, Served, ClientFrame, serverVars
<1>4. ASSUME server = "up", NEW m \in Requests, m.from = c PROVE RequestOK(m)'
  <2>1. RequestOK(m)
    BY <1>4, RequestsOK
  <2> QED
    BY <1>1, <1>2, <1>4, <2>1 DEF RequestOK, After, InFile, ClientFrame, serverVars
<1>5. RequestInv'
  BY <1>2, <1>4, RequestsKept
<1> QED BY <1>1, <1>2, <1>3, <1>5, OrdinaryStep

LEMMA NothingThrows ==
  ASSUME ~CallsMayThrow, NEW c
  PROVE  ~OpenThrows(c) /\ ~CloseThrows(c) /\ ~GetLengthThrows(c) /\ ~IoThrows(c)
BY DEF OpenThrows, CloseThrows, GetLengthThrows, GetSizeThrows, IoThrows, ReadWriteThrows, Throws

LEMMA InvClient ==
  ASSUME Inv, TypeOK', NEW c \in Clients, ClientStep(c),
         Exclusive, "wait_open" \notin KillPoints, ~CallsMayThrow
  PROVE  Inv'
<1>1. CASE Progress(c)
  BY <1>1, InvCtorOpen, InvCtorCreate, InvSendOpen, InvOpenReturns, InvGetLengthReturns,
     InvReadChunkReturns, InvDestroy, InvWriteChunk, InvReadChunk, InvLocal, NoClientAborts
  DEF ClientStep, Progress
<1>2. CASE Environment(c)
  BY <1>2, InvCvbdOpen, InvGetLength, InvLocal, InvClose, InvQemuKilled, NothingThrows
  DEF ClientStep, Environment, cvbd_read, cvbd_write
<1> QED BY <1>1, <1>2 DEF ClientStep

-------------------------------------------------------------------------------
\* Steps of the server.  What the handling of a request of c leaves alone.
ServerFrame(c) ==
  /\ UNCHANGED <<server, epoch, request_name, reply_name, clientVars, driverVars>>
  /\ \A d \in Clients \ {c} : vols'[d] = vols[d] /\ reply_mq'[d] = reply_mq[d]

\* The request the server handles is the first of the queue.
LEMMA Received ==
  ASSUME Inv, NEW type, Receive(type), NEW m, m = Msg
  PROVE  /\ server = "up" /\ epoch \in Epochs /\ Pending \in Seq(Request) /\ Pending # << >>
         /\ m \in Request /\ m.from \in Clients /\ m.type = type /\ RequestOK(m)
         /\ Pending[1] = m /\ request_mq'[epoch] = Tail(Pending)
<1>1. server = "up" /\ Pending # << >> /\ m.type = type
  BY DEF Receive
<1>2. epoch \in Epochs /\ Pending \in Seq(Request)
  BY <1>1, RequestsTypes DEF Inv
<1>3. Pending[1] = m /\ 1 \in 1 .. Len(Pending) /\ m \in Request
  BY <1>1, <1>2 DEF Msg
<1>4. m \in Requests
  BY <1>3 DEF Requests
<1>5. RequestOK(m)
  BY <1>1, <1>4, RequestsOK
<1>6. request_mq'[epoch] = Tail(Pending)
  BY <1>2 DEF Receive, Pending, Inv, TypeOK, QueuesTypeOK
<1> QED BY <1>1, <1>2, <1>3, <1>5, <1>6 DEF Request

\* The requests behind the one that is handled.
LEMMA RequestsBehind ==
  ASSUME Inv, NEW type, Receive(type), NEW m, m = Msg, UNCHANGED <<server, epoch>>,
         \A n \in Requests : type = "REQ_WRITE" \/ n.from # m.from => RequestOK(n)'
  PROVE  RequestInv'
<1>1. /\ server = "up" /\ epoch \in Epochs /\ Pending \in Seq(Request) /\ Pending # << >>
      /\ m.type = type /\ Pending[1] = m /\ Pending' = Tail(Pending)
  BY Received DEF Pending
<1>2. /\ Len(Pending) \in Nat /\ Len(Pending) >= 1 /\ Len(Pending') = Len(Pending) - 1
      /\ \A i \in 1 .. Len(Pending') :
           i + 1 \in 2 .. Len(Pending) /\ Pending'[i] = Pending[i + 1]
  BY <1>1
<1>3. LastOfSender(Pending)
  BY <1>1 DEF Inv, RequestInv
<1>4. ASSUME NEW i \in 1 .. Len(Pending') PROVE RequestOK(Pending[i])'
  <2>1. PICK n \in Requests : n = Pending'[i] /\ n = Pending[i + 1]
    BY <1>2 DEF Requests
  <2>2. type # "REQ_WRITE" => n.from # m.from
    BY <1>1, <1>2, <1>3, <2>1 DEF LastOfSender
  <2>3. RequestOK(n)'
    BY <2>2
  <2> QED BY <2>1, <2>3 DEF RequestOK, InFile
<1>5. LastOfSender(Pending)'
  <2> SUFFICES ASSUME NEW i \in 1 .. Len(Pending'), NEW j \in (i + 1) .. Len(Pending'),
                      Pending'[i].type # "REQ_WRITE"
               PROVE  Pending'[j].from # Pending'[i].from
    BY DEF LastOfSender
  <2>1. /\ i + 1 \in 1 .. Len(Pending) /\ j + 1 \in (i + 1 + 1) .. Len(Pending)
        /\ Pending'[i] = Pending[i + 1] /\ Pending'[j] = Pending[j + 1]
    BY <1>2
  <2> QED BY <1>3, <2>1 DEF LastOfSender
<1> QED BY <1>4, <1>5 DEF RequestInv

\* A turn of the loop keeps the invariant if it does for the sender.
LEMMA ServerTurn ==
  ASSUME Inv, TypeOK', NEW type, Receive(type), NEW m, m = Msg, ServerFrame(m.from),
         type = "REQ_WRITE" => UNCHANGED <<vols, reply_mq>>,
         ClientInv(m.from)'
  PROVE  Inv'
<1>1. m.from \in Clients
  BY Received
<1>2. ASSUME NEW d \in Clients \ {m.from} PROVE ClientInv(d)'
  <2>1. ClientInv(d)
    BY DEF Inv
  <2> QED
    BY <2>1 DEF ServerFrame, ClientInv, NameInv, VolsInv, HandleInv, ReplyInv, Served, Answer,
       clientVars, driverVars
<1>3. OneUser' /\ EpochInv'
  BY DEF Inv, OneUser, EpochInv, ServerFrame, clientVars
<1>4. ASSUME NEW n \in Requests, type = "REQ_WRITE" \/ n.from # m.from PROVE RequestOK(n)'
  <2>1. RequestOK(n) /\ n.from \in Clients
    BY RequestsOK, RequestsTypes, Received DEF Inv
  <2>2. vols'[n.from] = vols[n.from] /\ reply_mq'[n.from] = reply_mq[n.from]
    BY <1>4, <2>1 DEF ServerFrame
  <2> QED BY <2>1, <2>2 DEF RequestOK, InFile, ServerFrame, clientVars, driverVars
<1>5. RequestInv'
  BY <1>4, RequestsBehind DEF ServerFrame
<1> QED BY <1>1, <1>2, <1>3, <1>5 DEF Inv

\* A reply goes to an empty queue.
LEMMA Replied ==
  ASSUME TypeOK, NEW c \in Clients, NEW m, reply_mq[c] = << >>, send_reply(c, m)
  PROVE  /\ reply_mq'[c] # << >> /\ Len(reply_mq'[c]) = 1 /\ Head(reply_mq'[c]) = m
         /\ \A d \in Clients \ {c} : reply_mq'[d] = reply_mq[d]
<1>1. reply_mq'[c] = Append(<< >>, m) /\ \A d \in Clients \ {c} : reply_mq'[d] = reply_mq[d]
  BY DEF send_reply, TypeOK, QueuesTypeOK
<1>2. reply_mq'[c] = << m >>
  BY <1>1
<1> QED BY <1>1, <1>2

\* What an answer to c does to the invariant of c.
LEMMA SenderAnswered ==
  ASSUME Inv, NEW c \in Clients, NEW r, reply_mq[c] = << >>, send_reply(c, r),
         UNCHANGED <<server, epoch, reply_name, clientVars, driverVars>>,
         VolsInv(c)', HandleInv(c)',
         \/ pc[c] = "killed"
         \/ /\ pc[c] \in Waiting /\ r.type = Awaited(pc[c])
            /\ pc[c] = "wait_read" => r.size = RetSize(io[c].a)
            /\ pc[c] = "wait_open" => /\ r.volume = c
                                      /\ r.err = 0 => vols'[c] # Null
                                      /\ r.err # 0 => vols'[c] = Null
  PROVE  ClientInv(c)'
<1>1. /\ Len(reply_mq'[c]) = 1 /\ Head(reply_mq'[c]) = r
  BY Replied DEF Inv
<1>2. UNCHANGED <<pc, io>> /\ Answer(c)' = r
  BY <1>1 DEF clientVars, driverVars, Answer
<1>3. ReplyInv(c)'
  BY <1>1, <1>2 DEF ReplyInv
<1>4. pc'[c] # "aborted" /\ NameInv(c)'
  BY <1>2 DEF Inv, ClientInv, NameInv
<1> QED BY <1>3, <1>4 DEF ClientInv

LEMMA InvOpen ==
  ASSUME Inv, TypeOK', UNCHANGED <<clientVars, driverVars>>,
         OpenOk \/ OpenTruncateFails
  PROVE  Inv'
<1>m. PICK m : m = Msg
  OBVIOUS
<1>c. PICK c : c = m.from
  OBVIOUS
<1>1. Receive("REQ_OPEN")
  BY DEF OpenOk, OpenTruncateFails
<1>2. /\ c \in Clients /\ m.name = VolumeOf[c] /\ pc[c] = "wait_open" /\ Served(c)
      /\ vols[c] = Null /\ reply_mq[c] = << >>
  BY <1>m, <1>c, <1>1, Received DEF RequestOK, Served
<1>3. reply_name[m.name] = c
  BY <1>2 DEF Inv, ClientInv, NameInv, Holding
<1>4. PICK e \in {0, -1} :
        /\ send_reply(c, OpenReply(c, e))
        /\ e = 0 => vols' = [vols EXCEPT ![c] = [file |-> VolumeOf[c], reply_mq |-> c]]
        /\ e = -1 => UNCHANGED vols
  BY <1>m, <1>c, <1>2, <1>3 DEF OpenOk, OpenTruncateFails, serverVars
<1>5. UNCHANGED <<server, epoch, request_name, reply_name>>
  BY DEF OpenOk, OpenTruncateFails, serverVars
<1>6. ServerFrame(c)
  <2>1. \A d \in Clients \ {c} : reply_mq'[d] = reply_mq[d]
    BY <1>2, <1>4, Replied DEF Inv
  <2>2. \A d \in Clients \ {c} : vols'[d] = vols[d]
    BY <1>4 DEF Inv, TypeOK, ServerTypeOK
  <2> QED BY <1>5, <2>1, <2>2 DEF ServerFrame
<1>7. /\ e = 0 => vols'[c] = [file |-> VolumeOf[c], reply_mq |-> c] /\ vols'[c] # Null
      /\ e = -1 => vols'[c] = Null
  <2>1. [file |-> VolumeOf[c], reply_mq |-> c] \in VolumeState
    BY <1>2, SharedMemAssumption DEF VolumeState
  <2> QED BY <1>2, <1>4, <2>1, SharedMemAssumption DEF Inv, TypeOK, ServerTypeOK
<1>8. VolsInv(c)' /\ HandleInv(c)'
  BY <1>2, <1>4, <1>5, <1>7 DEF VolsInv, HandleInv, Served, Before, Using, clientVars
<1>9. ClientInv(c)'
  <2> DEFINE r == OpenReply(c, e)
  <2>1. r.type = "REQ_OPEN" /\ r.volume = c /\ r.err = e
    BY DEF OpenReply
  <2> HIDE DEF r
  <2>2. send_reply(c, r)
    BY <1>4 DEF r
  <2>3. r.type = Awaited("wait_open")
    BY <2>1 DEF Awaited
  <2> QED BY <1>2, <1>4, <1>5, <1>7, <1>8, <2>1, <2>2, <2>3, SenderAnswered DEF Waiting
<1> QED BY <1>m, <1>c, <1>1, <1>6, <1>9, ServerTurn

LEMMA InvOpenCreateFails ==
  ASSUME Inv, TypeOK', UNCHANGED <<clientVars, driverVars>>, OpenCreateFails
  PROVE  Inv'
<1>m. PICK m : m = Msg
  OBVIOUS
<1>1. Receive("REQ_OPEN") /\ UNCHANGED <<serverVars, reply_mq, request_name, reply_name>>
  BY DEF OpenCreateFails
<1>2. m.from \in Clients
  BY <1>m, <1>1, Received
<1>3. ServerFrame(m.from)
  BY <1>1 DEF ServerFrame, serverVars
<1>4. ClientInv(m.from)'
  BY <1>1, <1>2 DEF Inv, ClientInv, NameInv, VolsInv, HandleInv, ReplyInv, Served, Answer,
     serverVars, clientVars, driverVars
<1> QED BY <1>m, <1>1, <1>3, <1>4, ServerTurn

\* Nobody else's VolumeState is freed, and nobody needs the one that is.
LEMMA InvServerClose ==
  ASSUME Inv, TypeOK', UNCHANGED <<clientVars, driverVars>>, close
  PROVE  Inv'
<1>m. PICK m : m = Msg
  OBVIOUS
<1>c. PICK c : c = m.from
  OBVIOUS
<1>1. /\ Receive("REQ_CLOSE") /\ UNCHANGED <<server, epoch, reply_mq, request_name, reply_name>>
      /\ vols' = [d \in Clients |-> IF d = m.volume THEN Null ELSE vols[d]]
  BY <1>m DEF close
<1>2. c \in Clients /\ m.volume = c /\ pc[c] \in After
  BY <1>m, <1>c, <1>1, Received DEF RequestOK
<1>3. ServerFrame(c) /\ vols'[c] = Null
  BY <1>1, <1>2 DEF ServerFrame
<1>4. ClientInv(c)'
  BY <1>1, <1>2, <1>3 DEF Inv, ClientInv, NameInv, VolsInv, HandleInv, ReplyInv, After, Using,
     Waiting, clientVars
<1> QED BY <1>m, <1>c, <1>1, <1>3, <1>4, ServerTurn

LEMMA InvServerWrite ==
  ASSUME Inv, TypeOK', UNCHANGED <<clientVars, driverVars>>, write
  PROVE  Inv'
<1>m. PICK m : m = Msg
  OBVIOUS
<1>1. /\ Receive("REQ_WRITE")
      /\ UNCHANGED <<server, epoch, vols, reply_mq, request_name, reply_name>>
  BY DEF write
<1>2. m.from \in Clients
  BY <1>m, <1>1, Received
<1>3. ServerFrame(m.from)
  BY <1>1 DEF ServerFrame
<1>4. ClientInv(m.from)'
  BY <1>1, <1>2 DEF Inv, ClientInv, NameInv, VolsInv, HandleInv, ReplyInv, Served, Answer,
     clientVars, driverVars
<1> QED BY <1>m, <1>1, <1>3, <1>4, ServerTurn

\* GETSIZE and READ are answered through the VolumeState, whose queue is the
\* sender's own.
LEMMA InvAnswered ==
  ASSUME Inv, TypeOK', UNCHANGED <<clientVars, driverVars>>, getsize \/ read
  PROVE  Inv'
<1>m. PICK m : m = Msg
  OBVIOUS
<1>c. PICK c : c = m.from
  OBVIOUS
<1>1. PICK type \in {"REQ_GETSIZE", "REQ_READ"} : Receive(type)
  BY DEF getsize, read
<1>2. UNCHANGED <<serverVars, request_name, reply_name>>
  BY DEF getsize, read
<1>3. RequestOK(m) /\ m.type = type /\ c \in Clients
  BY <1>m, <1>c, <1>1, Received
<1>4. m.volume = c /\ vols[c] # Null /\ reply_mq[c] = << >>
  BY <1>1, <1>3, <1>c DEF RequestOK
<1>5. vols[c].reply_mq = c
  <2>1. vols[c] = [file |-> VolumeOf[c], reply_mq |-> c]
    BY <1>3, <1>4 DEF Inv, ClientInv, VolsInv
  <2> QED BY <2>1
<1>6. PICK r : /\ send_reply(c, r) /\ r.type = m.type
               /\ m.type = "REQ_READ" => r.size = m.size
  <2>1. CASE getsize
    <3>1. PICK size : send_reply(c, GetSizeReply(m, size))
      BY <2>1, <1>m, <1>4, <1>5 DEF getsize
    <3>2. GetSizeReply(m, size).type = m.type /\ m.type = "REQ_GETSIZE"
      BY <2>1, <1>m DEF GetSizeReply, getsize, Receive
    <3> QED BY <3>1, <3>2
  <2>2. CASE read
    <3>1. PICK data : send_reply(c, ReadReply(m, m.size, data))
      BY <2>2, <1>m, <1>4, <1>5 DEF read
    <3>2. ReadReply(m, m.size, data).type = m.type /\ ReadReply(m, m.size, data).size = m.size
      BY DEF ReadReply
    <3> QED BY <3>1, <3>2
  <2> QED BY <2>1, <2>2
<1>7. ServerFrame(c)
  BY <1>2, <1>3, <1>4, <1>6, Replied DEF Inv, ServerFrame, serverVars
<1>8. VolsInv(c)' /\ HandleInv(c)'
  BY <1>2, <1>3 DEF Inv, ClientInv, VolsInv, HandleInv, Served, serverVars, clientVars
<1>9. \/ pc[c] = "killed"
      \/ /\ pc[c] \in {"wait_getsize", "wait_read"} /\ m.type = Awaited(pc[c])
         /\ pc[c] = "wait_read" => m.type = "REQ_READ" /\ m.size = RetSize(io[c].a)
  <2>1. Awaited("wait_getsize") = "REQ_GETSIZE" /\ Awaited("wait_read") = "REQ_READ"
    BY DEF Awaited
  <2> QED BY <1>1, <1>3, <1>c, <2>1 DEF RequestOK
<1>10. ClientInv(c)'
  BY <1>2, <1>3, <1>4, <1>6, <1>8, <1>9, SenderAnswered DEF serverVars, Waiting
<1> QED BY <1>m, <1>c, <1>1, <1>7, <1>10, ServerTurn

\* A server that is not there holds nothing and serves nobody.
LEMMA InvServerGone ==
  ASSUME Inv, TypeOK', UNCHANGED <<clientVars, driverVars>>,
         server' # "up", \A c \in Clients : vols'[c] = Null,
         UNCHANGED <<epoch, reply_mq, reply_name>>,
         request_name' \in {request_name, Null}
  PROVE  Inv'
<1>1. ASSUME NEW c \in Clients PROVE ClientInv(c)'
  <2>1. ClientInv(c) /\ ~Served(c)' /\ vols'[c] = Null
    BY DEF Inv, Served
  <2> QED
    BY <2>1 DEF ClientInv, NameInv, VolsInv, HandleInv, ReplyInv, Answer, clientVars, driverVars
<1>2. OneUser' /\ EpochInv'
  BY DEF Inv, OneUser, EpochInv, clientVars
<1>3. RequestInv'
  BY DEF RequestInv
<1> QED BY <1>1, <1>2, <1>3 DEF Inv

\* The queue of a new server is empty, and nobody has it mapped.
LEMMA InvStartCreate ==
  ASSUME Inv, TypeOK', UNCHANGED <<clientVars, driverVars>>, StartCreate
  PROVE  Inv'
<1>1. /\ server = "starting" /\ server' = "up" /\ epoch' = epoch + 1 /\ request_name' = epoch + 1
      /\ UNCHANGED <<reply_mq, reply_name, vols>>
  BY DEF StartCreate
<1>2. epoch \in Nat /\ epoch + 1 \in Epochs
  BY <1>1, SharedMemAssumption DEF Inv, TypeOK, ServerTypeOK, Epochs
<1>3. Pending' = << >>
  BY <1>1, <1>2 DEF StartCreate, Pending, Inv, TypeOK, QueuesTypeOK
<1>4. ASSUME NEW c \in Clients PROVE ClientInv(c)'
  <2>1. ClientInv(c) /\ vols[c] = Null
    BY <1>1 DEF Inv, ClientInv, VolsInv, Served
  <2>2. pc[c] \in Using \cup {"wait_open"} => request_mq_[c] # Null
    BY DEF Inv, TypeOK, ClientTypeOK, Using, Gone
  <2>3. pc[c] \in Using \cup {"wait_open"} => request_mq_[c] \in Epochs /\ request_mq_[c] <= epoch
    BY <2>2 DEF Inv, TypeOK, ClientTypeOK, EpochInv
  <2>4. pc[c] \in Using \cup {"wait_open"} => ~Served(c)'
    BY <1>1, <1>2, <2>3 DEF Served, Epochs, clientVars
  <2> QED
    BY <1>1, <2>1, <2>4 DEF ClientInv, NameInv, VolsInv, HandleInv, ReplyInv, Answer, clientVars,
       driverVars
<1>5. OneUser'
  BY DEF Inv, OneUser, clientVars
<1>6. EpochInv'
  <2>1. ASSUME NEW c \in Clients, request_mq_[c] # Null PROVE request_mq_[c] <= epoch + 1
    <3>1. request_mq_[c] \in Epochs /\ request_mq_[c] <= epoch
      BY <2>1 DEF Inv, TypeOK, ClientTypeOK, EpochInv
    <3> QED BY <3>1, <1>2 DEF Epochs
  <2> QED BY <1>1, <1>2, <2>1 DEF EpochInv, clientVars
<1>7. RequestInv'
  BY <1>3 DEF RequestInv, LastOfSender
<1> QED BY <1>4, <1>5, <1>6, <1>7 DEF Inv

LEMMA InvServer == ASSUME Inv, TypeOK', ServerStep PROVE Inv'
<1>1. UNCHANGED <<clientVars, driverVars>>
  BY DEF ServerStep
<1>2. CASE StartRemove
  <2>1. \A c \in Clients : vols[c] = Null
    BY <1>2 DEF StartRemove, Inv, ClientInv, VolsInv, Served
  <2> QED BY <1>1, <1>2, <2>1, InvServerGone DEF StartRemove
<1>3. CASE Kill \/ OpenAborts \/ IoAborts
  <2>1. /\ server' # "up" /\ vols' = [c \in Clients |-> Null]
        /\ UNCHANGED <<epoch, reply_mq, reply_name, request_name>>
    BY <1>3 DEF Kill, OpenAborts, IoAborts, Exit
  <2> QED BY <1>1, <2>1, InvServerGone
<1>4. ~fsync
  <2> SUFFICES ASSUME fsync PROVE FALSE
    OBVIOUS
  <2>m. PICK m : m = Msg
    OBVIOUS
  <2>1. Receive("REQ_FSYNC")
    BY DEF fsync
  <2> QED BY <2>m, <2>1, Received DEF RequestOK
<1> QED
  BY <1>1, <1>2, <1>3, <1>4, InvStartCreate, InvOpen, InvOpenCreateFails, InvServerClose,
     InvServerWrite, InvAnswered
  DEF ServerStep, ServerNext, handle_requests, open

-------------------------------------------------------------------------------
LEMMA InvNext ==
  ASSUME Inv, [Next]_vars, Exclusive, "wait_open" \notin KillPoints, ~CallsMayThrow
  PROVE  Inv'
<1>1. TypeOK'
  BY TypeNext DEF Inv
<1>2. CASE Next
  BY <1>1, <1>2, InvServer, InvClient DEF Next
<1>3. CASE UNCHANGED vars
  BY <1>1, <1>3 DEF vars, queueVars, serverVars, clientVars, driverVars, Inv, OneUser, EpochInv,
     ClientInv, NameInv, VolsInv, HandleInv, ReplyInv, Served, Answer, RequestInv, RequestOK,
     LastOfSender, Pending, InFile
<1> QED BY <1>2, <1>3

(***************************************************************************)
(* From Spec to the invariant, under the three provisos.                   *)
(***************************************************************************)
LEMMA InvHolds ==
  ASSUME Exclusive, "wait_open" \notin KillPoints, ~CallsMayThrow
  PROVE  Spec => []Inv
<1>1. Inv /\ [Next]_vars => Inv'
  BY InvNext
<1> QED BY InvInit, <1>1, PTL DEF Spec

(***************************************************************************)
(* With one user per volume, no QEMU killed inside its OPEN and no queue   *)
(* call that throws, a reply queue never holds anything but the one answer *)
(* its client is blocked for: the assertions after the receives of         *)
(* SharedMemClient.cpp cannot fail and the server never blocks on a full   *)
(* reply queue, for any number of clients, whatever system call fails and  *)
(* however often the server dies and is started again.                     *)
(***************************************************************************)
THEOREM RepliesAlwaysMatch ==
  ASSUME Exclusive, "wait_open" \notin KillPoints, ~CallsMayThrow
  PROVE  Spec => []RepliesMatch
<1>1. Inv => RepliesMatch
  <2> SUFFICES ASSUME Inv, NEW c \in Clients
               PROVE  /\ Len(reply_mq[c]) <= 1
                      /\ reply_mq[c] # << >> =>
                           \/ pc[c] = "killed"
                           \/ /\ pc[c] \in Waiting
                              /\ AnswerFits(c, IF pc[c] = "wait_read" THEN RetSize(io[c].a) ELSE 0)
    BY DEF RepliesMatch
  <2>1. ReplyInv(c)
    BY DEF Inv, ClientInv
  <2>2. CASE reply_mq[c] = << >>
    BY <2>2
  <2>3. CASE reply_mq[c] # << >>
    <3>1. Len(reply_mq[c]) = 1
      BY <2>1, <2>3 DEF ReplyInv
    <3>2. \/ pc[c] = "killed"
          \/ /\ pc[c] \in Waiting
             /\ AnswerFits(c, IF pc[c] = "wait_read" THEN RetSize(io[c].a) ELSE 0)
      BY <2>1, <2>3 DEF ReplyInv, AnswerFits
    <3> QED BY <3>1, <3>2
  <2> QED BY <2>2, <2>3
<1> QED BY <1>1, InvHolds, PTL

(***************************************************************************)
(* Under the same provisos every pointer IOHandler casts out of a request  *)
(* is a VolumeState of this server process that is still allocated and is  *)
(* the sender's own, and no request of the sender follows its CLOSE.       *)
(***************************************************************************)
THEOREM HandlesAlwaysLive ==
  ASSUME Exclusive, "wait_open" \notin KillPoints, ~CallsMayThrow
  PROVE  Spec => []HandlesLive
<1>1. Inv => HandlesLive
  <2> SUFFICES ASSUME Inv, server = "up", NEW i \in 1 .. Len(Pending), Pending[i].type # "REQ_OPEN",
                      NEW c, c = Pending[i].from
               PROVE  /\ Pending[i].volume = c
                      /\ vols[c] = [file |-> VolumeOf[c], reply_mq |-> c]
                      /\ Pending[i].type = "REQ_CLOSE" =>
                           \A j \in (i + 1) .. Len(Pending) : Pending[j].volume # c
    BY DEF HandlesLive
  <2>1. RequestOK(Pending[i]) /\ Pending[i].from \in Clients
    BY RequestsTypes DEF Inv, RequestInv, Requests
  <2>2. Pending[i].volume = c /\ vols[c] # Null /\ c \in Clients
    BY <2>1 DEF RequestOK
  <2>3. vols[c] = [file |-> VolumeOf[c], reply_mq |-> c]
    BY <2>2 DEF Inv, ClientInv, VolsInv
  <2>4. ASSUME Pending[i].type = "REQ_CLOSE", NEW j \in (i + 1) .. Len(Pending)
        PROVE  Pending[j].volume # c
    <3>1. Pending[j].from # c
      BY <2>4 DEF Inv, RequestInv, LastOfSender
    <3>2. j \in 1 .. Len(Pending)
      BY RequestsTypes DEF Inv
    <3>3. Pending[j].volume = Null \/ Pending[j].volume = Pending[j].from
      BY <3>2 DEF Inv, RequestInv, RequestOK
    <3> QED BY <2>2, <3>1, <3>3, SharedMemAssumption
  <2> QED BY <2>2, <2>3, <2>4
<1> QED BY <1>1, InvHolds, PTL

(***************************************************************************)
(* If, besides, opening, reading and writing the files does not fail, no   *)
(* client brings the server down, whenever clients are killed: the asserts *)
(* of IOHandler hold and its VolumeState constructor never throws.         *)
(***************************************************************************)
THEOREM ServerAlwaysSurvives ==
  ASSUME Exclusive, "wait_open" \notin KillPoints, ~CallsMayThrow, Faults \cap {"open", "io"} = {}
  PROVE  Spec => []ServerNeverAborts
<1>1. Init => ServerNeverAborts
  BY DEF Init, ServerInit, ServerNeverAborts
<1>2. Inv => ~OpenAborts
  <2> SUFFICES ASSUME Inv, OpenAborts PROVE FALSE
    OBVIOUS
  <2>m. PICK m : m = Msg
    OBVIOUS
  <2>1. Receive("REQ_OPEN") /\ reply_name[m.name] = Null
    BY <2>m DEF OpenAborts
  <2>2. m.from \in Clients /\ m.name = VolumeOf[m.from] /\ pc[m.from] = "wait_open"
    BY <2>m, <2>1, Received DEF RequestOK
  <2>3. reply_name[m.name] = m.from
    BY <2>2 DEF Inv, ClientInv, NameInv, Holding
  <2> QED BY <2>1, <2>2, <2>3, SharedMemAssumption
<1>3. Inv => ~IoAborts
  <2> SUFFICES ASSUME Inv, IoAborts PROVE FALSE
    OBVIOUS
  <2>m. PICK m : m = Msg
    OBVIOUS
  <2>1. PICK type \in RequestType \ {"REQ_OPEN"} : Receive(type)
    BY DEF IoAborts
  <2>2. m.from \in Clients /\ m.type = type /\ RequestOK(m)
    BY <2>m, <2>1, Received
  <2>3. Allocated(m.volume)
    BY <2>1, <2>2, SharedMemAssumption DEF RequestOK, Allocated
  <2>4. m.type = "REQ_READ" => InFile(m)
    BY <2>2 DEF RequestOK
  <2> QED BY <2>m, <2>3, <2>4 DEF IoAborts, BadPointer, ReadFails
<1>4. Inv /\ ServerNeverAborts /\ [Next]_vars => ServerNeverAborts'
  <2> SUFFICES ASSUME Inv, ServerNeverAborts, [Next]_vars PROVE server' # "aborted"
    BY DEF ServerNeverAborts
  <2>1. CASE ServerStep
    BY <1>2, <1>3, <2>1 DEF ServerStep, ServerNext, handle_requests, open, ServerNeverAborts,
       StartRemove, StartCreate, Kill, Exit, OpenOk, OpenTruncateFails, OpenCreateFails, close,
       getsize, fsync, write, read, serverVars
  <2>2. CASE UNCHANGED server
    BY <2>2 DEF ServerNeverAborts
  <2> QED BY <2>1, <2>2 DEF Next, ClientStep, serverVars, vars
<1> QED BY <1>1, <1>4, InvHolds, PTL DEF Spec

-------------------------------------------------------------------------------
(***************************************************************************)
(* A request stays in the queue until the server receives it.              *)
(***************************************************************************)
LEMMA RequestsStay ==
  ASSUME Inv, TypeOK', NEW c \in Clients, ClientStep(c), server = "up"
  PROVE  Requests \subseteq Requests'
<1>1. epoch \in Epochs /\ Pending \in Seq(Request) /\ UNCHANGED epoch
  BY RequestsTypes DEF Inv, ClientStep, serverVars
<1>2. \/ UNCHANGED request_mq
      \/ \E m, p : Send(c, m, p) /\ pc[c] \notin {"ctor_open"} \cup Gone
  BY DEF ClientStep, Progress, Environment, CtorOpen, CtorCreate, send_open, OpenReturns,
     GetLengthReturns, GetSizeReturns, ReadChunkReturns, ReadReturns, Destroy, WriteChunk,
     send_write, ReadChunk, send_read, IoReturns, ClientAborts, AssertFails, Receives, cvbd_open,
     CtorRemove, cvbd_getlength, send_getsize, Misaligned, cvbd_write, cvbd_read, StartIo,
     cvbd_close, send_close, OpenThrows, CloseThrows, GetLengthThrows, GetSizeThrows, IoThrows,
     ReadWriteThrows, Throws, QemuKilled, Die, queueVars, Gone
<1>3. CASE UNCHANGED request_mq
  BY <1>1, <1>3 DEF Requests, Pending
<1>4. CASE \E m, p : Send(c, m, p) /\ pc[c] \notin {"ctor_open"} \cup Gone
  <2>1. PICK m, p : Send(c, m, p) /\ pc[c] \notin {"ctor_open"} \cup Gone
    BY <1>4
  <2>2. request_mq_[c] \in Epochs
    BY <2>1 DEF Inv, TypeOK, ClientTypeOK
  <2>3. Pending' = Pending \/ Pending' = Append(Pending, m)
    BY <1>1, <2>1, <2>2 DEF Pending, Send, send_request, Inv, TypeOK, QueuesTypeOK
  <2>4. \A i \in 1 .. Len(Pending) : i \in 1 .. Len(Pending') /\ Pending'[i] = Pending[i]
    BY <1>1, <2>3
  <2> QED BY <2>4 DEF Requests
<1> QED BY <1>2, <1>3, <1>4

LEMMA RequestsTaken ==
  ASSUME Inv, NEW type, Receive(type), UNCHANGED epoch
  PROVE  Requests \ {Msg} \subseteq Requests'
<1>m. PICK m : m = Msg
  OBVIOUS
<1>1. /\ Pending \in Seq(Request) /\ Pending # << >> /\ Pending[1] = m /\ Pending' = Tail(Pending)
  BY <1>m, Received DEF Pending
<1>2. ASSUME NEW i \in 1 .. Len(Pending), i # 1
      PROVE  i - 1 \in 1 .. Len(Pending') /\ Pending'[i - 1] = Pending[i]
  BY <1>1, <1>2
<1> QED BY <1>m, <1>1, <1>2 DEF Requests

\* The client has a request of that type in the queue.
HasRequest(c, type) == \E m \in Requests : m.from = c /\ m.type = type

\* A reply queue is emptied by its client only.
LEMMA RepliesStay ==
  ASSUME Inv, ServerStep, NEW c \in Clients, reply_mq'[c] = << >>
  PROVE  reply_mq[c] = << >>
<1>1. UNCHANGED reply_mq \/ \E d, m : send_reply(d, m)
  BY DEF ServerStep, ServerNext, StartRemove, StartCreate, Kill, handle_requests, open, OpenOk,
     OpenTruncateFails, OpenCreateFails, OpenAborts, close, getsize, fsync, write, read, IoAborts
<1>2. ASSUME NEW d, NEW m, send_reply(d, m), reply_mq[c] # << >> PROVE FALSE
  <2>1. reply_mq[c] \in Seq(Reply) /\ reply_mq'[c] \in {reply_mq[c], Append(reply_mq[c], m)}
    BY <1>2 DEF send_reply, Inv, TypeOK, QueuesTypeOK
  <2> QED BY <1>2, <2>1
<1> QED BY <1>1, <1>2

\* Every request that somebody waits for is answered, whatever fails, except
\* an OPEN whose file cannot be created.
LEMMA Answered ==
  ASSUME Inv, ServerStep, NEW type \in {"REQ_OPEN", "REQ_GETSIZE", "REQ_READ"}, Receive(type),
         server' = "up", "create" \notin Faults, NEW m, m = Msg
  PROVE  reply_mq'[m.from] # << >>
<1>1. /\ m.from \in Clients /\ m.type = type /\ RequestOK(m)
      /\ server = "up" /\ \A t : Receive(t) => t = type
  BY Received DEF Receive
<1>2. reply_mq[m.from] = << >>
  BY <1>1 DEF RequestOK
<1>3. OpenOk \/ OpenTruncateFails \/ getsize \/ read
  BY <1>1 DEF ServerStep, ServerNext, StartRemove, StartCreate, Kill, handle_requests, open,
     OpenCreateFails, OpenAborts, Exit, close, fsync, write, IoAborts
<1>4. CASE OpenOk \/ OpenTruncateFails
  <2>1. type = "REQ_OPEN"
    BY <1>1, <1>4 DEF OpenOk, OpenTruncateFails
  <2>2. reply_name[m.name] = m.from
    BY <1>1, <2>1 DEF RequestOK, Inv, ClientInv, NameInv, Holding
  <2>3. \E r : send_reply(m.from, r)
    BY <1>4, <2>2 DEF OpenOk, OpenTruncateFails
  <2> QED BY <1>1, <1>2, <2>3, Replied DEF Inv
<1>5. CASE getsize \/ read
  <2>1. type # "REQ_OPEN"
    BY <1>1, <1>5 DEF getsize, read
  <2>2. m.volume = m.from /\ vols[m.from] = [file |-> VolumeOf[m.from], reply_mq |-> m.from]
    BY <1>1, <2>1 DEF RequestOK, Inv, ClientInv, VolsInv
  <2>3. vols[m.volume].reply_mq = m.from
    BY <2>2
  <2>4. \E r : send_reply(m.from, r)
    BY <1>5, <2>3 DEF getsize, read
  <2> QED BY <1>1, <1>2, <2>4, Replied DEF Inv
<1> QED BY <1>3, <1>4, <1>5

\* A waiting client that the server serves and has not answered.
Unanswered(c) == pc[c] \in Waiting /\ Served(c) /\ reply_mq[c] = << >>

\* How a client comes to wait: it sends the request whose answer it awaits.
LEMMA WaitingStarts ==
  ASSUME Inv, TypeOK', NEW d \in Clients, ClientStep(d), NEW c \in Clients, Unanswered(c)'
  PROVE  (Unanswered(c) /\ pc'[c] = pc[c]) \/ HasRequest(c, Awaited(pc[c]))'
<1>1. CASE send_open(d) \/ cvbd_getlength(d) \/ ReadChunk(d)
  <2>1. PICK m, p : /\ Send(d, m, p) /\ p \in Waiting /\ m.from = d /\ m.type = Awaited(p)
                    /\ pc[d] \in {"open", "idle", "io"}
    BY <1>1 DEF send_open, cvbd_getlength, send_getsize, ReadChunk, send_read, OpenRequest,
       GetSizeRequest, ReadRequest, Header, Awaited, Waiting
  <2>2. CASE d = c
    <3>1. pc'[c] = p /\ UNCHANGED <<server, epoch, request_mq_>> /\ request_mq_[c] = epoch
      BY <2>1, <2>2 DEF Send, Goto, Inv, TypeOK, ClientTypeOK, ClientStep, serverVars,
         Unanswered, Served
    <3>2. epoch \in Epochs /\ Pending \in Seq(Request)
      BY <3>1, RequestsTypes DEF Inv, Unanswered, Served
    <3>3. Pending' = Append(Pending, m)
      BY <2>1, <2>2, <3>1, <3>2 DEF Send, send_request, Pending, Inv, TypeOK, QueuesTypeOK
    <3>4. Len(Pending) + 1 \in 1 .. Len(Pending') /\ Pending'[Len(Pending) + 1] = m
      BY <3>2, <3>3
    <3>5. m \in Requests'
      BY <3>4 DEF Requests
    <3> QED BY <2>1, <2>2, <3>1, <3>5 DEF HasRequest
  <2>3. CASE d # c
    BY <2>1, <2>3 DEF Send, Goto, Inv, TypeOK, ClientTypeOK, ClientStep, serverVars, Unanswered,
       Served
  <2> QED BY <2>2, <2>3
<1>2. CASE /\ UNCHANGED request_mq_
           /\ \A e \in Clients : pc'[e] \in Waiting =>
                pc'[e] = pc[e] /\ reply_mq'[e] = reply_mq[e]
  BY <1>2 DEF Unanswered, Served, ClientStep, serverVars
<1>3. CASE CtorOpen(d)
  BY <1>3 DEF CtorOpen, Goto, queueVars, Inv, TypeOK, ClientTypeOK, Unanswered, Waiting, Served,
     ClientStep, serverVars
<1>4. ASSUME Progress(d), ~CtorOpen(d), ~send_open(d), ~ReadChunk(d)
      PROVE  /\ UNCHANGED request_mq_
             /\ \A e \in Clients : pc'[e] \in Waiting =>
                  pc'[e] = pc[e] /\ reply_mq'[e] = reply_mq[e]
  <2>1. CASE OpenReturns(d) \/ GetLengthReturns(d) \/ ReadChunkReturns(d) \/ ClientAborts(d)
    <3>1. PICK p, q : Receives(d, p) /\ Goto(d, q) /\ q \in {"idle", "failed", "io", "aborted"}
      BY <2>1 DEF OpenReturns, GetLengthReturns, GetSizeReturns, ReadChunkReturns, ReadReturns,
         ClientAborts, AssertFails
    <3> QED BY <3>1 DEF Receives, Goto, Inv, TypeOK, ClientTypeOK, QueuesTypeOK, Waiting
  <2>2. CASE CtorCreate(d) \/ Destroy(d) \/ WriteChunk(d) \/ IoReturns(d)
    BY <2>2 DEF CtorCreate, Destroy, WriteChunk, send_write, Send, IoReturns, Goto, queueVars, Inv,
       TypeOK, ClientTypeOK, Waiting
  <2> QED BY <1>4, <2>1, <2>2 DEF Progress
<1>5. ASSUME Environment(d), ~cvbd_getlength(d)
      PROVE  /\ UNCHANGED request_mq_
             /\ \A e \in Clients : pc'[e] \in Waiting =>
                  pc'[e] = pc[e] /\ reply_mq'[e] = reply_mq[e]
  BY <1>5 DEF Environment, cvbd_open, CtorRemove, Misaligned, cvbd_write, cvbd_read, StartIo,
     cvbd_close, send_close, Send, OpenThrows, CloseThrows, GetLengthThrows, GetSizeThrows, IoThrows,
     ReadWriteThrows, Throws, QemuKilled, Die, Goto, queueVars, clientVars, Inv, TypeOK,
     ClientTypeOK, Waiting
<1> QED BY <1>1, <1>2, <1>3, <1>4, <1>5 DEF ClientStep

LEMMA CallsKept ==
  ASSUME Inv, TypeOK', [Next]_vars, "create" \notin Faults,
         \A c \in Clients : Unanswered(c) => HasRequest(c, Awaited(pc[c])),
         NEW c \in Clients, Unanswered(c)'
  PROVE  HasRequest(c, Awaited(pc[c]))'
<1>1. ASSUME NEW d \in Clients, ClientStep(d) PROVE HasRequest(c, Awaited(pc[c]))'
  <2>1. CASE Unanswered(c) /\ pc'[c] = pc[c]
    <3>1. HasRequest(c, Awaited(pc[c])) /\ server = "up"
      BY <2>1 DEF Unanswered, Served
    <3>2. Requests \subseteq Requests'
      BY <1>1, <3>1, RequestsStay
    <3> QED BY <2>1, <3>1, <3>2 DEF HasRequest
  <2> QED BY <1>1, <2>1, WaitingStarts
<1>2. CASE ServerStep
  <2>1. UNCHANGED <<pc, request_mq_>> /\ server' = "up" /\ pc[c] \in Waiting /\ reply_mq[c] = << >>
    BY <1>2, RepliesStay DEF ServerStep, clientVars, Unanswered, Served
  <2>2. ~StartCreate
    <3> SUFFICES ASSUME StartCreate PROVE FALSE
      OBVIOUS
    <3>1. epoch' = epoch + 1 /\ request_mq_[c] = epoch' /\ epoch \in Nat
      BY <2>1 DEF StartCreate, Unanswered, Served, Inv, TypeOK, ServerTypeOK
    <3>2. request_mq_[c] # Null
      BY <2>1 DEF Inv, TypeOK, ClientTypeOK, Waiting, Gone
    <3>3. request_mq_[c] <= epoch
      BY <3>2 DEF Inv, EpochInv
    <3> QED BY <3>1, <3>3
  <2>3. PICK type : Receive(type) /\ UNCHANGED <<server, epoch>>
    BY <1>2, <2>1, <2>2 DEF ServerStep, ServerNext, StartRemove, Kill, Exit, handle_requests, open,
       OpenOk, OpenTruncateFails, OpenCreateFails, OpenAborts, close, getsize, fsync, write, read,
       IoAborts, serverVars
  <2>4. HasRequest(c, Awaited(pc[c]))
    BY <2>1, <2>3 DEF Unanswered, Served
  <2>5. PICK n \in Requests : n.from = c /\ n.type = Awaited(pc[c])
    BY <2>4 DEF HasRequest
  <2>6. n # Msg
    <3> SUFFICES ASSUME n = Msg PROVE FALSE
      OBVIOUS
    <3>1. type = n.type /\ type \in {"REQ_OPEN", "REQ_GETSIZE", "REQ_READ"}
      BY <2>1, <2>3, <2>5 DEF Receive, Awaited, Waiting
    <3>2. reply_mq'[n.from] # << >>
      BY <1>2, <2>1, <2>3, <3>1, Answered
    <3> QED BY <2>5, <3>2 DEF Unanswered
  <2>7. n \in Requests'
    BY <2>3, <2>6, RequestsTaken
  <2> QED BY <2>1, <2>5, <2>7 DEF HasRequest
<1>3. CASE UNCHANGED vars
  BY <1>3 DEF vars, queueVars, serverVars, clientVars, Unanswered, Served, HasRequest, Requests,
     Pending
<1> QED BY <1>1, <1>2, <1>3 DEF Next

(***************************************************************************)
(* Under the same provisos a client blocked on the running server has its  *)
(* request in the queue or its reply delivered: no handler, on no error    *)
(* path, forgets to answer. The one exception of the code is a file that   *)
(* cannot be created, for which IOHandler::open has no queue to answer to. *)
(***************************************************************************)
THEOREM NoCallIsLost ==
  ASSUME Exclusive, "wait_open" \notin KillPoints, ~CallsMayThrow, "create" \notin Faults
  PROVE  Spec => []NoLostCall
<1> DEFINE Calls == \A c \in Clients : Unanswered(c) => HasRequest(c, Awaited(pc[c]))
<1>1. Init => Calls
  BY DEF Init, ClientInit, Unanswered, Waiting
<1>2. Inv /\ Calls /\ [Next]_vars => Calls'
  <2> SUFFICES ASSUME Inv, Calls, [Next]_vars, NEW c \in Clients, Unanswered(c)'
               PROVE  HasRequest(c, Awaited(pc[c]))'
    OBVIOUS
  <2>1. TypeOK'
    BY TypeNext DEF Inv
  <2> QED BY <2>1, CallsKept
<1>3. Calls => NoLostCall
  BY DEF NoLostCall, Unanswered, HasRequest, Requests
<1> HIDE DEF Calls
<1> QED BY <1>1, <1>2, <1>3, InvHolds, PTL DEF Spec

-------------------------------------------------------------------------------
\* A client past its CLOSE whose VolumeState is still there.
Lingering(c) == pc[c] \in {"destroy", "closed"} /\ vols[c] # Null

LEMMA ClosingStarts ==
  ASSUME Inv, ~CallsMayThrow, NEW d \in Clients, ClientStep(d), NEW c \in Clients,
         pc[c] \notin {"destroy", "closed"}, pc'[c] \in {"destroy", "closed"}
  PROVE  cvbd_close(c)
<1>1. PICK p : Goto(d, p) \/ UNCHANGED pc
  BY NothingThrows DEF ClientStep, Progress, Environment, CtorOpen, CtorCreate, send_open, OpenReturns,
     GetLengthReturns, GetSizeReturns, ReadChunkReturns, ReadReturns, Destroy, WriteChunk,
     send_write, ReadChunk, send_read, IoReturns, ClientAborts, AssertFails, cvbd_open, CtorRemove,
     cvbd_getlength, send_getsize, Misaligned, cvbd_write, cvbd_read, StartIo, cvbd_close,
     send_close, QemuKilled, Die, Send, clientVars
<1>2. d = c /\ pc' = [pc EXCEPT ![c] = p] /\ p = pc'[c]
  BY <1>1 DEF Goto, Inv, TypeOK, ClientTypeOK
<1>3. ~Destroy(c)
  BY DEF Destroy
<1>4. CASE Progress(c)
  BY <1>2, <1>3, <1>4 DEF Progress, CtorOpen, CtorCreate, send_open, OpenReturns, GetLengthReturns,
     GetSizeReturns, ReadChunkReturns, ReadReturns, WriteChunk, send_write, ReadChunk, send_read,
     IoReturns, ClientAborts, AssertFails, Send, Goto, Inv, TypeOK, ClientTypeOK
<1>5. CASE Environment(c)
  BY <1>2, <1>5, NothingThrows DEF Environment, cvbd_open, CtorRemove, cvbd_getlength, send_getsize, Misaligned,
     cvbd_write, cvbd_read, StartIo, QemuKilled, Die, Send, Goto, clientVars, Inv, TypeOK,
     ClientTypeOK
<1> QED BY <1>2, <1>4, <1>5 DEF ClientStep

LEMMA CloseKept ==
  ASSUME Inv, TypeOK', [Next]_vars, ~CallsMayThrow,
         \A c \in Clients : Lingering(c) => HasRequest(c, "REQ_CLOSE"),
         NEW c \in Clients, Lingering(c)'
  PROVE  HasRequest(c, "REQ_CLOSE")'
<1>1. ASSUME NEW d \in Clients, ClientStep(d) PROVE HasRequest(c, "REQ_CLOSE")'
  <2>1. vols[c] # Null /\ UNCHANGED serverVars
    BY <1>1 DEF ClientStep, serverVars, Lingering
  <2>2. Served(c)
    BY <2>1 DEF Inv, ClientInv, VolsInv
  <2>3. CASE pc[c] \in {"destroy", "closed"}
    <3>1. HasRequest(c, "REQ_CLOSE") /\ Requests \subseteq Requests'
      BY <1>1, <2>1, <2>2, <2>3, RequestsStay DEF Lingering, Served
    <3> QED BY <3>1 DEF HasRequest
  <2>4. CASE pc[c] \notin {"destroy", "closed"}
    <3>1. cvbd_close(c)
      BY <1>1, <2>4, ClosingStarts DEF Lingering
    <3>2. PICK m : Send(c, m, "destroy") /\ m.from = c /\ m.type = "REQ_CLOSE"
      BY <3>1 DEF cvbd_close, send_close, CloseRequest, Header
    <3>3. epoch \in Epochs /\ Pending \in Seq(Request)
      BY <2>2, RequestsTypes DEF Inv, Served
    <3>4. Pending' = Append(Pending, m)
      BY <2>1, <2>2, <3>2, <3>3 DEF Send, send_request, Pending, Served, serverVars, Inv, TypeOK,
         QueuesTypeOK
    <3>5. Len(Pending) + 1 \in 1 .. Len(Pending') /\ Pending'[Len(Pending) + 1] = m
      BY <3>3, <3>4
    <3> QED BY <3>2, <3>5 DEF HasRequest, Requests
  <2> QED BY <2>3, <2>4
<1>2. CASE ServerStep
  <2>1. pc' = pc
    BY <1>2 DEF ServerStep, clientVars
  <2>2. vols[c] # Null /\ UNCHANGED epoch /\ \E type : Receive(type)
    <3>1. CASE OpenOk
      <4>1. vols'[c] = vols[c] \/ c = Msg.from
        BY <3>1 DEF OpenOk, Inv, TypeOK, ServerTypeOK
      <4>2. Receive("REQ_OPEN")
        BY <3>1 DEF OpenOk
      <4>3. pc[Msg.from] = "wait_open"
        BY <4>2, Received DEF RequestOK
      <4> QED BY <2>1, <3>1, <4>1, <4>2, <4>3 DEF OpenOk, Lingering
    <3>2. CASE ~OpenOk
      <4>1. ~StartRemove /\ ~StartCreate
        <5>1. server # "up" => vols[c] = Null
          BY DEF Inv, ClientInv, VolsInv, Served
        <5> QED BY <5>1 DEF StartRemove, StartCreate, Lingering
      <4>2. ~Kill /\ ~OpenAborts /\ ~IoAborts
        BY DEF Kill, OpenAborts, IoAborts, Exit, Lingering
      <4> QED
        BY <1>2, <3>2, <4>1, <4>2 DEF ServerStep, ServerNext, handle_requests, open,
           OpenTruncateFails, OpenCreateFails, close, getsize, fsync, write, read, serverVars,
           Lingering
    <3> QED BY <3>1, <3>2
  <2>3. PICK n \in Requests : n.from = c /\ n.type = "REQ_CLOSE"
    BY <2>1, <2>2 DEF Lingering, HasRequest
  <2>4. n # Msg
    <3> SUFFICES ASSUME n = Msg PROVE FALSE
      OBVIOUS
    <3>1. Receive("REQ_CLOSE") /\ \A t : Receive(t) => t = "REQ_CLOSE"
      BY <2>2, <2>3 DEF Receive
    <3>2. RequestOK(n)
      BY <3>1, Received
    <3>3. n.volume = c
      BY <2>3, <3>2 DEF RequestOK
    <3>4. CASE close
      BY <3>3, <3>4 DEF close, Lingering
    <3>5. CASE IoAborts
      BY <3>5 DEF IoAborts, Exit, Lingering
    <3>6. server = "up" /\ vols'[c] # Null
      BY <3>1 DEF Receive, Lingering
    <3> QED
      BY <1>2, <3>1, <3>4, <3>5, <3>6 DEF ServerStep, ServerNext, StartRemove, StartCreate, Kill,
         Exit, handle_requests, open, OpenOk, OpenTruncateFails, OpenCreateFails, OpenAborts,
         getsize, fsync, write, read
  <2>5. n \in Requests'
    BY <2>2, <2>4, RequestsTaken
  <2> QED BY <2>3, <2>5 DEF HasRequest
<1>3. CASE UNCHANGED vars
  BY <1>3 DEF vars, queueVars, serverVars, clientVars, Lingering, HasRequest, Requests, Pending
<1> QED BY <1>1, <1>2, <1>3 DEF Next

(***************************************************************************)
(* Under the same provisos the server keeps a VolumeState only for a       *)
(* client that still uses it, that was killed, or whose CLOSE is still in  *)
(* the queue: closing a volume always frees it, and an open that reports   *)
(* an error leaves nothing behind.                                         *)
(***************************************************************************)
THEOREM NoVolumeIsLeaked ==
  ASSUME Exclusive, "wait_open" \notin KillPoints, ~CallsMayThrow
  PROVE  Spec => []NoVolumeLeak
<1> DEFINE Closing == \A c \in Clients : Lingering(c) => HasRequest(c, "REQ_CLOSE")
<1>1. Init => Closing
  BY DEF Init, ServerInit, Lingering
<1>2. Inv /\ Closing /\ [Next]_vars => Closing'
  <2> SUFFICES ASSUME Inv, Closing, [Next]_vars, NEW c \in Clients, Lingering(c)'
               PROVE  HasRequest(c, "REQ_CLOSE")'
    OBVIOUS
  <2>1. TypeOK'
    BY TypeNext DEF Inv
  <2> QED BY <2>1, CloseKept
<1>3. Inv /\ Closing => NoVolumeLeak
  <2> SUFFICES ASSUME Inv, Closing, NEW c \in Clients, vols[c] # Null, pc[c] \in Gone \ {"killed"}
               PROVE  \E m \in Requests : m.from = c /\ m.type = "REQ_CLOSE"
    BY DEF NoVolumeLeak, Requests
  <2>1. pc[c] = "closed"
    BY DEF Inv, ClientInv, VolsInv, Before, Gone
  <2> QED BY <2>1 DEF Lingering, HasRequest
<1> HIDE DEF Closing
<1> QED BY <1>1, <1>2, <1>3, InvHolds, PTL DEF Spec
===============================================================================
